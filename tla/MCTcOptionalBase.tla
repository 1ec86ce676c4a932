--------------------------- MODULE MCTcOptionalBase ---------------------------
(* Instances of TcOptionalBase for TLC; the cfgs give the constants.       *)
EXTENDS TcOptionalBase
===============================================================================
