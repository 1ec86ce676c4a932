---------------------------- MODULE MCOptionalBase ----------------------------
(* Instances of OptionalBase for TLC; the cfgs give the constants.         *)
EXTENDS OptionalBase, ContractInv
===============================================================================
