---------------------------- MODULE MCOptionalSwap ----------------------------
(* Instances of OptionalSwap for TLC; the cfgs give the constants.         *)
EXTENDS SwapInv
===============================================================================
