----------------------------- MODULE MCOptionalIO -----------------------------
(* Instances of OptionalIO for TLC; the cfgs give the constants.           *)
EXTENDS OptionalIO
===============================================================================
