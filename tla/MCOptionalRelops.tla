--------------------------- MODULE MCOptionalRelops ---------------------------
(* Instances of OptionalRelops for TLC; the cfgs give the constants.       *)
EXTENDS OptionalRelops
===============================================================================
