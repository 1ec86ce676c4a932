-------------------------- MODULE MCOptionalMonadic --------------------------
(* Instances of OptionalMonadic for TLC; the cfgs give the constants.      *)
EXTENDS OptionalMonadic, TLC

(* No definition tells one optional from another: the optional that the    *)
(* initial state names as that of a call before the first is never used.   *)
Symmetry == Permutations(Opts)
==============================================================================
