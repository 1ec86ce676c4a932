---------------------------- MODULE MCUnionOptional ----------------------------
(* Instances of UnionOptional for TLC; the cfgs give the constants.        *)
EXTENDS UnionOptional, ContractInv
================================================================================
