-------------------------- MODULE MCValidationChain --------------------------
(* Instances of ValidationChain for TLC. *)
EXTENDS ValidationChain

CONSTANTS r1, v1, v2
==============================================================================
