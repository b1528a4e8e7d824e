---------------------------- MODULE MCDefaultMapper ----------------------------
(* Instances of DefaultMapper for TLC. *)
EXTENDS DefaultMapper

CONSTANTS c1, c2
==============================================================================
