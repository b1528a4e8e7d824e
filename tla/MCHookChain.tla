----------------------------- MODULE MCHookChain -----------------------------
(* Instances of HookChain for TLC. *)
EXTENDS HookChain

CONSTANTS r1, r2, audit, any1, any2

(* audit is a LoggingAuthorizationHook; the others are of any class. *)
MCMayAnswer ==
    [h \in Hooks |-> LoggingAnswers \cup
                      IF h = audit THEN {} ELSE PassThroughAnswers \cup {"DENY"}]

(* Requests are interchangeable, and so are the hooks of any class. *)
MCSymmetry == Permutations(Hooks \ {audit}) \cup Permutations(Requests)
==============================================================================
