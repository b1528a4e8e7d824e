---------------------- MODULE MCAuthorizationMiddleware ----------------------
(* Instances of AuthorizationMiddleware for TLC. *)
EXTENDS AuthorizationMiddleware

CONSTANTS r1, r2, audit1, any1, any2

(* audit1 is a LoggingAuthorizationHook; the others are of any class. *)
MCMayAnswer ==
    [h \in Hooks |-> {"NOT_APPLICABLE", "RAISE"} \cup
                      IF h = audit1 THEN {} ELSE {"ALLOW", "DENY"}]

MCSymmetry == Permutations(Hooks \ {audit1}) \cup Permutations(Requests)
==============================================================================
