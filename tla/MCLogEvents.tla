----------------------------- MODULE MCLogEvents -----------------------------
(* Instances of LogEvents for TLC. *)
EXTENDS LogEvents

CONSTANTS w1, c1, c2, c3, t1, t2

MCContexts == {[id |-> c1, tenant |-> t1],
               [id |-> c2, tenant |-> t2], [id |-> c3, tenant |-> NoTenant]}

MCChanges == {<<"key", "secret">>, <<"sensitive", "item", "plain">>}
==============================================================================
