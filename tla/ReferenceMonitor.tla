--------------------------- MODULE ReferenceMonitor ---------------------------
(***************************************************************************)
(* What protecting an operation promises: the operation is executed only   *)
(* by a well formed call, at most once per call, and only in a state in    *)
(* which the chain of hooks, as it is registered at that moment, allows    *)
(* the call.                                                               *)
(***************************************************************************)
EXTENDS AtomicHookChain

VARIABLES
    malformed,   \* the calls whose operation lacks a resource type or an action
    executed     \* the calls whose operation has been executed

monitorVars == <<chain, verdict, malformed, executed>>

MonitorInit ==
    /\ chain \in BoundedSeq(Hooks, MaxChain)
    /\ verdict \in [Requests -> Policies]
    /\ malformed \in SUBSET Requests
    /\ executed = {}

Register(h) ==
    /\ Len(chain) < MaxChain
    /\ chain' = Append(chain, h)
    /\ UNCHANGED <<verdict, malformed, executed>>

Execute(r) ==
    /\ r \notin malformed \cup executed
    /\ FirstDecisive(chain, verdict[r]) = "ALLOW"
    /\ executed' = executed \cup {r}
    /\ UNCHANGED <<chain, verdict, malformed>>

MonitorNext == (\E h \in Hooks : Register(h)) \/ (\E r \in Requests : Execute(r))

MonitorSpec == MonitorInit /\ [][MonitorNext]_monitorVars
==============================================================================
