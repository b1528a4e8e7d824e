------------------------ MODULE AuthorizationMiddleware ------------------------
(***************************************************************************)
(* AuthorizationMiddleware and the `protect` decorator: what happens       *)
(* between the call of a protected operation and its execution.  The       *)
(* wrapper checks the metadata, has the chain of hooks (HookChain.tla)     *)
(* evaluated, writes an audit record and only then raises or calls the     *)
(* operation.  Each of these is a step of its own: calls of other threads  *)
(* and edits of the chain come between them, a hook or the log output may  *)
(* raise, and the operation itself may raise.                              *)
(***************************************************************************)
EXTENDS Integers, FiniteSets, SequencesExt

CONSTANTS
    Requests,          \* the calls of protected operations
    Hooks, NoHook, MayAnswer, MaxChain,
    HooksGiven,        \* a composite was passed to the constructor ...
    GivenDefault,      \* ... and this is its default decision
    FailOpen           \* the fail_open argument

VARIABLES
    chain, verdict, pc, cursor, current, outcome, asked, behind, present,
    malformed,   \* the calls whose metadata lack a resource type or an action
    stage,       \* where the wrapper of r stands
    decision,    \* what check_authorization found for r
    audit,       \* the records written to the log, in order
    executed,    \* the calls whose operation was called
    result       \* how the wrapper of r ended

chainVars == <<chain, verdict, pc, cursor, current, outcome, asked, behind, present>>
wrapperVars == <<malformed, stage, decision, audit, executed, result>>
vars == <<chainVars, wrapperVars>>

(* The default of the composite the middleware ends up with: fail_open is  *)
(* consulted only when the constructor makes the composite itself.         *)
ChainDefault ==
    IF HooksGiven THEN GivenDefault ELSE IF FailOpen THEN "ALLOW" ELSE "DENY"

Chain == INSTANCE HookChain WITH DefaultDecision <- ChainDefault

Stages == {"new", "checking", "logging", "deciding", "calling", "done"}
Results == {"PENDING", "RETURNED", "DENIED", "HOOK_ERROR", "LOG_ERROR", "OPERATION_ERROR"}

ASSUME FlagsAssumption == HooksGiven \in BOOLEAN /\ FailOpen \in BOOLEAN
ASSUME GivenDefaultAssumption == GivenDefault \in Chain!Decisions
ASSUME BoundAssumption == MaxChain \in Nat
ASSUME MayAnswerAssumption == MayAnswer \in [Hooks -> SUBSET Chain!Answers]
ASSUME NoHookAssumption == NoHook \notin Hooks

Init ==
    /\ Chain!Init
    /\ malformed \in SUBSET Requests
    /\ stage = [r \in Requests |-> "new"]
    /\ decision = [r \in Requests |-> "PENDING"]
    /\ audit = <<>>
    /\ executed = {}
    /\ result = [r \in Requests |-> "PENDING"]

-----------------------------------------------------------------------------
GoTo(r, s) == stage' = [stage EXCEPT ![r] = s]

End(r, how) == GoTo(r, "done") /\ result' = [result EXCEPT ![r] = how]

(* register_hook, and hooks.remove_hook through the property of that name. *)
Register(h) == Chain!AddHook(h) /\ UNCHANGED wrapperVars
Deregister(h) == Chain!RemoveHook(h) /\ UNCHANGED wrapperVars

(* Malformed metadata are denied before any hook sees them. *)
RejectMalformed(r) ==
    /\ stage[r] = "new"
    /\ r \in malformed
    /\ decision' = [decision EXCEPT ![r] = "DENY"]
    /\ GoTo(r, "logging")
    /\ UNCHANGED <<chainVars, malformed, audit, executed, result>>

(* Slip: the metadata are not checked. *)
StartUnchecked(r) ==
    /\ stage[r] = "new"
    /\ Chain!Begin(r)
    /\ GoTo(r, "checking")
    /\ UNCHANGED <<malformed, decision, audit, executed, result>>

StartCheck(r) ==
    /\ stage[r] = "new"
    /\ r \notin malformed
    /\ Chain!Begin(r)
    /\ GoTo(r, "checking")
    /\ UNCHANGED <<malformed, decision, audit, executed, result>>

Consult(r) ==
    /\ stage[r] = "checking"
    /\ Chain!Evaluate(r)
    /\ UNCHANGED wrapperVars

(* Slip: an exception is taken for a decision. *)
HooksAnswered(r) ==
    /\ stage[r] = "checking"
    /\ pc[r] = "done"
    /\ decision' = [decision EXCEPT ![r] = outcome[r]]
    /\ GoTo(r, "logging")
    /\ UNCHANGED <<chainVars, malformed, audit, executed, result>>

HooksDecided(r) ==
    /\ stage[r] = "checking"
    /\ pc[r] = "done"
    /\ outcome[r] # "RAISE"
    /\ decision' = [decision EXCEPT ![r] = outcome[r]]
    /\ GoTo(r, "logging")
    /\ UNCHANGED <<chainVars, malformed, audit, executed, result>>

(* Slip: an exception of a hook fails open. *)
HookRaisedAllows(r) ==
    /\ stage[r] = "checking"
    /\ pc[r] = "done"
    /\ outcome[r] = "RAISE"
    /\ decision' = [decision EXCEPT ![r] = "ALLOW"]
    /\ GoTo(r, "logging")
    /\ UNCHANGED <<chainVars, malformed, audit, executed, result>>

(* An exception of a hook passes through the middleware: no record. *)
HookRaised(r) ==
    /\ stage[r] = "checking"
    /\ pc[r] = "done"
    /\ outcome[r] = "RAISE"
    /\ End(r, "HOOK_ERROR")
    /\ UNCHANGED <<chainVars, malformed, decision, audit, executed>>

(* Slip: an undecided or denied call is logged as a success as well. *)
LogEverySuccess(d) == "SUCCESS"

LogOutcome(d) == IF d = "ALLOW" THEN "SUCCESS" ELSE "DENIED"

Record(r) ==
    [request |-> r, decision |-> decision[r], outcome |-> LogOutcome(decision[r]),
     reason |-> IF r \in malformed THEN "malformed_metadata" ELSE "none"]

(* _log_authorization_result; the output may raise instead of writing. *)
WriteRecord(r) ==
    /\ stage[r] = "logging"
    /\ audit' = Append(audit, Record(r))
    /\ GoTo(r, "deciding")
    /\ UNCHANGED <<chainVars, malformed, decision, executed, result>>

(* Slip: an exception of the log output is swallowed. *)
LogFailureIgnored(r) ==
    /\ stage[r] = "logging"
    /\ GoTo(r, "deciding")
    /\ UNCHANGED <<chainVars, malformed, decision, audit, executed, result>>

LogRaised(r) ==
    /\ stage[r] = "logging"
    /\ End(r, "LOG_ERROR")
    /\ UNCHANGED <<chainVars, malformed, decision, audit, executed>>

(* require_authorization raises AuthorizationApiError for all but ALLOW. *)
Refuse(r) ==
    /\ stage[r] = "deciding"
    /\ decision[r] # "ALLOW"
    /\ End(r, "DENIED")
    /\ UNCHANGED <<chainVars, malformed, decision, audit, executed>>

(* The wrapper calls the protected operation. *)
Execute(r) ==
    /\ stage[r] = "deciding"
    /\ decision[r] = "ALLOW"
    /\ executed' = executed \cup {r}
    /\ GoTo(r, "calling")
    /\ UNCHANGED <<chainVars, malformed, decision, audit, result>>

OperationEnds(r) ==
    /\ stage[r] = "calling"
    /\ \E how \in {"RETURNED", "OPERATION_ERROR"} : End(r, how)
    /\ UNCHANGED <<chainVars, malformed, decision, audit, executed>>

-----------------------------------------------------------------------------
Wrapper(r) ==
    \/ RejectMalformed(r) \/ StartCheck(r) \/ Consult(r)
    \/ HooksDecided(r) \/ HookRaised(r)
    \/ WriteRecord(r) \/ LogRaised(r)
    \/ Refuse(r) \/ Execute(r) \/ OperationEnds(r)

AddOnlyNext == (\E h \in Hooks : Register(h)) \/ (\E r \in Requests : Wrapper(r))
Next == AddOnlyNext \/ (\E h \in Hooks : Deregister(h))

Spec == Init /\ [][Next]_vars
AddOnlySpec == Init /\ [][AddOnlyNext]_vars

(* Each call runs in a thread of its own that the interpreter schedules;   *)
(* hooks, log output and operation return or raise.                        *)
FairSpec == Spec /\ \A r \in Requests : WF_vars(Wrapper(r))

-----------------------------------------------------------------------------
(* Type invariant of the middleware; HookChain has its own for the chain. *)
TypeOK ==
    /\ malformed \subseteq Requests
    /\ stage \in [Requests -> Stages]
    /\ decision \in [Requests -> Chain!Decisions \cup {"PENDING"}]
    /\ audit \in Seq([request : Requests, decision : Chain!Decisions,
                      outcome : {"SUCCESS", "DENIED"},
                      reason : {"malformed_metadata", "none"}])
    /\ executed \subseteq Requests
    /\ result \in [Requests -> Results]

RecordsOf(r) == {k \in DOMAIN audit : audit[k].request = r}

(* The log tells what happened: a call has at most one record; an executed *)
(* operation was recorded as allowed before it was called, whatever other  *)
(* calls wrote meanwhile, and a refused call was recorded as denied; a     *)
(* call leaves no record only if a hook or the log output raised, and then *)
(* its operation was not executed.                                         *)
AuditTellsTheTruth ==
    \A r \in Requests :
        /\ Cardinality(RecordsOf(r)) <= 1
        /\ r \in executed => \E k \in RecordsOf(r) : audit[k].outcome = "SUCCESS"
        /\ result[r] = "DENIED" => \E k \in RecordsOf(r) : audit[k].outcome = "DENIED"
        /\ result[r] \in {"HOOK_ERROR", "LOG_ERROR"} => RecordsOf(r) = {} /\ r \notin executed

Abstained(r, n) == \A i \in 1..n : verdict[r][asked[r][i]] = "NOT_APPLICABLE"

(* Complete mediation: an operation is executed only for a well formed     *)
(* call of which the last hook consulted said ALLOW after all those before *)
(* it abstained, or of which every hook consulted abstained under a        *)
(* default of ALLOW.  It holds however the chain is edited meanwhile.      *)
ExecutedWasAllowed ==
    \A r \in executed :
        /\ r \notin malformed
        /\ LET n == Len(asked[r])
           IN  \/ n > 0 /\ verdict[r][asked[r][n]] = "ALLOW" /\ Abstained(r, n - 1)
               \/ ChainDefault = "ALLOW" /\ Abstained(r, n)

(* The decision and the call of the operation are several steps apart.     *)
(* While hooks are only added and the default is not ALLOW, the chain      *)
(* still allows the call at the moment the operation is called: a decision *)
(* that was made cannot become stale.                                      *)
Monitor == INSTANCE ReferenceMonitor WITH DefaultDecision <- ChainDefault
ImplementsMonitor == Monitor!MonitorSpec

(* Inside of the wrapper, too, an evaluation of the chain answers as if    *)
(* all its hooks had been asked at one moment, while hooks are only added. *)
ImplementsAtomic == Chain!ImplementsAtomic

(* Every call of a protected operation ends, by returning or by raising,   *)
(* and a call recorded as allowed does get its operation executed.         *)
EveryCallEnds ==
    \A r \in Requests :
        /\ stage[r] # "new" ~> stage[r] = "done"
        /\ (\E k \in RecordsOf(r) : audit[k].outcome = "SUCCESS") ~> r \in executed
==============================================================================
