--------------------- MODULE AuthorizationMiddleware_proofs ---------------------
(***************************************************************************)
(* Theorems about the wrapper of protected operations, for every set of    *)
(* calls and of hooks, every policy of the hooks and every way to          *)
(* configure the default.  What is known of the chain of hooks             *)
(* (HookChain_proofs.tla) is used here by its name.                        *)
(***************************************************************************)
EXTENDS AuthorizationMiddleware, SequenceTheorems, FiniteSetTheorems, TLAPS

ChainProofs == INSTANCE HookChain_proofs WITH DefaultDecision <- ChainDefault

-----------------------------------------------------------------------------
(* The default the constructor settles on is a decision: the chain inside  *)
(* of the middleware is configured as the theorems about chains assume.    *)
LEMMA ChainConfigured ==
    /\ ChainDefault \in ChainProofs!Decisions
    /\ MayAnswer \in [Hooks -> SUBSET ChainProofs!Answers]
    /\ MaxChain \in Nat
    /\ NoHook \notin Hooks
<1>1. ChainDefault \in ChainProofs!Decisions
  BY FlagsAssumption, GivenDefaultAssumption
  DEF ChainDefault, Chain!Decisions, Chain!Atomic!Decisions,
      ChainProofs!Decisions, ChainProofs!Atomic!Decisions
<1>2. MayAnswer \in [Hooks -> SUBSET ChainProofs!Answers]
  BY MayAnswerAssumption
  DEF Chain!Answers, Chain!Atomic!Answers, Chain!Atomic!Decisions,
      ChainProofs!Answers, ChainProofs!Atomic!Answers, ChainProofs!Atomic!Decisions
<1> QED BY <1>1, <1>2, BoundAssumption, NoHookAssumption

(* The middleware begins with a chain as the constructor leaves it. *)
LEMMA ChainInit == Init => ChainProofs!Init
  BY DEF Init, Chain!Init, ChainProofs!Init, Chain!Atomic!Policies, ChainProofs!Atomic!Policies,
         Chain!Atomic!Answers, ChainProofs!Atomic!Answers,
         Chain!Atomic!Decisions, ChainProofs!Atomic!Decisions,
         Chain!Answers, ChainProofs!Answers, Chain!BoundedSeq, Chain!SeqOf,
         ChainProofs!BoundedSeq, ChainProofs!SeqOf

(* A step of the wrapper or of a registration is a step of the chain or    *)
(* leaves the chain alone.                                                 *)
LEMMA ChainStep ==
    /\ [Next]_vars => [ChainProofs!Next]_(ChainProofs!vars)
    /\ [AddOnlyNext]_vars => [ChainProofs!AddOnlyNext]_(ChainProofs!vars)
<1> USE DEF Chain!evaluation, ChainProofs!evaluation, ChainProofs!vars, chainVars,
            Chain!ToSet, ChainProofs!ToSet
<1>1. ASSUME NEW h \in Hooks, Register(h) PROVE ChainProofs!AddHook(h)
  BY <1>1 DEF Register, Chain!AddHook, ChainProofs!AddHook
<1>2. ASSUME NEW h \in Hooks, Deregister(h) PROVE ChainProofs!RemoveHook(h)
  BY <1>2 DEF Deregister, Chain!RemoveHook, ChainProofs!RemoveHook, Chain!RemoveAt, ChainProofs!RemoveAt
<1>3. ASSUME NEW r \in Requests, StartCheck(r) PROVE ChainProofs!Begin(r)
  BY <1>3 DEF StartCheck, Chain!Begin, ChainProofs!Begin
<1>4. ASSUME NEW r \in Requests, Consult(r) PROVE ChainProofs!Evaluate(r)
  BY <1>4 DEF Consult, Chain!Evaluate, Chain!Fetch, Chain!Abstain, Chain!Answer, Chain!Exhaust,
              ChainProofs!Evaluate, ChainProofs!Fetch, ChainProofs!Abstain, ChainProofs!Answer,
              ChainProofs!Exhaust
<1>5. ASSUME NEW r \in Requests, Wrapper(r), ~StartCheck(r), ~Consult(r)
      PROVE  UNCHANGED chainVars
  BY <1>5 DEF Wrapper, RejectMalformed, HooksDecided, HookRaised, WriteRecord, LogRaised,
              Refuse, Execute, OperationEnds
<1>6. ASSUME UNCHANGED vars PROVE UNCHANGED chainVars
  BY <1>6 DEF vars
<1>7. [AddOnlyNext]_vars => [ChainProofs!AddOnlyNext]_(ChainProofs!vars)
  BY <1>1, <1>3, <1>4, <1>5, <1>6 DEF AddOnlyNext, ChainProofs!AddOnlyNext
<1>8. [Next]_vars => [ChainProofs!Next]_(ChainProofs!vars)
  BY <1>2, <1>7, <1>6 DEF Next, ChainProofs!Next
<1> QED BY <1>7, <1>8

(* Every behaviour of the middleware is one of the chain it holds. *)
LEMMA ChainBehaves ==
    /\ Spec => ChainProofs!Spec
    /\ AddOnlySpec => ChainProofs!AddOnlySpec
  BY ChainInit, ChainStep, PTL DEF Spec, AddOnlySpec, ChainProofs!Spec, ChainProofs!AddOnlySpec

(* Whatever the calls and the edits do, the chain keeps its types. *)
LEMMA ChainTyped == Spec => []ChainProofs!TypeOK
<1>1. ChainProofs!Spec => []ChainProofs!TypeOK
  BY ChainConfigured, ChainProofs!TypeCorrect
<1> QED BY <1>1, ChainBehaves

-----------------------------------------------------------------------------
(* What is known of a call at each stage of its wrapper: while the hooks   *)
(* are consulted it is well formed and undecided; afterwards its decision  *)
(* is DENY if it is malformed and else what the chain answered.            *)
Undecided(r) == decision[r] = "PENDING" /\ r \notin executed

Decided(r) ==
    \/ r \in malformed /\ decision[r] = "DENY"
    \/ r \notin malformed /\ pc[r] = "done" /\ decision[r] = outcome[r]

StagesInOrder ==
    \A r \in Requests :
        /\ stage[r] = "new" => pc[r] = "idle" /\ Undecided(r)
        /\ stage[r] = "checking" => pc[r] # "idle" /\ r \notin malformed /\ Undecided(r)
        /\ stage[r] \in {"logging", "deciding"} =>
              Decided(r) /\ decision[r] \in Chain!Decisions /\ r \notin executed
        /\ r \in executed => Decided(r) /\ decision[r] = "ALLOW"
        /\ stage[r] = "calling" => r \in executed

(* What an evaluation has asked justifies where it stands: the hooks it    *)
(* left abstained, and an outcome is that of the last hook it asked, or    *)
(* the default if that one abstained as well.                              *)
Justified ==
    \A r \in Requests :
        LET n == Len(asked[r])
            lastAnswers(a) == n > 0 /\ verdict[r][asked[r][n]] = a /\ Abstained(r, n - 1)
        IN  /\ pc[r] \in {"idle", "scan"} => Abstained(r, n)
            /\ pc[r] = "asking" => /\ n > 0 /\ asked[r][n] = current[r]
                                   /\ Abstained(r, n - 1)
            /\ pc[r] = "done" => \/ outcome[r] = ChainDefault /\ Abstained(r, n)
                                 \/ lastAnswers(outcome[r])

MediationInv == ChainProofs!TypeOK /\ TypeOK /\ StagesInOrder /\ Justified

(* What the log holds of a call at each stage of its wrapper. *)
OneRecord(r) ==
    \E k \in DOMAIN audit :
        RecordsOf(r) = {k} /\ audit[k].outcome = LogOutcome(decision[r])

RecordsFollowStages ==
    \A r \in Requests :
        /\ stage[r] # "done" => result[r] = "PENDING"
        /\ stage[r] \in {"new", "checking", "logging"} => RecordsOf(r) = {}
        /\ stage[r] \in {"deciding", "calling"} => OneRecord(r)
        /\ result[r] \in {"HOOK_ERROR", "LOG_ERROR"} => RecordsOf(r) = {} /\ r \notin executed
        /\ result[r] = "DENIED" => OneRecord(r) /\ decision[r] # "ALLOW"
        /\ result[r] \in {"RETURNED", "OPERATION_ERROR"} => OneRecord(r)
        /\ stage[r] = "done" => result[r] # "PENDING"
        /\ r \in executed => stage[r] \in {"calling", "done"} /\ OneRecord(r)

(* No step of the chain, of this call or another, unjustifies an evaluation. *)
LEMMA JustifiedStep ==
    ChainProofs!TypeOK /\ Justified /\ [ChainProofs!Next]_(ChainProofs!vars) => Justified'
<1> SUFFICES ASSUME ChainProofs!TypeOK, Justified, [ChainProofs!Next]_(ChainProofs!vars)
             PROVE  Justified'
  OBVIOUS
<1> USE DEF Justified, Abstained
<1>0. /\ pc \in [Requests -> {"idle", "scan", "asking", "done"}]
      /\ current \in [Requests -> Hooks \cup {NoHook}]
      /\ outcome \in [Requests -> ChainProofs!Answers \cup {"PENDING"}]
      /\ asked \in [Requests -> Seq(Hooks)]
      /\ \A r \in Requests : Len(asked[r]) \in Nat
  BY LenProperties DEF ChainProofs!TypeOK
<1>1. ASSUME UNCHANGED <<verdict, pc, current, outcome, asked>> PROVE Justified'
  BY <1>1
<1>2. ASSUME NEW r \in Requests, ChainProofs!Begin(r) PROVE Justified'
  BY <1>0, <1>2 DEF ChainProofs!Begin
<1>3. ASSUME NEW r \in Requests, ChainProofs!Fetch(r) PROVE Justified'
  <2> DEFINE h == chain[cursor[r] + 1]
  <2>1. /\ pc[r] = "scan"
        /\ pc' = [pc EXCEPT ![r] = "asking"]
        /\ current' = [current EXCEPT ![r] = h]
        /\ asked' = [asked EXCEPT ![r] = Append(asked[r], h)]
        /\ UNCHANGED <<verdict, outcome>>
    BY <1>3 DEF ChainProofs!Fetch
  <2>2. h \in Hooks
    BY <1>3, LenProperties, ElementOfSeq DEF ChainProofs!Fetch, ChainProofs!TypeOK
  <2>3. /\ Len(asked'[r]) = Len(asked[r]) + 1
        /\ \A i \in 1..Len(asked[r]) : asked'[r][i] = asked[r][i]
        /\ asked'[r][Len(asked[r]) + 1] = h
    BY <1>0, <2>1, <2>2, AppendProperties
  <2>4. \A q \in Requests \ {r} : pc'[q] = pc[q] /\ current'[q] = current[q] /\ asked'[q] = asked[q]
    BY <1>0, <2>1
  <2>5. pc'[r] = "asking" /\ current'[r] = h
    BY <1>0, <2>1
  <2>6. Abstained(r, Len(asked[r]))
    BY <2>1
  <2>7. \A i \in 1..(Len(asked'[r]) - 1) : verdict'[r][asked'[r][i]] = "NOT_APPLICABLE"
    BY <1>0, <2>1, <2>3, <2>6
  <2> HIDE DEF h
  <2> QED BY <1>0, <2>1, <2>3, <2>4, <2>5, <2>7
<1>4. ASSUME NEW r \in Requests, ChainProofs!Abstain(r) PROVE Justified'
  BY <1>0, <1>4 DEF ChainProofs!Abstain
<1>5. ASSUME NEW r \in Requests, ChainProofs!Answer(r) PROVE Justified'
  BY <1>0, <1>5 DEF ChainProofs!Answer
<1>6. ASSUME NEW r \in Requests, ChainProofs!Exhaust(r) PROVE Justified'
  BY <1>0, <1>6 DEF ChainProofs!Exhaust
<1>7. ASSUME NEW h \in Hooks, ChainProofs!AddHook(h) \/ ChainProofs!RemoveHook(h)
      PROVE  UNCHANGED <<verdict, pc, current, outcome, asked>>
  BY <1>7 DEF ChainProofs!AddHook, ChainProofs!RemoveHook, ChainProofs!evaluation
<1>8. ASSUME UNCHANGED ChainProofs!vars PROVE UNCHANGED <<verdict, pc, current, outcome, asked>>
  BY <1>8 DEF ChainProofs!vars
<1> QED
  BY <1>1, <1>2, <1>3, <1>4, <1>5, <1>6, <1>7, <1>8
  DEF ChainProofs!Next, ChainProofs!AddOnlyNext, ChainProofs!Evaluate

(* An evaluation that has returned did so with an answer. *)
LEMMA DoneHasAnswered ==
    ASSUME ChainProofs!TypeOK, Justified, NEW r \in Requests, pc[r] = "done"
    PROVE  outcome[r] \in Chain!Decisions \cup {"RAISE"}
<1>1. CASE outcome[r] = ChainDefault
  BY <1>1, ChainConfigured DEF ChainProofs!Decisions, ChainProofs!Atomic!Decisions,
                               Chain!Decisions, Chain!Atomic!Decisions
<1>2. CASE Len(asked[r]) > 0 /\ verdict[r][asked[r][Len(asked[r])]] = outcome[r]
  <2>1. asked[r] \in Seq(Hooks) /\ Len(asked[r]) \in Nat
    BY LenProperties DEF ChainProofs!TypeOK
  <2>2. asked[r][Len(asked[r])] \in Hooks
    BY <1>2, <2>1, ElementOfSeq
  <2>3. outcome[r] \in ChainProofs!Answers
    BY <1>2, <2>2 DEF ChainProofs!TypeOK
  <2> QED BY <2>3 DEF ChainProofs!Answers, ChainProofs!Atomic!Answers,
                      ChainProofs!Atomic!Decisions, Chain!Decisions, Chain!Atomic!Decisions
<1> QED BY <1>1, <1>2 DEF Justified

(* The wrapper's invariant is preserved by every step. *)
LEMMA MediationStep ==
    MediationInv /\ [Next]_vars /\ ChainProofs!TypeOK' => MediationInv'
<1> SUFFICES ASSUME MediationInv, [Next]_vars, ChainProofs!TypeOK'
             PROVE  TypeOK' /\ StagesInOrder' /\ Justified'
  BY DEF MediationInv
<1>1. Justified'
  BY ChainStep, JustifiedStep DEF MediationInv
<1>2. ASSUME UNCHANGED wrapperVars,
             \A q \in Requests : pc'[q] = pc[q] /\ outcome'[q] = outcome[q]
      PROVE  TypeOK' /\ StagesInOrder'
  BY <1>2 DEF MediationInv, TypeOK, StagesInOrder, Undecided, Decided, wrapperVars
<1>3. ASSUME NEW h \in Hooks, Register(h) \/ Deregister(h) PROVE TypeOK' /\ StagesInOrder'
  BY <1>2, <1>3 DEF Register, Deregister, Chain!AddHook, Chain!RemoveHook, Chain!evaluation
<1>4. CASE UNCHANGED vars
  BY <1>1, <1>2, <1>4 DEF vars, chainVars
<1>5. ASSUME NEW r \in Requests, Wrapper(r) PROVE TypeOK' /\ StagesInOrder'
  <2> USE DEF MediationInv, TypeOK, Stages, Results
  <2>0. \A q \in Requests \ {r} : pc'[q] = pc[q] /\ outcome'[q] = outcome[q]
    <3> SUFFICES ASSUME NEW q \in Requests \ {r}
                 PROVE  pc'[q] = pc[q] /\ outcome'[q] = outcome[q]
      OBVIOUS
    <3>1. CASE StartCheck(r)
      BY <3>1 DEF StartCheck, Chain!Begin, ChainProofs!TypeOK
    <3>2. CASE Consult(r)
      <4>1. CASE Chain!Fetch(r)
        BY <4>1 DEF Chain!Fetch, ChainProofs!TypeOK
      <4>2. CASE Chain!Abstain(r)
        BY <4>2 DEF Chain!Abstain, ChainProofs!TypeOK
      <4>3. CASE Chain!Answer(r)
        BY <4>3 DEF Chain!Answer, ChainProofs!TypeOK
      <4>4. CASE Chain!Exhaust(r)
        BY <4>4 DEF Chain!Exhaust, ChainProofs!TypeOK
      <4> QED BY <3>2, <4>1, <4>2, <4>3, <4>4 DEF Consult, Chain!Evaluate
    <3>3. CASE ~StartCheck(r) /\ ~Consult(r)
      BY <1>5, <3>3 DEF Wrapper, RejectMalformed, HooksDecided, HookRaised, WriteRecord,
                        LogRaised, Refuse, Execute, OperationEnds, chainVars
    <3> QED BY <3>1, <3>2, <3>3
  <2>1. CASE RejectMalformed(r)
    <3>1. TypeOK'
      BY <2>1 DEF RejectMalformed, GoTo, Chain!Decisions, Chain!Atomic!Decisions
    <3>2. StagesInOrder'
      BY <2>0, <2>1 DEF RejectMalformed, GoTo, StagesInOrder, Undecided, Decided, chainVars,
                        Chain!Decisions, Chain!Atomic!Decisions
    <3> QED BY <3>1, <3>2
  <2>2. CASE StartCheck(r)
    <3>1. TypeOK'
      BY <2>2 DEF StartCheck, GoTo
    <3>2. pc'[r] # "idle" /\ r \notin malformed
      BY <2>2 DEF StartCheck, Chain!Begin, ChainProofs!TypeOK
    <3>3. stage' = [stage EXCEPT ![r] = "checking"] /\ UNCHANGED <<malformed, decision, executed>>
      BY <2>2 DEF StartCheck, GoTo
    <3>4. Undecided(r)
      BY <2>2 DEF StartCheck, StagesInOrder
    <3>5. StagesInOrder'
      BY <2>0, <3>2, <3>3, <3>4 DEF StagesInOrder, Undecided, Decided
    <3> QED BY <3>1, <3>5
  <2>3. CASE Consult(r)
    <3>1. UNCHANGED wrapperVars /\ stage[r] = "checking"
      BY <2>3 DEF Consult
    <3>2. pc'[r] # "idle"
      BY <2>3 DEF Consult, Chain!Evaluate, Chain!Fetch, Chain!Abstain, Chain!Answer,
                  Chain!Exhaust, ChainProofs!TypeOK
    <3>3. TypeOK'
      BY <3>1 DEF wrapperVars
    <3>4. StagesInOrder'
      BY <2>0, <3>1, <3>2 DEF StagesInOrder, Undecided, Decided, wrapperVars
    <3> QED BY <3>3, <3>4
  <2>4. CASE HooksDecided(r)
    <3>1. outcome[r] \in Chain!Decisions
      BY <2>4, DoneHasAnswered DEF HooksDecided
    <3>2. TypeOK'
      BY <2>4, <3>1 DEF HooksDecided, GoTo
    <3>3. StagesInOrder'
      BY <2>0, <2>4, <3>1 DEF HooksDecided, GoTo, StagesInOrder, Undecided, Decided, chainVars
    <3> QED BY <3>2, <3>3
  <2>5. CASE HookRaised(r)
    <3>1. TypeOK'
      BY <2>5 DEF HookRaised, End, GoTo
    <3>2. StagesInOrder'
      BY <2>0, <2>5 DEF HookRaised, End, GoTo, StagesInOrder, Undecided, Decided, chainVars
    <3> QED BY <3>1, <3>2
  <2>6. CASE WriteRecord(r)
    <3>1. Record(r) \in [request : Requests, decision : Chain!Decisions,
                         outcome : {"SUCCESS", "DENIED"},
                         reason : {"malformed_metadata", "none"}]
      BY <2>6 DEF WriteRecord, Record, LogOutcome, StagesInOrder
    <3>2. audit' \in Seq([request : Requests, decision : Chain!Decisions,
                          outcome : {"SUCCESS", "DENIED"},
                          reason : {"malformed_metadata", "none"}])
      BY <2>6, <3>1, AppendProperties DEF WriteRecord
    <3>3. TypeOK'
      BY <2>6, <3>2 DEF WriteRecord, GoTo
    <3>4. StagesInOrder'
      BY <2>0, <2>6 DEF WriteRecord, GoTo, StagesInOrder, Undecided, Decided, chainVars
    <3> QED BY <3>3, <3>4
  <2>7. CASE LogRaised(r)
    <3>1. TypeOK'
      BY <2>7 DEF LogRaised, End, GoTo
    <3>2. StagesInOrder'
      BY <2>0, <2>7 DEF LogRaised, End, GoTo, StagesInOrder, Undecided, Decided, chainVars
    <3> QED BY <3>1, <3>2
  <2>8. CASE Refuse(r)
    <3>1. TypeOK'
      BY <2>8 DEF Refuse, End, GoTo
    <3>2. StagesInOrder'
      BY <2>0, <2>8 DEF Refuse, End, GoTo, StagesInOrder, Undecided, Decided, chainVars
    <3> QED BY <3>1, <3>2
  <2>9. CASE Execute(r)
    <3>1. TypeOK'
      BY <2>9 DEF Execute, GoTo
    <3>2. StagesInOrder'
      BY <2>0, <2>9 DEF Execute, GoTo, StagesInOrder, Undecided, Decided, chainVars
    <3> QED BY <3>1, <3>2
  <2>10. CASE OperationEnds(r)
    <3>1. TypeOK'
      BY <2>10 DEF OperationEnds, End, GoTo
    <3>2. StagesInOrder'
      BY <2>0, <2>10 DEF OperationEnds, End, GoTo, StagesInOrder, Undecided, Decided, chainVars
    <3> QED BY <3>1, <3>2
  <2> QED
    BY <1>5, <2>1, <2>2, <2>3, <2>4, <2>5, <2>6, <2>7, <2>8, <2>9, <2>10 DEF Wrapper
<1> QED BY <1>1, <1>3, <1>4, <1>5 DEF Next, AddOnlyNext

(* The wrapper's invariant holds before the first call. *)
LEMMA MediationInit == Init /\ ChainProofs!TypeOK => MediationInv
<1> SUFFICES ASSUME Init, ChainProofs!TypeOK PROVE MediationInv
  OBVIOUS
<1>1. /\ pc = [r \in Requests |-> "idle"]
      /\ asked = [r \in Requests |-> <<>>]
  BY DEF Init, Chain!Init
<1>2. TypeOK
  BY DEF Init, TypeOK, Stages, Results
<1>3. StagesInOrder
  BY <1>1 DEF Init, StagesInOrder, Undecided
<1>4. Justified
  BY <1>1 DEF Justified, Abstained
<1> QED BY <1>2, <1>3, <1>4 DEF MediationInv

LEMMA MediationInvariant == Spec => []MediationInv
  BY ChainTyped, MediationInit, MediationStep, PTL DEF Spec

(* The wrapper keeps its types: it logs only decisions, and decides only   *)
(* what its chain answered.                                                *)
THEOREM TypeCorrect == Spec => []TypeOK
  BY MediationInvariant, PTL DEF MediationInv

(* Complete mediation, for every chain however it is edited while calls    *)
(* are under way: a protected operation is executed only for a well formed *)
(* call whose last consulted hook said ALLOW after all before it           *)
(* abstained, or all of whose consulted hooks abstained under a default of *)
(* ALLOW.                                                                  *)
THEOREM CompleteMediation == Spec => []ExecutedWasAllowed
<1>1. MediationInv => ExecutedWasAllowed
  <2> SUFFICES ASSUME MediationInv, NEW r \in executed
               PROVE  /\ r \notin malformed
                      /\ LET n == Len(asked[r])
                         IN  \/ n > 0 /\ verdict[r][asked[r][n]] = "ALLOW" /\ Abstained(r, n - 1)
                             \/ ChainDefault = "ALLOW" /\ Abstained(r, n)
    BY DEF ExecutedWasAllowed
  <2>1. r \in Requests
    BY DEF MediationInv, TypeOK
  <2>2. r \notin malformed /\ pc[r] = "done" /\ outcome[r] = "ALLOW"
    BY <2>1 DEF MediationInv, StagesInOrder, Decided
  <2> QED BY <2>1, <2>2 DEF MediationInv, Justified
<1> QED BY <1>1, MediationInvariant, PTL

-----------------------------------------------------------------------------
AuditInv == MediationInv /\ RecordsFollowStages

(* A step that writes nothing leaves the records of a call as they are. *)
LEMMA SameRecords ==
    ASSUME UNCHANGED audit, NEW r \in Requests
    PROVE  /\ RecordsOf(r)' = RecordsOf(r)
           /\ decision'[r] = decision[r] => (OneRecord(r)' <=> OneRecord(r))
  BY DEF RecordsOf, OneRecord

(* Writing the record of a call gives it one more, and others none. *)
LEMMA RecordAdded ==
    ASSUME MediationInv, NEW r \in Requests, WriteRecord(r)
    PROVE  /\ RecordsOf(r) = {} => OneRecord(r)'
           /\ \A q \in Requests \ {r} :
                 /\ RecordsOf(q)' = RecordsOf(q)
                 /\ OneRecord(q) => OneRecord(q)'
<1> DEFINE n == Len(audit)
<1>1. n \in Nat /\ DOMAIN audit = 1..n
  BY LenProperties DEF MediationInv, TypeOK
<1>2. /\ DOMAIN audit' = 1..(n + 1)
      /\ \A k \in 1..n : audit'[k] = audit[k]
      /\ audit'[n + 1] = Record(r)
      /\ UNCHANGED decision
  <2>1. Record(r) \in [request : Requests, decision : Chain!Decisions,
                       outcome : {"SUCCESS", "DENIED"},
                       reason : {"malformed_metadata", "none"}]
    BY DEF MediationInv, StagesInOrder, WriteRecord, Record, LogOutcome
  <2>2. audit' = Append(audit, Record(r)) /\ UNCHANGED decision
    BY DEF WriteRecord
  <2> QED BY <1>1, <2>1, <2>2, AppendProperties, LenProperties DEF MediationInv, TypeOK
<1>3. Record(r).request = r /\ Record(r).outcome = LogOutcome(decision[r])
  BY DEF Record
<1> HIDE DEF n
<1>4. ASSUME RecordsOf(r) = {} PROVE OneRecord(r)'
  <2>1. RecordsOf(r)' = {n + 1}
    BY <1>1, <1>2, <1>3, <1>4 DEF RecordsOf
  <2>2. LogOutcome(decision[r])' = LogOutcome(decision[r])
    BY <1>2 DEF LogOutcome
  <2> QED BY <1>1, <1>2, <1>3, <2>1, <2>2 DEF OneRecord
<1>5. ASSUME NEW q \in Requests \ {r}
      PROVE  RecordsOf(q)' = RecordsOf(q) /\ (OneRecord(q) => OneRecord(q)')
  <2>1. RecordsOf(q)' = RecordsOf(q)
    BY <1>1, <1>2, <1>3 DEF RecordsOf
  <2>2. ASSUME NEW k \in DOMAIN audit PROVE k \in DOMAIN audit' /\ audit'[k] = audit[k]
    BY <1>1, <1>2
  <2> QED BY <1>2, <2>1, <2>2 DEF OneRecord, LogOutcome
<1> QED BY <1>4, <1>5

(* Every step keeps the log in step with the stages of the wrappers. *)
LEMMA AuditStep ==
    AuditInv /\ [Next]_vars => RecordsFollowStages'
<1> SUFFICES ASSUME AuditInv, [Next]_vars PROVE RecordsFollowStages'
  OBVIOUS
<1> USE DEF AuditInv
<1>1. ASSUME UNCHANGED wrapperVars PROVE RecordsFollowStages'
  BY <1>1, SameRecords DEF RecordsFollowStages, wrapperVars
<1>2. ASSUME NEW h \in Hooks, Register(h) \/ Deregister(h) PROVE RecordsFollowStages'
  BY <1>1, <1>2 DEF Register, Deregister
<1>3. CASE UNCHANGED vars
  BY <1>1, <1>3 DEF vars
<1>4. ASSUME NEW r \in Requests, Wrapper(r) PROVE RecordsFollowStages'
  <2>0. /\ stage \in [Requests -> Stages] /\ result \in [Requests -> Results]
        /\ decision \in [Requests -> Chain!Decisions \cup {"PENDING"}]
    BY DEF MediationInv, TypeOK
  <2> USE DEF RecordsFollowStages, GoTo, End
  <2>1. CASE RejectMalformed(r)
    BY <2>0, <2>1, SameRecords DEF RejectMalformed, MediationInv, StagesInOrder, Undecided
  <2>2. CASE StartCheck(r)
    BY <2>0, <2>2, SameRecords DEF StartCheck
  <2>3. CASE Consult(r)
    BY <1>1, <2>3 DEF Consult
  <2>4. CASE HooksDecided(r)
    BY <2>0, <2>4, SameRecords DEF HooksDecided, MediationInv, StagesInOrder, Undecided
  <2>5. CASE HookRaised(r)
    BY <2>0, <2>5, SameRecords DEF HookRaised, MediationInv, StagesInOrder, Undecided
  <2>6. CASE WriteRecord(r)
    BY <2>0, <2>6, RecordAdded DEF WriteRecord, MediationInv, StagesInOrder
  <2>7. CASE LogRaised(r)
    BY <2>0, <2>7, SameRecords DEF LogRaised, MediationInv, StagesInOrder
  <2>8. CASE Refuse(r)
    BY <2>0, <2>8, SameRecords DEF Refuse, MediationInv, StagesInOrder
  <2>9. CASE Execute(r)
    BY <2>0, <2>9, SameRecords DEF Execute
  <2>10. CASE OperationEnds(r)
    BY <2>0, <2>10, SameRecords DEF OperationEnds, MediationInv, StagesInOrder
  <2> QED
    BY <1>4, <2>1, <2>2, <2>3, <2>4, <2>5, <2>6, <2>7, <2>8, <2>9, <2>10 DEF Wrapper
<1> QED BY <1>2, <1>3, <1>4 DEF Next, AddOnlyNext

(* The audit log tells what happened, for every number of calls that write *)
(* to it: at most one record a call, one that says SUCCESS before an       *)
(* operation runs, one that says DENIED for a refusal, and none only when  *)
(* a hook or the log raised and the operation did not run.                 *)
THEOREM LogIsTrue == Spec => []AuditTellsTheTruth
<1>1. Init => RecordsFollowStages
  BY DEF Init, RecordsFollowStages, RecordsOf
<1>2. AuditInv => AuditTellsTheTruth
  <2> SUFFICES ASSUME AuditInv, NEW r \in Requests
               PROVE  /\ Cardinality(RecordsOf(r)) <= 1
                      /\ r \in executed => \E k \in RecordsOf(r) : audit[k].outcome = "SUCCESS"
                      /\ result[r] = "DENIED" => \E k \in RecordsOf(r) : audit[k].outcome = "DENIED"
                      /\ result[r] \in {"HOOK_ERROR", "LOG_ERROR"} =>
                            RecordsOf(r) = {} /\ r \notin executed
    BY DEF AuditTellsTheTruth
  <2>1. RecordsOf(r) = {} \/ OneRecord(r)
    BY DEF AuditInv, MediationInv, TypeOK, Stages, Results, RecordsFollowStages
  <2>2. Cardinality(RecordsOf(r)) <= 1
    <3>1. CASE RecordsOf(r) = {}
      BY <3>1, FS_EmptySet
    <3>2. CASE OneRecord(r)
      <4>1. PICK k \in DOMAIN audit : RecordsOf(r) = {k}
        BY <3>2 DEF OneRecord
      <4>2. Cardinality({k}) = 1
        BY FS_Singleton
      <4> QED BY <4>1, <4>2
    <3> QED BY <2>1, <3>1, <3>2
  <2>3. r \in executed => OneRecord(r) /\ decision[r] = "ALLOW"
    BY DEF AuditInv, MediationInv, StagesInOrder, RecordsFollowStages
  <2>4. result[r] = "DENIED" => OneRecord(r) /\ decision[r] # "ALLOW"
    BY DEF AuditInv, RecordsFollowStages
  <2>5. result[r] \in {"HOOK_ERROR", "LOG_ERROR"} => RecordsOf(r) = {} /\ r \notin executed
    BY DEF AuditInv, RecordsFollowStages
  <2> QED BY <2>2, <2>3, <2>4, <2>5 DEF OneRecord, LogOutcome
<1> QED
  BY <1>1, <1>2, AuditStep, MediationInvariant, PTL DEF Spec, AuditInv

-----------------------------------------------------------------------------
(* While hooks are only added, the chain inside of the middleware decides  *)
(* as if all its hooks were asked at one moment, whatever the wrappers do  *)
(* between the steps of its loop.                                          *)
THEOREM DecisionIsAtomic == AddOnlySpec => ImplementsAtomic
<1>1. ChainProofs!AddOnlySpec => ChainProofs!ImplementsAtomic
  BY ChainConfigured, ChainProofs!AddOnlyRefinement
<1>2. ChainProofs!Atomic!Init => Chain!Atomic!Init
  BY DEF Chain!Atomic!Init, ChainProofs!Atomic!Init,
         Chain!Atomic!Policies, ChainProofs!Atomic!Policies,
         Chain!Atomic!Answers, ChainProofs!Atomic!Answers,
         Chain!Atomic!Decisions, ChainProofs!Atomic!Decisions,
         Chain!Atomic!BoundedSeq, ChainProofs!Atomic!BoundedSeq,
         Chain!Atomic!SeqOf, ChainProofs!Atomic!SeqOf
<1>3. ASSUME NEW s, NEW p
      PROVE  ChainProofs!Atomic!FirstDecisive(s, p) = Chain!Atomic!FirstDecisive(s, p)
  BY DEF Chain!Atomic!FirstDecisive, ChainProofs!Atomic!FirstDecisive,
         Chain!Atomic!Decisive, ChainProofs!Atomic!Decisive
<1>4. [ChainProofs!Atomic!Next]_<<chain, verdict, outcome>> =>
          [Chain!Atomic!Next]_<<chain, verdict, outcome>>
  BY <1>3 DEF Chain!Atomic!Next, ChainProofs!Atomic!Next, Chain!Atomic!Add,
              ChainProofs!Atomic!Add, Chain!Atomic!Decide, ChainProofs!Atomic!Decide
<1>5. ChainProofs!Atomic!Spec => Chain!Atomic!Spec
  BY <1>2, <1>4, PTL DEF Chain!Atomic!Spec, ChainProofs!Atomic!Spec
<1> QED
  BY <1>1, <1>5, ChainBehaves
  DEF ImplementsAtomic, Chain!ImplementsAtomic, ChainProofs!ImplementsAtomic

(* Some hook of s allows under the policy p, and those before it abstain. *)
HookAllows(s, p) ==
    \E k \in 1..Len(s) :
        p[s[k]] = "ALLOW" /\ \A j \in 1..(k - 1) : p[s[j]] = "NOT_APPLICABLE"

(* What makes an ALLOW immune to staleness: the hook that gave it is still *)
(* the first of the chain that does not abstain.                           *)
AllowedByChain == \A r \in Requests : outcome[r] = "ALLOW" => HookAllows(chain, verdict[r])

LEMMA AllowedByChainStep ==
    ASSUME ChainDefault # "ALLOW", ChainProofs!OrderInv, ChainProofs!NothingRemoved,
           AllowedByChain, [ChainProofs!AddOnlyNext]_(ChainProofs!vars)
    PROVE  AllowedByChain'
<1> USE DEF AllowedByChain
<1>0. /\ chain \in Seq(Hooks) /\ Len(chain) \in Nat
      /\ outcome \in [Requests -> ChainProofs!Answers \cup {"PENDING"}]
      /\ cursor \in [Requests -> 0..MaxChain]
  BY LenProperties DEF ChainProofs!OrderInv, ChainProofs!TypeOK
<1>1. ASSUME UNCHANGED <<chain, verdict, outcome>> PROVE AllowedByChain'
  BY <1>1 DEF HookAllows
<1>2. ASSUME NEW h \in Hooks, ChainProofs!AddHook(h) PROVE AllowedByChain'
  <2>1. /\ Len(chain') = Len(chain) + 1
        /\ \A i \in 1..Len(chain) : chain'[i] = chain[i]
        /\ UNCHANGED <<verdict, outcome>>
    BY <1>0, <1>2, AppendProperties DEF ChainProofs!AddHook, ChainProofs!evaluation
  <2>2. ASSUME NEW r \in Requests, HookAllows(chain, verdict[r])
        PROVE  HookAllows(chain', verdict'[r])
    <3>1. PICK k \in 1..Len(chain) :
            /\ verdict[r][chain[k]] = "ALLOW"
            /\ \A j \in 1..(k - 1) : verdict[r][chain[j]] = "NOT_APPLICABLE"
      BY <2>2 DEF HookAllows
    <3>2. /\ k \in 1..Len(chain')
          /\ verdict'[r][chain'[k]] = "ALLOW"
          /\ \A j \in 1..(k - 1) : verdict'[r][chain'[j]] = "NOT_APPLICABLE"
      BY <1>0, <2>1, <3>1
    <3> QED BY <3>2 DEF HookAllows
  <2> QED BY <2>1, <2>2
<1>3. ASSUME NEW r \in Requests, ChainProofs!Answer(r) PROVE AllowedByChain'
  <2>1. /\ UNCHANGED <<chain, verdict>>
        /\ outcome' = [outcome EXCEPT ![r] = verdict[r][current[r]]]
        /\ pc[r] = "asking"
    BY <1>3 DEF ChainProofs!Answer
  <2>2. cursor[r] \in 1..Len(chain) /\ chain[cursor[r]] = current[r]
    BY <2>1 DEF ChainProofs!OrderInv, ChainProofs!WaitsAtCursor, ChainProofs!NothingRemoved
  <2>3. \A j \in 1..(cursor[r] - 1) : verdict[r][chain[j]] = "NOT_APPLICABLE"
    <3>1. behind[r] = 0 /\ ChainProofs!Running(r)
      BY <2>1 DEF ChainProofs!NothingRemoved, ChainProofs!Running
    <3>2. \A i \in 1..cursor[r] :
             verdict[r][chain[i]] = "NOT_APPLICABLE" \/ (i = cursor[r] /\ pc[r] = "asking")
      BY <3>1 DEF ChainProofs!OrderInv, ChainProofs!AskedInOrder
    <3> QED BY <1>0, <2>2, <3>2
  <2>4. outcome'[r] = "ALLOW" => HookAllows(chain, verdict[r])
    BY <1>0, <2>1, <2>2, <2>3 DEF HookAllows
  <2> QED BY <1>0, <2>1, <2>4
<1>4. ASSUME NEW r \in Requests, ChainProofs!Exhaust(r) PROVE AllowedByChain'
  BY <1>0, <1>4 DEF ChainProofs!Exhaust, HookAllows
<1>5. ASSUME NEW r \in Requests,
             ChainProofs!Begin(r) \/ ChainProofs!Fetch(r) \/ ChainProofs!Abstain(r)
      PROVE  UNCHANGED <<chain, verdict, outcome>>
  BY <1>5 DEF ChainProofs!Begin, ChainProofs!Fetch, ChainProofs!Abstain
<1>6. CASE UNCHANGED ChainProofs!vars
  BY <1>1, <1>6 DEF ChainProofs!vars
<1> QED
  BY <1>1, <1>2, <1>3, <1>4, <1>5, <1>6 DEF ChainProofs!AddOnlyNext, ChainProofs!Evaluate

(* A chain in which a hook allows, as its first that does not abstain,     *)
(* allows in the eyes of the monitor.                                      *)
LEMMA MonitorAllows ==
    ASSUME NEW s \in Seq(Hooks), NEW p, HookAllows(s, p)
    PROVE  Monitor!FirstDecisive(s, p) = "ALLOW"
<1> DEFINE First(i) == /\ Monitor!Decisive(p[s[i]])
                       /\ \A j \in 1..(i - 1) : ~Monitor!Decisive(p[s[j]])
<1>1. DOMAIN s = 1..Len(s) /\ Len(s) \in Nat
  BY LenProperties
<1>2. PICK k \in 1..Len(s) : p[s[k]] = "ALLOW" /\ \A j \in 1..(k - 1) : p[s[j]] = "NOT_APPLICABLE"
  BY DEF HookAllows
<1>3. First(k)
  BY <1>2 DEF Monitor!Decisive
<1>4. ASSUME NEW i \in 1..Len(s), First(i) PROVE i = k
  <2>1. CASE i < k
    BY <1>1, <1>2, <1>4, <2>1 DEF Monitor!Decisive
  <2>2. CASE k < i
    BY <1>1, <1>2, <1>4, <2>2 DEF Monitor!Decisive
  <2> QED BY <1>1, <2>1, <2>2
<1>5. (CHOOSE i \in DOMAIN s : First(i)) = k
  <2> HIDE DEF First
  <2> QED BY <1>1, <1>3, <1>4
<1>6. \E i \in DOMAIN s : Monitor!Decisive(p[s[i]])
  BY <1>1, <1>3
<1> QED BY <1>2, <1>5, <1>6 DEF Monitor!FirstDecisive

(* No decision is stale when it is used: while hooks are only added and    *)
(* the default is not ALLOW, the chain of the moment in which a protected  *)
(* operation is called allows the call, and no call is executed twice.     *)
THEOREM NoStaleDecision ==
    ASSUME ChainDefault # "ALLOW"
    PROVE  AddOnlySpec => ImplementsMonitor
<1>1. AddOnlySpec => [](ChainProofs!OrderInv /\ ChainProofs!NothingRemoved)
  <2>1. ChainProofs!AddOnlySpec => [](ChainProofs!OrderInv /\ ChainProofs!NothingRemoved)
    BY ChainConfigured, ChainProofs!AddOnlyInvariant
  <2> QED BY <2>1, ChainBehaves
<1>2. AddOnlySpec => []MediationInv
  <2>1. [AddOnlyNext]_vars => [Next]_vars
    BY DEF Next
  <2> QED BY <2>1, MediationInvariant, PTL DEF AddOnlySpec, Spec
<1>3. Init => AllowedByChain
  BY DEF Init, Chain!Init, AllowedByChain
<1>4. /\ ChainProofs!OrderInv /\ ChainProofs!NothingRemoved /\ AllowedByChain
      /\ [AddOnlyNext]_vars
      => AllowedByChain'
  BY ChainStep, AllowedByChainStep
<1>5. Init => Monitor!MonitorInit
  BY DEF Init, Chain!Init, Chain!Atomic!Policies, Chain!Atomic!Answers, Chain!Atomic!Decisions,
         Chain!BoundedSeq, Chain!SeqOf, Monitor!MonitorInit, Monitor!Policies, Monitor!Answers,
         Monitor!Decisions, Monitor!BoundedSeq, Monitor!SeqOf
<1>6. /\ ChainProofs!OrderInv /\ MediationInv /\ AllowedByChain
      /\ [AddOnlyNext]_vars
      => [Monitor!MonitorNext]_(Monitor!monitorVars)
  <2> SUFFICES ASSUME ChainProofs!OrderInv, MediationInv, AllowedByChain, [AddOnlyNext]_vars
               PROVE  [Monitor!MonitorNext]_(Monitor!monitorVars)
    OBVIOUS
  <2> USE DEF Monitor!monitorVars
  <2>1. ASSUME NEW h \in Hooks, Register(h) PROVE Monitor!MonitorNext
    BY <2>1 DEF Register, Chain!AddHook, wrapperVars, Monitor!MonitorNext, Monitor!Register
  <2>2. ASSUME NEW r \in Requests, Execute(r) PROVE Monitor!MonitorNext
    <3>1. r \notin malformed \cup executed /\ outcome[r] = "ALLOW"
      BY <2>2 DEF Execute, MediationInv, StagesInOrder, Decided
    <3>2. Monitor!FirstDecisive(chain, verdict[r]) = "ALLOW"
      BY <3>1, MonitorAllows DEF AllowedByChain, ChainProofs!OrderInv, ChainProofs!TypeOK
    <3> QED BY <2>2, <3>1, <3>2 DEF Execute, chainVars, Monitor!MonitorNext, Monitor!Execute
  <2>3. ASSUME NEW r \in Requests, Wrapper(r), ~Execute(r)
        PROVE  UNCHANGED <<chain, verdict, malformed, executed>>
    <3>1. CASE StartCheck(r)
      BY <3>1 DEF StartCheck, Chain!Begin
    <3>2. CASE Consult(r)
      BY <3>2 DEF Consult, Chain!Evaluate, Chain!Fetch, Chain!Abstain, Chain!Answer,
                  Chain!Exhaust, wrapperVars
    <3> QED
      BY <2>3, <3>1, <3>2 DEF Wrapper, RejectMalformed, HooksDecided, HookRaised, WriteRecord,
                              LogRaised, Refuse, OperationEnds, chainVars
  <2>4. CASE UNCHANGED vars
    BY <2>4 DEF vars, chainVars, wrapperVars
  <2> QED BY <2>1, <2>2, <2>3, <2>4 DEF AddOnlyNext
<1> QED
  BY <1>1, <1>2, <1>3, <1>4, <1>5, <1>6, PTL
  DEF AddOnlySpec, ImplementsMonitor, Monitor!MonitorSpec

==============================================================================
