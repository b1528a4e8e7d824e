------------------------------ MODULE HookChain ------------------------------
(***************************************************************************)
(* CompositeAuthorizationHook: an ordered, mutable list of authorization   *)
(* hooks that every request evaluates.  One composite is shared by all     *)
(* requests of a container, nothing locks it, and `authorize` walks the    *)
(* live list: Python's list iterator keeps an index, and compares it with  *)
(* the length of the list as it is when the next hook is fetched.  So      *)
(* add_hook and remove_hook, called by another thread or by the hook being *)
(* consulted, act on evaluations that are under way.                       *)
(*                                                                         *)
(* list.append and list.remove are single steps (they hold the             *)
(* interpreter lock); a call of a hook is two, one that fetches the hook   *)
(* and one in which its answer arrives.                                    *)
(***************************************************************************)
EXTENDS Integers, FiniteSets, SequencesExt

CONSTANTS
    Requests,          \* the calls of authorize, each one evaluation
    Hooks,             \* the hook objects
    NoHook,            \* no hook is being consulted
    DefaultDecision,   \* _default_decision of the composite
    MayAnswer,         \* MayAnswer[h]: the answers the class of h can give
    MaxChain           \* bound on the length of the list

VARIABLES
    chain,      \* _hooks
    verdict,    \* verdict[r][h]: what h answers to the context and operation of r
    pc,         \* where the evaluation of r stands
    cursor,     \* index of the list iterator of r
    current,    \* the local variable hook of r
    outcome,    \* what the evaluation of r returned, or RAISE
    asked,      \* history: the hooks r consulted, in order
    behind,     \* history: removals at or before the cursor of r, up to MaxChain
    present     \* history: the hooks in the chain ever since r began

vars == <<chain, verdict, pc, cursor, current, outcome, asked, behind, present>>
evaluation == <<pc, cursor, current, outcome, asked>>

Atomic == INSTANCE AtomicHookChain

Decisions == Atomic!Decisions
Answers == Atomic!Answers

ASSUME DefaultAssumption == DefaultDecision \in Decisions
ASSUME BoundAssumption == MaxChain \in Nat
ASSUME MayAnswerAssumption == MayAnswer \in [Hooks -> SUBSET Answers]
ASSUME NoHookAssumption == NoHook \notin Hooks

(* The answers of the hook classes of the module; any other class may give any. *)
LoggingAnswers == {"NOT_APPLICABLE", "RAISE"}
PassThroughAnswers == {"ALLOW"}

Init ==
    /\ chain \in BoundedSeq(Hooks, MaxChain)
    /\ verdict \in [Requests -> Atomic!Policies]
    /\ pc = [r \in Requests |-> "idle"]
    /\ cursor = [r \in Requests |-> 0]
    /\ current = [r \in Requests |-> NoHook]
    /\ outcome = [r \in Requests |-> "PENDING"]
    /\ asked = [r \in Requests |-> <<>>]
    /\ behind = [r \in Requests |-> 0]
    /\ present = [r \in Requests |-> {}]

-----------------------------------------------------------------------------
(* Slip: add_hook puts the hook at the front of the list. *)
PrependHook(h) ==
    /\ Len(chain) < MaxChain
    /\ chain' = <<h>> \o chain
    /\ UNCHANGED <<verdict, evaluation, behind, present>>

(* add_hook *)
AddHook(h) ==
    /\ Len(chain) < MaxChain
    /\ chain' = Append(chain, h)
    /\ UNCHANGED <<verdict, evaluation, behind, present>>

(* Slip: remove_hook filters the list, so that every occurrence goes. *)
RemoveEveryOccurrence(h) ==
    /\ Contains(chain, h)
    /\ chain' = SelectSeq(chain, LAMBDA g : g # h)
    /\ behind' = [r \in Requests |->
                     IF h \in {chain[i] : i \in DOMAIN chain \cap 1..cursor[r]} /\ behind[r] < MaxChain
                     THEN behind[r] + 1 ELSE behind[r]]
    /\ present' = [r \in Requests |-> present[r] \ {h}]
    /\ UNCHANGED <<verdict, evaluation>>

(* Slip: remove_hook moves every iterator back, wherever it stands. *)
RemoveAndStepBack(h) ==
    /\ Contains(chain, h)
    /\ chain' = SelectSeq(chain, LAMBDA g : g # h)
    /\ cursor' = [r \in Requests |-> cursor[r] - 1]
    /\ UNCHANGED <<verdict, pc, current, outcome, asked, behind, present>>

(* remove_hook that finds h: the first occurrence goes and the hooks after *)
(* it move down one place, under the iterators of the running evaluations. *)
(* When h is not in the list the call returns False and changes nothing.   *)
RemoveHook(h) ==
    \E i \in DOMAIN chain :
        /\ chain[i] = h
        /\ \A j \in 1..(i - 1) : chain[j] # h
        /\ chain' = RemoveAt(chain, i)
        /\ behind' = [r \in Requests |->
                         IF i <= cursor[r] /\ behind[r] < MaxChain
                         THEN behind[r] + 1 ELSE behind[r]]
        /\ present' = [r \in Requests |-> present[r] \cap ToSet(chain')]
        /\ UNCHANGED <<verdict, evaluation>>

(* authorize is called: the iterator of the for loop is created. *)
Begin(r) ==
    /\ pc[r] = "idle"
    /\ pc' = [pc EXCEPT ![r] = "scan"]
    /\ present' = [present EXCEPT ![r] = ToSet(chain)]
    /\ UNCHANGED <<chain, verdict, cursor, current, outcome, asked, behind>>

(* Slip: the loop does not move on. *)
FetchAgain(r) ==
    /\ pc[r] = "scan"
    /\ cursor[r] < Len(chain)
    /\ current' = [current EXCEPT ![r] = chain[cursor[r] + 1]]
    /\ pc' = [pc EXCEPT ![r] = "asking"]
    /\ UNCHANGED <<chain, verdict, cursor, outcome, asked, behind, present>>

(* The iterator yields the next hook of the live list and the hook is called. *)
Fetch(r) ==
    /\ pc[r] = "scan"
    /\ cursor[r] < Len(chain)
    /\ LET h == chain[cursor[r] + 1]
       IN  /\ current' = [current EXCEPT ![r] = h]
           /\ asked' = [asked EXCEPT ![r] = Append(@, h)]
    /\ cursor' = [cursor EXCEPT ![r] = @ + 1]
    /\ pc' = [pc EXCEPT ![r] = "asking"]
    /\ UNCHANGED <<chain, verdict, outcome, behind, present>>

(* Slip: only ALLOW is decisive. *)
AbstainUnlessAllow(r) ==
    /\ pc[r] = "asking"
    /\ verdict[r][current[r]] # "ALLOW"
    /\ pc' = [pc EXCEPT ![r] = "scan"]
    /\ UNCHANGED <<chain, verdict, cursor, current, outcome, asked, behind, present>>

(* Slip: a hook that raises counts as one that abstains. *)
AbstainOrRaise(r) ==
    /\ pc[r] = "asking"
    /\ verdict[r][current[r]] \in {"NOT_APPLICABLE", "RAISE"}
    /\ pc' = [pc EXCEPT ![r] = "scan"]
    /\ UNCHANGED <<chain, verdict, cursor, current, outcome, asked, behind, present>>

(* The hook abstains and the loop goes on. *)
Abstain(r) ==
    /\ pc[r] = "asking"
    /\ verdict[r][current[r]] = "NOT_APPLICABLE"
    /\ pc' = [pc EXCEPT ![r] = "scan"]
    /\ UNCHANGED <<chain, verdict, cursor, current, outcome, asked, behind, present>>

(* The hook decides, or raises, and authorize ends with its answer. *)
Answer(r) ==
    /\ pc[r] = "asking"
    /\ verdict[r][current[r]] # "NOT_APPLICABLE"
    /\ pc' = [pc EXCEPT ![r] = "done"]
    /\ outcome' = [outcome EXCEPT ![r] = verdict[r][current[r]]]
    /\ UNCHANGED <<chain, verdict, cursor, current, asked, behind, present>>

(* The iterator is exhausted: the default decision is returned. *)
Exhaust(r) ==
    /\ pc[r] = "scan"
    /\ cursor[r] >= Len(chain)
    /\ pc' = [pc EXCEPT ![r] = "done"]
    /\ outcome' = [outcome EXCEPT ![r] = DefaultDecision]
    /\ current' = [current EXCEPT ![r] = NoHook]
    /\ UNCHANGED <<chain, verdict, cursor, asked, behind, present>>

Evaluate(r) == Fetch(r) \/ Abstain(r) \/ Answer(r) \/ Exhaust(r)

AddOnlyNext ==
    \/ \E h \in Hooks : AddHook(h)
    \/ \E r \in Requests : Begin(r) \/ Evaluate(r)

Next == AddOnlyNext \/ (\E h \in Hooks : RemoveHook(h))

Spec == Init /\ [][Next]_vars

(* The program as the repository wires it: no code outside the tests calls *)
(* remove_hook, the container and the middleware only ever add.            *)
AddOnlySpec == Init /\ [][AddOnlyNext]_vars

(* A hook that is called answers, and a thread inside the loop is scheduled. *)
FairSpec == Spec /\ \A r \in Requests : WF_vars(Evaluate(r))

-----------------------------------------------------------------------------
(* Type invariant: the state of the composite and of its evaluations; an   *)
(* evaluation waiting for an answer waits for a hook.                      *)
TypeOK ==
    /\ chain \in Seq(Hooks)
    /\ Len(chain) <= MaxChain
    /\ verdict \in [Requests -> [Hooks -> Answers]]
    /\ pc \in [Requests -> {"idle", "scan", "asking", "done"}]
    /\ cursor \in [Requests -> 0..MaxChain]
    /\ current \in [Requests -> Hooks \cup {NoHook}]
    /\ \A r \in Requests : pc[r] = "asking" => current[r] \in Hooks
    /\ outcome \in [Requests -> Answers \cup {"PENDING"}]
    /\ asked \in [Requests -> Seq(Hooks)]
    /\ behind \in [Requests -> 0..MaxChain]
    /\ present \in [Requests -> SUBSET Hooks]

Running(r) == pc[r] \in {"scan", "asking"}

(* The hooks the iterator of r has gone past without consulting them. *)
Overlooked(r) ==
    {h \in Hooks : /\ \E i \in DOMAIN chain : i <= cursor[r] /\ chain[i] = h
                   /\ ~Contains(asked[r], h)}

(* An evaluation overlooks no more hooks than were removed, while it ran,  *)
(* from the part of the list it had already walked: the damage of one      *)
(* remove_hook to one evaluation is one hook, whatever was added between.  *)
OverlookedBounded ==
    \A r \in Requests : Running(r) => Cardinality(Overlooked(r)) <= behind[r]

(* As long as nothing is removed behind its cursor, an evaluation has      *)
(* consulted exactly the hooks of the list up to the cursor, in list order *)
(* and each once, and all those it has left abstained.                     *)
AskedInOrder ==
    \A r \in Requests :
        Running(r) /\ behind[r] = 0 =>
            /\ Len(asked[r]) = cursor[r] /\ cursor[r] <= Len(chain)
            /\ \A i \in 1..cursor[r] : asked[r][i] = chain[i]
            /\ \A i \in 1..cursor[r] :
                  verdict[r][chain[i]] = "NOT_APPLICABLE" \/ (i = cursor[r] /\ pc[r] = "asking")

(* An evaluation that nothing was removed behind returns what the whole    *)
(* chain, as it is when authorize returns, decides for the request: the    *)
(* interleaved loop looks like one atomic step, although hooks were added, *)
(* and removed ahead of the cursor, while it ran.                          *)
LinearizedAtReturn ==
    [][\A r \in Requests :
          outcome[r] = "PENDING" /\ outcome'[r] # "PENDING" /\ behind[r] = 0 =>
              outcome'[r] = Atomic!FirstDecisive(chain, verdict[r])]_vars

(* While hooks are only added, the loop implements the atomic decision the *)
(* class documents.                                                        *)
ImplementsAtomic == Atomic!Spec

(* An evaluation that has begun ends, in whatever order hooks come and go. *)
EvaluationEnds ==
    \A r \in Requests : pc[r] = "scan" ~> pc[r] = "done"

(* The docstring's claim for a chain that is edited meanwhile: the default *)
(* decision means that every hook registered throughout the evaluation     *)
(* abstained.                                                              *)
DefaultMeansAllAbstained ==
    \A r \in Requests :
        pc[r] = "done" /\ current[r] = NoHook =>
            \A h \in present[r] : verdict[r][h] = "NOT_APPLICABLE"
==============================================================================
