--------------------------- MODULE AtomicHookChain ---------------------------
(***************************************************************************)
(* What a chain of authorization hooks promises: a request is decided in   *)
(* one step, against the whole chain as it stands at that step, by the     *)
(* first hook whose answer is not NOT_APPLICABLE, and by the configured    *)
(* default when every hook abstains.  The docstring of                     *)
(* CompositeAuthorizationHook states it; HookChain.tla models the loop     *)
(* that is meant to implement it.                                          *)
(***************************************************************************)
EXTENDS Integers, SequencesExt

CONSTANTS
    Requests,          \* the calls of authorize, each one evaluation
    Hooks,             \* the hook objects
    DefaultDecision,   \* _default_decision of the composite
    MayAnswer,         \* MayAnswer[h]: the answers the class of h can give
    MaxChain           \* bound on the length of the chain

VARIABLES
    chain,      \* the registered hooks, in evaluation order
    verdict,    \* verdict[r][h]: what h answers to the context and operation of r
    outcome     \* outcome[r]: what the evaluation of r returned or raised

Decisions == {"ALLOW", "DENY", "NOT_APPLICABLE"}

(* A hook returns a decision or lets an exception escape. *)
Answers == Decisions \cup {"RAISE"}

Decisive(answer) == answer # "NOT_APPLICABLE"

(* The answer of the first decisive hook of s under the policy p, else the default. *)
FirstDecisive(s, p) ==
    IF \E i \in DOMAIN s : Decisive(p[s[i]])
    THEN p[s[CHOOSE i \in DOMAIN s : /\ Decisive(p[s[i]])
                                     /\ \A j \in 1..(i - 1) : ~Decisive(p[s[j]])]]
    ELSE DefaultDecision

Policies == {p \in [Hooks -> Answers] : \A h \in Hooks : p[h] \in MayAnswer[h]}

Init ==
    /\ chain \in BoundedSeq(Hooks, MaxChain)
    /\ verdict \in [Requests -> Policies]
    /\ outcome = [r \in Requests |-> "PENDING"]

Add(h) ==
    /\ Len(chain) < MaxChain
    /\ chain' = Append(chain, h)
    /\ UNCHANGED <<verdict, outcome>>

Decide(r) ==
    /\ outcome[r] = "PENDING"
    /\ outcome' = [outcome EXCEPT ![r] = FirstDecisive(chain, verdict[r])]
    /\ UNCHANGED <<chain, verdict>>

Next == (\E h \in Hooks : Add(h)) \/ (\E r \in Requests : Decide(r))

Spec == Init /\ [][Next]_<<chain, verdict, outcome>>
==============================================================================
