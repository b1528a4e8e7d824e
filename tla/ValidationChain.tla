--------------------------- MODULE ValidationChain ---------------------------
(***************************************************************************)
(* Validation of requests: CompositeValidator walks its live list of       *)
(* validators and aggregates what they find, and validate_request of the   *)
(* adapter writes a record and then returns the value or raises.  Threads  *)
(* come between all of these steps: other calls, add_validator, and the    *)
(* code that made the composite, which may hold the very list it walks.    *)
(*                                                                         *)
(* A validator finds a value, a value that is None ("NONE"), errors, a     *)
(* failure without errors ("EMPTY"), or raises.  A value is named after    *)
(* the validator that found it and so are the errors of a validator.  A    *)
(* validator that is called without a composite acts as a composite of it. *)
(***************************************************************************)
EXTENDS Integers, Sequences

CONSTANTS
    Calls,            \* the calls of validate_request
    Validators,
    MaxValidators,    \* bound on the length of the lists
    None

VARIABLES
    constructed,   \* the composite exists
    aliased,       \* its list is the list of the code that constructed it
    list,          \* its list
    callers,       \* the list of the code that constructed it
    promised,      \* history: what was in the list given to the constructor or added since
    stage,         \* where a call stands
    cursor,        \* the index its walk has come to
    consulted,     \* the validators it consulted and what these found, in order
    value,         \* last_value
    errors,        \* all_errors
    due,           \* history: promised when the call began
    records        \* what was written to the log

listVars == <<constructed, aliased, list, callers, promised>>
walkVars == <<cursor, consulted, value, errors, due>>
vars == <<listVars, stage, walkVars, records>>

ASSUME BoundAssumption == MaxValidators \in Nat
ASSUME NoneAssumption == None \notin Validators

Findings == {"VALUE", "NONE", "ERRORS", "EMPTY"}
Ended == {"returned", "refused", "validatorRaised", "outputRaised"}

Init ==
    /\ constructed = FALSE /\ aliased = FALSE
    /\ list = <<>>
    /\ callers = <<>>
    /\ promised = <<>>
    /\ stage = [r \in Calls |-> "new"]
    /\ cursor = [r \in Calls |-> 0]
    /\ consulted = [r \in Calls |-> <<>>]
    /\ value = [r \in Calls |-> None]
    /\ errors = [r \in Calls |-> <<>>]
    /\ due = [r \in Calls |-> <<>>]
    /\ records = <<>>

-----------------------------------------------------------------------------
(* `validators or []`: a list that is empty is not kept, one that is not   *)
(* becomes the list of the composite.                                      *)
Construct(given) ==
    /\ ~constructed
    /\ constructed' = TRUE
    /\ aliased' = (given # <<>>)
    /\ list' = given
    /\ promised' = given
    /\ UNCHANGED <<callers, stage, walkVars, records>>

(* Slip: validators are added to a copy of the list. *)
AddToCopy(v) ==
    /\ constructed /\ Len(list) < MaxValidators
    /\ list' = Append(list, v)
    /\ promised' = Append(promised, v)
    /\ UNCHANGED <<constructed, aliased, callers, stage, walkVars, records>>

AddValidator(v) ==
    /\ constructed /\ Len(list) < MaxValidators
    /\ list' = Append(list, v)
    /\ callers' = IF aliased THEN list' ELSE callers
    /\ promised' = Append(promised, v)
    /\ UNCHANGED <<constructed, aliased, stage, walkVars, records>>

(* The code that has the list appends to it. *)
CallerAppends(v) ==
    /\ Len(callers) < MaxValidators
    /\ callers' = Append(callers, v)
    /\ list' = IF aliased THEN callers' ELSE list
    /\ UNCHANGED <<constructed, aliased, promised, stage, walkVars, records>>

-----------------------------------------------------------------------------
Goto(r, s) == stage' = [stage EXCEPT ![r] = s]

Begin(r) ==
    /\ constructed
    /\ stage[r] = "new"
    /\ Goto(r, "walking")
    /\ due' = [due EXCEPT ![r] = promised]
    /\ UNCHANGED <<listVars, cursor, consulted, value, errors, records>>

(* What a finding adds to the aggregate: all but a value that is not None  *)
(* extends the errors, by none if it has none.                             *)
Aggregate(r, v, f) ==
    /\ value' = [value EXCEPT ![r] = IF f = "VALUE" THEN v ELSE @]
    /\ errors' = [errors EXCEPT ![r] = IF f = "ERRORS" THEN Append(@, v) ELSE @]

Consult(r, f) ==
    /\ stage[r] = "walking"
    /\ cursor[r] < Len(list)
    /\ LET v == list[cursor[r] + 1]
       IN  /\ consulted' = [consulted EXCEPT ![r] = Append(@, <<v, f>>)]
           /\ Aggregate(r, v, f)
    /\ cursor' = [cursor EXCEPT ![r] = @ + 1]
    /\ UNCHANGED <<listVars, stage, due, records>>

ValidatorRaises(r) ==
    /\ stage[r] = "walking"
    /\ cursor[r] < Len(list)
    /\ Goto(r, "validatorRaised")
    /\ UNCHANGED <<listVars, walkVars, records>>

Valid(r) == value[r] # None /\ errors[r] = <<>>

(* Slip: the walk ends with the first errors. *)
WalkEndsAtErrors(r) ==
    /\ stage[r] = "walking"
    /\ cursor[r] >= Len(list) \/ errors[r] # <<>>
    /\ Goto(r, "logging")
    /\ UNCHANGED <<listVars, walkVars, records>>

WalkEnds(r) ==
    /\ stage[r] = "walking"
    /\ cursor[r] >= Len(list)
    /\ Goto(r, "logging")
    /\ UNCHANGED <<listVars, walkVars, records>>

(* log_operation with the outcome, for the context of the call. *)
WriteRecord(r) ==
    /\ stage[r] = "logging"
    /\ records' = Append(records,
          [call |-> r, outcome |-> IF Valid(r) THEN "SUCCESS" ELSE "FAILURE",
           count |-> IF Valid(r) THEN 0 ELSE Len(errors[r])])
    /\ Goto(r, "logged")
    /\ UNCHANGED <<listVars, walkVars>>

(* Slip: the output raises and the call goes on. *)
OutputIgnored(r) ==
    /\ stage[r] = "logging"
    /\ Goto(r, "logged")
    /\ UNCHANGED <<listVars, walkVars, records>>

OutputRaises(r) ==
    /\ stage[r] = "logging"
    /\ Goto(r, "outputRaised")
    /\ UNCHANGED <<listVars, walkVars, records>>

(* Slip: a request without any value is neither accepted nor refused. *)
ConcludeWithValue(r) ==
    /\ stage[r] = "logged"
    /\ value[r] # None \/ errors[r] # <<>>
    /\ Goto(r, IF Valid(r) THEN "returned" ELSE "refused")
    /\ UNCHANGED <<listVars, walkVars, records>>

(* The value is returned, or ValidationApiError raised with the errors. *)
Conclude(r) ==
    /\ stage[r] = "logged"
    /\ Goto(r, IF Valid(r) THEN "returned" ELSE "refused")
    /\ UNCHANGED <<listVars, walkVars, records>>

Step(r) ==
    \/ Begin(r) \/ (\E f \in Findings : Consult(r, f)) \/ ValidatorRaises(r) \/ WalkEnds(r)
    \/ WriteRecord(r) \/ OutputRaises(r) \/ Conclude(r)

Next ==
    \/ \E given \in {<<>>, callers} : Construct(given)
    \/ \E v \in Validators : AddValidator(v) \/ CallerAppends(v)
    \/ \E r \in Calls : Step(r)

Spec == Init /\ [][Next]_vars

(* Each call runs in a thread of its own; validators and the log output    *)
(* return or raise.                                                        *)
FairSpec == Spec /\ \A r \in Calls : WF_vars(Step(r))

-----------------------------------------------------------------------------
(* Type invariant: a list that is shared is one list, a walk has consulted *)
(* what lies behind its cursor, and only a call that writes has a record.  *)
TypeOK ==
    /\ constructed \in BOOLEAN /\ aliased \in BOOLEAN
    /\ list \in Seq(Validators) /\ callers \in Seq(Validators) /\ promised \in Seq(Validators)
    /\ aliased => constructed /\ list = callers
    /\ stage \in [Calls -> {"new", "walking", "logging", "logged"} \cup Ended]
    /\ consulted \in [Calls -> Seq(Validators \X Findings)]
    /\ cursor \in [Calls -> Nat]
    /\ \A r \in Calls : cursor[r] = Len(consulted[r]) /\ cursor[r] <= Len(list)
    /\ value \in [Calls -> Validators \cup {None}]
    /\ errors \in [Calls -> Seq(Validators)]
    /\ due \in [Calls -> Seq(Validators)]
    /\ records \in Seq([call : Calls, outcome : {"SUCCESS", "FAILURE"}, count : Nat])

Increasing(f) == \A i, j \in DOMAIN f : i < j => f[i] < f[j]

(* s holds what t has at the places in keep, in order *)
Picks(s, t, keep) ==
    \E f \in [DOMAIN s -> keep] :
        /\ Increasing(f)
        /\ \A k \in keep : \E i \in DOMAIN s : f[i] = k
        /\ \A i \in DOMAIN s : s[i] = t[f[i]]

Subsequence(s, t) == \E keep \in SUBSET DOMAIN t : Picks(s, t, keep)

Names(s) == [i \in DOMAIN s |-> s[i][1]]
Found(r, f) == {i \in DOMAIN consulted[r] : consulted[r][i][2] = f}

(* An outcome is that of all validators.  Whatever the ways in which the   *)
(* list grows, a request is neither accepted nor refused before all that   *)
(* had been given to the composite when its validation began were asked,   *)
(* in that order; and unless the list is the caller's, nobody else was.    *)
(* It is accepted only if none of them found errors, with the value of the *)
(* last that had one.  It is refused with the errors of all that found     *)
(* any, in order, and without errors only if no validator had a value.     *)
OutcomeOfAll ==
    \A r \in Calls :
        /\ stage[r] \in {"returned", "refused"} => Subsequence(due[r], Names(consulted[r]))
        /\ ~aliased => Subsequence(Names(consulted[r]), promised)
        /\ stage[r] = "returned" =>
              /\ Found(r, "ERRORS") = {}
              /\ \E k \in Found(r, "VALUE") :
                    /\ consulted[r][k][1] = value[r]
                    /\ \A i \in Found(r, "VALUE") : i <= k
        /\ stage[r] = "refused" =>
              /\ Picks(errors[r], Names(consulted[r]), Found(r, "ERRORS"))
              /\ errors[r] = <<>> => Found(r, "VALUE") = {}

RecordsOf(r) == {i \in DOMAIN records : records[i].call = r}

(* The record tells how the call ended: it was written before, there is no *)
(* other, and it counts the errors the caller gets; a call that ended      *)
(* because a validator or the output raised has no record.                 *)
RecordTellsOutcome ==
    \A r \in Calls :
        /\ stage[r] \in {"returned", "refused"} => \E i \in DOMAIN records : RecordsOf(r) = {i}
        /\ \A i \in RecordsOf(r) :
              /\ stage[r] = "returned" => records[i].outcome = "SUCCESS" /\ records[i].count = 0
              /\ stage[r] = "refused" =>
                    records[i].outcome = "FAILURE" /\ records[i].count = Len(errors[r])
        /\ stage[r] \in {"validatorRaised", "outputRaised"} => RecordsOf(r) = {}

(* A walk of the live list ends, since the appends are bounded: validate_  *)
(* request returns or raises, and an accepted request is recorded as such. *)
EveryCallEnds ==
    \A r \in Calls :
        /\ stage[r] # "new" ~> stage[r] \in Ended
        /\ (stage[r] = "logging" /\ ~Valid(r)) ~> stage[r] \in {"refused", "outputRaised"}
=============================================================================
