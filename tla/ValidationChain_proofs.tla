------------------------ MODULE ValidationChain_proofs ------------------------
(***************************************************************************)
(* Theorems about the validation of requests, for any calls, validators    *)
(* and bound on the lists.                                                 *)
(***************************************************************************)
EXTENDS ValidationChain, SequenceTheorems, TLAPS

-----------------------------------------------------------------------------
(* A subsequence of a sequence is one of the longer sequence.              *)
LEMMA PicksSkip ==
    ASSUME NEW S, NEW s \in Seq(S), NEW t \in Seq(S), NEW v \in S,
           NEW keep \in SUBSET DOMAIN t, Picks(s, t, keep)
    PROVE  keep \in SUBSET DOMAIN Append(t, v) /\ Picks(s, Append(t, v), keep)
<1>1. PICK f \in [DOMAIN s -> keep] :
        /\ Increasing(f)
        /\ \A k \in keep : \E i \in DOMAIN s : f[i] = k
        /\ \A i \in DOMAIN s : s[i] = t[f[i]]
  BY DEF Picks
<1>2. \A i \in 1..Len(t) : Append(t, v)[i] = t[i]
  OBVIOUS
<1>3. \A i \in DOMAIN s : s[i] = Append(t, v)[f[i]]
  <2> TAKE i \in DOMAIN s
  <2>1. f[i] \in 1..Len(t)
    OBVIOUS
  <2> QED BY <1>1, <1>2, <2>1
<1>4. Picks(s, Append(t, v), keep)
  BY <1>1, <1>3 DEF Picks
<1>5. 1..Len(t) \subseteq 1..Len(Append(t, v)) /\ DOMAIN Append(t, v) = 1..Len(Append(t, v))
  OBVIOUS
<1> QED BY <1>4, <1>5

(* What is appended to both is picked after all the rest.                  *)
LEMMA PicksTake ==
    ASSUME NEW S, NEW s \in Seq(S), NEW t \in Seq(S), NEW v \in S,
           NEW keep \in SUBSET DOMAIN t, Picks(s, t, keep)
    PROVE  /\ keep \cup {Len(t) + 1} \in SUBSET DOMAIN Append(t, v)
           /\ Picks(Append(s, v), Append(t, v), keep \cup {Len(t) + 1})
<1> DEFINE n == Len(s)
           m == Len(t)
           more == keep \cup {m + 1}
           longer == Append(s, v)
<1>1. PICK f \in [DOMAIN s -> keep] :
        /\ Increasing(f)
        /\ \A k \in keep : \E i \in DOMAIN s : f[i] = k
        /\ \A i \in DOMAIN s : s[i] = t[f[i]]
  BY DEF Picks
<1>2. /\ n \in Nat /\ m \in Nat /\ DOMAIN s = 1..n /\ DOMAIN t = 1..m
      /\ DOMAIN longer = 1..(n + 1) /\ DOMAIN Append(t, v) = 1..(m + 1)
  OBVIOUS
<1>3. /\ \A i \in 1..n : longer[i] = s[i]
      /\ \A i \in 1..m : Append(t, v)[i] = t[i]
      /\ longer[n + 1] = v /\ Append(t, v)[m + 1] = v
  OBVIOUS
<1> DEFINE g == [i \in 1..(n + 1) |-> IF i <= n THEN f[i] ELSE m + 1]
<1>4. \A i \in 1..n : g[i] = f[i] /\ f[i] \in keep /\ f[i] \in 1..m
  BY <1>2
<1>5. g[n + 1] = m + 1
  BY <1>2
<1>6. g \in [DOMAIN longer -> more]
  BY <1>2
<1>7. Increasing(g)
  <2> SUFFICES ASSUME NEW i \in 1..(n + 1), NEW j \in 1..(n + 1), i < j PROVE g[i] < g[j]
    BY DEF Increasing
  <2>1. CASE j = n + 1
    <3>1. i \in 1..n
      BY <1>2, <2>1
    <3> QED BY <1>2, <1>4, <1>5, <2>1, <3>1
  <2>2. CASE j # n + 1
    <3>1. i \in 1..n /\ j \in 1..n
      BY <1>2, <2>2
    <3>2. f[i] < f[j]
      BY <1>1, <1>2, <3>1 DEF Increasing
    <3> QED BY <1>4, <3>1, <3>2
  <2> QED BY <2>1, <2>2
<1>8. \A k \in more : \E i \in DOMAIN longer : g[i] = k
  <2> SUFFICES ASSUME NEW k \in more PROVE \E i \in 1..(n + 1) : g[i] = k
    BY <1>2
  <2>1. CASE k \in keep
    <3>1. PICK i \in 1..n : f[i] = k
      BY <1>1, <1>2, <2>1
    <3> QED BY <1>2, <1>4, <3>1
  <2>2. CASE k = m + 1
    BY <1>2, <1>5, <2>2
  <2> QED BY <2>1, <2>2
<1>9. \A i \in DOMAIN longer : longer[i] = Append(t, v)[g[i]]
  <2> SUFFICES ASSUME NEW i \in 1..(n + 1) PROVE longer[i] = Append(t, v)[g[i]]
    BY <1>2
  <2>1. CASE i = n + 1
    BY <1>3, <1>5, <2>1
  <2>2. CASE i # n + 1
    <3>1. i \in 1..n
      BY <1>2, <2>2
    <3>2. longer[i] = t[f[i]]
      BY <1>1, <1>2, <1>3, <3>1
    <3> QED BY <1>3, <1>4, <3>1, <3>2
  <2> QED BY <2>1, <2>2
<1> HIDE DEF g
<1>10. Picks(longer, Append(t, v), more)
  BY <1>6, <1>7, <1>8, <1>9 DEF Picks
<1>11. more \in SUBSET DOMAIN Append(t, v)
  BY <1>2
<1> QED BY <1>10, <1>11

(* How subsequences fare when the sequences grow.                          *)
LEMMA SubsequenceGrows ==
    ASSUME NEW S, NEW s \in Seq(S), NEW t \in Seq(S), NEW v \in S, Subsequence(s, t)
    PROVE  /\ Subsequence(s, Append(t, v))
           /\ Subsequence(Append(s, v), Append(t, v))
<1>1. PICK keep \in SUBSET DOMAIN t : Picks(s, t, keep)
  BY DEF Subsequence
<1>2. Subsequence(s, Append(t, v))
  BY <1>1, PicksSkip DEF Subsequence
<1>3. Subsequence(Append(s, v), Append(t, v))
  BY <1>1, PicksTake DEF Subsequence
<1> QED BY <1>2, <1>3

(* The beginning of a sequence is a subsequence.                           *)
LEMMA BeginningIsSubsequence ==
    ASSUME NEW S, NEW s \in Seq(S), NEW t \in Seq(S), Len(s) <= Len(t),
           \A i \in 1..Len(s) : s[i] = t[i]
    PROVE  Subsequence(s, t)
<1> DEFINE n == Len(s)
           f == [i \in 1..n |-> i]
<1>1. n \in Nat /\ Len(t) \in Nat /\ DOMAIN s = 1..n /\ DOMAIN t = 1..Len(t)
  OBVIOUS
<1>2. 1..n \in SUBSET DOMAIN t
  BY <1>1
<1>3. f \in [DOMAIN s -> 1..n] /\ \A i \in 1..n : f[i] = i
  BY <1>1
<1>4. Increasing(f)
  BY <1>1 DEF Increasing
<1>5. \A k \in 1..n : \E i \in DOMAIN s : f[i] = k
  BY <1>1, <1>3
<1>6. \A i \in DOMAIN s : s[i] = t[f[i]]
  BY <1>1, <1>3
<1> HIDE DEF f
<1>7. Picks(s, t, 1..n)
  BY <1>3, <1>4, <1>5, <1>6 DEF Picks
<1> QED BY <1>2, <1>7 DEF Subsequence

(* Nothing is picked into the empty sequence. *)
LEMMA NothingPicked == ASSUME NEW t, NEW keep, Picks(<<>>, t, keep) PROVE keep = {}
  BY DEF Picks

-----------------------------------------------------------------------------
(* Type correctness.  It holds the frame that the rest stands on: a shared *)
(* list is one list, and a walk is as far as what it consulted.            *)
(* There is nothing in the list of a composite before it is made.          *)
EmptyUntilMade == ~constructed => list = <<>> /\ promised = <<>>

TypedInv == TypeOK /\ EmptyUntilMade

ListsTyped ==
    /\ list \in Seq(Validators) /\ callers \in Seq(Validators) /\ promised \in Seq(Validators)
    /\ aliased => constructed /\ list = callers

LEMMA ListsStayTyped ==
    ASSUME TypeOK, EmptyUntilMade,
           \/ \E given \in {<<>>, callers} : Construct(given)
           \/ \E v \in Validators : AddValidator(v) \/ CallerAppends(v)
    PROVE  TypedInv'
<1>1. /\ Len(list) \in Nat
      /\ \A v \in Validators : /\ Append(list, v) \in Seq(Validators)
                              /\ Append(callers, v) \in Seq(Validators)
                              /\ Append(promised, v) \in Seq(Validators)
                              /\ Len(Append(list, v)) = Len(list) + 1
  BY DEF TypeOK
<1>2. UNCHANGED <<stage, consulted, cursor, value, errors, due, records>>
  BY DEF Construct, AddValidator, CallerAppends, walkVars
<1>3. ListsTyped' /\ Len(list) <= Len(list')
  <2> USE DEF ListsTyped
  <2>1. ASSUME NEW given \in {<<>>, callers}, Construct(given)
        PROVE  ListsTyped' /\ Len(list) <= Len(list')
    <3>1. list = <<>> /\ Len(<<>>) = 0 /\ given \in Seq(Validators) /\ Len(given) >= 0
      <4>1. list = <<>>
        BY <2>1 DEF Construct, EmptyUntilMade
      <4>2. callers \in Seq(Validators)
        BY DEF TypeOK
      <4>3. given \in Seq(Validators)
        <5>1. <<>> \in Seq(Validators)
          OBVIOUS
        <5> QED BY <4>2, <5>1, Zenon
      <4>4. \A s \in Seq(Validators) : Len(s) \in Nat
        OBVIOUS
      <4> QED BY <4>1, <4>3, <4>4
    <3>2. list' = given /\ promised' = given /\ callers' = callers /\ constructed'
      BY <2>1 DEF Construct
    <3>3. aliased' => given = callers
      BY <2>1 DEF Construct
    <3> QED BY <3>1, <3>2, <3>3 DEF TypeOK
  <2>2. ASSUME NEW v \in Validators, AddValidator(v)
        PROVE  ListsTyped' /\ Len(list) <= Len(list')
    BY <1>1, <2>2 DEF AddValidator, TypeOK
  <2>3. ASSUME NEW v \in Validators, CallerAppends(v)
        PROVE  ListsTyped' /\ Len(list) <= Len(list')
    <3>1. callers' = Append(callers, v) /\ UNCHANGED <<constructed, aliased, promised>>
      BY <2>3 DEF CallerAppends
    <3>2. CASE aliased
      <4>1. list' = callers' /\ list = callers /\ constructed
        BY <2>3, <3>2 DEF CallerAppends, TypeOK
      <4> QED BY <1>1, <3>1, <4>1 DEF TypeOK
    <3>3. CASE ~aliased
      <4>1. list' = list /\ ~aliased'
        BY <2>3, <3>3 DEF CallerAppends
      <4>2. list' \in Seq(Validators) /\ callers' \in Seq(Validators) /\ promised' \in Seq(Validators)
        BY <1>1, <3>1, <4>1 DEF TypeOK
      <4> QED BY <1>1, <4>1, <4>2
    <3> QED BY <3>2, <3>3
  <2> QED BY <2>1, <2>2, <2>3
<1>4. constructed' \in BOOLEAN /\ aliased' \in BOOLEAN
  BY Zenon DEF Construct, AddValidator, CallerAppends, TypeOK
<1>5. \A r \in Calls : cursor[r] = Len(consulted[r]) /\ cursor[r] <= Len(list')
  <2> TAKE r \in Calls
  <2>1. cursor[r] \in Nat /\ Len(list') \in Nat
    BY <1>3 DEF TypeOK, ListsTyped
  <2> QED BY <1>1, <1>3, <2>1 DEF TypeOK
<1>6. EmptyUntilMade'
  <2>1. CASE \E given \in {<<>>, callers} : Construct(given)
    BY <2>1 DEF Construct, EmptyUntilMade
  <2>2. CASE \E v \in Validators : AddValidator(v)
    BY <2>2 DEF AddValidator, EmptyUntilMade
  <2>3. CASE \E v \in Validators : CallerAppends(v)
    <3>1. ~constructed => list' = list
      BY <2>3 DEF CallerAppends, TypeOK
    <3> QED BY <2>3, <3>1 DEF CallerAppends, EmptyUntilMade
  <2> QED BY <2>1, <2>2, <2>3
<1> QED BY <1>2, <1>3, <1>4, <1>5, <1>6 DEF TypeOK, ListsTyped, TypedInv

(* One consultation: what its caller's fields become. *)
LEMMA ConsultChanges ==
    ASSUME TypeOK, NEW r \in Calls, NEW f \in Findings, Consult(r, f)
    PROVE  LET v == list[cursor[r] + 1]
           IN  /\ v \in Validators
               /\ cursor[r] < Len(list) /\ stage[r] = "walking"
               /\ consulted'[r] = Append(consulted[r], <<v, f>>)
               /\ cursor'[r] = cursor[r] + 1
               /\ value'[r] = IF f = "VALUE" THEN v ELSE value[r]
               /\ errors'[r] = IF f = "ERRORS" THEN Append(errors[r], v) ELSE errors[r]
               /\ \A o \in Calls \ {r} : /\ consulted'[o] = consulted[o] /\ cursor'[o] = cursor[o]
                                        /\ value'[o] = value[o] /\ errors'[o] = errors[o]
<1>1. list[cursor[r] + 1] \in Validators
  BY DEF Consult, TypeOK
<1> QED BY <1>1 DEF Consult, Aggregate, TypeOK

LEMMA ConsultStaysTyped ==
    ASSUME TypeOK, NEW r \in Calls, NEW f \in Findings, Consult(r, f)
    PROVE  TypeOK'
<1> DEFINE v == list[cursor[r] + 1]
<1>1. v \in Validators
  BY ConsultChanges
<1>2. consulted' \in [Calls -> Seq(Validators \X Findings)]
  <2>1. Append(consulted[r], <<v, f>>) \in Seq(Validators \X Findings)
    BY <1>1 DEF TypeOK
  <2> QED BY <2>1 DEF Consult, TypeOK
<1>3. cursor' \in [Calls -> Nat]
  BY DEF Consult, TypeOK
<1>4. \A o \in Calls : cursor'[o] = Len(consulted'[o]) /\ cursor'[o] <= Len(list)
  <2> TAKE o \in Calls
  <2>1. CASE o = r
    <3>1. consulted[r] \in Seq(Validators \X Findings) /\ <<v, f>> \in Validators \X Findings
      BY <1>1 DEF TypeOK
    <3>2. Len(Append(consulted[r], <<v, f>>)) = Len(consulted[r]) + 1
      BY <3>1
    <3>3. cursor[r] \in Nat /\ Len(list) \in Nat /\ cursor[r] = Len(consulted[r])
      <4>1. list \in Seq(Validators) /\ cursor[r] \in Nat /\ cursor[r] = Len(consulted[r])
        BY Zenon DEF TypeOK
      <4> QED BY <4>1
    <3> QED BY <2>1, <3>2, <3>3, ConsultChanges
  <2>2. CASE o # r
    <3>1. cursor[o] = Len(consulted[o]) /\ cursor[o] <= Len(list)
      BY Zenon DEF TypeOK
    <3> QED BY <2>2, <3>1, ConsultChanges, Zenon
  <2> QED BY <2>1, <2>2
<1>5. value' \in [Calls -> Validators \cup {None}]
  BY <1>1 DEF Consult, Aggregate, TypeOK
<1>6. errors' \in [Calls -> Seq(Validators)]
  <2>1. Append(errors[r], v) \in Seq(Validators)
    BY <1>1 DEF TypeOK
  <2> QED BY <2>1 DEF Consult, Aggregate, TypeOK
<1>7. UNCHANGED <<listVars, stage, due, records>>
  BY DEF Consult
<1> QED BY <1>2, <1>3, <1>4, <1>5, <1>6, <1>7 DEF TypeOK, listVars

(* The record of a call. *)
LEMMA RecordIsTyped ==
    ASSUME TypeOK, NEW r \in Calls
    PROVE  [call |-> r, outcome |-> IF Valid(r) THEN "SUCCESS" ELSE "FAILURE",
            count |-> IF Valid(r) THEN 0 ELSE Len(errors[r])]
              \in [call : Calls, outcome : {"SUCCESS", "FAILURE"}, count : Nat]
<1>1. errors[r] \in Seq(Validators)
  BY DEF TypeOK
<1>2. (IF Valid(r) THEN 0 ELSE Len(errors[r])) \in Nat
  BY <1>1
<1> QED BY <1>2

LEMMA TypedInvariant == Spec => []TypedInv
<1>1. Init => TypedInv
  <2> SUFFICES ASSUME Init PROVE TypedInv
    OBVIOUS
  <2>1. <<>> \in Seq(Validators) /\ <<>> \in Seq(Validators \X Findings) /\ Len(<<>>) = 0
    OBVIOUS
  <2>2. constructed \in BOOLEAN /\ aliased \in BOOLEAN /\ (aliased => constructed /\ list = callers)
    BY Zenon DEF Init
  <2>3. /\ list \in Seq(Validators) /\ callers \in Seq(Validators) /\ promised \in Seq(Validators)
        /\ list = <<>> /\ promised = <<>>
        /\ records \in Seq([call : Calls, outcome : {"SUCCESS", "FAILURE"}, count : Nat])
    BY DEF Init
  <2>4. /\ stage \in [Calls -> {"new", "walking", "logging", "logged"} \cup Ended]
        /\ value \in [Calls -> Validators \cup {None}]
    BY DEF Init
  <2>5. errors \in [Calls -> Seq(Validators)] /\ due \in [Calls -> Seq(Validators)]
    BY <2>1, Zenon DEF Init
  <2>6. consulted \in [Calls -> Seq(Validators \X Findings)]
    BY <2>1, Zenon DEF Init
  <2>7. cursor \in [Calls -> Nat] /\ \A r \in Calls : cursor[r] = 0
    BY DEF Init
  <2>8. \A r \in Calls : consulted[r] = <<>>
    BY DEF Init
  <2>9. \A r \in Calls : cursor[r] = Len(consulted[r]) /\ cursor[r] <= Len(list)
    <3>1. 0 = Len(<<>>) /\ 0 <= Len(<<>>)
      OBVIOUS
    <3> QED BY <2>3, <2>7, <2>8, <3>1, Zenon
  <2>10. TypeOK
    BY <2>2, <2>3, <2>4, <2>5, <2>6, <2>7, <2>9 DEF TypeOK
  <2> QED BY <2>3, <2>10 DEF TypedInv, EmptyUntilMade
<1>2. TypedInv /\ [Next]_vars => TypedInv'
  <2> SUFFICES ASSUME TypeOK, EmptyUntilMade, [Next]_vars PROVE TypedInv'
    BY DEF TypedInv
  <2>1. CASE \/ \E given \in {<<>>, callers} : Construct(given)
             \/ \E v \in Validators : AddValidator(v) \/ CallerAppends(v)
    BY <2>1, ListsStayTyped
  <2>2. ASSUME NEW r \in Calls, Step(r) PROVE TypedInv'
    <3>1. EmptyUntilMade'
      <4>1. UNCHANGED listVars
        BY <2>2 DEF Step, Begin, Consult, ValidatorRaises, WalkEnds, OutputRaises, Conclude, WriteRecord
      <4> QED BY <4>1 DEF EmptyUntilMade, listVars
    <3>2. CASE Begin(r)
      <4>1. UNCHANGED <<listVars, cursor, consulted, value, errors, records>>
        BY <3>2 DEF Begin
      <4>2. stage' \in [Calls -> {"new", "walking", "logging", "logged"} \cup Ended]
        BY <3>2 DEF Begin, Goto, TypeOK
      <4>3. due' \in [Calls -> Seq(Validators)]
        BY <3>2 DEF Begin, TypeOK
      <4> QED BY <3>1, <4>1, <4>2, <4>3 DEF TypeOK, TypedInv, listVars
    <3>3. CASE \E f \in Findings : Consult(r, f)
      BY <3>1, <3>3, ConsultStaysTyped DEF TypedInv
    <3>4. CASE \/ ValidatorRaises(r) \/ WalkEnds(r) \/ OutputRaises(r) \/ Conclude(r)
      <4>1. UNCHANGED <<listVars, walkVars, records>>
        BY <3>4 DEF ValidatorRaises, WalkEnds, OutputRaises, Conclude
      <4>2. stage' \in [Calls -> {"new", "walking", "logging", "logged"} \cup Ended]
        BY <3>4 DEF ValidatorRaises, WalkEnds, OutputRaises, Conclude, Goto, Ended, TypeOK
      <4> QED BY <3>1, <4>1, <4>2 DEF TypeOK, TypedInv, listVars, walkVars
    <3>5. CASE WriteRecord(r)
      <4>1. UNCHANGED <<listVars, walkVars>>
        BY <3>5 DEF WriteRecord
      <4>2. stage' \in [Calls -> {"new", "walking", "logging", "logged"} \cup Ended]
        BY <3>5 DEF WriteRecord, Goto, TypeOK
      <4>3. records' \in Seq([call : Calls, outcome : {"SUCCESS", "FAILURE"}, count : Nat])
        BY <3>5, RecordIsTyped DEF WriteRecord, TypeOK
      <4> QED BY <3>1, <4>1, <4>2, <4>3 DEF TypeOK, TypedInv, listVars, walkVars
    <3> QED BY <2>2, <3>2, <3>3, <3>4, <3>5 DEF Step
  <2>3. CASE UNCHANGED vars
    BY <2>3 DEF TypeOK, EmptyUntilMade, TypedInv, vars, listVars, walkVars
  <2> QED BY <2>1, <2>2, <2>3 DEF Next
<1> QED BY <1>1, <1>2, PTL DEF Spec

(* A walk has consulted what lies behind its cursor, which never leaves    *)
(* the list; lists that are shared stay one list.                          *)
THEOREM TypeCorrect == Spec => []TypeOK
  BY TypedInvariant, PTL DEF TypedInv

-----------------------------------------------------------------------------
(* What the steps of one call leave alone. *)
LEMMA StepOfOne ==
    ASSUME TypeOK, NEW r \in Calls, Step(r)
    PROVE  /\ UNCHANGED listVars
           /\ \A o \in Calls \ {r} :
                /\ stage'[o] = stage[o] /\ cursor'[o] = cursor[o] /\ consulted'[o] = consulted[o]
                /\ value'[o] = value[o] /\ errors'[o] = errors[o] /\ due'[o] = due[o]
           /\ ~Begin(r) => due' = due
           /\ (\A f \in Findings : ~Consult(r, f)) =>
                UNCHANGED <<cursor, consulted, value, errors>>
<1> USE DEF TypeOK, walkVars
<1>1. CASE Begin(r)
  BY <1>1 DEF Begin, Goto
<1>2. CASE \E f \in Findings : Consult(r, f)
  <2>1. PICK f \in Findings : Consult(r, f)
    BY <1>2
  <2>2. UNCHANGED <<listVars, stage, due>>
    BY <2>1 DEF Consult
  <2> QED BY <1>2, <2>1, <2>2, ConsultChanges
<1>3. CASE \/ ValidatorRaises(r) \/ WalkEnds(r) \/ WriteRecord(r) \/ OutputRaises(r) \/ Conclude(r)
  BY <1>3 DEF ValidatorRaises, WalkEnds, OutputRaises, Conclude, WriteRecord, Goto
<1> QED BY <1>1, <1>2, <1>3 DEF Step

(* What is behind the cursor of a walk, and how it relates to what was     *)
(* promised.  The list only grows, at its end, so that a walk has always   *)
(* asked its beginning; and what was promised is always in it.             *)
Asked(r) ==
    /\ \A i \in 1..cursor[r] : consulted[r][i][1] = list[i]
    /\ stage[r] # "new" => constructed /\ Subsequence(due[r], list)
    /\ stage[r] \in {"logging", "logged", "returned", "refused"} =>
          Subsequence(due[r], Names(consulted[r]))

AskedInv ==
    /\ Subsequence(promised, list)
    /\ ~aliased => list = promised
    /\ \A r \in Calls : Asked(r)

LEMMA NamesAreTyped ==
    ASSUME TypeOK, NEW r \in Calls
    PROVE  /\ Names(consulted[r]) \in Seq(Validators)
           /\ Len(Names(consulted[r])) = cursor[r]
           /\ \A i \in 1..cursor[r] : Names(consulted[r])[i] = consulted[r][i][1]
<1>1. /\ consulted[r] \in Seq(Validators \X Findings)
      /\ DOMAIN consulted[r] = 1..cursor[r] /\ cursor[r] \in Nat
  BY DEF TypeOK
<1>2. \A i \in 1..cursor[r] : consulted[r][i][1] \in Validators
  BY <1>1
<1>3. Names(consulted[r]) = [i \in 1..cursor[r] |-> consulted[r][i][1]]
  BY <1>1 DEF Names
<1> QED BY <1>1, <1>2, <1>3

(* A list that grows at its end keeps all that was known of it.            *)
LEMMA AskedWhenListsChange ==
    ASSUME TypedInv, TypedInv', AskedInv,
           \/ \E given \in {<<>>, callers} : Construct(given)
           \/ \E v \in Validators : AddValidator(v) \/ CallerAppends(v)
    PROVE  AskedInv'
<1> USE DEF TypedInv
<1>1. UNCHANGED <<stage, consulted, cursor, due>>
  BY DEF Construct, AddValidator, CallerAppends, walkVars
<1>2. /\ list \in Seq(Validators) /\ promised \in Seq(Validators)
      /\ \A r \in Calls : due[r] \in Seq(Validators) /\ cursor[r] \in Nat /\ cursor[r] <= Len(list)
  BY DEF TypeOK
<1>3. ASSUME NEW given \in {<<>>, callers}, Construct(given)
      PROVE  AskedInv'
  <2>1. list' = given /\ promised' = given /\ given \in Seq(Validators)
    BY <1>3 DEF Construct, TypeOK
  <2>2. Subsequence(given, given)
    BY <2>1, BeginningIsSubsequence
  <2>3. \A r \in Calls : stage[r] = "new" /\ cursor[r] = 0
    <3> TAKE r \in Calls
    <3>1. stage[r] = "new"
      BY <1>3 DEF Construct, AskedInv, Asked
    <3>2. list = <<>> /\ Len(<<>>) = 0
      BY <1>3 DEF Construct, EmptyUntilMade
    <3> QED BY <1>2, <3>1, <3>2
  <2> QED BY <1>1, <2>1, <2>2, <2>3 DEF AskedInv, Asked
<1>4. ASSUME NEW v \in Validators, list' = Append(list, v), constructed => constructed',
             \/ promised' = Append(promised, v)
             \/ promised' = promised /\ aliased,
             aliased' = aliased
      PROVE  AskedInv'
  <2>1. Subsequence(promised', list')
    BY <1>2, <1>4, SubsequenceGrows DEF AskedInv
  <2>2. ~aliased' => list' = promised'
    BY <1>4 DEF AskedInv
  <2>3. ASSUME NEW r \in Calls PROVE Asked(r)'
    <3>1. \A i \in 1..cursor[r] : list'[i] = list[i]
      BY <1>2, <1>4
    <3>2. Subsequence(due[r], list) => Subsequence(due[r], list')
      BY <1>2, <1>4, SubsequenceGrows
    <3>3. Asked(r)
      BY DEF AskedInv
    <3> QED BY <1>1, <1>4, <3>1, <3>2, <3>3 DEF Asked
  <2> QED BY <2>1, <2>2, <2>3 DEF AskedInv
<1>5. ASSUME UNCHANGED <<list, promised, aliased, constructed>>
      PROVE  AskedInv'
  BY <1>1, <1>5 DEF AskedInv, Asked
<1>6. ASSUME NEW v \in Validators, AddValidator(v)
      PROVE  AskedInv'
  BY <1>4, <1>6 DEF AddValidator
<1>7. ASSUME NEW v \in Validators, CallerAppends(v)
      PROVE  AskedInv'
  <2>1. CASE aliased
    <3>1. list' = Append(list, v)
      BY <1>7, <2>1 DEF CallerAppends, TypeOK
    <3> QED BY <1>4, <1>7, <2>1, <3>1 DEF CallerAppends
  <2>2. CASE ~aliased
    BY <1>5, <1>7, <2>2 DEF CallerAppends
  <2> QED BY <2>1, <2>2
<1> QED BY <1>3, <1>6, <1>7

(* A finding appends a name to what a walk consulted. *)
LEMMA ConsultAppends ==
    ASSUME TypeOK, NEW r \in Calls, NEW f \in Findings, Consult(r, f)
    PROVE  LET n == cursor[r]
               v == list[n + 1]
           IN  /\ v \in Validators
               /\ Names(consulted'[r]) = Append(Names(consulted[r]), v)
               /\ DOMAIN consulted[r] = 1..n /\ DOMAIN consulted'[r] = 1..(n + 1)
               /\ \A i \in 1..n : consulted'[r][i] = consulted[r][i]
               /\ consulted'[r][n + 1] = <<v, f>>
<1> DEFINE n == cursor[r]
           v == list[n + 1]
<1>1. /\ consulted[r] \in Seq(Validators \X Findings) /\ n = Len(consulted[r])
      /\ n \in Nat /\ v \in Validators /\ consulted'[r] = Append(consulted[r], <<v, f>>)
  BY ConsultChanges DEF TypeOK
<1> HIDE DEF n, v
<1>2. /\ DOMAIN consulted[r] = 1..n /\ DOMAIN consulted'[r] = 1..(n + 1)
      /\ \A i \in 1..n : consulted'[r][i] = consulted[r][i]
      /\ consulted'[r][n + 1] = <<v, f>>
  BY <1>1
<1>3. /\ Names(consulted[r]) \in Seq(Validators) /\ Len(Names(consulted[r])) = n
      /\ \A i \in 1..n : Names(consulted[r])[i] = consulted[r][i][1]
  BY NamesAreTyped DEF n
<1>4. Names(consulted'[r]) = [i \in 1..(n + 1) |-> consulted'[r][i][1]]
  BY <1>2 DEF Names
<1>5. \A i \in 1..(n + 1) : consulted'[r][i][1] \in Validators
  <2> SUFFICES ASSUME NEW i \in 1..(n + 1) PROVE consulted'[r][i][1] \in Validators
    OBVIOUS
  <2>1. CASE i = n + 1
    BY <1>1, <1>2, <2>1
  <2>2. CASE i \in 1..n
    BY <1>1, <1>2, <2>2
  <2> QED BY <1>1, <2>1, <2>2
<1>6. /\ Names(consulted'[r]) \in Seq(Validators) /\ Len(Names(consulted'[r])) = n + 1
      /\ \A i \in 1..(n + 1) : Names(consulted'[r])[i] = consulted'[r][i][1]
  <2>1. n + 1 \in Nat
    BY <1>1
  <2>2. Names(consulted'[r]) \in [1..(n + 1) -> Validators]
    BY <1>4, <1>5, Zenon
  <2>3. \A i \in 1..(n + 1) : Names(consulted'[r])[i] = consulted'[r][i][1]
    BY <1>4, Zenon
  <2> QED BY <2>1, <2>2, <2>3
<1>7. Append(Names(consulted[r]), v) \in Seq(Validators)
      /\ Len(Append(Names(consulted[r]), v)) = n + 1
  BY <1>1, <1>3
<1>8. \A i \in 1..(n + 1) : Names(consulted'[r])[i] = Append(Names(consulted[r]), v)[i]
  <2> SUFFICES ASSUME NEW i \in 1..(n + 1)
               PROVE  consulted'[r][i][1] = Append(Names(consulted[r]), v)[i]
    BY <1>6
  <2>1. CASE i = n + 1
    <3>1. Append(Names(consulted[r]), v)[n + 1] = v
      BY <1>1, <1>3
    <3>2. consulted'[r][n + 1][1] = v
      BY <1>2
    <3> QED BY <2>1, <3>1, <3>2
  <2>2. CASE i \in 1..n
    <3>1. Append(Names(consulted[r]), v)[i] = Names(consulted[r])[i]
      BY <1>1, <1>3, <2>2
    <3>2. consulted'[r][i][1] = consulted[r][i][1]
      BY <1>2, <2>2, Zenon
    <3> QED BY <1>3, <2>2, <3>1, <3>2, Zenon
  <2>3. i = n + 1 \/ i \in 1..n
    BY <1>1
  <2> QED BY <2>1, <2>2, <2>3, Zenon
<1>9. Names(consulted'[r]) = Append(Names(consulted[r]), v)
  BY <1>6, <1>7, <1>8, SeqEqual
<1> QED BY <1>1, <1>2, <1>9 DEF n, v

(* A walk ends with all of the list asked. *)
LEMMA AskedWhenCallGoesOn ==
    ASSUME TypeOK, AskedInv, NEW r \in Calls, Step(r)
    PROVE  AskedInv'
<1>1. /\ list' = list /\ promised' = promised /\ aliased' = aliased /\ constructed' = constructed
      /\ \A o \in Calls \ {r} : Asked(o)'
  BY StepOfOne DEF AskedInv, Asked, listVars
<1>2. /\ Asked(r) /\ Subsequence(promised, list)
      /\ list \in Seq(Validators) /\ due[r] \in Seq(Validators) /\ cursor[r] \in Nat
      /\ promised \in Seq(Validators) /\ stage[r] \in {"new", "walking", "logging", "logged"} \cup Ended
  BY DEF AskedInv, TypeOK
<1>3. CASE Begin(r)
  <2>1. stage'[r] = "walking" /\ due'[r] = promised /\ constructed
        /\ cursor' = cursor /\ consulted' = consulted
    BY <1>3 DEF Begin, Goto, TypeOK
  <2>2. Asked(r)'
    BY <1>1, <1>2, <2>1 DEF Asked
  <2> QED BY <1>1, <2>2 DEF AskedInv
<1>4. ASSUME NEW f \in Findings, Consult(r, f) PROVE AskedInv'
  <2>1. stage[r] = "walking" /\ stage' = stage /\ due' = due /\ cursor'[r] = cursor[r] + 1
    BY <1>4, ConsultChanges DEF Consult
  <2>2. \A i \in 1..(cursor[r] + 1) : consulted'[r][i][1] = list[i]
    <3> SUFFICES ASSUME NEW i \in 1..(cursor[r] + 1) PROVE consulted'[r][i][1] = list[i]
      OBVIOUS
    <3>1. CASE i = cursor[r] + 1
      BY <1>4, <3>1, ConsultAppends
    <3>2. CASE i \in 1..cursor[r]
      BY <1>2, <1>4, <3>2, ConsultAppends DEF Asked
    <3> QED BY <1>2, <3>1, <3>2
  <2>3. Asked(r)'
    BY <1>1, <1>2, <2>1, <2>2 DEF Asked
  <2> QED BY <1>1, <2>3 DEF AskedInv
<1>5. CASE WalkEnds(r)
  <2>1. stage'[r] = "logging" /\ cursor[r] >= Len(list) /\ stage[r] = "walking"
        /\ UNCHANGED <<due, cursor, consulted>>
    BY <1>5 DEF WalkEnds, Goto, TypeOK, walkVars
  <2>2. Names(consulted[r]) = list
    <3>1. /\ Names(consulted[r]) \in Seq(Validators) /\ Len(Names(consulted[r])) = cursor[r]
          /\ \A i \in 1..cursor[r] : Names(consulted[r])[i] = list[i]
      BY <1>2, NamesAreTyped DEF Asked
    <3>2. cursor[r] = Len(list)
      BY <1>2, <2>1 DEF TypeOK
    <3> QED BY <1>2, <3>1, <3>2, SeqEqual
  <2>3. Asked(r)'
    BY <1>1, <1>2, <2>1, <2>2 DEF Asked
  <2> QED BY <1>1, <2>3 DEF AskedInv
<1>6. CASE WriteRecord(r) \/ Conclude(r)
  <2>1. /\ stage[r] \in {"logging", "logged"}
        /\ stage'[r] \in {"logged", "returned", "refused"}
        /\ UNCHANGED <<due, cursor, consulted>>
    BY <1>6 DEF WriteRecord, Conclude, Goto, TypeOK, walkVars
  <2>2. Asked(r)'
    BY <1>1, <1>2, <2>1 DEF Asked
  <2> QED BY <1>1, <2>2 DEF AskedInv
<1>7. CASE ValidatorRaises(r) \/ OutputRaises(r)
  <2>1. /\ stage[r] # "new"
        /\ stage'[r] \in {"validatorRaised", "outputRaised"}
        /\ UNCHANGED <<due, cursor, consulted>>
    BY <1>7 DEF ValidatorRaises, OutputRaises, Goto, TypeOK, walkVars
  <2>2. Asked(r)'
    BY <1>1, <1>2, <2>1 DEF Asked
  <2> QED BY <1>1, <2>2 DEF AskedInv
<1> QED BY <1>3, <1>4, <1>5, <1>6, <1>7 DEF Step

LEMMA AskedInvariant == Spec => []AskedInv
<1>1. Init => AskedInv
  <2> SUFFICES ASSUME Init PROVE AskedInv
    OBVIOUS
  <2>1. list = <<>> /\ promised = <<>> /\ list \in Seq(Validators) /\ Len(list) = 0
    BY DEF Init
  <2>2. Subsequence(list, list)
    <3>1. list \in Seq(Validators)
      BY <2>1
    <3> QED BY <3>1, BeginningIsSubsequence
  <2>3. \A r \in Calls : Asked(r)
    <3> TAKE r \in Calls
    <3>1. cursor[r] = 0 /\ stage[r] = "new"
      BY DEF Init
    <3>2. \A i \in 1..cursor[r] : FALSE
      BY <3>1
    <3> QED BY <3>1, <3>2 DEF Asked
  <2> QED BY <2>1, <2>2, <2>3 DEF AskedInv
<1>2. TypedInv /\ TypedInv' /\ AskedInv /\ [Next]_vars => AskedInv'
  <2> SUFFICES ASSUME TypedInv, TypedInv', AskedInv, [Next]_vars PROVE AskedInv'
    OBVIOUS
  <2>1. CASE UNCHANGED vars
    BY <2>1 DEF AskedInv, Asked, vars, listVars, walkVars
  <2> QED BY <2>1, AskedWhenListsChange, AskedWhenCallGoesOn DEF Next, TypedInv
<1> QED BY <1>1, <1>2, TypedInvariant, PTL DEF Spec

-----------------------------------------------------------------------------
(* What a walk has gathered.  The errors are those of the validators that  *)
(* found errors, in order; the value is that of the last that found one.   *)
Gathered(r) ==
    /\ Picks(errors[r], Names(consulted[r]), Found(r, "ERRORS"))
    /\ value[r] = None => Found(r, "VALUE") = {}
    /\ value[r] # None =>
          \E k \in Found(r, "VALUE") :
              /\ consulted[r][k][1] = value[r]
              /\ \A i \in Found(r, "VALUE") : i <= k
    /\ stage[r] = "returned" => Valid(r)
    /\ stage[r] = "refused" => ~Valid(r)

GatheredInv == \A r \in Calls : Gathered(r)

(* What one more finding adds to the places of a kind. *)
LEMMA FoundGrows ==
    ASSUME TypeOK, NEW r \in Calls, NEW f \in Findings, Consult(r, f), NEW g \in Findings
    PROVE  /\ Found(r, g)' = Found(r, g) \cup (IF f = g THEN {cursor[r] + 1} ELSE {})
           /\ Found(r, g) \in SUBSET (1..cursor[r])
<1> DEFINE n == cursor[r]
           v == list[n + 1]
<1>1. /\ DOMAIN consulted[r] = 1..n /\ DOMAIN consulted'[r] = 1..(n + 1) /\ n \in Nat
      /\ \A i \in 1..n : consulted'[r][i] = consulted[r][i]
      /\ consulted'[r][n + 1] = <<v, f>>
  BY ConsultAppends DEF TypeOK
<1> HIDE DEF n, v
<1>2. Found(r, g) = {i \in 1..n : consulted[r][i][2] = g}
  BY <1>1 DEF Found
<1>3. Found(r, g)' = {i \in 1..(n + 1) : consulted'[r][i][2] = g}
  BY <1>1 DEF Found
<1>4. \A i \in 1..n : consulted'[r][i][2] = consulted[r][i][2]
  BY <1>1, Zenon
<1>5. consulted'[r][n + 1][2] = f
  BY <1>1
<1>6. 1..(n + 1) = (1..n) \cup {n + 1}
  BY <1>1
<1> DEFINE at(i) == consulted[r][i][2]
           nowAt(i) == consulted'[r][i][2]
<1>7. Found(r, g)' = Found(r, g) \cup (IF f = g THEN {n + 1} ELSE {})
  <2>1. CASE f = g
    <3>1. \A i : i \in Found(r, g)' <=> i \in Found(r, g) \/ i = n + 1
      BY <1>2, <1>3, <1>4, <1>5, <1>6, <2>1, Zenon
    <3> QED BY <2>1, <3>1
  <2>2. CASE f # g
    <3>1. \A i : i \in Found(r, g)' <=> i \in Found(r, g)
      BY <1>2, <1>3, <1>4, <1>5, <1>6, <2>2, Zenon
    <3> QED BY <2>2, <3>1
  <2> QED BY <2>1, <2>2
<1>8. Found(r, g) \in SUBSET (1..n)
  BY <1>2
<1> QED BY <1>7, <1>8 DEF n

LEMMA GatheredStep ==
    ASSUME TypeOK, GatheredInv, NEW r \in Calls, NEW f \in Findings, Consult(r, f)
    PROVE  Gathered(r)'
<1> DEFINE n == cursor[r]
           v == list[n + 1]
<1>1. /\ stage'[r] = "walking" /\ v \in Validators /\ n \in Nat
      /\ value'[r] = IF f = "VALUE" THEN v ELSE value[r]
      /\ errors'[r] = IF f = "ERRORS" THEN Append(errors[r], v) ELSE errors[r]
      /\ Names(consulted'[r]) = Append(Names(consulted[r]), v)
      /\ \A i \in 1..n : consulted'[r][i] = consulted[r][i]
      /\ consulted'[r][n + 1] = <<v, f>>
  <2>1. stage'[r] = "walking" /\ n \in Nat
    BY DEF Consult, TypeOK
  <2> QED BY <2>1, ConsultAppends, ConsultChanges
<1>2. /\ errors[r] \in Seq(Validators) /\ Names(consulted[r]) \in Seq(Validators)
      /\ Len(Names(consulted[r])) = n /\ DOMAIN Names(consulted[r]) = 1..n
  BY NamesAreTyped DEF TypeOK
<1>3. /\ "ERRORS" \in Findings /\ "VALUE" \in Findings /\ None # v
  BY <1>1, NoneAssumption DEF Findings
<1>4. /\ Found(r, "ERRORS")' = Found(r, "ERRORS") \cup (IF f = "ERRORS" THEN {n + 1} ELSE {})
      /\ Found(r, "VALUE")' = Found(r, "VALUE") \cup (IF f = "VALUE" THEN {n + 1} ELSE {})
      /\ Found(r, "ERRORS") \in SUBSET (1..n) /\ Found(r, "VALUE") \in SUBSET (1..n)
  BY <1>3, FoundGrows
<1>5. Gathered(r)
  BY DEF GatheredInv
<1> HIDE DEF n, v
<1>6. Picks(errors'[r], Names(consulted'[r]), Found(r, "ERRORS")')
  <2>1. CASE f = "ERRORS"
    <3>1. Picks(Append(errors[r], v), Append(Names(consulted[r]), v), Found(r, "ERRORS") \cup {n + 1})
      BY <1>1, <1>2, <1>4, <1>5, PicksTake DEF Gathered
    <3> QED BY <1>1, <1>4, <2>1, <3>1
  <2>2. CASE f # "ERRORS"
    <3>1. Picks(errors[r], Append(Names(consulted[r]), v), Found(r, "ERRORS"))
      BY <1>1, <1>2, <1>4, <1>5, PicksSkip DEF Gathered
    <3>2. Found(r, "ERRORS")' = Found(r, "ERRORS")
      BY <1>4, <2>2
    <3> QED BY <1>1, <2>2, <3>1, <3>2
  <2> QED BY <2>1, <2>2
<1>7. CASE f = "VALUE"
  <2>1. n + 1 \in Found(r, "VALUE")' /\ \A i \in Found(r, "VALUE")' : i <= n + 1
    BY <1>1, <1>4, <1>7
  <2>2. consulted'[r][n + 1][1] = value'[r] /\ value'[r] # None
    BY <1>1, <1>3, <1>7
  <2> QED BY <1>1, <1>6, <2>1, <2>2 DEF Gathered
<1>8. CASE f # "VALUE"
  <2>1. Found(r, "VALUE")' = Found(r, "VALUE") /\ value'[r] = value[r]
    BY <1>1, <1>4, <1>8
  <2>2. \A k \in Found(r, "VALUE") : consulted'[r][k] = consulted[r][k]
    BY <1>1, <1>4
  <2> QED BY <1>1, <1>5, <1>6, <2>1, <2>2 DEF Gathered
<1> QED BY <1>7, <1>8

LEMMA GatheredInvariant == Spec => []GatheredInv
<1>1. Init => GatheredInv
  <2> SUFFICES ASSUME Init, NEW r \in Calls PROVE Gathered(r)
    BY DEF GatheredInv
  <2>1. /\ consulted[r] = <<>> /\ errors[r] = <<>> /\ value[r] = None /\ stage[r] = "new"
    BY DEF Init
  <2>2. \A i \in DOMAIN <<>> : FALSE
    OBVIOUS
  <2>3. Found(r, "ERRORS") = {} /\ Found(r, "VALUE") = {}
    BY <2>1, <2>2 DEF Found
  <2>4. Picks(<<>>, Names(<<>>), {})
    <3> DEFINE none == [i \in {} |-> i]
    <3>1. none \in [DOMAIN <<>> -> {}] /\ DOMAIN none = {}
      BY <2>2
    <3>2. Increasing(none)
      BY <3>1 DEF Increasing
    <3> QED BY <2>2, <3>1, <3>2 DEF Picks
  <2> QED BY <2>1, <2>3, <2>4 DEF Gathered
<1>2. TypedInv /\ GatheredInv /\ [Next]_vars => GatheredInv'
  <2> SUFFICES ASSUME TypeOK, GatheredInv, [Next]_vars, NEW o \in Calls PROVE Gathered(o)'
    BY DEF GatheredInv, TypedInv
  <2>1. Gathered(o)
    BY DEF GatheredInv
  <2>2. ASSUME NEW r \in Calls, Step(r) PROVE Gathered(o)'
    <3>1. CASE o # r
      <4>1. /\ consulted'[o] = consulted[o] /\ value'[o] = value[o]
            /\ errors'[o] = errors[o] /\ stage'[o] = stage[o]
        BY <2>2, <3>1, StepOfOne
      <4>2. Found(o, "ERRORS")' = Found(o, "ERRORS") /\ Found(o, "VALUE")' = Found(o, "VALUE")
        BY <4>1 DEF Found
      <4>3. Valid(o)' <=> Valid(o)
        BY <4>1 DEF Valid
      <4> QED BY <2>1, <4>1, <4>2, <4>3 DEF Gathered
    <3>2. CASE o = r /\ \E f \in Findings : Consult(r, f)
      BY <3>2, GatheredStep
    <3>3. CASE o = r /\ \A f \in Findings : ~Consult(r, f)
      <4>1. UNCHANGED <<consulted, value, errors>>
        BY <2>2, <3>3, StepOfOne
      <4>2. /\ stage'[r] = "returned" => Valid(r)
            /\ stage'[r] = "refused" => ~Valid(r)
        BY <2>1, <2>2, <3>3
        DEF Step, Begin, ValidatorRaises, WalkEnds, WriteRecord, OutputRaises, Conclude, Goto,
            Gathered, TypeOK
      <4> QED BY <2>1, <3>3, <4>1, <4>2 DEF Gathered, Found, Valid
    <3> QED BY <3>1, <3>2, <3>3
  <2>3. CASE UNCHANGED <<stage, walkVars>>
    BY <2>1, <2>3 DEF Gathered, Found, Valid, walkVars
  <2> QED BY <2>2, <2>3 DEF Next, Construct, AddValidator, CallerAppends, vars
<1> QED BY <1>1, <1>2, TypedInvariant, PTL DEF Spec

(* An outcome is that of all validators. *)
THEOREM AllDecide == Spec => []OutcomeOfAll
<1>1. TypedInv /\ AskedInv /\ GatheredInv => OutcomeOfAll
  <2> SUFFICES ASSUME TypeOK, AskedInv, GatheredInv, NEW r \in Calls
               PROVE  /\ stage[r] \in {"returned", "refused"} =>
                            Subsequence(due[r], Names(consulted[r]))
                      /\ ~aliased => Subsequence(Names(consulted[r]), promised)
                      /\ stage[r] = "returned" =>
                            /\ Found(r, "ERRORS") = {}
                            /\ \E k \in Found(r, "VALUE") :
                                  /\ consulted[r][k][1] = value[r]
                                  /\ \A i \in Found(r, "VALUE") : i <= k
                      /\ stage[r] = "refused" =>
                            /\ Picks(errors[r], Names(consulted[r]), Found(r, "ERRORS"))
                            /\ errors[r] = <<>> => Found(r, "VALUE") = {}
    BY DEF TypedInv, OutcomeOfAll
  <2>1. Asked(r) /\ Gathered(r)
    BY DEF AskedInv, GatheredInv
  <2>2. ASSUME ~aliased PROVE Subsequence(Names(consulted[r]), promised)
    <3>1. list = promised /\ promised \in Seq(Validators) /\ cursor[r] <= Len(list)
      BY <2>2 DEF AskedInv, TypeOK
    <3>2. /\ Names(consulted[r]) \in Seq(Validators) /\ Len(Names(consulted[r])) = cursor[r]
          /\ \A i \in 1..cursor[r] : Names(consulted[r])[i] = list[i]
      BY <2>1, NamesAreTyped DEF Asked
    <3> QED BY <3>1, <3>2, BeginningIsSubsequence
  <2>3. ASSUME stage[r] = "returned" PROVE Found(r, "ERRORS") = {} /\ value[r] # None
    BY <2>1, <2>3, NothingPicked DEF Gathered, Valid
  <2>4. ASSUME stage[r] = "refused", errors[r] = <<>> PROVE Found(r, "VALUE") = {}
    BY <2>1, <2>4 DEF Gathered, Valid
  <2> QED BY <2>1, <2>2, <2>3, <2>4 DEF Asked, Gathered
<1> QED BY <1>1, TypedInvariant, AskedInvariant, GatheredInvariant, PTL

-----------------------------------------------------------------------------
(* A call has one record from the moment it writes it, which tells what it *)
(* is about to conclude, since value and errors do not change any more.    *)
Recorded(r) ==
    /\ stage[r] \in {"new", "walking", "logging", "validatorRaised", "outputRaised"} =>
          RecordsOf(r) = {}
    /\ stage[r] \in {"logged", "returned", "refused"} =>
          \E i \in DOMAIN records :
              /\ RecordsOf(r) = {i}
              /\ Valid(r) => records[i].outcome = "SUCCESS" /\ records[i].count = 0
              /\ ~Valid(r) => records[i].outcome = "FAILURE" /\ records[i].count = Len(errors[r])

RecordedInv == \A r \in Calls : Recorded(r)

(* The record of one call is none of another. *)
LEMMA RecordWritten ==
    ASSUME TypeOK, NEW r \in Calls, WriteRecord(r), NEW o \in Calls
    PROVE  LET n == Len(records) + 1
           IN  /\ DOMAIN records = 1..(n - 1) /\ DOMAIN records' = 1..n /\ n \in Nat
               /\ \A i \in DOMAIN records : records'[i] = records[i]
               /\ RecordsOf(o)' = RecordsOf(o) \cup (IF o = r THEN {n} ELSE {})
               /\ Valid(r) => records'[n].outcome = "SUCCESS" /\ records'[n].count = 0
               /\ ~Valid(r) => records'[n].outcome = "FAILURE" /\ records'[n].count = Len(errors[r])
<1> DEFINE n == Len(records) + 1
           k == [call |-> r, outcome |-> IF Valid(r) THEN "SUCCESS" ELSE "FAILURE",
                 count |-> IF Valid(r) THEN 0 ELSE Len(errors[r])]
<1>1. k.call = r
  OBVIOUS
<1>2. Valid(r) => k.outcome = "SUCCESS" /\ k.count = 0
  OBVIOUS
<1>3. ~Valid(r) => k.outcome = "FAILURE" /\ k.count = Len(errors[r])
  OBVIOUS
<1>4. records' = Append(records, k)
  BY DEF WriteRecord
<1>5. k \in [call : Calls, outcome : {"SUCCESS", "FAILURE"}, count : Nat]
      /\ records \in Seq([call : Calls, outcome : {"SUCCESS", "FAILURE"}, count : Nat])
  BY RecordIsTyped DEF TypeOK
<1> HIDE DEF k
<1>6. /\ DOMAIN records = 1..(n - 1) /\ DOMAIN records' = 1..n /\ n \in Nat
      /\ \A i \in DOMAIN records : records'[i] = records[i]
      /\ records'[n] = k /\ n \notin DOMAIN records
      /\ \A i : i \in DOMAIN records' <=> i \in DOMAIN records \/ i = n
  BY <1>4, <1>5
<1> HIDE DEF n
<1>7. RecordsOf(o)' = RecordsOf(o) \cup (IF o = r THEN {n} ELSE {})
  <2>1. CASE o = r
    <3>1. \A i : i \in RecordsOf(o)' <=> i \in RecordsOf(o) \/ i = n
      BY <1>1, <1>6, <2>1, Zenon DEF RecordsOf
    <3> QED BY <2>1, <3>1
  <2>2. CASE o # r
    <3>1. \A i : i \in RecordsOf(o)' <=> i \in RecordsOf(o)
      BY <1>1, <1>6, <2>2, Zenon DEF RecordsOf
    <3> QED BY <2>2, <3>1
  <2> QED BY <2>1, <2>2
<1> QED BY <1>2, <1>3, <1>6, <1>7 DEF n

LEMMA RecordedInvariant == Spec => []RecordedInv
<1>1. Init => RecordedInv
  <2> SUFFICES ASSUME Init, NEW r \in Calls PROVE Recorded(r)
    BY DEF RecordedInv
  <2>1. records = <<>> /\ stage[r] = "new"
    BY DEF Init
  <2>2. RecordsOf(r) = {}
    BY <2>1 DEF RecordsOf
  <2> QED BY <2>1, <2>2 DEF Recorded
<1>2. TypedInv /\ RecordedInv /\ [Next]_vars => RecordedInv'
  <2> SUFFICES ASSUME TypeOK, RecordedInv, [Next]_vars, NEW o \in Calls PROVE Recorded(o)'
    BY DEF RecordedInv, TypedInv
  <2>1. Recorded(o)
    BY DEF RecordedInv
  <2>2. ASSUME records' = records, value'[o] = value[o], errors'[o] = errors[o],
               stage'[o] = stage[o]
        PROVE  Recorded(o)'
    <3>1. RecordsOf(o)' = RecordsOf(o)
      BY <2>2 DEF RecordsOf
    <3>2. Valid(o)' <=> Valid(o)
      BY <2>2 DEF Valid
    <3> QED BY <2>1, <2>2, <3>1, <3>2 DEF Recorded
  <2>3. ASSUME NEW r \in Calls, Step(r) PROVE Recorded(o)'
    <3>1. CASE WriteRecord(r)
      <4>1. stage[r] = "logging" /\ stage'[r] = "logged" /\ UNCHANGED <<value, errors>>
        BY <3>1 DEF WriteRecord, Goto, TypeOK, walkVars
      <4>2. Valid(o)' <=> Valid(o)
        BY <4>1 DEF Valid
      <4>3. CASE o = r
        <5>1. RecordsOf(o) = {}
          BY <2>1, <4>1, <4>3 DEF Recorded
        <5>2. RecordsOf(o)' = {Len(records) + 1} /\ Len(records) + 1 \in DOMAIN records'
          BY <3>1, <4>3, <5>1, RecordWritten
        <5>3. /\ Valid(o) => /\ records'[Len(records) + 1].outcome = "SUCCESS"
                             /\ records'[Len(records) + 1].count = 0
              /\ ~Valid(o) => /\ records'[Len(records) + 1].outcome = "FAILURE"
                              /\ records'[Len(records) + 1].count = Len(errors[o])
          BY <3>1, <4>3, RecordWritten
        <5> QED BY <4>1, <4>2, <4>3, <5>2, <5>3 DEF Recorded
      <4>4. CASE o # r
        <5>1. stage'[o] = stage[o]
          BY <2>3, <4>4, StepOfOne
        <5>2. /\ RecordsOf(o)' = RecordsOf(o)
              /\ \A i \in DOMAIN records : i \in DOMAIN records' /\ records'[i] = records[i]
          <6> DEFINE n == Len(records) + 1
          <6>1. /\ DOMAIN records = 1..(n - 1) /\ DOMAIN records' = 1..n /\ n \in Nat
                /\ \A i \in DOMAIN records : records'[i] = records[i]
            BY <3>1, RecordWritten
          <6>2. RecordsOf(o)' = RecordsOf(o) \cup {}
            BY <3>1, <4>4, RecordWritten
          <6>3. 1..(n - 1) \subseteq 1..n
            BY <6>1
          <6> QED BY <6>1, <6>2, <6>3
        <5> QED BY <2>1, <4>1, <4>2, <5>1, <5>2 DEF Recorded
      <4> QED BY <4>3, <4>4
    <3>2. CASE ~WriteRecord(r)
      <4>1. records' = records
        BY <2>3, <3>2 DEF Step, Begin, Consult, ValidatorRaises, WalkEnds, OutputRaises, Conclude
      <4>2. CASE o # r
        BY <2>2, <2>3, <4>1, <4>2, StepOfOne
      <4>3. CASE o = r
        <5>1. RecordsOf(o)' = RecordsOf(o)
          BY <4>1 DEF RecordsOf
        <5>2. CASE Conclude(r)
          <6>1. /\ stage[r] = "logged" /\ stage'[r] \in {"returned", "refused"}
                /\ UNCHANGED <<value, errors>>
            BY <5>2 DEF Conclude, Goto, TypeOK, walkVars
          <6>2. Valid(o)' <=> Valid(o)
            BY <6>1 DEF Valid
          <6> QED BY <2>1, <4>1, <4>3, <5>1, <6>1, <6>2 DEF Recorded
        <5>3. CASE ~Conclude(r)
          <6>1. /\ stage[r] \in {"new", "walking", "logging"}
                /\ stage'[r] \in {"walking", "logging", "validatorRaised", "outputRaised"}
            <7>1. CASE \E f \in Findings : Consult(r, f)
              BY <7>1 DEF Consult
            <7>2. CASE Begin(r) \/ ValidatorRaises(r) \/ WalkEnds(r) \/ OutputRaises(r)
              BY <7>2 DEF Begin, ValidatorRaises, WalkEnds, OutputRaises, Goto, TypeOK
            <7> QED BY <2>3, <3>2, <5>3, <7>1, <7>2 DEF Step
          <6> QED BY <2>1, <4>3, <5>1, <6>1 DEF Recorded
        <5> QED BY <5>2, <5>3
      <4> QED BY <4>2, <4>3
    <3> QED BY <3>1, <3>2
  <2>4. CASE UNCHANGED <<stage, walkVars, records>>
    BY <2>2, <2>4 DEF walkVars
  <2> QED BY <2>3, <2>4 DEF Next, Construct, AddValidator, CallerAppends, vars
<1> QED BY <1>1, <1>2, TypedInvariant, PTL DEF Spec

(* The record of a call tells how it ended, and only calls that concluded  *)
(* have one.                                                               *)
THEOREM RecordIsTrue == Spec => []RecordTellsOutcome
<1>1. GatheredInv /\ RecordedInv => RecordTellsOutcome
  <2> SUFFICES ASSUME GatheredInv, RecordedInv, NEW r \in Calls
               PROVE  /\ stage[r] \in {"returned", "refused"} =>
                            \E i \in DOMAIN records : RecordsOf(r) = {i}
                      /\ \A i \in RecordsOf(r) :
                            /\ stage[r] = "returned" =>
                                  records[i].outcome = "SUCCESS" /\ records[i].count = 0
                            /\ stage[r] = "refused" =>
                                  /\ records[i].outcome = "FAILURE"
                                  /\ records[i].count = Len(errors[r])
                      /\ stage[r] \in {"validatorRaised", "outputRaised"} => RecordsOf(r) = {}
    BY DEF RecordTellsOutcome
  <2>1. Gathered(r) /\ Recorded(r)
    BY DEF GatheredInv, RecordedInv
  <2>2. CASE stage[r] \in {"returned", "refused"}
    <3>1. PICK i \in DOMAIN records :
            /\ RecordsOf(r) = {i}
            /\ Valid(r) => records[i].outcome = "SUCCESS" /\ records[i].count = 0
            /\ ~Valid(r) => records[i].outcome = "FAILURE" /\ records[i].count = Len(errors[r])
      BY <2>1, <2>2 DEF Recorded
    <3> QED BY <2>1, <2>2, <3>1 DEF Gathered
  <2> QED BY <2>1, <2>2 DEF Recorded
<1> QED BY <1>1, GatheredInvariant, RecordedInvariant, PTL
=============================================================================
