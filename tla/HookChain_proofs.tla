--------------------------- MODULE HookChain_proofs ---------------------------
(***************************************************************************)
(* Theorems about the chain of authorization hooks, for every set of       *)
(* requests and of hooks, every policy of the hooks, every default         *)
(* decision and every bound on the length of the chain.                    *)
(***************************************************************************)
EXTENDS HookChain, SequenceTheorems, FiniteSetTheorems, TLAPS

-----------------------------------------------------------------------------
(* list.remove: the list is one shorter, and the elements before the       *)
(* removed place stay where they were, those after it move down one.       *)
LEMMA RemoveAtProperties ==
    ASSUME NEW S, NEW s \in Seq(S), NEW i \in 1..Len(s)
    PROVE  /\ RemoveAt(s, i) \in Seq(S)
           /\ Len(RemoveAt(s, i)) = Len(s) - 1
           /\ \A j \in 1..(i - 1) : RemoveAt(s, i)[j] = s[j]
           /\ \A j \in i..(Len(s) - 1) : RemoveAt(s, i)[j] = s[j + 1]
<1> DEFINE front == SubSeq(s, 1, i - 1)
           back == SubSeq(s, i + 1, Len(s))
<1>1. /\ Len(s) \in Nat
      /\ \A j \in 1..Len(s) : s[j] \in S
  BY ElementOfSeq, LenProperties
<1>2. /\ front \in Seq(S)
      /\ Len(front) = i - 1
      /\ \A j \in 1..(i - 1) : front[j] = s[j]
  <2>1. \A j \in 1..(i - 1) : s[j] \in S
    BY <1>1
  <2>2. /\ front \in Seq(S)
        /\ Len(front) = IF 1 <= i - 1 THEN i - 1 - 1 + 1 ELSE 0
        /\ \A j \in 1..(i - 1 - 1 + 1) : front[j] = s[1 + j - 1]
    BY <1>1, <2>1, SubSeqProperties
  <2> QED BY <1>1, <2>2
<1>3. /\ back \in Seq(S)
      /\ Len(back) = Len(s) - i
      /\ \A j \in 1..(Len(s) - i) : back[j] = s[i + j]
  <2>1. \A j \in (i + 1)..Len(s) : s[j] \in S
    BY <1>1
  <2>2. /\ back \in Seq(S)
        /\ Len(back) = IF i + 1 <= Len(s) THEN Len(s) - (i + 1) + 1 ELSE 0
        /\ \A j \in 1..(Len(s) - (i + 1) + 1) : back[j] = s[(i + 1) + j - 1]
    BY <1>1, <2>1, SubSeqProperties
  <2> QED BY <1>1, <2>2
<1> HIDE DEF front, back
<1>4. /\ front \o back \in Seq(S)
      /\ Len(front \o back) = Len(front) + Len(back)
      /\ \A j \in 1..(Len(front) + Len(back)) :
            (front \o back)[j] = IF j <= Len(front) THEN front[j] ELSE back[j - Len(front)]
  BY <1>2, <1>3, ConcatProperties
<1>5. RemoveAt(s, i) = front \o back
  BY DEF RemoveAt, front, back
<1>6. ASSUME NEW j \in 1..(i - 1) PROVE (front \o back)[j] = s[j]
  BY <1>1, <1>2, <1>3, <1>4
<1>7. ASSUME NEW j \in i..(Len(s) - 1) PROVE (front \o back)[j] = s[j + 1]
  <2>1. j \in 1..(Len(front) + Len(back)) /\ ~(j <= Len(front))
    BY <1>1, <1>2, <1>3
  <2>2. (front \o back)[j] = back[j - Len(front)]
    BY <1>4, <2>1
  <2>3. /\ j - Len(front) \in 1..(Len(s) - i)
        /\ i + (j - Len(front)) = j + 1
    BY <1>1, <1>2
  <2> QED BY <1>3, <2>2, <2>3
<1>8. Len(front \o back) = Len(s) - 1
  BY <1>1, <1>2, <1>3, <1>4
<1> QED BY <1>4, <1>5, <1>6, <1>7, <1>8

(* A sequence of at most n elements of S, in the form Init uses. *)
LEMMA BoundedSeqProperties ==
    ASSUME NEW S, NEW n \in Nat, NEW s \in BoundedSeq(S, n)
    PROVE  s \in Seq(S) /\ Len(s) <= n
<1>1. PICK m \in 0..n : s \in [1..m -> S]
  BY DEF BoundedSeq, SeqOf
<1> QED BY <1>1

-----------------------------------------------------------------------------
(* The evaluations keep their types: cursors stay within the bound, and an *)
(* outcome is pending, an answer of a hook, or the default.                *)
THEOREM TypeCorrect == Spec => []TypeOK
<1> USE DefaultAssumption, BoundAssumption, NoHookAssumption
<1>1. Init => TypeOK
  <2> SUFFICES ASSUME Init PROVE TypeOK
    OBVIOUS
  <2>1. chain \in Seq(Hooks) /\ Len(chain) <= MaxChain
    BY BoundedSeqProperties DEF Init
  <2>2. verdict \in [Requests -> [Hooks -> Answers]]
    BY DEF Init, Answers, Atomic!Policies
  <2> QED BY <2>1, <2>2 DEF Init, TypeOK
<1>2. TypeOK /\ [Next]_vars => TypeOK'
  <2> SUFFICES ASSUME TypeOK, [Next]_vars PROVE TypeOK'
    OBVIOUS
  <2> USE DEF TypeOK
  <2>1. ASSUME NEW h \in Hooks, AddHook(h) PROVE TypeOK'
    <3>1. chain' \in Seq(Hooks) /\ Len(chain') = Len(chain) + 1
      BY <2>1, AppendProperties DEF AddHook
    <3> QED BY <2>1, <3>1, LenProperties DEF AddHook, evaluation
  <2>2. ASSUME NEW h \in Hooks, RemoveHook(h) PROVE TypeOK'
    <3>1. PICK i \in DOMAIN chain :
            /\ chain' = RemoveAt(chain, i)
            /\ behind' = [r \in Requests |->
                             IF i <= cursor[r] /\ behind[r] < MaxChain
                             THEN behind[r] + 1 ELSE behind[r]]
            /\ present' = [r \in Requests |-> present[r] \cap ToSet(chain')]
            /\ UNCHANGED <<verdict, evaluation>>
      BY <2>2 DEF RemoveHook
    <3>2. i \in 1..Len(chain) /\ Len(chain) \in Nat
      BY LenProperties
    <3>3. chain' \in Seq(Hooks) /\ Len(chain') = Len(chain) - 1
      BY <3>1, <3>2, RemoveAtProperties
    <3>4. behind' \in [Requests -> 0..MaxChain]
      BY <3>1
    <3>5. present' \in [Requests -> SUBSET Hooks]
      BY <3>1
    <3> QED BY <3>1, <3>2, <3>3, <3>4, <3>5 DEF evaluation
  <2>3. ASSUME NEW r \in Requests, Begin(r) PROVE TypeOK'
    <3>1. ToSet(chain) \in SUBSET Hooks
      BY LenProperties, ElementOfSeq DEF ToSet
    <3>2. present' \in [Requests -> SUBSET Hooks]
      BY <2>3, <3>1 DEF Begin
    <3>3. pc' \in [Requests -> {"idle", "scan", "asking", "done"}]
      BY <2>3 DEF Begin
    <3> QED BY <2>3, <3>2, <3>3 DEF Begin
  <2>4. ASSUME NEW r \in Requests, Fetch(r) PROVE TypeOK'
    <3>1. chain[cursor[r] + 1] \in Hooks
      BY <2>4, LenProperties, ElementOfSeq DEF Fetch
    <3>2. asked' \in [Requests -> Seq(Hooks)]
      BY <2>4, <3>1, AppendProperties DEF Fetch
    <3>3. cursor[r] + 1 \in 0..MaxChain
      BY <2>4, LenProperties DEF Fetch
    <3>4. current' \in [Requests -> Hooks \cup {NoHook}]
      BY <2>4, <3>1 DEF Fetch
    <3>5. cursor' \in [Requests -> 0..MaxChain]
      BY <2>4, <3>3 DEF Fetch
    <3>6. pc' \in [Requests -> {"idle", "scan", "asking", "done"}]
      BY <2>4 DEF Fetch
    <3>7. \A q \in Requests : pc'[q] = "asking" => current'[q] \in Hooks
      BY <2>4, <3>1 DEF Fetch
    <3> QED BY <2>4, <3>2, <3>4, <3>5, <3>6, <3>7 DEF Fetch
  <2>5. ASSUME NEW r \in Requests, Abstain(r) PROVE TypeOK'
    BY <2>5 DEF Abstain
  <2>6. ASSUME NEW r \in Requests, Answer(r) PROVE TypeOK'
    <3>1. verdict[r][current[r]] \in Answers
      BY <2>6 DEF Answer
    <3>2. outcome' \in [Requests -> Answers \cup {"PENDING"}]
      BY <2>6, <3>1 DEF Answer
    <3>3. pc' \in [Requests -> {"idle", "scan", "asking", "done"}]
      BY <2>6 DEF Answer
    <3> QED BY <2>6, <3>2, <3>3 DEF Answer
  <2>7. ASSUME NEW r \in Requests, Exhaust(r) PROVE TypeOK'
    BY <2>7 DEF Exhaust, Answers, Decisions, Atomic!Answers
  <2>8. CASE UNCHANGED vars
    BY <2>8 DEF vars, evaluation
  <2> QED
    BY <2>1, <2>2, <2>3, <2>4, <2>5, <2>6, <2>7, <2>8 DEF Next, AddOnlyNext, Evaluate
<1> QED BY <1>1, <1>2, PTL DEF Spec

-----------------------------------------------------------------------------
(* What AskedInOrder rests on: an evaluation that has not begun has walked *)
(* nothing; one that waits for an answer waits for the hook at its cursor; *)
(* an outcome is pending exactly until authorize returns.                  *)
WaitsAtCursor ==
    \A r \in Requests :
        /\ pc[r] = "idle" => cursor[r] = 0 /\ asked[r] = <<>>
        /\ pc[r] = "asking" /\ behind[r] = 0 =>
              cursor[r] \in 1..Len(chain) /\ chain[cursor[r]] = current[r]
        /\ outcome[r] = "PENDING" <=> pc[r] # "done"

OrderInv == TypeOK /\ AskedInOrder /\ WaitsAtCursor

(* The strengthened invariant is preserved by every step. *)
LEMMA OrderStep == OrderInv /\ [Next]_vars /\ TypeOK' => OrderInv'
<1> USE DefaultAssumption, BoundAssumption, NoHookAssumption
<1> SUFFICES ASSUME OrderInv, [Next]_vars, TypeOK'
             PROVE  AskedInOrder' /\ WaitsAtCursor'
  BY DEF OrderInv
<1> USE DEF OrderInv, WaitsAtCursor, Running
<1>0. Len(chain) \in Nat /\ DOMAIN chain = 1..Len(chain)
  BY LenProperties DEF TypeOK
<1>1. ASSUME NEW h \in Hooks, AddHook(h) PROVE AskedInOrder' /\ WaitsAtCursor'
  <2>1. /\ Len(chain') = Len(chain) + 1
        /\ \A i \in 1..Len(chain) : chain'[i] = chain[i]
    BY <1>1, AppendProperties DEF AddHook, TypeOK
  <2>2. UNCHANGED <<verdict, pc, cursor, current, outcome, asked, behind>>
    BY <1>1 DEF AddHook, evaluation
  <2>3. AskedInOrder'
    BY <1>0, <2>1, <2>2 DEF AskedInOrder, TypeOK
  <2>4. WaitsAtCursor'
    BY <1>0, <2>1, <2>2 DEF TypeOK
  <2> QED BY <2>3, <2>4
<1>2. ASSUME NEW h \in Hooks, RemoveHook(h) PROVE AskedInOrder' /\ WaitsAtCursor'
  <2>1. PICK i \in 1..Len(chain) :
          /\ chain' = RemoveAt(chain, i)
          /\ behind' = [r \in Requests |->
                           IF i <= cursor[r] /\ behind[r] < MaxChain
                           THEN behind[r] + 1 ELSE behind[r]]
          /\ UNCHANGED <<verdict, pc, cursor, current, outcome, asked>>
    BY <1>0, <1>2 DEF RemoveHook, evaluation
  <2>2. /\ Len(chain') = Len(chain) - 1
        /\ \A j \in 1..(i - 1) : chain'[j] = chain[j]
    BY <2>1, RemoveAtProperties DEF TypeOK
  <2>3. ASSUME NEW r \in Requests, Running(r), behind'[r] = 0
        PROVE  behind[r] = 0 /\ cursor[r] < i
    <3>1. Len(chain) <= MaxChain /\ behind[r] \in 0..MaxChain /\ cursor[r] \in 0..MaxChain
      BY DEF TypeOK
    <3> QED BY <1>0, <2>1, <2>3, <3>1
  <2>4. AskedInOrder'
    BY <1>0, <2>1, <2>2, <2>3 DEF AskedInOrder, TypeOK
  <2>5. WaitsAtCursor'
    BY <1>0, <2>1, <2>2, <2>3 DEF TypeOK
  <2> QED BY <2>4, <2>5
<1>3. ASSUME NEW r \in Requests, Begin(r) PROVE AskedInOrder' /\ WaitsAtCursor'
  <2>1. AskedInOrder'
    BY <1>0, <1>3 DEF Begin, AskedInOrder, TypeOK
  <2>2. WaitsAtCursor'
    BY <1>3 DEF Begin, TypeOK
  <2> QED BY <2>1, <2>2
<1>4. ASSUME NEW r \in Requests, Fetch(r) PROVE AskedInOrder' /\ WaitsAtCursor'
  <2>1. /\ pc[r] = "scan" /\ cursor[r] \in Nat /\ cursor[r] < Len(chain)
        /\ chain[cursor[r] + 1] \in Hooks
        /\ pc' = [pc EXCEPT ![r] = "asking"]
        /\ cursor' = [cursor EXCEPT ![r] = cursor[r] + 1]
        /\ current' = [current EXCEPT ![r] = chain[cursor[r] + 1]]
        /\ asked' = [asked EXCEPT ![r] = Append(asked[r], chain[cursor[r] + 1])]
        /\ UNCHANGED <<chain, verdict, outcome, behind>>
    BY <1>0, <1>4, ElementOfSeq DEF Fetch, TypeOK
  <2>2. /\ Len(asked'[r]) = Len(asked[r]) + 1
        /\ \A i \in 1..Len(asked[r]) : asked'[r][i] = asked[r][i]
        /\ asked'[r][Len(asked[r]) + 1] = chain[cursor[r] + 1]
    BY <2>1, AppendProperties DEF TypeOK
  <2>3. ASSUME NEW q \in Requests, q # r
        PROVE  pc'[q] = pc[q] /\ cursor'[q] = cursor[q] /\ asked'[q] = asked[q]
               /\ current'[q] = current[q]
    BY <2>1, <2>3 DEF TypeOK
  <2>4. pc'[r] = "asking" /\ cursor'[r] = cursor[r] + 1 /\ current'[r] = chain[cursor[r] + 1]
    BY <2>1 DEF TypeOK
  <2>5. AskedInOrder'
    BY <1>0, <2>1, <2>2, <2>3, <2>4 DEF AskedInOrder
  <2>6. WaitsAtCursor'
    BY <1>0, <2>1, <2>3, <2>4
  <2> QED BY <2>5, <2>6
<1>5. ASSUME NEW r \in Requests, Abstain(r) PROVE AskedInOrder' /\ WaitsAtCursor'
  <2>1. AskedInOrder'
    BY <1>0, <1>5 DEF Abstain, AskedInOrder, TypeOK
  <2>2. WaitsAtCursor'
    BY <1>5 DEF Abstain, TypeOK
  <2> QED BY <2>1, <2>2
<1>6. ASSUME NEW r \in Requests, Answer(r) PROVE AskedInOrder' /\ WaitsAtCursor'
  <2>1. AskedInOrder'
    BY <1>6 DEF Answer, AskedInOrder, TypeOK
  <2>2. verdict[r][current[r]] # "PENDING"
    BY <1>6 DEF Answer, TypeOK, Answers, Atomic!Answers, Atomic!Decisions
  <2>3. WaitsAtCursor'
    BY <1>6, <2>2 DEF Answer, TypeOK
  <2> QED BY <2>1, <2>3
<1>7. ASSUME NEW r \in Requests, Exhaust(r) PROVE AskedInOrder' /\ WaitsAtCursor'
  <2>1. AskedInOrder'
    BY <1>7 DEF Exhaust, AskedInOrder, TypeOK
  <2>2. DefaultDecision # "PENDING"
    BY DEF Decisions, Atomic!Decisions
  <2>3. WaitsAtCursor'
    BY <1>7, <2>2 DEF Exhaust, TypeOK
  <2> QED BY <2>1, <2>3
<1>8. CASE UNCHANGED vars
  BY <1>8 DEF vars, AskedInOrder
<1> QED
  BY <1>1, <1>2, <1>3, <1>4, <1>5, <1>6, <1>7, <1>8 DEF Next, AddOnlyNext, Evaluate

(* Initially no evaluation has begun. *)
LEMMA OrderInit == Init /\ TypeOK => OrderInv
  BY DEF Init, TypeOK, OrderInv, AskedInOrder, WaitsAtCursor, Running

(* The inductive invariant holds of every behaviour of the hook chain. *)
LEMMA OrderInvariant == Spec => []OrderInv
  BY OrderInit, OrderStep, TypeCorrect, PTL DEF Spec

(* An evaluation consults the hooks up to its cursor in list order, each   *)
(* once, and goes past none that decided, as long as nothing is removed    *)
(* behind the cursor: the loop of authorize skips nothing by itself.       *)
THEOREM EvaluationInOrder == Spec => []AskedInOrder
  BY OrderInvariant, PTL DEF OrderInv

-----------------------------------------------------------------------------
(* The first decisive hook of a chain gives the decision, whatever the     *)
(* hooks behind it would answer.                                           *)
LEMMA FirstDecisiveAnswers ==
    ASSUME NEW s \in Seq(Hooks), NEW p \in [Hooks -> Answers], NEW k \in 1..Len(s),
           p[s[k]] # "NOT_APPLICABLE",
           \A j \in 1..(k - 1) : p[s[j]] = "NOT_APPLICABLE"
    PROVE  Atomic!FirstDecisive(s, p) = p[s[k]]
<1> DEFINE First(i) == /\ Atomic!Decisive(p[s[i]])
                       /\ \A j \in 1..(i - 1) : ~Atomic!Decisive(p[s[j]])
<1>1. DOMAIN s = 1..Len(s) /\ Len(s) \in Nat
  BY LenProperties
<1>2. First(k)
  BY DEF Atomic!Decisive
<1>3. ASSUME NEW i \in 1..Len(s), First(i) PROVE i = k
  <2>1. CASE i < k
    BY <1>1, <1>3, <2>1 DEF Atomic!Decisive
  <2>2. CASE k < i
    BY <1>1, <1>3, <2>2 DEF Atomic!Decisive
  <2> QED BY <1>1, <2>1, <2>2
<1>4. (CHOOSE i \in DOMAIN s : First(i)) = k
  <2> HIDE DEF First
  <2> QED BY <1>1, <1>2, <1>3
<1>5. \E i \in DOMAIN s : Atomic!Decisive(p[s[i]])
  BY <1>1, <1>2
<1> QED BY <1>4, <1>5 DEF Atomic!FirstDecisive

(* A chain in which every hook abstains decides by the default. *)
LEMMA AllAbstainDefaults ==
    ASSUME NEW s \in Seq(Hooks), NEW p \in [Hooks -> Answers],
           \A j \in 1..Len(s) : p[s[j]] = "NOT_APPLICABLE"
    PROVE  Atomic!FirstDecisive(s, p) = DefaultDecision
  BY LenProperties DEF Atomic!FirstDecisive, Atomic!Decisive

(* The step in which an evaluation returns: its outcome is the decision of *)
(* the whole chain when nothing was removed behind its cursor.             *)
LEMMA ReturnStep ==
    ASSUME OrderInv, [Next]_vars, NEW r \in Requests,
           outcome[r] = "PENDING", outcome'[r] # "PENDING", behind[r] = 0
    PROVE  (Answer(r) \/ Exhaust(r)) /\ outcome'[r] = Atomic!FirstDecisive(chain, verdict[r])
<1>0. /\ chain \in Seq(Hooks) /\ Len(chain) \in Nat
      /\ verdict[r] \in [Hooks -> Answers]
      /\ cursor[r] \in Nat
  BY LenProperties DEF OrderInv, TypeOK
<1>1. Answer(r) \/ Exhaust(r)
  <2>1. ASSUME NEW q \in Requests, q # r, Answer(q) \/ Exhaust(q) PROVE FALSE
    BY <2>1 DEF OrderInv, TypeOK, Answer, Exhaust
  <2> QED
    BY <2>1 DEF Next, AddOnlyNext, Evaluate, AddHook, RemoveHook, Begin, Fetch, Abstain,
                evaluation, vars
<1>2. CASE Answer(r)
  <2>1. outcome'[r] = verdict[r][current[r]]
    BY <1>2 DEF Answer, OrderInv, TypeOK
  <2>2. cursor[r] \in 1..Len(chain) /\ chain[cursor[r]] = current[r]
    BY <1>2 DEF Answer, OrderInv, WaitsAtCursor
  <2>3. \A j \in 1..(cursor[r] - 1) : verdict[r][chain[j]] = "NOT_APPLICABLE"
    BY <1>0, <1>2 DEF Answer, OrderInv, AskedInOrder, Running
  <2>4. verdict[r][chain[cursor[r]]] # "NOT_APPLICABLE"
    BY <1>2, <2>2 DEF Answer
  <2>5. Atomic!FirstDecisive(chain, verdict[r]) = verdict[r][chain[cursor[r]]]
    BY <1>0, <2>2, <2>3, <2>4, FirstDecisiveAnswers
  <2> QED BY <1>2, <2>1, <2>2, <2>5
<1>3. CASE Exhaust(r)
  <2>1. outcome'[r] = DefaultDecision
    BY <1>3 DEF Exhaust, OrderInv, TypeOK
  <2>2. cursor[r] = Len(chain)
    BY <1>0, <1>3 DEF Exhaust, OrderInv, AskedInOrder, Running
  <2>3. \A j \in 1..Len(chain) : verdict[r][chain[j]] = "NOT_APPLICABLE"
    BY <1>3, <2>2 DEF Exhaust, OrderInv, AskedInOrder, Running
  <2>4. Atomic!FirstDecisive(chain, verdict[r]) = DefaultDecision
    BY <1>0, <2>3, AllAbstainDefaults
  <2> QED BY <1>3, <2>1, <2>4
<1> QED BY <1>1, <1>2, <1>3

(* The loop of authorize, interleaved with edits of the list it walks,     *)
(* returns what the chain as a whole decides at the step in which it       *)
(* returns, unless a hook at or before its cursor was removed meanwhile.   *)
THEOREM Linearizable == Spec => LinearizedAtReturn
<1>1. OrderInv /\ [Next]_vars =>
        [\A r \in Requests :
            outcome[r] = "PENDING" /\ outcome'[r] # "PENDING" /\ behind[r] = 0 =>
                outcome'[r] = Atomic!FirstDecisive(chain, verdict[r])]_vars
  BY ReturnStep
<1> QED BY <1>1, OrderInvariant, PTL DEF Spec, LinearizedAtReturn

-----------------------------------------------------------------------------
NothingRemoved == \A r \in Requests : behind[r] = 0

(* While hooks are only added nothing is ever removed behind a cursor, and *)
(* the invariants of the edited chain hold as well.                        *)
LEMMA AddOnlyInvariant == AddOnlySpec => [](OrderInv /\ NothingRemoved)
<1>1. AddOnlySpec => Spec
  <2>1. [AddOnlyNext]_vars => [Next]_vars
    BY DEF Next
  <2> QED BY <2>1, PTL DEF AddOnlySpec, Spec
<1>2. Init => NothingRemoved
  BY DEF Init, NothingRemoved
<1>3. NothingRemoved /\ [AddOnlyNext]_vars => NothingRemoved'
  BY DEF NothingRemoved, AddOnlyNext, Evaluate, AddHook, Begin, Fetch, Abstain, Answer,
         Exhaust, vars
<1> QED BY <1>1, <1>2, <1>3, OrderInvariant, PTL DEF AddOnlySpec

(* While hooks are only added, which is all the program does outside its   *)
(* tests, the interleaved loop implements the atomic evaluation that the   *)
(* docstring of CompositeAuthorizationHook promises.                       *)
THEOREM AddOnlyRefinement == AddOnlySpec => ImplementsAtomic
<1>1. Init => Atomic!Init
  BY DEF Init, Atomic!Init, BoundedSeq, SeqOf, Atomic!BoundedSeq, Atomic!SeqOf
<1>2. /\ OrderInv /\ NothingRemoved
      /\ [AddOnlyNext]_vars
      => [Atomic!Next]_<<chain, verdict, outcome>>
  <2> SUFFICES ASSUME OrderInv, NothingRemoved, [AddOnlyNext]_vars
               PROVE  [Atomic!Next]_<<chain, verdict, outcome>>
    OBVIOUS
  <2>0. [Next]_vars
    BY DEF Next
  <2>1. ASSUME NEW h \in Hooks, AddHook(h) PROVE Atomic!Next
    BY <2>1 DEF AddHook, evaluation, Atomic!Next, Atomic!Add
  <2>2. ASSUME NEW r \in Requests, Begin(r) \/ Fetch(r) \/ Abstain(r)
        PROVE  UNCHANGED <<chain, verdict, outcome>>
    BY <2>2 DEF Begin, Fetch, Abstain
  <2>3. ASSUME NEW r \in Requests, Answer(r) \/ Exhaust(r) PROVE Atomic!Next
    <3>1. outcome[r] = "PENDING" /\ behind[r] = 0
      BY <2>3 DEF OrderInv, WaitsAtCursor, NothingRemoved, Answer, Exhaust
    <3>2. /\ UNCHANGED <<chain, verdict>>
          /\ outcome' = [outcome EXCEPT ![r] = outcome'[r]]
      BY <2>3 DEF Answer, Exhaust, OrderInv, TypeOK
    <3>3. outcome'[r] # "PENDING"
      <4>1. "PENDING" \notin Answers
        BY DEF Answers, Atomic!Answers, Atomic!Decisions
      <4>2. CASE Answer(r)
        BY <4>1, <4>2 DEF Answer, OrderInv, TypeOK
      <4>3. CASE Exhaust(r)
        <5>1. DefaultDecision # "PENDING"
          BY DefaultAssumption DEF Decisions, Atomic!Decisions
        <5> QED BY <4>3, <5>1 DEF Exhaust, OrderInv, TypeOK
      <4> QED BY <2>3, <4>2, <4>3
    <3>4. outcome'[r] = Atomic!FirstDecisive(chain, verdict[r])
      BY <2>0, <3>1, <3>3, ReturnStep
    <3> QED BY <3>1, <3>2, <3>4 DEF Atomic!Next, Atomic!Decide
  <2>4. CASE UNCHANGED vars
    BY <2>4 DEF vars
  <2> QED BY <2>1, <2>2, <2>3, <2>4 DEF AddOnlyNext, Evaluate
<1> QED
  BY <1>1, <1>2, AddOnlyInvariant, PTL DEF AddOnlySpec, ImplementsAtomic, Atomic!Spec

-----------------------------------------------------------------------------
(* One more element makes a finite set larger by at most one. *)
LEMMA CardinalityStep ==
    ASSUME NEW S, IsFiniteSet(S), NEW x, NEW T, T \subseteq S \cup {x}
    PROVE  IsFiniteSet(T) /\ Cardinality(T) <= Cardinality(S) + 1
<1>1. /\ IsFiniteSet(S \cup {x})
      /\ Cardinality(S \cup {x}) = IF x \in S THEN Cardinality(S) ELSE Cardinality(S) + 1
  BY FS_AddElement
<1>2. IsFiniteSet(T) /\ Cardinality(T) <= Cardinality(S \cup {x})
  BY <1>1, FS_Subset
<1> QED BY <1>1, <1>2, FS_CardinalityType

(* The first n places of a sequence hold at most n different elements. *)
LEMMA PrefixCardinality ==
    ASSUME NEW S, NEW s \in Seq(S), NEW n \in Nat, NEW T,
           \A x \in T : \E i \in 1..Len(s) : i <= n /\ s[i] = x
    PROVE  /\ IsFiniteSet(T)
           /\ Cardinality(T) <= IF n <= Len(s) THEN n ELSE Len(s)
<1> DEFINE m == IF n <= Len(s) THEN n ELSE Len(s)
           W == {s[i] : i \in 1..m}
           f == [i \in 1..m |-> s[i]]
<1>1. Len(s) \in Nat /\ m \in Nat
  BY LenProperties
<1>2. f \in Surjection(1..m, W)
  BY DEF Surjection
<1>3. IsFiniteSet(1..m) /\ Cardinality(1..m) = m
  <2> HIDE DEF m
  <2>1. /\ IsFiniteSet(1..m)
        /\ Cardinality(1..m) = IF 1 > m THEN 0 ELSE m - 1 + 1
    BY <1>1, FS_Interval
  <2> QED BY <1>1, <2>1
<1>4. IsFiniteSet(W) /\ Cardinality(W) <= m
  <2> HIDE DEF m, W, f
  <2> QED BY <1>2, <1>3, FS_Surjection
<1>5. T \subseteq W
  BY <1>1
<1>6. IsFiniteSet(T) /\ Cardinality(T) <= Cardinality(W)
  BY <1>4, <1>5, FS_Subset
<1>7. Cardinality(T) \in Nat /\ Cardinality(W) \in Nat
  BY <1>4, <1>6, FS_CardinalityType
<1> HIDE DEF W, f
<1> QED BY <1>1, <1>4, <1>6, <1>7

(* How far the cursor of r is past the end of the list.  A hook added now  *)
(* lands behind the cursor and is overlooked, so the distance counts.      *)
Lag(r) == IF cursor[r] > Len(chain) THEN cursor[r] - Len(chain) ELSE 0

OverlookInv ==
    \A r \in Requests :
        IsFiniteSet(Overlooked(r)) /\ Cardinality(Overlooked(r)) + Lag(r) <= behind[r]

(* list.remove moves at most one hook that was not consulted across the    *)
(* cursor, and then only if it removed from behind it.                     *)
LEMMA OverlookedAfterRemove ==
    ASSUME TypeOK, TypeOK', OverlookInv, NEW h \in Hooks, RemoveHook(h), NEW r \in Requests
    PROVE  /\ IsFiniteSet(Overlooked(r))'
           /\ (Cardinality(Overlooked(r)) + Lag(r) <= behind[r])'
<1> USE BoundAssumption
<1>1. PICK i \in DOMAIN chain :
        /\ chain' = RemoveAt(chain, i)
        /\ behind' = [q \in Requests |->
                         IF i <= cursor[q] /\ behind[q] < MaxChain
                         THEN behind[q] + 1 ELSE behind[q]]
        /\ UNCHANGED <<cursor, asked>>
  BY DEF RemoveHook, evaluation
<1>2. /\ chain \in Seq(Hooks)
      /\ Len(chain) \in Nat /\ i \in 1..Len(chain)
      /\ DOMAIN chain = 1..Len(chain)
      /\ \A k \in 1..Len(chain) : chain[k] \in Hooks
      /\ DOMAIN chain' = 1..Len(chain')
  BY LenProperties, ElementOfSeq DEF TypeOK
<1>3. /\ Len(chain') = Len(chain) - 1
      /\ \A j \in 1..(i - 1) : chain'[j] = chain[j]
      /\ \A j \in i..(Len(chain) - 1) : chain'[j] = chain[j + 1]
  BY <1>1, <1>2, RemoveAtProperties
<1>4. /\ cursor[r] \in Nat /\ cursor[r] <= MaxChain
      /\ behind[r] \in Nat /\ behind[r] <= MaxChain
      /\ cursor'[r] = cursor[r]
      /\ IsFiniteSet(Overlooked(r))
      /\ Cardinality(Overlooked(r)) \in Nat
      /\ Cardinality(Overlooked(r)) + Lag(r) <= behind[r]
  BY <1>1, FS_CardinalityType DEF TypeOK, OverlookInv
<1>5. /\ IsFiniteSet(Overlooked(r)')
      /\ Cardinality(Overlooked(r)') <= IF cursor[r] <= Len(chain') THEN cursor[r] ELSE Len(chain')
  <2>1. \A x \in Overlooked(r)' : \E k \in 1..Len(chain') : k <= cursor[r] /\ chain'[k] = x
    BY <1>2, <1>4 DEF Overlooked
  <2> QED BY <1>4, <2>1, PrefixCardinality DEF TypeOK
<1>6. Cardinality(Overlooked(r)') \in Nat
  BY <1>5, FS_CardinalityType
<1>7. CASE cursor[r] < i
  <2>1. Overlooked(r)' \subseteq Overlooked(r)
    <3> SUFFICES ASSUME NEW x \in Overlooked(r)' PROVE x \in Overlooked(r)
      OBVIOUS
    <3>1. PICK k \in 1..Len(chain') : k <= cursor[r] /\ chain'[k] = x
      BY <1>1, <1>2 DEF Overlooked
    <3>2. chain[k] = x /\ k \in 1..Len(chain)
      BY <1>2, <1>3, <1>4, <1>7, <3>1
    <3> QED BY <1>1, <1>2, <3>1, <3>2 DEF Overlooked
  <2>2. Cardinality(Overlooked(r)') <= Cardinality(Overlooked(r))
    BY <1>4, <2>1, FS_Subset
  <2>3. Lag(r)' = 0
    BY <1>2, <1>3, <1>4, <1>7 DEF Lag
  <2>4. behind'[r] = behind[r]
    BY <1>1, <1>2, <1>4, <1>7
  <2>5. Lag(r) = 0
    BY <1>2, <1>4, <1>7 DEF Lag
  <2> QED BY <1>4, <1>5, <1>6, <2>2, <2>3, <2>4, <2>5
<1>8. CASE i <= cursor[r] /\ behind[r] = MaxChain
  <2>1. behind'[r] = MaxChain
    BY <1>1, <1>4, <1>8
  <2>2. Cardinality(Overlooked(r)') + Lag(r)' <= cursor[r]
    BY <1>2, <1>3, <1>4, <1>5, <1>6 DEF Lag
  <2>3. Lag(r)' \in Nat
    BY <1>2, <1>3, <1>4 DEF Lag
  <2> QED BY <1>4, <1>5, <1>6, <2>1, <2>2, <2>3
<1>9. CASE i <= cursor[r] /\ behind[r] # MaxChain
  <2>1. behind'[r] = behind[r] + 1
    BY <1>1, <1>4, <1>9
  <2>2. CASE cursor[r] < Len(chain)
    <3>1. Overlooked(r)' \subseteq Overlooked(r) \cup {chain[cursor[r] + 1]}
      <4> SUFFICES ASSUME NEW x \in Overlooked(r)', x # chain[cursor[r] + 1]
                   PROVE  x \in Overlooked(r)
        OBVIOUS
      <4>1. PICK k \in 1..Len(chain') : k <= cursor[r] /\ chain'[k] = x
        BY <1>1, <1>2 DEF Overlooked
      <4>2. \E j \in 1..Len(chain) : j <= cursor[r] /\ chain[j] = x
        <5>1. CASE k < i
          BY <1>2, <1>3, <4>1, <5>1
        <5>2. CASE k >= i
          <6>1. chain[k + 1] = x
            BY <1>2, <1>3, <4>1, <5>2
          <6>2. k + 1 <= cursor[r] /\ k + 1 \in 1..Len(chain)
            BY <1>2, <1>3, <1>4, <2>2, <4>1, <6>1
          <6> QED BY <6>1, <6>2
        <5> QED BY <1>2, <4>1, <5>1, <5>2
      <4> QED BY <1>1, <1>2, <4>1, <4>2 DEF Overlooked
    <3>2. Cardinality(Overlooked(r)') <= Cardinality(Overlooked(r)) + 1
      BY <1>4, <3>1, CardinalityStep
    <3>3. Lag(r)' = 0 /\ Lag(r) = 0
      BY <1>2, <1>3, <1>4, <2>2 DEF Lag
    <3> QED BY <1>4, <1>5, <1>6, <2>1, <3>2, <3>3
  <2>3. CASE cursor[r] >= Len(chain)
    <3>1. Overlooked(r)' \subseteq Overlooked(r)
      <4> SUFFICES ASSUME NEW x \in Overlooked(r)' PROVE x \in Overlooked(r)
        OBVIOUS
      <4>1. PICK k \in 1..Len(chain') : k <= cursor[r] /\ chain'[k] = x
        BY <1>1, <1>2 DEF Overlooked
      <4>2. \E j \in 1..Len(chain) : chain[j] = x
        <5>1. CASE k < i
          BY <1>2, <1>3, <4>1, <5>1
        <5>2. CASE k >= i
          BY <1>2, <1>3, <4>1, <5>2
        <5> QED BY <1>2, <4>1, <5>1, <5>2
      <4> QED BY <1>1, <1>2, <1>4, <2>3, <4>1, <4>2 DEF Overlooked
    <3>2. Cardinality(Overlooked(r)') <= Cardinality(Overlooked(r))
      BY <1>4, <3>1, FS_Subset
    <3>3. Lag(r)' = Lag(r) + 1 /\ Lag(r) \in Nat
      <4>1. Lag(r) = cursor[r] - Len(chain)
        BY <1>2, <1>4, <2>3 DEF Lag
      <4>2. cursor'[r] > Len(chain')
        BY <1>2, <1>3, <1>4, <2>3
      <4>3. Lag(r)' = cursor'[r] - Len(chain')
        BY <1>2, <4>2 DEF Lag
      <4> QED BY <1>2, <1>3, <1>4, <2>3, <4>1, <4>3
    <3>4. Cardinality(Overlooked(r)') + Lag(r)' <= behind[r] + 1
      BY <1>4, <1>6, <3>2, <3>3
    <3> QED BY <1>4, <1>5, <1>6, <2>1, <3>3, <3>4
  <2> QED BY <1>2, <1>4, <2>2, <2>3
<1> QED BY <1>2, <1>4, <1>7, <1>8, <1>9

(* Every step keeps the hooks overlooked, and those about to be, within    *)
(* the number of removals behind the cursor.                               *)
LEMMA OverlookStep == OverlookInv /\ TypeOK /\ TypeOK' /\ [Next]_vars => OverlookInv'
<1> SUFFICES ASSUME OverlookInv, TypeOK, TypeOK', [Next]_vars, NEW r \in Requests
             PROVE  (IsFiniteSet(Overlooked(r)) /\ Cardinality(Overlooked(r)) + Lag(r) <= behind[r])'
  BY DEF OverlookInv
<1> USE BoundAssumption
<1>0. /\ chain \in Seq(Hooks) /\ Len(chain) \in Nat /\ DOMAIN chain = 1..Len(chain)
      /\ cursor[r] \in Nat /\ behind[r] \in Nat
      /\ IsFiniteSet(Overlooked(r))
      /\ Cardinality(Overlooked(r)) \in Nat
      /\ Cardinality(Overlooked(r)) + Lag(r) <= behind[r]
  BY LenProperties, FS_CardinalityType DEF TypeOK, OverlookInv
<1>1. ASSUME NEW h \in Hooks, AddHook(h)
      PROVE  (IsFiniteSet(Overlooked(r)) /\ Cardinality(Overlooked(r)) + Lag(r) <= behind[r])'
  <2>1. /\ Len(chain') = Len(chain) + 1 /\ DOMAIN chain' = 1..(Len(chain) + 1)
        /\ \A i \in 1..Len(chain) : chain'[i] = chain[i]
        /\ chain'[Len(chain) + 1] = h
        /\ UNCHANGED <<cursor, asked, behind>>
    BY <1>0, <1>1, AppendProperties, LenProperties DEF AddHook, evaluation
  <2>2. CASE cursor[r] <= Len(chain)
    <3>1. Overlooked(r)' = Overlooked(r)
      BY <1>0, <2>1, <2>2 DEF Overlooked
    <3>2. Lag(r)' = 0 /\ Lag(r) = 0
      BY <1>0, <2>1, <2>2 DEF Lag
    <3> QED BY <1>0, <2>1, <3>1, <3>2
  <2>3. CASE cursor[r] > Len(chain)
    <3>1. Overlooked(r)' \subseteq Overlooked(r) \cup {h}
      BY <1>0, <2>1, <2>3 DEF Overlooked
    <3>2. IsFiniteSet(Overlooked(r)') /\ Cardinality(Overlooked(r)') <= Cardinality(Overlooked(r)) + 1
      BY <1>0, <3>1, CardinalityStep
    <3>3. Lag(r)' = Lag(r) - 1 /\ Lag(r) \in Nat
      BY <1>0, <2>1, <2>3 DEF Lag
    <3>4. Cardinality(Overlooked(r)') \in Nat
      BY <3>2, FS_CardinalityType
    <3> QED BY <1>0, <2>1, <3>2, <3>3, <3>4
  <2> QED BY <1>0, <2>2, <2>3
<1>2. ASSUME NEW h \in Hooks, RemoveHook(h)
      PROVE  (IsFiniteSet(Overlooked(r)) /\ Cardinality(Overlooked(r)) + Lag(r) <= behind[r])'
  BY <1>2, OverlookedAfterRemove
<1>3. ASSUME NEW q \in Requests, Fetch(q)
      PROVE  (IsFiniteSet(Overlooked(r)) /\ Cardinality(Overlooked(r)) + Lag(r) <= behind[r])'
  <2>1. CASE q # r
    <3>1. UNCHANGED <<chain, cursor[r], asked[r], behind>>
      BY <1>3, <2>1 DEF Fetch, TypeOK
    <3> QED BY <1>0, <3>1 DEF Overlooked, Lag
  <2>2. CASE q = r
    <3>1. /\ cursor[r] < Len(chain) /\ cursor'[r] = cursor[r] + 1
          /\ asked'[r] = Append(asked[r], chain[cursor[r] + 1])
          /\ UNCHANGED <<chain, behind>>
      BY <1>3, <2>2 DEF Fetch, TypeOK
    <3>2. chain[cursor[r] + 1] \in Hooks /\ asked[r] \in Seq(Hooks)
      BY <1>0, <3>1, ElementOfSeq DEF TypeOK
    <3>3. /\ Len(asked'[r]) = Len(asked[r]) + 1 /\ Len(asked[r]) \in Nat
          /\ \A i \in 1..Len(asked[r]) : asked'[r][i] = asked[r][i]
          /\ asked'[r][Len(asked[r]) + 1] = chain[cursor[r] + 1]
      BY <3>1, <3>2, AppendProperties, LenProperties
    <3>4. Overlooked(r)' \subseteq Overlooked(r)
      <4> SUFFICES ASSUME NEW x \in Overlooked(r)' PROVE x \in Overlooked(r)
        OBVIOUS
      <4>1. PICK k \in 1..Len(chain) : k <= cursor[r] + 1 /\ chain[k] = x
        BY <1>0, <3>1 DEF Overlooked
      <4>2. ~\E j \in 1..(Len(asked[r]) + 1) : asked'[r][j] = x
        BY <3>3 DEF Overlooked, Contains
      <4>3. k # cursor[r] + 1
        BY <3>3, <4>1, <4>2
      <4>4. ~Contains(asked[r], x)
        BY <3>3, <4>2 DEF Contains
      <4> QED BY <1>0, <4>1, <4>3, <4>4 DEF Overlooked
    <3>5. IsFiniteSet(Overlooked(r)') /\ Cardinality(Overlooked(r)') <= Cardinality(Overlooked(r))
      BY <1>0, <3>4, FS_Subset
    <3>6. Cardinality(Overlooked(r)') \in Nat
      BY <3>5, FS_CardinalityType
    <3>7. Lag(r)' = 0 /\ Lag(r) = 0
      BY <1>0, <3>1 DEF Lag
    <3> QED BY <1>0, <3>1, <3>5, <3>6, <3>7
  <2> QED BY <2>1, <2>2
<1>4. CASE UNCHANGED <<chain, cursor, asked, behind>>
  BY <1>0, <1>4 DEF Overlooked, Lag
<1>5. ASSUME NEW q \in Requests, Begin(q) \/ Abstain(q) \/ Answer(q) \/ Exhaust(q)
      PROVE  UNCHANGED <<chain, cursor, asked, behind>>
  BY <1>5 DEF Begin, Abstain, Answer, Exhaust
<1>6. CASE UNCHANGED vars
  BY <1>4, <1>6 DEF vars
<1> QED BY <1>1, <1>2, <1>3, <1>4, <1>5, <1>6 DEF Next, AddOnlyNext, Evaluate

(* However the chain is edited, an evaluation overlooks at most as many    *)
(* hooks as were removed behind its cursor.  The invariant that carries it *)
(* counts, besides the hooks overlooked, the places by which the list has  *)
(* become shorter than the cursor: whatever is added next fills those.     *)
THEOREM BoundedOverlook == Spec => []OverlookedBounded
<1>1. Init /\ TypeOK => OverlookInv
  <2> SUFFICES ASSUME Init, TypeOK, NEW r \in Requests
               PROVE  IsFiniteSet(Overlooked(r)) /\ Cardinality(Overlooked(r)) + Lag(r) <= behind[r]
    BY DEF OverlookInv
  <2>1. Len(chain) \in Nat /\ DOMAIN chain = 1..Len(chain)
    BY LenProperties DEF TypeOK
  <2>2. Overlooked(r) = {} /\ Lag(r) = 0 /\ behind[r] = 0
    BY <2>1 DEF Init, Overlooked, Lag
  <2> QED BY <2>2, FS_EmptySet
<1>2. OverlookInv /\ TypeOK => OverlookedBounded
  <2> SUFFICES ASSUME OverlookInv, TypeOK, NEW r \in Requests
               PROVE  Cardinality(Overlooked(r)) <= behind[r]
    BY DEF OverlookedBounded
  <2>1. /\ Cardinality(Overlooked(r)) \in Nat /\ behind[r] \in Nat
        /\ Cardinality(Overlooked(r)) + Lag(r) <= behind[r]
    BY BoundAssumption, FS_CardinalityType DEF OverlookInv, TypeOK
  <2>2. Lag(r) \in Nat
    BY BoundAssumption, LenProperties DEF Lag, TypeOK
  <2> QED BY <2>1, <2>2
<1> QED BY <1>1, <1>2, OverlookStep, TypeCorrect, PTL DEF Spec
===============================================================================
