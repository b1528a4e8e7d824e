------------------------ MODULE ModuleContainer_proofs ------------------------
(***************************************************************************)
(* Theorems about the registry and the containers that share it, for any   *)
(* number of threads that resolve and ask, of containers, and of other     *)
(* registrations.                                                          *)
(***************************************************************************)
EXTENDS ModuleContainer, SequenceTheorems, FiniteSetTheorems, TLAPS

-----------------------------------------------------------------------------
(* The calls as records: what one call remembers while tables change. *)
Stages == Ended \cup Tables \cup {"make", "ask contracts", "ask instances", "ask factories"}

CallRecords ==
    [stage : Stages, target : Contracts \cup {Nothing}, found : Entries \cup {Nothing},
     known : SUBSET Contracts, begun : Entries \cup {Nothing},
     possible : SUBSET (Entries \cup {Nothing}), crossed : SUBSET Tables]

TablesTyped ==
    \A table \in {instances, factories, contracts} :
        /\ DOMAIN table \subseteq Contracts
        /\ \A c \in DOMAIN table : table[c] \in Values \cup {c}

(* e was found in the table of that name. *)
OutOf(e, name) == e # Nothing /\ e.from = name

(* What resolve would have found at the begin of a call is still there, if *)
(* perhaps with another value; and a table that nobody has written since   *)
(* for the target of the call is hidden by an earlier one, or it is what   *)
(* the call would have found.                                              *)
BegunIsThere(k) ==
    LET c == call[k].target
        b == call[k].begun
    IN  /\ OutOf(b, "instances") => c \in DOMAIN instances
        /\ OutOf(b, "factories") => c \in DOMAIN factories
        /\ OutOf(b, "contracts") => c \in DOMAIN contracts
        /\ "instances" \notin call[k].crossed /\ c \in DOMAIN instances =>
              b = Entry("instances", instances[c])
        /\ "factories" \notin call[k].crossed /\ c \in DOMAIN factories =>
              OutOf(b, "instances") \/ b = Entry("factories", factories[c])
        /\ "contracts" \notin call[k].crossed /\ c \in DOMAIN contracts =>
              \/ OutOf(b, "instances") \/ OutOf(b, "factories")
              \/ b = Entry("contracts", contracts[c])

(* What a call has learnt of its begin from the looks that found nothing. *)
StageTells(k) ==
    LET s == call[k].stage
        b == call[k].begun
    IN  /\ s \in {"factories", "contracts"} => ~OutOf(b, "instances")
        /\ s = "contracts" => ~OutOf(b, "factories")
        /\ s \in {"ask instances", "ask factories", "unregistered"} => ~OutOf(b, "contracts")
        /\ s \in {"ask factories", "unregistered"} => ~OutOf(b, "instances")
        /\ s = "unregistered" => b = Nothing
        /\ s = "registered" => call[k].possible # {Nothing}

(* What a resolve that has found something, or is over, found. *)
FoundInTime(k) ==
    /\ \/ call[k].found \in call[k].possible
       \/ \E s, t \in call[k].crossed : s # t
    /\ Rank(call[k].found) <= Rank(call[k].begun)
    /\ call[k].target \in call[k].known => call[k].found # Nothing

CallInv(k) ==
    /\ Active(k) =>
          /\ call[k].target \in Contracts
          /\ {call[k].begun, Current(call[k].target)} \subseteq call[k].possible
          /\ BegunIsThere(k)
    /\ StageTells(k)
    /\ call[k].stage \in Tables =>
          /\ call[k].found = Nothing
          /\ call[k].target \in call[k].known => call[k].begun # Nothing
    /\ call[k].stage \in {"make", "resolved"} => FoundInTime(k)
    /\ call[k].stage = "make" => call[k].found # Nothing
    /\ \A c \in call[k].known : c \in DOMAIN instances \cup DOMAIN factories \cup DOMAIN contracts

RegistryInv ==
    /\ TablesTyped
    /\ call \in [Callers -> CallRecords]
    /\ \A k \in Callers : CallInv(k)

-----------------------------------------------------------------------------
(* An entry is not None, and its table decides its rank. *)
LEMMA EntryFacts ==
    ASSUME NEW name \in Tables, NEW value \in Values \cup Contracts
    PROVE  /\ Entry(name, value) \in Entries
           /\ Entry(name, value) # Nothing
           /\ OutOf(Entry(name, value), name)
<1>1. Entry(name, value) \in Entries /\ Entry(name, value).from = name
  BY DEF Entry, Entries
<1> QED BY <1>1, NothingAssumption DEF OutOf

LEMMA RankFacts ==
    ASSUME NEW e \in Entries \cup {Nothing}
    PROVE  \/ e = Nothing /\ Rank(e) = 4
           \/ OutOf(e, "instances") /\ Rank(e) = 1
           \/ OutOf(e, "factories") /\ Rank(e) = 2
           \/ OutOf(e, "contracts") /\ Rank(e) = 3
<1>1. CASE e = Nothing
  BY <1>1 DEF Rank
<1>2. CASE e # Nothing
  <2>1. e.from \in Tables
    BY <1>2 DEF Entries
  <2> QED BY <1>2, <2>1 DEF Rank, OutOf, Tables
<1> QED BY <1>1, <1>2

(* An instance hides a factory, a factory an implementation. *)
LEMMA FoundInFacts ==
    ASSUME NEW i, NEW f, NEW t, NEW c,
           c \in DOMAIN i => i[c] \in Values \cup Contracts,
           c \in DOMAIN f => f[c] \in Values \cup Contracts,
           c \in DOMAIN t => t[c] \in Values \cup Contracts
    PROVE  /\ FoundIn(i, f, t, c) \in Entries \cup {Nothing}
           /\ c \in DOMAIN i =>
                 FoundIn(i, f, t, c) = Entry("instances", i[c]) /\ FoundIn(i, f, t, c) # Nothing
           /\ c \in DOMAIN f \ DOMAIN i =>
                 FoundIn(i, f, t, c) = Entry("factories", f[c]) /\ FoundIn(i, f, t, c) # Nothing
           /\ c \in DOMAIN t \ (DOMAIN i \cup DOMAIN f) =>
                 FoundIn(i, f, t, c) = Entry("contracts", t[c]) /\ FoundIn(i, f, t, c) # Nothing
           /\ c \notin DOMAIN i \cup DOMAIN f \cup DOMAIN t => FoundIn(i, f, t, c) = Nothing
<1>1. CASE c \in DOMAIN i
  <2>1. FoundIn(i, f, t, c) = Entry("instances", i[c])
    BY <1>1 DEF FoundIn
  <2> QED BY <1>1, <2>1, EntryFacts DEF Tables
<1>2. CASE c \in DOMAIN f \ DOMAIN i
  <2>1. FoundIn(i, f, t, c) = Entry("factories", f[c])
    BY <1>2 DEF FoundIn
  <2> QED BY <1>2, <2>1, EntryFacts DEF Tables
<1>3. CASE c \in DOMAIN t \ (DOMAIN i \cup DOMAIN f)
  <2>1. FoundIn(i, f, t, c) = Entry("contracts", t[c])
    BY <1>3 DEF FoundIn
  <2> QED BY <1>3, <2>1, EntryFacts DEF Tables
<1>4. CASE c \notin DOMAIN i \cup DOMAIN f \cup DOMAIN t
  BY <1>4 DEF FoundIn
<1> QED BY <1>1, <1>2, <1>3, <1>4

LEMMA CurrentFacts ==
    ASSUME TablesTyped, NEW c \in Contracts
    PROVE  /\ Current(c) \in Entries \cup {Nothing}
           /\ c \in DOMAIN instances =>
                 Current(c) = Entry("instances", instances[c]) /\ Current(c) # Nothing
           /\ c \in DOMAIN factories \ DOMAIN instances =>
                 Current(c) = Entry("factories", factories[c]) /\ Current(c) # Nothing
           /\ c \in DOMAIN contracts \ (DOMAIN instances \cup DOMAIN factories) =>
                 Current(c) = Entry("contracts", contracts[c]) /\ Current(c) # Nothing
           /\ c \notin DOMAIN instances \cup DOMAIN factories \cup DOMAIN contracts =>
                 Current(c) = Nothing
<1>1. /\ c \in DOMAIN instances => instances[c] \in Values \cup Contracts
      /\ c \in DOMAIN factories => factories[c] \in Values \cup Contracts
      /\ c \in DOMAIN contracts => contracts[c] \in Values \cup Contracts
  BY DEF TablesTyped
<1> QED BY <1>1, FoundInFacts DEF Current

-----------------------------------------------------------------------------
(* A registration writes one table, at one contract. *)
WritesOnly(name, table, contract) ==
    /\ DOMAIN table' = DOMAIN table \cup {contract}
    /\ \A c \in DOMAIN table : c # contract => table'[c] = table[c]
    /\ table'[contract] \in Values \cup {contract}
    /\ Note(name, contract)

(* No registration of another thread makes a call under way forget. *)
LEMMA WriteStep ==
    ASSUME RegistryInv, NEW contract \in Contracts,
           \/ WritesOnly("instances", instances, contract) /\ UNCHANGED <<factories, contracts>>
           \/ WritesOnly("factories", factories, contract) /\ UNCHANGED <<instances, contracts>>
           \/ WritesOnly("contracts", contracts, contract) /\ UNCHANGED <<instances, factories>>
    PROVE  RegistryInv'
<1>1. TablesTyped'
  BY DEF RegistryInv, TablesTyped, WritesOnly
<1>2. PICK name \in Tables :
        /\ Note(name, contract)
        /\ name # "instances" => instances' = instances
        /\ name # "factories" => factories' = factories
        /\ name # "contracts" => contracts' = contracts
  BY DEF WritesOnly, Tables
<1>3. \A c \in Contracts :
        /\ c \in DOMAIN instances => c \in DOMAIN instances'
        /\ c \in DOMAIN factories => c \in DOMAIN factories'
        /\ c \in DOMAIN contracts => c \in DOMAIN contracts'
  BY DEF WritesOnly
<1>4. \A c \in Contracts \ {contract} :
        /\ c \in DOMAIN instances' <=> c \in DOMAIN instances
        /\ c \in DOMAIN factories' <=> c \in DOMAIN factories
        /\ c \in DOMAIN contracts' <=> c \in DOMAIN contracts
        /\ c \in DOMAIN instances => instances'[c] = instances[c]
        /\ c \in DOMAIN factories => factories'[c] = factories[c]
        /\ c \in DOMAIN contracts => contracts'[c] = contracts[c]
  BY DEF WritesOnly, RegistryInv, TablesTyped
<1>5. ASSUME NEW k \in Callers PROVE call'[k] \in CallRecords /\ CallInv(k)'
  <2> DEFINE now == Current(contract)'
  <2>1. now \in Entries \cup {Nothing}
    <3>1. /\ contract \in DOMAIN instances' => instances'[contract] \in Values \cup Contracts
          /\ contract \in DOMAIN factories' => factories'[contract] \in Values \cup Contracts
          /\ contract \in DOMAIN contracts' => contracts'[contract] \in Values \cup Contracts
      BY <1>1 DEF TablesTyped
    <3> QED BY <3>1, FoundInFacts DEF Current
  <2>2. now = FoundIn(instances', factories', contracts', contract)
    BY DEF Current
  <2> HIDE DEF now
  <2>3. call[k] \in CallRecords /\ CallInv(k)
    BY DEF RegistryInv
  <2>4. CASE Active(k) /\ call[k].target = contract
    <3>1. call'[k] = [call[k] EXCEPT !.crossed = @ \cup {name}, !.possible = @ \cup {now}]
      BY <1>2, <2>2, <2>4 DEF Note
    <3>2. /\ call'[k] \in CallRecords
          /\ call'[k].stage = call[k].stage /\ call'[k].target = call[k].target
          /\ call'[k].found = call[k].found /\ call'[k].known = call[k].known
          /\ call'[k].begun = call[k].begun
          /\ call'[k].possible = call[k].possible \cup {now}
          /\ call'[k].crossed = call[k].crossed \cup {name}
      <4>1. /\ call[k].possible \cup {now} \in SUBSET (Entries \cup {Nothing})
            /\ call[k].crossed \cup {name} \in SUBSET Tables
        BY <2>1, <2>3 DEF CallRecords
      <4> QED BY <2>3, <3>1, <4>1 DEF CallRecords
    <3>3. BegunIsThere(k)'
      BY <1>2, <1>3, <2>3, <2>4, <3>2 DEF BegunIsThere, CallInv
    <3>4. StageTells(k)'
      BY <2>3, <2>4, <3>2 DEF StageTells, CallInv, Active, Ended
    <3>5. call[k].stage = "make" => FoundInTime(k)'
      BY <2>3, <3>2 DEF FoundInTime, CallInv
    <3>6. \A c \in call'[k].known :
             c \in DOMAIN instances' \cup DOMAIN factories' \cup DOMAIN contracts'
      BY <1>3, <2>3, <3>2 DEF CallInv, CallRecords
    <3>7. {call'[k].begun, Current(call[k].target)'} \subseteq call'[k].possible
      BY <2>3, <2>4, <3>2 DEF CallInv, now
    <3> QED
      BY <2>3, <2>4, <3>2, <3>3, <3>4, <3>5, <3>6, <3>7 DEF CallInv, Active, Ended
  <2>5. CASE ~(Active(k) /\ call[k].target = contract)
    <3>1. call'[k] = call[k]
      BY <1>2, <2>5 DEF Note
    <3>2. call[k].target \in Contracts \ {contract} =>
             Current(call[k].target)' = Current(call[k].target) /\ (BegunIsThere(k) => BegunIsThere(k)')
      BY <1>4, <3>1 DEF Current, FoundIn, BegunIsThere
    <3>3. StageTells(k)' /\ (FoundInTime(k) => FoundInTime(k)')
      BY <2>3, <3>1 DEF CallInv, StageTells, FoundInTime
    <3>4. \A c \in call'[k].known :
             c \in DOMAIN instances' \cup DOMAIN factories' \cup DOMAIN contracts'
      BY <1>3, <2>3, <3>1 DEF CallInv, CallRecords
    <3>5. Active(k)' <=> Active(k)
      BY <3>1 DEF Active
    <3> QED BY <2>3, <2>5, <3>1, <3>2, <3>3, <3>4, <3>5 DEF CallInv
  <2> QED BY <2>4, <2>5
<1>6. call' \in [Callers -> CallRecords]
  <2>1. call' = [k \in Callers |-> call'[k]]
    BY <1>2 DEF Note
  <2> QED BY <1>5, <2>1
<1> QED BY <1>1, <1>5, <1>6 DEF RegistryInv

(* A step of one call leaves the others as they are. *)
LEMMA OneCall ==
    ASSUME RegistryInv, NEW k \in Callers, UNCHANGED <<instances, factories, contracts>>,
           NEW rec \in CallRecords, call' = [call EXCEPT ![k] = rec], CallInv(k)'
    PROVE  RegistryInv'
<1>1. TablesTyped'
  BY DEF RegistryInv, TablesTyped
<1>2. call' \in [Callers -> CallRecords]
  BY DEF RegistryInv
<1>3. ASSUME NEW q \in Callers PROVE CallInv(q)'
  <2>1. CASE q = k
    BY <2>1
  <2>2. CASE q # k
    <3>1. call'[q] = call[q] /\ CallInv(q)
      BY <2>2 DEF RegistryInv
    <3>2. Active(q)' <=> Active(q)
      BY <3>1 DEF Active
    <3>3. Current(call[q].target)' = Current(call[q].target)
      BY <3>1 DEF Current
    <3>4. BegunIsThere(q)' <=> BegunIsThere(q)
      BY <3>1 DEF BegunIsThere
    <3>5. StageTells(q)' <=> StageTells(q)
      BY <3>1 DEF StageTells
    <3>6. FoundInTime(q)' <=> FoundInTime(q)
      BY <3>1 DEF FoundInTime
    <3> QED BY <3>1, <3>2, <3>3, <3>4, <3>5, <3>6 DEF CallInv
  <2> QED BY <2>1, <2>2
<1> QED BY <1>1, <1>2, <1>3 DEF RegistryInv

(* A call begins: what it would find now is all it may have found so far. *)
LEMMA BeginStep ==
    ASSUME RegistryInv, NEW k \in Callers, NEW c \in Contracts,
           NEW first \in {"instances", "ask contracts"}, BeginCall(k, c, first)
    PROVE  RegistryInv'
<1> DEFINE rec == [stage |-> first, target |-> c, found |-> Nothing, known |-> call[k].known,
                   begun |-> Current(c), possible |-> {Current(c)}, crossed |-> {}]
<1>1. call[k] \in CallRecords /\ CallInv(k) /\ TablesTyped
  BY DEF RegistryInv
<1>2. /\ UNCHANGED <<instances, factories, contracts>>
      /\ call' = [call EXCEPT ![k] = rec]
  BY <1>1 DEF BeginCall, CallRecords, RegistryInv
<1>3. rec \in CallRecords
  BY <1>1, CurrentFacts DEF CallRecords, Stages, Tables, Ended
<1>4. /\ call'[k].stage = first /\ call'[k].target = c /\ call'[k].known = call[k].known
      /\ call'[k].begun = Current(c) /\ call'[k].possible = {Current(c)}
      /\ call'[k].crossed = {} /\ call'[k].found = Nothing
  BY <1>2 DEF RegistryInv
<1>5. Current(c)' = Current(c)
  BY <1>2 DEF Current
<1>6. BegunIsThere(k)'
  <2>1. /\ c \in DOMAIN instances => instances[c] \in Values \cup Contracts
        /\ c \in DOMAIN factories => factories[c] \in Values \cup Contracts
        /\ c \in DOMAIN contracts => contracts[c] \in Values \cup Contracts
    BY <1>1 DEF TablesTyped
  <2>2. \/ c \in DOMAIN instances /\ OutOf(Current(c), "instances")
        \/ /\ c \in DOMAIN factories \ DOMAIN instances
           /\ OutOf(Current(c), "factories")
        \/ /\ c \in DOMAIN contracts \ (DOMAIN instances \cup DOMAIN factories)
           /\ OutOf(Current(c), "contracts")
        \/ /\ c \notin DOMAIN instances \cup DOMAIN factories \cup DOMAIN contracts
           /\ Current(c) = Nothing
    BY <1>1, <2>1, CurrentFacts, EntryFacts DEF Tables
  <2>3. /\ c \in DOMAIN instances => Current(c) = Entry("instances", instances[c])
        /\ c \in DOMAIN factories \ DOMAIN instances =>
              Current(c) = Entry("factories", factories[c])
        /\ c \in DOMAIN contracts \ (DOMAIN instances \cup DOMAIN factories) =>
              Current(c) = Entry("contracts", contracts[c])
    BY <1>1, CurrentFacts
  <2>4. \A a, b \in Tables : OutOf(Current(c), a) /\ OutOf(Current(c), b) => a = b
    BY DEF OutOf
  <2> QED BY <1>2, <1>4, <2>2, <2>3, <2>4 DEF BegunIsThere, OutOf
<1>7. c \in call[k].known => Current(c) # Nothing
  BY <1>1, CurrentFacts DEF CallInv
<1>8. CallInv(k)'
  BY <1>1, <1>2, <1>4, <1>5, <1>6, <1>7 DEF CallInv, Active, Ended, StageTells, Tables
<1> HIDE DEF rec
<1> QED BY <1>2, <1>3, <1>8, OneCall

(* What a look changes of the record of its call. *)
LEMMA LookChanges ==
    ASSUME RegistryInv, NEW k \in Callers, NEW name \in Tables, NEW table,
           NEW over \in {"make", "resolved"}, NEW next \in Stages,
           UNCHANGED <<instances, factories, contracts>>,
           call[k].target \in DOMAIN table =>
              call' = [call EXCEPT ![k].found = Entry(name, table[call[k].target]),
                                   ![k].stage = over],
           call[k].target \notin DOMAIN table => call' = [call EXCEPT ![k].stage = next],
           call[k].target \in DOMAIN table => table[call[k].target] \in Values \cup Contracts
    PROVE  /\ UNCHANGED <<instances, factories, contracts>>
           /\ \E rec \in CallRecords : call' = [call EXCEPT ![k] = rec]
           /\ call'[k].target = call[k].target /\ call'[k].known = call[k].known
           /\ call'[k].begun = call[k].begun /\ call'[k].possible = call[k].possible
           /\ call'[k].crossed = call[k].crossed
           /\ \/ /\ call[k].target \in DOMAIN table
                 /\ call'[k].found = Entry(name, table[call[k].target])
                 /\ call'[k].stage = over
              \/ /\ call[k].target \notin DOMAIN table
                 /\ call'[k].found = call[k].found
                 /\ call'[k].stage = next
<1> DEFINE c == call[k].target
<1>1. call \in [Callers -> CallRecords] /\ call[k] \in CallRecords
  BY DEF RegistryInv
<1>2. UNCHANGED <<instances, factories, contracts>>
  OBVIOUS
<1>3. CASE c \in DOMAIN table
  <2> DEFINE e == Entry(name, table[c])
             rec == [call[k] EXCEPT !.found = e, !.stage = over]
  <2>1. e \in Entries /\ over \in Stages
    BY <1>3, EntryFacts DEF Stages, Ended
  <2>2. call' = [call EXCEPT ![k].found = e, ![k].stage = over]
    BY <1>3
  <2> HIDE DEF e
  <2>3. /\ rec \in CallRecords
        /\ rec.target = c /\ rec.known = call[k].known
        /\ rec.begun = call[k].begun /\ rec.possible = call[k].possible
        /\ rec.crossed = call[k].crossed /\ rec.found = e /\ rec.stage = over
    BY <1>1, <2>1 DEF CallRecords
  <2>4. call' = [call EXCEPT ![k] = rec]
    BY <1>1, <2>2
  <2>5. call'[k] = rec
    BY <1>1, <2>4
  <2> HIDE DEF rec
  <2> QED BY <1>2, <1>3, <2>3, <2>4, <2>5 DEF e
<1>4. CASE c \notin DOMAIN table
  <2> DEFINE rec == [call[k] EXCEPT !.stage = next]
  <2>1. call' = [call EXCEPT ![k].stage = next]
    BY <1>4
  <2>2. /\ rec \in CallRecords
        /\ rec.target = c /\ rec.known = call[k].known
        /\ rec.begun = call[k].begun /\ rec.possible = call[k].possible
        /\ rec.crossed = call[k].crossed /\ rec.found = call[k].found /\ rec.stage = next
    BY <1>1 DEF CallRecords
  <2>3. call' = [call EXCEPT ![k] = rec]
    BY <1>1, <2>1
  <2>4. call'[k] = rec
    BY <1>1, <2>3
  <2> HIDE DEF rec
  <2> QED BY <1>2, <1>4, <2>2, <2>3, <2>4
<1> QED BY <1>3, <1>4

(* A look changes what its call found and how far it is, and nothing that  *)
(* the call recorded of its begin.                                         *)
LEMMA CallGoesOn ==
    ASSUME RegistryInv, NEW k \in Callers, Active(k),
           UNCHANGED <<instances, factories, contracts>>,
           \E rec \in CallRecords : call' = [call EXCEPT ![k] = rec],
           call'[k].target = call[k].target, call'[k].begun = call[k].begun,
           call'[k].possible = call[k].possible, call'[k].crossed = call[k].crossed,
           \A c \in call'[k].known \ call[k].known :
              c \in DOMAIN instances \cup DOMAIN factories \cup DOMAIN contracts,
           StageTells(k)',
           call'[k].stage \in Tables =>
              /\ call[k].stage \in Tables /\ call'[k].known = call[k].known
              /\ call'[k].found = call[k].found,
           call'[k].stage \in {"make", "resolved"} => FoundInTime(k)',
           call'[k].stage = "make" => call'[k].found # Nothing
    PROVE  RegistryInv'
<1>1. CallInv(k)
  BY DEF RegistryInv
<1>2. BegunIsThere(k)' <=> BegunIsThere(k)
  BY DEF BegunIsThere
<1>3. Current(call[k].target)' = Current(call[k].target)
  BY DEF Current
<1>4. CallInv(k)'
  BY <1>1, <1>2, <1>3 DEF CallInv
<1> QED BY <1>4, OneCall

LEMMA LookInstancesStep ==
    ASSUME RegistryInv, NEW k \in Callers, LookInstances(k)
    PROVE  RegistryInv'
<1> DEFINE c == call[k].target
<1>0. call[k].stage = "instances" /\ Active(k)
  BY DEF LookInstances, Look, Active, Ended
<1>1. CallInv(k) /\ call[k] \in CallRecords /\ TablesTyped /\ c \in Contracts
  BY <1>0 DEF RegistryInv, CallInv
<1>2. /\ UNCHANGED <<instances, factories, contracts>>
      /\ \E rec \in CallRecords : call' = [call EXCEPT ![k] = rec]
      /\ call'[k].target = c /\ call'[k].known = call[k].known
      /\ call'[k].begun = call[k].begun /\ call'[k].possible = call[k].possible
      /\ call'[k].crossed = call[k].crossed
      /\ \/ /\ c \in DOMAIN instances
            /\ call'[k].found = Entry("instances", instances[c])
            /\ call'[k].stage = "resolved"
         \/ /\ c \notin DOMAIN instances
            /\ call'[k].found = call[k].found
            /\ call'[k].stage = "factories"
  <2>1. c \in DOMAIN instances => instances[c] \in Values \cup Contracts
    BY <1>1 DEF TablesTyped
  <2>2. "instances" \in Tables /\ "factories" \in Stages
    BY DEF Stages, Tables
  <2>3. /\ UNCHANGED <<instances, factories, contracts>>
        /\ c \in DOMAIN instances => call' = [call EXCEPT ![k].found = Entry("instances", instances[c]),
                                                       ![k].stage = "resolved"]
        /\ c \notin DOMAIN instances => call' = [call EXCEPT ![k].stage = "factories"]
    BY DEF LookInstances, Look
  <2> QED BY <2>1, <2>2, <2>3, LookChanges
<1>3. CASE c \in DOMAIN instances
  <2>1. call'[k].found = Current(c) /\ Current(c) # Nothing /\ OutOf(Current(c), "instances")
    BY <1>1, <1>2, <1>3, CurrentFacts, EntryFacts DEF TablesTyped, Tables
  <2>2. Rank(Current(c)) = 1 /\ Rank(call[k].begun) >= 1
    BY <1>1, <2>1, CurrentFacts, RankFacts DEF CallRecords, OutOf
  <2>3. FoundInTime(k)'
    BY <1>0, <1>1, <1>2, <2>1, <2>2 DEF FoundInTime, CallInv
  <2>4. StageTells(k)'
    BY <1>2, <1>3 DEF StageTells
  <2> QED BY <1>0, <1>2, <1>3, <2>3, <2>4, CallGoesOn DEF Tables
<1>4. CASE c \notin DOMAIN instances
  <2>1. ~OutOf(call[k].begun, "instances")
    BY <1>0, <1>1, <1>4 DEF CallInv, BegunIsThere
  <2>2. StageTells(k)'
    BY <1>2, <1>4, <2>1 DEF StageTells
  <2> QED BY <1>0, <1>2, <1>4, <2>2, CallGoesOn DEF Tables
<1> QED BY <1>3, <1>4

LEMMA LookFactoriesStep ==
    ASSUME RegistryInv, NEW k \in Callers, LookFactories(k)
    PROVE  RegistryInv'
<1> DEFINE c == call[k].target
<1>0. call[k].stage = "factories" /\ Active(k)
  BY DEF LookFactories, Look, Active, Ended
<1>1. /\ CallInv(k) /\ call[k] \in CallRecords /\ TablesTyped /\ c \in Contracts
      /\ ~OutOf(call[k].begun, "instances")
  BY <1>0 DEF RegistryInv, CallInv, StageTells
<1>2. /\ UNCHANGED <<instances, factories, contracts>>
      /\ \E rec \in CallRecords : call' = [call EXCEPT ![k] = rec]
      /\ call'[k].target = c /\ call'[k].known = call[k].known
      /\ call'[k].begun = call[k].begun /\ call'[k].possible = call[k].possible
      /\ call'[k].crossed = call[k].crossed
      /\ \/ /\ c \in DOMAIN factories
            /\ call'[k].found = Entry("factories", factories[c])
            /\ call'[k].stage = "make"
         \/ /\ c \notin DOMAIN factories
            /\ call'[k].found = call[k].found
            /\ call'[k].stage = "contracts"
  <2>1. c \in DOMAIN factories => factories[c] \in Values \cup Contracts
    BY <1>1 DEF TablesTyped
  <2>2. "factories" \in Tables /\ "contracts" \in Stages
    BY DEF Stages, Tables
  <2>3. /\ UNCHANGED <<instances, factories, contracts>>
        /\ c \in DOMAIN factories => call' = [call EXCEPT ![k].found = Entry("factories", factories[c]),
                                                       ![k].stage = "make"]
        /\ c \notin DOMAIN factories => call' = [call EXCEPT ![k].stage = "contracts"]
    BY DEF LookFactories, Look
  <2> QED BY <2>1, <2>2, <2>3, LookChanges
<1>3. CASE c \in DOMAIN factories
  <2> DEFINE e == Entry("factories", factories[c])
  <2>1. e \in Entries /\ e # Nothing /\ OutOf(e, "factories")
    BY <1>1, <1>3, EntryFacts DEF TablesTyped, Tables
  <2>2. Rank(e) = 2 /\ Rank(call[k].begun) >= 2
    <3> HIDE DEF e
    <3>1. Rank(e) = 2
      BY <2>1, RankFacts DEF OutOf
    <3>2. Rank(call[k].begun) >= 2
      BY <1>1, RankFacts DEF CallRecords
    <3> QED BY <3>1, <3>2
  <2>3. e \in call[k].possible \/ {"instances", "factories"} \subseteq call[k].crossed
    <3>1. {call[k].begun, Current(c)} \subseteq call[k].possible /\ BegunIsThere(k)
      BY <1>0, <1>1 DEF CallInv
    <3>2. c \notin DOMAIN instances => Current(c) = e
      BY <1>1, <1>3, CurrentFacts
    <3>3. c \in DOMAIN instances => "instances" \in call[k].crossed
      <4>1. c \in DOMAIN instances => OutOf(Entry("instances", instances[c]), "instances")
        BY <1>1, EntryFacts DEF TablesTyped, Tables
      <4> QED BY <1>1, <3>1, <4>1 DEF BegunIsThere
    <3>4. "factories" \notin call[k].crossed => call[k].begun = e
      BY <1>1, <1>3, <3>1 DEF BegunIsThere
    <3> HIDE DEF e
    <3> QED BY <3>1, <3>2, <3>3, <3>4
  <2>4. FoundInTime(k)'
    <3>1. call'[k].found = e
      BY <1>2, <1>3
    <3> HIDE DEF e
    <3> QED BY <1>2, <2>1, <2>2, <2>3, <3>1 DEF FoundInTime
  <2>5. StageTells(k)'
    BY <1>2, <1>3 DEF StageTells
  <2> HIDE DEF e
  <2>6. call'[k].found # Nothing
    BY <1>2, <1>3, <2>1 DEF e
  <2> QED BY <1>0, <1>2, <1>3, <2>4, <2>5, <2>6, CallGoesOn DEF Tables
<1>4. CASE c \notin DOMAIN factories
  <2>1. ~OutOf(call[k].begun, "factories")
    BY <1>0, <1>1, <1>4 DEF CallInv, BegunIsThere
  <2>2. StageTells(k)'
    BY <1>1, <1>2, <1>4, <2>1 DEF StageTells
  <2> QED BY <1>0, <1>2, <1>4, <2>2, CallGoesOn DEF Tables
<1> QED BY <1>3, <1>4

LEMMA LookContractsStep ==
    ASSUME RegistryInv, NEW k \in Callers, LookContracts(k)
    PROVE  RegistryInv'
<1> DEFINE c == call[k].target
           b == call[k].begun
           over == IF contracts[c] \in Callable THEN "make" ELSE "resolved"
<1>0. call[k].stage = "contracts" /\ Active(k)
  BY DEF LookContracts, Look, Active, Ended
<1>1. /\ CallInv(k) /\ call[k] \in CallRecords /\ TablesTyped /\ c \in Contracts
      /\ ~OutOf(b, "instances") /\ ~OutOf(b, "factories") /\ b \in Entries \cup {Nothing}
      /\ call[k].found = Nothing /\ (c \in call[k].known => b # Nothing)
  BY <1>0 DEF RegistryInv, CallInv, StageTells, CallRecords, Tables
<1>2. /\ UNCHANGED <<instances, factories, contracts>>
      /\ \E rec \in CallRecords : call' = [call EXCEPT ![k] = rec]
      /\ call'[k].target = c /\ call'[k].known = call[k].known
      /\ call'[k].begun = b /\ call'[k].possible = call[k].possible
      /\ call'[k].crossed = call[k].crossed
      /\ \/ /\ c \in DOMAIN contracts
            /\ call'[k].found = Entry("contracts", contracts[c])
            /\ call'[k].stage = over
         \/ /\ c \notin DOMAIN contracts
            /\ call'[k].found = call[k].found
            /\ call'[k].stage = "resolved"
  <2>1. c \in DOMAIN contracts => contracts[c] \in Values \cup Contracts
    BY <1>1 DEF TablesTyped
  <2>2. "contracts" \in Tables /\ "resolved" \in Stages /\ over \in {"make", "resolved"}
    BY DEF Stages, Tables, Ended
  <2>3. /\ UNCHANGED <<instances, factories, contracts>>
        /\ c \in DOMAIN contracts => call' = [call EXCEPT ![k].found = Entry("contracts", contracts[c]),
                                                       ![k].stage = over]
        /\ c \notin DOMAIN contracts => call' = [call EXCEPT ![k].stage = "resolved"]
    BY DEF LookContracts, Look
  <2> HIDE DEF over
  <2> QED BY <2>1, <2>2, <2>3, LookChanges
<1>3. {b, Current(c)} \subseteq call[k].possible /\ BegunIsThere(k)
  BY <1>0, <1>1 DEF CallInv
<1>4. CASE c \in DOMAIN contracts
  <2> DEFINE e == Entry("contracts", contracts[c])
  <2>1. e \in Entries /\ e # Nothing /\ OutOf(e, "contracts")
    BY <1>1, <1>4, EntryFacts DEF TablesTyped, Tables
  <2>2. Rank(e) <= Rank(b)
    <3> HIDE DEF e, b
    <3>1. Rank(e) = 3
      BY <2>1, RankFacts DEF OutOf
    <3>2. Rank(b) >= 3
      BY <1>1, RankFacts
    <3> QED BY <3>1, <3>2, <1>1, RankFacts
  <2>3. \/ e \in call[k].possible
        \/ {"instances", "contracts"} \subseteq call[k].crossed
        \/ {"factories", "contracts"} \subseteq call[k].crossed
    <3>1. c \notin DOMAIN instances \cup DOMAIN factories => Current(c) = e
      BY <1>1, <1>4, CurrentFacts
    <3>2. c \in DOMAIN instances => "instances" \in call[k].crossed
      <4>1. c \in DOMAIN instances => OutOf(Entry("instances", instances[c]), "instances")
        BY <1>1, EntryFacts DEF TablesTyped, Tables
      <4> QED BY <1>1, <1>3, <4>1 DEF BegunIsThere
    <3>3. c \in DOMAIN factories => "factories" \in call[k].crossed
      <4>1. c \in DOMAIN factories => OutOf(Entry("factories", factories[c]), "factories")
        BY <1>1, EntryFacts DEF TablesTyped, Tables
      <4> QED BY <1>1, <1>3, <4>1 DEF BegunIsThere
    <3>4. "contracts" \notin call[k].crossed => b = e
      BY <1>1, <1>3, <1>4 DEF BegunIsThere
    <3> HIDE DEF e
    <3> QED BY <1>3, <3>1, <3>2, <3>3, <3>4
  <2>4. call'[k].found = e /\ call'[k].stage = over
    BY <1>2, <1>4
  <2> HIDE DEF e, b, over
  <2>5. FoundInTime(k)'
    BY <1>2, <2>1, <2>2, <2>3, <2>4 DEF FoundInTime
  <2>6. over \in {"make", "resolved"}
    BY DEF over
  <2>7. StageTells(k)'
    BY <2>4, <2>6 DEF StageTells
  <2> QED BY <1>0, <1>2, <2>1, <2>4, <2>5, <2>6, <2>7, CallGoesOn DEF Tables, b
<1>5. CASE c \notin DOMAIN contracts
  <2>1. b = Nothing
    BY <1>1, <1>3, <1>5, RankFacts DEF BegunIsThere
  <2>2. FoundInTime(k)'
    BY <1>1, <1>2, <1>3, <1>5, <2>1, RankFacts DEF FoundInTime
  <2>3. StageTells(k)'
    BY <1>2, <1>5 DEF StageTells
  <2> QED BY <1>0, <1>2, <1>5, <2>2, <2>3, CallGoesOn DEF Tables
<1> QED BY <1>4, <1>5

LEMMA MakeStep ==
    ASSUME RegistryInv, NEW k \in Callers, Make(k)
    PROVE  RegistryInv'
<1> DEFINE rec == [call[k] EXCEPT !.stage = "resolved"]
<1>1. call \in [Callers -> CallRecords] /\ call[k] \in CallRecords /\ CallInv(k)
  BY DEF RegistryInv
<1>2. /\ call[k].stage = "make" /\ UNCHANGED <<instances, factories, contracts>>
      /\ call' = [call EXCEPT ![k].stage = "resolved"]
  BY DEF Make
<1>3. /\ rec \in CallRecords
      /\ rec.target = call[k].target /\ rec.known = call[k].known
      /\ rec.begun = call[k].begun /\ rec.possible = call[k].possible
      /\ rec.crossed = call[k].crossed /\ rec.found = call[k].found /\ rec.stage = "resolved"
  BY <1>1 DEF CallRecords, Stages, Ended
<1>4. call' = [call EXCEPT ![k] = rec] /\ call'[k] = rec
  BY <1>1, <1>2
<1>5. Active(k)
  BY <1>2 DEF Active, Ended
<1> HIDE DEF rec
<1>6. FoundInTime(k)'
  BY <1>1, <1>2, <1>3, <1>4 DEF CallInv, FoundInTime
<1>7. StageTells(k)'
  BY <1>3, <1>4 DEF StageTells
<1> QED BY <1>2, <1>3, <1>4, <1>5, <1>6, <1>7, CallGoesOn DEF Tables

(* A question to one table: the answer is yes, and the caller knows, or    *)
(* the begin of the call had nothing in that table.                        *)
LEMMA AskStep ==
    ASSUME RegistryInv, NEW k \in Callers, NEW name \in Tables, NEW table,
           NEW next \in {"ask instances", "ask factories", "unregistered"},
           call[k].stage \in {"ask contracts", "ask instances", "ask factories"},
           Ask(k, call[k].stage, table, next),
           \A c \in DOMAIN table : c \in DOMAIN instances \cup DOMAIN factories \cup DOMAIN contracts,
           call[k].target \notin DOMAIN table =>
              /\ next \in {"ask instances", "ask factories", "unregistered"} =>
                    ~OutOf(call[k].begun, "contracts")
              /\ next \in {"ask factories", "unregistered"} => ~OutOf(call[k].begun, "instances")
              /\ next = "unregistered" => ~OutOf(call[k].begun, "factories")
    PROVE  RegistryInv'
<1> DEFINE c == call[k].target
<1>1. /\ call \in [Callers -> CallRecords] /\ call[k] \in CallRecords /\ CallInv(k)
      /\ TablesTyped /\ Active(k)
  BY DEF RegistryInv, Active, Ended
<1>2. UNCHANGED <<instances, factories, contracts>> /\ c \in Contracts
  BY <1>1 DEF Ask, CallInv
<1>3. CASE c \in DOMAIN table
  <2> DEFINE rec == [call[k] EXCEPT !.stage = "registered", !.known = @ \cup {c}]
  <2>1. call' = [call EXCEPT ![k].stage = "registered", ![k].known = @ \cup {c}]
    BY <1>3 DEF Ask
  <2>2. /\ rec \in CallRecords
        /\ rec.target = c /\ rec.known = call[k].known \cup {c}
        /\ rec.begun = call[k].begun /\ rec.possible = call[k].possible
        /\ rec.crossed = call[k].crossed /\ rec.found = call[k].found /\ rec.stage = "registered"
    <3>1. call[k].known \cup {c} \in SUBSET Contracts
      BY <1>1, <1>2 DEF CallRecords
    <3> QED BY <1>1, <3>1 DEF CallRecords, Stages, Ended
  <2>3. call' = [call EXCEPT ![k] = rec]
    BY <1>1, <2>1
  <2>4. call'[k] = rec
    BY <1>1, <2>3
  <2> HIDE DEF rec
  <2>5. Current(c) # Nothing /\ Current(c) \in call[k].possible
    BY <1>1, <1>2, <1>3, CurrentFacts DEF CallInv
  <2>6. StageTells(k)'
    BY <2>2, <2>4, <2>5 DEF StageTells
  <2> QED BY <1>1, <1>2, <1>3, <2>2, <2>3, <2>4, <2>6, CallGoesOn DEF Tables
<1>4. CASE c \notin DOMAIN table
  <2> DEFINE rec == [call[k] EXCEPT !.stage = next]
  <2>1. call' = [call EXCEPT ![k].stage = next]
    BY <1>4 DEF Ask
  <2>2. /\ rec \in CallRecords
        /\ rec.target = c /\ rec.known = call[k].known
        /\ rec.begun = call[k].begun /\ rec.possible = call[k].possible
        /\ rec.crossed = call[k].crossed /\ rec.found = call[k].found /\ rec.stage = next
    BY <1>1 DEF CallRecords, Stages, Ended
  <2>3. call' = [call EXCEPT ![k] = rec]
    BY <1>1, <2>1
  <2>4. call'[k] = rec
    BY <1>1, <2>3
  <2> HIDE DEF rec
  <2>5. next = "unregistered" => call[k].begun = Nothing
    <3>1. call[k].begun \in Entries \cup {Nothing}
      BY <1>1 DEF CallRecords
    <3> QED BY <1>4, <3>1, RankFacts
  <2>6. StageTells(k)'
    BY <1>4, <2>2, <2>4, <2>5 DEF StageTells
  <2> QED BY <1>1, <1>2, <2>2, <2>3, <2>4, <2>6, CallGoesOn DEF Tables
<1> QED BY <1>3, <1>4

-----------------------------------------------------------------------------
(* A step of the registry, whoever registers instances in it. *)
RegistryStep ==
    \/ \E c \in Contracts, v \in Values : RegisterInstance(c, v)
    \/ OtherwiseNext
    \/ UNCHANGED registryVars

LEMMA RegistryInvStep == RegistryInv /\ RegistryStep => RegistryInv'
<1> SUFFICES ASSUME RegistryInv, RegistryStep PROVE RegistryInv'
  OBVIOUS
<1>1. ASSUME NEW c \in Contracts, NEW v \in Values, RegisterInstance(c, v) PROVE RegistryInv'
  <2>1. WritesOnly("instances", instances, c) /\ UNCHANGED <<factories, contracts>>
    <3>1. instances' = Put(instances, c, v) /\ Note("instances", c) /\ UNCHANGED <<factories, contracts>>
      BY <1>1 DEF RegisterInstance
    <3>2. /\ DOMAIN instances' = DOMAIN instances \cup {c}
          /\ \A d \in DOMAIN instances : d # c => instances'[d] = instances[d]
          /\ instances'[c] \in Values \cup {c}
      BY <3>1 DEF Put
    <3> QED BY <3>1, <3>2 DEF WritesOnly
  <2> QED BY <2>1, WriteStep
<1>2. ASSUME NEW offer \in Offered, RegisterFactory(offer[1], offer[2]) PROVE RegistryInv'
  <2>1. offer[1] \in Contracts /\ offer[2] \in Values
    BY OfferedAssumption
  <2>2. WritesOnly("factories", factories, offer[1]) /\ UNCHANGED <<instances, contracts>>
    <3>1. factories' = Put(factories, offer[1], offer[2]) /\ Note("factories", offer[1]) /\ UNCHANGED <<instances, contracts>>
      BY <1>2 DEF RegisterFactory
    <3>2. /\ DOMAIN factories' = DOMAIN factories \cup {offer[1]}
          /\ \A d \in DOMAIN factories : d # offer[1] => factories'[d] = factories[d]
          /\ factories'[offer[1]] \in Values \cup {offer[1]}
      BY <2>1, <3>1 DEF Put
    <3> QED BY <3>1, <3>2 DEF WritesOnly
  <2> QED BY <2>1, <2>2, WriteStep
<1>3. ASSUME NEW c \in Contracts, NEW v \in Values \cup {Nothing}, Register(c, v) PROVE RegistryInv'
  <2> DEFINE stored == IF v \in Falsy \cup {Nothing} THEN c ELSE v
  <2>1. stored \in Values \cup {c}
    OBVIOUS
  <2>2. contracts' = Put(contracts, c, stored) /\ Note("contracts", c)
        /\ UNCHANGED <<instances, factories>>
    BY <1>3 DEF Register
  <2> HIDE DEF stored
  <2>3. WritesOnly("contracts", contracts, c) /\ UNCHANGED <<instances, factories>>
    <3>1. contracts' = Put(contracts, c, stored) /\ Note("contracts", c) /\ UNCHANGED <<instances, factories>>
      BY <2>2
    <3>2. /\ DOMAIN contracts' = DOMAIN contracts \cup {c}
          /\ \A d \in DOMAIN contracts : d # c => contracts'[d] = contracts[d]
          /\ contracts'[c] \in Values \cup {c}
      BY <2>1, <3>1 DEF Put
    <3> QED BY <3>1, <3>2 DEF WritesOnly
  <2> QED BY <2>3, WriteStep
<1>4. ASSUME NEW offer \in Offered, Register(offer[1], offer[2]) PROVE RegistryInv'
  BY <1>3, <1>4, OfferedAssumption
<1>5. ASSUME NEW k \in Callers, NEW c \in Contracts, Resolve(k, c) \/ IsRegistered(k, c)
      PROVE  RegistryInv'
  BY <1>5, BeginStep DEF Resolve, IsRegistered
<1>6. ASSUME NEW k \in Callers, AskContracts(k) PROVE RegistryInv'
  <2>1. call[k].stage = "ask contracts" /\ CallInv(k)
    BY <1>6 DEF AskContracts, Ask, RegistryInv
  <2>2. call[k].target \notin DOMAIN contracts => ~OutOf(call[k].begun, "contracts")
    BY <2>1 DEF CallInv, BegunIsThere, Active, Ended
  <2> QED BY <1>6, <2>1, <2>2, AskStep DEF AskContracts, Tables
<1>7. ASSUME NEW k \in Callers, AskInstances(k) PROVE RegistryInv'
  <2>1. call[k].stage = "ask instances" /\ CallInv(k)
    BY <1>7 DEF AskInstances, Ask, RegistryInv
  <2>2. /\ ~OutOf(call[k].begun, "contracts")
        /\ call[k].target \notin DOMAIN instances => ~OutOf(call[k].begun, "instances")
    BY <2>1 DEF CallInv, BegunIsThere, StageTells, Active, Ended
  <2> QED BY <1>7, <2>1, <2>2, AskStep DEF AskInstances, Tables
<1>8. ASSUME NEW k \in Callers, AskFactories(k) PROVE RegistryInv'
  <2>1. call[k].stage = "ask factories" /\ CallInv(k)
    BY <1>8 DEF AskFactories, Ask, RegistryInv
  <2>2. /\ ~OutOf(call[k].begun, "contracts") /\ ~OutOf(call[k].begun, "instances")
        /\ call[k].target \notin DOMAIN factories => ~OutOf(call[k].begun, "factories")
    BY <2>1 DEF CallInv, BegunIsThere, StageTells, Active, Ended
  <2> QED BY <1>8, <2>1, <2>2, AskStep DEF AskFactories, Tables
<1>9. CASE UNCHANGED registryVars
  <2>1. UNCHANGED <<instances, factories, contracts, call>>
    BY <1>9 DEF registryVars
  <2>2. TablesTyped' /\ call' \in [Callers -> CallRecords]
    BY <2>1 DEF RegistryInv, TablesTyped
  <2>3. ASSUME NEW k \in Callers PROVE CallInv(k)'
    <3>1. CallInv(k)
      BY DEF RegistryInv
    <3>2. Active(k)' <=> Active(k)
      BY <2>1 DEF Active
    <3>3. Current(call[k].target)' = Current(call[k].target)
      BY <2>1 DEF Current
    <3>4. BegunIsThere(k)' <=> BegunIsThere(k)
      BY <2>1 DEF BegunIsThere
    <3>5. StageTells(k)' <=> StageTells(k)
      BY <2>1 DEF StageTells
    <3>6. FoundInTime(k)' <=> FoundInTime(k)
      BY <2>1 DEF FoundInTime
    <3> QED BY <2>1, <3>1, <3>2, <3>3, <3>4, <3>5, <3>6 DEF CallInv
  <2> QED BY <2>2, <2>3 DEF RegistryInv
<1> QED
  BY <1>1, <1>2, <1>3, <1>4, <1>5, <1>6, <1>7, <1>8, <1>9, LookInstancesStep, LookFactoriesStep,
     LookContractsStep, MakeStep
  DEF RegistryStep, OtherwiseNext

-----------------------------------------------------------------------------
(* The containers: what each has done of its construction shows in the     *)
(* registry, as far as no later registration hides it.                     *)
ContainersTyped ==
    /\ built \in [Containers -> {"none", "made", "half", "ready"}]
    /\ composite \in [Containers -> Containers]
    /\ hooks \in [Containers -> Seq(Hooks)]
    /\ added \in [Containers -> SUBSET Hooks]
    /\ \A pair \in overlapped : pair \subseteq Containers /\ Cardinality(pair) = 2
    /\ latest \in Containers \cup {Nothing}

HooksAreKept ==
    \A c \in Containers :
        /\ built[c] # "ready" => added[c] = {}
        /\ added[c] \subseteq ToSet(hooks[composite[c]])

LatestIsThere ==
    latest # Nothing =>
        /\ built[latest] = "ready"
        /\ HookContract \in DOMAIN instances
        /\ instances[HookContract] = composite[latest]

(* A container that is half built when another one's extractor is the      *)
(* registered one was under construction at the same time as that one.     *)
OverlapIsNoted ==
    /\ \A a, b \in Constructing : a # b => {a, b} \in overlapped
    /\ \A a \in Containers : built[a] \in {"half", "ready"} => ExtractorContract \in DOMAIN instances
    /\ \A a, b \in Containers :
          a # b /\ built[b] = "half" /\ instances[ExtractorContract] = a => {a, b} \in overlapped
    /\ PairIsOneContainers

ContainerInv == ContainersTyped /\ HooksAreKept /\ LatestIsThere /\ OverlapIsNoted

LEMMA ContainerInvInit == ContainerInit => RegistryInv /\ ContainerInv
<1> SUFFICES ASSUME ContainerInit PROVE RegistryInv /\ ContainerInv
  OBVIOUS
<1>1. /\ DOMAIN instances = {} /\ DOMAIN factories = {} /\ DOMAIN contracts = {}
      /\ call = [k \in Callers |->
            [stage |-> "idle", target |-> Nothing, found |-> Nothing, known |-> {},
             begun |-> Nothing, possible |-> {}, crossed |-> {}]]
  BY DEF ContainerInit, Init
<1>2. TablesTyped
  BY <1>1 DEF TablesTyped
<1>3. call \in [Callers -> CallRecords]
  BY <1>1 DEF CallRecords, Stages, Ended
<1>4. ASSUME NEW k \in Callers PROVE CallInv(k)
  <2>1. call[k].stage = "idle" /\ call[k].known = {}
    BY <1>1
  <2> QED BY <2>1 DEF CallInv, Active, Ended, StageTells, Tables
<1>5. ContainersTyped /\ HooksAreKept
  BY DEF ContainerInit, ContainersTyped, HooksAreKept
<1>6. LatestIsThere /\ OverlapIsNoted
  BY DEF ContainerInit, LatestIsThere, OverlapIsNoted, Constructing, PairIsOneContainers
<1> QED BY <1>2, <1>3, <1>4, <1>5, <1>6 DEF RegistryInv, ContainerInv

(* Every step of a container is a step of the registry it uses. *)
LEMMA ContainerUsesRegistry == ContainersTyped /\ [Next]_vars => RegistryStep
<1> SUFFICES ASSUME ContainersTyped, [Next]_vars PROVE RegistryStep
  OBVIOUS
<1> USE DEF RegistryStep
<1>1. ASSUME NEW c \in Containers, Building(c) PROVE RegistryStep
  <2>1. /\ c \in Values /\ composite[c] \in Values
        /\ ExtractorContract \in Contracts /\ HookContract \in Contracts
    BY ContainersAssumption, ContractsAssumption DEF ContainersTyped
  <2>2. CASE RegisterExtractor(c)
    BY <2>1, <2>2 DEF RegisterExtractor
  <2>3. CASE RegisterComposite(c)
    BY <2>1, <2>3 DEF RegisterComposite
  <2>4. CASE Construct(c) \/ \E h \in Hooks : AddAuthorizationHook(c, h)
    BY <2>4 DEF Construct, AddAuthorizationHook
  <2> QED BY <1>1, <2>2, <2>3, <2>4 DEF Building
<1>2. ASSUME NEW offer \in Offered, RegisterOther(offer[1], offer[2]) PROVE RegistryStep
  BY <1>2, OfferedAssumption DEF RegisterOther
<1>3. CASE OtherwiseNext
  BY <1>3
<1>4. CASE UNCHANGED vars
  BY <1>4 DEF vars
<1> QED BY <1>1, <1>2, <1>3, <1>4 DEF Next

(* Only RegisterInstance writes instances. *)
LEMMA OtherwiseKeepsInstances == OtherwiseNext => UNCHANGED instances
<1> SUFFICES ASSUME OtherwiseNext PROVE UNCHANGED instances
  OBVIOUS
<1>1. ASSUME NEW c, NEW v, RegisterFactory(c, v) \/ Register(c, v) PROVE UNCHANGED instances
  BY <1>1 DEF RegisterFactory, Register
<1>2. ASSUME NEW k, NEW c, Resolve(k, c) \/ IsRegistered(k, c) PROVE UNCHANGED instances
  BY <1>2 DEF Resolve, IsRegistered, BeginCall
<1>3. ASSUME NEW k, LookInstances(k) \/ LookFactories(k) \/ LookContracts(k) \/ Make(k)
      PROVE UNCHANGED instances
  BY <1>3 DEF LookInstances, LookFactories, LookContracts, Look, Make
<1>4. ASSUME NEW k, AskContracts(k) \/ AskInstances(k) \/ AskFactories(k) PROVE UNCHANGED instances
  BY <1>4 DEF AskContracts, AskInstances, AskFactories, Ask
<1> QED BY <1>1, <1>2, <1>3, <1>4 DEF OtherwiseNext

(* Appending to a list adds one element to those it has. *)
LEMMA AppendToSet ==
    ASSUME NEW S, NEW s \in Seq(S), NEW x \in S
    PROVE  ToSet(s) \cup {x} \subseteq ToSet(Append(s, x))
<1>1. /\ Len(s) \in Nat /\ DOMAIN s = 1..Len(s)
      /\ DOMAIN Append(s, x) = 1..(Len(s) + 1)
      /\ \A i \in 1..Len(s) : Append(s, x)[i] = s[i]
      /\ Append(s, x)[Len(s) + 1] = x
  BY AppendProperties, LenProperties
<1>2. ASSUME NEW y \in ToSet(s) PROVE y \in ToSet(Append(s, x))
  <2>1. PICK i \in 1..Len(s) : y = s[i]
    BY <1>1 DEF ToSet
  <2>2. i \in DOMAIN Append(s, x) /\ y = Append(s, x)[i]
    BY <1>1, <2>1
  <2> QED BY <2>2 DEF ToSet
<1>3. x \in ToSet(Append(s, x))
  BY <1>1 DEF ToSet
<1> QED BY <1>2, <1>3

(* Two containers make a pair. *)
LEMMA PairOfTwo ==
    ASSUME NEW c, NEW d, c # d
    PROVE  Cardinality({c, d}) = 2
<1>1. IsFiniteSet({c}) /\ Cardinality({c}) = 1
  BY FS_Singleton
<1>2. Cardinality({c} \cup {d}) = 2
  BY <1>1, FS_AddElement
<1>3. {c} \cup {d} = {c, d}
  OBVIOUS
<1> QED BY <1>2, <1>3

LEMMA ContainerStep == ContainerInv /\ [Next]_vars => ContainerInv'
<1> SUFFICES ASSUME ContainerInv, [Next]_vars PROVE ContainerInv'
  OBVIOUS
<1>0. \A pair \in overlapped : pair \subseteq Containers /\ Cardinality(pair) = 2
  <2>1. ContainersTyped
    BY DEF ContainerInv
  <2> QED BY <2>1, Zenon DEF ContainersTyped
<1> USE DEF ContainerInv, ContainersTyped
<1>1. ASSUME NEW c \in Containers, Construct(c) PROVE ContainerInv'
  <2>1. /\ built[c] = "none" /\ built' = [built EXCEPT ![c] = "made"]
        /\ overlapped' = overlapped \cup {{c, d} : d \in Constructing}
        /\ UNCHANGED <<instances, hooks, added, latest>>
    BY <1>1 DEF Construct, registryVars
  <2>2. PICK h \in Containers : composite' = [composite EXCEPT ![c] = h]
    <3>1. PICK h \in {c} \cup {composite[d] : d \in {e \in Containers : built[e] = "ready"}} :
             composite' = [composite EXCEPT ![c] = h]
      BY <1>1 DEF Construct
    <3>2. h \in Containers
      OBVIOUS
    <3> QED BY <3>1, <3>2
  <2>3. c \notin Constructing /\ Constructing \subseteq Containers
    BY <2>1 DEF Constructing
  <2>4. ContainersTyped'
    <3>1. \A pair \in overlapped' : pair \subseteq Containers /\ Cardinality(pair) = 2
      <4>1. ASSUME NEW d \in Constructing
            PROVE  {c, d} \subseteq Containers /\ Cardinality({c, d}) = 2
        BY <2>3, PairOfTwo
      <4>2. \A pair \in overlapped' : pair \in overlapped \/ \E d \in Constructing : pair = {c, d}
        BY <2>1
      <4> HIDE DEF ContainerInv, ContainersTyped
      <4> TAKE pair \in overlapped'
      <4>3. CASE pair \in overlapped
        BY <1>0, <4>3
      <4>4. CASE \E d \in Constructing : pair = {c, d}
        <5>1. PICK d \in Constructing : pair = {c, d}
          BY <4>4
        <5> QED BY <4>1, <5>1, Zenon
      <4> QED BY <4>2, <4>3, <4>4
    <3> QED BY <2>1, <2>2, <3>1
  <2>5. HooksAreKept'
    BY <2>1, <2>2 DEF HooksAreKept
  <2>6. LatestIsThere'
    BY <2>1, <2>2 DEF LatestIsThere
  <2>7. OverlapIsNoted'
    <3>1. Constructing' = Constructing \cup {c}
      BY <2>1 DEF Constructing
    <3>2. \A a, b \in Constructing' : a # b => {a, b} \in overlapped'
      <4>1. \A d \in Constructing : {c, d} \in overlapped' /\ {d, c} = {c, d}
        BY <2>1
      <4> QED BY <2>1, <3>1, <4>1 DEF OverlapIsNoted
    <3>3. \A a \in Containers : built'[a] \in {"half", "ready"} => ExtractorContract \in DOMAIN instances'
      BY <2>1 DEF OverlapIsNoted
    <3>4. \A a, b \in Containers :
            a # b /\ built'[b] = "half" /\ instances'[ExtractorContract] = a => {a, b} \in overlapped'
      BY <2>1 DEF OverlapIsNoted
    <3>5. PairIsOneContainers'
      BY <2>1, <2>2 DEF OverlapIsNoted, PairIsOneContainers, LatestIsThere
    <3> QED BY <3>2, <3>3, <3>4, <3>5 DEF OverlapIsNoted
  <2> QED BY <2>4, <2>5, <2>6, <2>7
<1>2. ASSUME NEW c \in Containers, RegisterExtractor(c) PROVE ContainerInv'
  <2>1. /\ built[c] = "made" /\ built' = [built EXCEPT ![c] = "half"]
        /\ DOMAIN instances' = DOMAIN instances \cup {ExtractorContract}
        /\ instances'[ExtractorContract] = c
        /\ \A d \in DOMAIN instances \ {ExtractorContract} : instances'[d] = instances[d]
        /\ UNCHANGED <<composite, hooks, added, overlapped, latest>>
    BY <1>2 DEF RegisterExtractor, RegisterInstance, Put
  <2>2. ContainersTyped' /\ HooksAreKept'
    BY <2>1 DEF HooksAreKept
  <2>3. LatestIsThere'
    BY <2>1, ContractsAssumption DEF LatestIsThere
  <2>4. OverlapIsNoted'
    <3>1. Constructing' = Constructing /\ c \in Constructing
      BY <2>1 DEF Constructing
    <3>2. ASSUME NEW b \in Containers, c # b, built'[b] = "half" PROVE {c, b} \in overlapped'
      BY <2>1, <3>1, <3>2 DEF OverlapIsNoted, Constructing
    <3>3. PairIsOneContainers'
      BY <2>1 DEF PairIsOneContainers
    <3> QED BY <2>1, <3>1, <3>2, <3>3 DEF OverlapIsNoted
  <2> QED BY <2>2, <2>3, <2>4
<1>3. ASSUME NEW c \in Containers, RegisterComposite(c) PROVE ContainerInv'
  <2>1. /\ built[c] = "half" /\ built' = [built EXCEPT ![c] = "ready"] /\ latest' = c
        /\ DOMAIN instances' = DOMAIN instances \cup {HookContract}
        /\ instances'[HookContract] = composite[c]
        /\ \A d \in DOMAIN instances \ {HookContract} : instances'[d] = instances[d]
        /\ UNCHANGED <<composite, hooks, added, overlapped>>
    BY <1>3 DEF RegisterComposite, RegisterInstance, Put
  <2>2. ContainersTyped' /\ HooksAreKept'
    BY <2>1 DEF HooksAreKept
  <2>3. LatestIsThere'
    BY <2>1 DEF LatestIsThere
  <2>4. OverlapIsNoted'
    <3>1. Constructing' \subseteq Constructing
      BY <2>1 DEF Constructing
    <3>2. ExtractorContract \in DOMAIN instances /\ instances'[ExtractorContract] = instances[ExtractorContract]
      BY <2>1, ContractsAssumption DEF OverlapIsNoted
    <3>3. PairIsOneContainers'
      BY <2>1, <3>2 DEF PairIsOneContainers, OverlapIsNoted
    <3> QED BY <2>1, <3>1, <3>2, <3>3 DEF OverlapIsNoted
  <2> QED BY <2>2, <2>3, <2>4
<1>4. ASSUME NEW c \in Containers, NEW h \in Hooks, AddAuthorizationHook(c, h) PROVE ContainerInv'
  <2> DEFINE k == composite[c]
             s == hooks[k]
  <2>1. /\ built[c] = "ready" /\ hooks' = [hooks EXCEPT ![k] = Append(s, h)]
        /\ added' = [added EXCEPT ![c] = added[c] \cup {h}]
        /\ UNCHANGED <<instances, built, composite, overlapped, latest>>
    BY <1>4 DEF AddAuthorizationHook, registryVars
  <2>2. k \in Containers /\ s \in Seq(Hooks)
    OBVIOUS
  <2>3. Append(s, h) \in Seq(Hooks) /\ ToSet(s) \cup {h} \subseteq ToSet(Append(s, h))
    BY <2>2, AppendToSet, AppendProperties
  <2>4. ContainersTyped'
    BY <2>1, <2>2, <2>3
  <2>5. HooksAreKept'
    <3>1. \A d \in Containers : ToSet(hooks[d]) \subseteq ToSet(hooks'[d])
      BY <2>1, <2>2, <2>3
    <3>2. h \in ToSet(hooks'[k])
      BY <2>1, <2>2, <2>3
    <3>3. ASSUME NEW d \in Containers
          PROVE  /\ built'[d] # "ready" => added'[d] = {}
                 /\ added'[d] \subseteq ToSet(hooks'[composite'[d]])
      <4>1. composite[d] \in Containers /\ added[d] \subseteq ToSet(hooks[composite[d]])
        BY DEF HooksAreKept
      <4>2. added'[d] \subseteq ToSet(hooks'[composite[d]])
        BY <2>1, <3>1, <3>2, <4>1
      <4>3. built'[d] # "ready" => added'[d] = {}
        BY <2>1 DEF HooksAreKept
      <4> QED BY <2>1, <4>2, <4>3
    <3> QED BY <3>3 DEF HooksAreKept
  <2>6. LatestIsThere'
    BY <2>1 DEF LatestIsThere
  <2>7. OverlapIsNoted'
    BY <2>1 DEF OverlapIsNoted, PairIsOneContainers, Constructing
  <2> QED BY <2>4, <2>5, <2>6, <2>7
<1>5. ASSUME NEW offer \in Offered, RegisterOther(offer[1], offer[2]) PROVE ContainerInv'
  <2>1. /\ DOMAIN instances' = DOMAIN instances \cup {offer[1]}
        /\ instances'[offer[1]] = offer[2]
        /\ \A d \in DOMAIN instances \ {offer[1]} : instances'[d] = instances[d]
        /\ latest' = IF offer[1] = HookContract THEN Nothing ELSE latest
        /\ UNCHANGED <<built, composite, hooks, added, overlapped>>
    BY <1>5 DEF RegisterOther, RegisterInstance, Put
  <2>2. ContainersTyped' /\ HooksAreKept'
    BY <2>1 DEF HooksAreKept
  <2>3. LatestIsThere'
    BY <2>1 DEF LatestIsThere
  <2>4. OverlapIsNoted'
    <3>1. ASSUME NEW a \in Containers, instances'[ExtractorContract] = a,
                 ExtractorContract \in DOMAIN instances
          PROVE  instances[ExtractorContract] = a
      BY <2>1, <3>1, OfferedObjectsAssumption
    <3>2. Constructing' = Constructing
      BY <2>1 DEF Constructing
    <3>3. latest' # Nothing => latest' = latest
      BY <2>1
    <3>4. PairIsOneContainers'
      BY <2>1, <3>1, <3>3 DEF PairIsOneContainers, OverlapIsNoted
    <3> QED BY <2>1, <3>1, <3>2, <3>4 DEF OverlapIsNoted
  <2> QED BY <2>2, <2>3, <2>4
<1>6. ASSUME UNCHANGED <<instances, containerVars>> PROVE ContainerInv'
  BY <1>6 DEF containerVars, HooksAreKept, LatestIsThere, OverlapIsNoted, PairIsOneContainers,
              Constructing
<1>7. CASE OtherwiseNext /\ UNCHANGED containerVars
  BY <1>6, <1>7, OtherwiseKeepsInstances
<1>8. CASE UNCHANGED vars
  BY <1>6, <1>8 DEF vars, registryVars
<1> QED BY <1>1, <1>2, <1>3, <1>4, <1>5, <1>7, <1>8 DEF Next, Building

LEMMA ContainerInvariant == Spec => [](RegistryInv /\ ContainerInv)
<1>1. RegistryInv /\ ContainerInv /\ [Next]_vars => RegistryInv'
  BY RegistryInvStep, ContainerUsesRegistry DEF ContainerInv
<1> QED BY <1>1, ContainerInvInit, ContainerStep, PTL DEF Spec

-----------------------------------------------------------------------------
(* The registry and its containers keep their types. *)
THEOREM TypeCorrect == Spec => []TypeOK
<1>1. RegistryInv => RegistryTypeOK
  <2> SUFFICES ASSUME RegistryInv PROVE RegistryTypeOK
    OBVIOUS
  <2>1. TablesTyped
    BY DEF RegistryInv
  <2>2. ASSUME NEW k \in Callers
        PROVE  /\ call[k].stage \in Stages
               /\ call[k].target \in Contracts \cup {Nothing}
               /\ call[k].known \subseteq Contracts
               /\ call[k].crossed \subseteq Tables
               /\ {call[k].found, call[k].begun} \cup call[k].possible \subseteq Entries \cup {Nothing}
               /\ call[k].stage = "make" => call[k].found # Nothing
    <3>1. call[k] \in CallRecords /\ (call[k].stage = "make" => call[k].found # Nothing)
      BY DEF RegistryInv, CallInv
    <3> QED BY <3>1 DEF CallRecords
  <2> QED BY <2>1, <2>2 DEF RegistryTypeOK, TablesTyped, Stages
<1>2. ContainerInv /\ RegistryTypeOK => TypeOK
  BY DEF ContainerInv, ContainersTyped, TypeOK
<1> QED BY <1>1, <1>2, ContainerInvariant, PTL

(* No call of resolve falls back behind what it could have found at its    *)
(* begin, or behind what is_registered told its caller, whatever is        *)
(* registered, by however many threads, while it looks.                    *)
THEOREM ResolveNeverFallsBack == Spec => []NeverFallsBack
<1>1. RegistryInv => NeverFallsBack
  BY DEF RegistryInv, CallInv, FoundInTime, NeverFallsBack, Resolved
<1> QED BY <1>1, ContainerInvariant, PTL

(* is_registered is as good as one look at one moment, and so is resolve   *)
(* unless two tables were written for its contract while it looked.        *)
THEOREM OneMoment == Spec => []CallsAreOfOneMoment
<1>1. RegistryInv => CallsAreOfOneMoment
  <2> SUFFICES ASSUME RegistryInv, NEW k \in Callers
               PROVE  /\ call[k].stage = "unregistered" => call[k].begun = Nothing
                      /\ call[k].stage = "registered" => call[k].possible # {Nothing}
                      /\ Resolved(k) => \/ call[k].found \in call[k].possible
                                        \/ Cardinality(call[k].crossed) >= 2
    BY DEF CallsAreOfOneMoment
  <2>1. CallInv(k) /\ call[k].crossed \subseteq Tables
    BY DEF RegistryInv, CallRecords
  <2>2. IsFiniteSet(Tables)
    <3>1. IsFiniteSet({"instances"} \cup {"factories"})
      BY FS_Singleton, FS_AddElement
    <3>2. IsFiniteSet(({"instances"} \cup {"factories"}) \cup {"contracts"})
      BY <3>1, FS_AddElement
    <3>3. Tables = ({"instances"} \cup {"factories"}) \cup {"contracts"}
      BY DEF Tables
    <3> QED BY <3>2, <3>3
  <2>3. ASSUME NEW s \in call[k].crossed, NEW t \in call[k].crossed, s # t
        PROVE  Cardinality(call[k].crossed) >= 2
    <3>1. IsFiniteSet(call[k].crossed)
      BY <2>1, <2>2, FS_Subset
    <3>2. {s, t} \subseteq call[k].crossed
      OBVIOUS
    <3>3. Cardinality({s, t}) <= Cardinality(call[k].crossed)
      BY <3>1, <3>2, FS_Subset
    <3>4. Cardinality({s, t}) = 2 /\ Cardinality(call[k].crossed) \in Nat
      BY <2>3, <3>1, PairOfTwo, FS_CardinalityType
    <3> QED BY <3>3, <3>4
  <2> QED BY <2>1, <2>3 DEF CallInv, StageTells, FoundInTime, Resolved
<1> QED BY <1>1, ContainerInvariant, PTL

(* Whoever resolves the composite gets the one of the container that       *)
(* registered its composite last, with every hook added through that       *)
(* container, until another instance is registered for the contract.       *)
THEOREM AddedHooksAreResolved == Spec => []HooksReachResolvers
<1>1. RegistryInv /\ ContainerInv => HooksReachResolvers
  <2> SUFFICES ASSUME RegistryInv, ContainerInv, latest # Nothing
               PROVE  /\ Current(HookContract) = Entry("instances", composite[latest])
                      /\ added[latest] \subseteq ToSet(hooks[composite[latest]])
    BY DEF HooksReachResolvers
  <2>1. Current(HookContract) = Entry("instances", composite[latest])
    BY CurrentFacts, ContractsAssumption DEF RegistryInv, ContainerInv, LatestIsThere
  <2>2. added[latest] \subseteq ToSet(hooks[composite[latest]])
    BY DEF ContainerInv, ContainersTyped, HooksAreKept
  <2> QED BY <2>1, <2>2
<1> QED BY <1>1, ContainerInvariant, PTL

(* The extractor and the composite that are resolved are of one container, *)
(* or of two that were under construction at the same time.                *)
THEOREM PairTornOnlyByOverlap == Spec => []PairIsOneContainers
<1>1. ContainerInv => PairIsOneContainers
  BY DEF ContainerInv, OverlapIsNoted
<1> QED BY <1>1, ContainerInvariant, PTL

=============================================================================
