---------------------------- MODULE ModuleRegistry ----------------------------
(***************************************************************************)
(* ModuleRegistry: three dictionaries keyed by contract.  resolve looks    *)
(* into them one after the other and calls what it found in the last two;  *)
(* is_registered looks into them in another order.  Nothing is locked, so  *)
(* registrations of other threads come between the looks of one call.      *)
(*                                                                         *)
(* `contract in table` and `table[contract]` are one step here: no key is  *)
(* ever removed, so a contract that was seen is still there when read.     *)
(***************************************************************************)
EXTENDS Integers, FiniteSets

CONSTANTS
    Contracts,     \* the contract types
    Values,        \* what may be registered for them
    Falsy,         \* the values `implementation or contract` passes over
    Callable,      \* the values and contracts that can be called
    Offered,       \* what other code registers: pairs of a contract and a value
    Callers,       \* the threads that ask and resolve
    Nothing        \* None

VARIABLES
    instances, factories, contracts,   \* the three dictionaries
    call        \* the calls of resolve and is_registered, one at a time for each caller

registryVars == <<instances, factories, contracts, call>>

Tables == {"instances", "factories", "contracts"}
Entry(table, value) == [from |-> table, value |-> value]
Entries == [from : Tables, value : Values \cup Contracts]

ASSUME FalsyAssumption == Falsy \subseteq Values
ASSUME OfferedAssumption == Offered \subseteq Contracts \X Values
ASSUME CallableAssumption == Contracts \subseteq Callable
ASSUME NothingAssumption == Nothing \notin Entries

(* The dictionaries put together, as one resolve at this moment sees them: *)
(* an instance hides a factory, and a factory an implementation.           *)
FoundIn(i, f, c, contract) ==
    CASE contract \in DOMAIN i -> Entry("instances", i[contract])
      [] contract \in DOMAIN f \ DOMAIN i -> Entry("factories", f[contract])
      [] contract \in DOMAIN c \ (DOMAIN i \cup DOMAIN f) -> Entry("contracts", c[contract])
      [] OTHER -> Nothing

Current(contract) == FoundIn(instances, factories, contracts, contract)

Init ==
    /\ instances = <<>> /\ factories = <<>> /\ contracts = <<>>
    /\ call = [k \in Callers |->
          [stage |-> "idle", target |-> Nothing,
           found |-> Nothing,    \* what resolve found, and in which table
           known |-> {},         \* the contracts is_registered was TRUE of
           begun |-> Nothing,    \* history: what resolve would have found at its begin,
           possible |-> {},      \* ... at all moments up to now,
           crossed |-> {}]]      \* ... and the tables written for its target meanwhile

-----------------------------------------------------------------------------
Put(table, contract, value) ==
    [c \in DOMAIN table \cup {contract} |-> IF c = contract THEN value ELSE table[c]]

Ended == {"idle", "resolved", "registered", "unregistered"}
Active(k) == call[k].stage \notin Ended

(* History: a write for the target of a call that has not ended. *)
Note(table, contract) ==
    call' = [k \in Callers |->
        IF Active(k) /\ call[k].target = contract
        THEN [call[k] EXCEPT
                 !.crossed = @ \cup {table},
                 !.possible = @ \cup {FoundIn(instances', factories', contracts', contract)}]
        ELSE call[k]]

RegisterInstance(contract, value) ==
    /\ instances' = Put(instances, contract, value)
    /\ UNCHANGED <<factories, contracts>>
    /\ Note("instances", contract)

(* Slip: a factory takes the place of the instance. *)
FactoryDropsInstance(contract, factory) ==
    /\ factories' = Put(factories, contract, factory)
    /\ instances' = [c \in DOMAIN instances \ {contract} |-> instances[c]]
    /\ UNCHANGED contracts
    /\ Note("factories", contract)

RegisterFactory(contract, factory) ==
    /\ factories' = Put(factories, contract, factory)
    /\ UNCHANGED <<instances, contracts>>
    /\ Note("factories", contract)

(* Slip: an implementation that is left out is stored as None. *)
RegisterAsGiven(contract, implementation) ==
    /\ contracts' = Put(contracts, contract, implementation)
    /\ UNCHANGED <<instances, factories>>
    /\ Note("contracts", contract)

(* The contract stands for an implementation that is left out, or falsy. *)
Register(contract, implementation) ==
    /\ contracts' = Put(contracts, contract,
                        IF implementation \in Falsy \cup {Nothing} THEN contract
                                                                   ELSE implementation)
    /\ UNCHANGED <<instances, factories>>
    /\ Note("contracts", contract)

-----------------------------------------------------------------------------
BeginCall(k, contract, first) ==
    /\ ~Active(k)
    /\ call' = [call EXCEPT ![k] =
          [stage |-> first, target |-> contract, found |-> Nothing, known |-> @.known,
           begun |-> Current(contract), possible |-> {Current(contract)}, crossed |-> {}]]
    /\ UNCHANGED <<instances, factories, contracts>>

(* Slip: the instances are not looked into. *)
ResolveWithoutInstances(k, contract) == BeginCall(k, contract, "factories")

Resolve(k, contract) == BeginCall(k, contract, "instances")
IsRegistered(k, contract) == BeginCall(k, contract, "ask contracts")

(* A look of resolve into one table: the call goes on to calling what it   *)
(* found, if it is to be called, and to the next table if there is none.   *)
Look(k, name, table, made, next) ==
    /\ call[k].stage = name
    /\ LET c == call[k].target
       IN  IF c \in DOMAIN table
           THEN call' = [call EXCEPT ![k].found = Entry(name, table[c]),
                                     ![k].stage = IF made THEN "make" ELSE "resolved"]
           ELSE call' = [call EXCEPT ![k].stage = next]
    /\ UNCHANGED <<instances, factories, contracts>>

LookInstances(k) == Look(k, "instances", instances, FALSE, "factories")
LookFactories(k) == Look(k, "factories", factories, TRUE, "contracts")

(* An implementation that cannot be called is returned as it is. *)
LookContracts(k) ==
    LET c == call[k].target
    IN  Look(k, "contracts", contracts, c \in DOMAIN contracts /\ contracts[c] \in Callable, "resolved")

(* The factory or the implementation returns a new object, or raises. *)
Make(k) ==
    /\ call[k].stage = "make"
    /\ call' = [call EXCEPT ![k].stage = "resolved"]
    /\ UNCHANGED <<instances, factories, contracts>>

Ask(k, name, table, next) ==
    /\ call[k].stage = name
    /\ IF call[k].target \in DOMAIN table
       THEN call' = [call EXCEPT ![k].stage = "registered", ![k].known = @ \cup {call[k].target}]
       ELSE call' = [call EXCEPT ![k].stage = next]
    /\ UNCHANGED <<instances, factories, contracts>>

AskContracts(k) == Ask(k, "ask contracts", contracts, "ask instances")
AskInstances(k) == Ask(k, "ask instances", instances, "ask factories")
AskFactories(k) == Ask(k, "ask factories", factories, "unregistered")

(* All but the registration of instances. *)
OtherwiseNext ==
    \/ \E offer \in Offered :
          RegisterFactory(offer[1], offer[2]) \/ Register(offer[1], offer[2])
    \/ \E c \in Contracts : Register(c, Nothing)
    \/ \E k \in Callers :
          \/ \E c \in Contracts : Resolve(k, c) \/ IsRegistered(k, c)
          \/ LookInstances(k) \/ LookFactories(k) \/ LookContracts(k) \/ Make(k)
          \/ AskContracts(k) \/ AskInstances(k) \/ AskFactories(k)

RegistryNext ==
    (\E offer \in Offered : RegisterInstance(offer[1], offer[2])) \/ OtherwiseNext

RegistrySpec == Init /\ [][RegistryNext]_registryVars

-----------------------------------------------------------------------------
(* Type invariant.  A call that has found something is to make it or done. *)
RegistryTypeOK ==
    /\ \A table \in {instances, factories, contracts} :
          /\ DOMAIN table \subseteq Contracts
          /\ \A c \in DOMAIN table : table[c] \in Values \cup {c}
    /\ \A k \in Callers :
          /\ call[k].stage \in Ended \cup Tables \cup
                {"make", "ask contracts", "ask instances", "ask factories"}
          /\ call[k].target \in Contracts \cup {Nothing}
          /\ call[k].known \subseteq Contracts
          /\ call[k].crossed \subseteq Tables
          /\ {call[k].found, call[k].begun} \cup call[k].possible \subseteq Entries \cup {Nothing}
          /\ call[k].stage = "make" => call[k].found # Nothing

Resolved(k) == call[k].stage = "resolved"

(* Is a call as good as one look at one moment?  is_registered is, though  *)
(* it looks into the tables in an order of its own: FALSE is true of its   *)
(* begin, TRUE of some moment since.  resolve is not: with an instance and *)
(* then a factory registered during the call it can return the factory's   *)
(* product, which no resolve at one moment would.  But it takes writes of  *)
(* two different tables for its own contract to do so.                     *)
CallsAreOfOneMoment ==
    \A k \in Callers :
        /\ call[k].stage = "unregistered" => call[k].begun = Nothing
        /\ call[k].stage = "registered" => call[k].possible # {Nothing}
        /\ Resolved(k) => \/ call[k].found \in call[k].possible
                          \/ Cardinality(call[k].crossed) >= 2

Rank(e) ==
    IF e = Nothing THEN 4
    ELSE CASE e.from = "instances" -> 1 [] e.from = "factories" -> 2 [] OTHER -> 3

(* However registrations interleave with it, a resolve never falls back    *)
(* behind what it could have found at its begin: once an instance is       *)
(* there, no later call gets a product of a factory, and once anything is  *)
(* there, or is_registered has told this caller so, no call gets None.     *)
NeverFallsBack ==
    \A k \in Callers :
        Resolved(k) =>
            /\ Rank(call[k].found) <= Rank(call[k].begun)
            /\ call[k].target \in call[k].known => call[k].found # Nothing
=============================================================================
