----------------------------- MODULE LazyRegistry -----------------------------
(***************************************************************************)
(* The two registries of shared objects that are filled on demand, without *)
(* a lock: get_logger for one name of _loggers, and get_exception_mapper   *)
(* for _default_mapper.  Each looks the entry up, creates and stores the   *)
(* object if there was none, and reads the entry once more to return it.   *)
(* Threads come between these steps.  What the callers do to the object    *)
(* they got is in DefaultMapper.                                           *)
(***************************************************************************)
EXTENDS FiniteSets

CONSTANTS
    Callers,   \* the calls of get_logger or get_exception_mapper
    NoObject       \* there is no entry

VARIABLES
    entry,     \* the object in the registry: it is named after the call that made it
    at,        \* where a call stands
    got,       \* the object a call returned
    settled    \* history: the calls that returned when no other was still to store

entryVars == <<entry, at, got, settled>>

ASSUME NoObjectAssumption == NoObject \notin Callers

RegistryInit ==
    /\ entry = NoObject
    /\ at = [c \in Callers |-> "start"]
    /\ got = [c \in Callers |-> NoObject]
    /\ settled = {}

-----------------------------------------------------------------------------
(* The entry is there, and nobody who found it missing is still to store. *)
Settled == entry # NoObject /\ \A c \in Callers : at[c] # "create"

(* Slip: the test is the wrong way round. *)
LookupInverted(c) ==
    /\ at[c] = "start"
    /\ at' = [at EXCEPT ![c] = IF entry = NoObject THEN "read" ELSE "create"]
    /\ UNCHANGED <<entry, got, settled>>

(* Slip: every call makes an object. *)
AlwaysCreate(c) ==
    /\ at[c] = "start"
    /\ at' = [at EXCEPT ![c] = "create"]
    /\ UNCHANGED <<entry, got, settled>>

Lookup(c) ==
    /\ at[c] = "start"
    /\ at' = [at EXCEPT ![c] = IF entry = NoObject THEN "create" ELSE "read"]
    /\ UNCHANGED <<entry, got, settled>>

(* The object is made and takes the place of whatever is there by now. *)
Store(c) ==
    /\ at[c] = "create"
    /\ entry' = c
    /\ at' = [at EXCEPT ![c] = "read"]
    /\ UNCHANGED <<got, settled>>

Read(c) ==
    /\ at[c] = "read"
    /\ got' = [got EXCEPT ![c] = entry]
    /\ at' = [at EXCEPT ![c] = "done"]
    /\ settled' = IF Settled THEN settled \cup {c} ELSE settled
    /\ UNCHANGED entry

GetObject(c) == Lookup(c) \/ Store(c) \/ Read(c)

RegistryNext == \E c \in Callers : GetObject(c)

RegistrySpec == RegistryInit /\ [][RegistryNext]_entryVars

-----------------------------------------------------------------------------
(* Type invariant: a call that has returned has an object, and a call that *)
(* is about to read finds an entry.                                        *)
RegistryTypeOK ==
    /\ entry \in Callers \cup {NoObject}
    /\ at \in [Callers -> {"start", "create", "read", "done"}]
    /\ got \in [Callers -> Callers \cup {NoObject}]
    /\ \A c \in Callers : at[c] = "done" <=> got[c] # NoObject
    /\ \A c \in Callers : at[c] # "start" => entry # NoObject \/ at[c] = "create"
    /\ settled \subseteq Callers

(* The race has an end: once an object is stored and no caller that found  *)
(* none is still to store, no later call reopens the race, whatever other  *)
(* calls do, and the object is never replaced again.                       *)
SettledIsFinal == [][Settled => Settled' /\ entry' = entry]_entryVars

(* What the comment on _default_mapper says ("Default singleton instance") *)
(* and the docstring of get_logger assumes ("Only used on first            *)
(* creation"): there is one object, and every call returns it.             *)
OneObject ==
    \A c, d \in Callers : got[c] # NoObject /\ got[d] # NoObject => got[c] = got[d]
==============================================================================
