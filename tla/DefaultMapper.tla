----------------------------- MODULE DefaultMapper -----------------------------
(***************************************************************************)
(* The default exception mapper: each caller gets it from                  *)
(* get_exception_mapper (LazyRegistry), keeps it, registers custom mappers *)
(* with it and maps one exception by it, as map_exception_to_response and  *)
(* the ValidationAdapter do (ExceptionMapper).  Callers whose first calls  *)
(* race may get different objects; of those left behind, what was          *)
(* registered with them is lost to everybody else.                         *)
(***************************************************************************)
EXTENDS ExceptionMapper, LazyRegistry

VARIABLES
    made,      \* history: made[t]: the last registration of t by a settled caller
    promised   \* history: promised[c]: made, when c began to map

history == <<made, promised>>

defaultVars == <<vars, entryVars, history>>

(* A mapper object is named after the call that made it; some callers map. *)
ASSUME CallersAssumption == Mappers = Callers /\ Calls \subseteq Callers

DefaultInit ==
    /\ Init /\ RegistryInit
    /\ made = [t \in Types |-> 0]
    /\ promised = [c \in Calls |-> made]

-----------------------------------------------------------------------------
GetMapper(c) == GetObject(c) /\ UNCHANGED <<vars, history>>

(* get_exception_mapper().register_mapper, or later on the object kept. *)
Register(c, t) ==
    /\ at[c] = "done"
    /\ RegisterMapper(got[c], t)
    /\ made' = IF c \in settled THEN [made EXCEPT ![t] = registrations'] ELSE made
    /\ UNCHANGED <<entryVars, promised>>

BeginMapping(c) ==
    /\ at[c] = "done"
    /\ Begin(c, got[c])
    /\ promised' = [promised EXCEPT ![c] = made]
    /\ UNCHANGED <<entryVars, made>>

WalkOn(c) == Walk(c) /\ UNCHANGED <<entryVars, history>>

DefaultNext ==
    \/ \E c \in Callers : GetMapper(c) \/ \E t \in Types : Register(c, t)
    \/ \E c \in Calls : BeginMapping(c) \/ WalkOn(c)

DefaultSpec == DefaultInit /\ [][DefaultNext]_defaultVars

(* A thread inside map_exception is scheduled, and custom mappers end. *)
FairDefaultSpec == DefaultSpec /\ \A c \in Calls : WF_defaultVars(WalkOn(c))

-----------------------------------------------------------------------------
(* The callers that get_exception_mapper returned to when nobody was still *)
(* to store a mapper work with one object, so none misses what another has *)
(* registered: a mapper for a type is called, or takes precedence over the *)
(* classification, and it is that mapper or one registered after it.  Thus *)
(* a registration is lost only to a caller, or by a caller, that raced for *)
(* the first call.                                                         *)
NothingLostOnceSettled ==
    \A c \in Calls \cap settled :
        /\ chosen[c] # <<>> => chosen[c][2] >= promised[c][chosen[c][1]]
        /\ reply[c] = "PAYLOAD" =>
              \A t \in Types : promised[c][t] > 0 => ~IsA(exc[c], t)
==============================================================================
