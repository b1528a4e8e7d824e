---------------------------- MODULE ExceptionMapper ----------------------------
(***************************************************************************)
(* ExceptionMapper.map_exception: an exception becomes an API payload.     *)
(* Mappers registered for exception types are tried first, in the order in *)
(* which their types were first registered; then the fixed chain of        *)
(* isinstance tests of ErrorClassification decides.                        *)
(*                                                                         *)
(* The mappers live in a dict that map_exception iterates while other      *)
(* threads may register.  A dict iterator remembers the size of the dict   *)
(* and raises RuntimeError at the next element, even at the end, when a    *)
(* key was added since; replacing the value of a key goes unnoticed.       *)
(***************************************************************************)
EXTENDS ErrorClassification

CONSTANTS
    Calls,         \* calls of map_exception
    Mappers,       \* the ExceptionMapper objects
    Types,         \* the exception types mappers get registered for
    MaxRegistrations   \* bound on the calls of register_mapper

VARIABLES
    mappers,   \* mappers[o]: the types in _custom_mappers of o, in insertion order
    version,   \* version[o][t]: which registration of t the dict of o holds, 0: none
    registrations,   \* how many there were, with any mapper
    self, exc,       \* the mapper and the exception of a call
    pc, size, index,   \* size[c], index[c]: the dict iterator of c
    chosen,    \* chosen[c]: the entry whose mapper c is calling
    reply,     \* reply[c]: how map_exception ended
    payload    \* payload[c]: the payload the classification made, in a sequence

dicts == <<mappers, version, registrations>>

vars == <<dicts, self, exc, pc, size, index, chosen, reply, payload>>

ASSUME BoundAssumption == MaxRegistrations \in Nat

-----------------------------------------------------------------------------
Init ==
    /\ mappers = [o \in Mappers |-> <<>>]
    /\ version = [o \in Mappers |-> [t \in Types |-> 0]]
    /\ registrations = 0
    /\ self = [c \in Calls |-> <<>>]
    /\ exc = [c \in Calls |-> <<>>]
    /\ pc = [c \in Calls |-> "start"]
    /\ size = [c \in Calls |-> 0]
    /\ index = [c \in Calls |-> 0]
    /\ chosen = [c \in Calls |-> <<>>]
    /\ reply = [c \in Calls |-> "PENDING"]
    /\ payload = [c \in Calls |-> <<>>]

Finish(c, r) == pc' = [pc EXCEPT ![c] = "done"] /\ reply' = [reply EXCEPT ![c] = r]

(* The dict of o holds the newest registration for t, in the order given. *)
Put(o, t, order) ==
    /\ registrations < MaxRegistrations
    /\ registrations' = registrations + 1
    /\ version' = [version EXCEPT ![o][t] = registrations + 1]
    /\ mappers' = [mappers EXCEPT ![o] = order]
    /\ UNCHANGED <<self, exc, pc, size, index, chosen, reply, payload>>

(* Slip: the mappers are kept in a list, so a type can be in it twice. *)
AppendMapper(o, t) == Put(o, t, Append(mappers[o], t))

(* Slip: registering a type again moves it to the end. *)
MoveMapperToEnd(o, t) ==
    Put(o, t, Append(SelectSeq(mappers[o], LAMBDA u : u # t), t))

(* Slip: the mapper that is there for a type stays (setdefault). *)
KeepMapper(o, t) ==
    /\ registrations < MaxRegistrations
    /\ registrations' = registrations + 1
    /\ version' = [version EXCEPT ![o][t] = IF @ = 0 THEN registrations + 1 ELSE @]
    /\ mappers' = [mappers EXCEPT ![o] = IF Contains(@, t) THEN @ ELSE Append(@, t)]
    /\ UNCHANGED <<self, exc, pc, size, index, chosen, reply, payload>>

(* register_mapper: a new key goes to the end; an old one keeps its place, *)
(* with the mapper it gets now.                                            *)
RegisterMapper(o, t) ==
    Put(o, t, IF Contains(mappers[o], t) THEN mappers[o] ELSE Append(mappers[o], t))

(* map_exception of o: the iterator over the items of its dict is created. *)
Begin(c, o) ==
    /\ pc[c] = "start"
    /\ pc' = [pc EXCEPT ![c] = "scan"]
    /\ self' = [self EXCEPT ![c] = o]
    /\ \E e \in Exceptions : exc' = [exc EXCEPT ![c] = e]
    /\ size' = [size EXCEPT ![c] = Len(mappers[o])]
    /\ UNCHANGED <<dicts, index, chosen, reply, payload>>

(* The iterator notices that the dict has grown. *)
DictChanged(c) ==
    /\ pc[c] = "scan"
    /\ Len(mappers[self[c]]) # size[c]
    /\ Finish(c, "RUNTIME_ERROR")
    /\ UNCHANGED <<dicts, self, exc, size, index, chosen, payload>>

(* Slip: the walk stays at an entry that does not match. *)
SameEntry(c) ==
    /\ pc[c] = "scan"
    /\ Len(mappers[self[c]]) = size[c]
    /\ index[c] < size[c]
    /\ LET t == mappers[self[c]][index[c] + 1]
       IN  IsA(exc[c], t) /\ chosen' = [chosen EXCEPT ![c] = <<t, version[self[c]][t]>>]
    /\ pc' = [pc EXCEPT ![c] = "calling"]
    /\ UNCHANGED <<dicts, self, exc, size, index, reply, payload>>

(* The next entry: its mapper is called if the exception is of its type. *)
NextEntry(c) ==
    /\ pc[c] = "scan"
    /\ Len(mappers[self[c]]) = size[c]
    /\ index[c] < size[c]
    /\ LET t == mappers[self[c]][index[c] + 1]
       IN  IF IsA(exc[c], t)
           THEN /\ chosen' = [chosen EXCEPT ![c] = <<t, version[self[c]][t]>>]
                /\ pc' = [pc EXCEPT ![c] = "calling"]
           ELSE UNCHANGED <<chosen, pc>>
    /\ index' = [index EXCEPT ![c] = @ + 1]
    /\ UNCHANGED <<dicts, self, exc, size, reply, payload>>

(* The custom mapper returns its payload, or raises through map_exception. *)
MapperEnds(c) ==
    /\ pc[c] = "calling"
    /\ \E r \in {"CUSTOM", "MAPPER_ERROR"} : Finish(c, r)
    /\ UNCHANGED <<dicts, self, exc, size, index, chosen, payload>>

(* No registered type matched. *)
Classify(c) ==
    /\ pc[c] = "scan"
    /\ Len(mappers[self[c]]) = size[c]
    /\ index[c] = size[c]
    /\ payload' = [payload EXCEPT ![c] = <<Fallback(exc[c])>>]
    /\ Finish(c, "PAYLOAD")
    /\ UNCHANGED <<dicts, self, exc, size, index, chosen>>

Walk(c) == DictChanged(c) \/ NextEntry(c) \/ MapperEnds(c) \/ Classify(c)

Next ==
    \/ \E o \in Mappers, t \in Types : RegisterMapper(o, t)
    \/ \E c \in Calls : (\E o \in Mappers : Begin(c, o)) \/ Walk(c)

Spec == Init /\ [][Next]_vars

-----------------------------------------------------------------------------
Statuses == {400, 401, 403, 404, 409, 422, 500}

(* Type invariant: the dicts of mappers, and the calls with their payloads. *)
TypeOK ==
    /\ registrations \in 0..MaxRegistrations
    /\ version \in [Mappers -> [Types -> 0..registrations]]
    /\ \A o \in Mappers :
          /\ mappers[o] \in Seq(Types) /\ IsInjective(mappers[o])
          /\ \A t \in Types : version[o][t] > 0 <=> Contains(mappers[o], t)
    /\ pc \in [Calls -> {"start", "scan", "calling", "done"}]
    /\ reply \in [Calls -> {"PENDING", "CUSTOM", "MAPPER_ERROR", "RUNTIME_ERROR", "PAYLOAD"}]
    /\ \A c \in Calls :
          /\ pc[c] # "start" =>
                /\ self[c] \in Mappers /\ exc[c] \in Exceptions
                /\ index[c] \in 0..size[c] /\ size[c] \in 0..Len(mappers[self[c]])
          /\ chosen[c] = <<>> \/ chosen[c] \in Types \X (1..registrations)
          /\ IF reply[c] = "PAYLOAD" THEN payload[c][1].status \in Statuses
             ELSE payload[c] = <<>>

(* The registration that was first made for a matching type decides, also  *)
(* when types were registered, or mappers replaced, while the call walked  *)
(* the dict; and the fixed classification is reached only when none of     *)
(* the types registered before the call began matches.                     *)
FirstMatchDecides ==
    \A c \in Calls :
        LET types == mappers[self[c]]
        IN  /\ chosen[c] # <<>> =>
                  \E i \in 1..size[c] : /\ types[i] = chosen[c][1]
                                        /\ IsA(exc[c], types[i])
                                        /\ \A j \in 1..(i - 1) : ~IsA(exc[c], types[j])
            /\ reply[c] = "PAYLOAD" => \A i \in 1..size[c] : ~IsA(exc[c], types[i])

(* The classification the class hierarchy calls for: the branch for the    *)
(* most specific class, whatever the order in which branches are tested.   *)
Reference(e) ==
    LET branches == ToSet(DomainBranches) \cup ToSet(StandardBranches)
        ruled == {k \in Ancestors[e.class] : \E b \in branches : k \in b.classes}
        nearest == CHOOSE k \in ruled : \A l \in ruled : l \in Ancestors[k]
        branch == CHOOSE b \in branches : nearest \in b.classes
    IN  IF ruled # {} THEN branch
        ELSE IF IsA(e, "DomainError") THEN ByCode(e) ELSE Unexpected

(* No isinstance test is shadowed by one for a more general class before   *)
(* it: every payload has the status, code and text of the most specific    *)
(* class of its exception, or is that of the API error, and it carries a   *)
(* correlation id if there is one.                                         *)
MostSpecificBranch ==
    \A c \in Calls :
        reply[c] = "PAYLOAD" =>
            LET e == exc[c]
                p == payload[c][1]
            IN  /\ p.id = "none" <=> ~e.id /\ ~e.own
                /\ IF IsA(e, "ApiError") THEN p.text = "message" /\ (e.code = "own" => p.code = "own")
                   ELSE <<p.status, p.code, p.text>> =
                            <<Reference(e).status, Reference(e).code, Reference(e).text>>

(* A call of map_exception ends, although types keep being registered. *)
CallsEnd == \A c \in Calls : pc[c] = "scan" ~> pc[c] = "done"

(* What map_exception documents: "Returns: Safe ApiErrorPayload suitable   *)
(* for API response".  No exception of its own escapes to the API.         *)
MappingNeverFails == \A c \in Calls : reply[c] # "RUNTIME_ERROR"
==============================================================================
