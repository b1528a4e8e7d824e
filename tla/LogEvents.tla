------------------------------ MODULE LogEvents ------------------------------
(***************************************************************************)
(* Structured logging: threads fill in the builders of events, step by     *)
(* step or through log_operation and log_error, build the events and write *)
(* them.  What they attach is an object that other code goes on changing:  *)
(* a builder holds extra data by reference until it builds an event, but   *)
(* the redacted content of an exception from the moment it was given it.   *)
(***************************************************************************)
EXTENDS Redaction, SequencesExt

CONSTANTS
    Threads,
    Contexts,       \* request contexts: [id |-> ..., tenant |-> ...]
    NoTenant, None,
    MaxLinks,       \* bound on the depth of the attached object
    Changes         \* what the object may be changed into

VARIABLES
    object,     \* the attached object: one path of it
    stage,      \* what a thread is about: a builder of its own, or a call
    builder,    \* the builder a thread fills in
    event       \* the event it has built and hands to the output

vars == <<object, stage, builder, event>>

Paths == PathsUpTo(MaxLinks)

ASSUME MaxLinksAssumption == MaxLinks \in Nat
ASSUME NoneAssumption ==
    /\ None \notin DictLinks /\ None \notin Contexts
    /\ None \notin Seq(Links \cup Leaves \cup {"cleaned", "redacted"})
ASSUME ContextsAssumption == \A c \in Contexts : DOMAIN c = {"id", "tenant"}
ASSUME ChangesAssumption == Changes \subseteq Paths

(* given and raised are history: the contexts the builder was given since  *)
(* it was made, and the exception as it was when it was passed.            *)
Fresh == [id |-> None, tenant |-> NoTenant, extra |-> {}, exception |-> None,
          given |-> <<>>, raised |-> None]

NoEvent == [id |-> None, tenant |-> NoTenant, extra |-> {},
            given |-> <<>>, source |-> {}]

Init ==
    /\ object \in Paths
    /\ stage = [t \in Threads |-> "idle"]
    /\ builder = [t \in Threads |-> Fresh]
    /\ event = [t \in Threads |-> NoEvent]

-----------------------------------------------------------------------------
(* Slip: the tenant is kept once there is one. *)
InFirstTenant(b, c) ==
    [b EXCEPT !.id = c.id, !.tenant = IF @ = NoTenant THEN c.tenant ELSE @,
              !.given = Append(@, c)]

(* with_context: a context without tenant leaves the one that is there. *)
InContext(b, c) ==
    [b EXCEPT !.id = c.id, !.tenant = IF c.tenant = NoTenant THEN @ ELSE c.tenant,
              !.given = Append(@, c)]

(* extra(name=object, ...), under names that are sensitive or not.  Names  *)
(* add up; "exception" is the one that exception(exc) stores under.        *)
Names == DictLinks \cup {"exception"}

WithExtra(b, names) ==
    [b EXCEPT !.extra = @ \cup names,
              !.exception = IF "exception" \in names THEN None ELSE @,
              !.raised = IF "exception" \in names THEN None ELSE @]

(* The name as a key of the dict: "exception" is an ordinary one. *)
LinkOf(name) == IF name = "sensitive" THEN name ELSE "key"

(* The object as an exception: its message, or the dict of its details. *)
AsException ==
    IF object[1] \in DictLinks THEN <<"details">> \o object
    ELSE IF Len(object) = 1 /\ object[1] # "opaque" THEN <<"message">> \o object
    ELSE object

IsException(p) == p[1] \in {"message", "details"}

(* exception(exc): redacted at once. *)
WithException(b) ==
    [b EXCEPT !.exception = Redact(AsException, 0), !.raised = AsException,
              !.extra = @ \ {"exception"}]

(* build: all extra data are redacted, the exception once more. *)
Extra(b) ==
    {<<LinkOf(name)>> \o object : name \in b.extra}
    \cup (IF b.exception = None THEN {} ELSE {<<"key">> \o b.exception})

Source(b) ==
    {<<LinkOf(name)>> \o object : name \in b.extra}
    \cup (IF b.raised = None THEN {} ELSE {<<"key">> \o b.raised})

Built(b) ==
    [id |-> b.id, tenant |-> b.tenant,
     extra |-> {RedactForLogging(p) : p \in Extra(b)},
     given |-> b.given, source |-> Source(b)]

-----------------------------------------------------------------------------
Fill(t, b, next) ==
    /\ builder' = [builder EXCEPT ![t] = b]
    /\ stage' = [stage EXCEPT ![t] = next]
    /\ UNCHANGED <<object, event>>

(* event(), and the fluent interface of what it returns. *)
NewEvent(t) == stage[t] = "idle" /\ Fill(t, Fresh, "filling")

FillIn(t) ==
    /\ stage[t] = "filling"
    /\ \/ \E c \in Contexts : Len(builder[t].given) < 2 /\ Fill(t, InContext(builder[t], c), "filling")
       \/ \E name \in Names : Fill(t, WithExtra(builder[t], {name}), "filling")
       \/ IsException(AsException) /\ Fill(t, WithException(builder[t]), "filling")

(* log_operation and log_error make a builder and build one event of it;   *)
(* all they do before that concerns this builder only.                     *)
LogOperation(t, c, names) ==
    /\ stage[t] = "idle"
    /\ Fill(t, WithExtra(InContext(Fresh, c), names), "calling")

(* Its exception is a parameter of its own, so no name of extra hides it. *)
LogError(t, c, names) ==
    /\ stage[t] = "idle"
    /\ LET b == WithExtra(IF c = None THEN Fresh ELSE InContext(Fresh, c), names)
       IN  \/ Fill(t, b, "calling")
           \/ IsException(AsException) /\ Fill(t, WithException(b), "calling")

Build(t) ==
    /\ stage[t] \in {"filling", "calling"}
    /\ event' = [event EXCEPT ![t] = Built(builder[t])]
    /\ stage' = [stage EXCEPT ![t] = IF @ = "filling" THEN "built" ELSE "logging"]
    /\ UNCHANGED <<object, builder>>

(* output.write returns or raises.  A builder can be used again after it. *)
Write(t) ==
    /\ stage[t] \in {"built", "logging"}
    /\ event' = [event EXCEPT ![t] = NoEvent]
    /\ IF stage[t] = "built"
       THEN stage' = [stage EXCEPT ![t] = "filling"] /\ UNCHANGED builder
       ELSE stage' = [stage EXCEPT ![t] = "idle"] /\ builder' = [builder EXCEPT ![t] = Fresh]
    /\ UNCHANGED object

(* The thread is done with its builder. *)
Discard(t) == stage[t] = "filling" /\ Fill(t, Fresh, "idle")

(* Other code changes the object. *)
Change ==
    /\ object' \in Changes
    /\ UNCHANGED <<stage, builder, event>>

Next ==
    \/ Change
    \/ \E t \in Threads :
          \/ NewEvent(t) \/ FillIn(t) \/ Discard(t)
          \/ \E c \in Contexts, names \in SUBSET Names : LogOperation(t, c, names)
          \/ \E c \in Contexts \cup {None}, names \in SUBSET DictLinks : LogError(t, c, names)
          \/ Build(t) \/ Write(t)

Spec == Init /\ [][Next]_vars
-----------------------------------------------------------------------------
Outcomes == Links \cup {"plain", "cleaned", "redacted", "opaque"}

(* Type invariant: an event is there from its build to its write. *)
TypeOK ==
    /\ object \in Paths
    /\ stage \in [Threads -> {"idle", "filling", "calling", "built", "logging"}]
    /\ \A t \in Threads :
          LET b == builder[t]  e == event[t]
          IN  /\ b.extra \subseteq Names
              /\ "exception" \in b.extra => b.exception = None
              /\ b.exception = None <=> b.raised = None
              /\ {b.given, e.given} \subseteq Seq(Contexts)
              /\ \A p \in e.extra : p \in Seq(Outcomes)
              /\ e # NoEvent => stage[t] \in {"built", "logging"}

(* What an event says about the values attached to it is safe: no string   *)
(* with sensitive content is left, and nothing of what a sensitive key     *)
(* leads to, wherever in dicts, lists and exceptions it lies, through      *)
(* however many passes it came and whatever became of the object since.    *)
NothingSensitiveLogged ==
    \A t \in Threads : \A p \in event[t].extra :
        /\ "secret" \notin ToSet(p)
        /\ \A i \in DOMAIN p : p[i] = "sensitive" => SubSeq(p, i + 1, Len(p)) = <<"redacted">>

Kept(p) ==
    [i \in DOMAIN p |-> CASE p[i] \in {"message", "details"} -> "key"
                          [] p[i] = "secret" -> "cleaned"
                          [] OTHER -> p[i]]

(* And no more than that is taken away: what lies no more than max_depth   *)
(* levels deep and behind no sensitive key is in the event, with the       *)
(* structure it has: extra data as they were when the event was built, an  *)
(* exception as it was when it was passed, though it is redacted twice.    *)
RedactedNoMore ==
    \A t \in Threads : \A p \in event[t].source :
        Len(p) - 1 <= MaxDepth /\ "sensitive" \notin ToSet(p) => Kept(p) \in event[t].extra

(* Whom an event is about: the context given last, whose tenant, if it has *)
(* one, is the event's.  No event has the tenant of another builder's      *)
(* contexts or of an event before; those of log_operation and log_error    *)
(* have the tenant of the one context these were called with, or none.     *)
EventOfItsContext ==
    \A t \in Threads :
        LET e == event[t]
            tenant == IF e.given = <<>> THEN NoTenant ELSE Last(e.given).tenant
        IN  /\ e.id = IF e.given = <<>> THEN None ELSE Last(e.given).id
            /\ tenant # NoTenant => e.tenant = tenant
            /\ e.tenant # NoTenant => \E i \in DOMAIN e.given : e.given[i].tenant = e.tenant
            /\ stage[t] = "logging" => e.tenant = tenant

(* What with_context says it does, "Set correlation, actor, and tenant     *)
(* from request context": the tenant is that of the context given last.    *)
TenantOfLastContext ==
    \A t \in Threads :
        event[t].given # <<>> => event[t].tenant = Last(event[t].given).tenant
=============================================================================
