--------------------------- MODULE ContextExtraction ---------------------------
(***************************************************************************)
(* The life of one request up to its operation: HttpContextExtractor turns *)
(* the headers into a RequestContext, the guards of the operation inspect  *)
(* the context, and what is raised on the way is mapped to an API payload. *)
(*                                                                         *)
(* A header is absent, empty, malformed or one of a few values.  "A1",     *)
(* "T1", "USER" and "c1 " are other spellings of a1, t1, user and c1.  A   *)
(* malformed value is a non-empty one that the parser of its header        *)
(* refuses.                                                                *)
(***************************************************************************)
EXTENDS ErrorClassification

CONSTANTS
    OtherTenants,   \* the tenants the code switches contexts to
    MaxGuards       \* bound on the guards of an operation

VARIABLES
    extractor,   \* the flags of the extractor
    request,     \* the headers, and how they are handed over
    operation,   \* the guards of the operation, and what it reads
    stage,       \* where the request stands
    passed,      \* how many guards it has passed
    context,     \* its context, in a sequence that is empty before there is one
    switched,    \* the tenant with_tenant was last called with, in a set
    error,       \* the class of the exception that was raised, or NoError
    payload      \* the API payload, in a sequence

vars == <<extractor, request, operation, stage, passed, context, switched, error, payload>>
inputs == <<extractor, request, operation>>

NoError == "NoError"
NoTenant == "NoTenant"
Generated == "Generated"

ASSUME TenantsAssumption == NoTenant \notin OtherTenants
ASSUME GuardsAssumption == MaxGuards \in Nat

Extractors == [requireTenant : BOOLEAN, requireActor : BOOLEAN]

(* shape: an object with headers, one without, or a call of create_system, *)
(* which is given a correlation id and a tenant only.                      *)
Requests ==
    {q \in [shape : {"headers", "unsupported", "internal"},
            correlation : {"absent", "empty", "malformed", "c1", "c1 "},
            actor : {"absent", "empty", "malformed", "a1", "A1"},
            type : {"absent", "empty", "malformed", "USER", "anonymous"},
            tenant : {"absent", "empty", "malformed", "t1", "T1"}] :
        /\ q.shape # "headers" => q.actor = "absent" /\ q.type = "absent"
        /\ q.shape = "unsupported" => q.correlation = "absent" /\ q.tenant = "absent"}

(* tenant_required and actor_required, outermost first; whether the        *)
(* context is passed where they look for it, first or as a keyword; and    *)
(* whether the operation reads context.tenant_id.                          *)
Operations ==
    {o \in [guards : BoundedSeq({"tenant", "actor"}, MaxGuards),
            passing : {"found", "elsewhere"},
            scoped : BOOLEAN] :
        o.guards = <<>> => o.passing = "found"}

(* "authorized", "validated", "handled" and "escaped": see RequestPipeline. *)
Stages == {"arrived", "ready", "guarded", "authorized", "validated", "ran",
           "failed", "handled", "replied", "escaped"}

(* What may be raised after the guards, by hooks, validators, log output   *)
(* or operation.                                                           *)
RaisedLater == {"AuthorizationApiError", "ValidationApiError", "RuntimeError", "ValueError"}

(* `not value` *)
Missing(value) == value \in {"absent", "empty"}

(* strip and lower; a correlation id is stripped only. *)
Normal(value) ==
    CASE value = "A1" -> "a1" [] value = "T1" -> "t1" [] value = "USER" -> "user"
      [] value = "c1 " -> "c1" [] OTHER -> value

Check(fails, class) == [fails |-> fails, error |-> class]

(* Slip: a request without a correlation id is refused. *)
StrictBadCorrelation == Check(request.correlation \notin {"c1", "c1 "}, "InvalidCorrelationIdError")

(* The constructors of the identifiers; only an absent one is left out. *)
BadCorrelation == Check(request.correlation \in {"empty", "malformed"}, "InvalidCorrelationIdError")
BadActor == Check(request.actor = "malformed", "InvalidActorError")
BadTenant == Check(request.tenant \in {"empty", "malformed"}, "InvalidTenantError")

(* create, not create_anonymous, is called: it looks at actor and tenant. *)
IfIdentified(check) == [check EXCEPT !.fails = @ /\ ~Missing(request.actor)]

(* Slip: the ValidationError about the actor type is not wrapped. *)
UnwrappedHeaderChecks ==
    << Check(request.shape = "unsupported", "ContextExtractionError"),
       Check(extractor.requireActor /\ Missing(request.actor), "InvalidActorError"),
       Check(request.type = "malformed", "ValidationError"),
       Check(extractor.requireTenant /\ Missing(request.tenant), "InvalidTenantError"),
       BadCorrelation, IfIdentified(BadActor), IfIdentified(BadTenant) >>

(* What extract_context refuses, in the order in which it finds out.  A    *)
(* ValidationError and all unexpected ones become ContextExtractionErrors. *)
HeaderChecks ==
    << Check(request.shape = "unsupported", "ContextExtractionError"),
       Check(extractor.requireActor /\ Missing(request.actor), "InvalidActorError"),
       Check(request.type = "malformed", "ContextExtractionError"),
       Check(extractor.requireTenant /\ Missing(request.tenant), "InvalidTenantError"),
       BadCorrelation, IfIdentified(BadActor), IfIdentified(BadTenant) >>

Checks == IF request.shape = "internal" THEN <<BadCorrelation, BadTenant>> ELSE HeaderChecks

Failing == {i \in DOMAIN Checks : Checks[i].fails}

Context(actor, type, tenant) ==
    [correlation |-> IF request.correlation = "absent" THEN Generated ELSE Normal(request.correlation),
     actor |-> actor, type |-> type, tenant |-> tenant]

(* Slip: the tenant header is taken as it is spelled. *)
RawTenantOf(value) == IF value = "absent" THEN NoTenant ELSE value

TenantOf(value) == IF value = "absent" THEN NoTenant ELSE Normal(value)

(* Slip: an anonymous context keeps the tenant of the request. *)
AnonymousInTenant ==
    Context("anonymous", "anonymous",
            IF request.tenant \in {"t1", "T1"} THEN TenantOf(request.tenant) ELSE NoTenant)

Anonymous == Context("anonymous", "anonymous", NoTenant)

-----------------------------------------------------------------------------
Init ==
    /\ extractor \in Extractors
    /\ request \in Requests
    /\ operation \in Operations
    /\ stage = "arrived"
    /\ passed = 0
    /\ context = <<>>
    /\ switched = {}
    /\ error = NoError
    /\ payload = <<>>

Raise(class) == stage' = "failed" /\ error' = class

(* extract_context, or create_system, raises. *)
Refuse ==
    /\ stage = "arrived"
    /\ \E i \in Failing : (\A j \in Failing : i <= j) /\ Raise(Checks[i].error)
    /\ UNCHANGED <<inputs, passed, context, switched, payload>>

Admit(c) ==
    /\ stage = "arrived"
    /\ Failing = {}
    /\ context' = <<c>>
    /\ stage' = "ready"
    /\ UNCHANGED <<inputs, passed, switched, error, payload>>

ExtractActor ==
    /\ request.shape = "headers" /\ ~Missing(request.actor)
    /\ Admit(Context(Normal(request.actor),
                     IF Missing(request.type) THEN "user" ELSE Normal(request.type),
                     TenantOf(request.tenant)))

ExtractAnonymous ==
    /\ request.shape = "headers" /\ Missing(request.actor)
    /\ Admit(Anonymous)

CreateSystem ==
    /\ request.shape = "internal"
    /\ Admit(Context("system", "system", TenantOf(request.tenant)))

(* with_tenant makes a new context, as often as it is called. *)
WithTenant(t) ==
    /\ stage = "ready"
    /\ context' = <<[context[1] EXCEPT !.tenant = t]>>
    /\ switched' = {t}
    /\ UNCHANGED <<inputs, stage, passed, error, payload>>

(* The decorated operation is called: its wrappers look for the context in *)
(* the first argument, then in the keyword of that name.                   *)
Call ==
    /\ stage = "ready"
    /\ IF operation.passing = "elsewhere"
       THEN Raise("ContextError")
       ELSE stage' = "guarded" /\ UNCHANGED error
    /\ UNCHANGED <<inputs, passed, context, switched, payload>>

GuardFails(guard) ==
    IF guard = "tenant" THEN context[1].tenant = NoTenant ELSE context[1].type = "anonymous"

(* Slip: the wrapper calls itself, not the function it wraps. *)
PassGuardAgain ==
    /\ stage = "guarded"
    /\ passed < Len(operation.guards)
    /\ ~GuardFails(operation.guards[passed + 1])
    /\ UNCHANGED <<inputs, stage, passed, context, switched, error, payload>>

PassGuard ==
    /\ stage = "guarded"
    /\ passed < Len(operation.guards)
    /\ ~GuardFails(operation.guards[passed + 1])
    /\ passed' = passed + 1
    /\ UNCHANGED <<inputs, stage, context, switched, error, payload>>

FailGuard ==
    /\ stage = "guarded"
    /\ passed < Len(operation.guards)
    /\ LET guard == operation.guards[passed + 1]
       IN  /\ GuardFails(guard)
           /\ Raise(IF guard = "tenant" THEN "TenantRequiredError" ELSE "ActorRequiredError")
    /\ UNCHANGED <<inputs, passed, context, switched, payload>>

Guarded == stage = "guarded" /\ passed = Len(operation.guards)

(* The operation; reading context.tenant_id raises if there is no tenant. *)
Perform ==
    /\ IF operation.scoped /\ context[1].tenant = NoTenant
       THEN Raise("TenantRequiredError")
       ELSE stage' = "ran" /\ UNCHANGED error
    /\ UNCHANGED <<inputs, passed, context, switched, payload>>

Run == Guarded /\ Perform

(* map_exception, with the id of the context if there is one; the errors   *)
(* about authorization and validation bring that id themselves, and the    *)
(* first its code.                                                         *)
ReplyTo ==
    /\ payload' = <<Fallback([class |-> error,
                              code |-> IF error = "AuthorizationApiError" THEN "own" ELSE "default",
                              own |-> error \in {"AuthorizationApiError", "ValidationApiError"},
                              id |-> context # <<>>])>>
    /\ stage' = "replied"
    /\ UNCHANGED <<inputs, passed, context, switched, error>>

Reply == stage = "failed" /\ ReplyTo

Next ==
    \/ Refuse \/ ExtractActor \/ ExtractAnonymous \/ CreateSystem
    \/ Call \/ PassGuard \/ FailGuard \/ Run \/ Reply
    \/ \E t \in OtherTenants : WithTenant(t)

Spec == Init /\ [][Next]_vars

-----------------------------------------------------------------------------
(* Type invariant: a context holds normalised values only.  There is a     *)
(* context from the admission on, and an error from the failure on.        *)
TypeOK ==
    /\ extractor \in Extractors /\ request \in Requests /\ operation \in Operations
    /\ stage \in Stages
    /\ passed \in 0..Len(operation.guards)
    /\ stage \in {"ready", "guarded", "authorized", "validated", "ran"} => context # <<>>
    /\ \/ context = <<>>
       \/ /\ Len(context) = 1
          /\ context[1] \in [correlation : {"c1", Generated},
                             actor : {"a1", "anonymous", "system"},
                             type : {"user", "anonymous", "system"},
                             tenant : {"t1", NoTenant} \cup OtherTenants]
    /\ switched = {} \/ \E t \in OtherTenants : switched = {t}
    /\ error \in Classes \cup {NoError}
    /\ error # NoError <=> stage \in {"failed", "handled", "replied", "escaped"}
    /\ payload # <<>> <=> stage = "replied"

(* What a request must look like to be given a context: each header is     *)
(* well formed or left out, and those the extractor requires are there;    *)
(* the tenant header of an anonymous request is not looked into.           *)
Acceptable ==
    LET q == request
        identified == q.shape = "internal" \/ q.actor \in {"a1", "A1"}
    IN  /\ q.correlation \in {"absent", "c1", "c1 "}
        /\ ~identified => q.actor # "malformed" /\ ~extractor.requireActor
        /\ identified => q.tenant \notin {"empty", "malformed"}
        /\ q.shape # "internal" =>
              /\ q.shape # "unsupported" /\ q.type # "malformed"
              /\ extractor.requireTenant => q.tenant \notin {"absent", "empty"}

(* The extractor admits all acceptable requests and no others, whatever    *)
(* combination of defects a request has.                                   *)
AdmitsTheAcceptable == stage # "arrived" => (context # <<>> <=> Acceptable)

(* An operation that reads its tenant runs in the one that was switched to *)
(* last or, without a switch, in the one the request named, on behalf of   *)
(* the actor it named; and none of its guards is false of the context it   *)
(* runs with.                                                              *)
RunsInNamedScope ==
    stage = "ran" =>
        LET c == context[1]
        IN  /\ operation.scoped =>
                  IF switched # {} THEN switched = {c.tenant}
                  ELSE /\ c.tenant = Normal(request.tenant)
                       /\ request.shape = "headers" => c.actor = Normal(request.actor)
            /\ \A i \in DOMAIN operation.guards : ~GuardFails(operation.guards[i])

(* A request that is refused before it reaches the hooks, the validators   *)
(* or the operation is told the truth: an error about the actor, the      *)
(* tenant or the correlation id is the reply only when that part of the    *)
(* request, or of its context, is at fault; no refusal is an internal      *)
(* error; and the correlation id is in the reply once a context has it.    *)
BlameIsRight ==
    payload # <<>> /\ error \notin RaisedLater =>
        LET p == payload[1]
            q == request
            admitted == context # <<>>
        IN  /\ p.status \in {400, 401, 403, 422}
            /\ p.status = 401 => IF admitted THEN context[1].type = "anonymous"
                                 ELSE q.actor \notin {"a1", "A1"}
            /\ p.status = 403 => IF admitted THEN context[1].tenant = NoTenant
                                 ELSE q.tenant \notin {"t1", "T1"}
            /\ p.status = 422 => ~admitted /\ q.correlation \in {"empty", "malformed"}
            /\ p.status = 400 => \/ q.shape = "unsupported" \/ q.type = "malformed"
                                 \/ operation.passing = "elsewhere"
            /\ p.id = "given" <=> admitted

(* What the constructor documents: "require_tenant: Whether to require     *)
(* tenant context".  Under that flag a request that is admitted has one.   *)
TenantIsRequired ==
    stage = "ready" /\ request.shape = "headers" /\ extractor.requireTenant =>
        context[1].tenant # NoTenant
==============================================================================
