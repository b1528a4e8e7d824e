------------------------ MODULE RequestPipeline_proofs ------------------------
(***************************************************************************)
(* Theorems about a request on its way through all components, in either   *)
(* mode of the mapper, for any tenants the code switches to, any number of *)
(* switches and any stack of guards.                                       *)
(***************************************************************************)
EXTENDS RequestPipeline, SequenceTheorems, TLAPS

-----------------------------------------------------------------------------
(***************************************************************************)
(* The inductive invariant, in the parts the proofs cite.                  *)
(***************************************************************************)
Contexts ==
    [correlation : {"c1", Generated},
     actor : {"a1", "anonymous", "system"},
     type : {"user", "anonymous", "system"},
     tenant : {"t1", NoTenant} \cup OtherTenants]

Events ==
    [about : {"authorization", "validation", "exception"},
     outcome : {"SUCCESS", "DENIED", "FAILURE", "ERROR"},
     id : {"c1", Generated, NoId},
     tenant : {"t1", NoTenant} \cup OtherTenants]

Typed ==
    /\ extractor \in Extractors /\ request \in Requests /\ operation \in Operations
    /\ stage \in Stages
    /\ context = <<>> \/ \E c \in Contexts : context = <<c>>
    /\ switched = {} \/ \E t \in OtherTenants : switched = {t}
    /\ records \in Seq(Events)

(* What goes with each stage. *)
StagesInOrder ==
    /\ stage = "arrived" => context = <<>>
    /\ stage \in {"ready", "guarded", "authorized", "validated", "ran"} => context # <<>>
    /\ context = <<>> => switched = {}
    /\ passed \in 0..Len(operation.guards)
    /\ stage \in {"arrived", "ready"} => passed = 0
    /\ stage \in {"authorized", "validated", "ran"} => passed = Len(operation.guards)
    /\ error # NoError <=> stage \in {"failed", "handled", "replied", "escaped"}

(* A context is that of the request, but for the tenant it was switched to. *)
ContextIsNamed ==
    context # <<>> =>
        /\ request.correlation # "absent" => context[1].correlation = Normal(request.correlation)
        /\ IF switched # {} THEN switched = {context[1].tenant}
           ELSE /\ ~Missing(request.actor) => context[1].tenant = TenantOf(request.tenant)
                /\ context[1].tenant # NoTenant =>
                       /\ context[1].tenant = Normal(request.tenant)
                       /\ request.shape = "headers" => context[1].actor = Normal(request.actor)

(* The guards behind the request are true of its context. *)
GuardsHold ==
    /\ \A i \in 1..passed : ~GuardFails(operation.guards[i])
    /\ stage = "ran" /\ operation.scoped => context[1].tenant # NoTenant

(* Each error is raised for its reason only. *)
ErrorHasReason ==
    error # NoError =>
        IF context = <<>>
        THEN \/ /\ error = "ContextExtractionError"
                /\ request.shape = "unsupported" \/ request.type = "malformed"
             \/ error = "InvalidActorError" /\ request.actor \notin {"a1", "A1"}
             \/ error = "InvalidTenantError" /\ request.tenant \notin {"t1", "T1"}
             \/ /\ error = "InvalidCorrelationIdError"
                /\ request.correlation \in {"empty", "malformed"}
        ELSE \/ error = "ContextError" /\ operation.passing = "elsewhere"
             \/ error = "TenantRequiredError" /\ context[1].tenant = NoTenant
             \/ error = "ActorRequiredError" /\ context[1].type = "anonymous"
             \/ error \in RaisedLater

Raised ==
    [class |-> error,
     code |-> IF error = "AuthorizationApiError" THEN "own" ELSE "default",
     own |-> error \in {"AuthorizationApiError", "ValidationApiError"}, id |-> context # <<>>]

ReplyIsOfError == payload = IF stage = "replied" THEN <<Fallback(Raised)>> ELSE <<>>

(* A refusal was recorded as one. *)
RefusalAt(i) ==
    error \in {"AuthorizationApiError", "ValidationApiError"} =>
        i \in DOMAIN records /\ records[i].outcome \in {"DENIED", "FAILURE"}

LogFollowsStages ==
    /\ \A i \in DOMAIN records : records[i].id = ContextId
    /\ stage \in {"arrived", "ready", "guarded"} => records = <<>>
    /\ stage = "authorized" => records = <<Event("authorization", "SUCCESS")>>
    /\ stage \in {"validated", "ran"} =>
           records = <<Event("authorization", "SUCCESS"), Event("validation", "SUCCESS")>>
    /\ stage = "failed" => RefusalAt(Len(records))
    /\ stage \in {"handled", "replied"} =>
           /\ records # <<>> /\ records[Len(records)].about = "exception"
           /\ RefusalAt(Len(records) - 1)

PipelineInv ==
    /\ Typed
    /\ StagesInOrder
    /\ AdmitsTheAcceptable
    /\ ContextIsNamed
    /\ GuardsHold
    /\ ErrorHasReason
    /\ ReplyIsOfError
    /\ LogFollowsStages
-----------------------------------------------------------------------------
(* The checks of the extractor find fault with a request exactly if it is  *)
(* not acceptable, and each of them only for its reason.                   *)
Reason(class) ==
    \/ /\ class = "ContextExtractionError"
       /\ request.shape = "unsupported" \/ request.type = "malformed"
    \/ class = "InvalidActorError" /\ request.actor \notin {"a1", "A1"}
    \/ class = "InvalidTenantError" /\ request.tenant \notin {"t1", "T1"}
    \/ class = "InvalidCorrelationIdError" /\ request.correlation \in {"empty", "malformed"}

LEMMA RequestTyped ==
    ASSUME Typed
    PROVE  /\ request.shape \in {"headers", "unsupported", "internal"}
           /\ request.correlation \in {"absent", "empty", "malformed", "c1", "c1 "}
           /\ request.actor \in {"absent", "empty", "malformed", "a1", "A1"}
           /\ request.type \in {"absent", "empty", "malformed", "USER", "anonymous"}
           /\ request.tenant \in {"absent", "empty", "malformed", "t1", "T1"}
           /\ request.shape # "headers" => request.actor = "absent" /\ request.type = "absent"
           /\ request.shape = "unsupported" =>
                  request.correlation = "absent" /\ request.tenant = "absent"
           /\ extractor.requireTenant \in BOOLEAN /\ extractor.requireActor \in BOOLEAN
  BY DEF Typed, Requests, Extractors

LEMMA CheckFields == \A p, e : Check(p, e).fails = p /\ Check(p, e).error = e
  BY Zenon DEF Check

LEMMA ChecksFindFaults ==
    ASSUME Typed
    PROVE  /\ Failing = {} <=> Acceptable
           /\ \A i \in Failing : Reason(Checks[i].error)
           /\ DOMAIN Checks \in {1..2, 1..7}
<1>1. CASE request.shape = "internal"
  <2>1. Checks = <<BadCorrelation, BadTenant>>
    BY <1>1 DEF Checks
  <2>2. DOMAIN Checks = {1, 2} /\ DOMAIN Checks = 1..2
    BY <2>1
  <2>3. /\ Checks[1].fails <=> request.correlation \in {"empty", "malformed"}
        /\ Checks[2].fails <=> request.tenant \in {"empty", "malformed"}
        /\ Checks[1].error = "InvalidCorrelationIdError" /\ Checks[2].error = "InvalidTenantError"
    BY <2>1 DEF BadCorrelation, BadTenant, Check
  <2> HIDE DEF Checks
  <2>4. Failing = {} <=> Acceptable
    BY <1>1, <2>2, <2>3, RequestTyped DEF Failing, Acceptable
  <2>5. \A i \in Failing : Reason(Checks[i].error)
    BY <2>2, <2>3 DEF Failing, Reason
  <2> QED BY <2>2, <2>4, <2>5
<1>2. CASE request.shape # "internal"
  <2>1. Checks = HeaderChecks
    BY <1>2 DEF Checks
  <2>2. DOMAIN Checks = {1, 2, 3, 4, 5, 6, 7} /\ DOMAIN Checks = 1..7
    BY <2>1 DEF HeaderChecks
  <2>3. /\ Checks[1] = Check(request.shape = "unsupported", "ContextExtractionError")
        /\ Checks[2] = Check(extractor.requireActor /\ Missing(request.actor), "InvalidActorError")
        /\ Checks[3] = Check(request.type = "malformed", "ContextExtractionError")
        /\ Checks[4] = Check(extractor.requireTenant /\ Missing(request.tenant),
                             "InvalidTenantError")
        /\ Checks[5] = Check(request.correlation \in {"empty", "malformed"},
                             "InvalidCorrelationIdError")
        /\ Checks[6] = Check(request.actor = "malformed" /\ ~Missing(request.actor),
                             "InvalidActorError")
        /\ Checks[7] = Check(request.tenant \in {"empty", "malformed"} /\ ~Missing(request.actor),
                             "InvalidTenantError")
    BY <2>1 DEF HeaderChecks, IfIdentified, BadCorrelation, BadActor, BadTenant, Check
  <2> HIDE DEF Checks
  <2>4. /\ Checks[1].fails <=> request.shape = "unsupported"
        /\ Checks[2].fails <=> extractor.requireActor /\ Missing(request.actor)
        /\ Checks[3].fails <=> request.type = "malformed"
        /\ Checks[4].fails <=> extractor.requireTenant /\ Missing(request.tenant)
        /\ Checks[5].fails <=> request.correlation \in {"empty", "malformed"}
        /\ Checks[6].fails <=> request.actor = "malformed" /\ ~Missing(request.actor)
        /\ Checks[7].fails <=> request.tenant \in {"empty", "malformed"} /\ ~Missing(request.actor)
    <3>1. Checks[1].fails <=> request.shape = "unsupported"
      BY <2>3, CheckFields, Zenon
    <3>2. Checks[2].fails <=> extractor.requireActor /\ Missing(request.actor)
      BY <2>3, CheckFields, Zenon
    <3>3. Checks[3].fails <=> request.type = "malformed"
      BY <2>3, CheckFields, Zenon
    <3>4. Checks[4].fails <=> extractor.requireTenant /\ Missing(request.tenant)
      BY <2>3, CheckFields, Zenon
    <3>5. Checks[5].fails <=> request.correlation \in {"empty", "malformed"}
      <4> DEFINE bad == request.correlation \in {"empty", "malformed"}
      <4>1. Checks[5] = Check(bad, "InvalidCorrelationIdError") /\ bad \in BOOLEAN
        BY <2>3
      <4> HIDE DEF bad
      <4>2. Checks[5].fails = bad
        BY <4>1, CheckFields, Zenon
      <4>3. Checks[5].fails <=> bad
        BY <4>1, <4>2
      <4> QED BY <4>3 DEF bad
    <3>6. Checks[6].fails <=> request.actor = "malformed" /\ ~Missing(request.actor)
      BY <2>3, CheckFields, Zenon
    <3>7. Checks[7].fails <=> request.tenant \in {"empty", "malformed"} /\ ~Missing(request.actor)
      BY <2>3, CheckFields, Zenon
    <3> QED BY <3>1, <3>2, <3>3, <3>4, <3>5, <3>6, <3>7
  <2>5. /\ Checks[1].error = "ContextExtractionError" /\ Checks[2].error = "InvalidActorError"
        /\ Checks[3].error = "ContextExtractionError" /\ Checks[4].error = "InvalidTenantError"
        /\ Checks[5].error = "InvalidCorrelationIdError" /\ Checks[6].error = "InvalidActorError"
        /\ Checks[7].error = "InvalidTenantError"
    BY <2>3 DEF Check
  <2>6. Failing = {} <=> \A i \in {1, 2, 3, 4, 5, 6, 7} : ~Checks[i].fails
    BY <2>2, Zenon DEF Failing
  <2>7. Failing = {} <=> Acceptable
    BY <1>2, <2>4, <2>6, RequestTyped DEF Acceptable, Missing
  <2>8. \A i \in Failing : Reason(Checks[i].error)
    BY <2>2, <2>4, <2>5 DEF Failing, Reason, Missing
  <2> QED BY <2>2, <2>7, <2>8
<1> QED BY <1>1, <1>2

-----------------------------------------------------------------------------
(* What the mapper replies to the errors a request can end with.           *)
LEMMA AncestorsHere ==
    /\ \A k \in {"InvalidActorError", "ActorRequiredError", "InvalidTenantError",
                 "TenantRequiredError", "InvalidCorrelationIdError", "ContextExtractionError"} :
          Ancestors[k] = {k, "ContextError", "DomainError", "Exception"}
    /\ Ancestors["ContextError"] = {"ContextError", "DomainError", "Exception"}
    /\ \A k \in {"AuthorizationApiError", "ValidationApiError"} :
          Ancestors[k] = {k, "ApiError", "Exception"}
    /\ \A k \in {"RuntimeError", "ValueError"} : Ancestors[k] = {k, "Exception"}
<1>1. ASSUME NEW k \in Classes
      PROVE  Ancestors[k] = {k, Above(k), Above(Above(k)), Above(Above(Above(k)))}
  BY DEF Ancestors
<1>2. /\ Above("Exception") = "Exception" /\ Above("DomainError") = "Exception"
      /\ Above("ApiError") = "Exception" /\ Above("ContextError") = "DomainError"
  BY DEF Above, Parent
<1>3. /\ \A k \in {"InvalidActorError", "ActorRequiredError", "InvalidTenantError",
                    "TenantRequiredError", "InvalidCorrelationIdError", "ContextExtractionError"} :
             k \in Classes /\ Above(k) = "ContextError"
      /\ \A k \in {"AuthorizationApiError", "ValidationApiError"} :
             k \in Classes /\ Above(k) = "ApiError"
      /\ \A k \in {"RuntimeError", "ValueError"} : k \in Classes /\ Above(k) = "Exception"
      /\ "ContextError" \in Classes
  BY DEF Above, Classes, Parent
<1> QED BY <1>1, <1>2, <1>3

LEMMA DomainBranchesAre ==
    /\ DOMAIN DomainBranches = 1..6
    /\ DomainBranches[1].classes = {"ValidationError"}
    /\ DomainBranches[2].classes = {"ActorRequiredError", "InvalidActorError"}
    /\ DomainBranches[3].classes = {"TenantRequiredError", "InvalidTenantError"}
    /\ DomainBranches[4].classes = {"InvalidCorrelationIdError"}
    /\ DomainBranches[5].classes = {"PermissionDeniedError"}
    /\ DomainBranches[6].classes = {"AuthorizationError"}
    /\ DomainBranches[2].status = 401 /\ DomainBranches[2].text = "redacted"
    /\ DomainBranches[3].status = 403 /\ DomainBranches[3].text = "redacted"
    /\ DomainBranches[4].status = 422 /\ DomainBranches[4].text = "generic"
  BY DEF DomainBranches, Branch

LEMMA StandardBranchesAre ==
    /\ DOMAIN StandardBranches = 1..4
    /\ StandardBranches[1].classes = {"ValueError"}
    /\ StandardBranches[2].classes = {"TypeError"}
    /\ StandardBranches[3].classes = {"KeyError"}
    /\ StandardBranches[4].classes = {"PermissionError"}
    /\ StandardBranches[1].text = "redacted"
  BY DEF StandardBranches, Branch

(* A branch is taken if no other could be. *)
LEMMA OnlyBranchIsTaken ==
    ASSUME NEW e, NEW other, NEW branches, DOMAIN branches \in {1..4, 1..6},
           NEW i \in DOMAIN branches,
           \A j \in DOMAIN branches : Ancestors[e.class] \cap branches[j].classes # {} <=> j = i
    PROVE  FirstBranch(branches, e, other) = branches[i]
<1> DEFINE taken(j) == Ancestors[e.class] \cap branches[j].classes # {}
           first(j) == taken(j) /\ \A l \in 1..(j - 1) : ~taken(l)
<1>1. \A l \in 1..(i - 1) : l \in DOMAIN branches /\ l # i
  OBVIOUS
<1>2. \A j \in DOMAIN branches : taken(j) <=> j = i
  OBVIOUS
<1>3. FirstBranch(branches, e, other) =
        IF \E j \in DOMAIN branches : taken(j)
        THEN branches[CHOOSE j \in DOMAIN branches : first(j)] ELSE other
  BY DEF FirstBranch
<1> HIDE DEF taken
<1>4. \A j \in DOMAIN branches : first(j) <=> j = i
  BY <1>1, <1>2
<1> HIDE DEF first
<1>5. (CHOOSE j \in DOMAIN branches : first(j)) = i
  BY <1>4
<1> QED BY <1>2, <1>3, <1>5

LEMMA NoBranchIsTaken ==
    ASSUME NEW e, NEW other, NEW branches,
           \A j \in DOMAIN branches : Ancestors[e.class] \cap branches[j].classes = {}
    PROVE  FirstBranch(branches, e, other) = other
  BY DEF FirstBranch

LEMMA ContextErrorReply ==
    ASSUME NEW e, e.code = "default",
           e.class \in {"InvalidActorError", "ActorRequiredError", "InvalidTenantError",
                        "TenantRequiredError", "InvalidCorrelationIdError",
                        "ContextExtractionError", "ContextError"}
    PROVE  /\ Fallback(e).status =
                CASE e.class \in {"InvalidActorError", "ActorRequiredError"} -> 401
                  [] e.class \in {"InvalidTenantError", "TenantRequiredError"} -> 403
                  [] e.class = "InvalidCorrelationIdError" -> 422
                  [] OTHER -> 400
           /\ Fallback(e).id = CallId(e)
           /\ Fallback(e).text # "message"
<1> DEFINE b == FirstBranch(DomainBranches, e, ByCode(e))
<1>1. IsA(e, "DomainError") /\ ~IsA(e, "ApiError")
  BY AncestorsHere DEF IsA
<1>2. Fallback(e) = Payload(b.status, b.code, CallId(e), b.text)
  BY <1>1 DEF Fallback
<1> HIDE DEF b
<1>3. Fallback(e).status = b.status /\ Fallback(e).id = CallId(e) /\ Fallback(e).text = b.text
  BY <1>2 DEF Payload
<1>4. \A j \in 1..6 : j \in {1, 2, 3, 4, 5, 6}
  OBVIOUS
<1>5. CASE e.class \in {"InvalidActorError", "ActorRequiredError"}
  <2>1. \A j \in 1..6 : Ancestors[e.class] \cap DomainBranches[j].classes # {} <=> j = 2
    BY <1>4, <1>5, AncestorsHere, DomainBranchesAre
  <2>2. b = DomainBranches[2]
    BY <2>1, OnlyBranchIsTaken, DomainBranchesAre DEF b
  <2> QED BY <1>3, <1>5, <2>2, DomainBranchesAre
<1>6. CASE e.class \in {"InvalidTenantError", "TenantRequiredError"}
  <2>1. \A j \in 1..6 : Ancestors[e.class] \cap DomainBranches[j].classes # {} <=> j = 3
    BY <1>4, <1>6, AncestorsHere, DomainBranchesAre
  <2>2. b = DomainBranches[3]
    BY <2>1, OnlyBranchIsTaken, DomainBranchesAre DEF b
  <2> QED BY <1>3, <1>6, <2>2, DomainBranchesAre
<1>7. CASE e.class = "InvalidCorrelationIdError"
  <2>1. \A j \in 1..6 : Ancestors[e.class] \cap DomainBranches[j].classes # {} <=> j = 4
    BY <1>4, <1>7, AncestorsHere, DomainBranchesAre
  <2>2. b = DomainBranches[4]
    BY <2>1, OnlyBranchIsTaken, DomainBranchesAre DEF b
  <2> QED BY <1>3, <1>7, <2>2, DomainBranchesAre
<1>8. CASE e.class \in {"ContextExtractionError", "ContextError"}
  <2>1. \A j \in 1..6 : Ancestors[e.class] \cap DomainBranches[j].classes = {}
    BY <1>4, <1>8, AncestorsHere, DomainBranchesAre
  <2>2. b = ByCode(e)
    BY <2>1, NoBranchIsTaken, DomainBranchesAre DEF b
  <2>3. b.status = 400 /\ b.text = "redacted"
    BY <2>2 DEF ByCode, Branch
  <2> QED BY <1>3, <1>8, <2>3
<1> QED BY <1>5, <1>6, <1>7, <1>8

LEMMA LaterErrorReply ==
    ASSUME NEW e, e.class \in RaisedLater
    PROVE  /\ Fallback(e).text = "message" <=>
                  e.class \in {"AuthorizationApiError", "ValidationApiError"}
           /\ Fallback(e).id \in {"own", CallId(e)}
<1>1. CASE e.class \in {"AuthorizationApiError", "ValidationApiError"}
  <2>1. IsA(e, "ApiError")
    BY <1>1, AncestorsHere DEF IsA
  <2>2. Fallback(e) = PassThrough(e)
    BY <2>1 DEF Fallback
  <2> QED BY <1>1, <2>2 DEF PassThrough, Payload
<1>2. CASE e.class \in {"RuntimeError", "ValueError"}
  <2> DEFINE b == FirstBranch(StandardBranches, e, Unexpected)
  <2>1. ~IsA(e, "DomainError") /\ ~IsA(e, "ApiError")
    BY <1>2, AncestorsHere DEF IsA
  <2>2. Fallback(e) = Payload(b.status, b.code, CallId(e), b.text)
    BY <2>1 DEF Fallback
  <2> HIDE DEF b
  <2>3. Fallback(e).id = CallId(e) /\ Fallback(e).text = b.text
    BY <2>2 DEF Payload
  <2>4. \A j \in 1..4 : j \in {1, 2, 3, 4}
    OBVIOUS
  <2>5. CASE e.class = "RuntimeError"
    <3>1. \A j \in 1..4 : Ancestors[e.class] \cap StandardBranches[j].classes = {}
      BY <2>4, <2>5, AncestorsHere, StandardBranchesAre
    <3>2. b = Unexpected
      BY <3>1, NoBranchIsTaken, StandardBranchesAre DEF b
    <3> QED BY <2>3, <2>5, <3>2 DEF Unexpected, Branch
  <2>6. CASE e.class = "ValueError"
    <3>1. \A j \in 1..4 : Ancestors[e.class] \cap StandardBranches[j].classes # {} <=> j = 1
      BY <2>4, <2>6, AncestorsHere, StandardBranchesAre
    <3>2. b = StandardBranches[1]
      BY <3>1, OnlyBranchIsTaken, StandardBranchesAre DEF b
    <3> QED BY <2>3, <2>6, <3>2, StandardBranchesAre
  <2> QED BY <1>2, <2>5, <2>6
<1> QED BY <1>1, <1>2 DEF RaisedLater

-----------------------------------------------------------------------------
(* Steps behind the admission leave the context and what was asked alone.  *)
Behind == stage # "arrived" /\ UNCHANGED <<inputs, context, switched>>

LEMMA ContextIsKept ==
    ASSUME PipelineInv, Behind
    PROVE  /\ Acceptable' = Acceptable
           /\ ContextIsNamed'
           /\ stage' # "arrived" => AdmitsTheAcceptable'
           /\ ContextId' = ContextId
           /\ \A a, o : Event(a, o)' = Event(a, o)
           /\ \A g : GuardFails(g)' = GuardFails(g)
<1> USE DEF Behind, inputs
<1>1. Acceptable' = Acceptable
  BY DEF Acceptable
<1>2. ContextIsNamed'
  BY DEF PipelineInv, ContextIsNamed, Normal, Missing, TenantOf
<1>3. stage' # "arrived" => AdmitsTheAcceptable'
  BY <1>1 DEF PipelineInv, AdmitsTheAcceptable
<1>4. ContextId' = ContextId /\ \A a, o : Event(a, o)' = Event(a, o)
  BY DEF ContextId, Event
<1>5. \A g : GuardFails(g)' = GuardFails(g)
  BY DEF GuardFails
<1> QED BY <1>1, <1>2, <1>3, <1>4, <1>5

(* There are guards only as many as there are, and of two kinds. *)
LEMMA GuardsTyped ==
    ASSUME Typed
    PROVE  /\ Len(operation.guards) \in Nat
           /\ \A i \in 1..Len(operation.guards) : operation.guards[i] \in {"tenant", "actor"}
           /\ DOMAIN operation.guards = 1..Len(operation.guards)
           /\ operation.passing \in {"found", "elsewhere"} /\ operation.scoped \in BOOLEAN
<1>1. operation.guards \in BoundedSeq({"tenant", "actor"}, MaxGuards)
      /\ operation.passing \in {"found", "elsewhere"} /\ operation.scoped \in BOOLEAN
  BY DEF Typed, Operations
<1>2. PICK n \in 0..MaxGuards : operation.guards \in [1..n -> {"tenant", "actor"}]
  BY <1>1 DEF BoundedSeq, SeqOf
<1>3. n \in Nat
  BY GuardsAssumption
<1>4. operation.guards \in Seq({"tenant", "actor"}) /\ Len(operation.guards) = n
  BY <1>2, <1>3
<1> QED BY <1>1, <1>2, <1>3, <1>4

(* What is logged of the request is an event. *)
LEMMA EventTyped ==
    ASSUME Typed, NEW a \in {"authorization", "validation", "exception"},
           NEW o \in {"SUCCESS", "DENIED", "FAILURE", "ERROR"}
    PROVE  /\ Event(a, o) \in Events
           /\ Event(a, o).about = a /\ Event(a, o).outcome = o /\ Event(a, o).id = ContextId
<1>1. CASE context = <<>>
  BY <1>1 DEF Event, ContextId, Events
<1>2. CASE context # <<>>
  <2>1. PICK c \in Contexts : context = <<c>>
    BY <1>2 DEF Typed
  <2>2. context[1] = c /\ context # <<>>
    BY <2>1
  <2> QED BY <2>2 DEF Event, ContextId, Events, Contexts
<1> QED BY <1>1, <1>2

LEMMA LogGrows ==
    ASSUME Typed, NEW e \in Events, records' = Append(records, e)
    PROVE  /\ records' \in Seq(Events)
           /\ Len(records') = Len(records) + 1 /\ Len(records) \in Nat
           /\ records'[Len(records) + 1] = e
           /\ \A i \in 1..Len(records) : records'[i] = records[i]
           /\ DOMAIN records = 1..Len(records) /\ DOMAIN records' = 1..(Len(records) + 1)
<1>1. records \in Seq(Events)
  BY DEF Typed
<1> QED BY <1>1

LEMMA AppendToOne ==
    ASSUME NEW a \in Events, NEW b \in Events
    PROVE  Append(<<a>>, b) = <<a, b>>
<1>1. <<a>> \in Seq(Events) /\ <<a, b>> \in Seq(Events) /\ Append(<<a>>, b) \in Seq(Events)
  OBVIOUS
<1>2. Len(Append(<<a>>, b)) = 2 /\ Append(<<a>>, b)[1] = a /\ Append(<<a>>, b)[2] = b
  OBVIOUS
<1>3. Len(<<a, b>>) = 2 /\ \A i \in 1..2 : i = 1 \/ i = 2
  OBVIOUS
<1>4. \A i \in 1..2 : Append(<<a>>, b)[i] = <<a, b>>[i]
  BY <1>2, <1>3
<1> QED BY <1>1, <1>2, <1>3, <1>4, SeqEqual

-----------------------------------------------------------------------------
(* A refusal by the extractor. *)
LEMMA RefuseStep ==
    ASSUME PipelineInv, Refuse, UNCHANGED records
    PROVE  PipelineInv'
<1>1. /\ stage = "arrived" /\ stage' = "failed"
      /\ UNCHANGED <<inputs, passed, context, switched, payload, records>>
  BY DEF Refuse, Raise
<1>2. Typed /\ context = <<>> /\ switched = {} /\ passed = 0 /\ records = <<>> /\ payload = <<>>
  BY <1>1 DEF PipelineInv, StagesInOrder, LogFollowsStages, ReplyIsOfError
<1>3. PICK i \in Failing : error' = Checks[i].error
  BY DEF Refuse, Raise
<1>4. Reason(error') /\ ~Acceptable
  BY <1>2, <1>3, ChecksFindFaults
<1>5. Acceptable' = Acceptable
  BY <1>1 DEF Acceptable, inputs
<1>6. error' # NoError /\ error' \notin {"AuthorizationApiError", "ValidationApiError"}
  BY <1>4 DEF Reason, NoError
<1>7. Typed'
  BY <1>1, <1>2 DEF Typed, Stages, inputs
<1>8. StagesInOrder'
  <2>1. passed' \in 0..Len(operation'.guards)
    BY <1>1, <1>2, GuardsTyped DEF inputs
  <2> QED BY <1>1, <1>2, <1>6, <2>1 DEF StagesInOrder
<1>9. AdmitsTheAcceptable' /\ ContextIsNamed' /\ GuardsHold'
  BY <1>1, <1>2, <1>4, <1>5 DEF AdmitsTheAcceptable, ContextIsNamed, GuardsHold
<1>10. ErrorHasReason'
  BY <1>1, <1>2, <1>4 DEF ErrorHasReason, Reason, inputs
<1>11. ReplyIsOfError'
  BY <1>1, <1>2 DEF ReplyIsOfError
<1>12. LogFollowsStages'
  BY <1>1, <1>2, <1>6 DEF LogFollowsStages, RefusalAt
<1> QED BY <1>7, <1>8, <1>9, <1>10, <1>11, <1>12 DEF PipelineInv

(* The admission of a request with a context that is its own. *)
LEMMA AdmitStep ==
    ASSUME PipelineInv, UNCHANGED records, NEW c \in Contexts, Admit(c),
           request.correlation # "absent" => c.correlation = Normal(request.correlation),
           ~Missing(request.actor) => c.tenant = TenantOf(request.tenant),
           c.tenant # NoTenant =>
               /\ c.tenant = Normal(request.tenant)
               /\ request.shape = "headers" => c.actor = Normal(request.actor)
    PROVE  PipelineInv'
<1>1. /\ stage = "arrived" /\ stage' = "ready" /\ context' = <<c>> /\ Failing = {}
      /\ UNCHANGED <<inputs, passed, switched, error, payload, records>>
  BY DEF Admit
<1>2. Typed /\ switched = {} /\ passed = 0 /\ records = <<>> /\ payload = <<>> /\ error = NoError
  BY <1>1 DEF PipelineInv, StagesInOrder, LogFollowsStages, ReplyIsOfError
<1>3. Acceptable /\ Acceptable' = Acceptable
  <2>1. Acceptable
    BY <1>1, <1>2, ChecksFindFaults
  <2> QED BY <1>1, <2>1 DEF Acceptable, inputs
<1>4. context' # <<>> /\ context'[1] = c
  BY <1>1
<1>5. Typed'
  BY <1>1, <1>2 DEF Typed, Stages, inputs
<1>6. StagesInOrder'
  <2>1. passed' \in 0..Len(operation'.guards)
    BY <1>1, <1>2, GuardsTyped DEF inputs
  <2> QED BY <1>1, <1>2, <1>4, <2>1 DEF StagesInOrder
<1>7. AdmitsTheAcceptable'
  BY <1>3, <1>4 DEF AdmitsTheAcceptable
<1>8. ContextIsNamed'
  BY <1>1, <1>2, <1>4 DEF ContextIsNamed, inputs, Normal, Missing, TenantOf
<1>9. GuardsHold' /\ ErrorHasReason' /\ ReplyIsOfError' /\ LogFollowsStages'
  BY <1>1, <1>2 DEF GuardsHold, ErrorHasReason, ReplyIsOfError, LogFollowsStages
<1> QED BY <1>5, <1>6, <1>7, <1>8, <1>9 DEF PipelineInv

LEMMA ExtractStep ==
    ASSUME PipelineInv, UNCHANGED records, ExtractActor \/ ExtractAnonymous \/ CreateSystem
    PROVE  PipelineInv'
<1>1. Typed /\ Acceptable
  <2>1. Typed /\ Failing = {}
    BY DEF PipelineInv, ExtractActor, ExtractAnonymous, CreateSystem, Admit
  <2> QED BY <2>1, ChecksFindFaults
<1>2. /\ request.correlation \in {"absent", "c1", "c1 "}
      /\ request.shape = "internal" \/ request.actor \in {"a1", "A1"} =>
            request.tenant \in {"absent", "t1", "T1"}
      /\ request.shape # "internal" => request.type \in {"absent", "empty", "USER", "anonymous"}
  BY <1>1, RequestTyped DEF Acceptable
<1>3. ASSUME NEW a \in {"a1", "anonymous", "system"}, NEW t \in {"user", "anonymous", "system"},
             NEW n \in {"t1", NoTenant}
      PROVE  /\ Context(a, t, n) \in Contexts
             /\ request.correlation # "absent" => Context(a, t, n).correlation = Normal(request.correlation)
             /\ Context(a, t, n).tenant = n /\ Context(a, t, n).actor = a
  BY <1>2 DEF Context, Contexts, Normal
<1>4. CASE ExtractActor
  <2> DEFINE a == Normal(request.actor)
             t == IF Missing(request.type) THEN "user" ELSE Normal(request.type)
             n == TenantOf(request.tenant)
  <2>1. request.shape = "headers" /\ request.actor \in {"a1", "A1"}
    BY <1>1, <1>4, RequestTyped DEF ExtractActor, Missing, Acceptable
  <2>2. a = "a1" /\ t \in {"user", "anonymous"}
    BY <1>2, <2>1 DEF Normal, Missing
  <2>3. n \in {"t1", NoTenant} /\ (n # NoTenant => n = Normal(request.tenant))
    BY <1>2, <2>1 DEF TenantOf, Normal
  <2>4. Admit(Context(a, t, n))
    BY <1>4 DEF ExtractActor
  <2>5. Normal(request.actor) = a
    OBVIOUS
  <2>6. n = TenantOf(request.tenant)
    OBVIOUS
  <2> HIDE DEF a, t, n
  <2> QED BY <1>3, <2>2, <2>3, <2>4, <2>5, <2>6, AdmitStep
<1>5. CASE ExtractAnonymous
  <2>1. Admit(Context("anonymous", "anonymous", NoTenant))
    BY <1>5 DEF ExtractAnonymous, Anonymous
  <2>2. Missing(request.actor)
    BY <1>5 DEF ExtractAnonymous
  <2> QED BY <1>3, <2>1, <2>2, AdmitStep
<1>6. CASE CreateSystem
  <2> DEFINE n == TenantOf(request.tenant)
  <2>1. request.shape = "internal" /\ Admit(Context("system", "system", n))
    BY <1>6 DEF CreateSystem
  <2>2. n \in {"t1", NoTenant} /\ (n # NoTenant => n = Normal(request.tenant))
    BY <1>2, <2>1 DEF TenantOf, Normal
  <2>3. n = TenantOf(request.tenant)
    OBVIOUS
  <2> HIDE DEF n
  <2> QED BY <1>3, <2>1, <2>2, <2>3, AdmitStep
<1> QED BY <1>4, <1>5, <1>6

(* A switch to another tenant. *)
LEMMA SwitchStep ==
    ASSUME PipelineInv, UNCHANGED records, NEW t \in OtherTenants, WithTenant(t)
    PROVE  PipelineInv'
<1>1. /\ stage = "ready" /\ stage' = "ready" /\ switched' = {t}
      /\ context' = <<[context[1] EXCEPT !.tenant = t]>>
      /\ UNCHANGED <<inputs, passed, error, payload, records>>
  BY DEF WithTenant
<1>2. /\ Typed /\ context # <<>> /\ passed = 0 /\ records = <<>> /\ payload = <<>>
      /\ error = NoError
  BY <1>1 DEF PipelineInv, StagesInOrder, LogFollowsStages, ReplyIsOfError
<1>3. PICK c \in Contexts : context = <<c>>
  BY <1>2 DEF Typed
<1> DEFINE d == [c EXCEPT !.tenant = t]
<1>4. d \in Contexts /\ d.tenant = t /\ d.correlation = c.correlation
  BY DEF Contexts
<1>5. context[1] = c
  BY <1>3
<1>6. context' = <<d>>
  BY <1>1, <1>5
<1> HIDE DEF d
<1>7. context' # <<>> /\ context'[1] = d
  BY <1>6
<1>8. Typed'
  BY <1>1, <1>2, <1>4, <1>6 DEF Typed, inputs
<1>9. StagesInOrder'
  <2>1. passed' \in 0..Len(operation'.guards)
    BY <1>1, <1>2, GuardsTyped DEF inputs
  <2> QED BY <1>1, <1>2, <1>7, <2>1 DEF StagesInOrder
<1>10. AdmitsTheAcceptable'
  <2>1. Acceptable' = Acceptable
    BY <1>1 DEF Acceptable, inputs
  <2> QED BY <1>1, <1>2, <1>7, <2>1 DEF PipelineInv, AdmitsTheAcceptable
<1>11. ContextIsNamed'
  <2>1. request.correlation # "absent" => d.correlation = Normal(request.correlation)
    BY <1>2, <1>4, <1>5 DEF PipelineInv, ContextIsNamed
  <2> QED BY <1>1, <1>4, <1>7, <2>1 DEF ContextIsNamed, inputs, Normal
<1>12. GuardsHold' /\ ErrorHasReason' /\ ReplyIsOfError' /\ LogFollowsStages'
  BY <1>1, <1>2 DEF GuardsHold, ErrorHasReason, ReplyIsOfError, LogFollowsStages
<1> QED BY <1>8, <1>9, <1>10, <1>11, <1>12 DEF PipelineInv

-----------------------------------------------------------------------------
(* A failure behind the admission: what raises has its reason, and what is *)
(* a refusal is in the log.                                                *)
LEMMA FailureStep ==
    ASSUME PipelineInv, Behind, UNCHANGED <<passed, payload>>,
           context # <<>>, stage \notin {"failed", "handled", "replied", "escaped"},
           NEW class, Raise(class),
           \/ class = "ContextError" /\ operation.passing = "elsewhere"
           \/ class = "TenantRequiredError" /\ context[1].tenant = NoTenant
           \/ class = "ActorRequiredError" /\ context[1].type = "anonymous"
           \/ class \in RaisedLater,
           records' \in Seq(Events),
           \A i \in DOMAIN records' : records'[i].id = ContextId,
           class \in {"AuthorizationApiError", "ValidationApiError"} =>
               /\ Len(records') \in DOMAIN records'
               /\ records'[Len(records')].outcome \in {"DENIED", "FAILURE"}
    PROVE  PipelineInv'
<1>1. stage' = "failed" /\ error' = class /\ class # NoError
  BY DEF Raise, NoError, RaisedLater
<1>2. UNCHANGED <<extractor, request, operation, context, switched>>
  BY DEF Behind, inputs
<1>3. Typed /\ payload = <<>>
  BY DEF PipelineInv, ReplyIsOfError
<1>4. Typed'
  BY <1>1, <1>2, <1>3 DEF Typed, Stages
<1>5. StagesInOrder'
  BY <1>1, <1>2 DEF PipelineInv, StagesInOrder
<1>6. AdmitsTheAcceptable' /\ ContextIsNamed'
  BY <1>1, ContextIsKept
<1>7. GuardsHold'
  BY <1>1, <1>2 DEF PipelineInv, GuardsHold, GuardFails
<1>8. ErrorHasReason'
  BY <1>1, <1>2 DEF ErrorHasReason
<1>9. ReplyIsOfError'
  BY <1>1, <1>3 DEF ReplyIsOfError
<1>10. LogFollowsStages'
  BY <1>1, ContextIsKept DEF LogFollowsStages, RefusalAt
<1> QED BY <1>4, <1>5, <1>6, <1>7, <1>8, <1>9, <1>10 DEF PipelineInv

(* A step on the way to the operation. *)
LEMMA ForwardStep ==
    ASSUME PipelineInv, Behind, UNCHANGED <<error, payload>>, context # <<>>,
           stage \in {"ready", "guarded", "authorized", "validated"},
           stage' \in {"guarded", "authorized", "validated", "ran"},
           passed' \in 0..Len(operation.guards),
           stage' # "guarded" => passed' = Len(operation.guards),
           \A i \in 1..passed' : ~GuardFails(operation.guards[i]),
           stage' = "ran" /\ operation.scoped => context[1].tenant # NoTenant,
           records' \in Seq(Events),
           stage' = "guarded" => records' = <<>>,
           stage' = "authorized" => records' = <<Event("authorization", "SUCCESS")>>,
           stage' \in {"validated", "ran"} =>
               records' = <<Event("authorization", "SUCCESS"), Event("validation", "SUCCESS")>>
    PROVE  PipelineInv'
<1>1. UNCHANGED <<extractor, request, operation, context, switched>>
  BY DEF Behind, inputs
<1>2. Typed /\ payload = <<>> /\ error = NoError
  BY DEF PipelineInv, ReplyIsOfError, StagesInOrder
<1>3. Typed'
  BY <1>1, <1>2 DEF Typed, Stages
<1>4. StagesInOrder'
  BY <1>1, <1>2 DEF StagesInOrder
<1>5. AdmitsTheAcceptable' /\ ContextIsNamed'
  BY ContextIsKept
<1>6. GuardsHold'
  BY <1>1 DEF GuardsHold, GuardFails
<1>7. ErrorHasReason' /\ ReplyIsOfError'
  BY <1>2 DEF ErrorHasReason, ReplyIsOfError
<1>8. LogFollowsStages'
  <2>1. \A a \in {"authorization", "validation"} : Event(a, "SUCCESS").id = ContextId
    BY <1>2, EventTyped
  <2>2. \A i \in DOMAIN records' : records'[i].id = ContextId
    <3>1. CASE stage' = "guarded"
      BY <3>1
    <3>2. CASE stage' = "authorized"
      BY <2>1, <3>2
    <3>3. CASE stage' \in {"validated", "ran"}
      BY <2>1, <3>3
    <3> QED BY <3>1, <3>2, <3>3
  <2> QED BY <2>2, ContextIsKept DEF LogFollowsStages
<1> QED BY <1>3, <1>4, <1>5, <1>6, <1>7, <1>8 DEF PipelineInv

(* The call of the decorated operation, and its guards. *)
LEMMA GuardStep ==
    ASSUME PipelineInv, UNCHANGED records, Call \/ PassGuard \/ FailGuard
    PROVE  PipelineInv'
<1>1. /\ stage \in {"ready", "guarded"} /\ context # <<>> /\ records = <<>> /\ Typed
      /\ Behind /\ payload' = payload
  BY DEF PipelineInv, StagesInOrder, LogFollowsStages, Call, PassGuard, FailGuard, Behind
<1>2. records' \in Seq(Events) /\ records' = <<>>
  BY <1>1 DEF Typed
<1>3. passed \in 0..Len(operation.guards) /\ \A i \in 1..passed : ~GuardFails(operation.guards[i])
  BY DEF PipelineInv, StagesInOrder, GuardsHold
<1>4. CASE Call /\ operation.passing = "elsewhere"
  <2>1. Raise("ContextError") /\ UNCHANGED passed
    BY <1>4 DEF Call
  <2> QED BY <1>1, <1>2, <1>4, <2>1, FailureStep
<1>5. CASE Call /\ operation.passing # "elsewhere"
  <2>1. stage' = "guarded" /\ UNCHANGED <<error, passed>>
    BY <1>5 DEF Call
  <2> QED BY <1>1, <1>2, <1>3, <2>1, ForwardStep
<1>6. CASE PassGuard
  <2>1. /\ stage' = "guarded" /\ UNCHANGED error /\ passed' = passed + 1
        /\ passed < Len(operation.guards) /\ ~GuardFails(operation.guards[passed + 1])
    BY <1>6 DEF PassGuard
  <2>2. /\ passed' \in 0..Len(operation.guards)
        /\ \A i \in 1..passed' : i \in 1..passed \/ i = passed + 1
    BY <1>1, <1>3, <2>1, GuardsTyped
  <2>3. \A i \in 1..passed' : ~GuardFails(operation.guards[i])
    BY <1>3, <2>1, <2>2
  <2> QED BY <1>1, <1>2, <2>1, <2>2, <2>3, ForwardStep
<1>7. CASE FailGuard
  <2> DEFINE guard == operation.guards[passed + 1]
             class == IF guard = "tenant" THEN "TenantRequiredError" ELSE "ActorRequiredError"
  <2>1. GuardFails(guard) /\ Raise(class) /\ UNCHANGED passed
    BY <1>7 DEF FailGuard
  <2>2. \/ class = "TenantRequiredError" /\ context[1].tenant = NoTenant
        \/ class = "ActorRequiredError" /\ context[1].type = "anonymous"
    BY <2>1 DEF GuardFails
  <2>3. class \notin {"AuthorizationApiError", "ValidationApiError"}
    BY <2>2
  <2> HIDE DEF class
  <2> QED BY <1>1, <1>2, <2>1, <2>2, <2>3, FailureStep
<1> QED BY <1>4, <1>5, <1>6, <1>7

(* What raises after the guards, for any reason of its own. *)
LEMMA RaiseStep ==
    ASSUME PipelineInv, Behind, UNCHANGED <<passed, payload>>,
           stage \in {"guarded", "authorized", "validated"},
           NEW class \in RaisedLater, Raise(class),
           \/ UNCHANGED records /\ class \in {"RuntimeError", "ValueError"}
           \/ \E about \in {"authorization", "validation"}, outcome \in {"DENIED", "FAILURE"} :
                 Log(about, outcome)
    PROVE  PipelineInv'
<1>1. Typed /\ context # <<>> /\ stage \notin {"failed", "handled", "replied", "escaped"}
  BY DEF PipelineInv, StagesInOrder
<1>2. \A i \in DOMAIN records : records[i].id = ContextId
  BY DEF PipelineInv, LogFollowsStages
<1>3. CASE UNCHANGED records /\ class \in {"RuntimeError", "ValueError"}
  <2>1. records' \in Seq(Events)
    BY <1>1, <1>3 DEF Typed
  <2> QED BY <1>1, <1>2, <1>3, <2>1, FailureStep
<1>4. ASSUME NEW about \in {"authorization", "validation"}, NEW outcome \in {"DENIED", "FAILURE"},
             Log(about, outcome)
      PROVE  PipelineInv'
  <2> DEFINE e == Event(about, outcome)
  <2>1. e \in Events /\ e.outcome = outcome /\ e.id = ContextId
    BY <1>1, EventTyped
  <2>2. records' = Append(records, e)
    BY <1>4 DEF Log
  <2> HIDE DEF e
  <2>3. /\ records' \in Seq(Events) /\ Len(records') = Len(records) + 1 /\ Len(records) \in Nat
        /\ records'[Len(records) + 1] = e
        /\ \A i \in 1..Len(records) : records'[i] = records[i]
        /\ DOMAIN records = 1..Len(records) /\ DOMAIN records' = 1..(Len(records) + 1)
    BY <1>1, <2>1, <2>2, LogGrows
  <2>4. \A i \in DOMAIN records' : i \in DOMAIN records \/ i = Len(records) + 1
    BY <2>3
  <2>5. \A i \in DOMAIN records' : records'[i].id = ContextId
    BY <1>2, <2>1, <2>3, <2>4
  <2>6. /\ Len(records') \in DOMAIN records'
        /\ records'[Len(records')].outcome \in {"DENIED", "FAILURE"}
    BY <2>1, <2>3
  <2> QED BY <1>1, <2>3, <2>5, <2>6, FailureStep
<1> QED BY <1>3, <1>4

LEMMA FailStep ==
    ASSUME PipelineInv, NEW class \in {"RuntimeError", "ValueError"}, Fail(class)
    PROVE  PipelineInv'
<1>1. stage \in {"guarded", "authorized", "validated"} /\ Behind /\ UNCHANGED <<passed, payload>>
  BY DEF Fail, Guarded, Behind
<1>2. Raise(class) /\ UNCHANGED records /\ class \in RaisedLater
  BY DEF Fail, RaisedLater
<1> QED BY <1>1, <1>2, RaiseStep

LEMMA AuthorizeStep ==
    ASSUME PipelineInv, NEW ok \in BOOLEAN, Authorize(ok)
    PROVE  PipelineInv'
<1>1. /\ stage = "guarded" /\ passed = Len(operation.guards)
      /\ Behind /\ UNCHANGED <<passed, payload>>
  BY DEF Authorize, Guarded, Behind
<1>2. /\ Typed /\ context # <<>> /\ records = <<>>
      /\ \A i \in 1..passed : ~GuardFails(operation.guards[i])
      /\ passed \in 0..Len(operation.guards)
  BY <1>1 DEF PipelineInv, StagesInOrder, GuardsHold, LogFollowsStages
<1>3. CASE ok
  <2>1. stage' = "authorized" /\ UNCHANGED error
    BY <1>3 DEF Authorize, Proceed
  <2>2. records' = <<Event("authorization", "SUCCESS")>>
    BY <1>2, <1>3 DEF Authorize, Log
  <2>3. Event("authorization", "SUCCESS") \in Events
    BY <1>2, EventTyped
  <2>4. records' \in Seq(Events)
    BY <2>2, <2>3
  <2> QED BY <1>1, <1>2, <2>1, <2>2, <2>4, ForwardStep
<1>4. CASE ~ok
  <2>1. Raise("AuthorizationApiError") /\ Log("authorization", "DENIED")
    BY <1>4 DEF Authorize
  <2> QED BY <1>1, <2>1, RaiseStep DEF RaisedLater
<1> QED BY <1>3, <1>4

LEMMA ValidateStep ==
    ASSUME PipelineInv, NEW valid \in BOOLEAN, Validate(valid)
    PROVE  PipelineInv'
<1>1. stage = "authorized" /\ Behind /\ UNCHANGED <<passed, payload>>
  BY DEF Validate, Behind
<1>2. /\ Typed /\ context # <<>> /\ records = <<Event("authorization", "SUCCESS")>>
      /\ \A i \in 1..passed : ~GuardFails(operation.guards[i])
      /\ passed = Len(operation.guards) /\ passed \in 0..Len(operation.guards)
  BY <1>1 DEF PipelineInv, StagesInOrder, GuardsHold, LogFollowsStages
<1>3. CASE valid
  <2>1. stage' = "validated" /\ UNCHANGED error
    BY <1>3 DEF Validate, Proceed
  <2>2. records' = <<Event("authorization", "SUCCESS"), Event("validation", "SUCCESS")>>
    <3> DEFINE a == Event("authorization", "SUCCESS")
               b == Event("validation", "SUCCESS")
    <3>1. records = <<a>> /\ records' = Append(records, b)
      BY <1>2, <1>3 DEF Validate, Log
    <3>2. a \in Events /\ b \in Events
      BY <1>2, EventTyped
    <3> HIDE DEF a, b
    <3>3. records' = <<a, b>>
      BY <3>1, <3>2, AppendToOne
    <3> QED BY <3>3 DEF a, b
  <2>3. Event("authorization", "SUCCESS") \in Events /\ Event("validation", "SUCCESS") \in Events
    BY <1>2, EventTyped
  <2>4. records' \in Seq(Events)
    BY <2>2, <2>3
  <2> QED BY <1>1, <1>2, <2>1, <2>2, <2>4, ForwardStep
<1>4. CASE ~valid
  <2>1. Raise("ValidationApiError") /\ Log("validation", "FAILURE")
    BY <1>4 DEF Validate
  <2> QED BY <1>1, <2>1, RaiseStep DEF RaisedLater
<1> QED BY <1>3, <1>4

LEMMA OperateStep ==
    ASSUME PipelineInv, Operate
    PROVE  PipelineInv'
<1>1. stage = "validated" /\ Behind /\ UNCHANGED <<passed, payload, records>>
  BY DEF Operate, Perform, Behind
<1>2. /\ Typed /\ context # <<>>
      /\ records = <<Event("authorization", "SUCCESS"), Event("validation", "SUCCESS")>>
      /\ \A i \in 1..passed : ~GuardFails(operation.guards[i])
      /\ \A i \in DOMAIN records : records[i].id = ContextId
      /\ passed = Len(operation.guards) /\ passed \in 0..Len(operation.guards)
  BY <1>1 DEF PipelineInv, StagesInOrder, GuardsHold, LogFollowsStages
<1>3. records' \in Seq(Events) /\ \A i \in DOMAIN records' : records'[i].id = ContextId
  BY <1>1, <1>2 DEF Typed
<1>4. CASE operation.scoped /\ context[1].tenant = NoTenant
  <2>1. Raise("TenantRequiredError")
    BY <1>4 DEF Operate, Perform
  <2> QED BY <1>1, <1>2, <1>3, <1>4, <2>1, FailureStep
<1>5. CASE ~(operation.scoped /\ context[1].tenant = NoTenant)
  <2>1. stage' = "ran" /\ UNCHANGED error
    BY <1>5 DEF Operate, Perform
  <2> QED BY <1>1, <1>2, <1>3, <1>5, <2>1, ForwardStep
<1> QED BY <1>4, <1>5

(* handle_exception and map_exception. *)
LEMMA HandlingStep ==
    ASSUME PipelineInv, LogError \/ OutputRaises \/ MapException \/ MappingRaises
    PROVE  PipelineInv'
<1>1. /\ stage \in {"failed", "handled"} /\ stage' \in {"handled", "escaped", "replied"}
      /\ Behind /\ UNCHANGED <<passed, error>>
  BY DEF LogError, OutputRaises, MapException, MappingRaises, ReplyTo, Proceed, Behind
<1>2. /\ UNCHANGED <<extractor, request, operation, context, switched>>
      /\ Typed /\ payload = <<>> /\ error # NoError
  BY <1>1 DEF PipelineInv, StagesInOrder, ReplyIsOfError, Behind, inputs
<1>3. records' \in Seq(Events) /\ LogFollowsStages'
  <2>1. \A i \in DOMAIN records : records[i].id = ContextId
    BY DEF PipelineInv, LogFollowsStages
  <2>2. CASE UNCHANGED records /\ stage' = "escaped"
    <3>1. records' \in Seq(Events)
      BY <1>2, <2>2 DEF Typed
    <3> QED BY <1>1, <2>1, <2>2, <3>1, ContextIsKept DEF LogFollowsStages
  <2>3. CASE UNCHANGED records /\ stage = "handled" /\ stage' = "replied"
    <3>1. records' \in Seq(Events)
      BY <1>2, <2>3 DEF Typed
    <3>2. records # <<>> /\ records[Len(records)].about = "exception" /\ RefusalAt(Len(records) - 1)
      BY <2>3 DEF PipelineInv, LogFollowsStages
    <3>3. RefusalAt(Len(records) - 1)'
      BY <1>1, <2>3, <3>2 DEF RefusalAt
    <3>4. records' # <<>> /\ records'[Len(records')].about = "exception"
      BY <2>3, <3>2
    <3> QED BY <1>1, <2>1, <2>3, <3>1, <3>3, <3>4, ContextIsKept DEF LogFollowsStages
  <2>4. CASE Log("exception", "ERROR") /\ stage = "failed" /\ stage' = "handled"
    <3> DEFINE e == Event("exception", "ERROR")
    <3>1. e \in Events /\ e.about = "exception" /\ e.id = ContextId
      BY <1>2, EventTyped
    <3>2. records' = Append(records, e)
      BY <2>4 DEF Log
    <3> HIDE DEF e
    <3>3. /\ records' \in Seq(Events) /\ Len(records') = Len(records) + 1 /\ Len(records) \in Nat
          /\ records'[Len(records) + 1] = e
          /\ \A i \in 1..Len(records) : records'[i] = records[i]
          /\ DOMAIN records = 1..Len(records) /\ DOMAIN records' = 1..(Len(records) + 1)
      BY <1>2, <3>1, <3>2, LogGrows
    <3>4. \A i \in DOMAIN records' : i \in DOMAIN records \/ i = Len(records) + 1
      BY <3>3
    <3>5. \A i \in DOMAIN records' : records'[i].id = ContextId
      BY <2>1, <3>1, <3>3, <3>4
    <3>6. records' # <<>> /\ records'[Len(records')].about = "exception"
      BY <3>1, <3>3
    <3>7. RefusalAt(Len(records))
      BY <2>4 DEF PipelineInv, LogFollowsStages
    <3>8. RefusalAt(Len(records) - 1)'
      <4>1. Len(records') - 1 = Len(records)
        BY <3>3
      <4> QED BY <1>1, <3>3, <3>7, <4>1 DEF RefusalAt
    <3> QED BY <2>4, <3>3, <3>5, <3>6, <3>8, ContextIsKept, <1>1 DEF LogFollowsStages
  <2> QED BY <1>1, <2>2, <2>3, <2>4
        DEF LogError, OutputRaises, MapException, MappingRaises, ReplyTo, Proceed
<1>4. Typed'
  BY <1>1, <1>2, <1>3 DEF Typed, Stages
<1>5. StagesInOrder'
  BY <1>1, <1>2 DEF PipelineInv, StagesInOrder
<1>6. AdmitsTheAcceptable' /\ ContextIsNamed'
  BY <1>1, ContextIsKept
<1>7. GuardsHold' /\ ErrorHasReason'
  BY <1>1, <1>2 DEF PipelineInv, GuardsHold, GuardFails, ErrorHasReason
<1>8. ReplyIsOfError'
  <2>1. Raised' = Raised
    BY <1>1, <1>2 DEF Raised
  <2>2. CASE MapException
    <3>1. payload' = <<Fallback(Raised)>> /\ stage' = "replied"
      BY <2>2 DEF MapException, ReplyTo, Raised
    <3>2. Fallback(Raised)' = Fallback(Raised)
      BY <1>1, <1>2 DEF Raised, Fallback, FirstBranch, ByCode, CallId, PassThrough, IsA
    <3> QED BY <3>1, <3>2 DEF ReplyIsOfError
  <2>3. CASE LogError \/ OutputRaises \/ MappingRaises
    <3>1. payload' = payload /\ stage' # "replied"
      BY <2>3 DEF LogError, OutputRaises, MappingRaises, Proceed
    <3> QED BY <1>2, <3>1 DEF ReplyIsOfError
  <2> QED BY <2>2, <2>3
<1> QED BY <1>3, <1>4, <1>5, <1>6, <1>7, <1>8 DEF PipelineInv

-----------------------------------------------------------------------------
LEMMA PipelineInvariant == PipelineSpec => []PipelineInv
<1>1. PipelineInit => PipelineInv
  <2> SUFFICES ASSUME PipelineInit PROVE PipelineInv
    OBVIOUS
  <2>1. Typed /\ context = <<>>
    BY DEF PipelineInit, Init, Typed, Stages
  <2>2. StagesInOrder
    BY <2>1, GuardsTyped DEF PipelineInit, Init, StagesInOrder
  <2>3. AdmitsTheAcceptable /\ ContextIsNamed /\ GuardsHold /\ ErrorHasReason /\ ReplyIsOfError
    BY DEF PipelineInit, Init, AdmitsTheAcceptable, ContextIsNamed, GuardsHold, ErrorHasReason,
           ReplyIsOfError
  <2>4. LogFollowsStages
    BY DEF PipelineInit, Init, LogFollowsStages
  <2> QED BY <2>1, <2>2, <2>3, <2>4 DEF PipelineInv
<1>2. PipelineInv /\ [PipelineNext]_pipelineVars => PipelineInv'
  <2> SUFFICES ASSUME PipelineInv, [PipelineNext]_pipelineVars PROVE PipelineInv'
    OBVIOUS
  <2>1. CASE Entry /\ UNCHANGED records
    BY <2>1, RefuseStep, ExtractStep, GuardStep DEF Entry
  <2>2. CASE \E ok \in BOOLEAN : Authorize(ok) \/ Validate(ok)
    BY <2>2, AuthorizeStep, ValidateStep
  <2>3. CASE \E class \in {"RuntimeError", "ValueError"} : Fail(class)
    BY <2>3, FailStep
  <2>4. CASE Operate
    BY <2>4, OperateStep
  <2>5. CASE LogError \/ OutputRaises \/ MapException \/ MappingRaises
    BY <2>5, HandlingStep
  <2>6. CASE \E t \in OtherTenants : WithTenant(t) /\ UNCHANGED records
    BY <2>6, SwitchStep
  <2>7. CASE UNCHANGED pipelineVars
    <3>1. /\ UNCHANGED <<extractor, request, operation, stage, passed, context, switched>>
          /\ UNCHANGED <<error, payload, records>>
      BY <2>7 DEF pipelineVars, vars
    <3>2. Typed' /\ StagesInOrder' /\ ErrorHasReason'
      BY <3>1 DEF PipelineInv, Typed, StagesInOrder, ErrorHasReason
    <3>3. AdmitsTheAcceptable' /\ ContextIsNamed'
      BY <3>1 DEF PipelineInv, AdmitsTheAcceptable, Acceptable, ContextIsNamed
    <3>4. GuardsHold' /\ ReplyIsOfError'
      BY <3>1 DEF PipelineInv, GuardsHold, GuardFails, ReplyIsOfError, Raised
    <3>5. LogFollowsStages'
      BY <3>1 DEF PipelineInv, LogFollowsStages, RefusalAt, Event, ContextId
    <3> QED BY <3>2, <3>3, <3>4, <3>5 DEF PipelineInv
  <2> QED BY <2>1, <2>2, <2>3, <2>4, <2>5, <2>6, <2>7 DEF PipelineNext, Progress
<1> QED BY <1>1, <1>2, PTL DEF PipelineSpec

-----------------------------------------------------------------------------
(* Types, for every set of tenants and every bound on the guards: the      *)
(* context of a request, once extract_context or create_system returned    *)
(* one, holds normalised values only, and a reply stands exactly where     *)
(* map_exception returned.                                                 *)
THEOREM TypeCorrect == PipelineSpec => []TypeOK
<1>1. ASSUME PipelineInv PROVE TypeOK
  <2>1. Typed /\ StagesInOrder
    BY <1>1 DEF PipelineInv
  <2>2. context = <<>> \/ (Len(context) = 1 /\ context[1] \in Contexts)
    BY <2>1 DEF Typed
  <2>3. error \in Classes \cup {NoError}
    BY <1>1, <2>1 DEF PipelineInv, ErrorHasReason, RaisedLater, Classes, Parent
  <2>4. payload # <<>> <=> stage = "replied"
    BY <1>1 DEF PipelineInv, ReplyIsOfError
  <2> QED BY <2>1, <2>2, <2>3, <2>4 DEF TypeOK, Typed, StagesInOrder, Contexts
<1> QED BY <1>1, PipelineInvariant, PTL

(* extract_context and create_system admit the acceptable requests and no  *)
(* others, whatever is wrong with a request at the same time.              *)
THEOREM AdmitsExactly == PipelineSpec => []AdmitsTheAcceptable
<1>1. PipelineInv => AdmitsTheAcceptable
  BY DEF PipelineInv
<1> QED BY <1>1, PipelineInvariant, PTL

(* An operation that reads its tenant runs in the tenant with_tenant last  *)
(* named, or else in that of the request and for the actor of the request; *)
(* and all its guards are true of the context it runs with: for every      *)
(* number of switches and every stack of tenant_required and               *)
(* actor_required.                                                         *)
THEOREM RunsInScope == PipelineSpec => []RunsInNamedScope
<1>1. ASSUME PipelineInv PROVE RunsInNamedScope
  <2> SUFFICES ASSUME stage = "ran" PROVE RunsInNamedScope
    BY DEF RunsInNamedScope
  <2>1. Typed /\ context # <<>> /\ passed = Len(operation.guards)
    BY <1>1 DEF PipelineInv, StagesInOrder
  <2>2. \A i \in DOMAIN operation.guards : ~GuardFails(operation.guards[i])
    BY <1>1, <2>1, GuardsTyped DEF PipelineInv, GuardsHold
  <2>3. operation.scoped => context[1].tenant # NoTenant
    BY <1>1 DEF PipelineInv, GuardsHold
  <2> QED BY <1>1, <2>1, <2>2, <2>3 DEF RunsInNamedScope, PipelineInv, ContextIsNamed
<1> QED BY <1>1, PipelineInvariant, PTL

(* The reply to a request that was refused by the extractor, a guard or a  *)
(* context without a tenant blames the part of the request, or of its      *)
(* context, that is at fault.                                              *)
THEOREM BlamesRightly == PipelineSpec => []BlameIsRight
<1>1. ASSUME PipelineInv PROVE BlameIsRight
  <2> SUFFICES ASSUME payload # <<>>, error \notin RaisedLater PROVE BlameIsRight
    BY DEF BlameIsRight
  <2>1. /\ stage = "replied" /\ payload[1] = Fallback(Raised)
        /\ error # NoError /\ Raised.class = error
        /\ error \notin RaisedLater => Raised.code = "default"
        /\ CallId(Raised) = IF context # <<>> THEN "given" ELSE "none"
    BY <1>1 DEF PipelineInv, ReplyIsOfError, StagesInOrder, Raised, RaisedLater, CallId
  <2>2. IF context = <<>>
        THEN Reason(error)
        ELSE \/ error = "ContextError" /\ operation.passing = "elsewhere"
             \/ error = "TenantRequiredError" /\ context[1].tenant = NoTenant
             \/ error = "ActorRequiredError" /\ context[1].type = "anonymous"
    BY <1>1, <2>1 DEF PipelineInv, ErrorHasReason, Reason
  <2>3. error \in {"InvalidActorError", "ActorRequiredError", "InvalidTenantError",
                   "TenantRequiredError", "InvalidCorrelationIdError",
                   "ContextExtractionError", "ContextError"}
    BY <2>2 DEF Reason
  <2>4. /\ payload[1].status =
              CASE error \in {"InvalidActorError", "ActorRequiredError"} -> 401
                [] error \in {"InvalidTenantError", "TenantRequiredError"} -> 403
                [] error = "InvalidCorrelationIdError" -> 422
                [] OTHER -> 400
        /\ payload[1].id = CallId(Raised)
    BY <2>1, <2>3, ContextErrorReply
  <2> DEFINE status == payload[1].status
  <2>5. /\ status \in {400, 401, 403, 422}
        /\ status = 401 => error \in {"InvalidActorError", "ActorRequiredError"}
        /\ status = 403 => error \in {"InvalidTenantError", "TenantRequiredError"}
        /\ status = 422 => error = "InvalidCorrelationIdError"
        /\ status = 400 => error \in {"ContextExtractionError", "ContextError"}
    BY <2>3, <2>4
  <2>6. payload[1].id = "given" <=> context # <<>>
    BY <2>1, <2>4
  <2> HIDE DEF status
  <2>7. /\ status = 401 => IF context # <<>> THEN context[1].type = "anonymous"
                           ELSE request.actor \notin {"a1", "A1"}
        /\ status = 403 => IF context # <<>> THEN context[1].tenant = NoTenant
                           ELSE request.tenant \notin {"t1", "T1"}
        /\ status = 422 => context = <<>> /\ request.correlation \in {"empty", "malformed"}
        /\ status = 400 => \/ request.shape = "unsupported" \/ request.type = "malformed"
                           \/ operation.passing = "elsewhere"
    BY <2>2, <2>5 DEF Reason
  <2> QED BY <2>5, <2>6, <2>7 DEF BlameIsRight, status
<1> QED BY <1>1, PipelineInvariant, PTL

(* The log tells what happened to the request, on every way through the    *)
(* components and whatever hooks, validators, log output and operation     *)
(* raise: the two successes before an operation that ran, a refusal right  *)
(* before the error it was replied to with, and the id of the context in   *)
(* all of it.                                                              *)
THEOREM TraceIsTrue == PipelineSpec => []TraceOfTheRequest
<1>1. ASSUME PipelineInv PROVE TraceOfTheRequest
  <2>1. /\ Typed /\ records \in Seq(Events)
        /\ \A i \in DOMAIN records : records[i].id = ContextId
    BY <1>1 DEF PipelineInv, Typed, LogFollowsStages
  <2>2. /\ Len(records) \in Nat /\ DOMAIN records = 1..Len(records)
        /\ (records # <<>> => Len(records) > 0)
    BY <2>1
  <2>3. context # <<>> /\ request.correlation # "absent" => ContextId = Normal(request.correlation)
    BY <1>1 DEF PipelineInv, ContextIsNamed, ContextId
  <2>4. stage = "ran" =>
            records = <<Event("authorization", "SUCCESS"), Event("validation", "SUCCESS")>>
    BY <1>1 DEF PipelineInv, LogFollowsStages
  <2>5. ASSUME payload # <<>>
        PROVE  /\ Last(records).about = "exception"
               /\ payload[1].text = "message" =>
                     Len(records) > 1 /\ records[Len(records) - 1].outcome \in {"DENIED", "FAILURE"}
               /\ payload[1].id = "none" <=> Last(records).id = NoId
    <3>1. /\ stage = "replied" /\ payload[1] = Fallback(Raised)
          /\ error # NoError /\ Raised.class = error
          /\ error \notin RaisedLater => Raised.code = "default"
          /\ CallId(Raised) = IF context # <<>> THEN "given" ELSE "none"
      BY <1>1, <2>5 DEF PipelineInv, ReplyIsOfError, StagesInOrder, Raised, RaisedLater, CallId
    <3>2. /\ records # <<>> /\ records[Len(records)].about = "exception"
          /\ RefusalAt(Len(records) - 1)
      BY <1>1, <3>1 DEF PipelineInv, LogFollowsStages
    <3>3. Last(records) = records[Len(records)] /\ Len(records) \in DOMAIN records
      BY <2>2, <3>2 DEF Last
    <3>4. Last(records).id = NoId <=> context = <<>>
      <4>1. Last(records).id = ContextId
        BY <2>1, <3>3
      <4>2. context # <<>> => context[1].correlation \in {"c1", Generated}
        BY <2>1 DEF Typed, Contexts
      <4> QED BY <4>1, <4>2 DEF ContextId, NoId, Generated
    <3>5. CASE error \in RaisedLater
      <4>1. context # <<>>
        BY <1>1, <3>1, <3>5 DEF PipelineInv, ErrorHasReason, RaisedLater
      <4>2. /\ payload[1].text = "message" =>
                  error \in {"AuthorizationApiError", "ValidationApiError"}
            /\ payload[1].id \in {"own", "given"}
        BY <3>1, <3>5, <4>1, LaterErrorReply
      <4>3. error \in {"AuthorizationApiError", "ValidationApiError"} =>
               Len(records) > 1 /\ records[Len(records) - 1].outcome \in {"DENIED", "FAILURE"}
        BY <2>2, <3>2 DEF RefusalAt
      <4> QED BY <3>2, <3>3, <3>4, <4>1, <4>2, <4>3
    <3>6. CASE error \notin RaisedLater
      <4>1. error \in {"InvalidActorError", "ActorRequiredError", "InvalidTenantError",
                       "TenantRequiredError", "InvalidCorrelationIdError",
                       "ContextExtractionError", "ContextError"}
        BY <1>1, <3>1, <3>6 DEF PipelineInv, ErrorHasReason
      <4>2. payload[1].id = CallId(Raised) /\ payload[1].text # "message"
        BY <3>1, <3>6, <4>1, ContextErrorReply
      <4> QED BY <3>1, <3>2, <3>3, <3>4, <4>2
    <3> QED BY <3>5, <3>6
  <2> QED BY <2>1, <2>3, <2>4, <2>5 DEF TraceOfTheRequest
<1> QED BY <1>1, PipelineInvariant, PTL

(* What require_tenant does achieve: a request that names an actor has a   *)
(* tenant once it is admitted, its own or one it was switched to; without  *)
(* an actor it may be admitted without one (see TenantIsRequired).         *)
TenantOfIdentified ==
    context # <<>> /\ request.shape = "headers" /\ extractor.requireTenant
        /\ ~Missing(request.actor) => context[1].tenant # NoTenant

THEOREM IdentifiedHaveTenants == PipelineSpec => []TenantOfIdentified
<1>1. ASSUME PipelineInv PROVE TenantOfIdentified
  <2> SUFFICES ASSUME context # <<>>, request.shape = "headers", extractor.requireTenant,
                      ~Missing(request.actor)
               PROVE  context[1].tenant # NoTenant
    BY DEF TenantOfIdentified
  <2>1. CASE switched # {}
    <3>1. switched = {context[1].tenant}
      BY <1>1, <2>1 DEF PipelineInv, ContextIsNamed
    <3>2. context[1].tenant \in OtherTenants
      BY <1>1, <2>1, <3>1 DEF PipelineInv, Typed
    <3> QED BY <3>2, TenantsAssumption
  <2>2. CASE switched = {}
    <3>1. Acceptable /\ Typed
      BY <1>1 DEF PipelineInv, StagesInOrder, AdmitsTheAcceptable
    <3>2. request.actor \in {"a1", "A1"} /\ request.tenant \in {"t1", "T1"}
      BY <3>1, RequestTyped DEF Acceptable, Missing
    <3>3. context[1].tenant = TenantOf(request.tenant)
      BY <1>1, <2>2 DEF PipelineInv, ContextIsNamed
    <3> QED BY <3>2, <3>3 DEF TenantOf, Normal, NoTenant
  <2> QED BY <2>1, <2>2
<1> QED BY <1>1, PipelineInvariant, PTL
==============================================================================
