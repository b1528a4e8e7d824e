------------------------- MODULE ErrorClassification -------------------------
(***************************************************************************)
(* The fixed part of ExceptionMapper: how the class of an exception, and   *)
(* the code of a domain error, determine the status, the code and the kind *)
(* of text of the API payload.  A class is a string, isinstance is         *)
(* membership in its ancestors, and a text is "message" (that of the API   *)
(* error itself), "redacted", "generic" or "raw".                          *)
(***************************************************************************)
EXTENDS Integers, SequencesExt

CONSTANT SafeMode   \* the safe_mode argument of the mapper

(* The exception classes of the program and the standard ones it names. *)
Parent ==
    [ApiError |-> "Exception", ValidationApiError |-> "ApiError",
     AuthenticationApiError |-> "ApiError", AuthorizationApiError |-> "ApiError",
     NotFoundApiError |-> "ApiError", ConflictApiError |-> "ApiError",
     InternalApiError |-> "ApiError",
     DomainError |-> "Exception", ValidationError |-> "DomainError",
     ContextError |-> "DomainError", ContextExtractionError |-> "ContextError",
     TenantRequiredError |-> "ContextError", InvalidTenantError |-> "ContextError",
     ActorRequiredError |-> "ContextError", InvalidActorError |-> "ContextError",
     InvalidCorrelationIdError |-> "ContextError",
     AuthorizationError |-> "DomainError", PermissionDeniedError |-> "AuthorizationError",
     ValueError |-> "Exception", UnicodeError |-> "ValueError", TypeError |-> "Exception",
     KeyError |-> "Exception", PermissionError |-> "Exception", RuntimeError |-> "Exception"]

Classes == DOMAIN Parent \cup {"Exception"}

Above(k) == IF k = "Exception" THEN k ELSE Parent[k]

(* No class is more than three levels below Exception. *)
Ancestors ==
    [k \in Classes |-> {k, Above(k), Above(Above(k)), Above(Above(Above(k)))}]

(* isinstance(e, k) *)
IsA(e, k) == k \in Ancestors[e.class]

ResourceCodes == {"RESOURCE_NOT_FOUND", "RESOURCE_ALREADY_EXISTS", "RESOURCE_CONFLICT"}

(* The status and the code the constructors of the API errors set, unless  *)
(* they are given another code, which some of them take.                   *)
ApiReply ==
    [ApiError |-> <<400, "own">>, ValidationApiError |-> <<422, "VALIDATION_FAILED">>,
     AuthenticationApiError |-> <<401, "AUTHENTICATION_REQUIRED">>,
     AuthorizationApiError |-> <<403, "AUTHORIZATION_DENIED">>,
     NotFoundApiError |-> <<404, "RESOURCE_NOT_FOUND">>,
     ConflictApiError |-> <<409, "RESOURCE_CONFLICT">>,
     InternalApiError |-> <<500, "INTERNAL_ERROR">>]

TakesCode == {"AuthenticationApiError", "AuthorizationApiError", "ConflictApiError"}

(* The classes whose constructor takes a code, with the code it defaults to. *)
CodeDefault ==
    [DomainError |-> "VALIDATION_ERROR", ContextError |-> "CONTEXT_INVALID",
     AuthorizationError |-> "AUTHORIZATION_FAILED"]

(* Exceptions: a class; the code where the constructor leaves it open,     *)
(* that of an API error being "own"; and for an API error whether it       *)
(* carries a correlation id of its own; id tells whether the call is given *)
(* one.                                                                    *)
Exceptions ==
    {e \in [class : Classes, code : ResourceCodes \cup {"own", "default"}, own : BOOLEAN, id : BOOLEAN] :
        /\ e.code \in ResourceCodes => e.class \in DOMAIN CodeDefault
        /\ e.code = "own" => e.class \in TakesCode
        /\ e.own => e.class \in DOMAIN ApiReply}

Payload(status, code, id, text) == [status |-> status, code |-> code, id |-> id, text |-> text]

CallId(e) == IF e.id THEN "given" ELSE "none"

(* An API error passes through; it is copied only to add a correlation id. *)
PassThrough(e) ==
    Payload(ApiReply[e.class][1],
            IF e.code = "own" THEN "own" ELSE ApiReply[e.class][2],
            IF e.own THEN "own" ELSE CallId(e), "message")

(* One branch of a chain of isinstance tests: the classes it tests for and *)
(* what it replies.                                                        *)
Branch(classes, status, code, text) ==
    [classes |-> classes, status |-> status, code |-> code, text |-> text]

(* Slip: the test for the general class comes before the special one. *)
GeneralBranchFirst ==
    << Branch({"ValidationError"}, 422, "VALIDATION_FAILED", "redacted"),
       Branch({"ActorRequiredError", "InvalidActorError"}, 401, "AUTHENTICATION_REQUIRED", "redacted"),
       Branch({"TenantRequiredError", "InvalidTenantError"}, 403, "TENANT_ACCESS_DENIED", "redacted"),
       Branch({"InvalidCorrelationIdError"}, 422, "VALIDATION_FAILED", "generic"),
       Branch({"AuthorizationError"}, 403, "AUTHORIZATION_DENIED", "redacted"),
       Branch({"PermissionDeniedError"}, 403, "PERMISSION_DENIED", "redacted") >>

DomainBranches ==
    << Branch({"ValidationError"}, 422, "VALIDATION_FAILED", "redacted"),
       Branch({"ActorRequiredError", "InvalidActorError"}, 401, "AUTHENTICATION_REQUIRED", "redacted"),
       Branch({"TenantRequiredError", "InvalidTenantError"}, 403, "TENANT_ACCESS_DENIED", "redacted"),
       Branch({"InvalidCorrelationIdError"}, 422, "VALIDATION_FAILED", "generic"),
       Branch({"PermissionDeniedError"}, 403, "PERMISSION_DENIED", "redacted"),
       Branch({"AuthorizationError"}, 403, "AUTHORIZATION_DENIED", "redacted") >>

StandardBranches ==
    << Branch({"ValueError"}, 422, "VALIDATION_FAILED", "redacted"),
       Branch({"TypeError"}, 500, "INTERNAL_ERROR", "generic"),
       Branch({"KeyError"}, 422, "VALIDATION_FAILED", "generic"),
       Branch({"PermissionError"}, 500, "INTERNAL_ERROR", "generic") >>

(* The branch taken, or other when no test succeeds. *)
FirstBranch(branches, e, other) ==
    LET taken(i) == Ancestors[e.class] \cap branches[i].classes # {}
    IN  IF \E i \in DOMAIN branches : taken(i)
        THEN branches[CHOOSE i \in DOMAIN branches : taken(i) /\ \A j \in 1..(i - 1) : ~taken(j)]
        ELSE other

(* A domain error that no branch catches is classified by its code. *)
ByCode(e) ==
    Branch({}, CASE e.code = "RESOURCE_NOT_FOUND" -> 404
                 [] e.code \in {"RESOURCE_ALREADY_EXISTS", "RESOURCE_CONFLICT"} -> 409
                 [] OTHER -> 400,
           e.code, "redacted")

Unexpected == Branch({}, 500, "INTERNAL_ERROR", IF SafeMode THEN "generic" ELSE "raw")

Fallback(e) ==
    LET b == IF IsA(e, "DomainError") THEN FirstBranch(DomainBranches, e, ByCode(e))
             ELSE FirstBranch(StandardBranches, e, Unexpected)
    IN  IF IsA(e, "ApiError") THEN PassThrough(e)
        ELSE Payload(b.status, b.code, CallId(e), b.text)
==============================================================================
