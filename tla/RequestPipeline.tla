---------------------------- MODULE RequestPipeline ----------------------------
(***************************************************************************)
(* A request on its way through all components: the extraction of its      *)
(* context and the guards (ContextExtraction), the protect wrapper, the    *)
(* validation adapter, the operation, and handle_exception for what is     *)
(* raised on the way.  How hooks decide and validators find is the subject *)
(* of AuthorizationMiddleware and ValidationChain; here they may do        *)
(* anything those allow.  Every component writes to one log, whose output  *)
(* may raise.  The order of the decorators, and handle_exception being     *)
(* called with the context if there is one, are the endpoint's part.       *)
(***************************************************************************)
EXTENDS ContextExtraction

VARIABLE records     \* the events written to the log

pipelineVars == <<vars, records>>

NoId == "NoId"

ContextId == IF context = <<>> THEN NoId ELSE context[1].correlation

(* log_operation and log_error: the ids in an event are those of the       *)
(* context, or none.                                                       *)
Event(about, outcome) ==
    [about |-> about, outcome |-> outcome, id |-> ContextId,
     tenant |-> IF context = <<>> THEN NoTenant ELSE context[1].tenant]

Log(about, outcome) == records' = Append(records, Event(about, outcome))

PipelineInit == Init /\ records = <<>>

-----------------------------------------------------------------------------
Proceed(s) == stage' = s /\ UNCHANGED error

(* check_authorization writes the record, require_authorization goes by    *)
(* the decision: any but ALLOW raises.                                     *)
Authorize(allowed) ==
    /\ Guarded
    /\ Log("authorization", IF allowed THEN "SUCCESS" ELSE "DENIED")
    /\ IF allowed THEN Proceed("authorized") ELSE Raise("AuthorizationApiError")
    /\ UNCHANGED <<inputs, passed, context, switched, payload>>

(* Slip: a failed validation is recorded only. *)
ValidateLeniently(valid) ==
    /\ stage = "authorized"
    /\ Log("validation", IF valid THEN "SUCCESS" ELSE "FAILURE")
    /\ Proceed("validated")
    /\ UNCHANGED <<inputs, passed, context, switched, payload>>

Validate(valid) ==
    /\ stage = "authorized"
    /\ Log("validation", IF valid THEN "SUCCESS" ELSE "FAILURE")
    /\ IF valid THEN Proceed("validated") ELSE Raise("ValidationApiError")
    /\ UNCHANGED <<inputs, passed, context, switched, payload>>

(* A hook, a validator, or the log output when the record is to be         *)
(* written, raises; so may the operation.                                  *)
Fail(class) ==
    /\ Guarded \/ stage \in {"authorized", "validated"}
    /\ Raise(class)
    /\ UNCHANGED <<inputs, passed, context, switched, payload, records>>

Operate ==
    /\ stage = "validated"
    /\ Perform
    /\ UNCHANGED records

(* handle_exception logs the error first; if that raises, the exception    *)
(* takes the place of the reply.                                           *)
LogError ==
    /\ stage = "failed"
    /\ Log("exception", "ERROR")
    /\ Proceed("handled")
    /\ UNCHANGED <<inputs, passed, context, switched, payload>>

OutputRaises ==
    /\ stage = "failed"
    /\ Proceed("escaped")
    /\ UNCHANGED <<inputs, passed, context, switched, payload, records>>

MapException == stage = "handled" /\ ReplyTo /\ UNCHANGED records

(* The mapper raises itself: it was registered with while it looked for a  *)
(* custom mapper, or that one raised.                                      *)
MappingRaises ==
    /\ stage = "handled"
    /\ Proceed("escaped")
    /\ UNCHANGED <<inputs, passed, context, switched, payload, records>>

Entry ==
    \/ Refuse \/ ExtractActor \/ ExtractAnonymous \/ CreateSystem
    \/ Call \/ PassGuard \/ FailGuard

Progress ==
    \/ Entry /\ UNCHANGED records
    \/ \E ok \in BOOLEAN : Authorize(ok) \/ Validate(ok)
    \/ \E class \in {"RuntimeError", "ValueError"} : Fail(class)
    \/ Operate \/ LogError \/ OutputRaises \/ MapException \/ MappingRaises

PipelineNext == Progress \/ (\E t \in OtherTenants : WithTenant(t) /\ UNCHANGED records)

PipelineSpec == PipelineInit /\ [][PipelineNext]_pipelineVars

(* The thread that serves the request goes on, and what it calls returns   *)
(* or raises.                                                              *)
FairPipelineSpec == PipelineSpec /\ WF_pipelineVars(Progress)

-----------------------------------------------------------------------------
Of(about) == SelectSeq(records, LAMBDA e : e.about = about)

(* What stands in the log is what happened, for every way through the      *)
(* components: an operation ran only after an authorization and then a     *)
(* validation were recorded as successful, for the id and the tenant it    *)
(* runs with; a request that was refused by one of them has that refusal   *)
(* in the log right before the error it was replied to with.  One id holds *)
(* the request together, that of its header if it had one: all its events  *)
(* carry the id of its context, and the reply carries it exactly if the    *)
(* error was logged with it.                                               *)
TraceOfTheRequest ==
    LET before == IF Len(records) > 1 THEN records[Len(records) - 1] ELSE Event("none", "none")
    IN  /\ stage = "ran" =>
              records = <<Event("authorization", "SUCCESS"), Event("validation", "SUCCESS")>>
        /\ payload # <<>> =>
              /\ Last(records).about = "exception"
              /\ payload[1].text = "message" => before.outcome \in {"DENIED", "FAILURE"}
              /\ payload[1].id = "none" <=> Last(records).id = NoId
        /\ \A i \in DOMAIN records : records[i].id = ContextId
        /\ context # <<>> /\ request.correlation # "absent" => ContextId = Normal(request.correlation)

(* A request never ends up nowhere: its operation ran, or it was replied   *)
(* to, or an exception of the log output or the mapper left                *)
(* handle_exception.                                                       *)
EveryRequestEnds == <>(stage \in {"ran", "replied", "escaped"})
=============================================================================
