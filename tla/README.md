# TLA+ development for EIAMS

This directory holds a formal model of the Enterprise Identity and Access
Management Service (`src/src/eiams`): TLA+ modules for the parts that have state
and control, TLC runs on small instances, and theorems checked by TLAPS.
`PROJECT.json` indexes it: which definition models which lines, what each run
checks, the slips (mutants) that each property catches, and the hazards of the
code with the properties aimed at them.

EIAMS is a Python library of a hexagonal shape. It has no server loop, no
database and no locks. What makes it hard is that a few mutable objects (the
list of hooks, the dict of mappers, the registries of loggers and of the
mapper) are shared by all requests of a process, that requests run in threads,
and that callbacks (hooks, mappers, log outputs) run in the middle of the
code's own loops and may raise.

## Inventory

| Component | State | Operations | Interacts with | What makes it correct |
|---|---|---|---|---|
| Authorization hooks `infrastructure/adapters/authorization_hook.py` | the list `_hooks`, `_default_decision`; per evaluation: iterator, current hook | `add_hook`, `remove_hook`, `authorize` | called by the middleware; calls hooks | the first decisive hook wins, whatever is added or removed meanwhile |
| Authorization middleware `authorization_middleware.py` | the composite, the logger; per call: decision | `register_hook`, `check_authorization`, `require_authorization`, `protect` | hooks, structured logging, the protected operation | an operation runs only if allowed; the log tells what happened |
| Exception mapping `shared/errors/exception_mapping.py` | the dict of custom mappers; the default mapper | `register_mapper`, `map_exception`, `get_exception_mapper` | called by the validation adapter; API and domain errors | the first matching mapper, else the most specific class, decides; mapping never fails |
| API and domain errors `shared/errors` | immutable | constructors, `with_correlation_id`, `to_payload` | everywhere | class hierarchy and codes match the classification |
| Transport extraction `transport.py` | flags | `extract_context` | request context factory, value objects | exactly the acceptable requests get a context; the rest get the right error |
| Request context `shared/context/request_context.py` | immutable | factories, `with_tenant`, `tenant_id` | value objects | a context holds normalised, validated values |
| Guards `shared/context/guards.py` | none | `require_*`, decorators | request context | an operation runs only in a context its guards accept |
| Value objects `shared/kernel/value_objects.py` | immutable | constructors, `generate`, `to_iso` | everywhere | validation and normalisation; ordering of timestamps |
| Structured logging `structured_logging.py` | `_loggers`; builder fields | `get_logger`, builder, `log_operation`, `log_error` | redaction; used by middleware and validation | one logger per name; an event is about the contexts its builder was given, and no others |
| Redaction `redaction.py` | config | `redact` | logging, exception mapping | nothing sensitive survives, down to the depth limit |
| Validation `validation.py` | list of validators | `add_validator`, `validate`, `validate_request`, `handle_exception` | logging, exception mapping | aggregation; an error is logged, then mapped |
| Registry and container `composition/container.py` | three dicts; the container's fields | `register*`, `resolve`, `create_container` | hooks, extractor | what is resolved is what was registered |
| Domain contracts, ports, services | data classes and interfaces | expiry predicates | - | boundaries of validity |
| Persistence, tests | - | - | - | not modelled (an empty package; static checks) |

Hard behaviours, each with its line in `PROJECT.json` under `hazards`: edits
of the hook list while it is iterated, a dict that grows while it is iterated,
two threads that create the same object, the gap between decision and
execution, exceptions of hooks and of the log in the middle of a call,
headers with several defects at once, stale fields of a builder, registries
that disagree.

## Modules

| Module | Models | Notes |
|---|---|---|
| `AtomicHookChain` | what the composite's docstring promises: one atomic decision against the whole chain | abstract specification |
| `HookChain` | `CompositeAuthorizationHook` | one action per list operation and per step of the loop |
| `HookChain_proofs` | theorems about `HookChain` | TLAPS |
| `ReferenceMonitor` | what protecting an operation promises | abstract specification, extends `AtomicHookChain` |
| `AuthorizationMiddleware` | `protect` and all it calls | composes `HookChain` (INSTANCE) with the wrapper and the audit log |
| `AuthorizationMiddleware_proofs` | theorems about `AuthorizationMiddleware`, both refinements included | uses the theorems of `HookChain_proofs` through an instance |
| `ErrorClassification` | the error classes and the isinstance chains of the mapper | constant operators only |
| `ExceptionMapper` | `register_mapper` and `map_exception` with its dict iteration, for several mapper objects | extends `ErrorClassification` |
| `LazyRegistry` | `get_logger` and `get_exception_mapper` | two functions of the same shape |
| `DefaultMapper` | the default mapper: what the callers of `get_exception_mapper` do with what they got | composes `ExceptionMapper` and `LazyRegistry` |
| `ExceptionMapper_proofs` | theorems about `ErrorClassification`, `ExceptionMapper`, `LazyRegistry` and `DefaultMapper` | TLAPS |
| `ContextExtraction` | headers, context, guards, error reply | extends `ErrorClassification` |
| `RequestPipeline` | a request through extraction, guards, authorization, validation, operation and `handle_exception`, with the log | extends `ContextExtraction` |
| `RequestPipeline_proofs` | theorems about `RequestPipeline` and `ContextExtraction` | TLAPS |
| `ValidationChain` | `CompositeValidator` and `validate_request` | shared list, step-wise walk |
| `ValidationChain_proofs` | theorems about `ValidationChain` | TLAPS |
| `Redaction` | `SecretRedactor` | constant operators only |
| `LogEvents` | `LogEventBuilder`, `log_operation`, `log_error` | extends `Redaction` |
| `StructuredLogging_proofs` | theorems about `LogEvents` and `Redaction` | TLAPS |
| `ModuleRegistry` | the three dictionaries, `resolve`, `is_registered` | one action per look |
| `ModuleContainer` | `ModuleContainer`, several over one registry | extends `ModuleRegistry` |
| `ModuleContainer_proofs` | theorems about `ModuleContainer` and `ModuleRegistry` | TLAPS |
| `Lifetimes` | `Timestamp` and the expiry predicates | the services around them are external |
| `Lifetimes_proofs` | theorems about `Lifetimes` | TLAPS |
| `MC*` | constants and symmetry for TLC | |

Definitions whose comment begins with "Slip:" are not part of the program.
Each is a plausible wrong version of the definition after it, and shows that
some property notices the difference.

### How state and actions correspond to the code

**HookChain.** `chain` is `_hooks`. A `for` loop over a list keeps an index and
compares it with the current length each time, so `cursor[r]` is that index,
`Fetch` the successful comparison together with the call, `Exhaust` the failed one. A
hook's answer arrives in a later step (`Abstain` or `Answer`), so list edits come between
the call and the return, which covers edits by other threads as well as by the
hook itself. `list.append` and `list.remove` are single steps because they hold
the interpreter lock and hooks compare by identity. `verdict` fixes what each
hook answers to each request: hooks are external and may answer anything their class can, but
the same for the same context and operation. `asked`, `behind` and `present` are history variables: the
program does not have them. `behind[r]` counts removals at or before the cursor and
saturates at `MaxChain`. Each request is one evaluation; repeated calls are
further elements of `Requests`.

**AuthorizationMiddleware.** `stage[r]` is the place of the call in
`wrapper` -> `require_authorization` -> `check_authorization`. Writing the audit
record and raising from the log output are alternatives. Edits of the chain are
`HookChain`'s own actions. The logger is one sequence, `audit`.
`ChainDefault` is the constructor's choice of a default decision.

**ExceptionMapper.** A dict iterator remembers the size of the dict; it raises
`RuntimeError` when the size differs at the next call of `next`, even at the end.
That is `DictChanged`. Replacing the value of a key changes no size, and the new
value is seen by iterators that have not reached it: `version[o][t]` tells which
registration, counted over all objects, the dict of mapper `o` holds for type `t`. A
custom mapper is external and returns or raises. Texts are abstracted to where they come
from. An API error has the code its class defaults to or, where the constructor takes
one, a code of its own, which the mapper keeps.

**LazyRegistry.** An object is named after the call that made it. The test, the store and
the final read are separate steps, as they are separate bytecodes on a global. `settled`
is history: the calls that returned while nobody was still to store an object.

**DefaultMapper.** Each caller gets the mapper, keeps it (as `ValidationAdapter` does) and
registers types with it, any number of times, types of others included: a registration for an equal
type *replaces* the mapper another caller registered. The callers in `Calls` map one
exception each, of a class chosen when they begin. `made` and `promised` are history: the
last registration of each type by a caller in `settled`, and what this was when a call
began to map.

**ContextExtraction.** A header value is absent, empty, malformed or one of a
few well-formed spellings. `HeaderChecks` lists the refusals in the code's order, with the
class that leaves `extract_context` after the two `except` clauses; the last two are found
by `create`, which is called for identified requests only (`IfIdentified`).
The decorated operation has any stack of guards, and is called with the context where the
guards look for it or elsewhere. `with_tenant` may be called any number of times;
`switched` is history, the tenant of the last call. `Reply` is
`handle_exception`, which maps the error with the context's correlation id.
`CreateSystem` enters the same life from inside the program.

The stages from "authorized" on belong to `RequestPipeline`.

**RequestPipeline.** The repository has the parts and no endpoint that puts them
together. The order of the decorators (guards outside, then `protect`, then
validation) and calling `handle_exception` with the context if there is one are
therefore external. Authorization and validation may have any outcome that
`AuthorizationMiddleware` and `ValidationChain` allow: success, refusal, or
an exception (`Fail`) of a hook, a validator or the log output, without a record. The record and
the outcome are one step here; what lies between them is the subject of those two modules.
`LogError` comes before `MapException`, and when the output raises in it
the exception escapes (`OutputRaises`) and there is no reply; the same when the mapper
raises (`MappingRaises`): a type was registered with it while it looked for a custom mapper, or
a custom mapper raised. What a custom mapper replies when it does return is left out here, so
replies are those of the fixed classification.

**ValidationChain.** `list` is `_validators`; `validators or []` makes it the
caller's own list unless that is empty, hence `aliased`, and what is appended on either
side appears on both. Removals by the caller are not modelled; the repository has none. The walk
is as in `HookChain`. What a validator finds is one of four kinds, of which a
value that is `None` and a failure without errors add nothing to the errors. A single
validator is a composite of one. Writing the record and concluding are separate steps.

**Redaction.** What becomes of a leaf depends on the way down to it alone, so a
value is represented by its paths and `Redact` maps a path. The two passes over an
exception (in `exception` and in `build`) are two applications, the second
one level deeper and over the dict the first one made.

**LogEvents.** `object` is one path of an object that other code changes.
`extra` keeps a reference, so `Built` reads `object` when the event is built;
`exception` keeps what it made at once. Threads share nothing but that object,
so one thread and an object that changes arbitrarily show all there is. Names of extra
data add up, as in `dict.update`; `exception` is the one name that `extra` and
`exception(exc)` share, and whichever is called last wins. `log_error` has a parameter of
that name, so its own extra data cannot use it. `given`, `raised` and
`source` are history. The plain setters (`message`, `operation`, ...) are left out.

**ModuleRegistry and ModuleContainer.** `contract in table` and
`table[contract]` are one step, since no key is ever removed; the three looks of
`resolve` and of `is_registered` are three steps. `begun`, `possible` and `crossed`
are history: what one look at the begin, and at each moment since,
would have found, and which tables were written meanwhile. A container's extractor
and its default composite are named after it. Containers share the registry;
a container with a registry of its own is the case of one container.
`__post_init__` is two steps.

**Lifetimes.** Time is counted in microseconds, and `Milli` of them make the
unit that `to_iso` keeps. Issuing, encoding, loading and checking
happen in services the repository only declares, so they happen at any time, in any order
and any number of times; what they compute is the code's. `tokenCheck` and `sessionCheck`
are history: what was found last, and when. The clock does not go backwards.

## Runs

| Run | Bounds | Shows |
|---|---|---|
| `chain_edit` | 1 request, 3 hooks (one only logs), chain of at most 3 | order, overlooked hooks, linearization and termination, under arbitrary edits |
| `chain_removal` | as `chain_edit`, chain of at most 4 | violated: see Findings |
| `middleware_calls` | 2 requests, 1 hook, chain of at most 2, default ALLOW (fail open) | audit, mediation and termination |
| `middleware_monitor` | 2 requests, 2 hooks, chain of at most 3, default NOT_APPLICABLE | refinement of `ReferenceMonitor`, and of `AtomicHookChain` by the chain inside |
| `default_mapper` | 2 callers, 1 of them maps an exception of any class; 3 overlapping types, 3 registrations | which mapper and which branch; the race ends; nothing is lost besides it; termination |
| `request_pipeline` | every combination of header values, flags, stacks of at most 2 guards and ways to pass the context; 2 other tenants; every outcome of each component | admission, scope, error replies, the trace in the log, termination |
| `extraction_tenant` | the same, extraction and guards only | violated: see Findings |
| `validation_calls` | 1 call, 2 validators, lists of at most 3 | aggregation, the record, termination |
| `log_events` | 1 thread, 3 contexts (one without tenant), `max_depth` 3, objects of at most 3 links (4 inside `extra`, 5 as an exception) | redaction is complete and no more than that; whom an event is about |
| `log_tenant` | as `log_events` | violated: see Findings |
| `container` | 2 containers, 1 caller, 1 hook, one foreign object that cannot be called | `resolve` and `is_registered` under interleaving; containers over one registry |
| `lifetimes` | 3 microseconds to a millisecond, a clock of 10 | one expiry in all predicates and through serialisation; checks at two instants |

Why the bounds are enough: evaluations share only the chain and never write
it, so one request against arbitrary edits already sees all that several would;
two are used where they meet (the audit log, the abstract specification).
A chain of three with duplicates, edited without limit on the number of edits,
lets a hook be consulted, removed and registered again, and two hooks be
overlooked by one faulty removal. In the mapper, `DomainError` and
`AuthorizationError` overlap and `ValueError` is apart from both; three registrations are
a type, another before or after it, and a replacement. Two callers are the least that race: each
may make a mapper, the second replacing the first one's, and a caller that comes after the race shares
the other's, so that either replaces what the other registered. The
same holds of validations: they share the list and read it only, so one call
against arbitrary appends suffices, and three validators hold every order of a
value, a value after it and errors. Callers of the registry do not write, so one of them, against
registrations of every kind, is enough, and two containers are the least
that can tear a pair. The attached objects reach one level beyond `max_depth`
on either way into an event. Three microseconds have an instant at, after and
right before the end of a millisecond. Every bound
(`MaxChain`, `MaxRegistrations`, `MaxValidators`, `MaxLinks`, `Horizon`,
one `AddAuthorizationHook` for each container and hook, two
contexts for each builder) is a guard of the
action that would exceed it; `MaxGuards` bounds the stacks of guards of `Operations`.
Two guards are every guard alone, both orders and a repetition. Two tenants to switch to show
that the last switch counts, and `WithTenant` needs no bound, since `switched` keeps only that one. Theorems do not depend on the bounds' values.

`CHECK_DEADLOCK FALSE` is set where the instance stops because its calls are
over and its bounds are used up.

## Fairness

`FairSpec` (`FairDefaultSpec` for calls of `map_exception`) asks weak fairness of the steps of each call: a thread in the middle
of a loop is scheduled by the interpreter, and hooks, mappers, log outputs and
operations return or raise. No fairness is assumed of edits and registrations,
so calls must end when these stop and when they do not. `EvaluationEnds` with a
chain that can grow depends on `MaxChain`: a hook that adds a hook at every
consultation, for ever, does keep the real loop alive. With the list
bounded, as it is in practice, even endless adding and removing does not.

`ValidationChain` has the same fairness per call, and the same remark about
appends without end. `FairPipelineSpec` asks weak fairness of all that the thread
which serves the request does, not of `with_tenant`: since each of those steps stays
enabled across a switch, even endless switching does not keep a request from its end.

## Theorems

`HookChain_proofs` proves, for any sets of requests and hooks, any answers and
any bound, from the four named assumptions of `HookChain`:

- `TypeCorrect`: `Spec => []TypeOK`.
- `EvaluationInOrder`: `Spec => []AskedInOrder`. `AskedInOrder` is not inductive
  by itself: `Answer` and `Abstain` speak of the current hook, `AskedInOrder`
  of the chain. `OrderInv` adds `WaitsAtCursor`: an evaluation that waits for
  an answer, and has had nothing removed behind it, waits for the hook at its cursor.
- `Linearizable`: `Spec => LinearizedAtReturn`. From `OrderInv`: at an `Answer`
  the hooks before the cursor abstained and the one at the cursor is decisive;
  at an `Exhaust` the cursor is at the end and all abstained.
- `AddOnlyRefinement`: `AddOnlySpec => ImplementsAtomic`. Nothing is removed, so
  each return is linearized, and every other step maps to `Add` or a stutter.
- `BoundedOverlook`: `Spec => []OverlookedBounded`. The count of overlooked
  hooks can rise on an *addition* (a hook added while the cursor is past the end
  lands behind it). The inductive `OverlookInv` therefore counts the lag as well,
  the places by which the list is shorter than the cursor: a removal raises overlooked + lag
  by at most one, an addition only turns lag into overlooked.

`StructuredLogging_proofs` proves of `LogEvents`, for any `max_depth`, any depth of the attached
object, any threads, contexts and changes:

- `LogsAreSafe` (`NothingSensitiveLogged`), `NoMoreIsRedacted` (`RedactedNoMore`),
  `EventsTellTheirContext` (`EventOfItsContext`) and `TypeCorrect`, from `LogInv`: a builder holds of
  an exception what one redaction of it leaves, and an event what its builder could build.
- Two lemmas about `Redact`: `RedactionIsSafe` (whatever the path and the
  depth, the result is safe) and `RedactKeeps` (within the limit and behind no sensitive key it is
  the path itself); `SecondPassKeeps` puts the two passes over an exception together. `Redact`
  is recursive along the path. An induction theorem over an operator is out
  of reach, but one over a *set* is not: `SetInduction` (a set that holds 0 and
  every successor of its members holds all of `Nat`) follows from facts
  about finite sets, and is applied to the set of the distances from the end of the path for which
  the claim holds.

`AuthorizationMiddleware_proofs` proves, for any requests, hooks, answers, bound
and either default, what the wrapper, the chain inside it and the log do together:

- `TypeCorrect` and `CompleteMediation` (`ExecutedWasAllowed`). The inductive
  `MediationInv` ties the two components: `StagesInOrder` says which stage of the
  wrapper goes with which stage of the evaluation, `Justified` that what an evaluation
  has asked justifies where it stands.
- `LogIsTrue` (`AuditTellsTheTruth`). `AuditInv` adds `RecordsFollowStages`: what the log
  holds of a call at each stage of its wrapper.
- `DecisionIsAtomic` (`AddOnlySpec => ImplementsAtomic`), from `AddOnlyRefinement`: every
  step of the wrapper is a step of the chain or leaves it alone.
- `NoStaleDecision` (`AddOnlySpec => ImplementsMonitor`, if the default is not ALLOW). Each
  `Execute` of the monitor is a call of the operation; it is allowed by the chain of
  that moment, not only of the moment of the decision, since an appended hook
  comes after the one that decided. With a default of ALLOW it would be false.

`ModuleContainer_proofs`, for any contracts, values, callers and containers:

- `TypeCorrect`, `ResolveNeverFallsBack` (`NeverFallsBack`) and `OneMoment`
  (`CallsAreOfOneMoment`), from `RegistryInv`. Of each call it says (`CallInv`) that what a look
  at its begin would have found is still there, perhaps with another value,
  that a table the call has passed did not hold the contract unless it was written
  meanwhile, and that what was found was possible when it was found.
- `AddedHooksAreResolved` (`HooksReachResolvers`) and `PairTornOnlyByOverlap`
  (`PairIsOneContainers`), from `ContainerInv`. Its part `OverlapIsNoted` speaks of half built
  containers too: one is half built with the extractor of another registered only
  if they were under construction together.

`ExceptionMapper_proofs`, for any mapper objects, types, calls and number of registrations, and either mode:

- `TypeCorrect` and `FirstDecides` (`FirstMatchDecides`), from `MapperInv`: each dict
  holds a type once and never moves it (`DictInv`), and a walk has passed only types that do not
  match (`WalkOf`). Registration lengthens a dict behind every walk (`RegisterKeepsOrder`,
  `WalksSurviveRegistration`).
- `NothingIsShadowed` (`MostSpecificBranch`): the isinstance chains reply what the most
  specific class calls for. No class is more than three levels below `Exception`, which makes
  `Ancestors` a set of four; `AncestorsClimb` relates the ancestors of a class to those of
  its parent, `TopIsNear` says that every chain ends at `Exception`, `RuledAbove` which of the
  classes above a class are tested for, and `NoBranchIsShadowed` that the first test
  that succeeds is the nearest one's.
- `RegistryTypeCorrect` and `RaceEnds` (`SettledIsFinal`) of `LazyRegistry`, for any
  set of callers (and the sentinel `NoObject` not among them).
- `DefaultMapperIsBoth`: a step of `DefaultMapper` is a step or a stutter of the mappers and one of
  the registry, so `DefaultSpec` implies both specifications, and the theorems above hold of it.
- `NothingIsLost` (`NothingLostOnceSettled`), by `DefaultInv`, which ties the two: whoever is in
  `settled` has the object the registry holds for good (`EntryInv`, `SharedMapper`), the dict of that
  object holds for each type the promised registration or a later one (`PromiseInv`), and a
  call under way took its promise from a dict that only grows.

`ValidationChain_proofs`, for any validators, calls and bound:

- `TypeCorrect`; `AllDecide` (`OutcomeOfAll`) from `AskedInv` (what a call
  has asked is a beginning of the list, and the list a supersequence of
  what was promised to it) and `GatheredInv` (value and errors are those of what was asked);
  `RecordIsTrue` (`RecordTellsOutcome`) from `RecordedInv`. The
  lemmas `PicksSkip`, `PicksTake` and `SubsequenceGrows` are about subsequences.

`Lifetimes_proofs`, for any length of a millisecond and any clock:

- `EndTogether` (`OneEnd`) from `SerializedOnce`: the encoded instant is
  `ToIso(expiresAt)` and `exp` is that or `expiresAt`, since `ToIso` cuts only once
  (`IsoCutsOnce`); `DisagreementIsAtTheEdge` (`ChecksDisagreeOnlyAtTheEdge`) from `ChecksTell`:
  what each of the two checks, whichever came first, tells of the present.

`RequestPipeline_proofs`, for any tenants to switch to, any number of switches, any bound on the
stack of guards and either mode of the mapper:

- The inductive `PipelineInv` has one part for each thing the components hand on: `StagesInOrder`
  (what there is at each stage), `AdmitsTheAcceptable` (inductive by itself), `ContextIsNamed`
  (whose tenant and actor the context has), `GuardsHold` (the guards behind the request),
  `ErrorHasReason` (each class of error is raised for its own reason), `ReplyIsOfError` and
  `LogFollowsStages` (what the log holds at each stage). No property speaks of a request that is
  on its way; the invariant has to, for each stage.
- `TypeCorrect`, `AdmitsExactly` (`AdmitsTheAcceptable`) by `ChecksFindFaults`: the list of
  checks is empty of faults exactly for the acceptable requests, and each check has its reason.
- `RunsInScope` (`RunsInNamedScope`); `BlamesRightly` (`BlameIsRight`) and `TraceIsTrue`
  (`TraceOfTheRequest`) with two lemmas about what the mapper replies to the errors a request can
  meet (`ContextErrorReply`, `LaterErrorReply`), which follow its branches by
  `OnlyBranchIsTaken` and `NoBranchIsTaken`.
- `IdentifiedHaveTenants` bounds the second finding: under `require_tenant` a request that names an
  actor always has a tenant once it is admitted, so anonymous requests are the only
  ones the documented promise fails for.

The assumptions are the named `ASSUME`s of the modules and no more: bounds are natural numbers,
the mapper objects are named after the callers that make them, hooks answer what their class can, contexts have an
id and a tenant, and a sentinel (`NoObject`, `NoHook`, `NoTenant`, `Nothing`, `Never`) is not one of the
values it is the absence of. TLC evaluates them in the runs. Each inductive invariant
named here was checked by TLC, on the instances of the runs, before it was proved.

Only model-checked: liveness (`EvaluationEnds`, `CallsEnd`, `EveryRequestEnds` and both
`EveryCallEnds`), since fairness and ENABLED are out of the prover's reach. Every invariant,
every action property and every refinement that a passing run checks is a theorem as well.

## Findings

Each is a run that TLC violates, with the text it contradicts:

1. `chain_removal`: removing a hook that was already consulted makes a running
   evaluation skip the next one; the default is returned although a registered hook would
   have decided (`authorization_hook.py:142` against its lines 86-88). No code in
   the repository besides its tests calls `remove_hook`.
2. `extraction_tenant`: with `require_tenant=True, require_actor=False`, which
   `create_container(require_tenant=True)` produces, an anonymous request is
   admitted without a tenant (`transport.py:199` against lines 127 and 148).
3. `log_tenant`: a builder that is given the context of a second request, one
   without a tenant, keeps the tenant of the first (`structured_logging.py:131`) and builds
   an event with the ids of one and the tenant of the other. `with_context` says "Set correlation,
   actor, and tenant from request context" (line 121). `EventOfItsContext` says what does hold: the
   tenant is that of the last context or else of an earlier one of the same builder, and in the
   events of `log_operation` and `log_error`, which make a builder for one context, that one's.

Noted without a run:

- `map_exception` raises `RuntimeError` when a type is first registered during
  the walk (`exception_mapping.py:97` against lines 84-85); `MappingNeverFails` in
  `ExceptionMapper` states what does not hold, and `MappingRaises` in `RequestPipeline`
  lets the request go without a reply then. `CallsEnd` and `EveryRequestEnds` count this as an end.
- Concurrent first calls create two loggers, or two default mappers, and the
  second replaces the first (`structured_logging.py:448` against line 441);
  `OneObject` in `LazyRegistry` states what does not hold. A mapper registered by a caller that
  raced for the first call may be lost to all others, and what others register to
  it. `SettledIsFinal` and `NothingLostOnceSettled` say that nobody else loses anything: except that
  a registration for an equal type replaces the one before it, as it does anywhere.
- `fail_open=True` has no effect when a composite is passed to the middleware
  (`authorization_middleware.py:85`); `ChainDefault` models it.
- `CompositeValidator.validate` documents "Returns the first successful value if
  any validator succeeds" (`validation.py:124`); it returns the last one, and
  only if there are no errors (lines 130-140). A failure without errors does not prevent
  acceptance, and a composite of `None` values refuses without saying why.
- `build` documents "all sensitive data redacted" (`structured_logging.py:236`);
  it redacts the extra data, not the message and the other plain fields.
- `resolve` is not one look at one moment: with an instance and then a factory
  registered during the call it can return the factory's product although the
  instance came first. `CallsAreOfOneMoment` says exactly when.

## Plan

Done: the modules above, in this order: the chain and its abstraction, the
middleware over it, the mapper, the registries and their composition, extraction; then the registry and
container, validation, redaction and log events, the pipeline, lifetimes.

Proved: every invariant, action property and refinement that the passing runs check.

To model: the shared `attributes` dict of protected operations.

## Not modelled

- `FieldValidator`, `AuthorizationGuard`, `to_dict`, `to_json` and other formatting: pure
  functions of one value, which unit tests reach.
- `CaptureLogOutput`'s queries and the plain setters of the builder.
- `verify_modules_instantiable` and `registered_contracts`: diagnostics that change no state.
- The repositories, services and ports of the domain: abstract classes. How
  they store and revoke is not in the repository.
- The replies of custom mappers in a request: they are free, and `RequestPipeline` speaks of the
  fixed classification only.
- Other code that registers a container's own extractor or composite again
  (`OfferedObjectsAssumption`): `register_instance` takes any object, but `PairIsOneContainers`
  could not tell such a call from the container's own.
- A switch of tenant while a decorated call is under way. Contexts are frozen and
  `with_tenant` makes another object, which the call does not see; so `WithTenant` is enabled before
  the call only.
- Import rules (static checks) and the persistence package (empty).
