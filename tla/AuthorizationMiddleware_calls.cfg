SPECIFICATION FairSpec
CONSTANTS
    r1 = r1
    r2 = r2
    audit1 = audit1
    any1 = any1
    any2 = any2
    NoHook = NoHook
    Requests = {r1, r2}
    Hooks = {any1}
    MayAnswer <- MCMayAnswer
    MaxChain = 2
    HooksGiven = FALSE
    GivenDefault = "DENY"
    FailOpen = TRUE
INVARIANTS TypeOK AuditTellsTheTruth ExecutedWasAllowed
PROPERTIES EveryCallEnds
