SPECIFICATION AddOnlySpec
CONSTANTS
    r1 = r1
    r2 = r2
    audit1 = audit1
    any1 = any1
    any2 = any2
    NoHook = NoHook
    Requests = {r1, r2}
    Hooks = {any1, any2}
    MayAnswer <- MCMayAnswer
    MaxChain = 3
    HooksGiven = TRUE
    GivenDefault = "NOT_APPLICABLE"
    FailOpen = FALSE
PROPERTIES ImplementsMonitor ImplementsAtomic
SYMMETRY MCSymmetry
CHECK_DEADLOCK FALSE
