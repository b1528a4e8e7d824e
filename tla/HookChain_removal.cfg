SPECIFICATION Spec
CONSTANTS
    r1 = r1
    r2 = r2
    audit = audit
    any1 = any1
    any2 = any2
    NoHook = NoHook
    Requests = {r1}
    Hooks = {audit, any1, any2}
    DefaultDecision = "DENY"
    MayAnswer <- MCMayAnswer
    MaxChain = 4
INVARIANTS DefaultMeansAllAbstained
SYMMETRY MCSymmetry
