SPECIFICATION Spec
CONSTANTS
    m1 = m1
    m2 = m2
    other = other
    h1 = h1
    k1 = k1
    HttpContextExtractor = HttpContextExtractor
    CompositeAuthorizationHook = CompositeAuthorizationHook
    Nothing = Nothing
    Contracts = {HttpContextExtractor, CompositeAuthorizationHook}
    ExtractorContract = HttpContextExtractor
    HookContract = CompositeAuthorizationHook
    Values = {m1, m2, other}
    Falsy = {}
    Callable = {HttpContextExtractor, CompositeAuthorizationHook, m1, m2}
    Offered <- MCOffered
    Callers = {k1}
    Containers = {m1, m2}
    Hooks = {h1}
INVARIANTS TypeOK CallsAreOfOneMoment NeverFallsBack HooksReachResolvers PairIsOneContainers
SYMMETRY MCSymmetry
