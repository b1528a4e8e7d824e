SPECIFICATION Spec
CONSTANTS
    w1 = w1
    c1 = c1
    c2 = c2
    c3 = c3
    t1 = t1
    t2 = t2
    NoTenant = NoTenant
    None = None
    Threads = {w1}
    Contexts <- MCContexts
    MaxDepth = 3
    MaxLinks = 3
    Changes <- MCChanges
INVARIANTS TenantOfLastContext
