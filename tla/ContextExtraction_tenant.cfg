SPECIFICATION Spec
CONSTANTS
    SafeMode = TRUE
    OtherTenants = {"t2", "t3"}
    MaxGuards = 2
INVARIANTS TenantIsRequired
CHECK_DEADLOCK FALSE
