SPECIFICATION FairDefaultSpec
CONSTANTS
    c1 = c1
    c2 = c2
    Callers = {c1, c2}
    Calls = {c1}
    Mappers = {c1, c2}
    NoObject = NoObject
    Types = {"DomainError", "AuthorizationError", "ValueError"}
    MaxRegistrations = 3
    SafeMode = TRUE
INVARIANTS TypeOK FirstMatchDecides MostSpecificBranch RegistryTypeOK NothingLostOnceSettled
PROPERTIES CallsEnd SettledIsFinal
CHECK_DEADLOCK FALSE
