SPECIFICATION FairPipelineSpec
CONSTANTS
    SafeMode = TRUE
    OtherTenants = {"t2", "t3"}
    MaxGuards = 2
INVARIANTS TypeOK AdmitsTheAcceptable RunsInNamedScope BlameIsRight TraceOfTheRequest
PROPERTIES EveryRequestEnds
CHECK_DEADLOCK FALSE
