SPECIFICATION FairSpec
CONSTANTS
    r1 = r1
    v1 = v1
    v2 = v2
    None = None
    Calls = {r1}
    Validators = {v1, v2}
    MaxValidators = 3
INVARIANTS TypeOK OutcomeOfAll RecordTellsOutcome
PROPERTIES EveryCallEnds
CHECK_DEADLOCK FALSE
