SPECIFICATION Spec
CONSTANTS
    Milli = 3
    Horizon = 10
    Never = Never
INVARIANTS OneEnd ChecksDisagreeOnlyAtTheEdge
