SPECIFICATION Spec
CONSTANTS
    Timeout = 1
    MaxId = 2
    MaxCalls = 3
    FlagValues = {TRUE}
INVARIANTS
    PathNamesOwnDialog
CHECK_DEADLOCK FALSE
