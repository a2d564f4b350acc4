SPECIFICATION Spec
CONSTANTS
    Kept = FALSE
    MaxRuns = 3
    MaxInputs = 3
    MaxCalls = 2
    MaxFaults = 2
INVARIANTS
    OutputsBuild
    ToldWhole
    RowsInOrder
    StoredCanBeTold
CHECK_DEADLOCK FALSE
