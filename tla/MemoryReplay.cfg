SPECIFICATION Spec
CONSTANTS
    Kept = TRUE
    MaxRuns = 2
    MaxInputs = 2
    MaxCalls = 2
    MaxFaults = 0
INVARIANTS
    ToldWhole
CHECK_DEADLOCK FALSE
