SPECIFICATION Spec
CONSTANTS
    triage = triage
    billing = billing
    Agents <- TwoAgents
    Root = triage
    Mysql = TRUE
    EmptyAnswers = TRUE
    Crashes = TRUE
    KeepRounds = 1
    SoftTokens = 2
    HardTokens = 3
    SoftRounds = 0
    HardRounds = 0
    MaxArtifacts = 3
    MaxTexts = 3
    MaxWorkers = 3
    MaxVersion = 5
    MaxWork = 1
    MaxRuns = 2
INVARIANT TypeOK
PROPERTY LeaseKept
CHECK_DEADLOCK FALSE
