SPECIFICATION FairSpec
CONSTANTS
    triage = triage
    billing = billing
    Agents <- TwoAgents
    Root = triage
    Mysql = FALSE
    EmptyAnswers = FALSE
    Crashes = FALSE
    KeepRounds = 1
    SoftTokens = 2
    HardTokens = 3
    SoftRounds = 2
    HardRounds = 3
    MaxArtifacts = 3
    MaxTexts = 2
    MaxWorkers = 2
    MaxVersion = 0
    MaxWork = 2
    MaxRuns = 2
INVARIANTS ToldOnce NothingLost
PROPERTIES LeaseEnds BuildEnds
CHECK_DEADLOCK FALSE
