SPECIFICATION Spec
CONSTANTS
  a = a
  b = b
  c = c
  NoAgent = NoAgent
  Root = a
  Handoffs <- NoHandoffs
  Agents = {a}
  Tools = {"async","confirm","resume"}
  Arrivals = {"none","user","response"}
  Answers = {FALSE, TRUE}
  Resumes = {FALSE,TRUE}
  PausedLimit = 1
  MaxCalls = 2
  MaxRuns = 3
  MaxRounds = 2
  MaxFaults = 1
  MaxCrashes = 1
INVARIANTS PausedAwaitsResponse ApprovedBeforeRun
PROPERTIES FinishedUnitsStay OnlyResponseWakes PausedTaskSurvives
CHECK_DEADLOCK FALSE
