SPECIFICATION FairSpec
CONSTANTS
  a = a
  b = b
  c = c
  NoAgent = NoAgent
  Root = a
  Handoffs <- OneSubagent
  Agents = {a,b}
  Tools = {"sync","handoff","return","confirm","resume"}
  Arrivals = {"none","user","response","unsupported"}
  Answers = {FALSE, TRUE}
  Resumes = {FALSE,TRUE}
  PausedLimit = 1
  MaxCalls = 2
  MaxRuns = 2
  MaxRounds = 2
  MaxFaults = 1
  MaxCrashes = 1
PROPERTY RunTerminates
CHECK_DEADLOCK FALSE
