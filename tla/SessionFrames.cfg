SPECIFICATION Spec
CONSTANTS
  a = a
  b = b
  c = c
  NoAgent = NoAgent
  Root = a
  Handoffs <- Triangle
  Agents = {a,b,c}
  Tools = {"handoff","return","async"}
  Arrivals = {"none","user","response"}
  Answers = {TRUE}
  Resumes = {FALSE,TRUE}
  PausedLimit = 5
  MaxCalls = 2
  MaxRuns = 3
  MaxRounds = 3
  MaxFaults = 1
  MaxCrashes = 1
INVARIANTS QueueMirror RootAtBottom FramesFollowHistory OnePlace TypeOK
PROPERTIES NoInputLost ImplementsLedger
SYMMETRY Subagents
CHECK_DEADLOCK FALSE
