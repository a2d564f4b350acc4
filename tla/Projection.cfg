SPECIFICATION Spec
CONSTANTS
  main = main
  sub = sub
  aide = aide
  Agents = {main, sub, aide}
  Root = main
  Plain = {"look"}
  MaxInputs = 4
  MaxCalls = 3
  MaxPauses = 1
  MaxWithdrawn = 1
INVARIANTS CallsAnsweredToSwitch ToldOnce NoStaleConclusion
SYMMETRY Subagents
CHECK_DEADLOCK FALSE
