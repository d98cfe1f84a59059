SPECIFICATION Spec
CONSTANTS
  r1 = r1
  r2 = r2
  NoKey = NoKey
  Garbage = Garbage
  Reqs <- TwoReqs
  HashSize = 2
  AttnSize = 4
  MambaSize = 8
  NumBlocks = 5
  MaxOutputs = 2
  Workloads <- MCWorkloads
INVARIANTS
  StatesMatchTheirKeys
  RunningStatesAreRight
  TailServesItsPrompt
  FullBudgetAdvances
CHECK_DEADLOCK FALSE
