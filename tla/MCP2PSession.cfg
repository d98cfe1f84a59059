SPECIFICATION FairSpec
CONSTANTS
  a = a
  b = b
  Keys <- TwoKeys
  MaxLoads = 3
  Workloads <- MCWorkloads
INVARIANTS
  SuccessMeansWritten
  AnsweredLoadsAreQuiet
  NoLoadIsForgotten
PROPERTIES
  LoadsAreAnswered
CHECK_DEADLOCK FALSE
