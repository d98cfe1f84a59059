SPECIFICATION Spec
CONSTANTS
  a = a
  b = b
  Keys <- TwoKeys
  MaxLoads = 3
  Workloads <- MCWorkloads
INVARIANTS
  RoundsAreIsolated
CHECK_DEADLOCK FALSE
