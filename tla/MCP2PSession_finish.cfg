SPECIFICATION Spec
CONSTANTS
  a = a
  b = b
  Keys <- TwoKeys
  MaxLoads = 2
  Workloads <- MCWorkloads
INVARIANTS
  SubmittedLoadsReport
CHECK_DEADLOCK FALSE
