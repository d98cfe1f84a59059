SPECIFICATION FairSpec
CONSTANTS
  r1 = r1
  r2 = r2
  r3 = r3
  a = a
  b = b
  c = c
  b1 = b1
  b2 = b2
  b3 = b3
  b4 = b4
  w1 = w1
  w2 = w2
  NoKey = NoKey
  Garbage = Garbage
  Keys <- OneKey
  Reqs <- OneReq
  Prompt <- Alone
  Blocks <- TwoBlocks
  NumSlots = 1
  JobIds = {1, 2, 3}
  Workers <- TwoWorkers
  MaxBatches = 1
  ResetKinds = {"cache", "connector"}
  MaxResets = 1
INVARIANTS
  CompletedJobsAreKnown
PROPERTIES
  JobsEnd
  FinishedRequestsGoAway
