SPECIFICATION Spec
CONSTANTS
  r1 = r1
  r2 = r2
  r3 = r3
  a = a
  b = b
  c = c
  b1 = b1
  b2 = b2
  b3 = b3
  b4 = b4
  w1 = w1
  w2 = w2
  NoKey = NoKey
  Garbage = Garbage
  Keys <- TwoKeys
  Reqs <- TwoReqs
  Prompt <- Nested
  Blocks <- ThreeBlocks
  NumSlots = 2
  JobIds = {1, 2, 3, 4}
  Workers <- OneWorker
  MaxBatches = 1
  ResetKinds = {"running"}
  MaxResets = 1
SYMMETRY BlockSymmetry
INVARIANTS
  PreemptionsOnlyFlushStores
