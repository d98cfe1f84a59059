SPECIFICATION ARCSpec
CONSTANTS
  k1 = k1
  k2 = k2
  k3 = k3
  k4 = k4
  j1 = j1
  j2 = j2
  Keys <- MCKeys
  JobIds <- MCJobIds
  NumBlocks = 2
  Scale = 2
SYMMETRY MCSymmetry
INVARIANTS
  ListsPartitionTheCache
  ARCEvictKeepsItsContract
