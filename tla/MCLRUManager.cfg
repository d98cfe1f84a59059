SPECIFICATION LRUSpec
CONSTANTS
  k1 = k1
  k2 = k2
  k3 = k3
  k4 = k4
  j1 = j1
  j2 = j2
  j3 = j3
  Keys <- MCKeys
  JobIds <- MCJobIds
  NumBlocks = 3
SYMMETRY MCSymmetry
INVARIANTS
  TypeOK
  SlotsAreExclusive
  NoSlotLeaks
  CountersAreExact
  RefCountsAreExact
  JobsHoldTheirBlocks
  EvictableListIsExact
  LRUEvictKeepsItsContract
PROPERTIES
  SlotsStayPutDuringTransfers
  ImplementsStore
