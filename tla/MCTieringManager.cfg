SPECIFICATION FairSpec
CONSTANTS
  r1 = r1
  r2 = r2
  a = a
  b = b
  c = c
  NoKey = NoKey
  Garbage = Garbage
  Keys <- ThreeKeys
  Reqs <- TwoReqs
  Workloads <- MCWorkloads
  MaxTiers = 2
  RequestLevel <- FirstIsRequestLevel
  LoadThreads = 1
  StoreThreads = 1
INVARIANTS
  ReadyKeysHoldTheirData
  FilesHoldTheirData
  TransfersOwnTheirSlots
  RefCountsAreExact
  JobsAreTracked
  VerdictsAreWanted
PROPERTIES
  ToldOnceAndLast
  LookupsAreDecided
CHECK_DEADLOCK FALSE
