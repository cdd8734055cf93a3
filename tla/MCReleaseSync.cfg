SPECIFICATION FairSpec
CONSTANTS
  Jobs = {j1, j2, j3}
  MaxVersion = 2
  FaultSets <- FaultCombinations
  None = None
INVARIANTS
  TypeOK
  CacheIsWhole
PROPERTIES
  SyncEnds
CHECK_DEADLOCK FALSE
