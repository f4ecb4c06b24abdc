SPECIFICATION FairSpec
CONSTANTS
  N = 3
  PoolSize = 2
  MaxEnters = 2
  MaxDrops = 2
  MaxAir = 2
INVARIANTS
  TypeOK
  NoHole
PROPERTIES
  
  SyncEnds
CHECK_DEADLOCK FALSE
