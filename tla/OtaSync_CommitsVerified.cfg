SPECIFICATION Spec
CONSTANTS
  N = 2
  PoolSize = 2
  MaxEnters = 2
  MaxDrops = 1
  MaxAir = 1
PROPERTY CommitsVerified
CHECK_DEADLOCK FALSE
