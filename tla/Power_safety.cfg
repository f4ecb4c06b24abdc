SPECIFICATION FairSpec
CONSTANT MaxInputs = 4
INVARIANTS
  TypeOK
  TimerAsNeeded
  CrashKeepsWish
PROPERTIES
  PendingEnds
  BtAsWanted
CHECK_DEADLOCK FALSE
