SPECIFICATION FairSpec
CONSTANTS
  None = None
  CoreNum = 2
  FifoLen = 7
  HdrLen = 2
  Lens = {2}
  Modes = {"lazy", "asap"}
  PrefixLen = 1
  SizeMod = 16
  TimeMod = 16
  StartTime = 14
  StartSize = 8
  TickStep = 2
  MaxTicks = 2
  MaxRecords = 3
INVARIANTS
  TypeOK
  
PROPERTIES
  IsPipe
  BackOnlyIfLate
  
CHECK_DEADLOCK FALSE
