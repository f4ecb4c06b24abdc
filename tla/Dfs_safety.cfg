SPECIFICATION FairSpec
CONSTANTS
  None = None
  Objs = {"init", "dsp80", "fixed"}
  Timeouts = {0, 2}
  MaxTimeout = 2
  MaxInputs = 3
INVARIANTS
  TypeOK
  ClockServes
  TimeoutComing
PROPERTIES
  EarlyOnlyIfRenewed
  HoldsEnd
CHECK_DEADLOCK FALSE
