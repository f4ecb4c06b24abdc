SPECIFICATION Spec
CONSTANTS
  Keys = {k1, k2}
  NSlots = 2
  QSize = 2
  MaxMsgs = 4
  AllocFails = TRUE
INVARIANT DeletesLiveTimer
CHECK_DEADLOCK FALSE
