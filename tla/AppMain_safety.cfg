\* Two keys, two slots, a queue of three: the marker, a message ahead of it and
\* room for one that arrives during the rotation.
SPECIFICATION FairSpec
CONSTANTS
  Keys = {k1, k2}
  NSlots = 2
  QSize = 3
  MaxMsgs = 4
  AllocFails = TRUE
INVARIANTS TypeOK TriggerSound MarkerOwned OneOwner FifoUnlessMixed
PROPERTIES CancelComplete CancelLosesOnlyIfMixed EveryMessageSettles
\* MaxMsgs is a bound of the model: with every message used up the loop is idle.
CHECK_DEADLOCK FALSE
