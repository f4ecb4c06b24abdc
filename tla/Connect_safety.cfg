SPECIFICATION FairSpec
CONSTANTS
  Retries = 2
  Discoverable = FALSE
  MaxInputs = 4
  MaxEvts = 2
  MaxQueued = 1
INVARIANTS
  TypeOK
  Reachable
PROPERTIES
  ReconnectSettles
CHECK_DEADLOCK FALSE
