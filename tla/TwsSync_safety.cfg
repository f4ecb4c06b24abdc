SPECIFICATION FairSpec
CONSTANTS
  Settings = 3
  MaxInputs = 2
  MaxFaults = 1
  MaxEvts = 3
INVARIANTS
  TypeOK
  BudsAgree
PROPERTIES
  HandsOver
CHECK_DEADLOCK FALSE
