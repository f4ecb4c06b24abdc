SPECIFICATION MCSpec
CONSTANTS
  Keys = {k1, k2}
  Vals = {v1, v2}
  None = None
  NPages = 3
  PageCap = 2
  MaxCrashes = 1
  TornHeaders = {"appending"}
  StaleWrites = FALSE
INVARIANTS
  
  ReadsWhatIsKept
 
CHECK_DEADLOCK FALSE
