SPECIFICATION Spec
CONSTANTS
  Keys = {k1, k2}
  Vals = {v1, v2}
  None = None
  CacheCap = 1
  Width = 4
  Overlaps = FALSE
  SetsBack = TRUE
INVARIANT SetTakesEffect
