SPECIFICATION Spec
CONSTANTS
  Ranks = {1, 2}
  InitCap = 3
  Erases = {"live"}
  MaxInserts = 6
INVARIANTS Keyed MinAtTop
CHECK_DEADLOCK FALSE
