SPECIFICATION Spec
CONSTANTS
  Ranks = {1, 2}
  InitCap = 4
  Erases = {}
  MaxInserts = 6
INVARIANT GrowsAutomatic
