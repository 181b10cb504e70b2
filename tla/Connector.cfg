SPECIFICATION FairSpec
CONSTANTS
  Con = con
  Size = 8
  CloseStops = TRUE
  PkgSizes = {2, 9}
  SendLens = {0, 1, 2}
  MaxIn = 9
  MaxOut = 2
INVARIANTS Kept NeverFull
PROPERTIES Flushed
