SPECIFICATION Spec
CONSTANTS
  Terms = {a, b, c}
  MaxTerms = 3
  MaxPipes = 2
  RingCap = 2
  MaxSend = 2
  MaxStops = 1
  MaxFails = 2
CONSTRAINT Story
CHECK_DEADLOCK FALSE
SYMMETRY Symmetry
INVARIANTS MutualExclusion CacheCoherent InOrder
PROPERTY NoLossOnceAttached
