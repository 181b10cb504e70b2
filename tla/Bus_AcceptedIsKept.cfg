SPECIFICATION Spec
CONSTANTS
  Terms = {a, b}
  MaxTerms = 2
  MaxPipes = 2
  RingCap = 1
  MaxSend = 1
  MaxStops = 0
  MaxFails = 0
INVARIANT AcceptedIsKept
