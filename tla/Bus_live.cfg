SPECIFICATION FairSpec
CONSTANTS
  Terms = {a, b}
  MaxTerms = 2
  MaxPipes = 2
  RingCap = 1
  MaxSend = 2
  MaxStops = 0
  MaxFails = 0
PROPERTIES CallsReturn Received
