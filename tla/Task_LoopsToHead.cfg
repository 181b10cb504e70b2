SPECIFICATION FairSpec
CONSTANTS
  Steps = {s1, s2, s3}
  Null = Null
  Jumps <- MCJumps
  MaxRuns = 1
  MaxResumes = 3
PROPERTY LoopsToHead
CHECK_DEADLOCK FALSE
