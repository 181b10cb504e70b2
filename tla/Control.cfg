SPECIFICATION MCSpec
CONSTANTS
  Intervals = {0, 1}
  Delays = {0, 1}
  MaxTime = 2
  Ranks = {0, 1, 2, 3, 4}
  MaxInserts = 3
  InitCap = 4
  Erases = {"live"}
  Steps = {1, 2, 3}
  MaxRuns = 2
  MaxResumes = 3
  FsmSize = 2
  Statuses = {1, 2}
  Events = {1}
  RetCodes = {0, 1}
  MaxRules = 3
  MaxNesting = 2
  Units = {"u1", "u2", "u3"}
  Funcs = {"f", "g"}
  CRT_DEFAULT_SIZE = 2
  MaxCapacity = 4
  Files <- MCFiles
  Texts <- MCTexts
  MAX_DIRTY_WORDS_COUNT = 4
  GB_SPEC_CHAR = 8
  DIRTY_REPLACE_CHAR = 0
  tolower <- MCLower
  HashOf <- MCHash
INVARIANTS RunsItsOwn OneRing CompletesOnce Paired Slots Cleaned
PROPERTIES EachDueOnce HeapUse PollReturns Finishes Legal
CHECK_DEADLOCK FALSE
