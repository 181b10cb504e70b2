SPECIFICATION Spec
CONSTANTS
  MAX_DIRTY_WORDS_COUNT = 4
  GB_SPEC_CHAR = 8
  DIRTY_REPLACE_CHAR = 0
  tolower <- MCLower
  HashOf <- MCHash
  Files <- MCFiles
  Texts <- MCTexts
PROPERTY CheckReturns
