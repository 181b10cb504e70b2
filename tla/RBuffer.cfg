SPECIFICATION LiveSpec
CONSTANTS
  Size = 16
  PosMod = 32
  Payloads <- MCPayloads
  ReadCaps <- MCReadCaps
INVARIANTS NoOverwrite Whole
PROPERTIES FifoSpec EventuallyRead
