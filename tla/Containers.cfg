SPECIFICATION MCSpec
CONSTANTS
  buffer_size = 5
  Bytes = {0, 1}
  MaxBytes = 7
  Data = {1, 2, 3, 4, 5}
  m_size = 2
  MaxCount = 7
  HashKey <- SquareKeys
  Ids = {1, 2, 4, 5, 7, 8}
  IdSlots = 4
  Order = 3
  PAGE_SIZE = 12
  PAGE_HEAD_SIZE = 3
  SLAB_SIZE_MINOR = 1
  SLAB_SIZE_MAX = 3
  Pages = {1, 2}
INVARIANTS RedBlack Ranked Indexed Tiled Found FindsAll
PROPERTIES Streams NullMeansFull
