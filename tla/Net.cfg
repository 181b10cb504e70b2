SPECIFICATION MCSpec
CONSTANTS
  Handlers = {h1, h2}
  SelfStop = FALSE
  Requests <- Asked
  FrameLists <- Then
  Residue <- Rests
  BufSize = 16
  AnswerLen = 4
  ShortLimit = 1
  MediumLimit = 1
  SendLens = {0, 1, 3}
  MaxSends = 1
  Fds = {3, 4, 5}
INVARIANTS Delivered Framed Owned
PROPERTIES NoStaleCallback Forgotten
CHECK_DEADLOCK FALSE
