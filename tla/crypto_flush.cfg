SPECIFICATION Spec
CONSTANTS
  MaxSent = 6
  MaxSend = 3
  MaxFlushes = 1
  MayEnd = FALSE
  Salt = 2
  SizeLen = 1
  Tag = 1
  ChunkMax = 2
  Header <- TwoPieces
  ChunkSize = 2
INVARIANT PayloadNotEmpty
CHECK_DEADLOCK FALSE
