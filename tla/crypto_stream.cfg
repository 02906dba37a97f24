SPECIFICATION FairSpec
CONSTANTS
  MaxSent = 6
  MaxSend = 3
  MaxFlushes = 1
  MayEnd = TRUE
  Salt = 2
  SizeLen = 1
  Tag = 1
  ChunkMax = 2
  Header <- TwoPieces
  ChunkSize = 2
INVARIANTS TypeOK NoncesAgree NoBlockingRecv
PROPERTIES ImplementsChannel Arrives EndNoticed
CHECK_DEADLOCK FALSE
