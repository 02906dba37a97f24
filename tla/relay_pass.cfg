SPECIFICATION FairSpec
CONSTANTS
  MaxSent <- SixAndOne
  KinCap = 4
  KoutCap = 1
  RcvCap = 3
  Margin = 1
  Blocking = {1}
  Prefetch = 1
  MayEnd = {1, 2}
  MayReset = {1, 2}
INVARIANTS TypeOK ReadyHasData FullMeansUnsent
PROPERTIES ImplementsChannel OutbufFlushed EndNoticed
CHECK_DEADLOCK FALSE
