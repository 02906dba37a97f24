SPECIFICATION FairSpec
CONSTANTS
  MaxSent <- FourFromClient
  KinCap = 2
  KoutCap = 1
  RcvCap = 3
  Margin = 1
  Blocking = {1}
  Prefetch = 0
  MayEnd = {}
  MayReset = {}
PROPERTIES AllRelayed
CHECK_DEADLOCK FALSE
