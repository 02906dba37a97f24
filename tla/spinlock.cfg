SPECIFICATION FairSpec
CONSTANTS
  Threads = {t1, t2}
  NoThread = NoThread
  ReadLimit = 4
  WriteLimit = 2
  MaxDepth = 2
  NestReads = FALSE
  Upgrade = FALSE
INVARIANTS MutualExclusion UnlockNeverMisses IInv
PROPERTIES DrainEnds ClaimBlocksNewcomers ImplementsRWLock
