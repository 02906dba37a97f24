SPECIFICATION FairSpec
CONSTANTS
  Workers = {w1, w2}
  Addrs = {a1, a2}
  None = None
  Stopper = Stopper
  MaxSlots = 1
  MaxEvents = 1
  EventKinds = {"data", "hup", "hupmore", "eof"}
  Asserts = FALSE
  MayBreak = FALSE
  WithStop = TRUE
PROPERTIES NewBridgePolled GivenUpIsUnlinked StopReturns
