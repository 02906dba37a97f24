SPECIFICATION Spec
CONSTANTS
  Workers = {w1, w2}
  Addrs = {a1, a2}
  None = None
  Stopper = Stopper
  MaxSlots = 2
  MaxEvents = 2
  EventKinds = {"data", "hup"}
  Asserts = FALSE
  MayBreak = FALSE
  WithStop = FALSE
INVARIANT OwnNodeAlive
