SPECIFICATION Spec
CONSTANTS
  Workers = {w1, w2, w3}
  Addrs = {a1, a2, a3}
  None = None
  Stopper = Stopper
  MaxSlots = 2
  MaxEvents = 2
  EventKinds = {"data", "hup", "hupmore"}
  Asserts = TRUE
  MayBreak = TRUE
  WithStop = TRUE
SYMMETRY Symmetric
INVARIANTS TypeOK SlotsDense ServedOnce CrashOnlyInStop MaskExclusive StopQuiesces
PROPERTY LiveBridgeKept
