SPECIFICATION Spec
CONSTANTS
  MaxIrq = 2
  FifoDepth = 1
  MaskedLatch = TRUE
  ModeMayFail = FALSE
  AutoRestart = FALSE
  MaxFrames = 2
  MaxEvents = 4
INVARIANTS TypeOK EchoIsInFlight SlotFreeForXmit
PROPERTIES EchoSpec
