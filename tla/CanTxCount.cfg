SPECIFICATION Spec
CONSTANTS
  MaxIrq = 2
  FifoDepth = 1
  MaskedLatch = FALSE
  ModeMayFail = FALSE
  AutoRestart = TRUE
  MaxFrames = 1
  MaxEvents = 0
INVARIANT TxCountedOnce
