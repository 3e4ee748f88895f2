SPECIFICATION FairSpec
CONSTANTS
  MaxIrq = 2
  FifoDepth = 1
  MaskedLatch = TRUE
  ModeMayFail = FALSE
  AutoRestart = TRUE
  MaxFrames = 1
  MaxEvents = 3
PROPERTY BusOffReported
