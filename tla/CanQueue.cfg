SPECIFICATION FairSpec
CONSTANTS
  MaxIrq = 2
  FifoDepth = 1
  MaskedLatch = TRUE
  ModeMayFail = TRUE
  AutoRestart = TRUE
  MaxFrames = 1
  MaxEvents = 3
INVARIANTS StopHasCause ClosedIsSilent
PROPERTIES QueueWakes HandlerReturns
