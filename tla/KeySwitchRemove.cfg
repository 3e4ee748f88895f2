SPECIFICATION Spec
CONSTANTS
  LatchesMasked = TRUE
  MaxEdges = 5
INVARIANT PinOffAfterRemove

