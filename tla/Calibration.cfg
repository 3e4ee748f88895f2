SPECIFICATION Spec
CONSTANTS
  N = 2
  Weighers = {w1, w2}
  Calibrator = c
  MaxGens = 2
INVARIANTS TypeOK OnePrefix QuietReadIsWhole
PROPERTY FileRestsWhileWeighing
