SPECIFICATION MCSpec
CONSTANTS
  Procs = {p1, p2, p3, p4}
  Nobody = Nobody
  UD = UD
  CS = CS
  INC = INC
  DOUT = DOUT
  SCK = SCK
  Lines <- MCLines
  Shared <- MCShared
  Wirings <- MCWirings
  Threads = {t1, t2}
  Users = {u1, u2}
  Samples = 3
  Start <- MCStart
  Settings <- MCSettings
  MaxTicks = 2
  Values <- MCValues
  Top = 2
  Downs = 3
SYMMETRY MCSymmetry
INVARIANTS TypesOK PinsFollowGate ReadIsNewest ReadIsShown WriteSetsWiper
PROPERTIES AbstractSpec
