SPECIFICATION FairSpec
CONSTANTS
  Threads = {t1, t2, t3}
  Sensors = {s1, s2}
  Nobody = Nobody
  Samples = 2
INVARIANTS TypeOK FreshWeight AloneOnTheWire
PROPERTIES OthersReturn
