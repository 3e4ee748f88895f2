SPECIFICATION FairSpec
CONSTANTS
  a = a
  b = b
  Hosts = {a, b}
  Nodes = {0, 1, 2}
  Script <- MCScript
  Pairings <- MCPairings
  End <- MCEnd
  Nobody = Nobody
  Short = "short"
  MaxFds <- MCMaxFds
  TxLen = 1
  RcvLen = 1
  OwedLen = 1
INVARIANTS TypeOK CheckedAnswer WaitHasCause LeaksAreFailures
PROPERTIES NoNodeStarves
CHECK_DEADLOCK FALSE
