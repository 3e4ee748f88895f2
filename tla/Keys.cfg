SPECIFICATION FairOneKey
CONSTANTS
  LatchesMasked = TRUE
  MaxEdges = 6
INVARIANTS TypesOK NoTimerAfterRemove DeafOnlyWhenOvertaken WrongReportIsTransient NoTimerAfterExit
PROPERTIES PressReported LevelIsReported
