SPECIFICATION Spec
CONSTANTS
  N = 4
  First <- MCFirst
  Last <- MCLast
INVARIANTS TypeOK ReadAheadOnlyByCarry ReadNotBehind SetNotAhead
PROPERTIES AlarmRight 
