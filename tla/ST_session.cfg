SPECIFICATION FairSpec
CONSTANTS
  MaxFrames = 2
  MaxLines = 3
  PipeSize = 1
  EventQueue = 1
INVARIANTS EndIsTrue
PROPERTIES ImplementsPort SessionReturns
CHECK_DEADLOCK FALSE
