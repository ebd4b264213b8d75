SPECIFICATION FairSpec
CONSTANTS
  MaxFrames = 1
  EventQueue = 1
  Target = {"text"}
  Voiced = {}
  TargetQueue = 1
  MaxClauses = 2
  MaxSegments = 3
INVARIANTS CleanEndIsTheSources
PROPERTIES RunReturns
