SPECIFICATION Spec
CONSTANTS
  MaxFrames = 0
  EventQueue = 1
  Target = {"dub", "text"}
  Voiced = {"dub"}
  TargetQueue = 1
  MaxClauses = 1
  MaxSegments = 3
INVARIANTS RunIsJoined
PROPERTIES ImplementsContract
