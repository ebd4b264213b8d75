SPECIFICATION FairSpec
CONSTANTS
  Slug = {a}
  a = a
  NoSlug = NoSlug
  Capacity = 1
  Buffer = 1
  MaxRev = 2
  Pushable = {}
  MaxReload = 0
  MaxFail = 0
  MayStop = TRUE
INVARIANTS DropAfterLanes
PROPERTIES EveryDefinitionGetsALane EndsQuietly
CHECK_DEADLOCK FALSE
