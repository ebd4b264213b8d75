SPECIFICATION Spec
CONSTANTS
  Slug = {a, b}
  a = a
  b = b
  NoSlug = NoSlug
  Capacity = 0
  Buffer = 1
  MaxRev = 2
  Pushable = {}
  MaxReload = 0
  MaxFail = 0
  MayStop = FALSE
INVARIANTS RunningIsLive
PROPERTY ImplementsContract
