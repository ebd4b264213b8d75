SPECIFICATION Spec
CONSTANTS
  Slug = {a}
  a = a
  NoSlug = NoSlug
  Capacity = 0
  Buffer = 1
  MaxRev = 2
  Pushable = {a}
  MaxReload = 1
  MaxFail = 1
  MayStop = FALSE
INVARIANTS TypeOK OneLanePerSlug LaneOrder StatusIsTheLanes
PROPERTIES RestartsAreDue
