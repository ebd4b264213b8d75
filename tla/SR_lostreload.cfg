SPECIFICATION Spec
CONSTANTS
  Slug = {a}
  a = a
  NoSlug = NoSlug
  Capacity = 0
  Buffer = 1
  MaxRev = 2
  Pushable = {}
  MaxReload = 1
  MaxFail = 0
  MayStop = FALSE
PROPERTIES ReloadReplacesWhatItStops
