SPECIFICATION FairSpec
CONSTANTS
  Slug = {s1}
  s1 = s1
  Lang = {en}
  en = en
  Target = {dev, cam}
  dev = dev
  cam = cam
  Device = {dev}
  Camera = {cam}
  MaxTargets = 2
  Caller = {c1}
  c1 = c1
  Listener = {l1}
  l1 = l1
  Rendered = {s1}
  MaxCreate = 1
  MaxDrop = 0
  MayRebuild = FALSE
INVARIANTS JobsAreOwned PlayoutComplete
PROPERTIES TeardownEnds
