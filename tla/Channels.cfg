\* One channel, two items of which a poll takes one, two overlapping runs.
CONSTANTS
  c1 = c1
  c2 = c2
  i1 = i1
  i2 = i2
  r1 = r1
  r2 = r2
  NoTag = NoTag
  NoChannel = NoChannel
  Channels = {c1}
  Items = {i1, i2}
  Runs = {r1, r2}
  MaxItems = 1
  MaxFailures = 2
SYMMETRY Symmetry
SPECIFICATION Spec
INVARIANTS
  SeenIsStored
  TagHidesOnlyMisses
  DisabledAtLimit
