\* Lists of up to five entries, two of them matching and one of these without
\* an id, in pages of two, with two changes during the walk.
SPECIFICATION Spec
CONSTANTS
  e1 = e1
  e2 = e2
  e3 = e3
  e4 = e4
  e5 = e5
  Entries = {e1, e2, e3, e4, e5}
  Matching = {e1, e2}
  Nameless = {e2}
  Limit = 2
  MaxOver = 2
  MaxChanges = 2
INVARIANTS
  GrowthMissesNothing
  ShrinkRepeatsNothing
PROPERTIES
  WalkEnds
CHECK_DEADLOCK FALSE
