SPECIFICATION Spec
CONSTANTS
  r1 = r1
  r2 = r2
  i1 = i1
  i2 = i2
  b1 = b1
  b2 = b2
  NoIdent = NoIdent
  NoBody = NoBody
  Ids = {1, 2, 3}
  Refs = {r1, r2}
  Idents = {i1, i2}
  Bodies = {b1, b2}
  Shown <- AllShown
  Refused = {b2}
  Unsendable = {}
  Specs <- Shapes
  Pins = {}
  Unique = TRUE
  IdentityImmutable = FALSE
  LateCommits = FALSE
  FaultCodes = {0, 401}
  MaxLag = 1
  Budget <- ShapesBudget
INVARIANTS
  WriteAhead
  RestMeansConverged
  NeverStranded
CHECK_DEADLOCK FALSE
