SPECIFICATION FairSpec
CONSTANTS
  r1 = r1
  r2 = r2
  i1 = i1
  i2 = i2
  b1 = b1
  b2 = b2
  NoIdent = NoIdent
  NoBody = NoBody
  Ids = {1, 2, 3}
  Refs = {r1}
  Idents = {i1}
  Bodies = {b1, b2}
  Shown <- NoneShown
  Refused = {}
  Unsendable = {}
  Specs <- TwoBodies
  Pins = {}
  Unique = FALSE
  IdentityImmutable = TRUE
  LateCommits = FALSE
  FaultCodes = {0}
  MaxLag = 1
  Budget <- HiddenBudget
PROPERTIES
  HiddenEditsArrive
CHECK_DEADLOCK FALSE
