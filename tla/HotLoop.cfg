SPECIFICATION FairSpec
CONSTANTS
  r1 = r1
  r2 = r2
  i1 = i1
  i2 = i2
  b1 = b1
  b2 = b2
  NoIdent = NoIdent
  NoBody = NoBody
  Ids = {1, 2, 3}
  Refs = {r1}
  Idents = {i1}
  Bodies = {b1, b2}
  Shown <- AllShown
  Refused = {b2}
  Unsendable = {}
  Specs <- RefusedSpec
  Pins = {}
  Unique = FALSE
  IdentityImmutable = TRUE
  LateCommits = FALSE
  FaultCodes = {0}
  MaxLag = 2
  Budget <- QuietBudget
PROPERTIES
  TerminalSettles
CHECK_DEADLOCK FALSE
