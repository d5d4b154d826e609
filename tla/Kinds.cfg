\* Every field of every kind, and every setting of one.
SPECIFICATION Spec
CONSTANTS
  Templates <- SampleTemplates
  Cases <- KindCases
  NonZero <- NothingNonZero
  Depth = 1
INVARIANTS
  MirrorInductive
  DriftSeen
  RepairLands
  OwnWritesAreQuiet
  FindsItsOwn
  NeverForgotten
  ReadyIsResolved
CHECK_DEADLOCK FALSE
