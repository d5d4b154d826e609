SPECIFICATION Spec
CONSTANTS
  Templates <- SampleTemplates
  Cases <- UnsentCases
  NonZero <- NothingNonZero
  Depth = 1
INVARIANT DriftReverted
CHECK_DEADLOCK FALSE
