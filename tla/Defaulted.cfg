SPECIFICATION Spec
CONSTANTS
  Templates <- SampleTemplates
  Cases <- DefaultedCases
  NonZero <- DisplayNameFilled
  Depth = 1
INVARIANT OwnWritesAreQuiet
CHECK_DEADLOCK FALSE
