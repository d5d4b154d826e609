SPECIFICATION Spec
CONSTANTS
  url = url
  token = token
  padded = padded
  blank = blank
  pem = pem
  Empty = Empty
  Configs <- OneConfig
  Resources = {}
  References <- SameName
  OperatorNamespace = "operator"
  Specs <- SameNameSpecs
  ResourceRefs <- BareRef
  Contents <- Certificate
  Existing <- Everything
  Trimmed <- MCTrimmed
  URLs = {url}
  Bundles = {pem}
  Resyncs = FALSE
  Budget <- RotationBudget
INVARIANTS
  RestMeansReported
  StatusIsFingerprint
CHECK_DEADLOCK FALSE
