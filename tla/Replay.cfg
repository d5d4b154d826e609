SPECIFICATION FairSpec
CONSTANTS
  url = url
  token = token
  padded = padded
  blank = blank
  pem = pem
  Empty = Empty
  Configs <- OneConfig
  Resources <- OneResource
  References <- OneSecret
  OperatorNamespace = "operator"
  Specs <- KeySpec
  ResourceRefs <- BareRef
  Contents <- OneToken
  Existing <- Everything
  Trimmed <- MCTrimmed
  URLs = {url}
  Bundles = {pem}
  Resyncs = TRUE
  Budget <- ReplayBudget
INVARIANTS
  TypeOK
PROPERTIES
  RotationLands
CHECK_DEADLOCK FALSE
