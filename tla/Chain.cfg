SPECIFICATION Spec
CONSTANTS
  url = url
  token = token
  padded = padded
  blank = blank
  pem = pem
  Empty = Empty
  Configs <- OneConfig
  Resources <- OneResource
  References <- OneSecret
  OperatorNamespace = "operator"
  Specs <- KeySpecs
  ResourceRefs <- BareRef
  Contents <- OneToken
  Existing <- OneConfig
  Trimmed <- MCTrimmed
  URLs = {url}
  Bundles = {pem}
  Resyncs = FALSE
  Budget <- ChainBudget
INVARIANTS
  UseInductive
CHECK_DEADLOCK FALSE
