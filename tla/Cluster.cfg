SPECIFICATION Spec
CONSTANTS
  url = url
  token = token
  padded = padded
  blank = blank
  pem = pem
  Empty = Empty
  Configs <- ClusterConfig
  Resources <- OneResource
  References <- BothNamespaces
  OperatorNamespace = "operator"
  Specs <- KeySpec
  ResourceRefs <- TwinRefs
  Contents <- Credentials
  Existing <- WithoutDecoy
  Trimmed <- MCTrimmed
  URLs = {url}
  Bundles = {pem}
  Resyncs = FALSE
  Budget <- ClusterBudget
INVARIANTS
  RestMeansUsed
CHECK_DEADLOCK FALSE
