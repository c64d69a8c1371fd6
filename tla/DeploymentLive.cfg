SPECIFICATION FairSpec
CONSTANTS
  d1 = d1
  n1 = n1
  n2 = n2
  s1 = s1
  s2 = s2
  h1 = h1
  h2 = h2
  Deployments = {d1}
  NodeSets = {n1, n2}
  Services = {s1}
  SpecNodeSets <- MCTwoNodeSets
  NodeSetViews <- MCOneService
  ServiceStates = {"ok"}
  ServicesOverride <- MCNoOverride
  OverrideSet = {}
  GlobalServices = {}
  TLSServices = {}
  CertMountServices = {}
  CertsFrom <- MCOwnCerts
  TLSNodeSets = {}
  ConfigHashes = {h1}
  NoHash = NoHash
  ConditionType <- MCOneType
  NamePrefix <- MCFullNames
  NameParts = 3
  BackoffLimit = 0
  MaxFaults = 1
PROPERTIES DeploymentConcludes NodeSetReadyMeansDone
CHECK_DEADLOCK FALSE
