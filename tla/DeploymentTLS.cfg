SPECIFICATION Spec
CONSTANTS
  d1 = d1
  n1 = n1
  n2 = n2
  s1 = s1
  s2 = s2
  h1 = h1
  h2 = h2
  Deployments = {d1}
  NodeSets = {n1}
  Services = {s1, s2}
  SpecNodeSets <- MCOneNodeSet
  NodeSetViews <- MCSetup
  ServiceStates = {"ok", "missing", "nosource"}
  ServicesOverride <- MCNoOverride
  OverrideSet = {}
  GlobalServices = {s2}
  TLSServices = {s1}
  CertMountServices = {s2}
  CertsFrom <- MCSharedCerts
  TLSNodeSets = {n1}
  ConfigHashes = {h1}
  NoHash = NoHash
  ConditionType <- MCDistinctTypes
  NamePrefix <- MCFullNames
  NameParts = 3
  BackoffLimit = 0
  MaxFaults = 1
INVARIANT CertsBeforeExecution
PROPERTY DeployedForever
CHECK_DEADLOCK FALSE
