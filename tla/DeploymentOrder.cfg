SPECIFICATION Spec
CONSTANTS
  d1 = d1
  n1 = n1
  n2 = n2
  s1 = s1
  s2 = s2
  h1 = h1
  h2 = h2
  Deployments = {d1}
  NodeSets = {n1}
  Services = {s1, s2}
  SpecNodeSets <- MCNodeSetTwice
  NodeSetViews <- MCReordered
  ServiceStates = {"ok"}
  ServicesOverride <- MCNoOverride
  OverrideSet = {}
  GlobalServices = {}
  TLSServices = {}
  CertMountServices = {}
  CertsFrom <- MCOwnCerts
  TLSNodeSets = {}
  ConfigHashes = {h1, h2}
  NoHash = NoHash
  ConditionType <- MCDistinctTypes
  NamePrefix <- MCFullNames
  NameParts = 3
  BackoffLimit = 1
  MaxFaults = 1
INVARIANTS TypeOK ServiceConditionSound
PROPERTIES DeployedMeansDone ServiceOrder ImplementsRollout
CHECK_DEADLOCK FALSE
CONSTRAINT MCRetryOrFault
