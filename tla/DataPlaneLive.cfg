SPECIFICATION FairSpec
CONSTANTS
  d = d1
  n = n1
  s1 = s1
  Services = {s1}
  ServiceList <- MCServiceList
  Specs = {p1}
  NoHash = NoHash
  Unrecorded = Unrecorded
  ServiceStates = {"ok"}
  InputViews <- MCUnready
  BackoffLimit = 1
  MaxEdits = 0
  MaxFaults = 0
PROPERTIES DeploymentReachesNodeSet
CHECK_DEADLOCK FALSE
