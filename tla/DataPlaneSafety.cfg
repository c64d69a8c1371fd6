SPECIFICATION Spec
CONSTANTS
  d = d1
  n = n1
  s1 = s1
  Services = {s1}
  ServiceList <- MCServiceList
  Specs = {p1, p2}
  NoHash = NoHash
  Unrecorded = Unrecorded
  ServiceStates = {"ok"}
  InputViews <- MCReady
  BackoffLimit = 0
  MaxEdits = 1
  MaxFaults = 1
INVARIANTS ReadyMeansExecuted InventoryBeforeExecution
PROPERTIES ImplementsDeployment ImplementsNodeSet
SYMMETRY MCSymmetry
CHECK_DEADLOCK FALSE
VIEW MCView
CONSTRAINT MCOneDisturbance
