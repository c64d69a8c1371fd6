SPECIFICATION FairSpec
CONSTANTS
  Deployments = {d1, d2}
  Listed = {d1, d2}
  Shared = {}
  Specs = {s1}
  NoHash = NoHash
  PreProvisioned = TRUE
  BaremetalHosts = FALSE
  InputViews <- MCReady
  Failures = {"Error"}
  MaxEdits = 0
  MaxMoves = 4
  MaxFaults = 0
PROPERTY SuccessShows
CHECK_DEADLOCK FALSE
