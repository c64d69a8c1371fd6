SPECIFICATION FairSpec
CONSTANTS
  Deployments = {d1, d2}
  Listed = {d1, d2}
  Shared = {d2}
  Specs = {s1, s2}
  NoHash = NoHash
  PreProvisioned = FALSE
  BaremetalHosts = TRUE
  InputViews <- MCAnyStep
  Failures = {"Error"}
  MaxEdits = 1
  MaxMoves = 5
  MaxFaults = 1
PROPERTIES SetupSettles VerdictFollows
CHECK_DEADLOCK FALSE
CONSTRAINT MCSetupOrDeployments
