SPECIFICATION Spec
CONSTANTS
  Deployments = {d1, d2}
  Listed = {d1, d2}
  Shared = {}
  Specs = {s1, s2}
  NoHash = NoHash
  PreProvisioned = TRUE
  BaremetalHosts = FALSE
  InputViews <- MCReady
  Failures = {"Backoff"}
  MaxEdits = 1
  MaxMoves = 4
  MaxFaults = 1
INVARIANTS TypeOK InventoryFresh NewestDecides EditsVisible
SYMMETRY MCSymmetry
CHECK_DEADLOCK FALSE
