SPECIFICATION SafetySpec
CONSTANTS
  p = p
  q = q
  Procs = {p, q}
  Nodes = {1}
  Rank <- ByName
  Pods = 1
  Nobody = Nobody
  Rest = 1
  Cooldown = 0
  Patience = 1
  MaxFailures = 2
  MaxUpsets = 1
  Faults = FALSE
  Lagging = FALSE
  Pauses = TRUE
INVARIANTS
  CordonsAreAlwaysMarked
