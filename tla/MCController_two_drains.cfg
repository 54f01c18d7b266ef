SPECIFICATION SafetySpec
CONSTANTS
  p = p
  q = q
  Procs = {p}
  Nodes = {1, 2}
  Rank <- ByName
  Pods = 1
  Nobody = Nobody
  Rest = 2
  Cooldown = 0
  Patience = 1
  MaxFailures = 2
  MaxUpsets = 0
  Faults = FALSE
  Lagging = TRUE
  Pauses = FALSE
INVARIANTS
  OneDrainAlways
