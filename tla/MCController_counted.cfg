SPECIFICATION SafetySpec
CONSTANTS
  p = p
  q = q
  Procs = {p}
  Nodes = {1}
  Rank <- ByName
  Pods = 1
  Nobody = Nobody
  Rest = 1
  Cooldown = 1
  Patience = 1
  MaxFailures = 2
  MaxUpsets = 0
  Faults = TRUE
  Lagging = FALSE
  Pauses = FALSE
PROPERTIES
  OnlyFinishedDrainsCount
