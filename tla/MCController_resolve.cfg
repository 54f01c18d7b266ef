SPECIFICATION Spec
CONSTANTS
  p = p
  q = q
  Procs = {p}
  Nodes = {1, 2}
  Rank <- ByName
  Pods = 1
  Nobody = Nobody
  Rest = 2
  Cooldown = 2
  Patience = 1
  MaxFailures = 2
  MaxUpsets = 1
  Faults = TRUE
  Lagging = FALSE
  Pauses = TRUE
PROPERTIES
  DrainsResolve
  FailuresEnd
  OthersGetTheirTurn
