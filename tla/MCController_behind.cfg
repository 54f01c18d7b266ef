SPECIFICATION Spec
CONSTANTS
  p = p
  q = q
  Procs = {p}
  Nodes = {1, 2}
  Rank <- ByName
  Pods = 1
  Nobody = Nobody
  Rest = 2
  Cooldown = 0
  Patience = 0
  MaxFailures = 2
  MaxUpsets = 0
  Faults = TRUE
  Lagging = TRUE
  Pauses = TRUE
PROPERTIES
  DrainsResolve
  FailuresEnd
  OthersGetTheirTurn
