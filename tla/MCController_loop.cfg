SPECIFICATION SafetySpec
CONSTANTS
  p = p
  q = q
  Procs = {p, q}
  Nodes = {1, 2}
  Rank <- ByName
  Pods = 1
  Nobody = Nobody
  Rest = 1
  Cooldown = 2
  Patience = 0
  MaxFailures = 2
  MaxUpsets = 1
  Faults = TRUE
  Lagging = TRUE
  Pauses = TRUE
CONSTRAINT InStep
SYMMETRY Symmetry
INVARIANTS
  TypeOK
  OneDrain
  CordonsAreMarked
PROPERTIES
  CooldownHolds
  CompletionsAreReal
