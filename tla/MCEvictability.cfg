SPECIFICATION MCSpec
CONSTANTS
  NoPod = NoPod
  p1 = p1
  p2 = p2
  b1 = b1
  b2 = b2
  Pods = {p1, p2}
  Budgets = {b1, b2}
  Traits <- Mixed
  Policies = {"IfHealthyBudget", "AlwaysAllow", "unknown"}
  MaxDesired = 1
  MaxOthers = 1
  MaxEdits = 1
  SkipSystem = TRUE
  SkipLocal = TRUE
INVARIANTS
  TypeOK
  ApprovedDrainsFinish
  RefusalsAreRaces
  DeclinedNodesStayOccupied
PROPERTIES
  PausesEnd
CHECK_DEADLOCK FALSE
