SPECIFICATION Spec
CONSTANT
  Changing = {"exists", "status", "managed", "enabled", "scalingUp", "cooling", "size", "annotated", "backoff", "cordoned", "tainted", "fits", "many", "blockers"}
INVARIANTS
  DecisionsSurviveTheirStart
  WorkIsNotUndoneByTaste
PROPERTIES
  HandoversEnd
CHECK_DEADLOCK FALSE
