\* A node that is read as it was before the last write.
SPECIFICATION Spec
CONSTANTS
  Pods = {a, b, c}
  a = a
  b = b
  c = c
  NoPod = NoPod
  AtFirst <- TwoHere
  MaxTime = 3
  MaxUpsets = 0
  PodLag = FALSE
  NodeLag = TRUE
PROPERTY
  OneAway
CHECK_DEADLOCK FALSE
