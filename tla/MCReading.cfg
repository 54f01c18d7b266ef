\* A list of pods that may be of any age beside a node that is read as it is.
SPECIFICATION Spec
CONSTANTS
  Pods = {a, b, c}
  a = a
  b = b
  c = c
  NoPod = NoPod
  AtFirst <- TwoHere
  MaxTime = 4
  MaxUpsets = 1
  PodLag = TRUE
  NodeLag = FALSE
SYMMETRY Symmetry
INVARIANTS
  TypeOK
PROPERTIES
  OneAway
  NamesakesStay
CHECK_DEADLOCK FALSE
