SPECIFICATION MCSpec
CONSTANTS
  a = a
  b = b
  c = c
  d = d
  n0 = n0
  n1 = n1
  n2 = n2
  n3 = n3
  NodeOrder <- FourNodes
  PodOrder <- FourPods
  Listings <- AnyOrder
  Candidate = n0
  Capacity <- Room
  Zone <- Zones
  Tainted = {n3}
  Doomed = {n3}
  Traits <- AllTraits
  Placements <- AllPlacements
  Reserve = TRUE
  Obedient = FALSE
  NoPod = NoPod
  NoNode = NoNode
INVARIANTS
  NobodyIsStranded
  RoomForEveryShape
  TheReadingDecides
CHECK_DEADLOCK FALSE
