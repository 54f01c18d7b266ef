SPECIFICATION MCSpec
CONSTANTS
  Nodes = {n1, n2, n3}
  Groups <- Ids
  KeyOrder <- SortedKeys
  Names <- AllNames
  ValueOrder <- SortedValues
  GroupOrder <- SortedGroups
  Nothing = Nothing
  IDLabel = "id"
  NameLabel = "pool"
  Clusters <- PlainOnly
  MaxSize = 2
  Static = "static"
  Gone = "gone"
  NoValue = "none"
  v1 = v1
  v2 = v2
  v3 = v3
  g1 = g1
  g2 = g2
  g3 = g3
INVARIANTS
  NoNodeIsMisplaced
CHECK_DEADLOCK FALSE
