SPECIFICATION SafetySpec
CONSTANTS
  a1 = a1
  a2 = a2
  b1 = b1
  b2 = b2
  A = A
  B = B
  NoPod = NoPod
  Pods = {a1, a2}
  Owners = {A}
  Owner <- TwoWorkloads
  Residents = {a1}
  Elsewhere = {}
  Tolerating = {}
  Expendable = {}
  Churning = {}
  Grace = 1
  Rest <- ShortRest
  MaxAttempts = 1
  MaxLag = 1
  MaxUpsets = 1
  StallTimeout = 2
  RemovalTimeout = 2
  ScaleUpPause = 1
  Slack = 0
  Facts = {"none"}
PROPERTIES
  EmptyNodesGetTheRemovalWindow
