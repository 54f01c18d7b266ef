SPECIFICATION SafetySpec
CONSTANTS
  a1 = a1
  a2 = a2
  b1 = b1
  b2 = b2
  A = A
  B = B
  NoPod = NoPod
  Pods = {a1, a2, b1}
  Owners = {A, B}
  Owner <- TwoWorkloads
  Residents = {a1, b1}
  Elsewhere = {a2}
  Tolerating = {}
  Expendable = {}
  Churning = {}
  Grace = 0
  Rest <- ShortRest
  MaxAttempts = 1
  MaxLag = 0
  MaxUpsets = 1
  StallTimeout = 1
  RemovalTimeout = 1
  ScaleUpPause = 0
  Slack = 0
  Facts = {"none"}
PROPERTIES
  NeverTwoInFlight
