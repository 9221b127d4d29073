SPECIFICATION Spec
CONSTANTS
  a = a
  b = b
  f1 = f1
  Nodes <- Pair
  Origin = a
  Classes <- One
  K = 1
  Views <- Assigned
  FirstView <- OnA
  Follows <- Back
  Window = 9
  Refresh = 9
  MaxHeight = 9
  MaxLag = 1
  MaxPending = 2
  MaxViews = 3
  MaxReports = 1
  MaxFaults = 0
INVARIANTS
  LossNeedsFault
CHECK_DEADLOCK FALSE
