SPECIFICATION Spec
CONSTANTS
  a = a
  b = b
  f1 = f1
  Nodes <- Pair
  Origin = a
  Classes <- One
  K = 1
  Views <- Assigned
  FirstView <- OnA
  Follows <- Forward
  Window = 3
  Refresh = 2
  MaxHeight = 6
  MaxLag = 1
  MaxPending = 2
  MaxViews = 2
  MaxReports = 2
  MaxFaults = 1
INVARIANTS
  StampsAreTrue
  BirthCopies
  NoClassLost
PROPERTIES
  GoalsMoveForward
  ConfirmedWasHeld
CHECK_DEADLOCK FALSE
