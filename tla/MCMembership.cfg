SPECIFICATION MCSpec
CONSTANTS
  n1 = n1
  n2 = n2
  n3 = n3
  n4 = n4
  n5 = n5
  n6 = n6
  n7 = n7
  Nodes <- Seven
  Genesis <- Four
  Profile = "auto"
  Leavers <- NoOne
  MaxHeight = 5
  MaxPending = 1
  MaxScanned = 1
  MaxCrashes = 0
  MaxLosses = 0
INVARIANTS
  SetNeverEmpties
  KeysUnique
  ProvenHoldQuorum
PROPERTIES
  NoTransitionStalls
SYMMETRY SymSeven
CHECK_DEADLOCK FALSE
