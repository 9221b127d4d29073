SPECIFICATION MCSpec
CONSTANTS
  u1 = u1
  n1 = n1
  n2 = n2
  n3 = n3
  n4 = n4
  n5 = n5
  Uploads <- MCUploads
  Batches = 2
  Grace = 1
  PurgeMinAge = 2
  Retention = 3
  MaxFaults = 1
  MaxRestarts = 1
  Renders = 2
  RetryCap = 1
  MaxOpen = 2
  MaxEvents = 2
  MaxOutages = 1
INVARIANTS
  RowedIsStored
  AbandonedHoldsNothing
  SettledIsAgreed
  EvictedIsHeld
PROPERTIES
  RowlessReclaimed
  DarkIsRemoved
  QueuesDrain
CHECK_DEADLOCK FALSE
