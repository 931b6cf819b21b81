SPECIFICATION Spec
CONSTANTS
  p1 = p1
  p2 = p2
  Ids <- MCIds
  Kinds <- MCKinds
  LongNames <- MCLongNames
  Durations <- MCDurations
  MaxBans = 1
  MaxRestrictions = 1
  MaxHistory = 2
  MaxTime = 1
INVARIANTS
  TypeOK
  StoresMirrorDisk
  HistoryAgrees
CHECK_DEADLOCK TRUE
