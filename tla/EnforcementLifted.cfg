SPECIFICATION EnforcementSpec
CONSTANTS
  p1 = p1
  s1 = s1
  s2 = s2
  Ids <- MCOneId
  Kinds <- MCKinds
  LongNames = {}
  Durations <- MCDurations
  MaxBans = 1
  MaxRestrictions = 1
  MaxHistory = 0
  MaxTime = 1
  Slots <- MCSlots
  NoSlot = NoSlot
  NoPlayer = NoPlayer
PROPERTIES
  LiftedMeansHeard
CHECK_DEADLOCK TRUE
