SPECIFICATION FairEnforcement
CONSTANTS
  p1 = p1
  s1 = s1
  s2 = s2
  Ids <- MCOneId
  Kinds <- MCKinds
  LongNames = {}
  Durations <- MCDurations
  MaxBans = 1
  MaxRestrictions = 1
  MaxHistory = 0
  MaxTime = 1
  Slots <- MCTwoSlots
  NoSlot = NoSlot
  NoPlayer = NoPlayer
INVARIANT EnforcementTypeOK
PROPERTIES
  RestrictionsTakeHold
CHECK_DEADLOCK TRUE
