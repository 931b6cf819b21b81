SPECIFICATION FairSpec
CONSTANTS
  m1 = m1
  m2 = m2
  n1 = n1
  Maps <- MCTwoMaps
  Messages <- MCMessages
  Repeats <- MCRepeats
  NoDocument = NoDocument
  MaxRotation = 2
  MaxEntries = 2
  PerFrame = 1
  Grace = 1
  Future = 1
  MaxTime = 1
  MaxId = 2
INVARIANTS
  TypeOK
  IndexInRange
  IdsNameOneEntry
  MirrorsDisk
  NothingForgotten
  NothingTwice
PROPERTY EveryTurnComes
CHECK_DEADLOCK TRUE
