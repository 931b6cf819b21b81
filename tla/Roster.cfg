SPECIFICATION MCRosterSpec
CONSTANTS
  p1 = p1
  m1 = m1
  m2 = m2
  Bot = Bot
  SourceTv = SourceTv
  NoOne = NoOne
  Slots <- MCSlots
  Humans <- MCHumans
  Maps <- MCMaps
  MaxEvents = 3
  StaleTimeout = 1
  CommandHold = 1
  SettlingTime = 1
INVARIANTS
  RosterTypeOK
  ViewConsistent
PROPERTIES
  RosterConverges
  MapConverges
CHECK_DEADLOCK TRUE
