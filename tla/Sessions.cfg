SPECIFICATION MCSessionsSpec
CONSTANTS
  alice = alice
  bob = bob
  k1 = k1
  k2 = k2
  e1 = e1
  e2 = e2
  e3 = e3
  t1 = t1
  Ids <- MCIds
  Keys <- MCKeys
  OwnerId <- MCOwnerId
  Requests <- MCAppointments
  ServerKey = ServerKey
  NoKey = NoKey
  NoAccount = NoAccount
  NoDocument = NoDocument
  MaxAccounts = 2
  MaxTime = 1
  Endpoints <- MCThreeEndpoints
  NoSession = NoSession
  Stamps <- MCStamps
  NoStamp = NoStamp
  MaxSessions = 2
  MaxPending = 2
  PerFrame = 2
  MaxLogins = 3
SYMMETRY MCSymmetry
INVARIANTS
  SessionsTypeOK
  SessionIdentity
  RepliesReachTheirSender
  CatalogOnlyToManagers
  SetupCodeIsolated
PROPERTIES
  NoCollateralDisconnect
  ImplementsAccounts
CHECK_DEADLOCK TRUE
