SPECIFICATION Spec
CONSTANTS
  alice = alice
  bob = bob
  k1 = k1
  k2 = k2
  e1 = e1
  e2 = e2
  e3 = e3
  t1 = t1
  Ids <- MCIds
  Keys <- MCKeys
  OwnerId <- MCOwnerId
  Requests <- MCRequests
  ServerKey = ServerKey
  NoKey = NoKey
  NoAccount = NoAccount
  NoDocument = NoDocument
  MaxAccounts = 2
  MaxTime = 0
  Endpoints <- MCEndpoints
  NoSession = NoSession
  Stamps <- MCStamps
  NoStamp = NoStamp
  MaxSessions = 2
  MaxPending = 2
  PerFrame = 1
  MaxLogins = 2
INVARIANT RevokedAccountsStop
