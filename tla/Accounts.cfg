SPECIFICATION AccountsSpec
CONSTANTS
  owner = owner
  alice = alice
  bob = bob
  k1 = k1
  k2 = k2
  Ids <- MCIds
  Keys <- MCKeys
  OwnerId <- MCOwnerId
  Requests <- MCRequests
  ServerKey = ServerKey
  NoKey = NoKey
  NoAccount = NoAccount
  NoDocument = NoDocument
  MaxAccounts = 2
  MaxTime = 1
INVARIANTS
  TypeOK
  ManagerRemains
  StoreReloads
  MirrorsDisk
PROPERTY ImplementsAccountBook
CHECK_DEADLOCK TRUE
