SPECIFICATION Spec
CONSTANTS
  p1 = p1
  p2 = p2
  Ids <- MCIds
  Rest <- MCRest
  MenuStores <- MCMenuStores
  NoDocument = NoDocument
  MaxAdmins = 1
SYMMETRY MCSymmetry
INVARIANTS
  StorageTypeOK
  NobodyResurrected
  DatabaseChangesStand
PROPERTY
  ImplementsAdminList
CHECK_DEADLOCK TRUE
