SPECIFICATION FairSpec
CONSTANTS
  e1 = e1
  e2 = e2
  s1 = s1
  s2 = s2
  d1 = d1
  Endpoints <- MCEndpoints
  Slots <- MCSlots
  Descriptors <- MCOneDescriptor
  NoDescriptor = NoDescriptor
  NoPacket = NoPacket
  MaxPending = 3
  MaxSerial = 4
INVARIANTS
  TypeOK
  Accounting
  ControlInOrder
  FreshestPosition
  SendsOnOpenSocket
PROPERTIES
  ImplementsContract
  EveryPacketLeaves
  StopTerminates
