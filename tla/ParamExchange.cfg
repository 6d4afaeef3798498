SPECIFICATION FairSpec
CONSTANTS
  WordSize = 4
  MaxText = 2
  DoubleBits = 18
  ValueBits = 21
  Clients <- MCClients
INVARIANTS
  TypeOK
  FrameOrNothing
  
  OppositeRoles
PROPERTIES
  ReaderReturns
CHECK_DEADLOCK FALSE
