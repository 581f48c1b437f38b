SPECIFICATION Spec
CONSTANTS
  N = 3
  WindowMin = 1
  BurstSize = 2
  ScanLimit = 1
  SackMax = 2
  MaxMessages = 4
  MaxUnacked = 2
  MaxTemp = 1
  MaxAcks = 2
INVARIANTS
  TypeOK
  NothingLost
  InOrderOnce
  RingsAligned
  IInv
  ResendsOnlyUnconfirmed
PROPERTIES
  ImplementsWindow
  ConfirmedGrows
