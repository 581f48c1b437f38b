SPECIFICATION Spec
CONSTANTS
  N = 3
  WindowMin = 2
  BurstSize = 2
  ScanLimit = 1
  SackMax = 2
  MaxMessages = 4
  MaxUnacked = 3
  MaxTemp = 1
  MaxAcks = 1
INVARIANT NothingLost
