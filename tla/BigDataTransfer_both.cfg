SPECIFICATION LiveSpec
CONSTANTS
  Tasks = {1, 2, 3}
  Src <- MCSrc
  Dst <- MCDst
  Packets <- MCPackets
  ReadAtOnce = 2
  MaxBuffer = 1
  MaxTasks = 0
  MaxMishaps = 1
INVARIANTS TypeOK  OrphansHaveACause 
PROPERTY EveryTransferEnds
CHECK_DEADLOCK FALSE
