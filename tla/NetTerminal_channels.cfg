SPECIFICATION LiveSpec
CONSTANTS
  Cids <- MCCids
  Peers = {1}
  MaxConnects = 3
  MaxQueued = 2
INVARIANTS TypeOK  RotationFair 
 
