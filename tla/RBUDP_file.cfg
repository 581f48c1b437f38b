SPECIFICATION LiveSpec
CONSTANTS
  Flows <- OneFlow
  Writers = {w1}
  Short = {}
  MaxPackets = 3
  MaxCopies = 2
  MaxLost = 1
INVARIANTS TypeOK InOrderOnce NothingLost  
PROPERTIES ImplementsWindow EveryTransmittedHandedOver
CHECK_DEADLOCK FALSE
