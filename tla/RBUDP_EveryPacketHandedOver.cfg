SPECIFICATION LiveSpec
CONSTANTS
  Flows <- OneFlow
  Writers = {w1}
  Short = {1}
  MaxPackets = 2
  MaxCopies = 2
  MaxLost = 1
PROPERTIES EveryPacketHandedOver
CHECK_DEADLOCK FALSE
