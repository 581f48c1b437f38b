SPECIFICATION LiveSpec
CONSTANTS
  Terms = {1, 2}
  Arriving <- Data
  Sweepers = {"upload"}
  QueueLength = 4
  DealOneTime = 1
  MaxEntities = 2
INVARIANT ManagerInv
PROPERTIES AcksNotStarved QueueKeepsMoving NoLateVisit
