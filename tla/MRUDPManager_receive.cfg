SPECIFICATION Spec
CONSTANTS
  Terms = {1, 2}
  Arriving <- DataAndUrgent
  Sweepers = {}
  QueueLength = 8
  DealOneTime = 2
  MaxEntities = 2
INVARIANTS TypeOK QueueBounded FrontStaysFront
