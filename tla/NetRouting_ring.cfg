SPECIFICATION LiveSpec
CONSTANTS
  Nodes = {1, 2, 3, 4}
  Dest = 1
  Links <- Ring
  MaxCuts = 1
INVARIANTS TypeOK RoutesLead RoutingInv
PROPERTIES ImplementsTree EveryTerminalRouted CommandsDieOut
CHECK_DEADLOCK FALSE
