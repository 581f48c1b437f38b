SPECIFICATION Spec
CONSTANTS
  Nodes = {1, 2, 3}
  Dest = 1
  Links <- Triangle
  MaxCuts = 1
INVARIANT OnlineTerminalHasRoute
CHECK_DEADLOCK FALSE
