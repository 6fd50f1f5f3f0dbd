CONSTANTS
  Width = 2
  Depth = 3
  MaxOffset = 2
  MaxJumps = 1
SPECIFICATION Spec
PROPERTIES Forward
CHECK_DEADLOCK FALSE
