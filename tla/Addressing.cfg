CONSTANTS
  Width = 2
  Depth = 3
  MaxOffset = 2
  MaxJumps = 1
SPECIFICATION FairSpec
INVARIANTS OverAtTheEnd FailsOnEmpty TopSibling
PROPERTIES InOrder WalkEnds
CHECK_DEADLOCK FALSE
