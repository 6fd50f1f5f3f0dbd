CONSTANTS
  Producers = {p1, p2}
  Operators = {o1}
  Resumers = {m1}
  NoOne = NoOne
  Tags = {x, y}
  NoTag = NoTag
  Selections = {{}, {x}}
  MaxRequests = 1
  SameLoop = FALSE
  CautiousTimeout = TRUE
SPECIFICATION FairSpec
PROPERTIES ParkEnds
CHECK_DEADLOCK FALSE
