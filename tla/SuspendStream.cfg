CONSTANTS
  Producers = {p1, p2}
  Operators = {o1}
  Resumers = {m1}
  NoOne = NoOne
  Tags = {x, y}
  NoTag = NoTag
  Selections = {{}, {x}}
  MaxRequests = 3
  SameLoop = FALSE
  CautiousTimeout = TRUE
SPECIFICATION FairSpec
INVARIANTS SharedResume ParkConfirms
PROPERTIES ParkEndsAwake ResumeReturns
CHECK_DEADLOCK FALSE
