CONSTANTS
  Sizes = {0, 1, 2}
  MaxItems = 3
  MarkerTimesOut = FALSE
  Mixes = FALSE
SPECIFICATION FairSpec
INVARIANTS EndOnItsWay
PROPERTIES InOrderToTheEnd ReaderEnds SendersReturn
CHECK_DEADLOCK FALSE
