CONSTANTS
  Sizes = {1}
  MaxItems = 2
  MarkerTimesOut = TRUE
  Mixes = FALSE
SPECIFICATION FairSpec
PROPERTIES ReaderEnds
CHECK_DEADLOCK FALSE
