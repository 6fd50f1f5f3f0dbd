CONSTANTS
  Sizes = {1}
  MaxItems = 2
  MarkerTimesOut = FALSE
  Mixes = TRUE
SPECIFICATION FairSpec
PROPERTIES ReaderEnds
CHECK_DEADLOCK FALSE
