SPECIFICATION Spec
CONSTANTS
  Programs <- BreakInElse
  Squashable = {}
  MaxTrue = 2
INVARIANT EndsAsWritten
