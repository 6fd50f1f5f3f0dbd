CONSTANTS
  Graphs <- MCGraphs
  Roots = {"calls", "batch"}
  Rounds <- MCRounds
  Nodes <- MCNodes
  Body <- MCBody
  Branches <- MCBranches
  Batch = {"b1", "b2", "b3"}
  OneTime = {"f1", "f2", "f3"}
  FailFast = {}
  Failing = {"p", "q", "q3", "s", "s3", "u", "x2", "u3", "x3"}
  Interpreters = {1, 2, 3, 4, 5, 6, 7, 8}
  MaxAsked = 1
  NoOne = NoOne
SPECIFICATION FairSpec
INVARIANTS TreeMatches StopsOnlyAsked
PROPERTY RunEnds
CHECK_DEADLOCK FALSE
