CONSTANTS
  Graphs <- MCGraphs
  Roots = {"fast"}
  Rounds <- MCRoundsFast
  Nodes <- MCNodes
  Body <- MCBody
  Branches <- MCBranches
  Batch = {"b1", "b2", "b3"}
  OneTime = {"f1", "f2", "f3"}
  FailFast = {"b3"}
  Failing = {"p", "q", "q3", "s", "s3", "u", "x2", "u3", "x3"}
  Interpreters = {1, 2, 3, 4}
  MaxAsked = 0
  NoOne = NoOne
SPECIFICATION FairSpec
PROPERTY RunEnds
CHECK_DEADLOCK FALSE
