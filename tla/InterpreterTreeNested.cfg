CONSTANTS
  Graphs <- MCGraphs
  Roots = {"nested"}
  Rounds <- MCRoundsNested
  Nodes <- MCNodes
  Body <- MCBody
  Branches <- MCBranches
  Batch = {"b1", "b2", "b3"}
  OneTime = {"f1", "f2", "f3"}
  FailFast = {"b3"}
  Failing = {"p", "q", "q3", "s", "s3", "u", "x2", "u3", "x3"}
  Interpreters = {1, 2, 3, 4}
  MaxAsked = 0
  NoOne = NoOne
SPECIFICATION Spec
INVARIANT StopsOnlyAsked
CHECK_DEADLOCK FALSE
