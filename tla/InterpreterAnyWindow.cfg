CONSTANTS
  Last = 5
  Handlers = {4}
  Jumps <- MCJumps
  Subs <- MCSubs
  Ends <- MCEnds
  Runners = {r1}
  Callers = {e1, e2}
  Watchers = {w1}
  NoTask = NoTask
  MaxRuns = 2
  MaxNest = 2
  Window = "any"
  WaitTimeouts = FALSE
  FailAfterJump = FALSE
  UserResets = FALSE
SPECIFICATION Spec
PROPERTIES RunsInOrder
CHECK_DEADLOCK FALSE
