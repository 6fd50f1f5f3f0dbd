CONSTANTS
  Last = 5
  Handlers = {4}
  Jumps <- MCJumps
  Subs <- MCSubs
  Ends <- MCEnds
  Runners = {r1, r2}
  Callers = {e1}
  Watchers = {w1, w2}
  NoTask = NoTask
  MaxRuns = 2
  MaxNest = 2
  Window = "safe"
  WaitTimeouts = TRUE
  FailAfterJump = FALSE
  UserResets = TRUE
SPECIFICATION Spec
INVARIANTS AtMostOneRun
CHECK_DEADLOCK FALSE
