CONSTANTS
  Last = 3
  Handlers = {3}
  Jumps <- MCJumpsUnruly
  Subs <- MCSubsUnruly
  Ends <- MCEndsUnruly
  Runners = {r1, r2}
  Callers = {e1, e2}
  Watchers = {w1}
  NoTask = NoTask
  MaxRuns = 2
  MaxNest = 2
  Window = "any"
  WaitTimeouts = TRUE
  FailAfterJump = TRUE
  UserResets = TRUE
SPECIFICATION Spec
INVARIANTS StackMatchesCalls WaitersInLine
CHECK_DEADLOCK FALSE
