CONSTANTS
  Last = 3
  Handlers = {3}
  Jumps <- MCJumpsBusy
  Subs <- MCSubsBusy
  Ends <- MCEndsBusy
  Runners = {r1, r2}
  Callers = {e1}
  Watchers = {w1}
  NoTask = NoTask
  MaxRuns = 2
  MaxNest = 0
  Window = "any"
  WaitTimeouts = TRUE
  FailAfterJump = TRUE
  UserResets = TRUE
SPECIFICATION FairSpec
INVARIANTS MutualExclusion
PROPERTIES LockIsGranted
CHECK_DEADLOCK FALSE
