CONSTANTS
  Last = 5
  Handlers = {4}
  Jumps <- MCJumps
  Subs <- MCSubs
  Ends <- MCEnds
  Runners = {r1, r2}
  Callers = {e1}
  Watchers = {w1, w2}
  NoTask = NoTask
  MaxRuns = 2
  MaxNest = 2
  Window = "safe"
  WaitTimeouts = FALSE
  FailAfterJump = FALSE
  UserResets = TRUE
SPECIFICATION FairSpec
INVARIANTS TypeOK StackMatchesCalls AtMostOneRun
PROPERTIES RunsInOrder StopTakesEffect
CHECK_DEADLOCK FALSE
