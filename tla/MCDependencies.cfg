CONSTANTS
  session = session
  repository = repository
  Keys = {session, repository}
  NoKey = NoKey
  Chain <- MCChain
  Outcomes = {"value", "null", "raise", "cancel"}
  Branches = {b1, b2}
  Runners = {r1, r2}
  Terminators = {t1}
  MaxRes = 4
  MaxScopes = 3
  Overlap = FALSE
  TeardownFails = TRUE
SPECIFICATION FairSpec
INVARIANTS HeldOpen OneInstance TornDownInReverse NoOrphans
PROPERTIES WaitersWake
CHECK_DEADLOCK FALSE
