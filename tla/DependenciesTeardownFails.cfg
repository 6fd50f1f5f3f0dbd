CONSTANTS
  session = session
  repository = repository
  Keys = {session, repository}
  NoKey = NoKey
  Chain <- MCChain
  Outcomes = {"value", "raise"}
  Branches = {b1}
  Runners = {r1}
  Terminators = {t1}
  MaxRes = 3
  MaxScopes = 3
  Overlap = FALSE
  TeardownFails = TRUE
SPECIFICATION Spec
INVARIANTS UsesOpen
CHECK_DEADLOCK FALSE
