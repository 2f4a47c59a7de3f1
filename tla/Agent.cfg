CONSTANTS
  Sups = {s1, s2}
  Workers = {w1, w2, w3}
  Nobody = Nobody
  Policies = {"manual", "always"}
  Backoff = 1
  Patient = TRUE
  MaxCommands = 2
  MaxCrashes = 2
SPECIFICATION Spec
INVARIANT OneWorker
PROPERTY BackoffHonoured
PROPERTY AlwaysRecovers
PROPERTY StopEndsAgent
CHECK_DEADLOCK FALSE
