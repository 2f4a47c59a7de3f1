SPECIFICATION FairSpec
CONSTANTS
    Pids = {1, 2, 3}
    Commands = {"start", "restart"}
    Serial = TRUE
    FreshPids = TRUE
    HttpEnabled = TRUE
    Tokened = {2}
    MaxIterations = 0
    MaxOps = 4
    MaxCrashes = 1
INVARIANT SoleService
INVARIANT ServiceIsReported
PROPERTY StopHonoured
PROPERTY TurnedAwayByTheLiving
CHECK_DEADLOCK FALSE
