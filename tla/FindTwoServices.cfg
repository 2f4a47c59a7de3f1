SPECIFICATION Spec
CONSTANTS
    Pids = {1, 2}
    Commands = {"start"}
    Serial = FALSE
    FreshPids = TRUE
    HttpEnabled = TRUE
    Tokened = {2}
    MaxIterations = 0
    MaxOps = 2
    MaxCrashes = 0
INVARIANT SoleService
CHECK_DEADLOCK FALSE
