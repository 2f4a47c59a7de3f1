SPECIFICATION FairSpec
CONSTANTS
    Pids = {1, 2}
    Commands = {"start", "restart"}
    Serial = TRUE
    FreshPids = TRUE
    HttpEnabled = TRUE
    Tokened = {2}
    MaxIterations = 0
    MaxOps = 2
    MaxCrashes = 0
PROPERTY RestartServes
CHECK_DEADLOCK FALSE
