SPECIFICATION Spec
CONSTANTS
    Jobs = {1}
    LeaseSecs = 1
    Actors = {svc, cli}
    svc = svc
    Kind <- MCKind
    Sanctioned = {FALSE}
    Requests = {"enqueue"}
    MaxJobs = 1
    MaxTime = 2
    MaxOps = 2
    MaxCrashes = 0
    cli = cli
INVARIANT ExclusiveExecution
