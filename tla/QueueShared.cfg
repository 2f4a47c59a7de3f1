SPECIFICATION Spec
CONSTANTS
    Jobs = {1}
    LeaseSecs = 1
    Actors = {svc, cli}
    svc = svc
    Kind <- MCKind
    Sanctioned = {FALSE}
    Requests = {"enqueue", "cancel"}
    MaxJobs = 1
    MaxTime = 0
    MaxOps = 1
    MaxCrashes = 0
    cli = cli
INVARIANT NoRecordLost
SYMMETRY ActorSymmetry
