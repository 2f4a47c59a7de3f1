SPECIFICATION Spec
CONSTANTS
    Jobs = {1, 2}
    LeaseSecs = 1
    Actors = {svc}
    svc = svc
    Kind <- MCKind
    Sanctioned = {FALSE}
    Requests = {"enqueue", "cancel"}
    MaxJobs = 2
    MaxTime = 0
    MaxOps = 3
    MaxCrashes = 1
INVARIANT CompletedNotRerun
INVARIANT CancelSticks
INVARIANT MemoryIsDisk
PROPERTY NoDuplicateRecord
