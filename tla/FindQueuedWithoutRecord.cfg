SPECIFICATION Spec
CONSTANTS
    Jobs = {1}
    LeaseSecs = 1
    Actors = {svc}
    svc = svc
    Kind <- MCKind
    Sanctioned = {FALSE}
    Requests = {"enqueue"}
    MaxJobs = 1
    MaxTime = 2
    MaxOps = 1
    MaxCrashes = 1
INVARIANT InFlightHasRecord
