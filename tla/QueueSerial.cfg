SPECIFICATION FairSpec
CONSTANTS
    Jobs = {1, 2}
    LeaseSecs = 1
    Actors = {svc}
    svc = svc
    Kind <- MCKind
    Sanctioned = {FALSE, TRUE}
    Requests = {"enqueue", "cancel", "ack"}
    MaxJobs = 1
    MaxTime = 0
    MaxOps = 3
    MaxCrashes = 0
INVARIANT RunsOnce
INVARIANT InFlightHasRecord

PROPERTY AckAfterTerminal
PROPERTY Drains
