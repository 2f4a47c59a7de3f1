----------------------------- MODULE JobTables -----------------------------
(***************************************************************************)
(* The two tables the local queue keeps on disk and the functions that     *)
(* change them:                                                            *)
(*                                                                         *)
(*   state/runtime/scheduler/state.json         (scheduler_state.rs)       *)
(*   state/runtime/scheduler/reservations.json  (reservations.rs)          *)
(*                                                                         *)
(* Both are maps keyed by the job id, the hash of the action envelope.     *)
(* Here each is a total function on Jobs with an entry for "not there".    *)
(* A function that returns Err in the code leaves its table alone here;    *)
(* the matching Can... predicate says whether it returns Ok.               *)
(*                                                                         *)
(* Abstracted: the descriptive columns (agent, org, resource, timestamps,  *)
(* attempt_count, lease_owner, result_summary), which no branch of the     *)
(* code reads, and the reserver id, which is the literal                   *)
(* "local_supervisor" at every call and so never tells two callers apart.  *)
(***************************************************************************)
EXTENDS Naturals

CONSTANTS
    Jobs,       \* job ids; numbers, ordered like the queue's file names
    LeaseSecs   \* the lease a supervisor asks for (60 in run_supervisor)

ASSUME JobsAssumption == Jobs \subseteq Nat /\ Jobs # {}
ASSUME LeaseAssumption == LeaseSecs \in Nat \ {0}

-----------------------------------------------------------------------------
(* scheduler_state.rs *)

JobStatus == {"queued", "reserved", "running", "suspended",
              "completed", "failed", "cancelled"}

TerminalStatus == {"completed", "failed", "cancelled"}

InFlightStatus == {"queued", "reserved", "running", "suspended"}

\* Mutant: an interrupted run may be put back in the queue.
RunningMayRequeue(s) ==
    CASE s = "queued"    -> {"reserved", "cancelled"}
      [] s = "reserved"  -> {"running", "queued", "cancelled", "failed"}
      [] s = "running"   -> {"completed", "failed", "cancelled", "queued"}
      [] s = "suspended" -> {"queued", "failed", "cancelled"}
      [] s = "failed"    -> {"queued"}
      [] OTHER           -> {}

\* The statuses a job may move to; a job that is not in the table moves nowhere.
ValidTransitions(s) ==
    CASE s = "queued"    -> {"reserved", "cancelled"}
      [] s = "reserved"  -> {"running", "queued", "cancelled", "failed"}
      [] s = "running"   -> {"completed", "failed", "cancelled", "suspended"}
      [] s = "suspended" -> {"queued", "failed", "cancelled"}
      [] s = "failed"    -> {"queued"}
      [] OTHER           -> {}

\* queue_bucket without its policy-lane suffix.
Buckets == {"none", "pending", "recovered", "reserved", "running",
            "processed", "failed"}

SchedulerJob == [status : JobStatus \cup {"absent"}, bucket : Buckets]

SchedulerState == [Jobs -> SchedulerJob]

EmptyScheduler == [j \in Jobs |-> [status |-> "absent", bucket |-> "none"]]

\* append_job_with_id inserts unconditionally: an old record is replaced.
AppendJob(t, j) ==
    [t EXCEPT ![j] = [status |-> "queued", bucket |-> "pending"]]

CanTransition(t, j, s) == s \in ValidTransitions(t[j].status)

TransitionJob(t, j, s) ==
    IF CanTransition(t, j, s) THEN [t EXCEPT ![j].status = s] ELSE t

\* update_job_metadata, for the one column that is read back.
SetBucket(t, j, b) ==
    IF t[j].status = "absent" THEN t ELSE [t EXCEPT ![j].bucket = b]

\* A transition followed, whether it was legal or not, by the new bucket.
MoveJob(t, j, s, b) == SetBucket(TransitionJob(t, j, s), j, b)

-----------------------------------------------------------------------------
(* reservations.rs *)

ReservationState == {"reserved", "acked", "nacked", "expired"}

JobReservation == [state : ReservationState \cup {"none"}, start : Nat]

ReservationLedger == [Jobs -> JobReservation]

EmptyLedger == [j \in Jobs |-> [state |-> "none", start |-> 0]]

CanReserve(l, j) == l[j].state # "reserved"

ReserveJob(l, j, now) ==
    IF CanReserve(l, j)
    THEN [l EXCEPT ![j] = [state |-> "reserved", start |-> now]]
    ELSE l

\* Mutant: the reservation of a finished job is left to expire.
AckForgotten(l, j) == l

AckJob(l, j) ==
    IF l[j].state = "reserved" THEN [l EXCEPT ![j].state = "acked"] ELSE l

\* Mutant: so is that of a job that could not be started.
NackForgotten(l, j) == l

NackJob(l, j) ==
    IF l[j].state = "reserved" THEN [l EXCEPT ![j].state = "nacked"] ELSE l

\* The reservations whose lease has run out at time now.
StaleJobs(l, now) ==
    {j \in Jobs : l[j].state = "reserved" /\ now >= l[j].start + LeaseSecs}

ExpireStale(l, now) ==
    [j \in Jobs |-> IF j \in StaleJobs(l, now)
                    THEN [l[j] EXCEPT !.state = "expired"]
                    ELSE l[j]]

\* Mutant: the refusal of transition_job is not noticed.
RecoverUnchecked(t, S) ==
    [j \in Jobs |->
        IF j \in S /\ t[j].status # "absent"
        THEN [status |-> "queued", bucket |-> "recovered"]
        ELSE t[j]]

\* What run_supervisor does with the ids expire_stale returns: it tries to move
\* each back to queued, ignores a refusal, and relabels the bucket either way.
RecoverExpired(t, S) ==
    [j \in Jobs |->
        IF j \in S /\ t[j].status # "absent"
        THEN [status |-> IF CanTransition(t, j, "queued")
                         THEN "queued" ELSE t[j].status,
              bucket |-> "recovered"]
        ELSE t[j]]
=============================================================================
