---------------------------- MODULE QueueRuntime ----------------------------
(***************************************************************************)
(* The local queue: enqueue_action, run_supervisor, job cancellation and   *)
(* queue acknowledgement, as processes that share nothing but files.       *)
(*                                                                         *)
(* An actor is a process running this code: the runtime service (which     *)
(* serves submissions and cancellations and runs a supervisor pass in one  *)
(* loop, on one thread), the supervisor daemon, or a command such as       *)
(* `loom action enqueue` or `loom queue consume`.  There is no lock between*)
(* them.  Every read or write of a shared file is a step of its own; a     *)
(* process works on its in-memory copy in between and may crash anywhere.  *)
(* One actor is the runtime service alone; two are the service and an      *)
(* operator's command.                                                     *)
(***************************************************************************)
EXTENDS PolicyLanes, FiniteSets

CONSTANTS
    Actors,      \* processes running the queue code
    Kind,        \* Kind[j]: what classify_action sees of job j's action
    Sanctioned,  \* the values has_sanctions may take, a subset of BOOLEAN
    Requests,    \* the operator requests made: subset of {"enqueue", "cancel", "ack"}
    MaxJobs,     \* max_jobs of a supervisor pass
    MaxTime,     \* bound: the clock stops here unless a lease is out
    MaxOps,      \* bound: operator requests
    MaxCrashes   \* bound: crashes

ASSUME KindAssumption == Kind \in [Jobs -> {"privileged", "heavy", "plain"}]
ASSUME SanctionedAssumption == Sanctioned \subseteq BOOLEAN /\ Sanctioned # {}
ASSUME BoundsAssumption ==
    /\ MaxJobs \in Nat \ {0} /\ MaxTime \in Nat /\ MaxOps \in Nat
    /\ MaxCrashes \in Nat

VARIABLES
    sched,      \* scheduler/state.json
    ledger,     \* scheduler/reservations.json
    pending,    \* queue/pending/<lane>/: records waiting for a supervisor
    settled,    \* queue/processed/ and queue/failed/, by directory
    snapshot,   \* jobs/<job>/job.json: status and queue_path
    acks,       \* queue/acks/<job>.json: the job status acknowledged
    clock,      \* seconds
    mem,        \* each actor's program counter and in-memory copies
    ops, crashes,
    \* History, read by properties only; the three job sets are cleared when
    \* enqueue_action saves a fresh record of the job.
    submitted,  \* names of the records ever written to pending
    ran,        \* jobs whose worker ran, with how often
    captured,   \* jobs whose completed execution was captured
    cancelled   \* jobs whose cancellation was answered "cancelled"

disk  == <<sched, ledger, pending, settled, snapshot, acks>>
ghost == <<submitted, ran, captured, cancelled>>
vars  == <<disk, clock, mem, ops, crashes, ghost>>

-----------------------------------------------------------------------------
(* What a pass may make of a job.                                          *)

\* Outcomes of capture_decision and capture_runtime_execution: the worker ran
\* and completed or failed, the kernel refused the budget, the reference gate or
\* the sanction controls refused the action, or the call returned Err before or
\* after the worker ran.
Outcomes == {"completed", "failed", "undispatched", "deny", "hard_deny",
             "error", "error_after_run"}

ErrorOutcomes == {"error", "error_after_run"}

WorkerRan(o) == o \in {"completed", "failed", "error_after_run"}

\* The scheduler status run_supervisor gives a captured execution.
TerminalOf(o) ==
    CASE o = "completed"               -> "completed"
      [] o \in {"deny", "hard_deny"}   -> "cancelled"
      [] OTHER                         -> "failed"

\* The snapshot status capture_runtime_execution writes ...
CaptureStatus(o) ==
    CASE o \in {"completed", "failed"} -> o
      [] o = "deny"                    -> "denied"
      [] OTHER                         -> "runtime_rehearsed"

\* ... and the one run_supervisor overwrites it with: a refusal is recorded as
\* the decision string itself.
FinalStatus(o) ==
    CASE o \in {"completed", "deny", "hard_deny"} -> o
      [] OTHER                                    -> "failed"

SnapshotStatus == JobStatus \cup {"absent", "denied", "runtime_rehearsed",
                                 "deny", "hard_deny"}

\* Mutant: so is a job that waits.
AcknowledgeableEarly == {"completed", "failed", "denied", "cancelled", "queued"}

\* The snapshot statuses ack_queue_job accepts.
Acknowledgeable == {"completed", "failed", "denied", "cancelled"}

-----------------------------------------------------------------------------
(* An actor's memory.                                                      *)

PC == {"idle",
       "enq_write", "enq_save", "enq_snap", "cancel_save",
       "load_sched", "load_ledger", "boot_sched", "boot_ledger", "next",
       "skip_sched", "skip_ledger", "resv_sched", "resv_ledger",
       "prepare", "run_sched", "execute", "capture",
       "done_sched", "done_ledger", "done_move", "done_snap", "done_ack",
       "fail_sched", "fail_ledger", "fail_write", "fail_remove",
       "fail_snap", "fail_ack",
       "rec_move", "rec_sched", "rec_snap", "rec_ack"}

NoFile == [lane |-> Standard, at |-> 0, job |-> CHOOSE j \in Jobs : TRUE]

IdleMem == [pc |-> "idle", file |-> NoFile, todo |-> {}, left |-> 0,
            sched |-> EmptyScheduler, ledger |-> EmptyLedger,
            outcome |-> "error"]

Memory == [pc : PC, file : QueueFile, todo : SUBSET QueueFile, left : Nat,
           sched : SchedulerState, ledger : ReservationLedger,
           outcome : Outcomes]

At(a, pc) == mem[a].pc = pc
Job(a)    == mem[a].file.job
Update(a, m)  == mem' = [mem EXCEPT ![a] = m]
Goto(a, pc)   == Update(a, [mem[a] EXCEPT !.pc = pc])
Finish(a)     == Update(a, IdleMem)

\* queue_path of a snapshot: at most one place.
Places == {"pending", "processed", "failed"} \X QueueFile

PlaceExists(p) ==
    IF p[1] = "pending" THEN p[2] \in pending
                        ELSE NameOf(p[2]) \in settled[p[1]]

Init ==
    /\ sched = EmptyScheduler /\ ledger = EmptyLedger
    /\ pending = {} /\ settled = [d \in {"processed", "failed"} |-> {}]
    /\ snapshot = [j \in Jobs |-> [status |-> "absent", path |-> {}]]
    /\ acks = [j \in Jobs |-> "absent"]
    /\ clock = 0 /\ ops = 0 /\ crashes = 0
    /\ mem = [a \in Actors |-> IdleMem]
    /\ submitted = {} /\ captured = {} /\ cancelled = {}
    /\ ran = [j \in Jobs |-> 0]

-----------------------------------------------------------------------------
(* enqueue_action *)

Request(kind) == kind \in Requests /\ ops < MaxOps /\ ops' = ops + 1

\* The job is classified and the scheduler state loaded.
EnqueueLoad(a, j) ==
    /\ At(a, "idle") /\ Request("enqueue")
    /\ \E hasSanctions \in Sanctioned :
         Update(a, [mem[a] EXCEPT
             !.pc = "enq_write", !.sched = sched,
             !.file = [lane |-> ClassifyAction(Kind[j], hasSanctions),
                       at |-> 0, job |-> j]])
    /\ UNCHANGED <<disk, clock, crashes, ghost>>

\* The record an in-flight job already has: where its snapshot points, wherever
\* that is, or any pending record that names it.
HasQueuePath(j) ==
    \/ \E p \in snapshot[j].path : PlaceExists(p)
    \/ \E f \in pending : f.job = j

\* Mutant: a job that a supervisor has reserved is not taken for in flight.
ReusableQueuedOnly(a) ==
    /\ mem[a].sched[Job(a)].status = "queued"
    /\ HasQueuePath(Job(a))

Reusable(a) ==
    /\ mem[a].sched[Job(a)].status \in InFlightStatus
    /\ HasQueuePath(Job(a))

\* An in-flight job with a record is answered from it: nothing is written.
EnqueueReuse(a) ==
    /\ At(a, "enq_write") /\ Reusable(a)
    /\ Finish(a)
    /\ UNCHANGED <<disk, clock, ops, crashes, ghost>>

\* Otherwise a record named after the current second is written first ...
EnqueueWrite(a) ==
    /\ At(a, "enq_write") /\ ~Reusable(a)
    /\ LET f == [mem[a].file EXCEPT !.at = clock] IN
         /\ pending' = pending \cup {f}
         /\ submitted' = submitted \cup {NameOf(f)}
         /\ Update(a, [mem[a] EXCEPT !.pc = "enq_save", !.file = f,
                                     !.sched = AppendJob(@, f.job)])
    /\ UNCHANGED <<sched, ledger, settled, snapshot, acks, clock, ops, crashes,
                   ran, captured, cancelled>>

\* ... then the scheduler state loaded at the start, with the job appended ...
EnqueueSave(a) ==
    /\ At(a, "enq_save")
    /\ sched' = mem[a].sched
    /\ ran' = [ran EXCEPT ![Job(a)] = 0]
    /\ captured' = captured \ {Job(a)}
    /\ cancelled' = cancelled \ {Job(a)}
    /\ Goto(a, "enq_snap")
    /\ UNCHANGED <<ledger, pending, settled, snapshot, acks, clock, ops,
                   crashes, submitted>>

WriteSnapshot(j, status, path) ==
    snapshot' = [snapshot EXCEPT ![j] = [status |-> status, path |-> path]]

\* ... then the job snapshot.
EnqueueSnapshot(a) ==
    /\ At(a, "enq_snap")
    /\ WriteSnapshot(Job(a), "queued", {<<"pending", mem[a].file>>})
    /\ Finish(a)
    /\ UNCHANGED <<sched, ledger, pending, settled, acks, clock, ops, crashes,
                   ghost>>

-----------------------------------------------------------------------------
(* The service's cancel_job request and `loom queue ack`.                  *)

\* A job that is missing or not cancelable is refused without a write; only the
\* accepted request is a step.
CancelLoad(a, j) ==
    /\ At(a, "idle") /\ Request("cancel")
    /\ CanTransition(sched, j, "cancelled")
    /\ Update(a, [mem[a] EXCEPT
           !.pc = "cancel_save", !.file = [NoFile EXCEPT !.job = j],
           !.sched = TransitionJob(sched, j, "cancelled")])
    /\ UNCHANGED <<disk, clock, crashes, ghost>>

\* Only the scheduler state is saved: the reservation, the pending record and the
\* snapshot stay for a later pass.
CancelSave(a) ==
    /\ At(a, "cancel_save")
    /\ sched' = mem[a].sched
    /\ cancelled' = cancelled \cup {Job(a)}
    /\ Finish(a)
    /\ UNCHANGED <<ledger, pending, settled, snapshot, acks, clock, ops,
                   crashes, submitted, ran, captured>>

\* ack_queue_job reads the snapshot only.
QueueAck(a, j) ==
    /\ At(a, "idle") /\ Request("ack")
    /\ snapshot[j].status \in Acknowledgeable
    /\ acks' = [acks EXCEPT ![j] = snapshot[j].status]
    /\ UNCHANGED <<sched, ledger, pending, settled, snapshot, clock, mem,
                   crashes, ghost>>

-----------------------------------------------------------------------------
(* run_supervisor: the start of a pass.                                    *)

\* The list of pending records is taken before the tables are loaded.
CollectPending(a) ==
    /\ At(a, "idle")
    /\ Update(a, [mem[a] EXCEPT !.pc = "load_sched", !.todo = pending,
                                !.left = MaxJobs])
    /\ UNCHANGED <<disk, clock, ops, crashes, ghost>>

LoadSched(a) ==
    /\ At(a, "load_sched")
    /\ Update(a, [mem[a] EXCEPT !.pc = "load_ledger", !.sched = sched])
    /\ UNCHANGED <<disk, clock, ops, crashes, ghost>>

\* Stale leases expire and their jobs are put back, in memory.
LoadLedger(a) ==
    /\ At(a, "load_ledger")
    /\ Update(a, [mem[a] EXCEPT
           !.pc = "boot_sched", !.ledger = ExpireStale(ledger, clock),
           !.sched = RecoverExpired(@, StaleJobs(ledger, clock))])
    /\ UNCHANGED <<disk, clock, ops, crashes, ghost>>

\* Mutant: a reservation is not saved before its job is prepared.
ReservationUnsaved(pc) ==
    CASE pc = "boot_sched" -> "boot_ledger"
      [] pc = "skip_sched" -> "skip_ledger"
      [] pc = "resv_sched" -> "prepare"
      [] pc = "run_sched"  -> "execute"
      [] pc = "done_sched" -> "done_ledger"
      [] pc = "fail_sched" -> "fail_ledger"
      [] pc = "rec_sched"  -> "rec_snap"

\* Every save writes the whole table from memory, the scheduler state first.
AfterSchedSave(pc) ==
    CASE pc = "boot_sched" -> "boot_ledger"
      [] pc = "skip_sched" -> "skip_ledger"
      [] pc = "resv_sched" -> "resv_ledger"
      [] pc = "run_sched"  -> "execute"
      [] pc = "done_sched" -> "done_ledger"
      [] pc = "fail_sched" -> "fail_ledger"
      [] pc = "rec_sched"  -> "rec_snap"

SaveSched(a) ==
    /\ mem[a].pc \in {"boot_sched", "skip_sched", "resv_sched", "run_sched",
                      "done_sched", "fail_sched", "rec_sched"}
    /\ sched' = mem[a].sched
    /\ Goto(a, AfterSchedSave(mem[a].pc))
    /\ UNCHANGED <<ledger, pending, settled, snapshot, acks, clock, ops,
                   crashes, ghost>>

AfterLedgerSave(pc) ==
    CASE pc \in {"boot_ledger", "skip_ledger"} -> "next"
      [] pc = "resv_ledger" -> "prepare"
      [] pc = "done_ledger" -> "done_move"
      [] pc = "fail_ledger" -> "fail_write"

SaveLedger(a) ==
    /\ mem[a].pc \in {"boot_ledger", "skip_ledger", "resv_ledger",
                      "done_ledger", "fail_ledger"}
    /\ ledger' = mem[a].ledger
    /\ Goto(a, AfterLedgerSave(mem[a].pc))
    /\ UNCHANGED <<sched, pending, settled, snapshot, acks, clock, ops,
                   crashes, ghost>>

-----------------------------------------------------------------------------
(* run_supervisor: one record of the pass.  Err ends the pass without      *)
(* saving, which Finish stands for: the in-memory tables are lost.         *)

PassEnds(a) ==
    /\ At(a, "next")
    /\ mem[a].left = 0 \/ mem[a].todo = {}
    /\ Finish(a)
    /\ UNCHANGED <<disk, clock, ops, crashes, ghost>>

Takes(a, f) == At(a, "next") /\ mem[a].left > 0 /\ IsFirst(f, mem[a].todo)

Popped(a, f, pc) ==
    [mem[a] EXCEPT !.pc = pc, !.file = f, !.todo = @ \ {f}, !.left = @ - 1]

\* The record was moved by another process after it was listed: Err.
RecordVanished(a) ==
    /\ \E f \in mem[a].todo : Takes(a, f) /\ f \notin pending
    /\ Finish(a)
    /\ UNCHANGED <<disk, clock, ops, crashes, ghost>>

\* The job is over already: the record is stale.
RecordStale(a) ==
    /\ \E f \in mem[a].todo :
         /\ Takes(a, f) /\ f \in pending
         /\ mem[a].sched[f.job].status \in TerminalStatus
         /\ Update(a, Popped(a, f, "rec_move"))
    /\ UNCHANGED <<disk, clock, ops, crashes, ghost>>

\* Mutant: the entry is replaced even if it is there.
WithFreshJob(t, j) == AppendJob(t, j)

\* The table in which the record's job is looked up: a job whose record is there
\* but whose scheduler entry is not gets a fresh entry.
WithJob(t, j) == IF t[j].status = "absent" THEN AppendJob(t, j) ELSE t

\* A live reservation: the record is left for a later pass.
RecordReserved(a) ==
    /\ \E f \in mem[a].todo :
         /\ Takes(a, f) /\ f \in pending
         /\ mem[a].sched[f.job].status \notin TerminalStatus
         /\ ~CanReserve(mem[a].ledger, f.job)
         /\ Update(a, [Popped(a, f, "skip_sched") EXCEPT
                !.sched = SetBucket(WithJob(@, f.job), f.job, "reserved")])
    /\ UNCHANGED <<disk, clock, ops, crashes, ghost>>

\* The reservation is granted and the job may become reserved.
Reserve(a) ==
    /\ \E f \in mem[a].todo :
         /\ Takes(a, f) /\ f \in pending
         /\ mem[a].sched[f.job].status \notin TerminalStatus
         /\ CanReserve(mem[a].ledger, f.job)
         /\ CanTransition(WithJob(mem[a].sched, f.job), f.job, "reserved")
         /\ Update(a, [Popped(a, f, "resv_sched") EXCEPT
                !.ledger = ReserveJob(@, f.job, clock),
                !.sched = MoveJob(WithJob(@, f.job), f.job,
                                  "reserved", "reserved")])
    /\ UNCHANGED <<disk, clock, ops, crashes, ghost>>

\* The reservation is granted in memory but the job is reserved or running
\* according to the scheduler: Err, and the grant is lost with the rest.
ReserveRefused(a) ==
    /\ \E f \in mem[a].todo :
         /\ Takes(a, f) /\ f \in pending
         /\ mem[a].sched[f.job].status \notin TerminalStatus
         /\ CanReserve(mem[a].ledger, f.job)
         /\ ~CanTransition(WithJob(mem[a].sched, f.job), f.job, "reserved")
    /\ Finish(a)
    /\ UNCHANGED <<disk, clock, ops, crashes, ghost>>

\* In memory: the nacked reservation and failed job of the Err branch.
FailJob(a) ==
    Update(a, [mem[a] EXCEPT
        !.pc = "fail_sched", !.ledger = NackJob(@, Job(a)),
        !.sched = MoveJob(@, Job(a), "failed", "failed")])

\* The identity does not resolve or the envelope is refused.
PrepareFails(a) ==
    /\ At(a, "prepare")
    /\ FailJob(a)
    /\ UNCHANGED <<disk, clock, ops, crashes, ghost>>

MarkRunning(a) ==
    /\ At(a, "prepare")
    /\ Update(a, [mem[a] EXCEPT
           !.pc = "run_sched", !.sched = MoveJob(@, Job(a), "running", "running")])
    /\ UNCHANGED <<disk, clock, ops, crashes, ghost>>

\* The gates are evaluated and the worker runs, or not.
Execute(a) ==
    /\ At(a, "execute")
    /\ \E o \in Outcomes :
         /\ Update(a, [mem[a] EXCEPT !.pc = "capture", !.outcome = o])
         /\ ran' = [ran EXCEPT ![Job(a)] = @ + (IF WorkerRan(o) THEN 1 ELSE 0)]
    /\ UNCHANGED <<disk, clock, ops, crashes, submitted, captured, cancelled>>

\* The execution is captured: its snapshot is written, then, in memory, the
\* reservation is acked and the job becomes terminal.
Capture(a) ==
    /\ At(a, "capture") /\ mem[a].outcome \notin ErrorOutcomes
    /\ WriteSnapshot(Job(a), CaptureStatus(mem[a].outcome),
                     snapshot[Job(a)].path)
    /\ Update(a, [mem[a] EXCEPT
           !.pc = "done_sched", !.ledger = AckJob(@, Job(a)),
           !.sched = MoveJob(@, Job(a), TerminalOf(mem[a].outcome), "processed")])
    /\ captured' = captured \cup {j \in {Job(a)} : mem[a].outcome = "completed"}
    /\ UNCHANGED <<sched, ledger, pending, settled, acks, clock, ops, crashes,
                   submitted, ran, cancelled>>

CaptureFails(a) ==
    /\ At(a, "capture") /\ mem[a].outcome \in ErrorOutcomes
    /\ FailJob(a)
    /\ UNCHANGED <<disk, clock, ops, crashes, ghost>>

-----------------------------------------------------------------------------
(* run_supervisor: where a record goes.                                    *)

\* Mutant: the record is removed and never arrives.
MoveDrops(dir, f) == pending' = pending \ {f} /\ UNCHANGED settled

MoveTo(dir, f) ==
    /\ pending' = pending \ {f}
    /\ settled' = [settled EXCEPT ![dir] = @ \cup {NameOf(f)}]

\* rename to processed/; Err when another process has moved the record.
DoneMove(a) ==
    /\ At(a, "done_move") /\ mem[a].file \in pending
    /\ MoveTo("processed", mem[a].file)
    /\ Goto(a, "done_snap")
    /\ UNCHANGED <<sched, ledger, snapshot, acks, clock, ops, crashes, ghost>>

\* The failed record is rewritten under failed/ before the pending one goes.
FailWrite(a) ==
    /\ At(a, "fail_write")
    /\ settled' = [settled EXCEPT !["failed"] = @ \cup {NameOf(mem[a].file)}]
    /\ Goto(a, "fail_remove")
    /\ UNCHANGED <<sched, ledger, pending, snapshot, acks, clock, ops, crashes,
                   ghost>>

FailRemove(a) ==
    /\ At(a, "fail_remove") /\ mem[a].file \in pending
    /\ pending' = pending \ {mem[a].file}
    /\ Goto(a, "fail_snap")
    /\ UNCHANGED <<sched, ledger, settled, snapshot, acks, clock, ops, crashes,
                   ghost>>

\* reconcile_terminal_pending_queue_record: the directory a stale record goes to.
ReconcileDir(a) ==
    LET job == mem[a].sched[Job(a)] IN
    IF job.bucket = "failed" \/ job.status = "failed"
    THEN "failed" ELSE "processed"

InReconcileDir(a) == NameOf(mem[a].file) \in settled[ReconcileDir(a)]

\* Mutant: the stale record stays where it is.
ReconcileKeeps(a) ==
    /\ At(a, "rec_move") /\ mem[a].file \in pending
    /\ Goto(a, "rec_sched")
    /\ UNCHANGED <<disk, clock, ops, crashes, ghost>>

\* Renamed, or just removed when the destination has it already.
ReconcileMove(a) ==
    /\ At(a, "rec_move")
    /\ mem[a].file \in pending \/ InReconcileDir(a)
    /\ MoveTo(ReconcileDir(a), mem[a].file)
    /\ Goto(a, "rec_sched")
    /\ UNCHANGED <<sched, ledger, snapshot, acks, clock, ops, crashes, ghost>>

\* Err: the record to rename or remove is gone.
MoveFails(a) ==
    /\ \/ At(a, "done_move")
       \/ At(a, "fail_remove")
       \/ At(a, "rec_move") /\ ~InReconcileDir(a)
    /\ mem[a].file \notin pending
    /\ Finish(a)
    /\ UNCHANGED <<disk, clock, ops, crashes, ghost>>

\* The snapshot a branch ends with and the directory it points to.
FinalSnapshot(a) ==
    CASE mem[a].pc \in {"done_snap", "done_ack"} ->
           [status |-> FinalStatus(mem[a].outcome), dir |-> "processed"]
      [] mem[a].pc \in {"fail_snap", "fail_ack"} ->
           [status |-> "failed", dir |-> "failed"]
      [] mem[a].pc \in {"rec_snap", "rec_ack"} ->
           [status |-> mem[a].sched[Job(a)].status, dir |-> ReconcileDir(a)]

AfterSnapshot(pc) ==
    CASE pc = "done_snap" -> "done_ack"
      [] pc = "fail_snap" -> "fail_ack"
      [] pc = "rec_snap"  -> "rec_ack"

SaveSnapshot(a) ==
    /\ mem[a].pc \in {"done_snap", "fail_snap", "rec_snap"}
    /\ WriteSnapshot(Job(a), FinalSnapshot(a).status,
                     {<<FinalSnapshot(a).dir, mem[a].file>>})
    /\ Goto(a, AfterSnapshot(mem[a].pc))
    /\ UNCHANGED <<sched, ledger, pending, settled, acks, clock, ops, crashes,
                   ghost>>

WriteAck(a) ==
    /\ mem[a].pc \in {"done_ack", "fail_ack", "rec_ack"}
    /\ acks' = [acks EXCEPT ![Job(a)] = FinalSnapshot(a).status]
    /\ Update(a, [mem[a] EXCEPT !.pc = "next", !.file = NoFile,
                                !.outcome = "error"])
    /\ UNCHANGED <<sched, ledger, pending, settled, snapshot, clock, ops,
                   crashes, ghost>>

-----------------------------------------------------------------------------
(* The environment.                                                        *)

\* The process dies; what it held in memory is gone.  It may start again.
Crash(a) ==
    /\ ~At(a, "idle") /\ crashes < MaxCrashes
    /\ crashes' = crashes + 1
    /\ Finish(a)
    /\ UNCHANGED <<disk, clock, ops, ghost>>

\* Past MaxTime the clock runs only as far as the leases on disk need to end.
Tick ==
    /\ \/ clock < MaxTime
       \/ \E j \in Jobs : ledger[j].state = "reserved" /\ j \notin StaleJobs(ledger, clock)
    /\ clock' = clock + 1
    /\ UNCHANGED <<disk, mem, ops, crashes, ghost>>

EnqueueStep(a) ==
    EnqueueReuse(a) \/ EnqueueWrite(a) \/ EnqueueSave(a) \/ EnqueueSnapshot(a)

PassStep(a) ==
    \/ CollectPending(a) \/ LoadSched(a) \/ LoadLedger(a)
    \/ SaveSched(a) \/ SaveLedger(a) \/ PassEnds(a)
    \/ RecordVanished(a) \/ RecordStale(a) \/ RecordReserved(a)
    \/ Reserve(a) \/ ReserveRefused(a)
    \/ PrepareFails(a) \/ MarkRunning(a)
    \/ Execute(a) \/ Capture(a) \/ CaptureFails(a)
    \/ DoneMove(a) \/ FailWrite(a) \/ FailRemove(a) \/ ReconcileMove(a)
    \/ MoveFails(a) \/ SaveSnapshot(a) \/ WriteAck(a)

ActorStep(a) == EnqueueStep(a) \/ CancelSave(a) \/ PassStep(a)

Next ==
    \/ \E a \in Actors :
         \/ ActorStep(a) \/ Crash(a)
         \/ \E j \in Jobs : EnqueueLoad(a, j) \/ CancelLoad(a, j) \/ QueueAck(a, j)
    \/ Tick

Spec == Init /\ [][Next]_vars

\* The service loop starts a pass forever, `Restart=on-failure` brings a dead
\* service back, and time passes.
Fairness == WF_vars(Tick) /\ \A a \in Actors : WF_vars(ActorStep(a))

FairSpec == Spec /\ Fairness

-----------------------------------------------------------------------------
(* Properties.                                                             *)

\* Every table, directory and memory holds values of its kind.
TypeOK ==
    /\ sched \in SchedulerState
    /\ ledger \in ReservationLedger
    /\ pending \in SUBSET QueueFile
    /\ settled \in [{"processed", "failed"} -> SUBSET FileName]
    /\ snapshot \in [Jobs -> [status : SnapshotStatus, path : SUBSET Places]]
    /\ acks \in [Jobs -> SnapshotStatus]
    /\ clock \in Nat /\ ops \in Nat /\ crashes \in Nat
    /\ mem \in [Actors -> Memory]
    /\ submitted \in SUBSET FileName
    /\ ran \in [Jobs -> Nat]
    /\ captured \in SUBSET Jobs /\ cancelled \in SUBSET Jobs

PendingNames == {NameOf(f) : f \in pending}

\* A record written by enqueue_action is never lost: whatever processes crash or
\* interleave, it is in pending/, processed/ or failed/.  (run_supervisor and
\* reconcile_terminal_pending_queue_record rename it or write it before they
\* remove it.)
NoRecordLost ==
    submitted \subseteq PendingNames \cup settled["processed"]
                                     \cup settled["failed"]

\* One actor only.  A job whose completed execution was captured is not executed
\* again unless it is enqueued again, whatever crashes: the scheduler is left at
\* running or beyond, and nothing leads from there back to reserved.
CompletedNotRerun ==
    \A a \in Actors : At(a, "execute") => Job(a) \notin captured

\* One actor only.  A cancellation the service answered stands until the job is
\* enqueued again, although the pending record, the reservation and the snapshot
\* are left behind (handle_runtime_service_request, "cancel_job").
CancelSticks == \A j \in cancelled : sched[j].status = "cancelled"

\* One actor only.  While a job is prepared, executed and captured the tables
\* run_supervisor holds in memory are those on disk, so that its later saves of
\* whole tables undo nobody's change.
MemoryIsDisk ==
    \A a \in Actors : mem[a].pc \in {"prepare", "execute", "capture"} =>
        mem[a].sched = sched /\ mem[a].ledger = ledger

\* The runtime service alone, or no process at all.
SingleActor == \A a, b \in Actors : a = b

\* What the two history sets say of job j's status in a table.
Safe(t, j) ==
    /\ j \in captured => t[j].status \in {"running", "completed", "cancelled"}
    /\ j \in cancelled => t[j].status = "cancelled"

\* Where an actor has a scheduler table in memory, where its tables are the
\* disk's, and where it works on a job.
Loaded == PC \ {"idle", "load_sched"}
SchedSynced ==
    {"enq_write", "enq_snap", "load_ledger", "boot_ledger", "next",
     "skip_ledger", "resv_ledger", "prepare", "execute", "capture",
     "done_ledger", "done_move", "done_snap", "done_ack",
     "fail_ledger", "fail_write", "fail_remove", "fail_snap", "fail_ack",
     "rec_move", "rec_sched", "rec_snap", "rec_ack"}
LedgerSynced ==
    {"next", "skip_sched", "skip_ledger", "prepare", "run_sched", "execute",
     "capture", "done_move", "done_snap", "done_ack", "fail_write",
     "fail_remove", "fail_snap", "fail_ack",
     "rec_move", "rec_sched", "rec_snap", "rec_ack"}
Working == {"resv_sched", "resv_ledger", "prepare", "run_sched", "execute",
            "capture", "fail_sched"}

\* One actor only.  The inductive invariant behind the three properties above:
\* no table, on disk or in memory, contradicts a captured completion or an
\* answered cancellation, an actor works on uncaptured jobs only, and its memory
\* follows the disk.
ActorInv(a) ==
    /\ mem[a].pc \in Loaded =>
         \A j \in Jobs : (At(a, "enq_save") /\ j = Job(a)) \/ Safe(mem[a].sched, j)
    /\ mem[a].pc \in Working => Job(a) \notin captured
    /\ mem[a].pc \in {"resv_sched", "resv_ledger", "prepare"} =>
         mem[a].sched[Job(a)].status = "reserved"
    /\ mem[a].pc \in {"run_sched", "execute", "capture"} =>
         mem[a].sched[Job(a)].status = "running"
    /\ At(a, "cancel_save") => mem[a].sched[Job(a)].status = "cancelled"
    /\ mem[a].pc \in SchedSynced => mem[a].sched = sched
    /\ mem[a].pc \in LedgerSynced => mem[a].ledger = ledger

SerialInv == (\A j \in Jobs : Safe(sched, j)) /\ (\A a \in Actors : ActorInv(a))

\* What a table, a reservation and the rest of a job's files say of each other.
Unrun(t, j) ==
    t[j].status \in {"absent", "queued", "reserved", "suspended"} => ran[j] = 0
Recorded(t, j) == t[j].status \in InFlightStatus => \E f \in pending : f.job = j
Answered(t, j) == snapshot[j].status \in Acknowledgeable => t[j].status \in TerminalStatus
Leased(l, t, j) == l[j].state = "reserved" => t[j].status # "failed"

\* Where an actor has changed a scheduler table and not saved it, where it holds a
\* ledger, and where it puts away a job that is over.
Unsaved == {"enq_write", "enq_save", "cancel_save", "load_ledger", "boot_sched",
            "skip_sched", "resv_sched", "run_sched", "done_sched", "fail_sched",
            "rec_sched"}
Holding == PC \ {"idle", "enq_write", "enq_save", "enq_snap", "cancel_save",
                 "load_sched", "load_ledger"}
PuttingAway == {"done_sched", "done_ledger", "done_move", "done_snap", "done_ack",
                "fail_sched", "fail_ledger", "fail_write", "fail_remove", "fail_snap",
                "fail_ack", "rec_move", "rec_sched", "rec_snap", "rec_ack"}

\* One actor, no crash.  The inductive invariant behind RunsOnce, InFlightHasRecord and
\* AckAfterTerminal: the tables, on disk and in memory, the records, the snapshots and
\* the runs agree, but for the job at work between the two writes that change both.
CalmActor(a) ==
    LET Of(j, places) == j = Job(a) /\ mem[a].pc \in places IN
    /\ \A j \in Jobs :
         /\ Answered(sched, j) \/ Of(j, {"enq_snap", "done_sched"})
         /\ Leased(ledger, sched, j) \/ Of(j, {"fail_ledger", "done_ledger"})
         /\ mem[a].pc \in Loaded =>
              /\ Recorded(mem[a].sched, j)
              /\ Unrun(mem[a].sched, j) \/ Of(j, {"enq_save"})
              /\ Answered(mem[a].sched, j) \/ Of(j, {"enq_save", "enq_snap"})
         /\ mem[a].pc \in Unsaved =>
              Leased(ledger, mem[a].sched, j) \/ Of(j, {"done_sched", "fail_sched"})
         /\ mem[a].pc \in Holding => Leased(mem[a].ledger, mem[a].sched, j)
    /\ mem[a].pc \in PuttingAway => mem[a].sched[Job(a)].status \in TerminalStatus
    /\ mem[a].pc \in {"run_sched", "execute"} => ran[Job(a)] = 0

CalmDisk == \A j \in Jobs : ran[j] <= 1 /\ Unrun(sched, j) /\ Recorded(sched, j)

CalmInv == CalmDisk /\ \A a \in Actors : CalmActor(a)

\* One actor only.  On disk a job's status moves along valid_transitions, or the
\* job enters the table, or enqueue_action replaces its record.
StatusDiscipline ==
    [][\A j \in Jobs : sched'[j].status # sched[j].status =>
         \/ sched'[j].status \in ValidTransitions(sched[j].status)
         \/ sched[j].status = "absent"
         \/ /\ sched'[j].status = "queued"
            /\ \E a \in Actors : At(a, "enq_save") /\ Job(a) = j]_vars

\* One actor, no crash.  Enqueuing a job once runs its worker at most once.
RunsOnce == \A j \in Jobs : ran[j] <= 1

\* A job the scheduler calls queued, reserved or running has a record in
\* pending/ for a supervisor to find.
InFlightHasRecord ==
    \A j \in Jobs : sched[j].status \in InFlightStatus =>
        \E f \in pending : f.job = j

\* One actor only.  Enqueuing a job that is in flight and has a pending record
\* writes no second one.  (A cancelled job keeps its record and may get another.)
NoDuplicateRecord ==
    [][\A j \in Jobs :
         /\ sched[j].status \in InFlightStatus
         /\ \E f \in pending : f.job = j
         => \A f \in pending' \ pending : f.job # j]_vars

\* A queue acknowledgement is written for a job that is over by the scheduler's
\* account, never ahead of it.
AckAfterTerminal ==
    [][\A j \in Jobs : acks'[j] # acks[j] =>
         sched[j].status \in TerminalStatus]_vars

\* The queue drains: once the bounded requests have been made, every record
\* leaves pending/.
Drains == (pending # {}) ~> (pending = {})

\* Two processes never execute one job at the same time.
ExclusiveExecution ==
    \A a, b \in Actors : At(a, "execute") /\ At(b, "execute") /\ a # b =>
        Job(a) # Job(b)

\* A job that is over, and whose record a pass has put away and acknowledged, is
\* in one of the states `loom queue ack` accepts.
SettledIsAcknowledgeable ==
    \A j \in Jobs :
        /\ sched[j].status \in TerminalStatus /\ acks[j] # "absent"
        /\ \A a \in Actors : At(a, "idle")
        => snapshot[j].status \in Acknowledgeable
=============================================================================
