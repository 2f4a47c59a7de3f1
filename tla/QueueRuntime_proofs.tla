------------------------ MODULE QueueRuntime_proofs ------------------------
(***************************************************************************)
(* Proofs about the local queue, for every set of jobs and actors, every   *)
(* lease and every bound.  First its types and what holds for any number   *)
(* of processes.  Then what holds of one process, the runtime service      *)
(* alone: if it may crash at any step and be restarted, four properties,   *)
(* none of them inductive, for each relies on what the tables in memory    *)
(* and on disk hold at every other step of a pass, which SerialInv spells  *)
(* out; if it does not crash three more, for which CalmInv adds what       *)
(* records, snapshots, leases and runs say of the tables.                  *)
(***************************************************************************)
EXTENDS QueueRuntime, TLAPS

-----------------------------------------------------------------------------
(* The table operators stay within their types.                            *)

\* append_job_with_id returns a scheduler state.
LEMMA AppendJobType ==
    ASSUME NEW t \in SchedulerState, NEW j \in Jobs
    PROVE  AppendJob(t, j) \in SchedulerState
BY DEF AppendJob, SchedulerState, SchedulerJob, JobStatus, Buckets

\* transition_job returns a scheduler state.
LEMMA TransitionJobType ==
    ASSUME NEW t \in SchedulerState, NEW j \in Jobs, NEW s \in JobStatus
    PROVE  TransitionJob(t, j, s) \in SchedulerState
BY DEF TransitionJob, SchedulerState, SchedulerJob

\* update_job_metadata returns a scheduler state.
LEMMA SetBucketType ==
    ASSUME NEW t \in SchedulerState, NEW j \in Jobs, NEW b \in Buckets
    PROVE  SetBucket(t, j, b) \in SchedulerState
BY DEF SetBucket, SchedulerState, SchedulerJob

\* So does a transition followed by the new bucket.
LEMMA MoveJobType ==
    ASSUME NEW t \in SchedulerState, NEW j \in Jobs, NEW s \in JobStatus,
           NEW b \in Buckets
    PROVE  MoveJob(t, j, s, b) \in SchedulerState
BY TransitionJobType, SetBucketType DEF MoveJob

\* A job looked up is a scheduler state's job.
LEMMA WithJobType ==
    ASSUME NEW t \in SchedulerState, NEW j \in Jobs
    PROVE  WithJob(t, j) \in SchedulerState
BY AppendJobType DEF WithJob

\* The recovery of expired reservations returns a scheduler state.
LEMMA RecoverExpiredType ==
    ASSUME NEW t \in SchedulerState, NEW S
    PROVE  RecoverExpired(t, S) \in SchedulerState
BY DEF RecoverExpired, SchedulerState, SchedulerJob, JobStatus, Buckets

\* reserve_job, ack_job, nack_job and expire_stale return a ledger.
LEMMA LedgerTypes ==
    ASSUME NEW l \in ReservationLedger, NEW j \in Jobs, NEW now \in Nat
    PROVE  /\ ReserveJob(l, j, now) \in ReservationLedger
           /\ AckJob(l, j) \in ReservationLedger
           /\ NackJob(l, j) \in ReservationLedger
           /\ ExpireStale(l, now) \in ReservationLedger
<1>1. ReserveJob(l, j, now) \in ReservationLedger
  BY DEF ReserveJob, ReservationLedger, JobReservation, ReservationState
<1>2. AckJob(l, j) \in ReservationLedger
  BY DEF AckJob, ReservationLedger, JobReservation, ReservationState
<1>3. NackJob(l, j) \in ReservationLedger
  BY DEF NackJob, ReservationLedger, JobReservation, ReservationState
<1>4. ExpireStale(l, now) \in ReservationLedger
  BY DEF ExpireStale, ReservationLedger, JobReservation, ReservationState
<1>5. QED
  BY <1>1, <1>2, <1>3, <1>4

-----------------------------------------------------------------------------
(* Type correctness.                                                       *)

\* The absent tables, the idle memory and the empty file are of their types.
LEMMA IdleTypes ==
    /\ EmptyScheduler \in SchedulerState
    /\ EmptyLedger \in ReservationLedger
    /\ NoFile \in QueueFile
    /\ IdleMem \in Memory
<1>1. EmptyScheduler \in SchedulerState
  BY DEF EmptyScheduler, SchedulerState, SchedulerJob, Buckets
<1>2. EmptyLedger \in ReservationLedger
  BY DEF EmptyLedger, ReservationLedger, JobReservation
<1>3. NoFile \in QueueFile
  <2>1. (CHOOSE j \in Jobs : TRUE) \in Jobs
    BY JobsAssumption
  <2>2. QED
    BY <2>1 DEF NoFile, QueueFile, PolicyClass, Standard, SanctionSensitive
<1>4. IdleMem \in Memory
  BY <1>1, <1>2, <1>3 DEF IdleMem, Memory, PC, Outcomes
<1>5. QED
  BY <1>1, <1>2, <1>3, <1>4

\* classify_action names a lane.
LEMMA ClassifyType ==
    ASSUME NEW k, NEW h \in BOOLEAN
    PROVE  ClassifyAction(k, h) \in PolicyClass
BY DEF ClassifyAction, PolicyClass, Standard, BudgetHeavy, Privileged,
       SanctionSensitive

\* Init establishes the type invariant.
LEMMA TypeInit == Init => TypeOK
BY IdleTypes DEF Init, TypeOK, SnapshotStatus, JobStatus

\* What the type invariant says of one actor.
LEMMA MemType ==
    ASSUME TypeOK, NEW a \in Actors
    PROVE  /\ mem[a] \in Memory
           /\ mem[a].file \in QueueFile
           /\ Job(a) \in Jobs
           /\ mem[a].sched \in SchedulerState
           /\ mem[a].ledger \in ReservationLedger
           /\ mem[a].outcome \in Outcomes
           /\ mem[a].todo \in SUBSET QueueFile
           /\ mem[a].left \in Nat
BY DEF TypeOK, Memory, Job, QueueFile

\* Memory updates keep the memory's type.
LEMMA UpdateType ==
    ASSUME TypeOK, NEW a \in Actors, NEW m \in Memory, Update(a, m)
    PROVE  mem' \in [Actors -> Memory]
BY DEF TypeOK, Update

\* So do a jump to another step and the end of an operation.
LEMMA GotoType ==
    ASSUME TypeOK, NEW a \in Actors, NEW pc \in PC
    PROVE  /\ Goto(a, pc) => mem' \in [Actors -> Memory]
           /\ Finish(a) => mem' \in [Actors -> Memory]
<1>1. [mem[a] EXCEPT !.pc = pc] \in Memory
  BY MemType DEF Memory
<1>2. QED
  BY <1>1, IdleTypes, UpdateType DEF Goto, Finish

\* Taking a record off the pass's list keeps the memory's type.
LEMMA PoppedType ==
    ASSUME TypeOK, NEW a \in Actors, NEW f \in mem[a].todo, NEW pc \in PC,
           Takes(a, f)
    PROVE  Popped(a, f, pc) \in Memory
<1>1. /\ mem[a] \in Memory /\ f \in QueueFile
      /\ mem[a].todo \ {f} \in SUBSET QueueFile /\ mem[a].left - 1 \in Nat
  BY MemType DEF Takes
<1>2. QED
  BY <1>1 DEF Popped, Memory

\* The last snapshot of a branch has a status and a place.
LEMMA FinalSnapshotType ==
    ASSUME TypeOK, NEW a \in Actors,
           mem[a].pc \in {"done_snap", "fail_snap", "rec_snap",
                          "done_ack", "fail_ack", "rec_ack"}
    PROVE  /\ FinalSnapshot(a).status \in SnapshotStatus
           /\ {<<FinalSnapshot(a).dir, mem[a].file>>} \in SUBSET Places
<1>1. CASE mem[a].pc \in {"done_snap", "done_ack"}
  <2>1. FinalSnapshot(a) = [status |-> FinalStatus(mem[a].outcome),
                            dir |-> "processed"]
    BY <1>1 DEF FinalSnapshot
  <2>2. FinalStatus(mem[a].outcome) \in SnapshotStatus
    BY DEF FinalStatus, SnapshotStatus, JobStatus
  <2>3. QED
    BY <2>1, <2>2, MemType DEF Places
<1>2. CASE mem[a].pc \in {"fail_snap", "fail_ack"}
  <2>1. FinalSnapshot(a) = [status |-> "failed", dir |-> "failed"]
    BY <1>2 DEF FinalSnapshot
  <2>2. QED
    BY <2>1, MemType DEF Places, SnapshotStatus, JobStatus
<1>3. CASE mem[a].pc \in {"rec_snap", "rec_ack"}
  <2>1. FinalSnapshot(a) = [status |-> mem[a].sched[Job(a)].status,
                            dir |-> ReconcileDir(a)]
    BY <1>3 DEF FinalSnapshot
  <2>2. mem[a].sched[Job(a)].status \in JobStatus \cup {"absent"}
    BY MemType DEF SchedulerState, SchedulerJob
  <2>3. ReconcileDir(a) \in {"processed", "failed"}
    BY DEF ReconcileDir
  <2>4. QED
    BY <2>1, <2>2, <2>3, MemType DEF Places, SnapshotStatus
<1>4. QED
  BY <1>1, <1>2, <1>3

\* The memory of an actor that gives up its job is of its type.
LEMMA FailedType ==
    ASSUME TypeOK, NEW a \in Actors
    PROVE  [mem[a] EXCEPT !.pc = "fail_sched", !.ledger = NackJob(@, Job(a)),
                !.sched = MoveJob(@, Job(a), "failed", "failed")] \in Memory
<1>1. mem[a] \in Memory /\ "fail_sched" \in PC
  BY MemType DEF PC
<1>2. "failed" \in JobStatus /\ "failed" \in Buckets
  BY DEF JobStatus, Buckets
<1>3. clock \in Nat
  BY DEF TypeOK
<1>4. NackJob(mem[a].ledger, Job(a)) \in ReservationLedger
  BY <1>3, MemType, LedgerTypes
<1>5. MoveJob(mem[a].sched, Job(a), "failed", "failed") \in SchedulerState
  BY <1>2, MemType, MoveJobType
<1>6. QED
  BY <1>1, <1>4, <1>5 DEF Memory

\* Every step of Next preserves the type invariant.
LEMMA TypeNext == TypeOK /\ [Next]_vars => TypeOK'
<1> SUFFICES ASSUME TypeOK, [Next]_vars PROVE TypeOK'
  OBVIOUS
<1> USE DEF disk, ghost
<1>1. ASSUME NEW a \in Actors, EnqueueReuse(a) PROVE TypeOK'
  BY <1>1, GotoType DEF TypeOK, EnqueueReuse, PC
<1>2. ASSUME NEW a \in Actors, PassEnds(a) PROVE TypeOK'
  BY <1>2, GotoType DEF TypeOK, PassEnds, PC
<1>3. ASSUME NEW a \in Actors, RecordVanished(a) PROVE TypeOK'
  BY <1>3, GotoType DEF TypeOK, RecordVanished, PC
<1>4. ASSUME NEW a \in Actors, ReserveRefused(a) PROVE TypeOK'
  BY <1>4, GotoType DEF TypeOK, ReserveRefused, PC
<1>5. ASSUME NEW a \in Actors, MoveFails(a) PROVE TypeOK'
  BY <1>5, GotoType DEF TypeOK, MoveFails, PC
<1>6. ASSUME NEW a \in Actors, Crash(a) PROVE TypeOK'
  BY <1>6, GotoType DEF TypeOK, Crash, PC
<1>7. ASSUME NEW a \in Actors, EnqueueSave(a) PROVE TypeOK'
  BY <1>7, MemType, GotoType DEF TypeOK, EnqueueSave, PC
<1>8. ASSUME NEW a \in Actors, EnqueueSnapshot(a) PROVE TypeOK'
  BY <1>8, MemType, GotoType DEF TypeOK, EnqueueSnapshot, WriteSnapshot, SnapshotStatus, JobStatus, Places, PC
<1>9. ASSUME NEW a \in Actors, CancelSave(a) PROVE TypeOK'
  BY <1>9, MemType, GotoType DEF TypeOK, CancelSave, PC
<1>10. ASSUME NEW a \in Actors, SaveSched(a) PROVE TypeOK'
  BY <1>10, MemType, GotoType DEF TypeOK, SaveSched, AfterSchedSave, PC
<1>11. ASSUME NEW a \in Actors, SaveLedger(a) PROVE TypeOK'
  BY <1>11, MemType, GotoType DEF TypeOK, SaveLedger, AfterLedgerSave, PC
<1>12. ASSUME NEW a \in Actors, DoneMove(a) PROVE TypeOK'
  BY <1>12, MemType, GotoType DEF TypeOK, DoneMove, MoveTo, NameOf, FileName, QueueFile, PC
<1>13. ASSUME NEW a \in Actors, FailWrite(a) PROVE TypeOK'
  BY <1>13, MemType, GotoType DEF TypeOK, FailWrite, NameOf, FileName, QueueFile, PC
<1>14. ASSUME NEW a \in Actors, FailRemove(a) PROVE TypeOK'
  BY <1>14, MemType, GotoType DEF TypeOK, FailRemove, PC
<1>15. ASSUME NEW a \in Actors, ReconcileMove(a) PROVE TypeOK'
  BY <1>15, MemType, GotoType DEF TypeOK, ReconcileMove, MoveTo, ReconcileDir, NameOf, FileName, QueueFile, PC
<1>16. ASSUME NEW a \in Actors, CollectPending(a) PROVE TypeOK'
  <2> DEFINE m == [mem[a] EXCEPT !.pc = "load_sched", !.todo = pending,
                          !.left = MaxJobs]
  <2>1. m \in Memory
    <3>1. /\ mem[a] \in Memory /\ "load_sched" \in PC
          /\ pending \in SUBSET QueueFile /\ MaxJobs \in Nat
      BY MemType, BoundsAssumption DEF PC, TypeOK
    <3>2. QED
      BY <3>1 DEF Memory
  <2>2. mem' \in [Actors -> Memory]
    BY <1>16, <2>1, UpdateType DEF CollectPending
  <2>3. QED
    BY <1>16, <2>2, MemType DEF TypeOK, CollectPending
<1>17. ASSUME NEW a \in Actors, LoadSched(a) PROVE TypeOK'
  <2> DEFINE m == [mem[a] EXCEPT !.pc = "load_ledger", !.sched = sched]
  <2>1. m \in Memory
    <3>1. mem[a] \in Memory /\ "load_ledger" \in PC /\ sched \in SchedulerState
      BY MemType DEF PC, TypeOK
    <3>2. QED
      BY <3>1 DEF Memory
  <2>2. mem' \in [Actors -> Memory]
    BY <1>17, <2>1, UpdateType DEF LoadSched
  <2>3. QED
    BY <1>17, <2>2, MemType DEF TypeOK, LoadSched
<1>18. ASSUME NEW a \in Actors, LoadLedger(a) PROVE TypeOK'
  <2> DEFINE m == [mem[a] EXCEPT !.pc = "boot_sched",
                          !.ledger = ExpireStale(ledger, clock),
                          !.sched = RecoverExpired(@, StaleJobs(ledger, clock))]
  <2>1. m \in Memory
    <3>1. mem[a] \in Memory /\ "boot_sched" \in PC
      BY MemType DEF PC
    <3>2. /\ ExpireStale(ledger, clock) \in ReservationLedger
          /\ RecoverExpired(mem[a].sched, StaleJobs(ledger, clock)) \in SchedulerState
      BY MemType, RecoverExpiredType, LedgerTypes, JobsAssumption DEF TypeOK
    <3>3. QED
      BY <3>1, <3>2 DEF Memory
  <2>2. mem' \in [Actors -> Memory]
    BY <1>18, <2>1, UpdateType DEF LoadLedger
  <2>3. QED
    BY <1>18, <2>2, MemType DEF TypeOK, LoadLedger
<1>19. ASSUME NEW a \in Actors, PrepareFails(a) PROVE TypeOK'
  <2> DEFINE m == [mem[a] EXCEPT !.pc = "fail_sched",
                          !.ledger = NackJob(@, Job(a)),
                          !.sched = MoveJob(@, Job(a), "failed", "failed")]
  <2>1. m \in Memory
    BY FailedType
  <2>2. mem' \in [Actors -> Memory]
    BY <1>19, <2>1, UpdateType DEF PrepareFails, FailJob
  <2>3. QED
    BY <1>19, <2>2, MemType DEF TypeOK, PrepareFails, FailJob
<1>20. ASSUME NEW a \in Actors, CaptureFails(a) PROVE TypeOK'
  <2> DEFINE m == [mem[a] EXCEPT !.pc = "fail_sched",
                          !.ledger = NackJob(@, Job(a)),
                          !.sched = MoveJob(@, Job(a), "failed", "failed")]
  <2>1. m \in Memory
    BY FailedType
  <2>2. mem' \in [Actors -> Memory]
    BY <1>20, <2>1, UpdateType DEF CaptureFails, FailJob
  <2>3. QED
    BY <1>20, <2>2, MemType DEF TypeOK, CaptureFails, FailJob
<1>21. ASSUME NEW a \in Actors, MarkRunning(a) PROVE TypeOK'
  <2> DEFINE m == [mem[a] EXCEPT !.pc = "run_sched",
                          !.sched = MoveJob(@, Job(a), "running", "running")]
  <2>1. m \in Memory
    BY MemType, MoveJobType DEF Memory, PC, Buckets, JobStatus
  <2>2. mem' \in [Actors -> Memory]
    BY <1>21, <2>1, UpdateType DEF MarkRunning
  <2>3. QED
    BY <1>21, <2>2, MemType DEF TypeOK, MarkRunning
<1>22. ASSUME NEW a \in Actors, Capture(a) PROVE TypeOK'
  <2> DEFINE m == [mem[a] EXCEPT !.pc = "done_sched",
                          !.ledger = AckJob(@, Job(a)),
                          !.sched = MoveJob(@, Job(a),
                              TerminalOf(mem[a].outcome), "processed")]
  <2> DEFINE s == TerminalOf(mem[a].outcome)
  <2>0. s \in JobStatus
    BY DEF TerminalOf, JobStatus
  <2> HIDE DEF s
  <2>1. m \in Memory
    <3>1. /\ MoveJob(mem[a].sched, Job(a), s, "processed") \in SchedulerState
          /\ AckJob(mem[a].ledger, Job(a)) \in ReservationLedger
      BY <2>0, MemType, MoveJobType, LedgerTypes DEF TypeOK, Buckets
    <3>2. QED
      BY <3>1, MemType DEF Memory, PC, s
  <2>2. mem' \in [Actors -> Memory]
    BY <1>22, <2>1, UpdateType DEF Capture
  <2>3. QED
    BY <1>22, <2>2, MemType DEF TypeOK, Capture, WriteSnapshot, CaptureStatus, SnapshotStatus, JobStatus
<1>23. ASSUME NEW a \in Actors, WriteAck(a) PROVE TypeOK'
  <2> DEFINE m == [mem[a] EXCEPT !.pc = "next", !.file = NoFile,
                          !.outcome = "error"]
  <2>1. m \in Memory
    BY MemType, IdleTypes DEF Memory, PC, Outcomes
  <2>2. mem' \in [Actors -> Memory]
    BY <1>23, <2>1, UpdateType DEF WriteAck
  <2>3. FinalSnapshot(a).status \in SnapshotStatus
    BY <1>23, FinalSnapshotType DEF WriteAck
  <2>4. QED
    BY <1>23, <2>2, <2>3, MemType DEF TypeOK, WriteAck
<1>24. ASSUME NEW a \in Actors, EnqueueWrite(a) PROVE TypeOK'
  <2> DEFINE f == [mem[a].file EXCEPT !.at = clock]
  <2> DEFINE m == [mem[a] EXCEPT !.pc = "enq_save", !.file = f,
                                 !.sched = AppendJob(@, f.job)]
  <2>1. f \in QueueFile /\ NameOf(f) \in FileName
    BY MemType DEF TypeOK, QueueFile, NameOf, FileName
  <2>2. f.job \in Jobs
    BY <2>1 DEF QueueFile
  <2>3. m \in Memory
    <3>1. mem[a] \in Memory /\ "enq_save" \in PC
      BY MemType DEF PC
    <3>2. AppendJob(mem[a].sched, f.job) \in SchedulerState
      BY <2>2, MemType, AppendJobType
    <3> HIDE DEF f
    <3>3. QED
      BY <2>1, <3>1, <3>2 DEF Memory
  <2>4. mem' \in [Actors -> Memory]
    BY <1>24, <2>3, UpdateType DEF EnqueueWrite
  <2>5. QED
    BY <1>24, <2>1, <2>4 DEF TypeOK, EnqueueWrite
<1>25. ASSUME NEW a \in Actors, Execute(a) PROVE TypeOK'
  <2>1. PICK o \in Outcomes :
          /\ Update(a, [mem[a] EXCEPT !.pc = "capture", !.outcome = o])
          /\ ran' = [ran EXCEPT ![Job(a)] = @ + (IF WorkerRan(o) THEN 1 ELSE 0)]
    BY <1>25 DEF Execute
  <2>2. [mem[a] EXCEPT !.pc = "capture", !.outcome = o] \in Memory
    BY MemType DEF Memory, PC
  <2>3. mem' \in [Actors -> Memory]
    BY <2>1, <2>2, UpdateType
  <2>4. ran' \in [Jobs -> Nat]
    BY <2>1, MemType DEF TypeOK
  <2>5. QED
    BY <1>25, <2>3, <2>4 DEF TypeOK, Execute
<1>26. ASSUME NEW a \in Actors, SaveSnapshot(a) PROVE TypeOK'
  <2>1. mem' \in [Actors -> Memory]
    BY <1>26, GotoType DEF SaveSnapshot, AfterSnapshot, PC
  <2>2. /\ FinalSnapshot(a).status \in SnapshotStatus
        /\ {<<FinalSnapshot(a).dir, mem[a].file>>} \in SUBSET Places
    BY <1>26, FinalSnapshotType DEF SaveSnapshot
  <2>3. QED
    BY <1>26, <2>1, <2>2, MemType DEF TypeOK, SaveSnapshot, WriteSnapshot
<1>27. ASSUME NEW a \in Actors, RecordStale(a) PROVE TypeOK'
  <2>1. PICK f \in mem[a].todo :
          Takes(a, f) /\ Update(a, Popped(a, f, "rec_move"))
    BY <1>27 DEF RecordStale
  <2>2. mem' \in [Actors -> Memory]
    BY <2>1, PoppedType, UpdateType DEF PC
  <2>3. QED
    BY <1>27, <2>2 DEF TypeOK, RecordStale
<1>28. ASSUME NEW a \in Actors, RecordReserved(a) PROVE TypeOK'
  <2>1. PICK f \in mem[a].todo :
          /\ Takes(a, f)
          /\ Update(a, [Popped(a, f, "skip_sched") EXCEPT
                !.sched = SetBucket(WithJob(@, f.job), f.job, "reserved")])
    BY <1>28 DEF RecordReserved
  <2>2. /\ Popped(a, f, "skip_sched") \in Memory
        /\ f.job \in Jobs
    BY <2>1, PoppedType, MemType DEF PC, QueueFile
  <2>3. [Popped(a, f, "skip_sched") EXCEPT
           !.sched = SetBucket(WithJob(@, f.job), f.job, "reserved")] \in Memory
    <3> DEFINE m == Popped(a, f, "skip_sched")
    <3>1. SetBucket(WithJob(m.sched, f.job), f.job, "reserved") \in SchedulerState
      BY <2>2, WithJobType, SetBucketType DEF Memory, Buckets
    <3> HIDE DEF m
    <3>2. QED
      BY <2>2, <3>1 DEF Memory, m
  <2>4. mem' \in [Actors -> Memory]
    BY <2>1, <2>3, UpdateType
  <2>5. QED
    BY <1>28, <2>4 DEF TypeOK, RecordReserved
<1>29. ASSUME NEW a \in Actors, Reserve(a) PROVE TypeOK'
  <2>1. PICK f \in mem[a].todo :
          /\ Takes(a, f)
          /\ Update(a, [Popped(a, f, "resv_sched") EXCEPT
                !.ledger = ReserveJob(@, f.job, clock),
                !.sched = MoveJob(WithJob(@, f.job), f.job,
                                  "reserved", "reserved")])
    BY <1>29 DEF Reserve
  <2> DEFINE m == Popped(a, f, "resv_sched")
  <2>2. m \in Memory /\ f.job \in Jobs /\ clock \in Nat
    BY <2>1, PoppedType, MemType DEF PC, QueueFile, TypeOK
  <2>3. /\ MoveJob(WithJob(m.sched, f.job), f.job, "reserved", "reserved")
             \in SchedulerState
        /\ ReserveJob(m.ledger, f.job, clock) \in ReservationLedger
    <3>1. m.sched \in SchedulerState /\ m.ledger \in ReservationLedger
      BY <2>2 DEF Memory
    <3>2. QED
      BY <2>2, <3>1, WithJobType, MoveJobType, LedgerTypes DEF Buckets, JobStatus
  <2> HIDE DEF m
  <2>4. [m EXCEPT !.ledger = ReserveJob(@, f.job, clock),
                  !.sched = MoveJob(WithJob(@, f.job), f.job,
                                    "reserved", "reserved")] \in Memory
    BY <2>2, <2>3 DEF Memory
  <2>5. mem' \in [Actors -> Memory]
    BY <2>1, <2>4, UpdateType DEF m
  <2>6. QED
    BY <1>29, <2>5 DEF TypeOK, Reserve
<1>30. ASSUME NEW a \in Actors, NEW j \in Jobs, EnqueueLoad(a, j) PROVE TypeOK'
  <2>1. PICK h \in Sanctioned :
          Update(a, [mem[a] EXCEPT
             !.pc = "enq_write", !.sched = sched,
             !.file = [lane |-> ClassifyAction(Kind[j], h),
                       at |-> 0, job |-> j]])
    BY <1>30 DEF EnqueueLoad
  <2>2. [lane |-> ClassifyAction(Kind[j], h), at |-> 0, job |-> j] \in QueueFile
    BY ClassifyType, SanctionedAssumption DEF QueueFile
  <2>3. [mem[a] EXCEPT
             !.pc = "enq_write", !.sched = sched,
             !.file = [lane |-> ClassifyAction(Kind[j], h),
                       at |-> 0, job |-> j]] \in Memory
    <3>1. mem[a] \in Memory /\ "enq_write" \in PC /\ sched \in SchedulerState
      BY MemType DEF PC, TypeOK
    <3>2. QED
      BY <2>2, <3>1 DEF Memory
  <2>4. mem' \in [Actors -> Memory]
    BY <2>1, <2>3, UpdateType
  <2>5. QED
    BY <1>30, <2>4 DEF TypeOK, EnqueueLoad, Request
<1>31. ASSUME NEW a \in Actors, NEW j \in Jobs, CancelLoad(a, j) PROVE TypeOK'
  <2> DEFINE m == [mem[a] EXCEPT
           !.pc = "cancel_save", !.file = [NoFile EXCEPT !.job = j],
           !.sched = TransitionJob(sched, j, "cancelled")]
  <2>1. [NoFile EXCEPT !.job = j] \in QueueFile
    BY IdleTypes DEF QueueFile
  <2>2. m \in Memory
    <3>1. mem[a] \in Memory /\ "cancel_save" \in PC
      BY MemType DEF PC
    <3>2. TransitionJob(sched, j, "cancelled") \in SchedulerState
      BY TransitionJobType DEF TypeOK, JobStatus
    <3>3. QED
      BY <2>1, <3>1, <3>2 DEF Memory
  <2>3. mem' \in [Actors -> Memory]
    BY <1>31, <2>2, UpdateType DEF CancelLoad
  <2>4. QED
    BY <1>31, <2>3 DEF TypeOK, CancelLoad, Request
<1>32. ASSUME NEW a \in Actors, NEW j \in Jobs, QueueAck(a, j) PROVE TypeOK'
  BY <1>32 DEF TypeOK, QueueAck, Request
<1>33. CASE Tick
  BY <1>33 DEF TypeOK, Tick
<1>34. CASE UNCHANGED vars
  BY <1>34 DEF TypeOK, vars
<1>35. QED
  BY <1>1, <1>2, <1>3, <1>4, <1>5, <1>6, <1>7, <1>8, <1>9, <1>10, <1>11,
     <1>12, <1>13, <1>14, <1>15, <1>16, <1>17, <1>18, <1>19, <1>20, <1>21,
     <1>22, <1>23, <1>24, <1>25, <1>26, <1>27, <1>28, <1>29, <1>30, <1>31,
     <1>32, <1>33, <1>34
  DEF Next, ActorStep, EnqueueStep, PassStep

\* The type invariant of the queue holds in every behaviour.
THEOREM TypeCorrect == Spec => []TypeOK
<1>1. QED
  BY TypeInit, TypeNext, PTL DEF Spec

-----------------------------------------------------------------------------
(* No record is lost.  NoRecordLost is not inductive: FailRemove takes the *)
(* record out of pending/ and relies on FailWrite having put a copy under  *)
(* failed/ one step before, whatever other actors did in between.          *)

FailCopyWritten ==
    \A a \in Actors :
        At(a, "fail_remove") => NameOf(mem[a].file) \in settled["failed"]

RecordInv == TypeOK /\ NoRecordLost /\ FailCopyWritten

\* Actor a moves on, to another place than fail_remove; the others stay.
Elsewhere(a) ==
    /\ mem'[a].pc # "fail_remove"
    /\ \A b \in Actors : b # a => mem'[b] = mem[b]

\* The records that are somewhere under queue/.
Stored == PendingNames \cup settled["processed"] \cup settled["failed"]

\* A step of an actor that does not write the queue directories and does not
\* arrive at fail_remove preserves the invariant.
LEMMA RecordFrame ==
    ASSUME RecordInv, TypeOK', NEW a \in Actors,
           UNCHANGED <<pending, settled, submitted>>,
           Elsewhere(a)
    PROVE  RecordInv'
<1>1. NoRecordLost'
  BY DEF RecordInv, NoRecordLost, PendingNames
<1>2. FailCopyWritten'
  BY DEF RecordInv, FailCopyWritten, At, TypeOK, Elsewhere
<1>3. QED
  BY <1>1, <1>2 DEF RecordInv

\* Moving a record keeps every stored record stored.
LEMMA MoveKeeps ==
    ASSUME TypeOK, NEW dir \in {"processed", "failed"}, NEW f \in QueueFile,
           MoveTo(dir, f)
    PROVE  /\ Stored \subseteq Stored'
           /\ settled["failed"] \subseteq settled'["failed"]
<1>1. \A d \in {"processed", "failed"} : settled[d] \subseteq settled'[d]
  BY DEF TypeOK, MoveTo
<1>2. NameOf(f) \in settled'[dir]
  BY DEF TypeOK, MoveTo
<1>3. ASSUME NEW g \in pending PROVE NameOf(g) \in Stored'
  <2>1. CASE g = f
    BY <1>2, <2>1 DEF Stored
  <2>2. CASE g # f
    BY <2>2 DEF Stored, PendingNames, MoveTo
  <2>3. QED
    BY <2>1, <2>2
<1>4. QED
  BY <1>1, <1>3 DEF Stored, PendingNames

\* A step of an actor that keeps what is stored and arrives elsewhere than
\* fail_remove preserves the invariant.
LEMMA RecordMoved ==
    ASSUME RecordInv, TypeOK', NEW a \in Actors, Elsewhere(a),
           Stored \subseteq Stored', settled["failed"] \subseteq settled'["failed"],
           UNCHANGED submitted
    PROVE  RecordInv'
<1>1. NoRecordLost'
  BY DEF RecordInv, NoRecordLost, Stored
<1>2. FailCopyWritten'
  BY DEF RecordInv, FailCopyWritten, At, TypeOK, Elsewhere
<1>3. QED
  BY <1>1, <1>2 DEF RecordInv

\* Every step of Next preserves the record invariant.
LEMMA RecordNext == RecordInv /\ [Next]_vars => RecordInv'
<1> SUFFICES ASSUME RecordInv, [Next]_vars PROVE RecordInv'
  OBVIOUS
<1> USE DEF disk, ghost
<1>0. TypeOK /\ TypeOK'
  BY TypeNext DEF RecordInv
<1> USE <1>0
<1>1. ASSUME NEW a \in Actors, EnqueueReuse(a) PROVE RecordInv'
  <2>1. Elsewhere(a)
    BY <1>1, MemType, IdleTypes DEF Elsewhere, TypeOK, Memory, EnqueueReuse, Finish, Update, IdleMem
  <2>2. QED
    BY <1>1, <2>1, RecordFrame DEF EnqueueReuse
<1>2. ASSUME NEW a \in Actors, PassEnds(a) PROVE RecordInv'
  <2>1. Elsewhere(a)
    BY <1>2, MemType, IdleTypes DEF Elsewhere, TypeOK, Memory, PassEnds, Finish, Update, IdleMem
  <2>2. QED
    BY <1>2, <2>1, RecordFrame DEF PassEnds
<1>3. ASSUME NEW a \in Actors, RecordVanished(a) PROVE RecordInv'
  <2>1. Elsewhere(a)
    BY <1>3, MemType, IdleTypes DEF Elsewhere, TypeOK, Memory, RecordVanished, Finish, Update, IdleMem
  <2>2. QED
    BY <1>3, <2>1, RecordFrame DEF RecordVanished
<1>4. ASSUME NEW a \in Actors, ReserveRefused(a) PROVE RecordInv'
  <2>1. Elsewhere(a)
    BY <1>4, MemType, IdleTypes DEF Elsewhere, TypeOK, Memory, ReserveRefused, Finish, Update, IdleMem
  <2>2. QED
    BY <1>4, <2>1, RecordFrame DEF ReserveRefused
<1>5. ASSUME NEW a \in Actors, MoveFails(a) PROVE RecordInv'
  <2>1. Elsewhere(a)
    BY <1>5, MemType, IdleTypes DEF Elsewhere, TypeOK, Memory, MoveFails, Finish, Update, IdleMem
  <2>2. QED
    BY <1>5, <2>1, RecordFrame DEF MoveFails
<1>6. ASSUME NEW a \in Actors, Crash(a) PROVE RecordInv'
  <2>1. Elsewhere(a)
    BY <1>6, MemType, IdleTypes DEF Elsewhere, TypeOK, Memory, Crash, Finish, Update, IdleMem
  <2>2. QED
    BY <1>6, <2>1, RecordFrame DEF Crash
<1>7. ASSUME NEW a \in Actors, EnqueueSave(a) PROVE RecordInv'
  <2>1. Elsewhere(a)
    BY <1>7, MemType, IdleTypes DEF Elsewhere, TypeOK, Memory, EnqueueSave, Goto, Update
  <2>2. QED
    BY <1>7, <2>1, RecordFrame DEF EnqueueSave
<1>8. ASSUME NEW a \in Actors, EnqueueSnapshot(a) PROVE RecordInv'
  <2>1. Elsewhere(a)
    BY <1>8, MemType, IdleTypes DEF Elsewhere, TypeOK, Memory, EnqueueSnapshot, Finish, Update, IdleMem
  <2>2. QED
    BY <1>8, <2>1, RecordFrame DEF EnqueueSnapshot
<1>9. ASSUME NEW a \in Actors, CancelSave(a) PROVE RecordInv'
  <2>1. Elsewhere(a)
    BY <1>9, MemType, IdleTypes DEF Elsewhere, TypeOK, Memory, CancelSave, Finish, Update, IdleMem
  <2>2. QED
    BY <1>9, <2>1, RecordFrame DEF CancelSave
<1>10. ASSUME NEW a \in Actors, SaveSched(a) PROVE RecordInv'
  <2>1. Elsewhere(a)
    BY <1>10, MemType, IdleTypes DEF Elsewhere, TypeOK, Memory, SaveSched, Goto, Update, AfterSchedSave
  <2>2. QED
    BY <1>10, <2>1, RecordFrame DEF SaveSched
<1>11. ASSUME NEW a \in Actors, SaveLedger(a) PROVE RecordInv'
  <2>1. Elsewhere(a)
    BY <1>11, MemType, IdleTypes DEF Elsewhere, TypeOK, Memory, SaveLedger, Goto, Update, AfterLedgerSave
  <2>2. QED
    BY <1>11, <2>1, RecordFrame DEF SaveLedger
<1>12. ASSUME NEW a \in Actors, CollectPending(a) PROVE RecordInv'
  <2>1. Elsewhere(a)
    BY <1>12, MemType, IdleTypes DEF Elsewhere, TypeOK, Memory, CollectPending, Update
  <2>2. QED
    BY <1>12, <2>1, RecordFrame DEF CollectPending
<1>13. ASSUME NEW a \in Actors, LoadSched(a) PROVE RecordInv'
  <2>1. Elsewhere(a)
    BY <1>13, MemType, IdleTypes DEF Elsewhere, TypeOK, Memory, LoadSched, Update
  <2>2. QED
    BY <1>13, <2>1, RecordFrame DEF LoadSched
<1>14. ASSUME NEW a \in Actors, LoadLedger(a) PROVE RecordInv'
  <2>1. Elsewhere(a)
    BY <1>14, MemType, IdleTypes DEF Elsewhere, TypeOK, Memory, LoadLedger, Update
  <2>2. QED
    BY <1>14, <2>1, RecordFrame DEF LoadLedger
<1>15. ASSUME NEW a \in Actors, PrepareFails(a) PROVE RecordInv'
  <2>1. Elsewhere(a)
    BY <1>15, MemType, IdleTypes DEF Elsewhere, TypeOK, Memory, PrepareFails, Update, FailJob
  <2>2. QED
    BY <1>15, <2>1, RecordFrame DEF PrepareFails
<1>16. ASSUME NEW a \in Actors, CaptureFails(a) PROVE RecordInv'
  <2>1. Elsewhere(a)
    BY <1>16, MemType, IdleTypes DEF Elsewhere, TypeOK, Memory, CaptureFails, Update, FailJob
  <2>2. QED
    BY <1>16, <2>1, RecordFrame DEF CaptureFails
<1>17. ASSUME NEW a \in Actors, MarkRunning(a) PROVE RecordInv'
  <2>1. Elsewhere(a)
    BY <1>17, MemType, IdleTypes DEF Elsewhere, TypeOK, Memory, MarkRunning, Update
  <2>2. QED
    BY <1>17, <2>1, RecordFrame DEF MarkRunning
<1>18. ASSUME NEW a \in Actors, Capture(a) PROVE RecordInv'
  <2>1. Elsewhere(a)
    BY <1>18, MemType, IdleTypes DEF Elsewhere, TypeOK, Memory, Capture, Update
  <2>2. QED
    BY <1>18, <2>1, RecordFrame DEF Capture
<1>19. ASSUME NEW a \in Actors, WriteAck(a) PROVE RecordInv'
  <2>1. Elsewhere(a)
    BY <1>19, MemType, IdleTypes DEF Elsewhere, TypeOK, Memory, WriteAck, Update
  <2>2. QED
    BY <1>19, <2>1, RecordFrame DEF WriteAck
<1>20. ASSUME NEW a \in Actors, Execute(a) PROVE RecordInv'
  <2>1. Elsewhere(a)
    BY <1>20, MemType, IdleTypes DEF Elsewhere, TypeOK, Memory, Execute, Update
  <2>2. QED
    BY <1>20, <2>1, RecordFrame DEF Execute
<1>21. ASSUME NEW a \in Actors, SaveSnapshot(a) PROVE RecordInv'
  <2>1. Elsewhere(a)
    BY <1>21, MemType, IdleTypes DEF Elsewhere, TypeOK, Memory, SaveSnapshot, Goto, Update, AfterSnapshot
  <2>2. QED
    BY <1>21, <2>1, RecordFrame DEF SaveSnapshot
<1>22. ASSUME NEW a \in Actors, RecordStale(a) PROVE RecordInv'
  <2>1. Elsewhere(a)
    BY <1>22, MemType, IdleTypes DEF Elsewhere, TypeOK, Memory, RecordStale, Update, Popped
  <2>2. QED
    BY <1>22, <2>1, RecordFrame DEF RecordStale
<1>23. ASSUME NEW a \in Actors, RecordReserved(a) PROVE RecordInv'
  <2>1. Elsewhere(a)
    BY <1>23, MemType, IdleTypes DEF Elsewhere, TypeOK, Memory, RecordReserved, Update, Popped
  <2>2. QED
    BY <1>23, <2>1, RecordFrame DEF RecordReserved
<1>24. ASSUME NEW a \in Actors, Reserve(a) PROVE RecordInv'
  <2>1. Elsewhere(a)
    BY <1>24, MemType, IdleTypes DEF Elsewhere, TypeOK, Memory, Reserve, Update, Popped
  <2>2. QED
    BY <1>24, <2>1, RecordFrame DEF Reserve
<1>25. ASSUME NEW a \in Actors, NEW j \in Jobs, EnqueueLoad(a, j)
      PROVE  RecordInv'
  <2>1. Elsewhere(a)
    BY <1>25, MemType DEF Elsewhere, TypeOK, Memory, EnqueueLoad, Update
  <2>2. QED
    BY <1>25, <2>1, RecordFrame DEF EnqueueLoad
<1>26. ASSUME NEW a \in Actors, NEW j \in Jobs, CancelLoad(a, j)
      PROVE  RecordInv'
  <2>1. Elsewhere(a)
    BY <1>26, MemType DEF Elsewhere, TypeOK, Memory, CancelLoad, Update
  <2>2. QED
    BY <1>26, <2>1, RecordFrame DEF CancelLoad
<1>27. ASSUME NEW a \in Actors, NEW j \in Jobs, QueueAck(a, j) PROVE RecordInv'
  BY <1>27 DEF RecordInv, NoRecordLost, PendingNames, FailCopyWritten, At,
                  QueueAck
<1>28. ASSUME NEW a \in Actors, EnqueueWrite(a) PROVE RecordInv'
  <2> DEFINE f == [mem[a].file EXCEPT !.at = clock]
  <2>1. /\ pending' = pending \cup {f}
        /\ submitted' = submitted \cup {NameOf(f)}
        /\ UNCHANGED settled
    BY <1>28 DEF EnqueueWrite
  <2>2. Elsewhere(a)
    BY <1>28, MemType DEF Elsewhere, TypeOK, Memory, EnqueueWrite, Update
  <2> HIDE DEF f
  <2>3. NoRecordLost'
    BY <2>1 DEF RecordInv, NoRecordLost, PendingNames
  <2>4. FailCopyWritten'
    BY <2>1, <2>2 DEF RecordInv, FailCopyWritten, At, Elsewhere
  <2>5. QED
    BY <2>3, <2>4 DEF RecordInv
<1>29. ASSUME NEW a \in Actors, DoneMove(a) PROVE RecordInv'
  <2>1. Elsewhere(a)
    BY <1>29, MemType DEF Elsewhere, TypeOK, Memory, DoneMove, Goto, Update
  <2>2. QED
    BY <1>29, <2>1, MoveKeeps, RecordMoved, MemType DEF DoneMove
<1>30. ASSUME NEW a \in Actors, ReconcileMove(a) PROVE RecordInv'
  <2>1. Elsewhere(a)
    BY <1>30, MemType DEF Elsewhere, TypeOK, Memory, ReconcileMove, Goto, Update
  <2>2. ReconcileDir(a) \in {"processed", "failed"}
    BY DEF ReconcileDir
  <2>3. QED
    BY <1>30, <2>1, <2>2, MoveKeeps, RecordMoved, MemType DEF ReconcileMove
<1>31. ASSUME NEW a \in Actors, FailWrite(a) PROVE RecordInv'
  <2>1. /\ \A d \in {"processed", "failed"} : settled[d] \subseteq settled'[d]
        /\ NameOf(mem[a].file) \in settled'["failed"]
        /\ UNCHANGED <<pending, submitted>>
    BY <1>31 DEF TypeOK, FailWrite
  <2>2. /\ mem'[a].file = mem[a].file
        /\ \A b \in Actors : b # a => mem'[b] = mem[b]
    BY <1>31, MemType DEF TypeOK, Memory, FailWrite, Goto, Update
  <2>3. NoRecordLost'
    BY <2>1 DEF RecordInv, NoRecordLost, PendingNames
  <2>4. FailCopyWritten'
    BY <2>1, <2>2 DEF RecordInv, FailCopyWritten, At
  <2>5. QED
    BY <2>3, <2>4 DEF RecordInv
<1>32. ASSUME NEW a \in Actors, FailRemove(a) PROVE RecordInv'
  <2>1. Elsewhere(a)
    BY <1>32, MemType DEF Elsewhere, TypeOK, Memory, FailRemove, Goto, Update
  <2>2. NameOf(mem[a].file) \in settled["failed"]
    BY <1>32 DEF RecordInv, FailCopyWritten, FailRemove
  <2>3. pending' = pending \ {mem[a].file} /\ UNCHANGED <<settled, submitted>>
    BY <1>32 DEF FailRemove
  <2>4. Stored \subseteq Stored'
    BY <2>2, <2>3 DEF Stored, PendingNames
  <2>5. QED
    BY <2>1, <2>3, <2>4, RecordMoved
<1>33. CASE Tick
  BY <1>33 DEF RecordInv, NoRecordLost, PendingNames, FailCopyWritten, At, Tick
<1>34. CASE UNCHANGED vars
  BY <1>34 DEF RecordInv, NoRecordLost, PendingNames, FailCopyWritten, At, vars
<1>35. QED
  BY <1>1, <1>2, <1>3, <1>4, <1>5, <1>6, <1>7, <1>8, <1>9, <1>10, <1>11,
     <1>12, <1>13, <1>14, <1>15, <1>16, <1>17, <1>18, <1>19, <1>20, <1>21,
     <1>22, <1>23, <1>24, <1>25, <1>26, <1>27, <1>28, <1>29, <1>30, <1>31,
     <1>32, <1>33, <1>34
  DEF Next, ActorStep, EnqueueStep, PassStep

\* For any number of processes, crashing and interleaving at any file operation,
\* a record enqueue_action wrote is in pending/, processed/ or failed/.
THEOREM RecordsAreKept == Spec => []NoRecordLost
<1>1. Init => RecordInv
  BY TypeInit DEF Init, RecordInv, NoRecordLost, FailCopyWritten, At, IdleMem
<1>2. RecordInv => NoRecordLost
  BY DEF RecordInv
<1>3. QED
  BY <1>1, <1>2, RecordNext, PTL DEF Spec

-----------------------------------------------------------------------------
(* What the table operators do to a job's status.                          *)

\* transition_job and update_job_metadata together change one job, and its status
\* only when the transition is legal.
LEMMA MoveJobAt ==
    ASSUME NEW t \in SchedulerState, NEW j \in Jobs, NEW s \in JobStatus,
           NEW b \in Buckets, NEW k \in Jobs
    PROVE  MoveJob(t, j, s, b)[k].status =
             IF k = j /\ CanTransition(t, j, s) THEN s ELSE t[k].status
<1>1. TransitionJob(t, j, s) \in SchedulerState
  BY TransitionJobType
<1>2. TransitionJob(t, j, s)[k].status =
        IF k = j /\ CanTransition(t, j, s) THEN s ELSE t[k].status
  BY DEF TransitionJob, SchedulerState, SchedulerJob
<1>3. \A u \in SchedulerState : SetBucket(u, j, b)[k].status = u[k].status
  BY DEF SetBucket, SchedulerState, SchedulerJob
<1>4. QED
  BY <1>1, <1>2, <1>3 DEF MoveJob

\* transition_job alone.
LEMMA TransitionJobAt ==
    ASSUME NEW t \in SchedulerState, NEW j \in Jobs, NEW s \in JobStatus,
           NEW k \in Jobs
    PROVE  TransitionJob(t, j, s)[k].status =
             IF k = j /\ CanTransition(t, j, s) THEN s ELSE t[k].status
BY DEF TransitionJob, SchedulerState, SchedulerJob

\* Looking up or relabelling a job changes no status but that of an absent job.
LEMMA WithJobAt ==
    ASSUME NEW t \in SchedulerState, NEW j \in Jobs, NEW k \in Jobs
    PROVE  /\ WithJob(t, j)[k].status =
                IF k = j /\ t[j].status = "absent" THEN "queued" ELSE t[k].status
           /\ SetBucket(WithJob(t, j), j, "reserved")[k].status =
                WithJob(t, j)[k].status
<1>1. WithJob(t, j) \in SchedulerState
  BY WithJobType
<1>2. WithJob(t, j)[k].status =
        IF k = j /\ t[j].status = "absent" THEN "queued" ELSE t[k].status
  BY DEF WithJob, AppendJob, SchedulerState, SchedulerJob
<1>3. \A u \in SchedulerState : SetBucket(u, j, "reserved")[k].status = u[k].status
  BY DEF SetBucket, SchedulerState, SchedulerJob
<1>4. QED
  BY <1>1, <1>2, <1>3

\* append_job_with_id changes one job.
LEMMA AppendJobAt ==
    ASSUME NEW t \in SchedulerState, NEW j \in Jobs, NEW k \in Jobs, k # j
    PROVE  AppendJob(t, j)[k] = t[k]
BY DEF AppendJob, SchedulerState, SchedulerJob

\* The recovery of expired leases changes no job that is running, completed or
\* cancelled.
LEMMA RecoverKeeps ==
    ASSUME NEW t \in SchedulerState, NEW S, NEW k \in Jobs,
           t[k].status \in {"running", "completed", "cancelled"}
    PROVE  RecoverExpired(t, S)[k].status = t[k].status
BY DEF RecoverExpired, CanTransition, ValidTransitions, SchedulerState,
       SchedulerJob

-----------------------------------------------------------------------------
(* The invariant of one process.                                           *)

\* An update of an actor's memory.
LEMMA UpdateValue ==
    ASSUME TypeOK, NEW a \in Actors, NEW m, Update(a, m)
    PROVE  mem'[a] = m
BY DEF TypeOK, Update

\* With one actor the invariant is its own and the disk's.
LEMMA SerialOne ==
    ASSUME SingleActor, NEW a \in Actors,
           (\A j \in Jobs : Safe(sched, j))', ActorInv(a)'
    PROVE  SerialInv'
BY DEF SingleActor, SerialInv

\* A process that starts anew holds nothing.
LEMMA SerialIdle ==
    ASSUME SingleActor, TypeOK, SerialInv, NEW a \in Actors, Finish(a),
           UNCHANGED <<sched, captured, cancelled>>
    PROVE  SerialInv'
<1>1. mem'[a].pc = "idle"
  BY UpdateValue DEF Finish, IdleMem
<1>2. ActorInv(a)'
  BY <1>1 DEF ActorInv, At, Loaded, Working, SchedSynced, LedgerSynced
<1>3. (\A j \in Jobs : Safe(sched, j))'
  BY DEF SerialInv, Safe
<1>4. QED
  BY <1>2, <1>3, SerialOne

\* A job that is failed was neither captured nor cancelled.
LEMMA SerialFail ==
    ASSUME SingleActor, TypeOK, SerialInv, NEW a \in Actors,
           mem[a].pc \in {"prepare", "capture"}, FailJob(a),
           UNCHANGED <<sched, captured, cancelled>>
    PROVE  SerialInv'
<1>1. /\ mem'[a].pc = "fail_sched" /\ mem'[a].file = mem[a].file
      /\ mem'[a].sched = MoveJob(mem[a].sched, Job(a), "failed", "failed")
  BY UpdateValue, MemType DEF FailJob, Memory
<1>2. /\ Job(a) \notin captured /\ Job(a) \notin cancelled
      /\ \A j \in Jobs : Safe(mem[a].sched, j)
  BY MemType DEF SerialInv, ActorInv, At, Safe, Loaded, Working, PC
<1>3. ASSUME NEW j \in Jobs PROVE Safe(mem[a].sched, j)'
  <2>1. CASE j = Job(a)
    BY <1>2, <2>1 DEF Safe
  <2>2. CASE j # Job(a)
    <3>1. mem'[a].sched[j].status = mem[a].sched[j].status
      BY <1>1, <2>2, MoveJobAt, MemType DEF JobStatus, Buckets
    <3>2. QED
      BY <1>2, <3>1 DEF Safe
  <2>3. QED
    BY <2>1, <2>2
<1>4. ActorInv(a)'
  BY <1>1, <1>2, <1>3 DEF ActorInv, At, Job, SchedSynced, LedgerSynced
<1>5. QED
  BY <1>4, SerialOne DEF SerialInv, Safe

\* Between two jobs, and while a record is moved and reported, the tables in memory
\* are those on disk and no job is worked on.
QuietPC == {"next", "done_move", "done_snap", "done_ack", "fail_write",
            "fail_remove", "fail_snap", "fail_ack", "rec_move", "rec_sched",
            "rec_snap", "rec_ack"}

\* A step from such a place to another that changes no table keeps the invariant.
LEMMA SerialQuiet ==
    ASSUME SingleActor, SerialInv, NEW a \in Actors,
           mem[a].pc \in QuietPC, mem'[a].pc \in QuietPC,
           mem'[a].sched = mem[a].sched, mem'[a].ledger = mem[a].ledger,
           UNCHANGED <<sched, ledger, captured, cancelled>>
    PROVE  SerialInv'
<1>1. ActorInv(a) /\ \A j \in Jobs : Safe(sched, j)
  BY DEF SerialInv
<1>2. /\ mem[a].pc \in Loaded /\ mem[a].pc \in SchedSynced
      /\ mem[a].pc \in LedgerSynced /\ ~At(a, "enq_save")
  BY DEF QuietPC, Loaded, PC, SchedSynced, LedgerSynced, At
<1>3. /\ mem[a].sched = sched /\ mem[a].ledger = ledger
  BY <1>1, <1>2 DEF ActorInv
<1>4. (\A j \in Jobs : Safe(sched, j))'
  BY <1>1 DEF Safe
<1>5. mem'[a].sched = sched' /\ mem'[a].ledger = ledger'
  BY <1>3
<1>6. mem'[a].pc \notin Working /\ ~At(a, "cancel_save")'
  BY DEF QuietPC, Working, At
<1>7. mem'[a].pc \notin {"resv_sched", "resv_ledger", "prepare", "run_sched",
                         "execute", "capture"}
  BY DEF QuietPC
<1>8. ActorInv(a)'
  BY <1>4, <1>5, <1>6, <1>7 DEF ActorInv
<1>9. QED
  BY <1>4, <1>8, SerialOne

\* Every step of Next preserves the invariant, if there is one actor.
LEMMA SerialNext ==
    ASSUME SingleActor
    PROVE  TypeOK /\ SerialInv /\ [Next]_vars => SerialInv'
<1> SUFFICES ASSUME TypeOK, SerialInv, [Next]_vars PROVE SerialInv'
  OBVIOUS
<1> USE SingleActor
<1> USE DEF disk, ghost
<1>1. ASSUME NEW a \in Actors, EnqueueReuse(a) PROVE SerialInv'
  BY <1>1, SerialIdle DEF EnqueueReuse
<1>2. ASSUME NEW a \in Actors, PassEnds(a) PROVE SerialInv'
  BY <1>2, SerialIdle DEF PassEnds
<1>3. ASSUME NEW a \in Actors, RecordVanished(a) PROVE SerialInv'
  BY <1>3, SerialIdle DEF RecordVanished
<1>4. ASSUME NEW a \in Actors, ReserveRefused(a) PROVE SerialInv'
  BY <1>4, SerialIdle DEF ReserveRefused
<1>5. ASSUME NEW a \in Actors, MoveFails(a) PROVE SerialInv'
  BY <1>5, SerialIdle DEF MoveFails
<1>6. ASSUME NEW a \in Actors, Crash(a) PROVE SerialInv'
  BY <1>6, SerialIdle DEF Crash
<1>7. ASSUME NEW a \in Actors, EnqueueSnapshot(a) PROVE SerialInv'
  BY <1>7, SerialIdle DEF EnqueueSnapshot
<1>8. ASSUME NEW a \in Actors, DoneMove(a) PROVE SerialInv'
  <2>1. mem'[a] = [mem[a] EXCEPT !.pc = "done_snap"]
    BY <1>8, UpdateValue DEF DoneMove, Goto
  <2>2. mem'[a].sched = mem[a].sched /\ mem'[a].ledger = mem[a].ledger
    BY <2>1, MemType DEF Memory
  <2>3. mem[a].pc \in QuietPC /\ UNCHANGED <<sched, ledger, captured, cancelled>>
    BY <1>8 DEF DoneMove, At, QuietPC
  <2>4. mem'[a].pc \in QuietPC
    BY <1>8, <2>1, MemType DEF DoneMove, Memory, QuietPC
  <2>5. QED
    BY <2>2, <2>3, <2>4, SerialQuiet
<1>9. ASSUME NEW a \in Actors, FailWrite(a) PROVE SerialInv'
  <2>1. mem'[a] = [mem[a] EXCEPT !.pc = "fail_remove"]
    BY <1>9, UpdateValue DEF FailWrite, Goto
  <2>2. mem'[a].sched = mem[a].sched /\ mem'[a].ledger = mem[a].ledger
    BY <2>1, MemType DEF Memory
  <2>3. mem[a].pc \in QuietPC /\ UNCHANGED <<sched, ledger, captured, cancelled>>
    BY <1>9 DEF FailWrite, At, QuietPC
  <2>4. mem'[a].pc \in QuietPC
    BY <1>9, <2>1, MemType DEF FailWrite, Memory, QuietPC
  <2>5. QED
    BY <2>2, <2>3, <2>4, SerialQuiet
<1>10. ASSUME NEW a \in Actors, FailRemove(a) PROVE SerialInv'
  <2>1. mem'[a] = [mem[a] EXCEPT !.pc = "fail_snap"]
    BY <1>10, UpdateValue DEF FailRemove, Goto
  <2>2. mem'[a].sched = mem[a].sched /\ mem'[a].ledger = mem[a].ledger
    BY <2>1, MemType DEF Memory
  <2>3. mem[a].pc \in QuietPC /\ UNCHANGED <<sched, ledger, captured, cancelled>>
    BY <1>10 DEF FailRemove, At, QuietPC
  <2>4. mem'[a].pc \in QuietPC
    BY <1>10, <2>1, MemType DEF FailRemove, Memory, QuietPC
  <2>5. QED
    BY <2>2, <2>3, <2>4, SerialQuiet
<1>11. ASSUME NEW a \in Actors, ReconcileMove(a) PROVE SerialInv'
  <2>1. mem'[a] = [mem[a] EXCEPT !.pc = "rec_sched"]
    BY <1>11, UpdateValue DEF ReconcileMove, Goto
  <2>2. mem'[a].sched = mem[a].sched /\ mem'[a].ledger = mem[a].ledger
    BY <2>1, MemType DEF Memory
  <2>3. mem[a].pc \in QuietPC /\ UNCHANGED <<sched, ledger, captured, cancelled>>
    BY <1>11 DEF ReconcileMove, At, QuietPC
  <2>4. mem'[a].pc \in QuietPC
    BY <1>11, <2>1, MemType DEF ReconcileMove, Memory, QuietPC
  <2>5. QED
    BY <2>2, <2>3, <2>4, SerialQuiet
<1>12. ASSUME NEW a \in Actors, SaveSnapshot(a) PROVE SerialInv'
  <2>1. mem'[a] = [mem[a] EXCEPT !.pc = AfterSnapshot(mem[a].pc)]
    BY <1>12, UpdateValue DEF SaveSnapshot, Goto
  <2>2. mem'[a].sched = mem[a].sched /\ mem'[a].ledger = mem[a].ledger
    BY <2>1, MemType DEF Memory
  <2>3. mem[a].pc \in QuietPC /\ UNCHANGED <<sched, ledger, captured, cancelled>>
    BY <1>12 DEF SaveSnapshot, At, QuietPC
  <2>4. mem'[a].pc \in QuietPC
    BY <1>12, <2>1, MemType DEF SaveSnapshot, AfterSnapshot, Memory, QuietPC
  <2>5. QED
    BY <2>2, <2>3, <2>4, SerialQuiet
<1>13. ASSUME NEW a \in Actors, WriteAck(a) PROVE SerialInv'
  <2>1. mem'[a] = [mem[a] EXCEPT !.pc = "next", !.file = NoFile,
                        !.outcome = "error"]
    BY <1>13, UpdateValue DEF WriteAck
  <2>2. mem'[a].sched = mem[a].sched /\ mem'[a].ledger = mem[a].ledger
    BY <2>1, MemType DEF Memory
  <2>3. mem[a].pc \in QuietPC /\ UNCHANGED <<sched, ledger, captured, cancelled>>
    BY <1>13 DEF WriteAck, At, QuietPC
  <2>4. mem'[a].pc \in QuietPC
    BY <1>13, <2>1, MemType DEF WriteAck, Memory, QuietPC
  <2>5. QED
    BY <2>2, <2>3, <2>4, SerialQuiet
<1>14. ASSUME NEW a \in Actors, EnqueueSave(a) PROVE SerialInv'
  <2>1. /\ mem'[a] = [mem[a] EXCEPT !.pc = "enq_snap"]
        /\ sched' = mem[a].sched
        /\ captured' = captured \ {Job(a)} /\ cancelled' = cancelled \ {Job(a)}
        /\ mem[a].pc = "enq_save"
    BY <1>14, UpdateValue DEF EnqueueSave, Goto, At
  <2>2. /\ mem'[a].sched = mem[a].sched /\ mem'[a].file = mem[a].file
        /\ mem'[a].pc = "enq_snap"
    BY <2>1, MemType DEF Memory
  <2>3. ActorInv(a)
    BY DEF SerialInv
  <2>4. (\A j \in Jobs : Safe(sched, j))'
    BY <2>1, <2>3 DEF ActorInv, At, Job, Safe, Loaded, PC
  <2>5. ActorInv(a)'
    BY <2>1, <2>2, <2>4 DEF ActorInv, At, Job, Safe, Working, SchedSynced, LedgerSynced
  <2>6. QED
    BY <2>4, <2>5, SerialOne
<1>15. ASSUME NEW a \in Actors, CancelSave(a) PROVE SerialInv'
  <2>1. /\ mem'[a].pc = "idle" /\ sched' = mem[a].sched
        /\ captured' = captured /\ cancelled' = cancelled \cup {Job(a)}
        /\ mem[a].pc = "cancel_save"
    BY <1>15, UpdateValue DEF CancelSave, Finish, IdleMem, At
  <2>2. ActorInv(a)
    BY DEF SerialInv
  <2>3. (\A j \in Jobs : Safe(sched, j))'
    BY <2>1, <2>2 DEF ActorInv, At, Job, Safe, Loaded, PC
  <2>4. ActorInv(a)'
    BY <2>1 DEF ActorInv, At, Loaded, Working, SchedSynced, LedgerSynced
  <2>5. QED
    BY <2>3, <2>4, SerialOne
<1>16. ASSUME NEW a \in Actors, SaveSched(a) PROVE SerialInv'
  <2>1. /\ mem'[a] = [mem[a] EXCEPT !.pc = AfterSchedSave(mem[a].pc)]
        /\ sched' = mem[a].sched /\ UNCHANGED <<ledger, captured, cancelled>>
    BY <1>16, UpdateValue DEF SaveSched, Goto
  <2>2. /\ mem'[a].sched = mem[a].sched /\ mem'[a].ledger = mem[a].ledger
        /\ mem'[a].file = mem[a].file
        /\ mem'[a].pc = AfterSchedSave(mem[a].pc)
    BY <2>1, MemType DEF Memory
  <2>3. ActorInv(a)
    BY DEF SerialInv
  <2>4. (\A j \in Jobs : Safe(sched, j))'
    BY <1>16, <2>1, <2>3 DEF SaveSched, ActorInv, At, Safe, Loaded, PC
  <2>5. (\A j \in Jobs : Safe(mem[a].sched, j))'
    BY <2>1, <2>2, <2>4
  <2>6. Job(a)' = Job(a) /\ mem'[a].sched = sched'
    BY <2>1, <2>2 DEF Job
  <2>7. \/ mem[a].pc = "boot_sched" /\ mem'[a].pc = "boot_ledger"
        \/ mem[a].pc = "skip_sched" /\ mem'[a].pc = "skip_ledger"
        \/ mem[a].pc = "resv_sched" /\ mem'[a].pc = "resv_ledger"
        \/ mem[a].pc = "run_sched" /\ mem'[a].pc = "execute"
        \/ mem[a].pc = "done_sched" /\ mem'[a].pc = "done_ledger"
        \/ mem[a].pc = "fail_sched" /\ mem'[a].pc = "fail_ledger"
        \/ mem[a].pc = "rec_sched" /\ mem'[a].pc = "rec_snap"
    BY <1>16, <2>2 DEF SaveSched, AfterSchedSave
  <2>8. mem'[a].pc \in Working => Job(a) \notin captured
    BY <2>3, <2>7 DEF ActorInv, Working
  <2>9. /\ mem'[a].pc \in {"resv_sched", "resv_ledger", "prepare"} =>
              mem[a].sched[Job(a)].status = "reserved"
        /\ mem'[a].pc \in {"run_sched", "execute", "capture"} =>
              mem[a].sched[Job(a)].status = "running"
        /\ ~At(a, "cancel_save")'
    BY <2>3, <2>7 DEF ActorInv, At
  <2>10. mem'[a].pc \in LedgerSynced => mem'[a].ledger = ledger'
    BY <2>1, <2>2, <2>3, <2>7 DEF ActorInv, LedgerSynced
  <2>11. ActorInv(a)'
    BY <2>1, <2>2, <2>5, <2>6, <2>8, <2>9, <2>10 DEF ActorInv
  <2>12. QED
    BY <2>4, <2>11, SerialOne
<1>17. ASSUME NEW a \in Actors, SaveLedger(a) PROVE SerialInv'
  <2>1. /\ mem'[a] = [mem[a] EXCEPT !.pc = AfterLedgerSave(mem[a].pc)]
        /\ ledger' = mem[a].ledger /\ UNCHANGED <<sched, captured, cancelled>>
    BY <1>17, UpdateValue DEF SaveLedger, Goto
  <2>2. /\ mem'[a].sched = mem[a].sched /\ mem'[a].ledger = mem[a].ledger
        /\ mem'[a].file = mem[a].file
        /\ mem'[a].pc = AfterLedgerSave(mem[a].pc)
    BY <2>1, MemType DEF Memory
  <2>3. ActorInv(a) /\ \A j \in Jobs : Safe(sched, j)
    BY DEF SerialInv
  <2>4. (\A j \in Jobs : Safe(sched, j))'
    BY <2>1, <2>3 DEF Safe
  <2>5. \/ mem[a].pc \in {"boot_ledger", "skip_ledger"} /\ mem'[a].pc = "next"
        \/ mem[a].pc = "resv_ledger" /\ mem'[a].pc = "prepare"
        \/ mem[a].pc = "done_ledger" /\ mem'[a].pc = "done_move"
        \/ mem[a].pc = "fail_ledger" /\ mem'[a].pc = "fail_write"
    BY <1>17, <2>2 DEF SaveLedger, AfterLedgerSave
  <2>6. mem[a].pc \in SchedSynced /\ ~At(a, "enq_save")
    BY <2>5 DEF SchedSynced, At
  <2>7. mem'[a].sched = sched' /\ mem'[a].ledger = ledger' /\ Job(a)' = Job(a)
    BY <2>1, <2>2, <2>3, <2>6 DEF ActorInv, Job
  <2>8. mem'[a].pc \in Working => Job(a) \notin captured
    BY <2>3, <2>5 DEF ActorInv, Working
  <2>9. /\ mem'[a].pc \in {"resv_sched", "resv_ledger", "prepare"} =>
              mem[a].sched[Job(a)].status = "reserved"
        /\ mem'[a].pc \notin {"run_sched", "execute", "capture"}
        /\ ~At(a, "cancel_save")'
    BY <2>3, <2>5 DEF ActorInv, At
  <2>10. ActorInv(a)'
    BY <2>1, <2>2, <2>4, <2>7, <2>8, <2>9 DEF ActorInv
  <2>11. QED
    BY <2>4, <2>10, SerialOne
<1>18. ASSUME NEW a \in Actors, CollectPending(a) PROVE SerialInv'
  <2>1. /\ mem'[a].pc = "load_sched"
        /\ UNCHANGED <<sched, captured, cancelled>>
    BY <1>18, UpdateValue, MemType DEF CollectPending, Memory
  <2>2. ActorInv(a)'
    BY <2>1 DEF ActorInv, At, Loaded, Working, SchedSynced, LedgerSynced
  <2>3. QED
    BY <2>1, <2>2, SerialOne DEF SerialInv, Safe
<1>19. ASSUME NEW a \in Actors, LoadSched(a) PROVE SerialInv'
  <2>1. /\ mem'[a].pc = "load_ledger" /\ mem'[a].sched = sched
        /\ UNCHANGED <<sched, captured, cancelled>>
    BY <1>19, UpdateValue, MemType DEF LoadSched, Memory
  <2>2. (\A j \in Jobs : Safe(sched, j))'
    BY <2>1 DEF SerialInv, Safe
  <2>3. ActorInv(a)'
    BY <2>1, <2>2 DEF ActorInv, At, Safe, Working, LedgerSynced
  <2>4. QED
    BY <2>2, <2>3, SerialOne
<1>20. ASSUME NEW a \in Actors, LoadLedger(a) PROVE SerialInv'
  <2>1. /\ mem'[a].pc = "boot_sched"
        /\ mem'[a].sched = RecoverExpired(mem[a].sched, StaleJobs(ledger, clock))
        /\ mem[a].pc = "load_ledger"
        /\ UNCHANGED <<sched, captured, cancelled>>
    BY <1>20, UpdateValue, MemType DEF LoadLedger, Memory, At
  <2>2. ASSUME NEW j \in Jobs PROVE Safe(mem[a].sched, j)'
    <3>1. Safe(mem[a].sched, j)
      BY <2>1 DEF SerialInv, ActorInv, At, Loaded, PC
    <3>2. QED
      BY <2>1, <3>1, RecoverKeeps, MemType DEF Safe
  <2>3. ActorInv(a)'
    BY <2>1, <2>2 DEF ActorInv, At, Working, SchedSynced, LedgerSynced
  <2>4. QED
    BY <2>1, <2>3, SerialOne DEF SerialInv, Safe
<1>21. ASSUME NEW a \in Actors, PrepareFails(a) PROVE SerialInv'
  BY <1>21, SerialFail DEF PrepareFails, At
<1>22. ASSUME NEW a \in Actors, CaptureFails(a) PROVE SerialInv'
  BY <1>22, SerialFail DEF CaptureFails, At
<1>23. ASSUME NEW a \in Actors, MarkRunning(a) PROVE SerialInv'
  <2>1. /\ mem'[a].pc = "run_sched" /\ mem'[a].file = mem[a].file
        /\ mem'[a].ledger = mem[a].ledger
        /\ mem'[a].sched = MoveJob(mem[a].sched, Job(a), "running", "running")
        /\ mem[a].pc = "prepare"
        /\ UNCHANGED <<sched, ledger, captured, cancelled>>
    BY <1>23, UpdateValue, MemType DEF MarkRunning, Memory, At
  <2>2. /\ Job(a) \notin captured /\ Job(a) \notin cancelled
        /\ mem[a].sched[Job(a)].status = "reserved"
        /\ mem[a].ledger = ledger
        /\ \A j \in Jobs : Safe(mem[a].sched, j)
    <3>1. /\ ActorInv(a) /\ ~At(a, "enq_save")
          /\ mem[a].pc \in Loaded /\ mem[a].pc \in Working
          /\ mem[a].pc \in LedgerSynced
      BY <2>1 DEF SerialInv, At, Loaded, PC, Working, LedgerSynced
    <3>2. /\ Job(a) \notin captured /\ mem[a].ledger = ledger
          /\ mem[a].sched[Job(a)].status = "reserved"
          /\ \A j \in Jobs : Safe(mem[a].sched, j)
      BY <2>1, <3>1 DEF ActorInv
    <3>3. QED
      BY <3>2, MemType DEF Safe
  <2>3. /\ mem'[a].sched[Job(a)].status = "running"
        /\ \A j \in Jobs \ {Job(a)} :
              mem'[a].sched[j].status = mem[a].sched[j].status
    <3>1. CanTransition(mem[a].sched, Job(a), "running")
      BY <2>2 DEF CanTransition, ValidTransitions
    <3>2. /\ "running" \in JobStatus /\ "running" \in Buckets
          /\ mem[a].sched \in SchedulerState /\ Job(a) \in Jobs
      BY MemType DEF JobStatus, Buckets
    <3>3. QED
      BY <2>1, <3>1, <3>2, MoveJobAt
  <2>4. (\A j \in Jobs : Safe(mem[a].sched, j))'
    BY <2>1, <2>2, <2>3 DEF Safe
  <2>5. ActorInv(a)'
    BY <2>1, <2>2, <2>3, <2>4 DEF ActorInv, At, Job, SchedSynced
  <2>6. QED
    BY <2>1, <2>5, SerialOne DEF SerialInv, Safe
<1>24. ASSUME NEW a \in Actors, Execute(a) PROVE SerialInv'
  <2>1. /\ mem'[a].pc = "capture" /\ mem'[a].file = mem[a].file
        /\ mem'[a].ledger = mem[a].ledger /\ mem'[a].sched = mem[a].sched
        /\ mem[a].pc = "execute"
        /\ UNCHANGED <<sched, ledger, captured, cancelled>>
    <3>1. PICK o \in Outcomes :
             Update(a, [mem[a] EXCEPT !.pc = "capture", !.outcome = o])
      BY <1>24 DEF Execute
    <3>2. mem'[a] = [mem[a] EXCEPT !.pc = "capture", !.outcome = o]
      BY <3>1, UpdateValue
    <3>3. mem[a].pc = "execute" /\ UNCHANGED <<sched, ledger, captured, cancelled>>
      BY <1>24 DEF Execute, At
    <3>4. QED
      BY <3>2, <3>3, MemType DEF Memory
  <2>2. ActorInv(a)'
    <3>1. ActorInv(a) /\ ~At(a, "enq_save") /\ mem[a].pc \in Loaded
          /\ mem[a].pc \in Working /\ mem[a].pc \in SchedSynced
          /\ mem[a].pc \in LedgerSynced
      BY <2>1 DEF SerialInv, At, Loaded, PC, Working, SchedSynced, LedgerSynced
    <3>2. /\ Job(a) \notin captured
          /\ mem[a].sched = sched /\ mem[a].ledger = ledger
          /\ mem[a].sched[Job(a)].status = "running"
          /\ \A j \in Jobs : Safe(mem[a].sched, j)
      BY <2>1, <3>1 DEF ActorInv
    <3>3. (\A j \in Jobs : Safe(mem[a].sched, j))'
      BY <2>1, <3>2 DEF Safe
    <3>4. QED
      BY <2>1, <3>2, <3>3 DEF ActorInv, At, Job
  <2>3. QED
    BY <2>1, <2>2, SerialOne DEF SerialInv, Safe
<1>25. ASSUME NEW a \in Actors, Capture(a) PROVE SerialInv'
  <2> DEFINE s == TerminalOf(mem[a].outcome)
  <2>1. /\ mem'[a].pc = "done_sched"
        /\ mem'[a].sched = MoveJob(mem[a].sched, Job(a), s, "processed")
        /\ mem[a].pc = "capture"
        /\ UNCHANGED <<sched, cancelled>>
        /\ captured' = captured \cup {j \in {Job(a)} : mem[a].outcome = "completed"}
    BY <1>25, UpdateValue, MemType DEF Capture, Memory, At
  <2>2. /\ Job(a) \notin captured /\ Job(a) \notin cancelled
        /\ mem[a].sched[Job(a)].status = "running" /\ mem[a].sched = sched
        /\ \A j \in Jobs : Safe(mem[a].sched, j)
    BY <2>1, MemType DEF SerialInv, ActorInv, At, Safe, Loaded, Working,
         SchedSynced, PC
  <2>3. s \in {"completed", "failed", "cancelled"}
        /\ (mem[a].outcome = "completed" => s = "completed")
    BY DEF TerminalOf
  <2> HIDE DEF s
  <2>4. /\ mem'[a].sched[Job(a)].status = s
        /\ \A j \in Jobs \ {Job(a)} :
              mem'[a].sched[j].status = mem[a].sched[j].status
    <3>1. CanTransition(mem[a].sched, Job(a), s)
      BY <2>2, <2>3 DEF CanTransition, ValidTransitions
    <3>2. /\ s \in JobStatus /\ "processed" \in Buckets
          /\ mem[a].sched \in SchedulerState /\ Job(a) \in Jobs
      BY <2>3, MemType DEF JobStatus, Buckets
    <3>3. QED
      BY <2>1, <3>1, <3>2, MoveJobAt
  <2>5. (\A j \in Jobs : Safe(mem[a].sched, j))'
    BY <2>1, <2>2, <2>3, <2>4 DEF Safe
  <2>6. (\A j \in Jobs : Safe(sched, j))'
    BY <2>1, <2>2 DEF Safe
  <2>7. ActorInv(a)'
    BY <2>1, <2>5 DEF ActorInv, At, Working, SchedSynced, LedgerSynced
  <2>8. QED
    BY <2>6, <2>7, SerialOne
<1>26. ASSUME NEW a \in Actors, RecordStale(a) PROVE SerialInv'
  <2>1. PICK f \in mem[a].todo :
          Takes(a, f) /\ Update(a, Popped(a, f, "rec_move"))
    BY <1>26 DEF RecordStale
  <2>2. /\ mem'[a].pc = "rec_move" /\ mem'[a].ledger = mem[a].ledger
        /\ mem'[a].sched = mem[a].sched /\ mem[a].pc = "next"
        /\ UNCHANGED <<sched, ledger, captured, cancelled>>
    <3>1. mem'[a] = Popped(a, f, "rec_move")
      BY <2>1, UpdateValue
    <3>2. /\ mem'[a].pc = "rec_move" /\ mem'[a].ledger = mem[a].ledger
          /\ mem'[a].sched = mem[a].sched
      BY <3>1, MemType DEF Popped, Memory
    <3>3. QED
      BY <1>26, <2>1, <3>2 DEF RecordStale, Takes, At
  <2>3. QED
    BY <2>2, SerialQuiet DEF QuietPC
<1>27. ASSUME NEW a \in Actors, RecordReserved(a) PROVE SerialInv'
  <2>1. PICK f \in mem[a].todo :
          /\ Takes(a, f) /\ mem[a].sched[f.job].status \notin TerminalStatus
          /\ Update(a, [Popped(a, f, "skip_sched") EXCEPT
                !.sched = SetBucket(WithJob(@, f.job), f.job, "reserved")])
    BY <1>27 DEF RecordReserved
  <2>2. f.job \in Jobs
    BY MemType DEF QueueFile
  <2>3. /\ mem'[a].pc = "skip_sched" /\ mem'[a].ledger = mem[a].ledger
        /\ mem'[a].sched = SetBucket(WithJob(mem[a].sched, f.job), f.job, "reserved")
        /\ mem[a].pc = "next"
        /\ UNCHANGED <<sched, ledger, captured, cancelled>>
    <3> DEFINE m == Popped(a, f, "skip_sched")
    <3>1. /\ m \in Memory /\ m.pc = "skip_sched"
          /\ m.ledger = mem[a].ledger /\ m.sched = mem[a].sched
      <4>1. m \in Memory
        BY <2>1, PoppedType DEF PC
      <4>2. QED
        BY <4>1, MemType DEF Popped, Memory
    <3>2. mem'[a] = [m EXCEPT !.sched = SetBucket(WithJob(@, f.job), f.job, "reserved")]
      BY <2>1, UpdateValue
    <3> HIDE DEF m
    <3>3. QED
      BY <1>27, <2>1, <3>1, <3>2 DEF RecordReserved, Takes, Memory, At
  <2>4. /\ mem[a].ledger = ledger
        /\ \A j \in Jobs : Safe(mem[a].sched, j)
    BY <2>3 DEF SerialInv, ActorInv, At, Loaded, LedgerSynced, PC
  <2>5. ASSUME NEW j \in Jobs PROVE Safe(mem[a].sched, j)'
    <3>1. mem'[a].sched[j].status =
            IF j = f.job /\ mem[a].sched[f.job].status = "absent"
            THEN "queued" ELSE mem[a].sched[j].status
      BY <2>2, <2>3, WithJobAt, MemType
    <3>2. QED
      BY <2>3, <2>4, <3>1 DEF Safe
  <2>6. ActorInv(a)'
    BY <2>3, <2>4, <2>5 DEF ActorInv, At, Working, SchedSynced
  <2>7. QED
    BY <2>3, <2>6, SerialOne DEF SerialInv, Safe
<1>28. ASSUME NEW a \in Actors, Reserve(a) PROVE SerialInv'
  <2>1. PICK f \in mem[a].todo :
          /\ Takes(a, f)
          /\ CanTransition(WithJob(mem[a].sched, f.job), f.job, "reserved")
          /\ Update(a, [Popped(a, f, "resv_sched") EXCEPT
                !.ledger = ReserveJob(@, f.job, clock),
                !.sched = MoveJob(WithJob(@, f.job), f.job,
                                  "reserved", "reserved")])
    BY <1>28 DEF Reserve
  <2> DEFINE t == WithJob(mem[a].sched, f.job)
  <2>2. f.job \in Jobs /\ t \in SchedulerState
    BY MemType, WithJobType DEF QueueFile
  <2>3. /\ mem'[a].pc = "resv_sched" /\ mem'[a].file = f
        /\ mem'[a].sched = MoveJob(t, f.job, "reserved", "reserved")
        /\ mem[a].pc = "next"
        /\ UNCHANGED <<sched, captured, cancelled>>
    <3> DEFINE m == Popped(a, f, "resv_sched")
    <3>1. /\ m \in Memory /\ m.pc = "resv_sched" /\ m.file = f
          /\ m.sched = mem[a].sched
      <4>1. m \in Memory
        BY <2>1, PoppedType DEF PC
      <4>2. QED
        BY <4>1, MemType DEF Popped, Memory
    <3>2. mem'[a] = [m EXCEPT !.ledger = ReserveJob(@, f.job, clock),
                              !.sched = MoveJob(WithJob(@, f.job), f.job,
                                                "reserved", "reserved")]
      BY <2>1, UpdateValue
    <3> HIDE DEF m
    <3>3. QED
      BY <1>28, <2>1, <3>1, <3>2 DEF Reserve, Takes, Memory, At
  <2>4. \A j \in Jobs : Safe(mem[a].sched, j)
    BY <2>3 DEF SerialInv, ActorInv, At, Loaded, PC
  <2>5. t[f.job].status = "queued"
    <3>1. "reserved" \in ValidTransitions(t[f.job].status)
      BY <2>1 DEF CanTransition
    <3>2. QED
      BY <2>2, <3>1 DEF ValidTransitions, SchedulerState, SchedulerJob, JobStatus
  <2>6. ASSUME NEW j \in Jobs PROVE Safe(t, j)
    <3>1. t[j].status = IF j = f.job /\ mem[a].sched[f.job].status = "absent"
                        THEN "queued" ELSE mem[a].sched[j].status
      BY <2>2, WithJobAt, MemType
    <3>2. QED
      BY <2>4, <3>1 DEF Safe
  <2>7. f.job \notin captured /\ f.job \notin cancelled
    BY <2>2, <2>5, <2>6 DEF Safe
  <2>8. CanTransition(t, f.job, "reserved")
    BY <2>1
  <2> HIDE DEF t
  <2>9. /\ mem'[a].sched[f.job].status = "reserved"
        /\ \A j \in Jobs \ {f.job} : mem'[a].sched[j].status = t[j].status
    BY <2>2, <2>3, <2>8, MoveJobAt DEF JobStatus, Buckets
  <2>10. (\A j \in Jobs : Safe(mem[a].sched, j))'
    BY <2>3, <2>6, <2>7, <2>9 DEF Safe
  <2>11. ActorInv(a)'
    BY <2>3, <2>7, <2>9, <2>10 DEF ActorInv, At, Job, SchedSynced, LedgerSynced
  <2>12. QED
    BY <2>3, <2>11, SerialOne DEF SerialInv, Safe
<1>29. ASSUME NEW a \in Actors, NEW j \in Jobs, EnqueueLoad(a, j)
       PROVE  SerialInv'
  <2>1. /\ mem'[a].pc = "enq_write" /\ mem'[a].sched = sched
        /\ UNCHANGED <<sched, captured, cancelled>>
    BY <1>29, UpdateValue, MemType DEF EnqueueLoad, Memory
  <2>2. (\A k \in Jobs : Safe(sched, k))'
    BY <2>1 DEF SerialInv, Safe
  <2>3. ActorInv(a)'
    BY <2>1, <2>2 DEF ActorInv, At, Safe, Working, LedgerSynced
  <2>4. QED
    BY <2>2, <2>3, SerialOne
<1>30. ASSUME NEW a \in Actors, NEW j \in Jobs, CancelLoad(a, j)
       PROVE  SerialInv'
  <2>1. /\ mem'[a].pc = "cancel_save"
        /\ mem'[a].sched = TransitionJob(sched, j, "cancelled")
        /\ mem'[a].file = [NoFile EXCEPT !.job = j]
        /\ CanTransition(sched, j, "cancelled")
        /\ UNCHANGED <<sched, captured, cancelled>>
    BY <1>30, UpdateValue, MemType DEF CancelLoad, Memory
  <2>2. Job(a)' = j
    BY <2>1, IdleTypes DEF Job, QueueFile
  <2>3. (\A k \in Jobs : Safe(sched, k))'
    BY <2>1 DEF SerialInv, Safe
  <2>4. /\ mem'[a].sched[j].status = "cancelled"
        /\ \A k \in Jobs \ {j} : mem'[a].sched[k].status = sched[k].status
    BY <2>1, TransitionJobAt DEF TypeOK, JobStatus
  <2>5. (\A k \in Jobs : Safe(mem[a].sched, k))'
    BY <2>1, <2>3, <2>4 DEF Safe
  <2>6. ActorInv(a)'
    BY <2>1, <2>2, <2>4, <2>5 DEF ActorInv, At, Working, SchedSynced, LedgerSynced
  <2>7. QED
    BY <2>3, <2>6, SerialOne
<1>31. ASSUME NEW a \in Actors, EnqueueWrite(a) PROVE SerialInv'
  <2>1. /\ mem'[a].pc = "enq_save" /\ mem[a].pc = "enq_write"
        /\ mem'[a].sched = AppendJob(mem[a].sched, mem'[a].file.job)
        /\ mem'[a].file = [mem[a].file EXCEPT !.at = clock]
        /\ UNCHANGED <<sched, captured, cancelled>>
    <3> DEFINE f == [mem[a].file EXCEPT !.at = clock]
    <3>1. mem'[a] = [mem[a] EXCEPT !.pc = "enq_save", !.file = f,
                                   !.sched = AppendJob(@, f.job)]
      BY <1>31, UpdateValue DEF EnqueueWrite
    <3> HIDE DEF f
    <3>2. /\ mem'[a].pc = "enq_save" /\ mem'[a].file = f
          /\ mem'[a].sched = AppendJob(mem[a].sched, f.job)
      BY <3>1, MemType DEF Memory
    <3>3. mem[a].pc = "enq_write" /\ UNCHANGED <<sched, captured, cancelled>>
      BY <1>31 DEF EnqueueWrite, At
    <3>4. QED
      BY <3>2, <3>3 DEF f
  <2>2. mem'[a].file.job = Job(a)
    BY <2>1, MemType DEF Job, QueueFile
  <2>3. \A j \in Jobs : Safe(mem[a].sched, j)
    BY <2>1 DEF SerialInv, ActorInv, At, Loaded, PC
  <2>4. \A j \in Jobs \ {Job(a)} : mem'[a].sched[j] = mem[a].sched[j]
    BY <2>1, <2>2, AppendJobAt, MemType
  <2>5. (\A j \in Jobs : j = Job(a) \/ Safe(mem[a].sched, j))'
    BY <2>1, <2>2, <2>3, <2>4 DEF Safe, Job
  <2>6. ActorInv(a)'
    BY <2>1, <2>5 DEF ActorInv, At, Working, SchedSynced, LedgerSynced
  <2>7. QED
    BY <2>1, <2>6, SerialOne DEF SerialInv, Safe
<1>32. ASSUME NEW a \in Actors, NEW j \in Jobs, QueueAck(a, j) PROVE SerialInv'
  BY <1>32 DEF QueueAck, SerialInv, ActorInv, At, Job, Safe
<1>33. CASE Tick
  BY <1>33 DEF Tick, SerialInv, ActorInv, At, Job, Safe
<1>34. CASE UNCHANGED vars
  BY <1>34 DEF vars, SerialInv, ActorInv, At, Job, Safe
<1>35. QED
  BY <1>1, <1>2, <1>3, <1>4, <1>5, <1>6, <1>7, <1>8, <1>9, <1>10, <1>11,
     <1>12, <1>13, <1>14, <1>15, <1>16, <1>17, <1>18, <1>19, <1>20, <1>21,
     <1>22, <1>23, <1>24, <1>25, <1>26, <1>27, <1>28, <1>29, <1>30, <1>31,
     <1>32, <1>33, <1>34
  DEF Next, ActorStep, EnqueueStep, PassStep

-----------------------------------------------------------------------------
(* The theorems.                                                           *)

\* The invariant of one process holds in every behaviour, crashes included.
THEOREM SerialCorrect == SingleActor => (Spec => []SerialInv)
<1> SUFFICES ASSUME SingleActor PROVE Spec => []SerialInv
  OBVIOUS
<1>1. Init => SerialInv
  BY DEF Init, SerialInv, ActorInv, At, Job, Safe, IdleMem, Loaded, Working,
         SchedSynced, LedgerSynced
<1>2. TypeOK /\ SerialInv /\ [Next]_vars => SerialInv'
  BY SerialNext
<1>3. QED
  BY <1>1, <1>2, TypeCorrect, PTL DEF Spec

\* With one process on the queue, a job whose completed execution was captured is
\* never executed again without being enqueued again.
THEOREM CompletedStaysCompleted == SingleActor => (Spec => []CompletedNotRerun)
<1> SUFFICES ASSUME SingleActor PROVE Spec => []CompletedNotRerun
  OBVIOUS
<1>1. SerialInv => CompletedNotRerun
  BY DEF SerialInv, ActorInv, CompletedNotRerun, At, Working
<1>2. Spec => []SerialInv
  BY SerialCorrect
<1>3. QED
  BY <1>1, <1>2, PTL

\* With one process on the queue, an answered cancellation stands until the job is
\* enqueued again.
THEOREM CancelledStaysCancelled == SingleActor => (Spec => []CancelSticks)
<1> SUFFICES ASSUME SingleActor PROVE Spec => []CancelSticks
  OBVIOUS
<1>1. TypeOK /\ SerialInv => CancelSticks
  BY DEF TypeOK, SerialInv, Safe, CancelSticks
<1>2. Spec => []SerialInv
  BY SerialCorrect
<1>3. QED
  BY <1>1, <1>2, TypeCorrect, PTL

\* With one process on the queue, the tables it works on are the tables on disk.
THEOREM TablesAgree == SingleActor => (Spec => []MemoryIsDisk)
<1> SUFFICES ASSUME SingleActor PROVE Spec => []MemoryIsDisk
  OBVIOUS
<1>1. SerialInv => MemoryIsDisk
  BY DEF SerialInv, ActorInv, MemoryIsDisk, SchedSynced, LedgerSynced
<1>2. Spec => []SerialInv
  BY SerialCorrect
<1>3. QED
  BY <1>1, <1>2, PTL

\* With one process on the queue, a job that is in flight and has a pending record gets
\* no second one, whatever crashes: between the lookup of enqueue_action and its write
\* the table it has looked in is the one on disk.
THEOREM NoSecondRecord == SingleActor => (Spec => NoDuplicateRecord)
<1> SUFFICES ASSUME SingleActor PROVE Spec => NoDuplicateRecord
  OBVIOUS
<1> DEFINE Kept == \A j \in Jobs :
              /\ sched[j].status \in InFlightStatus
              /\ \E f \in pending : f.job = j
              => \A f \in pending' \ pending : f.job # j
<1>1. TypeOK /\ SerialInv /\ [Next]_vars => Kept
  <2> SUFFICES ASSUME TypeOK, SerialInv, [Next]_vars,
                      NEW j \in Jobs, sched[j].status \in InFlightStatus,
                      \E f \in pending : f.job = j,
                      NEW g \in pending', g \notin pending
               PROVE  g.job # j
    OBVIOUS
  <2>1. PICK a \in Actors : EnqueueWrite(a)
    <3>1. ASSUME NEW a \in Actors, ActorStep(a) PROVE EnqueueWrite(a)
      BY <3>1, Zenon DEF ActorStep, EnqueueStep, PassStep, EnqueueReuse, EnqueueSave,
             EnqueueSnapshot, CancelSave, CollectPending, LoadSched, LoadLedger, SaveSched,
             SaveLedger, PassEnds, RecordVanished, RecordStale, RecordReserved, Reserve,
             ReserveRefused, PrepareFails, MarkRunning, Execute, Capture, CaptureFails,
             DoneMove, FailWrite, FailRemove, ReconcileMove, MoveFails, SaveSnapshot,
             WriteAck, MoveTo, disk
    <3>2. ASSUME NEW a \in Actors, NEW k \in Jobs,
                 Crash(a) \/ EnqueueLoad(a, k) \/ CancelLoad(a, k) \/ QueueAck(a, k)
          PROVE  FALSE
      BY <3>2 DEF Crash, EnqueueLoad, CancelLoad, QueueAck, disk
    <3>3. ASSUME Tick \/ UNCHANGED vars PROVE FALSE
      BY <3>3 DEF Tick, vars, disk
    <3> QED
      BY <3>1, <3>2, <3>3 DEF Next
  <2>2. mem[a].sched = sched /\ ~Reusable(a)
    BY <2>1 DEF EnqueueWrite, At, SerialInv, ActorInv, SchedSynced
  <2>3. Job(a) # j
    BY <2>2 DEF Reusable, HasQueuePath
  <2>4. g = [mem[a].file EXCEPT !.at = clock]
    BY <2>1 DEF EnqueueWrite
  <2> QED
    BY <2>3, <2>4, MemType DEF Job, QueueFile
<1>2. Spec => []SerialInv
  BY SerialCorrect
<1> QED
  BY <1>1, <1>2, TypeCorrect, PTL DEF Spec, NoDuplicateRecord

-----------------------------------------------------------------------------
(* One process that does not die.                                          *)

\* No crash is left to happen.
NoCrash == MaxCrashes = 0

\* With one actor the invariant is its own and the disk's.
LEMMA CalmOne ==
    ASSUME SingleActor, NEW a \in Actors, CalmDisk', CalmActor(a)'
    PROVE  CalmInv'
BY DEF SingleActor, CalmInv

\* What the invariant says of a process that is not between two such writes, and keeps
\* saying if the process changes its memory only.
LEMMA CalmStill ==
    ASSUME CalmInv, NEW a \in Actors,
           mem[a].pc \notin {"enq_snap", "done_sched", "fail_ledger", "done_ledger"}
    PROVE  /\ \A j \in Jobs : /\ Answered(sched, j) /\ Leased(ledger, sched, j)
                              /\ Recorded(sched, j) /\ Unrun(sched, j) /\ ran[j] <= 1
           /\ UNCHANGED <<sched, ledger, pending, snapshot, ran>> =>
                /\ CalmDisk'
                /\ (\A j \in Jobs : Answered(sched, j) /\ Leased(ledger, sched, j))'
<1>1. \A j \in Jobs : /\ Answered(sched, j) /\ Leased(ledger, sched, j)
                      /\ Recorded(sched, j) /\ Unrun(sched, j) /\ ran[j] <= 1
  BY DEF CalmInv, CalmDisk, CalmActor
<1>2. QED
  BY <1>1 DEF CalmDisk, Answered, Leased, Recorded, Unrun

\* The end of an operation keeps the invariant, unless it comes between two writes.
LEMMA CalmIdle ==
    ASSUME SingleActor, TypeOK, CalmInv, NEW a \in Actors, Finish(a),
           mem[a].pc \notin {"enq_snap", "done_sched", "fail_ledger", "done_ledger"},
           UNCHANGED <<sched, ledger, pending, snapshot, ran>>
    PROVE  CalmInv'
<1>1. mem'[a].pc = "idle"
  BY UpdateValue DEF Finish, IdleMem
<1>2. CalmDisk' /\ (\A j \in Jobs : Answered(sched, j) /\ Leased(ledger, sched, j))'
  BY CalmStill
<1>3. CalmActor(a)'
  BY <1>1, <1>2 DEF CalmActor, Loaded, Unsaved, Holding, PuttingAway
<1>4. QED
  BY <1>2, <1>3, CalmOne

\* An actor that puts a job away: its tables are those on disk, and in them the job is
\* over.
LEMMA CalmAway ==
    ASSUME TypeOK, SerialInv, CalmInv, NEW a \in Actors,
           mem[a].pc \in PuttingAway, mem[a].pc \in SchedSynced
    PROVE  /\ mem[a].sched = sched
           /\ sched[Job(a)].status \in TerminalStatus
BY DEF SerialInv, ActorInv, CalmInv, CalmActor

\* The steps that put a job away change no table: they may take its record away or
\* write its snapshot.
LEMMA CalmQuiet ==
    ASSUME SingleActor, TypeOK, SerialInv, CalmInv, NEW a \in Actors,
           mem[a].pc \in QuietPC \ {"next", "rec_sched"},
           mem'[a].pc \in QuietPC, mem'[a].sched = mem[a].sched,
           mem'[a].ledger = mem[a].ledger,
           mem'[a].pc # "next" => mem'[a].file = mem[a].file,
           \A j \in Jobs \ {Job(a)} : snapshot'[j] = snapshot[j],
           \A f \in pending : f.job # Job(a) => f \in pending',
           UNCHANGED <<sched, ledger, ran>>
    PROVE  CalmInv'
<1>1. mem[a].pc \in PuttingAway /\ mem[a].pc \in SchedSynced /\ mem[a].pc \in LedgerSynced
      /\ mem[a].pc \in Loaded /\ mem[a].pc \in Holding
  BY DEF QuietPC, PuttingAway, SchedSynced, LedgerSynced, Loaded, Holding, PC
<1>2. mem[a].sched = sched /\ sched[Job(a)].status \in TerminalStatus
  BY <1>1, CalmAway
<1>3. mem[a].ledger = ledger
  BY <1>1 DEF SerialInv, ActorInv
<1>4. \A j \in Jobs : /\ Answered(sched, j) /\ Leased(ledger, sched, j)
                      /\ Recorded(sched, j) /\ Unrun(sched, j) /\ ran[j] <= 1
  BY DEF CalmInv, CalmDisk, CalmActor, QuietPC
<1>5. (\A j \in Jobs : Answered(sched, j))'
  BY <1>2, <1>4 DEF Answered
<1>6. (\A j \in Jobs : Recorded(sched, j))'
  <2>1. SUFFICES ASSUME NEW j \in Jobs, sched[j].status \in InFlightStatus
                 PROVE  \E f \in pending' : f.job = j
    BY DEF Recorded
  <2>2. PICK f \in pending : f.job = j
    BY <1>4, <2>1 DEF Recorded
  <2>3. j # Job(a)
    BY <1>2, <2>1 DEF InFlightStatus, TerminalStatus
  <2>4. QED
    BY <2>2, <2>3
<1>7. (\A j \in Jobs : Leased(ledger, sched, j) /\ Unrun(sched, j) /\ ran[j] <= 1)'
  BY <1>4 DEF Leased, Unrun
<1>8. CalmDisk'
  BY <1>6, <1>7 DEF CalmDisk
<1>9. mem'[a].sched = sched' /\ mem'[a].ledger = ledger'
  BY <1>2, <1>3
<1>10. mem'[a].pc \in PuttingAway => mem'[a].sched[Job(a)'].status \in TerminalStatus
  BY <1>2 DEF Job, PuttingAway
<1>11. mem'[a].pc \notin {"run_sched", "execute"}
  BY DEF QuietPC
<1>12. CalmActor(a)'
  BY <1>5, <1>6, <1>7, <1>9, <1>10, <1>11 DEF CalmActor
<1>13. QED
  BY <1>8, <1>12, CalmOne

\* A job that is failed has nothing left to run or to lease.
LEMMA CalmFail ==
    ASSUME SingleActor, TypeOK, SerialInv, CalmInv, NEW a \in Actors,
           mem[a].pc \in {"prepare", "capture"}, FailJob(a),
           UNCHANGED <<disk, ghost>>
    PROVE  CalmInv'
<1> USE DEF disk, ghost
<1>1. /\ mem'[a].pc = "fail_sched" /\ mem'[a].file = mem[a].file
      /\ mem'[a].sched = MoveJob(mem[a].sched, Job(a), "failed", "failed")
      /\ mem'[a].ledger = NackJob(mem[a].ledger, Job(a))
  BY UpdateValue, MemType DEF FailJob, Memory
<1>2. /\ mem[a].sched[Job(a)].status \in {"reserved", "running"}
      /\ mem[a].sched = sched /\ mem[a].ledger = ledger
  BY DEF SerialInv, ActorInv, SchedSynced, LedgerSynced
<1>3. \A j \in Jobs : /\ Answered(sched, j) /\ Leased(ledger, sched, j)
                      /\ Recorded(sched, j) /\ Unrun(sched, j) /\ ran[j] <= 1
  BY DEF CalmInv, CalmDisk, CalmActor
<1>4. /\ mem'[a].sched[Job(a)].status = "failed"
      /\ \A j \in Jobs \ {Job(a)} : mem'[a].sched[j].status = sched[j].status
  <2>1. CanTransition(mem[a].sched, Job(a), "failed")
    BY <1>2 DEF CanTransition, ValidTransitions
  <2>2. "failed" \in JobStatus /\ "failed" \in Buckets
    BY DEF JobStatus, Buckets
  <2>3. QED
    BY <1>1, <1>2, <2>1, <2>2, MoveJobAt, MemType
<1>5. /\ mem'[a].ledger[Job(a)].state # "reserved"
      /\ \A j \in Jobs \ {Job(a)} : mem'[a].ledger[j] = ledger[j]
  BY <1>1, <1>2, MemType DEF NackJob, ReservationLedger, JobReservation
<1>6. CalmDisk'
  BY <1>3 DEF CalmDisk, Recorded, Unrun
<1>7. (\A j \in Jobs : Answered(sched, j) /\ Leased(ledger, sched, j))'
  BY <1>3 DEF Answered, Leased
<1>8. Job(a)' = Job(a)
  BY <1>1 DEF Job
<1>9. ASSUME NEW j \in Jobs
      PROVE  (/\ Recorded(mem[a].sched, j) /\ Unrun(mem[a].sched, j)
              /\ Answered(mem[a].sched, j)
              /\ Leased(mem[a].ledger, mem[a].sched, j)
              /\ Leased(ledger, mem[a].sched, j) \/ j = Job(a))'
  BY <1>3, <1>4, <1>5, <1>8, MemType
     DEF Recorded, Unrun, Answered, Leased, InFlightStatus, TerminalStatus
<1>10. CalmActor(a)'
  BY <1>1, <1>4, <1>7, <1>8, <1>9 DEF CalmActor, TerminalStatus
<1>11. QED
  BY <1>6, <1>10, CalmOne

\* Every step of Next preserves the invariant, if there is one actor and no crash.
LEMMA CalmNext ==
    ASSUME SingleActor, NoCrash
    PROVE  TypeOK /\ SerialInv /\ CalmInv /\ [Next]_vars => CalmInv'
<1> SUFFICES ASSUME TypeOK, SerialInv, CalmInv, [Next]_vars PROVE CalmInv'
  OBVIOUS
<1> USE SingleActor
<1> USE DEF disk, ghost
<1>1. ASSUME NEW a \in Actors, EnqueueReuse(a) PROVE CalmInv'
  BY <1>1, CalmIdle DEF EnqueueReuse, At
<1>2. ASSUME NEW a \in Actors, PassEnds(a) PROVE CalmInv'
  BY <1>2, CalmIdle DEF PassEnds, At
<1>3. ASSUME NEW a \in Actors, RecordVanished(a) PROVE CalmInv'
  BY <1>3, CalmIdle DEF RecordVanished, Takes, At
<1>4. ASSUME NEW a \in Actors, ReserveRefused(a) PROVE CalmInv'
  BY <1>4, CalmIdle DEF ReserveRefused, Takes, At
<1>5. ASSUME NEW a \in Actors, MoveFails(a) PROVE CalmInv'
  BY <1>5, CalmIdle DEF MoveFails, At
<1>6. ASSUME NEW a \in Actors, Crash(a) PROVE CalmInv'
  BY <1>6 DEF Crash, NoCrash, TypeOK
<1>7. ASSUME NEW a \in Actors, EnqueueSnapshot(a) PROVE CalmInv'
  <2>1. /\ mem'[a].pc = "idle" /\ mem[a].pc = "enq_snap"
        /\ snapshot' = [snapshot EXCEPT ![Job(a)] =
                          [status |-> "queued", path |-> {<<"pending", mem[a].file>>}]]
        /\ UNCHANGED <<sched, ledger, pending, ran>>
    BY <1>7, UpdateValue DEF EnqueueSnapshot, WriteSnapshot, Finish, IdleMem, At
  <2>2. CalmDisk'
    BY <2>1 DEF CalmInv, CalmDisk, Unrun, Recorded
  <2>3. ASSUME NEW j \in Jobs PROVE Answered(sched, j)'
    <3>1. j = Job(a) \/ Answered(sched, j)
      BY DEF CalmInv, CalmActor
    <3>2. j = Job(a) => snapshot'[j].status = "queued"
      BY <2>1, MemType DEF TypeOK
    <3>3. j # Job(a) => snapshot'[j] = snapshot[j]
      BY <2>1, MemType DEF TypeOK
    <3> QED
      BY <2>1, <3>1, <3>2, <3>3 DEF Answered, Acknowledgeable
  <2>4. (\A j \in Jobs : Leased(ledger, sched, j))'
    BY <2>1 DEF CalmInv, CalmActor, Leased
  <2>5. CalmActor(a)'
    BY <2>1, <2>3, <2>4 DEF CalmActor, Loaded, Unsaved, Holding, PuttingAway
  <2> QED
    BY <2>2, <2>5, CalmOne
<1>8. ASSUME NEW a \in Actors, DoneMove(a) PROVE CalmInv'
  <2>1. mem'[a] = [mem[a] EXCEPT !.pc = "done_snap"]
    BY <1>8, UpdateValue DEF DoneMove, Goto
  <2>2. /\ mem'[a].sched = mem[a].sched /\ mem'[a].ledger = mem[a].ledger
        /\ mem'[a].file = mem[a].file /\ mem'[a].pc = "done_snap"
    BY <2>1, MemType DEF Memory
  <2>3. mem[a].pc = "done_move" /\ UNCHANGED <<sched, ledger, snapshot, ran>>
        /\ pending' = pending \ {mem[a].file}
    BY <1>8 DEF DoneMove, MoveTo, At
  <2> QED
    BY <2>2, <2>3, CalmQuiet DEF QuietPC, Job
<1>9. ASSUME NEW a \in Actors, FailWrite(a) PROVE CalmInv'
  <2>1. mem'[a] = [mem[a] EXCEPT !.pc = "fail_remove"]
    BY <1>9, UpdateValue DEF FailWrite, Goto
  <2>2. /\ mem'[a].sched = mem[a].sched /\ mem'[a].ledger = mem[a].ledger
        /\ mem'[a].file = mem[a].file /\ mem'[a].pc = "fail_remove"
    BY <2>1, MemType DEF Memory
  <2>3. mem[a].pc = "fail_write" /\ UNCHANGED <<sched, ledger, snapshot, pending, ran>>
    BY <1>9 DEF FailWrite, At
  <2> QED
    BY <2>2, <2>3, CalmQuiet DEF QuietPC, Job
<1>10. ASSUME NEW a \in Actors, FailRemove(a) PROVE CalmInv'
  <2>1. mem'[a] = [mem[a] EXCEPT !.pc = "fail_snap"]
    BY <1>10, UpdateValue DEF FailRemove, Goto
  <2>2. /\ mem'[a].sched = mem[a].sched /\ mem'[a].ledger = mem[a].ledger
        /\ mem'[a].file = mem[a].file /\ mem'[a].pc = "fail_snap"
    BY <2>1, MemType DEF Memory
  <2>3. mem[a].pc = "fail_remove" /\ UNCHANGED <<sched, ledger, snapshot, ran>>
        /\ pending' = pending \ {mem[a].file}
    BY <1>10 DEF FailRemove, At
  <2> QED
    BY <2>2, <2>3, CalmQuiet DEF QuietPC, Job
<1>11. ASSUME NEW a \in Actors, ReconcileMove(a) PROVE CalmInv'
  <2>1. mem'[a] = [mem[a] EXCEPT !.pc = "rec_sched"]
    BY <1>11, UpdateValue DEF ReconcileMove, Goto
  <2>2. /\ mem'[a].sched = mem[a].sched /\ mem'[a].ledger = mem[a].ledger
        /\ mem'[a].file = mem[a].file /\ mem'[a].pc = "rec_sched"
    BY <2>1, MemType DEF Memory
  <2>3. mem[a].pc = "rec_move" /\ UNCHANGED <<sched, ledger, snapshot, ran>>
        /\ pending' = pending \ {mem[a].file}
    BY <1>11 DEF ReconcileMove, MoveTo, At
  <2> QED
    BY <2>2, <2>3, CalmQuiet DEF QuietPC, Job
<1>12. ASSUME NEW a \in Actors, SaveSnapshot(a) PROVE CalmInv'
  <2>1. mem'[a] = [mem[a] EXCEPT !.pc = AfterSnapshot(mem[a].pc)]
    BY <1>12, UpdateValue DEF SaveSnapshot, Goto
  <2>2. /\ mem'[a].sched = mem[a].sched /\ mem'[a].ledger = mem[a].ledger
        /\ mem'[a].file = mem[a].file
        /\ mem'[a].pc \in {"done_ack", "fail_ack", "rec_ack"}
    BY <1>12, <2>1, MemType DEF Memory, SaveSnapshot, AfterSnapshot
  <2>3. /\ mem[a].pc \in {"done_snap", "fail_snap", "rec_snap"}
        /\ UNCHANGED <<sched, ledger, pending, ran>>
        /\ \A j \in Jobs \ {Job(a)} : snapshot'[j] = snapshot[j]
    BY <1>12 DEF SaveSnapshot, WriteSnapshot, TypeOK
  <2> QED
    BY <2>2, <2>3, CalmQuiet DEF QuietPC
<1>13. ASSUME NEW a \in Actors, WriteAck(a) PROVE CalmInv'
  <2>1. mem'[a] = [mem[a] EXCEPT !.pc = "next", !.file = NoFile,
                        !.outcome = "error"]
    BY <1>13, UpdateValue DEF WriteAck
  <2>2. /\ mem'[a].sched = mem[a].sched /\ mem'[a].ledger = mem[a].ledger
        /\ mem'[a].pc = "next"
    BY <2>1, MemType DEF Memory
  <2>3. /\ mem[a].pc \in {"done_ack", "fail_ack", "rec_ack"}
        /\ UNCHANGED <<sched, ledger, pending, snapshot, ran>>
    BY <1>13 DEF WriteAck
  <2> QED
    BY <2>2, <2>3, CalmQuiet DEF QuietPC
<1>14. ASSUME NEW a \in Actors, EnqueueSave(a) PROVE CalmInv'
  <2>1. /\ mem'[a] = [mem[a] EXCEPT !.pc = "enq_snap"] /\ mem[a].pc = "enq_save"
        /\ sched' = mem[a].sched /\ ran' = [ran EXCEPT ![Job(a)] = 0]
        /\ UNCHANGED <<ledger, pending, snapshot>>
    BY <1>14, UpdateValue DEF EnqueueSave, Goto, At
  <2>2. /\ mem'[a].pc = "enq_snap" /\ mem'[a].sched = mem[a].sched
        /\ mem'[a].file = mem[a].file
    BY <2>1, MemType DEF Memory
  <2>3. \A j \in Jobs : ran'[j] = IF j = Job(a) THEN 0 ELSE ran[j]
    BY <2>1 DEF TypeOK
  <2>4. \A j \in Jobs : /\ ran[j] <= 1
                        /\ Recorded(mem[a].sched, j)
                        /\ Unrun(mem[a].sched, j) \/ j = Job(a)
                        /\ Answered(mem[a].sched, j) \/ j = Job(a)
                        /\ Leased(ledger, mem[a].sched, j)
    BY <2>1 DEF CalmInv, CalmDisk, CalmActor, Loaded, Unsaved, PC
  <2>5. (\A j \in Jobs : /\ ran[j] <= 1
                         /\ Recorded(sched, j) /\ Unrun(sched, j)
                         /\ Answered(sched, j) \/ j = Job(a)
                         /\ Leased(ledger, sched, j))'
    BY <2>1, <2>2, <2>3, <2>4 DEF Recorded, Unrun, Answered, Leased, Job
  <2>6. CalmActor(a)'
    BY <2>1, <2>2, <2>5 DEF CalmActor, Unsaved, Holding, PuttingAway
  <2> QED
    BY <2>5, <2>6, CalmOne DEF CalmDisk
<1>15. ASSUME NEW a \in Actors, CancelSave(a) PROVE CalmInv'
  <2>1. /\ mem'[a].pc = "idle" /\ sched' = mem[a].sched /\ mem[a].pc = "cancel_save"
        /\ UNCHANGED <<ledger, pending, snapshot, ran>>
    BY <1>15, UpdateValue DEF CancelSave, Finish, IdleMem, At
  <2>2. \A j \in Jobs : /\ ran[j] <= 1
                        /\ Recorded(mem[a].sched, j) /\ Unrun(mem[a].sched, j)
                        /\ Answered(mem[a].sched, j) /\ Leased(ledger, mem[a].sched, j)
    BY <2>1 DEF CalmInv, CalmDisk, CalmActor, Loaded, Unsaved, PC
  <2>3. (\A j \in Jobs : /\ ran[j] <= 1
                         /\ Recorded(sched, j) /\ Unrun(sched, j)
                         /\ Answered(sched, j) /\ Leased(ledger, sched, j))'
    BY <2>1, <2>2 DEF Recorded, Unrun, Answered, Leased
  <2>4. CalmActor(a)'
    BY <2>1, <2>3 DEF CalmActor, Loaded, Unsaved, Holding, PuttingAway
  <2> QED
    BY <2>3, <2>4, CalmOne DEF CalmDisk
<1>16. ASSUME NEW a \in Actors, NEW k \in Jobs, EnqueueLoad(a, k) PROVE CalmInv'
  <2>1. /\ mem'[a].pc = "enq_write" /\ mem'[a].sched = sched /\ mem[a].pc = "idle"
        /\ UNCHANGED <<sched, ledger, pending, snapshot, ran>>
    BY <1>16, UpdateValue, MemType DEF EnqueueLoad, Memory, At
  <2>2. /\ CalmDisk'
        /\ (\A j \in Jobs : Answered(sched, j) /\ Leased(ledger, sched, j))'
    BY <2>1, CalmStill
  <2>3. CalmActor(a)'
    BY <2>1, <2>2 DEF CalmActor, CalmDisk, Holding, PuttingAway
  <2> QED
    BY <2>2, <2>3, CalmOne
<1>17. ASSUME NEW a \in Actors, NEW k \in Jobs, CancelLoad(a, k) PROVE CalmInv'
  <2>1. /\ mem'[a].pc = "cancel_save" /\ mem[a].pc = "idle"
        /\ mem'[a].sched = TransitionJob(sched, k, "cancelled")
        /\ CanTransition(sched, k, "cancelled")
        /\ UNCHANGED <<sched, ledger, pending, snapshot, ran>>
    BY <1>17, UpdateValue, MemType DEF CancelLoad, Memory, At
  <2>2. /\ CalmDisk'
        /\ (\A j \in Jobs : Answered(sched, j) /\ Leased(ledger, sched, j))'
    BY <2>1, CalmStill
  <2>3. /\ mem'[a].sched[k].status = "cancelled"
        /\ \A j \in Jobs \ {k} : mem'[a].sched[j].status = sched[j].status
    BY <2>1, TransitionJobAt DEF TypeOK, JobStatus
  <2>4. (\A j \in Jobs : /\ Recorded(mem[a].sched, j) /\ Unrun(mem[a].sched, j)
                         /\ Answered(mem[a].sched, j)
                         /\ Leased(ledger, mem[a].sched, j))'
    BY <2>1, <2>2, <2>3 DEF CalmDisk, Recorded, Unrun, Answered, Leased,
       InFlightStatus, TerminalStatus
  <2>5. CalmActor(a)'
    BY <2>1, <2>2, <2>4 DEF CalmActor, Holding, PuttingAway
  <2> QED
    BY <2>2, <2>5, CalmOne
<1>18. ASSUME NEW a \in Actors, EnqueueWrite(a) PROVE CalmInv'
  <2> DEFINE f == [mem[a].file EXCEPT !.at = clock]
  <2>1. mem'[a] = [mem[a] EXCEPT !.pc = "enq_save", !.file = f,
                                 !.sched = AppendJob(@, f.job)]
    BY <1>18, UpdateValue DEF EnqueueWrite
  <2>2. /\ mem[a].pc = "enq_write" /\ pending' = pending \cup {f}
        /\ UNCHANGED <<sched, ledger, snapshot, ran>>
    BY <1>18 DEF EnqueueWrite, At
  <2>3. f.job = Job(a) /\ Job(a) \in Jobs
    BY MemType DEF Job, QueueFile
  <2> HIDE DEF f
  <2>4. /\ mem'[a].pc = "enq_save" /\ mem'[a].file = f
        /\ mem'[a].sched = AppendJob(mem[a].sched, Job(a))
    BY <2>1, <2>3, MemType DEF Memory
  <2>5. Job(a)' = Job(a)
    BY <2>3, <2>4 DEF Job
  <2>6. /\ mem'[a].sched[Job(a)].status = "queued"
        /\ \A j \in Jobs \ {Job(a)} : mem'[a].sched[j] = mem[a].sched[j]
    BY <2>3, <2>4, MemType DEF AppendJob, SchedulerState, SchedulerJob
  <2>7. \A j \in Jobs : /\ Answered(sched, j) /\ Leased(ledger, sched, j)
                        /\ Recorded(sched, j) /\ Unrun(sched, j) /\ ran[j] <= 1
                        /\ Recorded(mem[a].sched, j) /\ Unrun(mem[a].sched, j)
                        /\ Answered(mem[a].sched, j) /\ Leased(ledger, mem[a].sched, j)
    BY <2>2 DEF CalmInv, CalmDisk, CalmActor, Loaded, Unsaved, PC
  <2>8. (\A j \in Jobs : /\ Answered(sched, j) /\ Leased(ledger, sched, j)
                         /\ Recorded(sched, j) /\ Unrun(sched, j) /\ ran[j] <= 1)'
    BY <2>2, <2>7 DEF Answered, Leased, Recorded, Unrun
  <2>9. (\A j \in Jobs : /\ Recorded(mem[a].sched, j)
                         /\ Unrun(mem[a].sched, j) \/ j = Job(a)
                         /\ Answered(mem[a].sched, j) \/ j = Job(a)
                         /\ Leased(ledger, mem[a].sched, j))'
    BY <2>2, <2>3, <2>5, <2>6, <2>7 DEF Answered, Leased, Recorded, Unrun
  <2>10. CalmActor(a)'
    BY <2>4, <2>8, <2>9 DEF CalmActor, Holding, PuttingAway
  <2> QED
    BY <2>8, <2>10, CalmOne DEF CalmDisk
<1>19. ASSUME NEW a \in Actors, CollectPending(a) PROVE CalmInv'
  <2>1. /\ mem'[a].pc = "load_sched" /\ mem[a].pc = "idle"
        /\ UNCHANGED <<sched, ledger, pending, snapshot, ran>>
    BY <1>19, UpdateValue, MemType DEF CollectPending, Memory, At
  <2>2. /\ CalmDisk'
        /\ (\A j \in Jobs : Answered(sched, j) /\ Leased(ledger, sched, j))'
    BY <2>1, CalmStill
  <2>3. CalmActor(a)'
    BY <2>1, <2>2 DEF CalmActor, Loaded, Unsaved, Holding, PuttingAway
  <2> QED
    BY <2>2, <2>3, CalmOne
<1>20. ASSUME NEW a \in Actors, LoadSched(a) PROVE CalmInv'
  <2>1. /\ mem'[a].pc = "load_ledger" /\ mem'[a].sched = sched
        /\ mem[a].pc = "load_sched"
        /\ UNCHANGED <<sched, ledger, pending, snapshot, ran>>
    BY <1>20, UpdateValue, MemType DEF LoadSched, Memory, At
  <2>2. /\ CalmDisk'
        /\ (\A j \in Jobs : Answered(sched, j) /\ Leased(ledger, sched, j))'
    BY <2>1, CalmStill
  <2>3. CalmActor(a)'
    BY <2>1, <2>2 DEF CalmActor, CalmDisk, Holding, PuttingAway
  <2> QED
    BY <2>2, <2>3, CalmOne
<1>21. ASSUME NEW a \in Actors, LoadLedger(a) PROVE CalmInv'
  <2> DEFINE S == StaleJobs(ledger, clock)
  <2>1. /\ mem'[a].pc = "boot_sched" /\ mem[a].pc = "load_ledger"
        /\ mem'[a].ledger = ExpireStale(ledger, clock)
        /\ mem'[a].sched = RecoverExpired(mem[a].sched, S)
        /\ UNCHANGED <<sched, ledger, pending, snapshot, ran>>
    BY <1>21, UpdateValue, MemType DEF LoadLedger, Memory, At
  <2>2. /\ CalmDisk'
        /\ (\A j \in Jobs : Answered(sched, j) /\ Leased(ledger, sched, j))'
    BY <2>1, CalmStill
  <2>3. \A j \in Jobs : /\ Recorded(mem[a].sched, j) /\ Unrun(mem[a].sched, j)
                        /\ Answered(mem[a].sched, j) /\ Leased(ledger, mem[a].sched, j)
    BY <2>1 DEF CalmInv, CalmActor, Loaded, Unsaved, PC
  <2>4. ASSUME NEW j \in Jobs
        PROVE  \/ mem'[a].sched[j].status = mem[a].sched[j].status
               \/ /\ mem'[a].sched[j].status = "queued"
                  /\ mem[a].sched[j].status \in {"reserved", "suspended"}
    <3>1. j \in S => mem[a].sched[j].status # "failed"
      BY <2>3 DEF Leased, StaleJobs
    <3>2. \/ mem'[a].sched[j].status = mem[a].sched[j].status
          \/ /\ mem'[a].sched[j].status = "queued" /\ j \in S
             /\ CanTransition(mem[a].sched, j, "queued")
      BY <2>1 DEF RecoverExpired
    <3> QED
      BY <3>1, <3>2, MemType DEF CanTransition, ValidTransitions, SchedulerState,
         SchedulerJob, JobStatus
  <2>5. \A j \in Jobs : mem'[a].ledger[j].state = "reserved" =>
                          ledger[j].state = "reserved"
    BY <2>1 DEF ExpireStale, TypeOK, ReservationLedger, JobReservation
  <2>6. (\A j \in Jobs : /\ Recorded(mem[a].sched, j) /\ Unrun(mem[a].sched, j)
                         /\ Answered(mem[a].sched, j)
                         /\ Leased(ledger, mem[a].sched, j)
                         /\ Leased(mem[a].ledger, mem[a].sched, j))'
    BY <2>1, <2>3, <2>4, <2>5 DEF Recorded, Unrun, Answered, Leased,
       InFlightStatus, TerminalStatus
  <2>7. CalmActor(a)'
    BY <2>1, <2>2, <2>6 DEF CalmActor, PuttingAway
  <2> QED
    BY <2>2, <2>7, CalmOne
<1>22. ASSUME NEW a \in Actors, SaveSched(a) PROVE CalmInv'
  <2>1. /\ mem'[a] = [mem[a] EXCEPT !.pc = AfterSchedSave(mem[a].pc)]
        /\ sched' = mem[a].sched /\ UNCHANGED <<ledger, pending, snapshot, ran>>
    BY <1>22, UpdateValue DEF SaveSched, Goto
  <2>2. /\ mem'[a].sched = mem[a].sched /\ mem'[a].ledger = mem[a].ledger
        /\ mem'[a].file = mem[a].file
        /\ mem'[a].pc = AfterSchedSave(mem[a].pc)
    BY <2>1, MemType DEF Memory
  <2>3. \/ mem[a].pc = "boot_sched" /\ mem'[a].pc = "boot_ledger"
        \/ mem[a].pc = "skip_sched" /\ mem'[a].pc = "skip_ledger"
        \/ mem[a].pc = "resv_sched" /\ mem'[a].pc = "resv_ledger"
        \/ mem[a].pc = "run_sched" /\ mem'[a].pc = "execute"
        \/ mem[a].pc = "done_sched" /\ mem'[a].pc = "done_ledger"
        \/ mem[a].pc = "fail_sched" /\ mem'[a].pc = "fail_ledger"
        \/ mem[a].pc = "rec_sched" /\ mem'[a].pc = "rec_snap"
    BY <1>22, <2>2 DEF SaveSched, AfterSchedSave
  <2>4. /\ mem[a].pc \in Loaded /\ mem[a].pc \in Unsaved /\ mem[a].pc \in Holding
        /\ mem[a].pc \notin {"enq_save", "enq_snap"}
        /\ mem'[a].pc \notin Unsaved
    BY <2>3 DEF Loaded, Unsaved, Holding, PC
  <2>5. \A j \in Jobs : /\ ran[j] <= 1
                        /\ Recorded(mem[a].sched, j) /\ Unrun(mem[a].sched, j)
                        /\ Answered(mem[a].sched, j)
                        /\ \/ Leased(ledger, mem[a].sched, j)
                           \/ j = Job(a) /\ mem[a].pc \in {"done_sched", "fail_sched"}
                        /\ Leased(mem[a].ledger, mem[a].sched, j)
    BY <2>4 DEF CalmInv, CalmDisk, CalmActor
  <2>6. Job(a)' = Job(a)
    BY <2>2 DEF Job
  <2>7. (\A j \in Jobs : /\ ran[j] <= 1
                         /\ Recorded(sched, j) /\ Unrun(sched, j)
                         /\ Answered(sched, j)
                         /\ Recorded(mem[a].sched, j) /\ Unrun(mem[a].sched, j)
                         /\ Answered(mem[a].sched, j)
                         /\ \/ Leased(ledger, sched, j)
                            \/ j = Job(a) /\ mem[a].pc \in {"done_ledger", "fail_ledger"}
                         /\ Leased(mem[a].ledger, mem[a].sched, j))'
    BY <2>1, <2>2, <2>3, <2>5, <2>6 DEF Recorded, Unrun, Answered, Leased
  <2>8. mem'[a].pc \in PuttingAway => mem'[a].sched[Job(a)'].status \in TerminalStatus
    <3>1. mem'[a].pc \in PuttingAway => mem[a].pc \in PuttingAway
      BY <2>3 DEF PuttingAway
    <3> QED
      BY <2>2, <2>6, <3>1 DEF CalmInv, CalmActor
  <2>9. mem'[a].pc \in {"run_sched", "execute"} => ran'[Job(a)'] = 0
    BY <2>1, <2>3, <2>6 DEF CalmInv, CalmActor
  <2>10. CalmActor(a)'
    BY <2>4, <2>7, <2>8, <2>9 DEF CalmActor
  <2> QED
    BY <2>7, <2>10, CalmOne DEF CalmDisk
<1>23. ASSUME NEW a \in Actors, SaveLedger(a) PROVE CalmInv'
  <2>1. /\ mem'[a] = [mem[a] EXCEPT !.pc = AfterLedgerSave(mem[a].pc)]
        /\ ledger' = mem[a].ledger /\ UNCHANGED <<sched, pending, snapshot, ran>>
    BY <1>23, UpdateValue DEF SaveLedger, Goto
  <2>2. /\ mem'[a].sched = mem[a].sched /\ mem'[a].ledger = mem[a].ledger
        /\ mem'[a].file = mem[a].file
        /\ mem'[a].pc = AfterLedgerSave(mem[a].pc)
    BY <2>1, MemType DEF Memory
  <2>3. \/ mem[a].pc \in {"boot_ledger", "skip_ledger"} /\ mem'[a].pc = "next"
        \/ mem[a].pc = "resv_ledger" /\ mem'[a].pc = "prepare"
        \/ mem[a].pc = "done_ledger" /\ mem'[a].pc = "done_move"
        \/ mem[a].pc = "fail_ledger" /\ mem'[a].pc = "fail_write"
    BY <1>23, <2>2 DEF SaveLedger, AfterLedgerSave
  <2>4. /\ mem[a].pc \in Loaded /\ mem[a].pc \in Holding /\ mem[a].pc \in SchedSynced
        /\ mem[a].pc \notin {"enq_save", "enq_snap", "done_sched"}
        /\ mem'[a].pc \notin Unsaved
        /\ mem'[a].pc \notin {"run_sched", "execute"}
    BY <2>3 DEF Loaded, Unsaved, Holding, SchedSynced, PC
  <2>5. mem[a].sched = sched
    BY <2>4 DEF SerialInv, ActorInv
  <2>6. \A j \in Jobs : /\ ran[j] <= 1
                        /\ Recorded(sched, j) /\ Unrun(sched, j) /\ Answered(sched, j)
                        /\ Leased(mem[a].ledger, sched, j)
    BY <2>4, <2>5 DEF CalmInv, CalmDisk, CalmActor
  <2>7. Job(a)' = Job(a)
    BY <2>2 DEF Job
  <2>8. mem'[a].sched = sched' /\ mem'[a].ledger = ledger'
    BY <2>1, <2>2, <2>5
  <2>9. (\A j \in Jobs : /\ ran[j] <= 1
                         /\ Recorded(sched, j) /\ Unrun(sched, j) /\ Answered(sched, j)
                         /\ Leased(ledger, sched, j))'
    BY <2>1, <2>6 DEF Recorded, Unrun, Answered, Leased
  <2>10. mem'[a].pc \in PuttingAway => mem'[a].sched[Job(a)'].status \in TerminalStatus
    <3>1. mem'[a].pc \in PuttingAway => mem[a].pc \in PuttingAway
      BY <2>3 DEF PuttingAway
    <3> QED
      BY <2>2, <2>7, <3>1 DEF CalmInv, CalmActor
  <2>11. CalmActor(a)'
    BY <2>4, <2>8, <2>9, <2>10 DEF CalmActor
  <2> QED
    BY <2>9, <2>11, CalmOne DEF CalmDisk
<1>24. ASSUME NEW a \in Actors, PrepareFails(a) PROVE CalmInv'
  BY <1>24, CalmFail DEF PrepareFails, At
<1>25. ASSUME NEW a \in Actors, CaptureFails(a) PROVE CalmInv'
  BY <1>25, CalmFail DEF CaptureFails, At
<1>26. ASSUME NEW a \in Actors, MarkRunning(a) PROVE CalmInv'
  <2>1. /\ mem'[a].pc = "run_sched" /\ mem'[a].file = mem[a].file
        /\ mem'[a].ledger = mem[a].ledger
        /\ mem'[a].sched = MoveJob(mem[a].sched, Job(a), "running", "running")
        /\ mem[a].pc = "prepare"
        /\ UNCHANGED <<sched, ledger, pending, snapshot, ran>>
    BY <1>26, UpdateValue, MemType DEF MarkRunning, Memory, At
  <2>2. /\ CalmDisk'
        /\ (\A j \in Jobs : Answered(sched, j) /\ Leased(ledger, sched, j))'
    BY <2>1, CalmStill
  <2>3. /\ mem[a].sched[Job(a)].status = "reserved"
        /\ mem[a].sched = sched /\ mem[a].ledger = ledger
    BY <2>1 DEF SerialInv, ActorInv, SchedSynced, LedgerSynced
  <2>4. /\ mem'[a].sched[Job(a)].status = "running"
        /\ \A j \in Jobs \ {Job(a)} : mem'[a].sched[j].status = sched[j].status
    <3>1. CanTransition(mem[a].sched, Job(a), "running")
      BY <2>3 DEF CanTransition, ValidTransitions
    <3>2. /\ "running" \in JobStatus /\ "running" \in Buckets
          /\ mem[a].sched \in SchedulerState /\ Job(a) \in Jobs
      BY MemType DEF JobStatus, Buckets
    <3> QED
      BY <2>1, <2>3, <3>1, <3>2, MoveJobAt
  <2>5. (\A j \in Jobs : /\ Recorded(mem[a].sched, j) /\ Unrun(mem[a].sched, j)
                         /\ Answered(mem[a].sched, j)
                         /\ Leased(ledger, mem[a].sched, j)
                         /\ Leased(mem[a].ledger, mem[a].sched, j))'
    BY <2>1, <2>2, <2>3, <2>4, MemType DEF CalmDisk, Recorded, Unrun, Answered, Leased,
       InFlightStatus, TerminalStatus
  <2>6. ran'[Job(a)'] = 0
    BY <2>1, <2>3, MemType DEF CalmInv, CalmDisk, Unrun, Job
  <2>7. CalmActor(a)'
    BY <2>1, <2>2, <2>5, <2>6 DEF CalmActor, PuttingAway
  <2> QED
    BY <2>2, <2>7, CalmOne
<1>27. ASSUME NEW a \in Actors, Execute(a) PROVE CalmInv'
  <2>1. PICK o \in Outcomes :
          /\ Update(a, [mem[a] EXCEPT !.pc = "capture", !.outcome = o])
          /\ ran' = [ran EXCEPT ![Job(a)] = @ + (IF WorkerRan(o) THEN 1 ELSE 0)]
    BY <1>27 DEF Execute
  <2>2. /\ mem'[a].pc = "capture" /\ mem'[a].file = mem[a].file
        /\ mem'[a].ledger = mem[a].ledger /\ mem'[a].sched = mem[a].sched
        /\ mem[a].pc = "execute"
        /\ UNCHANGED <<sched, ledger, pending, snapshot>>
    <3>1. mem'[a] = [mem[a] EXCEPT !.pc = "capture", !.outcome = o]
      BY <2>1, UpdateValue
    <3> QED
      BY <1>27, <3>1, MemType DEF Memory, Execute, At
  <2>3. /\ sched[Job(a)].status = "running" /\ mem[a].sched = sched
        /\ mem[a].ledger = ledger /\ ran[Job(a)] = 0
    BY <2>2 DEF SerialInv, ActorInv, SchedSynced, LedgerSynced, CalmInv, CalmActor
  <2>4. \A j \in Jobs : /\ j # Job(a) => ran'[j] = ran[j]
                        /\ j = Job(a) => ran'[j] <= 1
    BY <2>1, <2>3, MemType DEF TypeOK
  <2>5. \A j \in Jobs : /\ Answered(sched, j) /\ Leased(ledger, sched, j)
                        /\ Recorded(sched, j) /\ Unrun(sched, j) /\ ran[j] <= 1
    BY <2>2, CalmStill
  <2>6. (\A j \in Jobs : /\ Answered(sched, j) /\ Leased(ledger, sched, j)
                         /\ Recorded(sched, j) /\ Unrun(sched, j) /\ ran[j] <= 1)'
    BY <2>2, <2>3, <2>4, <2>5 DEF Answered, Leased, Recorded, Unrun
  <2>7. mem'[a].sched = sched' /\ mem'[a].ledger = ledger'
    BY <2>2, <2>3
  <2>8. CalmActor(a)'
    BY <2>2, <2>6, <2>7 DEF CalmActor, PuttingAway
  <2> QED
    BY <2>6, <2>8, CalmOne DEF CalmDisk
<1>28. ASSUME NEW a \in Actors, Capture(a) PROVE CalmInv'
  <2> DEFINE s == TerminalOf(mem[a].outcome)
  <2>1. /\ mem'[a].pc = "done_sched" /\ mem'[a].file = mem[a].file
        /\ mem'[a].sched = MoveJob(mem[a].sched, Job(a), s, "processed")
        /\ mem'[a].ledger = AckJob(mem[a].ledger, Job(a))
        /\ mem[a].pc = "capture"
        /\ UNCHANGED <<sched, ledger, pending, ran>>
    BY <1>28, UpdateValue, MemType DEF Capture, Memory, At
  <2>2. \A j \in Jobs \ {Job(a)} : snapshot'[j] = snapshot[j]
    BY <1>28 DEF Capture, WriteSnapshot, TypeOK
  <2>3. /\ mem[a].sched[Job(a)].status = "running"
        /\ mem[a].sched = sched /\ mem[a].ledger = ledger
    BY <2>1 DEF SerialInv, ActorInv, SchedSynced, LedgerSynced
  <2>4. s \in TerminalStatus
    BY DEF TerminalOf, TerminalStatus
  <2> HIDE DEF s
  <2>5. /\ mem'[a].sched[Job(a)].status = s
        /\ \A j \in Jobs \ {Job(a)} : mem'[a].sched[j].status = sched[j].status
    <3>1. CanTransition(mem[a].sched, Job(a), s)
      BY <2>3, <2>4 DEF CanTransition, ValidTransitions, TerminalStatus
    <3>2. /\ s \in JobStatus /\ "processed" \in Buckets
          /\ mem[a].sched \in SchedulerState /\ Job(a) \in Jobs
      BY <2>4, MemType DEF JobStatus, Buckets, TerminalStatus
    <3> QED
      BY <2>1, <2>3, <3>1, <3>2, MoveJobAt
  <2>6. /\ mem'[a].ledger[Job(a)].state # "reserved"
        /\ \A j \in Jobs \ {Job(a)} : mem'[a].ledger[j] = ledger[j]
    BY <2>1, <2>3, MemType DEF AckJob, ReservationLedger, JobReservation
  <2>7. \A j \in Jobs : /\ Answered(sched, j) /\ Leased(ledger, sched, j)
                        /\ Recorded(sched, j) /\ Unrun(sched, j) /\ ran[j] <= 1
    BY <2>1, CalmStill
  <2>8. Job(a)' = Job(a)
    BY <2>1 DEF Job
  <2>9. (\A j \in Jobs : /\ Answered(sched, j) \/ j = Job(a)
                         /\ Leased(ledger, sched, j)
                         /\ Recorded(sched, j) /\ Unrun(sched, j) /\ ran[j] <= 1)'
    BY <2>1, <2>2, <2>7, <2>8 DEF Answered, Leased, Recorded, Unrun
  <2>10. (\A j \in Jobs : /\ Recorded(mem[a].sched, j) /\ Unrun(mem[a].sched, j)
                          /\ Answered(mem[a].sched, j)
                          /\ Leased(mem[a].ledger, mem[a].sched, j)
                          /\ Leased(ledger, mem[a].sched, j) \/ j = Job(a))'
    BY <2>1, <2>2, <2>4, <2>5, <2>6, <2>7, <2>8
       DEF Recorded, Unrun, Answered, Leased, InFlightStatus, TerminalStatus
  <2>11. CalmActor(a)'
    BY <2>1, <2>4, <2>5, <2>8, <2>9, <2>10 DEF CalmActor
  <2> QED
    BY <2>9, <2>11, CalmOne DEF CalmDisk
<1>29. ASSUME NEW a \in Actors, RecordStale(a) PROVE CalmInv'
  <2>1. PICK f \in mem[a].todo :
          /\ Takes(a, f) /\ mem[a].sched[f.job].status \in TerminalStatus
          /\ Update(a, Popped(a, f, "rec_move"))
    BY <1>29 DEF RecordStale
  <2>2. /\ mem'[a].pc = "rec_move" /\ mem'[a].ledger = mem[a].ledger
        /\ mem'[a].sched = mem[a].sched /\ mem'[a].file = f /\ mem[a].pc = "next"
        /\ UNCHANGED <<sched, ledger, pending, snapshot, ran>>
    <3>1. mem'[a] = Popped(a, f, "rec_move")
      BY <2>1, UpdateValue
    <3>2. /\ mem'[a].pc = "rec_move" /\ mem'[a].ledger = mem[a].ledger
          /\ mem'[a].sched = mem[a].sched /\ mem'[a].file = f
      BY <3>1, MemType DEF Popped, Memory
    <3> QED
      BY <1>29, <2>1, <3>2 DEF RecordStale, Takes, At
  <2>3. mem[a].sched = sched /\ mem[a].ledger = ledger
    BY <2>2 DEF SerialInv, ActorInv, SchedSynced, LedgerSynced
  <2>4. /\ CalmDisk'
        /\ (\A j \in Jobs : Answered(sched, j) /\ Leased(ledger, sched, j))'
    BY <2>2, CalmStill
  <2>5. mem'[a].sched = sched' /\ mem'[a].ledger = ledger'
    BY <2>2, <2>3
  <2>6. mem'[a].sched[Job(a)'].status \in TerminalStatus
    BY <2>1, <2>2 DEF Job
  <2>7. CalmActor(a)'
    BY <2>2, <2>4, <2>5, <2>6 DEF CalmActor, CalmDisk
  <2> QED
    BY <2>4, <2>7, CalmOne
<1>30. ASSUME NEW a \in Actors, RecordReserved(a) PROVE CalmInv'
  <2>1. PICK f \in mem[a].todo :
          /\ Takes(a, f) /\ f \in pending
          /\ Update(a, [Popped(a, f, "skip_sched") EXCEPT
                !.sched = SetBucket(WithJob(@, f.job), f.job, "reserved")])
    BY <1>30 DEF RecordReserved
  <2>2. f.job \in Jobs
    BY MemType DEF QueueFile
  <2>3. /\ mem'[a].pc = "skip_sched" /\ mem'[a].ledger = mem[a].ledger
        /\ mem'[a].sched = SetBucket(WithJob(mem[a].sched, f.job), f.job, "reserved")
        /\ mem[a].pc = "next"
        /\ UNCHANGED <<sched, ledger, pending, snapshot, ran>>
    <3> DEFINE m == Popped(a, f, "skip_sched")
    <3>1. m \in Memory
      BY <2>1, PoppedType DEF PC
    <3>2. m.pc = "skip_sched" /\ m.ledger = mem[a].ledger /\ m.sched = mem[a].sched
      BY <3>1, MemType DEF Popped, Memory
    <3>3. mem'[a] = [m EXCEPT !.sched = SetBucket(WithJob(@, f.job), f.job, "reserved")]
      BY <2>1, UpdateValue
    <3> HIDE DEF m
    <3> QED
      BY <1>30, <2>1, <3>1, <3>2, <3>3 DEF RecordReserved, Takes, Memory, At
  <2>4. mem[a].sched = sched /\ mem[a].ledger = ledger
    BY <2>3 DEF SerialInv, ActorInv, SchedSynced, LedgerSynced
  <2>5. /\ CalmDisk'
        /\ (\A j \in Jobs : Answered(sched, j) /\ Leased(ledger, sched, j))'
    BY <2>3, CalmStill
  <2>6. \A j \in Jobs : mem'[a].sched[j].status =
          IF j = f.job /\ sched[f.job].status = "absent"
          THEN "queued" ELSE sched[j].status
    BY <2>2, <2>3, <2>4, WithJobAt, MemType
  <2>7. \E g \in pending' : g.job = f.job
    BY <2>1, <2>3
  <2>8. (\A j \in Jobs : /\ Recorded(mem[a].sched, j) /\ Unrun(mem[a].sched, j)
                         /\ Answered(mem[a].sched, j)
                         /\ Leased(ledger, mem[a].sched, j)
                         /\ Leased(mem[a].ledger, mem[a].sched, j))'
    BY <2>3, <2>4, <2>5, <2>6, <2>7
       DEF CalmDisk, Recorded, Unrun, Answered, Leased, TerminalStatus
  <2>9. CalmActor(a)'
    BY <2>3, <2>5, <2>8 DEF CalmActor, PuttingAway
  <2> QED
    BY <2>5, <2>9, CalmOne
<1>31. ASSUME NEW a \in Actors, Reserve(a) PROVE CalmInv'
  <2>1. PICK f \in mem[a].todo :
          /\ Takes(a, f) /\ f \in pending
          /\ CanTransition(WithJob(mem[a].sched, f.job), f.job, "reserved")
          /\ Update(a, [Popped(a, f, "resv_sched") EXCEPT
                !.ledger = ReserveJob(@, f.job, clock),
                !.sched = MoveJob(WithJob(@, f.job), f.job,
                                  "reserved", "reserved")])
    BY <1>31 DEF Reserve
  <2> DEFINE t == WithJob(mem[a].sched, f.job)
  <2>2. f.job \in Jobs /\ t \in SchedulerState
    BY MemType, WithJobType DEF QueueFile
  <2>3. /\ mem'[a].pc = "resv_sched" /\ mem[a].pc = "next"
        /\ mem'[a].sched = MoveJob(t, f.job, "reserved", "reserved")
        /\ mem'[a].ledger = ReserveJob(mem[a].ledger, f.job, clock)
        /\ UNCHANGED <<sched, ledger, pending, snapshot, ran>>
    <3> DEFINE m == Popped(a, f, "resv_sched")
    <3>1. m \in Memory
      BY <2>1, PoppedType DEF PC
    <3>2. m.pc = "resv_sched" /\ m.ledger = mem[a].ledger /\ m.sched = mem[a].sched
      BY <3>1, MemType DEF Popped, Memory
    <3>3. mem'[a] = [m EXCEPT !.ledger = ReserveJob(@, f.job, clock),
                              !.sched = MoveJob(WithJob(@, f.job), f.job,
                                                "reserved", "reserved")]
      BY <2>1, UpdateValue
    <3> HIDE DEF m
    <3> QED
      BY <1>31, <2>1, <3>1, <3>2, <3>3 DEF Reserve, Takes, Memory, At
  <2>4. mem[a].sched = sched /\ mem[a].ledger = ledger
    BY <2>3 DEF SerialInv, ActorInv, SchedSynced, LedgerSynced
  <2>5. /\ CalmDisk'
        /\ (\A j \in Jobs : Answered(sched, j) /\ Leased(ledger, sched, j))'
    BY <2>3, CalmStill
  <2>6. /\ sched[f.job].status \in {"absent", "queued"}
        /\ \A j \in Jobs \ {f.job} : t[j].status = sched[j].status
    <3>1. \A j \in Jobs : t[j].status = IF j = f.job /\ sched[f.job].status = "absent"
                                        THEN "queued" ELSE sched[j].status
      BY <2>2, <2>4, WithJobAt, MemType
    <3>2. "reserved" \in ValidTransitions(t[f.job].status)
      BY <2>1 DEF CanTransition
    <3>3. t[f.job].status = "queued"
      BY <2>2, <3>2 DEF ValidTransitions, SchedulerState, SchedulerJob, JobStatus
    <3> QED
      BY <2>2, <3>1, <3>3
  <2>7. CanTransition(t, f.job, "reserved")
    BY <2>1
  <2> HIDE DEF t
  <2>8. /\ mem'[a].sched[f.job].status = "reserved"
        /\ \A j \in Jobs \ {f.job} : mem'[a].sched[j].status = sched[j].status
    BY <2>2, <2>3, <2>6, <2>7, MoveJobAt DEF JobStatus, Buckets
  <2>9. \A j \in Jobs \ {f.job} : mem'[a].ledger[j] = ledger[j]
    BY <2>3, <2>4, MemType DEF ReserveJob, ReservationLedger, JobReservation
  <2>10. \E g \in pending' : g.job = f.job
    BY <2>1, <2>3
  <2>11. (\A j \in Jobs : /\ Recorded(mem[a].sched, j) /\ Unrun(mem[a].sched, j)
                          /\ Answered(mem[a].sched, j)
                          /\ Leased(ledger, mem[a].sched, j)
                          /\ Leased(mem[a].ledger, mem[a].sched, j))'
    BY <2>2, <2>3, <2>5, <2>6, <2>8, <2>9, <2>10
       DEF CalmDisk, Recorded, Unrun, Answered, Leased, TerminalStatus
  <2>12. CalmActor(a)'
    BY <2>3, <2>5, <2>11 DEF CalmActor, PuttingAway
  <2> QED
    BY <2>5, <2>12, CalmOne
<1>32. ASSUME NEW a \in Actors, NEW k \in Jobs, QueueAck(a, k) PROVE CalmInv'
  BY <1>32 DEF QueueAck, CalmInv, CalmDisk, CalmActor, Job,
       Answered, Leased, Recorded, Unrun
<1>33. CASE Tick
  BY <1>33 DEF Tick, CalmInv, CalmDisk, CalmActor, Job, Answered, Leased,
       Recorded, Unrun
<1>34. CASE UNCHANGED vars
  BY <1>34 DEF vars, CalmInv, CalmDisk, CalmActor, Job, Answered, Leased,
       Recorded, Unrun
<1>35. QED
  BY <1>1, <1>2, <1>3, <1>4, <1>5, <1>6, <1>7, <1>8, <1>9, <1>10, <1>11,
     <1>12, <1>13, <1>14, <1>15, <1>16, <1>17, <1>18, <1>19, <1>20, <1>21,
     <1>22, <1>23, <1>24, <1>25, <1>26, <1>27, <1>28, <1>29, <1>30, <1>31,
     <1>32, <1>33, <1>34
  DEF Next, ActorStep, EnqueueStep, PassStep

\* The invariant holds in every behaviour of one process that does not die.
LEMMA CalmCorrect == SingleActor /\ NoCrash => (Spec => []CalmInv)
<1> SUFFICES ASSUME SingleActor, NoCrash PROVE Spec => []CalmInv
  OBVIOUS
<1>1. Init => CalmInv
  BY DEF Init, CalmInv, CalmDisk, CalmActor, Job, IdleMem, EmptyScheduler, EmptyLedger,
         Loaded, Unsaved, Holding, PuttingAway, Answered, Leased, Recorded, Unrun,
         Acknowledgeable, InFlightStatus
<1>2. TypeOK /\ SerialInv /\ CalmInv /\ [Next]_vars => CalmInv'
  BY CalmNext
<1>3. Spec => []SerialInv
  BY SerialCorrect
<1> QED
  BY <1>1, <1>2, <1>3, TypeCorrect, PTL DEF Spec

\* One process that does not die runs the worker of a job at most once for each time
\* the job is enqueued: whatever is still to be reserved has not run.
THEOREM RunsAtMostOnce == SingleActor /\ NoCrash => (Spec => []RunsOnce)
<1> SUFFICES ASSUME SingleActor, NoCrash PROVE Spec => []RunsOnce
  OBVIOUS
<1>1. CalmInv => RunsOnce
  BY DEF CalmInv, CalmDisk, RunsOnce
<1>2. Spec => []CalmInv
  BY CalmCorrect
<1> QED
  BY <1>1, <1>2, PTL

\* Under one process that does not die, a job the scheduler calls queued, reserved,
\* running or suspended has a record in pending/: enqueue_action writes the record
\* before the table, and a pass moves it after the table.
THEOREM NoneIsStranded == SingleActor /\ NoCrash => (Spec => []InFlightHasRecord)
<1> SUFFICES ASSUME SingleActor, NoCrash PROVE Spec => []InFlightHasRecord
  OBVIOUS
<1>1. CalmInv => InFlightHasRecord
  BY DEF CalmInv, CalmDisk, Recorded, InFlightHasRecord
<1>2. Spec => []CalmInv
  BY CalmCorrect
<1> QED
  BY <1>1, <1>2, PTL

\* One process that does not die acknowledges a job only after the scheduler table on
\* disk calls it over, in a pass as on request.
THEOREM AckComesAfter == SingleActor /\ NoCrash => (Spec => AckAfterTerminal)
<1> SUFFICES ASSUME SingleActor, NoCrash PROVE Spec => AckAfterTerminal
  OBVIOUS
<1> DEFINE Over == \A j \in Jobs : acks'[j] # acks[j] => sched[j].status \in TerminalStatus
<1>1. TypeOK /\ SerialInv /\ CalmInv /\ [Next]_vars => Over
  <2> SUFFICES ASSUME TypeOK, SerialInv, CalmInv, [Next]_vars,
                      NEW j \in Jobs, acks'[j] # acks[j]
               PROVE  sched[j].status \in TerminalStatus
    OBVIOUS
  <2>1. ASSUME NEW a \in Actors, ActorStep(a) PROVE WriteAck(a)
    BY <2>1, Zenon DEF ActorStep, EnqueueStep, PassStep, EnqueueReuse, EnqueueWrite,
           EnqueueSave, EnqueueSnapshot, CancelSave, CollectPending, LoadSched,
           LoadLedger, SaveSched, SaveLedger, PassEnds, RecordVanished, RecordStale,
           RecordReserved, Reserve, ReserveRefused, PrepareFails, MarkRunning, Execute,
           Capture, CaptureFails, DoneMove, FailWrite, FailRemove, ReconcileMove,
           MoveFails, SaveSnapshot, disk
  <2>2. ASSUME NEW a \in Actors, NEW k \in Jobs,
               Crash(a) \/ EnqueueLoad(a, k) \/ CancelLoad(a, k)
        PROVE  FALSE
    BY <2>2 DEF Crash, EnqueueLoad, CancelLoad, disk
  <2>3. ASSUME Tick \/ UNCHANGED vars PROVE FALSE
    BY <2>3 DEF Tick, vars, disk
  <2>4. ASSUME NEW a \in Actors, WriteAck(a) PROVE sched[j].status \in TerminalStatus
    <3>1. mem[a].pc \in {"done_ack", "fail_ack", "rec_ack"} /\ j = Job(a)
      BY <2>4 DEF WriteAck, TypeOK
    <3> QED
      BY <3>1, CalmAway DEF PuttingAway, SchedSynced
  <2>5. ASSUME NEW a \in Actors, NEW k \in Jobs, QueueAck(a, k)
        PROVE  sched[j].status \in TerminalStatus
    <3>1. j = k /\ snapshot[j].status \in Acknowledgeable /\ mem[a].pc = "idle"
      BY <2>5 DEF QueueAck, At, TypeOK
    <3>2. Answered(sched, j)
      BY <3>1, CalmStill
    <3> QED
      BY <3>1, <3>2 DEF Answered
  <2> QED
    BY <2>1, <2>2, <2>3, <2>4, <2>5 DEF Next
<1>2. Spec => []SerialInv
  BY SerialCorrect
<1>3. Spec => []CalmInv
  BY CalmCorrect
<1> QED
  BY <1>1, <1>2, <1>3, TypeCorrect, PTL DEF Spec, AckAfterTerminal
=============================================================================
