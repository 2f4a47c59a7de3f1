---------------------------- MODULE SupervisorLoops ----------------------------
(***************************************************************************)
(* The loops around the supervisor's pass: the daemon, the watch and       *)
(* `loom queue run-until-empty`.  The pass itself is QueueRuntime's; here  *)
(* it finishes some of the pending records, or ends in Err after some.     *)
(* What is modelled is what the loops write and read between the passes:   *)
(* the heartbeat log, which every writer reads whole and writes whole, the *)
(* status file, the daemon's state file and the stop request.  Nothing     *)
(* keeps two loops from running at once, and a process may die anywhere.   *)
(***************************************************************************)
EXTENDS Integers, Sequences, FiniteSets

CONSTANTS Procs,            \* processes, each of which runs one loop
          None,
          MaxPasses,        \* max_iterations, iterations, max_passes
          MaxJobs,          \* max_jobs of a pass
          MaxRecords,       \* bound: records ever enqueued
          MaxCrashes        \* bound

\* What the status file and the daemon's state file hold.
Report == [who : Procs, done : 0 .. MaxPasses, total : Nat]
Statement == [who : Procs, running : BOOLEAN, done : 0 .. MaxPasses, total : Nat]

LoopsAssumption ==
    /\ None \notin Procs \cup Report \cup Statement
    /\ MaxPasses \in Nat \ {0} /\ MaxJobs \in Nat \ {0}
    /\ {MaxRecords, MaxCrashes} \subseteq Nat

VARIABLES
    pending, finished,  \* how many records are in queue/pending; in processed or failed
    heartbeats,         \* heartbeat.jsonl: who wrote the line, and what its pass did
    status,             \* status.json: the last writer, its passes and its total
    daemon,             \* runtime_state.json
    stop,               \* BOOLEAN: stop.requested exists
    loop,               \* [Procs -> Loop]: the processes
    crashes,
    did,                \* ghost: what the passes of each process did
    late,               \* ghost: passes begun after a request to stop, by process
    mixed,              \* ghost: processes that ran beside another
    emptied,            \* ghost: processes in whose time the queue was empty
    cut                 \* ghost: processes that had run when a write of the log broke off

loopVars == <<pending, finished, heartbeats, status, daemon, stop, loop, crashes,
              did, late, mixed, emptied, cut>>

Off == [kind |-> "none", pc |-> "off", done |-> 0, total |-> 0, run |-> 0,
        seen |-> <<>>, left |-> 0]
Steps == {"off", "boot", "first", "check", "pass", "read", "append", "status", "state",
          "final", "clear", "initial", "count", "left", "ended", "dead"}
Line == [who : Procs, did : 0 .. MaxJobs]
Loop == [kind : {"none", "daemon", "watch", "drain"}, pc : Steps, done : 0 .. MaxPasses,
         total : Nat, run : 0 .. MaxJobs, seen : Seq(Line), left : Nat]

TypeOK ==
    /\ pending \in 0 .. MaxRecords /\ finished \in 0 .. MaxRecords
    /\ heartbeats \in Seq(Line) /\ status \in Report \cup {None}
    /\ daemon \in Statement \cup {None}
    /\ stop \in BOOLEAN /\ \A p \in Procs : loop[p] \in Loop
    /\ did \in [Procs -> Nat] /\ late \in [Procs -> Nat]
    /\ mixed \subseteq Procs /\ emptied \subseteq Procs /\ cut \subseteq Procs

Active(p) == loop[p].pc \notin {"off", "ended", "dead"}
Actives == {p \in Procs : Active(p)}
In(p, pc) == loop[p].pc = pc
To(p, pc) == loop' = [loop EXCEPT ![p].pc = pc]

\* A process that is over leaves only its answer.
Over(p, pc) == [Off EXCEPT !.kind = loop[p].kind, !.pc = pc,
                           !.left = IF pc = "ended" THEN loop[p].left ELSE 0]

\* Every process that runs while the queue is empty has met it empty.
Queue(left, done) ==
    /\ pending' = left /\ finished' = done
    /\ emptied' = emptied \cup IF left = 0 THEN Actives ELSE {}

ghosts == <<did, late, mixed, emptied, cut>>

----------------------------------------------------------------------------
\* A process starts; what it does first is its loop's.
Start(p) ==
    /\ In(p, "off")
    /\ \E kind \in {"daemon", "watch", "drain"} :
        loop' = [loop EXCEPT ![p] = [Off EXCEPT !.kind = kind,
            !.pc = CASE kind = "daemon" -> "boot" [] kind = "watch" -> "pass"
                     [] kind = "drain" -> "initial"]]
    /\ mixed' = mixed \cup IF Actives = {} THEN {} ELSE Actives \cup {p}
    /\ emptied' = emptied \cup IF pending = 0 THEN {p} ELSE {}
    /\ UNCHANGED <<pending, finished, heartbeats, status, daemon, stop, crashes,
                   did, late, cut>>

\* An earlier stop request is removed before the loop is reported as running.
Boot(p) ==
    /\ In(p, "boot")
    /\ To(p, "first")
    /\ stop' = FALSE
    /\ UNCHANGED <<pending, finished, heartbeats, status, daemon, crashes, ghosts>>

\* write_supervisor_runtime_state, with the counts the process has
Says(p, running) ==
    daemon' = [who |-> p, running |-> running, done |-> loop[p].done, total |-> loop[p].total]

Booted(p) ==
    /\ In(p, "first")
    /\ To(p, "check")
    /\ Says(p, TRUE)
    /\ UNCHANGED <<pending, finished, heartbeats, status, stop, crashes, ghosts>>

CheckNever(p) ==
    /\ In(p, "check")
    /\ To(p, "pass")
    /\ UNCHANGED <<pending, finished, heartbeats, status, daemon, stop, crashes, ghosts>>

Check(p) ==
    /\ In(p, "check")
    /\ To(p, IF stop THEN "final" ELSE "pass")
    /\ UNCHANGED <<pending, finished, heartbeats, status, daemon, stop, crashes, ghosts>>

\* run_supervisor: up to max_jobs records; an Err ends the process, and what the
\* pass had finished by then is told by nobody.
Pass(p) == \E n \in 0 .. MaxJobs, ok \in BOOLEAN :
    /\ In(p, "pass") /\ n <= pending
    /\ Queue(pending - n, finished + n)
    /\ loop' = [loop EXCEPT ![p] =
            IF ~ok THEN Over(p, "dead")
            ELSE IF @.kind = "drain" THEN [@ EXCEPT !.pc = "left"]
            ELSE [@ EXCEPT !.pc = "read", !.run = n, !.total = loop[p].total + n,
                           !.done = loop[p].done + 1]]
    /\ did' = [did EXCEPT ![p] = @ + n]
    /\ late' = [late EXCEPT ![p] = IF stop THEN @ + 1 ELSE @]
    /\ UNCHANGED <<heartbeats, status, daemon, stop, crashes, mixed, cut>>

\* append_line: the log is read whole, which finds nothing while another process's
\* write of it has only emptied the file, and written whole with the new line.
ReadLog(p) ==
    /\ In(p, "read")
    /\ \E lines \in {heartbeats} \cup IF \E q \in Procs : In(q, "append") THEN {<<>>} ELSE {} :
        loop' = [loop EXCEPT ![p].pc = "append", ![p].seen = lines]
    /\ UNCHANGED <<pending, finished, heartbeats, status, daemon, stop, crashes, ghosts>>

AppendTotal(p) ==
    /\ In(p, "append")
    /\ heartbeats' = Append(loop[p].seen, [who |-> p, did |-> loop[p].total])
    /\ loop' = [loop EXCEPT ![p].pc = "status", ![p].seen = <<>>, ![p].run = 0]
    /\ UNCHANGED <<pending, finished, status, daemon, stop, crashes, ghosts>>

AppendLine(p) ==
    /\ In(p, "append")
    /\ heartbeats' = Append(loop[p].seen, [who |-> p, did |-> loop[p].run])
    /\ loop' = [loop EXCEPT ![p].pc = "status", ![p].seen = <<>>, ![p].run = 0]
    /\ UNCHANGED <<pending, finished, status, daemon, stop, crashes, ghosts>>

\* A watch then goes round, after a sleep, or has made its passes.
WriteStatus(p) ==
    /\ In(p, "status")
    /\ status' = [who |-> p, done |-> loop[p].done, total |-> loop[p].total]
    /\ CASE loop[p].kind = "daemon" -> To(p, "state")
         [] loop[p].kind = "watch" /\ loop[p].done < MaxPasses -> To(p, "pass")
         [] OTHER -> loop' = [loop EXCEPT ![p] = Over(p, "ended")]
    /\ UNCHANGED <<pending, finished, heartbeats, daemon, stop, crashes, ghosts>>

\* ... and so does a daemon.
WriteState(p) ==
    /\ In(p, "state")
    /\ Says(p, TRUE)
    /\ To(p, IF loop[p].done < MaxPasses THEN "check" ELSE "final")
    /\ UNCHANGED <<pending, finished, heartbeats, status, stop, crashes, ghosts>>

FinalUnsaid(p) ==
    /\ In(p, "final")
    /\ To(p, "clear")
    /\ UNCHANGED <<pending, finished, heartbeats, status, daemon, stop, crashes, ghosts>>

Final(p) ==
    /\ In(p, "final")
    /\ Says(p, FALSE)
    /\ To(p, "clear")
    /\ UNCHANGED <<pending, finished, heartbeats, status, stop, crashes, ghosts>>

\* The stop request is removed last, whoever it was meant for.
Clear(p) ==
    /\ In(p, "clear")
    /\ stop' = FALSE
    /\ loop' = [loop EXCEPT ![p] = Over(p, "ended")]
    /\ UNCHANGED <<pending, finished, heartbeats, status, daemon, crashes, ghosts>>

\* run_queue_until_empty: the pending records are counted at first, before each
\* pass ...
Initial(p) ==
    /\ In(p, "initial")
    /\ loop' = [loop EXCEPT ![p].left = pending,
                            ![p].pc = IF pending = 0 THEN "ended" ELSE "count"]
    /\ UNCHANGED <<pending, finished, heartbeats, status, daemon, stop, crashes, ghosts>>

Count(p) ==
    /\ In(p, "count")
    /\ IF pending = 0 \/ loop[p].done = MaxPasses
       THEN loop' = [loop EXCEPT ![p] = Over(p, "ended")]
       ELSE To(p, "pass")
    /\ UNCHANGED <<pending, finished, heartbeats, status, daemon, stop, crashes, ghosts>>

LeftCounted(p) ==
    /\ In(p, "left")
    /\ loop' = [loop EXCEPT ![p].left = IF @ < MaxJobs THEN 0 ELSE @ - MaxJobs,
                            ![p].done = @ + 1,
                            ![p].pc = IF loop[p].left <= MaxJobs THEN "ended" ELSE "count"]
    /\ UNCHANGED <<pending, finished, heartbeats, status, daemon, stop, crashes, ghosts>>

\* ... and after it; the first count or the last after a pass is what the command
\* answers by.
Left(p) ==
    /\ In(p, "left")
    /\ loop' = [loop EXCEPT ![p].left = pending, ![p].done = @ + 1,
                            ![p].pc = IF pending = 0 THEN "ended" ELSE "count"]
    /\ UNCHANGED <<pending, finished, heartbeats, status, daemon, stop, crashes, ghosts>>

\* The answer of a drain that has ended.
Drained(p) == loop[p].kind = "drain" /\ In(p, "ended") /\ loop[p].left = 0

\* `loom supervisor daemon stop`; what the late passes are counted from.
Stop ==
    /\ ~stop /\ stop' = TRUE
    /\ late' = [p \in Procs |-> 0]
    /\ UNCHANGED <<pending, finished, heartbeats, status, daemon, loop, crashes,
                   did, mixed, emptied, cut>>

\* Another process enqueues.
Enqueue ==
    /\ pending + finished < MaxRecords
    /\ Queue(pending + 1, finished)
    /\ UNCHANGED <<heartbeats, status, daemon, stop, loop, crashes, did, late, mixed, cut>>

\* A death in the write of the log leaves it empty.
Crash(p) ==
    /\ Active(p) /\ crashes < MaxCrashes
    /\ crashes' = crashes + 1
    /\ loop' = [loop EXCEPT ![p] = Over(p, "dead")]
    /\ \/ UNCHANGED <<heartbeats, cut>>
       \/ /\ In(p, "append") /\ heartbeats' = <<>>
          /\ cut' = {q \in Procs : ~In(q, "off")}
    /\ UNCHANGED <<pending, finished, status, daemon, stop, did, late, mixed, emptied>>

\* What `loom supervisor daemon status` calls running: the file's word, if the
\* process it names is there.
ReportedRunning(p) == daemon # None /\ daemon.who = p /\ daemon.running /\ Active(p)

----------------------------------------------------------------------------
Init ==
    /\ pending \in 0 .. MaxRecords /\ finished = 0
    /\ heartbeats = <<>> /\ status = None /\ daemon = None /\ stop = FALSE
    /\ loop = [p \in Procs |-> Off] /\ crashes = 0
    /\ did = [p \in Procs |-> 0] /\ late = did
    /\ mixed = {} /\ emptied = {} /\ cut = {}

Next ==
    \/ \E p \in Procs :
        \/ Start(p) \/ Boot(p) \/ Booted(p) \/ Check(p) \/ Pass(p)
        \/ ReadLog(p) \/ AppendLine(p) \/ WriteStatus(p) \/ WriteState(p)
        \/ Final(p) \/ Clear(p) \/ Initial(p) \/ Count(p) \/ Left(p) \/ Crash(p)
    \/ Stop \/ Enqueue

Spec == Init /\ [][Next]_loopVars

----------------------------------------------------------------------------
(* Properties.                                                             *)

\* The lines of a process in a log, and how many records they tell of.
LinesOf(lines, p) == {i \in DOMAIN lines : lines[i].who = p}
ToldOf(lines, p) == Cardinality(UNION {{i} \X (1 .. lines[i].did) : i \in LinesOf(lines, p)})

\* The heartbeats of a process never tell of more than its passes did, whoever else
\* writes the log; and while it had the log to itself, and no write of the log has
\* broken off since it began, they tell of every pass its status and its state count.
HeartbeatsTell ==
    /\ \A p \in Procs : ToldOf(heartbeats, p) <= did[p]
    /\ \A r \in {status, daemon} \ {None} : mixed = {} /\ r.who \notin cut =>
            /\ r.done <= Cardinality(LinesOf(heartbeats, r.who))
            /\ r.total <= ToldOf(heartbeats, r.who)

\* After a request to stop, a daemon that runs alone and is past its boot begins at
\* most the pass it had already decided on.
StopEndsLoop == \A p \in Procs \ mixed : loop[p].kind = "daemon" => late[p] <= 1

\* A daemon reported as running is between its boot and its end; one alone is
\* reported so all that time, and once it has ended it is reported stopped with
\* all its passes counted.
DaemonIsReported == \A p \in Procs :
    LET between == loop[p].pc \in {"check", "pass", "read", "append", "status", "state",
                                   "final"}
    IN  /\ ReportedRunning(p) => loop[p].kind = "daemon" /\ between
        /\ p \notin mixed /\ loop[p].kind = "daemon" /\ between => ReportedRunning(p)
        /\ p \notin mixed /\ loop[p].kind = "daemon" /\ In(p, "ended") /\ daemon.who = p =>
            ~daemon.running /\ daemon.total = did[p]

\* A drain answers that it drained the queue only if the queue was empty at some
\* moment while it ran.
DrainedWasEmpty == \A p \in Procs : Drained(p) => p \in emptied
================================================================================
