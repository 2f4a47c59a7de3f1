-------------------------- MODULE ServiceLifecycle --------------------------
(***************************************************************************)
(* How the runtime service starts, runs and stops: `loom start`,           *)
(* `loom restart`, `loom stop` and run_runtime_service_loop.               *)
(*                                                                         *)
(* The processes share the files of run/service/ (runtime_state.json,      *)
(* service.lock, stop.requested), the socket file and the HTTP port.  Each *)
(* access to one of them is a step; processes interleave and may die       *)
(* between any two.                                                        *)
(*                                                                         *)
(* Abstracted: what an iteration does for the queue (QueueRuntime) and the *)
(* counters the state file carries.  A background start has its status     *)
(* check made by the command and the rest by the child it spawns; they are *)
(* one process here, since the pid matters from the boot on.               *)
(***************************************************************************)
EXTENDS Naturals

CONSTANTS
    Pids,           \* process ids
    Commands,       \* how a process is launched: subset of Launches
    Serial,         \* TRUE: no command is given while another one is booting
    FreshPids,      \* TRUE: a new process has a pid no leftover file names
    HttpEnabled,    \* TRUE: --http-address is given
    Tokened,        \* the processes that are given a service token
    MaxIterations,  \* iterations of the loop; 0 is "no limit"
    MaxOps,         \* bound: launches and stop requests
    MaxCrashes      \* bound: deaths

Launches == {"start", "restart", "boot_stop"}

ASSUME PidsAssumption == Pids \subseteq Nat \ {0}
ASSUME CommandsAssumption == Commands \subseteq Launches
ASSUME FlagsAssumption ==
    /\ Serial \in BOOLEAN /\ FreshPids \in BOOLEAN
    /\ HttpEnabled \in BOOLEAN /\ Tokened \subseteq Pids
ASSUME BoundsAssumption ==
    MaxIterations \in Nat /\ MaxOps \in Nat /\ MaxCrashes \in Nat

VARIABLES
    pc,         \* where each process is; "dead": no such process
    stopping,   \* stop_reason is "stop_requested"
    listening,  \* listener is Some: the process holds a bound socket
    iter,       \* iterations_completed
    stopFile,   \* stop.requested exists
    lock,       \* the pid in service.lock; 0: no such file
    sock,       \* the process that bound the socket file; 0: no such file
    http,       \* the process that holds the HTTP port; 0: nobody
    state,      \* runtime_state.json
    ops, crashes

files == <<stopFile, lock, sock, http, state>>
vars  == <<pc, stopping, listening, iter, files, ops, crashes>>

Boot ==
    {"start", "restart", "await", "boot_stop", "boot_lock", "boot_unlock",
     "boot_sock", "boot_bind", "boot_lockw", "boot_state"}
Loop == {"loop", "serve"}
Down == {"down_sock", "down_state", "down_stop", "down_lock"}

PC == {"dead"} \cup Boot \cup Loop \cup Down

Alive(p) == pc[p] # "dead"

Goto(p, l) == pc' = [pc EXCEPT ![p] = l]

Init ==
    /\ pc = [p \in Pids |-> "dead"]
    /\ stopping = [p \in Pids |-> FALSE]
    /\ listening = [p \in Pids |-> FALSE]
    /\ iter = [p \in Pids |-> 0]
    /\ stopFile = FALSE /\ lock = 0 /\ sock = 0 /\ http = 0
    /\ state = [pid |-> 0, running |-> FALSE, http |-> FALSE]
    /\ ops = 0 /\ crashes = 0

-----------------------------------------------------------------------------
(* runtime_service_status *)

\* runtime_service_control_plane_alive: the recorded pid is in /proc, or the
\* recorded HTTP address or the socket answers, whoever is behind it.
ControlPlaneAlive ==
    \/ state.pid \in Pids /\ Alive(state.pid)
    \/ state.http /\ http # 0
    \/ sock \in Pids /\ listening[sock]

\* extract_json_bool finds a "true" anywhere after "running", and the file goes on with
\* http_token_required: with a token a service that has stopped is read as running.
RunningFlag == state.running \/ state.pid \in Tokened

Running == RunningFlag /\ ControlPlaneAlive

-----------------------------------------------------------------------------
(* The commands. *)

Request == ops < MaxOps /\ ops' = ops + 1

\* A process is launched by `loom start`, `loom restart` or `loom service loop`.
Launch(p) ==
    /\ ~Alive(p) /\ Request
    /\ Serial => \A q \in Pids : pc[q] \notin Boot
    /\ FreshPids => p \notin {lock, state.pid}
    /\ \E c \in Commands : Goto(p, c)
    /\ UNCHANGED <<stopping, listening, iter, files, crashes>>

\* request_runtime_service_stop: written whether or not a service runs.
RequestStop ==
    /\ Request
    /\ stopFile' = TRUE
    /\ UNCHANGED <<pc, stopping, listening, iter, lock, sock, http, state, crashes>>

\* handle_restart: a running service is asked to stop ...
RestartStop(p) ==
    /\ pc[p] = "restart"
    /\ IF Running
       THEN stopFile' = TRUE /\ Goto(p, "await")
       ELSE UNCHANGED stopFile /\ Goto(p, "start")
    /\ UNCHANGED <<stopping, listening, iter, lock, sock, http, state, ops, crashes>>

\* ... and waited for: the start follows when the service is no longer reported
\* running, or after forty polls.
RestartAwait(p) ==
    /\ pc[p] = "await"
    /\ Goto(p, "start")
    /\ UNCHANGED <<stopping, listening, iter, files, ops, crashes>>

\* The process ends; its listeners close and its socket file stays.
Exit(p) ==
    /\ Goto(p, "dead")
    /\ stopping' = [stopping EXCEPT ![p] = FALSE]
    /\ listening' = [listening EXCEPT ![p] = FALSE]
    /\ iter' = [iter EXCEPT ![p] = 0]
    /\ http' = IF http = p THEN 0 ELSE http

\* start_service_with_mode: a running service is reported and left alone.
Start(p) ==
    /\ pc[p] = "start"
    /\ IF Running
       THEN Exit(p)
       ELSE Goto(p, "boot_stop") /\ UNCHANGED <<stopping, listening, iter, http>>
    /\ UNCHANGED <<stopFile, lock, sock, state, ops, crashes>>

-----------------------------------------------------------------------------
(* run_runtime_service_loop: the boot. *)

BootRemoveStop(p) ==
    /\ pc[p] = "boot_stop"
    /\ stopFile' = FALSE
    /\ Goto(p, "boot_lock")
    /\ UNCHANGED <<stopping, listening, iter, lock, sock, http, state, ops, crashes>>

LockHeld == lock \in Pids /\ Alive(lock)

\* Mutant: the lock is taken for stale whoever holds it.
BootLockIgnored(p) ==
    /\ pc[p] = "boot_lock"
    /\ Goto(p, IF lock # 0 THEN "boot_unlock" ELSE "boot_sock")
    /\ UNCHANGED <<stopping, listening, iter, files, ops, crashes>>

\* Mutant: any lock turns the process away.
BootLockNeverStale(p) ==
    /\ pc[p] = "boot_lock"
    /\ IF lock # 0
       THEN Exit(p)
       ELSE Goto(p, "boot_sock") /\ UNCHANGED <<stopping, listening, iter, http>>
    /\ UNCHANGED <<stopFile, lock, sock, state, ops, crashes>>

\* Err when the lock names a process that exists.
BootLock(p) ==
    /\ pc[p] = "boot_lock"
    /\ IF LockHeld
       THEN Exit(p)
       ELSE /\ Goto(p, IF lock # 0 THEN "boot_unlock" ELSE "boot_sock")
            /\ UNCHANGED <<stopping, listening, iter, http>>
    /\ UNCHANGED <<stopFile, lock, sock, state, ops, crashes>>

BootUnlock(p) ==
    /\ pc[p] = "boot_unlock"
    /\ lock' = 0
    /\ Goto(p, "boot_sock")
    /\ UNCHANGED <<stopping, listening, iter, stopFile, sock, http, state, ops,
                   crashes>>

BootRemoveSocket(p) ==
    /\ pc[p] = "boot_sock"
    /\ sock' = 0
    /\ Goto(p, "boot_bind")
    /\ UNCHANGED <<stopping, listening, iter, stopFile, lock, http, state, ops,
                   crashes>>

\* A bind that fails, on a path or port in use or for want of permission, leaves
\* the service without that listener.
BootBind(p) ==
    /\ pc[p] = "boot_bind"
    /\ \/ sock = 0 /\ sock' = p /\ listening' = [listening EXCEPT ![p] = TRUE]
       \/ UNCHANGED <<sock, listening>>
    /\ http' = IF HttpEnabled /\ http = 0 THEN p ELSE http
    /\ Goto(p, "boot_lockw")
    /\ UNCHANGED <<stopping, iter, stopFile, lock, state, ops, crashes>>

BootWriteLock(p) ==
    /\ pc[p] = "boot_lockw"
    /\ lock' = p
    /\ Goto(p, "boot_state")
    /\ UNCHANGED <<stopping, listening, iter, stopFile, sock, http, state, ops,
                   crashes>>

WriteState(p, running) ==
    state' = [pid |-> p, running |-> running, http |-> (http = p)]

BootWriteState(p) ==
    /\ pc[p] = "boot_state"
    /\ WriteState(p, TRUE)
    /\ Goto(p, "loop")
    /\ UNCHANGED <<stopping, listening, iter, stopFile, lock, sock, http, ops,
                   crashes>>

-----------------------------------------------------------------------------
(* The loop and the shutdown. *)

\* Mutant: the stop file is looked at when the service boots only.
LoopBlind(p) ==
    /\ pc[p] = "loop"
    /\ Goto(p, "serve")
    /\ UNCHANGED <<stopping, listening, iter, files, ops, crashes>>

LoopHead(p) ==
    /\ pc[p] = "loop"
    /\ Goto(p, IF stopFile THEN "down_sock" ELSE "serve")
    /\ stopping' = [stopping EXCEPT ![p] = @ \/ stopFile]
    /\ UNCHANGED <<listening, iter, files, ops, crashes>>

\* A "stop" request over the socket or HTTP.  A socket client that has gone
\* before the reply is written leaves the file only.
ServeStop(p) ==
    /\ pc[p] = "serve" /\ (sock = p \/ http = p) /\ Request
    /\ stopFile' = TRUE
    /\ \/ stopping' = [stopping EXCEPT ![p] = TRUE]
       \/ sock = p /\ UNCHANGED stopping
    /\ UNCHANGED <<pc, listening, iter, lock, sock, http, state, crashes>>

LastIteration(p) ==
    stopping[p] \/ (MaxIterations > 0 /\ iter[p] + 1 >= MaxIterations)

\* Other requests, file ingress, the commitment import and a supervisor pass are
\* served; then the state is written and the loop goes on or ends.
Iterate(p) ==
    /\ pc[p] = "serve"
    /\ WriteState(p, TRUE)
    /\ iter' = IF MaxIterations > 0 THEN [iter EXCEPT ![p] = @ + 1] ELSE iter
    /\ Goto(p, IF LastIteration(p) THEN "down_sock" ELSE "loop")
    /\ UNCHANGED <<stopping, listening, stopFile, lock, sock, http, ops, crashes>>

\* The listeners are dropped and the socket file removed, whose ever it is.
DownSocket(p) ==
    /\ pc[p] = "down_sock"
    /\ listening' = [listening EXCEPT ![p] = FALSE]
    /\ http' = IF http = p THEN 0 ELSE http
    /\ sock' = 0
    /\ Goto(p, "down_state")
    /\ UNCHANGED <<stopping, iter, stopFile, lock, state, ops, crashes>>

DownWriteState(p) ==
    /\ pc[p] = "down_state"
    /\ WriteState(p, FALSE)
    /\ Goto(p, "down_stop")
    /\ UNCHANGED <<stopping, listening, iter, stopFile, lock, sock, http, ops,
                   crashes>>

DownRemoveStop(p) ==
    /\ pc[p] = "down_stop"
    /\ stopFile' = FALSE
    /\ Goto(p, "down_lock")
    /\ UNCHANGED <<stopping, listening, iter, lock, sock, http, state, ops, crashes>>

\* The lock is removed, whose ever it is, and the process ends.
DownUnlock(p) ==
    /\ pc[p] = "down_lock"
    /\ lock' = 0
    /\ Exit(p)
    /\ UNCHANGED <<stopFile, sock, state, ops, crashes>>

\* The process is killed, or the loop returns an Err it met: a client that does
\* not finish its request in time, an HTTP handler's or run_supervisor's Err.
\* The files stay as they are.
Die(p) ==
    /\ Alive(p) /\ crashes < MaxCrashes
    /\ crashes' = crashes + 1
    /\ Exit(p)
    /\ UNCHANGED <<stopFile, lock, sock, state, ops>>

-----------------------------------------------------------------------------
Step(p) ==
    \/ RestartStop(p) \/ RestartAwait(p) \/ Start(p)
    \/ BootRemoveStop(p) \/ BootLock(p) \/ BootUnlock(p) \/ BootRemoveSocket(p)
    \/ BootBind(p) \/ BootWriteLock(p) \/ BootWriteState(p)
    \/ LoopHead(p) \/ Iterate(p)
    \/ DownSocket(p) \/ DownWriteState(p) \/ DownRemoveStop(p) \/ DownUnlock(p)

Next ==
    \/ \E p \in Pids : Launch(p) \/ Step(p) \/ ServeStop(p) \/ Die(p)
    \/ RequestStop

Spec == Init /\ [][Next]_vars

\* A process that has something to do does it in the end.
FairSpec == Spec /\ \A p \in Pids : WF_vars(Step(p))

-----------------------------------------------------------------------------
(* Properties. *)

\* Every file and every process's memory holds values of its kind.
TypeOK ==
    /\ pc \in [Pids -> PC]
    /\ stopping \in [Pids -> BOOLEAN]
    /\ listening \in [Pids -> BOOLEAN]
    /\ iter \in [Pids -> Nat]
    /\ stopFile \in BOOLEAN
    /\ lock \in Pids \cup {0} /\ sock \in Pids \cup {0} /\ http \in Pids \cup {0}
    /\ state \in [pid : Pids \cup {0}, running : BOOLEAN, http : BOOLEAN]
    /\ ops \in Nat /\ crashes \in Nat

\* Commands given one after another.  At most one process runs the service,
\* whatever died before and left its lock, state and socket behind (the lock
\* check of run_runtime_service_loop).
SoleService ==
    \A p, q \in Pids : pc[p] \in Loop \cup Down /\ pc[q] \in Loop \cup Down => p = q

\* Commands given one after another.  A process in the service loop is the one
\* service.lock and runtime_state.json name, and runtime_service_status reports
\* it running: a start is not tried beside it and a stop is waited for.
ServiceIsReported ==
    \A p \in Pids : pc[p] \in Loop => Running /\ state.pid = p /\ lock = p

\* The processes that have passed the lock check and not yet written their lock.
PastLock == {"boot_unlock", "boot_sock", "boot_bind", "boot_lockw"}

\* Commands given one after another.  The inductive invariant behind the two
\* properties above: one process boots at a time; the one that serves or shuts
\* down holds the lock; nobody does while another is past the lock check.
LifecycleInv ==
    /\ \A p, q \in Pids : pc[p] \in Boot /\ pc[q] \in Boot => p = q
    /\ \A p \in Pids : pc[p] \in {"boot_state"} \cup Loop \cup Down => lock = p
    /\ \A p, q \in Pids : pc[p] \in PastLock => pc[q] \notin Loop \cup Down
    /\ \A p \in Pids : pc[p] \in Loop \cup {"down_sock", "down_state"} =>
         state.pid = p /\ state.running

\* The processes that have not yet looked for another service.
Looking == {"restart", "await", "start", "boot_stop", "boot_lock"}

\* Pids not reused.  A start that gives up, because a service is reported
\* running or the lock is held, leaves another process behind that is alive:
\* the leftovers of a dead service never keep a new one from starting.
TurnedAwayByTheLiving ==
    [][\A p \in Pids : pc[p] \in Looking /\ pc'[p] = "dead" /\ crashes' = crashes
         => \E q \in Pids \ {p} : Alive(q)]_vars

\* Pids not reused.  The inductive invariant behind it: no file names a process
\* that is still looking, and a listener or a port belongs to a live process.
LeftoverInv ==
    /\ \A p \in Pids : pc[p] \in Looking =>
         p \notin {lock, state.pid, http} /\ ~listening[p]
    /\ \A p \in Pids : listening[p] => Alive(p)
    /\ http # 0 => Alive(http)

\* A service that finds the stop file stops: while it serves, a stop request is
\* not lost.
StopHonoured ==
    \A p \in Pids : (stopFile /\ pc[p] \in Loop) ~> (pc[p] \notin Loop)

\* `loom restart` of a running service ends with a new service.
RestartServes == \A p \in Pids : (pc[p] = "await") ~> (pc[p] \in Loop)
=============================================================================
