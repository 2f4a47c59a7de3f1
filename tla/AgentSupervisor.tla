---------------------------- MODULE AgentSupervisor ----------------------------
(***************************************************************************)
(* The personal agent in the background: run-agent starts a supervisor     *)
(* process, which starts the worker process that runs the agent's loop and *)
(* starts it again as the restart policy says.  They and the commands stop *)
(* and reconcile share three files, which every process reads whole and    *)
(* writes whole:                                                           *)
(*                                                                         *)
(*   policy    what the operator wants, the pids and the next restart      *)
(*             (run_policy.json);                                          *)
(*   loop      the worker's own account (loop state);                      *)
(*   stopfile  the stop request.                                           *)
(*                                                                         *)
(* One step is one file operation, one fork or one wait.  Times are        *)
(* relative: policy.next is how long the restart still has to wait, and    *)
(* Tick counts it down wherever a copy of it is kept.                      *)
(***************************************************************************)
EXTENDS Integers, FiniteSets

CONSTANTS Sups, Workers,    \* process ids
          Nobody,           \* pid 0
          Policies,         \* the restart policies commands ask for
          Backoff,          \* the wait before a restart
          Patient,          \* whether a command waits until the processes have settled
          MaxCommands, MaxCrashes

ASSUME AgentAssumption ==
    /\ Nobody \notin Sups \cup Workers /\ Sups \cap Workers = {}
    /\ Policies \subseteq {"manual", "always"} /\ Policies # {}
    /\ Backoff \in Nat \ {0} /\ Patient \in BOOLEAN
    /\ MaxCommands \in Nat /\ MaxCrashes \in Nat

Policy == [desired : {"running", "stopped"}, restart : {"manual", "always"},
           next : 0 .. Backoff, failed : BOOLEAN,
           sup : Sups \cup {Nobody}, worker : Workers \cup {Nobody}]
DefaultPolicy == [desired |-> "stopped", restart |-> "manual", next |-> 0,
                  failed |-> FALSE, sup |-> Nobody, worker |-> Nobody]
Loop == [pid : Workers \cup {Nobody}, status : {"none", "starting", "running", "stopped"}]

VARIABLES
    policy, loop, stopfile,
    sup,        \* [Sups -> its place, its copy of the policy and its child]
    wrk,        \* [Workers -> its place, its copy of the policy and its parent]
    cli,        \* the command at work
    backoff,    \* [Sups -> how long since its worker crashed it must still wait]
    asked,      \* what the operator asked for last, when it was done
    unnamed,    \* living workers whose supervisor died before it wrote the loop state
    overlooked, \* whether a command started an agent beside such a worker
    commands, crashes

orphans == <<unnamed, overlooked>>
history == <<backoff, asked, orphans>>
bounds == <<commands, crashes>>
vars == <<policy, loop, stopfile, sup, wrk, cli, history, bounds>>

SupPC == {"none", "top", "ask", "wait", "reaped", "beat", "quit", "again", "clear",
          "spawn", "state", "reload", "adopt", "leave", "leave_clear"}
WorkerPC == {"none", "boot", "load", "announce", "tick", "report",
             "stopping", "stop_policy", "stop_clear", "zombie"}
CliPC == {"idle", "start", "start_write", "start_fork", "stop", "stop_write", "stop_file"}

Supervisor == [pc : SupPC, pol : Policy, child : Workers \cup {Nobody}]
Worker == [pc : WorkerPC, pol : Policy, parent : Sups \cup {Nobody}]
CommandLine == [pc : CliPC, pol : Policy, restart : {"manual", "always"}]

NoSup == [pc |-> "none", pol |-> DefaultPolicy, child |-> Nobody]
NoWorker == [pc |-> "none", pol |-> DefaultPolicy, parent |-> Nobody]
NoCommand == [pc |-> "idle", pol |-> DefaultPolicy, restart |-> "manual"]

Init ==
    /\ policy = DefaultPolicy
    /\ loop = [pid |-> Nobody, status |-> "none"]
    /\ stopfile = FALSE
    /\ sup = [s \in Sups |-> NoSup] /\ wrk = [w \in Workers |-> NoWorker]
    /\ cli = NoCommand
    /\ backoff = [s \in Sups |-> 0] /\ asked = "nothing"
    /\ unnamed = {} /\ overlooked = FALSE
    /\ commands = 0 /\ crashes = 0

\* kill -0 succeeds for a process nobody has waited for yet.
PidIsRunning(p) ==
    \/ p \in Sups /\ sup[p].pc # "none"
    \/ p \in Workers /\ wrk[p].pc # "none"
Child(s) == sup[s].child
Alive(w) == wrk[w].pc \notin {"none", "zombie"}

-----------------------------------------------------------------------------
(* What status, diagnose and reconcile derive from the files.              *)

WorkerRunningByPolicy == PidIsRunning(policy.worker)

WorkerRunning == PidIsRunning(loop.pid) \/ PidIsRunning(policy.worker)

SupervisionAction ==
    CASE WorkerRunning -> "healthy"
      [] ~WorkerRunning /\ policy.desired # "running" -> "stopped_by_policy"
      [] ~WorkerRunning /\ policy.desired = "running" /\ PidIsRunning(policy.sup) ->
           IF policy.next > 0 THEN "waiting_backoff" ELSE "supervisor_active"
      [] OTHER ->
           IF policy.restart # "always"
           THEN IF policy.failed THEN "manual_restart_required" ELSE "needs_restart"
           ELSE IF policy.next > 0 THEN "waiting_backoff" ELSE "needs_restart"

CrashState ==
    CASE ~policy.failed -> "none"
      [] policy.failed /\ WorkerRunning -> "recovered"
      [] policy.failed /\ ~WorkerRunning
            /\ (PidIsRunning(policy.sup) \/ policy.next > 0) -> "awaiting_restart"
      [] OTHER -> IF policy.restart = "always" THEN "restart_due"
                  ELSE "manual_restart_required"

-----------------------------------------------------------------------------
(* Commands.  A patient operator starts an agent only when no supervisor   *)
(* and no worker is on its way, and stops one only when it has settled.    *)

NoneLeft == \A s \in Sups : sup[s].pc = "none"
WorkersSettled == \A w \in Workers : Alive(w) => wrk[w].pc \in {"tick", "report"}
SupsSettled == \A s \in Sups : sup[s].pc # "none" =>
    sup[s].pc \in {"top", "wait", "beat"} /\ Child(s) # Nobody

\* handle_run_agent: a worker that runs is left alone, a supervisor is not looked at.
Start(restart) ==
    /\ cli.pc = "idle" /\ commands < MaxCommands
    /\ Patient => NoneLeft /\ WorkersSettled
    /\ ~WorkerRunning
    /\ cli' = [NoCommand EXCEPT !.pc = "start", !.restart = restart]
    /\ overlooked' = (overlooked \/ unnamed # {})
    /\ commands' = commands + 1
    /\ UNCHANGED <<policy, loop, stopfile, sup, wrk, backoff, asked, unnamed, crashes>>

Reconcile ==
    /\ cli.pc = "idle" /\ commands < MaxCommands
    /\ Patient => NoneLeft /\ WorkersSettled
    /\ SupervisionAction \in {"needs_restart", "manual_restart_required"}
    /\ cli' = [NoCommand EXCEPT !.pc = "start", !.restart = policy.restart]
    /\ overlooked' = (overlooked \/ unnamed # {})
    /\ commands' = commands + 1
    /\ UNCHANGED <<policy, loop, stopfile, sup, wrk, backoff, asked, unnamed, crashes>>

\* spawn_run_agent_supervisor: load the policy, write it, fork.
StartLoad ==
    /\ cli.pc = "start"
    /\ cli' = [cli EXCEPT !.pc = "start_write",
                          !.pol = [policy EXCEPT !.desired = "running",
                                                 !.restart = cli.restart, !.next = 0,
                                                 !.sup = Nobody, !.worker = Nobody]]
    /\ UNCHANGED <<policy, loop, stopfile, sup, wrk, history, bounds>>

StartWrite ==
    /\ cli.pc = "start_write"
    /\ policy' = cli.pol
    /\ cli' = [cli EXCEPT !.pc = "start_fork"]
    /\ backoff' = [s \in Sups |-> 0]
    /\ UNCHANGED <<loop, stopfile, sup, wrk, asked, orphans, bounds>>

StartFork(s) ==
    /\ cli.pc = "start_fork" /\ sup[s].pc = "none"
    /\ s \notin {policy.sup} \cup {wrk[w].pol.sup : w \in Workers}
    /\ sup' = [sup EXCEPT ![s] = [NoSup EXCEPT !.pc = "top"]]
    /\ cli' = NoCommand
    /\ asked' = "running"
    /\ UNCHANGED <<policy, loop, stopfile, wrk, backoff, orphans, bounds>>

Stop ==
    /\ cli.pc = "idle" /\ commands < MaxCommands
    /\ Patient => SupsSettled /\ WorkersSettled
    /\ cli' = [NoCommand EXCEPT !.pc = "stop_write",
                 !.pol = [policy EXCEPT !.desired = "stopped", !.next = 0]]
    /\ commands' = commands + 1
    /\ UNCHANGED <<policy, loop, stopfile, sup, wrk, history, crashes>>

StopWrite ==
    /\ cli.pc = "stop_write"
    /\ policy' = cli.pol
    /\ cli' = [cli EXCEPT !.pc = "stop_file"]
    /\ backoff' = [s \in Sups |-> 0]
    /\ UNCHANGED <<loop, stopfile, sup, wrk, asked, orphans, bounds>>

StopFile ==
    /\ cli.pc = "stop_file"
    /\ stopfile' = TRUE
    /\ cli' = NoCommand
    /\ asked' = "stopped"
    /\ UNCHANGED <<policy, loop, sup, wrk, backoff, orphans, bounds>>

-----------------------------------------------------------------------------
(* The supervisor: run_agent_supervisor_loop.                              *)

At(s, pc) == sup[s].pc = pc

SupLoad(s) ==
    LET pol == [policy EXCEPT !.sup = s]
    IN /\ At(s, "top")
       /\ sup' = [sup EXCEPT ![s].pol = pol,
             ![s].pc = CASE pol.desired # "running" /\ Child(s) = Nobody -> "leave"
                         [] pol.desired # "running" /\ Child(s) # Nobody -> "ask"
                         [] pol.desired = "running" /\ Child(s) # Nobody -> "wait"
                         [] OTHER -> "again"]
       /\ UNCHANGED <<policy, loop, stopfile, wrk, cli, history, bounds>>

SupLeave(s) ==
    /\ At(s, "leave")
    /\ policy' = [sup[s].pol EXCEPT !.sup = Nobody, !.worker = Nobody, !.next = 0]
    /\ sup' = [sup EXCEPT ![s].pc = "leave_clear"]
    /\ UNCHANGED <<loop, stopfile, wrk, cli, history, bounds>>

SupLeaveClear(s) ==
    /\ At(s, "leave_clear")
    /\ stopfile' = FALSE
    /\ sup' = [sup EXCEPT ![s] = NoSup]
    /\ UNCHANGED <<policy, loop, wrk, cli, history, bounds>>

SupAsk(s) ==
    /\ At(s, "ask")
    /\ stopfile' = TRUE
    /\ sup' = [sup EXCEPT ![s].pc = "wait"]
    /\ UNCHANGED <<policy, loop, wrk, cli, history, bounds>>

\* try_wait finds the child gone: an exit is unexpected unless the policy just loaded
\* or the stop file says that the agent is to stop.
Unexpected(s) == sup[s].pol.desired = "running" /\ ~stopfile

AfterExitAtOnce(pol, unexpected) ==
    [pol EXCEPT !.worker = Nobody, !.failed = @ \/ unexpected, !.next = 0]

AfterExit(pol, unexpected) ==
    [pol EXCEPT !.worker = Nobody, !.failed = @ \/ unexpected,
                !.next = IF unexpected /\ pol.restart = "always" THEN Backoff ELSE 0]
SupReap(s) ==
    /\ At(s, "wait") /\ wrk[Child(s)].pc = "zombie"
    /\ wrk' = [wrk EXCEPT ![Child(s)] = NoWorker]
    /\ sup' = [sup EXCEPT ![s].pol = AfterExit(@, Unexpected(s)), ![s].pc = "reaped",
                          ![s].child = Nobody]
    /\ backoff' = [backoff EXCEPT ![s] = IF Unexpected(s) /\ sup[s].pol.restart = "always"
                                         THEN Backoff ELSE 0]
    /\ UNCHANGED <<policy, loop, stopfile, cli, asked, orphans, bounds>>

SupReaped(s) ==
    /\ At(s, "reaped")
    /\ policy' = sup[s].pol
    /\ sup' = [sup EXCEPT ![s].pc = CASE sup[s].pol.desired # "running" -> "top"
                                      [] sup[s].pol.desired = "running"
                                           /\ sup[s].pol.restart # "always" -> "quit"
                                      [] OTHER -> "again"]
    /\ UNCHANGED <<loop, stopfile, wrk, cli, history, bounds>>

SupQuit(s) ==
    /\ At(s, "quit")
    /\ policy' = [sup[s].pol EXCEPT !.sup = Nobody]
    /\ sup' = [sup EXCEPT ![s] = NoSup]
    /\ UNCHANGED <<loop, stopfile, wrk, cli, history, bounds>>

\* The child runs on: its pid is written, and the loop sleeps.
SupBeat(s) ==
    /\ At(s, "wait") /\ Alive(Child(s))
    /\ sup' = [sup EXCEPT ![s].pol.worker = Child(s), ![s].pc = "beat"]
    /\ UNCHANGED <<policy, loop, stopfile, wrk, cli, history, bounds>>

SupBeatWrite(s) ==
    /\ At(s, "beat")
    /\ policy' = sup[s].pol
    /\ sup' = [sup EXCEPT ![s].pc = "top"]
    /\ UNCHANGED <<loop, stopfile, wrk, cli, history, bounds>>

SupAgainOnce(s) ==
    /\ At(s, "again")
    /\ IF policy.desired = "running" /\ policy.next = 0
       THEN sup' = [sup EXCEPT ![s].pc = "clear"]
       ELSE sup' = [sup EXCEPT ![s] = NoSup]
    /\ UNCHANGED <<policy, loop, stopfile, wrk, cli, history, bounds>>

\* No child: the policy is loaded once more and says whether it is time.
SupAgain(s) ==
    /\ At(s, "again")
    /\ sup' = [sup EXCEPT ![s].pc = IF policy.desired = "running" /\ policy.next = 0
                                    THEN "clear" ELSE "top"]
    /\ UNCHANGED <<policy, loop, stopfile, wrk, cli, history, bounds>>

SupClear(s) ==
    /\ At(s, "clear")
    /\ stopfile' = FALSE
    /\ sup' = [sup EXCEPT ![s].pc = "spawn"]
    /\ UNCHANGED <<policy, loop, wrk, cli, history, bounds>>

\* A pid that no file and no copy names: pids are not reused.
Fresh(w) ==
    /\ wrk[w].pc = "none" /\ w \notin {policy.worker, loop.pid, cli.pol.worker}
    /\ \A v \in Workers : wrk[v].pol.worker # w
    /\ \A s \in Sups : sup[s].pol.worker # w /\ sup[s].child # w

SupSpawn(s, w) ==
    /\ At(s, "spawn") /\ Fresh(w)
    /\ wrk' = [wrk EXCEPT ![w] = [NoWorker EXCEPT !.pc = "boot", !.parent = s]]
    /\ sup' = [sup EXCEPT ![s].child = w, ![s].pc = "state", ![s].pol = DefaultPolicy]
    /\ UNCHANGED <<policy, loop, stopfile, cli, history, bounds>>

SupState(s) ==
    /\ At(s, "state")
    /\ loop' = [pid |-> Child(s), status |-> "starting"]
    /\ sup' = [sup EXCEPT ![s].pc = "reload"]
    /\ UNCHANGED <<policy, stopfile, wrk, cli, history, bounds>>

SupReload(s) ==
    /\ At(s, "reload")
    /\ sup' = [sup EXCEPT ![s].pol = [policy EXCEPT !.sup = s, !.worker = Child(s)],
                          ![s].pc = "adopt"]
    /\ UNCHANGED <<policy, loop, stopfile, wrk, cli, history, bounds>>

SupAdopt(s) ==
    /\ At(s, "adopt")
    /\ policy' = sup[s].pol
    /\ sup' = [sup EXCEPT ![s].pc = "top"]
    /\ UNCHANGED <<loop, stopfile, wrk, cli, history, bounds>>

-----------------------------------------------------------------------------
(* The worker: run_agent_loop.  It keeps the policy it loaded when it      *)
(* booted and writes that copy when it stops.                              *)

In(w, pc) == wrk[w].pc = pc
Goes(w, pc) == wrk' = [wrk EXCEPT ![w].pc = pc]

\* The end of a worker leaves a zombie to a supervisor that lives.
Ends(w) ==
    /\ wrk' = [wrk EXCEPT ![w] = IF wrk[w].parent # Nobody
                                 THEN [NoWorker EXCEPT !.pc = "zombie", !.parent = wrk[w].parent]
                                 ELSE NoWorker]
    /\ unnamed' = unnamed \ {w}

Boot(w) ==
    /\ In(w, "boot")
    /\ stopfile' = FALSE
    /\ Goes(w, "load")
    /\ UNCHANGED <<policy, loop, sup, cli, history, bounds>>

LoadPolicy(w) ==
    /\ In(w, "load")
    /\ wrk' = [wrk EXCEPT ![w].pol = policy, ![w].pc = "announce"]
    /\ UNCHANGED <<policy, loop, stopfile, sup, cli, history, bounds>>

Announce(w) ==
    /\ In(w, "announce")
    /\ policy' = wrk[w].pol
    /\ Goes(w, "tick")
    /\ UNCHANGED <<loop, stopfile, sup, cli, history, bounds>>

TickLoopBlind(w) ==
    /\ In(w, "tick")
    /\ Goes(w, "report")
    /\ UNCHANGED <<policy, loop, stopfile, sup, cli, history, bounds>>

\* One turn of the loop: the stop request is looked for before the heartbeats are
\* claimed and dispatched, and the state is written after them.
TickLoop(w) ==
    /\ In(w, "tick")
    /\ Goes(w, IF stopfile THEN "stopping" ELSE "report")
    /\ UNCHANGED <<policy, loop, stopfile, sup, cli, history, bounds>>

Report(w) ==
    /\ In(w, "report")
    /\ loop' = [pid |-> w, status |-> "running"]
    /\ unnamed' = unnamed \ {w}
    /\ Goes(w, "tick")
    /\ UNCHANGED <<policy, stopfile, sup, cli, backoff, asked, overlooked, bounds>>

StopState(w) ==
    /\ In(w, "stopping")
    /\ loop' = [pid |-> w, status |-> "stopped"]
    /\ unnamed' = unnamed \ {w}
    /\ Goes(w, "stop_policy")
    /\ UNCHANGED <<policy, stopfile, sup, cli, backoff, asked, overlooked, bounds>>

StopPolicy(w) ==
    /\ In(w, "stop_policy")
    /\ policy' = [wrk[w].pol EXCEPT !.next = 0]
    /\ Goes(w, "stop_clear")
    /\ UNCHANGED <<loop, stopfile, sup, cli, history, bounds>>

StopClear(w) ==
    /\ In(w, "stop_clear")
    /\ stopfile' = FALSE
    /\ Ends(w)
    /\ UNCHANGED <<policy, loop, sup, cli, backoff, asked, overlooked, bounds>>

-----------------------------------------------------------------------------

\* A worker dies: killed, by an Err, or by the chaos the tests inject.
Crash(w) ==
    /\ Alive(w) /\ crashes < MaxCrashes
    /\ crashes' = crashes + 1
    /\ Ends(w)
    /\ UNCHANGED <<policy, loop, stopfile, sup, cli, backoff, asked, overlooked, commands>>

\* A supervisor dies, killed or by an Err that a ? hands on: its worker runs on as an
\* orphan, its zombie is waited for by init.  An orphan that was forked only just now is
\* named by no file until it writes the loop state itself.
CrashSup(s) ==
    /\ sup[s].pc # "none" /\ crashes < MaxCrashes
    /\ unnamed' = unnamed \cup {w \in Workers : At(s, "state") /\ w = Child(s) /\ Alive(w)}
    /\ crashes' = crashes + 1
    /\ sup' = [sup EXCEPT ![s] = NoSup]
    /\ wrk' = [w \in Workers |->
          CASE wrk[w].parent # s -> wrk[w]
            [] wrk[w].parent = s /\ In(w, "zombie") -> NoWorker
            [] OTHER -> [wrk[w] EXCEPT !.parent = Nobody]]
    /\ backoff' = [backoff EXCEPT ![s] = 0]
    /\ UNCHANGED <<policy, loop, stopfile, cli, asked, overlooked, commands>>

CountDown(n) == IF n > 0 THEN n - 1 ELSE 0

Tick ==
    /\ policy' = [policy EXCEPT !.next = CountDown(@)]
    /\ sup' = [s \in Sups |-> [sup[s] EXCEPT !.pol.next = CountDown(@)]]
    /\ wrk' = [w \in Workers |-> [wrk[w] EXCEPT !.pol.next = CountDown(@)]]
    /\ cli' = [cli EXCEPT !.pol.next = CountDown(@)]
    /\ backoff' = [s \in Sups |-> CountDown(backoff[s])]
    /\ UNCHANGED <<loop, stopfile, asked, orphans, bounds>>

CliStep == StartLoad \/ StartWrite \/ (\E s \in Sups : StartFork(s)) \/ StopWrite \/ StopFile
SupStep(s) ==
    \/ SupLoad(s) \/ SupLeave(s) \/ SupLeaveClear(s) \/ SupAsk(s) \/ SupReap(s)
    \/ SupReaped(s) \/ SupQuit(s) \/ SupBeat(s) \/ SupBeatWrite(s) \/ SupAgain(s)
    \/ SupClear(s) \/ (\E w \in Workers : SupSpawn(s, w)) \/ SupState(s)
    \/ SupReload(s) \/ SupAdopt(s)
WorkerStep(w) ==
    \/ Boot(w) \/ LoadPolicy(w) \/ Announce(w) \/ TickLoop(w) \/ Report(w)
    \/ StopState(w) \/ StopPolicy(w) \/ StopClear(w)
Command == Stop \/ Reconcile \/ \E r \in Policies : Start(r)

Next ==
    \/ Command \/ CliStep \/ Tick
    \/ \E s \in Sups : SupStep(s) \/ CrashSup(s)
    \/ \E w \in Workers : WorkerStep(w) \/ Crash(w)

\* Processes that live are scheduled and time passes; nobody has to give a command.
Fairness ==
    /\ WF_vars(CliStep) /\ WF_vars(Tick)
    /\ \A s \in Sups : WF_vars(SupStep(s))
    /\ \A w \in Workers : WF_vars(WorkerStep(w))

Spec == Init /\ [][Next]_vars /\ Fairness

-----------------------------------------------------------------------------
(* Properties.                                                             *)

TypeOK ==
    /\ policy \in Policy /\ loop \in Loop /\ stopfile \in BOOLEAN
    /\ sup \in [Sups -> Supervisor] /\ wrk \in [Workers -> Worker] /\ cli \in CommandLine
    /\ backoff \in [Sups -> 0 .. Backoff] /\ asked \in {"nothing", "running", "stopped"}
    /\ unnamed \subseteq Workers /\ overlooked \in BOOLEAN
    /\ commands \in 0 .. MaxCommands /\ crashes \in 0 .. MaxCrashes

\* A patient operator gets two workers for one agent in one way only: a supervisor dies
\* between the fork and its write of the loop state, and the agent is started again before
\* the orphan has written it.  run-agent looks at no supervisor, and a supervisor may die
\* anywhere.
OneWorker == ~overlooked => Cardinality({w \in Workers : Alive(w)}) <= 1

\* Without the exception, which is too much to ask.
OneWorkerEver == Cardinality({w \in Workers : Alive(w)}) <= 1

\* A worker that lives and has begun its loop is the one the loop state or the policy
\* names, whatever stale copies are written back, so that run-agent and reconcile see it;
\* but for the orphan of a supervisor that died right after the fork.
WorkerIsSeen == ~overlooked =>
    \A w \in Workers : wrk[w].pc \in {"tick", "report"} =>
        \/ w \in {loop.pid, policy.worker} \cup unnamed
        \/ \E s \in Sups : sup[s].pc = "state"

\* A supervisor whose worker crashed under always starts no other before the backoff
\* has passed, unless a command was given in between or an orphan was overlooked.
BackoffHonoured ==
    [][\A s \in Sups : ~overlooked /\ At(s, "again") /\ sup'[s].pc = "clear"
                          => backoff[s] = 0]_vars

\* Why there is one worker.  Of a patient operator's agent there is one supervisor, and
\* none, nor a worker, while a command is about to start one.
Starting == {"start", "start_write", "start_fork"}
Exists(w) == wrk[w].pc # "none"
OneSup == \A s, r \in Sups : sup[s].pc # "none" /\ sup[r].pc # "none" => s = r
NobodyYet == cli.pc \in Starting => NoneLeft /\ \A w \in Workers : ~Exists(w)

\* The worker there is, a zombie included, is the supervisor's child; without a
\* supervisor it is an orphan, and never a zombie.
Parents == {"ask", "wait", "beat", "state", "reload", "adopt"}
Family ==
    /\ \A w, v \in Workers : Exists(w) /\ Exists(v) => w = v
    /\ \A s \in Sups :
         /\ sup[s].pc \in Parents => Child(s) # Nobody
         /\ sup[s].pc \notin Parents \cup {"top"} => Child(s) = Nobody
         /\ Child(s) # Nobody => Exists(Child(s))
    /\ \A w \in Workers : \A s \in Sups :
         /\ Exists(w) /\ sup[s].pc # "none" => Child(s) = w /\ wrk[w].parent = s
         /\ wrk[w].parent = s => sup[s].pc # "none" /\ Exists(w)
    /\ \A w \in Workers : wrk[w].pc = "zombie" => wrk[w].parent # Nobody

\* The loop state names it but for the moment after the fork, and for the orphan of a
\* supervisor that died in that moment, so no command starts a second one beside another.
Named ==
    /\ \A w \in Workers : Exists(w) =>
         loop.pid = w \/ w \in unnamed \/ \E s \in Sups : sup[s].pc = "state"
    /\ \A w \in unnamed : Exists(w) /\ wrk[w].parent = Nobody

FamilyInv == OneSup /\ NobodyYet /\ Family /\ Named
FamilyStands == ~overlooked => FamilyInv

\* Why a backoff is honoured: as long as it runs nobody but the supervisor writes the
\* policy, and its copy, then the file, says to wait at least as long.
WaitsFor(pol, n) == pol.desired = "running" /\ pol.next >= n
BackoffInv == \A s \in Sups : backoff[s] > 0 =>
    /\ Child(s) = Nobody
    /\ \/ sup[s].pc = "reaped" /\ WaitsFor(sup[s].pol, backoff[s]) /\ sup[s].pol.restart = "always"
       \/ sup[s].pc \in {"top", "again"} /\ WaitsFor(policy, backoff[s])
BackoffStands == ~overlooked => BackoffInv

\* A crash under always is answered by a worker in the end, unless a command is given;
\* the crash budget is spent, so the supervisor that saw it lives.  An overlooked orphan
\* may write its own, older policy over the one the supervisor waits by.
AlwaysRecovers ==
    \A s \in Sups : (backoff[s] > 0 /\ crashes = MaxCrashes /\ ~overlooked)
        ~> (\E w \in Workers : wrk[w].pc = "tick") \/ cli.pc # "idle"

\* What the tests wait for: after a crash under manual, with no command, the status
\* becomes manual_restart_required.
CrashUnderManualIsReported ==
    (policy.failed /\ policy.restart = "manual" /\ asked = "running"
       /\ \A w \in Workers : ~Alive(w))
        ~> (SupervisionAction = "manual_restart_required" /\ CrashState = "manual_restart_required")
             \/ cli.pc # "idle"

\* After a stop under the manual policy, which no later command overrules, worker and
\* supervisor are gone, when no orphan was overlooked: there is one stop file, and the
\* first of two workers to see it takes it away.
StopEndsAgent ==
    (asked = "stopped" /\ policy.restart = "manual" /\ ~overlooked)
        ~> (NoneLeft /\ \A w \in Workers : wrk[w].pc = "none") \/ cli.pc # "idle"
             
\* The same under any policy: what run-agent's help says of stop.
StopEndsEveryAgent ==
    (asked = "stopped")
        ~> (NoneLeft /\ \A w \in Workers : wrk[w].pc = "none") \/ cli.pc # "idle"
=============================================================================
