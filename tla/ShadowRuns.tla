----------------------------- MODULE ShadowRuns -----------------------------
(***************************************************************************)
(* Shadow runs and their settlement.  `loom shadow run` has an effect in   *)
(* the world through one of eight backends, under a warrant, and leaves a  *)
(* capture of it in several files; `loom job settle --zk` proves whatever  *)
(* the file of the last execution holds and charges the treasury for it;   *)
(* `loom swarm run` does all of it after a pass of the queue, whose        *)
(* executions write the same file.                                         *)
(* A run is known by its number; only the file of the last execution is    *)
(* read again, of the others it matters which captures they have had.      *)
(***************************************************************************)
EXTENDS Integers, Sequences, FiniteSets

CONSTANTS
    Operators,      \* processes of the command line
    MaxRuns,        \* bound: runs, executions included
    MaxOps,         \* bound: commands
    MaxCrashes      \* bound: deaths and failed writes

ShadowAssumption == {MaxRuns, MaxOps, MaxCrashes} \subseteq Nat

VARIABLES
    expired,        \* BOOLEAN: the warrant's time is over
    runs,           \* what is known of each run, in their order
    execution,      \* the run in last_execution.json, 0 when there is no file
    charges,        \* the treasury's reservations, by command
    settled,        \* the settlements captured
    command,        \* Operators -> the command at work
    wrote,          \* Files -> the runs written there, a stream's lines or the file's past
    ops, crashes

vars == <<expired, runs, execution, charges, settled, command, wrote, ops, crashes>>

Files == {"execution", "shadow", "parity", "parity_stream", "grpc", "grpc_stream",
          "zk", "zk_stream", "settlement", "settlement_stream", "swarm"}

\* A command that is not running.
Idle == [pc |-> "idle", op |-> 0, run |-> 0, own |-> 0, swarm |-> FALSE, todo |-> <<>>,
         outcome |-> "none"]

\* What a run was: its warrant (signed by the kernel, in force when the event was
\* recorded), whether its capture is bound to one, and a robot's lifecycle.
Outcomes == [signed: BOOLEAN, live: BOOLEAN, bound: BOOLEAN,
             unacked: BOOLEAN, remedy: {"none", "unavailable", "cancelled", "escalated"}]

\* Type invariant.
TypeOK ==
    /\ expired \in BOOLEAN
    /\ runs \in Seq(Outcomes)
    /\ execution \in 0..MaxRuns
    /\ \A c \in charges : c.op \in 1..MaxOps /\ c.run \in 1..Len(runs)
    /\ \A s \in settled : s.op \in 1..MaxOps /\ s.run \in 1..Len(runs)
    /\ DOMAIN command = Operators
    /\ wrote \in [Files -> SUBSET (1..MaxRuns)]
    /\ ops \in 0..MaxOps /\ crashes \in 0..MaxCrashes

Init ==
    /\ expired = FALSE
    /\ runs = <<>>
    /\ execution = 0
    /\ charges = {} /\ settled = {}
    /\ command = [o \in Operators |-> Idle]
    /\ wrote = [f \in Files |-> {}]
    /\ ops = 0 /\ crashes = 0

world == <<expired, execution, charges, settled, wrote, crashes>>

----------------------------------------------------------------------------
(* The backends.  Five validate the warrant before they act, three only    *)
(* when they record the event; the record is refused when the warrant had  *)
(* expired at the time it is given.                                        *)

Validated(signed) == signed /\ ~expired

\* A shadow run starts as a command of its own, or as the third step of a swarm.
MayRun(o) ==
    /\ Len(runs) < MaxRuns
    /\ \/ command[o].pc = "idle" /\ ops < MaxOps
       \/ command[o].pc = "shadow"

Op(o) == IF command[o].pc = "idle" THEN ops + 1 ELSE command[o].op
Counted(o) == ops' = IF command[o].pc = "idle" THEN ops + 1 ELSE ops

\* The command ends with Err before anything is captured, whatever it has sent.
Refused(o) == command' = [command EXCEPT ![o] = Idle] /\ UNCHANGED runs

PersistedStreamFirst == <<"execution", "parity_stream", "shadow", "parity">>

\* persist_shadow_run_capture; a gRPC backend adds its diagnostics.
Persisted == <<"execution", "shadow", "parity", "parity_stream">>

GrpcPersisted == Persisted \o <<"grpc", "grpc_stream">>

\* The run goes on to write its capture, and a gRPC one its diagnostics.
Captured(o, r, files) ==
    /\ runs' = Append(runs, r)
    /\ command' = [command EXCEPT ![o] =
          [Idle EXCEPT !.pc = "write", !.op = Op(o), !.run = Len(runs) + 1,
                       !.own = Len(runs) + 1, !.swarm = command[o].swarm, !.todo = files]]

Bare(signed) == [signed |-> signed, live |-> ~expired, bound |-> TRUE,
                 unacked |-> FALSE, remedy |-> "none"]

PostedUnchecked(o, signed) == Refused(o) \/ Captured(o, Bare(signed), Persisted)

\* A POST without validation: it is sent, then the record is refused if the
\* warrant had expired when it was sent.
Posted(o, signed) ==
    \/ Refused(o)                             \* no answer, or no record
    \/ ~expired /\ Captured(o, Bare(signed), Persisted)

\* run_shadow_backend_mcp
Mcp(o) == \E signed \in BOOLEAN :
    MayRun(o) /\ ~command[o].swarm /\ Posted(o, signed) /\ Counted(o) /\ UNCHANGED world

\* run_shadow_backend_a2a
A2a(o) == \E signed \in BOOLEAN :
    MayRun(o) /\ ~command[o].swarm /\ Posted(o, signed) /\ Counted(o) /\ UNCHANGED world

\* run_shadow_backend_a2a_action: the request's body names the actor and the
\* warrant, and the command line fills in its own.
A2aAction(o) == \E signed \in BOOLEAN :
    MayRun(o) /\ ~command[o].swarm /\ Posted(o, signed) /\ Counted(o) /\ UNCHANGED world

\* run_shadow_backend_command: a program that cannot be started is an Err, one
\* that fails is captured.
RunProgram(o) == \E signed \in BOOLEAN :
    /\ MayRun(o) /\ ~command[o].swarm
    /\ \/ Refused(o)
       \/ Validated(signed) /\ Captured(o, Bare(TRUE), Persisted)
    /\ Counted(o) /\ UNCHANGED world

\* run_shadow_backend_http: another method than GET and POST is refused after
\* the warrant, an answer of any status is captured.
Http(o) == \E signed \in BOOLEAN :
    /\ MayRun(o) /\ ~command[o].swarm
    /\ \/ Refused(o)
       \/ /\ Validated(signed)
          /\ \/ Refused(o)
             \/ Captured(o, Bare(TRUE), Persisted)
    /\ Counted(o) /\ UNCHANGED world

\* run_shadow_backend_grpc_action
GrpcAction(o) == \E signed \in BOOLEAN :
    /\ MayRun(o) /\ ~command[o].swarm
    /\ \/ Refused(o)
       \/ /\ Validated(signed)
          /\ Captured(o, Bare(TRUE), GrpcPersisted)
    /\ Counted(o) /\ UNCHANGED world

\* The flags of the command line override what the request's body says of its
\* lifecycle; an acknowledgement can be asked for in stream mode only.
Lifecycles == {l \in [stream: BOOLEAN, required: BOOLEAN, onTimeout: BOOLEAN] : l.required => l.stream}

\* A reply that leaves ack_received out counts as acknowledged only when no
\* acknowledgement was asked for.
AckedFreely(l, reply) == reply.ack # "no"

Acked(l, reply) == IF reply.ack = "absent" THEN ~l.required ELSE reply.ack = "yes"

CancelledBy(l, reply) == reply.cancelled \/ (l.required /\ ~Acked(l, reply) /\ l.onTimeout)

Remedy(l, reply) ==
    IF CancelledBy(l, reply) THEN "cancelled"
    ELSE IF l.required /\ ~Acked(l, reply) THEN "escalated" ELSE "none"

Replies == [ack: {"yes", "no", "absent"}, cancelled: BOOLEAN]

\* run_shadow_backend_grpc_physical: a robot's command with its lifecycle; a
\* missing grpcurl is captured as a run that was never transported.
GrpcPhysical(o) == \E signed \in BOOLEAN, l \in Lifecycles :
    /\ MayRun(o) /\ ~command[o].swarm
    /\ \/ Refused(o)
       \/ /\ Validated(signed)
          /\ \E reply \in Replies :
                Captured(o, [Bare(TRUE) EXCEPT
                                !.unacked = l.required /\ reply.ack # "yes",
                                !.remedy = Remedy(l, reply)],
                         GrpcPersisted)
       \/ /\ Validated(signed)
          /\ Captured(o, [Bare(TRUE) EXCEPT
                             !.unacked = l.required, !.remedy = "unavailable"],
                      GrpcPersisted)
    /\ Counted(o) /\ UNCHANGED world

\* run_shadow_backend_wasmtime: the guest runs between the validation and the
\* record of its calls, which is given the time of its end.
Launch(o) == \E signed \in BOOLEAN :
    /\ MayRun(o)
    /\ IF Validated(signed)
       THEN command' = [command EXCEPT ![o].pc = "guest", ![o].op = Op(o)] /\ UNCHANGED runs
       ELSE Refused(o)
    /\ Counted(o) /\ UNCHANGED world

Wasmtime(o) ==
    /\ command[o].pc = "guest" /\ Len(runs) < MaxRuns
    /\ \/ Refused(o)                          \* the guest traps, or no record
       \/ ~expired /\ Captured(o, Bare(TRUE), Persisted)
    /\ UNCHANGED <<world, ops>>

\* One file of a capture, a proof or a settlement; the last one ends the
\* command or takes it on.
After(c) ==
    CASE c.pc = "write" -> IF c.swarm THEN [c EXCEPT !.pc = "settle"] ELSE Idle
      [] c.pc = "executed" -> [c EXCEPT !.pc = "shadow"]
      [] c.pc = "proved" -> [c EXCEPT !.pc = IF c.outcome = "clear" THEN "reserve" ELSE "capture"]
      [] c.pc = "captured" -> IF c.swarm THEN [c EXCEPT !.pc = "report", !.todo = <<"swarm">>]
                              ELSE Idle
      [] OTHER -> Idle

Write(o) == LET c == command[o] IN
    /\ c.todo # <<>>
    /\ execution' = IF Head(c.todo) = "execution" THEN c.run ELSE execution
    /\ wrote' = [wrote EXCEPT ![Head(c.todo)] = @ \cup {c.run}]
    /\ command' = [command EXCEPT ![o] =
          LET rest == [c EXCEPT !.todo = Tail(@)] IN IF rest.todo = <<>> THEN After(rest) ELSE rest]
    /\ UNCHANGED <<expired, runs, charges, settled, ops, crashes>>

----------------------------------------------------------------------------
(* The queue's executions write the same files, with no warrant.           *)

Executed == <<"execution", "parity">>

\* handle_swarm_run enqueues its action and runs the queue once; a pass that
\* did not execute, or failed, ends the swarm only with an Err of its own.
Swarm(o) ==
    /\ command[o].pc = "idle" /\ ops < MaxOps /\ ops' = ops + 1
    /\ \/ UNCHANGED <<runs, command>>                               \* Err
       \/ /\ command' = [command EXCEPT ![o] = [Idle EXCEPT !.pc = "shadow", !.op = ops + 1, !.swarm = TRUE]]
          /\ UNCHANGED runs
       \/ /\ Len(runs) < MaxRuns
          /\ runs' = Append(runs, [Bare(FALSE) EXCEPT !.bound = FALSE])
          /\ command' = [command EXCEPT ![o] =
                [Idle EXCEPT !.pc = "executed", !.op = ops + 1, !.run = Len(runs) + 1,
                             !.swarm = TRUE, !.todo = Executed]]
    /\ UNCHANGED world

----------------------------------------------------------------------------
(* The settlement of the last execution.                                   *)

Settle(o) ==
    /\ command[o].pc = "idle" /\ ops < MaxOps /\ ops' = ops + 1
    /\ command' = [command EXCEPT ![o] = [Idle EXCEPT !.pc = "settle", !.op = ops + 1]]
    /\ UNCHANGED <<runs, world>>

\* The execution is read once; one that is missing or not bound is refused.
Bound(run) == run # 0 /\ runs[run].bound

ReadExecution(o) ==
    /\ command[o].pc = "settle"
    /\ command' = [command EXCEPT ![o] =
          IF Bound(execution) THEN [@ EXCEPT !.pc = "ask", !.run = execution] ELSE Idle]
    /\ UNCHANGED <<runs, world, ops>>

AskKernelFirst(o) == \E verdict \in {"clear", "error"} :
    /\ command[o].pc = "ask"
    /\ command' = [command EXCEPT ![o] = IF verdict = "error" THEN Idle ELSE [@ EXCEPT !.pc = "reserve"]]
    /\ UNCHANGED <<runs, world, ops>>

\* The kernel's court and authority are asked before the proof is written; a
\* kernel that fails ends the settlement.
AskKernel(o) == \E verdict \in {"clear", "blocked_by_court", "blocked_by_authority", "error"} :
    /\ command[o].pc = "ask"
    /\ command' = [command EXCEPT ![o] =
          IF verdict = "error" THEN Idle
          ELSE [@ EXCEPT !.pc = "proved", !.outcome = verdict, !.todo = <<"zk", "zk_stream">>]]
    /\ UNCHANGED <<runs, world, ops>>

Capture(c, outcome) ==
    [c EXCEPT !.pc = "captured", !.outcome = outcome, !.todo = <<"settlement", "settlement_stream">>]

Noted(c) == settled' = settled \cup {[op |-> c.op, run |-> c.run, outcome |-> c.outcome, own |-> c.own]}

\* An answer that does not say whether it was allowed, but names a reservation, is
\* taken for granted, whatever the treasury holds.
Reserve(o) == LET c == command[o] IN
    /\ c.pc = "reserve"
    /\ \/ command' = [command EXCEPT ![o] = Idle] /\ UNCHANGED charges
       \/ /\ command' = [command EXCEPT ![o].pc = "capture", ![o].outcome = "blocked_by_treasury"]
          /\ UNCHANGED charges
       \/ /\ command' = [command EXCEPT ![o].pc = "commit"]
          /\ charges' \in {charges \cup {[op |-> c.op, run |-> c.run, status |-> "reserved"]}, charges}
    /\ UNCHANGED <<expired, runs, execution, settled, wrote, ops, crashes>>

CommitUnkept(o) ==
    /\ command[o].pc = "commit"
    /\ command' = [command EXCEPT ![o].pc = "capture", ![o].outcome = "prepared"]
    /\ UNCHANGED <<expired, runs, execution, charges, settled, wrote, ops, crashes>>

\* A commit that fails leaves the reservation.  The settlement is called prepared
\* whatever status a commit that did not fail has answered, and tells that status
\* beside it: "unconfirmed" is prepared with another one than committed.
Commit(o) == LET c == command[o]
                 held == [op |-> c.op, run |-> c.run, status |-> "reserved"]
                 paid == (charges \ {held}) \cup {[held EXCEPT !.status = "committed"]} IN
    /\ c.pc = "commit"
    /\ \/ command' = [command EXCEPT ![o] = Idle] /\ UNCHANGED charges
       \/ /\ command' = [command EXCEPT ![o].pc = "capture", ![o].outcome = "prepared"]
          /\ charges' = paid
       \/ /\ command' = [command EXCEPT ![o].pc = "capture", ![o].outcome = "unconfirmed"]
          /\ charges' \in {charges, charges \ {held}, paid}
    /\ UNCHANGED <<expired, runs, execution, settled, wrote, ops, crashes>>

CaptureSettlement(o) ==
    /\ command[o].pc = "capture"
    /\ command' = [command EXCEPT ![o] = Capture(@, @.outcome)]
    /\ Noted(command[o])
    /\ UNCHANGED <<expired, runs, execution, charges, wrote, ops, crashes>>

----------------------------------------------------------------------------
\* A process dies, or a write fails with Err.
Crash(o) ==
    /\ command[o].pc # "idle" /\ crashes < MaxCrashes
    /\ crashes' = crashes + 1
    /\ command' = [command EXCEPT ![o] = Idle]
    /\ UNCHANGED <<expired, runs, execution, charges, settled, wrote, ops>>

Expire ==
    /\ ~expired /\ expired' = TRUE
    /\ UNCHANGED <<runs, execution, charges, settled, command, wrote, ops, crashes>>

Next ==
    \/ Expire
    \/ \E o \in Operators :
        \/ Launch(o) \/ Wasmtime(o) \/ RunProgram(o) \/ Http(o) \/ Mcp(o) \/ A2a(o)
        \/ A2aAction(o) \/ GrpcAction(o) \/ GrpcPhysical(o) \/ Write(o)
        \/ Swarm(o) \/ Settle(o) \/ ReadExecution(o) \/ AskKernel(o)
        \/ Reserve(o) \/ Commit(o) \/ CaptureSettlement(o) \/ Crash(o)

Spec == Init /\ [][Next]_vars

----------------------------------------------------------------------------
ShadowRun(n) == runs[n].bound

\* The files of a shadow run's capture are behind one another in the order in
\* which they are written: what the parity stream tells of can be found in the
\* files, whoever died and whoever else was writing (persist_shadow_run_capture).
EvidenceFollows == \A n \in 1..Len(runs) : ShadowRun(n) =>
    /\ n \in wrote["grpc_stream"] => n \in wrote["grpc"]
    /\ n \in wrote["grpc"] => n \in wrote["parity_stream"]
    /\ n \in wrote["parity_stream"] => n \in wrote["parity"]
    /\ n \in wrote["parity"] => n \in wrote["shadow"]
    /\ n \in wrote["shadow"] => n \in wrote["execution"]

\* What was captured as bound to a warrant was recorded while the warrant was
\* in force, although three backends do not validate it first (record_event).
CapturedInForce == \A n \in wrote["execution"] : runs[n].bound => runs[n].live

\* No budget is reserved, let alone spent, for a run whose proof is not on disk,
\* whichever execution another process writes in the meantime
\* (settle_latest_execution_with_zk).
ChargedIsProved == \A c \in charges :
    runs[c.run].bound /\ c.run \in wrote["zk"] \cap wrote["zk_stream"]

\* What a settlement calls prepared and committed the treasury has committed for its
\* own command and run, and one that was blocked holds nothing; prepared alone, with
\* another status of the treasury's beside it, tells of no charge.
SettledIsCharged == \A s \in settled :
    /\ s.outcome = "prepared" => [op |-> s.op, run |-> s.run, status |-> "committed"] \in charges
    /\ s.outcome \notin {"prepared", "unconfirmed"} => \A c \in charges : c.op # s.op

\* A robot's command that asked for an acknowledgement and got none is never
\* recorded as needing nothing (grpc_remediation_action).
SilenceIsRemedied == \A n \in 1..Len(runs) : runs[n].unacked => runs[n].remedy # "none"

\* handle_swarm_run: "enqueue -> run queue -> shadow proof -> settle --zk": the
\* settlement that a swarm reports is that of its own shadow run.  Another
\* process that writes the last execution in between makes it false.
SwarmSettlesOwn == \A s \in settled : s.own # 0 => s.run = s.own
=============================================================================
