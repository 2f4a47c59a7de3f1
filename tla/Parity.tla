------------------------------- MODULE Parity -------------------------------
(***************************************************************************)
(* The evidence of an execution.  capture_decision and                     *)
(* capture_runtime_execution write, in this order and each file in place,  *)
(* the decision, the probe of the reference, the reference's answer, the   *)
(* audit line, four lines of the parity stream, the runtime event, the     *)
(* comparison, the receipt, the parity report and the job.  Probe, answer, *)
(* event and comparison have a file for the action, a latest one and a     *)
(* stream.  A shadow run overwrites three of the same files.  The operator *)
(* reads them with `loom parity report` and `loom shadow report`.          *)
(* One command at a time.  The budget and the worker are RuntimeExecution, *)
(* the decision Gates, the shadow run ShadowRuns.                          *)
(***************************************************************************)
EXTENDS Naturals, Sequences, FiniteSets

CONSTANTS
    Hashes,         \* the actions, by the hash of their envelope
    MaxOps,         \* bound: executions and shadow runs
    MaxCrashes,     \* bound: deaths
    None

\* What a file tells of: an execution or a shadow run, and whether it is whole.
Executions ==
    [n : Nat, kind : {"run"}, hash : Hashes, reference : {"allow", "deny"},
     overall : {"allow", "deny", "hard_deny"},
     outcome : {"none", "worker_executed", "worker_failed", "budget_reservation_denied", "denied"},
     probed : BOOLEAN, whole : BOOLEAN]
Captures == [n : Nat, kind : {"shadow"}, whole : BOOLEAN]

ParityAssumption ==
    /\ MaxOps \in Nat /\ MaxCrashes \in Nat
    /\ None \notin Executions \cup Captures

Kept == {"probe", "reference", "event", "comparison", "job"}
Latest == {"decision", "probe_latest", "reference_latest", "event_latest", "comparison_latest",
           "execution", "parity_latest", "shadow_latest"}
Streams == {"probe_stream", "reference_stream", "audit", "parity_stream", "event_stream",
            "comparison_stream"}
\* A file by its kind and the action it is for, if it is for one.
Files == (Latest \X {None}) \cup (Kept \X Hashes)

VARIABLES
    evidence,       \* what each file tells: a run, whole or cut short by a death
    streams,        \* the lines of each stream: the run and the line's number
    command,        \* the run at work
    dead,           \* history: the last run ended before its last file
    ops, crashes    \* runs, deaths

vars == <<evidence, streams, command, dead, ops, crashes>>

Idle == [pc |-> "idle", k |-> 0, x |-> None]

\* Type invariant.
TypeOK ==
    /\ evidence \in [Files -> Executions \cup Captures \cup {None}]
    /\ \A f \in Files : evidence[f] = None \/ evidence[f].n \in 0..ops
    /\ \A s \in Streams : streams[s].lines \subseteq (1..ops) \X (1..4) /\ streams[s].lost \in 0..ops
    /\ dead \in BOOLEAN
    /\ ops \in 0..MaxOps /\ crashes \in 0..MaxCrashes

Init ==
    /\ evidence = [f \in Files |-> None]
    /\ streams = [s \in Streams |-> [lines |-> {}, lost |-> 0]]
    /\ command = Idle
    /\ dead = FALSE
    /\ ops = 0 /\ crashes = 0

Of(kind) == <<kind, None>>
Latests(kind) == evidence[Of(kind)]

----------------------------------------------------------------------------
(* What is said of an execution.                                           *)

\* The reference's answer, Loom's decision and the outcome that may come of it.
Outcomes(overall) ==
    IF overall = "allow" THEN {"worker_executed", "worker_failed", "budget_reservation_denied"}
                         ELSE {"denied"}

Overalls(reference) == {"hard_deny", IF reference = "allow" THEN "allow" ELSE "deny"}

ParityDecided(x) == IF x.reference = x.overall THEN "match" ELSE "divergence"

\* parity_status: a refusal by Loom's own sanctions never equals the reference's.
ParityStatus(x) ==
    LET effective == IF x.outcome = "budget_reservation_denied" THEN "deny" ELSE x.overall IN
    IF x.reference = effective THEN "match" ELSE "divergence"

\* emit_runtime_audit names a parity of its own, by who decided.
AuditStatus(x) == IF x.overall = "hard_deny" THEN "divergence" ELSE "match"

JobStatus(x) ==
    CASE x.overall = "allow" /\ x.outcome = "worker_executed" -> "completed"
      [] x.overall = "deny"                                   -> "denied"
      [] x.outcome = "worker_failed"                          -> "failed"
      [] OTHER                                                -> "runtime_rehearsed"

\* An id is made of its kind and its parts.
Id(kind, parts) == <<kind>> \o parts

\* The ids of a runtime event, and those a view of the job makes up for it again.
CaptureIds(x) ==
    LET job == Id("job", <<x.hash>>)
        execution == Id("execution", job \o <<"effective_stage", x.outcome>>) IN
    [job |-> job, execution |-> execution, parity |-> Id("parity", execution \o <<ParityStatus(x)>>)]

JobIds(x) ==
    LET job == Id("job", <<x.hash>>)
        execution == Id("execution", job \o <<"runtime_execute", x.outcome>>) IN
    [job |-> job, execution |-> execution, parity |-> Id("parity", execution \o <<"linked">>)]

\* The files a runtime event refers to, most of which are written after it, and those a
\* job does.
EventRefs(x) ==
    {Of("execution"), Of("decision"), Of("parity_latest"), <<"event", x.hash>>}
      \cup (IF x.probed THEN {<<"probe", x.hash>>} ELSE {})

JobRefs(x) ==
    {<<"job", x.hash>>, Of("decision"), Of("execution"), <<"event", x.hash>>, Of("parity_latest")}

----------------------------------------------------------------------------
(* The reports.                                                            *)

Whole(f) == evidence[f] # None /\ evidence[f].whole

\* load_shadow_run_capture: the file tells of a shadow run.
IsShadow(file) == Whole(Of(file)) /\ Latests(file).kind = "shadow"

\* render_action_parity_summary: the latest answer against the latest event, of
\* whichever actions they are.
Actual(event) == IF event.whole /\ event.outcome = "worker_executed" THEN "allow" ELSE "deny"

Summary ==
    CASE Latests("reference_latest") = None -> "not_started"
      [] Latests("reference_latest") # None /\ Latests("event_latest") = None ->
            "pending_runtime_event"
      [] OTHER -> IF /\ Latests("reference_latest").whole
                     /\ Actual(Latests("event_latest")) = Latests("reference_latest").reference
                    THEN "match" ELSE "divergence"

\* The sections of `loom parity report` that show a file, and those that show a stream.
ParityFiles ==
    {f \in {"parity_latest", "reference_latest", "comparison_latest", "event_latest",
            "probe_latest"} : Latests(f) # None}

ParityStreams ==
    {s \in Streams \ {"audit"} : streams[s].lines # {} \/ streams[s].lost > 0}

\* Those of `loom shadow report`; without one, nothing is started.
ShadowFiles ==
    {f \in {"execution", "event_latest", "parity_latest", "decision", "shadow_latest"} :
        Latests(f) # None}

ParityNotStarted == ParityFiles = {} /\ ParityStreams = {}
ShadowNotStarted == ShadowFiles \ {"event_latest"} = {}

----------------------------------------------------------------------------
(* One write at a time.                                                    *)

Put(file, next) ==
    /\ evidence' = [evidence EXCEPT ![file] = command.x]
    /\ command' = [command EXCEPT !.pc = next]
    /\ UNCHANGED <<streams, dead, ops, crashes>>

AppendLine(stream, lines, next) ==
    /\ streams' = [streams EXCEPT ![stream].lines = @ \cup lines]
    /\ command' = [command EXCEPT !.pc = next]
    /\ UNCHANGED <<evidence, dead, ops, crashes>>

\* The run ends with Err.
Fail == command' = Idle /\ dead' = TRUE /\ UNCHANGED <<evidence, streams, ops, crashes>>

At(pc) == command.pc = pc
Mine(kind) == <<kind, command.x.hash>>
Line(k) == <<command.x.n, k>>

Execute ==
    /\ At("idle") /\ ops < MaxOps
    /\ \E hash \in Hashes, reference \in {"allow", "deny"} : \E overall \in Overalls(reference) :
         command' = [Idle EXCEPT !.pc = "decision",
                        !.x = [n |-> ops + 1, kind |-> "run", hash |-> hash, reference |-> reference,
                               overall |-> overall, outcome |-> "none", probed |-> FALSE,
                               whole |-> TRUE]]
    /\ ops' = ops + 1
    /\ dead' = FALSE
    /\ UNCHANGED <<evidence, streams, crashes>>

Decision == At("decision") /\ Put(Of("decision"), "worker")

\* The budget's and the worker's errors end the run before it has told of anything.
Worker ==
    /\ At("worker")
    /\ \/ /\ \E outcome \in Outcomes(command.x.overall) :
               command' = [command EXCEPT !.pc = "probe", !.x.outcome = outcome]
          /\ UNCHANGED <<evidence, streams, dead, ops, crashes>>
       \/ Fail

\* capture_reference_probe: without a script, or when it fails, only the stream tells.
Probe ==
    \/ /\ At("probe")
       /\ \/ AppendLine("probe_stream", {Line(1)}, "reference")
          \/ Fail
          \/ LET x == [command.x EXCEPT !.probed = TRUE] IN
             /\ evidence' = [evidence EXCEPT ![Mine("probe")] = x]
             /\ command' = [command EXCEPT !.pc = "probe_latest", !.x = x]
             /\ UNCHANGED <<streams, dead, ops, crashes>>
    \/ At("probe_latest") /\ Put(Of("probe_latest"), "probe_stream")
    \/ At("probe_stream") /\ AppendLine("probe_stream", {Line(1)}, "reference")

\* write_reference_parity_artifacts
Reference ==
    \/ At("reference") /\ Put(Mine("reference"), "reference_latest")
    \/ At("reference_latest") /\ Put(Of("reference_latest"), "reference_stream")
    \/ At("reference_stream") /\ AppendLine("reference_stream", {Line(1)}, "audit")

\* finalize_runtime_budget and emit_runtime_audit, either of which may fail.
Audit == At("audit") /\ (AppendLine("audit", {Line(1)}, "parity_stream") \/ Fail)

\* The four lines, each appended by itself.
ParityStream ==
    /\ At("parity_stream")
    /\ streams' = [streams EXCEPT !["parity_stream"].lines = @ \cup {Line(command.k + 1)}]
    /\ command' = [command EXCEPT !.k = @ + 1, !.pc = IF command.k = 3 THEN "event" ELSE @]
    /\ UNCHANGED <<evidence, dead, ops, crashes>>

EventKept ==
    \/ At("event") /\ Put(Mine("event"), "event_stream")
    \/ At("event_stream") /\ AppendLine("event_stream", {Line(1)}, "comparison")

\* write_runtime_event_artifacts
Event ==
    \/ At("event") /\ Put(Mine("event"), "event_latest")
    \/ At("event_latest") /\ Put(Of("event_latest"), "event_stream")
    \/ At("event_stream") /\ AppendLine("event_stream", {Line(1)}, "comparison")

ReceiptEarly ==
    \/ At("comparison") /\ Put(Of("execution"), "comparison_latest")
    \/ At("comparison_latest") /\ Put(Of("comparison_latest"), "comparison_stream")
    \/ At("comparison_stream") /\ AppendLine("comparison_stream", {Line(1)}, "execution")

\* write_parity_comparison_artifacts
Comparison ==
    \/ At("comparison") /\ Put(Mine("comparison"), "comparison_latest")
    \/ At("comparison_latest") /\ Put(Of("comparison_latest"), "comparison_stream")
    \/ At("comparison_stream") /\ AppendLine("comparison_stream", {Line(1)}, "execution")

\* The receipt, the parity report and the job.
Receipt ==
    \/ At("execution") /\ Put(Of("execution"), "parity_latest")
    \/ At("parity_latest") /\ Put(Of("parity_latest"), IF command.x.kind = "run" THEN "job" ELSE "shadow_stream")
    \/ /\ At("job")
       /\ evidence' = [evidence EXCEPT ![Mine("job")] = command.x]
       /\ command' = Idle
       /\ UNCHANGED <<streams, dead, ops, crashes>>

\* persist_shadow_run_capture writes the receipt, its own latest file, the parity
\* report and a line of the parity stream.
Shadow ==
    /\ At("idle") /\ ops < MaxOps
    /\ command' = [Idle EXCEPT !.pc = "shadow_execution",
                      !.x = [n |-> ops + 1, kind |-> "shadow", whole |-> TRUE]]
    /\ ops' = ops + 1
    /\ dead' = FALSE
    /\ UNCHANGED <<evidence, streams, crashes>>

Persist ==
    \/ At("shadow_execution") /\ Put(Of("execution"), "shadow_latest")
    \/ At("shadow_latest") /\ Put(Of("shadow_latest"), "parity_latest")
    \/ /\ At("shadow_stream")
       /\ streams' = [streams EXCEPT !["parity_stream"].lines = @ \cup {Line(1)}]
       /\ command' = Idle
       /\ UNCHANGED <<evidence, dead, ops, crashes>>

Crash ==
    /\ ~At("idle") /\ crashes < MaxCrashes
    /\ command' = Idle /\ dead' = TRUE
    /\ crashes' = crashes + 1
    /\ UNCHANGED <<evidence, streams, ops>>

\* The file a death leaves empty, by where it finds the run.
FileAt ==
    CASE command.pc \in Latest        -> Of(command.pc)
      [] command.pc \in Kept          -> Mine(command.pc)
      [] command.pc = "shadow_execution" -> Of("execution")
      [] OTHER                        -> None

\* Every file is emptied before it is written, a stream with all its lines.
CrashTorn ==
    /\ crashes < MaxCrashes
    /\ \/ /\ FileAt # None
          /\ evidence' = [evidence EXCEPT ![FileAt] = [command.x EXCEPT !.whole = FALSE]]
          /\ UNCHANGED streams
       \/ \E stream \in Streams :
            /\ \/ At(stream)
               \/ At("shadow_stream") /\ stream = "parity_stream"
            /\ streams' = [streams EXCEPT ![stream] = [lines |-> {}, lost |-> command.x.n]]
            /\ UNCHANGED evidence
    /\ command' = Idle /\ dead' = TRUE
    /\ crashes' = crashes + 1
    /\ UNCHANGED ops

Next ==
    \/ Execute \/ Decision \/ Worker \/ Probe \/ Reference \/ Audit \/ ParityStream
    \/ Event \/ Comparison \/ Receipt \/ Shadow \/ Persist \/ Crash \/ CrashTorn

Spec == Init /\ [][Next]_vars

----------------------------------------------------------------------------
(* Properties                                                              *)

\* The files of an execution in the order in which they are written.
Chain(hash) ==
    << Of("decision"), <<"reference", hash>>, Of("reference_latest"), <<"event", hash>>,
       Of("event_latest"), <<"comparison", hash>>, Of("comparison_latest"), Of("execution"),
       Of("parity_latest"), <<"job", hash>> >>

\* The streams that were written before the i-th of them.
Before(i) ==
    (IF i > 1 THEN {"probe_stream"} ELSE {})
      \cup (IF i > 3 THEN {"reference_stream", "audit", "parity_stream"} ELSE {})
      \cup (IF i > 5 THEN {"event_stream"} ELSE {})
      \cup (IF i > 7 THEN {"comparison_stream"} ELSE {})

Told(s, n) ==
    \/ streams[s].lost >= n
    \/ \A k \in 1..(IF s = "parity_stream" THEN 4 ELSE 1) : <<n, k>> \in streams[s].lines

\* Whatever file tells of an execution, the ones written before it tell of that one or a
\* later, and the streams have its lines: a receipt leads to its comparison, a comparison
\* to its event, an event to the reference's answer (capture_runtime_execution).
EvidenceLeads == \A hash \in Hashes : \A j \in 1..10 :
    LET f == Chain(hash)[j] IN
    Whole(f) /\ evidence[f].kind = "run" /\ evidence[f].hash = hash =>
        /\ \A i \in 1..(j - 1) : LET g == Chain(hash)[i] IN
             evidence[g] # None /\ evidence[g].n >= evidence[f].n
        /\ \A s \in Before(j) : Told(s, evidence[f].n)

\* When the last run was an execution that wrote all its files, what its event and its
\* job refer to is its own, and the summary compares one execution; it agrees with the
\* comparison and the job, unless the worker of an allowed action failed or the
\* sanctions refused what the reference refuses too (render_action_parity_summary).
StatementsAgree ==
    At("idle") /\ ~dead /\ Whole(Of("parity_latest")) /\ Latests("parity_latest").n = ops
            /\ ~IsShadow("parity_latest") =>
        LET x == Latests("parity_latest") IN
        /\ \A f \in EventRefs(x) \cup JobRefs(x) : evidence[f].n = x.n
        /\ Latests("reference_latest") = x /\ Latests("event_latest") = x
        /\ (JobStatus(evidence[<<"job", x.hash>>]) = "completed") =
              (Actual(Latests("event_latest")) = "allow")
        /\ (Summary # ParityStatus(Latests("comparison_latest"))) =
              (x.outcome = "worker_failed" \/ (x.overall = "hard_deny" /\ x.reference = "deny"))

\* The comparison an audit line names by its parity id is the one that was written, unless
\* the treasury refused the action; a job's view names its event's job
\* (emit_runtime_audit, generate_job_ids).
IdsLead == \A hash \in Hashes :
    /\ LET x == evidence[<<"comparison", hash>>] IN
       x # None => (AuditStatus(x) # ParityStatus(x)) = (x.outcome = "budget_reservation_denied")
    /\ LET x == evidence[<<"job", hash>>] IN
       x # None => JobIds(x).job = CaptureIds(evidence[<<"event", hash>>]).job

\* A report calls nothing captured only if no run has written anything it shows.
ReportsStarted ==
    /\ ParityNotStarted => \A f \in Files :
         evidence[f] = None \/ f[1] \in {"decision", "execution", "shadow_latest", "probe", "reference"}
    /\ ShadowNotStarted => \A f \in Files : evidence[f] = None
=============================================================================
