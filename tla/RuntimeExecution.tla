-------------------------- MODULE RuntimeExecution --------------------------
(***************************************************************************)
(* One governed execution, as a supervisor pass and `loom action execute`  *)
(* make it: capture_decision and capture_runtime_execution, with the       *)
(* budget the kernel's treasury sets aside, the worker and the artifacts.  *)
(*                                                                         *)
(* Executions of several processes share the treasury, the audit log and,  *)
(* when they are of the same job, the job's result.json.  Every call out   *)
(* of the process and every access to a shared file is a step; an          *)
(* execution may end with Err or the death of its process at any step.     *)
(*                                                                         *)
(* External: the treasury, whose calls are atomic, the audit command of    *)
(* the kernel, and what a worker does.  Abstracted: the artifacts that     *)
(* only repeat what the report says.                                       *)
(***************************************************************************)
EXTENDS Naturals

CONSTANTS
    Execs,     \* executions
    JobOf,     \* the job of each
    MaxFaults  \* bound: executions that end with Err or a death

Jobs == {JobOf[e] : e \in Execs}

ASSUME JobOfAssumption == JobOf = [e \in Execs |-> JobOf[e]]
ASSUME BoundsAssumption == MaxFaults \in Nat

VARIABLES
    pc,
    decision,  \* reference.allowed and overall_decision
    budget,    \* budget_capture.status
    outcome,   \* runtime_outcome
    success,   \* output.status.success() of the Python worker
    treasury,  \* the reservations the treasury keeps
    results,   \* jobs/<job>/result.json: the executions that wrote it last
    log,       \* the lines of the runtime audit log
    copy,      \* the log as append_line has read it
    report,    \* the parity report, job snapshot and economy hook
    ran, took, \* history: workers started; whose result was taken for whose
    overlapped, \* history: an execution began while another was under way
    lost,      \* history: executions done when a rewrite of the log ended half-way
    faults

own  == <<decision, budget, outcome, success>>
disk == <<results, log, copy, report>>
vars == <<pc, own, treasury, disk, ran, took, faults, overlapped, lost>>

Active == {"reserve", "dispatch", "python", "exited", "wasm", "finalize",
           "audit", "append", "emptied", "record"}
Ended == {"done", "err"}

Decisions == {"allow", "deny", "hard_deny"}
Budgets == {"none", "decision_denied", "skipped_zero_cost", "not_available",
            "reservation_failed", "reservation_denied", "reserved",
            "committed", "commit_failed", "released", "release_failed",
            "not_requested", "other_status"}
Outcomes == {"none", "denied", "budget_reservation_denied", "worker_executed",
             "worker_failed", "fuel_exhausted"}
Statuses == {"queued", "completed", "denied", "failed", "runtime_rehearsed"}

NoDecision == [reference |-> FALSE, overall |-> "deny"]
NoReport == [parity |-> "none", status |-> "queued", charged |-> FALSE]

Init ==
    /\ pc = [e \in Execs |-> "idle"]
    /\ decision = [e \in Execs |-> NoDecision]
    /\ budget = [e \in Execs |-> "none"]
    /\ outcome = [e \in Execs |-> "none"]
    /\ success = [e \in Execs |-> FALSE]
    /\ treasury = [e \in Execs |-> "none"]
    /\ results = [j \in Jobs |-> {}]
    /\ log = {} /\ copy = [e \in Execs |-> {}]
    /\ report = [e \in Execs |-> NoReport]
    /\ ran = {} /\ took = {} /\ faults = 0 /\ overlapped = FALSE /\ lost = {}

Goto(e, l) == pc' = [pc EXCEPT ![e] = l]
SetBudget(e, s) == budget' = [budget EXCEPT ![e] = s]
SetOutcome(e, o) == outcome' = [outcome EXCEPT ![e] = o]

Allowed(e) == decision[e].overall = "allow"

-----------------------------------------------------------------------------
\* capture_decision: the sanction controls first, then the reference gate.
Decide(sanctioned, reference) ==
    CASE sanctioned -> "hard_deny"
      [] ~sanctioned /\ reference -> "allow"
      [] OTHER -> "deny"

Begin(e) ==
    /\ pc[e] = "idle"
    /\ overlapped' = (overlapped \/ \E f \in Execs : pc[f] \in Active)
    /\ \E sanctioned, reference \in BOOLEAN :
         LET overall == Decide(sanctioned, reference) IN
         /\ decision' = [decision EXCEPT
                ![e] = [reference |-> reference, overall |-> overall]]
         /\ IF overall = "allow"
            THEN Goto(e, "reserve") /\ UNCHANGED budget
            ELSE Goto(e, "dispatch") /\ SetBudget(e, "decision_denied")
    /\ UNCHANGED <<outcome, success, treasury, disk, ran, took, faults, lost>>

\* reserve_runtime_budget.  Without a price, a treasury or an answer from it, no
\* budget is set aside and the execution goes on.
Reserve(e) ==
    /\ pc[e] = "reserve"
    /\ \/ /\ \E s \in {"skipped_zero_cost", "not_available",
                       "reservation_failed", "reservation_denied"} :
               SetBudget(e, s)
          /\ UNCHANGED treasury
       \/ /\ SetBudget(e, "reserved")
          /\ treasury' = [treasury EXCEPT ![e] = "reserved"]
    /\ Goto(e, "dispatch")
    /\ UNCHANGED <<decision, outcome, success, disk, ran, took, faults, overlapped,
                   lost>>

\* Mutant: whatever the treasury says, the worker is dispatched.
RefusalUnheeded(e) == IF Allowed(e) THEN "none" ELSE "denied"

\* The refusal that keeps the worker from being dispatched.
Refusal(e) ==
    CASE ~Allowed(e) -> "denied"
      [] Allowed(e) /\ budget[e] = "reservation_denied" ->
            "budget_reservation_denied"
      [] OTHER -> "none"

\* run_worker_supervisor: nothing is dispatched, or a Python process or a Wasm
\* guest is started.
Dispatch(e) ==
    /\ pc[e] = "dispatch"
    /\ SetOutcome(e, Refusal(e))
    /\ IF Refusal(e) = "none"
       THEN ran' = ran \cup {e} /\ \E k \in {"python", "wasm"} : Goto(e, k)
       ELSE Goto(e, "finalize") /\ UNCHANGED ran
    /\ UNCHANGED <<decision, budget, success, treasury, disk, took, faults, overlapped,
                   lost>>

\* The Python worker writes its result, or does not, and exits.
RunPython(e) ==
    /\ pc[e] = "python"
    /\ \E wrote, ok \in BOOLEAN :
         /\ results' = IF wrote THEN [results EXCEPT ![JobOf[e]] = {e}]
                                ELSE results
         /\ success' = [success EXCEPT ![e] = ok]
    /\ Goto(e, "exited")
    /\ UNCHANGED <<decision, budget, outcome, treasury, log, copy, report, ran,
                   took, faults, overlapped, lost>>

\* dispatch_python_worker: the worker has completed when it exited with success
\* and there is a result, whoever wrote it.
TakeResult(e) ==
    /\ pc[e] = "exited"
    /\ IF success[e] /\ results[JobOf[e]] # {}
       THEN /\ SetOutcome(e, "worker_executed")
            /\ took' = took \cup ({e} \X results[JobOf[e]])
       ELSE SetOutcome(e, "worker_failed") /\ UNCHANGED took
    /\ Goto(e, "finalize")
    /\ UNCHANGED <<decision, budget, success, treasury, disk, ran, faults, overlapped,
                   lost>>

\* dispatch_wasm_worker writes a result in every case.
RunWasm(e) ==
    /\ pc[e] = "wasm"
    /\ \E o \in {"worker_executed", "worker_failed", "fuel_exhausted"} :
         /\ SetOutcome(e, o)
         /\ took' = IF o = "worker_executed" THEN took \cup {<<e, e>>} ELSE took
    /\ results' = [results EXCEPT ![JobOf[e]] = {e}]
    /\ Goto(e, "finalize")
    /\ UNCHANGED <<decision, budget, success, treasury, log, copy, report, ran,
                   faults, overlapped, lost>>

\* Mutant: a worker that was started is charged for.
SettlementRan(e) ==
    IF e \in ran THEN [done |-> "committed", failed |-> "commit_failed"]
                 ELSE [done |-> "released", failed |-> "release_failed"]

\* The budget is charged when the worker completed and given back otherwise.
Settlement(e) ==
    IF outcome[e] = "worker_executed"
    THEN [done |-> "committed", failed |-> "commit_failed"]
    ELSE [done |-> "released", failed |-> "release_failed"]

\* finalize_runtime_budget.  A reservation the treasury gave no id for is not asked
\* about; a treasury that has gone, that fails or that answers with another status
\* leaves the reservation; and the execution goes on.
Finalize(e) ==
    /\ pc[e] = "finalize"
    /\ IF budget[e] = "reserved"
       THEN \/ /\ treasury' = [treasury EXCEPT ![e] = Settlement(e).done]
               /\ SetBudget(e, Settlement(e).done)
            \/ /\ \E s \in {Settlement(e).failed, "not_available", "not_requested",
                          "other_status"} : SetBudget(e, s)
               /\ UNCHANGED treasury
       ELSE UNCHANGED <<treasury, budget>>
    /\ Goto(e, "audit")
    /\ UNCHANGED <<decision, outcome, success, disk, ran, took, faults, overlapped,
                   lost>>

-----------------------------------------------------------------------------
(* What is recorded. *)

\* emit_runtime_audit names the parity by the source of the decision: in what it gives
\* the kernel's audit command ...
AuditParity(e) ==
    IF decision[e].overall = "hard_deny" THEN "unknown" ELSE "match"

\* ... in the identifier it writes by itself ...
FallbackParity(e) ==
    IF decision[e].overall = "hard_deny" THEN "divergence" ELSE "match"

\* ... and the report by comparing the decisions.
ReportParity(e) ==
    LET effective == IF outcome[e] = "budget_reservation_denied" THEN "deny"
                     ELSE decision[e].overall
    IN  IF effective = (IF decision[e].reference THEN "allow" ELSE "deny")
        THEN "match" ELSE "divergence"

Line(e, parity) == [exec |-> e, parity |-> parity, budget |-> budget[e]]

\* The kernel's audit command appends the line; without one, or when it fails,
\* append_line reads the log ...
Audit(e) ==
    /\ pc[e] = "audit"
    /\ \/ log' = log \cup {Line(e, AuditParity(e))} /\ Goto(e, "record")
          /\ UNCHANGED copy
       \/ copy' = [copy EXCEPT ![e] = log] /\ Goto(e, "append") /\ UNCHANGED log
    /\ UNCHANGED <<own, treasury, results, report, ran, took, faults, overlapped, lost>>

\* ... and writes it again: fs::write empties the file (a beginning that a death leaves
\* of it is not told apart from nothing) ...
AppendEmpty(e) ==
    /\ pc[e] = "append"
    /\ log' = {}
    /\ Goto(e, "emptied")
    /\ UNCHANGED <<own, treasury, results, copy, report, ran, took, faults, overlapped,
                   lost>>

\* Mutant: the log is replaced by the line.
AppendTruncates(e) ==
    /\ pc[e] = "emptied"
    /\ log' = {Line(e, FallbackParity(e))}
    /\ copy' = [copy EXCEPT ![e] = {}]
    /\ Goto(e, "record")
    /\ UNCHANGED <<own, treasury, results, report, ran, took, faults, overlapped, lost>>

\* ... and writes what was read with the line at its end.
Append(e) ==
    /\ pc[e] = "emptied"
    /\ log' = copy[e] \cup {Line(e, FallbackParity(e))}
    /\ copy' = [copy EXCEPT ![e] = {}]
    /\ Goto(e, "record")
    /\ UNCHANGED <<own, treasury, results, report, ran, took, faults, overlapped, lost>>

\* The status capture_runtime_execution gives the job's snapshot.
CaptureStatus(e) ==
    CASE Allowed(e) /\ outcome[e] = "worker_executed" -> "completed"
      [] decision[e].overall = "deny" -> "denied"
      [] outcome[e] \in {"worker_failed", "fuel_exhausted"} -> "failed"
      [] OTHER -> "runtime_rehearsed"

\* Mutant: what was reserved is what it cost.
ChargedReserved(e) == budget[e] \in {"committed", "commit_failed"}

\* emit_economy_hook tells the kernel a cost only when the budget was committed.
Charged(e) == budget[e] = "committed"

\* The economy hook, the parity report and the snapshot.
Record(e) ==
    /\ pc[e] = "record"
    /\ report' = [report EXCEPT ![e] = [parity |-> ReportParity(e),
                                        status |-> CaptureStatus(e),
                                        charged |-> Charged(e)]]
    /\ Goto(e, "done")
    /\ UNCHANGED <<own, treasury, results, log, copy, ran, took, faults, overlapped,
                   lost>>

Past == {e \in Execs : pc[e] = "done"}

\* A call returns Err, which ends the execution, or the process dies.  When that is in
\* the rewrite of the log, the lines written before are lost.
Fail(e) ==
    /\ pc[e] \in Active /\ faults < MaxFaults
    /\ faults' = faults + 1
    /\ lost' = IF pc[e] = "emptied" THEN lost \cup Past ELSE lost
    /\ Goto(e, "err")
    /\ UNCHANGED <<own, treasury, disk, ran, took, overlapped>>

Next == \E e \in Execs :
    \/ Begin(e) \/ Reserve(e) \/ Dispatch(e)
    \/ RunPython(e) \/ TakeResult(e) \/ RunWasm(e)
    \/ Finalize(e) \/ Audit(e) \/ AppendEmpty(e) \/ Append(e) \/ Record(e)
    \/ Fail(e)

Spec == Init /\ [][Next]_vars

-----------------------------------------------------------------------------
(* Properties. *)

Lines == [exec : Execs, parity : {"match", "divergence", "unknown"}, budget : Budgets]
Reports == [parity : {"none", "match", "divergence"}, status : Statuses,
            charged : BOOLEAN]

\* Every variable holds values of its kind.
TypeOK ==
    /\ pc \in [Execs -> {"idle"} \cup Active \cup Ended]
    /\ decision \in [Execs -> [reference : BOOLEAN, overall : Decisions]]
    /\ budget \in [Execs -> Budgets]
    /\ outcome \in [Execs -> Outcomes]
    /\ success \in [Execs -> BOOLEAN]
    /\ treasury \in [Execs -> {"none", "reserved", "committed", "released"}]
    /\ results \in [Jobs -> SUBSET Execs]
    /\ log \subseteq Lines /\ copy \in [Execs -> SUBSET Lines]
    /\ report \in [Execs -> Reports]
    /\ ran \subseteq Execs /\ took \subseteq Execs \X Execs
    /\ faults \in Nat /\ overlapped \in BOOLEAN /\ lost \subseteq Execs

Completed == {e \in Execs : outcome[e] = "worker_executed"}

Promise == INSTANCE BudgetOnce WITH completed <- Completed

\* The budget is set aside before the worker starts, settled at most once and
\* only after it, charged when it completed and given back when it did not,
\* whatever fails and whatever overlaps.
BudgetOnce == Promise!Spec

\* An execution the gates or the treasury refused starts no worker, costs
\* nothing and is recorded as neither completed nor failed.
RefusedNeverRuns ==
    \A e \in Execs :
        pc[e] # "idle" /\ (~Allowed(e) \/ budget[e] = "reservation_denied") =>
            /\ e \notin ran
            /\ treasury[e] = "none"
            /\ report[e].status \notin {"completed", "failed"}

\* An execution that ended with Ok left the treasury, the economy hook and the
\* job snapshot in agreement: it was charged only when it is recorded as
\* completed, the hook was told a cost exactly when it was charged, and a
\* reservation that was left is named as such.
BooksAgree ==
    \A e \in Execs : pc[e] = "done" =>
        /\ report[e].charged <=> treasury[e] = "committed"
        /\ treasury[e] = "committed" => report[e].status = "completed"
        /\ treasury[e] = "reserved" =>
             budget[e] \in {"commit_failed", "release_failed", "not_available",
                            "not_requested", "other_status"}

\* What is known of one execution at every step.
Book(e) ==
    /\ treasury[e] = "committed" <=> budget[e] = "committed"
    /\ treasury[e] = "released" <=> budget[e] = "released"
    /\ budget[e] = "reserved" => treasury[e] = "reserved"
    /\ treasury[e] = "reserved" =>
         budget[e] \in {"reserved", "commit_failed", "release_failed",
                        "not_available", "not_requested", "other_status"}
    /\ budget[e] = "committed" => outcome[e] = "worker_executed"
    /\ outcome[e] \in {"worker_executed", "worker_failed", "fuel_exhausted"} =>
         e \in ran
    /\ e \in ran => Allowed(e) /\ budget[e] # "reservation_denied"
    /\ pc[e] # "idle" /\ (~Allowed(e) \/ budget[e] = "reservation_denied") =>
         treasury[e] = "none"
    /\ pc[e] \in {"idle", "reserve"} => budget[e] = "none" /\ treasury[e] = "none"
    /\ pc[e] \in {"reserve", "python", "exited", "wasm"} => Allowed(e)
    /\ pc[e] \in {"idle", "reserve", "dispatch", "python", "exited", "wasm"} =>
         outcome[e] = "none"
    /\ pc[e] \in {"idle", "reserve", "dispatch"} => e \notin ran
    /\ pc[e] \in {"python", "exited", "wasm"} => e \in ran
    /\ pc[e] \in {"audit", "append", "emptied", "record", "done"} => budget[e] # "reserved"
    /\ pc[e] # "done" => report[e] = NoReport
    /\ report[e].status \in {"completed", "failed"} => e \in ran
    /\ pc[e] = "done" =>
         /\ report[e].charged <=> budget[e] = "committed"
         /\ budget[e] = "committed" => report[e].status = "completed"

\* The inductive invariant behind the three properties above.  The treasury's
\* account of an execution and its own differ only where a settlement failed; a
\* budget is committed for a completed execution only; and where an execution is
\* tells whether its worker was started and what may have been recorded.
BookInv == \A e \in Execs : Book(e)

HasLine(e, ls) ==
    \E l \in ls : l.exec = e /\ (l.budget = "committed" <=> report[e].charged)

\* As long as no executions have overlapped, one that ended with Ok has a line in the
\* audit log that says whether its budget was committed, whenever the log is not being
\* written again; only a death within such a rewrite takes lines away, those of the
\* executions that had ended before it (append_line).
AuditComplete ==
    ~overlapped /\ (\A e \in Execs : pc[e] # "emptied") =>
        \A e \in Past \ lost : HasLine(e, log)

\* A line of the audit log stays, whichever processes append to it.
AuditKept == [][log \subseteq log']_vars

\* A completed execution took the result its own worker wrote.
ResultIsOwn == \A p \in took : p[1] = p[2]

\* The audit line and the parity report of an execution name the same parity.
ParityAgrees ==
    \A e \in Execs, l \in log :
        pc[e] = "done" /\ l.exec = e => l.parity = report[e].parity
=============================================================================
