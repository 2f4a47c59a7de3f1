------------------------------- MODULE Gates -------------------------------
(***************************************************************************)
(* The gates before an action.  `loom shadow decide`, `shadow enforce` and *)
(* `action execute` ask the kernel three times, who the agent is (twice)   *)
(* and what its reference adapter says, and write decision.json; `shadow   *)
(* preflight` asks the same and leaves seven events, a reference log and a *)
(* report; `shadow compare` compares the two logs by position; `contract   *)
(* verify` leaves an artifact for each hook it could exercise.  The kernel *)
(* belongs to others: its court may sentence or release the agent between  *)
(* two of the questions.                                                   *)
(* There is one agent, and one command at a time.                          *)
(***************************************************************************)
EXTENDS Integers, Sequences, FiniteSets

CONSTANTS
    Hashes,         \* the actions, by the hash of their envelope
    Free,           \* those that cost nothing
    Sentences,      \* what the court may sentence the agent to
    MaxLines,       \* bound: lines of the event log
    MaxChanges,     \* bound: what the kernel changes
    MaxOps,         \* bound: commands
    MaxCrashes,     \* bound: deaths
    None

GatesAssumption ==
    /\ Free \subseteq Hashes
    /\ {} \in Sentences
    /\ {MaxLines, MaxChanges, MaxOps, MaxCrashes} \subseteq Nat

VARIABLES
    kernel,         \* the court's sentence, and the snapshot of it in the agent's record
    proofs,         \* artifacts/contract: hook -> the verification that wrote it, 0 for none
    verified,       \* the last answer of a verification: its number and the hooks passed
    events,         \* shadow/events.jsonl
    reference,      \* shadow/reference_events.jsonl, <<>> when there is none
    latest,         \* shadow/latest.json
    decision,       \* shadow/decision.json
    command,        \* the command at work
    torn,           \* a death has emptied the event log since the last report
    clock, ops, crashes         \* changes of the kernel, commands, deaths

vars == <<kernel, proofs, verified, events, reference, latest, decision, command,
          torn, clock, ops, crashes>>

\* In the order in which a preflight and the reference log write them.
Hooks == <<"agent_identity", "action_envelope", "sanction_controls", "cost_attribution",
           "approval_hook", "budget_gate", "audit_emission">>

Blocking == {"execute", "remediation_only"}

\* A command that is not running; `k` counts the lines or hooks it has come to.
Idle == [pc |-> "idle", op |-> None, hash |-> None, id |-> None, gate |-> None,
         k |-> 0, audit |-> None, passed |-> {}, free |-> TRUE, accused |-> FALSE]

\* Type invariant.
TypeOK ==
    /\ kernel.court \in Sentences /\ kernel.snapshot \in Sentences
    /\ DOMAIN proofs = {Hooks[k] : k \in 1..7}
    /\ \A h \in DOMAIN proofs : proofs[h] \in 0..MaxOps
    /\ \A k \in 1..Len(events) : events[k].hash \in Hashes
    /\ Len(reference) \in {0, 7}
    /\ torn \in BOOLEAN
    /\ clock \in 0..MaxChanges /\ ops \in 0..MaxOps /\ crashes \in 0..MaxCrashes

Init ==
    /\ kernel \in [court: Sentences, snapshot: Sentences]
    /\ proofs = [h \in {Hooks[k] : k \in 1..7} |-> 0]
    /\ verified = [n |-> 0, passed |-> {}]
    /\ events = <<>>
    /\ reference = <<>>
    /\ latest = [kind |-> "not_started"]
    /\ decision = None
    /\ command = Idle
    /\ torn = FALSE
    /\ clock = 0 /\ ops = 0 /\ crashes = 0

files == <<proofs, verified, events, reference, latest, decision, torn>>

----------------------------------------------------------------------------
(* What the kernel answers.                                                *)

\* derive_sanction_decision
Derive(restrictions) ==
    CASE restrictions = {}                  -> "clear"
      [] restrictions \cap Blocking # {}    -> "restricted_execute"
      [] OTHER                              -> "restricted"

\* A court that cannot be asked has restricted nobody, and the decision says so.
CourtAnswers ==
    {[restrictions |-> kernel.court, sanction |-> Derive(kernel.court)],
     [restrictions |-> {}, sanction |-> "unknown"]}

\* resolve_agent_identity: the record's own restrictions, if it has any, else the
\* court's.
Identities ==
    IF kernel.snapshot # {}
      THEN {[restrictions |-> kernel.snapshot, sanction |-> Derive(kernel.snapshot)]}
      ELSE CourtAnswers

\* The reference adapter looks at the sanctions, then at the approval, then at the
\* budget, and answers with the stage that denies; a reply may have no stage.
Replies ==
    IF kernel.court \cap Blocking # {}
      THEN {[allowed |-> FALSE, stage |-> "sanction_controls"]}
      ELSE {[allowed |-> TRUE, stage |-> "ok"], [allowed |-> FALSE, stage |-> "approval_hook"],
            [allowed |-> FALSE, stage |-> "budget_gate"], [allowed |-> FALSE, stage |-> "unknown"]}

\* The decisions evaluate_reference_gates makes of the stage.
SanctionGate(gate) == IF gate.stage = "sanction_controls" THEN "deny" ELSE "allow"

ApprovalGate(gate) ==
    CASE gate.stage = "sanction_controls" -> "not_reached"
      [] gate.stage = "approval_hook"     -> "deny"
      [] OTHER                            -> "allow"

BudgetGate(gate, hash) ==
    CASE gate.stage \in {"sanction_controls", "approval_hook"} -> "not_reached"
      [] gate.stage = "budget_gate"                            -> "deny"
      [] hash \in Free                                         -> "skipped_zero_cost"
      [] OTHER                                                 -> "allow"

----------------------------------------------------------------------------
(* The questions of a command, one step each.                              *)

Restricted == kernel.court \cap Blocking # {}
Recorded == (kernel.court \cup kernel.snapshot) \cap Blocking # {}

\* A command begins.  From here on `free` says whether the agent has been
\* unrestricted at some time, `accused` whether the kernel ever had it restricted.
Begin(op, hash) ==
    /\ command.pc = "idle" /\ ops < MaxOps
    /\ op = "preflight" => Len(events) + 7 <= MaxLines
    /\ ops' = ops + 1
    /\ command' = [Idle EXCEPT !.pc = "resolve", !.op = op, !.hash = hash,
                               !.free = ~Restricted, !.accused = Recorded]
    /\ UNCHANGED <<kernel, files, clock, crashes>>

\* handle_shadow and handle_action: an action without type or resource is refused
\* before anything is asked, so it is no command here.
Command == \E op \in {"preflight", "decide", "verify"}, hash \in Hashes : Begin(op, hash)

\* An unknown agent, a missing registry or an answer that is no record ends the
\* command; a verification goes on without an identity.
Resolve ==
    /\ command.pc = "resolve"
    /\ \/ \E id \in Identities :
            command' = [command EXCEPT !.id = id,
                !.pc = IF command.op = "verify" THEN "prove" ELSE "envelope"]
       \/ command' = IF command.op = "verify" THEN [command EXCEPT !.pc = "prove"] ELSE Idle
    /\ UNCHANGED <<kernel, files, clock, ops, crashes>>

\* build_action_envelope resolves the agent a second time, and keeps of the answer
\* only the names.
Envelope ==
    /\ command.pc = "envelope"
    /\ command' \in {[command EXCEPT !.pc = "gate"], Idle}
    /\ UNCHANGED <<kernel, files, clock, ops, crashes>>

\* evaluate_reference_gates
Gate ==
    /\ command.pc = "gate"
    /\ \/ \E reply \in Replies : command' = [command EXCEPT !.gate = reply,
            !.pc = IF command.op = "decide" THEN "decide" ELSE "emit"]
       \/ command' = Idle
    /\ UNCHANGED <<kernel, files, clock, ops, crashes>>

----------------------------------------------------------------------------
(* shadow decide, shadow enforce and what action execute does first.       *)

DecidedAlone(id, gate) ==
    IF id.restrictions \cap Blocking # {} THEN "hard_deny" ELSE "allow"

\* capture_decision: the sanctions the identity carries come first.
Decided(id, gate) ==
    CASE id.restrictions \cap Blocking # {}                  -> "hard_deny"
      [] id.restrictions \cap Blocking = {} /\ gate.allowed  -> "allow"
      [] OTHER                                               -> "deny"

Decide ==
    /\ command.pc = "decide"
    /\ decision' = [hash |-> command.hash, overall |-> Decided(command.id, command.gate),
                    free |-> command.free, accused |-> command.accused]
    /\ command' = Idle
    /\ UNCHANGED <<kernel, proofs, verified, events, reference, latest, torn, clock, ops, crashes>>

----------------------------------------------------------------------------
(* shadow preflight: six lines, the kernel's audit preview, the reference  *)
(* log, the seventh line, the report.                                      *)

\* What the k-th line of a preflight says.
Said(m, k, audit) ==
    CASE Hooks[k] = "agent_identity"    -> "resolved"
      [] Hooks[k] = "action_envelope"   -> "constructed"
      [] Hooks[k] = "sanction_controls" -> SanctionGate(m.gate)
      [] Hooks[k] = "cost_attribution"  -> "estimated"
      [] Hooks[k] = "approval_hook"     -> ApprovalGate(m.gate)
      [] Hooks[k] = "budget_gate"       -> BudgetGate(m.gate, m.hash)
      [] Hooks[k] = "audit_emission"    -> audit

Line(m, k, audit) == [hash |-> m.hash, hook |-> Hooks[k], decision |-> Said(m, k, audit)]

EmittedLocally(audit) == events' = Append(events,
    [Line(command, command.k + 1, audit) EXCEPT !.decision =
        IF command.k = 2 /\ command.id.restrictions \cap Blocking = {} THEN "allow" ELSE @])

\* append_line
Emitted(audit) == events' = Append(events, Line(command, command.k + 1, audit))

\* The first six lines, each appended by itself.
Emit ==
    /\ command.pc = "emit"
    /\ Emitted(None)
    /\ command' = [command EXCEPT !.k = @ + 1, !.pc = IF command.k = 5 THEN "audit" ELSE "emit"]
    /\ UNCHANGED <<kernel, proofs, verified, reference, latest, decision, torn, clock, ops, crashes>>

\* emit_kernel_audit_preview: by the kernel's serializer, or else by Loom itself.
AuditPreview ==
    /\ command.pc = "audit"
    /\ \E by \in {"kernel_preview_written", "local_preview_written"} :
         command' = [command EXCEPT !.pc = "reference", !.audit = by]
    /\ UNCHANGED <<kernel, files, clock, ops, crashes>>

\* The reference log is replaced, and says that the adapter emits no audit.
WriteReference ==
    /\ command.pc = "reference"
    /\ reference' = [k \in 1..7 |-> Line(command, k, "not_exercised")]
    /\ command' = [command EXCEPT !.pc = "last"]
    /\ UNCHANGED <<kernel, proofs, verified, events, latest, decision, torn, clock, ops, crashes>>

EmitLast ==
    /\ command.pc = "last"
    /\ Emitted(command.audit)
    /\ command' = [command EXCEPT !.pc = "report"]
    /\ UNCHANGED <<kernel, proofs, verified, reference, latest, decision, torn, clock, ops, crashes>>

Report ==
    /\ command.pc = "report"
    /\ latest' = [kind |-> "preflight_captured", hash |-> command.hash,
                  gate |-> command.gate, audit |-> command.audit,
                  sanction |-> command.id.sanction, free |-> command.free]
    /\ command' = Idle
    /\ torn' = FALSE
    /\ UNCHANGED <<kernel, proofs, verified, events, reference, decision, clock, ops, crashes>>

\* compare_logs: line by line, then what one log has more than the other.
Pairs == 1..(IF Len(reference) < Len(events) THEN Len(reference) ELSE Len(events))
Matching == {k \in Pairs : events[k] = reference[k]}

\* The log holds the seven lines of a preflight and no others; `one` remembers it.
OnePreflight == Len(events) = 7 /\ \A k \in 1..7 : events[k].hook = Hooks[k]

Compare ==
    /\ command.pc = "idle" /\ ops < MaxOps
    /\ reference # <<>>
    /\ latest' = [kind |-> "comparison_complete", one |-> OnePreflight,
                  primary |-> Len(reference),
                  shadow |-> Len(events), matches |-> Cardinality(Matching),
                  divergences |-> (IF Len(reference) < Len(events) THEN Len(events)
                                                                  ELSE Len(reference))
                                  - Cardinality(Matching)]
    /\ ops' = ops + 1
    /\ UNCHANGED <<kernel, proofs, verified, events, reference, decision, command, torn, clock, crashes>>

----------------------------------------------------------------------------
(* contract verify: each hook that could be exercised leaves its artifact, *)
(* one that could not leaves what an earlier verification wrote.           *)

VerifyOrder == <<"agent_identity", "action_envelope", "cost_attribution", "approval_hook",
                 "audit_emission", "sanction_controls", "budget_gate">>

Hook == VerifyOrder[command.k + 1]

ProofOnce(passes) == proofs' = IF passes /\ proofs[Hook] = 0
                                  THEN [proofs EXCEPT ![Hook] = ops] ELSE proofs

\* The artifact of a hook that passed.
Proof(passes) == proofs' = IF passes THEN [proofs EXCEPT ![Hook] = ops] ELSE proofs

Passed(passes) ==
    [command EXCEPT !.k = @ + 1, !.pc = IF @ = "prove" /\ command.k = 6 THEN "answer" ELSE @,
                    !.passed = IF passes THEN @ \cup {Hook} ELSE @]

\* The hooks that want an identity, and the budget gate, which wants the reply the
\* approval hook got.
Prove ==
    /\ command.pc = "prove" /\ Hook # "approval_hook"
    /\ LET passes == IF Hook = "budget_gate" THEN command.gate # None ELSE command.id # None IN
         Proof(passes) /\ command' = Passed(passes)
    /\ UNCHANGED <<kernel, verified, events, reference, latest, decision, torn, clock, ops, crashes>>

ProveGates ==
    /\ command.pc = "prove" /\ Hook = "approval_hook"
    /\ \/ /\ command.id # None
          /\ \E reply \in Replies : command' = [Passed(TRUE) EXCEPT !.gate = reply]
          /\ Proof(TRUE)
       \/ command' = Passed(FALSE) /\ Proof(FALSE)
    /\ UNCHANGED <<kernel, verified, events, reference, latest, decision, torn, clock, ops, crashes>>

Answer ==
    /\ command.pc = "answer"
    /\ verified' = [n |-> ops, passed |-> command.passed]
    /\ command' = Idle
    /\ UNCHANGED <<kernel, proofs, events, reference, latest, decision, torn, clock, ops, crashes>>

----------------------------------------------------------------------------
(* The court, the registry that copies its sentences, and death.           *)

Sees(k) == [command EXCEPT !.free = @ \/ k.court \cap Blocking = {},
                           !.accused = @ \/ (k.court \cup k.snapshot) \cap Blocking # {}]

Kernel ==
    /\ clock < MaxChanges
    /\ \/ kernel' \in {[kernel EXCEPT !.court = sentence] : sentence \in Sentences}
       \/ kernel' = [kernel EXCEPT !.snapshot = kernel.court]
    /\ command' = IF command.pc = "idle" THEN command ELSE Sees(kernel')
    /\ clock' = clock + 1
    /\ UNCHANGED <<files, ops, crashes>>

Crash ==
    /\ command.pc # "idle" /\ crashes < MaxCrashes
    /\ command' = Idle
    /\ crashes' = crashes + 1
    /\ UNCHANGED <<kernel, files, clock, ops>>

\* Every file is written in place, emptied first.
CrashTorn ==
    /\ crashes < MaxCrashes
    /\ CASE command.pc \in {"emit", "last"} ->
              /\ events' = <<>> /\ torn' = TRUE
              /\ UNCHANGED <<reference, latest, decision>>
         [] command.pc = "reference" ->
              reference' = <<>> /\ UNCHANGED <<events, latest, decision, torn>>
         [] command.pc = "report" ->
              latest' = [kind |-> "torn"] /\ UNCHANGED <<events, reference, decision, torn>>
         [] command.pc = "decide" ->
              decision' = None /\ UNCHANGED <<events, reference, latest, torn>>
         [] OTHER -> FALSE
    /\ command' = Idle
    /\ crashes' = crashes + 1
    /\ UNCHANGED <<kernel, proofs, verified, clock, ops>>

Next ==
    \/ Command \/ Resolve \/ Envelope \/ Gate \/ Decide
    \/ Emit \/ AuditPreview \/ WriteReference \/ EmitLast \/ Report \/ Compare
    \/ Prove \/ ProveGates \/ Answer
    \/ Kernel \/ Crash \/ CrashTorn

Spec == Init /\ [][Next]_vars

----------------------------------------------------------------------------
(* Properties                                                              *)

\* An action is allowed only if at some time between the first question and the last
\* the kernel had not sentenced the agent: neither a court that could not be asked
\* nor a record that is out of date lets a sentenced agent act (capture_decision).
RestrictedIsRefused == decision # None /\ decision.overall = "allow" => decision.free

\* A hard_deny has a sentence behind it, the court's or the record's.
RefusedForCause == decision # None /\ decision.overall = "hard_deny" => decision.accused

\* A report calls the agent clear only if it was, at some time of the preflight: a
\* court that could not be asked is reported as unknown (query_agent_restrictions).
ClearIsClear ==
    latest.kind = "preflight_captured" /\ latest.sanction = "clear" => latest.free

\* What the report tells of stands in the event log, all seven hooks together, and
\* says what the gates said, unless a death while it was written has emptied the log
\* since (docs/SETUP_REHEARSAL.md: "captures
\* experimental shadow events for all seven").
PreflightTold == latest.kind = "preflight_captured" /\ ~torn =>
    \E i \in 0..(Len(events) - 7) : \A k \in 1..7 :
        events[i + k] = Line([hash |-> latest.hash, gate |-> latest.gate], k, latest.audit)

\* Of a log that holds one preflight only, a comparison finds everything equal but the
\* audit, which the adapter never exercises.
ComparisonOfOne ==
    latest.kind = "comparison_complete" /\ latest.one =>
        latest.matches = 6 /\ latest.divergences = 1

\* While no later verification has written, the artifacts of the last one are those of
\* the hooks it has passed and no others (contract_verify).
ProofsTell ==
    (\A h \in DOMAIN proofs : proofs[h] <= verified.n) /\ verified.n > 0 =>
        {h \in DOMAIN proofs : proofs[h] = verified.n} = verified.passed
=============================================================================
