------------------------------ MODULE Connectors ------------------------------
(***************************************************************************)
(* The connector commands over one adapter.  Every command reads the       *)
(* registry file whole and computes its answer from what it read; what     *)
(* follows are writes of separate files in the order of the code: the      *)
(* tests history, the sanctions history, the lifecycle history (the        *)
(* trail), the health snapshot and the registry.  A command may die        *)
(* between any two of them, and with more than one operator commands       *)
(* overlap.                                                                *)
(***************************************************************************)
EXTENDS Integers, Sequences, FiniteSets

CONSTANTS Operators,     \* processes that run commands
          MaxAttempts,   \* reconnect_attempts_max of the adapter
          RateLimit,     \* rate_limit_per_minute, 0: none
          Window,        \* the rate window, in ticks
          Retentions,    \* retention periods an operator may ask for, in ticks
          FloorsRate,    \* whether harden repairs a missing rate limit: not for every transport
          MaxOps, MaxTime, MaxCrashes    \* bounds

VARIABLES
    adapter,      \* the adapter's record in the registry file
    tests,        \* the tests history: when, and whether it passed
    trail,        \* the lifecycle history: when, and the state recorded
    sanctions,    \* the reasons in the sanctions history
    snapshot,     \* health_status of the last health snapshot
    command,      \* [Operators -> Command]
    clock, ops, crashes,
    degraded,     \* ghost: degraded checks saved since attempts were reset, up to the last rung
    torn          \* ghost: what a command that died half-way has left disagreeing

vars == <<adapter, tests, trail, sanctions, snapshot, command, clock, ops, crashes,
          degraded, torn>>

States == {"init", "ready", "error", "disabled", "reconnecting", "fallback", "sanctioned"}
Health == {"unknown", "disabled", "healthy", "degraded"}
Faults == {"policy", "rate", "inline"}     \* what the security evaluation can complain of

Adapter == [enabled : BOOLEAN, state : States, attempts : 0 .. MaxAttempts,
            fallback : BOOLEAN, malformed : BOOLEAN, faults : SUBSET Faults,
            counted : 0 .. MaxOps + 1]

Scaffolded == [enabled |-> FALSE, state |-> "init", attempts |-> 0, fallback |-> FALSE,
               malformed |-> FALSE, faults |-> {}, counted |-> 0]

\* A command: the record it will save, the lines it will append to the trail, what
\* else it will write, and the writes that are left.
Idle == [op |-> "none", adapter |-> Scaffolded, lines |-> <<>>, pass |-> FALSE,
         health |-> "unknown", reason |-> "none", cutoff |-> 0, rung |-> 0, todo |-> <<>>]

LastRung == MaxAttempts + 2

\* An adapter just scaffolded; or since then enabled, its record edited by the operator,
\* and tested once, which failed.
Tested == [enabled |-> TRUE, state |-> "error", attempts |-> 0, fallback |-> TRUE,
           malformed |-> TRUE, faults |-> Faults, counted |-> 1]
Line(state) == [at |-> 0, state |-> state]

Init ==
    /\ \/ adapter = Scaffolded /\ trail = <<Line("init")>>
       \/ adapter = Tested /\ trail = <<Line("init"), Line("ready"), Line("error")>>
    /\ tests = IF adapter = Tested THEN <<[at |-> 0, pass |-> FALSE]>> ELSE <<>>
    /\ sanctions = IF adapter = Tested THEN {"malformed_payload"} ELSE {}
    /\ snapshot = "unknown"
    /\ command = [o \in Operators |-> Idle]
    /\ clock = 0 /\ ops = 0 /\ crashes = 0 /\ degraded = 0
    /\ torn = {}

-----------------------------------------------------------------------------
(* What the commands compute from the files.                               *)

Recent(events) == SelectSeq(events, LAMBDA ev : clock - ev.at <= Window)
RateLimitedByFailures ==
    RateLimit > 0 /\ Len(SelectSeq(Recent(tests), LAMBDA ev : ~ev.pass)) >= RateLimit
RateLimited == RateLimit > 0 /\ Len(Recent(tests)) >= RateLimit

\* A test passes an enabled adapter whose payload is well formed and that has not
\* been tried too often; failed tries count.
Passes == adapter.enabled /\ ~adapter.malformed /\ ~RateLimited

AfterTest == [adapter EXCEPT !.state = IF Passes THEN "ready" ELSE "error",
                             !.fallback = ~Passes,
                             !.counted = @ + 1]

HealthStatus ==
    CASE ~adapter.enabled -> "disabled"
      [] adapter.enabled /\ tests = <<>> -> "unknown"
      [] OTHER -> IF tests[Len(tests)].pass THEN "healthy" ELSE "degraded"

\* The reconnect ladder: reconnecting while attempts are left, then fallback; a
\* degraded check in fallback sanctions.
ExhaustedLate == adapter.attempts > MaxAttempts
Exhausted == adapter.attempts >= MaxAttempts
SanctionsFallback == Exhausted /\ adapter.fallback
Sanctions == Exhausted /\ adapter.fallback /\ adapter.state = "fallback"
Degraded ==
    IF Exhausted
      THEN [adapter EXCEPT !.state = IF Sanctions THEN "sanctioned" ELSE "fallback",
                           !.fallback = TRUE]
      ELSE [adapter EXCEPT !.state = "reconnecting", !.attempts = @ + 1, !.fallback = TRUE]

AfterHealth ==
    CASE HealthStatus = "disabled" -> [adapter EXCEPT !.state = "disabled", !.fallback = FALSE]
      [] HealthStatus = "healthy"  -> [adapter EXCEPT !.state = "ready", !.attempts = 0,
                                                      !.fallback = FALSE]
      [] HealthStatus = "degraded" -> Degraded
      [] OTHER -> adapter

\* The scorecard's targets over the lines of a retention period: 995 of 1000 lines
\* ready, or a healthy snapshot if there is no line; 98 of 100 fallbacks followed by
\* a ready line of their own.
ReadyLines(s) == Len(SelectSeq(s, LAMBDA ev : ev.state = "ready"))
FallbackLines(s) == Len(SelectSeq(s, LAMBDA ev : ev.state = "fallback"))
Recovery(acc, ev) ==
    CASE ev.state = "fallback" -> [acc EXCEPT !.pending = @ + 1]
      [] ev.state = "ready" /\ acc.pending > 0 -> [pending |-> acc.pending - 1, done |-> acc.done + 1]
      [] OTHER -> acc
Recoveries(s) ==
    LET after[n \in 0..Len(s)] ==
            IF n = 0 THEN [pending |-> 0, done |-> 0] ELSE Recovery(after[n - 1], s[n])
    IN  after[Len(s)].done
Since(events, cutoff) == SelectSeq(events, LAMBDA ev : ev.at >= cutoff)
Cutoff(keep) == IF clock > keep THEN clock - keep ELSE 0
TargetsMet(keep) ==
    LET s == Since(trail, Cutoff(keep))
    IN  /\ IF s = <<>> THEN snapshot = "healthy" ELSE 1000 * ReadyLines(s) >= 995 * Len(s)
        /\ 100 * Recoveries(s) >= 98 * FallbackLines(s)

\* harden writes the governed defaults back; a rate limit only for the transports
\* that have a floor, an inline secret never.
Harden(rec) == [rec EXCEPT !.faults = @ \ ({"policy"} \cup IF FloorsRate THEN {"rate"} ELSE {})]
Reset(rec) == [rec EXCEPT !.state = "reconnecting", !.attempts = 0, !.fallback = FALSE]

-----------------------------------------------------------------------------
(* The commands: what each reads, saves and appends, in its order.         *)

Start(o, cmd) ==
    /\ command[o] = Idle /\ ops < MaxOps
    /\ command' = [command EXCEPT ![o] = cmd]
    /\ ops' = ops + 1
    /\ UNCHANGED <<adapter, tests, trail, sanctions, snapshot, clock, crashes, degraded, torn>>

\* connect scaffold replaces the record and leaves the histories.
Scaffold(o) ==
    Start(o, [Idle EXCEPT !.op = "scaffold", !.lines = <<"init">>, !.todo = <<"save", "trail">>])

ToggleKeeps(o, enable) ==
    Start(o, [Idle EXCEPT
        !.op = "toggle", !.rung = IF enable THEN 0 ELSE degraded,
        !.adapter = [adapter EXCEPT !.enabled = enable,
                                    !.state = IF enable THEN "ready" ELSE "disabled"],
        !.lines = <<IF enable THEN "ready" ELSE "disabled">>,
        !.todo = <<"save", "trail">>])

\* connect enable and connect disable.
Toggle(o, enable) ==
    Start(o, [Idle EXCEPT
        !.op = "toggle", !.rung = IF enable THEN 0 ELSE degraded,
        !.adapter = [adapter EXCEPT !.enabled = enable,
                                    !.state = IF enable THEN "ready" ELSE "disabled",
                                    !.attempts = IF enable THEN 0 ELSE @],
        !.lines = <<IF enable THEN "ready" ELSE "disabled">>,
        !.todo = <<"save", "trail">>])

\* connect test: its line precedes the record, the trail follows it.
Test(o) ==
    LET malformed == adapter.enabled /\ adapter.malformed
    IN  Start(o, [Idle EXCEPT
            !.op = "test", !.rung = degraded, !.pass = Passes, !.adapter = AfterTest,
            !.reason = "malformed_payload",
            !.lines = <<IF Passes THEN "ready" ELSE "error">>,
            !.todo = <<"tests">> \o (IF malformed THEN <<"sanctions">> ELSE <<>>)
                                 \o <<"save", "trail">>])

CheckHealthUntrailed(o) ==
    Start(o, [Idle EXCEPT
        !.op = "health", !.health = HealthStatus, !.adapter = AfterHealth,
        !.reason = "reconnect_storm",
        !.rung = CASE HealthStatus = "healthy"  -> 0
                   [] HealthStatus = "degraded" -> IF degraded < LastRung THEN degraded + 1 ELSE degraded
                   [] OTHER -> degraded,
        !.lines = <<adapter.state>>,
        !.todo = (IF HealthStatus = "degraded" /\ Sanctions THEN <<"sanctions">> ELSE <<>>)
                 \o <<"trail", "snapshot", "save">>])

\* connect health: the record comes last.
CheckHealth(o) ==
    Start(o, [Idle EXCEPT
        !.op = "health", !.health = HealthStatus, !.adapter = AfterHealth,
        !.reason = "reconnect_storm",
        !.rung = CASE HealthStatus = "healthy"  -> 0
                   [] HealthStatus = "degraded" -> IF degraded < LastRung THEN degraded + 1 ELSE degraded
                   [] OTHER -> degraded,
        !.lines = <<AfterHealth.state>>,
        !.todo = (IF HealthStatus = "degraded" /\ Sanctions THEN <<"sanctions">> ELSE <<>>)
                 \o <<"trail", "snapshot", "save">>])

ScorecardFixAny(o, keep) ==
    LET hardened == Harden(adapter)
        reset    == ~TargetsMet(keep)
        lines    == (IF hardened # adapter THEN <<adapter.state>> ELSE <<>>)
                    \o (IF reset THEN <<"reconnecting">> ELSE <<>>)
    IN  Start(o, [Idle EXCEPT
            !.op = "scorecard", !.rung = IF reset THEN 0 ELSE degraded,
            !.adapter = IF reset THEN Reset(hardened) ELSE hardened,
            !.lines = lines,
            !.todo = [i \in 1 .. Len(lines) |-> "trail"] \o <<"save">>])

\* connect scorecard --fix: harden a record the evaluation complains of, and send an
\* enabled adapter that misses a target back to reconnecting.
ScorecardFix(o, keep) ==
    LET hardened == Harden(adapter)
        reset    == ~TargetsMet(keep) /\ adapter.enabled
        lines    == (IF hardened # adapter THEN <<adapter.state>> ELSE <<>>)
                    \o (IF reset THEN <<"reconnecting">> ELSE <<>>)
    IN  Start(o, [Idle EXCEPT
            !.op = "scorecard", !.rung = IF reset THEN 0 ELSE degraded,
            !.adapter = IF reset THEN Reset(hardened) ELSE hardened,
            !.lines = lines,
            !.todo = [i \in 1 .. Len(lines) |-> "trail"] \o <<"save">>])

PruneUncounted(o, keep) ==
    Start(o, [Idle EXCEPT
        !.op = "prune", !.rung = degraded, !.cutoff = Cutoff(keep), !.adapter = adapter,
        !.todo = <<"prune_tests", "prune_trail", "save">>])

\* connect prune: both histories are rewritten before the counters.
Prune(o, keep) ==
    Start(o, [Idle EXCEPT
        !.op = "prune", !.rung = degraded, !.cutoff = Cutoff(keep),
        !.adapter = [adapter EXCEPT !.counted = Len(Since(tests, Cutoff(keep)))],
        !.todo = <<"prune_tests", "prune_trail", "save">>])

\* connect validate writes the normalised registry back.
Validate(o) ==
    Start(o, [Idle EXCEPT !.op = "validate", !.rung = degraded, !.adapter = adapter,
                          !.todo = <<"save">>])

-----------------------------------------------------------------------------
(* The writes.                                                             *)

\* What a finished command has put right again, and what a dead one leaves.
Mended(op) == CASE op = "scaffold" -> {"trail", "count"}
                [] op \in {"toggle", "test", "health"} -> {"trail"}
                [] op = "prune" -> {"count"}
                [] OTHER -> {}
Broken(op) == IF op = "prune" THEN {"count"} ELSE {"trail"}

Write(o, w) ==
    /\ command[o].todo # <<>> /\ Head(command[o].todo) = w
    /\ LET c == command[o] IN
         IF Len(c.todo) = 1
           THEN /\ command' = [command EXCEPT ![o] = Idle]
                /\ torn' = torn \ Mended(c.op)
           ELSE /\ command' = [command EXCEPT
                                 ![o].todo = Tail(@),
                                 ![o].lines = IF w = "trail" THEN Tail(@) ELSE @]
                /\ UNCHANGED torn
    /\ UNCHANGED <<clock, ops, crashes>>

AppendTest(o) ==
    /\ Write(o, "tests")
    /\ tests' = Append(tests, [at |-> clock, pass |-> command[o].pass])
    /\ UNCHANGED <<adapter, trail, sanctions, snapshot, degraded>>

AppendSanction(o) ==
    /\ Write(o, "sanctions")
    /\ sanctions' = sanctions \cup {command[o].reason}
    /\ UNCHANGED <<adapter, tests, trail, snapshot, degraded>>

AppendTrail(o) ==
    /\ Write(o, "trail")
    /\ trail' = Append(trail, [at |-> clock, state |-> Head(command[o].lines)])
    /\ UNCHANGED <<adapter, tests, sanctions, snapshot, degraded>>

SaveSnapshot(o) ==
    /\ Write(o, "snapshot")
    /\ snapshot' = command[o].health
    /\ UNCHANGED <<adapter, tests, trail, sanctions, degraded>>

PruneTests(o) ==
    /\ Write(o, "prune_tests")
    /\ tests' = Since(tests, command[o].cutoff)
    /\ UNCHANGED <<adapter, trail, sanctions, snapshot, degraded>>

PruneTrail(o) ==
    /\ Write(o, "prune_trail")
    /\ trail' = Since(trail, command[o].cutoff)
    /\ UNCHANGED <<adapter, tests, sanctions, snapshot, degraded>>

SaveRegistry(o) ==
    /\ Write(o, "save")
    /\ adapter' = command[o].adapter
    /\ degraded' = command[o].rung
    /\ UNCHANGED <<tests, trail, sanctions, snapshot>>

Crash(o) ==
    /\ command[o] # Idle /\ crashes < MaxCrashes
    /\ crashes' = crashes + 1
    /\ torn' = torn \cup Broken(command[o].op)
    /\ command' = [command EXCEPT ![o] = Idle]
    /\ UNCHANGED <<adapter, tests, trail, sanctions, snapshot, clock, ops, degraded>>

\* Commands take no time worth counting: days pass between them.
Tick ==
    /\ clock < MaxTime /\ \A o \in Operators : command[o] = Idle
    /\ clock' = clock + 1
    /\ UNCHANGED <<adapter, tests, trail, sanctions, snapshot, command, ops, crashes,
                   degraded, torn>>

Next ==
    \/ \E o \in Operators :
         \/ Scaffold(o) \/ Test(o) \/ CheckHealth(o) \/ Validate(o)
         \/ \E enable \in BOOLEAN : Toggle(o, enable)
         \/ \E keep \in Retentions : ScorecardFix(o, keep) \/ Prune(o, keep)
         \/ AppendTest(o) \/ AppendSanction(o) \/ AppendTrail(o) \/ SaveSnapshot(o)
         \/ PruneTests(o) \/ PruneTrail(o) \/ SaveRegistry(o)
         \/ Crash(o)
    \/ Tick

Spec == Init /\ [][Next]_vars

-----------------------------------------------------------------------------
(* Properties.                                                             *)

\* Every record the commands save is one a later command can read.
TypeOK ==
    /\ adapter \in Adapter
    /\ sanctions \subseteq {"malformed_payload", "reconnect_storm"}
    /\ snapshot \in Health
    /\ torn \subseteq {"trail", "count"}
    /\ degraded \in 0 .. LastRung

\* Whatever commands ran or died, an adapter that is switched off is in none of the
\* states that keep a connection, and one that is switched on has left the states of
\* one that is not (handle_connect_toggle, _test, _health, apply_scorecard_fix).
DownIsDown ==
    IF adapter.enabled THEN adapter.state \notin {"init", "disabled"}
                       ELSE adapter.state \in {"init", "disabled", "error"}

\* A sanction is the last rung of the ladder: it stands only after a degraded check
\* for every attempt, one that exhausted them and one in fallback, none of them
\* before the attempts were last reset, and its line is in the sanctions history
\* (handle_connect_health).
SanctionEarned ==
    adapter.state = "sanctioned" => degraded = LastRung /\ "reconnect_storm" \in sanctions

\* Between commands the trail ends with the state of the record, also when the
\* histories were pruned or an earlier command died before its last file and a
\* later one completed.
TrailAgrees ==
    (\A o \in Operators : command[o] = Idle) /\ "trail" \notin torn
        => trail = <<>> \/ trail[Len(trail)].state = adapter.state

\* No window holds more passing tests than the rate limit allows, whatever was pruned
\* from the history the limit is counted in (recent_test_count_within_window).
RateRespected ==
    RateLimit > 0 =>
        \A t \in 0 .. MaxTime :
            Len(SelectSeq(tests, LAMBDA ev : ev.pass /\ ev.at \in t .. t + Window)) <= RateLimit

\* The record never counts tests that the history has lost, except while a prune is
\* at work or after one died before it saved its counters.
CountedIsKept ==
    (\A o \in Operators : command[o].op # "prune") /\ "count" \notin torn
        => adapter.counted <= Len(tests)
=============================================================================
