------------------------------ MODULE Recurring ------------------------------
(***************************************************************************)
(* Heartbeats and schedules: two registries, each one JSON file that every *)
(* operation reads whole and writes back whole.  Timers are served by two  *)
(* kinds of process:                                                       *)
(*                                                                         *)
(*   - the personal agent's loop claims what is due (claim_due_heartbeats  *)
(*     writes the registry first) and then dispatches each claim           *)
(*     (dispatch_heartbeat_run);                                           *)
(*   - the command line's run-due serves first and writes the registry     *)
(*     last (run_due_heartbeats, run_due_schedules).                       *)
(*                                                                         *)
(* Either may die between any two file operations.  A due time is the value *)
(* of next_fire_at a timer was served for; dispatched, delivered, ran and  *)
(* lost are histories, kept per due time.                                  *)
(***************************************************************************)
EXTENDS Integers, FiniteSets

CONSTANTS Timers,      \* heartbeat and schedule ids
          RegOf,       \* timer -> "heartbeats" | "schedules"
          KindOf,      \* timer -> "once" | "interval" | "cron" | "daily"
          TargetOf,    \* timer -> delivery target, see Targets
          Rank,        \* timer -> its position in the registry
          Default,     \* the schedules the onboarding manifest installs
          Actors,      \* processes
          Loops,       \* those that run the personal agent's loop
          Serial,      \* whether processes run one after another
          Every, Day, At,         \* interval, day and time of day, in ticks
          NoTimer,                \* no timer
          Limit, MaxTime, MaxCrashes

\* What enqueue_channel_delivery answers for a target: Err if the channel is not
\* registered, blocked if it is disabled, else what the output guard decides.  A
\* "mute" timer has an open channel and a payload without text: run-due does not offer
\* it to the channel, the loop offers what the execution printed.
Targets == {"none", "open", "disabled", "missing", "mute"}

ASSUME RecurringAssumption ==
    /\ RegOf \in [Timers -> {"heartbeats", "schedules"}]
    /\ KindOf \in [Timers -> {"once", "interval", "cron", "daily"}]
    /\ TargetOf \in [Timers -> Targets]
    /\ Rank \in [Timers -> Nat]
    /\ Default \subseteq {t \in Timers : RegOf[t] = "schedules" /\ KindOf[t] = "daily"}
    /\ Loops \subseteq Actors
    /\ Every \in Nat \ {0} /\ Day \in Nat \ {0} /\ At \in 0 .. Day - 1
    /\ Limit \in Nat /\ MaxTime \in Nat /\ MaxCrashes \in Nat

Never == -1
Times == 0 .. (MaxTime + Every + Day)
Status == {"absent", "scheduled", "paused", "cancelled", "completed"}
Record == [enabled : BOOLEAN, status : Status, next : Times \cup {Never}]
Absent == [enabled |-> FALSE, status |-> "absent", next |-> Never]


VARIABLES
    registry,     \* [Timers -> Record]: the two files
    open,         \* the run records, by timer and due time, that say running
    clock, crashes,
    mem,          \* [Actors -> what the process holds]
    dispatched,   \* how often the loop dispatched a due time
    delivered,    \* how often a delivery was enqueued for a due time, since a pass
                  \* that had served it was last lost
    ran,          \* the due times whose run was recorded, by the loop or run-due
    lost,         \* the due times a loop had claimed and died before it dispatched
    paused,       \* the timers whose pause or cancellation was answered
    broken        \* whether some pass died or ended with Err

vars == <<registry, open, clock, crashes, mem, dispatched, delivered, ran, lost, paused,
          broken>>
ghost == <<dispatched, delivered, ran, lost, paused, broken>>

Idle == [pc |-> "idle", recs |-> [t \in Timers |-> Absent], todo |-> {}, now |-> 0,
         timer |-> NoTimer, ahead |-> {}]
PC == {"idle", "claim_save", "dispatch", "deliver", "close",
       "due", "due_record", "due_save", "edit_save"}
Memory == [pc : PC, recs : [Timers -> Record], todo : SUBSET Timers,
           now : 0 .. MaxTime, timer : Timers \cup {NoTimer},
           ahead : SUBSET (Timers \X Times)]   \* what a pass served, not on file yet

Init ==
    /\ registry = [t \in Timers |-> Absent]
    /\ open = {}
    /\ clock = 0 /\ crashes = 0 /\ broken = FALSE
    /\ paused = {} /\ ran = {} /\ lost = {}
    /\ mem = [a \in Actors |-> Idle]
    /\ dispatched = [t \in Timers |-> [d \in Times |-> 0]]
    /\ delivered = [t \in Timers |-> [d \in Times |-> 0]]

\* A history counts once, then again and no further.
Once(n) == IF n < 2 THEN n + 1 ELSE n

Update(a, m) == mem' = [mem EXCEPT ![a] = m]
IsFree(a) == mem[a].pc = "idle" /\ (Serial => \A b \in Actors : mem[b].pc = "idle")

\* The timers of one registry as a process takes them up: the file it writes back.
InFile(reg, recs) == [t \in Timers |-> IF RegOf[t] = reg THEN recs[t] ELSE registry[t]]
Of(reg) == {t \in Timers : RegOf[t] = reg}

-----------------------------------------------------------------------------
(* The record of a timer.                                                  *)

NextDaily(now) ==
    LET candidate == (now - (now % Day)) + At
    IN IF candidate <= now THEN candidate + Day ELSE candidate

IsDueExactly(t, rec, now) ==
    rec.enabled /\ KindOf[t] # "cron" /\ rec.next = now

IsDue(t, rec, now) ==
    /\ rec.enabled
    /\ KindOf[t] # "cron"
    /\ rec.next # Never /\ rec.next <= now

InitialNext(t, now, notBefore) ==
    CASE KindOf[t] = "interval" -> now + Every
      [] KindOf[t] = "once" -> notBefore
      [] KindOf[t] = "daily" -> NextDaily(now)
      [] KindOf[t] = "cron" -> Never

FiredKeepsNext(t, rec, now) ==
    IF KindOf[t] = "once" THEN [rec EXCEPT !.enabled = FALSE, !.next = Never]
    ELSE [rec EXCEPT !.status = "scheduled"]

Fired(t, rec, now) ==
    CASE KindOf[t] = "once" ->
           [rec EXCEPT !.enabled = FALSE, !.status = "completed", !.next = Never]
      [] KindOf[t] = "interval" ->
           [rec EXCEPT !.status = "scheduled", !.next = now + Every]
      [] KindOf[t] = "daily" ->
           [rec EXCEPT !.status = "scheduled", !.next = NextDaily(now)]
      [] KindOf[t] = "cron" -> rec

\* The first `room` timers of a set, in the registry's order; 0 is no limit.
FirstDue(S, room) ==
    IF room = 0 THEN S
    ELSE {t \in S : Cardinality({u \in S : Rank[u] < Rank[t]}) < room}

-----------------------------------------------------------------------------
(* Commands that edit one registry: load, change one record, write back.   *)

Edit(a, t, rec) ==
    Update(a, [Idle EXCEPT !.pc = "edit_save", !.timer = t,
                           !.recs = [registry EXCEPT ![t] = rec]])

\* add_schedule and schedule_heartbeat refuse an id that exists.
Add(a, t, notBefore) ==
    /\ IsFree(a) /\ a \notin Loops
    /\ registry[t].status = "absent"
    /\ Edit(a, t, [enabled |-> TRUE, status |-> "scheduled",
                   next |-> InitialNext(t, clock, notBefore)])
    /\ UNCHANGED <<registry, open, clock, crashes, ghost>>

Pause(a, t) ==
    /\ IsFree(a) /\ a \notin Loops
    /\ registry[t].status # "absent"
    /\ Edit(a, t, [registry[t] EXCEPT !.enabled = FALSE, !.status = "paused"])
    /\ UNCHANGED <<registry, open, clock, crashes, ghost>>

Cancel(a, t) ==
    /\ IsFree(a) /\ a \notin Loops
    /\ registry[t].status # "absent"
    /\ Edit(a, t, [registry[t] EXCEPT !.enabled = FALSE, !.status = "cancelled",
                                      !.next = Never])
    /\ UNCHANGED <<registry, open, clock, crashes, ghost>>

EditSave(a) ==
    /\ mem[a].pc = "edit_save"
    /\ registry' = InFile(RegOf[mem[a].timer], mem[a].recs)
    /\ paused' = IF mem[a].recs[mem[a].timer].enabled THEN paused
                 ELSE paused \cup {mem[a].timer}
    /\ Update(a, Idle)
    /\ UNCHANGED <<open, clock, crashes, dispatched, delivered, ran, lost, broken>>

\* sync_schedule_registry, run by onboarding: the schedules become the manifest's
\* defaults, whatever was there.  A schedule that is gone is another one when it is
\* added again.
Onboard(a) ==
    /\ IsFree(a) /\ a \notin Loops
    /\ registry' = [t \in Timers |->
          CASE RegOf[t] # "schedules" -> registry[t]
            [] t \in Default -> [enabled |-> TRUE, status |-> "scheduled",
                                 next |-> NextDaily(clock)]
            [] OTHER -> Absent]
    /\ paused' = {t \in paused : RegOf[t] # "schedules"}
    /\ delivered' = [t \in Timers |-> IF RegOf[t] = "schedules" /\ t \notin Default
                                      THEN [d \in Times |-> 0] ELSE delivered[t]]
    /\ UNCHANGED <<open, clock, crashes, mem, dispatched, ran, lost, broken>>

-----------------------------------------------------------------------------
(* The personal agent's loop.                                              *)

\* claim_due_heartbeats up to its write: what is due is marked fired, the copies
\* from before that are the claims.
Claim(a) ==
    LET due == FirstDue({t \in Of("heartbeats") : IsDue(t, registry[t], clock)}, Limit)
    IN /\ a \in Loops /\ IsFree(a) /\ due # {}
       /\ Update(a, [Idle EXCEPT !.pc = "claim_save", !.todo = due, !.now = clock,
                                 !.recs = registry])
       /\ UNCHANGED <<registry, open, clock, crashes, ghost>>

ClaimUnsaved(a) ==
    /\ mem[a].pc = "claim_save"
    /\ Update(a, [mem[a] EXCEPT !.pc = "dispatch"])
    /\ UNCHANGED <<registry, open, clock, crashes, ghost>>

ClaimSave(a) ==
    /\ mem[a].pc = "claim_save"
    /\ registry' = InFile("heartbeats",
                     [t \in Timers |-> IF t \in mem[a].todo
                                       THEN Fired(t, mem[a].recs[t], mem[a].now)
                                       ELSE mem[a].recs[t]])
    /\ Update(a, [mem[a] EXCEPT !.pc = "dispatch"])
    /\ UNCHANGED <<open, clock, crashes, ghost>>

\* dispatch_heartbeat_run writes a record that says running, executes, offers the
\* text to the channel, whose refusal or Err does not fail the run, and writes the
\* record again.  What the record then says is the execution's outcome.
DueOf(a) == <<mem[a].timer, mem[a].recs[mem[a].timer].next>>

Dispatch(a, t) ==
    /\ mem[a].pc = "dispatch" /\ t \in FirstDue(mem[a].todo, 1)
    /\ LET d == mem[a].recs[t].next IN
         /\ open' = open \cup {<<t, d>>}
         /\ ran' = ran \cup {<<t, d>>}
         /\ dispatched' = [dispatched EXCEPT ![t][d] = Once(@)]
    /\ Update(a, [mem[a] EXCEPT !.pc = "deliver", !.timer = t, !.todo = @ \ {t}])
    /\ UNCHANGED <<registry, clock, crashes, delivered, lost, paused, broken>>

\* A target with a registered channel gets a delivery record, whatever its fate: from
\* the loop always (extract_delivery_text falls back to the output and the status),
\* from run-due only if the payload has a text.
Delivered(t, d, takers) ==
    IF TargetOf[t] \in takers
    THEN [delivered EXCEPT ![t][d] = Once(@)] ELSE delivered

DeliverPropagates(a) ==
    /\ mem[a].pc = "deliver"
    /\ delivered' = Delivered(mem[a].timer, mem[a].recs[mem[a].timer].next,
                              {"open", "disabled", "mute"})
    /\ Update(a, IF TargetOf[mem[a].timer] = "missing" THEN Idle
                 ELSE [mem[a] EXCEPT !.pc = "close"])
    /\ UNCHANGED <<registry, open, clock, crashes, dispatched, ran, lost, paused, broken>>

Deliver(a) ==
    /\ mem[a].pc = "deliver"
    /\ delivered' = Delivered(mem[a].timer, mem[a].recs[mem[a].timer].next,
                              {"open", "disabled", "mute"})
    /\ Update(a, [mem[a] EXCEPT !.pc = "close"])
    /\ UNCHANGED <<registry, open, clock, crashes, dispatched, ran, lost, paused, broken>>

Close(a) ==
    /\ mem[a].pc = "close"
    /\ open' = open \ {DueOf(a)}
    /\ Update(a, [mem[a] EXCEPT !.pc = "dispatch", !.timer = NoTimer])
    /\ UNCHANGED <<registry, clock, crashes, ghost>>

LoopEnds(a) ==
    /\ mem[a].pc = "dispatch" /\ mem[a].todo = {}
    /\ Update(a, Idle)
    /\ UNCHANGED <<registry, open, clock, crashes, ghost>>

-----------------------------------------------------------------------------
(* run-due of the command line.                                            *)

RunDue(a, reg, t) ==
    LET due == FirstDue({u \in Of(reg) : IsDue(u, registry[u], clock)}, Limit)
    IN /\ a \notin Loops /\ IsFree(a) /\ t \in FirstDue(due, 1)
       /\ Update(a, [Idle EXCEPT !.pc = "due", !.todo = due, !.now = clock,
                                 !.recs = registry, !.timer = t])
       /\ UNCHANGED <<registry, open, clock, crashes, ghost>>

\* The delivery of one timer is written before its run record.
DueDeliver(a) ==
    /\ mem[a].pc = "due" /\ TargetOf[mem[a].timer] # "missing"
    /\ delivered' = Delivered(mem[a].timer, mem[a].recs[mem[a].timer].next,
                              {"open", "disabled"})
    /\ Update(a, [mem[a] EXCEPT !.pc = "due_record", !.ahead = @ \cup {DueOf(a)}])
    /\ UNCHANGED <<registry, open, clock, crashes, dispatched, ran, lost, paused, broken>>

\* What a pass had served is due again when the pass is lost: the count starts anew.
Undelivered(served) ==
    [t \in Timers |-> [d \in Times |-> IF <<t, d>> \in served THEN 0 ELSE delivered[t][d]]]

\* enqueue_channel_delivery's Err leaves the function: nothing of the pass is kept.
DueAborts(a) ==
    /\ mem[a].pc = "due" /\ TargetOf[mem[a].timer] = "missing"
    /\ broken' = TRUE
    /\ delivered' = Undelivered(mem[a].ahead)
    /\ Update(a, Idle)
    /\ UNCHANGED <<registry, open, clock, crashes, dispatched, ran, lost, paused>>

\* The run record is written; the next timer, if there is one, is taken up.
DueRecord(a) ==
    LET t == mem[a].timer
        rest == mem[a].todo \ {t}
        fired == [mem[a].recs EXCEPT ![t] = Fired(t, @, mem[a].now)]
    IN /\ mem[a].pc = "due_record"
       /\ \/ /\ rest = {}
             /\ Update(a, [mem[a] EXCEPT !.recs = fired, !.todo = {}, !.pc = "due_save"])
          \/ \E u \in FirstDue(rest, 1) :
                Update(a, [mem[a] EXCEPT !.recs = fired, !.todo = rest, !.timer = u,
                                         !.pc = "due"])
       /\ ran' = ran \cup {DueOf(a)}
       /\ UNCHANGED <<registry, open, clock, crashes, dispatched, delivered, lost, paused,
                      broken>>

DueSave(a) ==
    /\ mem[a].pc = "due_save"
    /\ registry' = InFile(RegOf[mem[a].timer], mem[a].recs)
    /\ Update(a, Idle)
    /\ UNCHANGED <<open, clock, crashes, ghost>>

-----------------------------------------------------------------------------

Crash(a) ==
    /\ mem[a].pc # "idle" /\ crashes < MaxCrashes
    /\ crashes' = crashes + 1 /\ broken' = TRUE
    /\ delivered' = Undelivered(mem[a].ahead)
    /\ lost' = IF mem[a].pc \in {"dispatch", "deliver", "close"}
               THEN lost \cup {<<t, mem[a].recs[t].next>> : t \in mem[a].todo} ELSE lost
    /\ Update(a, Idle)
    /\ UNCHANGED <<registry, open, clock, dispatched, ran, paused>>

Tick ==
    /\ clock < MaxTime
    /\ clock' = clock + 1
    /\ UNCHANGED <<registry, open, crashes, mem, ghost>>

LoopStep(a) ==
    \/ Claim(a) \/ ClaimSave(a) \/ Deliver(a) \/ Close(a) \/ LoopEnds(a)
    \/ \E t \in Timers : Dispatch(a, t)
DueStep(a) ==
    \/ \E reg \in {"heartbeats", "schedules"}, t \in Timers : RunDue(a, reg, t)
    \/ DueDeliver(a) \/ DueAborts(a) \/ DueRecord(a) \/ DueSave(a)
EditStep(a) ==
    \/ \E t \in Timers : Pause(a, t) \/ Cancel(a, t) \/ \E n \in {0, MaxTime} : Add(a, t, n)
    \/ EditSave(a) \/ Onboard(a)

Next == Tick \/ \E a \in Actors : LoopStep(a) \/ DueStep(a) \/ EditStep(a) \/ Crash(a)

\* A process that runs is scheduled, and the agent's loop polls for ever.  Nothing in
\* the code makes the loop wait for a command, so the turns that Serial takes from it
\* are not taken for ever: its fairness is strong.
Fairness ==
    /\ \A a \in Loops : SF_vars(LoopStep(a))
    /\ \A a \in Actors : WF_vars(DueDeliver(a) \/ DueAborts(a) \/ DueRecord(a)
                                 \/ DueSave(a) \/ EditSave(a))

Spec == Init /\ [][Next]_vars /\ Fairness

-----------------------------------------------------------------------------
(* Properties.                                                             *)

TypeOK ==
    /\ registry \in [Timers -> Record]
    /\ open \in SUBSET (Timers \X Times)
    /\ clock \in 0 .. MaxTime /\ crashes \in 0 .. MaxCrashes
    /\ mem \in [Actors -> Memory]
    /\ dispatched \in [Timers -> [Times -> 0 .. 2]]
    /\ delivered \in [Timers -> [Times -> 0 .. 2]]
    /\ ran \in SUBSET (Timers \X Times) /\ lost \in SUBSET (Timers \X Times)
    /\ paused \in SUBSET Timers /\ broken \in BOOLEAN

\* One process at a time.  The loop dispatches a heartbeat at most once for each
\* time it was due, wherever it dies: the claim is on disk before the first dispatch
\* (claim_due_heartbeats, run_agent_loop).
DispatchedOnce == \A t \in Timers, d \in Times : dispatched[t][d] <= 1

\* One process at a time.  One delivery is enqueued for each due time, by the loop or
\* by run-due, wherever they die and whatever Err they end with; and one more for each
\* pass of run-due that had served this very due time and was lost before it wrote the
\* registry (run_due_heartbeats, run_due_schedules).
DeliveredOnce == \A t \in Timers, d \in Times : delivered[t][d] <= 1

\* One process at a time.  A timer that was paused or cancelled stays disabled: no
\* pass writes an older record back, and only onboarding installs it anew.
PauseSticks == \A t \in paused : ~registry[t].enabled

\* When no process works and none has died, every run record of the loop is closed:
\* none says running (dispatch_heartbeat_run).
RunsClosed ==
    (~broken /\ \A a \in Actors : mem[a].pc = "idle") => open = {}

\* Why a due time is served once.  A record whose timer was served for d is never due
\* for d again, and a timer without a record was never served.
Kept(served, recs) ==
    \A t \in Timers, d \in Times : served[t][d] # 0 =>
        recs[t].status # "absent" /\ (recs[t].next = Never \/ recs[t].next > d)

Writes == {"claim_save", "due", "due_record", "due_save", "edit_save"}
Claims == {"dispatch", "deliver", "close"}
Passes == {"due", "due_record", "due_save"}

\* Where a process is tells which timers it holds: timers that were due when it took
\* them up, of one registry.
Holds(a) ==
    LET m == mem[a] IN
    /\ m.now <= clock
    /\ \A t \in m.todo : m.recs[t].enabled /\ KindOf[t] # "cron" /\ m.recs[t].next \in 0 .. m.now
    /\ m.pc \in {"claim_save"} \cup Claims => m.todo \subseteq Of("heartbeats")
    /\ m.pc \in {"deliver", "close"} =>
         m.timer \in Of("heartbeats") \ m.todo /\ m.recs[m.timer].next \in 0 .. m.now
    /\ m.pc \in {"due", "due_record"} => m.timer \in m.todo
    /\ m.pc \in Passes => m.timer \in Timers /\ m.todo \subseteq Of(RegOf[m.timer])
    /\ m.pc = "edit_save" => m.timer \in Timers
    /\ m.pc \notin Passes => m.ahead = {}
HoldInv == \A a \in Actors : Holds(a)

\* A process works alone on a copy of the registry that differs only in what it changes.
Alone(a) == mem[a].pc # "idle" => \A b \in Actors \ {a} : mem[b].pc = "idle"
IsCopy(a) ==
    LET m == mem[a] IN
    /\ m.pc = "claim_save" => m.recs = registry
    /\ m.pc \in Passes => \A t \in Timers \ Of(RegOf[m.timer]) : m.recs[t] = registry[t]
    /\ m.pc = "edit_save" => /\ m.recs[m.timer].status # "absent"
                             /\ \A t \in Timers \ {m.timer} : m.recs[t] = registry[t]
CopyInv == \A a \in Actors : Alone(a) /\ IsCopy(a)

\* A claim is on disk, and its due time not served yet.
ClaimKept(served, m, t) ==
    /\ served[t][m.recs[t].next] = 0
    /\ registry[t].status # "absent"
    /\ registry[t].next = Never \/ registry[t].next > m.recs[t].next

DispatchOf(a) ==
    /\ mem[a].pc \in Writes => Kept(dispatched, mem[a].recs)
    /\ mem[a].pc \in Claims => \A t \in mem[a].todo : ClaimKept(dispatched, mem[a], t)
DispatchInv ==
    /\ Kept(dispatched, registry)
    /\ \A t \in Of("schedules"), d \in Times : dispatched[t][d] = 0
    /\ \A a \in Actors : DispatchOf(a)
    /\ DispatchedOnce

\* Deliveries of a pass of run-due are ahead of the file until the pass is written, and
\* the one of the timer at work ahead of the copy.  A pass that is lost leaves the rest.
DeliverOf(a) ==
    LET m == mem[a] IN
    /\ m.pc \in Writes \ {"due_record"} => Kept(delivered, m.recs)
    /\ m.pc = "due_record" =>
         Kept([delivered EXCEPT ![m.timer][m.recs[m.timer].next] = 0], m.recs)
    /\ m.pc \in Claims => \A t \in m.todo : ClaimKept(delivered, m, t)
    /\ m.pc = "deliver" => ClaimKept(delivered, m, m.timer)
    /\ m.pc \in Passes => Kept(Undelivered(m.ahead), registry)
DeliverInv ==
    /\ \A t \in Timers, d \in Times : delivered[t][d] # 0 => d <= clock
    /\ (\A a \in Actors : mem[a].pc \notin Passes) => Kept(delivered, registry)
    /\ \A a \in Actors : DeliverOf(a)
    /\ \A t \in Timers, d \in Times : delivered[t][d] <= 1

\* A paused timer is disabled in every copy that will be written.
Disabled(recs) == \A t \in paused : ~recs[t].enabled /\ recs[t].status # "absent"
PauseOf(a) == mem[a].pc \in Writes => Disabled(mem[a].recs)
PauseInv == Disabled(registry) /\ \A a \in Actors : PauseOf(a)

\* Only the run that is at work is open.
OpenInv == ~broken =>
    \A run \in open : \E a \in Actors : mem[a].pc \in {"deliver", "close"} /\ run = DueOf(a)

ServedInv == CopyInv /\ DispatchInv /\ DeliverInv /\ PauseInv /\ OpenInv

\* One process at a time.  The run of a heartbeat that is due is recorded in the end, by
\* the loop or by run-due, whatever the channels of the others answer, unless it is
\* paused or cancelled, or the loop dies between the claim it wrote and this dispatch
\* (claim_due_heartbeats, run_agent_loop): those, and no others, are never run.
DueIsServed ==
    \A t \in {u \in Timers : RegOf[u] = "heartbeats"} : \A d \in Times :
        (registry[t].next = d /\ IsDue(t, registry[t], clock))
            ~> (<<t, d>> \in ran \cup lost \/ t \in paused)
=============================================================================
