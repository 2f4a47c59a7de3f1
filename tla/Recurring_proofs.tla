--------------------------- MODULE Recurring_proofs ---------------------------
(***************************************************************************)
(* What is served once: processes that run one after another, any number   *)
(* of them and of timers, dying anywhere.                                  *)
(***************************************************************************)
EXTENDS Recurring, TLAPS

-----------------------------------------------------------------------------
(* The record of a timer.                                                  *)

\* A time of day comes again after now, and within a day.
LEMMA NextDailyIsAhead ==
    ASSUME NEW now \in Nat
    PROVE  NextDaily(now) \in Nat /\ NextDaily(now) > now /\ NextDaily(now) <= now + Day
<1> DEFINE r == now % Day
<1>1. r \in 0 .. Day - 1 /\ r <= now
  BY RecurringAssumption, SMTT(30)
<1>2. Day \in Nat \ {0} /\ At \in 0 .. Day - 1
  BY RecurringAssumption
<1> HIDE DEF r
<1>3. LET c == (now - r) + At
      IN  c \in Nat /\ c + Day > now /\ (c <= now => c + Day <= now + Day)
                    /\ (c > now => c <= now + Day)
  BY <1>1, <1>2
<1>4. QED
  BY <1>1, <1>2, <1>3 DEF NextDaily, r

\* A record that fired is a record, is not due before its next time, and is enabled
\* only if it was.
LEMMA FiredIsLater ==
    ASSUME NEW t \in Timers, NEW rec \in Record, NEW now \in 0 .. MaxTime,
           KindOf[t] # "cron", rec.enabled
    PROVE  /\ Fired(t, rec, now) \in Record
           /\ Fired(t, rec, now).status # "absent"
           /\ Fired(t, rec, now).next = Never \/ Fired(t, rec, now).next > now
<1>1. NextDaily(now) \in Nat /\ NextDaily(now) > now /\ NextDaily(now) <= now + Day
  BY NextDailyIsAhead, RecurringAssumption
<1>2. now \in Nat /\ MaxTime \in Nat /\ Every \in Nat \ {0} /\ Day \in Nat \ {0}
  BY RecurringAssumption
<1>3. NextDaily(now) \in Times /\ now + Every \in Times
  BY <1>1, <1>2 DEF Times
<1>4. KindOf[t] \in {"once", "interval", "cron", "daily"}
  BY RecurringAssumption
<1> HIDE DEF Times
<1>5. CASE KindOf[t] = "once"
  <2>1. Fired(t, rec, now) =
          [rec EXCEPT !.enabled = FALSE, !.status = "completed", !.next = Never]
    BY <1>5 DEF Fired
  <2>2. QED
    BY <2>1 DEF Record, Status
<1>6. CASE KindOf[t] = "interval"
  <2>1. Fired(t, rec, now) = [rec EXCEPT !.status = "scheduled", !.next = now + Every]
    BY <1>6 DEF Fired
  <2>2. now + Every > now
    BY <1>2
  <2>3. QED
    BY <1>3, <2>1, <2>2 DEF Record, Status
<1>7. CASE KindOf[t] = "daily"
  <2>1. Fired(t, rec, now) = [rec EXCEPT !.status = "scheduled", !.next = NextDaily(now)]
    BY <1>7 DEF Fired
  <2>2. QED
    BY <1>1, <1>3, <2>1 DEF Record, Status
<1>8. QED
  BY <1>4, <1>5, <1>6, <1>7

\* The first next time of a new timer is a time or never.
LEMMA InitialNextIsTime ==
    ASSUME NEW t \in Timers, NEW now \in 0 .. MaxTime, NEW notBefore \in {0, MaxTime}
    PROVE  InitialNext(t, now, notBefore) \in Times \cup {Never}
<1>1. NextDaily(now) \in Nat /\ NextDaily(now) <= now + Day
  BY NextDailyIsAhead, RecurringAssumption
<1>2. NextDaily(now) \in Times /\ now + Every \in Times /\ notBefore \in Times
  BY <1>1, RecurringAssumption DEF Times
<1>3. KindOf[t] \in {"once", "interval", "cron", "daily"}
  BY RecurringAssumption
<1>4. QED
  BY <1>2, <1>3 DEF InitialNext

\* What is served is some of what is due.
LEMMA FirstDueIsDue ==
    ASSUME NEW S, NEW room
    PROVE  FirstDue(S, room) \subseteq S
BY DEF FirstDue

-----------------------------------------------------------------------------
(* Types.                                                                  *)

LEMMA TimesFacts == Never \notin Times /\ Times \subseteq Nat /\ 0 .. MaxTime \subseteq Times
BY RecurringAssumption DEF Never, Times

LEMMA DueIsTime ==
    ASSUME NEW now \in 0 .. MaxTime, NEW d \in 0 .. now
    PROVE  d \in Times
BY RecurringAssumption DEF Times

LEMMA AbsentIsRecord == Absent \in Record
BY DEF Absent, Record, Status

LEMMA IdleIsMemory == Idle \in Memory
BY AbsentIsRecord, RecurringAssumption DEF Idle, Memory, PC

LEMMA InFileIsRegistry ==
    ASSUME NEW reg, NEW recs \in [Timers -> Record], registry \in [Timers -> Record]
    PROVE  InFile(reg, recs) \in [Timers -> Record]
BY DEF InFile

LEMMA UpdateIsMemory ==
    ASSUME NEW a \in Actors, NEW m \in Memory, mem \in [Actors -> Memory], Update(a, m)
    PROVE  /\ mem' \in [Actors -> Memory]
           /\ mem'[a] = m
           /\ \A b \in Actors \ {a} : mem'[b] = mem[b]
BY DEF Update

LEMMA OnceIsCount == \A n \in 0 .. 2 : Once(n) \in 0 .. 2 /\ Once(n) # 0
BY DEF Once

\* A history counts one time of one timer.
LEMMA ServedIsHistory ==
    ASSUME NEW h \in [Timers -> [Times -> 0 .. 2]], NEW t \in Timers, NEW d \in Times
    PROVE  LET after == [h EXCEPT ![t][d] = Once(@)] IN
           /\ after \in [Timers -> [Times -> 0 .. 2]]
           /\ \A u \in Timers, e \in Times :
                 after[u][e] = IF u = t /\ e = d THEN Once(h[t][d]) ELSE h[u][e]
<1>1. Once(h[t][d]) \in 0 .. 2
  BY OnceIsCount
<1>2. QED
  BY <1>1

\* What a process in its place may hold, next to its type: see Holds.  The type of a
\* step of the loop or of run-due rests on it.
LEMMA TypeNext ==
    ASSUME TypeOK, HoldInv, [Next]_vars
    PROVE  TypeOK'
<1> USE TimesFacts
<1> HIDE DEF Times
<1>1. Idle \in Memory /\ Absent \in Record
  BY IdleIsMemory, AbsentIsRecord
<1>2. ASSUME NEW a \in Actors, NEW t \in Timers, NEW rec \in Record, Edit(a, t, rec),
             UNCHANGED <<registry, open, clock, crashes, ghost>>
      PROVE  TypeOK'
  <2> DEFINE m == [Idle EXCEPT !.pc = "edit_save", !.timer = t,
                               !.recs = [registry EXCEPT ![t] = rec]]
  <2>1. m \in Memory
    BY <1>1, <1>2 DEF TypeOK, Memory, PC, Idle
  <2>2. Update(a, m)
    BY <1>2 DEF Edit
  <2> HIDE DEF m
  <2>3. mem' \in [Actors -> Memory]
    BY <2>1, <2>2, UpdateIsMemory DEF TypeOK
  <2>4. QED
    BY <1>2, <2>3 DEF TypeOK, ghost
<1>3. ASSUME NEW a \in Actors, NEW t \in Timers, NEW n \in {0, MaxTime}, Add(a, t, n)
      PROVE  TypeOK'
  <2> DEFINE rec == [enabled |-> TRUE, status |-> "scheduled", next |-> InitialNext(t, clock, n)]
  <2>1. rec \in Record
    BY InitialNextIsTime DEF TypeOK, Record, Status
  <2> HIDE DEF rec
  <2>2. Edit(a, t, rec) /\ UNCHANGED <<registry, open, clock, crashes, ghost>>
    BY <1>3 DEF Add, rec
  <2>3. QED
    BY <1>2, <2>1, <2>2
<1>4. ASSUME NEW a \in Actors, NEW t \in Timers, Pause(a, t) \/ Cancel(a, t)
      PROVE  TypeOK'
  <2>1. registry[t] \in Record
    BY DEF TypeOK
  <2>2. [registry[t] EXCEPT !.enabled = FALSE, !.status = "paused"] \in Record
    BY <2>1 DEF Record, Status
  <2>3. [registry[t] EXCEPT !.enabled = FALSE, !.status = "cancelled", !.next = Never]
          \in Record
    BY <2>1 DEF Record, Status, Times
  <2>4. QED
    BY <1>2, <1>4, <2>2, <2>3 DEF Pause, Cancel
<1>5. ASSUME NEW a \in Actors, EditSave(a)
      PROVE  TypeOK'
  <2>1. mem[a] \in Memory /\ mem[a].recs \in [Timers -> Record] /\ mem[a].timer \in Timers
    BY <1>5 DEF TypeOK, Memory, EditSave, HoldInv, Holds
  <2>2. registry' \in [Timers -> Record]
    BY <1>5, <2>1, InFileIsRegistry DEF TypeOK, EditSave
  <2>3. mem' \in [Actors -> Memory]
    BY <1>1, <1>5, UpdateIsMemory DEF TypeOK, EditSave
  <2>4. paused' \in SUBSET Timers
    BY <1>5, <2>1 DEF TypeOK, EditSave
  <2>5. QED
    BY <1>5, <2>2, <2>3, <2>4 DEF TypeOK, EditSave
<1>6. ASSUME NEW a \in Actors, Onboard(a)
      PROVE  TypeOK'
  <2>1. clock \in 0 .. MaxTime /\ NextDaily(clock) \in Times
    BY NextDailyIsAhead, RecurringAssumption DEF TypeOK, Times
  <2>2. [enabled |-> TRUE, status |-> "scheduled", next |-> NextDaily(clock)] \in Record
    BY <2>1 DEF Record, Status
  <2>3. registry' \in [Timers -> Record]
    BY <1>1, <1>6, <2>2 DEF Onboard, TypeOK
  <2>4. delivered' \in [Timers -> [Times -> 0 .. 2]] /\ paused' \in SUBSET Timers
    BY <1>6 DEF Onboard, TypeOK
  <2>5. QED
    BY <1>6, <2>3, <2>4 DEF Onboard, TypeOK
<1>7. ASSUME NEW a \in Actors, Claim(a)
      PROVE  TypeOK'
  <2> DEFINE S == {t \in Of("heartbeats") : IsDue(t, registry[t], clock)}
             m == [Idle EXCEPT !.pc = "claim_save", !.todo = FirstDue(S, Limit), !.now = clock,
                               !.recs = registry]
  <2>1. FirstDue(S, Limit) \subseteq Timers
    BY FirstDueIsDue DEF Of
  <2>2. m \in Memory
    BY <1>1, <2>1 DEF TypeOK, Memory, PC, Idle
  <2>3. Update(a, m)
    BY <1>7 DEF Claim
  <2> HIDE DEF m
  <2>4. mem' \in [Actors -> Memory]
    BY <2>2, <2>3, UpdateIsMemory DEF TypeOK
  <2>5. QED
    BY <1>7, <2>4 DEF TypeOK, Claim, ghost
<1>8. ASSUME NEW a \in Actors, ClaimSave(a)
      PROVE  TypeOK'
  <2>1. mem[a] \in Memory /\ mem[a].recs \in [Timers -> Record] /\ mem[a].now \in 0 .. MaxTime
    BY DEF TypeOK, Memory
  <2>2. \A t \in mem[a].todo : t \in Timers => Fired(t, mem[a].recs[t], mem[a].now) \in Record
    BY <2>1, FiredIsLater DEF HoldInv, Holds
  <2> DEFINE fired == [t \in Timers |-> IF t \in mem[a].todo
                                         THEN Fired(t, mem[a].recs[t], mem[a].now)
                                         ELSE mem[a].recs[t]]
  <2>3. fired \in [Timers -> Record]
    BY <2>1, <2>2
  <2> HIDE DEF fired
  <2>4. registry' \in [Timers -> Record]
    <3>1. registry' = InFile("heartbeats", fired)
      BY <1>8 DEF ClaimSave, fired
    <3>2. QED
      BY <2>3, <3>1, InFileIsRegistry DEF TypeOK
  <2>5. [mem[a] EXCEPT !.pc = "dispatch"] \in Memory
    BY <2>1 DEF Memory, PC
  <2>6. mem' \in [Actors -> Memory]
    BY <1>8, <2>5, UpdateIsMemory DEF TypeOK, ClaimSave
  <2>7. QED
    BY <1>8, <2>4, <2>6 DEF TypeOK, ClaimSave, ghost
<1>9. ASSUME NEW a \in Actors, NEW t \in Timers, Dispatch(a, t)
      PROVE  TypeOK'
  <2>1. mem[a] \in Memory /\ t \in mem[a].todo /\ mem[a].now \in 0 .. MaxTime
    BY <1>9, FirstDueIsDue DEF TypeOK, Memory, Dispatch
  <2>2. mem[a].recs[t].next \in Times
    BY <2>1, DueIsTime DEF HoldInv, Holds
  <2>3. dispatched' \in [Timers -> [Times -> 0 .. 2]]
    <3> DEFINE d == mem[a].recs[t].next
    <3>1. dispatched' = [dispatched EXCEPT ![t][d] = Once(@)]
      BY <1>9 DEF Dispatch
    <3> HIDE DEF d
    <3>2. d \in Times
      BY <2>2 DEF d
    <3>3. QED
      BY <3>1, <3>2, ServedIsHistory DEF TypeOK
  <2>4. open' \in SUBSET (Timers \X Times) /\ ran' \in SUBSET (Timers \X Times)
    BY <1>9, <2>2 DEF Dispatch, TypeOK
  <2>5. [mem[a] EXCEPT !.pc = "deliver", !.timer = t, !.todo = @ \ {t}] \in Memory
    BY <2>1 DEF Memory, PC
  <2>6. mem' \in [Actors -> Memory]
    BY <1>9, <2>5, UpdateIsMemory DEF TypeOK, Dispatch
  <2>7. QED
    BY <1>9, <2>3, <2>4, <2>6 DEF TypeOK, Dispatch
<1>10. ASSUME NEW t \in Timers, NEW d \in Times, NEW takers
       PROVE  Delivered(t, d, takers) \in [Timers -> [Times -> 0 .. 2]]
  <2>1. delivered \in [Timers -> [Times -> 0 .. 2]]
    BY DEF TypeOK
  <2>2. [delivered EXCEPT ![t][d] = Once(@)] \in [Timers -> [Times -> 0 .. 2]]
    BY <2>1, ServedIsHistory
  <2>3. QED
    BY <2>1, <2>2 DEF Delivered
<1>11. ASSUME NEW a \in Actors, Deliver(a)
       PROVE  TypeOK'
  <2>1. mem[a] \in Memory /\ mem[a].now \in 0 .. MaxTime
    BY DEF TypeOK, Memory
  <2>2. mem[a].timer \in Timers /\ mem[a].recs[mem[a].timer].next \in Times
    BY <1>11, <2>1, DueIsTime DEF HoldInv, Holds, Deliver, Of
  <2>3. [mem[a] EXCEPT !.pc = "close"] \in Memory
    BY <2>1 DEF Memory, PC
  <2>4. mem' \in [Actors -> Memory]
    BY <1>11, <2>3, UpdateIsMemory DEF TypeOK, Deliver
  <2>5. QED
    BY <1>10, <1>11, <2>2, <2>4 DEF TypeOK, Deliver
<1>12. ASSUME NEW a \in Actors, Close(a)
       PROVE  TypeOK'
  <2> DEFINE m == mem[a]
  <2>0. m \in Memory
    BY DEF TypeOK
  <2> HIDE DEF m
  <2>1. [m EXCEPT !.pc = "dispatch", !.timer = NoTimer] \in Memory
    BY <2>0 DEF Memory, PC
  <2>2. mem' \in [Actors -> Memory]
    BY <1>12, <2>1, UpdateIsMemory DEF TypeOK, Close, m
  <2>3. QED
    BY <1>12, <2>2 DEF TypeOK, Close, ghost
<1>13. ASSUME NEW a \in Actors, LoopEnds(a)
       PROVE  TypeOK'
  BY <1>1, <1>13, UpdateIsMemory DEF TypeOK, LoopEnds, ghost
<1>14. ASSUME NEW a \in Actors, NEW reg, NEW t \in Timers, RunDue(a, reg, t)
       PROVE  TypeOK'
  <2> DEFINE S == {u \in Of(reg) : IsDue(u, registry[u], clock)}
             m == [Idle EXCEPT !.pc = "due", !.todo = FirstDue(S, Limit), !.now = clock,
                               !.recs = registry, !.timer = t]
  <2>1. FirstDue(S, Limit) \subseteq Timers
    BY FirstDueIsDue DEF Of
  <2>2. m \in Memory
    BY <1>1, <2>1 DEF TypeOK, Memory, PC, Idle
  <2>3. Update(a, m)
    BY <1>14 DEF RunDue
  <2> HIDE DEF m
  <2>4. mem' \in [Actors -> Memory]
    BY <2>2, <2>3, UpdateIsMemory DEF TypeOK
  <2>5. QED
    BY <1>14, <2>4 DEF TypeOK, RunDue, ghost
<1>15. ASSUME NEW a \in Actors, DueDeliver(a)
       PROVE  TypeOK'
  <2>1. mem[a] \in Memory /\ mem[a].now \in 0 .. MaxTime
    BY DEF TypeOK, Memory
  <2>2. mem[a].timer \in Timers /\ mem[a].recs[mem[a].timer].next \in Times
    BY <1>15, <2>1, DueIsTime DEF HoldInv, Holds, DueDeliver, Passes
  <2>3. [mem[a] EXCEPT !.pc = "due_record", !.ahead = @ \cup {DueOf(a)}] \in Memory
    <3> DEFINE m == mem[a]
               r == DueOf(a)
    <3>1. m \in Memory /\ r \in Timers \X Times
      BY <2>1, <2>2 DEF DueOf
    <3> HIDE DEF m, r
    <3>2. [m EXCEPT !.pc = "due_record", !.ahead = @ \cup {r}] \in Memory
      BY <3>1 DEF Memory, PC
    <3>3. QED
      BY <3>2 DEF m, r
  <2>4. mem' \in [Actors -> Memory]
    BY <1>15, <2>3, UpdateIsMemory DEF TypeOK, DueDeliver
  <2>5. QED
    BY <1>10, <1>15, <2>2, <2>4 DEF TypeOK, DueDeliver
<1>16. ASSUME NEW a \in Actors, DueAborts(a) \/ Crash(a)
       PROVE  TypeOK'
  <2>1. mem' \in [Actors -> Memory]
    BY <1>1, <1>16, UpdateIsMemory DEF TypeOK, DueAborts, Crash
  <2>2. crashes' \in 0 .. MaxCrashes
    BY <1>16, RecurringAssumption DEF TypeOK, DueAborts, Crash
  <2>3. delivered' \in [Timers -> [Times -> 0 .. 2]]
    <3>1. delivered' = Undelivered(mem[a].ahead)
      BY <1>16 DEF DueAborts, Crash
    <3>2. \A S : Undelivered(S) \in [Timers -> [Times -> 0 .. 2]]
      BY DEF TypeOK, Undelivered
    <3>3. QED
      BY <3>1, <3>2
  <2>4. lost' \in SUBSET (Timers \X Times)
    <3>1. CASE DueAborts(a)
      BY <3>1 DEF TypeOK, DueAborts
    <3>2. CASE Crash(a)
      <4>1. /\ mem[a] \in Memory /\ mem[a].now \in 0 .. MaxTime
            /\ \A t \in mem[a].todo : t \in Timers /\ mem[a].recs[t].next \in 0 .. mem[a].now
        BY DEF TypeOK, Memory, HoldInv, Holds
      <4>2. \A t \in mem[a].todo : mem[a].recs[t].next \in Times
        BY <4>1, DueIsTime
      <4>3. lost \subseteq Timers \X Times
        BY DEF TypeOK
      <4>4. lost' = lost \/ lost' = lost \cup {<<t, mem[a].recs[t].next>> : t \in mem[a].todo}
        BY <3>2 DEF Crash
      <4>5. {<<t, mem[a].recs[t].next>> : t \in mem[a].todo} \subseteq Timers \X Times
        BY <4>1, <4>2
      <4>6. QED
        BY <4>3, <4>4, <4>5
    <3>3. QED
      BY <1>16, <3>1, <3>2
  <2>5. QED
    BY <1>16, <2>1, <2>2, <2>3, <2>4 DEF TypeOK, DueAborts, Crash
<1>17. ASSUME NEW a \in Actors, DueRecord(a)
       PROVE  TypeOK'
  <2> DEFINE t == mem[a].timer
             rest == mem[a].todo \ {t}
             fired == [mem[a].recs EXCEPT ![t] = Fired(t, @, mem[a].now)]
  <2>1. mem[a] \in Memory /\ mem[a].recs \in [Timers -> Record] /\ mem[a].now \in 0 .. MaxTime
        /\ mem[a].todo \subseteq Timers
    BY DEF TypeOK, Memory
  <2>2. t \in Timers /\ t \in mem[a].todo
    BY <1>17, <2>1 DEF HoldInv, Holds, DueRecord
  <2>3. Fired(t, mem[a].recs[t], mem[a].now) \in Record
    BY <2>1, <2>2, FiredIsLater DEF HoldInv, Holds
  <2>4. fired \in [Timers -> Record]
    BY <2>1, <2>2, <2>3
  <2> HIDE DEF fired, rest
  <2>5. PICK m \in Memory : Update(a, m)
    <3>1. CASE Update(a, [mem[a] EXCEPT !.recs = fired, !.todo = {}, !.pc = "due_save"])
      <4>1. [mem[a] EXCEPT !.recs = fired, !.todo = {}, !.pc = "due_save"] \in Memory
        BY <2>1, <2>4 DEF Memory, PC
      <4>2. QED
        BY <3>1, <4>1
    <3>2. ASSUME NEW u \in FirstDue(rest, 1),
                 Update(a, [mem[a] EXCEPT !.recs = fired, !.todo = rest, !.timer = u,
                                          !.pc = "due"])
          PROVE  \E m \in Memory : Update(a, m)
      <4>1. u \in Timers /\ rest \subseteq Timers
        BY <2>1, FirstDueIsDue DEF rest
      <4>2. [mem[a] EXCEPT !.recs = fired, !.todo = rest, !.timer = u, !.pc = "due"]
               \in Memory
        BY <2>1, <2>4, <4>1 DEF Memory, PC
      <4>3. QED
        BY <3>2, <4>2
    <3>3. QED
      BY <1>17, <3>1, <3>2 DEF DueRecord, fired, rest
  <2>6. mem' \in [Actors -> Memory]
    BY <2>5, UpdateIsMemory DEF TypeOK
  <2>7. ran' \in SUBSET (Timers \X Times)
    <3>1. mem[a].recs[t].next \in Times
      BY <2>1, <2>2, DueIsTime DEF HoldInv, Holds
    <3>2. QED
      <4>1. ran' = ran \cup {DueOf(a)}
        BY <1>17 DEF DueRecord
      <4>2. ran \subseteq Timers \X Times /\ DueOf(a) \in Timers \X Times
        BY <2>2, <3>1 DEF TypeOK, DueOf
      <4>3. QED
        BY <4>1, <4>2
  <2>8. QED
    BY <1>17, <2>6, <2>7 DEF TypeOK, DueRecord
<1>18. ASSUME NEW a \in Actors, DueSave(a)
       PROVE  TypeOK'
  <2>1. mem[a].recs \in [Timers -> Record]
    BY DEF TypeOK, Memory
  <2>2. registry' \in [Timers -> Record]
    BY <1>18, <2>1, InFileIsRegistry DEF TypeOK, DueSave
  <2>3. mem' \in [Actors -> Memory]
    BY <1>1, <1>18, UpdateIsMemory DEF TypeOK, DueSave
  <2>4. QED
    BY <1>18, <2>2, <2>3 DEF TypeOK, DueSave, ghost
<1>19. CASE Tick
  BY <1>19, RecurringAssumption DEF Tick, TypeOK, ghost
<1>20. CASE UNCHANGED vars
  BY <1>20 DEF vars, TypeOK
<1>21. QED
  BY <1>3, <1>4, <1>5, <1>6, <1>7, <1>8, <1>9, <1>11, <1>12, <1>13, <1>14, <1>15, <1>16,
     <1>17, <1>18, <1>19, <1>20
  DEF Next, LoopStep, DueStep, EditStep

\* The three ways a step changes what one process holds: nothing, its place alone, or
\* it is idle again.
LEMMA HoldKept ==
    ASSUME TypeOK, TypeOK', NEW a \in Actors, Holds(a), clock <= clock',
           \/ mem'[a] = mem[a]
           \/ mem'[a] = Idle
    PROVE  Holds(a)'
<1>1. clock \in Nat /\ clock' \in Nat /\ mem[a].now \in Nat
  BY RecurringAssumption DEF TypeOK, Memory
<1>2. CASE mem'[a] = mem[a]
  BY <1>1, <1>2 DEF Holds
<1>3. CASE mem'[a] = Idle
  BY <1>1, <1>3 DEF Holds, Idle, Claims, Passes
<1>4. QED
  BY <1>2, <1>3

LEMMA HoldNext ==
    ASSUME TypeOK, TypeOK', HoldInv, [Next]_vars
    PROVE  HoldInv'
<1> SUFFICES ASSUME NEW b \in Actors PROVE Holds(b)'
  BY DEF HoldInv
<1> USE DEF Claims, Passes
<1>1. Holds(b) /\ mem[b] \in Memory /\ clock \in 0 .. MaxTime
  BY DEF HoldInv, TypeOK
<1>2. clock \in Nat /\ clock' \in Nat /\ clock <= clock'
  <2>1. clock' = clock \/ clock' = clock + 1
    BY DEF Next, LoopStep, DueStep, EditStep, vars, Tick, Claim, ClaimSave, Deliver, Close,
           LoopEnds, Dispatch, RunDue, DueDeliver, DueAborts, DueRecord, DueSave, Pause,
           Cancel, Add, EditSave, Onboard, Crash
  <2>2. QED
    BY <2>1, RecurringAssumption DEF TypeOK
<1>4. ASSUME mem'[b] = mem[b] \/ mem'[b] = Idle
      PROVE  Holds(b)'
  BY <1>1, <1>2, <1>4, HoldKept
<1>5. ASSUME NEW a \in Actors, NEW m, Update(a, m), a # b \/ m = Idle
      PROVE  Holds(b)'
  BY <1>4, <1>5 DEF Update, TypeOK
<1>6. ASSUME NEW t \in Timers, NEW rec, Edit(b, t, rec)
      PROVE  Holds(b)'
  <2>1. /\ mem'[b].pc = "edit_save" /\ mem'[b].todo = {} /\ mem'[b].now = 0
        /\ mem'[b].timer = t /\ mem'[b].ahead = {}
    BY <1>6 DEF Edit, Update, Idle, TypeOK
  <2>2. QED
    BY <1>2, <2>1 DEF Holds
<1>7. CASE Claim(b)
  <2> DEFINE S == {t \in Of("heartbeats") : IsDue(t, registry[t], clock)}
  <2>1. FirstDue(S, Limit) \subseteq S
    BY FirstDueIsDue
  <2>2. /\ mem'[b].pc = "claim_save" /\ mem'[b].todo = FirstDue(S, Limit)
        /\ mem'[b].now = clock /\ mem'[b].recs = registry /\ mem'[b].ahead = {}
    BY <1>7 DEF Claim, Update, Idle, TypeOK
  <2>3. \A t \in Timers : registry[t].next \in Nat \cup {Never}
    BY TimesFacts DEF TypeOK, Record
  <2> HIDE DEF S
  <2>4. \A t \in mem'[b].todo : t \in Of("heartbeats") /\ IsDue(t, registry[t], clock)
    BY <2>1, <2>2 DEF S
  <2>5. QED
    BY <1>2, <2>2, <2>3, <2>4 DEF Holds, IsDue, Of, Never
<1>8. CASE ClaimSave(b)
  <2>1. /\ mem'[b].pc = "dispatch" /\ mem'[b].todo = mem[b].todo /\ mem'[b].now = mem[b].now
        /\ mem'[b].recs = mem[b].recs /\ mem[b].pc = "claim_save"
        /\ mem'[b].ahead = mem[b].ahead
    BY <1>1, <1>8 DEF ClaimSave, Update, TypeOK, Memory
  <2>2. UNCHANGED clock
    BY <1>8 DEF ClaimSave
  <2>3. QED
    BY <1>1, <2>1, <2>2 DEF Holds
<1>9. ASSUME NEW t \in Timers, Dispatch(b, t)
      PROVE  Holds(b)'
  <2>1. /\ mem'[b].pc = "deliver" /\ mem'[b].todo = mem[b].todo \ {t}
        /\ mem'[b].now = mem[b].now /\ mem'[b].recs = mem[b].recs /\ mem'[b].timer = t
        /\ mem[b].pc = "dispatch" /\ t \in mem[b].todo /\ UNCHANGED clock
        /\ mem'[b].ahead = mem[b].ahead
    BY <1>1, <1>9, FirstDueIsDue DEF Dispatch, Update, TypeOK, Memory
  <2>2. QED
    BY <1>1, <2>1 DEF Holds
<1>10. CASE Deliver(b) \/ Close(b)
  <2>1. /\ \/ /\ mem'[b].pc = "close" /\ mem[b].pc = "deliver"
              /\ mem'[b].timer = mem[b].timer
           \/ mem'[b].pc = "dispatch" /\ mem[b].pc = "close"
        /\ mem'[b].todo = mem[b].todo /\ mem'[b].ahead = mem[b].ahead
        /\ mem'[b].now = mem[b].now /\ mem'[b].recs = mem[b].recs /\ UNCHANGED clock
    <3>1. CASE Deliver(b)
      BY <1>1, <3>1 DEF Deliver, Update, TypeOK, Memory
    <3>2. CASE Close(b)
      BY <1>1, <3>2 DEF Close, Update, TypeOK, Memory
    <3>3. QED
      BY <1>10, <3>1, <3>2
  <2>2. QED
    BY <1>1, <2>1 DEF Holds
<1>11. ASSUME NEW reg, NEW t \in Timers, RunDue(b, reg, t)
       PROVE  Holds(b)'
  <2> DEFINE S == {u \in Of(reg) : IsDue(u, registry[u], clock)}
  <2>1. FirstDue(S, Limit) \subseteq S /\ FirstDue(FirstDue(S, Limit), 1) \subseteq FirstDue(S, Limit)
    BY FirstDueIsDue
  <2>2. /\ mem'[b].pc = "due" /\ mem'[b].todo = FirstDue(S, Limit)
        /\ mem'[b].now = clock /\ mem'[b].recs = registry /\ mem'[b].timer = t
    BY <1>11 DEF RunDue, Update, Idle, TypeOK
  <2>3. \A u \in Timers : registry[u].next \in Nat \cup {Never}
    BY TimesFacts DEF TypeOK, Record
  <2>4. t \in FirstDue(FirstDue(S, Limit), 1)
    BY <1>11 DEF RunDue
  <2> HIDE DEF S
  <2>5. /\ t \in mem'[b].todo
        /\ \A u \in mem'[b].todo : u \in Of(reg) /\ IsDue(u, registry[u], clock)
    BY <2>1, <2>2, <2>4 DEF S
  <2>6. QED
    BY <1>2, <2>2, <2>3, <2>5 DEF Holds, IsDue, Of, Never
<1>12. CASE DueDeliver(b)
  <2>1. /\ mem'[b].pc = "due_record" /\ mem[b].pc = "due" /\ mem'[b].timer = mem[b].timer
        /\ mem'[b].todo = mem[b].todo
        /\ mem'[b].now = mem[b].now /\ mem'[b].recs = mem[b].recs /\ UNCHANGED clock
    BY <1>1, <1>12 DEF DueDeliver, Update, TypeOK, Memory
  <2>2. QED
    BY <1>1, <2>1 DEF Holds
<1>13. CASE DueRecord(b)
  <2> DEFINE t == mem[b].timer
             rest == mem[b].todo \ {t}
  <2>1. /\ \/ mem'[b].pc = "due_save" /\ mem'[b].timer = t /\ mem'[b].todo = {}
           \/ mem'[b].pc = "due" /\ mem'[b].timer \in FirstDue(rest, 1) /\ mem'[b].todo = rest
        /\ mem'[b].now = mem[b].now /\ mem[b].pc = "due_record" /\ UNCHANGED clock
        /\ mem'[b].recs = [mem[b].recs EXCEPT ![t] = Fired(t, @, mem[b].now)]
    <3> DEFINE fired == [mem[b].recs EXCEPT ![t] = Fired(t, @, mem[b].now)]
    <3> HIDE DEF fired, rest
    <3>1. mem[b].pc = "due_record" /\ UNCHANGED clock
      BY <1>13 DEF DueRecord
    <3>2. CASE rest = {} /\ Update(b, [mem[b] EXCEPT !.recs = fired, !.todo = {},
                                                    !.pc = "due_save"])
      BY <1>1, <3>1, <3>2 DEF Update, TypeOK, Memory, fired
    <3>3. ASSUME NEW u \in FirstDue(rest, 1),
                 Update(b, [mem[b] EXCEPT !.recs = fired, !.todo = rest, !.timer = u,
                                          !.pc = "due"])
          PROVE  /\ mem'[b].pc = "due" /\ mem'[b].timer = u /\ mem'[b].todo = rest
                 /\ mem'[b].now = mem[b].now /\ mem'[b].recs = fired
      BY <1>1, <3>3 DEF Update, TypeOK, Memory
    <3>4. QED
      BY <1>13, <3>1, <3>2, <3>3 DEF DueRecord, fired, rest
  <2>2. /\ t \in Timers /\ t \in mem[b].todo /\ mem[b].todo \subseteq Of(RegOf[t])
        /\ mem[b].recs \in [Timers -> Record]
    BY <1>1, <2>1 DEF Holds, Memory
  <2>3. mem'[b].timer \in Timers /\ RegOf[mem'[b].timer] = RegOf[t]
        /\ (mem'[b].pc = "due" => mem'[b].timer \in rest)
    BY <2>1, <2>2, FirstDueIsDue DEF Of
  <2>4. \A u \in rest : mem'[b].recs[u] = mem[b].recs[u] /\ u \in Of(RegOf[t])
    BY <2>1, <2>2 DEF Of
  <2> HIDE DEF t, rest
  <2>5. mem'[b].todo \subseteq rest /\ rest \subseteq mem[b].todo /\ mem'[b].pc \in {"due", "due_save"}
    BY <2>1 DEF rest
  <2>6. QED
    BY <1>1, <2>1, <2>3, <2>4, <2>5 DEF Holds, Of
<1>14. CASE Tick \/ UNCHANGED vars
  BY <1>4, <1>14 DEF Tick, vars
<1>15. ASSUME NEW a \in Actors, LoopStep(a)
       PROVE  Holds(b)'
  BY <1>5, <1>7, <1>8, <1>9, <1>10, <1>15
  DEF LoopStep, Claim, ClaimSave, Deliver, Close, LoopEnds, Dispatch
<1>16. ASSUME NEW a \in Actors, DueStep(a)
       PROVE  Holds(b)'
  BY <1>5, <1>11, <1>12, <1>13, <1>16
  DEF DueStep, RunDue, DueDeliver, DueAborts, DueRecord, DueSave
<1>17. ASSUME NEW a \in Actors, EditStep(a) \/ Crash(a)
       PROVE  Holds(b)'
  BY <1>4, <1>5, <1>6, <1>17
  DEF EditStep, Pause, Cancel, Add, EditSave, Onboard, Crash, Edit
<1>18. QED
  BY <1>14, <1>15, <1>16, <1>17 DEF Next

\* The files and what the processes hold have their types, and each process holds
\* timers that were due when it took them up: whatever runs beside it and wherever it
\* dies.
THEOREM TypeCorrect == Spec => [](TypeOK /\ HoldInv)
<1>1. Init => TypeOK /\ HoldInv
  <2> SUFFICES ASSUME Init PROVE TypeOK /\ HoldInv
    OBVIOUS
  <2>1. TypeOK
    <3>1. registry \in [Timers -> Record] /\ mem \in [Actors -> Memory]
      BY IdleIsMemory, AbsentIsRecord DEF Init
    <3>2. /\ dispatched \in [Timers -> [Times -> 0 .. 2]]
          /\ delivered \in [Timers -> [Times -> 0 .. 2]]
      BY DEF Init
    <3>3. clock \in 0 .. MaxTime /\ crashes \in 0 .. MaxCrashes
      BY RecurringAssumption DEF Init
    <3>4. open \subseteq Timers \X Times /\ paused \subseteq Timers /\ broken \in BOOLEAN
          /\ ran \subseteq Timers \X Times /\ lost \subseteq Timers \X Times
      BY DEF Init
    <3>5. QED
      BY <3>1, <3>2, <3>3, <3>4 DEF TypeOK
  <2>2. HoldInv
    BY DEF Init, HoldInv, Holds, Idle, Claims, Passes
  <2>3. QED
    BY <2>1, <2>2
<1>2. TypeOK /\ HoldInv /\ [Next]_vars => (TypeOK /\ HoldInv)'
  BY TypeNext, HoldNext
<1>3. QED
  BY <1>1, <1>2, PTL DEF Spec

-----------------------------------------------------------------------------
(* One process at a time.                                                  *)

Step(a) == LoopStep(a) \/ DueStep(a) \/ EditStep(a) \/ Crash(a)

\* A step is taken while every other process is idle, and leaves those alone.
LEMMA StepIsAlone ==
    ASSUME Serial, TypeOK, CopyInv, NEW a \in Actors, Step(a)
    PROVE  \A b \in Actors \ {a} : mem[b].pc = "idle" /\ mem'[b] = mem[b]
<1>1. \A b \in Actors \ {a} : mem[b].pc = "idle"
  <2>1. IsFree(a) \/ mem[a].pc # "idle"
    BY DEF Step, LoopStep, DueStep, EditStep, Claim, ClaimSave, Deliver, Close,
           LoopEnds, Dispatch, RunDue, DueDeliver, DueAborts, DueRecord, DueSave, Pause,
           Cancel, Add, EditSave, Onboard, Crash
  <2>2. QED
    BY <2>1 DEF IsFree, CopyInv, Alone
<1>2. (\E m : Update(a, m)) \/ mem' = mem
  BY DEF Step, LoopStep, DueStep, EditStep, Claim, ClaimSave, Deliver, Close,
         LoopEnds, Dispatch, RunDue, DueDeliver, DueAborts, DueRecord, DueSave, Pause,
         Cancel, Add, EditSave, Onboard, Crash, Edit
<1>3. QED
  BY <1>1, <1>2 DEF Update, TypeOK

\* So an invariant of each process is to be shown for the one that took the step.
LEMMA OnlyOneCounts ==
    ASSUME NEW a \in Actors, \A b \in Actors \ {a} : mem'[b].pc = "idle"
    PROVE  /\ IsCopy(a)' => CopyInv'
           /\ DispatchOf(a)' => \A b \in Actors : DispatchOf(b)'
           /\ DeliverOf(a)' => \A b \in Actors : DeliverOf(b)'
           /\ PauseOf(a)' => \A b \in Actors : PauseOf(b)'
<1>1. ASSUME NEW b \in Actors \ {a}
      PROVE  /\ IsCopy(b)' /\ DispatchOf(b)' /\ DeliverOf(b)' /\ PauseOf(b)'
  BY <1>1 DEF IsCopy, DispatchOf, DeliverOf, PauseOf, Writes, Claims, Passes
<1>2. \A b \in Actors : Alone(b)'
  BY DEF Alone
<1>3. QED
  BY <1>1, <1>2 DEF CopyInv

\* A process that comes to rest owes nothing.
LEMMA IdleOwesNothing ==
    ASSUME NEW a \in Actors, mem'[a].pc = "idle"
    PROVE  IsCopy(a)' /\ DispatchOf(a)' /\ DeliverOf(a)' /\ PauseOf(a)'
BY DEF IsCopy, DispatchOf, DeliverOf, PauseOf, Writes, Claims, Passes

LEMMA EditServed ==
    ASSUME Serial, TypeOK, TypeOK', ServedInv, NEW a \in Actors, NEW t \in Timers,
           NEW rec \in Record, Step(a), IsFree(a), Edit(a, t, rec),
           UNCHANGED <<registry, open, clock, crashes, ghost>>,
           rec.status # "absent", rec.enabled => t \notin paused,
           \/ registry[t].status = "absent"
           \/ rec.next = registry[t].next
           \/ rec.next = Never
    PROVE  ServedInv'
<1> DEFINE recs == [registry EXCEPT ![t] = rec]
<1>1. /\ mem'[a].pc = "edit_save" /\ mem'[a].recs = recs /\ mem'[a].timer = t
  BY DEF Edit, Update, Idle, TypeOK
<1>2. /\ \A b \in Actors \ {a} : mem'[b].pc = "idle" /\ mem[b].pc = "idle"
      /\ mem[a].pc = "idle"
  BY StepIsAlone DEF ServedInv, IsFree
<1>3. recs \in [Timers -> Record] /\ recs[t] = rec /\ \A u \in Timers \ {t} : recs[u] = registry[u]
  BY DEF TypeOK
<1> HIDE DEF recs
<1>4. UNCHANGED <<registry, open, clock, dispatched, delivered, paused, broken>>
  BY DEF ghost
<1>5. ASSUME NEW h \in [Timers -> [Times -> 0 .. 2]], Kept(h, registry)
      PROVE  Kept(h, recs)
  BY <1>3, <1>5 DEF Kept
<1>6. IsCopy(a)'
  BY <1>1, <1>3, <1>4 DEF IsCopy, Passes
<1>7. DispatchOf(a)'
  BY <1>1, <1>4, <1>5 DEF DispatchOf, ServedInv, DispatchInv, Claims, TypeOK
<1>8. Kept(delivered, registry)
  BY <1>2 DEF ServedInv, DeliverInv, Passes
<1>9. DeliverOf(a)'
  BY <1>1, <1>4, <1>5, <1>8 DEF DeliverOf, Claims, Passes, TypeOK
<1>10. PauseOf(a)'
  BY <1>1, <1>3, <1>4 DEF PauseOf, ServedInv, PauseInv, Disabled, TypeOK
<1>11. CopyInv'
  BY <1>2, <1>6, OnlyOneCounts
<1>12. DispatchInv'
  BY <1>2, <1>4, <1>7, OnlyOneCounts DEF ServedInv, DispatchInv, Kept, DispatchedOnce
<1>13. DeliverInv'
  BY <1>2, <1>4, <1>8, <1>9, OnlyOneCounts DEF ServedInv, DeliverInv, Kept
<1>14. PauseInv'
  BY <1>2, <1>4, <1>10, OnlyOneCounts DEF ServedInv, PauseInv, Disabled
<1>15. OpenInv'
  BY <1>2, <1>4 DEF ServedInv, OpenInv
<1>16. QED
  BY <1>11, <1>12, <1>13, <1>14, <1>15 DEF ServedInv

LEMMA EditStartServed ==
    ASSUME Serial, TypeOK, TypeOK', ServedInv, NEW a \in Actors, NEW t \in Timers,
           Step(a),
           Pause(a, t) \/ Cancel(a, t) \/ \E n \in {0, MaxTime} : Add(a, t, n)
    PROVE  ServedInv'
<1>1. registry[t] \in Record /\ clock \in 0 .. MaxTime
  BY DEF TypeOK
<1>2. t \in paused => registry[t].status # "absent"
  BY DEF ServedInv, PauseInv, Disabled
<1>3. CASE Pause(a, t)
  <2> DEFINE rec == [registry[t] EXCEPT !.enabled = FALSE, !.status = "paused"]
  <2>1. rec \in Record /\ rec.status # "absent" /\ ~rec.enabled /\ rec.next = registry[t].next
    BY <1>1 DEF Record, Status
  <2>2. IsFree(a) /\ Edit(a, t, rec) /\ UNCHANGED <<registry, open, clock, crashes, ghost>>
    BY <1>3 DEF Pause
  <2> HIDE DEF rec
  <2>3. QED
    BY <2>1, <2>2, EditServed
<1>4. CASE Cancel(a, t)
  <2> DEFINE rec == [registry[t] EXCEPT !.enabled = FALSE, !.status = "cancelled", !.next = Never]
  <2>1. rec \in Record /\ rec.status # "absent" /\ ~rec.enabled /\ rec.next = Never
    BY <1>1 DEF Record, Status
  <2>2. IsFree(a) /\ Edit(a, t, rec) /\ UNCHANGED <<registry, open, clock, crashes, ghost>>
    BY <1>4 DEF Cancel
  <2> HIDE DEF rec
  <2>3. QED
    BY <2>1, <2>2, EditServed
<1>5. ASSUME NEW n \in {0, MaxTime}, Add(a, t, n)
      PROVE  ServedInv'
  <2> DEFINE rec == [enabled |-> TRUE, status |-> "scheduled", next |-> InitialNext(t, clock, n)]
  <2>1. rec \in Record /\ rec.status # "absent"
    BY <1>1, InitialNextIsTime DEF Record, Status
  <2>2. /\ IsFree(a) /\ Edit(a, t, rec) /\ UNCHANGED <<registry, open, clock, crashes, ghost>>
        /\ registry[t].status = "absent"
    BY <1>5 DEF Add
  <2> HIDE DEF rec
  <2>3. QED
    BY <1>2, <2>1, <2>2, EditServed
<1>6. QED
  BY <1>3, <1>4, <1>5

\* The copy becomes the file: of the records of the other registry it held what was there.
LEMMA CopyBecomesFile ==
    ASSUME TypeOK, HoldInv, CopyInv, NEW a \in Actors,
           mem[a].pc \in {"edit_save", "due_save"}
    PROVE  InFile(RegOf[mem[a].timer], mem[a].recs) = mem[a].recs
<1>1. mem[a].timer \in Timers /\ mem[a].recs \in [Timers -> Record]
  BY DEF HoldInv, Holds, TypeOK, Memory, Passes
<1>2. \A t \in Timers : RegOf[t] # RegOf[mem[a].timer] => mem[a].recs[t] = registry[t]
  BY <1>1 DEF CopyInv, IsCopy, Passes, Of
<1>3. QED
  BY <1>1, <1>2 DEF InFile

LEMMA EditSaveServed ==
    ASSUME Serial, TypeOK, TypeOK', HoldInv, ServedInv, NEW a \in Actors, Step(a), EditSave(a)
    PROVE  ServedInv'
<1>1. /\ mem'[a].pc = "idle" /\ mem[a].pc = "edit_save"
      /\ UNCHANGED <<open, clock, dispatched, delivered, broken>>
  BY DEF EditSave, Update, Idle, TypeOK
<1>2. \A b \in Actors \ {a} : mem'[b].pc = "idle" /\ mem[b].pc = "idle"
  BY StepIsAlone DEF ServedInv
<1>3. registry' = mem[a].recs
  BY <1>1, CopyBecomesFile DEF EditSave, ServedInv
<1>4. IsCopy(a)' /\ DispatchOf(a)' /\ DeliverOf(a)' /\ PauseOf(a)'
  BY <1>1, IdleOwesNothing
<1>5. Kept(dispatched, registry')
  BY <1>1, <1>3 DEF ServedInv, DispatchInv, DispatchOf, Writes
<1>6. Kept(delivered, registry')
  BY <1>1, <1>3 DEF ServedInv, DeliverInv, DeliverOf, Writes
<1>7. Disabled(registry)'
  <2>1. mem[a].recs[mem[a].timer].status # "absent"
    BY <1>1 DEF ServedInv, CopyInv, IsCopy
  <2>2. \A t \in paused' : t \in paused \/ (t = mem[a].timer /\ ~mem[a].recs[t].enabled)
    BY DEF EditSave
  <2>3. Disabled(mem[a].recs)
    BY <1>1 DEF ServedInv, PauseInv, PauseOf, Writes
  <2>4. QED
    BY <1>3, <2>1, <2>2, <2>3 DEF Disabled
<1>8. CopyInv'
  BY <1>2, <1>4, OnlyOneCounts
<1>9. DispatchInv'
  BY <1>1, <1>2, <1>4, <1>5, OnlyOneCounts DEF ServedInv, DispatchInv, Kept, DispatchedOnce
<1>10. DeliverInv'
  BY <1>1, <1>2, <1>4, <1>6, OnlyOneCounts DEF ServedInv, DeliverInv, Kept
<1>11. PauseInv'
  BY <1>2, <1>4, <1>7, OnlyOneCounts DEF ServedInv, PauseInv
<1>12. OpenInv'
  BY <1>1, <1>2 DEF ServedInv, OpenInv
<1>13. QED
  BY <1>8, <1>9, <1>10, <1>11, <1>12 DEF ServedInv

\* Onboarding touches schedules only; a default one is due again after now, which is
\* after everything that was delivered.
LEMMA OnboardServed ==
    ASSUME Serial, TypeOK, TypeOK', ServedInv, NEW a \in Actors, Step(a), Onboard(a)
    PROVE  ServedInv'
<1>1. /\ \A b \in Actors : mem'[b] = mem[b] /\ mem[b].pc = "idle"
      /\ UNCHANGED <<open, clock, dispatched, broken>>
  BY DEF Onboard, IsFree, ServedInv, CopyInv, Alone
<1>2. \A b \in Actors : IsCopy(b)' /\ DispatchOf(b)' /\ DeliverOf(b)' /\ PauseOf(b)' /\ Alone(b)'
  BY <1>1, IdleOwesNothing DEF Alone
<1>3. clock \in Nat /\ NextDaily(clock) > clock /\ NextDaily(clock) \in Nat
  BY NextDailyIsAhead, RecurringAssumption DEF TypeOK
<1>4. /\ \A t \in Of("heartbeats") : registry'[t] = registry[t] /\ delivered'[t] = delivered[t]
      /\ \A t \in Default : registry'[t].status = "scheduled"
                               /\ registry'[t].next = NextDaily(clock) /\ delivered'[t] = delivered[t]
      /\ \A t \in Of("schedules") \ Default : \A d \in Times : delivered'[t][d] = 0
      /\ \A t \in paused' : t \in paused /\ t \in Of("heartbeats")
  BY RecurringAssumption DEF Onboard, Of, TypeOK
<1>5. Timers = Of("heartbeats") \cup Default \cup (Of("schedules") \ Default)
  BY RecurringAssumption DEF Of
<1>6. Kept(dispatched, registry)'
  <2>1. SUFFICES ASSUME NEW t \in Timers, NEW d \in Times, dispatched[t][d] # 0
                 PROVE  registry'[t].status # "absent"
                        /\ (registry'[t].next = Never \/ registry'[t].next > d)
    BY <1>1 DEF Kept
  <2>2. t \in Of("heartbeats")
    BY <2>1, RecurringAssumption DEF ServedInv, DispatchInv, Of
  <2>3. QED
    BY <1>4, <2>1, <2>2 DEF ServedInv, DispatchInv, Kept
<1>7. /\ Kept(delivered, registry)'
      /\ \A t \in Timers, d \in Times : delivered'[t][d] # 0 => d <= clock /\ delivered'[t][d] <= 1
  <2>1. SUFFICES ASSUME NEW t \in Timers, NEW d \in Times, delivered'[t][d] # 0
                 PROVE  /\ registry'[t].status # "absent"
                        /\ registry'[t].next = Never \/ registry'[t].next > d
                        /\ d <= clock /\ delivered'[t][d] <= 1
    BY DEF Kept
  <2>2. delivered'[t] = delivered[t] /\ t \in Of("heartbeats") \cup Default
    BY <1>4, <1>5, <2>1
  <2>3. d <= clock /\ delivered[t][d] <= 1 /\ d \in Nat
    BY <1>7, <2>1, <2>2, TimesFacts DEF ServedInv, DeliverInv
  <2>4. Kept(delivered, registry)
    BY <1>1, <1>7 DEF ServedInv, DeliverInv, Passes
  <2>5. CASE t \in Of("heartbeats")
    BY <1>4, <2>1, <2>2, <2>3, <2>4, <2>5 DEF Kept
  <2>6. CASE t \in Default
    BY <1>3, <1>4, <2>2, <2>3, <2>6
  <2>7. QED
    BY <2>2, <2>5, <2>6
<1>8. \A t \in Timers, d \in Times : delivered'[t][d] \in 0 .. 2
  BY DEF TypeOK
<1>9. CopyInv' /\ PauseInv'
  BY <1>2, <1>4 DEF CopyInv, ServedInv, PauseInv, Disabled
<1>10. DispatchInv'
  BY <1>1, <1>2, <1>6 DEF ServedInv, DispatchInv, DispatchedOnce
<1>11. DeliverInv'
  <2>1. \A t \in Timers, d \in Times : delivered'[t][d] <= 1
    BY <1>7, <1>8
  <2>2. QED
    BY <1>1, <1>2, <1>7, <2>1 DEF DeliverInv
<1>12. OpenInv'
  BY <1>1 DEF ServedInv, OpenInv
<1>13. QED
  BY <1>9, <1>10, <1>11, <1>12 DEF ServedInv

-----------------------------------------------------------------------------
(* The loop.                                                               *)

LEMMA ClaimServed ==
    ASSUME Serial, TypeOK, TypeOK', ServedInv, NEW a \in Actors, Step(a), Claim(a)
    PROVE  ServedInv'
<1>1. /\ mem'[a].pc = "claim_save" /\ mem'[a].recs = registry
      /\ UNCHANGED <<registry, open, clock, dispatched, delivered, paused, broken>>
      /\ mem[a].pc = "idle"
  BY DEF Claim, Update, Idle, TypeOK, ghost, IsFree
<1>2. \A b \in Actors \ {a} : mem'[b].pc = "idle" /\ mem[b].pc = "idle"
  BY StepIsAlone DEF ServedInv
<1>3. IsCopy(a)'
  BY <1>1 DEF IsCopy, Passes
<1>4. DispatchOf(a)'
  BY <1>1 DEF DispatchOf, ServedInv, DispatchInv, Claims
<1>5. DeliverOf(a)' /\ Kept(delivered, registry)
  BY <1>1, <1>2 DEF DeliverOf, ServedInv, DeliverInv, Claims, Passes
<1>6. PauseOf(a)'
  BY <1>1 DEF PauseOf, ServedInv, PauseInv, Disabled
<1>7. CopyInv' /\ DispatchInv' /\ PauseInv'
  BY <1>1, <1>2, <1>3, <1>4, <1>6, OnlyOneCounts
  DEF ServedInv, DispatchInv, PauseInv, Kept, DispatchedOnce, Disabled
<1>8. DeliverInv'
  BY <1>1, <1>2, <1>5, OnlyOneCounts DEF ServedInv, DeliverInv, Kept
<1>9. OpenInv'
  BY <1>1, <1>2 DEF ServedInv, OpenInv
<1>10. QED
  BY <1>7, <1>8, <1>9 DEF ServedInv

LEMMA ClaimSaveServed ==
    ASSUME Serial, TypeOK, TypeOK', HoldInv, ServedInv, NEW a \in Actors, Step(a), ClaimSave(a)
    PROVE  ServedInv'
<1> DEFINE m == mem[a]
<1>1. /\ m.pc = "claim_save" /\ mem'[a].pc = "dispatch" /\ mem'[a].recs = m.recs
      /\ mem'[a].todo = m.todo
      /\ UNCHANGED <<open, clock, dispatched, delivered, paused, broken>>
  BY DEF ClaimSave, Update, TypeOK, Memory, ghost
<1>2. \A b \in Actors \ {a} : mem'[b].pc = "idle" /\ mem[b].pc = "idle"
  BY StepIsAlone DEF ServedInv
<1>3. m.recs = registry /\ m.now \in 0 .. MaxTime /\ m.todo \subseteq Timers
  BY <1>1 DEF ServedInv, CopyInv, IsCopy, TypeOK, Memory
<1>4. \A t \in m.todo : /\ t \in Of("heartbeats") /\ registry[t] \in Record
                        /\ registry[t].enabled /\ KindOf[t] # "cron"
                        /\ registry[t].next \in 0 .. m.now
  BY <1>1, <1>3 DEF HoldInv, Holds, TypeOK
<1>5. \A t \in Timers : registry'[t] = IF t \in m.todo THEN Fired(t, registry[t], m.now)
                                        ELSE registry[t]
  BY <1>3, <1>4 DEF ClaimSave, InFile, Of
<1>6. \A t \in m.todo : registry'[t].status # "absent"
                         /\ (registry'[t].next = Never \/ registry'[t].next > m.now)
  BY <1>3, <1>4, <1>5, FiredIsLater
<1>7. \A t \in Timers : registry'[t].next \in Times \cup {Never} /\ registry[t].next \in Times \cup {Never}
  BY DEF TypeOK, Record
<1>8. m.now \in Nat /\ Times \subseteq Nat /\ Never = -1
  BY <1>3, TimesFacts DEF Never
<1> HIDE DEF m
<1>9. ASSUME NEW h, Kept(h, registry)
      PROVE  Kept(h, registry')
  <2> SUFFICES ASSUME NEW t \in Timers, NEW d \in Times, h[t][d] # 0
               PROVE  registry'[t].status # "absent"
                      /\ (registry'[t].next = Never \/ registry'[t].next > d)
    BY DEF Kept
  <2>1. registry[t].status # "absent" /\ (registry[t].next = Never \/ registry[t].next > d)
    BY <1>9 DEF Kept
  <2>2. CASE t \in m.todo
    <3>1. registry[t].next \in 0 .. m.now /\ d \in Nat
      BY <1>4, <1>8, <2>2
    <3>2. d < m.now
      BY <1>8, <2>1, <3>1
    <3>3. registry'[t].next = Never \/ (registry'[t].next \in Nat /\ registry'[t].next > m.now)
      BY <1>6, <1>7, <1>8, <2>2
    <3>4. QED
      BY <1>6, <1>8, <2>2, <3>1, <3>2, <3>3
  <2>3. CASE t \notin m.todo
    BY <1>5, <2>1, <2>3
  <2>4. QED
    BY <2>2, <2>3
<1>10. ASSUME NEW h \in [Timers -> [Times -> 0 .. 2]], Kept(h, registry), NEW t \in m.todo
       PROVE  /\ h[t][m.recs[t].next] = 0 /\ registry'[t].status # "absent"
              /\ registry'[t].next = Never \/ registry'[t].next > m.recs[t].next
  <2>1. t \in Timers /\ m.recs[t].next \in Times /\ m.recs[t].next \in 0 .. m.now
    BY <1>3, <1>4, DueIsTime
  <2>2. h[t][m.recs[t].next] = 0
    <3>1. m.recs[t].next \in Nat /\ m.recs[t].next # Never /\ ~(m.recs[t].next > m.recs[t].next)
      BY <1>8, <2>1
    <3>2. QED
      BY <1>3, <1>10, <2>1, <3>1 DEF Kept
  <2>3. registry'[t].next = Never \/ (registry'[t].next \in Nat /\ registry'[t].next > m.now)
    BY <1>6, <1>7, <1>8, <2>1
  <2>4. registry'[t].next = Never \/ registry'[t].next > m.recs[t].next
    <3> DEFINE x == m.recs[t].next
               y == registry'[t].next
    <3>1. x \in 0 .. m.now /\ m.now \in Nat /\ (y = Never \/ (y \in Nat /\ y > m.now))
      BY <1>8, <2>1, <2>3
    <3> HIDE DEF x, y
    <3>2. y = Never \/ y > x
      BY <3>1
    <3>3. QED
      BY <3>2 DEF x, y
  <2>5. QED
    BY <1>6, <2>2, <2>4
<1>11. Kept(dispatched, registry) /\ Kept(delivered, registry)
  <2>1. \A b \in Actors : mem[b].pc \notin Passes
    BY <1>1, <1>2 DEF Passes, m
  <2>2. QED
    BY <2>1 DEF ServedInv, DispatchInv, DeliverInv
<1>12. IsCopy(a)' /\ PauseOf(a)'
  BY <1>1 DEF IsCopy, PauseOf, Passes, Writes
<1>13. DispatchOf(a)'
  BY <1>1, <1>10, <1>11 DEF DispatchOf, ClaimKept, Writes, TypeOK
<1>14. DeliverOf(a)'
  BY <1>1, <1>10, <1>11 DEF DeliverOf, ClaimKept, Writes, Passes, TypeOK
<1>15. Disabled(registry)'
  <2>1. \A t \in paused : t \in Timers /\ t \notin m.todo
    BY <1>4 DEF ServedInv, PauseInv, Disabled, TypeOK
  <2>2. QED
    BY <1>1, <1>5, <2>1 DEF ServedInv, PauseInv, Disabled
<1>16. CopyInv' /\ PauseInv'
  BY <1>2, <1>12, <1>15, OnlyOneCounts DEF PauseInv
<1>17. DispatchInv'
  <2>1. Kept(dispatched, registry)'
    BY <1>1, <1>9, <1>11 DEF Kept
  <2>2. QED
    BY <1>1, <1>2, <1>13, <2>1, OnlyOneCounts DEF ServedInv, DispatchInv, DispatchedOnce
<1>18. DeliverInv'
  <2>1. Kept(delivered, registry)'
    BY <1>1, <1>9, <1>11 DEF Kept
  <2>2. QED
    BY <1>1, <1>2, <1>14, <2>1, OnlyOneCounts DEF ServedInv, DeliverInv
<1>19. OpenInv'
  BY <1>1, <1>2 DEF ServedInv, OpenInv, m
<1>20. QED
  BY <1>16, <1>17, <1>18, <1>19 DEF ServedInv

LEMMA DispatchServed ==
    ASSUME Serial, TypeOK, TypeOK', HoldInv, ServedInv, NEW a \in Actors, NEW t \in Timers,
           Step(a), Dispatch(a, t)
    PROVE  ServedInv'
<1> DEFINE m == mem[a]
           d == m.recs[t].next
<1>1. /\ m.pc = "dispatch" /\ mem'[a].pc = "deliver" /\ mem'[a].recs = m.recs
      /\ mem'[a].todo = m.todo \ {t} /\ mem'[a].timer = t
      /\ open' = open \cup {<<t, d>>}
      /\ dispatched' = [dispatched EXCEPT ![t][d] = Once(@)]
      /\ UNCHANGED <<registry, clock, delivered, paused, broken>>
  BY DEF Dispatch, Update, TypeOK, Memory
<1>2. \A b \in Actors \ {a} : mem'[b].pc = "idle" /\ mem[b].pc = "idle"
  BY StepIsAlone DEF ServedInv
<1>3. t \in m.todo /\ m.todo \subseteq Of("heartbeats") /\ m.todo \subseteq Timers
  BY <1>1, FirstDueIsDue DEF Dispatch, HoldInv, Holds, Claims, Of
<1>4. d \in Times
  BY <1>3, DueIsTime DEF HoldInv, Holds, TypeOK, Memory
<1>5. \A u \in m.todo : ClaimKept(dispatched, m, u) /\ ClaimKept(delivered, m, u)
  BY <1>1 DEF ServedInv, DispatchInv, DispatchOf, DeliverInv, DeliverOf, Claims
<1> HIDE DEF m, d
<1>6. \A u \in Timers, e \in Times :
          dispatched'[u][e] = IF u = t /\ e = d THEN 1 ELSE dispatched[u][e]
  <2>1. dispatched[t][d] = 0
    BY <1>3, <1>5 DEF ClaimKept, d
  <2>2. QED
    BY <1>1, <1>4, <2>1, ServedIsHistory DEF TypeOK, Once
<1>7. Kept(dispatched, registry)'
  BY <1>1, <1>3, <1>5, <1>6 DEF Kept, ClaimKept, ServedInv, DispatchInv, d
<1>8. DispatchOf(a)'
  <2> SUFFICES ASSUME NEW u \in m.todo \ {t}
               PROVE  ClaimKept(dispatched, mem[a], u)'
    BY <1>1 DEF DispatchOf, Writes
  <2>1. m.recs[u].next \in Times
    BY <1>3, DueIsTime DEF HoldInv, Holds, TypeOK, Memory, m
  <2>2. QED
    BY <1>1, <1>3, <1>5, <1>6, <2>1 DEF ClaimKept
<1>9. DeliverOf(a)'
  BY <1>1, <1>3, <1>5 DEF DeliverOf, Writes, Passes, ClaimKept
<1>10. IsCopy(a)' /\ PauseOf(a)'
  BY <1>1 DEF IsCopy, PauseOf, Passes, Writes
<1>11. CopyInv' /\ PauseInv'
  BY <1>1, <1>2, <1>10, OnlyOneCounts DEF ServedInv, PauseInv, Disabled
<1>12. DispatchInv'
  <2>1. \A u \in Of("schedules"), e \in Times : dispatched'[u][e] = 0
    BY <1>3, <1>6 DEF ServedInv, DispatchInv, Of
  <2>2. DispatchedOnce'
    BY <1>6 DEF ServedInv, DispatchInv, DispatchedOnce
  <2>3. QED
    BY <1>2, <1>7, <1>8, <2>1, <2>2, OnlyOneCounts DEF DispatchInv
<1>13. DeliverInv'
  <2>1. Kept(delivered, registry)
    BY <1>1, <1>2 DEF ServedInv, DeliverInv, Passes, m
  <2>2. QED
    BY <1>1, <1>2, <1>9, <2>1, OnlyOneCounts DEF ServedInv, DeliverInv, Kept
<1>14. OpenInv'
  <2>1. ~broken => open = {}
    BY <1>1, <1>2 DEF ServedInv, OpenInv, m
  <2>2. DueOf(a)' = <<t, d>>
    BY <1>1 DEF DueOf, d
  <2>3. QED
    BY <1>1, <2>1, <2>2 DEF OpenInv
<1>15. QED
  BY <1>11, <1>12, <1>13, <1>14 DEF ServedInv

LEMMA DeliverServed ==
    ASSUME Serial, TypeOK, TypeOK', HoldInv, ServedInv, NEW a \in Actors, Step(a), Deliver(a)
    PROVE  ServedInv'
<1> DEFINE m == mem[a]
           t == m.timer
           d == m.recs[t].next
<1>1. /\ m.pc = "deliver" /\ mem'[a].pc = "close" /\ mem'[a].recs = m.recs
      /\ mem'[a].todo = m.todo /\ mem'[a].timer = t
      /\ delivered' = Delivered(t, d, {"open", "disabled", "mute"})
      /\ UNCHANGED <<registry, open, clock, dispatched, paused, broken>>
  BY DEF Deliver, Update, TypeOK, Memory
<1>2. \A b \in Actors \ {a} : mem'[b].pc = "idle" /\ mem[b].pc = "idle"
  BY StepIsAlone DEF ServedInv
<1>3. /\ t \in Timers /\ t \notin m.todo /\ m.todo \subseteq Timers
      /\ d \in 0 .. m.now /\ m.now <= clock /\ m.now \in 0 .. MaxTime /\ clock \in 0 .. MaxTime
  BY <1>1 DEF HoldInv, Holds, TypeOK, Memory, Of
<1>4. d \in Times /\ d <= clock
  BY <1>3, DueIsTime, RecurringAssumption
<1>5. \A u \in m.todo : ClaimKept(dispatched, m, u) /\ ClaimKept(delivered, m, u)
  BY <1>1 DEF ServedInv, DispatchInv, DispatchOf, DeliverInv, DeliverOf, Claims
<1>6. ClaimKept(delivered, m, t)
  BY <1>1 DEF ServedInv, DeliverInv, DeliverOf
<1> HIDE DEF m, t, d
<1>7. ASSUME NEW u \in Timers, NEW e \in Times
      PROVE  \/ delivered'[u][e] = delivered[u][e]
             \/ u = t /\ e = d /\ delivered'[u][e] = 1
  <2>1. delivered[t][d] = 0
    BY <1>6, <1>7 DEF ClaimKept, d
  <2>2. CASE delivered' = delivered
    BY <2>2
  <2>3. CASE delivered' = [delivered EXCEPT ![t][d] = Once(@)]
    BY <1>3, <1>4, <2>1, <2>3, ServedIsHistory DEF TypeOK, Once
  <2>4. QED
    BY <1>1, <2>2, <2>3 DEF Delivered
<1>8. Kept(delivered, registry)
  BY <1>1, <1>2 DEF ServedInv, DeliverInv, Passes, m
<1>9. Kept(delivered, registry)'
  BY <1>1, <1>6, <1>7, <1>8 DEF Kept, ClaimKept, d
<1>10. DeliverOf(a)'
  <2> SUFFICES ASSUME NEW u \in m.todo
               PROVE  ClaimKept(delivered, mem[a], u)'
    BY <1>1 DEF DeliverOf, Writes, Passes
  <2>1. m.recs[u].next \in Times
    BY <1>3, DueIsTime DEF HoldInv, Holds, TypeOK, Memory, m
  <2>2. QED
    BY <1>1, <1>3, <1>5, <1>7, <2>1 DEF ClaimKept
<1>11. IsCopy(a)' /\ PauseOf(a)'
  BY <1>1 DEF IsCopy, PauseOf, Passes, Writes
<1>12. DispatchOf(a)'
  BY <1>1, <1>5 DEF DispatchOf, Writes, ClaimKept
<1>13. CopyInv' /\ PauseInv'
  BY <1>1, <1>2, <1>11, OnlyOneCounts DEF ServedInv, PauseInv, Disabled
<1>14. DispatchInv'
  BY <1>1, <1>2, <1>12, OnlyOneCounts DEF ServedInv, DispatchInv, Kept, DispatchedOnce
<1>15. DeliverInv'
  <2>1. \A u \in Timers, e \in Times :
            (delivered'[u][e] # 0 => e <= clock) /\ delivered'[u][e] <= 1
    BY <1>4, <1>7 DEF ServedInv, DeliverInv
  <2>2. QED
    BY <1>1, <1>2, <1>9, <1>10, <2>1, OnlyOneCounts DEF DeliverInv
<1>16. OpenInv'
  <2>1. DueOf(a)' = DueOf(a)
    BY <1>1 DEF DueOf, m, t
  <2>2. QED
    BY <1>1, <1>2, <2>1 DEF ServedInv, OpenInv, m
<1>17. QED
  BY <1>13, <1>14, <1>15, <1>16 DEF ServedInv

LEMMA CloseServed ==
    ASSUME Serial, TypeOK, TypeOK', ServedInv, NEW a \in Actors, Step(a), Close(a)
    PROVE  ServedInv'
<1>1. /\ mem[a].pc = "close" /\ mem'[a].pc = "dispatch" /\ mem'[a].recs = mem[a].recs
      /\ mem'[a].todo = mem[a].todo /\ open' = open \ {DueOf(a)}
      /\ UNCHANGED <<registry, clock, dispatched, delivered, paused, broken>>
  BY DEF Close, Update, TypeOK, Memory, ghost
<1>2. \A b \in Actors \ {a} : mem'[b].pc = "idle" /\ mem[b].pc = "idle"
  BY StepIsAlone DEF ServedInv
<1>3. IsCopy(a)' /\ PauseOf(a)'
  BY <1>1 DEF IsCopy, PauseOf, Passes, Writes
<1>4. DispatchOf(a)'
  BY <1>1 DEF DispatchOf, ServedInv, DispatchInv, Writes, Claims, ClaimKept
<1>5. DeliverOf(a)' /\ Kept(delivered, registry)
  BY <1>1, <1>2 DEF DeliverOf, ServedInv, DeliverInv, Writes, Claims, Passes, ClaimKept
<1>6. CopyInv' /\ DispatchInv' /\ PauseInv'
  BY <1>1, <1>2, <1>3, <1>4, OnlyOneCounts
  DEF ServedInv, DispatchInv, PauseInv, Kept, DispatchedOnce, Disabled
<1>7. DeliverInv'
  BY <1>1, <1>2, <1>5, OnlyOneCounts DEF ServedInv, DeliverInv, Kept
<1>8. OpenInv'
  BY <1>1, <1>2 DEF ServedInv, OpenInv
<1>9. QED
  BY <1>6, <1>7, <1>8 DEF ServedInv

-----------------------------------------------------------------------------
(* The end of a process, and run-due.                                      *)

\* A process comes to rest without a last write: the loop's end, or, once something is
\* broken, a death or an Err anywhere.  What a pass had served is not counted any more.
LEMMA RestServed ==
    ASSUME Serial, TypeOK, TypeOK', HoldInv, ServedInv, NEW a \in Actors, Step(a),
           mem'[a].pc = "idle", UNCHANGED <<registry, open, clock, dispatched, paused>>,
           \/ broken' /\ delivered' = Undelivered(mem[a].ahead)
           \/ UNCHANGED <<broken, delivered>> /\ mem[a].pc = "dispatch"
    PROVE  ServedInv'
<1>1. \A b \in Actors \ {a} : mem'[b].pc = "idle" /\ mem[b].pc = "idle"
  BY StepIsAlone DEF ServedInv
<1>2. IsCopy(a)' /\ DispatchOf(a)' /\ DeliverOf(a)' /\ PauseOf(a)'
  BY IdleOwesNothing
<1>3. CopyInv' /\ DispatchInv' /\ PauseInv'
  BY <1>1, <1>2, OnlyOneCounts DEF ServedInv, DispatchInv, PauseInv, Kept, DispatchedOnce, Disabled
<1>4. \A t \in Timers, d \in Times : delivered'[t][d] \in {0, delivered[t][d]}
  BY DEF Undelivered
<1>5. Kept(delivered', registry)
  <2>1. CASE mem[a].pc \in Passes
    <3>1. Kept(Undelivered(mem[a].ahead), registry)
      BY <2>1 DEF ServedInv, DeliverInv, DeliverOf
    <3>2. delivered' = Undelivered(mem[a].ahead)
      BY <2>1 DEF Passes
    <3>3. QED
      BY <3>1, <3>2
  <2>2. CASE mem[a].pc \notin Passes
    <3>1. Kept(delivered, registry)
      BY <1>1, <2>2 DEF ServedInv, DeliverInv, Passes
    <3>2. QED
      BY <1>4, <3>1 DEF Kept
  <2>3. QED
    BY <2>1, <2>2
<1>6. DeliverInv'
  <2>1. \A t \in Timers, d \in Times :
            (delivered'[t][d] # 0 => d <= clock) /\ delivered'[t][d] <= 1
    BY <1>4 DEF ServedInv, DeliverInv
  <2>2. Kept(delivered, registry)'
    BY <1>5 DEF Kept
  <2>3. QED
    BY <1>1, <1>2, <2>1, <2>2, OnlyOneCounts DEF DeliverInv
<1>7. OpenInv'
  BY <1>1 DEF ServedInv, OpenInv
<1>8. QED
  BY <1>3, <1>6, <1>7 DEF ServedInv

LEMMA RunDueServed ==
    ASSUME Serial, TypeOK, TypeOK', HoldInv', ServedInv, NEW a \in Actors, NEW reg,
           NEW t \in Timers, Step(a), RunDue(a, reg, t)
    PROVE  ServedInv'
<1>1. /\ mem'[a].pc = "due" /\ mem'[a].recs = registry /\ mem'[a].ahead = {}
      /\ UNCHANGED <<registry, open, clock, dispatched, delivered, paused, broken>>
      /\ mem[a].pc = "idle"
  BY DEF RunDue, Update, Idle, TypeOK, ghost, IsFree
<1>2. \A b \in Actors \ {a} : mem'[b].pc = "idle" /\ mem[b].pc = "idle"
  BY StepIsAlone DEF ServedInv
<1>3. IsCopy(a)'
  BY <1>1 DEF IsCopy, Passes
<1>4. DispatchOf(a)'
  BY <1>1 DEF DispatchOf, ServedInv, DispatchInv, Claims
<1>5. DeliverOf(a)'
  <2>1. Kept(delivered, registry)
    BY <1>1, <1>2 DEF ServedInv, DeliverInv, Passes
  <2>2. Kept(Undelivered({})', registry)
    BY <1>1, <2>1 DEF Undelivered, Kept
  <2>3. QED
    BY <1>1, <2>1, <2>2 DEF DeliverOf, Kept, Undelivered, Claims
<1>6. PauseOf(a)'
  BY <1>1 DEF PauseOf, ServedInv, PauseInv, Disabled
<1>7. CopyInv' /\ DispatchInv' /\ PauseInv'
  BY <1>1, <1>2, <1>3, <1>4, <1>6, OnlyOneCounts
  DEF ServedInv, DispatchInv, PauseInv, Kept, DispatchedOnce, Disabled
<1>8. DeliverInv'
  <2>1. mem'[a].pc \in Passes
    BY <1>1 DEF Passes
  <2>2. QED
    BY <1>1, <1>2, <1>5, <2>1, OnlyOneCounts DEF ServedInv, DeliverInv
<1>9. OpenInv'
  BY <1>1, <1>2 DEF ServedInv, OpenInv
<1>10. QED
  BY <1>7, <1>8, <1>9 DEF ServedInv

LEMMA DueDeliverServed ==
    ASSUME Serial, TypeOK, TypeOK', HoldInv, ServedInv, NEW a \in Actors, Step(a), DueDeliver(a)
    PROVE  ServedInv'
<1> DEFINE m == mem[a]
           t == m.timer
           d == m.recs[t].next
<1>1. /\ m.pc = "due" /\ mem'[a].pc = "due_record" /\ mem'[a].recs = m.recs
      /\ mem'[a].timer = t /\ mem'[a].ahead = m.ahead \cup {<<t, d>>}
      /\ delivered' = Delivered(t, d, {"open", "disabled"})
      /\ UNCHANGED <<registry, open, clock, dispatched, paused, broken>>
  <2>1. mem[a] \in Memory /\ DueOf(a) = <<t, d>>
    BY DEF TypeOK, DueOf
  <2>2. mem'[a] = [mem[a] EXCEPT !.pc = "due_record", !.ahead = @ \cup {DueOf(a)}]
    BY DEF DueDeliver, Update, TypeOK
  <2>3. /\ mem'[a].pc = "due_record" /\ mem'[a].recs = m.recs
        /\ mem'[a].timer = t /\ mem'[a].ahead = m.ahead \cup {DueOf(a)}
    BY <2>1, <2>2 DEF Memory
  <2>4. QED
    BY <2>1, <2>3 DEF DueDeliver
<1>2. \A b \in Actors \ {a} : mem'[b].pc = "idle" /\ mem[b].pc = "idle"
  BY StepIsAlone DEF ServedInv
<1>3. /\ t \in Timers
      /\ d \in 0 .. m.now /\ m.now <= clock /\ m.now \in 0 .. MaxTime /\ clock \in 0 .. MaxTime
  BY <1>1 DEF HoldInv, Holds, TypeOK, Memory, Passes
<1>4. d \in Times /\ d <= clock /\ d \in Nat /\ d # Never
  BY <1>3, DueIsTime, TimesFacts, RecurringAssumption
<1>5. Kept(delivered, m.recs)
  BY <1>1 DEF ServedInv, DeliverInv, DeliverOf, Writes
<1>6. delivered[t][d] = 0
  <2> SUFFICES ASSUME delivered[t][d] # 0 PROVE FALSE
    OBVIOUS
  <2>1. d = Never \/ d > d
    BY <1>3, <1>4, <1>5 DEF Kept
  <2> HIDE DEF d
  <2>2. QED
    BY <1>4, <2>1
<1> HIDE DEF m, t, d
<1>7. ASSUME NEW u \in Timers, NEW e \in Times
      PROVE  \/ delivered'[u][e] = delivered[u][e]
             \/ u = t /\ e = d /\ delivered'[u][e] = 1
  <2>1. CASE delivered' = delivered
    BY <2>1
  <2>2. CASE delivered' = [delivered EXCEPT ![t][d] = Once(@)]
    BY <1>3, <1>4, <1>6, <1>7, <2>2, ServedIsHistory DEF TypeOK, Once
  <2>3. QED
    BY <1>1, <2>1, <2>2 DEF Delivered
<1>8. DeliverOf(a)'
  <2>1. ASSUME NEW u \in Timers, NEW e \in Times, [delivered' EXCEPT ![t][d] = 0][u][e] # 0
        PROVE  m.recs[u].status # "absent" /\ (m.recs[u].next = Never \/ m.recs[u].next > e)
    <3>1. ~(u = t /\ e = d) /\ delivered'[u][e] # 0
      BY <1>3, <1>4, <2>1 DEF TypeOK
    <3>2. delivered[u][e] # 0
      BY <1>7, <3>1
    <3>3. QED
      BY <1>5, <3>2 DEF Kept
  <2>2. Kept(Undelivered(mem[a].ahead)', registry)
    <3> SUFFICES ASSUME NEW u \in Timers, NEW e \in Times,
                        Undelivered(mem[a].ahead)'[u][e] # 0
                 PROVE  /\ registry[u].status # "absent"
                        /\ registry[u].next = Never \/ registry[u].next > e
      BY DEF Kept
    <3>1. <<u, e>> \notin m.ahead \cup {<<t, d>>} /\ delivered'[u][e] # 0
      BY <1>1 DEF Undelivered
    <3>2. delivered[u][e] # 0 /\ Undelivered(m.ahead)[u][e] # 0
      BY <1>7, <3>1 DEF Undelivered
    <3>3. Kept(Undelivered(m.ahead), registry)
      BY <1>1 DEF ServedInv, DeliverInv, DeliverOf, Passes, m
    <3>4. QED
      BY <3>2, <3>3 DEF Kept
  <2>3. Kept([delivered' EXCEPT ![t][d] = 0], m.recs)
    BY <2>1 DEF Kept
  <2>4. QED
    BY <1>1, <2>2, <2>3 DEF DeliverOf, Kept, Writes, Claims, Passes, d
<1>9. IsCopy(a)'
  BY <1>1 DEF ServedInv, CopyInv, IsCopy, Passes, m, t
<1>10. PauseOf(a)' /\ DispatchOf(a)'
  BY <1>1 DEF PauseOf, DispatchOf, ServedInv, PauseInv, DispatchInv, Disabled, Kept, Writes,
              Claims, m
<1>11. CopyInv' /\ DispatchInv' /\ PauseInv'
  BY <1>1, <1>2, <1>9, <1>10, OnlyOneCounts
  DEF ServedInv, DispatchInv, PauseInv, Kept, DispatchedOnce, Disabled
<1>12. DeliverInv'
  <2>1. \A u \in Timers, e \in Times :
            (delivered'[u][e] # 0 => e <= clock) /\ delivered'[u][e] <= 1
    <3>1. \A u \in Timers, e \in Times :
              (delivered[u][e] # 0 => e <= clock) /\ delivered[u][e] <= 1
      BY DEF ServedInv, DeliverInv
    <3>2. ASSUME NEW u \in Timers, NEW e \in Times
          PROVE  (delivered'[u][e] # 0 => e <= clock) /\ delivered'[u][e] <= 1
      <4>1. CASE delivered'[u][e] = delivered[u][e]
        BY <3>1, <4>1
      <4>2. CASE u = t /\ e = d /\ delivered'[u][e] = 1
        BY <1>4, <4>2
      <4>3. QED
        BY <1>7, <4>1, <4>2
    <3>3. QED
      BY <3>2
  <2>2. mem'[a].pc \in Passes
    BY <1>1 DEF Passes
  <2>3. QED
    BY <1>1, <1>2, <1>8, <2>1, <2>2, OnlyOneCounts DEF DeliverInv
<1>13. OpenInv'
  BY <1>1, <1>2 DEF ServedInv, OpenInv, m
<1>14. QED
  BY <1>11, <1>12, <1>13 DEF ServedInv

LEMMA DueRecordServed ==
    ASSUME Serial, TypeOK, TypeOK', HoldInv, ServedInv, NEW a \in Actors, Step(a), DueRecord(a)
    PROVE  ServedInv'
<1> DEFINE m == mem[a]
           t == m.timer
           d == m.recs[t].next
           fired == [m.recs EXCEPT ![t] = Fired(t, @, m.now)]
<1>1. /\ m.pc = "due_record" /\ mem'[a].pc \in {"due", "due_save"} /\ mem'[a].recs = fired
      /\ mem'[a].ahead = m.ahead
      /\ UNCHANGED <<registry, open, clock, dispatched, delivered, paused, broken>>
      /\ mem'[a].timer = t \/ mem'[a].timer \in FirstDue(m.todo \ {t}, 1)
  <2>1. mem[a] \in Memory /\ m.pc = "due_record"
    BY DEF DueRecord, TypeOK
  <2>2. UNCHANGED <<registry, open, clock, dispatched, delivered, paused, broken>>
    BY DEF DueRecord
  <2>3. \/ Update(a, [m EXCEPT !.recs = fired, !.todo = {}, !.pc = "due_save"])
        \/ \E u \in FirstDue(m.todo \ {t}, 1) :
              Update(a, [m EXCEPT !.recs = fired, !.todo = m.todo \ {t}, !.timer = u,
                                  !.pc = "due"])
    BY DEF DueRecord
  <2> HIDE DEF fired
  <2>4. \A n : Update(a, n) => mem'[a] = n
    BY DEF Update, TypeOK
  <2>5. CASE Update(a, [m EXCEPT !.recs = fired, !.todo = {}, !.pc = "due_save"])
    BY <2>1, <2>2, <2>4, <2>5 DEF Memory
  <2>6. ASSUME NEW u \in FirstDue(m.todo \ {t}, 1),
               Update(a, [m EXCEPT !.recs = fired, !.todo = m.todo \ {t}, !.timer = u,
                                   !.pc = "due"])
        PROVE  /\ mem'[a].pc = "due" /\ mem'[a].recs = fired /\ mem'[a].ahead = m.ahead
               /\ mem'[a].timer \in FirstDue(m.todo \ {t}, 1)
    BY <2>1, <2>4, <2>6 DEF Memory
  <2>7. QED
    BY <2>1, <2>2, <2>3, <2>5, <2>6
<1>2. \A b \in Actors \ {a} : mem'[b].pc = "idle" /\ mem[b].pc = "idle"
  BY StepIsAlone DEF ServedInv
<1>3. /\ t \in m.todo /\ t \in Timers /\ m.todo \subseteq Of(RegOf[t])
      /\ m.recs \in [Timers -> Record] /\ m.recs[t].enabled /\ KindOf[t] # "cron"
      /\ d \in 0 .. m.now /\ m.now \in 0 .. MaxTime
  BY <1>1 DEF HoldInv, Holds, TypeOK, Memory, Passes
<1>4. RegOf[mem'[a].timer] = RegOf[t]
  BY <1>1, <1>3, FirstDueIsDue DEF Of
<1>5. /\ \A u \in Timers \ {t} : fired[u] = m.recs[u]
      /\ fired[t].status # "absent"
      /\ fired[t].next = Never \/ fired[t].next > m.now
      /\ fired[t] \in Record
  BY <1>3, FiredIsLater
<1>6. d \in Times /\ d \in Nat /\ d # Never /\ m.now \in Nat /\ d <= m.now
  BY <1>3, DueIsTime, TimesFacts, RecurringAssumption
<1>7. /\ fired[t].next = Never
      \/ /\ fired[t].next \in Nat
         /\ fired[t].next > m.now
  BY <1>5, TimesFacts DEF Record
<1> HIDE DEF m, t, d, fired
<1>8. \A e \in Times : e <= d => fired[t].next = Never \/ fired[t].next > e
  <2> SUFFICES ASSUME NEW e \in Times, e <= d
               PROVE  fired[t].next = Never \/ fired[t].next > e
    OBVIOUS
  <2>1. e \in Nat
    BY TimesFacts
  <2>2. QED
    BY <1>6, <1>7, <2>1
<1>9. Kept(dispatched, fired)
  <2> SUFFICES ASSUME NEW u \in Timers, NEW e \in Times, dispatched[u][e] # 0
               PROVE  fired[u].status # "absent" /\ (fired[u].next = Never \/ fired[u].next > e)
    BY DEF Kept
  <2>1. m.recs[u].status # "absent" /\ (m.recs[u].next = Never \/ m.recs[u].next > e)
    BY <1>1 DEF ServedInv, DispatchInv, DispatchOf, Kept, Writes, m
  <2>2. e \in Nat
    BY TimesFacts
  <2>3. u = t => e <= d
    <3>1. u = t => d > e
      BY <1>6, <2>1 DEF d
    <3>2. QED
      BY <1>6, <2>2, <3>1
  <2>4. QED
    BY <1>5, <1>8, <2>1, <2>3
<1>10. Kept(delivered, fired)
  <2> SUFFICES ASSUME NEW u \in Timers, NEW e \in Times, delivered[u][e] # 0
               PROVE  fired[u].status # "absent" /\ (fired[u].next = Never \/ fired[u].next > e)
    BY DEF Kept
  <2>1. Kept([delivered EXCEPT ![t][d] = 0], m.recs)
    BY <1>1 DEF ServedInv, DeliverInv, DeliverOf, m, t, d
  <2>2. u # t \/ e # d =>
            m.recs[u].status # "absent" /\ (m.recs[u].next = Never \/ m.recs[u].next > e)
    <3>1. u # t \/ e # d => [delivered EXCEPT ![t][d] = 0][u][e] # 0
      BY <1>3, <1>6 DEF TypeOK
    <3>2. QED
      BY <2>1, <3>1 DEF Kept
  <2>3. e \in Nat
    BY TimesFacts
  <2>4. u = t => e <= d
    <3>1. u = t /\ e # d => d > e
      BY <1>6, <2>2 DEF d
    <3>2. QED
      BY <1>6, <2>3, <3>1
  <2>5. QED
    BY <1>5, <1>8, <2>2, <2>4
<1>11. IsCopy(a)'
  <2>1. \A u \in Timers \ Of(RegOf[t]) : fired[u] = registry[u]
    BY <1>1, <1>3, <1>5 DEF ServedInv, CopyInv, IsCopy, Passes, Of, m, t
  <2>2. QED
    BY <1>1, <1>4, <2>1 DEF IsCopy
<1>12. DispatchOf(a)'
  BY <1>1, <1>9 DEF DispatchOf, Claims
<1>13. DeliverOf(a)'
  <2>1. Kept(Undelivered(m.ahead), registry)
    BY <1>1 DEF ServedInv, DeliverInv, DeliverOf, Passes, m
  <2>2. Undelivered(mem[a].ahead)' = Undelivered(m.ahead)
    BY <1>1 DEF Undelivered
  <2>3. QED
    BY <1>1, <1>10, <2>1, <2>2 DEF DeliverOf, Kept, Claims
<1>14. PauseOf(a)'
  <2>1. Disabled(m.recs) /\ t \notin paused
    BY <1>1, <1>3 DEF ServedInv, PauseInv, PauseOf, Disabled, Writes, m
  <2>2. Disabled(fired)
    BY <1>5, <2>1 DEF Disabled, TypeOK
  <2>3. QED
    BY <1>1, <2>2 DEF PauseOf, Disabled
<1>15. CopyInv' /\ DispatchInv' /\ PauseInv'
  BY <1>1, <1>2, <1>11, <1>12, <1>14, OnlyOneCounts
  DEF ServedInv, DispatchInv, PauseInv, Kept, DispatchedOnce, Disabled
<1>16. DeliverInv'
  <2>2. mem'[a].pc \in Passes
    BY <1>1 DEF Passes
  <2>3. QED
    BY <1>1, <1>2, <1>13, <2>2, OnlyOneCounts DEF ServedInv, DeliverInv
<1>17. OpenInv'
  BY <1>1, <1>2 DEF ServedInv, OpenInv, m
<1>18. QED
  BY <1>15, <1>16, <1>17 DEF ServedInv

LEMMA DueSaveServed ==
    ASSUME Serial, TypeOK, TypeOK', HoldInv, ServedInv, NEW a \in Actors, Step(a), DueSave(a)
    PROVE  ServedInv'
<1>1. /\ mem'[a].pc = "idle" /\ mem[a].pc = "due_save"
      /\ UNCHANGED <<open, clock, dispatched, delivered, paused, broken>>
  BY DEF DueSave, Update, Idle, TypeOK, ghost
<1>2. \A b \in Actors \ {a} : mem'[b].pc = "idle" /\ mem[b].pc = "idle"
  BY StepIsAlone DEF ServedInv
<1>3. registry' = mem[a].recs
  BY <1>1, CopyBecomesFile DEF DueSave, ServedInv
<1>4. IsCopy(a)' /\ DispatchOf(a)' /\ DeliverOf(a)' /\ PauseOf(a)'
  BY <1>1, IdleOwesNothing
<1>5. Kept(dispatched, registry')
  BY <1>1, <1>3 DEF ServedInv, DispatchInv, DispatchOf, Writes
<1>6. Kept(delivered, registry')
  BY <1>1, <1>3 DEF ServedInv, DeliverInv, DeliverOf, Writes
<1>7. Disabled(registry)'
  BY <1>1, <1>3 DEF ServedInv, PauseInv, PauseOf, Disabled, Writes
<1>8. CopyInv'
  BY <1>2, <1>4, OnlyOneCounts
<1>9. DispatchInv'
  BY <1>1, <1>2, <1>4, <1>5, OnlyOneCounts DEF ServedInv, DispatchInv, Kept, DispatchedOnce
<1>10. DeliverInv'
  BY <1>1, <1>2, <1>4, <1>6, OnlyOneCounts DEF ServedInv, DeliverInv, Kept
<1>11. PauseInv'
  BY <1>2, <1>4, <1>7, OnlyOneCounts DEF ServedInv, PauseInv
<1>12. OpenInv'
  BY <1>1, <1>2 DEF ServedInv, OpenInv
<1>13. QED
  BY <1>8, <1>9, <1>10, <1>11, <1>12 DEF ServedInv

\* Time passes, or nothing does.
LEMMA WaitServed ==
    ASSUME TypeOK, TypeOK', ServedInv, clock <= clock',
           UNCHANGED <<registry, open, mem, ghost>>
    PROVE  ServedInv'
<1>1. UNCHANGED <<registry, open, mem, dispatched, delivered, paused, broken>>
  BY DEF ghost
<1>2. CopyInv' /\ PauseInv'
  BY <1>1 DEF ServedInv, CopyInv, Alone, IsCopy, PauseInv, PauseOf, Disabled
<1>3. DispatchInv'
  BY <1>1 DEF ServedInv, DispatchInv, DispatchOf, Kept, ClaimKept, DispatchedOnce
<1>4. DeliverInv'
  <2>1. \A a \in Actors : DeliverOf(a) => DeliverOf(a)'
    BY <1>1 DEF DeliverOf, Kept, ClaimKept, Undelivered
  <2>2. \A d \in Times : d <= clock => d <= clock'
    <3>1. clock \in Nat /\ clock' \in Nat /\ Times \subseteq Nat
      BY TimesFacts, RecurringAssumption DEF TypeOK
    <3>2. QED
      BY <3>1
  <2>3. QED
    BY <1>1, <2>1, <2>2 DEF ServedInv, DeliverInv, Kept
<1>5. OpenInv'
  BY <1>1 DEF ServedInv, OpenInv, DueOf
<1>6. QED
  BY <1>2, <1>3, <1>4, <1>5 DEF ServedInv

LEMMA ServedNext ==
    ASSUME Serial, TypeOK, TypeOK', HoldInv, HoldInv', ServedInv, [Next]_vars
    PROVE  ServedInv'
<1>1. clock \in Nat
  BY RecurringAssumption DEF TypeOK
<1>2. CASE Tick \/ UNCHANGED vars
  <2>1. clock' = clock + 1 \/ clock' = clock
    BY <1>2 DEF Tick, vars
  <2>2. clock <= clock'
    BY <1>1, <2>1
  <2>3. QED
    BY <1>2, <2>2, WaitServed DEF Tick, vars, ghost
<1>3. ASSUME NEW a \in Actors, Step(a)
      PROVE  ServedInv'
  <2>1. CASE LoopStep(a)
    <3>1. ASSUME LoopEnds(a) PROVE ServedInv'
      BY <1>3, <3>1, RestServed DEF LoopEnds, Update, Idle, TypeOK, ghost
    <3>2. QED
      BY <1>3, <2>1, <3>1, ClaimServed, ClaimSaveServed, DispatchServed, DeliverServed,
         CloseServed DEF LoopStep
  <2>2. CASE DueStep(a)
    <3>1. ASSUME DueAborts(a) PROVE ServedInv'
      BY <1>3, <3>1, RestServed DEF DueAborts, Update, Idle, TypeOK
    <3>2. QED
      BY <1>3, <2>2, <3>1, RunDueServed, DueDeliverServed, DueRecordServed, DueSaveServed
      DEF DueStep
  <2>3. CASE EditStep(a)
    BY <1>3, <2>3, EditStartServed, EditSaveServed, OnboardServed DEF EditStep
  <2>4. CASE Crash(a)
    BY <1>3, <2>4, RestServed DEF Crash, Update, Idle, TypeOK
  <2>5. QED
    BY <1>3, <2>1, <2>2, <2>3, <2>4 DEF Step
<1>4. QED
  BY <1>2, <1>3 DEF Next, Step

LEMMA ServedInit ==
    ASSUME Init
    PROVE  ServedInv
<1>1. \A a \in Actors : mem[a].pc = "idle"
  BY DEF Init, Idle
<1>2. CopyInv /\ OpenInv
  BY <1>1 DEF CopyInv, Alone, IsCopy, OpenInv, Passes, Init
<1>3. DispatchInv
  BY <1>1 DEF DispatchInv, DispatchOf, Kept, DispatchedOnce, Writes, Claims, Init, Of
<1>4. DeliverInv /\ PauseInv
  BY <1>1 DEF DeliverInv, DeliverOf, PauseInv, PauseOf, Disabled, Kept, Writes, Claims, Passes, Init
<1>5. QED
  BY <1>2, <1>3, <1>4 DEF ServedInv

\* When one process works at a time, no record that a process reads, holds or writes
\* would serve a due time again: claims are on disk before the first dispatch
\* (claim_due_heartbeats), and a pass of run-due keeps its copy ahead of its deliveries
\* (run_due_heartbeats, run_due_schedules).
THEOREM ServedCorrect == Serial => (Spec => []ServedInv)
<1> SUFFICES ASSUME Serial PROVE Spec => []ServedInv
  OBVIOUS
<1>1. Spec => [](TypeOK /\ HoldInv)
  BY TypeCorrect
<1>2. Init => ServedInv
  BY ServedInit
<1>3. /\ TypeOK /\ HoldInv
      /\ (TypeOK /\ HoldInv)'
      /\ ServedInv /\ [Next]_vars
      => ServedInv'
  BY ServedNext
<1>4. QED
  BY <1>1, <1>2, <1>3, PTL DEF Spec

\* One process at a time: the loop dispatches a heartbeat at most once for each time it
\* was due, wherever it dies (dispatch_heartbeat_run).
THEOREM DispatchedOnceHolds == Serial => (Spec => []DispatchedOnce)
<1> SUFFICES ASSUME Serial PROVE Spec => []DispatchedOnce
  OBVIOUS
<1>1. ServedInv => DispatchedOnce
  BY DEF ServedInv, DispatchInv
<1>2. QED
  BY <1>1, ServedCorrect, PTL

\* One process at a time: the loop and run-due together enqueue one delivery for each
\* due time, and one more for each pass of run-due that had served this due time and
\* then died or ended with Err before it wrote the registry (run_due_heartbeats,
\* run_due_schedules); passes lost elsewhere add none.
THEOREM DeliveredOnceHolds == Serial => (Spec => []DeliveredOnce)
<1> SUFFICES ASSUME Serial PROVE Spec => []DeliveredOnce
  OBVIOUS
<1>1. ServedInv => DeliveredOnce
  BY DEF ServedInv, DeliverInv, DeliveredOnce
<1>2. QED
  BY <1>1, ServedCorrect, PTL

\* One process at a time: a pause or a cancellation that was answered is not undone by
\* a pass or a command that read the registry before (pause_heartbeat, cancel_heartbeat,
\* pause_schedule, cancel_schedule).
THEOREM PauseSticksHolds == Serial => (Spec => []PauseSticks)
<1> SUFFICES ASSUME Serial PROVE Spec => []PauseSticks
  OBVIOUS
<1>1. ServedInv => PauseSticks
  BY DEF ServedInv, PauseInv, Disabled, PauseSticks
<1>2. QED
  BY <1>1, ServedCorrect, PTL

\* One process at a time: when none works and none has died, no run record says running
\* (dispatch_heartbeat_run writes it again in the end).
THEOREM RunsClosedHolds == Serial => (Spec => []RunsClosed)
<1> SUFFICES ASSUME Serial PROVE Spec => []RunsClosed
  OBVIOUS
<1>1. ServedInv => RunsClosed
  BY DEF ServedInv, OpenInv, RunsClosed
<1>2. QED
  BY <1>1, ServedCorrect, PTL

=============================================================================
