--------------------------- MODULE Service_proofs ---------------------------
(***************************************************************************)
(* Theorems about the runtime service, for any bounds.                     *)
(*                                                                         *)
(* How it starts, runs and stops (ServiceLifecycle): for any set of        *)
(* process ids and any commands, one service at a time.                    *)
(*                                                                         *)
(* How work reaches it (ServiceIngress): the promise of SubmitOnce, for    *)
(* any number of clients, deliveries and deaths of the service, as long as *)
(* the service has a kernel path of its own and answers a waiting client   *)
(* before the client gives up.  Nothing in the code ties a request to the  *)
(* record it made: IngressInv says why a retried one still makes no second *)
(* record.                                                                 *)
(***************************************************************************)
EXTENDS ServiceLifecycle, ServiceIngress, TLAPS

-----------------------------------------------------------------------------
(* The life of the service.                                                *)

\* The sets of program points, expanded together.
LEMMA Points ==
    /\ Boot \cup Loop \cup Down \subseteq PC /\ "dead" \in PC
    /\ Commands \subseteq Boot
    /\ "dead" \notin Boot \cup Loop \cup Down
    /\ Boot \cap (Loop \cup Down) = {}
  BY CommandsAssumption DEF Boot, Loop, Down, PC, Launches

\* Type correctness: no action writes a value of the wrong kind.
THEOREM TypeCorrect == Spec => []TypeOK
<1>1. Init => TypeOK
  <2> SUFFICES ASSUME Init PROVE TypeOK
    OBVIOUS
  <2> USE DEF Init
  <2>1. pc \in [Pids -> PC] /\ iter \in [Pids -> Nat]
    BY DEF PC
  <2>2. stopping \in [Pids -> BOOLEAN] /\ listening \in [Pids -> BOOLEAN]
    OBVIOUS
  <2>3. state \in [pid : Pids \cup {0}, running : BOOLEAN, http : BOOLEAN]
    OBVIOUS
  <2> QED
    BY <2>1, <2>2, <2>3 DEF TypeOK
<1>2. TypeOK /\ [Next]_vars => TypeOK'
  <2> SUFFICES ASSUME TypeOK, [Next]_vars PROVE TypeOK'
    OBVIOUS
  <2> USE DEF TypeOK
  <2>0. ASSUME NEW p \in Pids, NEW l \in PC, Goto(p, l)
        PROVE  pc' \in [Pids -> PC]
    BY <2>0 DEF Goto
  <2>1. ASSUME NEW p \in Pids, Exit(p)
        PROVE  /\ pc' \in [Pids -> PC] /\ stopping' \in [Pids -> BOOLEAN]
               /\ listening' \in [Pids -> BOOLEAN] /\ iter' \in [Pids -> Nat]
               /\ http' \in Pids \cup {0}
    BY <2>1, <2>0, Points DEF Exit
  <2>2. CASE UNCHANGED vars
    BY <2>2 DEF vars, files
  <2>3. CASE RequestStop
    BY <2>3 DEF RequestStop, Request
  <2>4. ASSUME NEW p \in Pids, Launch(p) PROVE TypeOK'
    <3>1. PICK c \in Commands : Goto(p, c)
      BY <2>4 DEF Launch
    <3>2. c \in PC
      BY Points
    <3> QED
      BY <2>4, <3>1, <3>2, <2>0 DEF Launch, Request, files
  <2>5. ASSUME NEW p \in Pids, ServeStop(p) PROVE TypeOK'
    <3>1. stopping' \in [Pids -> BOOLEAN]
      BY <2>5 DEF ServeStop
    <3> QED
      BY <2>5, <3>1 DEF ServeStop, Request
  <2>6. ASSUME NEW p \in Pids, Die(p) PROVE TypeOK'
    BY <2>6, <2>1 DEF Die
  <2>7. ASSUME NEW p \in Pids, Step(p) PROVE TypeOK'
    <3>1. CASE RestartStop(p)
      BY <3>1, <2>0, "await" \in PC, "start" \in PC DEF RestartStop, PC, Boot
    <3>2. CASE RestartAwait(p)
      BY <3>2, <2>0 DEF RestartAwait, files, PC, Boot
    <3>3. CASE Start(p)
      BY <3>3, <2>0, <2>1, "boot_stop" \in PC DEF Start, PC, Boot
    <3>4. CASE BootRemoveStop(p)
      BY <3>4, <2>0 DEF BootRemoveStop, PC, Boot
    <3>5. CASE BootLock(p)
      BY <3>5, <2>0, <2>1, "boot_unlock" \in PC, "boot_sock" \in PC
      DEF BootLock, PC, Boot
    <3>6. CASE BootUnlock(p)
      BY <3>6, <2>0 DEF BootUnlock, PC, Boot
    <3>7. CASE BootRemoveSocket(p)
      BY <3>7, <2>0 DEF BootRemoveSocket, PC, Boot
    <3>8. CASE BootBind(p)
      BY <3>8, <2>0 DEF BootBind, PC, Boot
    <3>9. CASE BootWriteLock(p)
      BY <3>9, <2>0 DEF BootWriteLock, PC, Boot
    <3>10. CASE BootWriteState(p)
      BY <3>10, <2>0 DEF BootWriteState, WriteState, PC, Loop
    <3>11. CASE LoopHead(p)
      BY <3>11, <2>0, "down_sock" \in PC, "serve" \in PC
      DEF LoopHead, files, PC, Loop, Down
    <3>12. CASE Iterate(p)
      BY <3>12, <2>0, "down_sock" \in PC, "loop" \in PC
      DEF Iterate, WriteState, PC, Loop, Down
    <3>13. CASE DownSocket(p)
      BY <3>13, <2>0 DEF DownSocket, PC, Down
    <3>14. CASE DownWriteState(p)
      BY <3>14, <2>0 DEF DownWriteState, WriteState, PC, Down
    <3>15. CASE DownRemoveStop(p)
      BY <3>15, <2>0 DEF DownRemoveStop, PC, Down
    <3>16. CASE DownUnlock(p)
      BY <3>16, <2>1 DEF DownUnlock
    <3> QED
      BY <2>7, <3>1, <3>2, <3>3, <3>4, <3>5, <3>6, <3>7, <3>8, <3>9, <3>10,
         <3>11, <3>12, <3>13, <3>14, <3>15, <3>16 DEF Step
  <2> QED
    BY <2>2, <2>3, <2>4, <2>5, <2>6, <2>7 DEF Next
<1> QED
  BY <1>1, <1>2, PTL DEF Spec

-----------------------------------------------------------------------------
(* One service at a time.                                                  *)

\* A process that moves, and only it.
LEMMA Moved ==
    ASSUME TypeOK, NEW p \in Pids, NEW l, Goto(p, l)
    PROVE  pc'[p] = l /\ \A q \in Pids \ {p} : pc'[q] = pc[q]
  BY DEF TypeOK, Goto

\* LifecycleInv is inductive when commands are given one after another.
LEMMA LifecycleNext ==
    ASSUME Serial, TypeOK, LifecycleInv, [Next]_vars
    PROVE  LifecycleInv'
<1> USE DEF LifecycleInv, Boot, Loop, Down, PastLock
<1>1. CASE UNCHANGED vars
  BY <1>1 DEF vars, files
<1>2. CASE RequestStop
  BY <1>2 DEF RequestStop
<1>3. ASSUME NEW p \in Pids, Launch(p) PROVE LifecycleInv'
  <2>1. PICK c \in Commands : Goto(p, c)
    BY <1>3 DEF Launch
  <2>2. c \in {"start", "restart", "boot_stop"}
    BY CommandsAssumption DEF Launches
  <2>3. pc'[p] = c /\ \A q \in Pids \ {p} : pc'[q] = pc[q]
    BY <2>1, Moved
  <2> QED
    BY <1>3, <2>2, <2>3 DEF Launch, files
<1>4. ASSUME NEW p \in Pids, ServeStop(p) PROVE LifecycleInv'
  BY <1>4 DEF ServeStop
<1>5. ASSUME NEW p \in Pids, Exit(p), UNCHANGED <<lock, state>>
      PROVE  LifecycleInv'
  BY <1>5, Moved DEF Exit
<1>6. ASSUME NEW p \in Pids, Die(p) PROVE LifecycleInv'
  BY <1>5, <1>6 DEF Die
<1>7. ASSUME NEW p \in Pids, Step(p) PROVE LifecycleInv'
  <2>1. CASE RestartStop(p)
    BY <2>1, Moved DEF RestartStop
  <2>2. CASE RestartAwait(p)
    BY <2>2, Moved DEF RestartAwait, files
  <2>3. CASE Start(p)
    BY <2>3, <1>5, Moved DEF Start
  <2>4. CASE BootRemoveStop(p)
    BY <2>4, Moved DEF BootRemoveStop
  <2>5. CASE BootLock(p)
    <3>1. CASE LockHeld
      BY <2>5, <3>1, <1>5 DEF BootLock
    <3>2. CASE ~LockHeld
      <4>1. \A q \in Pids : pc[q] \notin Loop \cup Down
        BY <3>2 DEF LockHeld, Alive
      <4> QED
        BY <2>5, <3>2, <4>1, Moved DEF BootLock
    <3> QED
      BY <3>1, <3>2
  <2>6. CASE BootUnlock(p)
    BY <2>6, Moved DEF BootUnlock
  <2>7. CASE BootRemoveSocket(p)
    BY <2>7, Moved DEF BootRemoveSocket
  <2>8. CASE BootBind(p)
    BY <2>8, Moved DEF BootBind
  <2>9. CASE BootWriteLock(p)
    BY <2>9, Moved DEF BootWriteLock
  <2>10. CASE BootWriteState(p)
    BY <2>10, Moved DEF BootWriteState, WriteState
  <2>11. CASE LoopHead(p)
    BY <2>11, Moved DEF LoopHead, files
  <2>12. CASE Iterate(p)
    BY <2>12, Moved DEF Iterate, WriteState
  <2>13. CASE DownSocket(p)
    BY <2>13, Moved DEF DownSocket
  <2>14. CASE DownWriteState(p)
    BY <2>14, Moved DEF DownWriteState, WriteState
  <2>15. CASE DownRemoveStop(p)
    BY <2>15, Moved DEF DownRemoveStop
  <2>16. CASE DownUnlock(p)
    BY <2>16, Moved DEF DownUnlock, Exit
  <2> QED
    BY <1>7, <2>1, <2>2, <2>3, <2>4, <2>5, <2>6, <2>7, <2>8, <2>9, <2>10,
       <2>11, <2>12, <2>13, <2>14, <2>15, <2>16 DEF Step
<1> QED
  BY <1>1, <1>2, <1>3, <1>4, <1>6, <1>7 DEF Next

\* When commands are given one after another, the lock, the state file and the
\* processes stay in step.
THEOREM LifecycleCorrect == Serial => (Spec => []LifecycleInv)
<1> SUFFICES ASSUME Serial PROVE Spec => []LifecycleInv
  OBVIOUS
<1>1. Init => LifecycleInv
  BY DEF Init, LifecycleInv, Boot, Loop, Down, PastLock
<1>2. TypeOK /\ LifecycleInv /\ [Next]_vars => LifecycleInv'
  BY LifecycleNext
<1> QED
  BY <1>1, <1>2, TypeCorrect, PTL DEF Spec

\* When commands are given one after another, at most one process serves,
\* however many died before it.
THEOREM OneServiceAtATime == Serial => (Spec => []SoleService)
<1> SUFFICES ASSUME Serial PROVE Spec => []SoleService
  OBVIOUS
<1>1. LifecycleInv => SoleService
  BY DEF LifecycleInv, SoleService
<1> QED
  BY <1>1, LifecycleCorrect, PTL

\* When commands are given one after another, the process that serves is the one
\* the status command reports.
THEOREM ServiceReported == Serial => (Spec => []ServiceIsReported)
<1> SUFFICES ASSUME Serial PROVE Spec => []ServiceIsReported
  OBVIOUS
<1>1. LifecycleInv => ServiceIsReported
  BY DEF LifecycleInv, ServiceIsReported, Running, RunningFlag, ControlPlaneAlive, Alive, Loop
<1> QED
  BY <1>1, LifecycleCorrect, PTL

-----------------------------------------------------------------------------
(* Who is turned away.                                                     *)

\* LeftoverInv is inductive when pids are not reused.
LEMMA LeftoverNext ==
    ASSUME FreshPids, TypeOK, LeftoverInv, [Next]_vars
    PROVE  LeftoverInv'
<1> USE PidsAssumption DEF LeftoverInv, Looking, Alive
<1>0. ASSUME NEW p \in Pids, NEW l, Goto(p, l), l # "dead",
             l \in Looking => pc[p] \in Looking,
             UNCHANGED <<listening, http>>,
             lock' \in {lock, 0, p}, state'.pid \in {state.pid, p},
             l \in Looking => lock' = lock /\ state' = state
      PROVE  LeftoverInv'
  <2>1. pc'[p] = l /\ \A q \in Pids \ {p} : pc'[q] = pc[q]
    BY <1>0, Moved
  <2>2. http \in Pids \cup {0}
    BY DEF TypeOK
  <2> QED
    BY <1>0, <2>1, <2>2
<1>1. CASE UNCHANGED vars
  BY <1>1 DEF vars, files
<1>2. CASE RequestStop
  BY <1>2 DEF RequestStop
<1>3. ASSUME NEW p \in Pids, Launch(p) PROVE LeftoverInv'
  <2>1. PICK c \in Commands : Goto(p, c)
    BY <1>3 DEF Launch
  <2>2. c # "dead"
    BY CommandsAssumption DEF Launches
  <2>3. pc'[p] = c /\ \A q \in Pids \ {p} : pc'[q] = pc[q]
    BY <2>1, Moved
  <2>4. p # http /\ ~listening[p] /\ http \in Pids \cup {0}
    BY <1>3 DEF Launch, TypeOK
  <2> QED
    BY <1>3, <2>2, <2>3, <2>4 DEF Launch, files
<1>4. ASSUME NEW p \in Pids, ServeStop(p) PROVE LeftoverInv'
  BY <1>4 DEF ServeStop
<1>5. ASSUME NEW p \in Pids, Exit(p), state' = state, lock' \in {lock, 0}
      PROVE  LeftoverInv'
  <2>1. pc'[p] = "dead" /\ \A q \in Pids \ {p} : pc'[q] = pc[q]
    BY <1>5, Moved DEF Exit
  <2>2. ~listening'[p] /\ \A q \in Pids \ {p} : listening'[q] = listening[q]
    BY <1>5 DEF Exit, TypeOK
  <2>3. http' \in {http, 0} /\ http' # p
    BY <1>5 DEF Exit
  <2> QED
    BY <1>5, <2>1, <2>2, <2>3 DEF TypeOK
<1>6. ASSUME NEW p \in Pids, Die(p) PROVE LeftoverInv'
  BY <1>5, <1>6 DEF Die
<1>7. ASSUME NEW p \in Pids, Step(p) PROVE LeftoverInv'
  <2>1. CASE RestartStop(p)
    BY <2>1, <1>0 DEF RestartStop
  <2>2. CASE RestartAwait(p)
    BY <2>2, <1>0 DEF RestartAwait, files
  <2>3. CASE Start(p)
    BY <2>3, <1>5, <1>0 DEF Start
  <2>4. CASE BootRemoveStop(p)
    BY <2>4, <1>0 DEF BootRemoveStop
  <2>5. CASE BootLock(p)
    BY <2>5, <1>5, <1>0 DEF BootLock
  <2>6. CASE BootUnlock(p)
    BY <2>6, <1>0 DEF BootUnlock
  <2>7. CASE BootRemoveSocket(p)
    BY <2>7, <1>0 DEF BootRemoveSocket
  <2>8. CASE BootBind(p)
    <3>1. \A q \in Pids \ {p} : listening'[q] = listening[q]
      BY <2>8 DEF BootBind, TypeOK
    <3> QED
      BY <2>8, <3>1, Moved DEF BootBind, TypeOK
  <2>9. CASE BootWriteLock(p)
    BY <2>9, <1>0 DEF BootWriteLock
  <2>10. CASE BootWriteState(p)
    BY <2>10, <1>0 DEF BootWriteState, WriteState
  <2>11. CASE LoopHead(p)
    BY <2>11, <1>0 DEF LoopHead, files
  <2>12. CASE Iterate(p)
    BY <2>12, <1>0 DEF Iterate, WriteState
  <2>13. CASE DownSocket(p)
    <3>1. ~listening'[p] /\ \A q \in Pids \ {p} : listening'[q] = listening[q]
      BY <2>13 DEF DownSocket, TypeOK
    <3> QED
      BY <2>13, <3>1, Moved DEF DownSocket, TypeOK
  <2>14. CASE DownWriteState(p)
    BY <2>14, <1>0 DEF DownWriteState, WriteState
  <2>15. CASE DownRemoveStop(p)
    BY <2>15, <1>0 DEF DownRemoveStop
  <2>16. CASE DownUnlock(p)
    BY <2>16, <1>5 DEF DownUnlock
  <2> QED
    BY <1>7, <2>1, <2>2, <2>3, <2>4, <2>5, <2>6, <2>7, <2>8, <2>9, <2>10,
       <2>11, <2>12, <2>13, <2>14, <2>15, <2>16 DEF Step
<1> QED
  BY <1>1, <1>2, <1>3, <1>4, <1>6, <1>7 DEF Next

\* A process that gives up while looking has found another one alive.
LEMMA GivesUp ==
    ASSUME FreshPids, TypeOK, LeftoverInv, [Next]_vars,
           NEW p \in Pids, pc[p] \in Looking, pc'[p] = "dead",
           crashes' = crashes
    PROVE  \E q \in Pids \ {p} : Alive(q)
<1> USE DEF Looking, Alive
<1>1. pc[p] # "dead" /\ p \notin {lock, state.pid, http} /\ ~listening[p]
  BY DEF LeftoverInv
<1>2. CASE Running
  <2>1. CASE state.pid \in Pids /\ Alive(state.pid)
    BY <2>1, <1>1
  <2>2. CASE http # 0
    BY <2>2, <1>1 DEF LeftoverInv, TypeOK
  <2>3. CASE sock \in Pids /\ listening[sock]
    BY <2>3, <1>1 DEF LeftoverInv
  <2> QED
    BY <1>2, <2>1, <2>2, <2>3 DEF Running, ControlPlaneAlive
<1>3. CASE LockHeld
  BY <1>3, <1>1 DEF LockHeld
<1>4. CASE ~Running /\ ~LockHeld
  <2>1. ASSUME NEW q \in Pids, NEW l, Goto(q, l), l # "dead" PROVE FALSE
    BY <2>1, <1>1, Moved
  <2>2. ~UNCHANGED pc
    BY <1>1
  <2>3. PICK q \in Pids : Launch(q) \/ Step(q) \/ ServeStop(q) \/ Die(q)
    BY <2>2 DEF Next, vars, RequestStop
  <2>4. CASE Launch(q)
    BY <2>4, <2>1, CommandsAssumption DEF Launch, Launches
  <2>5. CASE Die(q)
    BY <2>5 DEF Die, TypeOK
  <2>6. CASE DownUnlock(q)
    BY <2>6, <1>1, Moved DEF DownUnlock, Exit
  <2>7. CASE Step(q) /\ ~DownUnlock(q)
    BY <2>7, <1>4, <2>1
    DEF Step, RestartStop, RestartAwait, Start, BootRemoveStop, BootLock,
        BootUnlock, BootRemoveSocket, BootBind, BootWriteLock, BootWriteState,
        LoopHead, Iterate, DownSocket, DownWriteState, DownRemoveStop
  <2> QED
    BY <2>2, <2>3, <2>4, <2>5, <2>6, <2>7 DEF ServeStop
<1> QED
  BY <1>2, <1>3, <1>4

\* When pids are not reused, what a dead service left behind keeps no new one
\* from starting: only a live process does.
THEOREM OnlyTheLivingTurnAway == FreshPids => (Spec => TurnedAwayByTheLiving)
<1> SUFFICES ASSUME FreshPids PROVE Spec => TurnedAwayByTheLiving
  OBVIOUS
<1>1. Init => LeftoverInv
  BY DEF Init, LeftoverInv, Looking
<1>2. TypeOK /\ LeftoverInv /\ [Next]_vars => LeftoverInv'
  BY LeftoverNext
<1>3. TypeOK /\ LeftoverInv /\ [Next]_vars =>
        [\A p \in Pids : pc[p] \in Looking /\ pc'[p] = "dead" /\ crashes' = crashes
           => \E q \in Pids \ {p} : Alive(q)]_vars
  BY GivesUp
<1> QED
  BY <1>1, <1>2, <1>3, TypeCorrect, PTL DEF Spec, TurnedAwayByTheLiving

-----------------------------------------------------------------------------
(* The ingress: types.                                                     *)

\* The type invariant needs to know what the service handles.
LEMMA IngressTypeNext ==
    IngressTypeOK /\ WorkInv /\ [IngressNext]_ingressVars => (IngressTypeOK /\ WorkInv)'
<1> SUFFICES ASSUME IngressTypeOK, WorkInv, [IngressNext]_ingressVars
             PROVE  (IngressTypeOK /\ WorkInv)'
  OBVIOUS
<1> USE SourcesAssumption
    DEF IngressTypeOK, WorkInv, Phases, Handler, Via, Sources, service
<1>1. ASSUME NEW c \in Clients, Submit(c) PROVE (IngressTypeOK /\ WorkInv)'
  BY <1>1 DEF Submit, Move
<1>2. ASSUME NEW c \in Clients, GiveUp(c) PROVE (IngressTypeOK /\ WorkInv)'
  BY <1>2 DEF GiveUp, Move
<1>3. ASSUME NEW c \in Clients, Stage(c) PROVE (IngressTypeOK /\ WorkInv)'
  BY <1>3 DEF Stage, Move
<1>4. ASSUME NEW c \in Clients, Poll(c) PROVE (IngressTypeOK /\ WorkInv)'
  BY <1>4 DEF Poll, Move
<1>5. CASE StartService
  BY <1>5 DEF StartService
<1>6. ASSUME NEW c \in Clients, Accept(c) PROVE (IngressTypeOK /\ WorkInv)'
  BY <1>6 DEF Accept
<1>7. CASE SocketDone
  BY <1>7 DEF SocketDone
<1>8. CASE HttpDone
  BY <1>8 DEF HttpDone, PendingRequests
<1>9. ASSUME NEW c \in Clients, TakeFile(c) PROVE (IngressTypeOK /\ WorkInv)'
  BY <1>9 DEF TakeFile
<1>10. CASE FilesDone
  BY <1>10 DEF FilesDone
<1>11. ASSUME NEW d \in Deliveries, TakeDelivery(d) PROVE (IngressTypeOK /\ WorkInv)'
  BY <1>11 DEF TakeDelivery
<1>12. CASE ImportDone
  BY <1>12 DEF ImportDone
<1>13. CASE Pass
  BY <1>13 DEF Pass
<1>14. CASE WriteRequest
  BY <1>14 DEF WriteRequest
<1>15. CASE Enqueue
  BY <1>15 DEF Enqueue
<1>16. CASE WriteReceipt
  <2>1. /\ phase[2] \in Via /\ phase' = <<phase[2], phase[2]>> /\ phase[1] = "receipt"
        /\ cur' = NoSource /\ full' \in BOOLEAN
        /\ UNCHANGED <<conns, requests, jobs, todo, records, deaths>>
    BY <1>16, Zenon DEF WriteReceipt
  <2>2. phase' \in (Phases \cup Handler \cup {"down"}) \X (Via \cup {"pass"})
    BY <2>1
  <2>3. phase'[1] \notin Handler
    BY <2>1
  <2>4. CASE phase[2] = "import"
    <3>1. markers' = markers \cup {cur} /\ UNCHANGED <<receipts, client>>
      BY <1>16, <2>4 DEF WriteReceipt
    <3> QED
      BY <2>1, <2>2, <2>3, <2>4, <3>1
  <2>5. CASE phase[2] # "import"
    <3>1. /\ receipts' = receipts \cup {cur} /\ UNCHANGED markers
          /\ client' = [client EXCEPT ![cur] = "accepted"] \/ UNCHANGED client
      BY <1>16, <2>5 DEF WriteReceipt, Move
    <3> QED
      BY <2>1, <2>2, <2>3, <2>5, <3>1
  <2> QED
    BY <2>4, <2>5
<1>17. CASE Crash
  <2>1. /\ phase' = <<"down", "socket">> /\ deaths' = deaths + 1 /\ conns' = {}
        /\ cur' = NoSource /\ todo' = {} /\ full' \in BOOLEAN
        /\ UNCHANGED <<client, requests, receipts, markers, jobs, records>>
    BY <1>17, Zenon DEF Crash
  <2>2. /\ phase' \in (Phases \cup Handler \cup {"down"}) \X (Via \cup {"pass"})
        /\ phase'[1] \notin Handler
    BY <2>1
  <2> QED
    BY <2>1, <2>2
<1>18. CASE UNCHANGED ingressVars
  BY <1>18 DEF ingressVars
<1> QED
  BY <1>1, <1>2, <1>3, <1>4, <1>5, <1>6, <1>7, <1>8, <1>9, <1>10, <1>11, <1>12,
     <1>13, <1>14, <1>15, <1>16, <1>17, <1>18 DEF IngressNext, ServiceStep, ClientStep

\* Every reachable state is well typed: the service handles clients' requests and
\* deliveries each in their own place.
THEOREM IngressTypeCorrect == IngressSpec => [](IngressTypeOK /\ WorkInv)
<1>1. IngressInit => IngressTypeOK /\ WorkInv
  <2> SUFFICES ASSUME IngressInit PROVE IngressTypeOK /\ WorkInv
    OBVIOUS
  <2>1. phase = <<"down", "socket">>
    BY DEF IngressInit
  <2>2. /\ phase \in (Phases \cup Handler \cup {"down"}) \X (Via \cup {"pass"})
        /\ phase[1] \notin Handler
    BY <2>1 DEF Phases, Handler, Via
  <2> QED
    BY <2>2 DEF IngressInit, IngressTypeOK, WorkInv, Sources
<1> QED
  BY <1>1, IngressTypeNext, PTL DEF IngressSpec

-----------------------------------------------------------------------------
(* The ingress: one record for each source.                                *)

\* Every step keeps the invariant: a client is told of, or its file taken up, while its
\* job is in flight, because the pass comes after both.
LEMMA IngressInvNext ==
    ASSUME Prompt, KernelKnown
    PROVE  IngressTypeOK /\ WorkInv /\ IngressInv /\ [IngressNext]_ingressVars
             => IngressInv'
<1> SUFFICES ASSUME IngressTypeOK, WorkInv, IngressInv, [IngressNext]_ingressVars
             PROVE  IngressInv'
  OBVIOUS
<1> USE SourcesAssumption
    DEF IngressTypeOK, WorkInv, Phases, Handler, Via, Sources, service,
        IngressInv, PlaceInv, ClientInv, RecordInv, HasRecord, Handling, Waits, Up
<1>1. ASSUME NEW c \in Clients, Submit(c) PROVE IngressInv'
  <2>1. /\ PlaceInv'
        /\ (\A s \in Sources : RecordInv(s))'
        /\ (\A j \in Jobs : jobs[j] # "absent" => HasRecord(j))'
        /\ (phase[1] = "receipt" => HasRecord(JobOf[cur]))'
    BY <1>1 DEF Submit, Move
  <2>2. ASSUME NEW x \in Clients PROVE ClientInv(x)'
    <3>1. CASE x = c
      BY <1>1, <3>1 DEF Submit, Move
    <3>2. CASE x # c
      BY <1>1, <3>2 DEF Submit, Move
    <3> QED
      BY <3>1, <3>2
  <2> QED
    BY <2>1, <2>2
<1>2. ASSUME NEW c \in Clients, GiveUp(c) PROVE IngressInv'
  <2>1. /\ PlaceInv'
        /\ (\A s \in Sources : RecordInv(s))'
        /\ (\A j \in Jobs : jobs[j] # "absent" => HasRecord(j))'
        /\ (phase[1] = "receipt" => HasRecord(JobOf[cur]))'
    BY <1>2 DEF GiveUp, Move
  <2>2. ASSUME NEW x \in Clients PROVE ClientInv(x)'
    <3>1. CASE x = c
      BY <1>2, <3>1 DEF GiveUp, Move
    <3>2. CASE x # c
      BY <1>2, <3>2 DEF GiveUp, Move
    <3> QED
      BY <3>1, <3>2
  <2> QED
    BY <2>1, <2>2
<1>3. ASSUME NEW c \in Clients, Stage(c) PROVE IngressInv'
  <2>1. /\ PlaceInv'
        /\ (\A s \in Sources : RecordInv(s))'
        /\ (\A j \in Jobs : jobs[j] # "absent" => HasRecord(j))'
        /\ (phase[1] = "receipt" => HasRecord(JobOf[cur]))'
    BY <1>3 DEF Stage, Move
  <2>2. ASSUME NEW x \in Clients PROVE ClientInv(x)'
    <3>1. CASE x = c
      BY <1>3, <3>1 DEF Stage, Move
    <3>2. CASE x # c
      BY <1>3, <3>2 DEF Stage, Move
    <3> QED
      BY <3>1, <3>2
  <2> QED
    BY <2>1, <2>2
<1>4. ASSUME NEW c \in Clients, Poll(c) PROVE IngressInv'
  <2>1. /\ PlaceInv'
        /\ (\A s \in Sources : RecordInv(s))'
        /\ (\A j \in Jobs : jobs[j] # "absent" => HasRecord(j))'
        /\ (phase[1] = "receipt" => HasRecord(JobOf[cur]))'
    BY <1>4 DEF Poll, Move
  <2>2. ASSUME NEW x \in Clients PROVE ClientInv(x)'
    <3>1. CASE x = c
      BY <1>4, <3>1 DEF Poll, Move
    <3>2. CASE x # c
      BY <1>4, <3>2 DEF Poll, Move
    <3> QED
      BY <3>1, <3>2
  <2> QED
    BY <2>1, <2>2
<1>5. CASE StartService
  BY <1>5 DEF StartService
<1>6. ASSUME NEW c \in Clients, Accept(c) PROVE IngressInv'
  <2>1. /\ (\A x \in Clients : ClientInv(x))'
        /\ (\A s \in Sources : RecordInv(s))'
        /\ (\A j \in Jobs : jobs[j] # "absent" => HasRecord(j))'
        /\ (phase[1] = "receipt" => HasRecord(JobOf[cur]))'
    BY <1>6 DEF Accept
  <2>2. PlaceInv'
    <3>1. /\ phase[1] \in {"socket", "http"} /\ phase' = <<"write", phase[1]>>
          /\ cur' = c /\ Waits(c, phase[1])
          /\ UNCHANGED <<requests, receipts, markers, todo>>
      BY <1>6 DEF Accept
    <3>2. todo = {} /\ c \notin receipts \cup markers
      BY <3>1
    <3>3. /\ phase'[1] = "write" /\ phase'[2] = phase[1] /\ phase'[1] \notin Phases
          /\ phase'[2] # "file" /\ Up'
      BY <3>1
    <3>4. /\ cur' \notin receipts' \cup markers' /\ cur' \notin todo' /\ todo' = {}
          /\ phase'[1] # "pass"
      BY <3>1, <3>2, <3>3
    <3> HIDE DEF IngressTypeOK, WorkInv, Phases, Up, IngressInv, Handler
    <3> QED
      BY <3>3, <3>4 DEF PlaceInv
  <2> QED
    BY <2>1, <2>2
<1>7. CASE SocketDone
  BY <1>7 DEF SocketDone
<1>8. CASE HttpDone
  BY <1>8 DEF HttpDone, PendingRequests
<1>9. ASSUME NEW c \in Clients, TakeFile(c) PROVE IngressInv'
  <2>1. /\ PlaceInv'
        /\ (\A s \in Sources : RecordInv(s))'
        /\ (\A j \in Jobs : jobs[j] # "absent" => HasRecord(j))'
        /\ (phase[1] = "receipt" => HasRecord(JobOf[cur]))'
    BY <1>9 DEF TakeFile
  <2>2. ASSUME NEW x \in Clients PROVE ClientInv(x)'
    <3>1. CASE x = c
      BY <1>9, <3>1 DEF TakeFile
    <3>2. CASE x # c
      BY <1>9, <3>2 DEF TakeFile
    <3> QED
      BY <3>1, <3>2
  <2> QED
    BY <2>1, <2>2
<1>10. CASE FilesDone
  BY <1>10 DEF FilesDone
<1>11. ASSUME NEW d \in Deliveries, TakeDelivery(d) PROVE IngressInv'
  <2>1. /\ PlaceInv'
        /\ (\A s \in Sources : RecordInv(s))'
        /\ (\A j \in Jobs : jobs[j] # "absent" => HasRecord(j))'
        /\ (phase[1] = "receipt" => HasRecord(JobOf[cur]))'
    BY <1>11 DEF TakeDelivery
  <2>2. ASSUME NEW x \in Clients PROVE ClientInv(x)'
    <3>1. CASE x = cur
      BY <1>11, <3>1 DEF TakeDelivery
    <3>2. CASE x # cur
      BY <1>11, <3>2 DEF TakeDelivery
    <3> QED
      BY <3>1, <3>2
  <2> QED
    BY <2>1, <2>2
<1>12. CASE ImportDone
  BY <1>12 DEF ImportDone
<1>13. CASE Pass
  BY <1>13 DEF Pass
<1>14. CASE WriteRequest
  <2>1. /\ PlaceInv'
        /\ (\A s \in Sources : RecordInv(s))'
        /\ (\A j \in Jobs : jobs[j] # "absent" => HasRecord(j))'
        /\ (phase[1] = "receipt" => HasRecord(JobOf[cur]))'
    BY <1>14 DEF WriteRequest
  <2>2. ASSUME NEW x \in Clients PROVE ClientInv(x)'
    <3>1. CASE x = cur
      BY <1>14, <3>1 DEF WriteRequest
    <3>2. CASE x # cur
      BY <1>14, <3>2 DEF WriteRequest
    <3> QED
      BY <3>1, <3>2
  <2> QED
    BY <2>1, <2>2
<1>15. CASE Enqueue
  <2>1. /\ PlaceInv'
        /\ (\A x \in Clients : ClientInv(x))'
        /\ (\A j \in Jobs : jobs[j] # "absent" => HasRecord(j))'
    BY <1>15 DEF Enqueue, NeedsRecord
  <2>2. /\ cur \in Sources /\ JobOf[cur] \in Jobs /\ cur \notin receipts \cup markers
        /\ phase' = <<"receipt", phase[2]>> /\ phase[1] = "enqueue"
        /\ cur \in Clients => requests[cur] # "absent"
        /\ UNCHANGED <<requests, receipts, markers, cur, todo>>
    BY <1>15 DEF Enqueue, Jobs
  <2>3. CASE jobs[JobOf[cur]] = "inflight"
    <3>1. UNCHANGED <<jobs, records>>
      BY <1>15, <2>3 DEF Enqueue, NeedsRecord
    <3>2. (\A s \in Sources : RecordInv(s))'
      BY <2>2, <3>1
    <3>3. HasRecord(JobOf[cur])'
      BY <2>2, <2>3, <3>1
    <3> QED
      BY <2>1, <3>2, <3>3
  <2>4. CASE jobs[JobOf[cur]] # "inflight"
    <3>1. /\ jobs' = [jobs EXCEPT ![JobOf[cur]] = "inflight"]
          /\ records' = [records EXCEPT ![cur] = @ + 1]
      BY <1>15, <2>4 DEF Enqueue, NeedsRecord
    <3>2. records[cur] = 0
      BY <2>2, <2>4
    <3>3. records' = [records EXCEPT ![cur] = 1]
      BY <3>1, <3>2
    <3>4. ASSUME NEW s \in Sources PROVE RecordInv(s)'
      <4>1. s # cur => records'[s] = records[s]
        BY <3>3
      <4>2. s = cur => records'[s] = 1 /\ jobs'[JobOf[s]] = "inflight"
        BY <2>2, <3>1, <3>3
      <4>3. jobs[JobOf[s]] = "inflight" => jobs'[JobOf[s]] = "inflight"
        BY <2>2, <3>1 DEF Jobs
      <4> QED
        BY <2>2, <4>1, <4>2, <4>3
    <3>5. HasRecord(JobOf[cur])'
      BY <2>2, <3>3
    <3> QED
      BY <2>1, <3>4, <3>5
  <2> QED
    BY <2>3, <2>4
<1>16. CASE WriteReceipt
  <2>1. /\ PlaceInv'
        /\ (\A s \in Sources : RecordInv(s))'
        /\ (\A j \in Jobs : jobs[j] # "absent" => HasRecord(j))'
        /\ (phase[1] = "receipt" => HasRecord(JobOf[cur]))'
    BY <1>16 DEF WriteReceipt, Move
  <2>2. ASSUME NEW x \in Clients PROVE ClientInv(x)'
    <3>1. CASE x = cur
      BY <1>16, <3>1 DEF WriteReceipt, Move
    <3>2. CASE x # cur
      BY <1>16, <3>2 DEF WriteReceipt, Move
    <3> QED
      BY <3>1, <3>2
  <2> QED
    BY <2>1, <2>2
<1>17. CASE Crash
  BY <1>17 DEF Crash
<1>18. CASE UNCHANGED ingressVars
  BY <1>18 DEF ingressVars
<1> QED
  BY <1>1, <1>2, <1>3, <1>4, <1>5, <1>6, <1>7, <1>8, <1>9, <1>10, <1>11, <1>12,
     <1>13, <1>14, <1>15, <1>16, <1>17, <1>18 DEF IngressNext, ServiceStep, ClientStep

\* The invariant holds in every behaviour, deaths included.
THEOREM IngressCorrect == Prompt /\ KernelKnown => (IngressSpec => []IngressInv)
<1> SUFFICES ASSUME Prompt, KernelKnown PROVE IngressSpec => []IngressInv
  OBVIOUS
<1>1. IngressInit => IngressInv
  <2> SUFFICES ASSUME IngressInit PROVE IngressInv
    OBVIOUS
  <2>1. phase = <<"down", "socket">>
    BY DEF IngressInit
  <2>2. ~Up /\ phase[1] \notin Phases \cup Handler /\ phase[2] = "socket"
    BY <2>1 DEF Up, Phases, Handler
  <2>3. PlaceInv
    BY <2>2 DEF IngressInit, PlaceInv, Phases, Handler
  <2>4. \A c \in Clients : ClientInv(c)
    BY <2>2 DEF IngressInit, ClientInv, Waits, Handling
  <2>5. (\A s \in Sources : RecordInv(s)) /\ (\A j \in Jobs : jobs[j] = "absent")
    BY DEF IngressInit, RecordInv
  <2> QED
    BY <2>2, <2>3, <2>4, <2>5 DEF IngressInv, Handler
<1> QED
  BY <1>1, IngressInvNext, IngressTypeCorrect, PTL DEF IngressSpec

\* A retried, repeated or interrupted submission makes at most one record, and a receipt
\* is written only when there is a record of its job (handle_runtime_service_request,
\* import_commitment_execution_requests): the ingress implements SubmitOnce.
THEOREM SubmitsOnce == Prompt /\ KernelKnown => (IngressSpec => SubmissionsOnce)
<1> SUFFICES ASSUME Prompt, KernelKnown PROVE IngressSpec => SubmissionsOnce
  OBVIOUS
<1> DEFINE accepted == receipts \cup markers
<1>1. IngressInit => Promise!Init
  BY DEF IngressInit, Promise!Init
<1>2. IngressTypeOK /\ WorkInv /\ IngressInv /\ [IngressNext]_ingressVars =>
        [Promise!Next]_<<records, receipts \cup markers>>
  <2> SUFFICES ASSUME IngressTypeOK, WorkInv, IngressInv, [IngressNext]_ingressVars
               PROVE  [Promise!Next]_<<records, receipts \cup markers>>
    OBVIOUS
  <2>1. CASE Enqueue
    <3>1. /\ cur \in Sources /\ cur \notin accepted /\ phase[1] = "enqueue"
          /\ UNCHANGED <<receipts, markers>>
      BY <2>1 DEF Enqueue, WorkInv, Handler, Sources, IngressInv, PlaceInv
    <3>2. CASE jobs[JobOf[cur]] = "inflight"
      BY <2>1, <3>1, <3>2 DEF Enqueue, NeedsRecord
    <3>3. CASE jobs[JobOf[cur]] # "inflight"
      <4>1. records' = [records EXCEPT ![cur] = @ + 1]
        BY <2>1, <3>3 DEF Enqueue, NeedsRecord
      <4>2. records[cur] = 0
        BY <3>1, <3>3 DEF IngressInv, RecordInv, IngressTypeOK
      <4>3. Promise!MakeRecord(cur)
        BY <3>1, <4>1, <4>2 DEF Promise!MakeRecord
      <4> QED
        BY <3>1, <4>3 DEF Promise!Next
    <3> QED
      BY <3>2, <3>3
  <2>2. CASE WriteReceipt
    <3>1. /\ cur \in Sources /\ phase[1] = "receipt" /\ UNCHANGED records
          /\ (receipts \cup markers)' = (receipts \cup markers) \cup {cur}
      BY <2>2 DEF WriteReceipt, WorkInv, Handler, Sources
    <3>2. \E t \in Sources : JobOf[t] = JobOf[cur] /\ records[t] > 0
      BY <3>1 DEF IngressInv, HasRecord
    <3>3. Promise!Accept(cur)
      BY <3>1, <3>2 DEF Promise!Accept
    <3> QED
      BY <3>1, <3>3 DEF Promise!Next
  <2>3. CASE ~Enqueue /\ ~WriteReceipt
    <3>1. UNCHANGED <<records, receipts, markers>>
      BY <2>3, Zenon
         DEF IngressNext, ServiceStep, ClientStep, Submit, GiveUp, Stage, Poll,
             StartService, Accept, SocketDone, HttpDone, TakeFile, FilesDone,
             TakeDelivery,
             ImportDone, Pass, WriteRequest, Crash, ingressVars
    <3> QED
      BY <3>1
  <2> QED
    BY <2>1, <2>2, <2>3
<1> QED
  BY <1>1, <1>2, IngressTypeCorrect, IngressCorrect, PTL
     DEF IngressSpec, SubmissionsOnce, Promise!Spec
=============================================================================
