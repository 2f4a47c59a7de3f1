---------------------- MODULE AgentSupervisor_proofs ----------------------
(***************************************************************************)
(* What holds of the personal agent's supervision for any processes,       *)
(* wherever they die: its types; the one way in which a patient operator   *)
(* gets two workers (OneWorker) and the one in which a worker is not seen  *)
(* (WorkerIsSeen); and that a crashed worker is not started again before   *)
(* its backoff has passed (BackoffHonoured).                               *)
(***************************************************************************)
EXTENDS AgentSupervisor, FiniteSetTheorems, TLAPS

-----------------------------------------------------------------------------
(* Types.                                                                  *)

LEMMA DefaultPolicyIsPolicy == DefaultPolicy \in Policy
BY AgentAssumption DEF DefaultPolicy, Policy

LEMMA NobodyIsTyped ==
    /\ NoSup \in Supervisor /\ NoWorker \in Worker /\ NoCommand \in CommandLine
BY DefaultPolicyIsPolicy DEF NoSup, NoWorker, NoCommand, Supervisor, Worker, CommandLine,
   SupPC, WorkerPC, CliPC

LEMMA CountDownIsLess ==
    ASSUME NEW n \in 0 .. Backoff
    PROVE  CountDown(n) \in 0 .. Backoff
BY AgentAssumption DEF CountDown

LEMMA AfterExitIsPolicy ==
    ASSUME NEW pol \in Policy, NEW unexpected \in BOOLEAN
    PROVE  AfterExit(pol, unexpected) \in Policy
<1>1. Backoff \in 0 .. Backoff /\ 0 \in 0 .. Backoff
  BY AgentAssumption
<1>2. (pol.failed \/ unexpected) \in BOOLEAN
  BY DEF Policy
<1>3. QED
  BY <1>1, <1>2 DEF AfterExit, Policy

\* A step of a supervisor that changes only its own entry keeps the type of all.
LEMMA SupIsTyped ==
    ASSUME sup \in [Sups -> Supervisor], NEW s \in Sups, NEW new \in Supervisor,
           sup' = [sup EXCEPT ![s] = new]
    PROVE  sup' \in [Sups -> Supervisor]
OBVIOUS

LEMMA WrkIsTyped ==
    ASSUME wrk \in [Workers -> Worker], NEW w \in Workers, NEW new \in Worker,
           wrk' = [wrk EXCEPT ![w] = new]
    PROVE  wrk' \in [Workers -> Worker]
OBVIOUS

LEMMA CliTypes ==
    ASSUME TypeOK, CliStep \/ Command
    PROVE  TypeOK'
<1> USE NobodyIsTyped, DefaultPolicyIsPolicy, AgentAssumption
<1>0. policy \in Policy /\ cli \in CommandLine /\ 0 \in 0 .. Backoff
  BY DEF TypeOK
<1>1. ASSUME NEW r \in {"manual", "always"}, NEW pc \in CliPC
      PROVE  [NoCommand EXCEPT !.pc = pc, !.restart = r] \in CommandLine
  BY DEF CommandLine
<1>2. ASSUME NEW r \in Policies, Start(r) PROVE TypeOK'
  <2>1. cli' \in CommandLine
    BY <1>1, <1>2 DEF Start, CliPC
  <2>2. commands' \in 0 .. MaxCommands /\ overlooked' \in BOOLEAN
    BY <1>2 DEF Start, TypeOK
  <2>3. QED
    BY <1>2, <2>1, <2>2 DEF Start, TypeOK
<1>3. ASSUME Reconcile PROVE TypeOK'
  <2>1. policy.restart \in {"manual", "always"}
    BY <1>0 DEF Policy
  <2>2. cli' \in CommandLine
    BY <1>1, <1>3, <2>1 DEF Reconcile, CliPC
  <2>3. commands' \in 0 .. MaxCommands /\ overlooked' \in BOOLEAN
    BY <1>3 DEF Reconcile, TypeOK
  <2>4. QED
    BY <1>3, <2>2, <2>3 DEF Reconcile, TypeOK
<1>4. ASSUME Stop PROVE TypeOK'
  <2>1. [policy EXCEPT !.desired = "stopped", !.next = 0] \in Policy
    BY <1>0 DEF Policy
  <2>2. cli' \in CommandLine
    BY <1>4, <2>1 DEF Stop, CommandLine, CliPC, NoCommand
  <2>3. QED
    BY <1>4, <2>2 DEF Stop, TypeOK, history, orphans
<1>5. ASSUME StartLoad PROVE TypeOK'
  <2>1. [policy EXCEPT !.desired = "running", !.restart = cli.restart, !.next = 0,
                       !.sup = Nobody, !.worker = Nobody] \in Policy
    BY <1>0 DEF Policy, CommandLine
  <2>2. cli' \in CommandLine
    BY <1>0, <1>5, <2>1 DEF StartLoad, CommandLine, CliPC
  <2>3. QED
    BY <1>5, <2>2 DEF StartLoad, TypeOK, history, orphans, bounds
<1>6. ASSUME StartWrite \/ StopWrite PROVE TypeOK'
  <2>1. cli' \in CommandLine /\ policy' \in Policy
    BY <1>0, <1>6 DEF StartWrite, StopWrite, CommandLine, CliPC
  <2>2. QED
    BY <1>0, <1>6, <2>1 DEF StartWrite, StopWrite, TypeOK, orphans, bounds
<1>7. ASSUME NEW s \in Sups, StartFork(s) PROVE TypeOK'
  <2>1. [NoSup EXCEPT !.pc = "top"] \in Supervisor
    BY DEF Supervisor, SupPC
  <2>2. QED
    BY <1>7, <2>1 DEF StartFork, TypeOK, orphans, bounds
<1>8. ASSUME StopFile PROVE TypeOK'
  BY <1>8 DEF StopFile, TypeOK, orphans, bounds
<1>9. QED
  BY <1>2, <1>3, <1>4, <1>5, <1>6, <1>7, <1>8 DEF CliStep, Command

LEMMA SupTypes ==
    ASSUME TypeOK, NEW s \in Sups, SupStep(s)
    PROVE  TypeOK'
<1> USE NobodyIsTyped, DefaultPolicyIsPolicy, AgentAssumption
<1>0. /\ policy \in Policy /\ sup[s] \in Supervisor /\ sup[s].pol \in Policy
      /\ 0 \in 0 .. Backoff /\ Backoff \in 0 .. Backoff /\ Child(s) \in Workers \cup {Nobody}
  BY DEF TypeOK, Supervisor, Child
<1>1. ASSUME NEW pc \in SupPC, sup' = [sup EXCEPT ![s].pc = pc]
      PROVE  sup' \in [Sups -> Supervisor]
  BY <1>1 DEF TypeOK, Supervisor
<1>2. ASSUME NEW pc \in SupPC, NEW pol \in Policy, sup' = [sup EXCEPT ![s].pol = pol, ![s].pc = pc]
      PROVE  sup' \in [Sups -> Supervisor]
  BY <1>2 DEF TypeOK, Supervisor
<1>3. ASSUME sup' = [sup EXCEPT ![s] = NoSup]
      PROVE  sup' \in [Sups -> Supervisor]
  BY <1>3 DEF TypeOK
<1>4. CASE SupLoad(s)
  <2> DEFINE pol == [policy EXCEPT !.sup = s]
             pc == CASE pol.desired # "running" /\ Child(s) = Nobody -> "leave"
                     [] pol.desired # "running" /\ Child(s) # Nobody -> "ask"
                     [] pol.desired = "running" /\ Child(s) # Nobody -> "wait"
                     [] OTHER -> "again"
  <2>1. pol \in Policy
    BY <1>0 DEF Policy
  <2>2. pc \in SupPC
    BY DEF SupPC
  <2>3. sup' = [sup EXCEPT ![s].pol = pol, ![s].pc = pc]
    BY <1>4, Zenon DEF SupLoad
  <2> HIDE DEF pol, pc
  <2>4. sup' \in [Sups -> Supervisor]
    BY <1>2, <2>1, <2>2, <2>3
  <2>5. QED
    BY <1>4, <2>4 DEF SupLoad, TypeOK, history, orphans, bounds
<1>5. CASE SupLeave(s) \/ SupQuit(s)
  <2>1. policy' \in Policy
    <3>1. /\ [sup[s].pol EXCEPT !.sup = Nobody, !.worker = Nobody, !.next = 0] \in Policy
          /\ [sup[s].pol EXCEPT !.sup = Nobody] \in Policy
      BY <1>0 DEF Policy
    <3>2. QED
      BY <1>5, <3>1 DEF SupLeave, SupQuit
  <2>2. sup' \in [Sups -> Supervisor]
    BY <1>1, <1>3, <1>5 DEF SupLeave, SupQuit, SupPC
  <2>3. QED
    BY <1>5, <2>1, <2>2 DEF SupLeave, SupQuit, TypeOK, history, orphans, bounds
<1>6. CASE SupLeaveClear(s) \/ SupAsk(s) \/ SupClear(s)
  <2>1. sup' \in [Sups -> Supervisor]
    BY <1>1, <1>3, <1>6 DEF SupLeaveClear, SupAsk, SupClear, SupPC
  <2>2. QED
    BY <1>6, <2>1 DEF SupLeaveClear, SupAsk, SupClear, TypeOK, history, orphans, bounds
<1>7. CASE SupReap(s)
  <2>1. AfterExit(sup[s].pol, Unexpected(s)) \in Policy
    BY <1>0, AfterExitIsPolicy DEF Unexpected, TypeOK
  <2>2. sup' \in [Sups -> Supervisor]
    BY <1>7, <2>1 DEF SupReap, TypeOK, Supervisor, SupPC
  <2>3. wrk' \in [Workers -> Worker]
    BY <1>7 DEF SupReap, TypeOK
  <2>4. backoff' \in [Sups -> 0 .. Backoff]
    BY <1>0, <1>7 DEF SupReap, TypeOK
  <2>5. QED
    BY <1>7, <2>2, <2>3, <2>4 DEF SupReap, TypeOK, orphans, bounds
<1>8. CASE SupReaped(s)
  <2> DEFINE pc == CASE sup[s].pol.desired # "running" -> "top"
                     [] sup[s].pol.desired = "running" /\ sup[s].pol.restart # "always" -> "quit"
                     [] OTHER -> "again"
  <2>1. pc \in SupPC
    BY DEF SupPC
  <2>2. sup' = [sup EXCEPT ![s].pc = pc] /\ policy' = sup[s].pol
    BY <1>8 DEF SupReaped
  <2> HIDE DEF pc
  <2>3. QED
    BY <1>0, <1>1, <1>8, <2>1, <2>2 DEF SupReaped, TypeOK, history, orphans, bounds
<1>9. CASE SupBeat(s)
  <2>1. sup' \in [Sups -> Supervisor]
    <3>1. [sup[s].pol EXCEPT !.worker = Child(s)] \in Policy
      BY <1>0 DEF Policy
    <3>2. sup' = [sup EXCEPT ![s].pol = [sup[s].pol EXCEPT !.worker = Child(s)], ![s].pc = "beat"]
      BY <1>9 DEF SupBeat
    <3>3. QED
      BY <1>2, <3>1, <3>2 DEF SupPC
  <2>2. QED
    BY <1>9, <2>1 DEF SupBeat, TypeOK, history, orphans, bounds
<1>10. CASE SupBeatWrite(s) \/ SupAdopt(s)
  <2>1. sup' \in [Sups -> Supervisor] /\ policy' \in Policy
    BY <1>0, <1>1, <1>10 DEF SupBeatWrite, SupAdopt, SupPC
  <2>2. QED
    BY <1>10, <2>1 DEF SupBeatWrite, SupAdopt, TypeOK, history, orphans, bounds
<1>11. CASE SupAgain(s)
  <2>1. sup' \in [Sups -> Supervisor]
    BY <1>1, <1>11 DEF SupAgain, SupPC
  <2>2. QED
    BY <1>11, <2>1 DEF SupAgain, TypeOK, history, orphans, bounds
<1>12. ASSUME NEW w \in Workers, SupSpawn(s, w) PROVE TypeOK'
  <2>1. sup' \in [Sups -> Supervisor]
    BY <1>12 DEF SupSpawn, TypeOK, Supervisor, SupPC
  <2>2. wrk' \in [Workers -> Worker]
    BY <1>12 DEF SupSpawn, TypeOK, Worker, WorkerPC
  <2>3. QED
    BY <1>12, <2>1, <2>2 DEF SupSpawn, TypeOK, history, orphans, bounds
<1>13. CASE SupState(s)
  <2>1. sup' \in [Sups -> Supervisor] /\ loop' \in Loop
    BY <1>0, <1>1, <1>13 DEF SupState, SupPC, Loop
  <2>2. QED
    BY <1>13, <2>1 DEF SupState, TypeOK, history, orphans, bounds
<1>14. CASE SupReload(s)
  <2>1. sup' \in [Sups -> Supervisor]
    <3>1. [policy EXCEPT !.sup = s, !.worker = Child(s)] \in Policy
      BY <1>0 DEF Policy
    <3>2. QED
      BY <1>2, <1>14, <3>1 DEF SupReload, SupPC
  <2>2. QED
    BY <1>14, <2>1 DEF SupReload, TypeOK, history, orphans, bounds
<1>15. QED
  BY <1>4, <1>5, <1>6, <1>7, <1>8, <1>9, <1>10, <1>11, <1>12, <1>13, <1>14 DEF SupStep

LEMMA EndsIsTyped ==
    ASSUME TypeOK, NEW w \in Workers, Ends(w)
    PROVE  wrk' \in [Workers -> Worker] /\ unnamed' \subseteq Workers
<1>1. [NoWorker EXCEPT !.pc = "zombie", !.parent = wrk[w].parent] \in Worker
  BY NobodyIsTyped DEF TypeOK, Worker, WorkerPC
<1>2. QED
  BY <1>1, NobodyIsTyped DEF Ends, TypeOK

LEMMA WorkerTypes ==
    ASSUME TypeOK, NEW w \in Workers, WorkerStep(w)
    PROVE  TypeOK'
<1>0. /\ policy \in Policy /\ wrk[w] \in Worker /\ wrk[w].pol \in Policy /\ 0 \in 0 .. Backoff
  BY AgentAssumption DEF TypeOK, Worker
<1>1. ASSUME NEW pc \in WorkerPC, Goes(w, pc)
      PROVE  wrk' \in [Workers -> Worker]
  BY <1>1 DEF Goes, TypeOK, Worker
<1>2. CASE Boot(w)
  <2>1. wrk' \in [Workers -> Worker]
    BY <1>1, <1>2 DEF Boot, WorkerPC
  <2>2. QED
    BY <1>2, <2>1 DEF Boot, TypeOK, history, orphans, bounds
<1>3. CASE LoadPolicy(w)
  <2>1. wrk' \in [Workers -> Worker]
    BY <1>0, <1>3 DEF LoadPolicy, TypeOK, Worker, WorkerPC
  <2>2. QED
    BY <1>3, <2>1 DEF LoadPolicy, TypeOK, history, orphans, bounds
<1>4. CASE Announce(w)
  <2>1. wrk' \in [Workers -> Worker]
    BY <1>1, <1>4 DEF Announce, WorkerPC
  <2>2. QED
    BY <1>0, <1>4, <2>1 DEF Announce, TypeOK, history, orphans, bounds
<1>5. CASE TickLoop(w)
  <2>1. wrk' \in [Workers -> Worker]
    BY <1>1, <1>5 DEF TickLoop, WorkerPC
  <2>2. QED
    BY <1>5, <2>1 DEF TickLoop, TypeOK, history, orphans, bounds
<1>6. CASE Report(w) \/ StopState(w)
  <2>1. wrk' \in [Workers -> Worker] /\ loop' \in Loop
    BY <1>1, <1>6 DEF Report, StopState, WorkerPC, Loop
  <2>2. QED
    BY <1>6, <2>1 DEF Report, StopState, TypeOK, history, orphans, bounds
<1>7. CASE StopPolicy(w)
  <2>1. wrk' \in [Workers -> Worker]
    BY <1>1, <1>7 DEF StopPolicy, WorkerPC
  <2>2. [wrk[w].pol EXCEPT !.next = 0] \in Policy
    BY <1>0 DEF Policy
  <2>3. QED
    BY <1>7, <2>1, <2>2 DEF StopPolicy, TypeOK, history, orphans, bounds
<1>8. CASE StopClear(w)
  BY <1>8, EndsIsTyped DEF StopClear, TypeOK, history, orphans, bounds
<1>9. QED
  BY <1>2, <1>3, <1>4, <1>5, <1>6, <1>7, <1>8 DEF WorkerStep

LEMMA CrashTypes ==
    ASSUME TypeOK, (\E w \in Workers : Crash(w)) \/ \E s \in Sups : CrashSup(s)
    PROVE  TypeOK'
<1>1. ASSUME NEW w \in Workers, Crash(w) PROVE TypeOK'
  <2>1. wrk' \in [Workers -> Worker] /\ unnamed' \subseteq Workers
    BY <1>1, EndsIsTyped DEF Crash
  <2>2. crashes' \in 0 .. MaxCrashes
    BY <1>1, AgentAssumption DEF Crash, TypeOK
  <2>3. QED
    BY <1>1, <2>1, <2>2 DEF Crash, TypeOK, history, orphans
<1>2. ASSUME NEW s \in Sups, CrashSup(s) PROVE TypeOK'
  <2>1. wrk' \in [Workers -> Worker]
    <3>1. \A w \in Workers : [wrk[w] EXCEPT !.parent = Nobody] \in Worker
      BY DEF TypeOK, Worker
    <3>2. QED
      BY <1>2, <3>1, NobodyIsTyped DEF CrashSup, TypeOK
  <2>2. crashes' \in 0 .. MaxCrashes
    BY <1>2, AgentAssumption DEF CrashSup, TypeOK
  <2>3. sup' \in [Sups -> Supervisor]
    BY <1>2, NobodyIsTyped DEF CrashSup, TypeOK
  <2>4. backoff' \in [Sups -> 0 .. Backoff]
    BY <1>2, AgentAssumption DEF CrashSup, TypeOK
  <2>5. QED
    BY <1>2, <2>1, <2>2, <2>3, <2>4 DEF CrashSup, TypeOK
<1>3. QED
  BY <1>1, <1>2

LEMMA TickTypes ==
    ASSUME TypeOK, Tick
    PROVE  TypeOK'
<1>1. ASSUME NEW pol \in Policy PROVE [pol EXCEPT !.next = CountDown(@)] \in Policy
  BY CountDownIsLess DEF Policy
<1>2. policy' \in Policy
  BY <1>1 DEF Tick, TypeOK
<1>3. sup' \in [Sups -> Supervisor]
  <2>1. ASSUME NEW s \in Sups PROVE [sup[s] EXCEPT !.pol.next = CountDown(@)] \in Supervisor
    <3>1. sup[s] \in Supervisor
      BY DEF TypeOK
    <3>2. [sup[s].pol EXCEPT !.next = CountDown(@)] \in Policy
      BY <1>1, <3>1 DEF Supervisor
    <3>3. [sup[s] EXCEPT !.pol.next = CountDown(@)]
            = [sup[s] EXCEPT !.pol = [sup[s].pol EXCEPT !.next = CountDown(@)]]
      BY <3>1 DEF Supervisor
    <3>4. QED
      BY <3>1, <3>2, <3>3 DEF Supervisor
  <2>2. QED
    BY <2>1 DEF Tick
<1>4. wrk' \in [Workers -> Worker]
  <2>1. ASSUME NEW w \in Workers PROVE [wrk[w] EXCEPT !.pol.next = CountDown(@)] \in Worker
    <3>1. wrk[w] \in Worker
      BY DEF TypeOK
    <3>2. [wrk[w].pol EXCEPT !.next = CountDown(@)] \in Policy
      BY <1>1, <3>1 DEF Worker
    <3>3. [wrk[w] EXCEPT !.pol.next = CountDown(@)]
            = [wrk[w] EXCEPT !.pol = [wrk[w].pol EXCEPT !.next = CountDown(@)]]
      BY <3>1 DEF Worker
    <3>4. QED
      BY <3>1, <3>2, <3>3 DEF Worker
  <2>2. QED
    BY <2>1 DEF Tick
<1>5. cli' \in CommandLine
  <2>1. cli \in CommandLine
    BY DEF TypeOK
  <2>2. [cli.pol EXCEPT !.next = CountDown(@)] \in Policy
    BY <1>1, <2>1 DEF CommandLine
  <2>3. cli' = [cli EXCEPT !.pol = [cli.pol EXCEPT !.next = CountDown(@)]]
    BY <2>1 DEF Tick, CommandLine
  <2>4. QED
    BY <2>1, <2>2, <2>3 DEF CommandLine
<1>6. backoff' \in [Sups -> 0 .. Backoff]
  BY CountDownIsLess DEF Tick, TypeOK
<1>7. QED
  BY <1>2, <1>3, <1>4, <1>5, <1>6 DEF Tick, TypeOK, orphans, bounds

\* The policy, the loop state and every copy that a process keeps are well formed.
THEOREM TypeCorrect == Spec => []TypeOK
<1>1. Init => TypeOK
  <2> SUFFICES ASSUME Init PROVE TypeOK
    OBVIOUS
  <2>1. sup \in [Sups -> Supervisor] /\ wrk \in [Workers -> Worker] /\ cli \in CommandLine
    BY NobodyIsTyped DEF Init
  <2>2. backoff \in [Sups -> 0 .. Backoff] /\ commands \in 0 .. MaxCommands
        /\ crashes \in 0 .. MaxCrashes
    BY AgentAssumption DEF Init
  <2>3. QED
    BY <2>1, <2>2, DefaultPolicyIsPolicy DEF Init, TypeOK, Loop
<1>2. TypeOK /\ [Next]_vars => TypeOK'
  <2> SUFFICES ASSUME TypeOK, [Next]_vars PROVE TypeOK'
    OBVIOUS
  <2>1. CASE UNCHANGED vars
    BY <2>1 DEF vars, history, orphans, bounds, TypeOK
  <2>2. QED
    BY <2>1, CliTypes, SupTypes, WorkerTypes, CrashTypes, TickTypes DEF Next
<1>3. QED
  BY <1>1, <1>2, PTL DEF Spec

-----------------------------------------------------------------------------
(* One family at most.                                                     *)

LEMMA ChildIsTyped ==
    ASSUME TypeOK, NEW s \in Sups
    PROVE  Child(s) \in Workers \cup {Nobody} /\ sup[s].pc \in SupPC /\ s # Nobody
BY AgentAssumption DEF TypeOK, Supervisor, Child

LEMMA ParentIsTyped ==
    ASSUME TypeOK, NEW w \in Workers
    PROVE  wrk[w].parent \in Sups \cup {Nobody} /\ wrk[w].pc \in WorkerPC /\ w # Nobody
BY AgentAssumption DEF TypeOK, Worker

\* Who lives and whose child it is stays as it was.
LEMMA FamilyFrame ==
    ASSUME TypeOK, FamilyInv,
           \A w \in Workers : /\ wrk'[w].parent = wrk[w].parent
                              /\ wrk'[w].pc = "none" <=> wrk[w].pc = "none"
                              /\ wrk'[w].pc = "zombie" => wrk[w].parent # Nobody,
           \A s \in Sups : /\ sup'[s].child = sup[s].child
                           /\ sup'[s].pc = "none" <=> sup[s].pc = "none"
                           /\ sup'[s].pc \in Parents => Child(s) # Nobody
                           /\ sup'[s].pc \notin Parents \cup {"top"} => Child(s) = Nobody,
           NobodyYet', Named'
    PROVE  FamilyInv'
<1>1. OneSup'
  BY DEF FamilyInv, OneSup
<1>2. \A s \in Sups : Child(s)' = Child(s) /\ (Child(s) # Nobody => Child(s) \in Workers)
  BY ChildIsTyped DEF Child
<1>3. \A w \in Workers : Exists(w)' <=> Exists(w)
  BY DEF Exists
<1>4. \A s \in Sups : Child(s)' # Nobody => Exists(Child(s))'
  <2> SUFFICES ASSUME NEW s \in Sups, Child(s)' # Nobody
               PROVE  wrk'[Child(s)'].pc # "none"
    BY DEF Exists
  <2>1. Child(s) \in Workers /\ Exists(Child(s)) /\ Child(s)' = Child(s)
    BY <1>2 DEF FamilyInv, Family
  <2>2. QED
    BY <2>1 DEF Exists
<1>5. Family'
  BY <1>2, <1>3, <1>4 DEF FamilyInv, Family
<1>6. QED
  BY <1>1, <1>5 DEF FamilyInv

\* While a supervisor or a worker lives no command is starting one.
LEMMA NobodyYetKept ==
    ASSUME FamilyInv, cli' = cli,
           (\E s \in Sups : sup[s].pc # "none") \/ \E w \in Workers : Exists(w)
    PROVE  NobodyYet'
<1>1. cli.pc \notin Starting
  BY DEF FamilyInv, NobodyYet, NoneLeft
<1>2. QED
  BY <1>1 DEF NobodyYet

LEMMA ActionNeedsNoWorker ==
    ASSUME SupervisionAction \in {"needs_restart", "manual_restart_required"}
    PROVE  ~WorkerRunning
BY DEF SupervisionAction

LEMMA CommandFamily ==
    ASSUME Patient, TypeOK, TypeOK', FamilyInv, ~overlooked', Command \/ CliStep
    PROVE  FamilyInv'
<1>0. unnamed' = unnamed
  BY DEF Command, CliStep, Start, Reconcile, Stop, StartLoad, StartWrite, StartFork, StopWrite,
         StopFile, history, orphans
<1>1. ASSUME UNCHANGED <<sup, wrk, loop>>, NobodyYet' PROVE FamilyInv'
  <2>1. Named'
    BY <1>0, <1>1 DEF FamilyInv, Named, Exists
  <2>2. QED
    BY <1>1, <2>1, FamilyFrame DEF FamilyInv, Family, Exists
<1>2. ASSUME Reconcile \/ \E r \in Policies : Start(r) PROVE FamilyInv'
  <2>1. NoneLeft /\ ~WorkerRunning /\ unnamed = {} /\ UNCHANGED <<sup, wrk, loop>>
    BY <1>2, ActionNeedsNoWorker DEF Reconcile, Start
  <2>2. \A w \in Workers : ~Exists(w)
    BY <2>1 DEF FamilyInv, Named, NoneLeft, WorkerRunning, PidIsRunning, Exists
  <2>3. NobodyYet'
    BY <2>1, <2>2 DEF NobodyYet, NoneLeft, Exists
  <2>4. QED
    BY <1>1, <2>1, <2>3
<1>3. ASSUME Stop \/ StopWrite \/ StopFile PROVE FamilyInv'
  <2>1. cli'.pc \in {"idle", "stop_write", "stop_file"} /\ UNCHANGED <<sup, wrk, loop>>
    <3>1. ASSUME Stop PROVE cli'.pc = "stop_write" /\ UNCHANGED <<sup, wrk, loop>>
      BY <3>1 DEF Stop, NoCommand
    <3>2. ASSUME StopWrite PROVE cli'.pc = "stop_file" /\ UNCHANGED <<sup, wrk, loop>>
      BY <3>2 DEF StopWrite, TypeOK, CommandLine
    <3>3. ASSUME StopFile PROVE cli'.pc = "idle" /\ UNCHANGED <<sup, wrk, loop>>
      BY <3>3 DEF StopFile, NoCommand
    <3>4. QED
      BY <1>3, <3>1, <3>2, <3>3
  <2>2. QED
    BY <1>1, <2>1 DEF NobodyYet, Starting
<1>4. ASSUME StartLoad \/ StartWrite PROVE FamilyInv'
  <2>1. cli.pc \in Starting /\ UNCHANGED <<sup, wrk, loop>>
    BY <1>4 DEF StartLoad, StartWrite, Starting
  <2>2. NobodyYet'
    BY <2>1 DEF FamilyInv, NobodyYet, NoneLeft, Exists
  <2>3. QED
    BY <1>1, <2>1, <2>2
<1>5. ASSUME NEW s \in Sups, StartFork(s) PROVE FamilyInv'
  <2>1. /\ NoneLeft /\ \A w \in Workers : ~Exists(w)
        /\ UNCHANGED <<wrk, loop>>
        /\ cli'.pc \notin Starting
    BY <1>5 DEF StartFork, FamilyInv, NobodyYet, Starting, NoCommand
  <2>2. /\ sup'[s].pc = "top" /\ sup'[s].child = Nobody
        /\ \A r \in Sups \ {s} : sup'[r] = sup[r]
    BY <1>5 DEF StartFork, TypeOK, NoSup
  <2>3. OneSup'
    BY <2>1, <2>2 DEF OneSup, NoneLeft
  <2>4. \A r \in Sups \ {s} : Child(r) = Nobody /\ sup[r].pc = "none"
    BY <2>1 DEF FamilyInv, Family, NoneLeft, Parents
  <2>5. Family'
    BY <2>1, <2>2, <2>4 DEF FamilyInv, Family, Child, Exists, Parents
  <2>6. Named' /\ NobodyYet'
    BY <1>0, <2>1 DEF FamilyInv, Named, NobodyYet, Exists, TypeOK
  <2>7. QED
    BY <2>3, <2>5, <2>6 DEF FamilyInv
<1>6. QED
  BY <1>2, <1>3, <1>4, <1>5 DEF Command, CliStep

\* A supervisor leaves when it has no child, so nobody is left.
LEMMA LeavingFamily ==
    ASSUME TypeOK, TypeOK', FamilyInv, NEW s \in Sups, sup[s].pc \in {"leave_clear", "quit"},
           sup' = [sup EXCEPT ![s] = NoSup], UNCHANGED <<loop, wrk, cli, unnamed>>
    PROVE  FamilyInv'
<1>1. Child(s) = Nobody /\ sup[s].pc # "none"
  BY DEF FamilyInv, Family, Parents
<1>2. \A w \in Workers : ~Exists(w)
  BY <1>1, ParentIsTyped DEF FamilyInv, Family
<1>3. \A r \in Sups : sup'[r].pc = "none" /\ sup'[r].child = Nobody
  <2>1. \A r \in Sups \ {s} : sup'[r] = sup[r] /\ sup[r].pc = "none"
    BY <1>1 DEF TypeOK, FamilyInv, OneSup
  <2>2. \A r \in Sups \ {s} : sup[r].child = Nobody
    BY <2>1 DEF FamilyInv, Family, Parents, Child
  <2>3. sup'[s] = NoSup
    BY DEF TypeOK
  <2>4. QED
    BY <2>1, <2>2, <2>3 DEF NoSup
<1>4. \A w \in Workers : wrk[w].parent \notin Sups /\ ~Exists(w)'
  BY <1>2 DEF FamilyInv, Family, Exists
<1>5. OneSup' /\ NobodyYet' /\ Named'
  BY <1>2, <1>3, <1>4 DEF FamilyInv, OneSup, NobodyYet, NoneLeft, Named, TypeOK
<1>6. Family'
  BY <1>3, <1>4 DEF FamilyInv, Family, Child, Parents, Exists
<1>7. QED
  BY <1>5, <1>6 DEF FamilyInv

LEMMA SupFamily ==
    ASSUME TypeOK, TypeOK', FamilyInv, NEW s \in Sups, SupStep(s)
    PROVE  FamilyInv'
<1>1. sup[s].pc # "none" /\ cli' = cli /\ unnamed' = unnamed
  BY DEF SupStep, At, SupLoad, SupLeave, SupLeaveClear, SupAsk, SupReap, SupReaped, SupQuit,
         SupBeat, SupBeatWrite, SupAgain, SupClear, SupSpawn, SupState, SupReload, SupAdopt,
         history, orphans
<1>2. NobodyYet' /\ \A r \in Sups \ {s} : sup[r].pc = "none"
  BY <1>1, NobodyYetKept DEF FamilyInv, OneSup
\* Most steps move the supervisor between places where it has a child or has none.
<1>3. ASSUME UNCHANGED <<wrk, loop>>, sup[s].pc # "state",
             \A r \in Sups \ {s} : sup'[r] = sup[r],
             sup'[s].child = sup[s].child, sup'[s].pc # "none",
             sup'[s].pc \in Parents => Child(s) # Nobody,
             sup'[s].pc \notin Parents \cup {"top"} => Child(s) = Nobody
      PROVE  FamilyInv'
  <2>1. Named'
    BY <1>1, <1>3 DEF FamilyInv, Named, Exists
  <2>2. \A w \in Workers : wrk'[w].pc = "zombie" => wrk[w].parent # Nobody
    BY <1>3 DEF FamilyInv, Family
  <2>3. \A r \in Sups \ {s} : /\ sup'[r].pc \in Parents => Child(r) # Nobody
                              /\ sup'[r].pc \notin Parents \cup {"top"} => Child(r) = Nobody
    BY <1>3 DEF FamilyInv, Family
  <2>4. \A r \in Sups : /\ sup'[r].child = sup[r].child
                        /\ sup'[r].pc = "none" <=> sup[r].pc = "none"
                        /\ sup'[r].pc \in Parents => Child(r) # Nobody
                        /\ sup'[r].pc \notin Parents \cup {"top"} => Child(r) = Nobody
    <3> SUFFICES ASSUME NEW r \in Sups
                 PROVE  /\ sup'[r].child = sup[r].child
                        /\ sup'[r].pc = "none" <=> sup[r].pc = "none"
                        /\ sup'[r].pc \in Parents => Child(r) # Nobody
                        /\ sup'[r].pc \notin Parents \cup {"top"} => Child(r) = Nobody
      OBVIOUS
    <3>1. CASE r = s
      BY <1>1, <1>3, <3>1
    <3>2. CASE r # s
      BY <1>3, <2>3, <3>2
    <3>3. QED
      BY <3>1, <3>2
  <2>5. \A w \in Workers : /\ wrk'[w].parent = wrk[w].parent
                           /\ wrk'[w].pc = "none" <=> wrk[w].pc = "none"
    BY <1>3
  <2>6. QED
    BY <1>2, <2>1, <2>2, <2>4, <2>5, FamilyFrame
<1>4. /\ sup[s].pc \in Parents => Child(s) # Nobody
      /\ sup[s].pc \notin Parents \cup {"top"} => Child(s) = Nobody
  BY DEF FamilyInv, Family
<1>5. CASE SupLoad(s)
  <2> DEFINE pol == [policy EXCEPT !.sup = s]
             pc == CASE pol.desired # "running" /\ Child(s) = Nobody -> "leave"
                     [] pol.desired # "running" /\ Child(s) # Nobody -> "ask"
                     [] pol.desired = "running" /\ Child(s) # Nobody -> "wait"
                     [] OTHER -> "again"
  <2>1. /\ sup' = [sup EXCEPT ![s].pol = pol, ![s].pc = pc] /\ UNCHANGED <<wrk, loop>>
        /\ sup[s].pc = "top"
    BY <1>5, Zenon DEF SupLoad, At
  <2>2. IF Child(s) = Nobody THEN pc \in {"leave", "again"} ELSE pc \in {"ask", "wait"}
    BY ChildIsTyped DEF TypeOK, Policy
  <2> HIDE DEF pol, pc
  <2>3. /\ sup'[s].pc = pc /\ sup'[s].child = sup[s].child
        /\ \A r \in Sups \ {s} : sup'[r] = sup[r]
    BY <2>1 DEF TypeOK, Supervisor
  <2>4. QED
    BY <1>3, <2>1, <2>2, <2>3 DEF Parents
<1>6. CASE SupLeave(s) \/ SupClear(s) \/ SupReaped(s) \/ SupAgain(s)
  <2>1. /\ UNCHANGED <<wrk, loop>> /\ \A r \in Sups \ {s} : sup'[r] = sup[r]
        /\ sup'[s].child = sup[s].child
        /\ sup[s].pc \in {"leave", "clear", "reaped", "again"}
    BY <1>6 DEF SupLeave, SupClear, SupReaped, SupAgain, At, TypeOK, Supervisor
  <2>2. sup'[s].pc \in {"leave_clear", "spawn", "top", "quit", "again", "clear"}
    BY <1>6 DEF SupLeave, SupClear, SupReaped, SupAgain, At, TypeOK, Supervisor
  <2>3. QED
    BY <1>3, <1>4, <2>1, <2>2 DEF Parents
<1>7. CASE SupAsk(s) \/ SupBeat(s) \/ SupBeatWrite(s) \/ SupReload(s) \/ SupAdopt(s)
  <2>1. /\ UNCHANGED <<wrk, loop>> /\ \A r \in Sups \ {s} : sup'[r] = sup[r]
        /\ sup'[s].child = sup[s].child
        /\ sup[s].pc \in {"ask", "wait", "beat", "reload", "adopt"}
    BY <1>7 DEF SupAsk, SupBeat, SupBeatWrite, SupReload, SupAdopt, At, TypeOK, Supervisor
  <2>2. sup'[s].pc \in {"wait", "beat", "top", "adopt"}
    BY <1>7 DEF SupAsk, SupBeat, SupBeatWrite, SupReload, SupAdopt, At, TypeOK, Supervisor
  <2>3. QED
    BY <1>3, <1>4, <2>1, <2>2 DEF Parents
<1>8. CASE SupLeaveClear(s) \/ SupQuit(s)
  BY <1>1, <1>8, LeavingFamily DEF SupLeaveClear, SupQuit, At
<1>9. CASE SupReap(s)
  <2>1. Child(s) \in Workers /\ \A w \in Workers : Exists(w) => w = Child(s)
    BY <1>1, <1>4, <1>9, ChildIsTyped DEF SupReap, At, Parents, FamilyInv, Family
  <2>2. \A w \in Workers : wrk'[w].pc = "none"
    BY <1>9, <2>1 DEF SupReap, NoWorker, TypeOK, Exists
  <2>3. \A w \in Workers : wrk'[w].parent \notin Sups
    <3>1. wrk'[Child(s)].parent = Nobody
      BY <1>9, <2>1 DEF SupReap, NoWorker, TypeOK
    <3>2. \A w \in Workers \ {Child(s)} : wrk'[w] = wrk[w] /\ ~Exists(w)
      BY <1>9, <2>1 DEF SupReap, TypeOK
    <3>3. \A w \in Workers \ {Child(s)} : wrk[w].parent \notin Sups
      BY <3>2 DEF FamilyInv, Family
    <3>4. QED
      BY <3>1, <3>2, <3>3, AgentAssumption
  <2>4. sup'[s].pc = "reaped" /\ sup'[s].child = Nobody /\ \A r \in Sups \ {s} : sup'[r] = sup[r]
    BY <1>9 DEF SupReap, TypeOK, Supervisor
  <2>5. \A r \in Sups \ {s} : sup[r].child = Nobody
    BY <1>2 DEF FamilyInv, Family, Child, Parents
  <2>6. unnamed = {}
    BY <1>1, <2>1, AgentAssumption DEF FamilyInv, Family, Named, TypeOK
  <2>9. OneSup' /\ Named'
    BY <1>1, <1>2, <2>2, <2>4, <2>6 DEF OneSup, Named, Exists
  <2>7. Family'
    BY <1>2, <2>2, <2>3, <2>4, <2>5 DEF Family, Child, Exists, Parents
  <2>8. QED
    BY <1>2, <2>7, <2>9 DEF FamilyInv
<1>10. ASSUME NEW w \in Workers, SupSpawn(s, w) PROVE FamilyInv'
  <2>1. \A v \in Workers : ~Exists(v)
    BY <1>1, <1>4, <1>10, ParentIsTyped DEF SupSpawn, At, Parents, FamilyInv, Family
  <2>2. /\ wrk'[w].pc = "boot" /\ wrk'[w].parent = s
        /\ \A v \in Workers \ {w} : wrk'[v] = wrk[v]
    BY <1>10 DEF SupSpawn, TypeOK, NoWorker
  <2>3. /\ sup'[s].pc = "state" /\ sup'[s].child = w
        /\ \A r \in Sups \ {s} : sup'[r] = sup[r]
    BY <1>10 DEF SupSpawn, TypeOK, Supervisor
  <2>4. \A v \in Workers : wrk[v].pc = "none" /\ wrk[v].parent \notin Sups
    BY <2>1 DEF FamilyInv, Family, Exists
  <2>5. \A r \in Sups \ {s} : sup[r].child = Nobody
    BY <1>2 DEF FamilyInv, Family, Child, Parents
  <2>6. OneSup' /\ Named'
    <3>1. unnamed = {}
      BY <2>1 DEF FamilyInv, Named, TypeOK
    <3>2. QED
      BY <1>1, <1>2, <2>2, <2>3, <2>4, <3>1 DEF OneSup, Named, Exists
  <2>7. w # Nobody /\ s # Nobody
    BY AgentAssumption
  <2>8. Family'
    BY <1>2, <2>2, <2>3, <2>4, <2>5, <2>7 DEF Family, Child, Exists, Parents
  <2>9. QED
    BY <1>2, <2>6, <2>8 DEF FamilyInv
<1>11. CASE SupState(s)
  <2>1. /\ wrk' = wrk /\ loop'.pid = Child(s) /\ sup[s].pc = "state" /\ sup'[s].pc = "reload"
        /\ sup'[s].child = sup[s].child /\ \A r \in Sups \ {s} : sup'[r] = sup[r]
    BY <1>11 DEF SupState, At, TypeOK, Supervisor
  <2>2. \A w \in Workers : Exists(w) => Child(s) = w
    BY <1>1 DEF FamilyInv, Family
  <2>3. Named'
    BY <1>1, <2>1, <2>2 DEF FamilyInv, Named, Exists
  <2>4. \A w \in Workers : wrk'[w].pc = "zombie" => wrk[w].parent # Nobody
    BY <2>1 DEF FamilyInv, Family
  <2>5. \A r \in Sups : /\ sup'[r].pc \in Parents => Child(r) # Nobody
                        /\ sup'[r].pc \notin Parents \cup {"top"} => Child(r) = Nobody
    BY <1>4, <2>1 DEF FamilyInv, Family, Parents
  <2>6. \A r \in Sups : /\ sup'[r].child = sup[r].child
                        /\ sup'[r].pc = "none" <=> sup[r].pc = "none"
    BY <2>1
  <2>7. QED
    BY <1>2, <2>1, <2>3, <2>4, <2>5, <2>6, FamilyFrame
<1>12. QED
  BY <1>5, <1>6, <1>7, <1>8, <1>9, <1>10, <1>11 DEF SupStep

\* A worker that ends leaves a zombie to its supervisor, and nothing otherwise.
LEMMA EndsFamily ==
    ASSUME TypeOK, TypeOK', FamilyInv, NEW w \in Workers, Alive(w), Ends(w),
           UNCHANGED <<loop, sup, cli>>
    PROVE  FamilyInv'
<1>0. unnamed' = unnamed \ {w}
  BY DEF Ends
<1>1. Exists(w) /\ \A v \in Workers \ {w} : wrk'[v] = wrk[v] /\ wrk[v].pc = "none"
  BY DEF Alive, Exists, FamilyInv, Family, Ends, TypeOK
<1>2. NobodyYet'
  BY <1>1, NobodyYetKept
<1>3. CASE wrk[w].parent # Nobody
  <2>1. wrk'[w].pc = "zombie" /\ wrk'[w].parent = wrk[w].parent
    BY <1>3 DEF Ends, TypeOK, NoWorker
  <2>2. \A v \in Workers : /\ wrk'[v].parent = wrk[v].parent
                           /\ wrk'[v].pc = "none" <=> wrk[v].pc = "none"
                           /\ wrk'[v].pc = "zombie" => wrk[v].parent # Nobody
    BY <1>1, <1>3, <2>1 DEF Exists
  <2>3. Named'
    BY <1>0, <1>3, <2>2 DEF FamilyInv, Named, Exists, TypeOK
  <2>4. \A s \in Sups : /\ sup'[s].child = sup[s].child
                        /\ sup'[s].pc = "none" <=> sup[s].pc = "none"
                        /\ sup'[s].pc \in Parents => Child(s) # Nobody
                        /\ sup'[s].pc \notin Parents \cup {"top"} => Child(s) = Nobody
    BY DEF FamilyInv, Family
  <2>5. QED
    BY <1>2, <2>2, <2>3, <2>4, FamilyFrame
<1>4. CASE wrk[w].parent = Nobody
  <2>1. wrk'[w].pc = "none" /\ wrk'[w].parent = Nobody
    BY <1>4 DEF Ends, TypeOK, NoWorker
  <2>2. \A s \in Sups : sup[s].pc = "none"
    BY <1>1, <1>4, AgentAssumption DEF FamilyInv, Family
  <2>3. \A s \in Sups : Child(s) = Nobody
    BY <2>2 DEF FamilyInv, Family, Parents
  <2>4. \A v \in Workers : ~Exists(v)' /\ wrk'[v].parent \notin Sups
    BY <1>1, <2>1, <2>2, AgentAssumption DEF FamilyInv, Family, Exists
  <2>5. Named'
    BY <1>0, <1>1, <2>4 DEF FamilyInv, Named, Exists, TypeOK
  <2>7. Family' /\ OneSup'
    BY <2>2, <2>3, <2>4 DEF Family, OneSup, Child, Exists, Parents
  <2>6. QED
    BY <1>2, <2>5, <2>7 DEF FamilyInv
<1>5. QED
  BY <1>3, <1>4

LEMMA WorkerFamily ==
    ASSUME TypeOK, TypeOK', FamilyInv, NEW w \in Workers, WorkerStep(w) \/ Crash(w)
    PROVE  FamilyInv'
<1>1. /\ Alive(w) /\ UNCHANGED <<sup, cli>>
      /\ \/ loop' = loop /\ unnamed' = unnamed
         \/ loop'.pid = w /\ unnamed' = unnamed \ {w}
         \/ StopClear(w) \/ Crash(w)
  BY DEF WorkerStep, Boot, LoadPolicy, Announce, TickLoop, Report, StopState, StopPolicy,
         StopClear, Crash, Alive, In, history, orphans
<1>2. Exists(w) /\ \A v \in Workers \ {w} : ~Exists(v)
  BY <1>1 DEF Alive, Exists, FamilyInv, Family
<1>3. CASE StopClear(w) \/ Crash(w)
  BY <1>1, <1>3, EndsFamily DEF StopClear, Crash
<1>4. CASE ~(StopClear(w) \/ Crash(w))
  <2>1. /\ wrk'[w].pc \notin {"none", "zombie"} /\ wrk'[w].parent = wrk[w].parent
        /\ \A v \in Workers \ {w} : wrk'[v] = wrk[v]
    <3>1. ASSUME NEW pc, Goes(w, pc)
          PROVE  /\ wrk'[w].pc = pc /\ wrk'[w].parent = wrk[w].parent
                 /\ \A v \in Workers \ {w} : wrk'[v] = wrk[v]
      BY <3>1 DEF Goes, TypeOK, Worker
    <3>2. CASE LoadPolicy(w)
      BY <3>2 DEF LoadPolicy, TypeOK, Worker
    <3>3. CASE TickLoop(w)
      BY <3>1, <3>3 DEF TickLoop
    <3>4. CASE Boot(w) \/ Announce(w) \/ Report(w) \/ StopState(w) \/ StopPolicy(w)
      BY <3>1, <3>4 DEF Boot, Announce, Report, StopState, StopPolicy
    <3>5. QED
      BY <1>4, <3>2, <3>3, <3>4 DEF WorkerStep
  <2>2. \A v \in Workers : /\ wrk'[v].parent = wrk[v].parent
                           /\ wrk'[v].pc = "none" <=> wrk[v].pc = "none"
                           /\ wrk'[v].pc = "zombie" => wrk[v].parent # Nobody
    BY <1>2, <2>1 DEF Exists, FamilyInv, Family
  <2>3. Named'
    BY <1>1, <1>2, <1>4, <2>2 DEF FamilyInv, Named, Exists, TypeOK
  <2>4. \A s \in Sups : /\ sup'[s].child = sup[s].child
                        /\ sup'[s].pc = "none" <=> sup[s].pc = "none"
                        /\ sup'[s].pc \in Parents => Child(s) # Nobody
                        /\ sup'[s].pc \notin Parents \cup {"top"} => Child(s) = Nobody
    BY <1>1 DEF FamilyInv, Family
  <2>5. NobodyYet'
    BY <1>1, <1>2, NobodyYetKept
  <2>6. QED
    BY <2>2, <2>3, <2>4, <2>5, FamilyFrame
<1>5. QED
  BY <1>3, <1>4

LEMMA CrashSupFamily ==
    ASSUME TypeOK, TypeOK', FamilyInv, NEW s \in Sups, CrashSup(s)
    PROVE  FamilyInv'
<1>1. /\ sup[s].pc # "none" /\ UNCHANGED <<loop, cli>>
      /\ sup'[s].pc = "none" /\ sup'[s].child = Nobody
      /\ \A r \in Sups \ {s} : sup'[r] = sup[r]
  BY DEF CrashSup, TypeOK, NoSup
<1>2. \A r \in Sups \ {s} : sup[r].pc = "none"
  BY <1>1 DEF FamilyInv, OneSup
<1>3. \A r \in Sups \ {s} : sup[r].child = Nobody
  BY <1>2 DEF FamilyInv, Family, Child, Parents
<1>4. \A r \in Sups : sup'[r].pc = "none" /\ sup'[r].child = Nobody
  BY <1>1, <1>2, <1>3
<1>5. \A w \in Workers : wrk[w].parent \in {s, Nobody}
  BY <1>2, ParentIsTyped DEF FamilyInv, Family
<1>6. ASSUME NEW w \in Workers
      PROVE  /\ wrk'[w].parent = Nobody
             /\ Exists(w)' => Exists(w)
             /\ wrk'[w].pc # "zombie"
  <2>1. CASE wrk[w].parent # s
    <3>1. wrk'[w] = wrk[w] /\ wrk[w].parent = Nobody
      BY <1>5, <2>1 DEF CrashSup
    <3>2. QED
      BY <3>1 DEF Exists, FamilyInv, Family
  <2>2. CASE wrk[w].parent = s /\ In(w, "zombie")
    <3>1. wrk'[w] = NoWorker
      BY <2>2 DEF CrashSup
    <3>2. QED
      BY <3>1 DEF NoWorker, Exists
  <2>3. CASE wrk[w].parent = s /\ ~In(w, "zombie")
    <3>1. wrk'[w] = [wrk[w] EXCEPT !.parent = Nobody]
      BY <2>3 DEF CrashSup
    <3>2. QED
      BY <2>3, <3>1 DEF Exists, In, TypeOK, Worker
  <2>4. QED
    BY <2>1, <2>2, <2>3
<1>7. OneSup' /\ NobodyYet'
  BY <1>1, <1>4, NobodyYetKept DEF OneSup
<1>8. Named'
  <2>1. ASSUME NEW w \in Workers, Exists(w)' PROVE loop.pid = w \/ w \in unnamed'
    <3>1. Exists(w) /\ Child(s) = w /\ wrk[w].parent = s
      BY <1>1, <1>6, <2>1 DEF FamilyInv, Family
    <3>2. CASE sup[s].pc = "state"
      <4>1. ~In(w, "zombie")
        BY <2>1, <3>1 DEF CrashSup, Exists, NoWorker
      <4>2. QED
        BY <3>1, <3>2, <4>1 DEF CrashSup, At, Alive, In, Exists
    <3>3. CASE sup[s].pc # "state"
      <4>1. loop.pid = w \/ w \in unnamed
        BY <1>2, <3>1, <3>3 DEF FamilyInv, Named
      <4>2. QED
        BY <4>1 DEF CrashSup
    <3>4. QED
      BY <3>2, <3>3
  <2>2. ASSUME NEW w \in unnamed' PROVE Exists(w)' /\ wrk'[w].parent = Nobody
    <3>1. w \in Workers
      BY <2>2 DEF TypeOK
    <3>2. Exists(w) /\ ~In(w, "zombie")
      <4>1. CASE w \in unnamed
        BY <3>1, <4>1 DEF FamilyInv, Family, Named, In
      <4>2. CASE w \notin unnamed
        BY <2>2, <4>2 DEF CrashSup, Alive, Exists, In
      <4>3. QED
        BY <4>1, <4>2
    <3>3. wrk'[w].pc = wrk[w].pc
      BY <3>1, <3>2 DEF CrashSup, TypeOK, Worker
    <3>4. QED
      BY <1>6, <3>1, <3>2, <3>3 DEF Exists
  <2>3. QED
    BY <1>1, <2>1, <2>2 DEF Named
<1>9. Family'
  BY <1>4, <1>6, AgentAssumption DEF FamilyInv, Family, Child, Parents
<1>10. QED
  BY <1>7, <1>8, <1>9 DEF FamilyInv

LEMMA TickFamily ==
    ASSUME TypeOK, FamilyInv, Tick
    PROVE  FamilyInv'
<1>1. \A s \in Sups : sup'[s].pc = sup[s].pc /\ sup'[s].child = sup[s].child
  BY DEF Tick, TypeOK, Supervisor
<1>2. \A w \in Workers : wrk'[w].pc = wrk[w].pc /\ wrk'[w].parent = wrk[w].parent
  BY DEF Tick, TypeOK, Worker
<1>3. cli'.pc = cli.pc /\ loop' = loop /\ unnamed' = unnamed
  BY DEF Tick, TypeOK, CommandLine, orphans
<1>4. NobodyYet' /\ Named'
  BY <1>1, <1>2, <1>3 DEF FamilyInv, NobodyYet, NoneLeft, Named, Exists, TypeOK
<1>5. \A s \in Sups : /\ sup'[s].pc \in Parents => Child(s) # Nobody
                      /\ sup'[s].pc \notin Parents \cup {"top"} => Child(s) = Nobody
  BY <1>1 DEF FamilyInv, Family
<1>6. \A w \in Workers : wrk'[w].pc = "zombie" => wrk[w].parent # Nobody
  BY <1>2 DEF FamilyInv, Family
<1>7. QED
  BY <1>1, <1>2, <1>4, <1>5, <1>6, FamilyFrame

\* Once overlooked, an orphan stays so in the books.
LEMMA OverlookedForGood ==
    ASSUME [Next]_vars, ~overlooked'
    PROVE  overlooked \in BOOLEAN => ~overlooked
BY DEF vars, Next, Command, CliStep, SupStep, WorkerStep, Start, Reconcile, Stop, StartLoad,
   StartWrite, StartFork, StopWrite, StopFile, SupLoad, SupLeave, SupLeaveClear, SupAsk,
   SupReap, SupReaped, SupQuit, SupBeat, SupBeatWrite, SupAgain, SupClear, SupSpawn, SupState,
   SupReload, SupAdopt, Boot, LoadPolicy, Announce, TickLoop, Report, StopState, StopPolicy,
   StopClear, Crash, CrashSup, Tick, history, orphans

\* As long as no command started the agent beside a worker that no file named, a patient
\* operator's agent has one supervisor and one worker at most, its child or an orphan, and
\* the orphan is named by the loop state unless its supervisor died right after the fork
\* (run_agent_supervisor_loop, spawn_run_agent_worker, handle_run_agent).
THEOREM FamilyCorrect == Patient => (Spec => []FamilyStands)
<1> SUFFICES ASSUME Patient PROVE Spec => []FamilyStands
  OBVIOUS
<1>1. Spec => []TypeOK
  BY TypeCorrect
<1>2. Init => FamilyStands
  BY AgentAssumption
  DEF Init, FamilyStands, FamilyInv, OneSup, NobodyYet, Family, Named, NoSup, NoWorker,
      NoCommand, Child, Exists, Starting, Parents
<1>3. TypeOK /\ TypeOK' /\ FamilyStands /\ [Next]_vars => FamilyStands'
  <2> SUFFICES ASSUME TypeOK, TypeOK', FamilyStands, [Next]_vars, ~overlooked'
               PROVE  FamilyInv'
    BY DEF FamilyStands
  <2>0. FamilyInv
    BY OverlookedForGood DEF TypeOK, FamilyStands
  <2>1. CASE UNCHANGED vars
    BY <2>0, <2>1 DEF vars, history, orphans, FamilyInv, OneSup, NobodyYet, NoneLeft, Family,
       Named, Child, Exists
  <2>2. QED
    BY <2>0, <2>1, CommandFamily, SupFamily, WorkerFamily, CrashSupFamily, TickFamily DEF Next
<1>4. QED
  BY <1>1, <1>2, <1>3, PTL DEF Spec

\* Two workers run for one agent in one way only: a supervisor died between the fork and
\* its write of the loop state, and a command came before the orphan had written it
\* (run_agent_supervisor_loop, spawn_run_agent_worker).
THEOREM OneWorkerHolds == Patient => (Spec => []OneWorker)
<1> SUFFICES ASSUME Patient PROVE Spec => []OneWorker
  OBVIOUS
<1>1. FamilyStands => OneWorker
  <2> SUFFICES ASSUME FamilyInv PROVE Cardinality({w \in Workers : Alive(w)}) <= 1
    BY DEF FamilyStands, OneWorker
  <2> DEFINE A == {w \in Workers : Alive(w)}
  <2>1. \A w, v \in A : w = v
    BY DEF FamilyInv, Family, Exists, Alive
  <2>2. A = {} \/ \E w : A = {w}
    BY <2>1
  <2>3. ASSUME NEW B, B = {} \/ \E w : B = {w}
        PROVE  Cardinality(B) <= 1
    <3>1. CASE B = {}
      BY <3>1, FS_EmptySet
    <3>2. ASSUME NEW w, B = {w} PROVE Cardinality(B) = 1
      BY <3>2, FS_Singleton
    <3>3. QED
      BY <2>3, <3>1, <3>2
  <2>4. QED
    BY <2>2, <2>3
<1>2. QED
  BY <1>1, FamilyCorrect, PTL

\* A worker at work is named by the loop state or the policy, or its supervisor is about
\* to write that, or died before it could: but for the last, run-agent and reconcile see
\* it, orphan or not (handle_run_agent, spawn_run_agent_worker).
THEOREM WorkerIsSeenHolds == Patient => (Spec => []WorkerIsSeen)
<1> SUFFICES ASSUME Patient PROVE Spec => []WorkerIsSeen
  OBVIOUS
<1>1. FamilyStands => WorkerIsSeen
  BY DEF FamilyStands, FamilyInv, Named, WorkerIsSeen, Exists
<1>2. QED
  BY <1>1, FamilyCorrect, PTL

-----------------------------------------------------------------------------
(* The backoff.                                                            *)

\* Whose backoff runs lives, and has no child.
LEMMA WaitingIsAlone ==
    ASSUME FamilyInv, BackoffInv, NEW s \in Sups, backoff[s] > 0
    PROVE  /\ sup[s].pc \in {"reaped", "top", "again"} /\ Child(s) = Nobody
           /\ \A r \in Sups \ {s} : sup[r].pc = "none"
           /\ \A w \in Workers : ~Exists(w)
<1>1. sup[s].pc \in {"reaped", "top", "again"} /\ Child(s) = Nobody
  BY DEF BackoffInv
<1>2. QED
  BY <1>1, AgentAssumption DEF FamilyInv, OneSup, Family

LEMMA CommandBackoff ==
    ASSUME TypeOK, FamilyInv, BackoffInv, Command \/ CliStep
    PROVE  BackoffInv'
<1>1. CASE Command \/ StartLoad \/ StopFile
  <2>1. UNCHANGED <<policy, sup, backoff>>
    BY <1>1 DEF Command, Start, Reconcile, Stop, StartLoad, StopFile, history
  <2>2. QED
    BY <2>1 DEF BackoffInv, Child, WaitsFor
<1>2. CASE StartWrite \/ StopWrite
  <2>1. \A s \in Sups : ~(backoff'[s] > 0)
    BY <1>2 DEF StartWrite, StopWrite
  <2>2. QED
    BY <2>1 DEF BackoffInv
<1>3. ASSUME NEW s \in Sups, StartFork(s) PROVE BackoffInv'
  <2>1. sup[s].pc = "none" /\ UNCHANGED <<policy, backoff>>
    BY <1>3 DEF StartFork
  <2>2. ~(backoff[s] > 0)
    BY <2>1 DEF BackoffInv
  <2>3. \A r \in Sups \ {s} : sup'[r] = sup[r]
    BY <1>3 DEF StartFork, TypeOK
  <2>4. QED
    BY <2>1, <2>2, <2>3 DEF BackoffInv, Child, WaitsFor
<1>4. QED
  BY <1>1, <1>2, <1>3 DEF CliStep

LEMMA SupBackoff ==
    ASSUME TypeOK, TypeOK', FamilyInv, BackoffInv, NEW s \in Sups, SupStep(s)
    PROVE  BackoffInv'
<1>1. sup[s].pc # "none" /\ \A r \in Sups \ {s} : backoff'[r] = backoff[r]
  BY DEF SupStep, At, SupLoad, SupLeave, SupLeaveClear, SupAsk, SupReap, SupReaped, SupQuit,
         SupBeat, SupBeatWrite, SupAgain, SupClear, SupSpawn, SupState, SupReload, SupAdopt,
         history, TypeOK
<1>2. \A r \in Sups \ {s} : ~(backoff'[r] > 0)
  <2>1. \A r \in Sups \ {s} : sup[r].pc = "none"
    BY <1>1 DEF FamilyInv, OneSup
  <2>2. QED
    BY <1>1, <2>1 DEF BackoffInv
<1>3. SUFFICES ASSUME backoff'[s] > 0
               PROVE  /\ Child(s)' = Nobody
                      /\ \/ /\ sup'[s].pc = "reaped" /\ sup'[s].pol.restart = "always"
                            /\ WaitsFor(sup'[s].pol, backoff'[s])
                         \/ sup'[s].pc \in {"top", "again"} /\ WaitsFor(policy', backoff'[s])
  BY <1>2 DEF BackoffInv
<1>4. CASE SupReap(s)
  <2>1. backoff'[s] = IF Unexpected(s) /\ sup[s].pol.restart = "always" THEN Backoff ELSE 0
    BY <1>4 DEF SupReap, TypeOK
  <2>2. Unexpected(s) /\ sup[s].pol.restart = "always" /\ backoff'[s] = Backoff
    BY <1>3, <2>1
  <2>3. /\ sup'[s].pc = "reaped" /\ sup'[s].child = Nobody
        /\ sup'[s].pol = AfterExit(sup[s].pol, Unexpected(s))
    BY <1>4 DEF SupReap, TypeOK, Supervisor
  <2>4. sup[s].pol \in Policy
    BY DEF TypeOK, Supervisor
  <2>5. /\ sup'[s].pol.restart = "always" /\ sup'[s].pol.desired = "running"
        /\ sup'[s].pol.next = Backoff
    BY <2>2, <2>3, <2>4 DEF AfterExit, Policy, Unexpected
  <2>6. Backoff >= Backoff
    BY AgentAssumption
  <2>7. QED
    BY <2>2, <2>3, <2>5, <2>6 DEF WaitsFor, Child
<1>5. CASE ~SupReap(s)
  <2>1. backoff'[s] = backoff[s]
    BY <1>5 DEF SupStep, SupLoad, SupLeave, SupLeaveClear, SupAsk, SupReaped, SupQuit,
         SupBeat, SupBeatWrite, SupAgain, SupClear, SupSpawn, SupState, SupReload, SupAdopt,
         history
  <2>2. /\ sup[s].pc \in {"reaped", "top", "again"} /\ Child(s) = Nobody
        /\ \/ /\ sup[s].pc = "reaped" /\ sup[s].pol.restart = "always"
              /\ WaitsFor(sup[s].pol, backoff[s])
           \/ sup[s].pc \in {"top", "again"} /\ WaitsFor(policy, backoff[s])
    BY <1>3, <2>1 DEF BackoffInv
  <2>3. CASE SupLoad(s)
    <3>1. policy.desired = "running" /\ [policy EXCEPT !.sup = s].desired = "running"
      BY <2>2, <2>3 DEF SupLoad, At, WaitsFor, TypeOK, Policy
    <3>2. /\ sup' = [sup EXCEPT ![s].pol = [policy EXCEPT !.sup = s], ![s].pc = "again"]
          /\ policy' = policy
      BY <2>2, <2>3, <3>1 DEF SupLoad
    <3>3. sup'[s].pc = "again" /\ sup'[s].child = sup[s].child
      BY <3>2 DEF TypeOK, Supervisor
    <3>4. QED
      BY <2>1, <2>2, <2>3, <3>2, <3>3 DEF SupLoad, At, Child
  <2>4. CASE SupReaped(s)
    <3>1. sup[s].pol.restart = "always" /\ sup[s].pol.desired = "running"
      BY <2>2, <2>4 DEF SupReaped, At, WaitsFor
    <3>2. sup' = [sup EXCEPT ![s].pc = "again"] /\ policy' = sup[s].pol
      BY <2>4, <3>1 DEF SupReaped
    <3>3. sup'[s].pc = "again" /\ sup'[s].child = sup[s].child
      BY <3>2 DEF TypeOK, Supervisor
    <3>4. QED
      BY <2>1, <2>2, <2>4, <3>2, <3>3 DEF SupReaped, At, Child
  <2>5. CASE SupAgain(s)
    <3>1. policy' = policy /\ sup'[s].pc \in {"clear", "top"} /\ sup'[s].child = sup[s].child
          /\ (sup'[s].pc = "clear" => policy.next = 0) /\ sup[s].pc = "again"
      BY <2>5 DEF SupAgain, At, TypeOK, Supervisor
    <3>2. policy.next >= backoff[s] /\ backoff[s] > 0 /\ backoff[s] \in Nat
      BY <1>3, <2>1, <2>2, <3>1 DEF WaitsFor, TypeOK
    <3>3. policy.next # 0
      BY <3>2
    <3>4. QED
      BY <2>1, <2>2, <3>1, <3>3 DEF Child
  <2>6. CASE ~(SupLoad(s) \/ SupReaped(s) \/ SupAgain(s))
    BY <1>5, <2>2, <2>6 DEF SupStep, At, SupLeave, SupLeaveClear, SupAsk, SupQuit,
       SupBeat, SupBeatWrite, SupClear, SupSpawn, SupState, SupReload, SupAdopt
  <2>7. QED
    BY <2>3, <2>4, <2>5, <2>6
<1>6. QED
  BY <1>4, <1>5

LEMMA WorkerBackoff ==
    ASSUME FamilyInv, BackoffInv, NEW w \in Workers, WorkerStep(w) \/ Crash(w)
    PROVE  BackoffInv'
<1>1. Exists(w) /\ backoff' = backoff
  BY DEF WorkerStep, Boot, LoadPolicy, Announce, TickLoop, Report, StopState, StopPolicy,
         StopClear, Crash, Alive, Exists, In, history
<1>2. \A s \in Sups : ~(backoff[s] > 0)
  BY <1>1, WaitingIsAlone
<1>3. QED
  BY <1>1, <1>2 DEF BackoffInv

LEMMA CrashSupBackoff ==
    ASSUME TypeOK, BackoffInv, NEW s \in Sups, CrashSup(s)
    PROVE  BackoffInv'
<1>1. /\ ~(backoff'[s] > 0) /\ policy' = policy
      /\ \A r \in Sups \ {s} : backoff'[r] = backoff[r] /\ sup'[r] = sup[r]
  BY DEF CrashSup, TypeOK
<1>2. QED
  BY <1>1 DEF BackoffInv, Child, WaitsFor

\* Time takes as much from every copy as from the backoff.
LEMMA CountDownKeepsOrder ==
    ASSUME NEW n \in Nat, NEW m \in Nat, n >= m
    PROVE  CountDown(n) >= CountDown(m) /\ (CountDown(m) > 0 => m > 0)
BY DEF CountDown

LEMMA TickBackoff ==
    ASSUME TypeOK, BackoffInv, Tick
    PROVE  BackoffInv'
<1> SUFFICES ASSUME NEW s \in Sups, backoff'[s] > 0
             PROVE  /\ Child(s)' = Nobody
                    /\ \/ /\ sup'[s].pc = "reaped" /\ sup'[s].pol.restart = "always"
                          /\ WaitsFor(sup'[s].pol, backoff'[s])
                       \/ sup'[s].pc \in {"top", "again"} /\ WaitsFor(policy', backoff'[s])
  BY DEF BackoffInv
<1>1. /\ sup'[s].pc = sup[s].pc /\ sup'[s].child = sup[s].child
      /\ sup'[s].pol.restart = sup[s].pol.restart /\ sup'[s].pol.desired = sup[s].pol.desired
      /\ sup'[s].pol.next = CountDown(sup[s].pol.next)
  BY DEF Tick, TypeOK, Supervisor, Policy
<1>2. /\ policy'.desired = policy.desired /\ policy'.next = CountDown(policy.next)
      /\ backoff'[s] = CountDown(backoff[s])
  BY DEF Tick, TypeOK, Policy
<1>3. backoff[s] \in Nat /\ policy.next \in Nat /\ sup[s].pol.next \in Nat
  BY AgentAssumption DEF TypeOK, Supervisor, Policy
<1>4. backoff[s] > 0
  BY <1>2, <1>3 DEF CountDown
<1>5. QED
  BY <1>1, <1>2, <1>3, <1>4, CountDownKeepsOrder DEF BackoffInv, WaitsFor, Child

\* As long as a backoff runs and no orphan was overlooked, the policy that its supervisor
\* will look at says to wait at least as long (run_agent_supervisor_loop).
THEOREM BackoffCorrect == Patient => (Spec => []BackoffStands)
<1> SUFFICES ASSUME Patient PROVE Spec => []BackoffStands
  OBVIOUS
<1>1. Spec => []TypeOK
  BY TypeCorrect
<1>2. Spec => []FamilyStands
  BY FamilyCorrect
<1>3. Init => BackoffStands
  BY DEF Init, BackoffStands, BackoffInv
<1>4. /\ TypeOK /\ TypeOK' /\ FamilyStands
      /\ BackoffStands /\ [Next]_vars
      => BackoffStands'
  <2> SUFFICES ASSUME TypeOK, TypeOK', FamilyStands, BackoffStands, [Next]_vars, ~overlooked'
               PROVE  BackoffInv'
    BY DEF BackoffStands
  <2>0. FamilyInv /\ BackoffInv
    BY OverlookedForGood DEF TypeOK, FamilyStands, BackoffStands
  <2>1. CASE UNCHANGED vars
    BY <2>0, <2>1 DEF vars, history, BackoffInv, Child, WaitsFor
  <2>2. QED
    BY <2>0, <2>1, CommandBackoff, SupBackoff, WorkerBackoff, CrashSupBackoff, TickBackoff DEF Next
<1>5. QED
  BY <1>1, <1>2, <1>3, <1>4, PTL DEF Spec

\* A supervisor whose worker crashed under always starts no other before the backoff has
\* passed, unless a command was given in between or an orphan was overlooked
\* (run_agent_supervisor_loop).
THEOREM BackoffHonouredHolds == Patient => (Spec => BackoffHonoured)
<1> SUFFICES ASSUME Patient PROVE Spec => BackoffHonoured
  OBVIOUS
<1> DEFINE Honours == \A s \in Sups :
             ~overlooked /\ At(s, "again") /\ sup'[s].pc = "clear" => backoff[s] = 0
<1>1. Spec => []TypeOK
  BY TypeCorrect
<1>2. Spec => []BackoffStands
  BY BackoffCorrect
<1>3. TypeOK /\ BackoffStands /\ [Next]_vars => [Honours]_vars
  <2> SUFFICES ASSUME TypeOK, BackoffInv, [Next]_vars, ~UNCHANGED vars,
                      NEW s \in Sups, At(s, "again"), sup'[s].pc = "clear"
               PROVE  backoff[s] = 0
    BY DEF BackoffStands
  <2>1. sup[s].pc = "again" /\ sup[s] \in Supervisor /\ sup' # sup
    BY DEF At, TypeOK
  <2>2. ~Command /\ \A w \in Workers : ~WorkerStep(w) /\ ~Crash(w)
    BY <2>1 DEF Command, Start, Reconcile, Stop, WorkerStep, Boot, LoadPolicy, Announce,
                TickLoop, Report, StopState, StopPolicy, StopClear, Crash
  <2>3. ~CliStep
    <3>1. ASSUME NEW r \in Sups, StartFork(r) PROVE FALSE
      <4>1. sup'[s] = sup[s]
        BY <2>1, <3>1 DEF StartFork, TypeOK
      <4>2. QED
        BY <2>1, <4>1
    <3>2. QED
      BY <2>1, <3>1 DEF CliStep, StartLoad, StartWrite, StopWrite, StopFile
  <2>4. ~Tick
    BY <2>1 DEF Tick, Supervisor
  <2>5. \A r \in Sups : ~CrashSup(r)
    BY <2>1 DEF CrashSup, NoSup, TypeOK
  <2>6. ASSUME NEW r \in Sups, SupStep(r) PROVE r = s /\ SupAgain(s)
    <3>1. CASE r # s
      <4>1. \E new : sup' = [sup EXCEPT ![r] = new]
        BY <2>6 DEF SupStep, SupLoad, SupLeave, SupLeaveClear, SupAsk, SupReap, SupReaped,
           SupQuit, SupBeat, SupBeatWrite, SupAgain, SupClear, SupSpawn, SupState, SupReload,
           SupAdopt
      <4>2. sup'[s] = sup[s]
        BY <3>1, <4>1 DEF TypeOK
      <4>3. QED
        BY <2>1, <4>2
    <3>2. CASE r = s
      BY <2>1, <2>6, <3>2 DEF SupStep, At, SupLoad, SupLeave, SupLeaveClear, SupAsk, SupReap,
         SupReaped, SupQuit, SupBeat, SupBeatWrite, SupClear, SupSpawn, SupState, SupReload,
         SupAdopt
    <3>3. QED
      BY <3>1, <3>2
  <2>7. SupAgain(s)
    BY <2>2, <2>3, <2>4, <2>5, <2>6 DEF Next, vars
  <2>8. policy.next = 0
    BY <2>7 DEF SupAgain, TypeOK, Supervisor
  <2>9. backoff[s] \in Nat /\ (backoff[s] > 0 => policy.next >= backoff[s])
    BY <2>1 DEF BackoffInv, WaitsFor, TypeOK
  <2>10. QED
    BY <2>8, <2>9
<1>4. QED
  BY <1>1, <1>2, <1>3, PTL DEF Spec, BackoffHonoured

=============================================================================
