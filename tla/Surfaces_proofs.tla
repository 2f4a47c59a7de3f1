---------------------------- MODULE Surfaces_proofs ----------------------------
(***************************************************************************)
(* What is proved of the operator's surfaces.  A step of the whole is a    *)
(* step of the part at work, so that each part has an inductive invariant  *)
(* of its own.  Capabilities: its commands are sequences of writes, and    *)
(* the invariant says of every command at work what it has found and done  *)
(* before the writes it has left.                                          *)
(* Providers: a login and its file, a sync and the failures it may not     *)
(* forget, an alias and its audit line are writes apart; the invariant     *)
(* ties each to what the command between them has already done.            *)
(* Shadow runs: the queue, a swarm and a settlement write the file of the  *)
(* last execution beside a run, so the invariant says of each command what *)
(* it has read and written itself, and that its number is its own.         *)
(* Gates: an answer to a hook becomes a line, an artifact and a file in    *)
(* turn; the invariant says which of them stand for what was heard so far. *)
(* Parity: an execution writes its chain of files one by one, and each     *)
(* file says of which execution it is and what was written before it.      *)
(* Supervisor loops: loops beside each other write back a log they read    *)
(* earlier, so that the log and its copies are bounded by what was told.   *)
(***************************************************************************)
EXTENDS Surfaces, Sequences, FiniteSetTheorems, SequenceTheorems, TLAPS

-----------------------------------------------------------------------------
(* What a step of the whole does to one part.                              *)

\* A step of the whole is a step of the part at work, or leaves its state alone.
LEMMA Steps ==
    ASSUME [Next]_vars
    PROVE  /\ part' = part
           /\ part = "channel" => Channel!Next \/ UNCHANGED <<channel, command, clock, ops, crashes, torn>>
           /\ part = "capability" => Capability!Next \/ UNCHANGED <<capability, command, ops, crashes, torn>>
           /\ part = "shadow" => Shadow!Next \/ UNCHANGED <<shadow, command, ops, crashes>>
           /\ part = "account" => Provider!Next \/ UNCHANGED <<account, command, ops, crashes, torn>>
           /\ part = "loops" => Looped!Next \/ UNCHANGED <<looping, command, crashes>>
           /\ part = "session" => Session!Next \/ UNCHANGED <<session, command, ops, crashes, torn>>
           /\ part = "gates" => Gated!Next \/ UNCHANGED <<gating, command, clock, ops, crashes, torn>>
           /\ part = "parity" => Told!Next \/ UNCHANGED <<telling, command, ops, crashes>>
<1>1. CASE UNCHANGED vars
  BY <1>1 DEF vars
<1>2. CASE Next
  BY <1>2 DEF Next, Rest
<1> QED BY <1>1, <1>2

-----------------------------------------------------------------------------
(* The supervisor's loops.                                                 *)

\* The places of a loop, by its kind, and those at which a daemon is reported running.
Between == {"check", "pass", "read", "append", "status", "state", "final"}
LoopPlaces(kind) ==
    CASE kind = "none"   -> {"off"}
      [] kind = "daemon" -> {"boot", "first", "clear", "ended", "dead"} \cup Between
      [] kind = "watch"  -> {"pass", "read", "append", "status", "ended", "dead"}
      [] kind = "drain"  -> {"initial", "count", "pass", "left", "ended", "dead"}

LoopTypes ==
    /\ pending \in Nat /\ finished \in Nat /\ pending + finished <= Runs["loops"]
    /\ heartbeats \in Seq(Looped!Line)
    /\ status \in Looped!Report \cup {None} /\ daemon \in Looped!Statement \cup {None}
    /\ stop \in BOOLEAN /\ command \in [Procs -> Looped!Loop]
    /\ did \in [Procs -> Nat] /\ late \in [Procs -> Nat]
    /\ mixed \subseteq Procs /\ emptied \subseteq Procs /\ cut \subseteq Procs

\* Where a process is, what it has counted: everything it did, except that a drain counts
\* what is left and a process that is over nothing.
PlaceInv == \A p \in Procs : LET c == command[p] IN
    /\ c.pc \in LoopPlaces(c.kind)
    /\ c.pc \in {"check", "pass", "left"} => c.done < MaxPasses
    /\ c.pc \notin {"read", "append"} => c.run = 0
    /\ c.pc \in {"off", "boot", "first"} => c.done = 0 /\ did[p] = 0 /\ late[p] = 0
    /\ c.kind # "drain" /\ c.pc \notin {"ended", "dead"} => c.total = did[p]
    /\ c.kind = "drain" \/ c.pc \in {"ended", "dead"} => c.total = 0

\* A process that is not mixed is at work alone.
SoloInv == \A p, q \in Procs :
    Looped!Active(p) /\ Looped!Active(q) /\ p \notin mixed => p = q

\* The log and every copy of it tell of what the passes of a process did, less the
\* pass whose line is still to come.
TellInv == \A p \in Procs :
    /\ Looped!ToldOf(heartbeats, p) + command[p].run <= did[p]
    /\ \A q \in Procs : Looped!ToldOf(command[q].seen, p) + command[p].run <= did[p]

\* While no two ran beside each other the log lacks no line but that of the pass whose
\* process is about to write it, neither for the processes nor for the files, except of
\* processes from before a write that broke off.
Backed(lines, who, done, total) ==
    done <= Cardinality(Looped!LinesOf(lines, who)) /\ total <= Looped!ToldOf(lines, who)
Owed(c) == IF c.pc \in {"read", "append"} THEN 1 ELSE 0

ExactInv == mixed = {} =>
    /\ \A p \in Procs : LET c == command[p] IN
         /\ c.pc = "append" => c.seen = heartbeats
         /\ c.kind # "drain" /\ p \notin cut =>
              Backed(heartbeats, p, c.done - Owed(c), c.total - c.run)
    /\ status # None /\ status.who \notin cut =>
         Backed(heartbeats, status.who, status.done, status.total)
    /\ daemon # None /\ daemon.who \notin cut =>
         Backed(heartbeats, daemon.who, daemon.done, daemon.total)

\* The status file names a process that has started.
StatusInv == status # None => command[status.who].pc # "off"

\* What the state file says of the daemon it names, and that it names the one at work.
StateInv ==
    /\ daemon # None => LET c == command[daemon.who] IN
         /\ c.kind = "daemon" /\ c.pc \notin {"boot", "first"}
         /\ c.pc \in {"clear", "ended"} => ~daemon.running /\ daemon.total = did[daemon.who]
    /\ \A p \in Procs : command[p].kind = "daemon" =>
         /\ command[p].pc \in Between \cup {"clear", "ended"} => daemon # None
         /\ p \notin mixed /\ command[p].pc \in Between => daemon.who = p /\ daemon.running

\* A daemon alone that has begun a pass after the request meets the request next.
LateInv == \A p \in Procs \ mixed : command[p].kind = "daemon" =>
    /\ late[p] <= 1
    /\ late[p] = 1 /\ Looped!Active(p) => stop /\ command[p].pc \notin {"boot", "first", "pass"}

\* A process has met the queue empty if it is, or if the drain it runs has counted nothing.
EmptyInv == \A p \in Procs :
    /\ Looped!Active(p) /\ pending = 0 => p \in emptied
    /\ command[p].kind = "drain" /\ command[p].pc # "initial" /\ command[p].left = 0 =>
         p \in emptied \/ command[p].pc = "dead"

LoopsInv ==
    /\ LoopTypes /\ PlaceInv /\ SoloInv /\ TellInv /\ ExactInv
    /\ StatusInv /\ StateInv /\ LateInv /\ EmptyInv

\* Counting is the same in the part and here.
LEMMA LoopsCount == ASSUME NEW S PROVE Looped!Cardinality(S) = Cardinality(S)
  BY DEF Looped!Cardinality, Cardinality

\* What a line adds to a log: itself, and the records it tells of, if it is the process's.
LEMMA ToldAppend ==
    ASSUME NEW lines \in Seq(Looped!Line), NEW l \in Looped!Line, NEW p \in Procs,
           Looped!LoopsAssumption
    PROVE  /\ Cardinality(Looped!LinesOf(lines, p)) \in Nat /\ Looped!ToldOf(lines, p) \in Nat
           /\ Cardinality(Looped!LinesOf(Append(lines, l), p)) =
                Cardinality(Looped!LinesOf(lines, p)) + (IF l.who = p THEN 1 ELSE 0)
           /\ Looped!ToldOf(Append(lines, l), p) =
                Looped!ToldOf(lines, p) + (IF l.who = p THEN l.did ELSE 0)
<1> DEFINE n == Len(lines) + 1
           rest(s) == UNION {{i} \X (1 .. lines[i].did) : i \in s}
           new == {n} \X (1 .. l.did)
           old == Looped!LinesOf(lines, p)
<1>1. /\ Len(lines) \in Nat /\ DOMAIN lines = 1 .. Len(lines) /\ old \subseteq 1 .. Len(lines)
      /\ \A i \in 1 .. Len(lines) : lines[i] \in Looped!Line
      /\ DOMAIN Append(lines, l) = 1 .. n
      /\ \A i \in 1 .. n : Append(lines, l)[i] = IF i = n THEN l ELSE lines[i]
  BY DEF Looped!LinesOf
<1>2. l.did \in Nat /\ \A i \in old : lines[i].did \in Nat
  BY <1>1 DEF Looped!LoopsAssumption, Looped!Line
<1>3. IsFiniteSet(old) /\ IsFiniteSet(rest(old)) /\ IsFiniteSet(new)
  <2>1. MaxJobs \in Nat /\ l.did \in 0 .. MaxJobs /\ \A i \in old : lines[i].did \in 0 .. MaxJobs
    BY <1>1 DEF Looped!LoopsAssumption, Looped!Line
  <2>2. rest(old) \subseteq (1 .. Len(lines)) \X (1 .. MaxJobs)
    <3>1. \A i \in old : {i} \X (1 .. lines[i].did) \subseteq (1 .. Len(lines)) \X (1 .. MaxJobs)
      BY <1>1, <2>1
    <3> QED BY <3>1, Zenon
  <2>3. new \subseteq (1 .. n) \X (1 .. MaxJobs)
    BY <1>1, <2>1
  <2>4. \A k \in Nat : IsFiniteSet(1 .. k)
    <3>1. 1 \in Int /\ \A k \in Nat : k \in Int
      OBVIOUS
    <3> QED BY <3>1, FS_Interval, Zenon
  <2>5. Len(lines) \in Nat /\ n \in Nat
    BY <1>1
  <2>6. \A k \in Nat : IsFiniteSet((1 .. k) \X (1 .. MaxJobs))
    BY <2>1, <2>4, FS_Product, Zenon
  <2> QED BY <1>1, <2>2, <2>3, <2>4, <2>5, <2>6, FS_Subset, Zenon
<1>4. Cardinality(new) = l.did
  <2>1. Cardinality({n}) = 1 /\ IsFiniteSet({n})
    BY FS_Singleton
  <2>2. IsFiniteSet(1 .. l.did) /\ Cardinality(1 .. l.did) = l.did
    <3>1. 1 \in Int /\ l.did \in Int /\ l.did = IF 1 > l.did THEN 0 ELSE l.did - 1 + 1
      BY <1>2
    <3> QED BY <3>1, FS_Interval, Zenon
  <2>3. Cardinality(new) = Cardinality({n}) * Cardinality(1 .. l.did)
    BY <2>1, <2>2, FS_Product, Zenon
  <2>4. Cardinality(new) = 1 * l.did
    BY <2>1, <2>2, <2>3, Zenon
  <2> QED BY <1>2, <2>4
<1>5. CASE l.who = p
  <2>1. Looped!LinesOf(Append(lines, l), p) = old \cup {n} /\ n \notin old
    BY <1>1, <1>5 DEF Looped!LinesOf
  <2>2. Cardinality(old \cup {n}) = Cardinality(old) + 1 /\ Cardinality(old) \in Nat
    BY <1>3, <2>1, FS_AddElement, FS_CardinalityType
  <2>3. UNION {{i} \X (1 .. Append(lines, l)[i].did) : i \in old \cup {n}} = rest(old) \cup new
    <3>1. \A i \in old : Append(lines, l)[i] = lines[i]
      BY <1>1
    <3>2. Append(lines, l)[n] = l
      BY <1>1
    <3> QED BY <3>1, <3>2, Zenon
  <2>4. rest(old) \cap new = {}
    BY <2>1
  <2>5. Cardinality(rest(old) \cup new) = Cardinality(rest(old)) + Cardinality(new)
    <3>1. Cardinality({}) = 0
      BY FS_EmptySet
    <3>2. Cardinality(rest(old) \cup new) =
             Cardinality(rest(old)) + Cardinality(new) - Cardinality(rest(old) \cap new)
      BY <1>3, FS_Union, Zenon
    <3>3. Cardinality(rest(old)) \in Nat /\ Cardinality(new) \in Nat
      BY <1>3, FS_CardinalityType, Zenon
    <3>4. Cardinality(rest(old) \cap new) = 0
      BY <2>4, <3>1, Zenon
    <3> HIDE DEF old, new, rest
    <3> QED BY <3>2, <3>3, <3>4
  <2>6. Cardinality(rest(old)) \in Nat
    BY <1>3, FS_CardinalityType
  <2>7. /\ Looped!ToldOf(lines, p) = Cardinality(rest(old))
        /\ Looped!ToldOf(Append(lines, l), p) = Cardinality(rest(old) \cup new)
    BY <2>1, <2>3, LoopsCount, Zenon DEF Looped!ToldOf
  <2> QED BY <1>4, <1>5, <2>1, <2>2, <2>5, <2>6, <2>7
<1>6. CASE l.who # p
  <2>1. Looped!LinesOf(Append(lines, l), p) = old
    BY <1>1, <1>6 DEF Looped!LinesOf
  <2>2. UNION {{i} \X (1 .. Append(lines, l)[i].did) : i \in old} = rest(old)
    <3>1. \A i \in old : Append(lines, l)[i] = lines[i]
      BY <1>1
    <3> QED BY <3>1, Zenon
  <2>3. Cardinality(rest(old)) \in Nat /\ Cardinality(old) \in Nat
    BY <1>3, FS_CardinalityType
  <2>4. /\ Looped!ToldOf(lines, p) = Cardinality(rest(old))
        /\ Looped!ToldOf(Append(lines, l), p) = Cardinality(rest(old))
    BY <2>1, <2>2, LoopsCount, Zenon DEF Looped!ToldOf
  <2> QED BY <1>6, <2>1, <2>3, <2>4
<1> QED BY <1>5, <1>6

LEMMA ToldEmpty ==
    ASSUME NEW p \in Procs
    PROVE  Looped!LinesOf(<<>>, p) = {} /\ Cardinality({}) = 0 /\ Looped!ToldOf(<<>>, p) = 0
<1>1. Looped!LinesOf(<<>>, p) = {}
  BY DEF Looped!LinesOf
<1>2. Cardinality({}) = 0
  BY FS_EmptySet
<1>3. UNION {{i} \X (1 .. <<>>[i].did) : i \in {}} = {}
  OBVIOUS
<1> QED BY <1>1, <1>2, <1>3, LoopsCount DEF Looped!ToldOf

\* What a log says of a process, added up.
LEMMA ToldCounts ==
    ASSUME NEW lines \in Seq(Looped!Line), NEW p \in Procs, Looped!LoopsAssumption
    PROVE  Cardinality(Looped!LinesOf(lines, p)) \in Nat /\ Looped!ToldOf(lines, p) \in Nat
<1>1. [who |-> p, did |-> 0] \in Looped!Line
  BY DEF Looped!Line, Looped!LoopsAssumption
<1> QED BY <1>1, ToldAppend

LEMMA LoopFields ==
    ASSUME NEW c \in Looped!Loop, Looped!LoopsAssumption
    PROVE  /\ c.run \in Nat /\ c.run <= MaxJobs /\ c.seen \in Seq(Looped!Line)
           /\ c.done \in 0 .. MaxPasses /\ c.total \in Nat /\ c.left \in Nat
           /\ c.kind \in {"none", "daemon", "watch", "drain"} /\ c.pc \in Looped!Steps
<1>1. MaxJobs \in Nat /\ c.run \in 0 .. MaxJobs
  BY DEF Looped!Loop, Looped!LoopsAssumption
<1>2. /\ c.seen \in Seq(Looped!Line)
      /\ c.done \in 0 .. MaxPasses /\ c.total \in Nat /\ c.left \in Nat
      /\ c.kind \in {"none", "daemon", "watch", "drain"} /\ c.pc \in Looped!Steps
  BY DEF Looped!Loop
<1> QED BY <1>1, <1>2

\* A process goes on to a place of its loop, or is over, with the records it has counted.
Moved(p, d) ==
    /\ Looped!Active(p) /\ d \in Looped!Loop /\ command' = [command EXCEPT ![p] = d]
    /\ UNCHANGED <<pending, finished, did, late, mixed, emptied, cut>>
    /\ d.kind = command[p].kind /\ d.pc \in LoopPlaces(d.kind)
    /\ d.pc \in {"check", "pass", "left"} => d.done < MaxPasses
    /\ d.pc = "first" => d.done = 0 /\ did[p] = 0 /\ late[p] = 0
    /\ d.pc \notin {"off", "boot", "read"}
    /\ d.run = IF d.pc = "append" THEN command[p].run ELSE 0
    /\ d.total = IF d.pc \in {"ended", "dead"} THEN 0 ELSE command[p].total
    /\ d.seen \in {<<>>, heartbeats, command[p].seen}

LEMMA MovedKeeps ==
    ASSUME LoopsInv, Looped!LoopsAssumption, NEW p \in Procs, NEW d, Moved(p, d)
    PROVE  /\ command'[p] = d /\ \A q \in Procs \ {p} : command'[q] = command[q]
           /\ command' \in [Procs -> Looped!Loop]
           /\ PlaceInv' /\ SoloInv'
           /\ heartbeats' = heartbeats => TellInv'
<1>1. /\ command'[p] = d /\ \A q \in Procs \ {p} : command'[q] = command[q]
      /\ command' \in [Procs -> Looped!Loop]
      /\ UNCHANGED <<pending, finished, did, late, mixed, emptied, cut>>
  BY DEF Moved, LoopsInv, LoopTypes
<1>2. PlaceInv'
  <2> SUFFICES ASSUME NEW q \in Procs
               PROVE  LET c == command'[q] IN
                      /\ c.pc \in LoopPlaces(c.kind)
                      /\ c.pc \in {"check", "pass", "left"} => c.done < MaxPasses
                      /\ c.pc \notin {"read", "append"} => c.run = 0
                      /\ c.pc \in {"off", "boot", "first"} => c.done = 0 /\ did[q] = 0 /\ late[q] = 0
                      /\ c.kind # "drain" /\ c.pc \notin {"ended", "dead"} => c.total = did[q]
                      /\ c.kind = "drain" \/ c.pc \in {"ended", "dead"} => c.total = 0
    BY <1>1 DEF PlaceInv
  <2>1. CASE q # p
    BY <1>1, <2>1 DEF LoopsInv, PlaceInv
  <2>2. CASE q = p
    <3>1. command[p].kind # "drain" => command[p].total = did[p]
      BY DEF Moved, Looped!Active, LoopsInv, PlaceInv
    <3>2. command[p].kind = "drain" => command[p].total = 0
      BY DEF LoopsInv, PlaceInv
    <3> QED BY <1>1, <2>2, <3>1, <3>2 DEF Moved
  <2> QED BY <2>1, <2>2
<1>3. SoloInv'
  BY <1>1 DEF LoopsInv, SoloInv, Moved, Looped!Active
<1>4. ASSUME heartbeats' = heartbeats PROVE TellInv'
  <2> SUFFICES ASSUME NEW q \in Procs, NEW r \in Procs
               PROVE  /\ Looped!ToldOf(heartbeats, q) + command'[q].run <= did[q]
                      /\ Looped!ToldOf(command'[r].seen, q) + command'[q].run <= did[q]
    BY <1>1, <1>4 DEF TellInv
  <2>1. /\ command'[q].run <= command[q].run /\ command[q].run \in Nat /\ command'[q].run \in Nat
        /\ did[q] \in Nat /\ heartbeats \in Seq(Looped!Line) /\ command[r].seen \in Seq(Looped!Line)
    <3>1. command[q] \in Looped!Loop /\ command'[q] \in Looped!Loop /\ command[r] \in Looped!Loop
      BY <1>1 DEF LoopsInv, LoopTypes
    <3>2. /\ command[q].run \in Nat /\ command'[q].run \in Nat /\ command[r].seen \in Seq(Looped!Line)
      BY <3>1, LoopFields
    <3>3. command'[q].run <= command[q].run
      BY <1>1, <3>2 DEF Moved
    <3> QED BY <3>2, <3>3 DEF LoopsInv, LoopTypes
  <2>2. /\ Looped!ToldOf(heartbeats, q) \in Nat /\ Looped!ToldOf(command[r].seen, q) \in Nat
        /\ Looped!ToldOf(<<>>, q) = 0
    BY <2>1, ToldCounts, ToldEmpty
  <2>3. /\ Looped!ToldOf(heartbeats, q) + command[q].run <= did[q]
        /\ Looped!ToldOf(command[r].seen, q) + command[q].run <= did[q]
    BY DEF LoopsInv, TellInv
  <2>4. command'[r].seen \in {<<>>, heartbeats, command[r].seen}
    BY <1>1 DEF Moved
  <2> QED BY <2>1, <2>2, <2>3, <2>4
<1> QED BY <1>1, <1>2, <1>3, <1>4

\* Nobody else is at work beside a process that moves and is not mixed.
LEMMA MovedLate ==
    ASSUME LoopsInv, NEW p \in Procs, NEW d, Moved(p, d),
           \A q \in Procs \ {p} : command'[q] = command[q], command'[p] = d,
           p \notin mixed /\ d.kind = "daemon" /\ late[p] = 1 /\ d.pc \notin {"ended", "dead"} =>
             stop' /\ d.pc \notin {"first", "pass"}
    PROVE  LateInv'
<1> SUFFICES ASSUME NEW q \in Procs \ mixed, command'[q].kind = "daemon"
             PROVE  /\ late[q] <= 1
                    /\ late[q] = 1 /\ Looped!Active(q)' =>
                         stop' /\ command'[q].pc \notin {"boot", "first", "pass"}
  BY DEF Moved, LateInv
<1>1. command[q].kind = "daemon" /\ late[q] <= 1
  BY DEF Moved, LoopsInv, LateInv
<1>2. CASE q = p
  BY <1>1, <1>2 DEF Moved, Looped!Active
<1>3. CASE q # p
  BY <1>1, <1>3 DEF Moved, Looped!Active, LoopsInv, SoloInv
<1> QED BY <1>2, <1>3

LEMMA MovedEmpty ==
    ASSUME LoopsInv, NEW p \in Procs, NEW d, Moved(p, d),
           \A q \in Procs \ {p} : command'[q] = command[q], command'[p] = d,
           d.kind = "drain" /\ d.left = 0 => p \in emptied \/ d.pc = "dead"
    PROVE  EmptyInv'
BY DEF Moved, Looped!Active, LoopsInv, EmptyInv

\* A move leaves the log, and writes down what its process has counted and the log has.
LEMMA MovedExact ==
    ASSUME LoopsInv, Looped!LoopsAssumption, NEW p \in Procs, NEW d, Moved(p, d),
           \A q \in Procs \ {p} : command'[q] = command[q], command'[p] = d,
           heartbeats' = heartbeats, mixed = {} /\ d.pc = "append" => d.seen = heartbeats,
           d.kind = "drain" \/ (d.done = 0 /\ d.total = 0)
             \/ (d.done = command[p].done /\ (d.pc = "append" <=> command[p].pc \in {"read", "append"})),
           status' = status
             \/ (status' = [who |-> p, done |-> command[p].done, total |-> command[p].total]
                 /\ command[p].pc \notin {"read", "append"} /\ d.kind # "drain"),
           daemon' = daemon
             \/ (\E r \in BOOLEAN : daemon' = [who |-> p, running |-> r,
                                    done |-> command[p].done, total |-> command[p].total]
                 /\ command[p].pc \notin {"read", "append"} /\ d.kind # "drain")
    PROVE  ExactInv'
<1> SUFFICES ASSUME mixed = {}
             PROVE  /\ \A q \in Procs : LET c == command'[q] IN
                         /\ c.pc = "append" => c.seen = heartbeats
                         /\ c.kind # "drain" /\ q \notin cut => Backed(heartbeats, q, c.done - Owed(c), c.total - c.run)
                    /\ status' # None /\ status'.who \notin cut => Backed(heartbeats, status'.who, status'.done, status'.total)
                    /\ daemon' # None /\ daemon'.who \notin cut => Backed(heartbeats, daemon'.who, daemon'.done, daemon'.total)
  BY DEF Moved, ExactInv
<1>1. ASSUME NEW q \in Procs
      PROVE  LET c == command[q] IN
             /\ c.pc = "append" => c.seen = heartbeats
             /\ c.kind # "drain" /\ q \notin cut => Backed(heartbeats, q, c.done - Owed(c), c.total - c.run)
  BY DEF LoopsInv, ExactInv
<1>2. /\ status # None /\ status.who \notin cut => Backed(heartbeats, status.who, status.done, status.total)
      /\ daemon # None /\ daemon.who \notin cut => Backed(heartbeats, daemon.who, daemon.done, daemon.total)
  BY DEF LoopsInv, ExactInv
<1>3. command[p] \in Looped!Loop /\ d \in Looped!Loop /\ heartbeats \in Seq(Looped!Line)
  BY DEF LoopsInv, LoopTypes, Moved
<1>4. ASSUME NEW q \in Procs, NEW c, c = command'[q]
      PROVE  /\ c.pc = "append" => c.seen = heartbeats
             /\ c.kind # "drain" /\ q \notin cut => Backed(heartbeats, q, c.done - Owed(c), c.total - c.run)
  <2>1. CASE q # p
    BY <1>1, <1>4, <2>1
  <2>2. CASE q = p
    <3>1. c = d /\ c.kind = command[p].kind /\ c.pc # "read"
      BY <1>4, <2>2 DEF Moved
    <3>2. CASE d.done = 0 /\ d.total = 0
      <4>1. d.run \in Nat
        BY <1>3, LoopFields
      <4>2. Cardinality(Looped!LinesOf(heartbeats, p)) \in Nat /\ Looped!ToldOf(heartbeats, p) \in Nat
        BY <1>3, ToldCounts
      <4> QED BY <2>2, <3>1, <3>2, <4>1, <4>2 DEF Backed, Owed
    <3>3. CASE d.done = command[p].done /\ (d.pc = "append" <=> command[p].pc \in {"read", "append"})
      <4>1. Owed(d) = Owed(command[p])
        BY <3>1, <3>3 DEF Owed
      <4>2. c.kind # "drain" => d.total - d.run = command[p].total - command[p].run \/ d.total = 0
        BY <3>1, <3>3 DEF Moved, LoopsInv, PlaceInv
      <4>3. c.kind # "drain" /\ p \notin cut =>
              Backed(heartbeats, p, command[p].done - Owed(command[p]), command[p].total - command[p].run)
        BY <1>1, <3>1
      <4>4. d.run \in Nat /\ Looped!ToldOf(heartbeats, p) \in Nat
        BY <1>3, LoopFields, ToldCounts
      <4> QED BY <2>2, <3>1, <3>3, <4>1, <4>2, <4>3, <4>4 DEF Backed
    <3> QED BY <3>1, <3>2, <3>3
  <2> QED BY <2>1, <2>2
<1>5. command[p].pc \notin {"read", "append"} /\ d.kind # "drain" /\ p \notin cut =>
        Backed(heartbeats, p, command[p].done, command[p].total)
  <2>1. command[p].done \in 0 .. MaxPasses /\ command[p].total \in Nat
    BY <1>3, LoopFields
  <2>2. command[p].pc \notin {"read", "append"} => Owed(command[p]) = 0 /\ command[p].run = 0
    BY DEF Owed, LoopsInv, PlaceInv
  <2> QED BY <1>1, <2>1, <2>2 DEF Backed, Moved
<1>6. status' # None /\ status'.who \notin cut => Backed(heartbeats, status'.who, status'.done, status'.total)
  BY <1>2, <1>5
<1>7. daemon' # None /\ daemon'.who \notin cut => Backed(heartbeats, daemon'.who, daemon'.done, daemon'.total)
  BY <1>2, <1>5
<1> QED BY <1>4, <1>6, <1>7

\* Of the state file a process changes what it says of itself.
LEMMA MovedState ==
    ASSUME LoopsInv, Looped!LoopsAssumption, NEW p \in Procs, NEW d, Moved(p, d),
           \A q \in Procs \ {p} : command'[q] = command[q], command'[p] = d,
           daemon' = daemon \/ (daemon' \in Looped!Statement /\ daemon'.who = p),
           daemon' # None /\ daemon'.who = p =>
             /\ d.kind = "daemon" /\ d.pc # "first"
             /\ d.pc \in {"clear", "ended"} => ~daemon'.running /\ daemon'.total = did[p],
           d.kind = "daemon" =>
             /\ d.pc \in Between \cup {"clear", "ended"} => daemon' # None
             /\ p \notin mixed /\ d.pc \in Between => daemon'.who = p /\ daemon'.running
    PROVE  StateInv'
<1>1. daemon # None => daemon.who \in Procs
  BY DEF LoopsInv, LoopTypes, Looped!Statement
<1>2. daemon' \in Looped!Statement => daemon' # None
  BY DEF Looped!LoopsAssumption
<1>3. daemon' # None => LET c == command'[daemon'.who] IN
        /\ c.kind = "daemon" /\ c.pc \notin {"boot", "first"}
        /\ c.pc \in {"clear", "ended"} => ~daemon'.running /\ daemon'.total = did[daemon'.who]
  BY <1>1 DEF LoopsInv, StateInv, Moved
<1>4. ASSUME NEW q \in Procs, command'[q].kind = "daemon"
      PROVE  /\ command'[q].pc \in Between \cup {"clear", "ended"} => daemon' # None
             /\ q \notin mixed /\ command'[q].pc \in Between => daemon'.who = q /\ daemon'.running
  <2>1. CASE q = p
    BY <1>4, <2>1
  <2>2. CASE q # p
    <3>1. command'[q] = command[q]
      BY <2>2
    <3>2. /\ command[q].pc \in Between \cup {"clear", "ended"} => daemon # None
          /\ q \notin mixed /\ command[q].pc \in Between => daemon.who = q /\ daemon.running
      BY <1>4, <3>1 DEF LoopsInv, StateInv
    <3>3. q \in mixed \/ ~Looped!Active(q)
      BY <2>2 DEF Moved, LoopsInv, SoloInv
    <3>4. command[q].pc \in Between => Looped!Active(q)
      BY DEF Between, Looped!Active
    <3> QED BY <1>2, <3>1, <3>2, <3>3, <3>4
  <2> QED BY <2>1, <2>2
<1> QED BY <1>3, <1>4 DEF StateInv, Moved

\* What a move does to the copies of the log and the counts of its process, how it heeds the
\* request to stop, what it writes of what was counted, and what the state file then says.
Counted(p, d) == LET c == command[p] IN
    /\ heartbeats' = heartbeats
    /\ d.kind = "drain" /\ d.left = 0 => p \in emptied \/ d.pc = "dead"
    /\ mixed = {} /\ d.pc = "append" => d.seen = heartbeats
    /\ \/ d.kind = "drain" \/ (d.done = 0 /\ d.total = 0)
       \/ d.done = c.done /\ (d.pc = "append" <=> c.pc \in {"read", "append"})
Heeded(p, d) ==
    p \notin mixed /\ d.kind = "daemon" /\ late[p] = 1 /\ d.pc \notin {"ended", "dead"} =>
      stop' /\ d.pc \notin {"first", "pass"}
Written(p, d) == LET c == command[p] IN
    /\ \/ status' = status
       \/ /\ status' = [who |-> p, done |-> c.done, total |-> c.total]
          /\ c.pc \notin {"read", "append"} /\ d.kind # "drain"
    /\ \/ daemon' = daemon
       \/ /\ \E r \in BOOLEAN : daemon' = [who |-> p, running |-> r, done |-> c.done, total |-> c.total]
          /\ c.pc \notin {"read", "append"} /\ d.kind # "drain"
Stated(p, d) ==
    /\ daemon' # None /\ daemon'.who = p =>
         /\ d.kind = "daemon" /\ d.pc # "first"
         /\ d.pc \in {"clear", "ended"} => ~daemon'.running /\ daemon'.total = did[p]
    /\ d.kind = "daemon" =>
         /\ d.pc \in Between \cup {"clear", "ended"} => daemon' # None
         /\ p \notin mixed /\ d.pc \in Between => daemon'.who = p /\ daemon'.running

LEMMA MoveKeeps ==
    ASSUME LoopsInv, Looped!LoopsAssumption, NEW p \in Procs, NEW d, Moved(p, d),
           Counted(p, d), Heeded(p, d), stop' \in BOOLEAN, Written(p, d), Stated(p, d)
    PROVE  LoopsInv'
<1>1. /\ command'[p] = d /\ \A q \in Procs \ {p} : command'[q] = command[q]
      /\ command' \in [Procs -> Looped!Loop] /\ PlaceInv' /\ SoloInv' /\ TellInv'
  BY MovedKeeps DEF Counted
<1>2. LateInv'
  BY <1>1, MovedLate DEF Heeded
<1>3. EmptyInv'
  BY <1>1, MovedEmpty DEF Counted
<1>4. ExactInv'
  BY <1>1, MovedExact DEF Counted, Written
<1>5. command[p] \in Looped!Loop /\ command[p].done \in 0 .. MaxPasses /\ command[p].total \in Nat
  BY LoopFields DEF LoopsInv, LoopTypes
<1>6. daemon' = daemon \/ (daemon' \in Looped!Statement /\ daemon'.who = p)
  BY <1>5 DEF Looped!Statement, Written
<1>7. status' \in Looped!Report \cup {None} /\ daemon' \in Looped!Statement \cup {None}
  BY <1>5, <1>6 DEF Looped!Report, LoopsInv, LoopTypes, Written
<1>8. StateInv'
  BY <1>1, <1>6, MovedState DEF Stated
<1>9. StatusInv'
  <2>1. status # None => status.who \in Procs
    BY DEF LoopsInv, LoopTypes, Looped!Report
  <2> QED BY <1>1, <2>1 DEF Moved, Written, LoopsInv, StatusInv
<1> QED BY <1>1, <1>2, <1>3, <1>4, <1>7, <1>8, <1>9 DEF Moved, Counted, LoopsInv, LoopTypes

\* What a process at a place is: its loop, and what it has counted there.
LEMMA AtPlace ==
    ASSUME LoopsInv, Looped!LoopsAssumption, NEW p \in Procs, NEW c, c = command[p]
    PROVE  /\ c \in Looped!Loop /\ c.done \in 0 .. MaxPasses /\ c.left \in Nat /\ c.total \in Nat
           /\ c.pc \in {"boot", "first", "check", "state", "final", "clear"} => c.kind = "daemon"
           /\ c.pc \in {"initial", "count", "left"} => c.kind = "drain"
           /\ c.pc \in {"read", "append", "status"} => c.kind \in {"daemon", "watch"}
           /\ c.pc = "pass" => c.kind \in {"daemon", "watch", "drain"}
           /\ c.pc \notin {"read", "append"} => c.run = 0
           /\ c.kind # "drain" /\ c.pc \notin {"ended", "dead"} => c.total = did[p]
           /\ c.pc \in {"boot", "first"} => c.done = 0 /\ did[p] = 0 /\ late[p] = 0
           /\ c.pc \in {"check", "pass", "left"} => c.done < MaxPasses
<1>1. c \in Looped!Loop /\ c.pc \in LoopPlaces(c.kind)
  BY DEF LoopsInv, LoopTypes, PlaceInv
<1>2. c.kind \in {"none", "daemon", "watch", "drain"}
  BY <1>1, LoopFields
<1>3. /\ c.pc \in {"boot", "first", "check", "state", "final", "clear"} => c.kind = "daemon"
      /\ c.pc \in {"initial", "count", "left"} => c.kind = "drain"
      /\ c.pc \in {"read", "append", "status"} => c.kind \in {"daemon", "watch"}
      /\ c.pc = "pass" => c.kind \in {"daemon", "watch", "drain"}
  BY <1>1, <1>2 DEF LoopPlaces, Between
<1> QED BY <1>1, <1>3, LoopFields DEF LoopsInv, PlaceInv

\* What the state file says of a process that is at work.
LEMMA AtState ==
    ASSUME LoopsInv, NEW p \in Procs, NEW c, c = command[p]
    PROVE  /\ daemon # None /\ daemon.who = p => c.kind = "daemon" /\ c.pc \notin {"boot", "first"}
           /\ daemon # None /\ daemon.who = p /\ c.pc = "clear" => ~daemon.running /\ daemon.total = did[p]
           /\ c.kind = "daemon" /\ c.pc \in Between \cup {"clear"} => daemon # None
           /\ c.kind = "daemon" /\ c.pc \in Between /\ p \notin mixed => daemon.who = p /\ daemon.running
           /\ p \notin mixed /\ c.kind = "daemon" /\ late[p] = 1 /\ Looped!Active(p) =>
                stop /\ c.pc \notin {"boot", "first", "pass"}
  BY DEF LoopsInv, StateInv, LateInv

\* A copy of a process's record at another place.
LEMMA PlacedFields ==
    ASSUME NEW c \in Looped!Loop, NEW w, NEW d, d = [c EXCEPT !.pc = w], w \in Looped!Steps
    PROVE  /\ d \in Looped!Loop /\ d.pc = w /\ d.kind = c.kind /\ d.done = c.done /\ d.total = c.total
           /\ d.run = c.run /\ d.seen = c.seen /\ d.left = c.left
  BY DEF Looped!Loop

\* The moves: where each goes, and what it writes.
LEMMA BootKeeps ==
    ASSUME LoopsInv, Looped!LoopsAssumption, NEW p \in Procs, Looped!Boot(p)
    PROVE  LoopsInv'
<1>1. PICK c : c = command[p]
  OBVIOUS
<1>2. /\ c.pc = "boot" /\ c.kind = "daemon" /\ c \in Looped!Loop /\ c.run = 0
      /\ c.done = 0 /\ did[p] = 0 /\ late[p] = 0
      /\ daemon # None => daemon.who # p
  BY <1>1, AtPlace, AtState DEF Looped!Boot, Looped!In
<1>3. PICK d : d = [c EXCEPT !.pc = "first"]
  OBVIOUS
<1>4. /\ d \in Looped!Loop /\ d.pc = "first" /\ d.kind = "daemon" /\ d.done = 0 /\ d.total = c.total
      /\ d.run = 0 /\ d.seen = c.seen
  BY <1>2, <1>3, PlacedFields DEF Looped!Steps
<1>5. /\ command' = [command EXCEPT ![p] = d] /\ stop' = FALSE
      /\ UNCHANGED <<pending, finished, heartbeats, status, daemon, crashes, did, late, mixed, emptied, cut>>
  BY <1>1, <1>3 DEF Looped!Boot, Looped!To, Looped!ghosts
<1>6. Moved(p, d)
  BY <1>1, <1>2, <1>4, <1>5 DEF Moved, Looped!Active, LoopPlaces
<1>7. Counted(p, d)
  BY <1>1, <1>2, <1>4, <1>5 DEF Counted
<1>8. Heeded(p, d) /\ stop' \in BOOLEAN
  <2>1. late[p] # 1
    BY <1>2
  <2> QED BY <1>5, <2>1, Zenon DEF Heeded
<1>9. Written(p, d)
  BY <1>5 DEF Written
<1>10. Stated(p, d)
  BY <1>2, <1>4, <1>5 DEF Stated, Between
<1> QED BY <1>6, <1>7, <1>8, <1>9, <1>10, MoveKeeps

LEMMA BootedKeeps ==
    ASSUME LoopsInv, Looped!LoopsAssumption, NEW p \in Procs, Looped!Booted(p)
    PROVE  LoopsInv'
<1>1. PICK c : c = command[p]
  OBVIOUS
<1>2. /\ c.pc = "first" /\ c.kind = "daemon" /\ c \in Looped!Loop /\ c.run = 0 /\ c.done = 0 /\ late[p] = 0
      /\ c.total \in Nat /\ MaxPasses \in Nat \ {0} /\ stop \in BOOLEAN
  BY <1>1, AtPlace DEF Looped!Booted, Looped!In, Looped!LoopsAssumption, LoopsInv, LoopTypes
<1>3. PICK d : d = [c EXCEPT !.pc = "check"]
  OBVIOUS
<1>4. /\ d \in Looped!Loop /\ d.pc = "check" /\ d.kind = "daemon" /\ d.done = 0 /\ d.total = c.total
      /\ d.run = 0 /\ d.seen = c.seen
  BY <1>2, <1>3, PlacedFields DEF Looped!Steps
<1>5. /\ command' = [command EXCEPT ![p] = d]
      /\ daemon' = [who |-> p, running |-> TRUE, done |-> c.done, total |-> c.total]
      /\ UNCHANGED <<pending, finished, heartbeats, status, stop, crashes, did, late, mixed, emptied, cut>>
  BY <1>1, <1>3 DEF Looped!Booted, Looped!To, Looped!Says, Looped!ghosts
<1>6. Moved(p, d)
  BY <1>1, <1>2, <1>4, <1>5 DEF Moved, Looped!Active, LoopPlaces, Between
<1>7. daemon' # None /\ daemon'.who = p /\ daemon'.running = TRUE
  <2>1. daemon' \in Looped!Statement
    BY <1>2, <1>5 DEF Looped!Statement
  <2> QED BY <1>5, <2>1 DEF Looped!LoopsAssumption
<1>8. Counted(p, d)
  BY <1>1, <1>2, <1>4, <1>5 DEF Counted
<1>9. Heeded(p, d) /\ stop' \in BOOLEAN
  BY <1>1, <1>2, <1>4, <1>5 DEF Heeded
<1>10. Written(p, d)
  BY <1>1, <1>2, <1>4, <1>5 DEF Written
<1>11. Stated(p, d)
  BY <1>4, <1>7 DEF Stated, Between
<1> QED BY <1>6, <1>8, <1>9, <1>10, <1>11, MoveKeeps

LEMMA CheckKeeps ==
    ASSUME LoopsInv, Looped!LoopsAssumption, NEW p \in Procs, Looped!Check(p)
    PROVE  LoopsInv'
<1>1. PICK c : c = command[p]
  OBVIOUS
<1>2. /\ c.pc = "check" /\ c.kind = "daemon" /\ c \in Looped!Loop /\ c.run = 0 /\ c.done < MaxPasses
      /\ stop \in BOOLEAN /\ daemon # None
      /\ p \notin mixed => daemon.who = p /\ daemon.running
      /\ p \notin mixed /\ late[p] = 1 => stop
  BY <1>1, AtPlace, AtState DEF Looped!Check, Looped!In, Between, LoopsInv, LoopTypes, Looped!Active
<1>3. PICK w \in {"final", "pass"} : w = IF stop THEN "final" ELSE "pass"
  OBVIOUS
<1>4. PICK d : d = [c EXCEPT !.pc = w]
  OBVIOUS
<1>5. /\ d \in Looped!Loop /\ d.pc = w /\ d.kind = "daemon" /\ d.done = c.done /\ d.total = c.total
      /\ d.run = 0 /\ d.seen = c.seen
  BY <1>2, <1>4, PlacedFields DEF Looped!Steps
<1>6. /\ command' = [command EXCEPT ![p] = d]
      /\ UNCHANGED <<pending, finished, heartbeats, status, daemon, stop, crashes, did, late, mixed, emptied, cut>>
  BY <1>1, <1>3, <1>4 DEF Looped!Check, Looped!To, Looped!ghosts
<1>7. Moved(p, d)
  BY <1>1, <1>2, <1>5, <1>6 DEF Moved, Looped!Active, LoopPlaces, Between
<1>8. Counted(p, d)
  BY <1>1, <1>2, <1>3, <1>5, <1>6 DEF Counted
<1>9. Heeded(p, d) /\ stop' \in BOOLEAN
  BY <1>1, <1>2, <1>3, <1>5, <1>6 DEF Heeded
<1>10. Written(p, d)
  BY <1>6 DEF Written
<1>11. Stated(p, d)
  BY <1>2, <1>5, <1>6 DEF Stated, Between
<1> QED BY <1>7, <1>8, <1>9, <1>10, <1>11, MoveKeeps

LEMMA ReadLogKeeps ==
    ASSUME LoopsInv, Looped!LoopsAssumption, NEW p \in Procs, Looped!ReadLog(p)
    PROVE  LoopsInv'
<1>1. PICK c : c = command[p]
  OBVIOUS
<1>2. /\ c.pc = "read" /\ c.kind \in {"daemon", "watch"} /\ c \in Looped!Loop
      /\ stop \in BOOLEAN /\ heartbeats \in Seq(Looped!Line)
      /\ daemon # None /\ daemon.who = p => c.kind = "daemon"
      /\ c.kind = "daemon" => daemon # None
      /\ c.kind = "daemon" /\ p \notin mixed => daemon.who = p /\ daemon.running
      /\ c.kind = "daemon" /\ p \notin mixed /\ late[p] = 1 => stop
  BY <1>1, AtPlace, AtState DEF Looped!ReadLog, Looped!In, Between, LoopsInv, LoopTypes, Looped!Active
<1>3. PICK d, lines : /\ d = [c EXCEPT !.pc = "append", !.seen = lines]
                      /\ command' = [command EXCEPT ![p] = d]
                      /\ lines = heartbeats \/ (lines = <<>> /\ \E q \in Procs : Looped!In(q, "append"))
  <2>1. PICK lines \in {heartbeats} \cup (IF \E q \in Procs : Looped!In(q, "append") THEN {<<>>} ELSE {}) :
          command' = [command EXCEPT ![p].pc = "append", ![p].seen = lines]
    BY DEF Looped!ReadLog
  <2>2. command' = [command EXCEPT ![p] = [c EXCEPT !.pc = "append", !.seen = lines]]
    BY <1>1, <2>1
  <2> QED BY <2>1, <2>2
<1>4. /\ d \in Looped!Loop /\ d.pc = "append" /\ d.kind = c.kind /\ d.done = c.done /\ d.total = c.total
      /\ d.run = c.run /\ d.seen = lines
  <2>1. lines \in Seq(Looped!Line)
    <3>1. <<>> \in Seq(Looped!Line)
      OBVIOUS
    <3> QED BY <1>2, <1>3, <3>1, Zenon
  <2> QED BY <1>2, <1>3, <2>1 DEF Looped!Loop, Looped!Steps
<1>5. command' = [command EXCEPT ![p] = d] /\ d.seen \in {<<>>, heartbeats}
  BY <1>3, <1>4
<1>6. UNCHANGED <<pending, finished, heartbeats, status, daemon, stop, crashes, did, late, mixed, emptied, cut>>
  BY DEF Looped!ReadLog, Looped!ghosts
<1>7. Moved(p, d)
  BY <1>1, <1>2, <1>4, <1>5, <1>6 DEF Moved, Looped!Active, LoopPlaces, Between
<1>8. Counted(p, d)
  <2>1. mixed = {} => lines = heartbeats
    BY <1>1, <1>2, <1>3 DEF LoopsInv, SoloInv, Looped!Active, Looped!In
  <2> QED BY <1>1, <1>2, <1>4, <1>6, <2>1 DEF Counted
<1>9. Heeded(p, d) /\ stop' \in BOOLEAN
  BY <1>1, <1>2, <1>4, <1>6 DEF Heeded
<1>10. Written(p, d)
  BY <1>6 DEF Written
<1>11. Stated(p, d)
  BY <1>2, <1>4, <1>6 DEF Stated, Between
<1> QED BY <1>7, <1>8, <1>9, <1>10, <1>11, MoveKeeps

LEMMA FinalKeeps ==
    ASSUME LoopsInv, Looped!LoopsAssumption, NEW p \in Procs, Looped!Final(p)
    PROVE  LoopsInv'
<1>1. PICK c : c = command[p]
  OBVIOUS
<1>2. /\ c.pc = "final" /\ c.kind = "daemon" /\ c \in Looped!Loop /\ c.run = 0 /\ c.done \in 0 .. MaxPasses
      /\ c.total \in Nat /\ c.total = did[p] /\ stop \in BOOLEAN
      /\ p \notin mixed /\ late[p] = 1 => stop
  BY <1>1, AtPlace, AtState DEF Looped!Final, Looped!In, LoopsInv, LoopTypes, Looped!Active
<1>3. PICK d : d = [c EXCEPT !.pc = "clear"]
  OBVIOUS
<1>4. /\ d \in Looped!Loop /\ d.pc = "clear" /\ d.kind = "daemon" /\ d.done = c.done /\ d.total = c.total
      /\ d.run = 0 /\ d.seen = c.seen
  BY <1>2, <1>3, PlacedFields DEF Looped!Steps
<1>5. /\ command' = [command EXCEPT ![p] = d]
      /\ daemon' = [who |-> p, running |-> FALSE, done |-> c.done, total |-> c.total]
      /\ UNCHANGED <<pending, finished, heartbeats, status, stop, crashes, did, late, mixed, emptied, cut>>
  BY <1>1, <1>3 DEF Looped!Final, Looped!To, Looped!Says, Looped!ghosts
<1>6. Moved(p, d)
  BY <1>1, <1>2, <1>4, <1>5 DEF Moved, Looped!Active, LoopPlaces, Between
<1>7. daemon' # None /\ daemon'.who = p /\ daemon'.running = FALSE /\ daemon'.total = did[p]
  <2>1. daemon' \in Looped!Statement
    BY <1>2, <1>5 DEF Looped!Statement
  <2> QED BY <1>2, <1>5, <2>1 DEF Looped!LoopsAssumption
<1>8. Counted(p, d)
  BY <1>1, <1>2, <1>4, <1>5 DEF Counted
<1>9. Heeded(p, d) /\ stop' \in BOOLEAN
  BY <1>1, <1>2, <1>4, <1>5 DEF Heeded
<1>10. Written(p, d)
  BY <1>1, <1>2, <1>4, <1>5 DEF Written
<1>11. Stated(p, d)
  BY <1>4, <1>7 DEF Stated, Between
<1> QED BY <1>6, <1>8, <1>9, <1>10, <1>11, MoveKeeps

LEMMA WriteStateKeeps ==
    ASSUME LoopsInv, Looped!LoopsAssumption, NEW p \in Procs, Looped!WriteState(p)
    PROVE  LoopsInv'
<1>1. PICK c : c = command[p]
  OBVIOUS
<1>2. /\ c.pc = "state" /\ c.kind = "daemon" /\ c \in Looped!Loop /\ c.run = 0 /\ c.done \in 0 .. MaxPasses
      /\ c.total \in Nat /\ MaxPasses \in Nat
      /\ p \notin mixed /\ late[p] = 1 => stop
  <2>1. c.pc = "state"
    BY <1>1 DEF Looped!WriteState, Looped!In
  <2> QED BY <1>1, <2>1, AtPlace, AtState DEF Looped!Active, Looped!LoopsAssumption
<1>3. PICK w \in {"check", "final"} : w = IF c.done < MaxPasses THEN "check" ELSE "final"
  OBVIOUS
<1>4. PICK d : d = [c EXCEPT !.pc = w]
  OBVIOUS
<1>5. /\ d \in Looped!Loop /\ d.pc = w /\ d.kind = "daemon" /\ d.done = c.done /\ d.total = c.total
      /\ d.run = 0 /\ d.seen = c.seen
  BY <1>2, <1>4, PlacedFields DEF Looped!Steps
<1>6. /\ command' = [command EXCEPT ![p] = d]
      /\ daemon' = [who |-> p, running |-> TRUE, done |-> c.done, total |-> c.total]
      /\ UNCHANGED <<pending, finished, heartbeats, status, stop, crashes, did, late, mixed, emptied, cut>>
  BY <1>1, <1>3, <1>4 DEF Looped!WriteState, Looped!To, Looped!Says, Looped!ghosts
<1>7. Moved(p, d)
  BY <1>1, <1>2, <1>3, <1>5, <1>6 DEF Moved, Looped!Active, LoopPlaces, Between
<1>8. daemon' # None /\ daemon'.who = p /\ daemon'.running = TRUE
  <2>1. daemon' \in Looped!Statement
    BY <1>2, <1>6 DEF Looped!Statement
  <2> QED BY <1>6, <2>1 DEF Looped!LoopsAssumption
<1>9. Counted(p, d)
  BY <1>1, <1>2, <1>5, <1>6 DEF Counted
<1>10. Heeded(p, d) /\ stop' \in BOOLEAN
  <2>1. stop' \in BOOLEAN /\ stop' = stop
    BY <1>6, Zenon DEF LoopsInv, LoopTypes
  <2>2. d.pc \notin {"first", "pass"}
    BY <1>5
  <2> QED BY <1>2, <2>1, <2>2, Zenon DEF Heeded
<1>11. Written(p, d)
  BY <1>1, <1>2, <1>5, <1>6 DEF Written
<1>12. Stated(p, d)
  BY <1>5, <1>8 DEF Stated, Between
<1> QED BY <1>7, <1>9, <1>10, <1>11, <1>12, MoveKeeps

\* The record of a process that is over.
LEMMA OverFields ==
    ASSUME LoopsInv, Looped!LoopsAssumption, NEW p \in Procs, NEW w \in {"ended", "dead"},
           NEW d, d = Looped!Over(p, w)
    PROVE  /\ d \in Looped!Loop /\ d.pc = w /\ d.kind = command[p].kind /\ d.done = 0 /\ d.total = 0
           /\ d.run = 0 /\ d.seen = <<>> /\ d.left = IF w = "ended" THEN command[p].left ELSE 0
<1>1. command[p] \in Looped!Loop
  BY DEF LoopsInv, LoopTypes
<1>2. command[p].left \in Nat /\ command[p].kind \in {"none", "daemon", "watch", "drain"}
  BY <1>1, LoopFields
<1>3. 0 \in 0 .. MaxPasses /\ 0 \in 0 .. MaxJobs /\ <<>> \in Seq(Looped!Line)
  BY DEF Looped!LoopsAssumption
<1>4. d = [kind |-> command[p].kind, pc |-> w, done |-> 0, total |-> 0, run |-> 0, seen |-> <<>>,
           left |-> IF w = "ended" THEN command[p].left ELSE 0]
  BY DEF Looped!Over, Looped!Off
<1> QED BY <1>2, <1>3, <1>4 DEF Looped!Loop, Looped!Steps

LEMMA WriteStatusKeeps ==
    ASSUME LoopsInv, Looped!LoopsAssumption, NEW p \in Procs, Looped!WriteStatus(p)
    PROVE  LoopsInv'
<1>1. PICK c : c = command[p]
  OBVIOUS
<1>2. /\ c.pc = "status" /\ c.kind \in {"daemon", "watch"} /\ c \in Looped!Loop /\ c.run = 0
      /\ c.done \in 0 .. MaxPasses /\ c.total \in Nat
      /\ daemon # None /\ daemon.who = p => c.kind = "daemon"
      /\ c.kind = "daemon" => daemon # None
      /\ c.kind = "daemon" /\ p \notin mixed => daemon.who = p /\ daemon.running
      /\ c.kind = "daemon" /\ p \notin mixed /\ late[p] = 1 => stop
  <2>1. c.pc = "status"
    BY <1>1 DEF Looped!WriteStatus, Looped!In
  <2> QED BY <1>1, <2>1, AtPlace, AtState DEF Between, Looped!Active
<1>3. PICK d : /\ command' = [command EXCEPT ![p] = d]
               /\ \/ c.kind = "daemon" /\ d = [c EXCEPT !.pc = "state"]
                  \/ c.kind = "watch" /\ c.done < MaxPasses /\ d = [c EXCEPT !.pc = "pass"]
                  \/ c.kind = "watch" /\ d = Looped!Over(p, "ended")
  BY <1>1, <1>2 DEF Looped!WriteStatus, Looped!To
<1>4. /\ d \in Looped!Loop /\ d.kind = c.kind /\ d.run = 0
      /\ \/ /\ d.pc \in {"state", "pass"} /\ d.done = c.done /\ d.total = c.total /\ d.seen = c.seen
            /\ d.pc = "pass" => c.kind = "watch" /\ c.done < MaxPasses
         \/ c.kind = "watch" /\ d.pc = "ended" /\ d.done = 0 /\ d.total = 0 /\ d.seen = <<>>
      /\ d.pc = "state" <=> c.kind = "daemon"
  <2>1. CASE c.kind = "daemon" /\ d = [c EXCEPT !.pc = "state"]
    BY <1>2, <2>1, PlacedFields DEF Looped!Steps
  <2>2. CASE c.kind = "watch" /\ c.done < MaxPasses /\ d = [c EXCEPT !.pc = "pass"]
    BY <1>2, <2>2, PlacedFields DEF Looped!Steps
  <2>3. CASE c.kind = "watch" /\ d = Looped!Over(p, "ended")
    BY <1>1, <1>2, <2>3, OverFields
  <2> QED BY <1>3, <2>1, <2>2, <2>3
<1>5. /\ status' = [who |-> p, done |-> c.done, total |-> c.total]
      /\ UNCHANGED <<pending, finished, heartbeats, daemon, stop, crashes, did, late, mixed, emptied, cut>>
  BY <1>1 DEF Looped!WriteStatus, Looped!ghosts
<1>6. Moved(p, d)
  <2>1. \/ d.kind = "daemon" /\ d.pc = "state"
        \/ d.kind = "watch" /\ d.pc \in {"pass", "ended"}
    BY <1>2, <1>3, <1>4
  <2>2. "state" \in LoopPlaces("daemon") /\ {"pass", "ended"} \subseteq LoopPlaces("watch")
    BY DEF LoopPlaces, Between
  <2>3. d.pc \in LoopPlaces(d.kind)
    BY <2>1, <2>2
  <2> QED BY <1>1, <1>2, <1>3, <1>4, <1>5, <2>3 DEF Moved, Looped!Active
<1>7. Counted(p, d)
  BY <1>1, <1>2, <1>4, <1>5 DEF Counted
<1>8. Heeded(p, d) /\ stop' \in BOOLEAN
  <2>1. stop' \in BOOLEAN /\ stop' = stop
    BY <1>5, Zenon DEF LoopsInv, LoopTypes
  <2> QED BY <1>2, <1>4, <2>1 DEF Heeded
<1>9. Written(p, d)
  BY <1>1, <1>2, <1>4, <1>5 DEF Written
<1>10. Stated(p, d)
  BY <1>2, <1>4, <1>5 DEF Stated, Between
<1> QED BY <1>6, <1>7, <1>8, <1>9, <1>10, MoveKeeps

LEMMA ClearKeeps ==
    ASSUME LoopsInv, Looped!LoopsAssumption, NEW p \in Procs, Looped!Clear(p)
    PROVE  LoopsInv'
<1>1. PICK c : c = command[p]
  OBVIOUS
<1>2. /\ c.pc = "clear" /\ c.kind = "daemon" /\ daemon # None
      /\ daemon.who = p => ~daemon.running /\ daemon.total = did[p]
  <2>1. c.pc = "clear"
    BY <1>1 DEF Looped!Clear, Looped!In
  <2> QED BY <1>1, <2>1, AtPlace, AtState
<1>3. PICK d : d = Looped!Over(p, "ended")
  OBVIOUS
<1>4. /\ d \in Looped!Loop /\ d.pc = "ended" /\ d.kind = "daemon" /\ d.done = 0 /\ d.total = 0
      /\ d.run = 0 /\ d.seen = <<>>
  BY <1>1, <1>2, <1>3, OverFields
<1>5. /\ command' = [command EXCEPT ![p] = d] /\ stop' = FALSE
      /\ UNCHANGED <<pending, finished, heartbeats, status, daemon, crashes, did, late, mixed, emptied, cut>>
  BY <1>3 DEF Looped!Clear, Looped!ghosts
<1>6. Moved(p, d)
  BY <1>1, <1>2, <1>4, <1>5 DEF Moved, Looped!Active, LoopPlaces
<1>7. Counted(p, d)
  BY <1>1, <1>2, <1>4, <1>5 DEF Counted
<1>8. Heeded(p, d) /\ stop' \in BOOLEAN
  BY <1>4, <1>5 DEF Heeded
<1>9. Written(p, d)
  BY <1>5 DEF Written
<1>10. Stated(p, d)
  BY <1>2, <1>4, <1>5 DEF Stated, Between
<1> QED BY <1>6, <1>7, <1>8, <1>9, <1>10, MoveKeeps

\* A drain says nothing of itself in the files.
LEMMA DrainKeeps ==
    ASSUME LoopsInv, Looped!LoopsAssumption, NEW p \in Procs, NEW d, Moved(p, d),
           command[p].kind = "drain", d.pc # "append",
           d.left = 0 => p \in emptied \/ d.pc = "dead",
           UNCHANGED <<heartbeats, status, daemon, stop>>
    PROVE  LoopsInv'
<1>1. d.kind = "drain"
  BY DEF Moved
<1>2. Counted(p, d)
  BY <1>1 DEF Counted
<1>3. Heeded(p, d) /\ stop' \in BOOLEAN
  BY <1>1, Zenon DEF Heeded, LoopsInv, LoopTypes
<1>4. Written(p, d)
  BY DEF Written
<1>5. daemon # None => daemon.who # p
  <2>1. PICK c : c = command[p]
    OBVIOUS
  <2> QED BY <2>1, AtState
<1>6. Stated(p, d)
  BY <1>1, <1>5 DEF Stated
<1> QED BY <1>2, <1>3, <1>4, <1>6, MoveKeeps

LEMMA InitialKeeps ==
    ASSUME LoopsInv, Looped!LoopsAssumption, NEW p \in Procs, Looped!Initial(p)
    PROVE  LoopsInv'
<1>1. PICK c : c = command[p]
  OBVIOUS
<1>2. /\ c.pc = "initial" /\ c.kind = "drain" /\ c \in Looped!Loop /\ c.run = 0 /\ c.total = 0
      /\ pending \in Nat
  <2>1. c.pc = "initial"
    BY <1>1 DEF Looped!Initial, Looped!In
  <2>2. c.kind = "drain" => c.total = 0
    BY <1>1 DEF LoopsInv, PlaceInv
  <2> QED BY <1>1, <2>1, <2>2, AtPlace DEF LoopsInv, LoopTypes
<1>3. PICK w \in {"ended", "count"} : w = IF pending = 0 THEN "ended" ELSE "count"
  OBVIOUS
<1>4. PICK d : d = [c EXCEPT !.left = pending, !.pc = w]
  OBVIOUS
<1>5. /\ d \in Looped!Loop /\ d.pc = w /\ d.kind = "drain" /\ d.left = pending /\ d.total = 0
      /\ d.run = 0 /\ d.seen = c.seen
  BY <1>2, <1>4 DEF Looped!Loop, Looped!Steps
<1>6. /\ command' = [command EXCEPT ![p] = d]
      /\ UNCHANGED <<pending, finished, heartbeats, status, daemon, stop, did, late, mixed, emptied, cut>>
  BY <1>1, <1>3, <1>4 DEF Looped!Initial, Looped!ghosts
<1>7. Moved(p, d)
  BY <1>1, <1>2, <1>5, <1>6 DEF Moved, Looped!Active, LoopPlaces
<1>8. d.left = 0 => p \in emptied
  BY <1>1, <1>2, <1>5 DEF LoopsInv, EmptyInv, Looped!Active
<1> QED BY <1>1, <1>2, <1>5, <1>6, <1>7, <1>8, DrainKeeps

LEMMA CountKeeps ==
    ASSUME LoopsInv, Looped!LoopsAssumption, NEW p \in Procs, Looped!Count(p)
    PROVE  LoopsInv'
<1>1. PICK c : c = command[p]
  OBVIOUS
<1>2. /\ c.pc = "count" /\ c.kind = "drain" /\ c \in Looped!Loop /\ c.run = 0 /\ c.total = 0
      /\ c.done \in 0 .. MaxPasses
      /\ c.left = 0 => p \in emptied
  <2>1. c.pc = "count"
    BY <1>1 DEF Looped!Count, Looped!In
  <2>2. c.kind = "drain" => c.total = 0
    BY <1>1 DEF LoopsInv, PlaceInv
  <2>3. c.kind = "drain" /\ c.left = 0 => p \in emptied
    BY <1>1, <2>1 DEF LoopsInv, EmptyInv
  <2> QED BY <1>1, <2>1, <2>2, <2>3, AtPlace
<1>3. PICK d : /\ command' = [command EXCEPT ![p] = d]
               /\ \/ d = Looped!Over(p, "ended")
                  \/ c.done # MaxPasses /\ d = [c EXCEPT !.pc = "pass"]
  BY <1>1 DEF Looped!Count, Looped!To
<1>4. /\ d \in Looped!Loop /\ d.pc \in {"ended", "pass"} /\ d.kind = "drain" /\ d.left = c.left
      /\ d.run = 0 /\ d.total = 0 /\ d.seen \in {c.seen, <<>>}
      /\ d.pc = "pass" => d.done < MaxPasses
  <2>1. CASE d = Looped!Over(p, "ended")
    BY <1>1, <1>2, <2>1, OverFields
  <2>2. CASE c.done # MaxPasses /\ d = [c EXCEPT !.pc = "pass"]
    <3>1. c.done < MaxPasses
      BY <1>2, <2>2 DEF Looped!LoopsAssumption
    <3> QED BY <1>2, <2>2, <3>1, PlacedFields DEF Looped!Steps
  <2> QED BY <1>3, <2>1, <2>2
<1>5. UNCHANGED <<pending, finished, heartbeats, status, daemon, stop, did, late, mixed, emptied, cut>>
  BY DEF Looped!Count, Looped!ghosts
<1>6. Moved(p, d)
  BY <1>1, <1>2, <1>3, <1>4, <1>5 DEF Moved, Looped!Active, LoopPlaces
<1> QED BY <1>1, <1>2, <1>4, <1>5, <1>6, DrainKeeps

LEMMA LeftKeeps ==
    ASSUME LoopsInv, Looped!LoopsAssumption, NEW p \in Procs, Looped!Left(p)
    PROVE  LoopsInv'
<1>1. PICK c : c = command[p]
  OBVIOUS
<1>2. /\ c.pc = "left" /\ c.kind = "drain" /\ c \in Looped!Loop /\ c.run = 0 /\ c.total = 0
      /\ c.done \in 0 .. MaxPasses /\ c.done < MaxPasses /\ pending \in Nat
  <2>1. c.pc = "left"
    BY <1>1 DEF Looped!Left, Looped!In
  <2>2. c.kind = "drain" => c.total = 0
    BY <1>1 DEF LoopsInv, PlaceInv
  <2> QED BY <1>1, <2>1, <2>2, AtPlace DEF LoopsInv, LoopTypes
<1>3. PICK w \in {"ended", "count"} : w = IF pending = 0 THEN "ended" ELSE "count"
  OBVIOUS
<1>4. PICK d : d = [c EXCEPT !.left = pending, !.done = @ + 1, !.pc = w]
  OBVIOUS
<1>5. /\ d \in Looped!Loop /\ d.pc = w /\ d.kind = "drain" /\ d.left = pending /\ d.total = 0
      /\ d.run = 0 /\ d.seen = c.seen
  <2>1. c.done + 1 \in 0 .. MaxPasses
    BY <1>2 DEF Looped!LoopsAssumption
  <2> QED BY <1>2, <1>4, <2>1 DEF Looped!Loop, Looped!Steps
<1>6. /\ command' = [command EXCEPT ![p] = d]
      /\ UNCHANGED <<pending, finished, heartbeats, status, daemon, stop, did, late, mixed, emptied, cut>>
  BY <1>1, <1>3, <1>4 DEF Looped!Left, Looped!ghosts
<1>7. Moved(p, d)
  BY <1>1, <1>2, <1>5, <1>6 DEF Moved, Looped!Active, LoopPlaces
<1>8. d.left = 0 => p \in emptied
  BY <1>1, <1>2, <1>5 DEF LoopsInv, EmptyInv, Looped!Active
<1> QED BY <1>1, <1>2, <1>5, <1>6, <1>7, <1>8, DrainKeeps

\* A process dies in the write of the log, which is left empty: the log then lacks the lines
\* of every process that had started, and the others have written none.
LEMMA CutKeeps ==
    ASSUME LoopsInv, Looped!LoopsAssumption, NEW p \in Procs, NEW c, c = command[p], NEW d,
           c.pc \notin {"off", "ended", "dead"}, c.kind # "none", "dead" \in LoopPlaces(c.kind),
           daemon # None /\ daemon.who = p => c.kind = "daemon",
           d \in Looped!Loop, d.pc = "dead", d.kind = c.kind, d.done = 0, d.total = 0,
           d.run = 0, d.seen = <<>>, command' = [command EXCEPT ![p] = d],
           UNCHANGED <<pending, finished, status, daemon, stop, did, late, mixed, emptied>>,
           heartbeats' = <<>>, cut' = {q \in Procs : command[q].pc # "off"}
    PROVE  LoopsInv'
<1>1. /\ command'[p] = d /\ \A q \in Procs \ {p} : command'[q] = command[q]
      /\ command' \in [Procs -> Looped!Loop]
  BY DEF LoopsInv, LoopTypes
<1>2. LoopTypes'
  <2>1. stop' \in BOOLEAN
    BY Zenon DEF LoopsInv, LoopTypes
  <2>2. heartbeats' \in Seq(Looped!Line) /\ cut' \subseteq Procs
    OBVIOUS
  <2> QED BY <1>1, <2>1, <2>2 DEF LoopsInv, LoopTypes
<1>3. PlaceInv'
  <2> SUFFICES ASSUME NEW q \in Procs, NEW e, e = command'[q]
               PROVE  /\ e.pc \in LoopPlaces(e.kind)
                      /\ e.pc \in {"check", "pass", "left"} => e.done < MaxPasses
                      /\ e.pc \notin {"read", "append"} => e.run = 0
                      /\ e.pc \in {"off", "boot", "first"} => e.done = 0 /\ did[q] = 0 /\ late[q] = 0
                      /\ e.kind # "drain" /\ e.pc \notin {"ended", "dead"} => e.total = did[q]
                      /\ e.kind = "drain" \/ e.pc \in {"ended", "dead"} => e.total = 0
    BY DEF PlaceInv
  <2>1. CASE q # p
    BY <1>1, <2>1 DEF LoopsInv, PlaceInv
  <2>2. CASE q = p
    BY <1>1, <2>2
  <2> QED BY <2>1, <2>2
<1>4. SoloInv'
  BY <1>1 DEF LoopsInv, SoloInv, Looped!Active
<1>5. TellInv'
  <2> SUFFICES ASSUME NEW q \in Procs, NEW r \in Procs
               PROVE  /\ Looped!ToldOf(<<>>, q) + command'[q].run <= did[q]
                      /\ Looped!ToldOf(command'[r].seen, q) + command'[q].run <= did[q]
    BY DEF TellInv
  <2>1. /\ Looped!ToldOf(heartbeats, q) + command[q].run <= did[q]
        /\ Looped!ToldOf(command[r].seen, q) + command[q].run <= did[q]
        /\ Looped!ToldOf(<<>>, q) = 0
    BY ToldEmpty DEF LoopsInv, TellInv
  <2>2. /\ command[q].run \in Nat /\ did[q] \in Nat /\ command[r].seen \in Seq(Looped!Line)
        /\ heartbeats \in Seq(Looped!Line)
    BY LoopFields DEF LoopsInv, LoopTypes
  <2>3. Looped!ToldOf(heartbeats, q) \in Nat /\ Looped!ToldOf(command[r].seen, q) \in Nat
    BY <2>2, ToldCounts
  <2>4. command'[q].run \in {0, command[q].run}
    BY <1>1
  <2>5. command'[r].seen \in {<<>>, command[r].seen}
    BY <1>1
  <2> QED BY <2>1, <2>2, <2>3, <2>4, <2>5
<1>6. ExactInv'
  <2> SUFFICES ASSUME mixed = {}
               PROVE  /\ \A q \in Procs : LET e == command'[q] IN
                           /\ e.pc = "append" => e.seen = <<>>
                           /\ e.kind # "drain" /\ q \notin cut' => Backed(<<>>, q, e.done - Owed(e), e.total - e.run)
                      /\ status # None => status.who \in cut'
                      /\ daemon # None => daemon.who \in cut'
    BY DEF ExactInv
  <2>1. status # None => status.who \in cut'
    BY DEF LoopsInv, LoopTypes, StatusInv, Looped!Report
  <2>2. daemon # None => daemon.who \in cut'
    <3>1. ASSUME daemon # None PROVE daemon.who \in Procs /\ command[daemon.who].kind = "daemon"
      BY <3>1 DEF LoopsInv, LoopTypes, StateInv, Looped!Statement
    <3>2. \A q \in Procs : command[q].kind = "daemon" => command[q].pc # "off"
      BY DEF LoopsInv, PlaceInv, LoopPlaces, Between
    <3> QED BY <3>1, <3>2
  <2>3. ASSUME NEW q \in Procs, NEW e, e = command'[q]
        PROVE  /\ e.pc # "append"
               /\ q \notin cut' => Backed(<<>>, q, e.done - Owed(e), e.total - e.run)
    <3>1. CASE q = p
      BY <1>1, <2>3, <3>1
    <3>2. CASE q # p
      <4>1. e = command[q] /\ e.pc \in {"off", "ended", "dead"}
        BY <1>1, <2>3, <3>2 DEF LoopsInv, SoloInv, Looped!Active
      <4>2. CASE e.pc = "off"
        <5>1. e.done = 0 /\ e.total = 0 /\ e.run = 0 /\ Owed(e) = 0
          BY <4>1, <4>2 DEF LoopsInv, PlaceInv, Owed
        <5>2. Cardinality(Looped!LinesOf(<<>>, q)) = 0 /\ Looped!ToldOf(<<>>, q) = 0
          BY ToldEmpty
        <5>3. e.done - Owed(e) = 0 /\ e.total - e.run = 0
          BY <5>1
        <5> QED BY <4>2, <5>2, <5>3 DEF Backed
      <4> QED BY <4>1, <4>2
    <3> QED BY <3>1, <3>2
  <2> QED BY <2>1, <2>2, <2>3
<1>7. StatusInv'
  BY <1>1 DEF LoopsInv, StatusInv, LoopTypes, Looped!Report
<1>8. StateInv'
  <2>1. daemon # None => daemon.who \in Procs
    BY DEF LoopsInv, LoopTypes, Looped!Statement
  <2>2. daemon # None => LET e == command'[daemon.who] IN
          /\ e.kind = "daemon" /\ e.pc \notin {"boot", "first"}
          /\ e.pc \in {"clear", "ended"} => ~daemon.running /\ daemon.total = did[daemon.who]
    BY <1>1, <2>1 DEF LoopsInv, StateInv
  <2>3. ASSUME NEW q \in Procs, NEW e, e = command'[q], e.kind = "daemon"
        PROVE  /\ e.pc \in Between \cup {"clear", "ended"} => daemon # None
               /\ q \notin mixed /\ e.pc \in Between => daemon.who = q /\ daemon.running
    <3>1. CASE q = p
      BY <1>1, <2>3, <3>1 DEF Between
    <3>2. CASE q # p
      BY <1>1, <2>3, <3>2 DEF LoopsInv, StateInv
    <3> QED BY <3>1, <3>2
  <2> QED BY <2>2, <2>3 DEF StateInv
<1>9. LateInv'
  <2> SUFFICES ASSUME NEW q \in Procs \ mixed, NEW e, e = command'[q], e.kind = "daemon"
               PROVE  /\ late[q] <= 1
                      /\ late[q] = 1 /\ e.pc \notin {"off", "ended", "dead"} =>
                           stop /\ e.pc \notin {"boot", "first", "pass"}
    BY Zenon DEF LateInv, Looped!Active
  <2>1. CASE q = p
    BY <1>1, <2>1 DEF LoopsInv, LateInv
  <2>2. CASE q # p
    BY <1>1, <2>2, Zenon DEF LoopsInv, LateInv, Looped!Active
  <2> QED BY <2>1, <2>2
<1>10. EmptyInv'
  BY <1>1 DEF LoopsInv, EmptyInv, Looped!Active
<1> QED BY <1>2, <1>3, <1>4, <1>5, <1>6, <1>7, <1>8, <1>9, <1>10 DEF LoopsInv

LEMMA LoopCrashKeeps ==
    ASSUME LoopsInv, Looped!LoopsAssumption, NEW p \in Procs, Looped!Crash(p)
    PROVE  LoopsInv'
<1>1. PICK c : c = command[p]
  OBVIOUS
<1>2. /\ c.pc \notin {"off", "ended", "dead"} /\ c.pc \in LoopPlaces(c.kind)
      /\ c.kind \in {"none", "daemon", "watch", "drain"}
      /\ daemon # None /\ daemon.who = p => c.kind = "daemon"
  <2>1. c \in Looped!Loop
    BY <1>1 DEF LoopsInv, LoopTypes
  <2> QED BY <1>1, <2>1, LoopFields, AtState DEF Looped!Crash, Looped!Active, LoopsInv, PlaceInv
<1>3. PICK d : d = Looped!Over(p, "dead")
  OBVIOUS
<1>4. /\ d \in Looped!Loop /\ d.pc = "dead" /\ d.kind = c.kind /\ d.done = 0 /\ d.total = 0
      /\ d.run = 0 /\ d.seen = <<>>
  BY <1>1, <1>3, OverFields
<1>5. /\ command' = [command EXCEPT ![p] = d]
      /\ UNCHANGED <<pending, finished, status, daemon, stop, did, late, mixed, emptied>>
  BY <1>3 DEF Looped!Crash
<1>6. c.kind # "none" /\ "dead" \in LoopPlaces(c.kind)
  BY <1>2 DEF LoopPlaces
<1>7. CASE UNCHANGED <<heartbeats, cut>>
  <2>1. Moved(p, d)
    BY <1>1, <1>2, <1>4, <1>5, <1>6, <1>7 DEF Moved, Looped!Active
  <2>2. Counted(p, d)
    BY <1>4, <1>7 DEF Counted
  <2>3. Heeded(p, d) /\ stop' \in BOOLEAN
    BY <1>4, <1>5, Zenon DEF Heeded, LoopsInv, LoopTypes
  <2>4. Written(p, d)
    BY <1>5 DEF Written
  <2>5. Stated(p, d)
    BY <1>2, <1>4, <1>5 DEF Stated, Between
  <2> QED BY <2>1, <2>2, <2>3, <2>4, <2>5, MoveKeeps
<1>8. CASE heartbeats' = <<>> /\ cut' = {q \in Procs : ~Looped!In(q, "off")}
  <2>1. cut' = {q \in Procs : command[q].pc # "off"}
    BY <1>8 DEF Looped!In
  <2> QED BY <1>1, <1>2, <1>4, <1>5, <1>6, <1>8, <2>1, CutKeeps
<1> QED BY <1>7, <1>8 DEF Looped!Crash

\* The line is added to the copy that was read: the log then tells of the pass, and of what
\* the copy told.
LEMMA AppendLineKeeps ==
    ASSUME LoopsInv, Looped!LoopsAssumption, NEW p \in Procs, Looped!AppendLine(p)
    PROVE  LoopsInv'
<1>1. PICK c : c = command[p]
  OBVIOUS
<1>2. /\ c.pc = "append" /\ c.kind \in {"daemon", "watch"} /\ c \in Looped!Loop
      /\ c.run \in 0 .. MaxJobs /\ c.seen \in Seq(Looped!Line) /\ c.done \in 0 .. MaxPasses
      /\ c.total \in Nat
      /\ daemon # None /\ daemon.who = p => c.kind = "daemon"
      /\ c.kind = "daemon" => daemon # None
      /\ c.kind = "daemon" /\ p \notin mixed => daemon.who = p /\ daemon.running
      /\ c.kind = "daemon" /\ p \notin mixed /\ late[p] = 1 => stop
  <2>1. c.pc = "append"
    BY <1>1 DEF Looped!AppendLine, Looped!In
  <2>2. c \in Looped!Loop
    BY <1>1, AtPlace
  <2>3. c.run \in 0 .. MaxJobs /\ c.seen \in Seq(Looped!Line)
    BY <2>2 DEF Looped!Loop
  <2> QED BY <1>1, <2>1, <2>3, AtPlace, AtState DEF Between, Looped!Active
<1>3. PICK d : d = [c EXCEPT !.pc = "status", !.seen = <<>>, !.run = 0]
  OBVIOUS
<1>4. /\ d \in Looped!Loop /\ d.pc = "status" /\ d.kind = c.kind /\ d.done = c.done
      /\ d.total = c.total /\ d.run = 0 /\ d.seen = <<>>
  <2>1. 0 \in 0 .. MaxJobs /\ <<>> \in Seq(Looped!Line) /\ "status" \in Looped!Steps
    BY DEF Looped!LoopsAssumption, Looped!Steps
  <2> QED BY <1>2, <1>3, <2>1 DEF Looped!Loop
<1>5. PICK l : l = [who |-> p, did |-> c.run]
  OBVIOUS
<1>6. l \in Looped!Line /\ l.who = p /\ l.did = c.run
  BY <1>2, <1>5 DEF Looped!Line
<1>7. /\ command' = [command EXCEPT ![p] = d] /\ heartbeats' = Append(c.seen, l)
      /\ UNCHANGED <<pending, finished, status, daemon, stop, did, late, mixed, emptied, cut>>
  BY <1>1, <1>3, <1>5 DEF Looped!AppendLine, Looped!ghosts
<1>8. heartbeats' \in Seq(Looped!Line)
  BY <1>2, <1>6, <1>7
<1>9. Moved(p, d)
  BY <1>1, <1>2, <1>4, <1>7 DEF Moved, Looped!Active, LoopPlaces, Between
<1>10. /\ command'[p] = d /\ \A q \in Procs \ {p} : command'[q] = command[q]
       /\ command' \in [Procs -> Looped!Loop] /\ PlaceInv' /\ SoloInv'
  BY <1>9, MovedKeeps
<1>11. \A q \in Procs : /\ Looped!ToldOf(c.seen, q) \in Nat
                        /\ Cardinality(Looped!LinesOf(c.seen, q)) \in Nat
                        /\ Looped!ToldOf(Append(c.seen, l), q) =
                             Looped!ToldOf(c.seen, q) + (IF q = p THEN c.run ELSE 0)
                        /\ Cardinality(Looped!LinesOf(Append(c.seen, l), q)) =
                             Cardinality(Looped!LinesOf(c.seen, q)) + (IF q = p THEN 1 ELSE 0)
  <2> TAKE q \in Procs
  <2>1. /\ Cardinality(Looped!LinesOf(c.seen, q)) \in Nat /\ Looped!ToldOf(c.seen, q) \in Nat
        /\ Cardinality(Looped!LinesOf(Append(c.seen, l), q)) =
             Cardinality(Looped!LinesOf(c.seen, q)) + (IF l.who = q THEN 1 ELSE 0)
        /\ Looped!ToldOf(Append(c.seen, l), q) =
             Looped!ToldOf(c.seen, q) + (IF l.who = q THEN l.did ELSE 0)
    BY <1>2, <1>6, ToldAppend
  <2> QED BY <1>6, <2>1
<1>12. TellInv'
  <2> SUFFICES ASSUME NEW q \in Procs, NEW r \in Procs
               PROVE  /\ Looped!ToldOf(heartbeats', q) + command'[q].run <= did[q]
                      /\ Looped!ToldOf(command'[r].seen, q) + command'[q].run <= did[q]
    BY <1>7 DEF TellInv
  <2>1. /\ Looped!ToldOf(c.seen, q) + command[q].run <= did[q]
        /\ Looped!ToldOf(command[r].seen, q) + command[q].run <= did[q]
    BY <1>1 DEF LoopsInv, TellInv
  <2>2. /\ command[q].run \in Nat /\ did[q] \in Nat /\ command[r].seen \in Seq(Looped!Line)
        /\ command[q].run \in Int
    BY LoopFields DEF LoopsInv, LoopTypes
  <2>3. Looped!ToldOf(command[r].seen, q) \in Nat /\ Looped!ToldOf(<<>>, q) = 0
    BY <2>2, ToldCounts, ToldEmpty
  <2>4. command'[q].run = IF q = p THEN 0 ELSE command[q].run
    BY <1>4, <1>10
  <2>5. command'[r].seen \in {<<>>, command[r].seen}
    BY <1>4, <1>10
  <2>6. Looped!ToldOf(c.seen, q) \in Nat /\ Looped!ToldOf(heartbeats', q) =
          Looped!ToldOf(c.seen, q) + (IF q = p THEN command[q].run ELSE 0)
    BY <1>1, <1>7, <1>11
  <2>7. Looped!ToldOf(heartbeats', q) + command'[q].run <= did[q]
    BY <2>1, <2>2, <2>4, <2>6
  <2>8. Looped!ToldOf(command'[r].seen, q) + command'[q].run <= did[q]
    BY <2>1, <2>2, <2>3, <2>4, <2>5
  <2> QED BY <2>7, <2>8
<1>13. ExactInv'
  <2> SUFFICES ASSUME mixed = {}
               PROVE  /\ \A q \in Procs : LET e == command'[q] IN
                           /\ e.pc = "append" => e.seen = heartbeats'
                           /\ e.kind # "drain" /\ q \notin cut => Backed(heartbeats', q, e.done - Owed(e), e.total - e.run)
                      /\ status # None /\ status.who \notin cut => Backed(heartbeats', status.who, status.done, status.total)
                      /\ daemon # None /\ daemon.who \notin cut => Backed(heartbeats', daemon.who, daemon.done, daemon.total)
    BY <1>7 DEF ExactInv
  <2>1. c.seen = heartbeats
    BY <1>1, <1>2 DEF LoopsInv, ExactInv
  <2>2. ASSUME NEW q \in Procs, NEW m \in Int, NEW t \in Int, Backed(heartbeats, q, m, t)
        PROVE  Backed(heartbeats', q, m, t)
    <3>1. c.run \in Nat
      BY <1>2 DEF Looped!LoopsAssumption
    <3> QED BY <1>7, <1>11, <2>1, <2>2, <3>1 DEF Backed
  <2>3. status # None /\ status.who \notin cut => Backed(heartbeats', status.who, status.done, status.total)
    <3>1. status # None => /\ status.who \in Procs /\ status.done \in Int /\ status.total \in Int
                           /\ status.who \notin cut => Backed(heartbeats, status.who, status.done, status.total)
      BY DEF LoopsInv, LoopTypes, ExactInv, Looped!Report
    <3> QED BY <2>2, <3>1
  <2>4. daemon # None /\ daemon.who \notin cut => Backed(heartbeats', daemon.who, daemon.done, daemon.total)
    <3>1. daemon # None => /\ daemon.who \in Procs /\ daemon.done \in Int /\ daemon.total \in Int
                           /\ daemon.who \notin cut => Backed(heartbeats, daemon.who, daemon.done, daemon.total)
      BY DEF LoopsInv, LoopTypes, ExactInv, Looped!Statement
    <3> QED BY <2>2, <3>1
  <2>5. ASSUME NEW q \in Procs, NEW e, e = command'[q]
        PROVE  /\ e.pc = "append" => e.seen = heartbeats'
               /\ e.kind # "drain" /\ q \notin cut => Backed(heartbeats', q, e.done - Owed(e), e.total - e.run)
    <3>1. CASE q = p
      <4>1. e = d /\ Owed(d) = 0 /\ Owed(c) = 1
        BY <1>2, <1>4, <1>10, <2>5, <3>1 DEF Owed
      <4>2. p \notin cut => Backed(heartbeats, p, c.done - 1, c.total - c.run)
        BY <1>1, <1>2, <4>1 DEF LoopsInv, ExactInv
      <4>3. p \notin cut => Backed(heartbeats', p, c.done, c.total)
        BY <1>2, <1>7, <1>11, <2>1, <4>2 DEF Backed
      <4>4. c.done - 0 = c.done /\ c.total - 0 = c.total
        BY <1>2
      <4> QED BY <1>4, <3>1, <4>1, <4>3, <4>4
    <3>2. CASE q # p
      <4>1. e = command[q] /\ e \in Looped!Loop
        BY <1>10, <2>5, <3>2 DEF LoopsInv, LoopTypes
      <4>2. e.kind # "drain" /\ q \notin cut => Backed(heartbeats, q, e.done - Owed(e), e.total - e.run)
        BY <4>1 DEF LoopsInv, ExactInv
      <4>3. e.done - Owed(e) \in Int /\ e.total - e.run \in Int
        <5>1. e.done \in 0 .. MaxPasses /\ e.total \in Nat /\ e.run \in Nat
          BY <4>1, LoopFields
        <5> QED BY <5>1 DEF Owed
      <4>4. e.pc # "append"
        BY <1>1, <1>2, <3>2, <4>1 DEF LoopsInv, SoloInv, Looped!Active
      <4> QED BY <2>2, <4>2, <4>3, <4>4
    <3> QED BY <3>1, <3>2
  <2> QED BY <2>3, <2>4, <2>5
<1>14. stop' \in BOOLEAN /\ stop' = stop
  BY <1>7, Zenon DEF LoopsInv, LoopTypes
<1>15. LateInv'
  <2>1. p \notin mixed /\ d.kind = "daemon" /\ late[p] = 1 => stop'
    BY <1>2, <1>4, <1>14, Zenon
  <2> QED BY <1>4, <1>9, <1>10, <2>1, MovedLate
<1>16. EmptyInv'
  BY <1>2, <1>4, <1>9, <1>10, MovedEmpty
<1>17. StateInv'
  BY <1>2, <1>4, <1>7, <1>9, <1>10, MovedState DEF Between
<1>18. StatusInv'
  BY <1>4, <1>7, <1>10 DEF LoopsInv, StatusInv, LoopTypes, Looped!Report
<1> QED BY <1>7, <1>8, <1>10, <1>12, <1>13, <1>14, <1>15, <1>16, <1>17, <1>18 DEF LoopsInv, LoopTypes

\* A process that has done as much more as it has yet to tell has told of no more than that.
LEMMA NoMoreTold ==
    ASSUME NEW told \in Nat, NEW owed \in Nat, NEW owes \in Nat, NEW done \in Nat,
           NEW does \in Nat, told + owed <= done, owes - owed <= does - done
    PROVE  told + owes <= does
  OBVIOUS

\* A pass: what it did is counted by its process, and by the ghosts.
LEMMA PassKeeps ==
    ASSUME LoopsInv, Looped!LoopsAssumption, NEW p \in Procs, Looped!Pass(p)
    PROVE  LoopsInv'
<1>1. PICK c : c = command[p]
  OBVIOUS
<1>2. /\ c.pc = "pass" /\ c.kind \in {"daemon", "watch", "drain"} /\ c \in Looped!Loop /\ c.run = 0
      /\ c.done \in 0 .. MaxPasses /\ c.done < MaxPasses /\ c.total \in Nat
      /\ c.kind # "drain" => c.total = did[p]
      /\ c.kind = "drain" => c.total = 0
  <2>1. c.pc = "pass"
    BY <1>1 DEF Looped!Pass, Looped!In
  <2>2. c.kind = "drain" => c.total = 0
    BY <1>1 DEF LoopsInv, PlaceInv
  <2> QED BY <1>1, <2>1, <2>2, AtPlace
<1>3. PICK n \in 0 .. MaxJobs, ok \in BOOLEAN :
        /\ n <= pending /\ Looped!Queue(pending - n, finished + n)
        /\ command' = [command EXCEPT ![p] =
             IF ~ok THEN Looped!Over(p, "dead")
             ELSE IF @.kind = "drain" THEN [@ EXCEPT !.pc = "left"]
             ELSE [@ EXCEPT !.pc = "read", !.run = n, !.total = c.total + n, !.done = c.done + 1]]
        /\ did' = [did EXCEPT ![p] = @ + n]
        /\ late' = [late EXCEPT ![p] = IF stop THEN @ + 1 ELSE @]
        /\ UNCHANGED <<heartbeats, status, daemon, stop, mixed, cut>>
  BY <1>1 DEF Looped!Pass
<1>4. PICK d : /\ command' = [command EXCEPT ![p] = d]
               /\ \/ d = Looped!Over(p, "dead")
                  \/ c.kind = "drain" /\ d = [c EXCEPT !.pc = "left"]
                  \/ c.kind # "drain" /\ d = [c EXCEPT !.pc = "read", !.run = n,
                                                       !.total = c.total + n, !.done = c.done + 1]
  <2>1. CASE ~ok
    <3>1. command' = [command EXCEPT ![p] = Looped!Over(p, "dead")]
      BY <1>3, <2>1
    <3> QED BY <3>1
  <2>2. CASE ok /\ c.kind = "drain"
    <3>1. command' = [command EXCEPT ![p] = [c EXCEPT !.pc = "left"]]
      BY <1>1, <1>3, <2>2
    <3> QED BY <2>2, <3>1
  <2>3. CASE ok /\ c.kind # "drain"
    <3>1. command' = [command EXCEPT ![p] =
                        [c EXCEPT !.pc = "read", !.run = n, !.total = c.total + n, !.done = c.done + 1]]
      BY <1>1, <1>3, <2>3
    <3> QED BY <2>3, <3>1
  <2> QED BY <2>1, <2>2, <2>3
<1>5. n \in Nat /\ MaxPasses \in Nat /\ pending \in Nat /\ finished \in Nat /\ did[p] \in Nat /\ late[p] \in Nat
  BY DEF Looped!LoopsAssumption, LoopsInv, LoopTypes
<1>6. /\ d \in Looped!Loop /\ d.kind = c.kind /\ d.seen \in {c.seen, <<>>}
      /\ \/ d.pc = "dead" /\ d.run = 0 /\ d.done = 0 /\ d.total = 0
         \/ d.pc = "left" /\ c.kind = "drain" /\ d.run = 0 /\ d.done = c.done /\ d.total = 0
            /\ d.left = c.left
         \/ d.pc = "read" /\ c.kind # "drain" /\ d.run = n /\ d.done = c.done + 1
            /\ d.total = c.total + n
  <2>1. CASE d = Looped!Over(p, "dead")
    BY <1>1, <2>1, OverFields
  <2>2. CASE c.kind = "drain" /\ d = [c EXCEPT !.pc = "left"]
    BY <1>2, <2>2, PlacedFields DEF Looped!Steps
  <2>3. CASE c.kind # "drain" /\ d = [c EXCEPT !.pc = "read", !.run = n, !.total = c.total + n,
                                          !.done = c.done + 1]
    <3>1. c.done + 1 \in 0 .. MaxPasses /\ c.total + n \in Nat /\ "read" \in Looped!Steps
      BY <1>2, <1>5 DEF Looped!Steps
    <3> QED BY <1>2, <2>3, <3>1 DEF Looped!Loop
  <2> QED BY <1>4, <2>1, <2>2, <2>3
<1>7. /\ command'[p] = d /\ \A q \in Procs \ {p} : command'[q] = command[q]
      /\ command' \in [Procs -> Looped!Loop]
      /\ did'[p] = did[p] + n /\ \A q \in Procs \ {p} : did'[q] = did[q]
      /\ late'[p] = (IF stop THEN late[p] + 1 ELSE late[p])
      /\ \A q \in Procs \ {p} : late'[q] = late[q]
  <2>1. /\ command \in [Procs -> Looped!Loop] /\ did \in [Procs -> Nat] /\ late \in [Procs -> Nat]
    BY DEF LoopsInv, LoopTypes
  <2>2. /\ command'[p] = d /\ \A q \in Procs \ {p} : command'[q] = command[q]
        /\ command' \in [Procs -> Looped!Loop]
    BY <1>4, <1>6, <2>1
  <2>3. did'[p] = did[p] + n /\ \A q \in Procs \ {p} : did'[q] = did[q]
    BY <1>3, <2>1
  <2>4. /\ late'[p] = (IF stop THEN late[p] + 1 ELSE late[p])
        /\ \A q \in Procs \ {p} : late'[q] = late[q]
    BY <1>3, <2>1
  <2> QED BY <2>2, <2>3, <2>4
<1>8. /\ pending' = pending - n /\ finished' = finished + n
      /\ emptied \subseteq emptied' /\ emptied' \subseteq Procs
      /\ pending' = 0 => \A q \in Procs : Looped!Active(q) => q \in emptied'
  BY <1>3, <1>5 DEF Looped!Queue, Looped!Actives, LoopsInv, LoopTypes
<1>9. stop' \in BOOLEAN /\ stop' = stop
  BY <1>3, Zenon DEF LoopsInv, LoopTypes
<1>10. LoopTypes'
  <2>1. did' \in [Procs -> Nat] /\ late' \in [Procs -> Nat]
    BY <1>3, <1>5 DEF LoopsInv, LoopTypes
  <2>2. pending' \in Nat /\ finished' \in Nat /\ pending' + finished' = pending + finished
    BY <1>3, <1>5, <1>8
  <2> QED BY <1>3, <1>7, <1>8, <1>9, <2>1, <2>2 DEF LoopsInv, LoopTypes
<1>11. PlaceInv'
  <2> SUFFICES ASSUME NEW q \in Procs, NEW e, e = command'[q]
               PROVE  /\ e.pc \in LoopPlaces(e.kind)
                      /\ e.pc \in {"check", "pass", "left"} => e.done < MaxPasses
                      /\ e.pc \notin {"read", "append"} => e.run = 0
                      /\ e.pc \in {"off", "boot", "first"} => e.done = 0 /\ did'[q] = 0 /\ late'[q] = 0
                      /\ e.kind # "drain" /\ e.pc \notin {"ended", "dead"} => e.total = did'[q]
                      /\ e.kind = "drain" \/ e.pc \in {"ended", "dead"} => e.total = 0
    BY DEF PlaceInv
  <2>1. CASE q # p
    BY <1>7, <2>1 DEF LoopsInv, PlaceInv
  <2>2. CASE q = p
    <3>1. /\ "dead" \in LoopPlaces(c.kind) /\ "left" \in LoopPlaces("drain")
          /\ c.kind # "drain" => "read" \in LoopPlaces(c.kind)
      BY <1>2 DEF LoopPlaces, Between
    <3>2. e = d /\ did'[p] = did[p] + n
      BY <1>7, <2>2
    <3>3. CASE d.pc = "read"
      BY <1>2, <1>6, <2>2, <3>1, <3>2, <3>3
    <3>4. CASE d.pc = "left"
      BY <1>2, <1>6, <2>2, <3>1, <3>2, <3>4
    <3>5. CASE d.pc = "dead"
      BY <1>6, <2>2, <3>1, <3>2, <3>5
    <3> QED BY <1>6, <3>3, <3>4, <3>5
  <2> QED BY <2>1, <2>2
<1>12. SoloInv'
  BY <1>1, <1>2, <1>3, <1>7 DEF LoopsInv, SoloInv, Looped!Active
<1>13. TellInv'
  <2> SUFFICES ASSUME NEW q \in Procs, NEW r \in Procs
               PROVE  /\ Looped!ToldOf(heartbeats, q) + command'[q].run <= did'[q]
                      /\ Looped!ToldOf(command'[r].seen, q) + command'[q].run <= did'[q]
    BY <1>3 DEF TellInv
  <2>1. /\ Looped!ToldOf(heartbeats, q) + command[q].run <= did[q]
        /\ Looped!ToldOf(command[r].seen, q) + command[q].run <= did[q]
    BY DEF LoopsInv, TellInv
  <2>2. /\ command[q].run \in Nat /\ did[q] \in Nat /\ command[r].seen \in Seq(Looped!Line)
        /\ heartbeats \in Seq(Looped!Line)
    BY LoopFields DEF LoopsInv, LoopTypes
  <2>3. /\ Looped!ToldOf(heartbeats, q) \in Nat /\ Looped!ToldOf(command[r].seen, q) \in Nat
        /\ Looped!ToldOf(<<>>, q) = 0
    BY <2>2, ToldCounts, ToldEmpty
  <2>4. /\ command'[r].seen \in {<<>>, command[r].seen}
        /\ command'[q].run \in Nat /\ did'[q] \in Nat
        /\ command'[q].run - command[q].run <= did'[q] - did[q]
    <3>1. CASE q = p
      BY <1>1, <1>2, <1>5, <1>6, <1>7, <3>1
    <3>2. CASE q # p
      BY <1>1, <1>6, <1>7, <2>2, <3>2
    <3> QED BY <3>1, <3>2
  <2>5. ASSUME NEW t \in Nat, t + command[q].run <= did[q]
        PROVE  t + command'[q].run <= did'[q]
    <3>1. /\ command[q].run \in Nat /\ did[q] \in Nat /\ command'[q].run \in Nat
          /\ did'[q] \in Nat /\ command'[q].run - command[q].run <= did'[q] - did[q]
      BY <2>2, <2>4
    <3> QED BY <2>5, <3>1, NoMoreTold, Zenon
  <2>6. 0 \in Nat /\ 0 + command[q].run <= did[q]
    BY <2>1, <2>2, <2>3
  <2>7. /\ Looped!ToldOf(heartbeats, q) + command'[q].run <= did'[q]
        /\ Looped!ToldOf(command[r].seen, q) + command'[q].run <= did'[q]
        /\ Looped!ToldOf(<<>>, q) + command'[q].run <= did'[q]
    BY <2>1, <2>3, <2>5, <2>6, Zenon
  <2> QED BY <2>4, <2>7, Zenon
<1>14. ExactInv'
  <2> SUFFICES ASSUME mixed = {}
               PROVE  /\ \A q \in Procs : LET e == command'[q] IN
                           /\ e.pc = "append" => e.seen = heartbeats
                           /\ e.kind # "drain" /\ q \notin cut => Backed(heartbeats, q, e.done - Owed(e), e.total - e.run)
                      /\ status # None /\ status.who \notin cut => Backed(heartbeats, status.who, status.done, status.total)
                      /\ daemon # None /\ daemon.who \notin cut => Backed(heartbeats, daemon.who, daemon.done, daemon.total)
    BY <1>3 DEF ExactInv
  <2>1. /\ status # None /\ status.who \notin cut => Backed(heartbeats, status.who, status.done, status.total)
        /\ daemon # None /\ daemon.who \notin cut => Backed(heartbeats, daemon.who, daemon.done, daemon.total)
    BY DEF LoopsInv, ExactInv
  <2>2. ASSUME NEW q \in Procs, NEW e, e = command'[q]
        PROVE  /\ e.pc = "append" => e.seen = heartbeats
               /\ e.kind # "drain" /\ q \notin cut => Backed(heartbeats, q, e.done - Owed(e), e.total - e.run)
    <3>1. CASE q # p
      BY <1>7, <2>2, <3>1 DEF LoopsInv, ExactInv
    <3>2. CASE q = p
      <4>1. e = d /\ d.pc # "append"
        BY <1>6, <1>7, <2>2, <3>2
      <4>2. c.kind # "drain" /\ p \notin cut => Backed(heartbeats, p, c.done, c.total)
        <5>1. c.kind # "drain" /\ p \notin cut => Backed(heartbeats, p, c.done - Owed(c), c.total - c.run)
          BY <1>1 DEF LoopsInv, ExactInv
        <5>2. c.done - Owed(c) = c.done /\ c.total - c.run = c.total
          BY <1>2 DEF Owed
        <5> QED BY <5>1, <5>2
      <4>3. CASE d.pc = "dead"
        <5>1. Cardinality(Looped!LinesOf(heartbeats, p)) \in Nat /\ Looped!ToldOf(heartbeats, p) \in Nat
          BY ToldCounts DEF LoopsInv, LoopTypes
        <5>2. Owed(d) = 0 /\ d.done = 0 /\ d.total = 0 /\ d.run = 0
          BY <1>6, <4>3 DEF Owed
        <5> QED BY <3>2, <4>1, <5>1, <5>2 DEF Backed
      <4>4. CASE d.pc = "read"
        <5>1. d.done - Owed(d) = c.done /\ d.total - d.run = c.total
          BY <1>2, <1>5, <1>6, <4>4 DEF Owed
        <5> QED BY <1>6, <3>2, <4>1, <4>2, <5>1
      <4> QED BY <1>6, <4>1, <4>3, <4>4
    <3> QED BY <3>1, <3>2
  <2> QED BY <2>1, <2>2
<1>15. StateInv'
  <2>1. ASSUME daemon # None, NEW q, q = daemon.who, NEW e, e = command'[q]
        PROVE  /\ e.kind = "daemon" /\ e.pc \notin {"boot", "first"}
               /\ e.pc \in {"clear", "ended"} => ~daemon.running /\ daemon.total = did'[q]
    <3>1. q \in Procs
      BY <2>1 DEF LoopsInv, LoopTypes, Looped!Statement
    <3>2. /\ command[q].kind = "daemon" /\ command[q].pc \notin {"boot", "first"}
          /\ command[q].pc \in {"clear", "ended"} => ~daemon.running /\ daemon.total = did[q]
      BY <2>1 DEF LoopsInv, StateInv
    <3>3. CASE q = p
      BY <1>1, <1>6, <1>7, <2>1, <3>2, <3>3
    <3>4. CASE q # p
      BY <1>7, <2>1, <3>1, <3>2, <3>4
    <3> QED BY <3>3, <3>4
  <2>2. ASSUME NEW q \in Procs, NEW e, e = command'[q], e.kind = "daemon"
        PROVE  /\ e.pc \in Between \cup {"clear", "ended"} => daemon # None
               /\ q \notin mixed /\ e.pc \in Between => daemon.who = q /\ daemon.running
    <3>1. command[q].kind = "daemon"
      BY <1>1, <1>6, <1>7, <2>2
    <3>2. /\ command[q].pc \in Between \cup {"clear", "ended"} => daemon # None
          /\ q \notin mixed /\ command[q].pc \in Between => daemon.who = q /\ daemon.running
      BY <3>1 DEF LoopsInv, StateInv
    <3>3. q = p => command[q].pc \in Between
      BY <1>1, <1>2 DEF Between
    <3>4. q # p => e.pc = command[q].pc
      BY <1>7, <2>2
    <3> QED BY <3>2, <3>3, <3>4
  <2> QED BY <1>3, <2>1, <2>2 DEF StateInv
<1>16. LateInv'
  <2> SUFFICES ASSUME NEW q \in Procs \ mixed, NEW e, e = command'[q], e.kind = "daemon"
               PROVE  /\ late'[q] <= 1
                      /\ late'[q] = 1 /\ e.pc \notin {"off", "ended", "dead"} =>
                           stop' /\ e.pc \notin {"boot", "first", "pass"}
    BY <1>3, Zenon DEF LateInv, Looped!Active
  <2>1. /\ command[q].kind = "daemon" => late[q] <= 1
        /\ command[q].kind = "daemon" /\ late[q] = 1 /\ command[q].pc \notin {"off", "ended", "dead"} =>
             stop /\ command[q].pc \notin {"boot", "first", "pass"}
    BY Zenon DEF LoopsInv, LateInv, Looped!Active
  <2>2. CASE q # p
    BY <1>7, <1>9, <2>1, <2>2, Zenon
  <2>3. CASE q = p
    <3>1. late[p] = 0
      <4>1. command[p].kind = "daemon" /\ command[p].pc = "pass"
        BY <1>1, <1>2, <1>6, <1>7, <2>3
      <4>2. late[p] <= 1 /\ late[p] # 1
        BY <2>1, <2>3, <4>1
      <4> QED BY <1>5, <4>2
    <3>2. late'[p] <= 1
      BY <1>7, <3>1
    <3>3. late'[p] = 1 => stop
      BY <1>7, <3>1
    <3>4. d.pc \notin {"boot", "first", "pass"}
      BY <1>6
    <3> QED BY <1>7, <1>9, <2>3, <3>2, <3>3, <3>4, Zenon
  <2> QED BY <2>2, <2>3
<1>17. EmptyInv'
  <2> SUFFICES ASSUME NEW q \in Procs, NEW e, e = command'[q]
               PROVE  /\ e.pc \notin {"off", "ended", "dead"} /\ pending' = 0 => q \in emptied'
                      /\ e.kind = "drain" /\ e.pc # "initial" /\ e.left = 0 =>
                           q \in emptied' \/ e.pc = "dead"
    BY DEF EmptyInv, Looped!Active
  <2>1. Looped!Active(q) /\ pending' = 0 => q \in emptied'
    BY <1>8
  <2>2. command[q].kind = "drain" /\ command[q].pc # "initial" /\ command[q].left = 0 =>
          q \in emptied \/ command[q].pc = "dead"
    BY DEF LoopsInv, EmptyInv
  <2>3. CASE q # p
    BY <1>7, <1>8, <2>1, <2>2, <2>3 DEF Looped!Active
  <2>4. CASE q = p
    BY <1>1, <1>2, <1>6, <1>7, <1>8, <2>1, <2>2, <2>4 DEF Looped!Active
  <2> QED BY <2>3, <2>4
<1>18. StatusInv'
  BY <1>3, <1>6, <1>7 DEF LoopsInv, StatusInv, LoopTypes, Looped!Report
<1> QED BY <1>10, <1>11, <1>12, <1>13, <1>14, <1>15, <1>16, <1>17, <1>18 DEF LoopsInv

\* A process starts, from having done nothing.
LEMMA LoopStartKeeps ==
    ASSUME LoopsInv, Looped!LoopsAssumption, NEW p \in Procs, Looped!Start(p)
    PROVE  LoopsInv'
<1>1. PICK d : /\ command' = [command EXCEPT ![p] = d]
               /\ \E kind \in {"daemon", "watch", "drain"} :
                    d = [Looped!Off EXCEPT !.kind = kind,
                           !.pc = CASE kind = "daemon" -> "boot" [] kind = "watch" -> "pass"
                                    [] kind = "drain" -> "initial"]
  BY DEF Looped!Start
<1>2. /\ d.done = 0 /\ d.total = 0 /\ d.run = 0 /\ d.seen = <<>> /\ d.left = 0 /\ d \in Looped!Loop
      /\ \/ d.kind = "daemon" /\ d.pc = "boot"
         \/ d.kind = "watch" /\ d.pc = "pass"
         \/ d.kind = "drain" /\ d.pc = "initial"
  <2>1. PICK kind \in {"daemon", "watch", "drain"}, w \in {"boot", "pass", "initial"} :
          /\ d = [kind |-> kind, pc |-> w, done |-> 0, total |-> 0, run |-> 0, seen |-> <<>>, left |-> 0]
          /\ \/ kind = "daemon" /\ w = "boot"
             \/ kind = "watch" /\ w = "pass"
             \/ kind = "drain" /\ w = "initial"
    BY <1>1 DEF Looped!Off
  <2>2. /\ 0 \in 0 .. MaxPasses /\ 0 \in 0 .. MaxJobs /\ <<>> \in Seq(Looped!Line)
        /\ w \in Looped!Steps
    BY DEF Looped!LoopsAssumption, Looped!Steps
  <2> QED BY <2>1, <2>2 DEF Looped!Loop
<1>3. PICK c : c = command[p]
  OBVIOUS
<1>4. c.pc = "off" /\ c.kind = "none" /\ did[p] = 0 /\ late[p] = 0
  <2>1. c.pc = "off" /\ c.pc \in LoopPlaces(c.kind) /\ c \in Looped!Loop
    BY <1>3 DEF Looped!Start, Looped!In, LoopsInv, LoopTypes, PlaceInv
  <2>2. c.kind \in {"none", "daemon", "watch", "drain"}
    BY <2>1, LoopFields
  <2> QED BY <1>3, <2>1, <2>2 DEF LoopPlaces, Between, LoopsInv, PlaceInv
<1>5. /\ mixed' = mixed \cup (IF Looped!Actives = {} THEN {} ELSE Looped!Actives \cup {p})
      /\ emptied' = emptied \cup (IF pending = 0 THEN {p} ELSE {})
      /\ UNCHANGED <<pending, finished, heartbeats, status, daemon, stop, did, late, cut>>
  BY DEF Looped!Start
<1>6. /\ command'[p] = d /\ \A q \in Procs \ {p} : command'[q] = command[q]
      /\ command' \in [Procs -> Looped!Loop]
  BY <1>1, <1>2 DEF LoopsInv, LoopTypes
<1>7. LoopTypes'
  <2>1. mixed' \subseteq Procs /\ emptied' \subseteq Procs
    BY <1>5 DEF Looped!Actives, LoopsInv, LoopTypes
  <2>2. stop' \in BOOLEAN
    BY <1>5, Zenon DEF LoopsInv, LoopTypes
  <2> QED BY <1>5, <1>6, <2>1, <2>2 DEF LoopsInv, LoopTypes
<1>8. PlaceInv'
  <2> SUFFICES ASSUME NEW q \in Procs, NEW e, e = command'[q]
               PROVE  /\ e.pc \in LoopPlaces(e.kind)
                      /\ e.pc \in {"check", "pass", "left"} => e.done < MaxPasses
                      /\ e.pc \notin {"read", "append"} => e.run = 0
                      /\ e.pc \in {"off", "boot", "first"} => e.done = 0 /\ did[q] = 0 /\ late[q] = 0
                      /\ e.kind # "drain" /\ e.pc \notin {"ended", "dead"} => e.total = did[q]
                      /\ e.kind = "drain" \/ e.pc \in {"ended", "dead"} => e.total = 0
    BY <1>5 DEF PlaceInv
  <2>1. CASE q # p
    BY <1>6, <2>1 DEF LoopsInv, PlaceInv
  <2>2. CASE q = p
    <3>1. d.pc \in LoopPlaces(d.kind)
      BY <1>2 DEF LoopPlaces
    <3>2. 0 < MaxPasses
      BY DEF Looped!LoopsAssumption
    <3> QED BY <1>2, <1>4, <1>6, <2>2, <3>1, <3>2
  <2> QED BY <2>1, <2>2
<1>9. SoloInv'
  <2> SUFFICES ASSUME NEW q \in Procs, NEW r \in Procs, Looped!Active(q)', Looped!Active(r)',
                      q \notin mixed'
               PROVE  q = r
    BY Zenon DEF SoloInv
  <2>1. q = p \/ q \in Looped!Actives
    BY <1>6 DEF Looped!Actives, Looped!Active
  <2>2. r = p \/ r \in Looped!Actives
    BY <1>6 DEF Looped!Actives, Looped!Active
  <2> QED BY <1>5, <2>1, <2>2
<1>10. TellInv'
  <2> SUFFICES ASSUME NEW q \in Procs, NEW r \in Procs
               PROVE  /\ Looped!ToldOf(heartbeats, q) + command'[q].run <= did[q]
                      /\ Looped!ToldOf(command'[r].seen, q) + command'[q].run <= did[q]
    BY <1>5 DEF TellInv
  <2>1. /\ Looped!ToldOf(heartbeats, q) + command[q].run <= did[q]
        /\ Looped!ToldOf(command[r].seen, q) + command[q].run <= did[q]
        /\ Looped!ToldOf(<<>>, q) = 0
    BY ToldEmpty DEF LoopsInv, TellInv
  <2>2. command'[q].run = command[q].run
    BY <1>2, <1>3, <1>4, <1>6 DEF LoopsInv, PlaceInv
  <2>3. command'[r].seen \in {<<>>, command[r].seen}
    BY <1>2, <1>6
  <2>4. command[q].run \in Nat /\ did[q] \in Nat /\ Looped!ToldOf(heartbeats, q) \in Nat
    BY LoopFields, ToldCounts DEF LoopsInv, LoopTypes
  <2>5. Looped!ToldOf(<<>>, q) + command[q].run <= did[q]
    BY <2>1, <2>4
  <2> QED BY <2>1, <2>2, <2>3, <2>5
<1>11. ExactInv'
  <2> SUFFICES ASSUME mixed = {}
               PROVE  /\ \A q \in Procs : LET e == command'[q] IN
                           /\ e.pc = "append" => e.seen = heartbeats
                           /\ e.kind # "drain" /\ q \notin cut => Backed(heartbeats, q, e.done - Owed(e), e.total - e.run)
                      /\ status # None /\ status.who \notin cut => Backed(heartbeats, status.who, status.done, status.total)
                      /\ daemon # None /\ daemon.who \notin cut => Backed(heartbeats, daemon.who, daemon.done, daemon.total)
    BY <1>5 DEF ExactInv
  <2>1. /\ status # None /\ status.who \notin cut => Backed(heartbeats, status.who, status.done, status.total)
        /\ daemon # None /\ daemon.who \notin cut => Backed(heartbeats, daemon.who, daemon.done, daemon.total)
    BY DEF LoopsInv, ExactInv
  <2>2. ASSUME NEW q \in Procs, NEW e, e = command'[q]
        PROVE  /\ e.pc = "append" => e.seen = heartbeats
               /\ e.kind # "drain" /\ q \notin cut => Backed(heartbeats, q, e.done - Owed(e), e.total - e.run)
    <3>1. CASE q # p
      BY <1>6, <2>2, <3>1 DEF LoopsInv, ExactInv
    <3>2. CASE q = p
      <4>1. e = d /\ d.pc # "append" /\ Owed(d) = 0 /\ d.done = 0 /\ d.total = 0 /\ d.run = 0
        BY <1>2, <1>6, <2>2, <3>2 DEF Owed
      <4>2. Cardinality(Looped!LinesOf(heartbeats, p)) \in Nat /\ Looped!ToldOf(heartbeats, p) \in Nat
        BY ToldCounts DEF LoopsInv, LoopTypes
      <4> QED BY <3>2, <4>1, <4>2 DEF Backed
    <3> QED BY <3>1, <3>2
  <2> QED BY <2>1, <2>2
<1>12. StateInv'
  <2>1. daemon # None => daemon.who \in Procs \ {p}
    BY <1>3, <1>4 DEF LoopsInv, LoopTypes, StateInv, Looped!Statement
  <2>2. daemon # None => LET e == command'[daemon.who] IN
          /\ e.kind = "daemon" /\ e.pc \notin {"boot", "first"}
          /\ e.pc \in {"clear", "ended"} => ~daemon.running /\ daemon.total = did[daemon.who]
    BY <1>6, <2>1 DEF LoopsInv, StateInv
  <2>3. ASSUME NEW q \in Procs, NEW e, e = command'[q], e.kind = "daemon"
        PROVE  /\ e.pc \in Between \cup {"clear", "ended"} => daemon # None
               /\ q \notin mixed /\ e.pc \in Between => daemon.who = q /\ daemon.running
    <3>1. CASE q # p
      BY <1>6, <2>3, <3>1 DEF LoopsInv, StateInv
    <3>2. CASE q = p
      BY <1>2, <1>6, <2>3, <3>2 DEF Between
    <3> QED BY <3>1, <3>2
  <2> QED BY <1>5, <2>2, <2>3 DEF StateInv
<1>13. LateInv'
  <2> SUFFICES ASSUME NEW q \in Procs \ mixed, NEW e, e = command'[q], e.kind = "daemon"
               PROVE  /\ late[q] <= 1
                      /\ late[q] = 1 /\ e.pc \notin {"off", "ended", "dead"} =>
                           stop /\ e.pc \notin {"boot", "first", "pass"}
    <3>1. mixed \subseteq mixed'
      BY <1>5
    <3> QED BY <1>5, <3>1, Zenon DEF LateInv, Looped!Active
  <2>1. CASE q # p
    BY <1>6, <2>1, Zenon DEF LoopsInv, LateInv, Looped!Active
  <2>2. CASE q = p
    BY <1>4, <2>2
  <2> QED BY <2>1, <2>2
<1>14. EmptyInv'
  <2> SUFFICES ASSUME NEW q \in Procs, NEW e, e = command'[q]
               PROVE  /\ e.pc \notin {"off", "ended", "dead"} /\ pending = 0 => q \in emptied'
                      /\ e.kind = "drain" /\ e.pc # "initial" /\ e.left = 0 =>
                           q \in emptied' \/ e.pc = "dead"
    BY <1>5 DEF EmptyInv, Looped!Active
  <2>1. CASE q # p
    BY <1>5, <1>6, <2>1 DEF LoopsInv, EmptyInv, Looped!Active
  <2>2. CASE q = p
    BY <1>2, <1>5, <1>6, <2>2
  <2> QED BY <2>1, <2>2
<1>15. StatusInv'
  BY <1>2, <1>5, <1>6 DEF LoopsInv, StatusInv, LoopTypes, Looped!Report
<1> QED BY <1>7, <1>8, <1>9, <1>10, <1>11, <1>12, <1>13, <1>14, <1>15 DEF LoopsInv

\* A request to stop, and a record that another process enqueues.
LEMMA LoopStopKeeps ==
    ASSUME LoopsInv, Looped!Stop
    PROVE  LoopsInv'
<1>1. /\ stop' = TRUE /\ late' = [p \in Procs |-> 0]
      /\ UNCHANGED <<pending, finished, heartbeats, status, daemon, command, did, mixed, emptied, cut>>
  BY DEF Looped!Stop
<1>2. LoopTypes'
  <2>1. stop' \in BOOLEAN /\ late' \in [Procs -> Nat]
    BY <1>1
  <2> QED BY <1>1, <2>1 DEF LoopsInv, LoopTypes
<1>3. PlaceInv' /\ SoloInv' /\ TellInv'
  BY <1>1 DEF LoopsInv, PlaceInv, SoloInv, TellInv, Looped!Active
<1>4. ExactInv' /\ StatusInv' /\ StateInv' /\ EmptyInv'
  BY <1>1 DEF LoopsInv, ExactInv, StatusInv, StateInv, EmptyInv, Looped!Active
<1>5. LateInv'
  BY <1>1 DEF LateInv
<1> QED BY <1>2, <1>3, <1>4, <1>5 DEF LoopsInv

LEMMA LoopEnqueueKeeps ==
    ASSUME LoopsInv, Looped!LoopsAssumption, Looped!Enqueue
    PROVE  LoopsInv'
<1>1. /\ pending + finished < Runs["loops"] /\ pending' = pending + 1 /\ finished' = finished
      /\ UNCHANGED <<heartbeats, status, daemon, stop, command, did, late, mixed, cut>>
  BY DEF Looped!Enqueue, Looped!Queue
<1>2. pending \in Nat /\ finished \in Nat /\ Runs["loops"] \in Nat
  BY DEF LoopsInv, LoopTypes, Looped!LoopsAssumption
<1>3. emptied' = emptied /\ pending' # 0 /\ pending' \in Nat /\ pending' + finished <= Runs["loops"]
  BY <1>1, <1>2 DEF Looped!Enqueue, Looped!Queue
<1>4. LoopTypes'
  <2>1. stop' \in BOOLEAN
    BY <1>1, Zenon DEF LoopsInv, LoopTypes
  <2> QED BY <1>1, <1>3, <2>1 DEF LoopsInv, LoopTypes
<1>5. PlaceInv' /\ SoloInv' /\ TellInv'
  BY <1>1 DEF LoopsInv, PlaceInv, SoloInv, TellInv, Looped!Active
<1>6. ExactInv' /\ StatusInv' /\ StateInv'
  BY <1>1 DEF LoopsInv, ExactInv, StatusInv, StateInv
<1>7. LateInv'
  BY <1>1, Zenon DEF LoopsInv, LateInv, Looped!Active
<1>8. EmptyInv'
  BY <1>1, <1>3 DEF LoopsInv, EmptyInv
<1> QED BY <1>4, <1>5, <1>6, <1>7, <1>8 DEF LoopsInv

LEMMA LoopsStart ==
    ASSUME Looped!Init, Looped!LoopsAssumption
    PROVE  LoopsInv
<1>1. /\ pending \in 0 .. Runs["loops"] /\ finished = 0 /\ heartbeats = <<>> /\ status = None
      /\ daemon = None /\ stop = FALSE /\ command = [p \in Procs |-> Looped!Off]
      /\ did = [p \in Procs |-> 0] /\ late = [p \in Procs |-> 0] /\ mixed = {} /\ emptied = {} /\ cut = {}
      /\ Runs["loops"] \in Nat
  BY DEF Looped!Init, Looped!LoopsAssumption
<1>2. /\ Looped!Off \in Looped!Loop /\ Looped!Off.kind = "none" /\ Looped!Off.pc = "off"
      /\ Looped!Off.done = 0 /\ Looped!Off.total = 0 /\ Looped!Off.run = 0 /\ Looped!Off.seen = <<>>
  <2>1. /\ 0 \in 0 .. MaxPasses /\ 0 \in 0 .. MaxJobs /\ <<>> \in Seq(Looped!Line)
        /\ "off" \in Looped!Steps
    BY DEF Looped!LoopsAssumption, Looped!Steps
  <2> QED BY <2>1 DEF Looped!Off, Looped!Loop
<1>3. ASSUME NEW p \in Procs PROVE command[p] = Looped!Off /\ did[p] = 0 /\ late[p] = 0
  BY <1>1
<1>4. LoopTypes
  <2>1. stop \in BOOLEAN
    BY <1>1
  <2> QED BY <1>1, <1>2, <2>1 DEF LoopTypes
<1>5. PlaceInv
  <2>1. "off" \in LoopPlaces("none")
    BY DEF LoopPlaces
  <2> QED BY <1>2, <1>3, <2>1 DEF PlaceInv
<1>6. SoloInv
  BY <1>2, <1>3 DEF SoloInv, Looped!Active
<1>7. TellInv
  BY <1>1, <1>2, <1>3, ToldEmpty DEF TellInv
<1>8. ExactInv
  <2> SUFFICES ASSUME NEW q \in Procs
               PROVE  Backed(<<>>, q, Looped!Off.done - Owed(Looped!Off), Looped!Off.total - Looped!Off.run)
    BY <1>1, <1>2, <1>3 DEF ExactInv
  <2>1. Cardinality(Looped!LinesOf(<<>>, q)) = 0 /\ Looped!ToldOf(<<>>, q) = 0
    BY ToldEmpty
  <2> QED BY <1>2, <2>1 DEF Backed, Owed
<1>9. StatusInv /\ StateInv /\ LateInv /\ EmptyInv
  BY <1>1, <1>2, <1>3 DEF StatusInv, StateInv, LateInv, EmptyInv, Looped!Active
<1> QED BY <1>4, <1>5, <1>6, <1>7, <1>8, <1>9 DEF LoopsInv

LEMMA LoopsKept ==
    ASSUME LoopsInv, Looped!LoopsAssumption, Looped!Next \/ UNCHANGED <<looping, command, crashes>>
    PROVE  LoopsInv'
<1>1. CASE UNCHANGED <<looping, command, crashes>>
  <2>1. LoopTypes' /\ PlaceInv' /\ SoloInv' /\ TellInv'
    BY <1>1 DEF looping, LoopsInv, LoopTypes, PlaceInv, SoloInv, TellInv, Looped!Active
  <2>2. ExactInv' /\ StatusInv' /\ StateInv'
    BY <1>1 DEF looping, LoopsInv, ExactInv, StatusInv, StateInv
  <2>3. LateInv' /\ EmptyInv'
    BY <1>1, Zenon DEF looping, LoopsInv, LateInv, EmptyInv, Looped!Active
  <2> QED BY <2>1, <2>2, <2>3 DEF LoopsInv
<1>2. ASSUME NEW p \in Procs, Looped!Start(p) \/ Looped!Boot(p) \/ Looped!Booted(p)
             \/ Looped!Check(p) \/ Looped!Pass(p) \/ Looped!ReadLog(p) \/ Looped!AppendLine(p)
      PROVE  LoopsInv'
  BY <1>2, LoopStartKeeps, BootKeeps, BootedKeeps, CheckKeeps, PassKeeps, ReadLogKeeps,
     AppendLineKeeps, Zenon
<1>3. ASSUME NEW p \in Procs, Looped!WriteStatus(p) \/ Looped!WriteState(p) \/ Looped!Final(p)
             \/ Looped!Clear(p) \/ Looped!Initial(p) \/ Looped!Count(p) \/ Looped!Left(p)
             \/ Looped!Crash(p)
      PROVE  LoopsInv'
  BY <1>3, WriteStatusKeeps, WriteStateKeeps, FinalKeeps, ClearKeeps, InitialKeeps, CountKeeps,
     LeftKeeps, LoopCrashKeeps, Zenon
<1>4. CASE Looped!Stop \/ Looped!Enqueue
  BY <1>4, LoopStopKeeps, LoopEnqueueKeeps, Zenon
<1> QED BY <1>1, <1>2, <1>3, <1>4, Zenon DEF Looped!Next

\* What the invariant says of the files and the answers of the commands.
LEMMA LoopsHold ==
    ASSUME LoopsInv, Looped!LoopsAssumption
    PROVE  /\ Looped!TypeOK /\ Looped!HeartbeatsTell /\ Looped!StopEndsLoop
           /\ Looped!DaemonIsReported /\ Looped!DrainedWasEmpty
<1>1. Looped!TypeOK
  <2>1. pending \in 0 .. Runs["loops"] /\ finished \in 0 .. Runs["loops"]
    BY DEF LoopsInv, LoopTypes, Looped!LoopsAssumption
  <2> QED BY <2>1 DEF LoopsInv, LoopTypes, Looped!TypeOK
<1>2. Looped!HeartbeatsTell
  <2>1. ASSUME NEW p \in Procs PROVE Looped!ToldOf(heartbeats, p) <= did[p]
    <3>1. /\ command[p] \in Looped!Loop /\ heartbeats \in Seq(Looped!Line) /\ did[p] \in Nat
          /\ Looped!ToldOf(heartbeats, p) + command[p].run <= did[p]
      BY DEF LoopsInv, LoopTypes, TellInv
    <3>2. command[p].run \in Nat /\ Looped!ToldOf(heartbeats, p) \in Nat
      BY <3>1, LoopFields, ToldCounts
    <3> QED BY <3>1, <3>2
  <2>2. ASSUME NEW r \in {status, daemon} \ {None}, mixed = {}, r.who \notin cut
        PROVE  /\ r.done <= Cardinality(Looped!LinesOf(heartbeats, r.who))
               /\ r.total <= Looped!ToldOf(heartbeats, r.who)
    BY <2>2 DEF LoopsInv, ExactInv, Backed
  <2>3. \A r \in {status, daemon} \ {None} : mixed = {} /\ r.who \notin cut =>
          /\ r.done <= Looped!Cardinality(Looped!LinesOf(heartbeats, r.who))
          /\ r.total <= Looped!ToldOf(heartbeats, r.who)
    BY <2>2, LoopsCount, Zenon
  <2> QED BY <2>1, <2>3, Zenon DEF Looped!HeartbeatsTell
<1>3. Looped!StopEndsLoop
  BY DEF LoopsInv, LateInv, Looped!StopEndsLoop
<1>4. Looped!DaemonIsReported
  <2> SUFFICES ASSUME NEW p \in Procs, NEW c, c = command[p], NEW b, b = (c.pc \in Between)
               PROVE  /\ Looped!ReportedRunning(p) => c.kind = "daemon" /\ b
                      /\ p \notin mixed /\ c.kind = "daemon" /\ b => Looped!ReportedRunning(p)
                      /\ p \notin mixed /\ c.kind = "daemon" /\ c.pc = "ended" /\ daemon.who = p =>
                           ~daemon.running /\ daemon.total = did[p]
    BY Zenon DEF Looped!DaemonIsReported, Looped!In, Between
  <2>1. c.pc \in LoopPlaces(c.kind) /\ c.kind \in {"none", "daemon", "watch", "drain"}
    BY LoopFields DEF LoopsInv, LoopTypes, PlaceInv
  <2>2. ASSUME Looped!ReportedRunning(p)
        PROVE  c.kind = "daemon" /\ b
    <3>1. daemon # None /\ daemon.who = p /\ daemon.running /\ c.pc \notin {"off", "ended", "dead"}
      BY <2>2, Zenon DEF Looped!ReportedRunning, Looped!Active
    <3>2. /\ c.kind = "daemon" /\ c.pc \notin {"boot", "first"}
          /\ c.pc \in {"clear", "ended"} => ~daemon.running
      BY <3>1, Zenon DEF LoopsInv, StateInv
    <3>3. c.pc # "clear"
      BY <3>1, <3>2
    <3> QED BY <2>1, <3>1, <3>2, <3>3 DEF LoopPlaces
  <2>3. ASSUME p \notin mixed, c.kind = "daemon", b
        PROVE  Looped!ReportedRunning(p)
    <3>1. daemon # None /\ daemon.who = p /\ daemon.running
      BY <2>3, Zenon DEF LoopsInv, StateInv
    <3>2. Looped!Active(p)
      BY <2>3 DEF Looped!Active, Between
    <3> QED BY <3>1, <3>2, Zenon DEF Looped!ReportedRunning
  <2>4. ASSUME c.kind = "daemon", c.pc = "ended", daemon.who = p
        PROVE  ~daemon.running /\ daemon.total = did[p]
    <3>1. daemon # None
      BY <2>4, Zenon DEF LoopsInv, StateInv
    <3> QED BY <2>4, <3>1, Zenon DEF LoopsInv, StateInv
  <2> QED BY <2>2, <2>3, <2>4, Zenon
<1>5. Looped!DrainedWasEmpty
  BY DEF LoopsInv, EmptyInv, Looped!DrainedWasEmpty, Looped!Drained, Looped!In
<1> QED BY <1>1, <1>2, <1>3, <1>4, <1>5

\* What the supervisor's loops tell each other through the heartbeat log, the status and
\* the state file: the log never tells of more than was done and, with one loop at a time,
\* of every pass that was counted; a stop request ends a daemon after the pass it was in,
\* a daemon is reported running from its boot to its end, and a drain that answers
\* empty has met the queue empty (append_line, write_supervisor_runtime_state,
\* run_supervisor_daemon_loop, run_queue_until_empty).
THEOREM LoopsAgreeHolds == Spec => []LoopsAgree
<1> DEFINE Inv == part = "loops" => LoopsInv
<1>1. Init => Inv
  BY LoopsStart, SurfacesAssumption DEF Init, SurfacesAssumption
<1>2. Inv /\ [Next]_vars => Inv'
  BY Steps, LoopsKept, SurfacesAssumption DEF SurfacesAssumption
<1>3. Inv => LoopsAgree
  BY LoopsHold, SurfacesAssumption DEF LoopsAgree, SurfacesAssumption
<1> QED BY <1>1, <1>2, <1>3, PTL DEF Spec

-----------------------------------------------------------------------------
(* Capabilities.                                                           *)

\* No other capability's name is sanitized to the file of a built-in one.  The code does
\* not see to it: the verification of a built-in capability writes its outcome into
\* whatever manifest is found there (update_capability_verification).
BuiltInApart == \A m, n \in SkillNames : m \in BuiltIn /\ FileOf[m] = FileOf[n] => m = n

\* The writes a command has left, by what it is.
Left(op, todo) ==
    \/ op = "request" /\ todo = <<"record">>
    \/ op = "forge" /\ todo \in {<<"worker", "manifest">>, <<"manifest">>,
                                 <<"worker", "manifest", "gap">>, <<"manifest", "gap">>, <<"gap">>}
    \/ op \in {"scaffold", "import"} /\ todo \in {<<"worker", "manifest">>, <<"manifest">>}
    \/ op = "plugin" /\ todo \in {<<"worker", "manifest", "next", "worker", "manifest">>,
                                  <<"manifest", "next", "worker", "manifest">>,
                                  <<"next", "worker", "manifest">>,
                                  <<"worker", "manifest">>, <<"manifest">>}
    \/ op = "verify" /\ todo \in {<<"run", "verification">>, <<"verification">>,
                                  <<"run", "verification", "gap">>, <<"verification", "gap">>, <<"gap">>}
    \/ op = "promote" /\ todo \in {<<"promotion">>, <<"promotion", "gap">>, <<"gap">>}

Writes == {"record", "worker", "manifest", "gap", "next", "run", "verification", "promotion"}
Makers == {"forge", "scaffold", "import", "plugin"}
Gapped(todo) == todo # <<>> /\ todo[Len(todo)] = "gap"
Commands == [op : {"none", "request", "forge", "scaffold", "import", "plugin", "verify", "promote"},
             name : SkillNames \cup {None}, source : Capability!Sources \cup {None},
             gap : Gaps \cup SkillNames \cup {None}, good : BOOLEAN, todo : Seq(Writes)]

\* What a command at work has found and done so far.
CommandInv(c) ==
    LET f == FileOf[c.name] IN
    /\ c \in Commands /\ Left(c.op, c.todo) /\ c.name \in SkillNames
    /\ c.op \in Makers => c.source \in Capability!Sources
    /\ c.op = "plugin" => c.gap \in SkillNames \cup {None} /\ (Len(c.todo) > 2 => c.gap \in SkillNames)
    /\ c.op = "request" => c.gap \in Gaps /\ gap[c.gap] = None
    /\ Gapped(c.todo) => c.gap \in Gaps /\ gap[c.gap] # None /\ gap[c.gap].name = c.name
    /\ c.todo # <<>> /\ c.op \in Makers =>
         /\ Head(c.todo) = "manifest" => f \in torn /\ worker[<<c.source, f>>] # "none"
         /\ Head(c.todo) = "gap" => descriptor[f] # None
    /\ c.op = "verify" =>
         /\ Head(c.todo) = "run" => Capability!Resolves(c.name)
         /\ Head(c.todo) = "verification" /\ c.good /\ descriptor[f] # None =>
              worker[<<descriptor[f].source, f>>] = "proved"
         /\ Head(c.todo) = "gap" /\ c.good => c.name \in hit.verified
    /\ c.op = "promote" =>
         /\ Head(c.todo) = "promotion" => descriptor[f] # None /\ descriptor[f].verification = "verified"
         /\ Head(c.todo) = "gap" => c.name \in hit.promoted

\* The inductive invariant: a manifest describes a capability of its own file, one command
\* is at work at most, and what it has done is what its writes left call for.
CapabilityInv ==
    /\ Capability!TypeOK
    /\ command \in [Operators -> Commands]
    /\ hit \in [verified : SUBSET SkillNames, promoted : SUBSET SkillNames]
    /\ \A f \in Capability!Files : descriptor[f] # None => FileOf[descriptor[f].name] = f
    /\ \A o \in Operators : command[o] = Capability!Idle \/ CommandInv(command[o])
    /\ \A o, p \in Operators : o = p \/ command[o] = Capability!Idle \/ command[p] = Capability!Idle
    /\ Capability!PromotedIsProved
    /\ Capability!GapNeverLeads

\* What of it is not the commands'.
CapabilityShared ==
    /\ Capability!TypeOK
    /\ hit \in [verified : SUBSET SkillNames, promoted : SUBSET SkillNames]
    /\ \A f \in Capability!Files : descriptor[f] # None => FileOf[descriptor[f].name] = f
    /\ Capability!PromotedIsProved
    /\ Capability!GapNeverLeads

\* The sequences of writes, taken apart.
LEMMA Heads ==
    ASSUME NEW t
    PROVE
    /\ t = <<"record">> =>
           /\ Head(t) = "record" /\ Len(t) = 1 /\ t[Len(t)] = "record" /\ t # <<>> /\ t \in Seq(Writes)
    /\ t = <<"worker", "manifest">> =>
           /\ Head(t) = "worker" /\ Len(t) = 2 /\ t[Len(t)] = "manifest" /\ t # <<>> /\ t \in Seq(Writes)
           /\ Tail(t) = <<"manifest">> /\ Head(Tail(t)) = "manifest" /\ Len(Tail(t)) = 1
           /\ Tail(t) # <<>> /\ Tail(t)[1] = "manifest"
    /\ t = <<"manifest">> =>
           /\ Head(t) = "manifest" /\ Len(t) = 1 /\ t[Len(t)] = "manifest" /\ t # <<>> /\ t \in Seq(Writes)
    /\ t = <<"worker", "manifest", "gap">> =>
           /\ Head(t) = "worker" /\ Len(t) = 3 /\ t[Len(t)] = "gap" /\ t # <<>> /\ t \in Seq(Writes)
           /\ Tail(t) = <<"manifest", "gap">> /\ Head(Tail(t)) = "manifest" /\ Len(Tail(t)) = 2
           /\ Tail(t) # <<>> /\ Tail(t)[2] = "gap"
    /\ t = <<"manifest", "gap">> =>
           /\ Head(t) = "manifest" /\ Len(t) = 2 /\ t[Len(t)] = "gap" /\ t # <<>> /\ t \in Seq(Writes)
           /\ Tail(t) = <<"gap">> /\ Head(Tail(t)) = "gap" /\ Len(Tail(t)) = 1
           /\ Tail(t) # <<>> /\ Tail(t)[1] = "gap"
    /\ t = <<"gap">> =>
           /\ Head(t) = "gap" /\ Len(t) = 1 /\ t[Len(t)] = "gap" /\ t # <<>> /\ t \in Seq(Writes)
    /\ t = <<"worker", "manifest", "next", "worker", "manifest">> =>
           /\ Head(t) = "worker" /\ Len(t) = 5 /\ t[Len(t)] = "manifest" /\ t # <<>> /\ t \in Seq(Writes)
           /\ Tail(t) = <<"manifest", "next", "worker", "manifest">> /\ Head(Tail(t)) = "manifest" /\ Len(Tail(t)) = 4
           /\ Tail(t) # <<>> /\ Tail(t)[4] = "manifest"
    /\ t = <<"manifest", "next", "worker", "manifest">> =>
           /\ Head(t) = "manifest" /\ Len(t) = 4 /\ t[Len(t)] = "manifest" /\ t # <<>> /\ t \in Seq(Writes)
           /\ Tail(t) = <<"next", "worker", "manifest">> /\ Head(Tail(t)) = "next" /\ Len(Tail(t)) = 3
           /\ Tail(t) # <<>> /\ Tail(t)[3] = "manifest"
    /\ t = <<"next", "worker", "manifest">> =>
           /\ Head(t) = "next" /\ Len(t) = 3 /\ t[Len(t)] = "manifest" /\ t # <<>> /\ t \in Seq(Writes)
           /\ Tail(t) = <<"worker", "manifest">> /\ Head(Tail(t)) = "worker" /\ Len(Tail(t)) = 2
           /\ Tail(t) # <<>> /\ Tail(t)[2] = "manifest"
    /\ t = <<"run", "verification">> =>
           /\ Head(t) = "run" /\ Len(t) = 2 /\ t[Len(t)] = "verification" /\ t # <<>> /\ t \in Seq(Writes)
           /\ Tail(t) = <<"verification">> /\ Head(Tail(t)) = "verification" /\ Len(Tail(t)) = 1
           /\ Tail(t) # <<>> /\ Tail(t)[1] = "verification"
    /\ t = <<"verification">> =>
           /\ Head(t) = "verification" /\ Len(t) = 1 /\ t[Len(t)] = "verification" /\ t # <<>> /\ t \in Seq(Writes)
    /\ t = <<"run", "verification", "gap">> =>
           /\ Head(t) = "run" /\ Len(t) = 3 /\ t[Len(t)] = "gap" /\ t # <<>> /\ t \in Seq(Writes)
           /\ Tail(t) = <<"verification", "gap">> /\ Head(Tail(t)) = "verification" /\ Len(Tail(t)) = 2
           /\ Tail(t) # <<>> /\ Tail(t)[2] = "gap"
    /\ t = <<"verification", "gap">> =>
           /\ Head(t) = "verification" /\ Len(t) = 2 /\ t[Len(t)] = "gap" /\ t # <<>> /\ t \in Seq(Writes)
           /\ Tail(t) = <<"gap">> /\ Head(Tail(t)) = "gap" /\ Len(Tail(t)) = 1
           /\ Tail(t) # <<>> /\ Tail(t)[1] = "gap"
    /\ t = <<"promotion">> =>
           /\ Head(t) = "promotion" /\ Len(t) = 1 /\ t[Len(t)] = "promotion" /\ t # <<>> /\ t \in Seq(Writes)
    /\ t = <<"promotion", "gap">> =>
           /\ Head(t) = "promotion" /\ Len(t) = 2 /\ t[Len(t)] = "gap" /\ t # <<>> /\ t \in Seq(Writes)
           /\ Tail(t) = <<"gap">> /\ Head(Tail(t)) = "gap" /\ Len(Tail(t)) = 1
           /\ Tail(t) # <<>> /\ Tail(t)[1] = "gap"
<1>1. t = <<"record">> =>
           /\ Head(t) = "record" /\ Len(t) = 1 /\ t[Len(t)] = "record" /\ t # <<>> /\ t \in Seq(Writes)
  BY DEF Writes
<1>2. t = <<"worker", "manifest">> =>
           /\ Head(t) = "worker" /\ Len(t) = 2 /\ t[Len(t)] = "manifest" /\ t # <<>> /\ t \in Seq(Writes)
           /\ Tail(t) = <<"manifest">> /\ Head(Tail(t)) = "manifest" /\ Len(Tail(t)) = 1
           /\ Tail(t) # <<>> /\ Tail(t)[1] = "manifest"
  BY DEF Writes
<1>3. t = <<"manifest">> =>
           /\ Head(t) = "manifest" /\ Len(t) = 1 /\ t[Len(t)] = "manifest" /\ t # <<>> /\ t \in Seq(Writes)
  BY DEF Writes
<1>4. t = <<"worker", "manifest", "gap">> =>
           /\ Head(t) = "worker" /\ Len(t) = 3 /\ t[Len(t)] = "gap" /\ t # <<>> /\ t \in Seq(Writes)
           /\ Tail(t) = <<"manifest", "gap">> /\ Head(Tail(t)) = "manifest" /\ Len(Tail(t)) = 2
           /\ Tail(t) # <<>> /\ Tail(t)[2] = "gap"
  BY DEF Writes
<1>5. t = <<"manifest", "gap">> =>
           /\ Head(t) = "manifest" /\ Len(t) = 2 /\ t[Len(t)] = "gap" /\ t # <<>> /\ t \in Seq(Writes)
           /\ Tail(t) = <<"gap">> /\ Head(Tail(t)) = "gap" /\ Len(Tail(t)) = 1
           /\ Tail(t) # <<>> /\ Tail(t)[1] = "gap"
  BY DEF Writes
<1>6. t = <<"gap">> =>
           /\ Head(t) = "gap" /\ Len(t) = 1 /\ t[Len(t)] = "gap" /\ t # <<>> /\ t \in Seq(Writes)
  BY DEF Writes
<1>7. t = <<"worker", "manifest", "next", "worker", "manifest">> =>
           /\ Head(t) = "worker" /\ Len(t) = 5 /\ t[Len(t)] = "manifest" /\ t # <<>> /\ t \in Seq(Writes)
           /\ Tail(t) = <<"manifest", "next", "worker", "manifest">> /\ Head(Tail(t)) = "manifest" /\ Len(Tail(t)) = 4
           /\ Tail(t) # <<>> /\ Tail(t)[4] = "manifest"
  BY DEF Writes
<1>8. t = <<"manifest", "next", "worker", "manifest">> =>
           /\ Head(t) = "manifest" /\ Len(t) = 4 /\ t[Len(t)] = "manifest" /\ t # <<>> /\ t \in Seq(Writes)
           /\ Tail(t) = <<"next", "worker", "manifest">> /\ Head(Tail(t)) = "next" /\ Len(Tail(t)) = 3
           /\ Tail(t) # <<>> /\ Tail(t)[3] = "manifest"
  BY DEF Writes
<1>9. t = <<"next", "worker", "manifest">> =>
           /\ Head(t) = "next" /\ Len(t) = 3 /\ t[Len(t)] = "manifest" /\ t # <<>> /\ t \in Seq(Writes)
           /\ Tail(t) = <<"worker", "manifest">> /\ Head(Tail(t)) = "worker" /\ Len(Tail(t)) = 2
           /\ Tail(t) # <<>> /\ Tail(t)[2] = "manifest"
  BY DEF Writes
<1>10. t = <<"run", "verification">> =>
           /\ Head(t) = "run" /\ Len(t) = 2 /\ t[Len(t)] = "verification" /\ t # <<>> /\ t \in Seq(Writes)
           /\ Tail(t) = <<"verification">> /\ Head(Tail(t)) = "verification" /\ Len(Tail(t)) = 1
           /\ Tail(t) # <<>> /\ Tail(t)[1] = "verification"
  BY DEF Writes
<1>11. t = <<"verification">> =>
           /\ Head(t) = "verification" /\ Len(t) = 1 /\ t[Len(t)] = "verification" /\ t # <<>> /\ t \in Seq(Writes)
  BY DEF Writes
<1>12. t = <<"run", "verification", "gap">> =>
           /\ Head(t) = "run" /\ Len(t) = 3 /\ t[Len(t)] = "gap" /\ t # <<>> /\ t \in Seq(Writes)
           /\ Tail(t) = <<"verification", "gap">> /\ Head(Tail(t)) = "verification" /\ Len(Tail(t)) = 2
           /\ Tail(t) # <<>> /\ Tail(t)[2] = "gap"
  BY DEF Writes
<1>13. t = <<"verification", "gap">> =>
           /\ Head(t) = "verification" /\ Len(t) = 2 /\ t[Len(t)] = "gap" /\ t # <<>> /\ t \in Seq(Writes)
           /\ Tail(t) = <<"gap">> /\ Head(Tail(t)) = "gap" /\ Len(Tail(t)) = 1
           /\ Tail(t) # <<>> /\ Tail(t)[1] = "gap"
  BY DEF Writes
<1>14. t = <<"promotion">> =>
           /\ Head(t) = "promotion" /\ Len(t) = 1 /\ t[Len(t)] = "promotion" /\ t # <<>> /\ t \in Seq(Writes)
  BY DEF Writes
<1>15. t = <<"promotion", "gap">> =>
           /\ Head(t) = "promotion" /\ Len(t) = 2 /\ t[Len(t)] = "gap" /\ t # <<>> /\ t \in Seq(Writes)
           /\ Tail(t) = <<"gap">> /\ Head(Tail(t)) = "gap" /\ Len(Tail(t)) = 1
           /\ Tail(t) # <<>> /\ Tail(t)[1] = "gap"
  BY DEF Writes
<1> QED
  BY <1>1, <1>2, <1>3, <1>4, <1>5, <1>6, <1>7, <1>8, <1>9, <1>10, <1>11, <1>12, <1>13, <1>14, <1>15

\* What the write that comes next says of the command and of the writes after it.
LEMMA TodoStep ==
    ASSUME NEW op, NEW t, Left(op, t)
    PROVE  /\ t \in Seq(Writes) /\ t # <<>>
           /\ Len(t) # 1 => /\ Left(op, Tail(t)) /\ Tail(t) # <<>> /\ Tail(t) \in Seq(Writes)
                            /\ Gapped(Tail(t)) => Gapped(t)
                            /\ Len(Tail(t)) < Len(t)
           /\ Head(t) = "record" => op = "request" /\ Len(t) = 1
           /\ Head(t) = "worker" => op \in Makers /\ Len(t) # 1 /\ Head(Tail(t)) = "manifest"
           /\ Head(t) = "manifest" => op \in Makers /\ (Len(t) # 1 => Head(Tail(t)) \in {"gap", "next"})
           /\ Head(t) = "next" => /\ op = "plugin" /\ Len(t) # 1 /\ Len(t) > 2 /\ ~(Len(Tail(t)) > 2)
                                  /\ Head(Tail(t)) = "worker" /\ ~Gapped(Tail(t))
           /\ Head(t) = "run" => op = "verify" /\ Len(t) # 1 /\ Head(Tail(t)) = "verification"
           /\ Head(t) = "verification" => op = "verify" /\ (Len(t) # 1 => Head(Tail(t)) = "gap")
           /\ Head(t) = "promotion" => op = "promote" /\ (Len(t) # 1 => Head(Tail(t)) = "gap")
           /\ Head(t) = "gap" => op \in {"forge", "verify", "promote"} /\ Len(t) = 1 /\ Gapped(t)
<1>1. CASE op = "request"
  BY <1>1, Heads DEF Left, Gapped
<1>2. CASE op = "forge"
  BY <1>2, Heads DEF Left, Gapped, Makers
<1>3. CASE op \in {"scaffold", "import"}
  BY <1>3, Heads DEF Left, Gapped, Makers
<1>4. CASE op = "plugin"
  BY <1>4, Heads DEF Left, Gapped, Makers
<1>5. CASE op = "verify"
  BY <1>5, Heads DEF Left, Gapped
<1>6. CASE op = "promote"
  BY <1>6, Heads DEF Left, Gapped
<1> QED BY <1>1, <1>2, <1>3, <1>4, <1>5, <1>6 DEF Left

\* One command goes on, and the others are idle.
LEMMA CapabilityTurn ==
    ASSUME CapabilityInv, NEW o \in Operators, NEW d,
           \A p \in Operators : p = o \/ command[p] = Capability!Idle,
           command' = [command EXCEPT ![o] = d],
           d = Capability!Idle \/ CommandInv(d)', CapabilityShared'
    PROVE  CapabilityInv'
<1>1. Capability!Idle \in Commands
  BY Heads DEF Capability!Idle, Commands
<1>2. d \in Commands
  BY <1>1 DEF CommandInv
<1>3. command' \in [Operators -> Commands]
  BY <1>2 DEF CapabilityInv
<1>4. /\ command'[o] = d
      /\ \A p \in Operators : p = o \/ command'[p] = Capability!Idle
  BY DEF CapabilityInv
<1>5. \A p \in Operators : command'[p] = Capability!Idle \/ CommandInv(command[p])'
  BY <1>4 DEF CommandInv
<1> QED BY <1>3, <1>4, <1>5 DEF CapabilityInv, CapabilityShared

\* The command whose write comes is the one at work.
LEMMA CapabilityStep ==
    ASSUME CapabilityInv, NEW o \in Operators, NEW w, Capability!Step(o, w),
           NEW c, c = command[o]
    PROVE  /\ CommandInv(c) /\ c.todo # <<>> /\ Head(c.todo) = w
           /\ \A p \in Operators : p = o \/ command[p] = Capability!Idle
<1>1. c # Capability!Idle
  BY DEF Capability!Step, Capability!Idle
<1> QED BY <1>1 DEF CapabilityInv, Capability!Step

LEMMA WriteWorkerKeeps ==
    ASSUME CapabilityInv, NEW o \in Operators, Capability!WriteWorker(o)
    PROVE  CapabilityInv'
<1>1. PICK c : c = command[o]
  OBVIOUS
<1>2. /\ CommandInv(c) /\ c.todo # <<>> /\ Head(c.todo) = "worker"
      /\ \A p \in Operators : p = o \/ command[p] = Capability!Idle
  BY <1>1, CapabilityStep DEF Capability!WriteWorker
<1>3. /\ c.op \in Makers /\ Len(c.todo) # 1 /\ Left(c.op, Tail(c.todo)) /\ Tail(c.todo) # <<>>
      /\ Tail(c.todo) \in Seq(Writes) /\ Head(Tail(c.todo)) = "manifest"
      /\ Gapped(Tail(c.todo)) => Gapped(c.todo)
      /\ Len(Tail(c.todo)) < Len(c.todo)
  BY <1>2, TodoStep DEF CommandInv
<1> DEFINE d == [c EXCEPT !.todo = Tail(@)]
           f == FileOf[c.name]
           w == <<c.source, f>>
<1>4. command' = [command EXCEPT ![o] = d]
  BY <1>1, <1>3 DEF Capability!WriteWorker, Capability!Goes
<1>5. /\ d \in Commands /\ d.op = c.op /\ d.name = c.name /\ d.source = c.source
      /\ d.gap = c.gap /\ d.todo = Tail(c.todo)
  BY <1>2, <1>3 DEF CommandInv, Commands
<1>6. f \in Capability!Files /\ c.source \in Capability!Sources
  BY <1>2, <1>3 DEF CommandInv, Capability!Files
<1>7. /\ worker' \in [Capability!Sources \X Capability!Files -> {"none", "fresh", "proved"}]
      /\ worker'[w] # "none" /\ torn' = torn \cup {f}
      /\ \A v \in Capability!Sources \X Capability!Files : v # w => worker'[v] = worker[v]
      /\ UNCHANGED <<descriptor, gap, hit>>
  BY <1>1, <1>6 DEF CapabilityInv, Capability!TypeOK, Capability!WriteWorker, Capability!File
<1>8. CommandInv(d)'
  BY <1>2, <1>3, <1>5, <1>6, <1>7 DEF CommandInv, Makers
<1>9. Capability!TypeOK'
  BY <1>6, <1>7 DEF CapabilityInv, Capability!TypeOK, Capability!Described
<1>10. Capability!PromotedIsProved'
  BY <1>6, <1>7 DEF CapabilityInv, Capability!PromotedIsProved, Capability!TypeOK, Capability!Described
<1>11. CapabilityShared'
  BY <1>7, <1>9, <1>10 DEF CapabilityInv, CapabilityShared, Capability!GapNeverLeads
<1> QED BY <1>2, <1>4, <1>8, <1>11, CapabilityTurn

LEMMA RecordKeeps ==
    ASSUME CapabilityInv, NEW o \in Operators, Capability!Record(o), SurfacesAssumption
    PROVE  CapabilityInv'
<1>1. PICK c : c = command[o]
  OBVIOUS
<1>2. /\ CommandInv(c) /\ c.todo # <<>> /\ Head(c.todo) = "record"
      /\ \A p \in Operators : p = o \/ command[p] = Capability!Idle
  BY <1>1, CapabilityStep DEF Capability!Record
<1>3. c.op = "request" /\ Len(c.todo) = 1
  BY <1>2, TodoStep DEF CommandInv
<1>4. c.gap \in Gaps /\ gap[c.gap] = None /\ c.name \in SkillNames
  BY <1>2, <1>3 DEF CommandInv
<1> DEFINE r == [name |-> c.name, forged |-> FALSE,
                 verification |-> "unverified", promotion |-> "candidate"]
<1>5. r \in Capability!Recorded /\ r.forged = FALSE
      /\ r.verification # "verified" /\ r.promotion # "promoted"
  BY <1>4 DEF Capability!Recorded, Capability!Outcomes, Capability!Promotions
<1>6. /\ gap' = [gap EXCEPT ![c.gap] = r]
      /\ command' = [command EXCEPT ![o] = Capability!Idle]
      /\ UNCHANGED <<worker, descriptor, hit, torn>>
  BY <1>1, <1>3 DEF Capability!Record, Capability!Goes
<1> HIDE DEF r
<1>7. Capability!TypeOK'
  BY <1>4, <1>5, <1>6 DEF CapabilityInv, Capability!TypeOK
<1>8. Capability!GapNeverLeads'
  BY <1>4, <1>5, <1>6 DEF CapabilityInv, Capability!TypeOK, Capability!GapNeverLeads
<1>9. CapabilityShared'
  BY <1>6, <1>7, <1>8 DEF CapabilityInv, CapabilityShared, Capability!PromotedIsProved
<1> QED BY <1>2, <1>6, <1>9, CapabilityTurn

LEMMA WriteManifestKeeps ==
    ASSUME CapabilityInv, NEW o \in Operators, Capability!WriteManifest(o), SurfacesAssumption
    PROVE  CapabilityInv'
<1>1. PICK c : c = command[o]
  OBVIOUS
<1>2. /\ CommandInv(c) /\ c.todo # <<>> /\ Head(c.todo) = "manifest"
      /\ \A p \in Operators : p = o \/ command[p] = Capability!Idle
  BY <1>1, CapabilityStep DEF Capability!WriteManifest
<1>3. /\ c.op \in Makers /\ c.todo \in Seq(Writes)
      /\ Len(c.todo) # 1 =>
           /\ Left(c.op, Tail(c.todo)) /\ Tail(c.todo) # <<>>
           /\ Tail(c.todo) \in Seq(Writes) /\ Head(Tail(c.todo)) \in {"gap", "next"}
           /\ Gapped(Tail(c.todo)) => Gapped(c.todo)
           /\ Len(Tail(c.todo)) < Len(c.todo)
  BY <1>2, TodoStep DEF CommandInv
<1> DEFINE e == [c EXCEPT !.todo = Tail(@)]
           f == FileOf[c.name]
           r == Capability!Candidate(c.name, c.source)
<1>4. PICK d : d = IF Len(c.todo) = 1 THEN Capability!Idle ELSE e
  OBVIOUS
<1>5. command' = [command EXCEPT ![o] = d]
  BY <1>1, <1>4 DEF Capability!WriteManifest, Capability!Goes
<1>6. Len(c.todo) # 1 =>
        /\ e \in Commands /\ e.op = c.op /\ e.name = c.name /\ e.source = c.source
        /\ e.gap = c.gap /\ e.todo = Tail(c.todo)
  BY <1>2, <1>3 DEF CommandInv, Commands
<1>7. /\ f \in Capability!Files /\ c.source \in Capability!Sources /\ c.name \in SkillNames
      /\ worker[<<c.source, f>>] # "none"
  BY <1>2, <1>3 DEF CommandInv, Capability!Files
<1>8. /\ r \in Capability!Described /\ r # None /\ r.name = c.name /\ r.source = c.source
      /\ r.verification = "unverified" /\ r.promotion = "candidate"
  BY <1>7 DEF Capability!Described, Capability!Candidate, Capability!Outcomes,
              Capability!Promotions, SurfacesAssumption, Capability!CapabilitiesAssumption
<1>9. /\ descriptor' = [descriptor EXCEPT ![f] = r] /\ torn' = torn \ {f}
      /\ UNCHANGED <<worker, gap, hit>>
  BY <1>1 DEF Capability!WriteManifest, Capability!File, Capability!Descriptor
<1> HIDE DEF r, e
<1>10. /\ descriptor' \in [Capability!Files -> Capability!Described \cup {None}]
       /\ descriptor'[f] = r
       /\ \A h \in Capability!Files : h # f => descriptor'[h] = descriptor[h]
  BY <1>7, <1>8, <1>9 DEF CapabilityInv, Capability!TypeOK
<1>11. CommandInv(e)' \/ Len(c.todo) = 1
  <2> SUFFICES ASSUME Len(c.todo) # 1 PROVE CommandInv(e)'
    OBVIOUS
  <2>1. /\ e.todo # <<>> /\ Head(e.todo) \in {"gap", "next"} /\ e.op \in Makers
        /\ Left(e.op, e.todo) /\ e \in Commands /\ e.name \in SkillNames
        /\ e.source \in Capability!Sources /\ FileOf[e.name] = f /\ descriptor'[f] # None
    BY <1>3, <1>6, <1>7, <1>8, <1>10
  <2>2. e.op = "plugin" => e.gap \in SkillNames \cup {None} /\ (Len(e.todo) > 2 => e.gap \in SkillNames)
    <3>1. c.op = "plugin" => c.gap \in SkillNames \cup {None} /\ (Len(c.todo) > 2 => c.gap \in SkillNames)
      BY <1>2 DEF CommandInv
    <3>2. Len(Tail(c.todo)) > 2 => Len(c.todo) > 2
      BY ONLY <1>3, Len(c.todo) # 1
    <3> QED
      BY ONLY <3>1, <3>2, <1>6, Len(c.todo) # 1
  <2>3. Gapped(e.todo) => e.gap \in Gaps /\ gap'[e.gap] # None /\ gap'[e.gap].name = e.name
    BY <1>2, <1>3, <1>6, <1>9 DEF CommandInv
  <2> QED
    BY <2>1, <2>2, <2>3 DEF CommandInv, Makers
<1>12. Capability!TypeOK'
  BY <1>7, <1>8, <1>9, <1>10 DEF CapabilityInv, Capability!TypeOK
<1>13. Capability!PromotedIsProved'
  BY <1>7, <1>8, <1>9, <1>10 DEF CapabilityInv, Capability!PromotedIsProved
<1>14. Capability!GapNeverLeads'
  <2>1. \A n \in SkillNames : descriptor[FileOf[n]] # None => descriptor'[FileOf[n]] # None
    BY <1>8, <1>10 DEF Capability!Files
  <2>2. \A g \in Gaps : gap[g] # None => gap[g].name \in SkillNames
    BY DEF CapabilityInv, Capability!TypeOK, Capability!Recorded
  <2> QED
    BY <2>1, <2>2, <1>9 DEF CapabilityInv, Capability!GapNeverLeads
<1>15. CapabilityShared'
  BY <1>7, <1>8, <1>9, <1>10, <1>12, <1>13, <1>14 DEF CapabilityInv, CapabilityShared
<1>16. d = Capability!Idle \/ CommandInv(d)'
  <2>1. CASE Len(c.todo) = 1
    BY <2>1, <1>4
  <2>2. CASE Len(c.todo) # 1
    <3>1. d = e
      BY <2>2, <1>4
    <3> QED BY <3>1, <2>2, <1>11
  <2> QED BY <2>1, <2>2
<1> QED BY <1>2, <1>5, <1>15, <1>16, CapabilityTurn

LEMMA NextSkillKeeps ==
    ASSUME CapabilityInv, NEW o \in Operators, Capability!NextSkill(o)
    PROVE  CapabilityInv'
<1>1. PICK c : c = command[o]
  OBVIOUS
<1>2. /\ CommandInv(c) /\ c.todo # <<>> /\ Head(c.todo) = "next"
      /\ \A p \in Operators : p = o \/ command[p] = Capability!Idle
  BY <1>1, CapabilityStep DEF Capability!NextSkill
<1>3. /\ c.op = "plugin" /\ Len(c.todo) # 1 /\ Len(c.todo) > 2 /\ Left(c.op, Tail(c.todo))
      /\ Tail(c.todo) # <<>> /\ Tail(c.todo) \in Seq(Writes) /\ ~(Len(Tail(c.todo)) > 2)
      /\ Head(Tail(c.todo)) = "worker" /\ ~Gapped(Tail(c.todo))
  BY <1>2, TodoStep, Zenon DEF CommandInv
<1> DEFINE d == [c EXCEPT !.name = c.gap, !.gap = None, !.todo = Tail(@)]
           b == [c EXCEPT !.name = c.gap, !.gap = None]
<1>4. [b EXCEPT !.todo = Tail(@)] = d /\ b.todo = c.todo
  BY <1>2 DEF CommandInv, Commands
<1>5. command' = [command EXCEPT ![o] = d]
  BY <1>1, <1>3, <1>4 DEF Capability!NextSkill, Capability!Goes
<1>6. c.gap \in SkillNames /\ c.source \in Capability!Sources
  BY <1>2, <1>3 DEF CommandInv, Makers
<1>7. /\ d \in Commands /\ d.op = c.op /\ d.name = c.gap /\ d.source = c.source
      /\ d.gap = None /\ d.todo = Tail(c.todo)
  BY <1>2, <1>3, <1>6 DEF CommandInv, Commands
<1>8. UNCHANGED <<worker, descriptor, gap, hit, torn>>
  BY DEF Capability!NextSkill
<1> HIDE DEF d, b
<1>9. CommandInv(d)'
  BY <1>3, <1>6, <1>7, <1>8 DEF CommandInv, Makers
<1>10. CapabilityShared'
  BY <1>8 DEF CapabilityInv, CapabilityShared, Capability!TypeOK, Capability!PromotedIsProved,
              Capability!GapNeverLeads
<1> QED BY <1>2, <1>5, <1>9, <1>10, CapabilityTurn

LEMMA RunWorkerKeeps ==
    ASSUME CapabilityInv, NEW o \in Operators, NEW good \in BOOLEAN, Capability!RunWorker(o, good),
           SurfacesAssumption, BuiltInApart
    PROVE  CapabilityInv'
<1>1. PICK c : c = command[o]
  OBVIOUS
<1>2. /\ CommandInv(c) /\ c.todo # <<>> /\ Head(c.todo) = "run"
      /\ \A p \in Operators : p = o \/ command[p] = Capability!Idle
  BY <1>1, CapabilityStep DEF Capability!RunWorker
<1>3. /\ c.op = "verify" /\ Len(c.todo) # 1 /\ Left(c.op, Tail(c.todo))
      /\ Tail(c.todo) # <<>> /\ Tail(c.todo) \in Seq(Writes) /\ Head(Tail(c.todo)) = "verification"
      /\ Gapped(Tail(c.todo)) => Gapped(c.todo)
  BY <1>2, TodoStep DEF CommandInv
<1> DEFINE d == [c EXCEPT !.good = good, !.todo = Tail(@)]
           b == [c EXCEPT !.good = good]
           f == FileOf[c.name]
           w == <<descriptor[f].source, f>>
<1>4. [b EXCEPT !.todo = Tail(@)] = d /\ b.todo = c.todo
  BY <1>2 DEF CommandInv, Commands
<1>5. command' = [command EXCEPT ![o] = d]
  BY <1>1, <1>3, <1>4 DEF Capability!RunWorker, Capability!Goes
<1>6. f \in Capability!Files /\ c.name \in SkillNames /\ Capability!Resolves(c.name)
  BY <1>2, <1>3 DEF CommandInv, Capability!Files
<1>7. /\ d \in Commands /\ d.op = c.op /\ d.name = c.name /\ d.source = c.source
      /\ d.gap = c.gap /\ d.todo = Tail(c.todo) /\ d.good = good
  BY <1>2, <1>3 DEF CommandInv, Commands
<1>8. UNCHANGED <<descriptor, gap, hit, torn>>
  BY DEF Capability!RunWorker
<1> HIDE DEF d, b
<1>9. CASE good /\ descriptor[f] # None
  <2>1. descriptor[f] \in Capability!Described /\ descriptor[f].source \in Capability!Sources
    BY <1>6, <1>9 DEF CapabilityInv, Capability!TypeOK, Capability!Described
  <2>2. descriptor[f].name \in SkillNames /\ FileOf[descriptor[f].name] = f
    BY <2>1, <1>6, <1>9 DEF CapabilityInv, Capability!Described
  <2>3. descriptor[f].name = c.name
    BY <2>2, <1>6 DEF Capability!Resolves, Capability!CustomOf, BuiltInApart
  <2>4. worker' = [worker EXCEPT ![w] = "proved"]
    BY <2>3, <1>1, <1>9 DEF Capability!RunWorker, Capability!CustomOf, Capability!File
  <2>5. /\ worker' \in [Capability!Sources \X Capability!Files -> {"none", "fresh", "proved"}]
        /\ worker'[w] = "proved"
        /\ \A v \in Capability!Sources \X Capability!Files : v # w => worker'[v] = worker[v]
    BY <2>1, <2>4, <1>6 DEF CapabilityInv, Capability!TypeOK
  <2>6. CommandInv(d)'
    BY <2>5, <1>2, <1>3, <1>7, <1>8 DEF CommandInv, Makers
  <2>7. Capability!TypeOK'
    BY <2>5, <1>8 DEF CapabilityInv, Capability!TypeOK, Capability!Described
  <2>8. Capability!PromotedIsProved'
    BY <2>5, <1>8 DEF CapabilityInv, Capability!TypeOK, Capability!Described,
                      Capability!PromotedIsProved
  <2>9. CapabilityShared'
    BY <2>7, <2>8, <1>8 DEF CapabilityInv, CapabilityShared, Capability!GapNeverLeads
  <2> QED BY <2>6, <2>9, <1>2, <1>5, CapabilityTurn
<1>10. CASE ~(good /\ descriptor[f] # None)
  <2>1. UNCHANGED worker
    BY <1>1, <1>10 DEF Capability!RunWorker, Capability!CustomOf
  <2>2. CommandInv(d)'
    BY <2>1, <1>2, <1>3, <1>7, <1>8, <1>10 DEF CommandInv, Makers
  <2>3. CapabilityShared'
    BY <2>1, <1>8 DEF CapabilityInv, CapabilityShared, Capability!TypeOK,
                      Capability!PromotedIsProved, Capability!GapNeverLeads
  <2> QED BY <2>2, <2>3, <1>2, <1>5, CapabilityTurn
<1> QED BY <1>9, <1>10

LEMMA WriteVerificationKeeps ==
    ASSUME CapabilityInv, NEW o \in Operators, Capability!WriteVerification(o), SurfacesAssumption
    PROVE  CapabilityInv'
<1>1. PICK c : c = command[o]
  OBVIOUS
<1>2. /\ CommandInv(c) /\ c.todo # <<>> /\ Head(c.todo) = "verification"
      /\ \A p \in Operators : p = o \/ command[p] = Capability!Idle
  BY <1>1, CapabilityStep DEF Capability!WriteVerification
<1>3. /\ c.op = "verify"
      /\ Len(c.todo) # 1 =>
           /\ Left(c.op, Tail(c.todo)) /\ Tail(c.todo) # <<>>
           /\ Tail(c.todo) \in Seq(Writes) /\ Head(Tail(c.todo)) = "gap"
           /\ Gapped(Tail(c.todo)) => Gapped(c.todo)
  BY <1>2, TodoStep DEF CommandInv
<1> DEFINE e == [c EXCEPT !.todo = Tail(@)]
           f == FileOf[c.name]
           outcome == IF c.good THEN "verified" ELSE "failed"
<1>4. f \in Capability!Files /\ c.name \in SkillNames
  BY <1>2 DEF CommandInv, Capability!Files
<1>5. UNCHANGED <<worker, gap, torn>>
  BY DEF Capability!WriteVerification
<1>6. CASE descriptor[f] = None
  <2>1. /\ command' = [command EXCEPT ![o] = Capability!Idle]
        /\ UNCHANGED <<descriptor, hit>>
    BY <1>1, <1>6 DEF Capability!WriteVerification, Capability!File
  <2>2. CapabilityShared'
    BY <2>1, <1>5 DEF CapabilityInv, CapabilityShared, Capability!TypeOK,
                      Capability!PromotedIsProved, Capability!GapNeverLeads
  <2> QED BY <2>1, <2>2, <1>2, CapabilityTurn
<1>7. CASE descriptor[f] # None
  <2> DEFINE old == descriptor[f]
             new == [old EXCEPT !.verification = outcome]
  <2>1. PICK d : d = IF Len(c.todo) = 1 THEN Capability!Idle ELSE e
    OBVIOUS
  <2>2. command' = [command EXCEPT ![o] = d]
    BY <2>1, <1>1, <1>7 DEF Capability!WriteVerification, Capability!Goes, Capability!File
  <2>3. Len(c.todo) # 1 =>
          /\ e \in Commands /\ e.op = c.op /\ e.name = c.name /\ e.source = c.source
          /\ e.gap = c.gap /\ e.todo = Tail(c.todo) /\ e.good = c.good
    BY <1>2, <1>3 DEF CommandInv, Commands
  <2>4. old \in Capability!Described
    BY <1>4, <1>7 DEF CapabilityInv, Capability!TypeOK
  <2>5. /\ new \in Capability!Described /\ new.name = old.name /\ new.source = old.source
        /\ new.verification = outcome /\ new.promotion = old.promotion
    BY <2>4 DEF Capability!Described, Capability!Outcomes
  <2>6. new # None
    BY <2>5 DEF SurfacesAssumption, Capability!CapabilitiesAssumption
  <2>7. /\ descriptor' = [descriptor EXCEPT ![f] = new]
        /\ hit' = [hit EXCEPT !.verified = IF c.good THEN @ \cup {c.name} ELSE @]
    BY <1>1, <1>7 DEF Capability!WriteVerification, Capability!File
  <2>8. /\ hit' \in [verified : SUBSET SkillNames, promoted : SUBSET SkillNames]
        /\ hit.verified \subseteq hit'.verified /\ hit'.promoted = hit.promoted
        /\ c.good => c.name \in hit'.verified
    BY <2>7, <1>4 DEF CapabilityInv
  <2> HIDE DEF new, old, e, outcome
  <2>9. /\ descriptor' \in [Capability!Files -> Capability!Described \cup {None}]
        /\ descriptor'[f] = new
        /\ \A h \in Capability!Files : h # f => descriptor'[h] = descriptor[h]
    BY <2>5, <2>7, <1>4 DEF CapabilityInv, Capability!TypeOK
  <2>10. c.good => worker[<<old.source, f>>] = "proved"
    BY <1>2, <1>3, <1>7 DEF CommandInv, old
  <2>11. CommandInv(e)' \/ Len(c.todo) = 1
    <3> SUFFICES ASSUME Len(c.todo) # 1 PROVE CommandInv(e)'
      OBVIOUS
    <3> QED
      BY <2>3, <2>8, <1>2, <1>3, <1>4, <1>5 DEF CommandInv, Makers
  <2>12. Capability!TypeOK'
    <3>1. worker[<<old.source, f>>] # "none"
      BY <1>4, <1>7 DEF CapabilityInv, Capability!TypeOK, old
    <3> QED
      BY <3>1, <2>5, <2>9, <1>4, <1>5 DEF CapabilityInv, Capability!TypeOK
  <2>13. Capability!PromotedIsProved'
    <3>1. f \notin torn /\ (new.verification = "verified" \/ new.promotion = "promoted") =>
            worker[<<old.source, f>>] = "proved"
      BY <2>5, <2>10, <1>4, <1>7 DEF CapabilityInv, Capability!PromotedIsProved, old, outcome
    <3>2. ASSUME NEW h \in Capability!Files \ torn, h # f, descriptor'[h] # None,
                 descriptor'[h].verification = "verified" \/ descriptor'[h].promotion = "promoted"
          PROVE  worker[<<descriptor'[h].source, h>>] = "proved"
      BY <3>2, <2>9 DEF CapabilityInv, Capability!PromotedIsProved
    <3> QED
      BY <3>1, <3>2, <2>5, <2>9, <1>5 DEF Capability!PromotedIsProved
  <2>14. Capability!GapNeverLeads'
    <3>1. \A n \in SkillNames : descriptor[FileOf[n]] # None => descriptor'[FileOf[n]] # None
      BY <2>6, <2>9 DEF Capability!Files
    <3>2. \A g \in Gaps : gap[g] # None => gap[g].name \in SkillNames
      BY DEF CapabilityInv, Capability!TypeOK, Capability!Recorded
    <3>3. Capability!GapNeverLeads
      BY DEF CapabilityInv
    <3>4. gap' = gap
      BY <1>5
    <3> SUFFICES ASSUME NEW g \in Gaps, gap[g] # None
                 PROVE  /\ gap[g].forged => descriptor'[FileOf[gap[g].name]] # None
                        /\ gap[g].verification = "verified" => gap[g].name \in hit'.verified
                        /\ gap[g].promotion = "promoted" => gap[g].name \in hit'.promoted
      BY <3>4 DEF Capability!GapNeverLeads
    <3>5. gap[g].forged => descriptor'[FileOf[gap[g].name]] # None
      BY ONLY <3>1, <3>2, <3>3, gap[g] # None, g \in Gaps DEF Capability!GapNeverLeads
    <3>6. gap[g].verification = "verified" => gap[g].name \in hit'.verified
      BY ONLY <2>8, <3>3, gap[g] # None, g \in Gaps DEF Capability!GapNeverLeads
    <3>7. gap[g].promotion = "promoted" => gap[g].name \in hit'.promoted
      BY ONLY <2>8, <3>3, gap[g] # None, g \in Gaps DEF Capability!GapNeverLeads
    <3> QED BY ONLY <3>5, <3>6, <3>7
  <2>15. CapabilityShared'
    <3>1. FileOf[descriptor'[f].name] = f
      BY <2>5, <2>9, <1>4, <1>7 DEF CapabilityInv, old
    <3>2. \A h \in Capability!Files : descriptor'[h] # None => FileOf[descriptor'[h].name] = h
      BY <3>1, <2>9 DEF CapabilityInv
    <3> QED BY <3>2, <2>8, <2>12, <2>13, <2>14 DEF CapabilityShared
  <2>16. d = Capability!Idle \/ CommandInv(d)'
    <3>1. CASE Len(c.todo) = 1
      BY <3>1, <2>1
    <3>2. CASE Len(c.todo) # 1
      <4>1. d = e
        BY <3>2, <2>1
      <4> QED BY <4>1, <3>2, <2>11
    <3> QED BY <3>1, <3>2
  <2> QED BY <2>2, <2>15, <2>16, <1>2, CapabilityTurn
<1> QED BY <1>6, <1>7

LEMMA WritePromotionKeeps ==
    ASSUME CapabilityInv, NEW o \in Operators, Capability!WritePromotion(o), SurfacesAssumption
    PROVE  CapabilityInv'
<1>1. PICK c : c = command[o]
  OBVIOUS
<1>2. /\ CommandInv(c) /\ c.todo # <<>> /\ Head(c.todo) = "promotion"
      /\ \A p \in Operators : p = o \/ command[p] = Capability!Idle
  BY <1>1, CapabilityStep DEF Capability!WritePromotion
<1>3. /\ c.op = "promote"
      /\ Len(c.todo) # 1 =>
           /\ Left(c.op, Tail(c.todo)) /\ Tail(c.todo) # <<>>
           /\ Tail(c.todo) \in Seq(Writes) /\ Head(Tail(c.todo)) = "gap"
           /\ Gapped(Tail(c.todo)) => Gapped(c.todo)
  BY <1>2, TodoStep DEF CommandInv
<1> DEFINE e == [c EXCEPT !.todo = Tail(@)]
           f == FileOf[c.name]
           old == descriptor[f]
           new == [old EXCEPT !.promotion = "promoted"]
<1>4. f \in Capability!Files /\ c.name \in SkillNames
  BY <1>2 DEF CommandInv, Capability!Files
<1>5. UNCHANGED <<worker, gap, torn>>
  BY DEF Capability!WritePromotion
<1>6. old # None /\ old.verification = "verified"
  BY <1>2, <1>3 DEF CommandInv
<1>7. PICK d : d = IF Len(c.todo) = 1 THEN Capability!Idle ELSE e
  OBVIOUS
<1>8. command' = [command EXCEPT ![o] = d]
  BY <1>7, <1>1 DEF Capability!WritePromotion, Capability!Goes
<1>9. Len(c.todo) # 1 =>
        /\ e \in Commands /\ e.op = c.op /\ e.name = c.name /\ e.source = c.source
        /\ e.gap = c.gap /\ e.todo = Tail(c.todo)
  BY <1>2, <1>3 DEF CommandInv, Commands
<1>10. old \in Capability!Described
  BY <1>4, <1>6 DEF CapabilityInv, Capability!TypeOK
<1>11. /\ new \in Capability!Described /\ new.name = old.name /\ new.source = old.source
       /\ new.verification = old.verification
  BY <1>10 DEF Capability!Described, Capability!Promotions
<1>12. new # None
  BY <1>11 DEF SurfacesAssumption, Capability!CapabilitiesAssumption
<1>13. /\ descriptor' = [descriptor EXCEPT ![f] = new]
       /\ hit' = [hit EXCEPT !.promoted = @ \cup {c.name}]
  BY <1>1 DEF Capability!WritePromotion, Capability!File
<1>14. /\ hit' \in [verified : SUBSET SkillNames, promoted : SUBSET SkillNames]
       /\ hit.promoted \subseteq hit'.promoted /\ hit'.verified = hit.verified
       /\ c.name \in hit'.promoted
  BY <1>13, <1>4 DEF CapabilityInv
<1> HIDE DEF new, old, e
<1>15. /\ descriptor' \in [Capability!Files -> Capability!Described \cup {None}]
       /\ descriptor'[f] = new
       /\ \A h \in Capability!Files : h # f => descriptor'[h] = descriptor[h]
  BY <1>11, <1>13, <1>4 DEF CapabilityInv, Capability!TypeOK
<1>16. CommandInv(e)' \/ Len(c.todo) = 1
  <2> SUFFICES ASSUME Len(c.todo) # 1 PROVE CommandInv(e)'
    OBVIOUS
  <2> QED
    BY <1>9, <1>14, <1>2, <1>3, <1>4, <1>5 DEF CommandInv, Makers
<1>17. Capability!TypeOK'
  <2>1. worker[<<old.source, f>>] # "none"
    BY <1>4, <1>6 DEF CapabilityInv, Capability!TypeOK, old
  <2> QED
    BY <2>1, <1>11, <1>15, <1>4, <1>5 DEF CapabilityInv, Capability!TypeOK
<1>18. Capability!PromotedIsProved'
  <2>1. f \notin torn => worker[<<old.source, f>>] = "proved"
    BY <1>4, <1>6 DEF CapabilityInv, Capability!PromotedIsProved, old
  <2>2. ASSUME NEW h \in Capability!Files \ torn, h # f, descriptor'[h] # None,
               descriptor'[h].verification = "verified" \/ descriptor'[h].promotion = "promoted"
        PROVE  worker[<<descriptor'[h].source, h>>] = "proved"
    BY <2>2, <1>15 DEF CapabilityInv, Capability!PromotedIsProved
  <2> QED
    BY <2>1, <2>2, <1>11, <1>15, <1>5 DEF Capability!PromotedIsProved
<1>19. Capability!GapNeverLeads'
  <2>1. \A n \in SkillNames : descriptor[FileOf[n]] # None => descriptor'[FileOf[n]] # None
    BY <1>12, <1>15 DEF Capability!Files
  <2>2. \A g \in Gaps : gap[g] # None => gap[g].name \in SkillNames
    BY DEF CapabilityInv, Capability!TypeOK, Capability!Recorded
  <2>3. Capability!GapNeverLeads
    BY DEF CapabilityInv
  <2>4. gap' = gap
    BY <1>5
  <2> SUFFICES ASSUME NEW g \in Gaps, gap[g] # None
               PROVE  /\ gap[g].forged => descriptor'[FileOf[gap[g].name]] # None
                      /\ gap[g].verification = "verified" => gap[g].name \in hit'.verified
                      /\ gap[g].promotion = "promoted" => gap[g].name \in hit'.promoted
    BY <2>4 DEF Capability!GapNeverLeads
  <2>5. gap[g].forged => descriptor'[FileOf[gap[g].name]] # None
    BY ONLY <2>1, <2>2, <2>3, gap[g] # None, g \in Gaps DEF Capability!GapNeverLeads
  <2>6. gap[g].verification = "verified" => gap[g].name \in hit'.verified
    BY ONLY <1>14, <2>3, gap[g] # None, g \in Gaps DEF Capability!GapNeverLeads
  <2>7. gap[g].promotion = "promoted" => gap[g].name \in hit'.promoted
    BY ONLY <1>14, <2>3, gap[g] # None, g \in Gaps DEF Capability!GapNeverLeads
  <2> QED BY ONLY <2>5, <2>6, <2>7
<1>20. CapabilityShared'
  <2>1. FileOf[descriptor'[f].name] = f
    BY <1>11, <1>15, <1>4, <1>6 DEF CapabilityInv, old
  <2>2. \A h \in Capability!Files : descriptor'[h] # None => FileOf[descriptor'[h].name] = h
    BY <2>1, <1>15 DEF CapabilityInv
  <2> QED BY <2>2, <1>14, <1>17, <1>18, <1>19 DEF CapabilityShared
<1>21. d = Capability!Idle \/ CommandInv(d)'
  <2>1. CASE Len(c.todo) = 1
    BY <2>1, <1>7
  <2>2. CASE Len(c.todo) # 1
    <3>1. d = e
      BY <2>2, <1>7
    <3> QED BY <3>1, <2>2, <1>16
  <2> QED BY <2>1, <2>2
<1> QED BY <1>2, <1>8, <1>20, <1>21, CapabilityTurn

LEMMA WriteGapKeeps ==
    ASSUME CapabilityInv, NEW o \in Operators, Capability!WriteGap(o), SurfacesAssumption
    PROVE  CapabilityInv'
<1>1. PICK c : c = command[o]
  OBVIOUS
<1>2. /\ CommandInv(c) /\ c.todo # <<>> /\ Head(c.todo) = "gap"
      /\ \A p \in Operators : p = o \/ command[p] = Capability!Idle
  BY <1>1, CapabilityStep DEF Capability!WriteGap
<1>3. c.op \in {"forge", "verify", "promote"} /\ Len(c.todo) = 1 /\ Gapped(c.todo)
  <2>1. Left(c.op, c.todo)
    BY <1>2 DEF CommandInv
  <2> QED BY ONLY <1>2, <2>1, TodoStep
<1> DEFINE old == gap[c.gap]
           new == IF c.op = "forge" THEN [old EXCEPT !.forged = TRUE]
                  ELSE IF c.op = "verify" THEN Capability!GapOutcome(old, c.good)
                  ELSE [old EXCEPT !.promotion = "promoted"]
<1>4. c.gap \in Gaps /\ old # None /\ old.name = c.name /\ c.name \in SkillNames
  BY <1>2, <1>3 DEF CommandInv
<1>5. old \in Capability!Recorded
  BY <1>4 DEF CapabilityInv, Capability!TypeOK
<1>6. /\ gap' = [gap EXCEPT ![c.gap] = new]
      /\ command' = [command EXCEPT ![o] = Capability!Idle]
      /\ UNCHANGED <<worker, descriptor, hit, torn>>
  BY <1>1, <1>3 DEF Capability!WriteGap, Capability!Goes
<1>7. /\ old.forged => descriptor[FileOf[c.name]] # None
      /\ old.verification = "verified" => c.name \in hit.verified
      /\ old.promotion = "promoted" => c.name \in hit.promoted
  BY <1>4 DEF CapabilityInv, Capability!GapNeverLeads
<1>8. /\ new \in Capability!Recorded /\ new.name = c.name
      /\ new.forged => descriptor[FileOf[c.name]] # None
      /\ new.verification = "verified" => c.name \in hit.verified
      /\ new.promotion = "promoted" => c.name \in hit.promoted
  <2>1. CASE c.op = "forge"
    <3>1. /\ new \in Capability!Recorded /\ new.name = old.name
          /\ new.verification = old.verification /\ new.promotion = old.promotion
      BY <1>5, <2>1 DEF Capability!Recorded
    <3>2. descriptor[FileOf[c.name]] # None
      BY <1>2, <2>1 DEF CommandInv, Makers
    <3> HIDE DEF new, old
    <3> QED BY <3>1, <3>2, <1>4, <1>7
  <2>2. CASE c.op = "verify"
    <3>1. /\ new \in Capability!Recorded /\ new.name = old.name
          /\ new.promotion = old.promotion
      BY <1>5, <2>2 DEF Capability!Recorded, Capability!GapOutcome, Capability!Outcomes
    <3>2. new.forged = old.forged
      BY <1>5, <2>2 DEF Capability!Recorded, Capability!GapOutcome
    <3>3. new.verification = "verified" => c.good
      BY <1>5, <2>2 DEF Capability!Recorded, Capability!GapOutcome
    <3>4. c.good => c.name \in hit.verified
      BY <1>2, <2>2 DEF CommandInv
    <3> HIDE DEF new, old
    <3>5. new.forged => descriptor[FileOf[c.name]] # None
      BY ONLY <3>2, <1>7
    <3>6. new.verification = "verified" => c.name \in hit.verified
      BY ONLY <3>3, <3>4
    <3> QED BY ONLY <3>1, <3>5, <3>6, <1>4, <1>7
  <2>3. CASE c.op = "promote"
    <3>1. /\ new \in Capability!Recorded /\ new.name = old.name
          /\ new.verification = old.verification
      BY <1>5, <2>3 DEF Capability!Recorded, Capability!Promotions
    <3>2. new.forged = old.forged
      BY <1>5, <2>3 DEF Capability!Recorded
    <3>3. c.name \in hit.promoted
      BY <1>2, <2>3 DEF CommandInv
    <3> HIDE DEF new, old
    <3>4. new.forged => descriptor[FileOf[c.name]] # None
      BY ONLY <3>2, <1>7
    <3>5. new.verification = "verified" => c.name \in hit.verified
      BY ONLY <3>1, <1>7
    <3> QED BY ONLY <3>1, <3>3, <3>4, <3>5, <1>4
  <2> QED BY <1>3, <2>1, <2>2, <2>3
<1> HIDE DEF new, old
<1>9. Capability!TypeOK'
  BY <1>4, <1>6, <1>8 DEF CapabilityInv, Capability!TypeOK
<1>10. Capability!GapNeverLeads'
  <2>1. gap'[c.gap] = new /\ \A g \in Gaps : g # c.gap => gap'[g] = gap[g]
    BY <1>4, <1>6 DEF CapabilityInv, Capability!TypeOK
  <2> SUFFICES ASSUME NEW g \in Gaps, gap'[g] # None
               PROVE  /\ gap'[g].forged => descriptor[FileOf[gap'[g].name]] # None
                      /\ gap'[g].verification = "verified" => gap'[g].name \in hit.verified
                      /\ gap'[g].promotion = "promoted" => gap'[g].name \in hit.promoted
    BY <1>6 DEF Capability!GapNeverLeads
  <2>2. CASE g = c.gap
    BY ONLY <2>1, <2>2, <1>8
  <2>3. CASE g # c.gap
    BY <2>1, <2>3 DEF CapabilityInv, Capability!GapNeverLeads
  <2> QED BY <2>2, <2>3
<1>11. CapabilityShared'
  BY <1>6, <1>9, <1>10 DEF CapabilityInv, CapabilityShared, Capability!PromotedIsProved
<1> QED BY <1>2, <1>6, <1>11, CapabilityTurn

LEMMA CrashKeeps ==
    ASSUME CapabilityInv, NEW o \in Operators, Capability!Crash(o)
    PROVE  CapabilityInv'
<1>1. /\ command[o] # Capability!Idle
      /\ command' = [command EXCEPT ![o] = Capability!Idle]
      /\ UNCHANGED <<worker, descriptor, gap, hit, torn>>
  BY DEF Capability!Crash
<1>2. \A p \in Operators : p = o \/ command[p] = Capability!Idle
  BY <1>1 DEF CapabilityInv
<1>3. CapabilityShared'
  BY <1>1 DEF CapabilityInv, CapabilityShared, Capability!TypeOK, Capability!PromotedIsProved,
              Capability!GapNeverLeads
<1> QED BY <1>1, <1>2, <1>3, CapabilityTurn

-----------------------------------------------------------------------------
(* A command starts when the others are idle.                              *)

LEMMA StartKeeps ==
    ASSUME CapabilityInv, Serial, NEW o \in Operators, NEW cmd, Capability!Start(o, cmd),
           CommandInv(cmd)
    PROVE  CapabilityInv'
<1>1. /\ \A p \in Operators : command[p] = Capability!Idle
      /\ command' = [command EXCEPT ![o] = cmd]
      /\ UNCHANGED <<worker, descriptor, gap, hit, torn>>
  BY DEF Capability!Start
<1>2. CommandInv(cmd)'
  BY <1>1 DEF CommandInv, Capability!Resolves, Capability!CustomOf
<1>3. CapabilityShared'
  BY <1>1 DEF CapabilityInv, CapabilityShared, Capability!TypeOK, Capability!PromotedIsProved,
              Capability!GapNeverLeads
<1> QED BY <1>1, <1>2, <1>3, CapabilityTurn

\* Append to a sequence of one and of two.
LEMMA AppendOne ==
    ASSUME NEW S, NEW a \in S, NEW b \in S
    PROVE  Append(<<a>>, b) = <<a, b>>
<1>1. /\ <<a>> \in Seq(S) /\ <<a, b>> \in Seq(S) /\ Len(<<a>>) = 1 /\ Len(<<a, b>>) = 2
      /\ <<a>>[1] = a /\ <<a, b>>[1] = a /\ <<a, b>>[2] = b
  OBVIOUS
<1>2. PICK s \in Seq(S) : s = <<a>>
  BY <1>1
<1>3. /\ Append(s, b) \in Seq(S) /\ Len(Append(s, b)) = 2
      /\ Append(s, b)[1] = a /\ Append(s, b)[2] = b
  BY <1>1, <1>2, AppendProperties
<1>4. PICK r \in Seq(S) : r = <<a, b>>
  BY <1>1
<1>5. PICK q \in Seq(S) : q = Append(s, b)
  BY <1>3
<1>6. Len(q) = Len(r) /\ \A i \in 1 .. Len(q) : i = 1 \/ i = 2
  BY <1>1, <1>3, <1>4, <1>5
<1>7. \A i \in 1 .. Len(q) : q[i] = r[i]
  BY <1>1, <1>3, <1>4, <1>5, <1>6
<1> QED BY ONLY <1>2, <1>4, <1>5, <1>6, <1>7, SeqEqual

LEMMA AppendTwo ==
    ASSUME NEW S, NEW a \in S, NEW b \in S, NEW c \in S
    PROVE  Append(<<a, b>>, c) = <<a, b, c>>
<1>1. /\ <<a, b>> \in Seq(S) /\ <<a, b, c>> \in Seq(S)
      /\ Len(<<a, b>>) = 2 /\ Len(<<a, b, c>>) = 3
      /\ <<a, b>>[1] = a /\ <<a, b>>[2] = b
      /\ <<a, b, c>>[1] = a /\ <<a, b, c>>[2] = b /\ <<a, b, c>>[3] = c
  OBVIOUS
<1>2. PICK s \in Seq(S) : s = <<a, b>>
  BY <1>1
<1>3. /\ Append(s, c) \in Seq(S) /\ Len(Append(s, c)) = 3
      /\ Append(s, c)[1] = a /\ Append(s, c)[2] = b /\ Append(s, c)[3] = c
  BY <1>1, <1>2, AppendProperties
<1>4. PICK r \in Seq(S) : r = <<a, b, c>>
  BY <1>1
<1>5. PICK q \in Seq(S) : q = Append(s, c)
  BY <1>3
<1>6. Len(q) = Len(r) /\ \A i \in 1 .. Len(q) : i = 1 \/ i = 2 \/ i = 3
  BY <1>1, <1>3, <1>4, <1>5
<1>7. \A i \in 1 .. Len(q) : q[i] = r[i]
  BY <1>1, <1>3, <1>4, <1>5, <1>6
<1> QED BY ONLY <1>2, <1>4, <1>5, <1>6, <1>7, SeqEqual

\* The writes of a command that has a gap to update, and of one that has none.
LEMMA Gapping ==
    ASSUME NEW g
    PROVE  /\ g = None =>
                /\ Capability!WithGap(g, <<"worker", "manifest">>) = <<"worker", "manifest">>
                /\ Capability!WithGap(g, <<"run", "verification">>) = <<"run", "verification">>
                /\ Capability!WithGap(g, <<"promotion">>) = <<"promotion">>
           /\ g # None =>
                /\ Capability!WithGap(g, <<"worker", "manifest">>) = <<"worker", "manifest", "gap">>
                /\ Capability!WithGap(g, <<"run", "verification">>) = <<"run", "verification", "gap">>
                /\ Capability!WithGap(g, <<"promotion">>) = <<"promotion", "gap">>
<1>1. /\ "worker" \in Writes /\ "manifest" \in Writes /\ "run" \in Writes
      /\ "verification" \in Writes /\ "promotion" \in Writes /\ "gap" \in Writes
  BY DEF Writes
<1>2. Append(<<"worker", "manifest">>, "gap") = <<"worker", "manifest", "gap">>
  BY ONLY <1>1, AppendTwo
<1>3. Append(<<"run", "verification">>, "gap") = <<"run", "verification", "gap">>
  BY ONLY <1>1, AppendTwo
<1>4. Append(<<"promotion">>, "gap") = <<"promotion", "gap">>
  BY ONLY <1>1, AppendOne
<1> QED BY <1>2, <1>3, <1>4 DEF Capability!WithGap

LEMMA RequestKeeps ==
    ASSUME CapabilityInv, Serial, NEW o \in Operators, NEW name \in SkillNames, NEW g \in Gaps,
           Capability!Request(o, name, g)
    PROVE  CapabilityInv'
<1>1. PICK c : c = [Capability!Idle EXCEPT !.op = "request", !.name = name, !.gap = g,
                                           !.todo = <<"record">>]
  OBVIOUS
<1>2. /\ c.op = "request" /\ c.name = name /\ c.gap = g /\ c.todo = <<"record">>
      /\ c.source = None /\ c.good = FALSE
  BY <1>1 DEF Capability!Idle
<1>3. /\ c.todo \in Seq(Writes) /\ c.todo # <<>> /\ ~Gapped(c.todo)
  BY <1>2, Heads DEF Gapped
<1>4. c \in Commands
  BY <1>1, <1>3 DEF Commands, Capability!Idle
<1>5. gap[g] = None
  BY DEF Capability!Request
<1>6. CommandInv(c)
  BY <1>2, <1>3, <1>4, <1>5 DEF CommandInv, Left, Makers
<1> QED BY <1>1, <1>6, StartKeeps DEF Capability!Request

\* What scaffold and import start with.
Making(op, name) == [Capability!Idle EXCEPT !.op = op, !.name = name, !.source = op,
                                            !.todo = <<"worker", "manifest">>]

LEMMA MakeKeeps ==
    ASSUME CapabilityInv, Serial, NEW o \in Operators, NEW name \in SkillNames,
           NEW op \in {"scaffold", "import"},
           Capability!Start(o, Making(op, name))
    PROVE  CapabilityInv'
<1>1. PICK c : c = Making(op, name)
  OBVIOUS
<1>2. /\ c.op = op /\ c.name = name /\ c.source = op /\ c.todo = <<"worker", "manifest">>
      /\ c.gap = None /\ c.good = FALSE
  BY <1>1 DEF Making, Capability!Idle
<1>3. /\ c.todo \in Seq(Writes) /\ c.todo # <<>> /\ ~Gapped(c.todo) /\ Head(c.todo) = "worker"
  BY <1>2, Heads DEF Gapped
<1>4. c \in Commands
  BY <1>1, <1>3 DEF Making, Commands, Capability!Idle, Capability!Sources
<1>5. CommandInv(c)
  BY <1>2, <1>3, <1>4 DEF CommandInv, Left, Makers, Capability!Sources
<1> QED BY <1>1, <1>5, StartKeeps

LEMMA ImportPluginKeeps ==
    ASSUME CapabilityInv, Serial, NEW o \in Operators, NEW first \in SkillNames, NEW second \in SkillNames,
           Capability!ImportPlugin(o, first, second)
    PROVE  CapabilityInv'
<1>1. PICK c : c = [Capability!Idle EXCEPT
                      !.op = "plugin", !.name = first, !.source = "import", !.gap = second,
                      !.todo = <<"worker", "manifest", "next", "worker", "manifest">>]
  OBVIOUS
<1>2. /\ c.op = "plugin" /\ c.name = first /\ c.source = "import" /\ c.gap = second
      /\ c.todo = <<"worker", "manifest", "next", "worker", "manifest">> /\ c.good = FALSE
  BY <1>1 DEF Capability!Idle
<1>3. /\ c.todo \in Seq(Writes) /\ c.todo # <<>> /\ ~Gapped(c.todo) /\ Head(c.todo) = "worker"
  BY <1>2, Heads DEF Gapped
<1>4. c \in Commands
  BY <1>1, <1>3 DEF Commands, Capability!Idle, Capability!Sources
<1>5. CommandInv(c)
  BY <1>2, <1>3, <1>4 DEF CommandInv, Left, Makers, Capability!Sources
<1> QED BY <1>1, <1>5, StartKeeps DEF Capability!ImportPlugin

LEMMA ForgeKeeps ==
    ASSUME CapabilityInv, Serial, NEW o \in Operators, NEW name \in SkillNames,
           NEW g \in Gaps \cup {None}, Capability!Forge(o, name, g)
    PROVE  CapabilityInv'
<1>1. PICK c : c = [Capability!Idle EXCEPT !.op = "forge", !.name = name, !.source = "forge",
                                           !.gap = g, !.todo = Capability!ForgeTodo(g)]
  OBVIOUS
<1>2. /\ c.op = "forge" /\ c.name = name /\ c.source = "forge" /\ c.gap = g /\ c.good = FALSE
      /\ c.todo = Capability!WithGap(g, <<"worker", "manifest">>)
  BY <1>1 DEF Capability!Idle, Capability!ForgeTodo
<1>3. /\ c.todo \in Seq(Writes) /\ c.todo # <<>> /\ Head(c.todo) = "worker"
      /\ g = None => ~Gapped(c.todo)
      /\ Left(c.op, c.todo)
  <2>1. CASE g = None
    <3>1. c.todo = <<"worker", "manifest">>
      BY <1>2, <2>1, Gapping
    <3> QED BY <3>1, <1>2, Heads DEF Gapped, Left
  <2>2. CASE g # None
    <3>1. c.todo = <<"worker", "manifest", "gap">>
      BY <1>2, <2>2, Gapping
    <3> QED BY <3>1, <2>2, <1>2, Heads DEF Left
  <2> QED BY <2>1, <2>2
<1>4. c \in Commands
  BY <1>1, <1>2, <1>3 DEF Commands, Capability!Idle, Capability!Sources
<1>5. g # None => gap[g] # None /\ gap[g].name = name
  BY DEF Capability!Forge, Capability!OfGap
<1>6. CommandInv(c)
  BY <1>2, <1>3, <1>4, <1>5 DEF CommandInv, Makers, Capability!Sources
<1> QED BY <1>1, <1>6, StartKeeps DEF Capability!Forge

LEMMA VerifyKeeps ==
    ASSUME CapabilityInv, Serial, NEW o \in Operators, NEW name \in SkillNames,
           NEW g \in Gaps \cup {None}, Capability!Verify(o, name, g)
    PROVE  CapabilityInv'
<1>1. PICK c : c = [Capability!Idle EXCEPT !.op = "verify", !.name = name, !.gap = g,
                      !.todo = Capability!WithGap(g, <<"run", "verification">>)]
  OBVIOUS
<1>2. /\ c.op = "verify" /\ c.name = name /\ c.source = None /\ c.gap = g /\ c.good = FALSE
      /\ c.todo = Capability!WithGap(g, <<"run", "verification">>)
  BY <1>1 DEF Capability!Idle
<1>3. /\ c.todo \in Seq(Writes) /\ c.todo # <<>> /\ Head(c.todo) = "run"
      /\ g = None => ~Gapped(c.todo)
      /\ Left(c.op, c.todo)
  <2>1. CASE g = None
    <3>1. c.todo = <<"run", "verification">>
      BY <1>2, <2>1, Gapping
    <3> QED BY <3>1, <1>2, Heads DEF Gapped, Left
  <2>2. CASE g # None
    <3>1. c.todo = <<"run", "verification", "gap">>
      BY <1>2, <2>2, Gapping
    <3> QED BY <3>1, <2>2, <1>2, Heads DEF Left
  <2> QED BY <2>1, <2>2
<1>4. c \in Commands
  BY <1>1, <1>2, <1>3 DEF Commands, Capability!Idle
<1>5. /\ g # None => gap[g] # None /\ gap[g].name = name
      /\ Capability!Resolves(name)
  BY DEF Capability!Verify, Capability!OfGap
<1>6. CommandInv(c)
  BY <1>2, <1>3, <1>4, <1>5 DEF CommandInv, Makers
<1> QED BY <1>1, <1>6, StartKeeps DEF Capability!Verify

LEMMA PromoteKeeps ==
    ASSUME CapabilityInv, Serial, NEW o \in Operators, NEW name \in SkillNames,
           NEW g \in Gaps \cup {None}, Capability!Promote(o, name, g)
    PROVE  CapabilityInv'
<1>1. PICK c : c = [Capability!Idle EXCEPT !.op = "promote", !.name = name, !.gap = g,
                      !.todo = Capability!WithGap(g, <<"promotion">>)]
  OBVIOUS
<1>2. /\ c.op = "promote" /\ c.name = name /\ c.source = None /\ c.gap = g /\ c.good = FALSE
      /\ c.todo = Capability!WithGap(g, <<"promotion">>)
  BY <1>1 DEF Capability!Idle
<1>3. /\ c.todo \in Seq(Writes) /\ c.todo # <<>> /\ Head(c.todo) = "promotion"
      /\ g = None => ~Gapped(c.todo)
      /\ Left(c.op, c.todo)
  <2>1. CASE g = None
    <3>1. c.todo = <<"promotion">>
      BY <1>2, <2>1, Gapping
    <3> QED BY <3>1, <1>2, Heads DEF Gapped, Left
  <2>2. CASE g # None
    <3>1. c.todo = <<"promotion", "gap">>
      BY <1>2, <2>2, Gapping
    <3> QED BY <3>1, <2>2, <1>2, Heads DEF Left
  <2> QED BY <2>1, <2>2
<1>4. c \in Commands
  BY <1>1, <1>2, <1>3 DEF Commands, Capability!Idle
<1>5. /\ g # None => gap[g] # None /\ gap[g].name = name
      /\ descriptor[FileOf[name]] # None /\ descriptor[FileOf[name]].verification = "verified"
  BY DEF Capability!Promote, Capability!OfGap
<1>6. CommandInv(c)
  BY <1>2, <1>3, <1>4, <1>5 DEF CommandInv, Makers
<1> QED BY <1>1, <1>6, StartKeeps DEF Capability!Promote

LEMMA CapabilityKept ==
    ASSUME CapabilityInv, Serial, BuiltInApart, SurfacesAssumption,
           Capability!Next \/ UNCHANGED <<capability, command, ops, crashes, torn>>
    PROVE  CapabilityInv'
<1>1. CASE Capability!Next
  <2>1. ASSUME NEW o \in Operators, NEW name \in SkillNames, Capability!Scaffold(o, name)
        PROVE  CapabilityInv'
    <3>1. Capability!Start(o, Making("scaffold", name))
      BY <2>1 DEF Capability!Scaffold, Making
    <3>2. "scaffold" \in {"scaffold", "import"}
      OBVIOUS
    <3> QED BY ONLY <3>1, <3>2, o \in Operators, name \in SkillNames, CapabilityInv, Serial, MakeKeeps
  <2>2. ASSUME NEW o \in Operators, NEW name \in SkillNames, Capability!Import(o, name)
        PROVE  CapabilityInv'
    <3>1. Capability!Start(o, Making("import", name))
      BY <2>2 DEF Capability!Import, Making
    <3>2. "import" \in {"scaffold", "import"}
      OBVIOUS
    <3> QED BY ONLY <3>1, <3>2, o \in Operators, name \in SkillNames, CapabilityInv, Serial, MakeKeeps
  <2> QED
    BY <1>1, <2>1, <2>2, RequestKeeps, ForgeKeeps, VerifyKeeps, PromoteKeeps, ImportPluginKeeps,
       RecordKeeps, WriteWorkerKeeps, WriteManifestKeeps, NextSkillKeeps, RunWorkerKeeps,
       WriteVerificationKeeps, WritePromotionKeeps, WriteGapKeeps, CrashKeeps
       DEF Capability!Next
<1>2. CASE UNCHANGED <<capability, command, ops, crashes, torn>>
  BY <1>2 DEF capability, CapabilityInv, CommandInv, Capability!TypeOK,
              Capability!PromotedIsProved, Capability!GapNeverLeads,
              Capability!Resolves, Capability!CustomOf
<1> QED BY <1>1, <1>2

LEMMA CapabilityStarts ==
    ASSUME Init, part = "capability"
    PROVE  CapabilityInv
<1>1. Capability!Init
  BY DEF Init
<1>2. Capability!Idle \in Commands
  BY Heads DEF Capability!Idle, Commands
<1> QED
  BY <1>1, <1>2 DEF Capability!Init, CapabilityInv, Capability!TypeOK,
                    Capability!PromotedIsProved, Capability!GapNeverLeads

\* With commands run one after another, and no other capability in the file of a built-in
\* one, what a manifest calls verified or promoted has run as it should since its worker was
\* written, and a gap record never leads its capability, wherever commands die
\* (forge_capability, update_capability_verification, promote_capability,
\* update_capability_gap_*), for any number of names, files, gaps and commands.
THEOREM PromotionEarnedHolds == Serial /\ BuiltInApart => (Spec => []PromotionEarned)
<1> SUFFICES ASSUME Serial, BuiltInApart PROVE Spec => []PromotionEarned
  OBVIOUS
<1> DEFINE Inv == part = "capability" => CapabilityInv
<1>1. Init => Inv
  BY CapabilityStarts
<1>2. Inv /\ [Next]_vars => Inv'
  BY Steps, CapabilityKept, SurfacesAssumption
<1>3. Inv => PromotionEarned
  BY DEF PromotionEarned, CapabilityInv
<1> QED BY <1>1, <1>2, <1>3, PTL DEF Spec

-----------------------------------------------------------------------------
(* Providers.                                                              *)

\* What a command at work has done so far: a login has left its account in the file it is
\* for and then named that file in the manifest, an onboarding has pointed the Codex
\* profiles at its file, and a change of an alias has been written before its audit line.
AccountCommandInv ==
    LET c == command  place == Provider!OfSource(c.arg)
    IN  /\ c.doing = "login" =>
             /\ c.arg \in {"loom", "cli", "path"} /\ c.id \in AccountNames
             /\ c.step \in 3 .. 4 /\ c.arg # "cli" => files[place] = c.id
             /\ c.step = 4 => selection.path = place
        /\ c.doing = "onboard" =>
             /\ c.arg \in Provider!Choices
             /\ c.step \in 2 .. 3 /\ c.arg \notin {"local", "endpoint"} => table.codex = place
        /\ c.doing \in {"rotate", "revoke"} => c.arg \in Provider!Names
        /\ c.doing = "rotate" /\ c.step = 2 => aliases[c.arg] = "active"
        /\ c.doing = "revoke" /\ c.step = 2 => aliases[c.arg] = "revoked"

\* The store knows no profile the table has lost, so that a sync forgets no failure; and
\* only Loom's own logins, whose files nobody else writes, choose an account by name.
AccountFacts ==
    /\ store.known \subseteq Provider!Known(table)
    /\ \A p \in Provider!Profiles : p \in Provider!Known(table) \/ store.errors[p] = 0
    /\ chosen.id # None => chosen.place \in {"loom", "path"}

\* What was chosen is what the manifest, the table and the file of the account say.
ChosenStands ==
    Provider!Settled("selection") /\ chosen.place # None =>
        /\ selection.path = chosen.place /\ Provider!CodexFile(table) = chosen.place
        /\ chosen.id # None => files[chosen.place] = chosen.id

AccountInv ==
    /\ Provider!TypeOK /\ AccountCommandInv /\ AccountFacts /\ ChosenStands
    /\ Provider!StoreFollowsTable /\ Provider!AuditAgrees

\* A ready profile of a dedicated file never sends what the shared one holds.
LEMMA AccountHolds ==
    ASSUME AccountInv, SurfacesAssumption
    PROVE  Provider!TypeOK /\ Provider!AccountIsChosen /\ Provider!StoreFollowsTable
           /\ Provider!AuditAgrees
  BY DEF AccountInv, ChosenStands, Provider!AccountIsChosen, Provider!SentUnder, Provider!Ready,
         Provider!Readable, Provider!Dedicated, SurfacesAssumption, Provider!ProvidersAssumption

\* What a command leaves open, name by name.
LEMMA Opens ==
    ASSUME NEW c, c.doing \in {"rotate", "revoke"} => c.arg \in Provider!Names
    PROVE  /\ "selection" \in Provider!Open(c) <=>
                \/ c.doing = "login" /\ c.step \in 3 .. 4
                \/ c.doing = "onboard" /\ c.step \in 2 .. 3
           /\ "store" \in Provider!Open(c) <=>
                \/ c.doing = "login" /\ c.step = 5
                \/ c.doing = "onboard" /\ c.step = 2
           /\ \A a \in Provider!Names : a \in Provider!Open(c) <=>
                c.doing \in {"rotate", "revoke"} /\ c.step = 2 /\ a = c.arg
  BY DEF Provider!Open, Provider!Names, Provider!Profiles

\* A step that changes no file keeps what it leaves settled.
LEMMA AccountFrame ==
    ASSUME AccountInv, Provider!TypeOK', AccountCommandInv',
           UNCHANGED <<files, table, selection, store, aliases, audit, chosen, failures>>,
           \A x \in Provider!Names \cup {"selection", "store"} :
              Provider!Settled(x)' => Provider!Settled(x)
    PROVE  AccountInv'
<1>1. AccountFacts' /\ ChosenStands'
  BY DEF AccountInv, AccountFacts, ChosenStands, Provider!Known, Provider!CodexFile
<1>2. Provider!StoreFollowsTable'
  BY DEF AccountInv, Provider!StoreFollowsTable, Provider!Known, Provider!CodexFile
<1>3. Provider!AuditAgrees'
  BY DEF AccountInv, Provider!AuditAgrees
<1> QED BY <1>1, <1>2, <1>3 DEF AccountInv

\* A command begins.
LEMMA BeginKeeps ==
    ASSUME AccountInv, NEW c, Provider!Begin(c), c \in Provider!Command, c.step = 1,
           c.doing = "login" => c.arg \in {"loom", "cli", "path"} /\ c.id \in AccountNames,
           c.doing = "onboard" => c.arg \in Provider!Choices,
           c.doing \in {"rotate", "revoke"} => c.arg \in Provider!Names
    PROVE  AccountInv'
<1>1. /\ command = Provider!Idle /\ command' = c
      /\ UNCHANGED <<files, keyed, table, selection, store, aliases, audit, chosen, failures, torn>>
  BY DEF Provider!Begin
<1>2. Provider!TypeOK'
  BY <1>1 DEF AccountInv, Provider!TypeOK
<1>3. AccountCommandInv'
  BY <1>1 DEF AccountCommandInv
<1>4. \A x \in Provider!Names \cup {"selection", "store"} :
        Provider!Settled(x)' => Provider!Settled(x)
  BY <1>1, Opens DEF Provider!Settled, Provider!Idle
<1> QED BY <1>1, <1>2, <1>3, <1>4, AccountFrame

\* The store, brought up to a table: what it says of the table and what it keeps.
LEMMA SyncedStore ==
    ASSUME Provider!TypeOK
    PROVE  LET s == Provider!Synced(table) IN
           /\ s \in Provider!Store
           /\ s.path = Provider!CodexFile(table) /\ s.known = Provider!Known(table)
           /\ \A p \in Provider!Profiles :
                s.errors[p] = IF p \in Provider!Known(table) THEN store.errors[p] ELSE 0
<1> DEFINE known == Provider!Known(table)
           path == Provider!CodexFile(table)
           ready == [p \in Provider!Profiles |-> p \in known /\ Provider!Ready(table, p)]
           errors == [p \in Provider!Profiles |-> IF p \in known THEN store.errors[p] ELSE 0]
<1>1. known \subseteq Provider!Profiles /\ path \in Provider!Places
  BY DEF Provider!TypeOK, Provider!Table, Provider!Known, Provider!CodexFile, Provider!Places,
         Provider!Profiles
<1>2. ready \in [Provider!Profiles -> BOOLEAN]
  BY DEF Provider!Ready
<1>3. /\ store \in Provider!Store /\ store.errors \in [Provider!Profiles -> Nat]
      /\ errors \in [Provider!Profiles -> Nat]
  BY DEF Provider!TypeOK, Provider!Store
<1>4. Provider!Synced(table) =
        [store EXCEPT !.path = path, !.known = known, !.ready = ready,
                      !.cooling = @ \cap known, !.good = @ \cap known, !.errors = errors]
  BY DEF Provider!Synced
<1>5. \A p \in Provider!Profiles :
        errors[p] = IF p \in known THEN store.errors[p] ELSE 0
  OBVIOUS
<1> HIDE DEF known, path, ready, errors
<1>6. /\ Provider!Synced(table) \in Provider!Store /\ Provider!Synced(table).path = path
      /\ Provider!Synced(table).known = known /\ Provider!Synced(table).errors = errors
  BY <1>1, <1>2, <1>3, <1>4 DEF Provider!Store
<1> QED BY <1>5, <1>6 DEF known, path

\* The store is synced by a command that then goes on or ends.
LEMMA SyncKeeps ==
    ASSUME AccountInv, store' = Provider!Synced(table), torn' = torn \ {"store"},
           UNCHANGED <<files, keyed, table, selection, aliases, audit, chosen, failures>>,
           command' \in Provider!Command, AccountCommandInv',
           "selection" \in Provider!Open(command) <=> "selection" \in Provider!Open(command'),
           \A a \in Provider!Names : a \notin Provider!Open(command)
    PROVE  AccountInv'
<1>1. Provider!TypeOK
  BY DEF AccountInv
<1>2. /\ store' \in Provider!Store
      /\ store'.path = Provider!CodexFile(table) /\ store'.known = Provider!Known(table)
      /\ \A p \in Provider!Profiles :
           store'.errors[p] = IF p \in Provider!Known(table) THEN store.errors[p] ELSE 0
  BY <1>1, SyncedStore
<1>3. Provider!TypeOK'
  BY <1>2 DEF AccountInv, Provider!TypeOK
<1>4. AccountFacts'
  BY <1>2 DEF AccountInv, AccountFacts, Provider!Known
<1>5. ChosenStands'
  BY DEF AccountInv, ChosenStands, Provider!Settled, Provider!CodexFile
<1>6. store'.errors = store.errors
  <2>1. \A p \in Provider!Profiles : store'.errors[p] = store.errors[p]
    BY <1>2 DEF AccountInv, AccountFacts
  <2>2. store'.errors \in [Provider!Profiles -> Nat] /\ store.errors \in [Provider!Profiles -> Nat]
    BY <1>2 DEF AccountInv, Provider!TypeOK, Provider!Store
  <2> QED BY <2>1, <2>2
<1>7. Provider!StoreFollowsTable'
  BY <1>2, <1>6 DEF AccountInv, Provider!StoreFollowsTable, Provider!CodexFile, Provider!Known
<1>8. Provider!AuditAgrees'
  BY DEF AccountInv, Provider!AuditAgrees, Provider!Settled, Provider!Names, Provider!Profiles
<1> QED BY <1>3, <1>4, <1>5, <1>7, <1>8 DEF AccountInv

LEMMA LoginKeeps ==
    ASSUME AccountInv, SurfacesAssumption, Provider!Login
    PROVE  AccountInv'
<1>1. PICK source \in {"loom", "cli", "path"} \cup {selection.source}, id \in AccountNames :
        /\ source # "none"
        /\ Provider!Begin([doing |-> "login", step |-> 1, arg |-> source, id |-> id])
  BY DEF Provider!Login
<1>2. source \in {"loom", "cli", "path"}
  BY <1>1 DEF AccountInv, Provider!TypeOK, Provider!Manifest
<1>3. PICK c : c = [doing |-> "login", step |-> 1, arg |-> source, id |-> id]
  OBVIOUS
<1>4. /\ c \in Provider!Command /\ c.doing = "login" /\ c.step = 1
      /\ c.arg \in {"loom", "cli", "path"} /\ c.id \in AccountNames
  BY <1>2, <1>3 DEF Provider!Command, Provider!Choices, Provider!Accounts
<1> QED BY <1>1, <1>3, <1>4, BeginKeeps

LEMMA OnboardKeeps ==
    ASSUME AccountInv, Provider!Onboard
    PROVE  AccountInv'
<1>1. PICK choice \in Provider!Choices :
        Provider!Begin([doing |-> "onboard", step |-> 1, arg |-> choice, id |-> None])
  BY DEF Provider!Onboard
<1>2. PICK c : c = [doing |-> "onboard", step |-> 1, arg |-> choice, id |-> None]
  OBVIOUS
<1>3. /\ c \in Provider!Command /\ c.doing = "onboard" /\ c.step = 1
      /\ c.arg \in Provider!Choices
  BY <1>2 DEF Provider!Command, Provider!Accounts
<1> QED BY <1>1, <1>2, <1>3, BeginKeeps

LEMMA StatusKeeps ==
    ASSUME AccountInv, Provider!Status
    PROVE  AccountInv'
<1>1. PICK c : c = [Provider!Idle EXCEPT !.doing = "status", !.step = 1]
  OBVIOUS
<1>2. c = [doing |-> "status", step |-> 1, arg |-> None, id |-> None]
  BY <1>1 DEF Provider!Idle
<1>3. c \in Provider!Command /\ c.doing = "status" /\ c.step = 1
  BY <1>2 DEF Provider!Command, Provider!Accounts
<1>4. Provider!Begin(c)
  BY <1>1 DEF Provider!Status
<1> QED BY <1>3, <1>4, BeginKeeps

LEMMA ChangeKeeps ==
    ASSUME AccountInv, Provider!Change
    PROVE  AccountInv'
<1>1. PICK doing \in {"rotate", "revoke"}, a \in Provider!Names :
        Provider!Begin([doing |-> doing, step |-> 1, arg |-> a, id |-> None])
  BY DEF Provider!Change
<1>2. PICK c : c = [doing |-> doing, step |-> 1, arg |-> a, id |-> None]
  OBVIOUS
<1>3. /\ c \in Provider!Command /\ c.doing \in {"rotate", "revoke"} /\ c.step = 1
      /\ c.arg \in Provider!Names
  BY <1>2 DEF Provider!Command, Provider!Accounts
<1> QED BY <1>1, <1>2, <1>3, BeginKeeps

\* The command's next place.
LEMMA GoesOn ==
    ASSUME Provider!TypeOK, Provider!Goes, command.step < 5
    PROVE  /\ command' \in Provider!Command /\ command'.step = command.step + 1
           /\ command'.doing = command.doing /\ command'.arg = command.arg
           /\ command'.id = command.id
  BY DEF Provider!TypeOK, Provider!Goes, Provider!Command

LEMMA EndsIdle ==
    ASSUME Provider!Ends
    PROVE  command' \in Provider!Command /\ command'.doing = "none"
  BY DEF Provider!Ends, Provider!Idle, Provider!Command, Provider!Accounts

LEMMA CodexLoginKeeps ==
    ASSUME AccountInv, SurfacesAssumption, Provider!CodexLogin
    PROVE  AccountInv'
<1>1. /\ command.doing = "login" /\ command.step = 1
      /\ UNCHANGED <<keyed, table, selection, store, aliases, audit, chosen, failures, torn>>
  BY DEF Provider!CodexLogin, Provider!At
<1>2. /\ command.arg \in {"loom", "cli", "path"} /\ command.id \in AccountNames
      /\ command \in Provider!Command
  BY <1>1 DEF AccountInv, AccountCommandInv, Provider!TypeOK
<1>3. CASE UNCHANGED files /\ (Provider!Ends \/ Provider!Goes)
  <2>1. /\ command' \in Provider!Command
        /\ command'.doing = "none" \/ (/\ command'.doing = "login" /\ command'.step = 2
                                       /\ command'.arg = command.arg /\ command'.id = command.id)
    BY <1>1, <1>3, GoesOn, EndsIdle DEF AccountInv
  <2>2. Provider!TypeOK' /\ AccountCommandInv'
    BY <2>1, <1>1, <1>2, <1>3 DEF AccountInv, Provider!TypeOK, AccountCommandInv
  <2>3. \A x \in Provider!Names \cup {"selection", "store"} :
          Provider!Settled(x)' => Provider!Settled(x)
    BY <2>1, <1>1, Opens DEF Provider!Settled
  <2> QED BY <2>2, <2>3, <1>1, <1>3, AccountFrame
<1>4. CASE /\ command.arg = "cli"
           /\ command' = [command EXCEPT !.step = 3]
           /\ files' = [files EXCEPT !["shared"] = command.id]
  <2>1. /\ command' \in Provider!Command /\ command'.doing = "login" /\ command'.step = 3
        /\ command'.arg = "cli" /\ command'.id = command.id
    BY <1>1, <1>2, <1>4 DEF Provider!Command
  <2>2. Provider!TypeOK'
    BY <2>1, <1>1, <1>2, <1>4 DEF AccountInv, Provider!TypeOK, Provider!Accounts
  <2>3. AccountCommandInv'
    BY <2>1, <1>1, <1>2 DEF AccountCommandInv
  <2>4. "selection" \in Provider!Open(command')
    BY <2>1, Opens
  <2>5. \A x \in Provider!Names \cup {"store"} : Provider!Settled(x)' => Provider!Settled(x)
    BY <2>1, <1>1, Opens DEF Provider!Settled
  <2>6. AccountFacts' /\ ChosenStands' /\ Provider!StoreFollowsTable' /\ Provider!AuditAgrees'
    BY <2>4, <2>5, <1>1 DEF AccountInv, AccountFacts, ChosenStands, Provider!StoreFollowsTable,
                            Provider!AuditAgrees, Provider!Settled, Provider!Known, Provider!CodexFile
  <2> QED BY <2>2, <2>3, <2>6 DEF AccountInv
<1> QED BY <1>3, <1>4 DEF Provider!CodexLogin

LEMMA CopyAuthKeeps ==
    ASSUME AccountInv, Provider!CopyAuth
    PROVE  AccountInv'
<1>1. /\ command.doing = "login" /\ command.step = 2 /\ Provider!Goes
      /\ files' = [files EXCEPT ![Provider!OfSource(command.arg)] = command.id]
      /\ UNCHANGED <<keyed, table, selection, store, aliases, audit, chosen, failures, torn>>
  BY DEF Provider!CopyAuth, Provider!At
<1>2. /\ command.arg \in {"loom", "cli", "path"} /\ command.id \in AccountNames
      /\ Provider!OfSource(command.arg) \in Provider!Places
  BY <1>1 DEF AccountInv, AccountCommandInv, Provider!OfSource, Provider!Places
<1>3. /\ command' \in Provider!Command /\ command'.doing = "login" /\ command'.step = 3
      /\ command'.arg = command.arg /\ command'.id = command.id
  BY <1>1, GoesOn DEF AccountInv
<1>4. /\ files' \in [Provider!Places -> Provider!Accounts]
      /\ files'[Provider!OfSource(command.arg)] = command.id
  BY <1>1, <1>2 DEF AccountInv, Provider!TypeOK, Provider!Accounts
<1>5. Provider!TypeOK' /\ AccountCommandInv'
  BY <1>1, <1>2, <1>3, <1>4 DEF AccountInv, Provider!TypeOK, AccountCommandInv
<1>6. "selection" \in Provider!Open(command')
  BY <1>3, Opens
<1>7. \A x \in Provider!Names \cup {"store"} : Provider!Settled(x)' => Provider!Settled(x)
  BY <1>1, <1>3, Opens DEF Provider!Settled
<1>8. AccountFacts' /\ ChosenStands' /\ Provider!StoreFollowsTable' /\ Provider!AuditAgrees'
  BY <1>1, <1>6, <1>7 DEF AccountInv, AccountFacts, ChosenStands, Provider!StoreFollowsTable,
                          Provider!AuditAgrees, Provider!Settled, Provider!Known, Provider!CodexFile
<1> QED BY <1>5, <1>8 DEF AccountInv

LEMMA LoginSelectsKeeps ==
    ASSUME AccountInv, Provider!LoginSelects
    PROVE  AccountInv'
<1>1. /\ command.doing = "login" /\ command.step = 3 /\ Provider!Goes
      /\ selection' = [selection EXCEPT !.source = command.arg,
                                        !.path = Provider!OfSource(command.arg)]
      /\ UNCHANGED <<files, keyed, table, store, aliases, audit, chosen, failures, torn>>
  BY DEF Provider!LoginSelects, Provider!At
<1>2. /\ command.arg \in {"loom", "cli", "path"} /\ command.id \in AccountNames
      /\ Provider!OfSource(command.arg) \in Provider!Places
      /\ command.arg # "cli" => files[Provider!OfSource(command.arg)] = command.id
  BY <1>1 DEF AccountInv, AccountCommandInv, Provider!OfSource, Provider!Places
<1>3. /\ command' \in Provider!Command /\ command'.doing = "login" /\ command'.step = 4
      /\ command'.arg = command.arg /\ command'.id = command.id
  BY <1>1, GoesOn DEF AccountInv
<1>4. /\ selection' \in Provider!Manifest
      /\ selection'.path = Provider!OfSource(command.arg)
  BY <1>1, <1>2 DEF AccountInv, Provider!TypeOK, Provider!Manifest
<1>5. Provider!TypeOK' /\ AccountCommandInv'
  BY <1>1, <1>2, <1>3, <1>4 DEF AccountInv, Provider!TypeOK, AccountCommandInv
<1>6. "selection" \in Provider!Open(command')
  BY <1>3, Opens
<1>7. \A x \in Provider!Names \cup {"store"} : Provider!Settled(x)' => Provider!Settled(x)
  BY <1>1, <1>3, Opens DEF Provider!Settled
<1>8. AccountFacts' /\ ChosenStands' /\ Provider!StoreFollowsTable' /\ Provider!AuditAgrees'
  BY <1>1, <1>6, <1>7 DEF AccountInv, AccountFacts, ChosenStands, Provider!StoreFollowsTable,
                          Provider!AuditAgrees, Provider!Settled, Provider!Known, Provider!CodexFile
<1> QED BY <1>5, <1>8 DEF AccountInv

LEMMA LoginRoutesKeeps ==
    ASSUME AccountInv, SurfacesAssumption, Provider!LoginRoutes
    PROVE  AccountInv'
<1> DEFINE place == Provider!OfSource(command.arg)
<1>1. /\ command.doing = "login" /\ command.step = 4 /\ Provider!Goes
      /\ table' = Provider!Configured(table, selection.lane, selection.path)
      /\ chosen' = [place |-> place, id |-> IF command.arg = "cli" THEN None ELSE command.id]
      /\ torn' = torn \ {"selection"}
      /\ UNCHANGED <<files, keyed, selection, store, aliases, audit, failures>>
  BY DEF Provider!LoginRoutes, Provider!At
<1>2. /\ command.arg \in {"loom", "cli", "path"} /\ command.id \in AccountNames
      /\ place \in Provider!Places /\ selection.path = place /\ place # None
      /\ command.arg # "cli" => files[place] = command.id /\ place \in {"loom", "path"}
  BY <1>1 DEF AccountInv, AccountCommandInv, Provider!OfSource, Provider!Places,
              SurfacesAssumption, Provider!ProvidersAssumption
<1>3. /\ command' \in Provider!Command /\ command'.doing = "login" /\ command'.step = 5
      /\ command'.arg = command.arg /\ command'.id = command.id
  BY <1>1, GoesOn DEF AccountInv
<1> HIDE DEF place
<1>4. /\ table' = [table EXCEPT !.codex = place, !.agent = selection.lane]
      /\ table' \in Provider!Table /\ table'.codex = place /\ table'.endpoint = table.endpoint
  BY <1>1, <1>2 DEF AccountInv, Provider!TypeOK, Provider!Table, Provider!Manifest,
                    Provider!Configured, Provider!Pointed, Provider!Profiles
<1>5. /\ chosen' \in [place : Provider!Places \cup {None}, id : Provider!Accounts]
      /\ chosen'.place = place
      /\ chosen'.id # None => command.arg # "cli" /\ chosen'.id = command.id
  BY <1>1, <1>2 DEF Provider!Accounts
<1>6. Provider!TypeOK'
  BY <1>1, <1>3, <1>4, <1>5 DEF AccountInv, Provider!TypeOK
<1>7. AccountCommandInv'
  BY <1>2, <1>3 DEF AccountCommandInv
<1>8. AccountFacts'
  BY <1>1, <1>2, <1>4, <1>5 DEF AccountInv, AccountFacts, Provider!Known
<1>9. ChosenStands'
  BY <1>1, <1>2, <1>4, <1>5 DEF ChosenStands, Provider!CodexFile
<1>10. "store" \in Provider!Open(command')
  BY <1>3, Opens
<1>11. Provider!StoreFollowsTable'
  BY <1>1, <1>10 DEF AccountInv, Provider!StoreFollowsTable, Provider!Settled
<1>12. \A a \in Provider!Names : Provider!Settled(a)' => Provider!Settled(a)
  BY <1>1, <1>3, Opens DEF Provider!Settled, Provider!Names, Provider!Profiles
<1>13. Provider!AuditAgrees'
  BY <1>1, <1>12 DEF AccountInv, Provider!AuditAgrees
<1> QED BY <1>6, <1>7, <1>8, <1>9, <1>11, <1>13 DEF AccountInv

LEMMA LoginEndsKeeps ==
    ASSUME AccountInv, Provider!LoginEnds
    PROVE  AccountInv'
<1>1. /\ command.doing = "login" /\ command.step = 5 /\ Provider!Ends
      /\ store' = Provider!Synced(table) /\ torn' = torn \ {"store"}
      /\ UNCHANGED <<files, keyed, table, selection, aliases, audit, chosen, failures>>
  BY DEF Provider!LoginEnds, Provider!At
<1>2. command' \in Provider!Command /\ command'.doing = "none"
  BY <1>1, EndsIdle
<1>3. AccountCommandInv'
  BY <1>2 DEF AccountCommandInv
<1>4. /\ "selection" \notin Provider!Open(command) /\ "selection" \notin Provider!Open(command')
      /\ \A a \in Provider!Names : a \notin Provider!Open(command)
  BY <1>1, <1>2, Opens
<1> QED BY <1>1, <1>2, <1>3, <1>4, SyncKeeps

LEMMA OnboardRoutesKeeps ==
    ASSUME AccountInv, Provider!OnboardRoutes
    PROVE  AccountInv'
<1>1. /\ command.doing = "onboard" /\ command.step = 1 /\ Provider!Goes
      /\ table' = IF command.arg = "endpoint" THEN Provider!WithEndpoint(table)
                  ELSE Provider!Configured(table, Provider!Selection(command.arg).lane,
                                                  Provider!Selection(command.arg).path)
      /\ UNCHANGED <<files, keyed, selection, store, aliases, audit, chosen, failures, torn>>
  BY DEF Provider!OnboardRoutes, Provider!At
<1>2. command.arg \in Provider!Choices
  BY <1>1 DEF AccountInv, AccountCommandInv
<1>3. /\ command' \in Provider!Command /\ command'.doing = "onboard" /\ command'.step = 2
      /\ command'.arg = command.arg
  BY <1>1, GoesOn DEF AccountInv
<1>4. table \in Provider!Table
  BY DEF AccountInv, Provider!TypeOK
<1>5. /\ table' \in Provider!Table /\ (table.endpoint => table'.endpoint)
      /\ command.arg \notin {"local", "endpoint"} =>
           table'.codex = Provider!OfSource(command.arg)
  <2>1. CASE command.arg = "endpoint"
    BY <2>1, <1>1, <1>4 DEF Provider!WithEndpoint, Provider!Table, Provider!Profiles
  <2>2. CASE command.arg = "local"
    <3>1. table' = Provider!Configured(table, "local", None)
      BY <2>2, <1>1 DEF Provider!Selection
    <3> QED BY <3>1, <2>2, <1>4 DEF Provider!Configured, Provider!Pointed, Provider!Table,
                                    Provider!Profiles
  <2>3. CASE command.arg \in {"loom", "cli", "path"}
    <3>1. table' = Provider!Configured(table, "frontier", Provider!OfSource(command.arg))
      BY <2>3, <1>1 DEF Provider!Selection
    <3>2. Provider!OfSource(command.arg) \in Provider!Places
      BY <2>3 DEF Provider!OfSource, Provider!Places
    <3>3. Provider!OfSource(command.arg) # None
      BY <3>2, SurfacesAssumption DEF SurfacesAssumption, Provider!ProvidersAssumption
    <3> QED BY <3>1, <3>2, <3>3, <1>4 DEF Provider!Configured, Provider!Pointed, Provider!Table,
                                          Provider!Profiles
  <2> QED BY <1>2, <2>1, <2>2, <2>3 DEF Provider!Choices
<1>6. Provider!TypeOK' /\ AccountCommandInv'
  BY <1>1, <1>2, <1>3, <1>5 DEF AccountInv, Provider!TypeOK, AccountCommandInv
<1>7. "selection" \in Provider!Open(command') /\ "store" \in Provider!Open(command')
  BY <1>3, Opens
<1>8. AccountFacts'
  BY <1>1, <1>5 DEF AccountInv, AccountFacts, Provider!Known
<1>9. \A a \in Provider!Names : Provider!Settled(a)' => Provider!Settled(a)
  BY <1>1, <1>3, Opens DEF Provider!Settled
<1>10. ChosenStands' /\ Provider!StoreFollowsTable' /\ Provider!AuditAgrees'
  BY <1>1, <1>7, <1>9 DEF AccountInv, ChosenStands, Provider!StoreFollowsTable,
                          Provider!AuditAgrees, Provider!Settled
<1> QED BY <1>6, <1>8, <1>10 DEF AccountInv

LEMMA OnboardSyncsKeeps ==
    ASSUME AccountInv, Provider!OnboardSyncs
    PROVE  AccountInv'
<1>1. /\ command.doing = "onboard" /\ command.step = 2 /\ Provider!Goes
      /\ store' = Provider!Synced(table) /\ torn' = torn \ {"store"}
      /\ UNCHANGED <<files, keyed, table, selection, aliases, audit, chosen, failures>>
  BY DEF Provider!OnboardSyncs, Provider!At
<1>2. /\ command' \in Provider!Command /\ command'.doing = "onboard" /\ command'.step = 3
      /\ command'.arg = command.arg
  BY <1>1, GoesOn DEF AccountInv
<1>3. AccountCommandInv'
  BY <1>1, <1>2 DEF AccountInv, AccountCommandInv
<1>4. /\ "selection" \in Provider!Open(command) /\ "selection" \in Provider!Open(command')
      /\ \A a \in Provider!Names : a \notin Provider!Open(command)
  BY <1>1, <1>2, Opens
<1> QED BY <1>1, <1>2, <1>3, <1>4, SyncKeeps

LEMMA OnboardEndsKeeps ==
    ASSUME AccountInv, Provider!OnboardEnds
    PROVE  AccountInv'
<1> DEFINE s == Provider!Selection(command.arg)
<1>1. /\ command.doing = "onboard" /\ command.step = 3 /\ Provider!Ends
      /\ selection' = s /\ chosen' = [place |-> s.path, id |-> None]
      /\ torn' = torn \ {"selection"}
      /\ UNCHANGED <<files, keyed, table, store, aliases, audit, failures>>
  BY DEF Provider!OnboardEnds, Provider!At
<1>2. /\ command.arg \in Provider!Choices
      /\ command.arg \notin {"local", "endpoint"} => table.codex = Provider!OfSource(command.arg)
  BY <1>1 DEF AccountInv, AccountCommandInv
<1>3. /\ s \in Provider!Manifest
      /\ s.path # None => command.arg \notin {"local", "endpoint"}
                          /\ s.path = Provider!OfSource(command.arg)
  BY <1>2 DEF Provider!Selection, Provider!Manifest, Provider!Choices, Provider!OfSource,
              Provider!Places
<1>4. command' \in Provider!Command /\ command'.doing = "none"
  BY <1>1, EndsIdle
<1> HIDE DEF s
<1>5. /\ chosen' \in [place : Provider!Places \cup {None}, id : Provider!Accounts]
      /\ chosen'.place = s.path /\ chosen'.id = None
  BY <1>1, <1>3 DEF Provider!Manifest, Provider!Accounts
<1>6. Provider!TypeOK' /\ AccountCommandInv'
  BY <1>1, <1>3, <1>4, <1>5 DEF AccountInv, Provider!TypeOK, AccountCommandInv
<1>7. AccountFacts' /\ ChosenStands'
  BY <1>1, <1>2, <1>3, <1>5 DEF AccountInv, AccountFacts, ChosenStands, Provider!Known,
                                Provider!CodexFile
<1>8. \A x \in Provider!Names \cup {"store"} : Provider!Settled(x)' => Provider!Settled(x)
  BY <1>1, <1>4, Opens DEF Provider!Settled, Provider!Names, Provider!Profiles
<1>9. Provider!StoreFollowsTable' /\ Provider!AuditAgrees'
  BY <1>1, <1>8 DEF AccountInv, Provider!StoreFollowsTable, Provider!AuditAgrees,
                    Provider!Known, Provider!CodexFile
<1> QED BY <1>6, <1>7, <1>9 DEF AccountInv

LEMMA StatusSyncsKeeps ==
    ASSUME AccountInv, Provider!StatusSyncs
    PROVE  AccountInv'
<1>1. /\ command.doing = "status" /\ command.step = 1 /\ Provider!Goes
      /\ store' = Provider!Synced(table) /\ torn' = torn \ {"store"}
      /\ UNCHANGED <<files, keyed, table, selection, aliases, audit, chosen, failures>>
  BY DEF Provider!StatusSyncs, Provider!At
<1>2. command' \in Provider!Command /\ command'.doing = "status" /\ command'.step = 2
  BY <1>1, GoesOn DEF AccountInv
<1>3. AccountCommandInv'
  BY <1>2 DEF AccountCommandInv
<1>4. /\ "selection" \notin Provider!Open(command) /\ "selection" \notin Provider!Open(command')
      /\ \A a \in Provider!Names : a \notin Provider!Open(command)
  BY <1>1, <1>2, Opens
<1> QED BY <1>1, <1>2, <1>3, <1>4, SyncKeeps

LEMMA StatusMigratesKeeps ==
    ASSUME AccountInv, Provider!StatusMigrates
    PROVE  AccountInv'
<1>1. /\ command.doing = "status" /\ Provider!Ends /\ aliases' = Provider!Migrated
      /\ UNCHANGED <<files, keyed, table, selection, store, audit, chosen, failures, torn>>
  BY DEF Provider!StatusMigrates, Provider!At
<1>2. command' \in Provider!Command /\ command'.doing = "none"
  BY <1>1, EndsIdle
<1>3. /\ aliases' \in [Provider!Names -> {"none", "active", "attention", "revoked"}]
      /\ \A a \in Provider!Names : aliases[a] # "none" => aliases'[a] = aliases[a]
  BY <1>1 DEF AccountInv, Provider!TypeOK, Provider!Migrated
<1>4. Provider!TypeOK' /\ AccountCommandInv'
  BY <1>1, <1>2, <1>3 DEF AccountInv, Provider!TypeOK, AccountCommandInv
<1>5. \A x \in Provider!Names \cup {"selection", "store"} :
        Provider!Settled(x)' => Provider!Settled(x)
  BY <1>1, <1>2, Opens DEF Provider!Settled
<1>6. AccountFacts' /\ ChosenStands' /\ Provider!StoreFollowsTable'
  BY <1>1, <1>5 DEF AccountInv, AccountFacts, ChosenStands, Provider!StoreFollowsTable,
                    Provider!Known, Provider!CodexFile
<1>7. Provider!AuditAgrees'
  BY <1>1, <1>3, <1>5 DEF AccountInv, Provider!AuditAgrees
<1> QED BY <1>4, <1>6, <1>7 DEF AccountInv

LEMMA RefusedKeeps ==
    ASSUME AccountInv, Provider!Refused
    PROVE  AccountInv'
<1>1. /\ command.doing \in {"rotate", "revoke"} /\ command.step = 1 /\ Provider!Ends
      /\ UNCHANGED <<files, keyed, table, selection, store, aliases, audit, chosen, failures, torn>>
      /\ command.arg \in Provider!Names
  BY DEF Provider!Refused, AccountInv, AccountCommandInv
<1>2. command' \in Provider!Command /\ command'.doing = "none"
  BY <1>1, EndsIdle
<1>3. Provider!TypeOK' /\ AccountCommandInv'
  BY <1>1, <1>2 DEF AccountInv, Provider!TypeOK, AccountCommandInv
<1>4. \A x \in Provider!Names \cup {"selection", "store"} :
        Provider!Settled(x)' => Provider!Settled(x)
  BY <1>1, <1>2, Opens DEF Provider!Settled
<1> QED BY <1>1, <1>3, <1>4, AccountFrame

\* Rotate and revoke: the alias first.
LEMMA AliasKeeps ==
    ASSUME AccountInv, NEW to \in {"active", "revoked"},
           command.doing = IF to = "active" THEN "rotate" ELSE "revoke", command.step = 1,
           Provider!Goes, aliases' = [aliases EXCEPT ![command.arg] = to],
           UNCHANGED <<files, keyed, table, selection, store, audit, chosen, failures, torn>>
    PROVE  AccountInv'
<1>1. command.doing \in {"rotate", "revoke"} /\ command.arg \in Provider!Names
  BY DEF AccountInv, AccountCommandInv
<1>2. /\ command' \in Provider!Command /\ command'.doing = command.doing /\ command'.step = 2
      /\ command'.arg = command.arg
  BY GoesOn DEF AccountInv
<1>3. /\ aliases' \in [Provider!Names -> {"none", "active", "attention", "revoked"}]
      /\ aliases'[command.arg] = to
      /\ \A a \in Provider!Names : a # command.arg => aliases'[a] = aliases[a]
  BY <1>1 DEF AccountInv, Provider!TypeOK
<1>4. Provider!TypeOK' /\ AccountCommandInv'
  BY <1>1, <1>2, <1>3 DEF AccountInv, Provider!TypeOK, AccountCommandInv
<1>5. \A x \in Provider!Names \cup {"selection", "store"} :
        Provider!Settled(x)' => Provider!Settled(x) /\ x # command.arg
  BY <1>1, <1>2, Opens DEF Provider!Settled
<1>6. AccountFacts' /\ ChosenStands' /\ Provider!StoreFollowsTable'
  BY <1>5 DEF AccountInv, AccountFacts, ChosenStands, Provider!StoreFollowsTable,
              Provider!Known, Provider!CodexFile
<1>7. Provider!AuditAgrees'
  BY <1>3, <1>5 DEF AccountInv, Provider!AuditAgrees
<1> QED BY <1>4, <1>6, <1>7 DEF AccountInv

LEMMA AuditedKeeps ==
    ASSUME AccountInv, Provider!Audited
    PROVE  AccountInv'
<1>1. /\ command.doing \in {"rotate", "revoke"} /\ command.step = 2 /\ Provider!Ends
      /\ audit' = [audit EXCEPT ![command.arg] = command.doing]
      /\ torn' = torn \ {command.arg}
      /\ UNCHANGED <<files, keyed, table, selection, store, aliases, chosen, failures>>
  BY DEF Provider!Audited
<1>2. /\ command.arg \in Provider!Names
      /\ command.doing = "rotate" => aliases[command.arg] = "active"
      /\ command.doing = "revoke" => aliases[command.arg] = "revoked"
  BY <1>1 DEF AccountInv, AccountCommandInv
<1>3. command' \in Provider!Command /\ command'.doing = "none"
  BY <1>1, EndsIdle
<1>4. /\ audit' \in [Provider!Names -> {"none", "rotate", "revoke"}]
      /\ audit'[command.arg] = command.doing
      /\ \A a \in Provider!Names : a # command.arg => audit'[a] = audit[a]
  BY <1>1, <1>2 DEF AccountInv, Provider!TypeOK
<1>5. Provider!TypeOK' /\ AccountCommandInv'
  BY <1>1, <1>3, <1>4 DEF AccountInv, Provider!TypeOK, AccountCommandInv
<1>6. \A x \in Provider!Names \cup {"selection", "store"} :
        x # command.arg /\ Provider!Settled(x)' => Provider!Settled(x)
  BY <1>1, <1>2, <1>3, Opens DEF Provider!Settled
<1>7. AccountFacts' /\ ChosenStands' /\ Provider!StoreFollowsTable'
  BY <1>1, <1>2, <1>6 DEF AccountInv, AccountFacts, ChosenStands, Provider!StoreFollowsTable,
                          Provider!Known, Provider!CodexFile, Provider!Names, Provider!Profiles
<1>8. Provider!AuditAgrees'
  BY <1>1, <1>2, <1>4, <1>6 DEF AccountInv, Provider!AuditAgrees
<1> QED BY <1>5, <1>7, <1>8 DEF AccountInv

\* A mark on the store touches neither what it lists nor what was counted, but the failure
\* marked is counted in both.
LEMMA MarksKeep ==
    ASSUME AccountInv, NEW p \in Provider!Profiles, NEW s, Provider!Marks(p, s),
           s \in Provider!Store, s.path = store.path, s.known = store.known,
           failures' \in [Provider!Profiles -> Nat], s.errors = failures',
           \A q \in Provider!Profiles : q # p => s.errors[q] = store.errors[q]
    PROVE  AccountInv'
<1>1. /\ store' = s /\ p \in store.known
      /\ UNCHANGED <<files, keyed, table, selection, aliases, audit, command, chosen, torn>>
  BY DEF Provider!Marks
<1>2. Provider!TypeOK' /\ AccountCommandInv'
  BY <1>1 DEF AccountInv, Provider!TypeOK, AccountCommandInv
<1>3. AccountFacts'
  BY <1>1 DEF AccountInv, AccountFacts, Provider!Known
<1>4. ChosenStands' /\ Provider!StoreFollowsTable' /\ Provider!AuditAgrees'
  BY <1>1 DEF AccountInv, ChosenStands, Provider!StoreFollowsTable, Provider!AuditAgrees,
              Provider!Settled, Provider!Known, Provider!CodexFile
<1> QED BY <1>2, <1>3, <1>4 DEF AccountInv

LEMMA MarkUsedKeeps ==
    ASSUME AccountInv, Provider!MarkUsed
    PROVE  AccountInv'
<1>1. PICK p \in Provider!Profiles :
        Provider!Marks(p, [store EXCEPT !.good = @ \cup {p}, !.cooling = @ \ {p}])
  BY DEF Provider!MarkUsed
<1>2. PICK s : s = [store EXCEPT !.good = @ \cup {p}, !.cooling = @ \ {p}]
  OBVIOUS
<1>3. store \in Provider!Store /\ failures \in [Provider!Profiles -> Nat] /\ failures' = failures
  BY DEF AccountInv, Provider!TypeOK, Provider!MarkUsed
<1>4. /\ s \in Provider!Store /\ s.path = store.path /\ s.known = store.known
      /\ s.errors = store.errors
  BY <1>2, <1>3 DEF Provider!Store
<1>5. store.errors = failures
  BY DEF AccountInv, Provider!StoreFollowsTable
<1> QED BY <1>1, <1>2, <1>3, <1>4, <1>5, MarksKeep

LEMMA MarkFailureKeeps ==
    ASSUME AccountInv, Provider!MarkFailure
    PROVE  AccountInv'
<1>1. PICK p \in Provider!Profiles, cools \in BOOLEAN :
        /\ Provider!Marks(p, [store EXCEPT !.errors[p] = @ + 1,
                                           !.cooling = IF cools THEN @ \cup {p} ELSE @ \ {p}])
        /\ failures' = [failures EXCEPT ![p] = @ + 1]
  BY Zenon DEF Provider!MarkFailure
<1>2. PICK s : s = [store EXCEPT !.errors[p] = @ + 1,
                                 !.cooling = IF cools THEN @ \cup {p} ELSE @ \ {p}]
  OBVIOUS
<1>3. store \in Provider!Store /\ failures \in [Provider!Profiles -> Nat]
      /\ store.errors = failures
  BY DEF AccountInv, Provider!TypeOK, Provider!StoreFollowsTable
<1>4. failures' \in [Provider!Profiles -> Nat]
      /\ \A q \in Provider!Profiles : q # p => failures'[q] = failures[q]
  BY <1>1, <1>3
<1>5. /\ s.path = store.path /\ s.known = store.known /\ s.errors = failures'
      /\ s.ready = store.ready /\ s.good = store.good
      /\ s.cooling = IF cools THEN store.cooling \cup {p} ELSE store.cooling \ {p}
  BY <1>1, <1>2, <1>3 DEF Provider!Store
<1>6. s \in Provider!Store
  BY <1>2, <1>3, <1>4, <1>5 DEF Provider!Store
<1>7. Provider!Marks(p, s)
  BY <1>1, <1>2
<1>8. \A q \in Provider!Profiles : q # p => s.errors[q] = store.errors[q]
  BY ONLY <1>3, <1>4, <1>5
<1> QED BY <1>4, <1>5, <1>6, <1>7, <1>8, MarksKeep

LEMMA SharedLoginKeeps ==
    ASSUME AccountInv, Provider!SharedLogin
    PROVE  AccountInv'
<1>1. PICK id \in AccountNames : files' = [files EXCEPT !["shared"] = id]
  BY DEF Provider!SharedLogin
<1>2. UNCHANGED <<keyed, table, selection, store, aliases, audit, command, chosen, failures, torn>>
  BY DEF Provider!SharedLogin
<1>3. /\ files' \in [Provider!Places -> Provider!Accounts]
      /\ \A place \in {"loom", "path"} : files'[place] = files[place]
  BY <1>1 DEF AccountInv, Provider!TypeOK, Provider!Places, Provider!Accounts
<1>4. Provider!TypeOK'
  BY <1>2, <1>3 DEF AccountInv, Provider!TypeOK
<1>5. AccountCommandInv'
  BY <1>2, <1>3 DEF AccountInv, AccountCommandInv, Provider!OfSource
<1>6. AccountFacts' /\ ChosenStands'
  BY <1>2, <1>3 DEF AccountInv, AccountFacts, ChosenStands, Provider!Settled, Provider!Known,
                    Provider!CodexFile
<1>7. Provider!StoreFollowsTable' /\ Provider!AuditAgrees'
  BY <1>2 DEF AccountInv, Provider!StoreFollowsTable, Provider!AuditAgrees, Provider!Settled,
              Provider!Known, Provider!CodexFile
<1> QED BY <1>4, <1>5, <1>6, <1>7 DEF AccountInv

LEMMA AccountCrashKeeps ==
    ASSUME AccountInv, Provider!Crash
    PROVE  AccountInv'
<1>1. /\ torn' = torn \cup Provider!Open(command) /\ Provider!Ends
      /\ UNCHANGED <<files, keyed, table, selection, store, aliases, audit, chosen, failures>>
  BY DEF Provider!Crash
<1>2. command' \in Provider!Command /\ command'.doing = "none"
  BY <1>1, EndsIdle
<1>3. Provider!Open(command) \subseteq Provider!Names \cup {"selection", "store"}
  BY DEF AccountInv, AccountCommandInv, Provider!Open
<1>4. Provider!TypeOK' /\ AccountCommandInv'
  BY <1>1, <1>2, <1>3 DEF AccountInv, Provider!TypeOK, AccountCommandInv
<1>5. \A x \in Provider!Names \cup {"selection", "store"} :
        Provider!Settled(x)' => Provider!Settled(x)
  BY <1>1 DEF Provider!Settled
<1> QED BY <1>1, <1>4, <1>5, AccountFrame

LEMMA AccountKept ==
    ASSUME AccountInv, SurfacesAssumption,
           Provider!Next \/ UNCHANGED <<account, command, ops, crashes, torn>>
    PROVE  AccountInv'
<1>1. CASE Provider!Rotate
  BY <1>1, AliasKeeps DEF Provider!Rotate, Provider!At
<1>2. CASE Provider!Revoke
  BY <1>2, AliasKeeps DEF Provider!Revoke, Provider!At
<1>3. CASE Provider!Rekeyed \/ UNCHANGED <<account, command, ops, crashes, torn>>
  <2>1. /\ UNCHANGED <<files, table, selection, store, aliases, audit, command, chosen, failures, torn>>
        /\ keyed' \in BOOLEAN
    BY <1>3 DEF Provider!Rekeyed, account, AccountInv, Provider!TypeOK
  <2>2. Provider!TypeOK' /\ AccountCommandInv'
    BY <2>1 DEF AccountInv, Provider!TypeOK, AccountCommandInv
  <2>3. \A x \in Provider!Names \cup {"selection", "store"} :
          Provider!Settled(x)' => Provider!Settled(x)
    BY <2>1 DEF Provider!Settled
  <2> QED BY <2>1, <2>2, <2>3, AccountFrame
<1> QED
  BY <1>1, <1>2, <1>3, LoginKeeps, CodexLoginKeeps, CopyAuthKeeps, LoginSelectsKeeps,
     LoginRoutesKeeps, LoginEndsKeeps, OnboardKeeps, OnboardRoutesKeeps, OnboardSyncsKeeps,
     OnboardEndsKeeps, StatusKeeps, StatusSyncsKeeps, StatusMigratesKeeps, ChangeKeeps,
     RefusedKeeps, AuditedKeeps, MarkUsedKeeps, MarkFailureKeeps, SharedLoginKeeps,
     AccountCrashKeeps
     DEF Provider!Next

LEMMA AccountStarts ==
    ASSUME Init, part = "account", SurfacesAssumption
    PROVE  AccountInv
<1>1. Provider!Init
  BY DEF Init
<1>2. command \in Provider!Command /\ command.doing = "none"
  BY <1>1 DEF Provider!Init, Provider!Idle, Provider!Command, Provider!Accounts
<1>3. store \in Provider!Store
  BY <1>1 DEF Provider!Init, Provider!Store, Provider!Profiles, Provider!Places, Provider!Ready
<1>4. Provider!TypeOK
  BY <1>1, <1>2, <1>3 DEF Provider!Init, Provider!TypeOK, Provider!Table, Provider!Manifest,
                          Provider!Places, Provider!Accounts
<1>5. AccountCommandInv
  BY <1>2 DEF AccountCommandInv
<1>6. AccountFacts /\ ChosenStands
  BY <1>1 DEF Provider!Init, AccountFacts, ChosenStands, Provider!Known
<1>7. Provider!StoreFollowsTable /\ Provider!AuditAgrees
  BY <1>1 DEF Provider!Init, Provider!StoreFollowsTable, Provider!AuditAgrees, Provider!Known,
              Provider!CodexFile
<1> QED BY <1>4, <1>5, <1>6, <1>7 DEF AccountInv

\* The manager's requests go out under the account that was chosen, whoever else logs in to
\* the shared file; the auth store follows the profiles and no sync of it loses a failure;
\* and an alias is what the audit log last says, but where a command died between its writes
\* (persist_login_selection, sync_provider_auth_store, migrate_aliases_from_profiles,
\* `loom auth rotate` and `revoke`), for any accounts and any number of commands.
THEOREM ProvidersAgreeHolds == Spec => []ProvidersAgree
<1> DEFINE Inv == part = "account" => AccountInv
<1>1. Init => Inv
  BY AccountStarts, SurfacesAssumption
<1>2. Inv /\ [Next]_vars => Inv'
  BY Steps, AccountKept, SurfacesAssumption
<1>3. Inv => ProvidersAgree
  BY AccountHolds, SurfacesAssumption DEF ProvidersAgree
<1> QED BY <1>1, <1>2, <1>3, PTL DEF Spec

-----------------------------------------------------------------------------
(* Shadow runs.                                                            *)

\* The files of a capture, each with the one written just before it.
Precedes == {<<"execution", "shadow">>, <<"shadow", "parity">>, <<"parity", "parity_stream">>,
             <<"parity_stream", "grpc">>, <<"grpc", "grpc_stream">>}
CaptureFiles == {"execution", "shadow", "parity", "parity_stream", "grpc", "grpc_stream"}

ShadowCommands ==
    [pc : {"idle", "guest", "shadow", "executed", "write", "settle", "ask", "proved", "reserve",
           "commit", "capture", "captured", "report"},
     op : Nat, run : Nat, own : Nat, swarm : BOOLEAN, todo : Seq(Shadow!Files),
     outcome : {"none", "clear", "blocked_by_court", "blocked_by_authority",
                "blocked_by_treasury", "prepared", "unconfirmed"}]

\* The files of a capture that are left follow the one its run was written to last.
Ordered(c, wr) ==
    /\ c.todo \in Seq(CaptureFiles)
    /\ \A f \in CaptureFiles : <<f, Head(c.todo)>> \in Precedes => c.run \in wr[f]
    /\ \A i \in 1 .. Len(c.todo) - 1 : <<c.todo[i], c.todo[i + 1]>> \in Precedes

\* What a command has read and written before the place it is at: a settlement has a bound
\* run from the moment it has read one, and its proof on disk before it asks the treasury.
Placed(c, rs, wr, k) ==
    /\ c.pc = "idle" => c = Shadow!Idle
    /\ c.pc # "idle" => c.op \in 1 .. k
    /\ c.pc \in {"executed", "write", "proved", "captured", "report"} <=> c.todo # <<>>
    /\ c.pc \notin {"idle", "guest", "shadow", "settle"} => c.run \in 1 .. Len(rs)
    /\ c.pc \in {"write", "ask", "proved", "reserve", "commit", "capture"} => rs[c.run].bound
    /\ c.pc = "executed" => ~rs[c.run].bound
    /\ c.pc = "write" => Ordered(c, wr)
    /\ c.pc \in {"captured", "report"} => Head(c.todo) \notin CaptureFiles
                                          /\ Tail(c.todo) \in {<<>>, <<"settlement_stream">>}
    /\ c.pc = "proved" => /\ c.outcome \notin {"prepared", "unconfirmed"}
                          /\ c.todo \in {<<"zk", "zk_stream">>, <<"zk_stream">>}
                          /\ c.todo = <<"zk_stream">> => c.run \in wr["zk"]
    /\ c.pc \in {"reserve", "commit"} => c.run \in wr["zk"] /\ c.run \in wr["zk_stream"]

\* What the treasury and the settlements hold of a command: nothing of one that has not
\* reserved, nothing of one that was refused, a committed charge of one that is told committed.
Paid(c, ch, st) ==
    /\ c.pc \notin {"commit", "capture", "captured", "report"} => \A x \in ch : x.op # c.op
    /\ c.pc = "capture" =>
         /\ c.outcome = "prepared" => [op |-> c.op, run |-> c.run, status |-> "committed"] \in ch
         /\ c.outcome \notin {"prepared", "unconfirmed"} => \A x \in ch : x.op # c.op
    /\ c.pc \notin {"captured", "report"} => \A x \in st : x.op # c.op

RunsInv(rs) ==
    /\ rs \in Seq(Shadow!Outcomes) /\ Len(rs) <= Runs["shadow"]
    /\ \A n \in 1 .. Len(rs) : /\ rs[n].bound => rs[n].live
                               /\ rs[n].unacked => rs[n].remedy # "none"

FilesInv(rs, wr) ==
    /\ wr \in [Shadow!Files -> SUBSET (1 .. Len(rs))]
    /\ \A n \in 1 .. Len(rs), f, g \in CaptureFiles :
         rs[n].bound /\ <<f, g>> \in Precedes /\ n \in wr[g] => n \in wr[f]

BooksInv(rs, wr, ch, st, k) ==
    /\ \A x \in ch : /\ x.op \in 1 .. k /\ x.run \in 1 .. Len(rs) /\ rs[x.run].bound
                     /\ x.run \in wr["zk"] /\ x.run \in wr["zk_stream"]
    /\ \A s \in st : /\ s.op \in 1 .. k /\ s.run \in 1 .. Len(rs)
                     /\ s.outcome = "prepared" =>
                          [op |-> s.op, run |-> s.run, status |-> "committed"] \in ch
                     /\ s.outcome \notin {"prepared", "unconfirmed"} => \A x \in ch : x.op # s.op

\* The inductive invariant.  A command's number is its own.
ShadowInv ==
    /\ expired \in BOOLEAN /\ execution \in 0 .. Len(runs)
    /\ ops \in 0 .. Ops["shadow"] /\ crashes \in 0 .. Crashes["shadow"]
    /\ command \in [Procs -> ShadowCommands]
    /\ RunsInv(runs) /\ FilesInv(runs, wrote) /\ BooksInv(runs, wrote, charges, settled, ops)
    /\ \A o \in Procs : Placed(command[o], runs, wrote, ops) /\ Paid(command[o], charges, settled)
    /\ \A o, p \in Procs : o # p /\ command[o].op = command[p].op => command[o].op = 0

LEMMA BooksFacts ==
    ASSUME NEW rs, NEW wr, NEW ch, NEW st, NEW k, BooksInv(rs, wr, ch, st, k)
    PROVE  /\ \A x \in ch : x.op \in 1 .. k /\ x.run \in 1 .. Len(rs)
           /\ \A s \in st : s.op \in 1 .. k /\ s.run \in 1 .. Len(rs)
  BY DEF BooksInv

LEMMA ShadowHolds ==
    ASSUME ShadowInv, Shadow!ShadowAssumption
    PROVE  /\ Shadow!TypeOK /\ Shadow!EvidenceFollows /\ Shadow!CapturedInForce
           /\ Shadow!SilenceIsRemedied /\ Shadow!ChargedIsProved /\ Shadow!SettledIsCharged
<1>1. Len(runs) \in Nat /\ runs \in Seq(Shadow!Outcomes) /\ Len(runs) <= Runs["shadow"]
      /\ Runs["shadow"] \in Nat /\ Ops["shadow"] \in Nat
  BY DEF ShadowInv, RunsInv, Shadow!ShadowAssumption
<1>2. Shadow!TypeOK
  <2>1. wrote \in [Shadow!Files -> SUBSET (1 .. Runs["shadow"])]
    BY <1>1 DEF ShadowInv, FilesInv
  <2>2. /\ \A c \in charges : c.op \in 1 .. ops /\ c.run \in 1 .. Len(runs)
        /\ \A s \in settled : s.op \in 1 .. ops /\ s.run \in 1 .. Len(runs)
        /\ ops \in 0 .. Ops["shadow"]
    BY BooksFacts DEF ShadowInv
  <2>3. QED
    BY <1>1, <2>1, <2>2 DEF ShadowInv, Shadow!TypeOK
<1>3. Shadow!EvidenceFollows
  <2>1. \A n \in 1 .. Len(runs), f, g \in CaptureFiles :
          runs[n].bound /\ <<f, g>> \in Precedes /\ n \in wrote[g] => n \in wrote[f]
    BY DEF ShadowInv, FilesInv
  <2>2. QED
    BY <2>1 DEF Shadow!EvidenceFollows, Shadow!ShadowRun, CaptureFiles, Precedes
<1>4. Shadow!CapturedInForce
  <2>1. wrote["execution"] \subseteq 1 .. Len(runs)
    BY DEF ShadowInv, FilesInv, Shadow!Files
  <2>2. QED
    BY <2>1 DEF ShadowInv, RunsInv, Shadow!CapturedInForce
<1>5. Shadow!SilenceIsRemedied
  BY DEF ShadowInv, RunsInv, Shadow!SilenceIsRemedied
<1>6. Shadow!ChargedIsProved /\ Shadow!SettledIsCharged
  BY DEF ShadowInv, BooksInv, Shadow!ChargedIsProved, Shadow!SettledIsCharged
<1> QED BY <1>2, <1>3, <1>4, <1>5, <1>6

LEMMA ShadowStarts ==
    ASSUME Shadow!Init, Shadow!ShadowAssumption
    PROVE  ShadowInv
<1>1. Shadow!Idle \in ShadowCommands /\ Shadow!Idle.pc = "idle" /\ Shadow!Idle.op = 0
      /\ Shadow!Idle.todo = <<>>
  BY DEF Shadow!Idle, ShadowCommands
<1>2. Placed(Shadow!Idle, <<>>, wrote, 0) /\ Paid(Shadow!Idle, {}, {})
  BY <1>1 DEF Placed, Paid
<1>3. RunsInv(<<>>) /\ FilesInv(<<>>, wrote) /\ BooksInv(<<>>, wrote, {}, {}, 0)
  BY DEF RunsInv, FilesInv, BooksInv, Shadow!Init, Shadow!ShadowAssumption
<1>4. command = [p \in Procs |-> Shadow!Idle] /\ runs = <<>> /\ charges = {} /\ settled = {}
      /\ ops = 0 /\ crashes = 0 /\ expired = FALSE /\ execution = 0
  BY DEF Shadow!Init
<1>5. /\ command \in [Procs -> ShadowCommands]
      /\ \A o \in Procs : command[o] = Shadow!Idle
  BY <1>1, <1>4
<1>6. /\ RunsInv(runs) /\ FilesInv(runs, wrote) /\ BooksInv(runs, wrote, charges, settled, ops)
      /\ \A o \in Procs : Placed(command[o], runs, wrote, ops) /\ Paid(command[o], charges, settled)
  BY <1>2, <1>3, <1>4, <1>5
<1>7. /\ expired \in BOOLEAN /\ execution \in 0 .. Len(runs)
      /\ ops \in 0 .. Ops["shadow"] /\ crashes \in 0 .. Crashes["shadow"]
  <2>1. Ops["shadow"] \in Nat /\ Crashes["shadow"] \in Nat
    BY DEF Shadow!ShadowAssumption
  <2>2. expired \in BOOLEAN
    BY <1>4
  <2>3. Len(runs) = 0
    BY <1>4
  <2>4. QED
    BY <1>4, <2>1, <2>2, <2>3
<1> QED BY <1>1, <1>5, <1>6, <1>7 DEF ShadowInv

\* Runs are only added.
Grown(rs, more) ==
    /\ rs \in Seq(Shadow!Outcomes) /\ more \in Seq(Shadow!Outcomes) /\ Len(rs) <= Len(more)
    /\ \A n \in 1 .. Len(rs) : more[n] = rs[n]

WroteMore(wr, more) == \A f \in Shadow!Files : wr[f] \subseteq more[f]

LEMMA PlacedKept ==
    ASSUME NEW c \in ShadowCommands, NEW rs, NEW rs2, NEW wr, NEW wr2, NEW k \in Nat, NEW k2 \in Nat,
           Placed(c, rs, wr, k), k <= k2, Grown(rs, rs2), WroteMore(wr, wr2)
    PROVE  Placed(c, rs2, wr2, k2)
<1>1. Len(rs) \in Nat /\ Len(rs2) \in Nat /\ Len(rs) <= Len(rs2)
  BY DEF Grown
<1>2. c.run \in 1 .. Len(rs) => c.run \in 1 .. Len(rs2) /\ rs2[c.run] = rs[c.run]
  BY <1>1 DEF Grown
<1>3. c.op \in 1 .. k => c.op \in 1 .. k2
  OBVIOUS
<1>4. Ordered(c, wr) => Ordered(c, wr2)
  BY DEF Ordered, WroteMore, CaptureFiles, Shadow!Files
<1>5. /\ c.run \in wr["zk"] => c.run \in wr2["zk"]
      /\ c.run \in wr["zk_stream"] => c.run \in wr2["zk_stream"]
  BY DEF WroteMore, Shadow!Files
<1> QED BY <1>2, <1>3, <1>4, <1>5 DEF Placed

LEMMA BooksKept ==
    ASSUME NEW rs, NEW rs2, NEW wr, NEW wr2, NEW k \in Nat, NEW k2 \in Nat, NEW ch, NEW st,
           BooksInv(rs, wr, ch, st, k), k <= k2, Grown(rs, rs2), WroteMore(wr, wr2)
    PROVE  BooksInv(rs2, wr2, ch, st, k2)
<1>1. Len(rs) \in Nat /\ Len(rs2) \in Nat /\ Len(rs) <= Len(rs2)
  BY DEF Grown
<1>2. \A n : n \in 1 .. Len(rs) => n \in 1 .. Len(rs2) /\ rs2[n] = rs[n]
  BY <1>1 DEF Grown
<1>3. \A n : n \in 1 .. k => n \in 1 .. k2
  OBVIOUS
<1>4. \A n : /\ n \in wr["zk"] => n \in wr2["zk"]
             /\ n \in wr["zk_stream"] => n \in wr2["zk_stream"]
  BY DEF WroteMore, Shadow!Files
<1> QED BY <1>2, <1>3, <1>4 DEF BooksInv

\* One command takes a step, and what all share stays in order.
LEMMA Turn ==
    ASSUME ShadowInv, NEW o \in Procs, NEW d \in ShadowCommands,
           command' = [command EXCEPT ![o] = d],
           expired' \in BOOLEAN, execution' \in 0 .. Len(runs'), crashes' \in 0 .. Crashes["shadow"],
           ops' \in 0 .. Ops["shadow"], ops \in Nat, ops' \in Nat, ops' \in {ops, ops + 1},
           RunsInv(runs'), FilesInv(runs', wrote'),
           BooksInv(runs', wrote', charges', settled', ops'),
           Grown(runs, runs'), WroteMore(wrote, wrote'),
           Placed(d, runs', wrote', ops'), Paid(d, charges', settled'),
           \A p \in Procs \ {o} : Paid(command[p], charges', settled'),
           d.op \in {0, command[o].op} \/ (d.op = ops' /\ ops' = ops + 1)
    PROVE  ShadowInv'
<1>1. command' \in [Procs -> ShadowCommands] /\ command'[o] = d
      /\ \A p \in Procs \ {o} : command'[p] = command[p]
  BY DEF ShadowInv
<1>2. \A p \in Procs \ {o} : Placed(command[p], runs', wrote', ops')
  <2>1. ops <= ops' /\ \A p \in Procs : command[p] \in ShadowCommands
                         /\ Placed(command[p], runs, wrote, ops)
    BY DEF ShadowInv
  <2>2. QED
    BY <2>1, PlacedKept
<1>3. \A p \in Procs : Placed(command'[p], runs', wrote', ops') /\ Paid(command'[p], charges', settled')
  BY <1>1, <1>2
<1>4. \A p \in Procs : command[p].op \in 0 .. ops
  BY DEF ShadowInv, Placed, Shadow!Idle
<1>5. \A p, q \in Procs : p # q /\ command'[p].op = command'[q].op => command'[p].op = 0
  <2>1. \A p, q \in Procs : p # q /\ command[p].op = command[q].op => command[p].op = 0
    BY DEF ShadowInv
  <2>2. QED
    BY <1>1, <1>4, <2>1
<1> QED BY <1>1, <1>3, <1>5 DEF ShadowInv

\* A step that writes nothing.
LEMMA Quiet ==
    ASSUME ShadowInv, Shadow!ShadowAssumption, NEW o \in Procs, NEW d \in ShadowCommands,
           command' = [command EXCEPT ![o] = d],
           UNCHANGED <<runs, execution, charges, settled, wrote>>,
           expired' \in BOOLEAN, crashes' \in 0 .. Crashes["shadow"],
           ops' \in 0 .. Ops["shadow"], ops' \in {ops, ops + 1},
           Placed(d, runs, wrote, ops'), Paid(d, charges, settled),
           d.op \in {0, command[o].op} \/ (d.op = ops' /\ ops' = ops + 1)
    PROVE  ShadowInv'
<1>1. ops \in Nat /\ ops' \in Nat /\ ops <= ops'
  BY DEF ShadowInv, Shadow!ShadowAssumption
<1>2. Grown(runs, runs) /\ WroteMore(wrote, wrote)
  BY DEF ShadowInv, RunsInv, Grown, WroteMore
<1>3. BooksInv(runs, wrote, charges, settled, ops')
  BY <1>1, <1>2, BooksKept DEF ShadowInv
<1>4. /\ execution' \in 0 .. Len(runs') /\ RunsInv(runs') /\ FilesInv(runs', wrote')
      /\ BooksInv(runs', wrote', charges', settled', ops')
      /\ Grown(runs, runs') /\ WroteMore(wrote, wrote')
      /\ Placed(d, runs', wrote', ops') /\ Paid(d, charges', settled')
      /\ \A p \in Procs \ {o} : Paid(command[p], charges', settled')
  BY <1>2, <1>3 DEF ShadowInv
<1> QED BY <1>1, <1>4, Turn

\* The numbers of what was charged and settled have all been given.
LEMMA NumbersGiven ==
    ASSUME ShadowInv, Shadow!ShadowAssumption
    PROVE  /\ ops \in Nat
           /\ \A x \in charges \cup settled : x.op # 0 /\ x.op # ops + 1
           /\ Shadow!Idle \in ShadowCommands /\ Shadow!Idle.op = 0
           /\ \A k \in Nat : Placed(Shadow!Idle, runs, wrote, k)
           /\ Paid(Shadow!Idle, charges, settled)
<1>1. ops \in Nat
  BY DEF ShadowInv, Shadow!ShadowAssumption
<1>2. \A x \in charges \cup settled : x.op # 0 /\ x.op # ops + 1
  <2>1. /\ \A x \in charges : x.op \in 1 .. ops
        /\ \A x \in settled : x.op \in 1 .. ops
    BY BooksFacts DEF ShadowInv
  <2>2. QED
    BY <1>1, <2>1
<1>3. Shadow!Idle \in ShadowCommands /\ Shadow!Idle.op = 0 /\ Shadow!Idle.pc = "idle"
      /\ Shadow!Idle.todo = <<>>
  BY DEF Shadow!Idle, ShadowCommands
<1>4. \A k \in Nat : Placed(Shadow!Idle, runs, wrote, k)
  BY <1>3 DEF Placed
<1>5. Paid(Shadow!Idle, charges, settled)
  BY <1>2, <1>3 DEF Paid
<1> QED BY <1>1, <1>2, <1>3, <1>4, <1>5

\* A command ends, refused or dead.
LEMMA Ends ==
    ASSUME ShadowInv, Shadow!ShadowAssumption, NEW o \in Procs,
           command' = [command EXCEPT ![o] = Shadow!Idle],
           UNCHANGED <<runs, execution, charges, settled, wrote>>,
           expired' \in BOOLEAN, crashes' \in 0 .. Crashes["shadow"],
           ops' \in 0 .. Ops["shadow"], ops' \in {ops, ops + 1}
    PROVE  ShadowInv'
<1>1. ops' \in Nat
  BY DEF Shadow!ShadowAssumption
<1>2. Placed(Shadow!Idle, runs, wrote, ops') /\ Paid(Shadow!Idle, charges, settled)
      /\ Shadow!Idle \in ShadowCommands /\ Shadow!Idle.op = 0
  BY <1>1, NumbersGiven
<1> QED BY <1>2, Quiet

\* A capture's files are in the order of the code.
LEMMA CaptureInOrder ==
    ASSUME NEW listed \in {Shadow!Persisted, Shadow!GrpcPersisted}
    PROVE  /\ listed \in Seq(CaptureFiles) /\ listed \in Seq(Shadow!Files) /\ listed # <<>>
           /\ Head(listed) = "execution"
           /\ \A i \in 1 .. Len(listed) - 1 : <<listed[i], listed[i + 1]>> \in Precedes
<1>1. CASE listed = Shadow!Persisted
  BY <1>1 DEF Shadow!Persisted, CaptureFiles, Shadow!Files, Precedes
<1>2. CASE listed = Shadow!GrpcPersisted
  <2> DEFINE p == <<"execution", "shadow", "parity", "parity_stream">>
             q == <<"grpc", "grpc_stream">>
  <2>1. /\ p \in Seq(CaptureFiles) /\ Len(p) = 4 /\ p[1] = "execution" /\ p[2] = "shadow"
        /\ p[3] = "parity" /\ p[4] = "parity_stream"
        /\ q \in Seq(CaptureFiles) /\ Len(q) = 2 /\ q[1] = "grpc" /\ q[2] = "grpc_stream"
    BY DEF CaptureFiles
  <2>2. listed = p \o q
    BY <1>2 DEF Shadow!GrpcPersisted, Shadow!Persisted
  <2> HIDE DEF p, q
  <2>3. listed \in Seq(CaptureFiles) /\ Len(listed) = 6
        /\ \A i \in 1 .. 6 : listed[i] = IF i <= 4 THEN p[i] ELSE q[i - 4]
    <3>1. /\ p \o q \in Seq(CaptureFiles) /\ Len(p \o q) = Len(p) + Len(q)
          /\ \A i \in 1 .. Len(p) + Len(q) :
               (p \o q)[i] = IF i <= Len(p) THEN p[i] ELSE q[i - Len(p)]
      BY <2>1, ConcatProperties
    <3>2. Len(p) + Len(q) = 6
      BY <2>1
    <3>3. QED
      BY <2>1, <2>2, <3>1, <3>2
  <2>4. /\ listed[1] = "execution" /\ listed[2] = "shadow" /\ listed[3] = "parity"
        /\ listed[4] = "parity_stream" /\ listed[5] = "grpc" /\ listed[6] = "grpc_stream"
    BY <2>1, <2>3
  <2>5. \A i \in 1 .. 5 : <<listed[i], listed[i + 1]>> \in Precedes
    BY <2>4 DEF Precedes
  <2>6. listed \in Seq(Shadow!Files)
    BY <2>3 DEF CaptureFiles, Shadow!Files
  <2>7. QED
    BY <2>3, <2>4, <2>5, <2>6
<1> QED BY <1>1, <1>2

\* A run is added, with nothing written of it.
LEMMA RunAdded ==
    ASSUME ShadowInv, Shadow!ShadowAssumption, NEW r \in Shadow!Outcomes,
           r.bound => r.live, r.unacked => r.remedy # "none",
           runs' = Append(runs, r), Len(runs) < Runs["shadow"],
           UNCHANGED <<charges, settled, wrote>>, ops' \in {ops, ops + 1}
    PROVE  /\ Len(runs) \in Nat /\ Len(runs') = Len(runs) + 1 /\ runs'[Len(runs) + 1] = r
           /\ Grown(runs, runs') /\ WroteMore(wrote, wrote')
           /\ RunsInv(runs') /\ FilesInv(runs', wrote')
           /\ BooksInv(runs', wrote', charges', settled', ops')
<1>1. /\ ops \in Nat /\ ops' \in Nat /\ ops <= ops'
      /\ Len(runs) \in Nat /\ runs \in Seq(Shadow!Outcomes) /\ Runs["shadow"] \in Nat
  BY DEF ShadowInv, RunsInv, Shadow!ShadowAssumption
<1>2. /\ runs' \in Seq(Shadow!Outcomes) /\ Len(runs') = Len(runs) + 1
      /\ \A n \in 1 .. Len(runs) : runs'[n] = runs[n]
      /\ runs'[Len(runs) + 1] = r
  BY <1>1
<1>3. RunsInv(runs')
  BY <1>1, <1>2 DEF RunsInv, ShadowInv
<1>4. Grown(runs, runs') /\ WroteMore(wrote, wrote')
  BY <1>1, <1>2 DEF Grown, WroteMore
<1>5. FilesInv(runs', wrote')
  <2>1. wrote \in [Shadow!Files -> SUBSET (1 .. Len(runs))]
        /\ \A n \in 1 .. Len(runs), f, g \in CaptureFiles :
             runs[n].bound /\ <<f, g>> \in Precedes /\ n \in wrote[g] => n \in wrote[f]
    BY DEF ShadowInv, FilesInv
  <2>2. \A g \in CaptureFiles : wrote[g] \subseteq 1 .. Len(runs)
    BY <2>1 DEF CaptureFiles, Shadow!Files
  <2>3. \A n \in 1 .. Len(runs'), f, g \in CaptureFiles :
          runs'[n].bound /\ <<f, g>> \in Precedes /\ n \in wrote[g] => n \in wrote[f]
    BY <1>2, <2>1, <2>2
  <2>4. wrote \in [Shadow!Files -> SUBSET (1 .. Len(runs'))]
    BY <1>1, <1>2, <2>1
  <2>5. QED
    BY <2>3, <2>4 DEF FilesInv
<1>6. BooksInv(runs', wrote', charges', settled', ops')
  BY <1>1, <1>4, BooksKept DEF ShadowInv
<1> QED BY <1>1, <1>2, <1>3, <1>4, <1>5, <1>6

\* A run that is captured was recorded under a warrant in force, and starts its files.
LEMMA CapturedKeeps ==
    ASSUME ShadowInv, Shadow!ShadowAssumption, NEW o \in Procs, NEW r \in Shadow!Outcomes,
           r.bound, r.live, r.unacked => r.remedy # "none",
           NEW listed \in {Shadow!Persisted, Shadow!GrpcPersisted},
           Shadow!Captured(o, r, listed), Len(runs) < Runs["shadow"],
           command[o].pc \in {"idle", "shadow", "guest"},
           UNCHANGED <<expired, execution, charges, settled, wrote, crashes>>,
           ops' = IF command[o].pc = "idle" THEN ops + 1 ELSE ops,
           ops' \in 0 .. Ops["shadow"]
    PROVE  ShadowInv'
<1> DEFINE d == [Shadow!Idle EXCEPT !.pc = "write", !.op = Shadow!Op(o), !.run = Len(runs) + 1,
                   !.own = Len(runs) + 1, !.swarm = command[o].swarm, !.todo = listed]
<1>1. /\ ops \in Nat /\ ops' \in Nat /\ ops <= ops' /\ ops' \in {ops, ops + 1}
      /\ Len(runs) \in Nat /\ runs \in Seq(Shadow!Outcomes) /\ Runs["shadow"] \in Nat
  BY DEF ShadowInv, RunsInv, Shadow!ShadowAssumption
<1>2. /\ command[o] \in ShadowCommands /\ Placed(command[o], runs, wrote, ops)
      /\ Paid(command[o], charges, settled)
  BY DEF ShadowInv
<1>3. /\ d \in ShadowCommands /\ d.pc = "write" /\ d.todo = listed /\ d.run = Len(runs) + 1
      /\ d.op = Shadow!Op(o) /\ d.op \in 1 .. ops'
      /\ d.op = command[o].op \/ (d.op = ops' /\ ops' = ops + 1)
  <2>1. Shadow!Op(o) \in 1 .. ops'
        /\ (Shadow!Op(o) = command[o].op \/ (Shadow!Op(o) = ops' /\ ops' = ops + 1))
    BY <1>1, <1>2 DEF Placed, Shadow!Op
  <2>2. command[o].swarm \in BOOLEAN /\ listed \in Seq(Shadow!Files)
    BY <1>2, CaptureInOrder DEF ShadowCommands
  <2>3. QED
    <3>1. PICK k \in Nat : k = Shadow!Op(o)
      BY <1>1, <2>1
    <3>2. PICK n \in Nat : n = Len(runs) + 1
      BY <1>1
    <3>3. PICK s \in BOOLEAN : s = command[o].swarm
      BY <2>2
    <3>4. d = [Shadow!Idle EXCEPT !.pc = "write", !.op = k, !.run = n, !.own = n,
                                  !.swarm = s, !.todo = listed]
      BY <3>1, <3>2, <3>3
    <3> HIDE DEF d
    <3>5. d \in ShadowCommands /\ d.pc = "write" /\ d.op = k /\ d.run = n /\ d.todo = listed
      BY <2>2, <3>4 DEF ShadowCommands, Shadow!Idle
    <3>6. QED
      BY <2>1, <3>1, <3>2, <3>5
<1>4. command' = [command EXCEPT ![o] = d] /\ runs' = Append(runs, r)
  BY DEF Shadow!Captured
<1> HIDE DEF d
<1>5. /\ Len(runs') = Len(runs) + 1 /\ runs'[Len(runs) + 1] = r
      /\ Grown(runs, runs') /\ WroteMore(wrote, wrote')
      /\ RunsInv(runs') /\ FilesInv(runs', wrote')
      /\ BooksInv(runs', wrote', charges', settled', ops')
  BY <1>1, <1>4, RunAdded
<1>6. Placed(d, runs', wrote', ops')
  <2>1. Ordered(d, wrote')
    BY <1>3, CaptureInOrder DEF Ordered, Precedes
  <2>2. QED
    BY <1>1, <1>3, <1>5, <2>1, CaptureInOrder DEF Placed
<1>7. Paid(d, charges', settled')
  BY <1>2, <1>3, <1>1, NumbersGiven DEF Paid
<1>8. /\ execution' \in 0 .. Len(runs') /\ expired' \in BOOLEAN /\ crashes' \in 0 .. Crashes["shadow"]
       /\ \A p \in Procs \ {o} : Paid(command[p], charges', settled')
  BY <1>1, <1>5 DEF ShadowInv
<1> QED BY <1>1, <1>3, <1>4, <1>5, <1>6, <1>7, <1>8, Turn

\* The files of a proof and of a settlement, taken apart.
LEMMA ProofFiles ==
    /\ Head(<<"zk", "zk_stream">>) = "zk" /\ Tail(<<"zk", "zk_stream">>) = <<"zk_stream">>
    /\ Head(<<"zk_stream">>) = "zk_stream" /\ Tail(<<"zk_stream">>) = <<>>
    /\ <<"zk_stream">> # <<>> /\ <<"zk", "zk_stream">> # <<>>
    /\ <<"zk", "zk_stream">> # <<"zk_stream">>
    /\ <<"zk", "zk_stream">> \in Seq(Shadow!Files)
    /\ Head(<<"settlement", "settlement_stream">>) = "settlement"
    /\ Tail(<<"settlement", "settlement_stream">>) = <<"settlement_stream">>
    /\ <<"settlement", "settlement_stream">> # <<>>
    /\ <<"settlement", "settlement_stream">> \in Seq(Shadow!Files)
    /\ Head(<<"swarm">>) = "swarm" /\ Tail(<<"swarm">>) = <<>> /\ <<"swarm">> # <<>>
    /\ <<"swarm">> \in Seq(Shadow!Files)
  BY DEF Shadow!Files

\* One file is written, of a capture the one that follows the last.
LEMMA WriteKeeps ==
    ASSUME ShadowInv, Shadow!ShadowAssumption, NEW o \in Procs, Shadow!Write(o)
    PROVE  ShadowInv'
<1>1. PICK c : c = command[o]
  OBVIOUS
<1> DEFINE rest == [c EXCEPT !.todo = Tail(@)]
           h == Head(c.todo)
           d == IF rest.todo = <<>> THEN Shadow!After(rest) ELSE rest
<1>2. /\ c \in ShadowCommands /\ c.todo # <<>>
      /\ Placed(c, runs, wrote, ops) /\ Paid(c, charges, settled)
      /\ ops \in Nat /\ Len(runs) \in Nat /\ runs \in Seq(Shadow!Outcomes)
  BY <1>1 DEF ShadowInv, RunsInv, Shadow!ShadowAssumption, Shadow!Write
<1>3. /\ command' = [command EXCEPT ![o] = d] /\ wrote' = [wrote EXCEPT ![h] = @ \cup {c.run}]
      /\ execution' \in {c.run, execution}
      /\ UNCHANGED <<expired, runs, charges, settled, ops, crashes>>
  BY <1>1 DEF Shadow!Write
<1>4. /\ rest \in ShadowCommands /\ rest.todo = Tail(c.todo) /\ rest.pc = c.pc /\ rest.op = c.op
      /\ rest.run = c.run /\ rest.outcome = c.outcome /\ rest.swarm = c.swarm
      /\ h \in Shadow!Files
  <2>1. c.todo \in Seq(Shadow!Files) /\ Tail(c.todo) \in Seq(Shadow!Files) /\ h \in Shadow!Files
    BY <1>2 DEF ShadowCommands
  <2>2. rest \in ShadowCommands
    BY <1>2, <2>1 DEF ShadowCommands
  <2>3. /\ rest.todo = Tail(c.todo) /\ rest.pc = c.pc /\ rest.op = c.op
        /\ rest.run = c.run /\ rest.outcome = c.outcome /\ rest.swarm = c.swarm
    BY <1>2 DEF ShadowCommands
  <2> QED BY <2>1, <2>2, <2>3
<1>5. /\ c.pc \in {"executed", "write", "proved", "captured", "report"}
      /\ c.run \in 1 .. Len(runs) /\ c.op \in 1 .. ops
  BY <1>2 DEF Placed
<1>6. /\ wrote \in [Shadow!Files -> SUBSET (1 .. Len(runs))]
      /\ \A n \in 1 .. Len(runs), f, g \in CaptureFiles :
           runs[n].bound /\ <<f, g>> \in Precedes /\ n \in wrote[g] => n \in wrote[f]
  BY DEF ShadowInv, FilesInv
<1> HIDE DEF rest, h, d
<1>7. /\ wrote' \in [Shadow!Files -> SUBSET (1 .. Len(runs))]
      /\ c.run \in wrote'[h] /\ WroteMore(wrote, wrote')
      /\ \A f \in Shadow!Files : \A n : n \in wrote'[f] => n \in wrote[f] \/ (f = h /\ n = c.run)
  BY <1>3, <1>4, <1>5, <1>6 DEF WroteMore
<1>8. h \in CaptureFiles /\ runs[c.run].bound =>
        \A f \in CaptureFiles : <<f, h>> \in Precedes => c.run \in wrote[f]
  <2>1. c.pc = "proved" => h \notin CaptureFiles
    BY <1>2 DEF Placed, h, CaptureFiles
  <2>2. c.pc = "write" => \A f \in CaptureFiles : <<f, h>> \in Precedes => c.run \in wrote[f]
    BY <1>2 DEF Placed, Ordered, h
  <2>3. QED
    BY <1>2, <1>5, <2>1, <2>2 DEF Placed, h
<1>9. CaptureFiles \subseteq Shadow!Files
  BY DEF CaptureFiles, Shadow!Files
<1>10. FilesInv(runs, wrote')
  <2>1. \A n \in 1 .. Len(runs), f, g \in CaptureFiles :
          runs[n].bound /\ <<f, g>> \in Precedes /\ n \in wrote'[g] => n \in wrote'[f]
    BY <1>6, <1>7, <1>8, <1>9 DEF WroteMore
  <2>2. QED
    BY <1>7, <2>1 DEF FilesInv
<1>11. ASSUME rest.todo # <<>>
       PROVE  Placed(rest, runs, wrote', ops)
  <2>1. CASE c.pc = "write"
    <3>1. /\ c.todo \in Seq(CaptureFiles) /\ Len(c.todo) > 1 /\ Head(rest.todo) = c.todo[2]
          /\ Len(rest.todo) = Len(c.todo) - 1 /\ rest.todo \in Seq(CaptureFiles) /\ h = c.todo[1]
          /\ \A i \in 1 .. Len(rest.todo) : rest.todo[i] = c.todo[i + 1]
      BY <1>2, <1>4, <1>11, <2>1 DEF Placed, Ordered, h
    <3>2. \A i \in 1 .. Len(c.todo) - 1 : <<c.todo[i], c.todo[i + 1]>> \in Precedes
      BY <1>2, <2>1 DEF Placed, Ordered
    <3>3. <<h, Head(rest.todo)>> \in Precedes
      <4>1. 1 \in 1 .. Len(c.todo) - 1 /\ 1 + 1 = 2
        BY <1>2, <3>1
      <4>2. <<c.todo[1], c.todo[1 + 1]>> \in Precedes
        BY <3>2, <4>1
      <4>3. QED
        BY <3>1, <4>1, <4>2
    <3>4. \A f \in CaptureFiles : <<f, Head(rest.todo)>> \in Precedes => f = h
      BY <3>3 DEF Precedes
    <3>5. \A i \in 1 .. Len(rest.todo) - 1 : <<rest.todo[i], rest.todo[i + 1]>> \in Precedes
      <4> SUFFICES ASSUME NEW i \in 1 .. Len(rest.todo) - 1
                   PROVE  <<rest.todo[i], rest.todo[i + 1]>> \in Precedes
        OBVIOUS
      <4>1. /\ i + 1 \in 1 .. Len(c.todo) - 1 /\ i \in 1 .. Len(rest.todo)
            /\ i + 1 \in 1 .. Len(rest.todo)
        BY <3>1
      <4>2. <<c.todo[i + 1], c.todo[(i + 1) + 1]>> \in Precedes
        BY <3>2, <4>1
      <4>3. rest.todo[i] = c.todo[i + 1] /\ rest.todo[i + 1] = c.todo[(i + 1) + 1]
        BY <3>1, <4>1
      <4>4. QED
        BY <4>2, <4>3
    <3>6. Ordered(rest, wrote')
      BY <1>4, <1>7, <3>1, <3>4, <3>5 DEF Ordered
    <3>7. QED
      BY <1>2, <1>4, <1>5, <1>11, <2>1, <3>6 DEF Placed
  <2>2. CASE c.pc = "executed"
    BY <1>2, <1>4, <1>5, <1>11, <2>2 DEF Placed
  <2>3. CASE c.pc = "proved"
    <3>1. c.todo = <<"zk", "zk_stream">> /\ rest.todo = <<"zk_stream">> /\ h = "zk"
      BY <1>2, <1>4, <1>11, <2>3, ProofFiles DEF Placed, h
    <3>2. QED
      BY <1>2, <1>4, <1>5, <1>7, <2>3, <3>1 DEF Placed
  <2>4. CASE c.pc \in {"captured", "report"}
    <3>1. rest.todo = <<"settlement_stream">>
      BY <1>2, <1>4, <1>11, <2>4 DEF Placed
    <3>2. Head(rest.todo) \notin CaptureFiles /\ Tail(rest.todo) = <<>>
      BY <3>1 DEF CaptureFiles
    <3>3. QED
      BY <1>4, <1>5, <1>11, <2>4, <3>2 DEF Placed
  <2>5. QED
    BY <1>5, <2>1, <2>2, <2>3, <2>4
<1>12. Paid(rest, charges, settled)
  BY <1>2, <1>4 DEF Paid
<1>13. ASSUME rest.todo = <<>>
       PROVE  /\ Shadow!After(rest) \in ShadowCommands
              /\ Placed(Shadow!After(rest), runs, wrote', ops)
              /\ Paid(Shadow!After(rest), charges, settled)
              /\ Shadow!After(rest).op \in {0, c.op}
  <2>1. Grown(runs, runs)
    BY <1>2 DEF Grown
  <2>2. /\ Shadow!Idle \in ShadowCommands /\ Placed(Shadow!Idle, runs, wrote', ops)
        /\ Paid(Shadow!Idle, charges, settled) /\ Shadow!Idle.op = 0
    BY <1>2, <1>7, <2>1, NumbersGiven, PlacedKept
  <2>3. CASE rest.pc = "write" /\ rest.swarm
    <3> DEFINE e == [rest EXCEPT !.pc = "settle"]
    <3>1. /\ Shadow!After(rest) = e /\ e \in ShadowCommands /\ e.pc = "settle" /\ e.op = c.op
          /\ e.todo = <<>>
      BY <1>4, <1>13, <2>3 DEF Shadow!After, ShadowCommands
    <3> HIDE DEF e
    <3>2. QED
      BY <1>2, <1>4, <1>5, <2>3, <3>1 DEF Placed, Paid
  <2>4. CASE rest.pc = "executed"
    <3> DEFINE e == [rest EXCEPT !.pc = "shadow"]
    <3>1. /\ Shadow!After(rest) = e /\ e \in ShadowCommands /\ e.pc = "shadow" /\ e.op = c.op
          /\ e.todo = <<>>
      BY <1>4, <1>13, <2>4 DEF Shadow!After, ShadowCommands
    <3> HIDE DEF e
    <3>2. QED
      BY <1>2, <1>4, <1>5, <2>4, <3>1 DEF Placed, Paid
  <2>5. CASE rest.pc = "proved"
    <3> DEFINE e == [rest EXCEPT !.pc = IF rest.outcome = "clear" THEN "reserve" ELSE "capture"]
    <3>1. /\ Shadow!After(rest) = e /\ e \in ShadowCommands /\ e.op = c.op /\ e.todo = <<>>
          /\ e.pc = (IF c.outcome = "clear" THEN "reserve" ELSE "capture") /\ e.run = c.run
          /\ e.outcome = c.outcome
      BY <1>4, <1>13, <2>5 DEF Shadow!After, ShadowCommands
    <3>2. h = "zk_stream" /\ c.run \in wrote["zk"] /\ c.outcome # "prepared" /\ runs[c.run].bound
      BY <1>2, <1>4, <1>13, <2>5, ProofFiles DEF Placed, h
    <3>3. c.run \in wrote'["zk"] /\ c.run \in wrote'["zk_stream"]
      BY <1>7, <3>2 DEF WroteMore, Shadow!Files
    <3> HIDE DEF e
    <3>4. Placed(e, runs, wrote', ops)
      BY <1>5, <3>1, <3>2, <3>3 DEF Placed
    <3>5. Paid(e, charges, settled)
      BY <1>2, <1>4, <2>5, <3>1, <3>2 DEF Paid
    <3>6. QED
      BY <3>1, <3>4, <3>5
  <2>6. CASE rest.pc = "captured" /\ rest.swarm
    <3> DEFINE e == [rest EXCEPT !.pc = "report", !.todo = <<"swarm">>]
    <3>1. /\ Shadow!After(rest) = e /\ e \in ShadowCommands /\ e.pc = "report" /\ e.op = c.op
          /\ e.todo = <<"swarm">> /\ e.run = c.run
      <4>1. Shadow!After(rest) = e
        BY <2>6 DEF Shadow!After
      <4>2. e \in ShadowCommands /\ e.pc = "report" /\ e.op = rest.op /\ e.todo = <<"swarm">>
            /\ e.run = rest.run
        BY <1>4, ProofFiles DEF ShadowCommands
      <4>3. QED
        BY <1>4, <4>1, <4>2
    <3>2. Head(e.todo) \notin CaptureFiles /\ Tail(e.todo) = <<>> /\ e.todo # <<>>
      BY <3>1, ProofFiles DEF CaptureFiles
    <3> HIDE DEF e
    <3>3. Placed(e, runs, wrote', ops) /\ Paid(e, charges, settled)
      BY <1>5, <3>1, <3>2 DEF Placed, Paid
    <3>4. QED
      BY <3>1, <3>3
  <2>7. CASE \/ rest.pc \in {"write", "captured"} /\ ~rest.swarm
             \/ rest.pc = "report"
    <3>1. Shadow!After(rest) = Shadow!Idle
      BY <2>7 DEF Shadow!After
    <3>2. QED
      BY <2>2, <3>1
  <2>8. QED
    BY <1>4, <1>5, <2>3, <2>4, <2>5, <2>6, <2>7
<1>14. /\ d \in ShadowCommands /\ Placed(d, runs, wrote', ops) /\ Paid(d, charges, settled)
       /\ d.op \in {0, c.op}
  BY <1>4, <1>11, <1>12, <1>13 DEF d
<1>15. /\ Grown(runs, runs') /\ RunsInv(runs') /\ execution' \in 0 .. Len(runs')
       /\ \A p \in Procs \ {o} : Paid(command[p], charges', settled')
  BY <1>2, <1>3, <1>5 DEF Grown, ShadowInv
<1>16. BooksInv(runs', wrote', charges', settled', ops')
  <2>1. BooksInv(runs, wrote, charges, settled, ops) /\ Grown(runs, runs)
    BY <1>2 DEF ShadowInv, Grown
  <2>2. BooksInv(runs, wrote', charges, settled, ops)
    BY <1>2, <1>7, <2>1, BooksKept
  <2>3. QED
    BY <1>3, <2>2
<1>17. /\ expired' \in BOOLEAN /\ crashes' \in 0 .. Crashes["shadow"] /\ ops' \in 0 .. Ops["shadow"]
       /\ ops' = ops
  BY <1>3 DEF ShadowInv
<1>18. /\ FilesInv(runs', wrote') /\ Placed(d, runs', wrote', ops') /\ Paid(d, charges', settled')
  BY <1>3, <1>10, <1>14
<1>19. d.op \in {0, command[o].op}
  BY <1>1, <1>14
<1> QED BY <1>2, <1>3, <1>7, <1>14, <1>15, <1>16, <1>17, <1>18, <1>19, Turn

\* The run that a backend leaves when it has validated its warrant or its record was taken.
LEMMA BareRun ==
    ASSUME ~expired, NEW signed \in BOOLEAN
    PROVE  /\ Shadow!Bare(signed) \in Shadow!Outcomes /\ Shadow!Bare(signed).bound
           /\ Shadow!Bare(signed).live /\ ~Shadow!Bare(signed).unacked
  BY DEF Shadow!Bare, Shadow!Outcomes

\* A backend's command refuses or captures.
LEMMA BackendKeeps ==
    ASSUME ShadowInv, Shadow!ShadowAssumption, NEW o \in Procs,
           Shadow!MayRun(o), Shadow!Counted(o), UNCHANGED <<expired, execution, charges, settled, wrote, crashes>>,
           \/ Shadow!Refused(o)
           \/ \E r \in Shadow!Outcomes, listed \in {Shadow!Persisted, Shadow!GrpcPersisted} :
                /\ r.bound /\ r.live /\ (r.unacked => r.remedy # "none")
                /\ Shadow!Captured(o, r, listed)
    PROVE  ShadowInv'
<1>1. /\ ops' = IF command[o].pc = "idle" THEN ops + 1 ELSE ops
      /\ ops' \in 0 .. Ops["shadow"] /\ ops' \in {ops, ops + 1}
      /\ Len(runs) < Runs["shadow"] /\ command[o].pc \in {"idle", "shadow"}
  <2>1. ops \in 0 .. Ops["shadow"] /\ Ops["shadow"] \in Nat
    BY DEF ShadowInv, Shadow!ShadowAssumption
  <2>2. QED
    BY <2>1 DEF Shadow!MayRun, Shadow!Counted
<1>2. expired' \in BOOLEAN /\ crashes' \in 0 .. Crashes["shadow"]
  BY DEF ShadowInv
<1>3. CASE Shadow!Refused(o)
  BY <1>1, <1>2, <1>3, Ends DEF Shadow!Refused
<1>4. ASSUME NEW r \in Shadow!Outcomes, NEW listed \in {Shadow!Persisted, Shadow!GrpcPersisted},
             r.bound, r.live, r.unacked => r.remedy # "none", Shadow!Captured(o, r, listed)
      PROVE  ShadowInv'
  BY <1>1, <1>4, CapturedKeeps
<1> QED BY <1>3, <1>4

\* The eight backends.
LEMMA PostedKeeps ==
    ASSUME ShadowInv, Shadow!ShadowAssumption, NEW o \in Procs,
           Shadow!Mcp(o) \/ Shadow!A2a(o) \/ Shadow!A2aAction(o)
    PROVE  ShadowInv'
<1>1. PICK signed \in BOOLEAN :
        /\ Shadow!MayRun(o) /\ Shadow!Counted(o) /\ Shadow!Posted(o, signed)
        /\ UNCHANGED <<expired, execution, charges, settled, wrote, crashes>>
  BY DEF Shadow!Mcp, Shadow!A2a, Shadow!A2aAction, Shadow!world
<1>2. CASE Shadow!Refused(o)
  BY <1>1, <1>2, BackendKeeps
<1>3. CASE ~expired /\ Shadow!Captured(o, Shadow!Bare(signed), Shadow!Persisted)
  BY <1>1, <1>3, BareRun, BackendKeeps
<1> QED BY <1>1, <1>2, <1>3 DEF Shadow!Posted

LEMMA ValidatedKeeps ==
    ASSUME ShadowInv, Shadow!ShadowAssumption, NEW o \in Procs,
           Shadow!RunProgram(o) \/ Shadow!Http(o) \/ Shadow!GrpcAction(o)
    PROVE  ShadowInv'
<1>1. /\ Shadow!MayRun(o) /\ Shadow!Counted(o)
      /\ UNCHANGED <<expired, execution, charges, settled, wrote, crashes>>
      /\ \/ Shadow!Refused(o)
         \/ ~expired /\ Shadow!Captured(o, Shadow!Bare(TRUE), Shadow!Persisted)
         \/ ~expired /\ Shadow!Captured(o, Shadow!Bare(TRUE), Shadow!GrpcPersisted)
  BY DEF Shadow!RunProgram, Shadow!Http, Shadow!GrpcAction, Shadow!Validated, Shadow!world
<1>2. CASE Shadow!Refused(o)
  BY <1>1, <1>2, BackendKeeps
<1>3. CASE ~expired /\ (\/ Shadow!Captured(o, Shadow!Bare(TRUE), Shadow!Persisted)
                        \/ Shadow!Captured(o, Shadow!Bare(TRUE), Shadow!GrpcPersisted))
  BY <1>1, <1>3, BareRun, BackendKeeps
<1> QED BY <1>1, <1>2, <1>3

\* A robot that was to acknowledge and did not is cancelled or escalated.
LEMMA GrpcPhysicalKeeps ==
    ASSUME ShadowInv, Shadow!ShadowAssumption, NEW o \in Procs, Shadow!GrpcPhysical(o)
    PROVE  ShadowInv'
<1>1. /\ Shadow!MayRun(o) /\ Shadow!Counted(o)
      /\ UNCHANGED <<expired, execution, charges, settled, wrote, crashes>>
  BY DEF Shadow!GrpcPhysical, Shadow!world
<1>2. CASE Shadow!Refused(o)
  BY <1>1, <1>2, BackendKeeps
<1>3. ASSUME ~expired, NEW unacked \in BOOLEAN,
             NEW remedy \in {"none", "unavailable", "cancelled", "escalated"},
             unacked => remedy # "none",
             Shadow!Captured(o, [Shadow!Bare(TRUE) EXCEPT !.unacked = unacked, !.remedy = remedy],
                             Shadow!GrpcPersisted)
      PROVE  ShadowInv'
  <2>1. PICK r : r = [Shadow!Bare(TRUE) EXCEPT !.unacked = unacked, !.remedy = remedy]
    OBVIOUS
  <2>2. r \in Shadow!Outcomes /\ r.bound /\ r.live /\ r.unacked = unacked /\ r.remedy = remedy
    BY <1>3, <2>1, BareRun DEF Shadow!Outcomes
  <2>3. Shadow!Captured(o, r, Shadow!GrpcPersisted)
    BY <1>3, <2>1
  <2>4. QED
    BY <1>1, <1>3, <2>2, <2>3, BackendKeeps
<1>4. ASSUME NEW l \in Shadow!Lifecycles, NEW reply \in Shadow!Replies, ~expired,
             Shadow!Captured(o, [Shadow!Bare(TRUE) EXCEPT !.unacked = l.required /\ reply.ack # "yes",
                                                          !.remedy = Shadow!Remedy(l, reply)],
                             Shadow!GrpcPersisted)
      PROVE  ShadowInv'
  <2>1. PICK unacked \in BOOLEAN : unacked = (l.required /\ reply.ack # "yes")
    OBVIOUS
  <2>2. PICK remedy : remedy = Shadow!Remedy(l, reply)
    OBVIOUS
  <2>3. /\ remedy \in {"none", "unavailable", "cancelled", "escalated"}
        /\ unacked => remedy # "none"
    BY <2>1, <2>2 DEF Shadow!Remedy, Shadow!CancelledBy, Shadow!Acked, Shadow!Lifecycles, Shadow!Replies
  <2>4. Shadow!Captured(o, [Shadow!Bare(TRUE) EXCEPT !.unacked = unacked, !.remedy = remedy],
                        Shadow!GrpcPersisted)
    BY <1>4, <2>1, <2>2, SMTT(30)
  <2>5. QED
    BY <1>3, <1>4, <2>3, <2>4, Zenon
<1>5. ASSUME NEW l \in Shadow!Lifecycles, ~expired,
             Shadow!Captured(o, [Shadow!Bare(TRUE) EXCEPT !.unacked = l.required,
                                                          !.remedy = "unavailable"],
                             Shadow!GrpcPersisted)
      PROVE  ShadowInv'
  <2>1. PICK unacked \in BOOLEAN : unacked = l.required
    BY DEF Shadow!Lifecycles
  <2>2. Shadow!Captured(o, [Shadow!Bare(TRUE) EXCEPT !.unacked = unacked, !.remedy = "unavailable"],
                        Shadow!GrpcPersisted)
    BY <1>5, <2>1
  <2>3. QED
    BY <1>3, <1>5, <2>2, Zenon
<1> QED BY <1>2, <1>4, <1>5 DEF Shadow!GrpcPhysical, Shadow!Validated

\* A guest is launched under a warrant in force; what it left is recorded at its end.
LEMMA LaunchKeeps ==
    ASSUME ShadowInv, Shadow!ShadowAssumption, NEW o \in Procs, Shadow!Launch(o)
    PROVE  ShadowInv'
<1>1. /\ ops' = IF command[o].pc = "idle" THEN ops + 1 ELSE ops
      /\ ops' \in 0 .. Ops["shadow"] /\ ops' \in {ops, ops + 1}
      /\ command[o].pc \in {"idle", "shadow"} /\ ops \in Nat /\ ops' \in Nat
  <2>1. ops \in 0 .. Ops["shadow"] /\ Ops["shadow"] \in Nat
    BY DEF ShadowInv, Shadow!ShadowAssumption
  <2>2. QED
    BY <2>1 DEF Shadow!MayRun, Shadow!Counted, Shadow!Launch
<1>2. /\ UNCHANGED <<runs, execution, charges, settled, wrote>>
      /\ expired' \in BOOLEAN /\ crashes' \in 0 .. Crashes["shadow"]
  BY DEF ShadowInv, Shadow!Launch, Shadow!world, Shadow!Refused
<1>3. CASE Shadow!Refused(o)
  BY <1>1, <1>2, <1>3, Ends DEF Shadow!Refused
<1>4. CASE command' = [command EXCEPT ![o].pc = "guest", ![o].op = Shadow!Op(o)]
  <2>1. PICK c : c = command[o]
    OBVIOUS
  <2> DEFINE d == [c EXCEPT !.pc = "guest", !.op = Shadow!Op(o)]
  <2>2. /\ c \in ShadowCommands /\ Placed(c, runs, wrote, ops) /\ Paid(c, charges, settled)
        /\ command \in [Procs -> ShadowCommands]
    BY <2>1 DEF ShadowInv
  <2>3. Shadow!Op(o) \in 1 .. ops'
        /\ (Shadow!Op(o) = c.op \/ (Shadow!Op(o) = ops' /\ ops' = ops + 1))
    BY <1>1, <2>1, <2>2 DEF Placed, Shadow!Op
  <2>4. /\ d \in ShadowCommands /\ d.pc = "guest" /\ d.op = Shadow!Op(o) /\ d.todo = c.todo
    BY <1>1, <2>2, <2>3 DEF ShadowCommands
  <2>5. command' = [command EXCEPT ![o] = d]
    BY <1>4, <2>1, <2>2
  <2> HIDE DEF d
  <2>6. c.todo = <<>>
    BY <1>1, <2>1, <2>2 DEF Placed
  <2>7. Placed(d, runs, wrote, ops')
    BY <2>3, <2>4, <2>6 DEF Placed
  <2>8. Paid(d, charges, settled)
    BY <1>1, <2>1, <2>2, <2>3, <2>4, NumbersGiven DEF Paid
  <2>9. QED
    BY <1>1, <1>2, <2>1, <2>3, <2>4, <2>5, <2>7, <2>8, Quiet
<1> QED BY <1>3, <1>4 DEF Shadow!Launch

LEMMA WasmtimeKeeps ==
    ASSUME ShadowInv, Shadow!ShadowAssumption, NEW o \in Procs, Shadow!Wasmtime(o)
    PROVE  ShadowInv'
<1>1. /\ UNCHANGED <<expired, execution, charges, settled, wrote, crashes, ops>>
      /\ command[o].pc = "guest" /\ Len(runs) < Runs["shadow"]
  BY DEF Shadow!Wasmtime, Shadow!world
<1>2. /\ expired' \in BOOLEAN /\ crashes' \in 0 .. Crashes["shadow"]
      /\ ops' \in 0 .. Ops["shadow"] /\ ops' \in {ops, ops + 1}
  BY <1>1 DEF ShadowInv
<1>3. CASE Shadow!Refused(o)
  BY <1>1, <1>2, <1>3, Ends DEF Shadow!Refused
<1>4. CASE ~expired /\ Shadow!Captured(o, Shadow!Bare(TRUE), Shadow!Persisted)
  BY <1>1, <1>2, <1>4, BareRun, CapturedKeeps
<1> QED BY <1>3, <1>4 DEF Shadow!Wasmtime

\* A command of its own begins.
LEMMA BeginsAt ==
    ASSUME ShadowInv, Shadow!ShadowAssumption, NEW o \in Procs, NEW d \in ShadowCommands,
           d.pc \in {"shadow", "settle"}, d.op = ops + 1, d.todo = <<>>,
           ops < Ops["shadow"], ops' = ops + 1, command' = [command EXCEPT ![o] = d],
           UNCHANGED <<expired, runs, execution, charges, settled, wrote, crashes>>
    PROVE  ShadowInv'
<1>1. ops \in Nat /\ ops' \in Nat /\ Ops["shadow"] \in Nat /\ ops' \in 0 .. Ops["shadow"]
  BY DEF ShadowInv, Shadow!ShadowAssumption
<1>2. Placed(d, runs, wrote, ops') /\ Paid(d, charges, settled)
  BY <1>1, NumbersGiven DEF Placed, Paid
<1>3. expired' \in BOOLEAN /\ crashes' \in 0 .. Crashes["shadow"]
  BY DEF ShadowInv
<1> QED BY <1>1, <1>2, <1>3, Quiet

LEMMA SettleKeeps ==
    ASSUME ShadowInv, Shadow!ShadowAssumption, NEW o \in Procs, Shadow!Settle(o)
    PROVE  ShadowInv'
<1>1. PICK k \in Nat : k = ops + 1
  BY DEF ShadowInv, Shadow!ShadowAssumption
<1> DEFINE d == [Shadow!Idle EXCEPT !.pc = "settle", !.op = k]
<1>2. /\ ops < Ops["shadow"] /\ ops' = ops + 1 /\ command' = [command EXCEPT ![o] = d]
      /\ UNCHANGED <<expired, runs, execution, charges, settled, wrote, crashes>>
  BY <1>1 DEF Shadow!Settle, Shadow!world
<1>3. Shadow!Idle \in ShadowCommands /\ Shadow!Idle.todo = <<>>
  BY NumbersGiven DEF Shadow!Idle
<1>4. d \in ShadowCommands /\ d.pc = "settle" /\ d.op = k /\ d.todo = <<>>
  BY <1>3 DEF ShadowCommands
<1> HIDE DEF d
<1> QED BY <1>1, <1>2, <1>4, BeginsAt

\* A swarm's pass of the queue has executed, or not.
LEMMA SwarmKeeps ==
    ASSUME ShadowInv, Shadow!ShadowAssumption, NEW o \in Procs, Shadow!Swarm(o)
    PROVE  ShadowInv'
<1>1. /\ ops < Ops["shadow"] /\ ops' = ops + 1 /\ command[o].pc = "idle"
      /\ UNCHANGED <<expired, execution, charges, settled, wrote, crashes>>
  BY DEF Shadow!Swarm, Shadow!world
<1>2. /\ ops \in Nat /\ ops' \in Nat /\ Ops["shadow"] \in Nat /\ ops' \in 0 .. Ops["shadow"]
      /\ ops' \in {ops, ops + 1} /\ expired' \in BOOLEAN /\ crashes' \in 0 .. Crashes["shadow"]
  BY <1>1 DEF ShadowInv, Shadow!ShadowAssumption
<1>3. CASE UNCHANGED <<runs, command>>
  <2>1. command[o] = Shadow!Idle /\ command \in [Procs -> ShadowCommands]
    BY <1>1 DEF ShadowInv, Placed
  <2>2. command' = [command EXCEPT ![o] = Shadow!Idle]
    BY <1>3, <2>1
  <2>3. QED
    BY <1>1, <1>2, <1>3, <2>2, Ends
<1>4. CASE /\ command' = [command EXCEPT ![o] =
                [Shadow!Idle EXCEPT !.pc = "shadow", !.op = ops + 1, !.swarm = TRUE]]
           /\ UNCHANGED runs
  <2>1. PICK k \in Nat : k = ops + 1
    BY <1>2
  <2> DEFINE d == [Shadow!Idle EXCEPT !.pc = "shadow", !.op = k, !.swarm = TRUE]
  <2>2. command' = [command EXCEPT ![o] = d]
    BY <1>4, <2>1
  <2>3. Shadow!Idle \in ShadowCommands /\ Shadow!Idle.todo = <<>>
    BY NumbersGiven DEF Shadow!Idle
  <2>4. d \in ShadowCommands /\ d.pc = "shadow" /\ d.op = k /\ d.todo = <<>>
    BY <2>3 DEF ShadowCommands
  <2> HIDE DEF d
  <2>5. QED
    BY <1>1, <1>4, <2>1, <2>2, <2>4, BeginsAt
<1>5. CASE /\ Len(runs) < Runs["shadow"]
           /\ runs' = Append(runs, [Shadow!Bare(FALSE) EXCEPT !.bound = FALSE])
           /\ command' = [command EXCEPT ![o] =
                [Shadow!Idle EXCEPT !.pc = "executed", !.op = ops + 1, !.run = Len(runs) + 1,
                                    !.swarm = TRUE, !.todo = Shadow!Executed]]
  <2>1. PICK r : r = [Shadow!Bare(FALSE) EXCEPT !.bound = FALSE]
    OBVIOUS
  <2>2. r \in Shadow!Outcomes /\ ~r.bound /\ ~r.unacked
    BY <2>1 DEF ShadowInv, Shadow!Bare, Shadow!Outcomes
  <2>3. /\ Len(runs) \in Nat /\ Len(runs') = Len(runs) + 1 /\ runs'[Len(runs) + 1] = r
        /\ Grown(runs, runs') /\ WroteMore(wrote, wrote')
        /\ RunsInv(runs') /\ FilesInv(runs', wrote')
        /\ BooksInv(runs', wrote', charges', settled', ops')
    <3>1. runs' = Append(runs, r)
      BY <1>5, <2>1
    <3>2. QED
      BY <1>1, <1>2, <1>5, <2>2, <3>1, RunAdded
  <2>4. \E n, k \in Nat : n = Len(runs) + 1 /\ k = ops + 1
    BY <1>2, <2>3
  <2> PICK n \in Nat, k \in Nat : n = Len(runs) + 1 /\ k = ops + 1
    BY <2>4
  <2> DEFINE d == [Shadow!Idle EXCEPT !.pc = "executed", !.op = k, !.run = n,
                                      !.swarm = TRUE, !.todo = Shadow!Executed]
  <2>5. Shadow!Executed \in Seq(Shadow!Files) /\ Shadow!Executed # <<>>
    BY DEF Shadow!Executed, Shadow!Files
  <2>6. /\ d \in ShadowCommands /\ d.pc = "executed" /\ d.op = k /\ d.run = n
        /\ d.todo = Shadow!Executed
    BY <1>2, <2>5 DEF ShadowCommands, Shadow!Idle
  <2>7. command' = [command EXCEPT ![o] = d]
    BY <1>5, <2>4
  <2> HIDE DEF d
  <2>8. Placed(d, runs', wrote', ops') /\ Paid(d, charges, settled)
    BY <1>1, <1>2, <2>2, <2>3, <2>4, <2>5, <2>6, NumbersGiven DEF Placed, Paid
  <2>9. /\ execution' \in 0 .. Len(runs') /\ Paid(d, charges', settled')
        /\ \A p \in Procs \ {o} : Paid(command[p], charges', settled')
    BY <1>1, <2>3, <2>8 DEF ShadowInv
  <2>10. QED
    BY <1>1, <1>2, <2>3, <2>6, <2>7, <2>8, <2>9, Turn
<1> QED BY <1>3, <1>4, <1>5 DEF Shadow!Swarm

\* A settlement reads the execution it will prove.
LEMMA ReadExecutionKeeps ==
    ASSUME ShadowInv, Shadow!ShadowAssumption, NEW o \in Procs, Shadow!ReadExecution(o)
    PROVE  ShadowInv'
<1>1. /\ UNCHANGED <<expired, runs, execution, charges, settled, wrote, crashes, ops>>
      /\ command[o].pc = "settle"
  BY DEF Shadow!ReadExecution, Shadow!world
<1>2. /\ expired' \in BOOLEAN /\ crashes' \in 0 .. Crashes["shadow"] /\ execution \in 0 .. Len(runs)
      /\ ops' \in 0 .. Ops["shadow"] /\ ops' \in {ops, ops + 1} /\ Len(runs) \in Nat
  BY <1>1 DEF ShadowInv, RunsInv
<1>3. PICK c : c = command[o]
  OBVIOUS
<1>4. c \in ShadowCommands /\ Placed(c, runs, wrote, ops) /\ Paid(c, charges, settled)
  BY <1>3 DEF ShadowInv
<1> DEFINE d == [c EXCEPT !.pc = "ask", !.run = execution]
<1>5. CASE ~Shadow!Bound(execution)
  BY <1>1, <1>2, <1>5, Ends DEF Shadow!ReadExecution
<1>6. CASE Shadow!Bound(execution)
  <2>1. command' = [command EXCEPT ![o] = d]
    BY <1>3, <1>6 DEF Shadow!ReadExecution
  <2>2. execution \in 1 .. Len(runs) /\ execution \in Nat /\ runs[execution].bound
    BY <1>2, <1>6 DEF Shadow!Bound
  <2>3. d \in ShadowCommands /\ d.pc = "ask" /\ d.op = c.op /\ d.run = execution /\ d.todo = c.todo
    BY <1>4, <2>2 DEF ShadowCommands
  <2> HIDE DEF d
  <2>4. Placed(d, runs, wrote, ops) /\ Paid(d, charges, settled)
    BY <1>1, <1>3, <1>4, <2>2, <2>3 DEF Placed, Paid
  <2>5. QED
    BY <1>1, <1>2, <1>3, <2>1, <2>3, <2>4, Quiet
<1> QED BY <1>5, <1>6

\* The kernel's answer is noted, and the proof comes next.
LEMMA AskKernelKeeps ==
    ASSUME ShadowInv, Shadow!ShadowAssumption, NEW o \in Procs, Shadow!AskKernel(o)
    PROVE  ShadowInv'
<1>1. PICK verdict \in {"clear", "blocked_by_court", "blocked_by_authority", "error"} :
        /\ UNCHANGED <<expired, runs, execution, charges, settled, wrote, crashes, ops>>
        /\ command[o].pc = "ask"
        /\ command' = [command EXCEPT ![o] =
              IF verdict = "error" THEN Shadow!Idle
              ELSE [@ EXCEPT !.pc = "proved", !.outcome = verdict, !.todo = <<"zk", "zk_stream">>]]
  BY DEF Shadow!AskKernel, Shadow!world
<1>2. /\ expired' \in BOOLEAN /\ crashes' \in 0 .. Crashes["shadow"]
      /\ ops' \in 0 .. Ops["shadow"] /\ ops' \in {ops, ops + 1}
  BY <1>1 DEF ShadowInv
<1>3. PICK c : c = command[o]
  OBVIOUS
<1>4. c \in ShadowCommands /\ Placed(c, runs, wrote, ops) /\ Paid(c, charges, settled)
  BY <1>3 DEF ShadowInv
<1> DEFINE d == [c EXCEPT !.pc = "proved", !.outcome = verdict, !.todo = <<"zk", "zk_stream">>]
<1>5. CASE verdict = "error"
  BY <1>1, <1>2, <1>5, Ends
<1>6. CASE verdict # "error"
  <2>1. command' = [command EXCEPT ![o] = d]
    BY <1>1, <1>3, <1>6
  <2>2. /\ d \in ShadowCommands /\ d.pc = "proved" /\ d.op = c.op /\ d.run = c.run
        /\ d.todo = <<"zk", "zk_stream">> /\ d.outcome = verdict
    BY <1>4, <1>6, ProofFiles DEF ShadowCommands
  <2> HIDE DEF d
  <2>3. Placed(d, runs, wrote, ops)
    BY <1>1, <1>3, <1>4, <2>2, ProofFiles DEF Placed
  <2>4. Paid(d, charges, settled)
    BY <1>1, <1>3, <1>4, <2>2 DEF Paid
  <2>5. QED
    BY <1>1, <1>2, <1>3, <2>1, <2>2, <2>3, <2>4, Quiet
<1> QED BY <1>5, <1>6

\* The numbers of the commands at work are their own.
LEMMA OthersApart ==
    ASSUME ShadowInv, NEW o \in Procs, NEW c, c = command[o], c.op # 0
    PROVE  \A p \in Procs \ {o} : Paid(command[p], charges, settled) /\ command[p].op # c.op
  BY DEF ShadowInv

\* A step of the treasury or the settlements.
LEMMA TreasuryTurn ==
    ASSUME ShadowInv, NEW o \in Procs, NEW d \in ShadowCommands,
           command' = [command EXCEPT ![o] = d],
           UNCHANGED <<expired, runs, execution, wrote, ops, crashes>>, ops \in Nat,
           BooksInv(runs, wrote, charges', settled', ops),
           Placed(d, runs, wrote, ops), Paid(d, charges', settled'),
           \A p \in Procs \ {o} : Paid(command[p], charges', settled'),
           d.op = command[o].op
    PROVE  ShadowInv'
<1>1. Grown(runs, runs) /\ WroteMore(wrote, wrote)
  BY DEF ShadowInv, RunsInv, Grown, WroteMore
<1>2. /\ RunsInv(runs') /\ FilesInv(runs', wrote') /\ execution' \in 0 .. Len(runs')
      /\ BooksInv(runs', wrote', charges', settled', ops')
      /\ Grown(runs, runs') /\ WroteMore(wrote, wrote') /\ Placed(d, runs', wrote', ops')
      /\ expired' \in BOOLEAN /\ crashes' \in 0 .. Crashes["shadow"]
      /\ ops' \in 0 .. Ops["shadow"] /\ ops' = ops
  BY <1>1 DEF ShadowInv
<1> QED BY <1>2, Turn

LEMMA ReserveKeeps ==
    ASSUME ShadowInv, Shadow!ShadowAssumption, NEW o \in Procs, Shadow!Reserve(o)
    PROVE  ShadowInv'
<1>1. PICK c : c = command[o]
  OBVIOUS
<1>2. /\ c \in ShadowCommands /\ Placed(c, runs, wrote, ops) /\ Paid(c, charges, settled)
      /\ c.pc = "reserve" /\ command \in [Procs -> ShadowCommands]
      /\ UNCHANGED <<expired, runs, execution, settled, wrote, ops, crashes>>
  BY <1>1 DEF ShadowInv, Shadow!Reserve
<1>3. /\ expired' \in BOOLEAN /\ crashes' \in 0 .. Crashes["shadow"] /\ ops \in Nat
      /\ ops' \in 0 .. Ops["shadow"] /\ ops' \in {ops, ops + 1} /\ ops' = ops
      /\ Len(runs) \in Nat
  BY <1>2 DEF ShadowInv, RunsInv, Shadow!ShadowAssumption
<1>4. CASE command' = [command EXCEPT ![o] = Shadow!Idle] /\ UNCHANGED charges
  BY <1>2, <1>3, <1>4, Ends
<1>5. CASE /\ command' = [command EXCEPT ![o].pc = "capture", ![o].outcome = "blocked_by_treasury"]
           /\ UNCHANGED charges
  <2> DEFINE d == [c EXCEPT !.pc = "capture", !.outcome = "blocked_by_treasury"]
  <2>1. command' = [command EXCEPT ![o] = d]
    BY <1>1, <1>2, <1>5
  <2>2. /\ d \in ShadowCommands /\ d.pc = "capture" /\ d.op = c.op /\ d.run = c.run
        /\ d.todo = c.todo /\ d.outcome = "blocked_by_treasury"
    BY <1>2 DEF ShadowCommands
  <2> HIDE DEF d
  <2>3. Placed(d, runs, wrote, ops) /\ Paid(d, charges, settled)
    BY <1>2, <2>2 DEF Placed, Paid
  <2>4. QED
    BY <1>1, <1>2, <1>3, <1>5, <2>1, <2>2, <2>3, Quiet
<1>6. CASE /\ command' = [command EXCEPT ![o].pc = "commit"]
           /\ charges' \in {charges \cup {[op |-> c.op, run |-> c.run, status |-> "reserved"]}, charges}
  <2>1. PICK x : x = [op |-> c.op, run |-> c.run, status |-> "reserved"]
    OBVIOUS
  <2>2. x.op = c.op /\ x.run = c.run /\ charges' \in {charges \cup {x}, charges}
    BY <1>6, <2>1
  <2> DEFINE d == [c EXCEPT !.pc = "commit"]
  <2>3. command' = [command EXCEPT ![o] = d]
    BY <1>1, <1>2, <1>6
  <2>4. /\ d \in ShadowCommands /\ d.pc = "commit" /\ d.op = c.op /\ d.run = c.run /\ d.todo = c.todo
    BY <1>2 DEF ShadowCommands
  <2> HIDE DEF d
  <2>5. Placed(d, runs, wrote, ops) /\ Paid(d, charges', settled')
    BY <1>2, <2>4 DEF Placed, Paid
  <2>6. /\ c.op \in 1 .. ops /\ c.op # 0 /\ c.run \in 1 .. Len(runs) /\ runs[c.run].bound
        /\ c.run \in wrote["zk"] /\ c.run \in wrote["zk_stream"] /\ \A s \in settled : s.op # c.op
    BY <1>2, <1>3 DEF Placed, Paid
  <2>7. BooksInv(runs, wrote, charges', settled', ops)
    <3>1. BooksInv(runs, wrote, charges, settled, ops)
      BY DEF ShadowInv
    <3>2. QED
      BY <1>2, <2>2, <2>6, <3>1 DEF BooksInv
  <2>8. \A p \in Procs \ {o} : Paid(command[p], charges', settled')
    BY <1>1, <1>2, <2>2, <2>6, OthersApart DEF Paid
  <2>9. QED
    BY <1>1, <1>2, <1>3, <2>3, <2>4, <2>5, <2>7, <2>8, TreasuryTurn
<1> QED BY <1>1, <1>4, <1>5, <1>6 DEF Shadow!Reserve

\* A commit takes the reservation of its own command only.
LEMMA CommitKeeps ==
    ASSUME ShadowInv, Shadow!ShadowAssumption, NEW o \in Procs, Shadow!Commit(o)
    PROVE  ShadowInv'
<1>1. PICK c : c = command[o]
  OBVIOUS
<1>2. /\ c \in ShadowCommands /\ Placed(c, runs, wrote, ops) /\ Paid(c, charges, settled)
      /\ c.pc = "commit" /\ command \in [Procs -> ShadowCommands]
      /\ UNCHANGED <<expired, runs, execution, settled, wrote, ops, crashes>>
  BY <1>1 DEF ShadowInv, Shadow!Commit
<1>3. /\ expired' \in BOOLEAN /\ crashes' \in 0 .. Crashes["shadow"] /\ ops \in Nat
      /\ ops' \in 0 .. Ops["shadow"] /\ ops' \in {ops, ops + 1} /\ ops' = ops
      /\ Len(runs) \in Nat
  BY <1>2 DEF ShadowInv, RunsInv, Shadow!ShadowAssumption
<1>4. CASE command' = [command EXCEPT ![o] = Shadow!Idle] /\ UNCHANGED charges
  BY <1>2, <1>3, <1>4, Ends
<1>5. ASSUME NEW x, x = [op |-> c.op, run |-> c.run, status |-> "committed"],
             NEW outcome \in {"prepared", "unconfirmed"},
             command' = [command EXCEPT ![o].pc = "capture", ![o].outcome = outcome],
             \A y : y \in charges /\ y.status = "committed" => y \in charges',
             \A y \in charges' : y \in charges \/ y = x,
             outcome = "prepared" => x \in charges'
      PROVE  ShadowInv'
  <2>2. x.op = c.op /\ x.run = c.run
    BY <1>5
  <2>4. \A y : y \in charges /\ y.status = "committed" => y \in charges'
    BY <1>5
  <2>5. \A y \in charges' : y \in charges \/ y = x
    BY <1>5
  <2> DEFINE d == [c EXCEPT !.pc = "capture", !.outcome = outcome]
  <2>6. command' = [command EXCEPT ![o] = d]
    BY <1>1, <1>2, <1>5
  <2>7. /\ d \in ShadowCommands /\ d.pc = "capture" /\ d.op = c.op /\ d.run = c.run
        /\ d.todo = c.todo /\ d.outcome = outcome
    BY <1>2 DEF ShadowCommands
  <2> HIDE DEF d
  <2>8. /\ outcome = "prepared" => x \in charges'
        /\ [op |-> d.op, run |-> d.run, status |-> "committed"] = x
    BY <1>5, <2>7
  <2>9. Placed(d, runs, wrote, ops) /\ Paid(d, charges', settled')
    BY <1>2, <2>7, <2>8 DEF Placed, Paid
  <2>10. /\ c.op \in 1 .. ops /\ c.op # 0 /\ c.run \in 1 .. Len(runs) /\ runs[c.run].bound
         /\ c.run \in wrote["zk"] /\ c.run \in wrote["zk_stream"] /\ \A s \in settled : s.op # c.op
    BY <1>2, <1>3 DEF Placed, Paid
  <2>11. \A k, n : LET y == [op |-> k, run |-> n, status |-> "committed"]
                   IN  y \in charges => y \in charges'
    BY <2>4
  <2>12. BooksInv(runs, wrote, charges', settled', ops)
    <3>1. BooksInv(runs, wrote, charges, settled, ops)
      BY DEF ShadowInv
    <3>2. QED
      BY <1>2, <2>2, <2>5, <2>10, <2>11, <3>1 DEF BooksInv
  <2>13. \A p \in Procs \ {o} : Paid(command[p], charges', settled')
    BY <1>1, <1>2, <2>2, <2>5, <2>10, <2>11, OthersApart DEF Paid
  <2>14. QED
    BY <1>1, <1>2, <1>3, <2>6, <2>7, <2>9, <2>12, <2>13, TreasuryTurn
<1>6. ASSUME NEW held, held = [op |-> c.op, run |-> c.run, status |-> "reserved"],
             NEW x, x = [held EXCEPT !.status = "committed"],
             NEW outcome \in {"prepared", "unconfirmed"},
             command' = [command EXCEPT ![o].pc = "capture", ![o].outcome = outcome],
             \/ charges' = (charges \ {held}) \cup {x}
             \/ outcome = "unconfirmed" /\ charges' \in {charges, charges \ {held}}
      PROVE  ShadowInv'
  <2>1. x = [op |-> c.op, run |-> c.run, status |-> "committed"] /\ held.status = "reserved"
    BY <1>6
  <2>2. /\ \A y : y \in charges /\ y.status = "committed" => y \in charges'
        /\ \A y \in charges' : y \in charges \/ y = x
        /\ outcome = "prepared" => x \in charges'
    BY <1>6, <2>1
  <2> QED BY <1>5, <1>6, <2>1, <2>2
<1> QED BY <1>1, <1>4, <1>6 DEF Shadow!Commit

\* A settlement is captured with what the treasury holds for it.
LEMMA CaptureSettlementKeeps ==
    ASSUME ShadowInv, Shadow!ShadowAssumption, NEW o \in Procs, Shadow!CaptureSettlement(o)
    PROVE  ShadowInv'
<1>1. PICK c : c = command[o]
  OBVIOUS
<1>2. /\ c \in ShadowCommands /\ Placed(c, runs, wrote, ops) /\ Paid(c, charges, settled)
      /\ c.pc = "capture"
      /\ UNCHANGED <<expired, runs, execution, charges, wrote, ops, crashes>>
  BY <1>1 DEF ShadowInv, Shadow!CaptureSettlement
<1>3. /\ expired' \in BOOLEAN /\ crashes' \in 0 .. Crashes["shadow"] /\ ops \in Nat
      /\ ops' \in 0 .. Ops["shadow"] /\ ops' \in {ops, ops + 1} /\ ops' = ops
      /\ Len(runs) \in Nat
  BY <1>2 DEF ShadowInv, RunsInv, Shadow!ShadowAssumption
<1>4. PICK s : s = [op |-> c.op, run |-> c.run, outcome |-> c.outcome, own |-> c.own]
  OBVIOUS
<1>5. s.op = c.op /\ s.run = c.run /\ s.outcome = c.outcome /\ settled' = settled \cup {s}
  BY <1>1, <1>4 DEF Shadow!CaptureSettlement, Shadow!Noted
<1> DEFINE d == [c EXCEPT !.pc = "captured", !.outcome = c.outcome,
                          !.todo = <<"settlement", "settlement_stream">>]
<1>6. command' = [command EXCEPT ![o] = d]
  BY <1>1 DEF Shadow!CaptureSettlement, Shadow!Capture
<1>7. /\ d \in ShadowCommands /\ d.pc = "captured" /\ d.op = c.op /\ d.run = c.run
      /\ d.todo = <<"settlement", "settlement_stream">>
  BY <1>2, ProofFiles DEF ShadowCommands
<1> HIDE DEF d
<1>8. /\ c.op \in 1 .. ops /\ c.op # 0 /\ c.run \in 1 .. Len(runs)
      /\ c.outcome = "prepared" =>
           [op |-> c.op, run |-> c.run, status |-> "committed"] \in charges
      /\ c.outcome \notin {"prepared", "unconfirmed"} => \A x \in charges : x.op # c.op
  BY <1>2, <1>3 DEF Placed, Paid
<1>9. Placed(d, runs, wrote, ops) /\ Paid(d, charges, settled')
  <2>1. Head(d.todo) \notin CaptureFiles
    BY <1>7, ProofFiles DEF CaptureFiles
  <2>2. QED
    BY <1>7, <1>8, <2>1, ProofFiles DEF Placed, Paid
<1>10. BooksInv(runs, wrote, charges, settled', ops)
  <2>1. BooksInv(runs, wrote, charges, settled, ops)
    BY DEF ShadowInv
  <2>2. QED
    BY <1>5, <1>8, <2>1 DEF BooksInv
<1>11. \A p \in Procs \ {o} : Paid(command[p], charges, settled')
  BY <1>1, <1>5, <1>8, OthersApart DEF Paid
<1>12. /\ BooksInv(runs, wrote, charges', settled', ops) /\ Paid(d, charges', settled')
       /\ \A p \in Procs \ {o} : Paid(command[p], charges', settled')
  BY <1>2, <1>9, <1>10, <1>11
<1> QED BY <1>1, <1>2, <1>3, <1>6, <1>7, <1>9, <1>12, TreasuryTurn

LEMMA ShadowKept ==
    ASSUME ShadowInv, Shadow!ShadowAssumption,
           Shadow!Next \/ UNCHANGED <<shadow, command, ops, crashes>>
    PROVE  ShadowInv'
<1>1. CASE UNCHANGED <<shadow, command, ops, crashes>>
  BY <1>1 DEF ShadowInv, shadow
<1>2. CASE Shadow!Expire
  <2>1. /\ UNCHANGED <<runs, execution, charges, settled, command, wrote, ops, crashes>>
        /\ expired' \in BOOLEAN
    BY <1>2 DEF Shadow!Expire
  <2>2. QED
    BY <2>1 DEF ShadowInv
<1>3. ASSUME NEW o \in Procs, Shadow!Crash(o)
      PROVE  ShadowInv'
  <2>1. /\ command' = [command EXCEPT ![o] = Shadow!Idle]
        /\ UNCHANGED <<expired, runs, execution, charges, settled, wrote, ops>>
        /\ crashes < Crashes["shadow"] /\ crashes' = crashes + 1
    BY <1>3 DEF Shadow!Crash
  <2>2. /\ expired' \in BOOLEAN /\ crashes' \in 0 .. Crashes["shadow"]
        /\ ops' \in 0 .. Ops["shadow"] /\ ops' \in {ops, ops + 1}
    BY <2>1 DEF ShadowInv, Shadow!ShadowAssumption
  <2>3. QED
    BY <2>1, <2>2, Ends
<1>4. ASSUME NEW o \in Procs,
             \/ Shadow!Launch(o) \/ Shadow!Wasmtime(o) \/ Shadow!RunProgram(o) \/ Shadow!Http(o)
             \/ Shadow!Mcp(o) \/ Shadow!A2a(o) \/ Shadow!A2aAction(o) \/ Shadow!GrpcAction(o)
             \/ Shadow!GrpcPhysical(o)
      PROVE  ShadowInv'
  BY <1>4, LaunchKeeps, WasmtimeKeeps, ValidatedKeeps, PostedKeeps, GrpcPhysicalKeeps
<1>5. ASSUME NEW o \in Procs,
             \/ Shadow!Write(o) \/ Shadow!Swarm(o) \/ Shadow!Settle(o) \/ Shadow!ReadExecution(o)
             \/ Shadow!AskKernel(o) \/ Shadow!Reserve(o) \/ Shadow!Commit(o)
             \/ Shadow!CaptureSettlement(o)
      PROVE  ShadowInv'
  BY <1>5, WriteKeeps, SwarmKeeps, SettleKeeps, ReadExecutionKeeps, AskKernelKeeps, ReserveKeeps,
     CommitKeeps, CaptureSettlementKeeps
<1> QED BY <1>1, <1>2, <1>3, <1>4, <1>5 DEF Shadow!Next

\* The shadow runs' part of EvidenceStands: a capture's files follow one another, what is
\* captured was recorded while its warrant was in force, a silent robot is dealt with,
\* nothing is charged whose proof is not on disk, and what a settlement tells as committed
\* is; whoever else runs, writes the last execution or dies in between
\* (persist_shadow_run_capture, record_event, settle_latest_execution_with_zk).
ShadowStands == part = "shadow" =>
    /\ Shadow!TypeOK /\ Shadow!EvidenceFollows /\ Shadow!CapturedInForce
    /\ Shadow!SilenceIsRemedied /\ Shadow!ChargedIsProved /\ Shadow!SettledIsCharged

THEOREM ShadowStandsHolds == Spec => []ShadowStands
<1> DEFINE Inv == part = "shadow" => ShadowInv
<1>1. Init => Inv
  BY ShadowStarts, SurfacesAssumption DEF Init, SurfacesAssumption
<1>2. Inv /\ [Next]_vars => Inv'
  BY Steps, ShadowKept, SurfacesAssumption DEF SurfacesAssumption
<1>3. Inv => ShadowStands
  BY ShadowHolds, SurfacesAssumption DEF ShadowStands, SurfacesAssumption
<1> QED BY <1>1, <1>2, <1>3, PTL DEF Spec

-----------------------------------------------------------------------------
(* Gates.                                                                  *)

HookNames == {Gated!Hooks[k] : k \in 1..7}
Sanctions == {"clear", "restricted_execute", "restricted", "unknown"}
GateIds == [restrictions : Sentences, sanction : Sanctions]
GateReplies == [allowed : BOOLEAN,
                stage : {"sanction_controls", "ok", "approval_hook", "budget_gate", "unknown"}]
Previews == {"kernel_preview_written", "local_preview_written"}

\* The steps that come after the identity, and those after the gates' answer.
Heard == {"decide", "emit", "audit", "reference", "last", "report"}
Asked == Heard \cup {"envelope", "gate"}
GateCommands ==
    [pc : Asked \cup {"idle", "resolve", "prove", "answer"},
     op : {"preflight", "decide", "verify", None}, hash : Hashes \cup {None},
     id : GateIds \cup {None}, gate : GateReplies \cup {None}, k : 0..7,
     audit : Previews \cup {None}, passed : SUBSET HookNames,
     free : BOOLEAN, accused : BOOLEAN]

\* A line of a log, by the action and the gates' answer; all of them.
LineOf(h, g, k, a) == Gated!Line([hash |-> h, gate |-> g], k, a)
GateLines == {LineOf(h, g, k, a) : h \in Hashes, g \in GateReplies, k \in 1..7,
                                   a \in Previews \cup {None, "not_exercised"}}

\* What a command has heard of the kernel so far is remembered.
AskedInv(c, kn) ==
    /\ c.pc # "idle" =>
         /\ c.hash \in Hashes
         /\ kn.court \cap Gated!Blocking = {} => c.free
         /\ (kn.court \cup kn.snapshot) \cap Gated!Blocking # {} => c.accused
    /\ c.pc \in Asked =>
         /\ c.id \in GateIds
         /\ c.id.restrictions \cap Gated!Blocking # {} => c.accused
         /\ c.id.sanction = "clear" => c.free
    /\ c.pc \in Heard => c.gate \in GateReplies /\ (c.gate.allowed => c.free)

\* The log ends in the first n lines of a preflight.
OwnLines(c, es, n) ==
    Len(es) >= n /\ \A j \in 1..n : es[Len(es) - n + j] = LineOf(c.hash, c.gate, j, c.audit)

\* The lines a preflight has appended are the last ones, and the reference log is its own
\* once it has written it.
LinesInv(c, es, rf) ==
    /\ c.pc \in {"resolve", "envelope", "gate"} => c.k = 0
    /\ c.pc = "emit" => c.k \in 0..5 /\ OwnLines(c, es, c.k)
    /\ c.pc \in {"audit", "reference", "last"} => c.k = 6 /\ OwnLines(c, es, 6)
    /\ c.pc \in {"reference", "last", "report"} => c.audit \in Previews
    /\ c.pc = "report" => OwnLines(c, es, 7)
    /\ c.pc \in {"last", "report"} =>
         rf = [k \in 1..7 |-> LineOf(c.hash, c.gate, k, "not_exercised")]

\* Beside a log of one preflight lies no reference but its own.
HooksInOrder(es) == Len(es) = 7 /\ \A k \in 1..7 : es[k].hook = Gated!Hooks[k]
AloneInv(es, rf) ==
    HooksInOrder(es) /\ rf # <<>> => (\A k \in 1..6 : es[k] = rf[k]) /\ es[7] # rf[7]

\* The artifacts of the verification at work are those of the hooks it has passed.
ArtifactsInv(c, ps, v, n) ==
    /\ ps \in [HookNames -> 0..n] /\ v.n \in 0..n
    /\ c.pc # "idle" => v.n < n
    /\ c.pc # "idle" /\ c.op = "verify" => {h \in HookNames : ps[h] = n} = c.passed
    /\ c.pc \in {"prove", "answer"} => c.op = "verify"
    /\ c.pc \in {"resolve", "prove"} => c.k \in 0..6
    /\ (\A h \in HookNames : ps[h] <= v.n) /\ v.n > 0 => {h \in HookNames : ps[h] = v.n} = v.passed

\* What the files tell.
ToldInv == /\ Gated!RestrictedIsRefused /\ Gated!RefusedForCause /\ Gated!ClearIsClear
           /\ Gated!PreflightTold /\ Gated!ComparisonOfOne

\* The inductive invariant.
GatesInv ==
    /\ kernel \in [court : Sentences, snapshot : Sentences]
    /\ command \in GateCommands /\ (command.pc = "idle" => command = Gated!Idle)
    /\ events \in Seq(GateLines)
    /\ reference \in Seq(GateLines) /\ (reference = <<>> \/ Len(reference) = 7)
    /\ torn \in BOOLEAN
    /\ clock \in 0..Time["gates"] /\ ops \in 0..Ops["gates"] /\ crashes \in 0..Crashes["gates"]
    /\ AskedInv(command, kernel)
    /\ LinesInv(command, events, reference) /\ AloneInv(events, reference)
    /\ ArtifactsInv(command, proofs, verified, ops)
    /\ ToldInv

\* The hooks, one by one.
LEMMA HookFacts ==
    /\ HookNames = {"agent_identity", "action_envelope", "sanction_controls", "cost_attribution",
                    "approval_hook", "budget_gate", "audit_emission"}
    /\ \A k \in 1..6 : Gated!Hooks[k] # "audit_emission"
    /\ Gated!Hooks[7] = "audit_emission"
    /\ \A k \in 1..7 : Gated!Hooks[k] \in HookNames /\ Gated!VerifyOrder[k] \in HookNames
<1>1. /\ Gated!Hooks[1] = "agent_identity" /\ Gated!Hooks[2] = "action_envelope"
      /\ Gated!Hooks[3] = "sanction_controls" /\ Gated!Hooks[4] = "cost_attribution"
      /\ Gated!Hooks[5] = "approval_hook" /\ Gated!Hooks[6] = "budget_gate"
      /\ Gated!Hooks[7] = "audit_emission"
  BY DEF Gated!Hooks
<1>2. /\ Gated!VerifyOrder[1] = "agent_identity" /\ Gated!VerifyOrder[2] = "action_envelope"
      /\ Gated!VerifyOrder[3] = "cost_attribution" /\ Gated!VerifyOrder[4] = "approval_hook"
      /\ Gated!VerifyOrder[5] = "audit_emission" /\ Gated!VerifyOrder[6] = "sanction_controls"
      /\ Gated!VerifyOrder[7] = "budget_gate"
  BY DEF Gated!VerifyOrder
<1>3. \A k \in 1..7 : k \in {1, 2, 3, 4, 5, 6, 7}
  OBVIOUS
<1>4. \A x : x \in HookNames <=> x \in {"agent_identity", "action_envelope", "sanction_controls",
          "cost_attribution", "approval_hook", "budget_gate", "audit_emission"}
  BY <1>1, <1>3 DEF HookNames
<1> QED BY <1>1, <1>2, <1>3, <1>4

\* A line is what its action, its gates' answer and, of the last hook, its audit make it.
LEMMA LineFacts ==
    ASSUME NEW h \in Hashes, NEW g \in GateReplies, NEW k \in 1..7,
           NEW a \in Previews \cup {None, "not_exercised"}
    PROVE  /\ LineOf(h, g, k, a) \in GateLines
           /\ LineOf(h, g, k, a).hash = h /\ LineOf(h, g, k, a).hook = Gated!Hooks[k]
           /\ k = 7 => LineOf(h, g, k, a).decision = a
           /\ \A b : k # 7 => LineOf(h, g, k, a) = LineOf(h, g, k, b)
           /\ \A c \in GateCommands : c.hash = h /\ c.gate = g =>
                 Gated!Line(c, k, a) = LineOf(h, g, k, a)
<1>1. LineOf(h, g, k, a) \in GateLines
  BY DEF GateLines
<1>2. /\ LineOf(h, g, k, a).hash = h /\ LineOf(h, g, k, a).hook = Gated!Hooks[k]
      /\ LineOf(h, g, k, a).decision = Gated!Said([hash |-> h, gate |-> g], k, a)
  BY DEF LineOf, Gated!Line
<1>3. k = 7 => Gated!Said([hash |-> h, gate |-> g], k, a) = a
  BY HookFacts DEF Gated!Said
<1>4. \A b : k # 7 =>
        Gated!Said([hash |-> h, gate |-> g], k, a) = Gated!Said([hash |-> h, gate |-> g], k, b)
  BY HookFacts DEF Gated!Said
<1>5. \A b : k # 7 => LineOf(h, g, k, a) = LineOf(h, g, k, b)
  BY <1>4 DEF LineOf, Gated!Line
<1>6. ASSUME NEW c \in GateCommands, c.hash = h, c.gate = g
      PROVE  Gated!Line(c, k, a) = LineOf(h, g, k, a)
  <2>1. Gated!Said(c, k, a) = Gated!Said([hash |-> h, gate |-> g], k, a)
    BY <1>6 DEF Gated!Said
  <2>2. QED
    BY <1>6, <2>1 DEF LineOf, Gated!Line
<1> QED BY <1>1, <1>2, <1>3, <1>5, <1>6

LEMMA GatesHold ==
    ASSUME GatesInv, Gated!GatesAssumption
    PROVE  /\ Gated!TypeOK /\ Gated!RestrictedIsRefused /\ Gated!RefusedForCause
           /\ Gated!ClearIsClear /\ Gated!PreflightTold /\ Gated!ComparisonOfOne /\ Gated!ProofsTell
<1>1. \A k \in 1..Len(events) : events[k].hash \in Hashes
  <2>1. ASSUME NEW k \in 1..Len(events) PROVE events[k].hash \in Hashes
    <3>1. events[k] \in GateLines
      BY DEF GatesInv
    <3>2. PICK h \in Hashes, g \in GateReplies, j \in 1..7, a \in Previews \cup {None, "not_exercised"} :
            events[k] = LineOf(h, g, j, a)
      BY <3>1 DEF GateLines
    <3> QED BY <3>2, LineFacts
  <2> QED BY <2>1
<1>2. DOMAIN proofs = HookNames /\ \A h \in HookNames : proofs[h] \in 0..Ops["gates"]
  BY DEF GatesInv, ArtifactsInv, Gated!GatesAssumption
<1>3. Len(reference) \in {0, 7}
  BY DEF GatesInv
<1>4. Gated!TypeOK
  BY <1>1, <1>2, <1>3 DEF Gated!TypeOK, GatesInv, HookNames
<1>5. Gated!ProofsTell
  BY <1>2 DEF Gated!ProofsTell, GatesInv, ArtifactsInv
<1> QED BY <1>4, <1>5 DEF GatesInv, ToldInv

\* A command at rest.
LEMMA IdleGates ==
    ASSUME NEW v, v.n \in Nat, Gated!GatesAssumption
    PROVE  /\ Gated!Idle \in GateCommands /\ Gated!Idle.pc = "idle" /\ Gated!Idle.k = 0
           /\ Gated!Idle.passed = {}
           /\ \A kn : AskedInv(Gated!Idle, kn)
           /\ \A es, rf : LinesInv(Gated!Idle, es, rf)
           /\ \A c, ps, n : ArtifactsInv(c, ps, v, n) => ArtifactsInv(Gated!Idle, ps, v, n)
<1>1. /\ Gated!Idle.pc = "idle" /\ Gated!Idle.k = 0 /\ Gated!Idle.passed = {}
      /\ Gated!Idle \in GateCommands
  BY DEF Gated!Idle, GateCommands
<1>2. /\ \A kn : AskedInv(Gated!Idle, kn)
      /\ \A es, rf : LinesInv(Gated!Idle, es, rf)
  BY <1>1 DEF AskedInv, LinesInv, Asked, Heard
<1>3. \A c, ps, n : ArtifactsInv(c, ps, v, n) => ArtifactsInv(Gated!Idle, ps, v, n)
  BY <1>1 DEF ArtifactsInv
<1> QED BY <1>1, <1>2, <1>3

LEMMA GatesStart ==
    ASSUME Gated!Init, Gated!GatesAssumption
    PROVE  GatesInv
<1>1. /\ verified.n = 0 /\ verified.n \in Nat /\ events = <<>> /\ reference = <<>> /\ decision = None
      /\ latest.kind = "not_started" /\ command = Gated!Idle /\ torn = FALSE
      /\ clock = 0 /\ ops = 0 /\ crashes = 0 /\ kernel \in [court : Sentences, snapshot : Sentences]
      /\ proofs = [h \in HookNames |-> 0]
  BY DEF Gated!Init, HookNames
<1>2. ArtifactsInv(command, proofs, verified, ops)
  BY <1>1, IdleGates DEF ArtifactsInv
<1>3. AloneInv(events, reference) /\ ToldInv
  BY <1>1 DEF AloneInv, ToldInv, Gated!RestrictedIsRefused, Gated!RefusedForCause, Gated!ClearIsClear,
     Gated!PreflightTold, Gated!ComparisonOfOne
<1>4. /\ command \in GateCommands /\ AskedInv(command, kernel)
      /\ LinesInv(command, events, reference)
  BY <1>1, IdleGates
<1>5. /\ events \in Seq(GateLines) /\ reference \in Seq(GateLines)
      /\ clock \in 0..Time["gates"] /\ ops \in 0..Ops["gates"] /\ crashes \in 0..Crashes["gates"]
  BY <1>1 DEF Gated!GatesAssumption
<1> QED BY <1>1, <1>2, <1>3, <1>4, <1>5 DEF GatesInv

\* A step that leaves the files alone keeps what they tell.
LEMMA QuietGates ==
    ASSUME GatesInv, NEW d \in GateCommands, command' = d, d.pc = "idle" => d = Gated!Idle,
           UNCHANGED <<proofs, verified, events, reference, latest, decision, torn, ops>>,
           kernel' \in [court : Sentences, snapshot : Sentences],
           clock' \in 0..Time["gates"], crashes' \in 0..Crashes["gates"],
           AskedInv(d, kernel'), LinesInv(d, events, reference), ArtifactsInv(d, proofs, verified, ops)
    PROVE  GatesInv'
<1>1. ToldInv'
  BY DEF GatesInv, ToldInv, Gated!RestrictedIsRefused, Gated!RefusedForCause, Gated!ClearIsClear,
     Gated!PreflightTold, Gated!ComparisonOfOne
<1>2. /\ AskedInv(command', kernel') /\ LinesInv(command', events', reference')
      /\ AloneInv(events', reference') /\ ArtifactsInv(command', proofs', verified', ops')
      /\ command' \in GateCommands /\ (command'.pc = "idle" => command' = Gated!Idle)
  BY DEF GatesInv
<1> QED BY <1>1, <1>2 DEF GatesInv

\* ... and so does one that ends the command.
LEMMA EndsGates ==
    ASSUME GatesInv, Gated!GatesAssumption, command' = Gated!Idle,
           UNCHANGED <<kernel, proofs, verified, events, reference, latest, decision, torn, clock, ops>>,
           crashes' \in 0..Crashes["gates"]
    PROVE  GatesInv'
<1>1. verified.n \in Nat /\ ArtifactsInv(command, proofs, verified, ops)
  BY DEF GatesInv, ArtifactsInv, Gated!GatesAssumption
<1> QED BY <1>1, IdleGates, QuietGates DEF GatesInv

LEMMA CommandKeeps ==
    ASSUME GatesInv, Gated!GatesAssumption, Gated!Command
    PROVE  GatesInv'
<1>1. PICK op \in {"preflight", "decide", "verify"}, h \in Hashes : Gated!Begin(op, h)
  BY DEF Gated!Command
<1>2. \E d : d = [Gated!Idle EXCEPT !.pc = "resolve", !.op = op, !.hash = h,
                               !.free = ~Gated!Restricted, !.accused = Gated!Recorded]
  OBVIOUS
<1> PICK d : d = [Gated!Idle EXCEPT !.pc = "resolve", !.op = op, !.hash = h,
                               !.free = ~Gated!Restricted, !.accused = Gated!Recorded]
  BY <1>2
<1>3. /\ command' = d /\ ops < Ops["gates"] /\ ops' = ops + 1
      /\ UNCHANGED <<kernel, proofs, verified, events, reference, latest, decision, torn, clock, crashes>>
  BY <1>1 DEF Gated!Begin, Gated!files
<1>4. verified.n \in Nat /\ ops \in Nat /\ ops' \in Nat /\ ops' \in 0..Ops["gates"]
  BY <1>3 DEF GatesInv, ArtifactsInv, Gated!GatesAssumption
<1>5. d \in GateCommands
  <2>1. Gated!Restricted \in BOOLEAN /\ Gated!Recorded \in BOOLEAN
    BY DEF Gated!Restricted, Gated!Recorded
  <2>2. PICK r \in BOOLEAN, s \in BOOLEAN : r = ~Gated!Restricted /\ s = Gated!Recorded
    BY <2>1
  <2>3. d = [Gated!Idle EXCEPT !.pc = "resolve", !.op = op, !.hash = h, !.free = r, !.accused = s]
    BY <2>2
  <2> QED BY <1>4, <2>3, IdleGates DEF GateCommands
<1>6. /\ d.pc = "resolve" /\ d.k = 0 /\ d.passed = {} /\ d.hash = h
      /\ d.free = ~Gated!Restricted /\ d.accused = Gated!Recorded
  BY <1>4, IdleGates DEF GateCommands
<1>7. AskedInv(d, kernel)
  BY <1>6, Zenon DEF AskedInv, Asked, Heard, Gated!Restricted, Gated!Recorded
<1>8. LinesInv(d, events, reference)
  BY <1>6 DEF LinesInv
<1>9. ArtifactsInv(d, proofs, verified, ops')
  <2>1. proofs \in [HookNames -> 0..ops] /\ verified.n \in 0..ops
    BY DEF GatesInv, ArtifactsInv
  <2>2. proofs \in [HookNames -> 0..ops'] /\ verified.n \in 0..ops' /\ verified.n < ops'
    BY <1>3, <1>4, <2>1
  <2>3. {x \in HookNames : proofs[x] = ops'} = d.passed
    BY <1>3, <1>4, <1>6, <2>1
  <2> QED BY <1>6, <2>2, <2>3 DEF GatesInv, ArtifactsInv
<1>10. ToldInv'
  BY <1>3 DEF GatesInv, ToldInv, Gated!RestrictedIsRefused, Gated!RefusedForCause, Gated!ClearIsClear,
     Gated!PreflightTold, Gated!ComparisonOfOne
<1> QED BY <1>3, <1>4, <1>5, <1>6, <1>7, <1>8, <1>9, <1>10 DEF GatesInv

\* Whoever answers that the agent is clear has asked a court that had not sentenced it.
LEMMA AnswersTrue ==
    ASSUME NEW id \in Gated!Identities, kernel \in [court : Sentences, snapshot : Sentences],
           Gated!GatesAssumption
    PROVE  /\ id \in GateIds
           /\ id.sanction = "clear" => kernel.court \cap Gated!Blocking = {}
           /\ id.restrictions \cap Gated!Blocking # {} =>
                (kernel.court \cup kernel.snapshot) \cap Gated!Blocking # {}
<1>1. ASSUME NEW s \in Sentences
      PROVE  Gated!Derive(s) \in Sanctions \ {"unknown"} /\ (Gated!Derive(s) = "clear" => s = {})
  BY DEF Gated!Derive, Sanctions
<1>2. {} \in Sentences /\ "unknown" \in Sanctions
  BY DEF Gated!GatesAssumption, Sanctions
<1>3. \/ /\ kernel.snapshot # {} /\ id.restrictions = kernel.snapshot
         /\ id.sanction = Gated!Derive(kernel.snapshot)
      \/ id.restrictions = kernel.court /\ id.sanction = Gated!Derive(kernel.court)
      \/ id.restrictions = {} /\ id.sanction = "unknown"
  BY DEF Gated!Identities, Gated!CourtAnswers
<1>4. id \in GateIds
  <2>1. ASSUME NEW r \in Sentences, NEW t \in Sanctions PROVE [restrictions |-> r, sanction |-> t] \in GateIds
    BY DEF GateIds
  <2> QED BY <1>1, <1>2, <2>1 DEF Gated!Identities, Gated!CourtAnswers
<1> QED BY <1>1, <1>3, <1>4

LEMMA ResolveKeeps ==
    ASSUME GatesInv, Gated!GatesAssumption, Gated!Resolve
    PROVE  GatesInv'
<1>1. /\ command.pc = "resolve" /\ command \in GateCommands /\ AskedInv(command, kernel)
      /\ LinesInv(command, events, reference) /\ ArtifactsInv(command, proofs, verified, ops)
      /\ UNCHANGED <<kernel, proofs, verified, events, reference, latest, decision, torn, clock,
                     ops, crashes>>
  BY DEF Gated!Resolve, Gated!files, GatesInv
<1>2. ASSUME NEW d \in GateCommands, command' = d, d.pc \in {"prove", "envelope"},
             d.hash = command.hash, d.k = command.k, d.passed = command.passed, d.op = command.op,
             d.free = command.free, d.accused = command.accused,
             d.pc = "prove" => d.op = "verify",
             d.pc = "envelope" => d.id \in Gated!Identities
      PROVE  GatesInv'
  <2>1. AskedInv(d, kernel)
    <3>1. CASE d.pc = "prove"
      BY <1>1, <1>2, <3>1 DEF AskedInv, Asked, Heard
    <3>2. CASE d.pc = "envelope"
      <4>1. /\ d.id \in GateIds
            /\ d.id.sanction = "clear" => kernel.court \cap Gated!Blocking = {}
            /\ d.id.restrictions \cap Gated!Blocking # {} =>
                 (kernel.court \cup kernel.snapshot) \cap Gated!Blocking # {}
        BY <1>2, <3>2, AnswersTrue DEF GatesInv
      <4> QED BY <1>1, <1>2, <3>2, <4>1 DEF AskedInv, Heard
    <3> QED BY <1>2, <3>1, <3>2
  <2>2. LinesInv(d, events, reference) /\ ArtifactsInv(d, proofs, verified, ops)
    BY <1>1, <1>2 DEF LinesInv, ArtifactsInv
  <2> QED BY <1>1, <1>2, <2>1, <2>2, QuietGates DEF GatesInv
<1>3. CASE command' = Gated!Idle
  BY <1>1, <1>3, EndsGates DEF GatesInv
<1>4. CASE command' = [command EXCEPT !.pc = "prove"] /\ command.op = "verify"
  BY <1>1, <1>2, <1>4 DEF GateCommands
<1>5. ASSUME NEW id \in Gated!Identities,
             command' = [command EXCEPT !.id = id,
                !.pc = IF command.op = "verify" THEN "prove" ELSE "envelope"]
      PROVE  GatesInv'
  <2>1. id \in GateIds
    BY AnswersTrue DEF GatesInv
  <2>2. /\ command' \in GateCommands
        /\ command'.pc = (IF command.op = "verify" THEN "prove" ELSE "envelope")
        /\ command'.id = id
        /\ command'.hash = command.hash /\ command'.k = command.k
        /\ command'.passed = command.passed /\ command'.op = command.op
        /\ command'.free = command.free /\ command'.accused = command.accused
    BY <1>1, <1>5, <2>1 DEF GateCommands, Asked
  <2> QED BY <1>2, <2>2
<1> QED BY <1>3, <1>4, <1>5 DEF Gated!Resolve

\* A step of a command that has been told who the agent is, to one that needs no more.
LEMMA GoesOnGates ==
    ASSUME GatesInv, Gated!GatesAssumption, NEW d \in GateCommands, command' = d,
           command.pc \in Asked, d.pc \in Asked, d.pc \in Heard => command.pc \in Heard,
           d.op = command.op, d.hash = command.hash, d.id = command.id, d.gate = command.gate,
           d.passed = command.passed, d.free = command.free, d.accused = command.accused
    PROVE  AskedInv(d, kernel) /\ ArtifactsInv(d, proofs, verified, ops)
  BY DEF GatesInv, AskedInv, ArtifactsInv, Asked, Heard

LEMMA EnvelopeKeeps ==
    ASSUME GatesInv, Gated!GatesAssumption, Gated!Envelope
    PROVE  GatesInv'
<1> /\ command.pc = "envelope" /\ command \in GateCommands
    /\ LinesInv(command, events, reference)
    /\ UNCHANGED <<kernel, proofs, verified, events, reference, latest, decision, torn, clock,
                   ops, crashes>>
  BY DEF Gated!Envelope, Gated!files, GatesInv
<1>1. CASE command' = Gated!Idle
  BY <1>1, EndsGates DEF GatesInv
<1>2. CASE command' = [command EXCEPT !.pc = "gate"]
  <2> DEFINE d == command'
  <2> /\ d \in GateCommands /\ d.pc = "gate" /\ d.k = command.k
      /\ d.op = command.op /\ d.hash = command.hash /\ d.id = command.id /\ d.gate = command.gate
      /\ d.passed = command.passed /\ d.free = command.free /\ d.accused = command.accused
    BY <1>2 DEF GateCommands, Asked
  <2> HIDE DEF d
  <2>1. AskedInv(d, kernel) /\ ArtifactsInv(d, proofs, verified, ops)
    BY GoesOnGates DEF Asked, Heard, d
  <2>2. LinesInv(d, events, reference)
    BY DEF LinesInv
  <2> QED BY <2>1, <2>2, QuietGates DEF GatesInv, d, Asked, Heard
<1> QED BY <1>1, <1>2 DEF Gated!Envelope

\* The adapter allows nothing while the court's sentence stands.
LEMMA RepliesTrue ==
    ASSUME NEW r \in Gated!Replies
    PROVE  r \in GateReplies /\ (r.allowed => kernel.court \cap Gated!Blocking = {})
<1>1. \/ kernel.court \cap Gated!Blocking # {} /\ r = [allowed |-> FALSE, stage |-> "sanction_controls"]
      \/ /\ kernel.court \cap Gated!Blocking = {}
         /\ r \in {[allowed |-> TRUE, stage |-> "ok"], [allowed |-> FALSE, stage |-> "approval_hook"],
                   [allowed |-> FALSE, stage |-> "budget_gate"], [allowed |-> FALSE, stage |-> "unknown"]}
  BY DEF Gated!Replies
<1>2. ASSUME NEW b \in BOOLEAN,
             NEW t \in {"sanction_controls", "ok", "approval_hook", "budget_gate", "unknown"}
      PROVE  [allowed |-> b, stage |-> t] \in GateReplies
  BY DEF GateReplies
<1>3. r \in GateReplies
  BY <1>1, <1>2
<1>4. [allowed |-> FALSE, stage |-> "sanction_controls"].allowed = FALSE
  OBVIOUS
<1>5. r.allowed => kernel.court \cap Gated!Blocking = {}
  BY <1>1, <1>4
<1> QED BY <1>3, <1>5

LEMMA GateKeeps ==
    ASSUME GatesInv, Gated!GatesAssumption, Gated!Gate
    PROVE  GatesInv'
<1> /\ command.pc = "gate" /\ command \in GateCommands
    /\ AskedInv(command, kernel) /\ LinesInv(command, events, reference)
    /\ ArtifactsInv(command, proofs, verified, ops)
    /\ UNCHANGED <<kernel, proofs, verified, events, reference, latest, decision, torn, clock,
                   ops, crashes>>
  BY DEF Gated!Gate, Gated!files, GatesInv
<1>1. CASE command' = Gated!Idle
  BY <1>1, EndsGates DEF GatesInv
<1>2. ASSUME NEW r \in Gated!Replies,
             command' = [command EXCEPT !.gate = r,
                !.pc = IF command.op = "decide" THEN "decide" ELSE "emit"]
      PROVE  GatesInv'
  <2> DEFINE d == command'
  <2> /\ d \in GateCommands /\ d.pc \in {"decide", "emit"} /\ d.gate = r
      /\ d.k = command.k /\ d.op = command.op /\ d.hash = command.hash /\ d.id = command.id
      /\ d.passed = command.passed /\ d.free = command.free /\ d.accused = command.accused
    BY <1>2, RepliesTrue DEF GateCommands, Asked, Heard
  <2> HIDE DEF d
  <2>1. AskedInv(d, kernel)
    BY RepliesTrue DEF AskedInv, Asked, Heard
  <2>2. LinesInv(d, events, reference) /\ ArtifactsInv(d, proofs, verified, ops)
    <3>1. events \in Seq(GateLines) /\ command.k = 0
      BY DEF GatesInv, LinesInv
    <3>2. OwnLines(d, events, 0)
      BY <3>1 DEF OwnLines
    <3> QED BY <3>1, <3>2 DEF LinesInv, ArtifactsInv
  <2> QED BY <2>1, <2>2, QuietGates DEF GatesInv, d, Asked, Heard
<1> QED BY <1>1, <1>2 DEF Gated!Gate

\* What the decision says of the command that took it.
LEMMA DecideKeeps ==
    ASSUME GatesInv, Gated!GatesAssumption, Gated!Decide
    PROVE  GatesInv'
<1> /\ command.pc = "decide" /\ AskedInv(command, kernel) /\ command' = Gated!Idle
    /\ UNCHANGED <<kernel, proofs, verified, events, reference, latest, torn, clock, ops, crashes>>
  BY DEF Gated!Decide, GatesInv
<1>1. /\ decision'.overall = Gated!Decided(command.id, command.gate)
      /\ decision'.free = command.free /\ decision'.accused = command.accused
  BY DEF Gated!Decide
<1>2. /\ decision'.overall = "allow" => decision'.free
      /\ decision'.overall = "hard_deny" => decision'.accused
  BY <1>1 DEF AskedInv, Gated!Decided, Asked, Heard
<1>3. ToldInv'
  BY <1>2 DEF GatesInv, ToldInv, Gated!RestrictedIsRefused, Gated!RefusedForCause, Gated!ClearIsClear,
     Gated!PreflightTold, Gated!ComparisonOfOne
<1>4. verified.n \in Nat /\ ArtifactsInv(command, proofs, verified, ops)
  BY DEF GatesInv, ArtifactsInv, Gated!GatesAssumption
<1>5. /\ Gated!Idle \in GateCommands /\ AskedInv(Gated!Idle, kernel)
      /\ LinesInv(Gated!Idle, events, reference) /\ ArtifactsInv(Gated!Idle, proofs, verified, ops)
  BY <1>4, IdleGates
<1> QED BY <1>3, <1>5 DEF GatesInv

\* A line more: the report's own lines are where they were.
LEMMA LogGrows ==
    ASSUME NEW x \in GateLines, NEW c, NEW d, NEW n \in 0..6, events \in Seq(GateLines),
           events' = Append(events, x), OwnLines(c, events, n),
           x = LineOf(c.hash, c.gate, n + 1, c.audit),
           d.hash = c.hash, d.gate = c.gate, d.audit = c.audit
    PROVE  /\ events' \in Seq(GateLines) /\ Len(events') = Len(events) + 1
           /\ events'[Len(events) + 1] = x /\ \A j \in 1..Len(events) : events'[j] = events[j]
           /\ OwnLines(d, events', n + 1)
<1>1. /\ events' \in Seq(GateLines) /\ Len(events') = Len(events) + 1 /\ Len(events) \in Nat
      /\ events'[Len(events) + 1] = x /\ \A j \in 1..Len(events) : events'[j] = events[j]
  OBVIOUS
<1>2. ASSUME NEW j \in 1..(n + 1)
      PROVE  events'[Len(events') - (n + 1) + j] = LineOf(d.hash, d.gate, j, d.audit)
  <2>1. CASE j = n + 1
    BY <1>1, <2>1
  <2>2. CASE j # n + 1
    <3>1. j \in 1..n /\ Len(events) >= n
      BY <2>2 DEF OwnLines
    <3>2. events[Len(events) - n + j] = LineOf(c.hash, c.gate, j, c.audit)
      BY <3>1 DEF OwnLines
    <3>3. Len(events) - n + j \in 1..Len(events) /\ Len(events') - (n + 1) + j = Len(events) - n + j
      BY <1>1, <3>1
    <3> QED BY <1>1, <3>2, <3>3
  <2> QED BY <2>1, <2>2
<1>3. Len(events') >= n + 1
  BY <1>1 DEF OwnLines
<1> QED BY <1>1, <1>2, <1>3 DEF OwnLines

LEMMA LineKeeps ==
    ASSUME GatesInv, Gated!GatesAssumption, NEW x \in GateLines, NEW d \in GateCommands, NEW n \in 0..6,
           events' = Append(events, x), command' = d, command.pc \in Heard, d.pc \in Heard,
           x = LineOf(command.hash, command.gate, n + 1, command.audit),
           OwnLines(command, events, n),
           d.op = command.op, d.hash = command.hash, d.id = command.id, d.gate = command.gate,
           d.passed = command.passed, d.free = command.free, d.accused = command.accused,
           UNCHANGED <<kernel, proofs, verified, reference, latest, decision, torn, clock, ops, crashes>>,
           LinesInv(d, events', reference), AloneInv(events', reference)
    PROVE  GatesInv'
<1>1. AskedInv(d, kernel) /\ ArtifactsInv(d, proofs, verified, ops)
  BY GoesOnGates DEF Asked, Heard
<1>2. /\ events' \in Seq(GateLines) /\ Len(events') = Len(events) + 1 /\ Len(events) \in Nat
      /\ \A j \in 1..Len(events) : events'[j] = events[j]
  BY DEF GatesInv
<1>3. Gated!PreflightTold'
  <2> SUFFICES ASSUME latest.kind = "preflight_captured", ~torn
               PROVE  \E i \in 0..(Len(events') - 7) : \A k \in 1..7 : events'[i + k] =
                        Gated!Line([hash |-> latest.hash, gate |-> latest.gate], k, latest.audit)
    BY Zenon DEF Gated!PreflightTold
  <2>1. PICK i \in 0..(Len(events) - 7) : \A k \in 1..7 :
            events[i + k] = Gated!Line([hash |-> latest.hash, gate |-> latest.gate], k, latest.audit)
    BY DEF GatesInv, ToldInv, Gated!PreflightTold
  <2>2. \A k \in 1..7 : i + k \in 1..Len(events)
    BY <1>2
  <2>3. i \in 0..(Len(events') - 7)
    BY <1>2
  <2> QED BY <1>2, <2>1, <2>2, <2>3
<1>4. ToldInv'
  BY <1>3 DEF GatesInv, ToldInv, Gated!RestrictedIsRefused, Gated!RefusedForCause, Gated!ClearIsClear,
     Gated!ComparisonOfOne
<1>5. d.pc # "idle"
  BY DEF Heard
<1> QED BY <1>1, <1>2, <1>4, <1>5 DEF GatesInv

LEMMA EmitKeeps ==
    ASSUME GatesInv, Gated!GatesAssumption, Gated!Emit
    PROVE  GatesInv'
<1> /\ command.pc = "emit" /\ command \in GateCommands /\ command.hash \in Hashes
    /\ command.gate \in GateReplies /\ command.k \in 0..5 /\ OwnLines(command, events, command.k)
    /\ events \in Seq(GateLines)
    /\ UNCHANGED <<kernel, proofs, verified, reference, latest, decision, torn, clock, ops, crashes>>
  BY DEF Gated!Emit, GatesInv, AskedInv, LinesInv, Asked, Heard
<1> DEFINE x == LineOf(command.hash, command.gate, command.k + 1, command.audit)
           d == command'
<1>1. /\ events' = Append(events, x) /\ x \in GateLines /\ x.hook # Gated!Hooks[7]
  <2>1. command.k + 1 \in 1..7 /\ command.k + 1 # 7 /\ command.k + 1 \in 1..6
    OBVIOUS
  <2>2. command.audit \in Previews \cup {None, "not_exercised"}
    BY DEF GateCommands
  <2>3. Gated!Line(command, command.k + 1, None) = LineOf(command.hash, command.gate, command.k + 1, None)
    BY <2>1, LineFacts
  <2>4. LineOf(command.hash, command.gate, command.k + 1, None) = x
    BY <2>1, LineFacts
  <2> QED BY <2>1, <2>2, <2>3, <2>4, LineFacts, HookFacts DEF Gated!Emit, Gated!Emitted
<1> PICK n \in 1..6, q \in {"audit", "emit"} :
        n = command.k + 1 /\ q = IF command.k = 5 THEN "audit" ELSE "emit"
  OBVIOUS
<1> HIDE DEF x
<1>2. /\ d \in GateCommands /\ d.pc = (IF command.k = 5 THEN "audit" ELSE "emit")
      /\ d.k = command.k + 1 /\ d.op = command.op /\ d.hash = command.hash /\ d.id = command.id
      /\ d.gate = command.gate /\ d.passed = command.passed /\ d.free = command.free
      /\ d.accused = command.accused /\ d.audit = command.audit
  <2>1. d = [command EXCEPT !.k = n, !.pc = q]
    BY DEF Gated!Emit
  <2>2. command \in GateCommands /\ n \in 0..7 /\ q \in Asked
    BY DEF Asked, Heard
  <2>3. d \in GateCommands
    BY <2>1, <2>2, Zenon DEF GateCommands
  <2> QED BY <2>1, <2>2 DEF GateCommands
<1> HIDE DEF d
<1>3. /\ OwnLines(d, events', command.k + 1) /\ Len(events') = Len(events) + 1
      /\ events'[Len(events) + 1] = x
  BY <1>1, <1>2, LogGrows DEF x
<1>4. LinesInv(d, events', reference)
  BY <1>2, <1>3 DEF LinesInv
<1>5. AloneInv(events', reference)
  BY <1>1, <1>3 DEF AloneInv, HooksInOrder
<1> QED BY <1>1, <1>2, <1>4, <1>5, LineKeeps DEF Heard, d, x

LEMMA AuditPreviewKeeps ==
    ASSUME GatesInv, Gated!GatesAssumption, Gated!AuditPreview
    PROVE  GatesInv'
<1> PICK by \in Previews : command' = [command EXCEPT !.pc = "reference", !.audit = by]
  BY DEF Gated!AuditPreview, Previews
<1> DEFINE d == command'
<1> /\ command.pc = "audit" /\ command \in GateCommands /\ command.hash \in Hashes
    /\ command.gate \in GateReplies /\ command.k = 6 /\ OwnLines(command, events, 6)
    /\ UNCHANGED <<kernel, proofs, verified, events, reference, latest, decision, torn, clock,
                   ops, crashes>>
  BY DEF Gated!AuditPreview, Gated!files, GatesInv, AskedInv, LinesInv, Asked, Heard
<1>1. /\ d \in GateCommands /\ d.pc = "reference" /\ d.audit = by
      /\ d.k = command.k /\ d.op = command.op /\ d.hash = command.hash /\ d.id = command.id
      /\ d.gate = command.gate /\ d.passed = command.passed /\ d.free = command.free
      /\ d.accused = command.accused
  BY DEF GateCommands, Asked, Heard
<1> HIDE DEF d
<1>2. OwnLines(d, events, 6)
  <2>1. command.audit \in Previews \cup {None, "not_exercised"}
    BY DEF GateCommands
  <2>2. \A j \in 1..6 : LineOf(command.hash, command.gate, j, command.audit)
                          = LineOf(d.hash, d.gate, j, d.audit)
    BY <1>1, <2>1, LineFacts
  <2> QED BY <2>2 DEF OwnLines
<1>3. LinesInv(d, events, reference)
  BY <1>1, <1>2 DEF LinesInv
<1>4. AskedInv(d, kernel) /\ ArtifactsInv(d, proofs, verified, ops)
  BY <1>1, GoesOnGates DEF Asked, Heard, d
<1> QED BY <1>1, <1>3, <1>4, QuietGates DEF GatesInv, d

LEMMA WriteReferenceKeeps ==
    ASSUME GatesInv, Gated!GatesAssumption, Gated!WriteReference
    PROVE  GatesInv'
<1> DEFINE d == command'
<1>1. /\ command.pc = "reference" /\ command \in GateCommands /\ command.hash \in Hashes
      /\ command.gate \in GateReplies /\ command.k = 6 /\ OwnLines(command, events, 6)
      /\ command.audit \in Previews /\ events \in Seq(GateLines)
      /\ reference' = [k \in 1..7 |-> Gated!Line(command, k, "not_exercised")]
      /\ command' = [command EXCEPT !.pc = "last"]
      /\ UNCHANGED <<kernel, proofs, verified, events, latest, decision, torn, clock, ops, crashes>>
  BY DEF Gated!WriteReference, GatesInv, AskedInv, LinesInv, Asked, Heard
<1>2. /\ d \in GateCommands /\ d.pc = "last" /\ d.audit = command.audit
      /\ d.k = command.k /\ d.op = command.op /\ d.hash = command.hash /\ d.id = command.id
      /\ d.gate = command.gate /\ d.passed = command.passed /\ d.free = command.free
      /\ d.accused = command.accused
  BY <1>1 DEF GateCommands, Asked, Heard
<1> HIDE DEF d
<1>3. reference' = [k \in 1..7 |-> LineOf(d.hash, d.gate, k, "not_exercised")]
  BY <1>1, <1>2, LineFacts
<1>4. reference' \in Seq(GateLines) /\ Len(reference') = 7
  BY <1>1, <1>2, <1>3, LineFacts
<1>5. LinesInv(d, events, reference')
  BY <1>1, <1>2, <1>3 DEF LinesInv, OwnLines
<1>6. AloneInv(events, reference')
  <2> SUFFICES ASSUME HooksInOrder(events) PROVE FALSE
    BY DEF AloneInv
  <2>1. Len(events) = 7 /\ events[7].hook = Gated!Hooks[7] /\ Len(events) - 6 + 6 = 7
    BY DEF HooksInOrder
  <2>2. events[7] = LineOf(command.hash, command.gate, 6, command.audit)
    BY <1>1, <2>1 DEF OwnLines
  <2>3. events[7].hook = Gated!Hooks[6]
    BY <1>1, <2>2, LineFacts DEF GateCommands
  <2>4. Gated!Hooks[6] # Gated!Hooks[7]
    BY HookFacts
  <2> QED BY <2>1, <2>3, <2>4
<1>7. AskedInv(d, kernel) /\ ArtifactsInv(d, proofs, verified, ops)
  BY <1>1, <1>2, GoesOnGates DEF Asked, Heard, d
<1>8. ToldInv'
  BY <1>1 DEF GatesInv, ToldInv, Gated!RestrictedIsRefused, Gated!RefusedForCause, Gated!ClearIsClear,
     Gated!PreflightTold, Gated!ComparisonOfOne
<1> QED BY <1>1, <1>2, <1>4, <1>5, <1>6, <1>7, <1>8 DEF GatesInv, d

LEMMA EmitLastKeeps ==
    ASSUME GatesInv, Gated!GatesAssumption, Gated!EmitLast
    PROVE  GatesInv'
<1> DEFINE x == LineOf(command.hash, command.gate, 7, command.audit)
           d == command'
<1>1. /\ command.pc = "last" /\ command \in GateCommands /\ command.hash \in Hashes
      /\ command.gate \in GateReplies /\ command.k = 6 /\ OwnLines(command, events, 6)
      /\ command.audit \in Previews /\ events \in Seq(GateLines)
      /\ reference = [k \in 1..7 |-> LineOf(command.hash, command.gate, k, "not_exercised")]
      /\ command' = [command EXCEPT !.pc = "report"]
      /\ UNCHANGED <<kernel, proofs, verified, reference, latest, decision, torn, clock, ops, crashes>>
  BY DEF Gated!EmitLast, GatesInv, AskedInv, LinesInv, Asked, Heard
<1>2. events' = Append(events, x) /\ x \in GateLines /\ x.decision = command.audit
  BY <1>1, LineFacts DEF Gated!EmitLast, Gated!Emitted
<1>3. /\ d \in GateCommands /\ d.pc = "report" /\ d.k = 6 /\ d.op = command.op
      /\ d.hash = command.hash /\ d.id = command.id
      /\ d.gate = command.gate /\ d.passed = command.passed /\ d.free = command.free
      /\ d.accused = command.accused /\ d.audit = command.audit
  BY <1>1 DEF GateCommands, Asked, Heard
<1> HIDE DEF x, d
<1>4. /\ OwnLines(d, events', 7) /\ Len(events') = Len(events) + 1 /\ Len(events) \in Nat
      /\ events'[Len(events) + 1] = x /\ \A j \in 1..Len(events) : events'[j] = events[j]
  BY <1>1, <1>2, <1>3, LogGrows DEF x
<1>5. LinesInv(d, events', reference)
  BY <1>1, <1>3, <1>4 DEF LinesInv
<1>6. AloneInv(events', reference)
  <2> SUFFICES ASSUME Len(events') = 7
               PROVE  (\A k \in 1..6 : events'[k] = reference[k]) /\ events'[7] # reference[7]
    BY DEF AloneInv, HooksInOrder
  <2>1. Len(events) = 6
    <3>1. PICK n \in Nat : n = Len(events)
      BY <1>4
    <3>2. n + 1 = 7
      BY <1>4, <3>1
    <3> QED BY <3>1, <3>2
  <2>2. ASSUME NEW k \in 1..6 PROVE events'[k] = reference[k]
    <3>1. events'[k] = LineOf(command.hash, command.gate, k, command.audit)
      BY <1>1, <1>4, <2>1 DEF OwnLines
    <3>2. LineOf(command.hash, command.gate, k, command.audit)
            = LineOf(command.hash, command.gate, k, "not_exercised")
      BY <1>1, LineFacts
    <3> QED BY <1>1, <3>1, <3>2
  <2>3. reference[7].decision = "not_exercised"
    BY <1>1, LineFacts
  <2>4. events'[7].decision # "not_exercised"
    BY <1>1, <1>2, <1>4, <2>1 DEF Previews
  <2> QED BY <2>2, <2>3, <2>4
<1>7. x = LineOf(command.hash, command.gate, 6 + 1, command.audit) /\ command' = d
  BY DEF x, d
<1>8. command.pc \in Heard /\ d.pc \in Heard
  BY <1>1, <1>3 DEF Heard
<1> QED BY <1>1, <1>2, <1>3, <1>5, <1>6, <1>7, <1>8, LineKeeps, SMTT(30)

\* A report tells of the seven lines its own command has appended.
LEMMA ReportKeeps ==
    ASSUME GatesInv, Gated!GatesAssumption, Gated!Report
    PROVE  GatesInv'
<1>1. /\ command.pc = "report" /\ AskedInv(command, kernel) /\ OwnLines(command, events, 7)
      /\ command' = Gated!Idle /\ torn' = FALSE /\ events \in Seq(GateLines)
      /\ UNCHANGED <<kernel, proofs, verified, events, reference, decision, clock, ops, crashes>>
  BY DEF Gated!Report, GatesInv, LinesInv
<1>2. /\ latest'.kind = "preflight_captured" /\ latest'.hash = command.hash
      /\ latest'.gate = command.gate /\ latest'.audit = command.audit
      /\ latest'.sanction = command.id.sanction /\ latest'.free = command.free
  BY DEF Gated!Report
<1>3. Gated!PreflightTold'
  <2>1. PICK n \in Nat : n = Len(events) /\ n >= 7
    BY <1>1 DEF OwnLines
  <2>2. \A j \in 1..7 : events'[(n - 7) + j] =
          Gated!Line([hash |-> latest'.hash, gate |-> latest'.gate], j, latest'.audit)
    BY <1>1, <1>2, <2>1 DEF OwnLines, LineOf
  <2>3. n - 7 \in 0..(Len(events') - 7)
    BY <1>1, <2>1
  <2> QED BY <2>2, <2>3, Zenon DEF Gated!PreflightTold
<1>4. ToldInv'
  <2>1. Gated!ClearIsClear'
    BY <1>1, <1>2 DEF AskedInv, Asked, Heard, Gated!ClearIsClear
  <2>2. Gated!ComparisonOfOne'
    BY <1>2 DEF Gated!ComparisonOfOne
  <2>3. Gated!RestrictedIsRefused' /\ Gated!RefusedForCause'
    BY <1>1 DEF GatesInv, ToldInv, Gated!RestrictedIsRefused, Gated!RefusedForCause
  <2> QED BY <1>3, <2>1, <2>2, <2>3 DEF ToldInv
<1>5. verified.n \in Nat /\ ArtifactsInv(command, proofs, verified, ops)
  BY DEF GatesInv, ArtifactsInv, Gated!GatesAssumption
<1>6. /\ Gated!Idle \in GateCommands /\ AskedInv(Gated!Idle, kernel)
      /\ LinesInv(Gated!Idle, events, reference) /\ ArtifactsInv(Gated!Idle, proofs, verified, ops)
  BY <1>5, IdleGates
<1> QED BY <1>1, <1>4, <1>6 DEF GatesInv

\* The cardinality the comparison counts with.
LEMMA SameCardinality == ASSUME NEW S PROVE Gated!Cardinality(S) = Cardinality(S)
  BY DEF Gated!Cardinality, Cardinality

\* A comparison of a log of one preflight finds all lines but the last one equal.
LEMMA CompareKeeps ==
    ASSUME GatesInv, Gated!GatesAssumption, Gated!Compare
    PROVE  GatesInv'
<1>1. /\ command.pc = "idle" /\ ops < Ops["gates"] /\ ops' = ops + 1 /\ reference # <<>>
      /\ UNCHANGED <<kernel, proofs, verified, events, reference, decision, command, torn, clock, crashes>>
  BY DEF Gated!Compare
<1>2. /\ latest'.kind = "comparison_complete" /\ latest'.one = Gated!OnePreflight
      /\ latest'.matches = Gated!Cardinality(Gated!Matching)
      /\ latest'.divergences = (IF Len(reference) < Len(events) THEN Len(events) ELSE Len(reference))
                                 - Gated!Cardinality(Gated!Matching)
  BY Zenon DEF Gated!Compare
<1>3. ASSUME Gated!OnePreflight PROVE latest'.matches = 6 /\ latest'.divergences = 1
  <2>1. Len(events) = 7 /\ Len(reference) = 7
    BY <1>1, <1>3 DEF GatesInv, Gated!OnePreflight
  <2>2. (\A k \in 1..6 : events[k] = reference[k]) /\ events[7] # reference[7]
    BY <1>1, <1>3 DEF GatesInv, AloneInv, HooksInOrder, Gated!OnePreflight
  <2>3. Gated!Matching = 1..6
    <3>1. Gated!Pairs = 1..7
      BY <2>1 DEF Gated!Pairs
    <3>2. \A k \in 1..7 : k \in 1..6 \/ k = 7
      OBVIOUS
    <3> QED BY <2>2, <3>1, <3>2 DEF Gated!Matching
  <2>4. Gated!Cardinality(1..6) = 6
    <3>1. 1 \in Int /\ 6 \in Int /\ ~(1 > 6) /\ 6 - 1 + 1 = 6
      OBVIOUS
    <3> QED BY <3>1, FS_Interval, SameCardinality, Zenon
  <2> QED BY <1>2, <2>1, <2>3, <2>4
<1>4. ToldInv'
  <2>1. Gated!ComparisonOfOne'
    BY <1>2, <1>3 DEF Gated!ComparisonOfOne
  <2>2. Gated!ClearIsClear' /\ Gated!PreflightTold'
    BY <1>2 DEF Gated!ClearIsClear, Gated!PreflightTold
  <2>3. Gated!RestrictedIsRefused' /\ Gated!RefusedForCause'
    BY <1>1 DEF GatesInv, ToldInv, Gated!RestrictedIsRefused, Gated!RefusedForCause
  <2> QED BY <2>1, <2>2, <2>3 DEF ToldInv
<1>5. ops \in Nat /\ ops' \in Nat /\ ops' \in 0..Ops["gates"]
  BY <1>1 DEF GatesInv, Gated!GatesAssumption
<1>6. ArtifactsInv(command, proofs, verified, ops')
  BY <1>1, <1>5 DEF GatesInv, ArtifactsInv, Gated!Idle
<1> QED BY <1>1, <1>4, <1>5, <1>6 DEF GatesInv

\* A verification has tried one hook more.
LEMMA ProofStep ==
    ASSUME GatesInv, Gated!GatesAssumption, command.pc = "prove", NEW passes \in BOOLEAN,
           Gated!Proof(passes), NEW d, command' = d,
           d \in GateCommands, d.pc \in {"prove", "answer"}, d.pc = "prove" => d.k \in 0..6,
           d.op = command.op, d.hash = command.hash,
           d.free = command.free, d.accused = command.accused,
           d.passed = IF passes THEN command.passed \cup {Gated!Hook} ELSE command.passed,
           UNCHANGED <<kernel, verified, events, reference, latest, decision, torn, clock, ops, crashes>>
    PROVE  GatesInv'
<1>1. /\ ArtifactsInv(command, proofs, verified, ops) /\ AskedInv(command, kernel)
      /\ command.op = "verify" /\ command.k \in 0..6
      /\ verified.n < ops /\ ops \in Nat /\ verified.n \in Nat
      /\ proofs \in [HookNames -> 0..ops] /\ {h \in HookNames : proofs[h] = ops} = command.passed
  BY DEF GatesInv, ArtifactsInv, Gated!GatesAssumption
<1>2. Gated!Hook \in HookNames
  <2>1. command.k + 1 \in 1..7
    BY <1>1
  <2> QED BY <2>1, HookFacts DEF Gated!Hook
<1>3. /\ proofs' \in [HookNames -> 0..ops] /\ {h \in HookNames : proofs'[h] = ops} = d.passed
      /\ \A h \in HookNames : proofs'[h] = proofs[h] \/ proofs'[h] = ops
  <2>1. CASE passes
    <3>1. proofs' = [proofs EXCEPT ![Gated!Hook] = ops] /\ d.passed = command.passed \cup {Gated!Hook}
      BY <2>1 DEF Gated!Proof
    <3> QED BY <1>1, <1>2, <3>1
  <2>2. CASE ~passes
    BY <1>1, <2>2 DEF Gated!Proof
  <2> QED BY <2>1, <2>2
<1>4. (\A h \in HookNames : proofs'[h] <= verified.n) /\ verified.n > 0 =>
        {h \in HookNames : proofs'[h] = verified.n} = verified.passed
  <2> SUFFICES ASSUME \A h \in HookNames : proofs'[h] <= verified.n, verified.n > 0
               PROVE  {h \in HookNames : proofs'[h] = verified.n} = verified.passed
    OBVIOUS
  <2>1. \A h \in HookNames : proofs'[h] # ops
    BY <1>1, <1>3
  <2>2. \A h \in HookNames : proofs'[h] = proofs[h]
    BY <1>3, <2>1
  <2> QED BY <1>1, <2>2 DEF ArtifactsInv
<1>5. ArtifactsInv(d, proofs', verified, ops)
  BY <1>1, <1>3, <1>4 DEF ArtifactsInv
<1>6. AskedInv(d, kernel) /\ LinesInv(d, events, reference)
  BY <1>1 DEF AskedInv, LinesInv, Asked, Heard
<1>7. ToldInv'
  BY DEF GatesInv, ToldInv, Gated!RestrictedIsRefused, Gated!RefusedForCause, Gated!ClearIsClear,
     Gated!PreflightTold, Gated!ComparisonOfOne
<1>8. d.pc # "idle"
  OBVIOUS
<1> QED BY <1>5, <1>6, <1>7, <1>8 DEF GatesInv

\* The command once a hook has been tried.
LEMMA PassedFields ==
    ASSUME command \in GateCommands, command.pc = "prove", command.k \in 0..6,
           Gated!Hook \in HookNames, NEW passes \in BOOLEAN, NEW d, d = Gated!Passed(passes)
    PROVE  /\ d \in GateCommands /\ d.pc \in {"prove", "answer"} /\ (d.pc = "prove" => d.k \in 0..6)
           /\ d.op = command.op /\ d.hash = command.hash
           /\ d.free = command.free /\ d.accused = command.accused
           /\ d.passed = IF passes THEN command.passed \cup {Gated!Hook} ELSE command.passed
<1> PICK n \in 1..7 : n = command.k + 1
  OBVIOUS
<1> PICK q \in {"answer", "prove"} : q = IF command.k = 6 THEN "answer" ELSE "prove"
  OBVIOUS
<1>1. command.passed \in SUBSET HookNames
  BY DEF GateCommands
<1> PICK s \in SUBSET HookNames : s = IF passes THEN command.passed \cup {Gated!Hook} ELSE command.passed
  BY <1>1
<1>2. d = [command EXCEPT !.k = n, !.pc = q, !.passed = s]
  BY DEF Gated!Passed
<1>3. n \in 0..7 /\ q \in {"idle", "resolve", "prove", "answer"}
  OBVIOUS
<1>4. d \in GateCommands
  BY <1>2, <1>3 DEF GateCommands
<1>5. q = "prove" => n \in 0..6
  OBVIOUS
<1> QED BY <1>2, <1>4, <1>5 DEF GateCommands

LEMMA ProveKeeps ==
    ASSUME GatesInv, Gated!GatesAssumption, Gated!Prove
    PROVE  GatesInv'
<1> PICK passes \in BOOLEAN : /\ passes = (IF Gated!Hook = "budget_gate" THEN command.gate # None
                                                                       ELSE command.id # None)
  OBVIOUS
<1>1. /\ command.pc = "prove" /\ command \in GateCommands /\ command.k \in 0..6
      /\ Gated!Proof(passes) /\ command' = Gated!Passed(passes)
      /\ UNCHANGED <<kernel, verified, events, reference, latest, decision, torn, clock, ops, crashes>>
  BY DEF Gated!Prove, GatesInv, ArtifactsInv
<1>2. Gated!Hook \in HookNames
  <2>1. command.k + 1 \in 1..7
    BY <1>1
  <2> QED BY <2>1, HookFacts DEF Gated!Hook
<1> PICK d : d = Gated!Passed(passes)
  OBVIOUS
<1> QED BY <1>1, <1>2, PassedFields, ProofStep

LEMMA ProveGatesKeeps ==
    ASSUME GatesInv, Gated!GatesAssumption, Gated!ProveGates
    PROVE  GatesInv'
<1>1. /\ command.pc = "prove" /\ command \in GateCommands /\ command.k \in 0..6
      /\ UNCHANGED <<kernel, verified, events, reference, latest, decision, torn, clock, ops, crashes>>
  BY DEF Gated!ProveGates, GatesInv, ArtifactsInv
<1>2. Gated!Hook \in HookNames
  <2>1. command.k + 1 \in 1..7
    BY <1>1
  <2> QED BY <2>1, HookFacts DEF Gated!Hook
<1>3. CASE command' = Gated!Passed(FALSE) /\ Gated!Proof(FALSE)
  <2> PICK d : d = Gated!Passed(FALSE)
    OBVIOUS
  <2> QED BY <1>1, <1>2, <1>3, PassedFields, ProofStep
<1>4. ASSUME NEW r \in Gated!Replies, command' = [Gated!Passed(TRUE) EXCEPT !.gate = r],
             Gated!Proof(TRUE)
      PROVE  GatesInv'
  <2> PICK c : c = Gated!Passed(TRUE)
    OBVIOUS
  <2>1. /\ c \in GateCommands /\ c.pc \in {"prove", "answer"} /\ (c.pc = "prove" => c.k \in 0..6)
        /\ c.op = command.op /\ c.hash = command.hash
        /\ c.free = command.free /\ c.accused = command.accused
        /\ c.passed = IF TRUE THEN command.passed \cup {Gated!Hook} ELSE command.passed
    BY <1>1, <1>2, PassedFields
  <2> DEFINE d == [c EXCEPT !.gate = r]
  <2>2. /\ d \in GateCommands /\ d.pc = c.pc /\ d.k = c.k /\ d.op = c.op /\ d.hash = c.hash
        /\ d.free = c.free /\ d.accused = c.accused /\ d.passed = c.passed
    BY <2>1, RepliesTrue DEF GateCommands
  <2>3. command' = d
    BY <1>4
  <2> HIDE DEF d
  <2> QED BY <1>1, <1>4, <2>1, <2>2, <2>3, ProofStep
<1> QED BY <1>3, <1>4 DEF Gated!ProveGates

\* The answer names the hooks whose artifacts the verification has written.
LEMMA AnswerKeeps ==
    ASSUME GatesInv, Gated!GatesAssumption, Gated!Answer
    PROVE  GatesInv'
<1>1. /\ command.pc = "answer" /\ command' = Gated!Idle /\ ops \in Nat
      /\ verified'.n = ops /\ verified'.passed = command.passed
      /\ proofs \in [HookNames -> 0..ops] /\ {h \in HookNames : proofs[h] = ops} = command.passed
      /\ UNCHANGED <<kernel, proofs, events, reference, latest, decision, torn, clock, ops, crashes>>
  BY DEF Gated!Answer, GatesInv, ArtifactsInv, Gated!GatesAssumption
<1>2. verified'.n \in Nat /\ verified.n \in Nat
  BY <1>1 DEF GatesInv, ArtifactsInv
<1>3. /\ Gated!Idle \in GateCommands /\ Gated!Idle.pc = "idle" /\ AskedInv(Gated!Idle, kernel)
      /\ LinesInv(Gated!Idle, events, reference)
  BY <1>2, IdleGates
<1>4. ArtifactsInv(Gated!Idle, proofs, verified', ops)
  BY <1>1, <1>3 DEF ArtifactsInv
<1>5. ToldInv'
  BY <1>1 DEF GatesInv, ToldInv, Gated!RestrictedIsRefused, Gated!RefusedForCause, Gated!ClearIsClear,
     Gated!PreflightTold, Gated!ComparisonOfOne
<1> QED BY <1>1, <1>3, <1>4, <1>5 DEF GatesInv

\* The kernel changes: a command at work remembers what it was.
LEMMA KernelKeeps ==
    ASSUME GatesInv, Gated!GatesAssumption, Gated!Kernel
    PROVE  GatesInv'
<1>1. /\ clock' = clock + 1 /\ clock < Time["gates"] /\ clock \in Nat /\ Time["gates"] \in Nat
      /\ kernel \in [court : Sentences, snapshot : Sentences] /\ command \in GateCommands
      /\ UNCHANGED <<proofs, verified, events, reference, latest, decision, torn, ops, crashes>>
  BY DEF Gated!Kernel, Gated!files, GatesInv, Gated!GatesAssumption
<1>2. kernel' \in [court : Sentences, snapshot : Sentences] /\ clock' \in 0..Time["gates"]
  BY <1>1 DEF Gated!Kernel
<1>3. CASE command.pc = "idle"
  <2>1. command' = command /\ command = Gated!Idle /\ verified.n \in Nat
    BY <1>3 DEF Gated!Kernel, GatesInv, ArtifactsInv
  <2>2. AskedInv(command, kernel')
    BY <2>1, IdleGates
  <2> QED BY <1>1, <1>2, <1>3, <2>1, <2>2, QuietGates DEF GatesInv
<1>4. CASE command.pc # "idle"
  <2> PICK f \in BOOLEAN, a \in BOOLEAN :
        /\ f = (command.free \/ kernel'.court \cap Gated!Blocking = {})
        /\ a = (command.accused \/ (kernel'.court \cup kernel'.snapshot) \cap Gated!Blocking # {})
    OBVIOUS
  <2> DEFINE d == [command EXCEPT !.free = f, !.accused = a]
  <2>1. command' = d
    BY <1>4, Zenon DEF Gated!Kernel, Gated!Sees
  <2>2. /\ d \in GateCommands /\ d.pc = command.pc /\ d.k = command.k /\ d.op = command.op
        /\ d.hash = command.hash /\ d.id = command.id /\ d.gate = command.gate
        /\ d.passed = command.passed /\ d.audit = command.audit /\ d.free = f /\ d.accused = a
    BY <1>1 DEF GateCommands
  <2> HIDE DEF d
  <2>3. /\ (command.free => f) /\ (command.accused => a)
        /\ (kernel'.court \cap Gated!Blocking = {} => f)
        /\ ((kernel'.court \cup kernel'.snapshot) \cap Gated!Blocking # {} => a)
    OBVIOUS
  <2>4. AskedInv(d, kernel')
    BY <2>2, <2>3 DEF GatesInv, AskedInv
  <2>5. LinesInv(d, events, reference) /\ ArtifactsInv(d, proofs, verified, ops)
    BY <2>2 DEF GatesInv, LinesInv, OwnLines, ArtifactsInv
  <2> QED BY <1>1, <1>2, <1>4, <2>1, <2>2, <2>4, <2>5, QuietGates DEF GatesInv
<1> QED BY <1>3, <1>4

\* A death empties at most the file that was being written.
LEMMA CrashTornKeeps ==
    ASSUME GatesInv, Gated!GatesAssumption, Gated!CrashTorn
    PROVE  GatesInv'
<1>1. /\ command' = Gated!Idle /\ crashes' = crashes + 1 /\ crashes < Crashes["gates"]
      /\ UNCHANGED <<kernel, proofs, verified, clock, ops>>
      /\ \/ events' = <<>> /\ torn' = TRUE /\ UNCHANGED <<reference, latest, decision>>
         \/ reference' = <<>> /\ UNCHANGED <<events, latest, decision, torn>>
         \/ latest' = [kind |-> "torn"] /\ UNCHANGED <<events, reference, decision, torn>>
         \/ decision' = None /\ UNCHANGED <<events, reference, latest, torn>>
  BY DEF Gated!CrashTorn
<1>2. crashes' \in 0..Crashes["gates"]
  BY <1>1 DEF GatesInv, Gated!GatesAssumption
<1>3. /\ events' \in Seq(GateLines) /\ reference' \in Seq(GateLines) /\ torn' \in BOOLEAN
      /\ (reference' = <<>> \/ Len(reference') = 7)
  <2>1. <<>> \in Seq(GateLines)
    OBVIOUS
  <2>2. events' \in Seq(GateLines) /\ torn' \in BOOLEAN
    BY <1>1, <2>1 DEF GatesInv
  <2>3. reference' \in Seq(GateLines) /\ (reference' = <<>> \/ Len(reference') = 7)
    BY <1>1, <2>1 DEF GatesInv
  <2> QED BY <2>2, <2>3
<1>4. AloneInv(events', reference')
  <2>1. CASE events' = <<>>
    BY <2>1 DEF AloneInv, HooksInOrder
  <2>2. CASE UNCHANGED events /\ (reference' = <<>> \/ UNCHANGED reference)
    BY <2>2 DEF GatesInv, AloneInv
  <2> QED BY <1>1, <2>1, <2>2
<1>5. ToldInv'
  <2>1. CASE events' = <<>> /\ torn' = TRUE /\ UNCHANGED <<reference, latest, decision>>
    BY <2>1 DEF GatesInv, ToldInv, Gated!RestrictedIsRefused, Gated!RefusedForCause, Gated!ClearIsClear,
       Gated!PreflightTold, Gated!ComparisonOfOne
  <2>2. CASE reference' = <<>> /\ UNCHANGED <<events, latest, decision, torn>>
    BY <2>2 DEF GatesInv, ToldInv, Gated!RestrictedIsRefused, Gated!RefusedForCause, Gated!ClearIsClear,
       Gated!PreflightTold, Gated!ComparisonOfOne
  <2>3. CASE latest' = [kind |-> "torn"] /\ UNCHANGED <<events, reference, decision, torn>>
    <3>1. latest'.kind = "torn"
      BY <2>3
    <3> QED BY <2>3, <3>1 DEF GatesInv, ToldInv, Gated!RestrictedIsRefused, Gated!RefusedForCause,
               Gated!ClearIsClear, Gated!PreflightTold, Gated!ComparisonOfOne
  <2>4. CASE decision' = None /\ UNCHANGED <<events, reference, latest, torn>>
    BY <2>4 DEF GatesInv, ToldInv, Gated!RestrictedIsRefused, Gated!RefusedForCause, Gated!ClearIsClear,
       Gated!PreflightTold, Gated!ComparisonOfOne
  <2> QED BY <1>1, <2>1, <2>2, <2>3, <2>4
<1>6. verified.n \in Nat /\ ArtifactsInv(command, proofs, verified, ops)
  BY DEF GatesInv, ArtifactsInv, Gated!GatesAssumption
<1>7. /\ Gated!Idle \in GateCommands /\ AskedInv(Gated!Idle, kernel)
      /\ LinesInv(Gated!Idle, events', reference') /\ ArtifactsInv(Gated!Idle, proofs, verified, ops)
  BY <1>6, IdleGates
<1> QED BY <1>1, <1>2, <1>3, <1>4, <1>7, <1>5 DEF GatesInv

LEMMA GatesKept ==
    ASSUME GatesInv, Gated!GatesAssumption,
           Gated!Next \/ UNCHANGED <<gating, command, clock, ops, crashes, torn>>
    PROVE  GatesInv'
<1>1. CASE UNCHANGED <<gating, command, clock, ops, crashes, torn>>
  <2>1. ToldInv'
    BY <1>1 DEF gating, GatesInv, ToldInv, Gated!RestrictedIsRefused, Gated!RefusedForCause,
       Gated!ClearIsClear, Gated!PreflightTold, Gated!ComparisonOfOne
  <2> QED BY <1>1, <2>1 DEF gating, GatesInv
<1>2. CASE Gated!Crash
  <2>1. crashes' \in 0..Crashes["gates"]
    BY <1>2 DEF Gated!Crash, GatesInv, Gated!GatesAssumption
  <2> QED BY <1>2, <2>1, EndsGates DEF Gated!Crash, Gated!files
<1> QED BY <1>1, <1>2, CommandKeeps, ResolveKeeps, EnvelopeKeeps, GateKeeps, DecideKeeps, EmitKeeps,
           AuditPreviewKeeps, WriteReferenceKeeps, EmitLastKeeps, ReportKeeps, CompareKeeps,
           ProveKeeps, ProveGatesKeeps, AnswerKeeps, KernelKeeps, CrashTornKeeps DEF Gated!Next

-----------------------------------------------------------------------------
(* Parity.                                                                 *)

\* The steps of an execution after each of its streams, and after its worker.
AfterComparison == {"execution", "parity_latest", "job"}
AfterEvent == {"comparison", "comparison_latest", "comparison_stream"} \cup AfterComparison
AfterParity == {"event", "event_latest", "event_stream"} \cup AfterEvent
AfterAudit == {"parity_stream"} \cup AfterParity
AfterReference == {"audit"} \cup AfterAudit
AfterProbe == {"reference", "reference_latest", "reference_stream"} \cup AfterReference
AfterWorker == {"probe", "probe_latest", "probe_stream"} \cup AfterProbe
RunSteps == {"decision", "worker"} \cup AfterWorker
CaptureSteps == {"shadow_execution", "shadow_latest", "parity_latest", "shadow_stream"}

\* How many files of its chain an execution has written at each of its steps, and the
\* streams that have its lines.
Through(pc) ==
    CASE pc = "decision" -> 0
      [] pc \in {"worker", "probe", "probe_latest", "probe_stream", "reference"} -> 1
      [] pc = "reference_latest" -> 2
      [] pc \in {"reference_stream", "audit", "parity_stream", "event"} -> 3
      [] pc = "event_latest" -> 4
      [] pc \in {"event_stream", "comparison"} -> 5
      [] pc = "comparison_latest" -> 6
      [] pc \in {"comparison_stream", "execution"} -> 7
      [] pc = "parity_latest" -> 8
      [] pc = "job" -> 9
ToldBy(pc) ==
    (IF pc \in AfterProbe THEN {"probe_stream"} ELSE {})
      \cup (IF pc \in AfterReference THEN {"reference_stream"} ELSE {})
      \cup (IF pc \in AfterAudit THEN {"audit"} ELSE {})
      \cup (IF pc \in AfterParity THEN {"parity_stream"} ELSE {})
      \cup (IF pc \in AfterEvent THEN {"event_stream"} ELSE {})
      \cup (IF pc \in AfterComparison THEN {"comparison_stream"} ELSE {})

\* An execution's outcome is one its decision may have, once the worker has answered.
Executed == {x \in Told!Executions : x.overall \in Told!Overalls(x.reference)
                                      /\ x.outcome \in Told!Outcomes(x.overall) \cup {"none"}}
Records == Executed \cup Told!Captures

\* The first k files of an execution tell of it, the later ones all that is known of it.
Wrote(ev, x, k) ==
    /\ k > 0 => ev[Told!Of("decision")].n = x.n
    /\ \A i \in 2..k : ev[Told!Chain(x.hash)[i]] = x
    /\ x.probed => ev[<<"probe", x.hash>>].n = x.n

\* What an execution or a shadow run at work has written.
WritesInv(c) ==
    /\ c \in [pc : RunSteps \cup CaptureSteps, k : 0..4, x : Records] 
    /\ c.x.n = ops /\ ops > 0 /\ c.x.whole
    /\ c.x.kind = "run" =>
         /\ c.pc \in RunSteps
         /\ c.pc \in AfterWorker => c.x.outcome # "none"
         /\ c.x.probed => c.pc \in AfterWorker \ {"probe"}
         /\ Wrote(evidence, c.x, Through(c.pc))
         /\ c.pc # "decision" => evidence[Told!Of("decision")] # None
         /\ \A s \in ToldBy(c.pc) : Told!Told(s, c.x.n)
         /\ c.pc \notin AfterAudit => c.k = 0
         /\ c.pc = "parity_stream" => c.k < 4 /\
              \A i \in 1..c.k : <<c.x.n, i>> \in streams["parity_stream"].lines
    /\ c.x.kind = "shadow" =>
         /\ c.pc \in CaptureSteps
         /\ c.pc # "shadow_execution" => evidence[Told!Of("execution")] # None
         /\ c.pc = "shadow_stream" => evidence[Told!Of("parity_latest")] = c.x

\* What the files tell, whoever is at work.
EvidenceInv ==
    /\ evidence \in [Told!Files -> Records \cup {None}]
    /\ \A f \in Told!Files : evidence[f] # None => evidence[f].n \in 1..ops
    /\ streams \in [Told!Streams -> [lines : SUBSET ((1..ops) \X (1..4)), lost : 0..ops]]
    /\ \A k \in Told!Kept, h \in GateActions : LET x == evidence[<<k, h>>] IN x # None =>
         /\ x.kind = "run" /\ x.hash = h
         /\ k = "comparison" => x.outcome # "none"
         /\ k \in {"event", "comparison", "job"} => evidence[Told!Of("reference_latest")] # None
         /\ k = "job" => evidence[<<"event", h>>] # None
    /\ \A f \in Told!Files : evidence[f] # None =>
         evidence[Told!Of("decision")] # None \/ evidence[Told!Of("execution")] # None
    /\ Told!EvidenceLeads

\* The last run, if it was an execution and has written its last file, has written all.
LastInv == command.pc = "idle" /\ ~dead =>
    LET x == evidence[Told!Of("parity_latest")] IN
    x # None /\ x.kind = "run" /\ x.n = ops => Wrote(evidence, x, 10)

\* The inductive invariant.
ParityInv ==
    /\ ops \in 0..Ops["parity"] /\ crashes \in 0..Crashes["parity"] /\ dead \in BOOLEAN
    /\ command = Told!Idle \/ WritesInv(command)
    /\ EvidenceInv /\ LastInv

\* The files of a chain, one by one.
LEMMA ChainFacts ==
    ASSUME NEW h \in GateActions
    PROVE  /\ Told!Chain(h)[1] = Told!Of("decision") /\ Told!Chain(h)[2] = <<"reference", h>>
           /\ Told!Chain(h)[3] = Told!Of("reference_latest") /\ Told!Chain(h)[4] = <<"event", h>>
           /\ Told!Chain(h)[5] = Told!Of("event_latest") /\ Told!Chain(h)[6] = <<"comparison", h>>
           /\ Told!Chain(h)[7] = Told!Of("comparison_latest") /\ Told!Chain(h)[8] = Told!Of("execution")
           /\ Told!Chain(h)[9] = Told!Of("parity_latest") /\ Told!Chain(h)[10] = <<"job", h>>
           /\ \A i \in 1..10 :
                /\ Told!Chain(h)[i] \in Told!Files
                /\ Told!Chain(h)[i] # <<"probe", h>> /\ Told!Chain(h)[i] # Told!Of("probe_latest")
           /\ \A i, j \in 1..10 : Told!Chain(h)[i] = Told!Chain(h)[j] => i = j
<1>1. /\ Told!Chain(h)[1] = Told!Of("decision") /\ Told!Chain(h)[2] = <<"reference", h>>
      /\ Told!Chain(h)[3] = Told!Of("reference_latest") /\ Told!Chain(h)[4] = <<"event", h>>
      /\ Told!Chain(h)[5] = Told!Of("event_latest") /\ Told!Chain(h)[6] = <<"comparison", h>>
      /\ Told!Chain(h)[7] = Told!Of("comparison_latest") /\ Told!Chain(h)[8] = Told!Of("execution")
      /\ Told!Chain(h)[9] = Told!Of("parity_latest") /\ Told!Chain(h)[10] = <<"job", h>>
  BY DEF Told!Chain
<1>2. \A i \in 1..10 : i \in {1, 2, 3, 4, 5, 6, 7, 8, 9, 10}
  OBVIOUS
<1>3. \A i \in 1..10 :
        /\ Told!Chain(h)[i] \in Told!Files
        /\ Told!Chain(h)[i] # <<"probe", h>> /\ Told!Chain(h)[i] # Told!Of("probe_latest")
  BY <1>1, <1>2 DEF Told!Of, Told!Files, Told!Latest, Told!Kept
<1> DEFINE kind(i) == Told!Chain(h)[i][1]
<1>4. /\ kind(1) = "decision" /\ kind(2) = "reference" /\ kind(3) = "reference_latest"
      /\ kind(4) = "event" /\ kind(5) = "event_latest" /\ kind(6) = "comparison"
      /\ kind(7) = "comparison_latest" /\ kind(8) = "execution" /\ kind(9) = "parity_latest"
      /\ kind(10) = "job"
  BY <1>1 DEF Told!Of
<1>5. \A i, j \in 1..10 : Told!Chain(h)[i] = Told!Chain(h)[j] => kind(i) = kind(j)
  OBVIOUS
<1> HIDE DEF kind
<1>6. \A i, j \in 1..10 : kind(i) = kind(j) => i = j
  BY <1>2, <1>4
<1> QED BY <1>1, <1>3, <1>5, <1>6

\* Those of them that are kept for the action.
LEMMA ChainKept ==
    ASSUME NEW h \in GateActions, NEW j \in 1..10, NEW k \in Told!Kept, NEW g,
           Told!Chain(h)[j] = <<k, g>>
    PROVE  /\ g = h
           /\ \/ (j = 2 /\ k = "reference") \/ (j = 4 /\ k = "event")
              \/ (j = 6 /\ k = "comparison") \/ (j = 10 /\ k = "job")
<1>1. j \in {1, 2, 3, 4, 5, 6, 7, 8, 9, 10}
  OBVIOUS
<1>2. CASE j \in {1, 3, 5, 7, 8, 9}
  <2>1. \E p \in Told!Latest : Told!Chain(h)[j] = <<p, None>>
    BY <1>2, ChainFacts DEF Told!Of, Told!Latest
  <2> QED BY <2>1 DEF Told!Latest, Told!Kept
<1>3. CASE j \in {2, 4, 6, 10}
  <2>1. \/ (j = 2 /\ <<"reference", h>> = <<k, g>>) \/ (j = 4 /\ <<"event", h>> = <<k, g>>)
        \/ (j = 6 /\ <<"comparison", h>> = <<k, g>>) \/ (j = 10 /\ <<"job", h>> = <<k, g>>)
    BY <1>3, ChainFacts
  <2> QED BY <2>1
<1> QED BY <1>1, <1>2, <1>3

\* The records a file may hold.
LEMMA RecordFacts ==
    ASSUME Told!ParityAssumption
    PROVE  /\ None \notin Records
           /\ \A x \in Records : x.n \in Nat /\ x.whole \in BOOLEAN /\ x.kind \in {"run", "shadow"}
           /\ \A x \in Records : x.kind = "run" => x \in Executed
           /\ \A x \in Executed : x.hash \in GateActions
           /\ \A x \in Records : [x EXCEPT !.whole = FALSE] \in Records
<1>1. \A x \in Executed : [x EXCEPT !.whole = FALSE] \in Executed
  BY DEF Executed, Told!Executions
<1>2. \A x \in Told!Captures : [x EXCEPT !.whole = FALSE] \in Told!Captures
  BY DEF Told!Captures
<1>3. None \notin Records
  BY DEF Records, Executed, Told!ParityAssumption
<1>4. \A x \in Executed : x.n \in Nat /\ x.whole \in BOOLEAN /\ x.kind = "run" /\ x.hash \in GateActions
  BY DEF Executed, Told!Executions
<1>5. \A x \in Told!Captures : x.n \in Nat /\ x.whole \in BOOLEAN /\ x.kind = "shadow"
  BY DEF Told!Captures
<1> QED BY <1>1, <1>2, <1>3, <1>4, <1>5 DEF Records

\* A file written: of the run at work, after the files and streams it leads to.
LEMMA EvidencePut ==
    ASSUME EvidenceInv, Told!ParityAssumption, ops \in Nat, ops > 0,
           NEW f \in Told!Files, NEW x \in Records, x.n = ops,
           evidence' = [evidence EXCEPT ![f] = x], UNCHANGED <<streams, ops>>,
           \A k \in Told!Kept, h \in GateActions : f = <<k, h>> =>
             /\ x.kind = "run" /\ x.hash = h
             /\ k = "comparison" => x.outcome # "none"
             /\ k \in {"event", "comparison", "job"} => evidence[Told!Of("reference_latest")] # None
             /\ k = "job" => evidence[<<"event", h>>] # None,
           \/ f \in {Told!Of("decision"), Told!Of("execution")}
           \/ evidence[Told!Of("decision")] # None \/ evidence[Told!Of("execution")] # None,
           \A h \in GateActions : \A j \in 1..10 :
             f = Told!Chain(h)[j] /\ x.whole /\ x.kind = "run" /\ x.hash = h =>
               /\ \A i \in 1..(j - 1) : /\ evidence[Told!Chain(h)[i]] # None
                                        /\ evidence[Told!Chain(h)[i]].n = x.n
               /\ \A s \in Told!Before(j) : Told!Told(s, x.n)
    PROVE  EvidenceInv'
<1>1. /\ evidence' \in [Told!Files -> Records \cup {None}] /\ x # None
      /\ \A g \in Told!Files : evidence'[g] = IF g = f THEN x ELSE evidence[g]
  BY RecordFacts DEF EvidenceInv
<1>2. \A g \in Told!Files : evidence'[g] # None => evidence'[g].n \in 1..ops'
  BY <1>1 DEF EvidenceInv
<1>3. \A k \in Told!Kept, h \in GateActions : <<k, h>> \in Told!Files /\ <<"event", h>> \in Told!Files
  BY DEF Told!Files, Told!Kept
<1>4. \A k \in Told!Latest : Told!Of(k) \in Told!Files
  BY DEF Told!Files, Told!Of
<1>5. \A g \in Told!Files : evidence[g] # None => evidence'[g] # None /\ evidence'[g].n >= evidence[g].n
  BY <1>1 DEF EvidenceInv
<1>6. ASSUME NEW k \in Told!Kept, NEW h \in GateActions, evidence'[<<k, h>>] # None
      PROVE  /\ evidence'[<<k, h>>].kind = "run" /\ evidence'[<<k, h>>].hash = h
             /\ k = "comparison" => evidence'[<<k, h>>].outcome # "none"
             /\ k \in {"event", "comparison", "job"} => evidence'[Told!Of("reference_latest")] # None
             /\ k = "job" => evidence'[<<"event", h>>] # None
  <2>1. Told!Of("reference_latest") \in Told!Files
    BY <1>4 DEF Told!Latest
  <2> QED BY <1>1, <1>3, <1>5, <1>6, <2>1 DEF EvidenceInv
<1>7. \A g \in Told!Files : evidence'[g] # None =>
         evidence'[Told!Of("decision")] # None \/ evidence'[Told!Of("execution")] # None
  <2>1. Told!Of("decision") \in Told!Files /\ Told!Of("execution") \in Told!Files
    BY <1>4 DEF Told!Latest
  <2> QED BY <1>1, <1>5, <2>1 DEF EvidenceInv
<1>8. ASSUME NEW h \in GateActions, NEW j \in 1..10, NEW g, g = Told!Chain(h)[j],
             evidence'[g] # None, evidence'[g].whole, evidence'[g].kind = "run", evidence'[g].hash = h,
             NEW n, n = evidence'[g].n
      PROVE  /\ \A i \in 1..(j - 1) : /\ evidence'[Told!Chain(h)[i]] # None
                                      /\ evidence'[Told!Chain(h)[i]].n >= n
             /\ \A s \in Told!Before(j) : Told!Told(s, n)'
  <2>1. \A i \in 1..10 : Told!Chain(h)[i] \in Told!Files
    BY ChainFacts
  <2>2. n \in Nat
    BY <1>2, <1>8, <2>1
  <2>3. \A s : Told!Told(s, n)' <=> Told!Told(s, n)
    BY DEF Told!Told
  <2>4. CASE g = f
    <3>1. evidence'[g] = x
      BY <1>1, <2>4
    <3>2. f = Told!Chain(h)[j] /\ x.whole /\ x.kind = "run" /\ x.hash = h
      BY <1>8, <2>4, <3>1, Zenon
    <3>3. \A i \in 1..(j - 1) : evidence[Told!Chain(h)[i]] # None /\ evidence[Told!Chain(h)[i]].n = x.n
      BY <3>2, ZenonT(30)
    <3>4. \A i \in 1..(j - 1) : Told!Chain(h)[i] \in Told!Files
      BY <2>1
    <3>5. \A s \in Told!Before(j) : Told!Told(s, x.n)
      BY <3>2, ZenonT(30)
    <3>6. \A i \in 1..(j - 1) : evidence'[Told!Chain(h)[i]].n \in Nat
      BY <1>2, <1>5, <3>3, <3>4
    <3> QED BY <1>5, <1>8, <2>3, <3>3, <3>4, <3>5, <3>1, <3>6, <2>2
  <2>5. CASE g # f
    <3>1. evidence'[g] = evidence[g] /\ g \in Told!Files
      BY <1>1, <1>8, <2>1, <2>5
    <3>2. /\ \A i \in 1..(j - 1) : /\ evidence[Told!Chain(h)[i]] # None
                                   /\ evidence[Told!Chain(h)[i]].n >= evidence[g].n
          /\ \A s \in Told!Before(j) : Told!Told(s, evidence[g].n)
      <4>1. Told!Whole(g) /\ evidence[g].kind = "run" /\ evidence[g].hash = h
        BY <1>8, <3>1 DEF Told!Whole
      <4>2. Told!EvidenceLeads
        BY DEF EvidenceInv
      <4> QED BY <1>8, <4>1, <4>2, ZenonT(30) DEF Told!EvidenceLeads
    <3>3. \A i \in 1..(j - 1) : Told!Chain(h)[i] \in Told!Files
      BY <2>1
    <3>4. \A i \in 1..(j - 1) : evidence'[Told!Chain(h)[i]].n \in Nat /\ evidence[Told!Chain(h)[i]].n \in Nat
      BY <1>2, <1>5, <3>2, <3>3 DEF EvidenceInv
    <3> QED BY <1>5, <1>8, <2>2, <2>3, <3>1, <3>2, <3>3, <3>4
  <2> QED BY <2>4, <2>5
<1>9. Told!EvidenceLeads'
  BY <1>8 DEF Told!EvidenceLeads, Told!Whole
<1> QED BY <1>1, <1>2, <1>6, <1>7, <1>9 DEF EvidenceInv

\* A stream written, or lost as a whole to a death.
LEMMA EvidenceAppended ==
    ASSUME EvidenceInv, ops \in Nat, UNCHANGED <<evidence, ops>>,
           streams' \in [Told!Streams -> [lines : SUBSET ((1..ops) \X (1..4)), lost : 0..ops]],
           \A s \in Told!Streams, n \in 0..ops : Told!Told(s, n) => Told!Told(s, n)'
    PROVE  EvidenceInv'
<1>1. ASSUME NEW h \in GateActions, NEW j \in 1..10, NEW f, f = Told!Chain(h)[j], Told!Whole(f),
             evidence[f].kind = "run", evidence[f].hash = h, NEW s \in Told!Before(j)
      PROVE  Told!Told(s, evidence[f].n)'
  <2>1. Told!Told(s, evidence[f].n)
    BY <1>1 DEF EvidenceInv, Told!EvidenceLeads
  <2>2. evidence[f].n \in 0..ops
    BY <1>1, ChainFacts DEF EvidenceInv, Told!Whole
  <2>3. s \in Told!Streams
    BY <1>1 DEF Told!Before, Told!Streams
  <2> QED BY <2>1, <2>2, <2>3
<1>2. ASSUME NEW h \in GateActions, NEW j \in 1..10, NEW f, f = Told!Chain(h)[j], Told!Whole(f),
             evidence[f].kind = "run", evidence[f].hash = h
      PROVE  /\ \A i \in 1..(j - 1) : /\ evidence[Told!Chain(h)[i]] # None
                                      /\ evidence[Told!Chain(h)[i]].n >= evidence[f].n
             /\ \A s \in Told!Before(j) : Told!Told(s, evidence[f].n)'
  <2>1. Told!EvidenceLeads
    BY DEF EvidenceInv
  <2>2. \A i \in 1..(j - 1) : /\ evidence[Told!Chain(h)[i]] # None
                              /\ evidence[Told!Chain(h)[i]].n >= evidence[f].n
    BY <1>2, <2>1, ZenonT(30) DEF Told!EvidenceLeads
  <2> QED BY <1>1, <1>2, <2>2, ZenonT(30)
<1>3. Told!EvidenceLeads'
  BY <1>2 DEF Told!EvidenceLeads, Told!Whole
<1> QED BY <1>3 DEF EvidenceInv

\* Where an execution stands at each of its steps.
LEMMA StepFacts ==
    /\ Through("decision") = 0 /\ Through("worker") = 1 /\ Through("probe") = 1
    /\ Through("probe_latest") = 1 /\ Through("probe_stream") = 1 /\ Through("reference") = 1
    /\ Through("reference_latest") = 2 /\ Through("reference_stream") = 3 /\ Through("audit") = 3
    /\ Through("parity_stream") = 3 /\ Through("event") = 3 /\ Through("event_latest") = 4
    /\ Through("event_stream") = 5 /\ Through("comparison") = 5 /\ Through("comparison_latest") = 6
    /\ Through("comparison_stream") = 7 /\ Through("execution") = 7 /\ Through("parity_latest") = 8
    /\ Through("job") = 9
<1> QED BY DEF Through

LEMMA StreamFacts ==
    /\ \A p \in {"decision", "worker", "probe", "probe_latest", "probe_stream"} : ToldBy(p) = {}
    /\ \A p \in {"reference", "reference_latest", "reference_stream"} : ToldBy(p) = {"probe_stream"}
    /\ ToldBy("audit") = ToldBy("reference_stream") \cup {"reference_stream"}
    /\ ToldBy("parity_stream") = ToldBy("audit") \cup {"audit"}
    /\ ToldBy("event") = ToldBy("parity_stream") \cup {"parity_stream"}
    /\ ToldBy("event_latest") = ToldBy("event") /\ ToldBy("event_stream") = ToldBy("event")
    /\ ToldBy("comparison") = ToldBy("event") \cup {"event_stream"}
    /\ ToldBy("comparison_latest") = ToldBy("comparison")
    /\ ToldBy("comparison_stream") = ToldBy("comparison")
    /\ ToldBy("execution") = ToldBy("comparison") \cup {"comparison_stream"}
    /\ ToldBy("parity_latest") = ToldBy("execution") /\ ToldBy("job") = ToldBy("execution")
    /\ \A p \in RunSteps : Told!Before(Through(p) + 1) \subseteq ToldBy(p) \/ p \in
         {"worker", "probe", "probe_latest", "probe_stream", "reference_stream", "audit",
          "parity_stream", "event_stream", "comparison_stream"}
<1>1. \A p \in RunSteps : Told!Before(Through(p) + 1) \subseteq ToldBy(p) \/ p \in
         {"worker", "probe", "probe_latest", "probe_stream", "reference_stream", "audit",
          "parity_stream", "event_stream", "comparison_stream"}
  BY StepFacts DEF RunSteps, ToldBy, Told!Before, AfterComparison, AfterEvent, AfterParity, AfterAudit,
     AfterReference, AfterProbe, AfterWorker
<1> QED BY <1>1 DEF ToldBy, AfterComparison, AfterEvent, AfterParity, AfterAudit, AfterReference,
              AfterProbe, AfterWorker

\* The file an execution writes next, whole or not.
LEMMA ChainPut ==
    ASSUME EvidenceInv, Told!ParityAssumption, ops \in Nat, ops > 0,
           NEW c, WritesInv(c), c.x.kind = "run", c.pc \in AfterWorker \cup {"decision"},
           NEW j \in 1..10, j = Through(c.pc) + 1, Told!Before(j) \subseteq ToldBy(c.pc),
           NEW y, y = c.x \/ y = [c.x EXCEPT !.whole = FALSE],
           evidence' = [evidence EXCEPT ![Told!Chain(c.x.hash)[j]] = y], UNCHANGED <<streams, ops>>
    PROVE  EvidenceInv' /\ (y = c.x => Wrote(evidence', c.x, j) /\ evidence'[Told!Of("decision")] # None)
<1> PICK h \in GateActions : h = c.x.hash
  BY RecordFacts DEF WritesInv
<1>1. /\ c.x \in Executed /\ y \in Records /\ y.n = ops /\ y.kind = "run" /\ y.hash = h
      /\ y.outcome = c.x.outcome /\ (y.whole => y = c.x) /\ c.x.n = ops
      /\ y # None
  <2>1. c.x \in Executed /\ c.x \in Records
    BY RecordFacts DEF WritesInv
  <2> QED BY <2>1, RecordFacts DEF WritesInv, Executed, Told!Executions
<1> PICK f : f = Told!Chain(h)[j]
  OBVIOUS
<1>2. Wrote(evidence, c.x, j - 1) /\ (j # 1 => evidence[Told!Of("decision")] # None)
  <2>1. Through(c.pc) = j - 1
    BY StepFacts DEF AfterWorker, AfterProbe, AfterReference, AfterAudit, AfterParity, AfterEvent,
       AfterComparison
  <2> QED BY <2>1, StepFacts DEF WritesInv
<1>3. \A i \in 1..(j - 1) : evidence[Told!Chain(h)[i]] # None /\ evidence[Told!Chain(h)[i]].n = c.x.n
  <2>1. ASSUME NEW i \in 1..(j - 1), i # 1
        PROVE  evidence[Told!Chain(h)[i]] = c.x
    BY <1>2, <2>1 DEF Wrote
  <2>2. c.x # None
    BY <1>1, RecordFacts DEF WritesInv
  <2> QED BY <1>2, <2>1, <2>2, ChainFacts DEF Wrote
<1>4. ASSUME NEW k \in Told!Kept, NEW g \in GateActions, f = <<k, g>>
      PROVE  /\ h = g
             /\ k = "comparison" => y.outcome # "none"
             /\ k \in {"event", "comparison", "job"} => evidence[Told!Of("reference_latest")] # None
             /\ k = "job" => evidence[<<"event", g>>] # None
  <2>1. Told!Chain(h)[j] = <<k, g>>
    BY <1>4
  <2>2. /\ h = g
        /\ \/ (j = 2 /\ k = "reference") \/ (j = 4 /\ k = "event")
           \/ (j = 6 /\ k = "comparison") \/ (j = 10 /\ k = "job")
    <3>1. \A i \in 1..10 : \A m \in Told!Kept : \A n : Told!Chain(h)[i] = <<m, n>> =>
            /\ n = h
            /\ \/ (i = 2 /\ m = "reference") \/ (i = 4 /\ m = "event")
               \/ (i = 6 /\ m = "comparison") \/ (i = 10 /\ m = "job")
      BY ChainKept
    <3> QED BY <2>1, <3>1
  <2>3. j = 6 => c.pc # "decision"
    BY StepFacts
  <2>4. y.outcome # "none" \/ j # 6
    BY <1>1, <2>3 DEF WritesInv
  <2>5. 3 \in 1..(j - 1) \/ j = 2
    BY <2>2
  <2>6. 4 \in 1..(j - 1) \/ j # 10
    BY <2>2
  <2> QED BY <1>3, <2>2, <2>4, <2>5, <2>6, ChainFacts
<1>5. EvidenceInv'
  <2>1. f \in Told!Files /\ (j = 1 => f = Told!Of("decision"))
    BY ChainFacts
  <2>2. \A s \in Told!Before(j) : Told!Told(s, c.x.n)
    BY DEF WritesInv
  <2>3. \A i \in 1..10 : f = Told!Chain(h)[i] => i = j
    BY ChainFacts
  <2>4. evidence' = [evidence EXCEPT ![f] = y]
    OBVIOUS
  <2>5. \A k \in Told!Kept, g \in GateActions : f = <<k, g>> =>
          /\ y.kind = "run" /\ y.hash = g
          /\ k = "comparison" => y.outcome # "none"
          /\ k \in {"event", "comparison", "job"} => evidence[Told!Of("reference_latest")] # None
          /\ k = "job" => evidence[<<"event", g>>] # None
    BY <1>1, <1>4
  <2>6. \A g \in GateActions : \A i \in 1..10 :
          f = Told!Chain(g)[i] /\ y.whole /\ y.kind = "run" /\ y.hash = g =>
            /\ \A n \in 1..(i - 1) : /\ evidence[Told!Chain(g)[n]] # None
                                     /\ evidence[Told!Chain(g)[n]].n = y.n
            /\ \A s \in Told!Before(i) : Told!Told(s, y.n)
    BY <1>1, <1>3, <2>2, <2>3
  <2>7. f \in {Told!Of("decision"), Told!Of("execution")} \/ evidence[Told!Of("decision")] # None
    BY <1>2, <2>1
  <2> QED BY <1>1, <2>1, <2>4, <2>5, <2>6, <2>7, EvidencePut, Zenon
<1>6. ASSUME y = c.x
      PROVE  Wrote(evidence', c.x, j) /\ evidence'[Told!Of("decision")] # None
  <2>1. /\ \A g \in Told!Files : g # f => evidence'[g] = evidence[g]
        /\ evidence'[f] = c.x /\ f \in Told!Files
    BY <1>6, ChainFacts DEF EvidenceInv
  <2>2. \A i \in 1..10 : i # j => Told!Chain(h)[i] # f /\ Told!Chain(h)[i] \in Told!Files
    BY ChainFacts
  <2>3. <<"probe", h>> \in Told!Files /\ <<"probe", h>> # f
    BY ChainFacts DEF Told!Files, Told!Kept
  <2>4. \A i \in 2..j : evidence'[Told!Chain(h)[i]] = c.x
    BY <1>2, <2>1, <2>2 DEF Wrote
  <2>5. evidence'[Told!Of("decision")].n = c.x.n /\ evidence'[Told!Of("decision")] # None
    <3>1. Told!Of("decision") = Told!Chain(h)[1]
      BY ChainFacts
    <3> QED BY <1>1, <1>2, <1>6, <2>1, <2>2, <3>1 DEF Wrote
  <2> QED BY <1>2, <2>1, <2>3, <2>4, <2>5 DEF Wrote
<1> QED BY <1>5, <1>6

\* What the steps keep that end a run, and those that let it go on.
LEMMA RunEnds ==
    ASSUME ParityInv, EvidenceInv', command' = Told!Idle, dead' = TRUE, ops' = ops,
           crashes' \in 0..Crashes["parity"]
    PROVE  ParityInv'
<1> QED BY DEF ParityInv, LastInv

LEMMA LeadsSame ==
    ASSUME Told!EvidenceLeads, evidence' = evidence, streams' = streams
    PROVE  Told!EvidenceLeads'
<1> QED BY DEF Told!EvidenceLeads, Told!Whole, Told!Told

LEMMA EvidenceSame ==
    ASSUME EvidenceInv, UNCHANGED <<evidence, streams>>, ops' = ops
    PROVE  EvidenceInv'
<1> QED BY LeadsSame DEF EvidenceInv

LEMMA RunFails ==
    ASSUME ParityInv, UNCHANGED <<evidence, streams, ops>>, command' = Told!Idle, dead' = TRUE,
           crashes' \in 0..Crashes["parity"]
    PROVE  ParityInv'
<1> QED BY EvidenceSame, RunEnds DEF ParityInv

LEMMA RunGoesOn ==
    ASSUME ParityInv, EvidenceInv', NEW d, command' = d, WritesInv(d)', ops' \in 0..Ops["parity"],
           dead' \in BOOLEAN, UNCHANGED crashes
    PROVE  ParityInv'
<1>1. d.pc # "idle"
  BY DEF WritesInv, RunSteps, CaptureSteps, AfterWorker, AfterProbe, AfterReference, AfterAudit,
     AfterParity, AfterEvent, AfterComparison
<1> QED BY <1>1 DEF ParityInv, LastInv

\* What every run at work is.
LEMMA AtWork ==
    ASSUME ParityInv, Told!ParityAssumption, command.pc # "idle"
    PROVE  /\ WritesInv(command) /\ EvidenceInv /\ ops \in Nat /\ ops > 0
           /\ command.x \in Records /\ command.x.n = ops /\ command.x.kind \in {"run", "shadow"}
           /\ command.x.kind = "run" => command.x.hash \in GateActions
           /\ ops \in 0..Ops["parity"] /\ crashes \in 0..Crashes["parity"] /\ dead \in BOOLEAN
<1>1. WritesInv(command) /\ ops \in Nat
  BY DEF ParityInv, Told!Idle, Told!ParityAssumption
<1>2. command.x \in Records /\ command.x.n = ops /\ ops > 0
  BY <1>1 DEF WritesInv
<1> QED BY <1>1, <1>2, RecordFacts DEF ParityInv

\* An execution writes the next file of its chain and goes on.
LEMMA RunPut ==
    ASSUME ParityInv, Told!ParityAssumption, command.pc # "idle", command.x.kind = "run",
           command.pc \in AfterWorker \cup {"decision"},
           NEW j \in 1..10, j = Through(command.pc) + 1, Told!Before(j) \subseteq ToldBy(command.pc),
           NEW next \in RunSteps, Through(next) = j, ToldBy(next) = ToldBy(command.pc),
           next # "parity_stream", next # "decision", next # "probe",
           next \in AfterWorker <=> command.pc \in AfterWorker,
           next \in AfterAudit <=> command.pc \in AfterAudit,
           Told!Put(Told!Chain(command.x.hash)[j], next)
    PROVE  ParityInv'
<1> PICK c : c = command
  OBVIOUS
<1>1. /\ WritesInv(c) /\ EvidenceInv /\ ops \in Nat /\ ops > 0 /\ c.x.n = ops
      /\ ops \in 0..Ops["parity"] /\ dead \in BOOLEAN
  BY AtWork
<1>2. /\ evidence' = [evidence EXCEPT ![Told!Chain(c.x.hash)[j]] = c.x]
      /\ command' = [c EXCEPT !.pc = next] /\ UNCHANGED <<streams, dead, ops, crashes>>
  BY DEF Told!Put
<1>3. EvidenceInv' /\ Wrote(evidence', c.x, j) /\ evidence'[Told!Of("decision")] # None
  BY <1>1, <1>2, ChainPut
<1> DEFINE d == [c EXCEPT !.pc = next]
<1>4. /\ d \in [pc : RunSteps \cup CaptureSteps, k : 0..4, x : Records]
      /\ d.pc = next /\ d.k = c.k /\ d.x = c.x
  BY <1>1 DEF WritesInv
<1> HIDE DEF d
<1>5. \A s \in ToldBy(next) : Told!Told(s, c.x.n)'
  BY <1>1, <1>2 DEF WritesInv, Told!Told
<1>6. WritesInv(d)'
  BY <1>1, <1>2, <1>3, <1>4, <1>5 DEF WritesInv
<1> QED BY <1>1, <1>2, <1>3, <1>6, RunGoesOn DEF d, ParityInv

\* An execution appends to a stream and goes on.
LEMMA StreamGrows ==
    ASSUME ParityInv, ops \in Nat, NEW s \in Told!Streams, NEW lines, lines \subseteq (1..ops) \X (1..4),
           streams' = [streams EXCEPT ![s].lines = @ \cup lines], UNCHANGED <<evidence, ops>>
    PROVE  /\ EvidenceInv'
           /\ \A t \in Told!Streams, n \in 0..ops : Told!Told(t, n) => Told!Told(t, n)'
           /\ streams'[s].lines = streams[s].lines \cup lines
<1> PICK r \in [lines : SUBSET ((1..ops) \X (1..4)), lost : 0..ops] : r = streams[s]
  BY DEF ParityInv, EvidenceInv
<1> DEFINE q == [r EXCEPT !.lines = @ \cup lines]
<1>1. /\ q \in [lines : SUBSET ((1..ops) \X (1..4)), lost : 0..ops]
      /\ q.lines = r.lines \cup lines /\ q.lost = r.lost
  OBVIOUS
<1>2. streams' = [streams EXCEPT ![s] = q]
  OBVIOUS
<1> HIDE DEF q
<1>3. /\ streams' \in [Told!Streams -> [lines : SUBSET ((1..ops) \X (1..4)), lost : 0..ops]]
      /\ streams'[s] = q /\ \A t \in Told!Streams : t # s => streams'[t] = streams[t]
  BY <1>1, <1>2 DEF ParityInv, EvidenceInv
<1>4. \A t \in Told!Streams, n \in 0..ops : Told!Told(t, n) => Told!Told(t, n)'
  BY <1>1, <1>3 DEF Told!Told
<1> QED BY <1>1, <1>3, <1>4, EvidenceAppended DEF ParityInv

LEMMA RunAppends ==
    ASSUME ParityInv, Told!ParityAssumption, command.pc # "idle", command.x.kind = "run",
           command.pc \in AfterWorker,
           NEW s \in Told!Streams \ {"parity_stream"},
           NEW next \in AfterWorker \ {"probe"}, Through(next) = Through(command.pc),
           ToldBy(next) = ToldBy(command.pc) \cup {s},
           next = "parity_stream" => command.pc \notin AfterAudit,
           next \notin AfterAudit => command.pc \notin AfterAudit,
           Told!AppendLine(s, {Told!Line(1)}, next)
    PROVE  ParityInv'
<1> PICK c : c = command
  OBVIOUS
<1>1. /\ WritesInv(c) /\ EvidenceInv /\ ops \in Nat /\ ops > 0 /\ c.x.n = ops
      /\ ops \in 0..Ops["parity"] /\ dead \in BOOLEAN
  BY AtWork
<1> DEFINE lines == {<<ops, 1>>}
<1>2. /\ streams' = [streams EXCEPT ![s].lines = @ \cup lines]
      /\ command' = [c EXCEPT !.pc = next] /\ UNCHANGED <<evidence, dead, ops, crashes>>
  BY <1>1 DEF Told!AppendLine, Told!Line
<1>3. lines \subseteq (1..ops) \X (1..4) /\ <<ops, 1>> \in lines
  BY <1>1
<1> HIDE DEF lines
<1>4. /\ EvidenceInv'
      /\ \A t \in Told!Streams, n \in 0..ops : Told!Told(t, n) => Told!Told(t, n)'
      /\ streams'[s].lines = streams[s].lines \cup lines
  BY <1>1, <1>2, <1>3, StreamGrows
<1> DEFINE d == [c EXCEPT !.pc = next]
<1>5. /\ d \in [pc : RunSteps \cup CaptureSteps, k : 0..4, x : Records]
      /\ d.pc = next /\ d.k = c.k /\ d.x = c.x /\ next \in RunSteps /\ next # "decision"
  BY <1>1 DEF WritesInv, RunSteps, AfterWorker, AfterProbe, AfterReference, AfterAudit, AfterParity,
        AfterEvent, AfterComparison
<1> HIDE DEF d
<1>6. \A t \in ToldBy(next) : Told!Told(t, c.x.n)'
  <2>1. Told!Told(s, c.x.n)'
    BY <1>1, <1>3, <1>4 DEF Told!Told
  <2>2. \A t \in ToldBy(c.pc) : t \in Told!Streams
    BY DEF ToldBy, Told!Streams
  <2>3. \A t \in ToldBy(c.pc) : Told!Told(t, c.x.n)
    BY <1>1 DEF WritesInv
  <2>4. c.x.n \in 0..ops
    BY <1>1
  <2>5. \A t \in ToldBy(c.pc) : Told!Told(t, c.x.n)'
    BY <1>4, <2>2, <2>3, <2>4
  <2> QED BY <2>1, <2>5
<1>7. c.pc # "decision"
  BY DEF AfterWorker, AfterProbe, AfterReference, AfterAudit, AfterParity, AfterEvent, AfterComparison
<1>8. WritesInv(d)'
  BY <1>1, <1>2, <1>5, <1>6, <1>7 DEF WritesInv
<1> QED BY <1>1, <1>2, <1>4, <1>8, RunGoesOn DEF d, ParityInv

\* A file of no chain, or one a shadow run writes, whole or not.
LEMMA ApartPut ==
    ASSUME EvidenceInv, Told!ParityAssumption, ops \in Nat, ops > 0,
           NEW f \in Told!Files, NEW x \in Records, NEW y, x.n = ops,
           y = x \/ y = [x EXCEPT !.whole = FALSE],
           evidence' = [evidence EXCEPT ![f] = y], UNCHANGED <<streams, ops>>,
           \/ x.kind = "shadow" /\ \E p \in Told!Latest : f = Told!Of(p)
           \/ x.kind = "run" /\ f \in {<<"probe", x.hash>>, Told!Of("probe_latest")},
           \/ f = Told!Of("execution")
           \/ evidence[Told!Of("decision")] # None \/ evidence[Told!Of("execution")] # None
    PROVE  EvidenceInv' /\ evidence'[f] = y /\ y # None /\ \A g \in Told!Files \ {f} : evidence'[g] = evidence[g]
<1>1. y \in Records /\ y.n = ops /\ y.kind = x.kind /\ y # None /\ (x.kind = "run" => y.hash = x.hash)
  <2>1. y \in Records /\ x # None /\ y # None
    BY RecordFacts
  <2>2. x \in Executed \cup Told!Captures
    BY DEF Records
  <2> QED BY <2>1, <2>2 DEF Executed, Told!Executions, Told!Captures
<1>2. ASSUME NEW k \in Told!Kept, NEW g \in GateActions, f = <<k, g>>
      PROVE  y.kind = "run" /\ y.hash = g /\ k = "probe"
  <2>1. \A p \in Told!Latest : Told!Of(p) # <<k, g>>
    BY DEF Told!Of, Told!Latest, Told!Kept
  <2>2. "probe_latest" \in Told!Latest
    BY DEF Told!Latest
  <2> QED BY <1>1, <1>2, <2>1, <2>2
<1>3. ASSUME NEW h \in GateActions, NEW j \in 1..10, f = Told!Chain(h)[j], y.kind = "run", y.hash = h
      PROVE  FALSE
  <2>1. Told!Chain(h)[j] # <<"probe", h>> /\ Told!Chain(h)[j] # Told!Of("probe_latest")
    BY ChainFacts, Zenon
  <2>2. x.kind = "run" /\ x.hash = h
    BY <1>1, <1>3
  <2>3. x.kind # "shadow"
    BY <2>2
  <2> QED BY <1>3, <2>1, <2>2, <2>3, Zenon
<1>4. EvidenceInv'
  <2>1. \A k \in Told!Kept, g \in GateActions : f = <<k, g>> =>
          /\ y.kind = "run" /\ y.hash = g
          /\ k = "comparison" => y.outcome # "none"
          /\ k \in {"event", "comparison", "job"} => evidence[Told!Of("reference_latest")] # None
          /\ k = "job" => evidence[<<"event", g>>] # None
    BY <1>2
  <2>2. \A h \in GateActions : \A j \in 1..10 :
          f = Told!Chain(h)[j] /\ y.whole /\ y.kind = "run" /\ y.hash = h =>
            /\ \A i \in 1..(j - 1) : /\ evidence[Told!Chain(h)[i]] # None
                                     /\ evidence[Told!Chain(h)[i]].n = y.n
            /\ \A s \in Told!Before(j) : Told!Told(s, y.n)
    BY <1>3
  <2> QED BY <1>1, <2>1, <2>2, EvidencePut
<1> QED BY <1>1, <1>4 DEF EvidenceInv

\* A shadow run writes a latest file and goes on.
LEMMA CapturePut ==
    ASSUME ParityInv, Told!ParityAssumption, command.pc # "idle", command.x.kind = "shadow",
           NEW p \in Told!Latest, p = "execution" <=> command.pc = "shadow_execution",
           NEW next \in CaptureSteps \ {"shadow_execution"},
           next = "shadow_stream" => p = "parity_latest",
           Told!Put(Told!Of(p), next)
    PROVE  ParityInv'
<1> PICK c : c = command
  OBVIOUS
<1>1. /\ WritesInv(c) /\ EvidenceInv /\ ops \in Nat /\ ops > 0 /\ c.x.n = ops /\ c.x \in Records
      /\ ops \in 0..Ops["parity"] /\ dead \in BOOLEAN /\ c.pc \in CaptureSteps
  BY AtWork DEF WritesInv
<1>2. /\ evidence' = [evidence EXCEPT ![Told!Of(p)] = c.x]
      /\ command' = [c EXCEPT !.pc = next] /\ UNCHANGED <<streams, dead, ops, crashes>>
  BY DEF Told!Put
<1>3. /\ Told!Of(p) \in Told!Files /\ Told!Of("execution") \in Told!Files
      /\ (p # "execution" => Told!Of(p) # Told!Of("execution"))
  BY DEF Told!Of, Told!Files, Told!Latest
<1>4. p = "execution" \/ evidence[Told!Of("execution")] # None
  BY <1>1 DEF WritesInv
<1>5. /\ EvidenceInv' /\ evidence'[Told!Of(p)] = c.x /\ c.x # None
      /\ \A g \in Told!Files \ {Told!Of(p)} : evidence'[g] = evidence[g]
  BY <1>1, <1>2, <1>3, <1>4, ApartPut
<1> DEFINE d == [c EXCEPT !.pc = next]
<1>6. /\ d \in [pc : RunSteps \cup CaptureSteps, k : 0..4, x : Records]
      /\ d.pc = next /\ d.k = c.k /\ d.x = c.x
  BY <1>1 DEF WritesInv
<1> HIDE DEF d
<1>7. evidence'[Told!Of("execution")] # None
  BY <1>3, <1>4, <1>5
<1>8. WritesInv(d)'
  BY <1>1, <1>2, <1>5, <1>6, <1>7 DEF WritesInv
<1> QED BY <1>1, <1>2, <1>5, <1>8, RunGoesOn DEF d, ParityInv

LEMMA DecisionKeeps ==
    ASSUME ParityInv, Told!ParityAssumption, Told!Decision
    PROVE  ParityInv'
<1>1. command.pc = "decision" /\ Told!Put(Told!Of("decision"), "worker")
  BY DEF Told!Decision, Told!At
<1>2. command.x.kind = "run" /\ command.x.hash \in GateActions
  BY <1>1, AtWork DEF WritesInv, CaptureSteps
<1>3. /\ Told!Before(1) \subseteq ToldBy("decision") /\ ToldBy("worker") = ToldBy("decision")
  BY StreamFacts DEF Told!Before
<1>4. Told!Chain(command.x.hash)[1] = Told!Of("decision")
  BY <1>2, ChainFacts
<1>5. /\ "worker" \in RunSteps /\ "worker" \notin AfterWorker /\ "decision" \notin AfterWorker
      /\ "worker" \notin AfterAudit /\ "decision" \notin AfterAudit
  BY DEF RunSteps, AfterWorker, AfterProbe, AfterReference, AfterAudit, AfterParity, AfterEvent,
     AfterComparison
<1> QED BY <1>1, <1>2, <1>3, <1>5, <1>4, StepFacts, RunPut

\* The sets of steps, taken apart.
LEMMA Sets ==
    /\ AfterAudit = {"parity_stream", "event", "event_latest", "event_stream", "comparison",
                     "comparison_latest", "comparison_stream", "execution", "parity_latest", "job"}
    /\ AfterWorker = AfterAudit \cup {"probe", "probe_latest", "probe_stream", "reference",
                                      "reference_latest", "reference_stream", "audit"}
    /\ RunSteps = AfterWorker \cup {"decision", "worker"}
<1> QED BY DEF RunSteps, AfterWorker, AfterProbe, AfterReference, AfterAudit, AfterParity, AfterEvent,
        AfterComparison

LEMMA ReferenceKeeps ==
    ASSUME ParityInv, Told!ParityAssumption, Told!Reference
    PROVE  ParityInv'
<1>1. /\ command.pc \in {"reference", "reference_latest", "reference_stream"}
      /\ command.x.kind = "run" /\ command.x.hash \in GateActions
  BY AtWork DEF Told!Reference, Told!At, WritesInv, CaptureSteps
<1>2. CASE command.pc = "reference"
  <2>1. Told!Put(Told!Chain(command.x.hash)[2], "reference_latest")
    BY <1>1, <1>2, ChainFacts DEF Told!Reference, Told!At, Told!Mine
  <2>2. Told!Before(2) \subseteq ToldBy("reference") /\ ToldBy("reference_latest") = ToldBy("reference")
    BY StreamFacts DEF Told!Before
  <2> QED BY <1>1, <1>2, <2>1, <2>2, Sets, StepFacts, RunPut
<1>3. CASE command.pc = "reference_latest"
  <2>1. Told!Put(Told!Chain(command.x.hash)[3], "reference_stream")
    BY <1>1, <1>3, ChainFacts DEF Told!Reference, Told!At
  <2>2. /\ Told!Before(3) \subseteq ToldBy("reference_latest")
        /\ ToldBy("reference_stream") = ToldBy("reference_latest")
    BY StreamFacts DEF Told!Before
  <2> QED BY <1>1, <1>3, <2>1, <2>2, Sets, StepFacts, RunPut
<1>4. CASE command.pc = "reference_stream"
  <2>1. Told!AppendLine("reference_stream", {Told!Line(1)}, "audit")
    BY <1>4 DEF Told!Reference, Told!At
  <2>2. ToldBy("audit") = ToldBy("reference_stream") \cup {"reference_stream"}
    BY StreamFacts
  <2>3. "reference_stream" \in Told!Streams \ {"parity_stream"}
    BY DEF Told!Streams
  <2> QED BY <1>1, <1>4, <2>1, <2>2, <2>3, Sets, StepFacts, RunAppends
<1> QED BY <1>1, <1>2, <1>3, <1>4

LEMMA EventKeeps ==
    ASSUME ParityInv, Told!ParityAssumption, Told!Event
    PROVE  ParityInv'
<1>1. /\ command.pc \in {"event", "event_latest", "event_stream"}
      /\ command.x.kind = "run" /\ command.x.hash \in GateActions
  BY AtWork DEF Told!Event, Told!At, WritesInv, CaptureSteps
<1>2. CASE command.pc = "event"
  <2>1. Told!Put(Told!Chain(command.x.hash)[4], "event_latest")
    BY <1>1, <1>2, ChainFacts DEF Told!Event, Told!At, Told!Mine
  <2>2. Told!Before(4) \subseteq ToldBy("event") /\ ToldBy("event_latest") = ToldBy("event")
    BY StreamFacts DEF Told!Before
  <2> QED BY <1>1, <1>2, <2>1, <2>2, Sets, StepFacts, RunPut
<1>3. CASE command.pc = "event_latest"
  <2>1. Told!Put(Told!Chain(command.x.hash)[5], "event_stream")
    BY <1>1, <1>3, ChainFacts DEF Told!Event, Told!At
  <2>2. Told!Before(5) \subseteq ToldBy("event_latest") /\ ToldBy("event_stream") = ToldBy("event_latest")
    BY StreamFacts DEF Told!Before
  <2> QED BY <1>1, <1>3, <2>1, <2>2, Sets, StepFacts, RunPut
<1>4. CASE command.pc = "event_stream"
  <2>1. Told!AppendLine("event_stream", {Told!Line(1)}, "comparison")
    BY <1>4 DEF Told!Event, Told!At
  <2>2. ToldBy("comparison") = ToldBy("event_stream") \cup {"event_stream"}
    BY StreamFacts
  <2>3. "event_stream" \in Told!Streams \ {"parity_stream"}
    BY DEF Told!Streams
  <2> QED BY <1>1, <1>4, <2>1, <2>2, <2>3, Sets, StepFacts, RunAppends
<1> QED BY <1>1, <1>2, <1>3, <1>4

LEMMA ComparisonKeeps ==
    ASSUME ParityInv, Told!ParityAssumption, Told!Comparison
    PROVE  ParityInv'
<1>1. /\ command.pc \in {"comparison", "comparison_latest", "comparison_stream"}
      /\ command.x.kind = "run" /\ command.x.hash \in GateActions
  BY AtWork DEF Told!Comparison, Told!At, WritesInv, CaptureSteps
<1>2. CASE command.pc = "comparison"
  <2>1. Told!Put(Told!Chain(command.x.hash)[6], "comparison_latest")
    BY <1>1, <1>2, ChainFacts DEF Told!Comparison, Told!At, Told!Mine
  <2>2. /\ Told!Before(6) \subseteq ToldBy("comparison")
        /\ ToldBy("comparison_latest") = ToldBy("comparison")
    BY StreamFacts DEF Told!Before
  <2> QED BY <1>1, <1>2, <2>1, <2>2, Sets, StepFacts, RunPut
<1>3. CASE command.pc = "comparison_latest"
  <2>1. Told!Put(Told!Chain(command.x.hash)[7], "comparison_stream")
    BY <1>1, <1>3, ChainFacts DEF Told!Comparison, Told!At
  <2>2. /\ Told!Before(7) \subseteq ToldBy("comparison_latest")
        /\ ToldBy("comparison_stream") = ToldBy("comparison_latest")
    BY StreamFacts DEF Told!Before
  <2> QED BY <1>1, <1>3, <2>1, <2>2, Sets, StepFacts, RunPut
<1>4. CASE command.pc = "comparison_stream"
  <2>1. Told!AppendLine("comparison_stream", {Told!Line(1)}, "execution")
    BY <1>4 DEF Told!Comparison, Told!At
  <2>2. ToldBy("execution") = ToldBy("comparison_stream") \cup {"comparison_stream"}
    BY StreamFacts
  <2>3. "comparison_stream" \in Told!Streams \ {"parity_stream"}
    BY DEF Told!Streams
  <2> QED BY <1>1, <1>4, <2>1, <2>2, <2>3, Sets, StepFacts, RunAppends
<1> QED BY <1>1, <1>2, <1>3, <1>4

\* The last file of an execution: all ten are its own.
LEMMA ReceiptKeeps ==
    ASSUME ParityInv, Told!ParityAssumption, Told!Receipt
    PROVE  ParityInv'
<1>1. /\ command.pc \in {"execution", "parity_latest", "job"} /\ command.x.kind \in {"run", "shadow"}
      /\ command.pc # "parity_latest" => command.x.kind = "run"
      /\ command.x.kind = "run" => command.x.hash \in GateActions
  BY AtWork DEF Told!Receipt, Told!At, WritesInv, CaptureSteps
<1>2. CASE command.pc = "execution"
  <2>1. Told!Put(Told!Chain(command.x.hash)[8], "parity_latest")
    BY <1>1, <1>2, ChainFacts DEF Told!Receipt, Told!At
  <2>2. /\ Told!Before(8) \subseteq ToldBy("execution")
        /\ ToldBy("parity_latest") = ToldBy("execution")
    BY StreamFacts DEF Told!Before
  <2> QED BY <1>1, <1>2, <2>1, <2>2, Sets, StepFacts, RunPut
<1>3. CASE command.pc = "parity_latest" /\ command.x.kind = "run"
  <2>1. Told!Put(Told!Chain(command.x.hash)[9], "job")
    BY <1>1, <1>3, ChainFacts DEF Told!Receipt, Told!At
  <2>2. Told!Before(9) \subseteq ToldBy("parity_latest") /\ ToldBy("job") = ToldBy("parity_latest")
    BY StreamFacts DEF Told!Before
  <2> QED BY <1>1, <1>3, <2>1, <2>2, Sets, StepFacts, RunPut
<1>4. CASE command.pc = "parity_latest" /\ command.x.kind = "shadow"
  <2>1. Told!Put(Told!Of("parity_latest"), "shadow_stream")
    BY <1>4 DEF Told!Receipt, Told!At
  <2> QED BY <1>4, <2>1, CapturePut DEF Told!Latest, CaptureSteps
<1>5. CASE command.pc = "job"
  <2> PICK c : c = command
    OBVIOUS
  <2>1. /\ WritesInv(c) /\ EvidenceInv /\ ops \in Nat /\ ops > 0 /\ c.x.kind = "run"
        /\ c.x.hash \in GateActions
    BY <1>1, <1>5, AtWork
  <2>2. /\ evidence' = [evidence EXCEPT ![Told!Chain(c.x.hash)[10]] = c.x]
        /\ command' = Told!Idle /\ UNCHANGED <<streams, dead, ops, crashes>>
    BY <1>5, <2>1, ChainFacts DEF Told!Receipt, Told!At, Told!Mine
  <2>3. /\ Told!Before(10) \subseteq ToldBy("job") /\ Through("job") + 1 = 10
        /\ "job" \in AfterWorker
    BY StreamFacts, StepFacts, Sets DEF Told!Before
  <2> PICK j \in 1..10 : j = 10
    OBVIOUS
  <2>4. EvidenceInv' /\ Wrote(evidence', c.x, j)
    <3>1. /\ j = Through(c.pc) + 1 /\ Told!Before(j) \subseteq ToldBy(c.pc)
          /\ c.pc \in AfterWorker \cup {"decision"}
      BY <1>5, <2>3
    <3> QED BY <2>1, <2>2, <3>1, ChainPut
  <2>5. evidence'[Told!Of("parity_latest")] = c.x
    <3>1. evidence'[Told!Chain(c.x.hash)[9]] = c.x
      BY <2>4 DEF Wrote
    <3> QED BY <2>1, <3>1, ChainFacts
  <2> QED BY <2>2, <2>4, <2>5 DEF ParityInv, LastInv
<1> QED BY <1>1, <1>2, <1>3, <1>4, <1>5

LEMMA AuditKeeps ==
    ASSUME ParityInv, Told!ParityAssumption, Told!Audit
    PROVE  ParityInv'
<1>1. command.pc = "audit" /\ command.x.kind = "run" /\ EvidenceInv
  BY AtWork DEF Told!Audit, Told!At, WritesInv, CaptureSteps
<1>2. CASE Told!Fail
  BY <1>2, RunFails DEF Told!Fail, ParityInv
<1>3. CASE Told!AppendLine("audit", {Told!Line(1)}, "parity_stream")
  <2>1. ToldBy("parity_stream") = ToldBy("audit") \cup {"audit"}
    BY StreamFacts
  <2>2. "audit" \in Told!Streams \ {"parity_stream"}
    BY DEF Told!Streams
  <2> QED BY <1>1, <1>3, <2>1, <2>2, Sets, StepFacts, RunAppends
<1> QED BY <1>2, <1>3 DEF Told!Audit

\* A probe's file is of no chain.
LEMMA ProbePut ==
    ASSUME ParityInv, Told!ParityAssumption, command.pc \in {"probe", "probe_latest"},
           NEW f, NEW y, NEW d, NEW next \in {"probe_latest", "probe_stream"},
           command.pc = "probe" => f = <<"probe", command.x.hash>> /\ y = [command.x EXCEPT !.probed = TRUE],
           command.pc = "probe_latest" => f = Told!Of("probe_latest") /\ y = command.x,
           d = [command EXCEPT !.pc = next, !.x = y],
           evidence' = [evidence EXCEPT ![f] = y], command' = d, UNCHANGED <<streams, dead, ops, crashes>>
    PROVE  ParityInv'
<1> PICK c : c = command
  OBVIOUS
<1>1. /\ WritesInv(c) /\ EvidenceInv /\ ops \in Nat /\ ops > 0 /\ c.x.n = ops
      /\ c.x.kind = "run" /\ c.x \in Records /\ c.x \in Executed /\ c.x.hash \in GateActions
      /\ ops \in 0..Ops["parity"] /\ dead \in BOOLEAN
  BY AtWork, RecordFacts DEF WritesInv, CaptureSteps
<1>2. /\ y \in Executed /\ y.n = ops /\ y.kind = "run" /\ y.hash = c.x.hash /\ y.whole = c.x.whole
      /\ y.outcome = c.x.outcome /\ y.probed \in BOOLEAN
      /\ (c.pc = "probe" => y.probed) /\ (c.pc = "probe_latest" => y = c.x)
  BY <1>1 DEF Executed, Told!Executions
<1>3. /\ d \in [pc : RunSteps \cup CaptureSteps, k : 0..4, x : Records]
      /\ d.pc = next /\ d.k = c.k /\ d.x = y
  BY <1>1, <1>2, Sets DEF WritesInv, Records
<1>4. /\ f \in Told!Files /\ f # Told!Of("decision") /\ Told!Of("decision") \in Told!Files
      /\ <<"probe", c.x.hash>> \in Told!Files
      /\ (c.pc = "probe_latest" => f # <<"probe", c.x.hash>>)
  BY <1>1 DEF Told!Of, Told!Files, Told!Kept, Told!Latest
<1>5. c.pc \in AfterWorker /\ Through(c.pc) = 1 /\ Through(next) = 1 /\ ToldBy(next) = {}
      /\ evidence[Told!Of("decision")] # None
  BY <1>1, Sets, StepFacts, StreamFacts DEF WritesInv
<1>6. /\ EvidenceInv' /\ evidence'[f] = y /\ y # None
      /\ \A g \in Told!Files \ {f} : evidence'[g] = evidence[g]
  <2>1. y \in Records /\ y.kind = "run" /\ f \in {<<"probe", y.hash>>, Told!Of("probe_latest")}
    BY <1>2 DEF Records
  <2> QED BY <1>1, <1>2, <1>4, <1>5, <2>1, ApartPut
<1>7. Wrote(evidence', y, 1)
  <2>1. evidence'[Told!Of("decision")].n = ops
    BY <1>1, <1>4, <1>5, <1>6 DEF WritesInv, Wrote
  <2>2. y.probed => evidence'[<<"probe", y.hash>>].n = ops
    BY <1>1, <1>2, <1>4, <1>5, <1>6 DEF WritesInv, Wrote
  <2> QED BY <1>2, <2>1, <2>2 DEF Wrote
<1>8. WritesInv(d)'
  BY <1>1, <1>2, <1>3, <1>4, <1>5, <1>6, <1>7, Sets, Zenon DEF WritesInv
<1> QED BY <1>1, <1>6, <1>8, RunGoesOn DEF ParityInv

LEMMA ProbeKeeps ==
    ASSUME ParityInv, Told!ParityAssumption, Told!Probe
    PROVE  ParityInv'
<1>1. /\ command.pc \in {"probe", "probe_latest", "probe_stream"} /\ command.x.kind = "run"
      /\ WritesInv(command)
  BY AtWork DEF Told!Probe, Told!At, WritesInv, CaptureSteps
<1>2. CASE Told!Fail
  BY <1>2, RunFails DEF Told!Fail, ParityInv
<1>3. CASE Told!AppendLine("probe_stream", {Told!Line(1)}, "reference")
  <2>1. "probe_stream" \in Told!Streams \ {"parity_stream"}
    BY DEF Told!Streams
  <2>2. ToldBy("reference") = ToldBy(command.pc) \cup {"probe_stream"}
    BY <1>1, StreamFacts
  <2> QED BY <1>1, <1>3, <2>1, <2>2, Sets, StepFacts, RunAppends, SMTT(30)
<1>4. ASSUME command.pc = "probe", NEW x, x = [command.x EXCEPT !.probed = TRUE],
             evidence' = [evidence EXCEPT ![Told!Mine("probe")] = x],
             command' = [command EXCEPT !.pc = "probe_latest", !.x = x],
             UNCHANGED <<streams, dead, ops, crashes>>
      PROVE  ParityInv'
  BY <1>4, ProbePut DEF Told!Mine
<1>5. ASSUME command.pc = "probe_latest", Told!Put(Told!Of("probe_latest"), "probe_stream")
      PROVE  ParityInv'
  <2>1. command' = [command EXCEPT !.pc = "probe_stream", !.x = command.x]
    BY <1>1, <1>5 DEF Told!Put, WritesInv
  <2> QED BY <1>5, <2>1, ProbePut DEF Told!Put
<1> QED BY <1>1, <1>2, <1>3, <1>4, <1>5 DEF Told!Probe, Told!At

\* The outcome is one the decision may have.
LEMMA WorkerKeeps ==
    ASSUME ParityInv, Told!ParityAssumption, Told!Worker
    PROVE  ParityInv'
<1>1. command.pc = "worker" /\ command.x.kind = "run"
  BY AtWork DEF Told!Worker, Told!At, WritesInv, CaptureSteps
<1>2. CASE Told!Fail
  BY <1>2, RunFails DEF Told!Fail, ParityInv
<1>3. ASSUME NEW outcome \in Told!Outcomes(command.x.overall),
             command' = [command EXCEPT !.pc = "probe", !.x.outcome = outcome],
             UNCHANGED <<evidence, streams, dead, ops, crashes>>
      PROVE  ParityInv'
  <2> PICK c : c = command
    OBVIOUS
  <2>1. /\ WritesInv(c) /\ EvidenceInv /\ ops \in Nat /\ ops > 0 /\ c.x.n = ops
        /\ c.x \in Executed /\ c.x.hash \in GateActions
        /\ ops \in 0..Ops["parity"] /\ dead \in BOOLEAN
    BY <1>1, AtWork, RecordFacts
  <2> DEFINE x == [c.x EXCEPT !.outcome = outcome]
  <2>2. /\ x \in Executed /\ x.n = ops /\ x.kind = "run" /\ x.hash = c.x.hash /\ x.whole = c.x.whole
        /\ x.outcome = outcome /\ outcome # "none" /\ x.probed = c.x.probed
    BY <2>1 DEF Executed, Told!Executions, Told!Outcomes
  <2> HIDE DEF x
  <2> DEFINE d == [c EXCEPT !.pc = "probe", !.x = x]
  <2>3. /\ d \in [pc : RunSteps \cup CaptureSteps, k : 0..4, x : Records]
        /\ d.pc = "probe" /\ d.k = c.k /\ d.x = x
    BY <2>1, <2>2, Sets DEF WritesInv, Records
  <2>4. command' = d
    BY <1>3 DEF x
  <2> HIDE DEF d
  <2>5. ~c.x.probed /\ Wrote(evidence, c.x, 1) /\ c.k = 0 /\ evidence[Told!Of("decision")] # None
    BY <1>1, <2>1, Sets, StepFacts DEF WritesInv
  <2>6. Wrote(evidence, x, 1)
    BY <2>1, <2>2, <2>5 DEF Wrote
  <2>7. EvidenceInv'
    BY <1>3, <2>1, EvidenceSame
  <2>8. Through("probe") = 1 /\ ToldBy("probe") = {} /\ "probe" \in RunSteps /\ "probe" # "parity_stream"
    BY StepFacts, StreamFacts, Sets
  <2>9. WritesInv(d)'
    BY <1>1, <1>3, <2>1, <2>2, <2>3, <2>5, <2>6, <2>8 DEF WritesInv
  <2> QED BY <1>3, <2>1, <2>4, <2>7, <2>9, RunGoesOn DEF ParityInv
<1> QED BY <1>2, <1>3 DEF Told!Worker

\* The four lines of the parity stream, one after the other.
LEMMA ParityStreamKeeps ==
    ASSUME ParityInv, Told!ParityAssumption, Told!ParityStream
    PROVE  ParityInv'
<1> PICK c : c = command
  OBVIOUS
<1>1. /\ c.pc = "parity_stream" /\ WritesInv(c) /\ EvidenceInv /\ ops \in Nat /\ ops > 0 /\ c.x.n = ops
      /\ ops \in 0..Ops["parity"] /\ dead \in BOOLEAN
  BY AtWork DEF Told!ParityStream, Told!At
<1>2. /\ c.x.kind = "run" /\ c.k \in 0..3
      /\ \A i \in 1..c.k : <<c.x.n, i>> \in streams["parity_stream"].lines
  <2>1. c.k \in 0..4 /\ c.x.kind \in {"run", "shadow"} /\ (c.x.kind = "shadow" => c.pc \in CaptureSteps)
    BY <1>1, RecordFacts DEF WritesInv
  <2>2. c.x.kind = "run"
    BY <1>1, <2>1 DEF CaptureSteps
  <2> QED BY <1>1, <2>1, <2>2 DEF WritesInv
<1> PICK k \in 1..4, next \in {"parity_stream", "event"} :
      k = c.k + 1 /\ next = IF c.k = 3 THEN "event" ELSE "parity_stream"
  BY <1>2
<1> DEFINE lines == {<<c.x.n, k>>}
<1>3. /\ streams' = [streams EXCEPT !["parity_stream"].lines = @ \cup lines]
      /\ UNCHANGED <<evidence, dead, ops, crashes>>
  BY <1>1 DEF Told!ParityStream, Told!Line
<1>4. lines \subseteq (1..ops) \X (1..4) /\ <<c.x.n, k>> \in lines /\ "parity_stream" \in Told!Streams
  BY <1>1 DEF Told!Streams
<1> HIDE DEF lines
<1>5. /\ EvidenceInv'
      /\ \A t \in Told!Streams, n \in 0..ops : Told!Told(t, n) => Told!Told(t, n)'
      /\ streams'["parity_stream"].lines = streams["parity_stream"].lines \cup lines
  BY <1>1, <1>3, <1>4, StreamGrows
<1> DEFINE d == [c EXCEPT !.pc = next, !.k = k]
<1>6. /\ d \in [pc : RunSteps \cup CaptureSteps, k : 0..4, x : Records]
      /\ d.pc = next /\ d.k = k /\ d.x = c.x
  <2>1. next \in RunSteps /\ k \in 0..4
    BY Sets
  <2> QED BY <1>1, <2>1 DEF WritesInv
<1>7. command' = d
  BY <1>1 DEF Told!ParityStream, WritesInv
<1> HIDE DEF d
<1>8. \A i \in 1..k : <<c.x.n, i>> \in streams'["parity_stream"].lines
  BY <1>2, <1>4, <1>5
<1>9. \A t \in ToldBy(next) : Told!Told(t, c.x.n)'
  <2>1. \A t \in ToldBy("parity_stream") : Told!Told(t, c.x.n)'
    <3>1. \A t \in ToldBy("parity_stream") : t \in Told!Streams
      BY DEF ToldBy, Told!Streams
    <3>2. c.x.n \in 0..ops
      BY <1>1
    <3>3. \A t \in ToldBy("parity_stream") : Told!Told(t, c.x.n)
      BY <1>1, <1>2 DEF WritesInv
    <3> QED BY <1>5, <3>1, <3>2, <3>3
  <2>2. next = "event" => Told!Told("parity_stream", c.x.n)'
    BY <1>8 DEF Told!Told
  <2>3. ToldBy("event") = ToldBy("parity_stream") \cup {"parity_stream"}
    BY StreamFacts
  <2> QED BY <2>1, <2>2, <2>3
<1>10. /\ Through(next) = 3 /\ next \in RunSteps /\ next \in AfterWorker /\ next \in AfterAudit
       /\ next \notin {"probe", "decision"} /\ Through(c.pc) = 3
       /\ c.pc \in AfterWorker \ {"probe", "decision"}
  BY <1>1, StepFacts, Sets
<1>11. next = "parity_stream" => k < 4
  BY <1>2
<1>12. WritesInv(d)'
  <2>1. d.x.n = ops' /\ ops' > 0 /\ d.x.whole
    BY <1>1, <1>3, <1>6 DEF WritesInv
  <2>2. /\ d.x.outcome # "none" /\ Wrote(evidence', d.x, 3) /\ evidence'[Told!Of("decision")] # None
    BY <1>1, <1>2, <1>3, <1>6, <1>10 DEF WritesInv
  <2> QED BY <1>2, <1>6, <1>8, <1>9, <1>10, <1>11, <2>1, <2>2 DEF WritesInv
<1> QED BY <1>1, <1>3, <1>5, <1>7, <1>12, RunGoesOn DEF ParityInv

\* The receipt of a shadow run, its latest file, the line of the stream.
LEMMA PersistKeeps ==
    ASSUME ParityInv, Told!ParityAssumption, Told!Persist
    PROVE  ParityInv'
<1>1. /\ command.pc \in {"shadow_execution", "shadow_latest", "shadow_stream"}
      /\ command.x.kind = "shadow" /\ WritesInv(command) /\ ops \in Nat /\ ops > 0
  BY AtWork, Sets DEF Told!Persist, Told!At, WritesInv
<1>2. CASE command.pc = "shadow_execution"
  <2>1. Told!Put(Told!Of("execution"), "shadow_latest")
    BY <1>2 DEF Told!Persist, Told!At
  <2> QED BY <1>1, <1>2, <2>1, CapturePut DEF Told!Latest, CaptureSteps
<1>3. CASE command.pc = "shadow_latest"
  <2>1. Told!Put(Told!Of("shadow_latest"), "parity_latest")
    BY <1>3 DEF Told!Persist, Told!At
  <2> QED BY <1>1, <1>3, <2>1, CapturePut DEF Told!Latest, CaptureSteps
<1>4. CASE command.pc = "shadow_stream"
  <2> DEFINE lines == {<<ops, 1>>}
  <2>1. /\ streams' = [streams EXCEPT !["parity_stream"].lines = @ \cup lines]
        /\ command' = Told!Idle /\ UNCHANGED <<evidence, dead, ops, crashes>>
    BY <1>1, <1>4 DEF Told!Persist, Told!At, Told!Line, WritesInv
  <2>2. lines \subseteq (1..ops) \X (1..4) /\ "parity_stream" \in Told!Streams
    BY <1>1 DEF Told!Streams
  <2> HIDE DEF lines
  <2>3. EvidenceInv'
    BY <1>1, <2>1, <2>2, StreamGrows
  <2>4. evidence[Told!Of("parity_latest")].kind = "shadow"
    BY <1>1, <1>4 DEF WritesInv
  <2> QED BY <2>1, <2>3, <2>4 DEF ParityInv, LastInv
<1> QED BY <1>1, <1>2, <1>3, <1>4

\* A run begins, after the last one that was at work.
LEMMA RunBegins ==
    ASSUME ParityInv, Told!ParityAssumption, ops < Ops["parity"], ops' = ops + 1, dead' = FALSE,
           UNCHANGED <<evidence, streams, crashes>>, NEW d, command' = d,
           d \in [pc : {"decision", "shadow_execution"}, k : {0}, x : Records],
           d.x.n = ops + 1, d.x.whole,
           d.x.kind = "run" => d.pc = "decision" /\ ~d.x.probed,
           d.x.kind = "shadow" => d.pc = "shadow_execution"
    PROVE  ParityInv'
<1>1. ops \in Nat /\ Ops["parity"] \in Nat /\ ops' \in 0..Ops["parity"]
  BY DEF ParityInv, Told!ParityAssumption
<1>2. EvidenceInv'
  <2>1. Told!EvidenceLeads'
    BY LeadsSame DEF ParityInv, EvidenceInv
  <2>2. streams' \in [Told!Streams -> [lines : SUBSET ((1..ops') \X (1..4)), lost : 0..ops']]
    <3>1. (1..ops) \X (1..4) \subseteq (1..ops') \X (1..4) /\ 0..ops \subseteq 0..ops'
      BY <1>1
    <3> QED BY <3>1 DEF ParityInv, EvidenceInv
  <2>3. \A f \in Told!Files : evidence'[f] # None => evidence'[f].n \in 1..ops'
    BY <1>1 DEF ParityInv, EvidenceInv
  <2> QED BY <2>1, <2>2, <2>3 DEF ParityInv, EvidenceInv
<1>3. Wrote(evidence', d.x, 0) \/ d.x.kind = "shadow"
  BY RecordFacts DEF Wrote
<1>4. WritesInv(d)'
  <2>1. d \in [pc : RunSteps \cup CaptureSteps, k : 0..4, x : Records]
    BY Sets DEF CaptureSteps
  <2>2. /\ Through("decision") = 0 /\ ToldBy("decision") = {} /\ "decision" \in RunSteps
        /\ "decision" \notin AfterWorker /\ "decision" \notin AfterAudit
        /\ "shadow_execution" \in CaptureSteps
    BY Sets, StepFacts, StreamFacts DEF CaptureSteps
  <2> QED BY <1>1, <1>3, <2>1, <2>2 DEF WritesInv
<1> QED BY <1>1, <1>2, <1>4, RunGoesOn DEF ParityInv

LEMMA ExecuteKeeps ==
    ASSUME ParityInv, Told!ParityAssumption, Told!Execute \/ Told!Shadow
    PROVE  ParityInv'
<1>1. /\ ops < Ops["parity"] /\ ops' = ops + 1 /\ dead' = FALSE /\ UNCHANGED <<evidence, streams, crashes>>
      /\ ops \in Nat
  <2>1. ops \in Nat
    BY DEF ParityInv, Told!ParityAssumption
  <2>2. /\ ops < Ops["parity"] /\ ops' = ops + 1 /\ dead' = FALSE
        /\ UNCHANGED <<evidence, streams, crashes>>
    BY Zenon DEF Told!Execute, Told!Shadow
  <2> QED BY <2>1, <2>2
<1>2. CASE Told!Execute
  <2> PICK hash \in GateActions, answer \in {"allow", "deny"} : \E overall \in Told!Overalls(answer) :
        command' = [Told!Idle EXCEPT !.pc = "decision",
                      !.x = [n |-> ops + 1, kind |-> "run", hash |-> hash, reference |-> answer,
                             overall |-> overall, outcome |-> "none", probed |-> FALSE,
                             whole |-> TRUE]]
    BY <1>2 DEF Told!Execute
  <2> PICK overall \in Told!Overalls(answer) :
        command' = [Told!Idle EXCEPT !.pc = "decision",
                      !.x = [n |-> ops + 1, kind |-> "run", hash |-> hash, reference |-> answer,
                             overall |-> overall, outcome |-> "none", probed |-> FALSE,
                             whole |-> TRUE]]
    OBVIOUS
  <2> DEFINE x == [n |-> ops + 1, kind |-> "run", hash |-> hash, reference |-> answer,
                   overall |-> overall, outcome |-> "none", probed |-> FALSE, whole |-> TRUE]
  <2>1. x \in Executed
    BY <1>1 DEF Executed, Told!Executions, Told!Overalls
  <2>2. x.n = ops + 1 /\ x.kind = "run" /\ ~x.probed /\ x.whole
    OBVIOUS
  <2> HIDE DEF x
  <2> DEFINE d == [pc |-> "decision", k |-> 0, x |-> x]
  <2>3. command' = d
    BY DEF Told!Idle, x
  <2>4. d.pc = "decision" /\ d.x = x /\ d \in [pc : {"decision", "shadow_execution"}, k : {0}, x : Records]
    BY <2>1 DEF Records
  <2> HIDE DEF d
  <2> QED BY <1>1, <2>2, <2>3, <2>4, RunBegins
<1>3. CASE Told!Shadow
  <2> DEFINE x == [n |-> ops + 1, kind |-> "shadow", whole |-> TRUE]
  <2>1. x \in Told!Captures /\ x.n = ops + 1 /\ x.kind = "shadow" /\ x.whole
    BY <1>1 DEF Told!Captures
  <2> DEFINE d == [pc |-> "shadow_execution", k |-> 0, x |-> x]
  <2>2. command' = d
    BY <1>3 DEF Told!Idle, Told!Shadow
  <2> HIDE DEF x
  <2>3. /\ d.pc = "shadow_execution" /\ d.x = x
        /\ d \in [pc : {"decision", "shadow_execution"}, k : {0}, x : Records]
    BY <2>1 DEF Records
  <2> HIDE DEF d
  <2> QED BY <1>1, <2>1, <2>2, <2>3, RunBegins
<1> QED BY <1>2, <1>3

\* A death cuts at most the file that was being written, which leads nowhere then, or empties
\* the stream, which remembers how far it was lost.
LEMMA CrashTornTold ==
    ASSUME ParityInv, Told!ParityAssumption, Told!CrashTorn
    PROVE  ParityInv'
<1>1. /\ command.pc # "idle" /\ command' = Told!Idle /\ dead' = TRUE /\ ops' = ops
      /\ crashes' = crashes + 1 /\ crashes < Crashes["parity"]
  BY DEF Told!CrashTorn, Told!FileAt, Told!At, Told!Latest, Told!Kept, Told!Streams
<1>2. crashes' \in 0..Crashes["parity"]
  BY <1>1 DEF ParityInv, Told!ParityAssumption
<1> PICK c : c = command
  OBVIOUS
<1>3. /\ WritesInv(c) /\ EvidenceInv /\ ops \in Nat /\ ops > 0 /\ c.x.n = ops /\ c.x \in Records
      /\ c.x.kind \in {"run", "shadow"} /\ (c.x.kind = "run" => c.x.hash \in GateActions)
  BY <1>1, AtWork
<1>4. ASSUME NEW f, f = Told!FileAt, f # None,
             evidence' = [evidence EXCEPT ![f] = [c.x EXCEPT !.whole = FALSE]], UNCHANGED streams
      PROVE  EvidenceInv'
  <2> PICK y : y = [c.x EXCEPT !.whole = FALSE]
    OBVIOUS
  <2>1. CASE c.x.kind = "run" /\ c.pc \in {"probe", "probe_latest"}
    <3>1. f \in {<<"probe", c.x.hash>>, Told!Of("probe_latest")} /\ f \in Told!Files
      BY <1>3, <1>4, <2>1 DEF Told!FileAt, Told!Mine, Told!Latest, Told!Kept, Told!Of, Told!Files
    <3>2. evidence[Told!Of("decision")] # None
      BY <1>3, <2>1 DEF WritesInv
    <3> QED BY <1>1, <1>3, <1>4, <2>1, <3>1, <3>2, ApartPut
  <2>2. CASE c.x.kind = "run" /\ c.pc \notin {"probe", "probe_latest"}
    <3>1. c.pc \in RunSteps
      BY <1>3, <2>2 DEF WritesInv
    <3>2. /\ c.pc \in AfterWorker \cup {"decision"}
          /\ c.pc \in {"decision", "reference", "reference_latest", "event", "event_latest", "comparison",
                       "comparison_latest", "execution", "parity_latest", "job"}
      BY <1>4, <2>2, <3>1, Sets DEF Told!FileAt, Told!Latest, Told!Kept
    <3> PICK j \in 1..10 : j = Through(c.pc) + 1
      BY <3>2, StepFacts
    <3>3. f = Told!Chain(c.x.hash)[j]
      BY <1>3, <1>4, <2>2, <3>2, StepFacts, ChainFacts DEF Told!FileAt, Told!Mine, Told!Latest, Told!Kept
    <3>4. Told!Before(j) \subseteq ToldBy(c.pc)
      BY <3>1, <3>2, StreamFacts
    <3> QED BY <1>1, <1>3, <1>4, <2>2, <3>2, <3>3, <3>4, ChainPut
  <2>3. CASE c.x.kind = "shadow"
    <3>1. c.pc \in {"shadow_execution", "shadow_latest", "parity_latest"}
      BY <1>3, <1>4, <2>3 DEF Told!FileAt, WritesInv, CaptureSteps, Told!Latest, Told!Kept
    <3>2. /\ c.pc = "shadow_execution" => f = Told!Of("execution")
          /\ c.pc # "shadow_execution" => f = Told!Of(c.pc) /\ c.pc \in Told!Latest
      BY <1>4, <3>1 DEF Told!FileAt, Told!Latest, Told!Kept
    <3>3. f \in Told!Files /\ \E p \in Told!Latest : f = Told!Of(p)
      BY <3>2 DEF Told!Files, Told!Latest, Told!Of
    <3>4. f = Told!Of("execution") \/ evidence[Told!Of("execution")] # None
      BY <1>3, <2>3, <3>2 DEF WritesInv
    <3> QED BY <1>1, <1>3, <1>4, <2>3, <3>3, <3>4, ApartPut
  <2> QED BY <1>3, <2>1, <2>2, <2>3
<1>5. ASSUME NEW s \in Told!Streams, streams' = [streams EXCEPT ![s] = [lines |-> {}, lost |-> c.x.n]],
             UNCHANGED evidence
      PROVE  EvidenceInv'
  <2>1. \A t \in Told!Streams :
          streams'[t] = IF t = s THEN [lines |-> {}, lost |-> c.x.n] ELSE streams[t]
    BY <1>3, <1>5 DEF EvidenceInv
  <2>2. \A t \in Told!Streams, n \in 0..ops : Told!Told(t, n) => Told!Told(t, n)'
    BY <1>3, <2>1 DEF Told!Told
  <2>3. streams' \in [Told!Streams -> [lines : SUBSET ((1..ops) \X (1..4)), lost : 0..ops]]
    BY <1>3, <1>5 DEF EvidenceInv
  <2> QED BY <1>1, <1>3, <1>5, <2>2, <2>3, EvidenceAppended
<1>6. EvidenceInv'
  BY <1>4, <1>5 DEF Told!CrashTorn
<1> QED BY <1>1, <1>2, <1>6, RunEnds

LEMMA ParityKept ==
    ASSUME ParityInv, Told!ParityAssumption, Told!Next \/ UNCHANGED <<telling, command, ops, crashes>>
    PROVE  ParityInv'
<1>1. CASE UNCHANGED <<telling, command, ops, crashes>>
  <2>1. EvidenceInv'
    BY <1>1, EvidenceSame DEF telling, ParityInv
  <2>2. command = Told!Idle \/ WritesInv(command)'
    BY <1>1 DEF telling, ParityInv, WritesInv, Wrote, Told!Told
  <2>3. LastInv'
    BY <1>1 DEF telling, ParityInv, LastInv, Wrote
  <2> QED BY <1>1, <2>1, <2>2, <2>3 DEF telling, ParityInv
<1>2. CASE Told!Crash
  <2>1. crashes' \in 0..Crashes["parity"]
    BY <1>2 DEF Told!Crash, ParityInv, Told!ParityAssumption
  <2> QED BY <1>2, <2>1, RunFails DEF Told!Crash
<1> QED BY <1>1, <1>2, ExecuteKeeps, DecisionKeeps, WorkerKeeps, ProbeKeeps, ReferenceKeeps, AuditKeeps,
           ParityStreamKeeps, EventKeeps, ComparisonKeeps, ReceiptKeeps, PersistKeeps, CrashTornTold
       DEF Told!Next

LEMMA ParityStarts ==
    ASSUME Told!ParityAssumption, Told!Init
    PROVE  ParityInv
<1>1. /\ ops = 0 /\ crashes = 0 /\ dead \in BOOLEAN /\ command = Told!Idle
      /\ ops \in 0..Ops["parity"] /\ crashes \in 0..Crashes["parity"]
      /\ evidence = [f \in Told!Files |-> None]
      /\ streams = [s \in Told!Streams |-> [lines |-> {}, lost |-> 0]]
  <2>1. ops = 0 /\ crashes = 0 /\ dead = FALSE
    BY DEF Told!Init
  <2>2. Ops["parity"] \in Nat /\ Crashes["parity"] \in Nat
    BY DEF Told!ParityAssumption
  <2>3. ops \in 0..Ops["parity"] /\ crashes \in 0..Crashes["parity"]
    BY <2>1, <2>2
  <2> QED BY <2>1, <2>3 DEF Told!Init
<1>2. \A p \in Told!Latest : Told!Of(p) \in Told!Files
  BY DEF Told!Files, Told!Of
<1>3. \A k \in Told!Kept, h \in GateActions : <<k, h>> \in Told!Files
  BY DEF Told!Files
<1>4. \A f \in Told!Files : evidence[f] = None
  BY <1>1
<1>5. Told!EvidenceLeads
  BY <1>4, ChainFacts DEF Told!EvidenceLeads, Told!Whole
<1>6. streams \in [Told!Streams -> [lines : SUBSET ((1..ops) \X (1..4)), lost : 0..ops]]
  BY <1>1
<1>7. EvidenceInv
  BY <1>1, <1>3, <1>4, <1>5, <1>6 DEF EvidenceInv
<1>8. "parity_latest" \in Told!Latest
  BY DEF Told!Latest
<1> QED BY <1>1, <1>2, <1>4, <1>7, <1>8 DEF ParityInv, LastInv

\* What an execution that wrote all its files says of itself.
LEMMA SaysItself ==
    ASSUME Told!ParityAssumption, NEW x \in Executed, x.outcome # "none", x.whole
    PROVE  /\ (Told!JobStatus(x) = "completed") = (Told!Actual(x) = "allow")
           /\ ((IF Told!Actual(x) = x.reference THEN "match" ELSE "divergence") # Told!ParityStatus(x))
                = (x.outcome = "worker_failed" \/ (x.overall = "hard_deny" /\ x.reference = "deny"))
           /\ (Told!AuditStatus(x) # Told!ParityStatus(x)) = (x.outcome = "budget_reservation_denied")
<1> PICK o \in {"worker_executed", "worker_failed", "budget_reservation_denied", "denied"},
         r \in {"allow", "deny"}, v \in {"allow", "deny", "hard_deny"} :
      o = x.outcome /\ r = x.reference /\ v = x.overall
  BY DEF Executed, Told!Executions
<1>1. \/ v = "allow" /\ r = "allow" /\ o \in {"worker_executed", "worker_failed", "budget_reservation_denied"}
      \/ v = "deny" /\ r = "deny" /\ o = "denied"
      \/ v = "hard_deny" /\ o = "denied"
  BY DEF Executed, Told!Overalls, Told!Outcomes
<1>2. /\ Told!Actual(x) = IF o = "worker_executed" THEN "allow" ELSE "deny"
      /\ Told!AuditStatus(x) = IF v = "hard_deny" THEN "divergence" ELSE "match"
  BY DEF Told!Actual, Told!AuditStatus
<1>3. Told!ParityStatus(x) = IF r = (IF o = "budget_reservation_denied" THEN "deny" ELSE v)
                             THEN "match" ELSE "divergence"
  BY DEF Told!ParityStatus
<1>4. (Told!JobStatus(x) = "completed") <=> (v = "allow" /\ o = "worker_executed")
  BY <1>1 DEF Told!JobStatus
<1> QED BY <1>1, <1>2, <1>3, <1>4

LEMMA LeadsToItself ==
    ASSUME ParityInv, Told!ParityAssumption
    PROVE  Told!IdsLead
<1>1. ASSUME NEW h \in GateActions, NEW x, x = evidence[<<"comparison", h>>], x # None
      PROVE  (Told!AuditStatus(x) # Told!ParityStatus(x)) = (x.outcome = "budget_reservation_denied")
  <2>1. x \in Executed /\ x.outcome # "none"
    <3>1. <<"comparison", h>> \in Told!Files /\ "comparison" \in Told!Kept
      BY DEF Told!Files, Told!Kept
    <3>2. x.kind = "run" /\ x.outcome # "none"
      BY <1>1, <3>1 DEF ParityInv, EvidenceInv
    <3>3. x \in Records
      BY <1>1, <3>1 DEF ParityInv, EvidenceInv
    <3> QED BY <3>2, <3>3, RecordFacts
  <2> PICK y : y = [x EXCEPT !.whole = TRUE]
    OBVIOUS
  <2>2. /\ y \in Executed /\ y.outcome = x.outcome /\ y.overall = x.overall /\ y.reference = x.reference
        /\ y.whole
    BY <2>1 DEF Executed, Told!Executions
  <2>3. Told!AuditStatus(y) = Told!AuditStatus(x) /\ Told!ParityStatus(y) = Told!ParityStatus(x)
    BY <2>2 DEF Told!AuditStatus, Told!ParityStatus
  <2> QED BY <2>1, <2>2, <2>3, SaysItself
<1>2. ASSUME NEW h \in GateActions, NEW x, x = evidence[<<"job", h>>], x # None
      PROVE  Told!JobIds(x).job = Told!CaptureIds(evidence[<<"event", h>>]).job
  <2>1. x.hash = h /\ evidence[<<"event", h>>].hash = h
    <3>1. "job" \in Told!Kept /\ "event" \in Told!Kept
      BY DEF Told!Kept
    <3> QED BY <1>2, <3>1 DEF ParityInv, EvidenceInv
  <2>2. \A z : Told!JobIds(z).job = Told!Id("job", <<z.hash>>) /\ Told!CaptureIds(z).job = Told!Id("job", <<z.hash>>)
    BY DEF Told!JobIds, Told!CaptureIds
  <2> QED BY <2>1, <2>2
<1> QED BY <1>1, <1>2 DEF Told!IdsLead

LEMMA StartedIsShown ==
    ASSUME ParityInv, Told!ParityAssumption
    PROVE  Told!ReportsStarted
<1>1. ASSUME Told!ParityNotStarted, NEW f \in Told!Files, evidence[f] # None
      PROVE  f[1] \in {"decision", "execution", "shadow_latest", "probe", "reference"}
  <2>1. \A p \in {"parity_latest", "reference_latest", "comparison_latest", "event_latest", "probe_latest"} :
          evidence[Told!Of(p)] = None
    BY <1>1 DEF Told!ParityNotStarted, Told!ParityFiles, Told!Latests
  <2>2. CASE f \in Told!Latest \X {None}
    <3>1. f = Told!Of(f[1]) /\ f[1] \in Told!Latest
      BY <2>2 DEF Told!Of
    <3> QED BY <1>1, <2>1, <3>1 DEF Told!Latest
  <2>3. CASE f \in Told!Kept \X GateActions
    <3> PICK k \in Told!Kept, h \in GateActions : f = <<k, h>>
      BY <2>3
    <3>1. k \notin {"event", "comparison", "job"}
      BY <1>1, <2>1 DEF ParityInv, EvidenceInv
    <3>2. f[1] = k
      OBVIOUS
    <3> QED BY <3>1, <3>2 DEF Told!Kept
  <2> QED BY <1>1, <2>2, <2>3 DEF Told!Files
<1>2. ASSUME Told!ShadowNotStarted, NEW f \in Told!Files
      PROVE  evidence[f] = None
  <2>1. evidence[Told!Of("decision")] = None /\ evidence[Told!Of("execution")] = None
    BY <1>2 DEF Told!ShadowNotStarted, Told!ShadowFiles, Told!Latests
  <2> QED BY <2>1 DEF ParityInv, EvidenceInv
<1> QED BY <1>1, <1>2 DEF Told!ReportsStarted

\* What is said of the last run, when it was an execution and wrote all its files.
LEMMA SaysTheSame ==
    ASSUME ParityInv, Told!ParityAssumption
    PROVE  Told!StatementsAgree
<1> SUFFICES ASSUME command.pc = "idle", ~dead, Told!Whole(Told!Of("parity_latest")),
                    evidence[Told!Of("parity_latest")].n = ops, ~Told!IsShadow("parity_latest"),
                    NEW x, x = evidence[Told!Of("parity_latest")]
             PROVE  /\ \A f \in Told!EventRefs(x) \cup Told!JobRefs(x) : evidence[f].n = x.n
                    /\ Told!Latests("reference_latest") = x /\ Told!Latests("event_latest") = x
                    /\ (Told!JobStatus(evidence[<<"job", x.hash>>]) = "completed") =
                          (Told!Actual(Told!Latests("event_latest")) = "allow")
                    /\ (Told!Summary # Told!ParityStatus(Told!Latests("comparison_latest"))) =
                          (x.outcome = "worker_failed" \/ (x.overall = "hard_deny" /\ x.reference = "deny"))
  BY DEF Told!StatementsAgree, Told!At, Told!Latests
<1>1. x # None /\ x.whole /\ x.kind # "shadow" /\ x.n = ops
  BY DEF Told!Whole, Told!IsShadow, Told!Latests
<1>2. x \in Executed /\ x.kind = "run" /\ x.hash \in GateActions
  <2>1. Told!Of("parity_latest") \in Told!Files
    BY DEF Told!Of, Told!Files, Told!Latest
  <2> QED BY <1>1, <2>1, RecordFacts DEF ParityInv, EvidenceInv
<1>3. Wrote(evidence, x, 10)
  BY <1>1, <1>2 DEF ParityInv, LastInv
<1> PICK h : h = x.hash
  BY Zenon
<1>4. /\ evidence[Told!Of("reference_latest")] = x /\ evidence[<<"event", h>>] = x
      /\ evidence[Told!Of("event_latest")] = x /\ evidence[<<"comparison", h>>] = x
      /\ evidence[Told!Of("comparison_latest")] = x /\ evidence[Told!Of("execution")] = x
      /\ evidence[<<"job", h>>] = x /\ evidence[Told!Of("decision")].n = x.n
      /\ x.probed => evidence[<<"probe", h>>].n = x.n
  <2>1. /\ evidence[Told!Chain(h)[3]] = x /\ evidence[Told!Chain(h)[4]] = x
        /\ evidence[Told!Chain(h)[5]] = x /\ evidence[Told!Chain(h)[6]] = x
        /\ evidence[Told!Chain(h)[7]] = x /\ evidence[Told!Chain(h)[8]] = x
        /\ evidence[Told!Chain(h)[10]] = x
    BY <1>3 DEF Wrote
  <2>2. /\ Told!Chain(h)[3] = Told!Of("reference_latest") /\ Told!Chain(h)[4] = <<"event", h>>
        /\ Told!Chain(h)[5] = Told!Of("event_latest") /\ Told!Chain(h)[6] = <<"comparison", h>>
        /\ Told!Chain(h)[7] = Told!Of("comparison_latest") /\ Told!Chain(h)[8] = Told!Of("execution")
        /\ Told!Chain(h)[10] = <<"job", h>>
    BY <1>2, ChainFacts, Zenon
  <2>3. /\ evidence[Told!Of("decision")].n = x.n
        /\ x.probed => evidence[<<"probe", h>>].n = x.n
    BY <1>3 DEF Wrote
  <2> QED BY <2>1, <2>2, <2>3, Zenon
<1>5. x.outcome # "none"
  <2>1. "comparison" \in Told!Kept
    BY DEF Told!Kept
  <2> QED BY <1>1, <1>2, <1>4, <2>1 DEF ParityInv, EvidenceInv
<1>6. \A f \in Told!EventRefs(x) \cup Told!JobRefs(x) : evidence[f].n = x.n
  BY <1>4 DEF Told!EventRefs, Told!JobRefs
<1>7. Told!Summary = IF Told!Actual(x) = x.reference THEN "match" ELSE "divergence"
  BY <1>1, <1>4 DEF Told!Summary, Told!Latests
<1> QED BY <1>1, <1>2, <1>4, <1>5, <1>6, <1>7, SaysItself DEF Told!Latests

LEMMA ParityHolds ==
    ASSUME ParityInv, Told!ParityAssumption
    PROVE  /\ Told!TypeOK /\ Told!EvidenceLeads /\ Told!StatementsAgree
           /\ Told!IdsLead /\ Told!ReportsStarted
<1>1. /\ evidence \in [Told!Files -> Told!Executions \cup Told!Captures \cup {None}]
      /\ \A f \in Told!Files : evidence[f] = None \/ evidence[f].n \in 0..ops
  BY DEF ParityInv, EvidenceInv, Records, Executed
<1>2. /\ \A s \in Told!Streams : streams[s].lines \subseteq (1..ops) \X (1..4) /\ streams[s].lost \in 0..ops
      /\ dead \in BOOLEAN /\ ops \in 0..Ops["parity"] /\ crashes \in 0..Crashes["parity"]
  BY DEF ParityInv, EvidenceInv
<1> QED BY <1>1, <1>2, LeadsToItself, StartedIsShown, SaysTheSame DEF ParityInv, EvidenceInv, Told!TypeOK

-----------------------------------------------------------------------------
(* The evidence.                                                           *)

\* Whatever a shadow run, a gate or an execution leaves behind stands: a capture's files
\* follow one another and are charged and settled as proved, a sentenced agent is refused
\* and what a preflight, a comparison and a verification tell stands in their files, and
\* an execution's files lead to the ones before them and agree; whoever else runs or dies
\* in between (persist_shadow_run_capture, capture_decision, compare_logs, contract_verify,
\* capture_runtime_execution).
THEOREM EvidenceStandsHolds == Spec => []EvidenceStands
<1> DEFINE Inv == /\ part = "shadow" => ShadowInv
                  /\ part = "gates" => GatesInv
                  /\ part = "parity" => ParityInv
<1>1. Init => Inv
  BY ShadowStarts, GatesStart, ParityStarts, SurfacesAssumption DEF Init, SurfacesAssumption
<1>2. Inv /\ [Next]_vars => Inv'
  BY Steps, ShadowKept, GatesKept, ParityKept, SurfacesAssumption DEF SurfacesAssumption
<1>3. Inv => EvidenceStands
  BY ShadowHolds, GatesHold, ParityHolds, SurfacesAssumption DEF EvidenceStands, SurfacesAssumption
<1> QED BY <1>1, <1>2, <1>3, PTL DEF Spec

===============================================================================
