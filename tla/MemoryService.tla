---------------------------- MODULE MemoryService ----------------------------
(***************************************************************************)
(* The memory of the agents: one file of entries per agent that every      *)
(* operation reads and writes whole, one stream of receipts for all, from  *)
(* which the lineage of a key is rebuilt, and the personal agent's sync    *)
(* state, which remembers the documents it has already put into its        *)
(* memory.  Operations are the commands of the command line and the agent's*)
(* loop; each file access is a step of its own.                            *)
(* A key stands for a category with its key.  Receipts of reads and of     *)
(* pruning are no nodes of any key's lineage and are left out.             *)
(***************************************************************************)
EXTENDS Integers, Sequences, FiniteSets

CONSTANTS
    Actors,         \* processes
    Serial,         \* BOOLEAN: a command starts when no other one runs
    Agents, Me,     \* agents with a memory; the personal agent
    Keys, Docs,     \* keys; those of the personal agent's documents
    Texts,          \* contents
    None,
    Begun,          \* what the memories may hold at the start: keys and texts, in their order
    MaxEntries,     \* policy: entries per agent
    Retention,      \* policy: age of an entry that is kept
    MaxOps,         \* bound: commands
    MaxTime,        \* bound: clock
    MaxCrashes      \* bound: deaths and failed writes

MemoryAssumption ==
    /\ Me \in Agents /\ Docs \subseteq Keys /\ Serial \in BOOLEAN
    /\ None \notin Keys \cup Texts
    /\ \A begun \in Begun :
        /\ begun \in [Agents -> Seq([key: Keys, text: Texts])]
        /\ \A a \in Agents : /\ Len(begun[a]) <= MaxEntries
                            /\ \A i, j \in DOMAIN begun[a] : begun[a][i].key = begun[a][j].key => i = j
    /\ MaxEntries \in Nat \ {0} /\ {Retention, MaxOps, MaxTime, MaxCrashes} \subseteq Nat

VARIABLES
    memory,         \* Agents -> the entries of its file, in their order
    lineage,        \* Agents \X Keys -> the receipts that are nodes of the key, in their order
    synced,         \* Docs -> the text whose hash the sync state holds, or None
    command,        \* Actors -> the command at work
    clock, ops, crashes,
    gone,           \* history: entries dropped by eviction or retention
    torn,           \* history: entries whose receipt was never written
    ahead           \* history: documents stored by a sync that left no state

vars == <<memory, lineage, synced, command, clock, ops, crashes, gone, torn, ahead>>

Entry == [key: Keys, text: Texts, by: {"operator", "fork", "sync"}, updated: 0..MaxTime]

Node == [op: {"write"}, text: Texts] \cup [op: {"remove"}, text: {None}]

\* No command.  "since" is when a fork began, "cutoff" what a prune keeps.
Idle == [pc |-> "idle", op |-> "none", agent |-> Me, file |-> <<>>, todo |-> <<>>, kept |-> {},
         left |-> {}, since |-> 0, cutoff |-> 0]

KeysOf(file) == {file[i].key : i \in DOMAIN file}
Holds(a, k, t) == \E i \in DOMAIN memory[a] : memory[a][i].key = k /\ memory[a][i].text = t

\* Type invariant.
TypeOK ==
    /\ memory \in [Agents -> Seq(Entry)]
    /\ lineage \in [Agents \X Keys -> Seq(Node)]
    /\ synced \in [Docs -> Texts \cup {None}]
    /\ DOMAIN command = Actors
    /\ clock \in 0..MaxTime /\ ops \in 0..MaxOps /\ crashes \in 0..MaxCrashes
    /\ gone \cup torn \subseteq Agents \X Keys /\ ahead \subseteq Docs

\* Every agent has what an operator wrote at time 0.
Init ==
    /\ \E begun \in Begun :
        /\ memory = [a \in Agents |-> [i \in DOMAIN begun[a] |->
              [key |-> begun[a][i].key, text |-> begun[a][i].text, by |-> "operator", updated |-> 0]]]
        /\ lineage = [n \in Agents \X Keys |->
              LET mine == SelectSeq(begun[n[1]], LAMBDA e : e.key = n[2])
              IN  [i \in DOMAIN mine |-> [op |-> "write", text |-> mine[i].text]]]
    /\ synced = [d \in Docs |-> None]
    /\ command = [o \in Actors |-> Idle]
    /\ clock = 0 /\ ops = 0 /\ crashes = 0
    /\ gone = {} /\ torn = {} /\ ahead = {}

----------------------------------------------------------------------------
(* The policy.                                                             *)

\* Sorted by the time of the last update, what is as old in the order it has.
ByAge(file) ==
    LET before[t \in 0..(MaxTime + 1)] ==
            IF t = 0 THEN <<>>
            ELSE before[t - 1] \o SelectSeq(file, LAMBDA e : e.updated = t - 1)
    IN  before[MaxTime + 1]

EvictFirst(file) == IF Len(file) >= MaxEntries THEN Tail(file) ELSE file

\* A file that is full is sorted and loses its oldest entry, whether or not the
\* key is new.
Evict(file) == IF Len(file) >= MaxEntries THEN Tail(ByAge(file)) ELSE file

UpsertAppends(file, k, t, by) ==
    Append(file, [key |-> k, text |-> t, by |-> by, updated |-> clock])

\* An entry of the same key keeps its place.
Upsert(file, k, t, by) ==
    IF k \in KeysOf(file)
      THEN [i \in DOMAIN file |->
              IF file[i].key = k THEN [file[i] EXCEPT !.text = t, !.updated = clock, !.by = by] ELSE file[i]]
      ELSE Append(file, [key |-> k, text |-> t, by |-> by, updated |-> clock])

Written(file, k, t, by) == Upsert(Evict(file), k, t, by)
Without(file, k) == SelectSeq(file, LAMBDA e : e.key # k)
Kept(file, cutoff) == SelectSeq(file, LAMBDA e : e.updated >= cutoff)
Cutoff == IF clock >= Retention THEN clock - Retention ELSE 0
\* What compact would remove.
Duplicates(file) == Len(file) - Cardinality(KeysOf(file))

----------------------------------------------------------------------------
(* Starting a command.                                                     *)

MayStart(o) ==
    /\ command[o].pc = "idle" /\ ops < MaxOps
    /\ Serial => \A p \in Actors : command[p].pc = "idle"

Start(o, c) ==
    /\ MayStart(o) /\ ops' = ops + 1
    /\ command' = [command EXCEPT ![o] = c]
    /\ UNCHANGED <<memory, lineage, synced, clock, crashes, gone, torn, ahead>>

One(k, t, by) == [key |-> k, text |-> t, by |-> by]

\* MemoryService::write of the command line
Write(o) == \E a \in Agents, k \in Keys, t \in Texts :
    Start(o, [Idle EXCEPT !.pc = "load", !.op = "write", !.agent = a, !.todo = <<One(k, t, "operator")>>])

\* MemoryService::remove
Forget(o) == \E a \in Agents, k \in Keys :
    Start(o, [Idle EXCEPT !.pc = "load", !.op = "remove", !.agent = a, !.todo = <<One(k, None, "operator")>>])

\* The entries of the source are selected, all of them or those of one key that
\* has a node, which is what a subgraph comes to: a parent has the key of its
\* child.  The selection is read once, and each entry is written to the target
\* as a write of its own.
Selected(s, focus) ==
    SelectSeq(memory[s], LAMBDA e : focus = None \/ e.key = focus)

ForkSelection(s, focus) ==
    LET sel == Selected(s, focus) IN [i \in DOMAIN sel |-> One(sel[i].key, sel[i].text, "fork")]

Forking(o) == \E s, a \in Agents, focus \in Keys \cup {None} :
    /\ focus # None => lineage[s, focus] # <<>>
    /\ LET sel == ForkSelection(s, focus) IN
       Start(o, [Idle EXCEPT !.pc = IF sel = <<>> THEN "report" ELSE "load", !.op = "fork", !.agent = a,
                             !.since = clock, !.todo = sel, !.kept = {sel[i] : i \in DOMAIN sel}])

Fork(o) == Forking(o)

\* A replay asks the kernel's court and authority first, and writes nothing when
\* they refuse; it then goes on as a fork does, but leaves no artifact.
Replay(o) == Start(o, Idle) \/ Forking(o)

\* sync_personal_agent_memory reads the documents, which the operator may have edited
\* in any way since the last time, writes those that differ from the sync state, then
\* the state with all of them, then recalls.
Sync(o) == \E docs \in [Docs -> Texts] :
    LET changed == {d \in Docs : docs[d] # synced[d]}
        places == 1..Cardinality(changed)
        order == CHOOSE q \in [places -> changed] : \A d \in changed : \E i \in places : q[i] = d
        todo == [i \in places |-> One(order[i], docs[order[i]], "sync")] IN
    Start(o, [Idle EXCEPT !.pc = IF todo = <<>> THEN "state" ELSE "load", !.op = "sync", !.agent = Me,
                          !.todo = todo, !.kept = {One(d, docs[d], "sync") : d \in Docs}])

\* MemoryService::prune, agent after agent; an error ends it.  prune_parallel
\* goes on with the other agents, and then leaves no receipt either.
Prune(o) ==
    Start(o, [Idle EXCEPT !.pc = "prune", !.op = "prune", !.left = Agents, !.cutoff = Cutoff])

----------------------------------------------------------------------------
(* The steps of a command.                                                 *)

world == <<clock, ops, crashes>>

\* The file is read and changed in memory; a removal that finds nothing goes on
\* to its receipt.
Load(o) == LET c == command[o] IN
    /\ c.pc = "load"
    /\ LET e   == Head(c.todo)
           old == memory[c.agent]
           new == IF c.op = "remove" THEN Without(old, e.key) ELSE Written(old, e.key, e.text, e.by)
       IN  command' = [command EXCEPT ![o].pc = IF new = old /\ c.op = "remove" THEN "receipt" ELSE "save",
                                      ![o].file = new]
    /\ UNCHANGED <<world, memory, lineage, synced, gone, torn, ahead>>

SaveUnreceipted(o) == LET c == command[o]
               dropped == KeysOf(memory[c.agent]) \ KeysOf(c.file) IN
    /\ c.pc = "save"
    /\ memory' = [memory EXCEPT ![c.agent] = c.file]
    /\ gone' = (gone \cup {<<c.agent, k>> : k \in IF c.op = "remove" THEN {} ELSE dropped})
               \ {<<c.agent, k>> : k \in KeysOf(c.file)}
    /\ command' = [command EXCEPT ![o] = IF c.op = "remove" THEN Idle ELSE [c EXCEPT !.pc = "receipt"]]
    /\ UNCHANGED <<world, lineage, synced, torn, ahead>>

Save(o) == LET c == command[o]
               dropped == KeysOf(memory[c.agent]) \ KeysOf(c.file) IN
    /\ c.pc = "save"
    /\ memory' = [memory EXCEPT ![c.agent] = c.file]
    /\ gone' = (gone \cup {<<c.agent, k>> : k \in IF c.op = "remove" THEN {} ELSE dropped})
               \ {<<c.agent, k>> : k \in KeysOf(c.file)}
    /\ command' = [command EXCEPT ![o].pc = "receipt"]
    /\ UNCHANGED <<world, lineage, synced, torn, ahead>>

AfterReceiptOnce(c) ==
    CASE c.op = "sync" -> [c EXCEPT !.pc = "state", !.todo = <<>>, !.file = <<>>]
      [] c.op = "fork" -> [c EXCEPT !.pc = "report", !.todo = <<>>, !.file = <<>>]
      [] OTHER -> Idle

\* What follows a receipt: the next entry, the sync state, the artifact, nothing.
AfterReceipt(c) ==
    CASE Len(c.todo) > 1 -> [c EXCEPT !.pc = "load", !.todo = Tail(@), !.file = <<>>]
      [] c.op = "sync" -> [c EXCEPT !.pc = "state", !.todo = <<>>, !.file = <<>>]
      [] c.op = "fork" -> [c EXCEPT !.pc = "report", !.todo = <<>>, !.file = <<>>]
      [] OTHER -> Idle

Receipt(o) == LET c == command[o]
                  e == Head(c.todo) IN
    /\ c.pc = "receipt"
    /\ lineage' = [lineage EXCEPT ![<<c.agent, e.key>>] =
          Append(@, [op |-> IF c.op = "remove" THEN "remove" ELSE "write", text |-> e.text])]
    /\ torn' = torn \ {<<c.agent, e.key>>}
    /\ ahead' = IF c.op = "sync" THEN ahead \ {e.key} ELSE ahead
    /\ command' = [command EXCEPT ![o] = AfterReceipt(c)]
    /\ UNCHANGED <<world, memory, synced, gone>>

\* write_memory_sync_state; the recall that follows only reads.
SaveState(o) == LET c == command[o] IN
    /\ c.pc = "state"
    /\ synced' = [d \in Docs |-> (CHOOSE e \in c.kept : e.key = d).text]
    /\ command' = [command EXCEPT ![o] = Idle]
    /\ UNCHANGED <<world, memory, lineage, gone, torn, ahead>>

\* The artifact of a fork, the answer of a replay.
Report(o) ==
    /\ command[o].pc = "report"
    /\ command' = [command EXCEPT ![o] = Idle]
    /\ UNCHANGED <<world, memory, lineage, synced, gone, torn, ahead>>

PruneAgent(o) == LET c == command[o] IN
    /\ c.pc = "prune"
    /\ IF c.left = {}
       THEN /\ command' = [command EXCEPT ![o] = Idle]          \* after its receipt
            /\ UNCHANGED <<memory, gone>>
       ELSE \E a \in c.left :
            LET new == Kept(memory[a], c.cutoff) IN
            /\ memory' = [memory EXCEPT ![a] = new]
            /\ gone' = gone \cup {<<a, k>> : k \in KeysOf(memory[a]) \ KeysOf(new)}
            /\ command' = [command EXCEPT ![o].left = @ \ {a}]
    /\ UNCHANGED <<world, lineage, synced, torn, ahead>>

----------------------------------------------------------------------------
\* A process dies, or a file cannot be written and the command ends with Err.
Crash(o) == LET c == command[o] IN
    /\ c.pc # "idle" /\ crashes < MaxCrashes
    /\ crashes' = crashes + 1
    /\ command' = [command EXCEPT ![o] = Idle]
    /\ torn' = IF c.pc = "receipt" THEN torn \cup {<<c.agent, Head(c.todo).key>>} ELSE torn
    /\ ahead' = IF c.op # "sync" THEN ahead
                ELSE ahead \cup ({e.key : e \in c.kept}
                                 \ {c.todo[i].key : i \in (IF c.pc = "receipt" THEN 2 ELSE 1)..Len(c.todo)})
    /\ UNCHANGED <<memory, lineage, synced, clock, ops, gone>>

Tick ==
    /\ clock < MaxTime /\ clock' = clock + 1
    /\ UNCHANGED <<memory, lineage, synced, command, ops, crashes, gone, torn, ahead>>

Next ==
    \/ Tick
    \/ \E o \in Actors :
        \/ Write(o) \/ Forget(o) \/ Fork(o) \/ Replay(o) \/ Sync(o) \/ Prune(o)
        \/ Load(o) \/ Save(o) \/ Receipt(o) \/ SaveState(o) \/ Report(o) \/ PruneAgent(o) \/ Crash(o)

Spec == Init /\ [][Next]_vars

----------------------------------------------------------------------------
AtRest == \A o \in Actors : command[o].pc = "idle"

\* No overlap of commands and no death makes a file that is over its limit or
\* holds a key twice, so that compact never finds anything (write, compact).
FilesAreSound == \A a \in Agents :
    Len(memory[a]) <= MaxEntries /\ Duplicates(memory[a]) = 0

\* Between commands the lineage of a key tells what became of it: a key that is
\* there was written last and with this text, and one whose last node is a write
\* but that is not there was evicted or had expired
\* (build_graph_nodes_from_receipts).  A command that died before its receipt
\* excuses its key.
LineageAgrees == AtRest => \A a \in Agents, k \in Keys : <<a, k>> \notin torn =>
    LET n == lineage[a, k] IN
    IF k \in KeysOf(memory[a])
      THEN n # <<>> /\ n[Len(n)].op = "write" /\ Holds(a, k, n[Len(n)].text)
      ELSE n # <<>> /\ n[Len(n)].op = "write" => <<a, k>> \in gone

\* A fork or a replay that reports has written every entry it counts, with its
\* receipt, and all of them are in the target, whatever was there before; one that
\* a later of its own writes evicted is missed only when nothing older was left to
\* evict, the whole file being of the fork's time (handle_memory_fork, write).
ForkArrives == \A o \in Actors : command[o].pc = "report" =>
    LET c == command[o]
        f == memory[c.agent] IN
    \A e \in c.kept :
        /\ LET n == lineage[c.agent, e.key] IN
           n # <<>> /\ n[Len(n)] = [op |-> "write", text |-> e.text]
        /\ \/ Holds(c.agent, e.key, e.text)
           \/ \A i \in DOMAIN f : f[i].updated >= c.since

\* What the report says: not so when the target is nearly full of entries of the
\* fork's own second.
ForkedIsThere == \A o \in Actors : command[o].pc = "report" =>
    \A e \in command[o].kept : Holds(command[o].agent, e.key, e.text)

Forgotten(d) == LET n == lineage[Me, d] IN n # <<>> /\ n[Len(n)].op = "remove"

\* The personal agent's sync state never leads its memory: a document whose hash
\* it holds is what the memory holds, unless the entry was dropped, removed or
\* overwritten by somebody else since, or a sync died on it
\* (sync_personal_agent_memory).
StateFollowsMemory == AtRest => \A d \in Docs :
    \/ synced[d] = None \/ <<Me, d>> \in gone \cup torn \/ d \in ahead \/ Forgotten(d)
    \/ \E i \in DOMAIN memory[Me] : memory[Me][i].key = d
            /\ (memory[Me][i].by = "sync" => memory[Me][i].text = synced[d])
=============================================================================
