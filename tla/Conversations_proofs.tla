-------------------------- MODULE Conversations_proofs --------------------------
(***************************************************************************)
(* What is proved of the surfaces the operator and the adapters speak      *)
(* through, in the manner of Surfaces_proofs: an inductive invariant for   *)
(* each part.                                                              *)
(* Channels: a command is a script of writes; how much of it is left says  *)
(* which of the files agree already.                                       *)
(* Sessions: a recording reads and writes five files in turn beside the    *)
(* operator; the invariant says what it knows, and what stands of it.      *)
(***************************************************************************)
EXTENDS Surfaces, Sequences, FiniteSetTheorems, SequenceTheorems, TLAPS

-----------------------------------------------------------------------------
(* What a step of the whole does to these parts.                           *)

\* A step of the whole is a step of the part at work, or leaves its state alone.
LEMMA Steps ==
    ASSUME [Next]_vars
    PROVE  /\ part' = part
           /\ part = "channel" => Channel!Next \/ UNCHANGED <<channel, command, clock, ops, crashes, torn>>
           /\ part = "session" => Session!Next \/ UNCHANGED <<session, command, ops, crashes, torn>>
<1>1. CASE UNCHANGED vars
  BY <1>1 DEF vars
<1>2. CASE Next
  BY <1>2 DEF Next, Rest
<1> QED BY <1>1, <1>2

-----------------------------------------------------------------------------
(* The channels.                                                           *)

\* The writes a command of the channels has left, by what it is.
ChannelLeft(op, todo) ==
    \/ op = "sync" /\ todo = <<"sync">>
    \/ op = "enqueue" /\ todo \in {<<"delivery", "snapshots", "diagnostic">>,
                                   <<"snapshots", "diagnostic">>, <<"diagnostic">>,
                                   <<"delivery", "snapshots">>, <<"snapshots">>}
    \/ op = "update" /\ todo \in {<<"delivery", "follow", "snapshots">>,
                                  <<"follow", "snapshots">>, <<"snapshots">>}
    \/ op = "agent" /\ todo \in
         {<<"load", "save", "snapshots", "config", "manifest", "sync", "load", "save", "snapshots">>,
          <<"save", "snapshots", "config", "manifest", "sync", "load", "save", "snapshots">>,
          <<"snapshots", "config", "manifest", "sync", "load", "save", "snapshots">>,
          <<"config", "manifest", "sync", "load", "save", "snapshots">>,
          <<"manifest", "sync", "load", "save", "snapshots">>,
          <<"sync", "load", "save", "snapshots">>,
          <<"load", "save", "snapshots">>, <<"save", "snapshots">>, <<"snapshots">>}

ChannelWrites == {"sync", "delivery", "snapshots", "diagnostic", "follow", "load", "save",
                  "config", "manifest"}
ChannelStates == {"absent", "off", "on"}
ChannelCommands ==
    [op : {"none", "sync", "enqueue", "update", "agent"}, config : [Channel!Kinds -> BOOLEAN],
     registry : [Channel!Kinds -> ChannelStates], id : Deliveries \cup {None},
     record : Channel!Records \cup {None}, todo : Seq(ChannelWrites)]

\* How far the agent's command has come, by the number of writes it has left.
AgentAt(c, n) ==
    /\ n <= 5 => config = c.config
    /\ n <= 4 => (c.config["telegram"] => manifest)
    /\ n <= 3 => (c.config["telegram"] => registry["telegram"] = "on")
    /\ n = 2 \/ n = 8 => c.registry["telegram"] # "absent"
    /\ n = 2 => c.registry = registry
    /\ n = 1 => (registry["hook"] = "on") = c.config["hook"]
AgentInv(c) == AgentAt(c, Len(c.todo))

\* A delivery that is enqueued has no diagnostic until it is written, and one that has
\* been written is what the command has in hand.
DeliveryInv(c) ==
    /\ c.id \in Deliveries /\ c.record \in Channel!Records
    /\ IF Head(c.todo) = "delivery" THEN c.op = "enqueue" => diagnostic[c.id] = None
                                    ELSE delivery[c.id] = c.record

ChannelCommandInv(c) ==
    /\ c \in ChannelCommands /\ ChannelLeft(c.op, c.todo)
    /\ c.op = "agent" => AgentInv(c)
    /\ c.op \in {"enqueue", "update"} => DeliveryInv(c)

\* What the files agree in while c is at work: the registry while the agent is not, the
\* health history unless a snapshot is to come, and the diagnostics but the one to follow.
RegistryAgrees ==
    /\ (registry["hook"] = "on") = config["hook"]
    /\ config["telegram"] => registry["telegram"] = "on"
HealthAgrees == \A k \in Channel!Kinds : registry[k] # "absent" => newest[k] = Channel!Health(k)
ToSnapshot(c) == c.op # "sync" /\ c.todo \notin {<<>>, <<"diagnostic">>}
ToFollow(c, d) == c.op = "update" /\ c.id = d /\ Head(c.todo) = "follow"
FilesAgree(c) ==
    /\ c.op # "agent" /\ "registry" \notin torn => RegistryAgrees
    /\ ~ToSnapshot(c) /\ "health" \notin torn => HealthAgrees
    /\ \A d \in Deliveries : diagnostic[d] # None /\ d \notin torn /\ ~ToFollow(c, d) =>
         diagnostic[d] = delivery[d].status

\* The inductive invariant: one command at most is at work.
ChannelShared ==
    /\ Channel!TypeOK
    /\ \A d \in Deliveries : diagnostic[d] # None => delivery[d] # None
ChannelInv ==
    /\ ChannelShared
    /\ command \in [Operators -> ChannelCommands]
    /\ \A o \in Operators : command[o] # Channel!Idle =>
         /\ ChannelCommandInv(command[o]) /\ FilesAgree(command[o])
         /\ \A p \in Operators : p = o \/ command[p] = Channel!Idle
    /\ Channel!Quiet => FilesAgree(Channel!Idle)

\* Each script of a command of the channels, taken apart at its first write.
LEMMA ChannelTodo ==
    ASSUME NEW op, NEW t, ChannelLeft(op, t)
    PROVE  /\ t \in Seq(ChannelWrites) /\ t # <<>> /\ op # "none"
           /\ op \in {"agent", "update"} => t # <<"diagnostic">>
           /\ Tail(t) = <<>> <=> Len(t) = 1
           /\ Len(t) # 1 => ChannelLeft(op, Tail(t))
           /\ Head(t) = "sync" => (op = "sync" /\ Len(t) = 1) \/ (op = "agent" /\ Len(t) = 4 /\ Len(Tail(t)) = 3)
           /\ Head(t) = "config" => op = "agent" /\ Len(t) # 1 /\ Len(t) = 6 /\ Len(Tail(t)) = 5
           /\ Head(t) = "manifest" => op = "agent" /\ Len(t) # 1 /\ Len(t) = 5 /\ Len(Tail(t)) = 4
           /\ Head(t) = "load" =>
                /\ op = "agent" /\ Len(t) # 1
                /\ (Len(t) = 3 /\ Len(Tail(t)) = 2) \/ (Len(t) = 9 /\ Len(Tail(t)) = 8)
           /\ Head(t) = "save" =>
                /\ op = "agent" /\ Len(t) # 1
                /\ (Len(t) = 2 /\ Len(Tail(t)) = 1) \/ (Len(t) = 8 /\ Len(Tail(t)) = 7)
           /\ Head(t) = "delivery" => \/ op = "enqueue" /\ Len(t) # 1 /\ Head(Tail(t)) = "snapshots"
                                      \/ op = "update" /\ Len(t) # 1 /\ Head(Tail(t)) = "follow"
           /\ Head(t) = "follow" => op = "update" /\ Len(t) # 1 /\ Head(Tail(t)) = "snapshots"
           /\ Head(t) = "diagnostic" => op = "enqueue" /\ t = <<"diagnostic">> /\ Len(t) = 1
           /\ Head(t) = "snapshots" => \/ op = "agent" /\ Len(t) = 1
                                       \/ op = "agent" /\ Len(t) = 7 /\ Len(Tail(t)) = 6
                                       \/ op = "update" /\ Len(t) = 1
                                       \/ op = "enqueue" /\ Len(t) = 1
                                       \/ op = "enqueue" /\ Len(t) # 1 /\ Tail(t) = <<"diagnostic">>
<1>1. CASE op = "sync"
  <2>1. t = <<"sync">>
    BY <1>1 DEF ChannelLeft
  <2> QED BY <1>1, <2>1 DEF ChannelWrites
<1>2. CASE op = "enqueue"
  <2>1. CASE t = <<"delivery", "snapshots", "diagnostic">>
    BY <1>2, <2>1 DEF ChannelLeft, ChannelWrites
  <2>2. CASE t = <<"snapshots", "diagnostic">>
    BY <1>2, <2>2 DEF ChannelLeft, ChannelWrites
  <2>3. CASE t = <<"diagnostic">>
    BY <1>2, <2>3 DEF ChannelLeft, ChannelWrites
  <2>4. CASE t = <<"delivery", "snapshots">>
    BY <1>2, <2>4 DEF ChannelLeft, ChannelWrites
  <2>5. CASE t = <<"snapshots">>
    BY <1>2, <2>5 DEF ChannelLeft, ChannelWrites
  <2> QED BY <1>2, <2>1, <2>2, <2>3, <2>4, <2>5 DEF ChannelLeft
<1>3. CASE op = "update"
  <2>1. CASE t = <<"delivery", "follow", "snapshots">>
    BY <1>3, <2>1 DEF ChannelLeft, ChannelWrites
  <2>2. CASE t = <<"follow", "snapshots">>
    BY <1>3, <2>2 DEF ChannelLeft, ChannelWrites
  <2>3. CASE t = <<"snapshots">>
    BY <1>3, <2>3 DEF ChannelLeft, ChannelWrites
  <2> QED BY <1>3, <2>1, <2>2, <2>3 DEF ChannelLeft
<1>4. CASE op = "agent"
  <2>1. CASE t = <<"load", "save", "snapshots", "config", "manifest", "sync", "load", "save", "snapshots">>
    BY <1>4, <2>1 DEF ChannelLeft, ChannelWrites
  <2>2. CASE t = <<"save", "snapshots", "config", "manifest", "sync", "load", "save", "snapshots">>
    BY <1>4, <2>2 DEF ChannelLeft, ChannelWrites
  <2>3. CASE t = <<"snapshots", "config", "manifest", "sync", "load", "save", "snapshots">>
    BY <1>4, <2>3 DEF ChannelLeft, ChannelWrites
  <2>4. CASE t = <<"config", "manifest", "sync", "load", "save", "snapshots">>
    BY <1>4, <2>4 DEF ChannelLeft, ChannelWrites
  <2>5. CASE t = <<"manifest", "sync", "load", "save", "snapshots">>
    BY <1>4, <2>5 DEF ChannelLeft, ChannelWrites
  <2>6. CASE t = <<"sync", "load", "save", "snapshots">>
    BY <1>4, <2>6 DEF ChannelLeft, ChannelWrites
  <2>7. CASE t = <<"load", "save", "snapshots">>
    BY <1>4, <2>7 DEF ChannelLeft, ChannelWrites
  <2>8. CASE t = <<"save", "snapshots">>
    BY <1>4, <2>8 DEF ChannelLeft, ChannelWrites
  <2>9. CASE t = <<"snapshots">>
    BY <1>4, <2>9 DEF ChannelLeft, ChannelWrites
  <2> QED BY <1>4, <2>1, <2>2, <2>3, <2>4, <2>5, <2>6, <2>7, <2>8, <2>9 DEF ChannelLeft
<1> QED BY <1>1, <1>2, <1>3, <1>4 DEF ChannelLeft

\* The health of a channel is read off the registry, the deliveries and the clock.
LEMMA HealthSame ==
    ASSUME UNCHANGED <<registry, delivery, clock>>
    PROVE  /\ \A k : Channel!Health(k)' = Channel!Health(k)
           /\ newest' = newest /\ HealthAgrees => HealthAgrees'
<1>1. \A k : Channel!Health(k)' = Channel!Health(k)
  BY DEF Channel!Health, Channel!Label, Channel!Latest, Channel!Count, Channel!To, Channel!Sent,
         Channel!Archived
<1> QED BY <1>1 DEF HealthAgrees

\* Nobody at work is a command at no write, and the parts of its record.
LEMMA ChannelIdle ==
    /\ Channel!Idle \in ChannelCommands /\ Channel!Idle.op = "none" /\ Channel!Idle.todo = <<>>
    /\ FilesAgree(Channel!Idle) => \A c : FilesAgree(c)
    /\ (FilesAgree(Channel!Idle) => \A c : FilesAgree(c))'
<1>1. /\ Channel!Idle \in ChannelCommands /\ Channel!Idle.op = "none" /\ Channel!Idle.todo = <<>>
  BY DEF Channel!Idle, ChannelCommands, ChannelStates, Channel!Kinds
<1>2. ~ToSnapshot(Channel!Idle) /\ \A d : ~ToFollow(Channel!Idle, d)
  BY <1>1 DEF ToSnapshot, ToFollow
<1>3. FilesAgree(Channel!Idle) => \A c : FilesAgree(c)
  BY <1>1, <1>2 DEF FilesAgree
<1>4. (FilesAgree(Channel!Idle) => \A c : FilesAgree(c))'
  BY <1>1, <1>2 DEF FilesAgree
<1> QED BY <1>1, <1>3, <1>4

\* A command goes on or ends, and the others are idle.
LEMMA ChannelTurn ==
    ASSUME ChannelInv, NEW o \in Operators, NEW d,
           \A p \in Operators : p = o \/ command[p] = Channel!Idle,
           command' = [command EXCEPT ![o] = d],
           d = Channel!Idle \/ ChannelCommandInv(d)', FilesAgree(d)', ChannelShared'
    PROVE  ChannelInv'
<1>1. d \in ChannelCommands
  BY ChannelIdle DEF ChannelCommandInv
<1>2. /\ command' \in [Operators -> ChannelCommands] /\ command'[o] = d
      /\ \A p \in Operators : p = o \/ command'[p] = Channel!Idle
  BY <1>1 DEF ChannelInv
<1>3. \A p \in Operators : command'[p] # Channel!Idle => p = o
  BY <1>2
<1>4. \A p \in Operators : command'[p] # Channel!Idle =>
         /\ ChannelCommandInv(command[p])' /\ FilesAgree(command[p])'
         /\ \A q \in Operators : q = p \/ command'[q] = Channel!Idle
  <2> SUFFICES ASSUME NEW p \in Operators, command'[p] # Channel!Idle
               PROVE  /\ ChannelCommandInv(command[p])' /\ FilesAgree(command[p])'
                      /\ \A q \in Operators : q = p \/ command'[q] = Channel!Idle
    OBVIOUS
  <2>1. p = o /\ command'[p] = d
    BY <1>2, <1>3
  <2>2. ChannelCommandInv(d)' => ChannelCommandInv(command[p])'
    BY <2>1 DEF ChannelCommandInv, AgentInv, DeliveryInv
  <2>3. FilesAgree(d)' => FilesAgree(command[p])'
    BY <2>1 DEF FilesAgree, ToSnapshot, ToFollow
  <2> QED BY <1>2, <2>1, <2>2, <2>3
<1>5. Channel!Quiet' => FilesAgree(Channel!Idle)'
  BY <1>2 DEF Channel!Quiet
<1> QED BY <1>2, <1>4, <1>5 DEF ChannelInv

\* The command whose write comes is the one at work; the next one of its writes, if any,
\* is the one after it.
LEMMA ChannelStep ==
    ASSUME ChannelInv, NEW o \in Operators, NEW w, Channel!Step(o, w), NEW c, c = command[o]
    PROVE  /\ ChannelCommandInv(c) /\ FilesAgree(c) /\ c.todo # <<>> /\ Head(c.todo) = w
           /\ \A p \in Operators : p = o \/ command[p] = Channel!Idle
           /\ Channel!TypeOK /\ UNCHANGED clock
           /\ \A d \in Deliveries : diagnostic[d] # None => delivery[d] # None
<1>1. c # Channel!Idle
  BY ChannelIdle DEF Channel!Step
<1> QED BY <1>1 DEF ChannelInv, ChannelShared, Channel!Step

\* A command that writes one file goes on with m, unless that was its last.
Onward(m, todo) == IF Len(todo) = 1 THEN Channel!Idle ELSE [m EXCEPT !.todo = Tail(todo)]

\* What such a command is after the write.
LEMMA ChannelGoes ==
    ASSUME NEW c, ChannelCommandInv(c), NEW m \in ChannelCommands, m.op = c.op,
           NEW o \in Operators, c = command[o], Channel!Goes(o, m),
           NEW d, d = Onward(m, c.todo)
    PROVE  /\ command' = [command EXCEPT ![o] = d]
           /\ Len(c.todo) = 1 => d = Channel!Idle
           /\ Len(c.todo) # 1 =>
                /\ d \in ChannelCommands /\ d.op = c.op /\ d.todo = Tail(c.todo)
                /\ d.config = m.config /\ d.registry = m.registry /\ d.id = m.id
                /\ d.record = m.record /\ ChannelLeft(d.op, d.todo)
<1>1. /\ Tail(c.todo) = <<>> <=> Len(c.todo) = 1
      /\ c.todo \in Seq(ChannelWrites) /\ c.todo # <<>>
      /\ Len(c.todo) # 1 => /\ ChannelLeft(c.op, Tail(c.todo)) /\ Tail(c.todo) # <<>>
                            /\ Tail(c.todo) \in Seq(ChannelWrites)
  BY ChannelTodo DEF ChannelCommandInv
<1> DEFINE e == [m EXCEPT !.todo = Tail(c.todo)]
<1>2. Len(c.todo) # 1 =>
        /\ e \in ChannelCommands /\ e.op = c.op /\ e.todo = Tail(c.todo)
        /\ e.config = m.config /\ e.registry = m.registry /\ e.id = m.id /\ e.record = m.record
  BY <1>1 DEF ChannelCommands
<1>3. d = IF Len(c.todo) = 1 THEN Channel!Idle ELSE e
  BY DEF Onward
<1>4. command' = [command EXCEPT ![o] = IF Len(c.todo) = 1 THEN Channel!Idle ELSE e]
  BY <1>1 DEF Channel!Goes
<1> HIDE DEF e
<1> QED BY <1>1, <1>2, <1>3, <1>4

\* What a write of the command at work has before it and leaves to do.
ChannelWrite(o, w, c, m, d) ==
    /\ ChannelCommandInv(c) /\ FilesAgree(c) /\ c \in ChannelCommands
    /\ c.todo # <<>> /\ Head(c.todo) = w
    /\ \A p \in Operators : p = o \/ command[p] = Channel!Idle
    /\ Channel!TypeOK /\ clock' = clock
    /\ \A x \in Deliveries : diagnostic[x] # None => delivery[x] # None
    /\ command' = [command EXCEPT ![o] = d]
    /\ Len(c.todo) = 1 => d = Channel!Idle
    /\ Len(c.todo) # 1 =>
         /\ d \in ChannelCommands /\ d.op = c.op /\ d.todo = Tail(c.todo)
         /\ d.config = m.config /\ d.registry = m.registry /\ d.id = m.id /\ d.record = m.record
         /\ ChannelLeft(d.op, d.todo)

\* Every write of a command at work is such a write.
LEMMA ChannelWriting ==
    ASSUME ChannelInv, NEW o \in Operators, NEW w, Channel!Step(o, w), NEW c, c = command[o],
           NEW m, m = c \/ m = [c EXCEPT !.registry = registry], Channel!Goes(o, m),
           NEW d, d = Onward(m, c.todo)
    PROVE  ChannelWrite(o, w, c, m, d)
<1>1. /\ ChannelCommandInv(c) /\ FilesAgree(c) /\ c.todo # <<>> /\ Head(c.todo) = w
      /\ \A p \in Operators : p = o \/ command[p] = Channel!Idle
      /\ Channel!TypeOK /\ clock' = clock
      /\ \A x \in Deliveries : diagnostic[x] # None => delivery[x] # None
  BY ChannelStep
<1>2. c \in ChannelCommands /\ m \in ChannelCommands /\ m.op = c.op
  BY <1>1 DEF ChannelCommandInv, ChannelCommands, Channel!TypeOK, ChannelStates
<1>3. /\ command' = [command EXCEPT ![o] = d]
      /\ Len(c.todo) = 1 => d = Channel!Idle
      /\ Len(c.todo) # 1 =>
           /\ d \in ChannelCommands /\ d.op = c.op /\ d.todo = Tail(c.todo)
           /\ d.config = m.config /\ d.registry = m.registry /\ d.id = m.id
           /\ d.record = m.record /\ ChannelLeft(d.op, d.todo)
  BY <1>1, <1>2, ChannelGoes
<1> QED BY <1>1, <1>2, <1>3 DEF ChannelWrite

\* The agent's command at its next write.
LEMMA AgentGoes ==
    ASSUME NEW d \in ChannelCommands, d.op = "agent", ChannelLeft(d.op, d.todo), AgentInv(d)'
    PROVE  ChannelCommandInv(d)' /\ ToSnapshot(d)
<1>1. ToSnapshot(d)
  BY ChannelTodo DEF ToSnapshot
<1> QED BY <1>1 DEF ChannelCommandInv

\* What it has before a write that is not its last, and keeps after it.
LEMMA AgentWrite ==
    ASSUME NEW o, NEW w, NEW c, NEW m, NEW d, ChannelWrite(o, w, c, m, d), c.op = "agent",
           Len(c.todo) # 1
    PROVE  /\ d \in ChannelCommands /\ d.op = "agent" /\ d.todo = Tail(c.todo)
           /\ ChannelLeft(d.op, d.todo) /\ d.config = m.config /\ d.registry = m.registry
           /\ AgentInv(c)
  BY DEF ChannelWrite, ChannelCommandInv

\* While the agent's command has a snapshot to come, only its writes matter to the rest.
LEMMA AgentFiles ==
    ASSUME NEW o, NEW w, NEW c, NEW m, NEW d, ChannelWrite(o, w, c, m, d), c.op = "agent",
           d.op = "agent", ToSnapshot(d), UNCHANGED <<diagnostic, delivery, torn>>
    PROVE  FilesAgree(d)'
  BY DEF FilesAgree, ToFollow, ToSnapshot, ChannelWrite

\* The configuration is written while the agent has the registry still to rebuild.
LEMMA WriteConfigKeeps ==
    ASSUME ChannelInv, NEW o \in Operators, Channel!WriteConfig(o)
    PROVE  ChannelInv'
<1>1. PICK c : c = command[o]
  OBVIOUS
<1>2. PICK d : d = Onward(c, c.todo)
  OBVIOUS
<1>3. ChannelWrite(o, "config", c, c, d)
  BY <1>1, <1>2, ChannelWriting DEF Channel!WriteConfig
<1>4. c.op = "agent" /\ Len(c.todo) # 1 /\ Len(c.todo) = 6 /\ Len(Tail(c.todo)) = 5
  BY <1>3, ChannelTodo DEF ChannelCommandInv, ChannelWrite
<1>5. /\ d \in ChannelCommands /\ d.op = "agent" /\ d.todo = Tail(c.todo)
      /\ ChannelLeft(d.op, d.todo) /\ d.config = c.config
  BY <1>3, <1>4, AgentWrite
<1>6. config' = c.config /\ UNCHANGED <<manifest, registry, delivery, diagnostic, newest, torn>>
  BY <1>1 DEF Channel!WriteConfig
<1>7. ChannelCommandInv(d)' /\ ToSnapshot(d)
  <2>1. AgentAt(d, 5)'
    BY <1>5, <1>6 DEF AgentAt
  <2>2. AgentInv(d)'
    BY <1>4, <1>5, <2>1 DEF AgentInv
  <2> QED BY <1>5, <2>2, AgentGoes
<1>8. FilesAgree(d)'
  BY <1>3, <1>4, <1>5, <1>6, <1>7, AgentFiles
<1>9. ChannelShared'
  BY <1>3, <1>6 DEF ChannelShared, Channel!TypeOK, ChannelCommands, ChannelWrite
<1> QED BY <1>3, <1>7, <1>8, <1>9, ChannelTurn DEF ChannelWrite

\* The onboarding manifest learns of a channel and never forgets it.
LEMMA AgentManifestKeeps ==
    ASSUME ChannelInv, NEW o \in Operators, Channel!WriteManifest(o)
    PROVE  ChannelInv'
<1>1. PICK c : c = command[o]
  OBVIOUS
<1>2. PICK d : d = Onward(c, c.todo)
  OBVIOUS
<1>3. ChannelWrite(o, "manifest", c, c, d)
  BY <1>1, <1>2, ChannelWriting DEF Channel!WriteManifest
<1>4. c.op = "agent" /\ Len(c.todo) # 1 /\ Len(c.todo) = 5 /\ Len(Tail(c.todo)) = 4
  BY <1>3, ChannelTodo DEF ChannelCommandInv, ChannelWrite
<1>5. /\ d \in ChannelCommands /\ d.op = "agent" /\ d.todo = Tail(c.todo)
      /\ ChannelLeft(d.op, d.todo) /\ d.config = c.config /\ AgentInv(c)
  BY <1>3, <1>4, AgentWrite
<1>6. /\ manifest' = (manifest \/ c.config["telegram"])
      /\ UNCHANGED <<config, registry, delivery, diagnostic, newest, torn>>
  BY <1>1 DEF Channel!WriteManifest
<1>7. c.config["telegram"] \in BOOLEAN /\ manifest \in BOOLEAN
  BY <1>3 DEF ChannelWrite, ChannelCommands, Channel!Kinds, Channel!TypeOK
<1>8. ChannelCommandInv(d)' /\ ToSnapshot(d)
  <2>1. AgentAt(c, 5)
    BY <1>4, <1>5 DEF AgentInv
  <2>2. AgentAt(d, 4)'
    BY <1>5, <1>6, <1>7, <2>1 DEF AgentAt
  <2>3. AgentInv(d)'
    BY <1>4, <1>5, <2>2 DEF AgentInv
  <2> QED BY <1>5, <2>3, AgentGoes
<1>9. FilesAgree(d)'
  BY <1>3, <1>4, <1>5, <1>6, <1>8, AgentFiles
<1>10. ChannelShared'
  BY <1>3, <1>6, <1>7 DEF ChannelShared, Channel!TypeOK, ChannelWrite
<1> QED BY <1>3, <1>8, <1>9, <1>10, ChannelTurn DEF ChannelWrite

\* The registry is rebuilt from the configuration and the manifest.
LEMMA SyncRegistryKeeps ==
    ASSUME ChannelInv, NEW o \in Operators, Channel!SyncRegistry(o)
    PROVE  ChannelInv'
<1>1. PICK c : c = command[o]
  OBVIOUS
<1>2. PICK d : d = Onward(c, c.todo)
  OBVIOUS
<1>3. ChannelWrite(o, "sync", c, c, d)
  BY <1>1, <1>2, ChannelWriting DEF Channel!SyncRegistry
<1>4. \/ c.op = "sync" /\ Len(c.todo) = 1
      \/ c.op = "agent" /\ Len(c.todo) = 4 /\ Len(Tail(c.todo)) = 3
  BY <1>3, ChannelTodo DEF ChannelCommandInv, ChannelWrite
<1>5. Channel!Done(o) = {}
  BY <1>1, <1>4 DEF Channel!Done, Channel!Finished
<1>6. /\ registry' = [k \in Channel!Kinds |-> IF k = "hook" THEN "absent"
                                               ELSE IF manifest THEN "on" ELSE "off"]
      /\ torn' = torn \cup {"registry", "health"}
      /\ UNCHANGED <<config, manifest, delivery, diagnostic, newest>>
  BY <1>1, <1>5 DEF Channel!SyncRegistry
<1>7. /\ registry' \in [Channel!Kinds -> ChannelStates]
      /\ registry'["telegram"] = IF manifest THEN "on" ELSE "off"
  BY <1>6 DEF Channel!Kinds, ChannelStates
<1>8. d = Channel!Idle \/ ChannelCommandInv(d)'
  <2>1. CASE c.op = "agent" /\ Len(c.todo) = 4 /\ Len(Tail(c.todo)) = 3
    <3>1. Len(c.todo) # 1
      BY <2>1
    <3>2. /\ d \in ChannelCommands /\ d.op = "agent" /\ d.todo = Tail(c.todo)
          /\ ChannelLeft(d.op, d.todo) /\ d.config = c.config /\ AgentInv(c)
      BY <1>3, <2>1, <3>1 DEF ChannelWrite, ChannelCommandInv
    <3>3. AgentAt(c, 4)
      BY <2>1, <3>2 DEF AgentInv
    <3>4. AgentAt(d, 3)'
      BY <1>6, <1>7, <3>2, <3>3 DEF AgentAt
    <3>5. AgentInv(d)'
      BY <2>1, <3>2, <3>4 DEF AgentInv
    <3> QED BY <3>2, <3>5, AgentGoes
  <2> QED BY <1>3, <1>4, <2>1 DEF ChannelWrite
<1>9. \A x : ~ToFollow(c, x)
  BY <1>4 DEF ToFollow
<1>10. FilesAgree(d)'
  BY <1>3, <1>6, <1>9 DEF FilesAgree, ChannelWrite
<1>11. ChannelShared'
  BY <1>3, <1>6, <1>7 DEF ChannelShared, Channel!TypeOK, ChannelWrite, ChannelStates
<1> QED BY <1>3, <1>8, <1>10, <1>11, ChannelTurn DEF ChannelWrite

\* The registry is in hand as it is.
LEMMA LoadRegistryKeeps ==
    ASSUME ChannelInv, NEW o \in Operators, Channel!LoadRegistry(o)
    PROVE  ChannelInv'
<1>1. PICK c : c = command[o]
  OBVIOUS
<1>2. PICK d : d = Onward([c EXCEPT !.registry = registry], c.todo)
  OBVIOUS
<1>3. ChannelWrite(o, "load", c, [c EXCEPT !.registry = registry], d)
  BY <1>1, <1>2, ChannelWriting DEF Channel!LoadRegistry
<1>4. /\ c.op = "agent" /\ c \in ChannelCommands /\ Len(c.todo) # 1
      /\ \/ Len(c.todo) = 3 /\ Len(Tail(c.todo)) = 2
         \/ Len(c.todo) = 9 /\ Len(Tail(c.todo)) = 8
  BY <1>3, ChannelTodo DEF ChannelCommandInv, ChannelWrite
<1>5. /\ [c EXCEPT !.registry = registry].config = c.config
      /\ [c EXCEPT !.registry = registry].registry = registry
      /\ registry["telegram"] # "absent"
  BY <1>3, <1>4 DEF ChannelWrite, ChannelCommands, Channel!TypeOK
<1>6. UNCHANGED <<config, manifest, registry, delivery, diagnostic, newest, torn>>
  BY <1>1 DEF Channel!LoadRegistry
<1>7. /\ d \in ChannelCommands /\ d.op = "agent" /\ d.todo = Tail(c.todo)
      /\ ChannelLeft(d.op, d.todo) /\ d.config = c.config /\ d.registry = registry /\ AgentInv(c)
  BY <1>3, <1>4, <1>5 DEF ChannelWrite, ChannelCommandInv
<1>8. ChannelCommandInv(d)' /\ ToSnapshot(d)
  <2>1. CASE Len(c.todo) = 3 /\ Len(Tail(c.todo)) = 2
    <3>1. AgentAt(c, 3)
      BY <1>7, <2>1 DEF AgentInv
    <3>2. AgentAt(d, 2)'
      BY <1>5, <1>6, <1>7, <3>1 DEF AgentAt
    <3>3. AgentInv(d)'
      BY <1>7, <2>1, <3>2 DEF AgentInv
    <3> QED BY <1>7, <3>3, AgentGoes
  <2>2. CASE Len(c.todo) = 9 /\ Len(Tail(c.todo)) = 8
    <3>1. AgentAt(d, 8)'
      BY <1>5, <1>6, <1>7 DEF AgentAt
    <3>2. AgentInv(d)'
      BY <1>7, <2>2, <3>1 DEF AgentInv
    <3> QED BY <1>7, <3>2, AgentGoes
  <2> QED BY <1>4, <2>1, <2>2
<1>9. FilesAgree(d)'
  BY <1>3, <1>4, <1>6, <1>7, <1>8, AgentFiles
<1>10. ChannelShared'
  BY <1>3, <1>6 DEF ChannelShared, Channel!TypeOK, ChannelWrite
<1> QED BY <1>3, <1>9, <1>10, <1>8, ChannelTurn DEF ChannelWrite

\* The registry is written back with the channel set, and nobody else had it.
LEMMA SaveRegistryKeeps ==
    ASSUME ChannelInv, NEW o \in Operators, Channel!SaveRegistry(o)
    PROVE  ChannelInv'
<1>1. PICK c : c = command[o]
  OBVIOUS
<1>2. PICK d : d = Onward(c, c.todo)
  OBVIOUS
<1>3. ChannelWrite(o, "save", c, c, d)
  BY <1>1, <1>2, ChannelWriting DEF Channel!SaveRegistry
<1>4. /\ c.op = "agent" /\ Len(c.todo) # 1
      /\ \/ Len(c.todo) = 2 /\ Len(Tail(c.todo)) = 1
         \/ Len(c.todo) = 8 /\ Len(Tail(c.todo)) = 7
  BY <1>3, ChannelTodo DEF ChannelCommandInv, ChannelWrite
<1>5. /\ registry' = [c.registry EXCEPT !["hook"] = IF c.config["hook"] THEN "on" ELSE "off"]
      /\ UNCHANGED <<config, manifest, delivery, diagnostic, newest, torn>>
  BY <1>1 DEF Channel!SaveRegistry
<1>6. /\ registry' \in [Channel!Kinds -> ChannelStates] /\ c.config["hook"] \in BOOLEAN
      /\ registry'["telegram"] = c.registry["telegram"]
      /\ registry'["hook"] = IF c.config["hook"] THEN "on" ELSE "off"
  BY <1>3, <1>5 DEF Channel!Kinds, ChannelStates, ChannelWrite, ChannelCommands
<1>7. /\ d \in ChannelCommands /\ d.op = "agent" /\ d.todo = Tail(c.todo)
      /\ ChannelLeft(d.op, d.todo) /\ d.config = c.config /\ AgentInv(c)
  BY <1>3, <1>4, AgentWrite
<1>8. ChannelCommandInv(d)' /\ ToSnapshot(d) /\ c.registry["telegram"] # "absent"
  <2>1. CASE Len(c.todo) = 2 /\ Len(Tail(c.todo)) = 1
    <3>1. AgentAt(c, 2)
      BY <1>7, <2>1 DEF AgentInv
    <3>2. /\ config = c.config /\ (c.config["telegram"] => manifest)
          /\ c.config["telegram"] => c.registry["telegram"] = "on"
          /\ c.registry["telegram"] # "absent"
      BY <3>1 DEF AgentAt
    <3>3. AgentAt(d, 1)'
      BY <1>5, <1>6, <1>7, <3>2 DEF AgentAt
    <3>4. AgentInv(d)'
      BY <1>7, <2>1, <3>3 DEF AgentInv
    <3> QED BY <1>7, <3>2, <3>4, AgentGoes
  <2>2. CASE Len(c.todo) = 8 /\ Len(Tail(c.todo)) = 7
    <3>1. AgentAt(c, 8) /\ AgentAt(d, 7)'
      BY <1>7, <2>2 DEF AgentInv, AgentAt
    <3>2. AgentInv(d)' /\ c.registry["telegram"] # "absent"
      BY <1>7, <2>2, <3>1 DEF AgentInv, AgentAt
    <3> QED BY <1>7, <3>2, AgentGoes
  <2> QED BY <1>4, <2>1, <2>2
<1>9. FilesAgree(d)'
  BY <1>3, <1>4, <1>5, <1>7, <1>8, AgentFiles
<1>10. ChannelShared'
  BY <1>3, <1>5, <1>6, <1>8 DEF ChannelShared, Channel!TypeOK, ChannelWrite, ChannelStates
<1> QED BY <1>3, <1>9, <1>10, <1>8, ChannelTurn DEF ChannelWrite

\* Every registered channel gets a snapshot of its health.
LEMMA SnapshotsKeep ==
    ASSUME ChannelInv, NEW o \in Operators, Channel!Snapshots(o)
    PROVE  ChannelInv'
<1>1. PICK c : c = command[o]
  OBVIOUS
<1>2. PICK d : d = Onward(c, c.todo)
  OBVIOUS
<1>3. ChannelWrite(o, "snapshots", c, c, d)
  BY <1>1, <1>2, ChannelWriting DEF Channel!Snapshots
<1>4. PICK done : done = Channel!Done(o)
  OBVIOUS
<1>5. /\ newest' = [k \in Channel!Kinds |-> IF registry[k] = "absent" THEN newest[k]
                                             ELSE Channel!Health(k)]
      /\ torn' = torn \ ({"health"} \cup done)
      /\ UNCHANGED <<config, manifest, registry, delivery, diagnostic>>
  BY <1>4 DEF Channel!Snapshots, Channel!Mended
<1>6. HealthAgrees' /\ UNCHANGED clock
  BY <1>3, <1>5, HealthSame DEF HealthAgrees, ChannelWrite
<1>7. ChannelShared'
  BY <1>3, <1>5 DEF ChannelShared, Channel!TypeOK, ChannelWrite
<1>8. done \in {{}, {"registry"}}
  BY <1>4 DEF Channel!Done, Channel!Finished
<1>9. ASSUME NEW x \in Deliveries, diagnostic'[x] # None, x \notin torn'
      PROVE  (diagnostic[x] = delivery[x].status)'
  <2>1. x \notin torn
    <3>1. x \notin {"health", "registry"}
      BY SurfacesAssumption DEF Channel!ChannelsAssumption
    <3> QED BY <1>5, <1>8, <1>9, <3>1
  <2>2. ~ToFollow(c, x)
    BY <1>3 DEF ToFollow, ChannelWrite
  <2> QED BY <1>3, <1>5, <1>9, <2>1, <2>2 DEF FilesAgree, ChannelWrite
<1>10. CASE c.op = "agent" /\ Len(c.todo) = 7 /\ Len(Tail(c.todo)) = 6
  <2>1. /\ d \in ChannelCommands /\ d.op = "agent" /\ d.todo = Tail(c.todo)
        /\ ChannelLeft(d.op, d.todo)
    BY <1>3, <1>10 DEF ChannelWrite, ChannelCommandInv
  <2>2. AgentAt(d, 6)'
    BY DEF AgentAt
  <2>3. AgentInv(d)'
    BY <1>10, <2>1, <2>2 DEF AgentInv
  <2>4. ChannelCommandInv(d)' /\ ToSnapshot(d)
    BY <2>1, <2>3, AgentGoes
  <2>5. FilesAgree(d)'
    BY <1>9, <2>1, <2>4 DEF FilesAgree, ToSnapshot
  <2> QED BY <1>3, <1>7, <2>4, <2>5, ChannelTurn DEF ChannelWrite
<1>11. CASE c.op = "enqueue" /\ Len(c.todo) # 1 /\ Tail(c.todo) = <<"diagnostic">>
  <2>1. /\ d \in ChannelCommands /\ d.op = "enqueue" /\ d.todo = <<"diagnostic">>
        /\ ChannelLeft(d.op, d.todo) /\ d.id = c.id /\ d.record = c.record
    BY <1>3, <1>11 DEF ChannelWrite
  <2>2. DeliveryInv(d)'
    BY <1>3, <1>5, <1>11, <2>1 DEF DeliveryInv, ChannelCommandInv, ChannelWrite
  <2>3. ChannelCommandInv(d)'
    BY <2>1, <2>2 DEF ChannelCommandInv
  <2>4. "registry" \notin torn' => RegistryAgrees'
    <3>1. done = {}
      BY <1>1, <1>4, <1>11 DEF Channel!Done
    <3> QED BY <1>3, <1>5, <1>11, <3>1 DEF FilesAgree, RegistryAgrees, ChannelWrite
  <2>5. FilesAgree(d)'
    BY <1>6, <1>9, <2>4 DEF FilesAgree
  <2> QED BY <1>3, <1>7, <2>3, <2>5, ChannelTurn DEF ChannelWrite
<1>12. CASE Len(c.todo) = 1
  <2>1. d = Channel!Idle
    BY <1>3, <1>12 DEF ChannelWrite
  <2>2. RegistryAgrees \/ "registry" \in torn'
    <3>1. CASE c.op = "agent"
      <4>1. AgentAt(c, 1)
        BY <1>3, <1>12, <3>1 DEF ChannelWrite, ChannelCommandInv, AgentInv
      <4> QED BY <4>1 DEF AgentAt, RegistryAgrees
    <3>2. CASE c.op # "agent"
      BY <1>1, <1>3, <1>4, <1>5, <3>2 DEF FilesAgree, ChannelWrite, Channel!Done, Channel!Finished
    <3> QED BY <3>1, <3>2
  <2>3. RegistryAgrees => RegistryAgrees'
    BY <1>5 DEF RegistryAgrees
  <2>4. FilesAgree(d)'
    BY <1>6, <1>9, <2>2, <2>3 DEF FilesAgree
  <2> QED BY <1>3, <1>7, <2>1, <2>4, ChannelTurn DEF ChannelWrite
<1>13. \/ c.op = "agent" /\ Len(c.todo) = 7 /\ Len(Tail(c.todo)) = 6
       \/ c.op = "enqueue" /\ Len(c.todo) # 1 /\ Tail(c.todo) = <<"diagnostic">>
       \/ Len(c.todo) = 1
  BY <1>3, ChannelTodo DEF ChannelCommandInv, ChannelWrite
<1> QED BY <1>10, <1>11, <1>12, <1>13

\* The delivery is written, and what follows it is still to come.
LEMMA WriteDeliveryKeeps ==
    ASSUME ChannelInv, NEW o \in Operators, Channel!WriteDelivery(o)
    PROVE  ChannelInv'
<1>1. PICK c : c = command[o]
  OBVIOUS
<1>2. PICK d : d = Onward(c, c.todo)
  OBVIOUS
<1>3. ChannelWrite(o, "delivery", c, c, d)
  BY <1>1, <1>2, ChannelWriting DEF Channel!WriteDelivery
<1>4. \/ c.op = "enqueue" /\ Len(c.todo) # 1 /\ Head(Tail(c.todo)) = "snapshots"
      \/ c.op = "update" /\ Len(c.todo) # 1 /\ Head(Tail(c.todo)) = "follow"
  BY <1>3, ChannelTodo DEF ChannelCommandInv, ChannelWrite
<1>5. /\ d \in ChannelCommands /\ d.op = c.op /\ d.todo = Tail(c.todo)
      /\ ChannelLeft(d.op, d.todo) /\ d.id = c.id /\ d.record = c.record
  BY <1>3, <1>4 DEF ChannelWrite
<1>6. /\ c.id \in Deliveries /\ c.record \in Channel!Records
      /\ c.op = "enqueue" => diagnostic[c.id] = None
  BY <1>3, <1>4 DEF ChannelWrite, ChannelCommandInv, DeliveryInv
<1>7. /\ delivery' = [delivery EXCEPT ![c.id] = c.record]
      /\ UNCHANGED <<config, manifest, registry, diagnostic, newest, torn>>
  BY <1>1 DEF Channel!WriteDelivery
<1>8. delivery \in [Deliveries -> Channel!Records \cup {None}]
  BY <1>3 DEF ChannelWrite, Channel!TypeOK
<1>9. /\ delivery' \in [Deliveries -> Channel!Records \cup {None}]
      /\ delivery'[c.id] = c.record
      /\ \A x \in Deliveries : x # c.id => delivery'[x] = delivery[x]
  BY <1>6, <1>7, <1>8
<1>10. None \notin Channel!Records
  BY SurfacesAssumption DEF Channel!ChannelsAssumption
<1>11. ChannelShared'
  <2>1. Channel!TypeOK'
    BY <1>3, <1>7, <1>9 DEF ChannelWrite, Channel!TypeOK
  <2>2. \A x \in Deliveries : diagnostic'[x] # None => delivery'[x] # None
    BY <1>3, <1>6, <1>7, <1>9, <1>10 DEF ChannelWrite
  <2> QED BY <2>1, <2>2 DEF ChannelShared
<1>12. ChannelCommandInv(d)'
  <2>1. DeliveryInv(d)'
    BY <1>4, <1>5, <1>6, <1>9 DEF DeliveryInv
  <2> QED BY <1>4, <1>5, <2>1 DEF ChannelCommandInv
<1>13. FilesAgree(d)'
  <2>1. d.op # "agent" /\ c.op # "agent" /\ ToSnapshot(d)
    <3>1. d.todo # <<>>
      BY <1>5, ChannelTodo
    <3>2. Head(d.todo) # "diagnostic"
      BY <1>4, <1>5
    <3>3. d.todo # <<"diagnostic">>
      BY <3>2
    <3> QED BY <1>4, <1>5, <3>1, <3>3 DEF ToSnapshot
  <2>2. \A x \in Deliveries : diagnostic'[x] # None /\ x \notin torn' /\ ~ToFollow(d, x) =>
          diagnostic'[x] = delivery'[x].status
    <3> SUFFICES ASSUME NEW x \in Deliveries, diagnostic'[x] # None, x \notin torn', ~ToFollow(d, x)
                 PROVE  diagnostic'[x] = delivery'[x].status
      OBVIOUS
    <3>1. x # c.id
      BY <1>4, <1>5, <1>6, <1>7 DEF ToFollow
    <3>2. ~ToFollow(c, x)
      BY <1>3 DEF ToFollow, ChannelWrite
    <3> QED BY <1>3, <1>7, <1>9, <3>1, <3>2 DEF FilesAgree, ChannelWrite
  <2>3. "registry" \notin torn' => RegistryAgrees'
    BY <1>3, <1>7, <2>1 DEF FilesAgree, RegistryAgrees, ChannelWrite
  <2> QED BY <2>1, <2>2, <2>3 DEF FilesAgree, ToSnapshot, ToFollow
<1> QED BY <1>3, <1>11, <1>12, <1>13, ChannelTurn DEF ChannelWrite

\* The diagnostic of a test is made with the status of its delivery.
LEMMA WriteDiagnosticKeeps ==
    ASSUME ChannelInv, NEW o \in Operators, Channel!WriteDiagnostic(o)
    PROVE  ChannelInv'
<1>1. PICK c : c = command[o]
  OBVIOUS
<1>2. PICK d : d = Onward(c, c.todo)
  OBVIOUS
<1>3. ChannelWrite(o, "diagnostic", c, c, d)
  BY <1>1, <1>2, ChannelWriting DEF Channel!WriteDiagnostic
<1>4. c.op = "enqueue" /\ c.todo = <<"diagnostic">> /\ Len(c.todo) = 1
  BY <1>3, ChannelTodo DEF ChannelCommandInv, ChannelWrite
<1>5. d = Channel!Idle
  BY <1>3, <1>4 DEF ChannelWrite
<1>6. c.id \in Deliveries /\ c.record \in Channel!Records /\ delivery[c.id] = c.record
  BY <1>3, <1>4 DEF ChannelWrite, ChannelCommandInv, DeliveryInv
<1>7. /\ diagnostic' = [diagnostic EXCEPT ![c.id] = c.record.status]
      /\ UNCHANGED <<config, manifest, registry, delivery, newest, torn>>
  BY <1>1 DEF Channel!WriteDiagnostic
<1>8. /\ diagnostic' \in [Deliveries -> Channel!Statuses \cup {None}]
      /\ diagnostic'[c.id] = c.record.status
      /\ \A x \in Deliveries : x # c.id => diagnostic'[x] = diagnostic[x]
  BY <1>3, <1>6, <1>7 DEF ChannelWrite, Channel!TypeOK, Channel!Records
<1>9. ChannelShared'
  <2>1. Channel!TypeOK'
    BY <1>3, <1>7, <1>8 DEF ChannelWrite, Channel!TypeOK
  <2>2. None \notin Channel!Records
    BY SurfacesAssumption DEF Channel!ChannelsAssumption
  <2>3. \A x \in Deliveries : diagnostic'[x] # None => delivery'[x] # None
    BY <1>3, <1>6, <1>7, <1>8, <2>2 DEF ChannelWrite
  <2> QED BY <2>1, <2>3 DEF ChannelShared
<1>10. FilesAgree(d)'
  <2>1. "registry" \notin torn => RegistryAgrees
    BY <1>3, <1>4 DEF FilesAgree, ChannelWrite
  <2>2. "health" \notin torn => HealthAgrees'
    BY <1>3, <1>4, <1>7, HealthSame DEF FilesAgree, ChannelWrite, ToSnapshot
  <2>3. \A x \in Deliveries : diagnostic[x] # None /\ x \notin torn => diagnostic[x] = delivery[x].status
    BY <1>3, <1>4 DEF FilesAgree, ChannelWrite, ToFollow
  <2>4. \A x \in Deliveries : diagnostic'[x] # None /\ x \notin torn' => diagnostic'[x] = delivery'[x].status
    BY <1>6, <1>7, <1>8, <2>3
  <2>5. RegistryAgrees => RegistryAgrees'
    BY <1>7 DEF RegistryAgrees
  <2> QED BY <1>7, <2>1, <2>2, <2>4, <2>5 DEF FilesAgree
<1> QED BY <1>3, <1>5, <1>9, <1>10, ChannelTurn DEF ChannelWrite

\* An existing diagnostic follows its delivery.
LEMMA FollowDiagnosticKeeps ==
    ASSUME ChannelInv, NEW o \in Operators, Channel!FollowDiagnostic(o)
    PROVE  ChannelInv'
<1>1. PICK c : c = command[o]
  OBVIOUS
<1>2. PICK d : d = Onward(c, c.todo)
  OBVIOUS
<1>3. ChannelWrite(o, "follow", c, c, d)
  BY <1>1, <1>2, ChannelWriting DEF Channel!FollowDiagnostic
<1>4. c.op = "update" /\ Len(c.todo) # 1 /\ Head(Tail(c.todo)) = "snapshots"
  BY <1>3, ChannelTodo DEF ChannelCommandInv, ChannelWrite
<1>5. /\ d \in ChannelCommands /\ d.op = "update" /\ d.todo = Tail(c.todo)
      /\ ChannelLeft(d.op, d.todo) /\ d.id = c.id /\ d.record = c.record
  BY <1>3, <1>4 DEF ChannelWrite
<1>6. c.id \in Deliveries /\ c.record \in Channel!Records /\ delivery[c.id] = c.record
  BY <1>3, <1>4 DEF ChannelWrite, ChannelCommandInv, DeliveryInv
<1>7. /\ diagnostic' = [diagnostic EXCEPT ![c.id] = IF diagnostic[c.id] = None THEN diagnostic[c.id]
                                                    ELSE c.record.status]
      /\ torn' = torn \ {c.id}
      /\ UNCHANGED <<config, manifest, registry, delivery, newest>>
  BY <1>1 DEF Channel!FollowDiagnostic
<1>8. /\ diagnostic' \in [Deliveries -> Channel!Statuses \cup {None}]
      /\ diagnostic'[c.id] \in {None, c.record.status}
      /\ \A x \in Deliveries : x # c.id => diagnostic'[x] = diagnostic[x]
  BY <1>3, <1>6, <1>7 DEF ChannelWrite, Channel!TypeOK, Channel!Records
<1>9. ChannelShared'
  <2>1. Channel!TypeOK'
    BY <1>3, <1>7, <1>8 DEF ChannelWrite, Channel!TypeOK
  <2>2. None \notin Channel!Records
    BY SurfacesAssumption DEF Channel!ChannelsAssumption
  <2>3. \A x \in Deliveries : diagnostic'[x] # None => delivery'[x] # None
    BY <1>3, <1>6, <1>7, <1>8, <2>2 DEF ChannelWrite
  <2> QED BY <2>1, <2>3 DEF ChannelShared
<1>10. ChannelCommandInv(d)'
  <2>1. DeliveryInv(d)'
    BY <1>4, <1>5, <1>6, <1>7 DEF DeliveryInv
  <2> QED BY <1>5, <2>1 DEF ChannelCommandInv
<1>11. FilesAgree(d)'
  <2>1. ToSnapshot(d)
    <3>1. d.todo # <<>> /\ d.todo # <<"diagnostic">>
      BY <1>5, ChannelTodo
    <3> QED BY <1>5, <3>1 DEF ToSnapshot
  <2>2. "registry" \notin torn' => RegistryAgrees'
    <3>1. c.id # "registry"
      BY <1>6, SurfacesAssumption DEF Channel!ChannelsAssumption
    <3> QED BY <1>3, <1>4, <1>7, <3>1 DEF FilesAgree, RegistryAgrees, ChannelWrite
  <2>3. \A x \in Deliveries : x # c.id /\ diagnostic[x] # None /\ x \notin torn =>
          diagnostic[x] = delivery[x].status
    BY <1>3, <1>4 DEF FilesAgree, ChannelWrite, ToFollow
  <2>4. \A x \in Deliveries : diagnostic'[x] # None /\ x \notin torn' => diagnostic'[x] = delivery'[x].status
    BY <1>6, <1>7, <1>8, <2>3
  <2> QED BY <2>1, <2>2, <2>4 DEF FilesAgree, ToSnapshot
<1> QED BY <1>3, <1>9, <1>10, <1>11, ChannelTurn DEF ChannelWrite

\* A command that dies leaves the files as they are, and torn what it had begun.
LEMMA ChannelCrashKeeps ==
    ASSUME ChannelInv, NEW o \in Operators, Channel!Crash(o)
    PROVE  ChannelInv'
<1>1. PICK c : c = command[o]
  OBVIOUS
<1>2. /\ ChannelCommandInv(c) /\ FilesAgree(c) /\ ChannelShared
      /\ \A p \in Operators : p = o \/ command[p] = Channel!Idle
  BY <1>1 DEF ChannelInv, Channel!Crash
<1>3. /\ command' = [command EXCEPT ![o] = Channel!Idle]
      /\ torn' = torn \cup {"health"} \cup (IF c.op = "agent" THEN {"registry"} ELSE {})
                      \cup (IF c.op = "update" THEN {c.id} ELSE {})
      /\ UNCHANGED <<config, manifest, registry, delivery, diagnostic, newest, clock>>
  BY <1>1 DEF Channel!Crash
<1>4. ChannelShared'
  BY <1>2, <1>3 DEF ChannelShared, Channel!TypeOK
<1>5. FilesAgree(Channel!Idle)'
  <2>1. "health" \in torn'
    BY <1>3
  <2>2. "registry" \notin torn' => RegistryAgrees'
    BY <1>2, <1>3 DEF FilesAgree, RegistryAgrees
  <2>3. \A x \in Deliveries : diagnostic'[x] # None /\ x \notin torn' => diagnostic'[x] = delivery'[x].status
    BY <1>2, <1>3 DEF FilesAgree, ToFollow
  <2> QED BY <2>1, <2>2, <2>3 DEF FilesAgree
<1> QED BY <1>2, <1>3, <1>4, <1>5, ChannelTurn

\* Time passes between commands, and the health of a channel may be another.
LEMMA ChannelTickKeeps ==
    ASSUME ChannelInv, Channel!Tick
    PROVE  ChannelInv'
<1>1. /\ FilesAgree(Channel!Idle) /\ clock + 1 \in 0 .. Time["channel"]
      /\ command' = command /\ \A o \in Operators : command[o] = Channel!Idle
  BY SurfacesAssumption
  DEF ChannelInv, ChannelShared, Channel!TypeOK, Channel!Tick, Channel!Quiet, Channel!ChannelsAssumption
<1>2. /\ torn' = torn \cup {"health"} /\ clock' = clock + 1
      /\ UNCHANGED <<config, manifest, registry, delivery, diagnostic, newest>>
  BY DEF Channel!Tick
<1>3. FilesAgree(Channel!Idle)'
  BY <1>1, <1>2, ChannelIdle DEF FilesAgree, ToFollow, ToSnapshot, RegistryAgrees
<1>4. ChannelShared'
  BY <1>1, <1>2 DEF ChannelInv, ChannelShared, Channel!TypeOK
<1> QED BY <1>1, <1>3, <1>4 DEF ChannelInv, Channel!Quiet

\* A sequence made of two others is of their elements.
LEMMA Joined ==
    ASSUME NEW S, NEW a \in Seq(S), NEW b \in Seq(S), NEW c \in Seq(S),
           Len(c) = Len(a) + Len(b),
           \A i \in 1 .. Len(c) : c[i] = IF i <= Len(a) THEN a[i] ELSE b[i - Len(a)]
    PROVE  a \o b = c
<1>1. /\ a \o b \in Seq(S) /\ Len(a \o b) = Len(c)
      /\ \A i \in 1 .. Len(a \o b) : (a \o b)[i] = c[i]
  BY ConcatProperties
<1> QED BY <1>1, SeqEqual

\* The scripts of connect and disconnect, written out.
LEMMA Scripts ==
    /\ <<"config">> \o Channel!Resync =
         <<"config", "manifest", "sync", "load", "save", "snapshots">>
    /\ <<>> \o <<"config">> \o Channel!Resync =
         <<"config", "manifest", "sync", "load", "save", "snapshots">>
    /\ <<"load", "save", "snapshots">> \o <<"config">> \o Channel!Resync =
         <<"load", "save", "snapshots", "config", "manifest", "sync", "load", "save", "snapshots">>
<1> DEFINE first == <<"config">>
           hook == <<"load", "save", "snapshots">>
           off == <<"load", "save", "snapshots", "config">>
           again == <<"manifest", "sync", "load", "save", "snapshots">>
           on == <<"config", "manifest", "sync", "load", "save", "snapshots">>
           all == <<"load", "save", "snapshots", "config", "manifest", "sync", "load", "save", "snapshots">>
<1>1. /\ first \in Seq(ChannelWrites) /\ hook \in Seq(ChannelWrites) /\ off \in Seq(ChannelWrites)
      /\ again \in Seq(ChannelWrites) /\ on \in Seq(ChannelWrites) /\ all \in Seq(ChannelWrites)
  BY DEF ChannelWrites
<1>2. /\ Len(first) = 1 /\ Len(hook) = 3 /\ Len(off) = 4
      /\ Len(on) = 6 /\ Len(all) = 9
      /\ Len(on) = Len(first) + Len(again) /\ Len(off) = Len(hook) + Len(first)
      /\ Len(all) = Len(off) + Len(again)
  OBVIOUS
<1>3. \A i \in 1 .. 6 : on[i] = IF i <= 1 THEN first[i] ELSE again[i - 1]
  <2>1. \A i \in 1 .. 6 : i = 1 \/ i = 2 \/ i = 3 \/ i = 4 \/ i = 5 \/ i = 6
    OBVIOUS
  <2> QED BY <2>1
<1>4. \A i \in 1 .. 4 : off[i] = IF i <= 3 THEN hook[i] ELSE first[i - 3]
  <2>1. \A i \in 1 .. 4 : i = 1 \/ i = 2 \/ i = 3 \/ i = 4
    OBVIOUS
  <2> QED BY <2>1
<1>5. \A i \in 1 .. 9 : all[i] = IF i <= 4 THEN off[i] ELSE again[i - 4]
  <2>1. \A i \in 1 .. 9 : i = 1 \/ i = 2 \/ i = 3 \/ i = 4 \/ i = 5 \/ i = 6 \/ i = 7 \/ i = 8 \/ i = 9
    OBVIOUS
  <2> QED BY <2>1
<1>6. first \o again = on /\ hook \o first = off /\ off \o again = all
  <2> HIDE DEF first, hook, off, again, on, all
  <2>1. \A i \in 1 .. Len(on) : on[i] = IF i <= Len(first) THEN first[i] ELSE again[i - Len(first)]
    BY <1>2, <1>3
  <2>2. \A i \in 1 .. Len(off) : off[i] = IF i <= Len(hook) THEN hook[i] ELSE first[i - Len(hook)]
    BY <1>2, <1>4
  <2>3. \A i \in 1 .. Len(all) : all[i] = IF i <= Len(off) THEN off[i] ELSE again[i - Len(off)]
    BY <1>2, <1>5
  <2>4. first \o again = on
    BY <1>1, <1>2, <2>1, Joined
  <2>5. hook \o first = off
    BY <1>1, <1>2, <2>2, Joined
  <2>6. off \o again = all
    BY <1>1, <1>2, <2>3, Joined
  <2> QED BY <2>4, <2>5, <2>6
<1>7. <<>> \o first = first
  OBVIOUS
<1>8. Channel!Resync = again
  BY DEF Channel!Resync
<1> HIDE DEF first, hook, off, again, on, all
<1>9. first \o Channel!Resync = on /\ <<>> \o first \o Channel!Resync = on
      /\ hook \o first \o Channel!Resync = all
  BY <1>6, <1>7, <1>8
<1> QED BY <1>9 DEF first, hook, on, all

\* A command begins while no other is at work, and the files are as they were.
LEMMA ChannelStart ==
    ASSUME Serial, ChannelInv, NEW o \in Operators, NEW c, Channel!Start(o, c), ChannelCommandInv(c)
    PROVE  ChannelInv'
<1>1. /\ FilesAgree(Channel!Idle) /\ ChannelShared
      /\ \A p \in Operators : command[p] = Channel!Idle
  BY DEF ChannelInv, Channel!Start, Channel!Quiet
<1>2. /\ command' = [command EXCEPT ![o] = c]
      /\ UNCHANGED <<config, manifest, registry, delivery, diagnostic, newest, clock, torn>>
  BY DEF Channel!Start
<1>3. ChannelCommandInv(c)'
  BY <1>2 DEF ChannelCommandInv, AgentInv, AgentAt, DeliveryInv
<1>4. FilesAgree(Channel!Idle)'
  BY <1>1, <1>2, HealthSame DEF FilesAgree, RegistryAgrees, ToSnapshot, ToFollow
<1>5. FilesAgree(c)'
  BY <1>4, ChannelIdle
<1>6. ChannelShared'
  BY <1>1, <1>2 DEF ChannelShared, Channel!TypeOK
<1> QED BY <1>1, <1>2, <1>3, <1>5, <1>6, ChannelTurn

\* Sync and boot have one write to do.
LEMMA ChannelSyncKeeps ==
    ASSUME Serial, ChannelInv, NEW o \in Operators, Channel!Sync(o)
    PROVE  ChannelInv'
<1>1. PICK c : c = [Channel!Idle EXCEPT !.op = "sync", !.todo = <<"sync">>]
  OBVIOUS
<1>2. ChannelLeft("sync", <<"sync">>) /\ <<"sync">> \in Seq(ChannelWrites)
  BY DEF ChannelLeft, ChannelWrites
<1>3. c \in ChannelCommands /\ c.op = "sync" /\ c.todo = <<"sync">>
  BY <1>1, <1>2, ChannelIdle DEF ChannelCommands
<1>4. ChannelCommandInv(c)
  BY <1>2, <1>3 DEF ChannelCommandInv
<1> QED BY <1>1, <1>4, ChannelStart DEF Channel!Sync

\* The agent's command begins with 5, 6 or 9 writes to do.
LEMMA AgentStart ==
    ASSUME Serial, ChannelInv, NEW o \in Operators, NEW new \in [Channel!Kinds -> BOOLEAN], NEW todo,
           Channel!Start(o, [Channel!Idle EXCEPT !.op = "agent", !.config = new, !.todo = todo]),
           \/ todo = <<"manifest", "sync", "load", "save", "snapshots">> /\ new = config
           \/ todo = <<"config", "manifest", "sync", "load", "save", "snapshots">>
           \/ todo = <<"load", "save", "snapshots", "config", "manifest", "sync", "load", "save",
                       "snapshots">>
    PROVE  ChannelInv'
<1>1. PICK c : c = [Channel!Idle EXCEPT !.op = "agent", !.config = new, !.todo = todo]
  OBVIOUS
<1>2. ChannelLeft("agent", todo) /\ todo \in Seq(ChannelWrites)
  <2>1. ChannelLeft("agent", todo)
    BY DEF ChannelLeft
  <2> QED BY <2>1, ChannelTodo
<1>3. c \in ChannelCommands /\ c.op = "agent" /\ c.todo = todo /\ c.config = new
  BY <1>1, <1>2, ChannelIdle DEF ChannelCommands
<1>4. AgentInv(c)
  <2>1. CASE Len(todo) = 5 /\ new = config
    <3>1. AgentAt(c, 5)
      BY <1>3, <2>1 DEF AgentAt
    <3> QED BY <1>3, <2>1, <3>1 DEF AgentInv
  <2>2. CASE Len(todo) = 6
    <3>1. AgentAt(c, 6)
      BY DEF AgentAt
    <3> QED BY <1>3, <2>2, <3>1 DEF AgentInv
  <2>3. CASE Len(todo) = 9
    <3>1. AgentAt(c, 9)
      BY DEF AgentAt
    <3> QED BY <1>3, <2>3, <3>1 DEF AgentInv
  <2>4. (Len(todo) = 5 /\ new = config) \/ Len(todo) = 6 \/ Len(todo) = 9
    OBVIOUS
  <2> QED BY <2>1, <2>2, <2>3, <2>4
<1>5. ChannelCommandInv(c)
  BY <1>2, <1>3, <1>4 DEF ChannelCommandInv
<1> QED BY <1>1, <1>5, ChannelStart

\* Connect and disconnect begin.
LEMMA AgentStarts ==
    ASSUME Serial, ChannelInv, NEW o \in Operators,
           \/ Channel!Boot(o)
           \/ \E k \in Channel!Kinds : Channel!Connect(o, k) \/ Channel!Disconnect(o, k)
    PROVE  ChannelInv'
<1>1. config \in [Channel!Kinds -> BOOLEAN]
  BY DEF ChannelInv, ChannelShared, Channel!TypeOK
<1>2. CASE Channel!Boot(o)
  BY <1>1, <1>2, AgentStart DEF Channel!Boot, Channel!Resync
<1>3. ASSUME NEW k \in Channel!Kinds, Channel!Connect(o, k) PROVE ChannelInv'
  <2>1. PICK new : new = [config EXCEPT ![k] = TRUE]
    OBVIOUS
  <2>2. new \in [Channel!Kinds -> BOOLEAN]
    BY <1>1, <2>1
  <2>3. Channel!Start(o, [Channel!Idle EXCEPT !.op = "agent", !.config = new,
          !.todo = <<"config", "manifest", "sync", "load", "save", "snapshots">>])
    BY <1>3, <2>1, Scripts DEF Channel!Connect
  <2> QED BY <2>2, <2>3, AgentStart
<1>4. ASSUME NEW k \in Channel!Kinds, Channel!Disconnect(o, k) PROVE ChannelInv'
  <2>1. PICK new : new = [config EXCEPT ![k] = FALSE]
    OBVIOUS
  <2>2. new \in [Channel!Kinds -> BOOLEAN]
    BY <1>1, <2>1
  <2>3. PICK todo : todo = (IF k = "hook" THEN <<"load", "save", "snapshots">> ELSE <<>>)
                             \o <<"config">> \o Channel!Resync
    OBVIOUS
  <2>4. \/ todo = <<"config", "manifest", "sync", "load", "save", "snapshots">>
        \/ todo = <<"load", "save", "snapshots", "config", "manifest", "sync", "load", "save",
                    "snapshots">>
    BY <2>3, Scripts
  <2>5. Channel!Start(o, [Channel!Idle EXCEPT !.op = "agent", !.config = new, !.todo = todo])
    BY <1>4, <2>1, <2>3 DEF Channel!Disconnect
  <2> QED BY <2>2, <2>4, <2>5, AgentStart
<1> QED BY <1>2, <1>3, <1>4

\* Counting is the same in the part and here.
LEMMA ChannelCount == ASSUME NEW S PROVE Channel!Cardinality(S) = Cardinality(S)
  BY DEF Channel!Cardinality, Cardinality

\* What send and test have to write: a delivery nobody has written, without a diagnostic.
LEMMA ChannelEnqueueKeeps ==
    ASSUME Serial, ChannelInv, NEW o \in Operators, NEW k \in Channel!Kinds, NEW x \in Deliveries,
           NEW allowed \in BOOLEAN, NEW todo,
           todo = <<"delivery", "snapshots">> \/ todo = <<"delivery", "snapshots", "diagnostic">>,
           Channel!Enqueue(o, k, x, allowed, todo)
    PROVE  ChannelInv'
<1>1. PICK r : r = Channel!Record(k, x, allowed)
  OBVIOUS
<1>2. PICK c : c = [Channel!Idle EXCEPT !.op = "enqueue", !.id = x, !.record = r, !.todo = todo]
  OBVIOUS
<1>3. Channel!Start(o, c) /\ delivery[x] = None
  BY <1>1, <1>2 DEF Channel!Enqueue, Channel!Sent
<1>4. diagnostic[x] = None /\ clock \in Nat
  BY <1>3, SurfacesAssumption
  DEF ChannelInv, ChannelShared, Channel!TypeOK, Channel!ChannelsAssumption
<1>5. Cardinality(Channel!Sent) \in Nat
  <2>1. IsFiniteSet(Deliveries)
    BY SurfacesAssumption, Zenon DEF Channel!ChannelsAssumption, Channel!IsFiniteSet, IsFiniteSet
  <2>2. Channel!Sent \subseteq Deliveries
    BY DEF Channel!Sent
  <2> QED BY <2>1, <2>2, FS_Subset, FS_CardinalityType
<1>6. r \in Channel!Records
  BY <1>1, <1>4, <1>5, ChannelCount DEF Channel!Record, Channel!Records, Channel!Statuses
<1>7. ChannelLeft("enqueue", todo) /\ todo \in Seq(ChannelWrites) /\ Head(todo) = "delivery"
  <2>1. ChannelLeft("enqueue", todo)
    BY DEF ChannelLeft
  <2>2. todo \in Seq(ChannelWrites)
    BY <2>1, ChannelTodo
  <2> QED BY <2>1, <2>2
<1>8. /\ c \in ChannelCommands /\ c.op = "enqueue" /\ c.id = x /\ c.record = r /\ c.todo = todo
  BY <1>2, <1>6, <1>7, ChannelIdle DEF ChannelCommands
<1>9. ChannelCommandInv(c)
  BY <1>4, <1>6, <1>7, <1>8 DEF ChannelCommandInv, DeliveryInv
<1> QED BY <1>3, <1>9, ChannelStart

\* An update has the delivery, its diagnostic and the snapshots to write.
LEMMA ChannelUpdateKeeps ==
    ASSUME Serial, ChannelInv, NEW o \in Operators, NEW x \in Deliveries,
           NEW s \in Channel!Statuses, Channel!Update(o, x, s)
    PROVE  ChannelInv'
<1>1. PICK r : r = [delivery[x] EXCEPT !.status = s,
                      !.since = IF s \in {"delivered", "failed", "blocked"} THEN clock ELSE @]
  OBVIOUS
<1>2. PICK c : c = [Channel!Idle EXCEPT !.op = "update", !.id = x, !.record = r,
                                        !.todo = <<"delivery", "follow", "snapshots">>]
  OBVIOUS
<1>3. Channel!Start(o, c) /\ delivery[x] # None
  BY <1>1, <1>2 DEF Channel!Update, Channel!Sent, Channel!UpdateTodo
<1>4. delivery[x] \in Channel!Records /\ clock \in Nat
  BY <1>3, SurfacesAssumption
  DEF ChannelInv, ChannelShared, Channel!TypeOK, Channel!ChannelsAssumption
<1>5. r \in Channel!Records
  BY <1>1, <1>4 DEF Channel!Records
<1>6. /\ ChannelLeft("update", <<"delivery", "follow", "snapshots">>)
      /\ <<"delivery", "follow", "snapshots">> \in Seq(ChannelWrites)
      /\ Head(<<"delivery", "follow", "snapshots">>) = "delivery"
  BY DEF ChannelLeft, ChannelWrites
<1>7. /\ c \in ChannelCommands /\ c.op = "update" /\ c.id = x /\ c.record = r
      /\ c.todo = <<"delivery", "follow", "snapshots">>
  BY <1>2, <1>5, <1>6, ChannelIdle DEF ChannelCommands
<1>8. ChannelCommandInv(c)
  BY <1>5, <1>6, <1>7 DEF ChannelCommandInv, DeliveryInv
<1> QED BY <1>3, <1>8, ChannelStart

\* What a runtime begins with.
LEMMA ChannelStarts ==
    ASSUME Channel!Init PROVE ChannelInv
<1>1. /\ \A o \in Operators : command[o] = Channel!Idle
      /\ command \in [Operators -> ChannelCommands]
  BY ChannelIdle DEF Channel!Init
<1>2. Channel!TypeOK
  <2>1. Time["channel"] \in Nat
    BY SurfacesAssumption DEF Channel!ChannelsAssumption
  <2>2. 0 \in 0 .. Time["channel"]
    BY <2>1
  <2>3. /\ registry \in [Channel!Kinds -> {"absent", "off", "on"}] /\ registry["telegram"] = "off"
        /\ config \in [Channel!Kinds -> BOOLEAN] /\ manifest \in BOOLEAN
    BY DEF Channel!Init, Channel!Kinds
  <2>4. /\ diagnostic \in [Deliveries -> Channel!Statuses \cup {None}]
        /\ delivery \in [Deliveries -> Channel!Records \cup {None}]
    BY DEF Channel!Init
  <2> QED BY <2>2, <2>3, <2>4 DEF Channel!Init, Channel!TypeOK
<1>3. ChannelShared
  BY <1>2 DEF ChannelShared, Channel!Init
<1>4. FilesAgree(Channel!Idle)
  BY DEF Channel!Init, FilesAgree, RegistryAgrees, Channel!Kinds
<1> QED BY <1>1, <1>3, <1>4 DEF ChannelInv

\* The invariants of the channels follow.
LEMMA ChannelHolds ==
    ASSUME ChannelInv
    PROVE  /\ Channel!TypeOK /\ Channel!RegistryFollowsConfig
           /\ Channel!NewestIsCurrent /\ Channel!DiagnosticAgrees
<1>1. /\ Channel!TypeOK
      /\ Channel!Quiet => FilesAgree(Channel!Idle)
      /\ ~ToSnapshot(Channel!Idle) /\ \A d : ~ToFollow(Channel!Idle, d)
  BY ChannelIdle DEF ChannelInv, ChannelShared, ToSnapshot, ToFollow
<1>2. Channel!RegistryFollowsConfig
  BY <1>1, ChannelIdle DEF Channel!RegistryFollowsConfig, FilesAgree, RegistryAgrees
<1>3. Channel!NewestIsCurrent
  BY <1>1 DEF Channel!NewestIsCurrent, FilesAgree, HealthAgrees
<1>4. Channel!DiagnosticAgrees
  BY <1>1 DEF Channel!DiagnosticAgrees, FilesAgree
<1> QED BY <1>1, <1>2, <1>3, <1>4

\* Every step of the channels keeps the invariant, while commands come one by one.
LEMMA ChannelKept ==
    ASSUME Serial, ChannelInv, Channel!Next \/ UNCHANGED <<channel, command, clock, ops, crashes, torn>>
    PROVE  ChannelInv'
<1>1. ASSUME NEW o \in Operators,
             \/ Channel!Sync(o) \/ Channel!Boot(o)
             \/ \E k \in Channel!Kinds : Channel!Connect(o, k) \/ Channel!Disconnect(o, k)
      PROVE  ChannelInv'
  BY <1>1, ChannelSyncKeeps, AgentStarts
<1>2. ASSUME NEW o \in Operators, NEW k \in Channel!Kinds, NEW d \in Deliveries,
             NEW allowed \in BOOLEAN, Channel!Send(o, k, d, allowed)
      PROVE  ChannelInv'
  BY <1>2, ChannelEnqueueKeeps DEF Channel!Send
<1>3. ASSUME NEW o \in Operators, NEW d \in Deliveries, Channel!Test(o, d)
      PROVE  ChannelInv'
  <2>1. Channel!Target \in Channel!Kinds
    BY DEF Channel!Target, Channel!Kinds
  <2> QED BY <1>3, <2>1, ChannelEnqueueKeeps DEF Channel!Test
<1>4. ASSUME NEW o \in Operators, NEW d \in Deliveries, NEW s \in Channel!Statuses,
             Channel!Update(o, d, s)
      PROVE  ChannelInv'
  BY <1>4, ChannelUpdateKeeps
<1>5. ASSUME NEW o \in Operators,
             \/ Channel!WriteConfig(o) \/ Channel!WriteManifest(o) \/ Channel!SyncRegistry(o)
             \/ Channel!LoadRegistry(o) \/ Channel!SaveRegistry(o) \/ Channel!Snapshots(o)
             \/ Channel!WriteDelivery(o) \/ Channel!WriteDiagnostic(o)
             \/ Channel!FollowDiagnostic(o) \/ Channel!Crash(o)
      PROVE  ChannelInv'
  BY <1>5, WriteConfigKeeps, AgentManifestKeeps, SyncRegistryKeeps, LoadRegistryKeeps,
     SaveRegistryKeeps, SnapshotsKeep, WriteDeliveryKeeps, WriteDiagnosticKeeps,
     FollowDiagnosticKeeps, ChannelCrashKeeps
<1>6. CASE Channel!Tick
  BY <1>6, ChannelTickKeeps
<1>7. CASE UNCHANGED <<channel, command, clock, ops, crashes, torn>>
  <2>1. UNCHANGED <<config, manifest, registry, delivery, diagnostic, newest, command, clock, torn>>
    BY <1>7 DEF channel
  <2>2. \A c : /\ ChannelCommandInv(c) => ChannelCommandInv(c)'
               /\ FilesAgree(c) => FilesAgree(c)'
    BY <2>1, HealthSame DEF ChannelCommandInv, AgentInv, AgentAt, DeliveryInv, FilesAgree,
       RegistryAgrees, ToSnapshot, ToFollow
  <2>3. ChannelShared => ChannelShared'
    BY <2>1 DEF ChannelShared, Channel!TypeOK
  <2>4. Channel!Quiet' => Channel!Quiet
    BY <2>1 DEF Channel!Quiet
  <2>5. /\ ChannelShared' /\ command' \in [Operators -> ChannelCommands]
        /\ Channel!Quiet' => FilesAgree(Channel!Idle)'
    BY <2>1, <2>2, <2>3, <2>4 DEF ChannelInv
  <2>6. ASSUME NEW o \in Operators, command'[o] # Channel!Idle
        PROVE  /\ ChannelCommandInv(command[o])' /\ FilesAgree(command[o])'
               /\ \A p \in Operators : p = o \/ command'[p] = Channel!Idle
    <3>1. PICK c : c = command[o]
      OBVIOUS
    <3>2. /\ ChannelCommandInv(c) /\ FilesAgree(c)
          /\ \A p \in Operators : p = o \/ command[p] = Channel!Idle
      BY <2>1, <2>6, <3>1 DEF ChannelInv
    <3>3. ChannelCommandInv(c)' /\ FilesAgree(c)' /\ c = command'[o]
      BY <2>1, <2>2, <3>1, <3>2
    <3> QED BY <2>1, <3>2, <3>3
            DEF ChannelCommandInv, AgentInv, DeliveryInv, FilesAgree, ToSnapshot, ToFollow
  <2> QED BY <2>5, <2>6 DEF ChannelInv
<1> QED BY <1>1, <1>2, <1>3, <1>4, <1>5, <1>6, <1>7 DEF Channel!Next

-----------------------------------------------------------------------------
(* The sessions.                                                           *)

Hands ==
    [pc : {"idle", "bind", "open", "override", "route", "policy", "link", "run", "index"},
     request : Requests \cup {None}, key : Session!Keys \cup {None}, bound : BOOLEAN,
     held : Session!Table \cup {None}, override : Session!Overrides \cup {None},
     profile : Session!Profiles \cup {""}, policy : Session!Modes, rec : Nat, link : BOOLEAN,
     inForce : SUBSET (Session!Overrides \cup {None}), modes : SUBSET Session!Modes]

\* The command of the operator: what it routes or links comes after every recording.
ByHandInv == LET h == command["operator"] IN
    /\ h.pc \in {"idle", "open", "route", "link"}
    /\ h.pc # "idle" => h.key \in Session!Keys
    /\ h.pc \in {"route", "link"} \/ h.profile # "" => h.rec = Runs["session"] + 1

\* The recording at work: what it has read was in force at some moment of it.
RecordingInv == LET h == command["service"] IN
    /\ h.pc # "idle" => h.request \in Requests /\ h.rec = count /\ count > 0
    /\ h.pc \notin {"idle", "bind"} =>
         h.key \in Session!Keys /\ overrides[h.key] \in h.inForce /\ Session!Mode(h.key) \in h.modes
    /\ h.pc = "open" => h.bound
    /\ h.pc \in {"route", "policy", "link", "run", "index"} =>
         /\ h.override \in h.inForce \/ (h.override = None /\ "overrides" \in torn)
         /\ h.profile = "other" => h.override = "other"
    /\ h.pc \in {"link", "run", "index"} => h.policy \in h.modes \/ "policies" \in torn

\* Each run is of a recording of its own, the last one of the recording at work once it
\* has written it.
RunOf(h) == [request |-> h.request, key |-> h.key, bound |-> h.bound, profile |-> h.profile,
            applied |-> h.override # None, policy |-> h.policy, rec |-> h.rec]
PipelinesInv == LET h == command["service"] IN
    /\ \A i \in 1 .. Len(pipelines) : pipelines[i].rec \in 1 .. count
    /\ h.pc \notin {"idle", "index"} => \A i \in 1 .. Len(pipelines) : pipelines[i].rec < h.rec
    /\ h.pc = "index" => Len(pipelines) > 0 /\ pipelines[Len(pipelines)] = RunOf(h)

\* The runs of a request its index does not name yet.
Unindexed(r) == {i \in index[r] + 1 .. Len(pipelines) : pipelines[i].request = r}
Owing(r) == IF command["service"].pc = "index" /\ command["service"].request = r THEN 1 ELSE 0
IndexInv == \A r \in Requests : index[r] # 0 =>
    pipelines[index[r]].request = r /\ Cardinality(Unindexed(r)) <= crashes + Owing(r)

\* What a session's record says of a recording that has routed or linked it.
RoutedBy(s, rec, profile, applied) == s.routed = rec =>
    /\ profile # "" => s.profile = profile
    /\ s.source = IF applied THEN "manual" ELSE "default"
LinkedBy(s, rec, request) == s.linked >= rec /\ (s.linked = rec => s.request = request)
LeadsRun(t, run) == run.bound =>
    /\ t[run.key] # None
    /\ RoutedBy(t[run.key], run.rec, run.profile, run.applied)
    /\ LinkedBy(t[run.key], run.rec, run.request)

\* How far the recording at work has brought its session.
LeadsRecording(t, h) == h.bound =>
    /\ h.pc \in {"override", "route", "policy", "link", "run"} => t[h.key] # None
    /\ h.pc \in {"policy", "link", "run"} => RoutedBy(t[h.key], h.rec, h.profile, h.override # None)
    /\ h.pc = "run" => LinkedBy(t[h.key], h.rec, h.request)

\* While nobody else held the registry, a copy of it is what it is.
HeldInv == ~overlap =>
    /\ \A a \in Session!Actors : command[a].held # None => command[a].held = sessions
    /\ command["service"].held = None \/ command["operator"].held = None
LeadInv == ~overlap /\ "sessions" \notin torn =>
    /\ \A i \in 1 .. Len(pipelines) : LeadsRun(sessions, pipelines[i])
    /\ LeadsRecording(sessions, command["service"])

SessionInv ==
    /\ Session!TypeOK /\ command \in [Session!Actors -> Hands]
    /\ ByHandInv /\ RecordingInv /\ PipelinesInv /\ IndexInv /\ HeldInv /\ LeadInv

\* The hand of nobody.
LEMMA HandIdle ==
    /\ Session!Idle \in Hands /\ Session!Idle.pc = "idle" /\ Session!Idle.held = None
    /\ Session!Idle.bound = FALSE /\ Session!Idle.profile = ""
  BY DEF Session!Idle, Hands, Session!Modes

\* The service goes on, and the operator stays where he is.
LEMMA ServiceTurn ==
    ASSUME SessionInv, NEW n \in Hands, command' = [command EXCEPT !["service"] = n]
    PROVE  /\ command' \in [Session!Actors -> Hands] /\ DOMAIN command' = Session!Actors
           /\ command'["service"] = n /\ command'["operator"] = command["operator"]
  BY DEF SessionInv, Session!Actors

\* The other way round.
LEMMA OperatorTurn ==
    ASSUME SessionInv, NEW n \in Hands, command' = [command EXCEPT !["operator"] = n]
    PROVE  /\ command' \in [Session!Actors -> Hands] /\ DOMAIN command' = Session!Actors
           /\ command'["operator"] = n /\ command'["service"] = command["service"]
  BY DEF SessionInv, Session!Actors

\* Runs and index as they were, a run may be left unindexed for each death and for the
\* recording at work.
LEMMA IndexStays ==
    ASSUME Session!TypeOK, IndexInv, UNCHANGED <<pipelines, index>>,
           \A r \in Requests : crashes + Owing(r) <= crashes' + Owing(r)',
           \A r \in Requests : crashes + Owing(r) \in Nat /\ crashes' + Owing(r)' \in Nat
    PROVE  IndexInv'
<1> SUFFICES ASSUME NEW r \in Requests, index'[r] # 0
             PROVE  /\ pipelines'[index'[r]].request = r
                    /\ Cardinality(Unindexed(r))' <= crashes' + Owing(r)'
  BY DEF IndexInv
<1>1. Unindexed(r)' = Unindexed(r)
  BY DEF Unindexed
<1>2. pipelines[index[r]].request = r /\ Cardinality(Unindexed(r)) <= crashes + Owing(r)
  BY DEF IndexInv
<1>3. Cardinality(Unindexed(r)) \in Nat
  <2>1. index[r] + 1 \in Int /\ Len(pipelines) \in Int
    BY DEF Session!TypeOK
  <2>2. IsFiniteSet(index[r] + 1 .. Len(pipelines))
    BY <2>1, FS_Interval
  <2>3. Unindexed(r) \subseteq index[r] + 1 .. Len(pipelines)
    BY DEF Unindexed
  <2> QED BY <2>2, <2>3, FS_Subset, FS_CardinalityType
<1>4. Cardinality(Unindexed(r))' = Cardinality(Unindexed(r))
  BY <1>1
<1> QED BY <1>2, <1>3, <1>4

\* A step of the service that writes nothing but, perhaps, the registry.
LEMMA ServiceStep ==
    ASSUME SessionInv, NEW h, h = command["service"],
           NEW n \in Hands, command' = [command EXCEPT !["service"] = n],
           h.pc \notin {"idle", "index"}, n.pc \notin {"idle", "index"},
           n.rec = h.rec, n.request = h.request,
           UNCHANGED <<binding, overrides, policies, pipelines, index, torn, crashes, ops, count>>,
           sessions' \in Session!Table, overlap' \in BOOLEAN, RecordingInv', HeldInv', LeadInv'
    PROVE  SessionInv'
<1>1. /\ command' \in [Session!Actors -> Hands] /\ DOMAIN command' = Session!Actors
      /\ command'["service"] = n /\ command'["operator"] = command["operator"]
  BY ServiceTurn
<1>2. Session!TypeOK'
  BY <1>1 DEF SessionInv, Session!TypeOK
<1>3. ByHandInv'
  BY <1>1 DEF SessionInv, ByHandInv
<1>4. PipelinesInv'
  BY <1>1 DEF SessionInv, PipelinesInv
<1>5. IndexInv'
  <2>1. \A r \in Requests : Owing(r) = 0 /\ Owing(r)' = 0
    BY <1>1 DEF Owing
  <2> QED BY <2>1, IndexStays DEF SessionInv, Session!TypeOK
<1> QED BY <1>1, <1>2, <1>3, <1>4, <1>5 DEF SessionInv

\* A step of the operator's command, likewise.
LEMMA OperatorStep ==
    ASSUME SessionInv, NEW n \in Hands, command' = [command EXCEPT !["operator"] = n],
           UNCHANGED <<overrides, policies, pipelines, index, torn, crashes, count>>,
           binding' \in [enabled: BOOLEAN, scope: {"global", "peer"}],
           ops' \in 0 .. Ops["session"],
           sessions' \in Session!Table, overlap' \in BOOLEAN, ByHandInv', HeldInv', LeadInv'
    PROVE  SessionInv'
<1>1. /\ command' \in [Session!Actors -> Hands] /\ DOMAIN command' = Session!Actors
      /\ command'["operator"] = n /\ command'["service"] = command["service"]
  BY OperatorTurn
<1>2. Session!TypeOK'
  BY <1>1 DEF SessionInv, Session!TypeOK
<1>3. RecordingInv'
  BY <1>1 DEF SessionInv, RecordingInv, Session!Mode
<1>4. PipelinesInv'
  BY <1>1 DEF SessionInv, PipelinesInv, RunOf
<1>5. IndexInv'
  <2>1. \A r \in Requests : Owing(r) \in {0, 1} /\ Owing(r)' = Owing(r)
    BY <1>1 DEF Owing
  <2> QED BY <2>1, IndexStays DEF SessionInv, Session!TypeOK
<1> QED BY <1>1, <1>2, <1>3, <1>4, <1>5 DEF SessionInv

\* What the registry says of the runs stays while it is left alone.
LEMMA LeadStays ==
    ASSUME SessionInv, sessions' = sessions, UNCHANGED pipelines,
           "sessions" \in torn => "sessions" \in torn',
           overlap => overlap',
           ~overlap' /\ "sessions" \notin torn' => LeadsRecording(sessions, command["service"])'
    PROVE  LeadInv'
<1>1. \A i : LeadsRun(sessions, pipelines[i])' = LeadsRun(sessions, pipelines[i])
  BY DEF LeadsRun
<1> QED BY <1>1 DEF SessionInv, LeadInv

\* A request arrives, and its recording gets a number of its own.
LEMMA ReceiveKeeps ==
    ASSUME SessionInv, Session!Receive PROVE SessionInv'
<1>1. PICK r \in Requests :
        /\ command["service"].pc = "idle" /\ count < Runs["session"] /\ count' = count + 1
        /\ command' = [command EXCEPT !["service"] =
             [Session!Idle EXCEPT !.pc = "bind", !.request = r, !.rec = count + 1]]
        /\ UNCHANGED <<binding, overrides, policies, sessions, pipelines, index, torn, crashes,
                       overlap, ops>>
  BY DEF Session!Receive, Session!At, Session!Work, Session!policy, Session!kept
<1>2. PICK n : n = [Session!Idle EXCEPT !.pc = "bind", !.request = r, !.rec = count + 1]
  OBVIOUS
<1>3. count \in Nat /\ count' \in 0 .. Runs["session"] /\ count' = count + 1
  BY <1>1, SurfacesAssumption DEF SessionInv, Session!TypeOK, Session!SessionsAssumption
<1>4. /\ n \in Hands /\ n.pc = "bind" /\ n.request = r /\ n.rec = count + 1
      /\ n.held = None /\ n.bound = FALSE
  <2>1. n \in Hands
    <3>1. count + 1 \in Nat
      BY <1>3
    <3> QED BY <1>2, <3>1 DEF Hands, Session!Idle, Session!Modes
  <2>2. /\ n.pc = "bind" /\ n.request = r /\ n.rec = count + 1
        /\ n.held = None /\ n.bound = FALSE
    BY <1>2 DEF Session!Idle
  <2> QED BY <2>1, <2>2
<1>5. /\ command' \in [Session!Actors -> Hands] /\ DOMAIN command' = Session!Actors
      /\ command'["service"] = n /\ command'["operator"] = command["operator"]
  BY <1>1, <1>2, <1>4, ServiceTurn
<1>6. Session!TypeOK'
  BY <1>1, <1>3, <1>5 DEF SessionInv, Session!TypeOK
<1>7. ByHandInv'
  BY <1>5 DEF SessionInv, ByHandInv
<1>8. RecordingInv'
  BY <1>3, <1>4, <1>5 DEF RecordingInv
<1>9. PipelinesInv'
  <2>1. \A i \in 1 .. Len(pipelines) : pipelines[i].rec \in 1 .. count
    BY DEF SessionInv, PipelinesInv
  <2>2. \A i \in 1 .. Len(pipelines) : pipelines[i].rec \in 1 .. count + 1 /\ pipelines[i].rec < count + 1
    BY <1>3, <2>1
  <2> QED BY <1>1, <1>3, <1>4, <1>5, <2>2 DEF PipelinesInv
<1>10. IndexInv'
  <2>1. \A r1 \in Requests : Owing(r1) = 0 /\ Owing(r1)' = 0
    BY <1>1, <1>4, <1>5 DEF Owing
  <2> QED BY <1>1, <2>1, IndexStays DEF SessionInv, Session!TypeOK
<1>11. HeldInv'
  BY <1>1, <1>4, <1>5 DEF SessionInv, HeldInv, Session!Actors
<1>12. LeadInv'
  BY <1>1, <1>4, <1>5, LeadStays DEF LeadsRecording
<1> QED BY <1>5, <1>6, <1>7, <1>8, <1>9, <1>10, <1>11, <1>12 DEF SessionInv

\* The hand of the recording at work.
LEMMA RecordingHand ==
    ASSUME SessionInv, NEW h, h = command["service"]
    PROVE  /\ h \in Hands
           /\ h.pc # "idle" => h.request \in Requests
           /\ h.pc \notin {"idle", "bind"} => h.key \in Session!Keys
  BY DEF SessionInv, RecordingInv, Session!Actors

\* The copies of the registry stay what they are while it is left alone.
LEMMA HeldStays ==
    ASSUME SessionInv, UNCHANGED sessions, overlap => overlap',
           \A a \in Session!Actors : command'[a].held \in {None, command[a].held}
    PROVE  HeldInv'
  BY DEF SessionInv, HeldInv, Session!Actors

\* The binding tells the session; what is in force from here on is noted.
LEMMA ResolveSessionKeeps ==
    ASSUME SessionInv, Session!Resolve PROVE SessionInv'
<1>1. PICK h : h = command["service"]
  OBVIOUS
<1>2. PICK k : k = IF binding.enabled /\ binding.scope = "global" THEN "global" ELSE h.request
  OBVIOUS
<1>3. PICK n : n = [h EXCEPT !.pc = IF binding.enabled THEN "open" ELSE "override",
               !.key = k, !.bound = binding.enabled,
               !.inForce = {overrides[k]}, !.modes = {Session!Mode(k)}]
  OBVIOUS
<1>4. /\ h.pc = "bind" /\ command' = [command EXCEPT !["service"] = n]
      /\ UNCHANGED <<binding, overrides, policies, sessions, pipelines, index, torn, crashes,
                     overlap, count, ops>>
  BY <1>1, <1>2, <1>3 DEF Session!Resolve, Session!At, Session!Work, Session!policy, Session!kept
<1>5. h \in Hands /\ h.request \in Requests /\ k \in Session!Keys /\ binding.enabled \in BOOLEAN
  BY <1>1, <1>2, <1>4, RecordingHand DEF Session!Keys, SessionInv, Session!TypeOK
<1>6. overrides[k] \in Session!Overrides \cup {None} /\ Session!Mode(k) \in Session!Modes
  BY <1>5 DEF SessionInv, Session!TypeOK, Session!Mode, Session!Modes
<1>7. n \in Hands
  BY <1>3, <1>5, <1>6 DEF Hands
<1>8. /\ n.pc = IF binding.enabled THEN "open" ELSE "override"
      /\ n.key = k /\ n.bound = binding.enabled /\ n.held = h.held
      /\ n.request = h.request /\ n.rec = h.rec
      /\ n.inForce = {overrides[k]} /\ n.modes = {Session!Mode(k)}
  BY <1>3, <1>5 DEF Hands
<1>9. command'["service"] = n /\ command'["operator"] = command["operator"]
  BY <1>4, <1>7, ServiceTurn
<1>10. RecordingInv'
  BY <1>1, <1>4, <1>5, <1>8, <1>9 DEF SessionInv, RecordingInv, Session!Mode
<1>11. HeldInv'
  BY <1>1, <1>4, <1>8, <1>9, HeldStays DEF Session!Actors
<1>12. LeadInv'
  BY <1>4, <1>5, <1>8, <1>9, LeadStays DEF LeadsRecording
<1>13. sessions' \in Session!Table /\ overlap' \in BOOLEAN
  BY <1>4 DEF SessionInv, Session!TypeOK
<1> QED BY <1>1, <1>4, <1>5, <1>7, <1>8, <1>10, <1>11, <1>12, <1>13, ServiceStep

\* The override read is in force now, or nobody could read it.
LEMMA ReadOverrideKeeps ==
    ASSUME SessionInv, Session!ReadOverride PROVE SessionInv'
<1>1. PICK h : h = command["service"]
  OBVIOUS
<1>2. PICK o : o = IF "overrides" \in torn THEN None ELSE overrides[h.key]
  OBVIOUS
<1>3. PICK p \in Session!Profiles \cup {""} :
        /\ p = "other" => o = "other"
        /\ command' = [command EXCEPT !["service"] =
             [h EXCEPT !.pc = "route", !.override = o, !.profile = p]]
  <2>1. PICK ok \in BOOLEAN :
          command' = [command EXCEPT !["service"] = [h EXCEPT !.pc = "route", !.override = o,
            !.profile = IF ~ok THEN "" ELSE IF o \in Session!Profiles THEN o ELSE "own"]]
    BY <1>1, <1>2 DEF Session!ReadOverride, Session!Work
  <2>2. PICK p : p = IF ~ok THEN "" ELSE IF o \in Session!Profiles THEN o ELSE "own"
    OBVIOUS
  <2>3. p \in Session!Profiles \cup {""} /\ (p = "other" => o = "other")
    BY <2>2 DEF Session!Profiles
  <2> QED BY <2>1, <2>2, <2>3
<1>4. PICK n : n = [h EXCEPT !.pc = "route", !.override = o, !.profile = p]
  OBVIOUS
<1>5. /\ h.pc = "override" /\ command' = [command EXCEPT !["service"] = n]
      /\ UNCHANGED <<binding, overrides, policies, sessions, pipelines, index, torn, crashes,
                     overlap, count, ops>>
  BY <1>1, <1>3, <1>4 DEF Session!ReadOverride, Session!At, Session!policy, Session!kept
<1>6. h \in Hands /\ h.key \in Session!Keys
  BY <1>1, <1>5, RecordingHand
<1>7. o \in Session!Overrides \cup {None}
  BY <1>2, <1>6 DEF SessionInv, Session!TypeOK
<1>8. n \in Hands
  BY <1>4, <1>6, <1>7 DEF Hands
<1>9. /\ n.pc = "route" /\ n.override = o /\ (n.profile = "other" => o = "other")
      /\ n.key = h.key /\ n.bound = h.bound /\ n.held = h.held /\ n.request = h.request
      /\ n.rec = h.rec /\ n.inForce = h.inForce /\ n.modes = h.modes
  BY <1>3, <1>4, <1>6 DEF Hands
<1>10. command'["service"] = n /\ command'["operator"] = command["operator"]
  BY <1>5, <1>8, ServiceTurn
<1>11. RecordingInv'
  BY <1>1, <1>2, <1>5, <1>9, <1>10 DEF SessionInv, RecordingInv, Session!Mode
<1>12. HeldInv'
  BY <1>1, <1>5, <1>9, <1>10, HeldStays DEF Session!Actors
<1>13. LeadInv'
  <2>1. ~overlap' /\ "sessions" \notin torn' => LeadsRecording(sessions, command["service"])'
    BY <1>1, <1>5, <1>9, <1>10 DEF LeadsRecording, SessionInv, LeadInv
  <2> QED BY <1>5, <2>1, LeadStays
<1>14. sessions' \in Session!Table /\ overlap' \in BOOLEAN
  BY <1>5 DEF SessionInv, Session!TypeOK
<1> QED BY <1>1, <1>5, <1>8, <1>9, <1>11, <1>12, <1>13, <1>14, ServiceStep

\* The policy read is in force now, likewise.
LEMMA ReadPolicyKeeps ==
    ASSUME SessionInv, Session!ReadPolicy PROVE SessionInv'
<1>1. PICK h : h = command["service"]
  OBVIOUS
<1>2. PICK m : m = IF "policies" \in torn THEN "deliver" ELSE Session!Mode(h.key)
  OBVIOUS
<1>3. PICK n : n = [h EXCEPT !.pc = "link", !.policy = m]
  OBVIOUS
<1>4. /\ h.pc = "policy" /\ command' = [command EXCEPT !["service"] = n]
      /\ UNCHANGED <<binding, overrides, policies, sessions, pipelines, index, torn, crashes,
                     overlap, count, ops>>
  BY <1>1, <1>2, <1>3 DEF Session!ReadPolicy, Session!At, Session!Work, Session!policy, Session!kept
<1>5. h \in Hands /\ h.key \in Session!Keys
  BY <1>1, <1>4, RecordingHand
<1>6. m \in Session!Modes
  BY <1>2, <1>5 DEF SessionInv, Session!TypeOK, Session!Mode, Session!Modes
<1>7. n \in Hands
  BY <1>3, <1>5, <1>6 DEF Hands
<1>8. /\ n.pc = "link" /\ n.policy = m /\ n.override = h.override /\ n.profile = h.profile
      /\ n.key = h.key /\ n.bound = h.bound /\ n.held = h.held /\ n.request = h.request
      /\ n.rec = h.rec /\ n.inForce = h.inForce /\ n.modes = h.modes
  BY <1>3, <1>5 DEF Hands
<1>9. command'["service"] = n /\ command'["operator"] = command["operator"]
  BY <1>4, <1>7, ServiceTurn
<1>10. RecordingInv'
  BY <1>1, <1>2, <1>4, <1>8, <1>9 DEF SessionInv, RecordingInv, Session!Mode
<1>11. HeldInv'
  BY <1>1, <1>4, <1>8, <1>9, HeldStays DEF Session!Actors
<1>12. LeadInv'
  <2>1. ~overlap' /\ "sessions" \notin torn' => LeadsRecording(sessions, command["service"])'
    BY <1>1, <1>4, <1>8, <1>9 DEF LeadsRecording, SessionInv, LeadInv
  <2> QED BY <1>4, <2>1, LeadStays
<1>13. sessions' \in Session!Table /\ overlap' \in BOOLEAN
  BY <1>4 DEF SessionInv, Session!TypeOK
<1> QED BY <1>1, <1>4, <1>7, <1>8, <1>10, <1>11, <1>12, <1>13, ServiceStep

\* The run is written, after all the others, and tells what its recording knows.
LEMMA WriteRunKeeps ==
    ASSUME SessionInv, Session!WriteRun PROVE SessionInv'
<1>1. PICK h : h = command["service"]
  OBVIOUS
<1>2. PICK n : n = [h EXCEPT !.pc = "index"]
  OBVIOUS
<1>3. PICK run : run = RunOf(h)
  OBVIOUS
<1>4. /\ h.pc = "run" /\ pipelines' = Append(pipelines, run)
      /\ UNCHANGED <<binding, overrides, policies, sessions, index, torn, crashes,
                     overlap, count, ops>>
  BY <1>1, <1>3 DEF Session!WriteRun, Session!At, Session!policy, Session!kept, RunOf
<1>5. /\ h \in Hands /\ h.request \in Requests /\ h.key \in Session!Keys
      /\ h.rec = count /\ count \in Nat /\ count > 0 /\ command \in [Session!Actors -> Hands]
  BY <1>1, <1>4, RecordingHand DEF SessionInv, RecordingInv, Session!TypeOK
<1>6. n \in Hands /\ command' = [command EXCEPT !["service"] = n]
  BY <1>1, <1>2, <1>5 DEF Hands, Session!WriteRun, Session!Goes
<1>7. /\ n.pc = "index" /\ n.policy = h.policy /\ n.override = h.override /\ n.profile = h.profile
      /\ n.key = h.key /\ n.bound = h.bound /\ n.held = h.held /\ n.request = h.request
      /\ n.rec = h.rec /\ n.inForce = h.inForce /\ n.modes = h.modes
  BY <1>2, <1>5 DEF Hands
<1>8. /\ command' \in [Session!Actors -> Hands] /\ DOMAIN command' = Session!Actors
      /\ command'["service"] = n /\ command'["operator"] = command["operator"]
  BY <1>6, ServiceTurn
<1>9. run \in Session!Run
  BY <1>3, <1>5 DEF RunOf, Session!Run, Hands
<1>10. PICK l \in Nat : l = Len(pipelines)
  BY DEF SessionInv, Session!TypeOK
<1>11. /\ pipelines \in Seq(Session!Run) /\ pipelines' \in Seq(Session!Run)
       /\ Len(pipelines') = l + 1 /\ pipelines'[l + 1] = run
       /\ \A i \in 1 .. l : pipelines'[i] = pipelines[i]
       /\ \A i \in 1 .. l + 1 : i \in 1 .. l \/ i = l + 1
  BY <1>4, <1>9, <1>10 DEF SessionInv, Session!TypeOK
<1>12. Session!TypeOK'
  <2>1. index' \in [Requests -> 0 .. Len(pipelines')]
    BY <1>4, <1>10, <1>11 DEF SessionInv, Session!TypeOK
  <2> QED BY <1>4, <1>8, <1>11, <2>1 DEF SessionInv, Session!TypeOK
<1>13. ByHandInv'
  BY <1>8 DEF SessionInv, ByHandInv
<1>14. RecordingInv'
  BY <1>1, <1>4, <1>7, <1>8 DEF SessionInv, RecordingInv, Session!Mode
<1>15. PipelinesInv'
  <2>1. \A i \in 1 .. l : pipelines[i].rec \in 1 .. count
    BY <1>10 DEF SessionInv, PipelinesInv
  <2>2. run.rec \in 1 .. count
    BY <1>3, <1>5 DEF RunOf
  <2>3. \A i \in 1 .. Len(pipelines') : pipelines'[i].rec \in 1 .. count'
    BY <1>4, <1>11, <2>1, <2>2
  <2>4. run = RunOf(n)
    BY <1>3, <1>7 DEF RunOf
  <2> QED BY <1>7, <1>8, <1>10, <1>11, <2>3, <2>4 DEF PipelinesInv, RunOf
<1>16. IndexInv'
  <2> SUFFICES ASSUME NEW r \in Requests, index[r] # 0
               PROVE  /\ pipelines'[index[r]].request = r
                      /\ Cardinality(Unindexed(r)') <= crashes + Owing(r)'
    BY <1>4 DEF IndexInv
  <2>1. index[r] \in 1 .. l /\ crashes \in Nat
    BY <1>10 DEF SessionInv, Session!TypeOK
  <2>2. pipelines[index[r]].request = r /\ Cardinality(Unindexed(r)) <= crashes
    BY <1>1, <1>4, <2>1 DEF SessionInv, IndexInv, Owing
  <2>3. IsFiniteSet(Unindexed(r)) /\ Cardinality(Unindexed(r)) \in Nat
    <3>1. index[r] + 1 \in Int /\ l \in Int
      BY <2>1
    <3>2. IsFiniteSet(index[r] + 1 .. l)
      BY <3>1, FS_Interval
    <3>3. Unindexed(r) \subseteq index[r] + 1 .. l
      BY <1>10 DEF Unindexed
    <3> QED BY <3>2, <3>3, FS_Subset, FS_CardinalityType
  <2>4. \A i : i \in Unindexed(r)' <=> i \in Unindexed(r) \/ (i = l + 1 /\ run.request = r)
    <3>1. \A i : i \in index[r] + 1 .. l + 1 <=> i \in index[r] + 1 .. l \/ i = l + 1
      BY <2>1
    <3>2. \A i \in index[r] + 1 .. l : pipelines'[i] = pipelines[i]
      BY <1>11, <2>1
    <3> QED BY <1>4, <1>10, <1>11, <3>1, <3>2 DEF Unindexed
  <2>5. CASE run.request = r
    <3> DEFINE old == Unindexed(r)
               new == Unindexed(r)'
    <3>1. new = old \cup {l + 1}
      BY <2>4, <2>5
    <3>2. Cardinality(Unindexed(r)') <= Cardinality(Unindexed(r)) + 1
      <4> HIDE DEF old, new
      <4>1. Cardinality(new) = IF l + 1 \in old THEN Cardinality(old) ELSE Cardinality(old) + 1
        BY <2>3, <3>1, FS_AddElement DEF old
      <4>2. Cardinality(new) <= Cardinality(old) + 1
        BY <2>3, <4>1 DEF old
      <4> QED BY <4>2 DEF old, new
    <3>3. Owing(r)' = 1
      BY <1>3, <1>7, <1>8, <2>5 DEF Owing, RunOf
    <3>4. Cardinality(Unindexed(r)') \in Nat
      <4> HIDE DEF old, new
      <4>1. IsFiniteSet(new)
        BY <2>3, <3>1, FS_AddElement DEF old
      <4>2. Cardinality(new) \in Nat
        BY <4>1, FS_CardinalityType
      <4> QED BY <4>2 DEF new
    <3> QED BY <1>11, <2>1, <2>2, <2>3, <3>2, <3>3, <3>4
  <2>6. CASE run.request # r
    <3>1. Owing(r)' = 0
      BY <1>3, <1>7, <1>8, <2>6 DEF Owing, RunOf
    <3>2. Unindexed(r)' = Unindexed(r)
      BY <2>4, <2>6
    <3> QED BY <1>11, <2>1, <2>2, <3>1, <3>2
  <2> QED BY <2>5, <2>6
<1>17. HeldInv'
  BY <1>1, <1>4, <1>7, <1>8, HeldStays DEF Session!Actors
<1>18. LeadInv'
  <2> SUFFICES ASSUME ~overlap, "sessions" \notin torn
               PROVE  /\ \A i \in 1 .. Len(pipelines') : LeadsRun(sessions, pipelines'[i])
                      /\ LeadsRecording(sessions, n)
    BY <1>4, <1>8 DEF LeadInv, LeadsRun, LeadsRecording, RoutedBy, LinkedBy
  <2>1. (\A i \in 1 .. l : LeadsRun(sessions, pipelines[i])) /\ LeadsRecording(sessions, h)
    BY <1>1, <1>10 DEF SessionInv, LeadInv
  <2>2. LeadsRun(sessions, run)
    BY <1>3, <1>4, <2>1 DEF LeadsRun, LeadsRecording, RunOf
  <2>3. LeadsRecording(sessions, n)
    BY <1>7 DEF LeadsRecording
  <2>4. \A i \in 1 .. l + 1 : LeadsRun(sessions, pipelines'[i])
    BY <1>11, <2>1, <2>2
  <2> QED BY <1>11, <2>3, <2>4
<1> QED BY <1>8, <1>12, <1>13, <1>14, <1>15, <1>16, <1>17, <1>18 DEF SessionInv

\* The run is indexed, and the recording is over.
LEMMA IndexRunKeeps ==
    ASSUME SessionInv, Session!IndexRun PROVE SessionInv'
<1>1. PICK h : h = command["service"]
  OBVIOUS
<1>2. /\ h.pc = "index" /\ command' = [command EXCEPT !["service"] = Session!Idle]
      /\ index' = [r \in Requests |-> IF r = h.request THEN Len(pipelines)
                                      ELSE IF "index" \in torn THEN 0 ELSE index[r]]
      /\ torn' = torn \ {"index"}
      /\ UNCHANGED <<binding, overrides, policies, sessions, pipelines, crashes,
                     overlap, count, ops>>
  BY <1>1 DEF Session!IndexRun, Session!At, Session!Done, Session!policy
<1>3. /\ command' \in [Session!Actors -> Hands] /\ DOMAIN command' = Session!Actors
      /\ command'["service"] = Session!Idle /\ command'["operator"] = command["operator"]
  BY <1>2, HandIdle, ServiceTurn
<1>4. /\ Len(pipelines) \in Nat /\ Len(pipelines) > 0
      /\ pipelines[Len(pipelines)] = RunOf(h)
      /\ crashes \in Nat /\ index \in [Requests -> 0 .. Len(pipelines)]
  BY <1>1, <1>2 DEF SessionInv, Session!TypeOK, PipelinesInv
<1>5. Session!TypeOK'
  <2>1. index' \in [Requests -> 0 .. Len(pipelines)]
    BY <1>2, <1>4
  <2> QED BY <1>2, <1>3, <2>1 DEF SessionInv, Session!TypeOK
<1>6. ByHandInv' /\ RecordingInv' /\ PipelinesInv'
  BY <1>2, <1>3, HandIdle DEF SessionInv, ByHandInv, RecordingInv, PipelinesInv
<1>7. IndexInv'
  <2> SUFFICES ASSUME NEW r \in Requests, index'[r] # 0
               PROVE  /\ pipelines[index'[r]].request = r
                      /\ Cardinality(Unindexed(r)') <= crashes
    <3>1. \A r \in Requests : Owing(r)' = 0
      BY <1>3, HandIdle DEF Owing
    <3>2. \A r \in Requests : crashes' + Owing(r)' = crashes
      BY <1>2, <1>4, <3>1
    <3> QED BY <1>2, <3>2 DEF IndexInv
  <2>1. CASE r = h.request
    <3>1. index'[r] = Len(pipelines)
      BY <1>2, <2>1
    <3>2. Unindexed(r)' = {}
      BY <1>2, <1>4, <3>1 DEF Unindexed
    <3>3. Cardinality(Unindexed(r)') = 0
      BY <3>2, FS_EmptySet
    <3> QED BY <1>4, <2>1, <3>1, <3>3 DEF RunOf
  <2>2. CASE r # h.request
    <3>1. index'[r] = index[r]
      BY <1>2, <2>2
    <3>2. Unindexed(r)' = Unindexed(r)
      BY <1>2, <3>1 DEF Unindexed
    <3>3. pipelines[index[r]].request = r /\ Cardinality(Unindexed(r)) <= crashes + Owing(r)
      BY <3>1 DEF SessionInv, IndexInv
    <3>4. Owing(r) = 0
      BY <1>1, <2>2 DEF Owing
    <3> QED BY <1>4, <3>1, <3>2, <3>3, <3>4
  <2> QED BY <2>1, <2>2
<1>8. HeldInv'
  BY <1>2, <1>3, HandIdle, HeldStays DEF Session!Actors
<1>9. LeadInv'
  BY <1>2, <1>3, HandIdle, LeadStays DEF LeadsRecording
<1> QED BY <1>3, <1>5, <1>6, <1>7, <1>8, <1>9 DEF SessionInv

\* A recording or a command that dies leaves the registry or the index as it was, or torn.
LEMMA SessionCrashKeeps ==
    ASSUME SessionInv, NEW a \in Session!Actors, Session!Crash(a) PROVE SessionInv'
<1>1. PICK f : /\ f \in SUBSET Session!Writing(a) /\ torn' = torn \cup f
               /\ command' = [command EXCEPT ![a] = Session!Idle]
               /\ crashes' = crashes + 1 /\ crashes < Crashes["session"]
               /\ UNCHANGED <<binding, overrides, policies, sessions, pipelines, index,
                              overlap, count, ops>>
  BY DEF Session!Crash, Session!Done, Session!policy
<1>2. f \subseteq Session!Files
  BY <1>1 DEF Session!Writing, Session!Files
<1>3. crashes \in Nat /\ crashes' \in 0 .. Crashes["session"]
  BY <1>1, SurfacesAssumption DEF SessionInv, Session!TypeOK, Session!SessionsAssumption
<1>4. /\ command' \in [Session!Actors -> Hands] /\ DOMAIN command' = Session!Actors
      /\ \A b \in Session!Actors : command'[b] = IF b = a THEN Session!Idle ELSE command[b]
  BY <1>1, HandIdle DEF SessionInv
<1>5. Session!TypeOK'
  BY <1>1, <1>2, <1>3, <1>4 DEF SessionInv, Session!TypeOK
<1>6. /\ command'["service"] = Session!Idle \/ command'["service"] = command["service"]
      /\ command'["operator"] = Session!Idle \/ command'["operator"] = command["operator"]
  BY <1>4 DEF Session!Actors
<1>7. ByHandInv'
  BY <1>6, HandIdle DEF SessionInv, ByHandInv
<1>8. RecordingInv'
  BY <1>1, <1>6, HandIdle DEF SessionInv, RecordingInv, Session!Mode
<1>9. PipelinesInv'
  BY <1>1, <1>6, HandIdle DEF SessionInv, PipelinesInv, RunOf
<1>10. IndexInv'
  <2>1. \A r \in Requests : Owing(r) \in {0, 1} /\ Owing(r)' \in {0, 1}
    BY DEF Owing
  <2>2. \A r \in Requests : crashes + Owing(r) <= crashes' + Owing(r)'
    BY <1>1, <1>3, <2>1
  <2>3. \A r \in Requests : crashes + Owing(r) \in Nat /\ crashes' + Owing(r)' \in Nat
    BY <1>1, <1>3, <2>1
  <2> QED BY <1>1, <2>2, <2>3, IndexStays DEF SessionInv
<1>11. HeldInv'
  BY <1>1, <1>4, HandIdle, HeldStays
<1>12. LeadInv'
  <2>1. ~overlap' /\ "sessions" \notin torn' => LeadsRecording(sessions, command["service"])'
    BY <1>1, <1>6, HandIdle DEF LeadsRecording, SessionInv, LeadInv
  <2> QED BY <1>1, <2>1, LeadStays
<1> QED BY <1>4, <1>5, <1>7, <1>8, <1>9, <1>10, <1>11, <1>12 DEF SessionInv

\* So does a setting of overrides or policies.
LEMMA CrashPolicyKeeps ==
    ASSUME SessionInv, Session!CrashPolicy PROVE SessionInv'
<1>1. PICK f \in {"overrides", "policies"} :
        /\ ops < Ops["session"] /\ ops' = ops + 1 /\ torn' = torn \cup {f}
        /\ crashes' = crashes + 1 /\ crashes < Crashes["session"]
        /\ UNCHANGED <<binding, overrides, policies, sessions, pipelines, index, command,
                       overlap, count>>
  BY DEF Session!CrashPolicy, Session!Command, Session!policy
<1>2. /\ crashes \in Nat /\ crashes' \in 0 .. Crashes["session"]
      /\ ops' \in 0 .. Ops["session"]
  BY <1>1, SurfacesAssumption DEF SessionInv, Session!TypeOK, Session!SessionsAssumption
<1>3. Session!TypeOK'
  BY <1>1, <1>2 DEF SessionInv, Session!TypeOK, Session!Files
<1>4. ByHandInv' /\ RecordingInv' /\ PipelinesInv'
  BY <1>1 DEF SessionInv, ByHandInv, RecordingInv, PipelinesInv, RunOf, Session!Mode
<1>5. IndexInv'
  <2>1. \A r \in Requests : Owing(r) \in {0, 1} /\ Owing(r)' = Owing(r)
    BY <1>1 DEF Owing
  <2>2. \A r \in Requests : crashes + Owing(r) <= crashes' + Owing(r)'
    BY <1>1, <1>2, <2>1
  <2>3. \A r \in Requests : crashes + Owing(r) \in Nat /\ crashes' + Owing(r)' \in Nat
    BY <1>1, <1>2, <2>1
  <2> QED BY <1>1, <2>2, <2>3, IndexStays DEF SessionInv
<1>6. HeldInv'
  BY <1>1, HeldStays
<1>7. LeadInv'
  <2>1. ~overlap' /\ "sessions" \notin torn' => LeadsRecording(sessions, command["service"])'
    BY <1>1 DEF LeadsRecording, SessionInv, LeadInv
  <2> QED BY <1>1, <2>1, LeadStays
<1> QED BY <1>1, <1>3, <1>4, <1>5, <1>6, <1>7 DEF SessionInv

\* What comes into force while a recording is at work is told to it.
LEMMA ForceStep ==
    ASSUME SessionInv, NEW h, h = command["service"],
           NEW n \in Hands, command' = [command EXCEPT !["service"] = n],
           n.pc = h.pc, n.request = h.request, n.key = h.key, n.bound = h.bound,
           n.held = h.held, n.override = h.override, n.profile = h.profile,
           n.policy = h.policy, n.rec = h.rec,
           h.inForce \subseteq n.inForce, h.modes \subseteq n.modes,
           overrides' \in [Session!Keys -> Session!Overrides \cup {None}],
           policies' \in [Session!Keys -> Session!Modes \cup {None}],
           ops' \in 0 .. Ops["session"],
           \A k \in Session!Keys : k = h.key =>
             /\ overrides[k] \in h.inForce => overrides'[k] \in n.inForce
             /\ Session!Mode(k) \in h.modes => Session!Mode(k)' \in n.modes,
           UNCHANGED <<binding, sessions, pipelines, index, torn, crashes, overlap, count>>
    PROVE  SessionInv'
<1>1. /\ command' \in [Session!Actors -> Hands] /\ DOMAIN command' = Session!Actors
      /\ command'["service"] = n /\ command'["operator"] = command["operator"]
  BY ServiceTurn
<1>2. Session!TypeOK'
  BY <1>1 DEF SessionInv, Session!TypeOK
<1>3. ByHandInv'
  BY <1>1 DEF SessionInv, ByHandInv
<1>4. RecordingInv'
  <2>1. h.pc \notin {"idle", "bind"} =>
          h.key \in Session!Keys /\ overrides[h.key] \in h.inForce /\ Session!Mode(h.key) \in h.modes
    BY DEF SessionInv, RecordingInv
  <2>2. h.pc \notin {"idle", "bind"} =>
          h.key \in Session!Keys /\ overrides'[h.key] \in n.inForce /\ Session!Mode(h.key)' \in n.modes
    BY <2>1
  <2>3. n.pc \notin {"idle", "bind"} =>
          n.key \in Session!Keys /\ overrides'[n.key] \in n.inForce /\ Session!Mode(n.key)' \in n.modes
    BY <2>2 DEF Session!Mode
  <2> QED BY <1>1, <2>3 DEF SessionInv, RecordingInv, Session!Mode
<1>5. PipelinesInv'
  BY <1>1 DEF SessionInv, PipelinesInv, RunOf
<1>6. IndexInv'
  <2>1. \A r \in Requests : Owing(r) \in {0, 1} /\ Owing(r)' = Owing(r)
    BY <1>1 DEF Owing
  <2>2. crashes \in Nat
    BY DEF SessionInv, Session!TypeOK
  <2>3. \A r \in Requests : /\ crashes + Owing(r) <= crashes' + Owing(r)'
                            /\ crashes + Owing(r) \in Nat /\ crashes' + Owing(r)' \in Nat
    BY <2>1, <2>2
  <2> QED BY <2>3, IndexStays DEF SessionInv
<1>7. HeldInv'
  BY <1>1, HeldStays DEF Session!Actors
<1>8. LeadInv'
  <2>1. ~overlap' /\ "sessions" \notin torn' => LeadsRecording(sessions, command["service"])'
    BY <1>1 DEF LeadsRecording, SessionInv, LeadInv
  <2> QED BY <2>1, LeadStays
<1> QED BY <1>1, <1>2, <1>3, <1>4, <1>5, <1>6, <1>7, <1>8 DEF SessionInv

\* An override comes into force.
LEMMA SetOverrideKeeps ==
    ASSUME SessionInv, Session!SetOverride PROVE SessionInv'
<1>1. PICK h : h = command["service"]
  OBVIOUS
<1>2. PICK k \in Session!Keys, o \in Session!Overrides \cup {None} :
        /\ ops < Ops["session"] /\ ops' = ops + 1
        /\ overrides' = [overrides EXCEPT ![k] = o]
        /\ command' = [command EXCEPT !["service"].inForce =
                         IF h.key = k THEN h.inForce \cup {o} ELSE h.inForce]
        /\ UNCHANGED <<binding, policies, sessions, pipelines, index, torn, crashes, overlap, count>>
  BY <1>1 DEF Session!SetOverride, Session!Command, Session!InForce, Session!kept
<1>3. h \in Hands /\ command \in [Session!Actors -> Hands]
  BY <1>1, RecordingHand DEF SessionInv
<1>4. PICK s : s = IF h.key = k THEN h.inForce \cup {o} ELSE h.inForce
  OBVIOUS
<1>5. PICK n : n = [h EXCEPT !.inForce = s]
  OBVIOUS
<1>6. s \in SUBSET (Session!Overrides \cup {None}) /\ h.inForce \subseteq s
  BY <1>3, <1>4 DEF Hands
<1>7. /\ n \in Hands /\ n.inForce = s /\ n.modes = h.modes
      /\ n.pc = h.pc /\ n.request = h.request /\ n.key = h.key /\ n.bound = h.bound
      /\ n.held = h.held /\ n.override = h.override /\ n.profile = h.profile
      /\ n.policy = h.policy /\ n.rec = h.rec
  BY <1>3, <1>5, <1>6 DEF Hands
<1>8. command' = [command EXCEPT !["service"] = n]
  BY <1>1, <1>2, <1>3, <1>4, <1>5 DEF Session!Actors
<1>9. /\ overrides \in [Session!Keys -> Session!Overrides \cup {None}]
      /\ policies \in [Session!Keys -> Session!Modes \cup {None}]
      /\ ops' \in 0 .. Ops["session"]
  BY <1>2, SurfacesAssumption DEF SessionInv, Session!TypeOK, Session!SessionsAssumption
<1>10. \A j \in Session!Keys : j = h.key =>
         /\ overrides[j] \in h.inForce => overrides'[j] \in n.inForce
         /\ Session!Mode(j) \in h.modes => Session!Mode(j)' \in n.modes
  BY <1>2, <1>4, <1>6, <1>7, <1>9 DEF Session!Mode
<1>11. /\ overrides' \in [Session!Keys -> Session!Overrides \cup {None}]
       /\ policies' \in [Session!Keys -> Session!Modes \cup {None}]
  BY <1>2, <1>9
<1> QED BY <1>1, <1>2, <1>6, <1>7, <1>8, <1>9, <1>10, <1>11, ForceStep

\* A policy comes into force.
LEMMA SetPolicyKeeps ==
    ASSUME SessionInv, Session!SetPolicy PROVE SessionInv'
<1>1. PICK h : h = command["service"]
  OBVIOUS
<1>2. PICK k \in Session!Keys, m \in Session!Modes :
        /\ ops < Ops["session"] /\ ops' = ops + 1
        /\ policies' = [policies EXCEPT ![k] = m]
        /\ command' = [command EXCEPT !["service"].modes =
                         IF h.key = k THEN h.modes \cup {m} ELSE h.modes]
        /\ UNCHANGED <<binding, overrides, sessions, pipelines, index, torn, crashes, overlap, count>>
  BY <1>1 DEF Session!SetPolicy, Session!Command, Session!kept
<1>3. h \in Hands /\ command \in [Session!Actors -> Hands]
  BY <1>1, RecordingHand DEF SessionInv
<1>4. PICK s : s = IF h.key = k THEN h.modes \cup {m} ELSE h.modes
  OBVIOUS
<1>5. PICK n : n = [h EXCEPT !.modes = s]
  OBVIOUS
<1>6. s \in SUBSET Session!Modes /\ h.modes \subseteq s
  BY <1>3, <1>4 DEF Hands
<1>7. /\ n \in Hands /\ n.inForce = h.inForce /\ n.modes = s
      /\ n.pc = h.pc /\ n.request = h.request /\ n.key = h.key /\ n.bound = h.bound
      /\ n.held = h.held /\ n.override = h.override /\ n.profile = h.profile
      /\ n.policy = h.policy /\ n.rec = h.rec
  BY <1>3, <1>5, <1>6 DEF Hands
<1>8. command' = [command EXCEPT !["service"] = n]
  BY <1>1, <1>2, <1>3, <1>4, <1>5 DEF Session!Actors
<1>9. /\ overrides \in [Session!Keys -> Session!Overrides \cup {None}]
      /\ policies \in [Session!Keys -> Session!Modes \cup {None}]
      /\ ops' \in 0 .. Ops["session"]
  BY <1>2, SurfacesAssumption DEF SessionInv, Session!TypeOK, Session!SessionsAssumption
<1>10. m # None
  BY <1>2, SurfacesAssumption DEF Session!SessionsAssumption
<1>11. \A j \in Session!Keys : j = h.key =>
         /\ overrides[j] \in h.inForce => overrides'[j] \in n.inForce
         /\ Session!Mode(j) \in h.modes => Session!Mode(j)' \in n.modes
  BY <1>2, <1>4, <1>6, <1>7, <1>9, <1>10 DEF Session!Mode
<1>12. /\ overrides' \in [Session!Keys -> Session!Overrides \cup {None}]
       /\ policies' \in [Session!Keys -> Session!Modes \cup {None}]
  BY <1>2, <1>9
<1> QED BY <1>1, <1>2, <1>6, <1>7, <1>8, <1>9, <1>11, <1>12, ForceStep

\* The binding changes, for the recordings to come.
LEMMA SyncBindingsKeeps ==
    ASSUME SessionInv, Session!SyncBindings PROVE SessionInv'
<1>1. /\ binding' \in [enabled: BOOLEAN, scope: {"global", "peer"}]
      /\ ops < Ops["session"] /\ ops' = ops + 1
      /\ UNCHANGED <<overrides, policies, sessions, pipelines, index, command, torn, crashes,
                     overlap, count>>
  BY DEF Session!SyncBindings, Session!Command, Session!kept
<1>2. ops' \in 0 .. Ops["session"]
  BY <1>1, SurfacesAssumption DEF SessionInv, Session!TypeOK, Session!SessionsAssumption
<1>3. PICK n : n = command["operator"]
  OBVIOUS
<1>4. n \in Hands /\ command' = [command EXCEPT !["operator"] = n]
  BY <1>1, <1>3 DEF SessionInv, Session!Actors
<1>5. ByHandInv'
  BY <1>1 DEF SessionInv, ByHandInv
<1>6. HeldInv'
  BY <1>1, HeldStays
<1>7. LeadInv'
  <2>1. ~overlap' /\ "sessions" \notin torn' => LeadsRecording(sessions, command["service"])'
    BY <1>1 DEF LeadsRecording, SessionInv, LeadInv
  <2> QED BY <1>1, <2>1, LeadStays
<1>8. sessions' \in Session!Table /\ overlap' \in BOOLEAN
  BY <1>1 DEF SessionInv, Session!TypeOK
<1> QED BY <1>1, <1>2, <1>4, <1>5, <1>6, <1>7, <1>8, OperatorStep

\* The count of the commands keeps its bound.
LEMMA CommandCounts ==
    ASSUME SessionInv, ops < Ops["session"], ops' = ops + 1
    PROVE  ops' \in 0 .. Ops["session"]
  BY SurfacesAssumption DEF SessionInv, Session!TypeOK, Session!SessionsAssumption

\* A command of the operator begins with nothing in hand.
LEMMA ByHandStep ==
    ASSUME SessionInv, NEW n \in Hands, command' = [command EXCEPT !["operator"] = n],
           n.held = None, n.pc \in {"open", "route"}, n.key \in Session!Keys,
           n.pc = "route" \/ n.profile # "" => n.rec = Runs["session"] + 1,
           ops < Ops["session"], ops' = ops + 1,
           UNCHANGED <<binding, overrides, policies, sessions, pipelines, index, torn, crashes,
                       overlap, count>>
    PROVE  SessionInv'
<1>1. command'["operator"] = n /\ command'["service"] = command["service"]
  BY OperatorTurn
<1>2. ops' \in 0 .. Ops["session"]
  BY CommandCounts
<1>3. ByHandInv'
  BY <1>1 DEF ByHandInv
<1>4. HeldInv'
  BY <1>1, HeldStays DEF Session!Actors
<1>5. LeadInv'
  <2>1. ~overlap' /\ "sessions" \notin torn' => LeadsRecording(sessions, command["service"])'
    BY <1>1 DEF LeadsRecording, SessionInv, LeadInv
  <2> QED BY <2>1, LeadStays
<1>6. /\ sessions' \in Session!Table /\ overlap' \in BOOLEAN
      /\ binding' \in [enabled: BOOLEAN, scope: {"global", "peer"}]
  BY DEF SessionInv, Session!TypeOK
<1> QED BY <1>2, <1>3, <1>4, <1>5, <1>6, OperatorStep

\* The operator opens a session.
LEMMA OpenByHandKeeps ==
    ASSUME SessionInv, Session!OpenByHand PROVE SessionInv'
<1>1. PICK r \in Requests :
        /\ ops < Ops["session"] /\ ops' = ops + 1
        /\ command' = [command EXCEPT !["operator"] = [Session!Idle EXCEPT !.pc = "open",
                         !.key = IF binding.scope = "global" THEN "global" ELSE r]]
        /\ UNCHANGED <<binding, overrides, policies, sessions, pipelines, index, torn, crashes,
                       overlap, count>>
  BY DEF Session!OpenByHand, Session!Command, Session!Work, Session!policy, Session!kept
<1>2. PICK k : k = IF binding.scope = "global" THEN "global" ELSE r
  OBVIOUS
<1>3. PICK n : n = [Session!Idle EXCEPT !.pc = "open", !.key = k]
  OBVIOUS
<1>4. k \in Session!Keys
  BY <1>2 DEF Session!Keys
<1>5. n \in Hands
  BY <1>3, <1>4 DEF Hands, Session!Idle, Session!Modes
<1>6. n.pc = "open" /\ n.key = k /\ n.held = None /\ n.profile = ""
  BY <1>3 DEF Session!Idle
<1> QED BY <1>1, <1>2, <1>3, <1>4, <1>5, <1>6, ByHandStep

\* The operator routes or links one.
LEMMA RouteByHandKeeps ==
    ASSUME SessionInv, Session!RouteByHand PROVE SessionInv'
<1>1. PICK k \in Session!Keys, p \in Session!Profiles \ {"own"}, told \in BOOLEAN, r \in Requests \cup {None} :
        /\ Session!Command /\ "sessions" \notin torn
        /\ Session!Work("operator", [Session!Idle EXCEPT !.rec = Runs["session"] + 1, !.key = k,
             !.profile = p, !.request = r, !.link = r # None,
             !.pc = IF told /\ sessions[k] = None THEN "open" ELSE "route"])
        /\ UNCHANGED <<Session!policy, sessions, pipelines, index, Session!kept, overlap, count>>
  BY DEF Session!RouteByHand
<1>2. PICK pc : pc = IF told /\ sessions[k] = None THEN "open" ELSE "route"
  OBVIOUS
<1>3. PICK n : n = [Session!Idle EXCEPT !.rec = Runs["session"] + 1, !.key = k, !.profile = p,
                      !.request = r, !.link = r # None, !.pc = pc]
  OBVIOUS
<1>4. /\ ops < Ops["session"] /\ ops' = ops + 1
      /\ command' = [command EXCEPT !["operator"] = n]
      /\ UNCHANGED <<binding, overrides, policies, sessions, pipelines, index, torn, crashes,
                     overlap, count>>
  BY <1>1, <1>2, <1>3 DEF Session!Command, Session!Work, Session!policy, Session!kept
<1>5. Runs["session"] + 1 \in Nat /\ pc \in {"open", "route"}
  BY <1>2, SurfacesAssumption DEF Session!SessionsAssumption
<1>6. n \in Hands
  BY <1>3, <1>5 DEF Hands, Session!Idle, Session!Modes
<1>7. n.pc = pc /\ n.key = k /\ n.held = None /\ n.rec = Runs["session"] + 1
  BY <1>3 DEF Session!Idle
<1> QED BY <1>1, <1>5, <1>6, <1>7, <1>4, ByHandStep

\* The registry is in hand as it is, and whoever else has it makes an overlap.
LEMMA LoadKeeps ==
    ASSUME SessionInv, NEW a \in Session!Actors, Session!Load(a) PROVE SessionInv'
<1>1. PICK h : h = command[a]
  OBVIOUS
<1>2. PICK n : n = [h EXCEPT !.held = sessions]
  OBVIOUS
<1>3. /\ h \in Hands /\ command \in [Session!Actors -> Hands] /\ sessions \in Session!Table
      /\ overlap \in BOOLEAN
  BY <1>1 DEF SessionInv, Session!TypeOK
<1>4. /\ h.pc \in {"open", "route", "link"} /\ command' = [command EXCEPT ![a] = n]
      /\ overlap' = (overlap \/ \E b \in Session!Actors \ {a} : command[b].held # None)
      /\ UNCHANGED <<binding, overrides, policies, sessions, pipelines, index, torn, crashes,
                     count, ops>>
  BY <1>1, <1>2, <1>3 DEF Session!Load, Session!Registry, Session!policy, Session!kept
<1>5. /\ n \in Hands /\ n.held = sessions /\ n.inForce = h.inForce /\ n.modes = h.modes
      /\ n.pc = h.pc /\ n.request = h.request /\ n.key = h.key /\ n.bound = h.bound
      /\ n.override = h.override /\ n.profile = h.profile
      /\ n.policy = h.policy /\ n.rec = h.rec
  BY <1>2, <1>3 DEF Hands
<1>6. \A b \in Session!Actors : command'[b] = IF b = a THEN n ELSE command[b]
  BY <1>3, <1>4
<1>7. HeldInv'
  BY <1>3, <1>4, <1>5, <1>6 DEF SessionInv, HeldInv, Session!Actors
<1>8. LeadInv'
  <2>1. ~overlap' /\ "sessions" \notin torn' => LeadsRecording(sessions, command["service"])'
    BY <1>1, <1>4, <1>5, <1>6 DEF LeadsRecording, SessionInv, LeadInv, Session!Actors
  <2> QED BY <1>4, <2>1, LeadStays
<1>9. sessions' \in Session!Table /\ overlap' \in BOOLEAN
  BY <1>3, <1>4
<1>10. CASE a = "service"
  <2>1. RecordingInv'
    BY <1>1, <1>4, <1>5, <1>6, <1>10 DEF SessionInv, RecordingInv, Session!Mode
  <2> QED BY <1>1, <1>4, <1>5, <1>7, <1>8, <1>9, <1>10, <2>1, ServiceStep
<1>11. CASE a = "operator"
  <2>1. ByHandInv'
    BY <1>1, <1>4, <1>5, <1>6, <1>11 DEF SessionInv, ByHandInv
  <2>2. ops' \in 0 .. Ops["session"] /\ binding' \in [enabled: BOOLEAN, scope: {"global", "peer"}]
    BY <1>4 DEF SessionInv, Session!TypeOK
  <2> QED BY <1>4, <1>5, <1>7, <1>8, <1>9, <1>11, <2>1, <2>2, OperatorStep
<1> QED BY <1>10, <1>11 DEF Session!Actors

\* How a registry may be rewritten at k by the recording rec.
Opened(t, u) == \A j \in Session!Keys : t[j] # None => u[j] = t[j]
Routed(t, u, k, rec) ==
    /\ t[k] # None /\ u[k] # None /\ u[k].routed = rec
    /\ u[k].linked = t[k].linked /\ u[k].request = t[k].request
    /\ \A j \in Session!Keys \ {k} : u[j] = t[j]
Linked(t, u, k, rec) ==
    /\ t[k] # None /\ u[k] # None /\ u[k].linked = rec
    /\ u[k].routed = t[k].routed /\ u[k].profile = t[k].profile /\ u[k].source = t[k].source
    /\ \A j \in Session!Keys \ {k} : u[j] = t[j]
RecordWritten(t, u, k, rec, by) ==
    Opened(t, u) \/ (by < rec /\ (Routed(t, u, k, rec) \/ Linked(t, u, k, rec)))

\* What the registry says of the recording by stays when a later one writes.
LEMMA LeadsOn ==
    ASSUME NEW t, NEW u, NEW k, NEW rec \in Nat, NEW run, run.rec \in Nat, run.key \in Session!Keys,
           RecordWritten(t, u, k, rec, run.rec), LeadsRun(t, run)
    PROVE  LeadsRun(u, run)
<1>1. CASE t[run.key] # None /\ u[run.key] = t[run.key]
  BY <1>1 DEF LeadsRun
<1>2. CASE run.key = k /\ run.rec < rec /\ Routed(t, u, k, rec)
  <2>1. /\ u[run.key] # None /\ u[run.key].routed # run.rec
        /\ u[run.key].linked = t[run.key].linked /\ u[run.key].request = t[run.key].request
    BY <1>2 DEF Routed
  <2> QED BY <2>1 DEF LeadsRun, RoutedBy, LinkedBy
<1>3. CASE run.key = k /\ run.rec < rec /\ Linked(t, u, k, rec)
  <2>1. /\ u[run.key] # None /\ u[run.key].linked >= run.rec /\ u[run.key].linked # run.rec
        /\ u[run.key].routed = t[run.key].routed /\ u[run.key].profile = t[run.key].profile
        /\ u[run.key].source = t[run.key].source
    BY <1>3 DEF Linked
  <2> QED BY <2>1 DEF LeadsRun, RoutedBy, LinkedBy
<1>4. CASE ~run.bound
  BY <1>4 DEF LeadsRun
<1>5. run.bound => t[run.key] # None
  BY DEF LeadsRun
<1> QED BY <1>1, <1>2, <1>3, <1>4, <1>5 DEF RecordWritten, Opened, Routed, Linked

\* What the registry says of the recording at work stays when another writes.
LEMMA RecordingOn ==
    ASSUME NEW t, NEW u, NEW k, NEW rec \in Nat, NEW h, h.rec \in Nat,
           h.key \in Session!Keys,
           RecordWritten(t, u, k, rec, h.rec), LeadsRecording(t, h)
    PROVE  LeadsRecording(u, h)
<1> SUFFICES ASSUME h.bound, h.pc \in {"override", "route", "policy", "link", "run"}
             PROVE  LeadsRecording(u, h)
  BY DEF LeadsRecording
<1>1. CASE u[h.key] = t[h.key]
  BY <1>1 DEF LeadsRecording
<1>2. CASE h.key = k /\ h.rec < rec /\ Routed(t, u, k, rec)
  <2>1. /\ u[h.key] # None /\ u[h.key].routed # h.rec
        /\ u[h.key].linked = t[h.key].linked /\ u[h.key].request = t[h.key].request
    BY <1>2 DEF Routed
  <2> QED BY <2>1 DEF LeadsRecording, RoutedBy, LinkedBy
<1>3. CASE h.key = k /\ h.rec < rec /\ Linked(t, u, k, rec)
  <2>1. /\ u[h.key] # None /\ u[h.key].linked >= h.rec /\ u[h.key].linked # h.rec
        /\ u[h.key].routed = t[h.key].routed /\ u[h.key].profile = t[h.key].profile
        /\ u[h.key].source = t[h.key].source
    BY <1>3 DEF Linked
  <2> QED BY <2>1 DEF LeadsRecording, RoutedBy, LinkedBy
<1>4. t[h.key] # None
  BY DEF LeadsRecording
<1> QED BY <1>1, <1>2, <1>3, <1>4 DEF RecordWritten, Opened, Routed, Linked

\* What a write of the recording has brought its session to.
LeadsAfter(t, h) == h.bound =>
    /\ t[h.key] # None
    /\ h.pc \in {"route", "link"} => RoutedBy(t[h.key], h.rec, h.profile, h.override # None)
    /\ h.pc = "link" => LinkedBy(t[h.key], h.rec, h.request)

\* The hand of a, h before, once it has written the registry.
MovesTo(a, h, n) ==
    /\ command' = [command EXCEPT ![a] = n] /\ n.held = None
    /\ a = "service" =>
         /\ \/ h.pc = "open" /\ n.pc = "override"
            \/ h.pc = "route" /\ n.pc = "policy"
            \/ h.pc = "link" /\ n.pc = "run"
         /\ n.request = h.request /\ n.key = h.key /\ n.bound = h.bound
         /\ n.override = h.override /\ n.profile = h.profile /\ n.policy = h.policy
         /\ n.rec = h.rec /\ n.inForce = h.inForce /\ n.modes = h.modes
    /\ a = "operator" =>
         \/ n = Session!Idle
         \/ /\ n.pc \in {"route", "link"} /\ n.key = h.key /\ n.profile = h.profile
            /\ n.rec = h.rec /\ (h.pc = "route" \/ h.profile # "")

\* Whoever has written the registry drops its copy and goes on.
LEMMA MovesOn ==
    ASSUME SessionInv, NEW a \in Session!Actors, NEW h, h = command[a],
           h.pc \in {"open", "route", "link"}, Session!Moves(a)
    PROVE  \E n \in Hands : MovesTo(a, h, n)
<1>1. PICK next : next = Session!After(a, h.pc)
  OBVIOUS
<1>2. h \in Hands
  BY DEF SessionInv
<1>3. /\ a = "service" => /\ h.pc = "open" => next = "override"
                          /\ h.pc = "route" => next = "policy"
                          /\ h.pc = "link" => next = "run"
      /\ a = "operator" => /\ next \in {"idle", "route", "link"}
                           /\ next # "idle" => h.pc = "route" \/ h.profile # ""
  BY <1>1 DEF Session!After
<1>4. next \in {"idle", "override", "route", "policy", "link", "run"}
  BY <1>3 DEF Session!Actors
<1>5. PICK n : n = IF next = "idle" THEN Session!Idle ELSE [h EXCEPT !.pc = next, !.held = None]
  OBVIOUS
<1>6. command' = [command EXCEPT ![a] = n]
  BY <1>1, <1>5 DEF Session!Moves, SessionInv
<1>7. CASE next = "idle"
  BY <1>3, <1>5, <1>6, <1>7, HandIdle DEF MovesTo
<1>8. CASE next # "idle"
  <2>1. /\ n.pc = next /\ n.held = None
        /\ n.request = h.request /\ n.key = h.key /\ n.bound = h.bound
        /\ n.override = h.override /\ n.profile = h.profile /\ n.policy = h.policy
        /\ n.rec = h.rec /\ n.inForce = h.inForce /\ n.modes = h.modes
    BY <1>2, <1>4, <1>5, <1>8 DEF Hands
  <2>2. n \in Hands
    BY <1>2, <1>4, <1>5, <1>8 DEF Hands
  <2> QED BY <1>3, <1>6, <1>8, <2>1, <2>2 DEF MovesTo
<1> QED BY <1>7, <1>8

\* A registry written so keeps the invariant.
LEMMA RegistryStep ==
    ASSUME SessionInv, NEW a \in Session!Actors, NEW h, h = command[a],
           h.pc \in {"open", "route", "link"}, h.held # None, Session!Moves(a),
           sessions' \in Session!Table,
           UNCHANGED <<binding, overrides, policies, pipelines, index, torn, crashes, overlap,
                       count, ops>>,
           ~overlap => \A by \in Nat : by < h.rec \/ h.pc = "open" =>
                                         RecordWritten(sessions, sessions', h.key, h.rec, by),
           ~overlap /\ "sessions" \notin torn /\ a = "service" => LeadsAfter(sessions', h)
    PROVE  SessionInv'
<1>1. PICK n \in Hands : MovesTo(a, h, n)
  BY MovesOn
<1>2. /\ \A b \in Session!Actors : command'[b] = IF b = a THEN n ELSE command[b]
      /\ h \in Hands /\ h.rec \in Nat
  BY <1>1 DEF MovesTo, SessionInv, Hands
<1>3. HeldInv'
  BY <1>1, <1>2 DEF MovesTo, SessionInv, HeldInv, Session!Actors
<1>4. \A i \in 1 .. Len(pipelines) :
         pipelines[i] \in Session!Run /\ pipelines[i].rec \in 1 .. count
  BY DEF SessionInv, Session!TypeOK, PipelinesInv
<1>5. count \in Nat /\ count <= Runs["session"] /\ Runs["session"] \in Nat
  BY SurfacesAssumption DEF SessionInv, Session!TypeOK, Session!SessionsAssumption
<1>6. \A i \in 1 .. Len(pipelines) : pipelines[i].rec < h.rec \/ h.pc = "open"
  <2>1. CASE a = "service"
    BY <2>1 DEF SessionInv, PipelinesInv
  <2>2. CASE a = "operator"
    <3>1. h.pc = "open" \/ h.rec = Runs["session"] + 1
      BY <2>2 DEF SessionInv, ByHandInv
    <3> QED BY <1>4, <1>5, <3>1
  <2> QED BY <2>1, <2>2 DEF Session!Actors
<1>7. ASSUME ~overlap, "sessions" \notin torn
      PROVE  \A i \in 1 .. Len(pipelines) : LeadsRun(sessions', pipelines[i])
  <2> SUFFICES ASSUME NEW i \in 1 .. Len(pipelines)
               PROVE  LeadsRun(sessions', pipelines[i])
    OBVIOUS
  <2>1. pipelines[i].rec \in Nat /\ pipelines[i].key \in Session!Keys
    BY <1>4, <1>5 DEF Session!Run
  <2>2. RecordWritten(sessions, sessions', h.key, h.rec, pipelines[i].rec)
    BY <1>6, <1>7, <2>1
  <2>3. LeadsRun(sessions, pipelines[i])
    BY <1>7 DEF SessionInv, LeadInv
  <2> QED BY <1>2, <2>1, <2>2, <2>3, LeadsOn
<1>8. sessions' \in Session!Table /\ overlap' \in BOOLEAN
  BY DEF SessionInv, Session!TypeOK
<1>9. CASE a = "service"
  <2>1. RecordingInv'
    BY <1>1, <1>2, <1>9 DEF MovesTo, SessionInv, RecordingInv, Session!Mode
  <2>2. LeadInv'
    <3>1. ASSUME ~overlap, "sessions" \notin torn PROVE LeadsRecording(sessions', n)
      <4>1. LeadsAfter(sessions', h) /\ LeadsRecording(sessions, h)
        BY <1>9, <3>1 DEF SessionInv, LeadInv
      <4> QED BY <1>1, <1>9, <4>1 DEF MovesTo, LeadsAfter, LeadsRecording
    <3> QED BY <1>2, <1>7, <1>9, <3>1
            DEF LeadInv, LeadsRun, LeadsRecording, RoutedBy, LinkedBy, Session!Actors
  <2> QED BY <1>1, <1>3, <1>8, <1>9, <2>1, <2>2, ServiceStep DEF MovesTo
<1>10. CASE a = "operator"
  <2>1. ByHandInv'
    BY <1>1, <1>2, <1>10, HandIdle DEF MovesTo, SessionInv, ByHandInv
  <2>2. LeadInv'
    <3>1. PICK s : s = command["service"]
      OBVIOUS
    <3>2. /\ s.pc \notin {"idle", "bind"} => s.key \in Session!Keys
          /\ s \in Hands /\ s.rec \in Nat /\ (s.pc # "idle" => s.rec <= Runs["session"])
      BY <1>5, <3>1 DEF SessionInv, RecordingInv, Hands, Session!Actors
    <3>3. ASSUME ~overlap, "sessions" \notin torn PROVE LeadsRecording(sessions', s)
      <4>1. CASE s.pc \in {"idle", "bind"}
        BY <4>1 DEF LeadsRecording
      <4>2. CASE s.pc \notin {"idle", "bind"}
        <5>1. h.pc = "open" \/ h.rec = Runs["session"] + 1
          BY <1>10 DEF SessionInv, ByHandInv
        <5>2. s.rec < h.rec \/ h.pc = "open"
          BY <1>5, <3>2, <4>2, <5>1
        <5>3. RecordWritten(sessions, sessions', h.key, h.rec, s.rec)
          BY <3>2, <3>3, <5>2
        <5>4. LeadsRecording(sessions, s)
          BY <3>1, <3>3 DEF SessionInv, LeadInv
        <5> QED BY <1>2, <3>2, <4>2, <5>3, <5>4, RecordingOn
      <4> QED BY <4>1, <4>2
    <3>4. command'["service"] = s
      BY <1>2, <1>10, <3>1 DEF Session!Actors
    <3> QED BY <1>7, <3>3, <3>4 DEF LeadInv, LeadsRun, LeadsRecording, RoutedBy, LinkedBy
  <2>3. ops' \in 0 .. Ops["session"] /\ binding' \in [enabled: BOOLEAN, scope: {"global", "peer"}]
    BY DEF SessionInv, Session!TypeOK
  <2> QED BY <1>1, <1>3, <1>8, <1>10, <2>1, <2>2, <2>3, OperatorStep DEF MovesTo
<1> QED BY <1>9, <1>10 DEF Session!Actors

\* A registry that is torn is passed over.
LEMMA LoadFailsKeeps ==
    ASSUME SessionInv, NEW a \in Session!Actors, Session!LoadFails(a) PROVE SessionInv'
<1>1. PICK h : h = command[a]
  OBVIOUS
<1>2. /\ h \in Hands /\ h.pc \in {"open", "route", "link"} /\ h.held = None /\ "sessions" \in torn
      /\ command \in [Session!Actors -> Hands]
      /\ UNCHANGED <<binding, overrides, policies, sessions, pipelines, index, torn, crashes,
                     overlap, count, ops>>
  BY <1>1 DEF Session!LoadFails, Session!Registry, Session!policy, Session!kept, SessionInv
<1>3. sessions' \in Session!Table /\ overlap' \in BOOLEAN
  BY <1>2 DEF SessionInv, Session!TypeOK
<1>4. LeadInv'
  BY <1>2, LeadStays
<1>5. CASE a = "service"
  <2>1. PICK next : next = Session!After(a, h.pc)
    OBVIOUS
  <2>2. \/ h.pc = "open" /\ next = "override"
        \/ h.pc = "route" /\ next = "policy"
        \/ h.pc = "link" /\ next = "run"
    BY <1>2, <1>5, <2>1 DEF Session!After
  <2>3. PICK n : n = [h EXCEPT !.pc = next]
    OBVIOUS
  <2>4. n \in Hands
    <3>1. next \in {"override", "policy", "run"}
      BY <2>2
    <3>2. h \in Hands
      BY <1>2
    <3> QED BY <2>3, <3>1, <3>2 DEF Hands
  <2>5. /\ n.pc = next /\ n.held = h.held /\ n.inForce = h.inForce /\ n.modes = h.modes
        /\ n.request = h.request /\ n.key = h.key /\ n.bound = h.bound
        /\ n.override = h.override /\ n.profile = h.profile
        /\ n.policy = h.policy /\ n.rec = h.rec
    BY <1>2, <2>3 DEF Hands
  <2>6. command' = [command EXCEPT !["service"] = n]
    BY <1>1, <1>2, <1>5, <2>1, <2>3 DEF Session!LoadFails, Session!Goes
  <2>7. command'["service"] = n /\ command'["operator"] = command["operator"]
    BY <2>4, <2>6, ServiceTurn
  <2>8. RecordingInv'
    BY <1>1, <1>2, <1>5, <2>2, <2>5, <2>7 DEF SessionInv, RecordingInv, Session!Mode
  <2>9. HeldInv'
    BY <1>1, <1>2, <1>5, <2>5, <2>7, HeldStays DEF Session!Actors
  <2> QED BY <1>1, <1>2, <1>3, <1>4, <1>5, <2>2, <2>4, <2>5, <2>6, <2>8, <2>9, ServiceStep
<1>6. CASE a = "operator"
  <2>1. command' = [command EXCEPT !["operator"] = Session!Idle]
    BY <1>6 DEF Session!LoadFails, Session!Done
  <2>2. /\ command'["operator"] = Session!Idle /\ command'["service"] = command["service"]
        /\ Session!Idle \in Hands
    BY <2>1, HandIdle, OperatorTurn
  <2>3. ByHandInv'
    BY <2>2, HandIdle DEF ByHandInv
  <2>4. HeldInv'
    BY <1>2, <2>2, HandIdle, HeldStays DEF Session!Actors
  <2>5. ops' \in 0 .. Ops["session"] /\ binding' \in [enabled: BOOLEAN, scope: {"global", "peer"}]
    BY <1>2 DEF SessionInv, Session!TypeOK
  <2> QED BY <1>2, <1>3, <1>4, <2>1, <2>2, <2>3, <2>4, <2>5, OperatorStep
<1> QED BY <1>5, <1>6 DEF Session!Actors

\* Whoever writes the registry has a session's key and the registry as it is.
LEMMA Writer ==
    ASSUME SessionInv, NEW a \in Session!Actors, NEW h, h = command[a],
           h.pc \in {"open", "route", "link"}, h.held # None
    PROVE  /\ h \in Hands /\ h.key \in Session!Keys /\ h.held \in Session!Table
           /\ sessions \in Session!Table /\ (~overlap => h.held = sessions)
           /\ \A k \in Session!Keys : h.held[k] # None => h.held[k] \in Session!Record
           /\ \A k \in Session!Keys : Session!Record \subseteq Session!Record \cup {None}
           /\ None \notin Session!Record
<1>1. h \in Hands /\ sessions \in Session!Table /\ (~overlap => h.held = sessions)
  BY DEF SessionInv, Session!TypeOK, HeldInv
<1>2. h.key \in Session!Keys
  BY DEF SessionInv, ByHandInv, RecordingInv, Session!Actors
<1>3. h.held \in Session!Table
  BY <1>1 DEF Hands
<1>4. \A k \in Session!Keys : h.held[k] # None => h.held[k] \in Session!Record
  BY <1>3 DEF Session!Table
<1>5. None \notin Session!Record
  BY SurfacesAssumption DEF Session!SessionsAssumption
<1> QED BY <1>1, <1>2, <1>3, <1>4, <1>5

\* A session is opened that was not there.
LEMMA OpenSessionKeeps ==
    ASSUME SessionInv, NEW a \in Session!Actors, Session!OpenSession(a) PROVE SessionInv'
<1>1. PICK h : h = command[a]
  OBVIOUS
<1>2. /\ h.pc = "open" /\ h.held # None /\ Session!Moves(a)
      /\ sessions' = IF h.held[h.key] = None THEN [h.held EXCEPT ![h.key] = Session!Fresh]
                     ELSE h.held
      /\ UNCHANGED <<binding, overrides, policies, pipelines, index, torn, crashes, overlap,
                     count, ops>>
  BY <1>1 DEF Session!OpenSession, Session!At, Session!policy, Session!kept
<1>3. /\ h \in Hands /\ h.key \in Session!Keys /\ h.held \in Session!Table
      /\ (~overlap => h.held = sessions) /\ None \notin Session!Record
  BY <1>1, <1>2, Writer
<1>4. Session!Fresh \in Session!Record
  BY DEF Session!Fresh, Session!Record
<1>5. sessions' \in Session!Table /\ sessions'[h.key] # None
  BY <1>2, <1>3, <1>4 DEF Session!Table
<1>6. ~overlap => Opened(sessions, sessions')
  BY <1>2, <1>3 DEF Opened, Session!Table
<1>7. LeadsAfter(sessions', h)
  BY <1>2, <1>5 DEF LeadsAfter
<1> QED BY <1>1, <1>2, <1>5, <1>6, <1>7, RegistryStep DEF RecordWritten

\* A session is routed.
LEMMA RouteSessionKeeps ==
    ASSUME SessionInv, NEW a \in Session!Actors, Session!RouteSession(a) PROVE SessionInv'
<1>1. PICK h : h = command[a]
  OBVIOUS
<1>2. PICK k : k = h.key
  OBVIOUS
<1>3. /\ h.pc = "route" /\ h.held # None /\ Session!Moves(a)
      /\ UNCHANGED <<binding, overrides, policies, pipelines, index, torn, crashes, overlap,
                     count, ops>>
  BY <1>1, <1>2 DEF Session!RouteSession, Session!At, Session!policy, Session!kept
<1>4. sessions' = IF h.held[k] = None THEN sessions
                  ELSE [h.held EXCEPT ![k].profile = IF h.profile = "" THEN @ ELSE h.profile,
                                      ![k].source = Session!Source(h.override),
                                      ![k].routed = h.rec]
  BY <1>1, <1>2 DEF Session!RouteSession, Session!At
<1>5. /\ h \in Hands /\ k \in Session!Keys /\ h.held \in Session!Table
      /\ sessions \in Session!Table /\ (~overlap => h.held = sessions)
      /\ None \notin Session!Record
      /\ h.held[k] # None => h.held[k] \in Session!Record
  BY <1>1, <1>2, <1>3, Writer
<1>6. CASE h.held[k] = None
  <2>1. sessions' = sessions
    BY <1>4, <1>6
  <2>2. Opened(sessions, sessions')
    BY <2>1 DEF Opened
  <2>3. ~overlap /\ "sessions" \notin torn /\ a = "service" => LeadsAfter(sessions', h)
    BY <1>1, <1>2, <1>3, <1>5, <1>6 DEF LeadsAfter, SessionInv, LeadInv, LeadsRecording
  <2> QED BY <1>1, <1>3, <1>5, <2>1, <2>2, <2>3, RegistryStep DEF RecordWritten
<1>7. CASE h.held[k] # None
  <2>1. PICK p : p = IF h.profile = "" THEN h.held[k].profile ELSE h.profile
    OBVIOUS
  <2>2. PICK s : s = Session!Source(h.override)
    OBVIOUS
  <2>3. PICK r : r = [h.held[k] EXCEPT !.profile = p, !.source = s, !.routed = h.rec]
    OBVIOUS
  <2>4. /\ p \in Session!Profiles \cup {""} /\ s \in {"default", "manual"} /\ h.rec \in Nat
        /\ s = IF h.override # None THEN "manual" ELSE "default"
    BY <1>5, <1>7, <2>1, <2>2 DEF Hands, Session!Record, Session!Source
  <2>5. r \in Session!Record
    BY <1>5, <1>7, <2>3, <2>4 DEF Session!Record
  <2>6. /\ r.profile = p /\ r.source = s /\ r.routed = h.rec
        /\ r.linked = h.held[k].linked /\ r.request = h.held[k].request
    BY <1>5, <1>7, <2>3 DEF Session!Record
  <2>7. sessions' = [h.held EXCEPT ![k] = r]
    BY <1>4, <1>5, <1>7, <2>1, <2>2, <2>3 DEF Session!Table
  <2>8. /\ sessions' \in Session!Table /\ sessions'[k] = r
        /\ \A j \in Session!Keys \ {k} : sessions'[j] = h.held[j]
    BY <1>5, <2>5, <2>7 DEF Session!Table
  <2>9. ~overlap => Routed(sessions, sessions', k, h.rec)
    BY <1>5, <1>7, <2>5, <2>6, <2>8 DEF Routed
  <2>10. LeadsAfter(sessions', h)
    <3>1. r # None
      BY <1>5, <2>5
    <3> QED BY <1>2, <1>3, <2>1, <2>4, <2>6, <2>8, <3>1 DEF LeadsAfter, RoutedBy
  <2> QED BY <1>1, <1>2, <1>3, <2>8, <2>9, <2>10, RegistryStep DEF RecordWritten
<1> QED BY <1>6, <1>7

\* A session is linked to the request.
LEMMA LinkSessionKeeps ==
    ASSUME SessionInv, NEW a \in Session!Actors, Session!LinkSession(a) PROVE SessionInv'
<1>1. PICK h : h = command[a]
  OBVIOUS
<1>2. PICK k : k = h.key
  OBVIOUS
<1>3. /\ h.pc = "link" /\ h.held # None /\ Session!Moves(a)
      /\ sessions' = IF h.held[k] = None THEN sessions
                     ELSE [h.held EXCEPT ![k].request = h.request, ![k].linked = h.rec]
      /\ UNCHANGED <<binding, overrides, policies, pipelines, index, torn, crashes, overlap,
                     count, ops>>
  BY <1>1, <1>2 DEF Session!LinkSession, Session!At, Session!policy, Session!kept
<1>4. /\ h \in Hands /\ k \in Session!Keys /\ h.held \in Session!Table
      /\ sessions \in Session!Table /\ (~overlap => h.held = sessions)
      /\ None \notin Session!Record
      /\ h.held[k] # None => h.held[k] \in Session!Record
  BY <1>1, <1>2, <1>3, Writer
<1>5. CASE h.held[k] = None
  <2>1. sessions' = sessions
    BY <1>3, <1>5
  <2>2. Opened(sessions, sessions')
    BY <2>1 DEF Opened
  <2>3. ~overlap /\ "sessions" \notin torn /\ a = "service" => LeadsAfter(sessions', h)
    BY <1>1, <1>2, <1>3, <1>4, <1>5 DEF LeadsAfter, SessionInv, LeadInv, LeadsRecording
  <2> QED BY <1>1, <1>3, <1>4, <2>1, <2>2, <2>3, RegistryStep DEF RecordWritten
<1>6. CASE h.held[k] # None
  <2>1. PICK r : r = [h.held[k] EXCEPT !.request = h.request, !.linked = h.rec]
    OBVIOUS
  <2>2. h.rec \in Nat /\ h.request \in Requests \cup {None}
    BY <1>4 DEF Hands
  <2>3. r \in Session!Record
    BY <1>4, <1>6, <2>1, <2>2 DEF Session!Record
  <2>4. /\ r.request = h.request /\ r.linked = h.rec /\ r.profile = h.held[k].profile
        /\ r.source = h.held[k].source /\ r.routed = h.held[k].routed
    BY <1>4, <1>6, <2>1 DEF Session!Record
  <2>5. sessions' = [h.held EXCEPT ![k] = r]
    BY <1>3, <1>4, <1>6, <2>1 DEF Session!Table
  <2>6. /\ sessions' \in Session!Table /\ sessions'[k] = r
        /\ \A j \in Session!Keys \ {k} : sessions'[j] = h.held[j]
    BY <1>4, <2>3, <2>5 DEF Session!Table
  <2>7. r # None
    BY <1>4, <2>3
  <2>8. ~overlap => Linked(sessions, sessions', k, h.rec)
    BY <1>4, <1>6, <2>4, <2>6, <2>7 DEF Linked
  <2>9. ASSUME ~overlap, "sessions" \notin torn, a = "service" PROVE LeadsAfter(sessions', h)
    <3> SUFFICES ASSUME h.bound PROVE LeadsAfter(sessions', h)
      BY DEF LeadsAfter
    <3>1. RoutedBy(sessions[k], h.rec, h.profile, h.override # None)
      BY <1>1, <1>2, <1>3, <2>9 DEF SessionInv, LeadInv, LeadsRecording
    <3>2. RoutedBy(r, h.rec, h.profile, h.override # None)
      BY <1>4, <2>4, <2>9, <3>1 DEF RoutedBy
    <3>3. LinkedBy(r, h.rec, h.request)
      BY <2>2, <2>4 DEF LinkedBy
    <3> QED BY <1>2, <2>6, <2>7, <3>2, <3>3 DEF LeadsAfter
  <2> QED BY <1>1, <1>2, <1>3, <2>6, <2>8, <2>9, RegistryStep DEF RecordWritten
<1> QED BY <1>5, <1>6

\* What a runtime begins with.
LEMMA SessionStarts ==
    ASSUME Session!Init PROVE SessionInv
<1>1. /\ command \in [Session!Actors -> Hands] /\ DOMAIN command = Session!Actors
      /\ \A a \in Session!Actors : command[a] = Session!Idle
      /\ command["service"] = Session!Idle /\ command["operator"] = Session!Idle
  BY HandIdle DEF Session!Init, Session!Actors
<1>2. Session!TypeOK
  <2>1. Runs["session"] \in Nat /\ Ops["session"] \in Nat /\ Crashes["session"] \in Nat
    BY SurfacesAssumption DEF Session!SessionsAssumption
  <2>2. 0 \in 0 .. Runs["session"] /\ 0 \in 0 .. Ops["session"] /\ 0 \in 0 .. Crashes["session"]
    BY <2>1
  <2>3. pipelines = <<>> /\ index \in [Requests -> 0 .. Len(pipelines)] /\ pipelines \in Seq(Session!Run)
    BY DEF Session!Init
  <2> QED BY <1>1, <2>2, <2>3 DEF Session!Init, Session!TypeOK, Session!Table
<1>3. ByHandInv /\ RecordingInv
  BY <1>1, HandIdle DEF ByHandInv, RecordingInv
<1>4. pipelines = <<>> /\ count = 0 /\ 1 .. Len(pipelines) = {}
  <2>1. pipelines = <<>> /\ count = 0
    BY DEF Session!Init
  <2>2. Len(pipelines) = 0
    BY <2>1
  <2> QED BY <2>1, <2>2
<1>5. PipelinesInv /\ IndexInv
  <2>1. PipelinesInv
    <3>1. command["service"].pc = "idle"
      BY <1>1, HandIdle
    <3> QED BY <1>4, <3>1 DEF PipelinesInv
  <2>2. \A r \in Requests : index[r] = 0
    BY DEF Session!Init
  <2> QED BY <2>1, <2>2 DEF IndexInv
<1>6. HeldInv
  BY <1>1, HandIdle DEF HeldInv
<1>7. LeadInv
  <2>1. ~command["service"].bound
    BY <1>1, HandIdle
  <2> QED BY <1>4, <2>1 DEF LeadInv, LeadsRecording
<1> QED BY <1>1, <1>2, <1>3, <1>5, <1>6, <1>7 DEF SessionInv

\* Counting is the same in the part and here.
LEMMA SessionCount == ASSUME NEW S PROVE Session!Cardinality(S) = Cardinality(S)
  BY DEF Session!Cardinality, Cardinality

\* The invariants of the sessions follow.
LEMMA SessionHolds ==
    ASSUME SessionInv
    PROVE  /\ Session!TypeOK /\ Session!RunsTell
           /\ Session!IndexNamesLast /\ Session!SessionLeads
<1>1. Session!TypeOK
  BY DEF SessionInv
<1>2. Session!RunsTell
  <2> SUFFICES ASSUME command["service"].pc = "index"
               PROVE  LET run == pipelines[Len(pipelines)]
                          h == command["service"]
                      IN  /\ run.applied => h.inForce \ {None} # {}
                          /\ ~run.applied => None \in h.inForce \/ "overrides" \in torn
                          /\ run.profile = "other" => "other" \in h.inForce
                          /\ run.policy \in h.modes \/ "policies" \in torn
    BY DEF Session!RunsTell, Session!At
  <2>1. PICK h : h = command["service"]
    OBVIOUS
  <2>2. pipelines[Len(pipelines)] = RunOf(h)
    BY <2>1 DEF SessionInv, PipelinesInv
  <2>3. /\ h.override \in h.inForce \/ (h.override = None /\ "overrides" \in torn)
        /\ (h.profile = "other" => h.override = "other")
        /\ h.policy \in h.modes \/ "policies" \in torn
    BY <2>1 DEF SessionInv, RecordingInv
  <2>4. None # "other"
    BY SurfacesAssumption DEF Session!SessionsAssumption, Session!Overrides, Session!Profiles
  <2>5. /\ pipelines[Len(pipelines)].applied = (h.override # None)
        /\ pipelines[Len(pipelines)].profile = h.profile
        /\ pipelines[Len(pipelines)].policy = h.policy
    BY <2>2 DEF RunOf
  <2>6. h.override # None => h.inForce \ {None} # {}
    BY <2>3
  <2>7. h.override = None => None \in h.inForce \/ "overrides" \in torn
    BY <2>3
  <2>8. h.profile = "other" => "other" \in h.inForce
    BY <2>3, <2>4
  <2> QED BY <2>1, <2>3, <2>5, <2>6, <2>7, <2>8
<1>3. Session!IndexNamesLast
  <2> SUFFICES ASSUME NEW r \in Requests, index[r] # 0
               PROVE  /\ pipelines[index[r]].request = r
                      /\ Cardinality(Unindexed(r))
                           <= crashes + IF command["service"].pc = "index" THEN 1 ELSE 0
    BY SessionCount DEF Session!IndexNamesLast, Session!At, Unindexed
  <2>1. pipelines[index[r]].request = r /\ Cardinality(Unindexed(r)) <= crashes + Owing(r)
    BY DEF SessionInv, IndexInv
  <2>2. CASE Owing(r) = IF command["service"].pc = "index" THEN 1 ELSE 0
    BY <2>1, <2>2
  <2>3. CASE command["service"].pc = "index" /\ Owing(r) = 0
    <3>1. crashes \in Nat /\ index[r] + 1 \in Int /\ Len(pipelines) \in Int
      BY DEF SessionInv, Session!TypeOK
    <3>2. IsFiniteSet(index[r] + 1 .. Len(pipelines))
      BY <3>1, FS_Interval
    <3>3. Unindexed(r) \subseteq index[r] + 1 .. Len(pipelines)
      BY DEF Unindexed
    <3>4. Cardinality(Unindexed(r)) \in Nat
      BY <3>2, <3>3, FS_Subset, FS_CardinalityType
    <3> QED BY <2>1, <2>3, <3>1, <3>4
  <2> QED BY <2>2, <2>3 DEF Owing
<1>4. Session!SessionLeads
  <2> SUFFICES ASSUME ~overlap, "sessions" \notin torn, NEW i \in DOMAIN pipelines,
                      pipelines[i].bound
               PROVE  LET run == pipelines[i]
                          s == sessions[run.key]
                      IN  /\ s # None
                          /\ s.linked >= run.rec
                          /\ s.linked = run.rec => s.request = run.request
                          /\ s.routed = run.rec =>
                              /\ run.profile # "" => s.profile = run.profile
                              /\ s.source = IF run.applied THEN "manual" ELSE "default"
    BY DEF Session!SessionLeads
  <2>1. i \in 1 .. Len(pipelines)
    BY <1>1 DEF Session!TypeOK
  <2>2. LeadsRun(sessions, pipelines[i])
    BY <2>1 DEF SessionInv, LeadInv
  <2> QED BY <2>2 DEF LeadsRun, RoutedBy, LinkedBy
<1> QED BY <1>1, <1>2, <1>3, <1>4

\* Every step of the sessions keeps the invariant.
LEMMA SessionKept ==
    ASSUME SessionInv, Session!Next \/ UNCHANGED <<session, command, ops, crashes, torn>>
    PROVE  SessionInv'
<1>1. CASE \/ Session!Receive \/ Session!Resolve \/ Session!ReadOverride \/ Session!ReadPolicy
           \/ Session!WriteRun \/ Session!IndexRun
  BY <1>1, ReceiveKeeps, ResolveSessionKeeps, ReadOverrideKeeps, ReadPolicyKeeps, WriteRunKeeps,
     IndexRunKeeps
<1>2. ASSUME NEW a \in Session!Actors,
             \/ Session!Load(a) \/ Session!LoadFails(a) \/ Session!OpenSession(a)
             \/ Session!RouteSession(a) \/ Session!LinkSession(a) \/ Session!Crash(a)
      PROVE  SessionInv'
  BY <1>2, LoadKeeps, LoadFailsKeeps, OpenSessionKeeps, RouteSessionKeeps, LinkSessionKeeps,
     SessionCrashKeeps
<1>3. CASE \/ Session!SetOverride \/ Session!SetPolicy \/ Session!SyncBindings
           \/ Session!OpenByHand \/ Session!RouteByHand \/ Session!CrashPolicy
  BY <1>3, SetOverrideKeeps, SetPolicyKeeps, SyncBindingsKeeps, OpenByHandKeeps,
     RouteByHandKeeps, CrashPolicyKeeps
<1>4. CASE UNCHANGED <<session, command, ops, crashes, torn>>
  <2>1. UNCHANGED <<binding, overrides, policies, sessions, pipelines, index, overlap, count,
                    command, ops, crashes, torn>>
    BY <1>4 DEF session
  <2>2. Session!TypeOK' /\ command' \in [Session!Actors -> Hands]
    BY <2>1 DEF SessionInv, Session!TypeOK
  <2>3. ByHandInv' /\ RecordingInv' /\ PipelinesInv' /\ HeldInv'
    <3>1. ByHandInv'
      BY <2>1 DEF SessionInv, ByHandInv
    <3>2. RecordingInv'
      <4>1. \A k : Session!Mode(k)' = Session!Mode(k)
        BY <2>1 DEF Session!Mode
      <4> QED BY <2>1, <4>1 DEF SessionInv, RecordingInv
    <3>3. PipelinesInv'
      BY <2>1 DEF SessionInv, PipelinesInv, RunOf
    <3>4. HeldInv'
      BY <2>1 DEF SessionInv, HeldInv
    <3> QED BY <3>1, <3>2, <3>3, <3>4
  <2>4. IndexInv'
    <3>1. \A r \in Requests : Owing(r) \in {0, 1} /\ Owing(r)' = Owing(r)
      BY <2>1 DEF Owing
    <3>2. crashes \in Nat /\ crashes' = crashes
      BY <2>1 DEF SessionInv, Session!TypeOK
    <3>3. \A r \in Requests : /\ crashes + Owing(r) <= crashes' + Owing(r)'
                              /\ crashes + Owing(r) \in Nat /\ crashes' + Owing(r)' \in Nat
      BY <3>1, <3>2
    <3> QED BY <2>1, <3>3, IndexStays DEF SessionInv
  <2>5. LeadInv'
    <3>1. ~overlap' /\ "sessions" \notin torn' => LeadsRecording(sessions, command["service"])'
      BY <2>1 DEF LeadsRecording, SessionInv, LeadInv
    <3> QED BY <2>1, <3>1, LeadStays
  <2> QED BY <2>2, <2>3, <2>4, <2>5 DEF SessionInv
<1> QED BY <1>1, <1>2, <1>3, <1>4 DEF Session!Next

-----------------------------------------------------------------------------
(* The conversations.                                                      *)

\* While the commands of the channels run one after another, a delivery and its diagnostic
\* tell the same, the newest health snapshot is the channel's health and the rebuilt registry
\* follows the configuration, but where a command died.  A run tells of an override and a
\* policy that were in force during its recording, the index names the last run of a request
\* but for what a crash kept from it, and a run's session knows of it unless two rewrote the
\* registry at once (enqueue_channel_delivery, update_channel_delivery, sync_channel_registry,
\* record_pipeline_from_ingress, index_pipeline_run, update_session_provenance_job).
THEOREM ConversationsAgreeHolds == Serial => (Spec => []ConversationsAgree)
<1> SUFFICES ASSUME Serial PROVE Spec => []ConversationsAgree
  OBVIOUS
<1> DEFINE Inv == /\ part = "channel" => ChannelInv
                  /\ part = "session" => SessionInv
<1>1. Init => Inv
  BY ChannelStarts, SessionStarts, SurfacesAssumption DEF Init, SurfacesAssumption
<1>2. Inv /\ [Next]_vars => Inv'
  BY Steps, ChannelKept, SessionKept
<1>3. Inv => ConversationsAgree
  BY ChannelHolds, SessionHolds DEF ConversationsAgree
<1> QED BY <1>1, <1>2, <1>3, PTL DEF Spec

===============================================================================
