------------------------------- MODULE Channels -------------------------------
(***************************************************************************)
(* Delivery channels.  The registry of channels is rebuilt from the        *)
(* onboarding manifest by every sync and completed by the personal agent's *)
(* webhook afterwards; deliveries are one file each, with a diagnostic     *)
(* beside those that channel test sent; the health of every channel is     *)
(* computed from both and its changes are kept in a history.  Commands     *)
(* write these files one after another and may die in between.             *)
(***************************************************************************)
EXTENDS Integers, Sequences, FiniteSets

CONSTANTS Actors,        \* processes that run commands
          Serial,        \* whether commands run one after another
          Deliveries,    \* delivery ids
          Ready,         \* the channels whose endpoint and credential are in place
          Age,           \* age at which a failed or blocked delivery is archived
          None,          \* no delivery, no diagnostic, no snapshot
          MaxOps, MaxTime, MaxCrashes

Kinds == {"telegram", "hook"}     \* the manifest's telegram and the agent's webhook
Statuses == {"queued", "delivered", "failed", "blocked", "legacy_unclosed"}

\* What the file of a delivery tells.
Records == [to : Kinds, rank : Nat, since : Nat, status : Statuses]

ChannelsAssumption ==
    /\ Deliveries \cap {"health", "registry"} = {} /\ IsFiniteSet(Deliveries)
    /\ None \notin Records /\ MaxTime \in Nat

VARIABLES
    config,       \* [Kinds -> BOOLEAN]: the personal agent's configuration
    manifest,     \* telegram_enabled of the onboarding manifest
    registry,     \* [Kinds -> {"absent", "off", "on"}]
    delivery,     \* [Deliveries -> None or a record]
    diagnostic,   \* [Deliveries -> None or the status it shows]
    newest,       \* [Kinds -> None or the newest line of the health history]
    command,      \* [Actors -> the command at work]
    clock, ops, crashes,
    torn          \* ghost: the agreements a dead command or an ageing has broken

vars == <<config, manifest, registry, delivery, diagnostic, newest, command,
          clock, ops, crashes, torn>>

Idle == [op |-> "none", config |-> [k \in Kinds |-> FALSE], registry |-> [k \in Kinds |-> "absent"],
         id |-> None, record |-> None, todo |-> <<>>]

Init ==
    /\ config = [k \in Kinds |-> FALSE] /\ manifest = FALSE
    /\ registry = [k \in Kinds |-> IF k = "hook" THEN "absent" ELSE "off"]
    /\ delivery = [d \in Deliveries |-> None] /\ diagnostic = [d \in Deliveries |-> None]
    /\ newest = [k \in Kinds |-> None]
    /\ command = [a \in Actors |-> Idle]
    /\ clock = 0 /\ ops = 0 /\ crashes = 0
    /\ torn = {"health"}

Sent == {d \in Deliveries : delivery[d] # None}
Quiet == \A a \in Actors : command[a] = Idle

-----------------------------------------------------------------------------
(* Health.                                                                 *)

\* legacy_unclosed at once, failed and blocked ones when they are old enough.
Archived(r) == \/ r.status = "legacy_unclosed"
               \/ r.status \in {"failed", "blocked"} /\ clock - r.since >= Age

To(k) == {d \in Sent : delivery[d].to = k}
Count(k, status) == Cardinality({d \in To(k) : delivery[d].status = status})
Latest(k) == IF To(k) = {} THEN "none"
             ELSE delivery[CHOOSE d \in To(k) : \A e \in To(k) : delivery[e].rank <= delivery[d].rank].status

Label(k) ==
    CASE registry[k] # "on"          -> "disabled"
      [] registry[k] = "on" /\ k \notin Ready -> "degraded"
      [] OTHER -> CASE Count(k, "failed") > 0 -> "warning"
                    [] Count(k, "failed") = 0 /\ Count(k, "blocked") > 0 -> "warning"
                    [] Count(k, "failed") + Count(k, "blocked") = 0 /\ Count(k, "queued") > 0 -> "active"
                    [] OTHER -> "healthy"

Health(k) == [label |-> Label(k), latest |-> Latest(k),
              counts |-> [s \in Statuses \ {"legacy_unclosed"} |-> Count(k, s)],
              archived |-> Cardinality({d \in To(k) : Archived(delivery[d])})]

-----------------------------------------------------------------------------
(* The commands.  Each reads what it needs and is left with what to write. *)

Start(a, cmd) ==
    /\ command[a] = Idle /\ ops < MaxOps
    /\ Serial => Quiet
    /\ command' = [command EXCEPT ![a] = cmd]
    /\ ops' = ops + 1
    /\ UNCHANGED <<config, manifest, registry, delivery, diagnostic, newest, clock, crashes, torn>>

ResyncHookFirst == <<"manifest", "load", "save", "snapshots", "sync">>

\* sync_personal_agent_delivery_channels
Resync == <<"manifest", "sync", "load", "save", "snapshots">>

\* channel sync, gateway sync
Sync(a) == Start(a, [Idle EXCEPT !.op = "sync", !.todo = <<"sync">>])

\* The agent's loop at its start.
Boot(a) == Start(a, [Idle EXCEPT !.op = "agent", !.config = config, !.todo = Resync])

Connect(a, k) ==
    Start(a, [Idle EXCEPT !.op = "agent", !.config = [config EXCEPT ![k] = TRUE],
                          !.todo = <<"config">> \o Resync])

\* A webhook is switched off in the registry first.
Disconnect(a, k) ==
    Start(a, [Idle EXCEPT !.op = "agent", !.config = [config EXCEPT ![k] = FALSE],
                          !.todo = (IF k = "hook" THEN <<"load", "save", "snapshots">> ELSE <<>>)
                                   \o <<"config">> \o Resync])

\* enqueue_channel_delivery: an unknown channel is refused, a disabled one blocks, and
\* the output guard may.
Record(k, d, allowed) ==
    [to |-> k, rank |-> Cardinality(Sent), since |-> clock,
     status |-> IF registry[k] = "on" /\ allowed THEN "queued" ELSE "blocked"]
Enqueue(a, k, d, allowed, todo) ==
    /\ registry[k] # "absent" /\ d \notin Sent
    /\ Start(a, [Idle EXCEPT !.op = "enqueue", !.id = d, !.record = Record(k, d, allowed),
                             !.todo = todo])

Send(a, k, d, allowed) == Enqueue(a, k, d, allowed, <<"delivery", "snapshots">>)

\* channel test: to the agent's first configured target, whose text the guard lets pass.
Target == IF config["telegram"] THEN "telegram" ELSE "hook"
Test(a, d) ==
    /\ \E k \in Kinds : config[k]
    /\ Enqueue(a, Target, d, TRUE, <<"delivery", "snapshots", "diagnostic">>)

UpdateTodoSnapshotFirst == <<"snapshots", "delivery", "follow">>

\* The writes of channel update, in its order.
UpdateTodo == <<"delivery", "follow", "snapshots">>

\* channel update: any status may follow any other.
Update(a, d, status) ==
    /\ d \in Sent
    /\ Start(a, [Idle EXCEPT
         !.op = "update", !.id = d,
         !.record = [delivery[d] EXCEPT !.status = status,
                       !.since = IF status \in {"delivered", "failed", "blocked"} THEN clock ELSE @],
         !.todo = UpdateTodo])

-----------------------------------------------------------------------------
(* The writes.                                                             *)

Mended(w) == CASE w = "snapshots" -> {"health"}
               [] OTHER -> {}
Finished(op) == IF op = "agent" THEN {"registry"} ELSE {}

Step(a, w) ==
    /\ command[a].todo # <<>> /\ Head(command[a].todo) = w
    /\ UNCHANGED <<clock, ops, crashes>>

Goes(a, mem) ==
    LET rest == Tail(command[a].todo)
    IN  command' = [command EXCEPT ![a] = IF rest = <<>> THEN Idle ELSE [mem EXCEPT !.todo = rest]]

Done(a) == IF Len(command[a].todo) = 1 THEN Finished(command[a].op) ELSE {}

WriteConfig(a) ==
    /\ Step(a, "config") /\ Goes(a, command[a])
    /\ config' = command[a].config
    /\ UNCHANGED <<manifest, registry, delivery, diagnostic, newest, torn>>

\* The manifest learns of telegram and never forgets it.
WriteManifest(a) ==
    /\ Step(a, "manifest") /\ Goes(a, command[a])
    /\ manifest' = (manifest \/ command[a].config["telegram"])
    /\ UNCHANGED <<config, registry, delivery, diagnostic, newest, torn>>

\* sync_channel_registry: the manifest's channels and no others, without a snapshot.
SyncRegistry(a) ==
    /\ Step(a, "sync") /\ Goes(a, command[a])
    /\ registry' = [k \in Kinds |-> IF k = "hook" THEN "absent"
                                    ELSE IF manifest THEN "on" ELSE "off"]
    /\ torn' = (torn \cup {"registry", "health"}) \ Done(a)
    /\ UNCHANGED <<config, manifest, delivery, diagnostic, newest>>

SaveRegistryAlone(a) ==
    /\ Step(a, "save") /\ Goes(a, command[a])
    /\ registry' = [k \in Kinds |-> IF k = "hook" /\ command[a].config["hook"] THEN "on" ELSE "absent"]
    /\ UNCHANGED <<config, manifest, delivery, diagnostic, newest, torn>>

\* upsert_channel_record: the registry is read, then written with the webhook replaced.
LoadRegistry(a) ==
    /\ Step(a, "load") /\ Goes(a, [command[a] EXCEPT !.registry = registry])
    /\ UNCHANGED <<config, manifest, registry, delivery, diagnostic, newest, torn>>
SaveRegistry(a) ==
    /\ Step(a, "save") /\ Goes(a, command[a])
    /\ registry' = [command[a].registry EXCEPT
                      !["hook"] = IF command[a].config["hook"] THEN "on" ELSE "off"]
    /\ UNCHANGED <<config, manifest, delivery, diagnostic, newest, torn>>

\* record_channel_health_snapshots: a line for every registered channel whose health
\* is not the newest line's.
Snapshots(a) ==
    /\ Step(a, "snapshots") /\ Goes(a, command[a])
    /\ newest' = [k \in Kinds |-> IF registry[k] = "absent" THEN newest[k] ELSE Health(k)]
    /\ torn' = torn \ (Mended("snapshots") \cup Done(a))
    /\ UNCHANGED <<config, manifest, registry, delivery, diagnostic>>

WriteDelivery(a) ==
    /\ Step(a, "delivery") /\ Goes(a, command[a])
    /\ delivery' = [delivery EXCEPT ![command[a].id] = command[a].record]
    /\ UNCHANGED <<config, manifest, registry, diagnostic, newest, torn>>

\* record_channel_test_diagnostic writes what the enqueue answered.
WriteDiagnostic(a) ==
    /\ Step(a, "diagnostic") /\ Goes(a, command[a])
    /\ diagnostic' = [diagnostic EXCEPT ![command[a].id] = command[a].record.status]
    /\ UNCHANGED <<config, manifest, registry, delivery, newest, torn>>

FollowDiagnosticUnclosed(a) ==
    /\ Step(a, "follow") /\ Goes(a, command[a])
    /\ diagnostic' = [diagnostic EXCEPT ![command[a].id] =
                        IF @ = None \/ command[a].record.status = "legacy_unclosed" THEN @
                        ELSE command[a].record.status]
    /\ torn' = torn \ {command[a].id}
    /\ UNCHANGED <<config, manifest, registry, delivery, newest>>

\* sync_channel_test_diagnostic: only where there is one.
FollowDiagnostic(a) ==
    /\ Step(a, "follow") /\ Goes(a, command[a])
    /\ diagnostic' = [diagnostic EXCEPT ![command[a].id] =
                        IF @ = None THEN @ ELSE command[a].record.status]
    /\ torn' = torn \ {command[a].id}
    /\ UNCHANGED <<config, manifest, registry, delivery, newest>>

Crash(a) ==
    /\ command[a] # Idle /\ crashes < MaxCrashes
    /\ crashes' = crashes + 1
    /\ command' = [command EXCEPT ![a] = Idle]
    /\ torn' = torn \cup {"health"}
                    \cup (IF command[a].op = "agent" THEN {"registry"} ELSE {})
                    \cup (IF command[a].op = "update" THEN {command[a].id} ELSE {})
    /\ UNCHANGED <<config, manifest, registry, delivery, diagnostic, newest, clock, ops>>

Tick ==
    /\ clock < MaxTime /\ Quiet
    /\ clock' = clock + 1
    /\ torn' = torn \cup {"health"}
    /\ UNCHANGED <<config, manifest, registry, delivery, diagnostic, newest, command, ops, crashes>>

Next ==
    \/ \E a \in Actors :
         \/ Sync(a) \/ Boot(a)
         \/ \E k \in Kinds : Connect(a, k) \/ Disconnect(a, k)
         \/ \E k \in Kinds, d \in Deliveries, allowed \in BOOLEAN : Send(a, k, d, allowed)
         \/ \E d \in Deliveries : Test(a, d)
         \/ \E d \in Deliveries, s \in Statuses : Update(a, d, s)
         \/ WriteConfig(a) \/ WriteManifest(a) \/ SyncRegistry(a)
         \/ LoadRegistry(a) \/ SaveRegistry(a) \/ Snapshots(a)
         \/ WriteDelivery(a) \/ WriteDiagnostic(a) \/ FollowDiagnostic(a)
         \/ Crash(a)
    \/ Tick

Spec == Init /\ [][Next]_vars

-----------------------------------------------------------------------------
(* Properties.                                                             *)

\* Every file holds what a later command can read.
TypeOK ==
    /\ config \in [Kinds -> BOOLEAN] /\ manifest \in BOOLEAN
    /\ registry \in [Kinds -> {"absent", "off", "on"}] /\ registry["telegram"] # "absent"
    /\ diagnostic \in [Deliveries -> Statuses \cup {None}]
    /\ delivery \in [Deliveries -> Records \cup {None}] /\ clock \in 0..MaxTime

\* Once connect, disconnect or the agent's start has completed, whatever died before
\* it, the registry offers the webhook exactly if the agent's configuration does, and
\* telegram if it does (sync_personal_agent_delivery_channels).
RegistryFollowsConfig ==
    Quiet /\ "registry" \notin torn =>
        /\ (registry["hook"] = "on") = config["hook"]
        /\ config["telegram"] => registry["telegram"] = "on"

\* The newest line of a channel's health history tells its health, unless a command
\* died, the registry was replaced or time has passed since the last snapshot
\* (record_channel_health_snapshots).
NewestIsCurrent ==
    Quiet /\ "health" \notin torn =>
        \A k \in Kinds : registry[k] # "absent" => newest[k] = Health(k)

\* A diagnostic shows the status of its delivery, also when an earlier update died
\* between the two files and a later one completed (sync_channel_test_diagnostic).
DiagnosticAgrees ==
    Quiet => \A d \in Deliveries :
        diagnostic[d] # None /\ d \notin torn => diagnostic[d] = delivery[d].status
=============================================================================
