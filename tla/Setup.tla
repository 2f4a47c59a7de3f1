------------------------------- MODULE Setup -------------------------------
(***************************************************************************)
(* The runtime's root: `loom init`, `loom onboard` and `loom doctor`, with *)
(* and without --fix.  A command is a script of steps, each of which       *)
(* ensures a file (writes it only where it is missing), syncs it (writes   *)
(* it anew), makes directories, reads or removes; a step that finds what   *)
(* it needs missing or unreadable fails, and the command with it.  A death *)
(* may come between two writes or within one, and the operator may lose a  *)
(* file.  What a file says is kept for the few whose agreement matters.    *)
(* The service and the daemon are down; a kernel path is there when set.   *)
(***************************************************************************)
EXTENDS Integers, Sequences, FiniteSets

CONSTANTS
    Choices,        \* what a command line may ask for: [mode, org, bind, kernel, reset]
    Binds,          \* the binds a gateway may have, DefaultBind among them
    DefaultBind,
    MaxOps,         \* bound: commands
    MaxFaults,      \* bound: deaths and losses
    None

VARIABLES
    files,          \* the files and directories that are there
    torn,           \* those of them a death left half written
    settings,       \* what loom.toml says
    wizard,         \* what state/onboard.json says
    edge,           \* the bind in the gateway registry
    served,         \* the bind in the service registry
    capsules,       \* the organisations that have a capsule manifest
    command,        \* the command at work, or what became of the last one
    report,         \* the last doctor's findings that are not OK
    lost,           \* what the operator lost
    ops, crashes    \* commands, deaths

vars == <<files, torn, settings, wizard, edge, served, capsules, command, report, lost,
          ops, crashes>>

Modes == {"embedded", "shadow", "standalone"}

Directories == {"run", "log", "artifact", "capabilities", "queue", "python", "typescript",
                "wasm", "memory"}

\* The files a directory holds.
Inside(d) ==
    CASE d = "python"       -> {"worker"}
      [] d = "capabilities" -> {"catalog"}
      [] d = "artifact"     -> {"shadow"}
      [] OTHER              -> {}

Registries == {"agents", "context", "heartbeats", "schedules", "profiles", "auth", "channels",
               "gateway", "service", "ingress", "bindings", "skills", "provenance", "locks",
               "recurring", "pipeline"}

File == Directories \cup Registries \cup
        {"config", "manifest", "worker", "catalog", "state", "capsule", "shadow"}

SetupAssumption ==
    /\ DefaultBind \in Binds /\ None \notin Binds
    /\ \A c \in Choices : c.bind \in Binds \cup {None} /\ {c.kernel, c.reset} \subseteq BOOLEAN
    /\ {MaxOps, MaxFaults} \subseteq Nat

\* The config and the manifest a command holds in memory.
Unread == [settings |-> None, wizard |-> None]

Idle == [op |-> None, choice |-> None, todo |-> <<>>, mem |-> Unread, fresh |-> FALSE,
         had |-> FALSE, built |-> FALSE, ok |-> FALSE]

Running == command.todo # <<>>

\* What an init with no options writes.
AsMade == [mode |-> "standalone", org |-> "local_foundry", bind |-> DefaultBind, kernel |-> FALSE]

\* A directory that was never a root, or one a `loom init` has just made.
Init ==
    /\ \/ /\ files = {} /\ capsules = {}
          /\ settings = None /\ wizard = None /\ edge = None /\ served = None
       \/ /\ files = File \ {"memory", "provenance", "locks", "recurring", "pipeline"}
          /\ capsules = {AsMade.org} /\ settings = AsMade
          /\ wizard = [action |-> "initialized", bind |-> DefaultBind]
          /\ edge = DefaultBind /\ served = DefaultBind
    /\ torn = {} /\ lost = {}
    /\ command = Idle
    /\ report = {}
    /\ ops = 0 /\ crashes = 0

Faults == crashes + Cardinality(lost)

Whole(f) == f \in files \ torn
Missing(f) == f \notin files

\* read_config: a mode must be there, and one of the three.
Readable == Whole("config") /\ settings.mode \in Modes

----------------------------------------------------------------------------
(* What a scaffold and a sync write, in order, and whether they fail: a    *)
(* scaffold is written where it is missing, and never looked at otherwise. *)

Fill(f) == IF Missing(f) THEN <<f>> ELSE <<>>

Scaffold(f) == [writes |-> Fill(f), fails |-> FALSE]

\* One that is made by the sync of its registry.
MadeOf(f, sync) == IF Missing(f) THEN sync ELSE [writes |-> <<>>, fails |-> FALSE]

\* A after B, or B alone when it fails.
Then(B, A) == IF B.fails THEN B ELSE [writes |-> B.writes \o A.writes, fails |-> A.fails]

\* What is written anew unless it fails.
Anew(fs, fails) == [writes |-> IF fails THEN <<>> ELSE fs, fails |-> fails]

WorkerScaffold == [writes |-> Fill("python") \o Fill("worker"), fails |-> FALSE]
CatalogScaffold == [writes |-> Fill("capabilities") \o Fill("catalog"), fails |-> FALSE]

\* The agents' registry is read by its own scaffold.
AgentScaffold == [writes |-> Fill("agents"), fails |-> "agents" \in torn]
ContextScaffold == Then(AgentScaffold, Scaffold("context"))

\* The channels, the skills and the schedules are made of the manifest.
ChannelSync == Anew(<<"channels">>, ~Whole("manifest"))
ChannelScaffold == MadeOf("channels", ChannelSync)
SkillSync == Anew(<<"skills">>, ~Whole("manifest"))
SkillScaffold == MadeOf("skills", SkillSync)
ScheduleSync == Anew(<<"schedules">>, ~Whole("manifest"))

\* The gateway's registry is made of the channels', which its sync makes anew.
GatewaySync == Anew(<<"channels", "gateway">>, ~Whole("manifest"))
GatewayScaffold == IF Missing("gateway") THEN GatewaySync ELSE ChannelScaffold

\* The bindings are made of the manifest, the channels and the agents.
BindingSync ==
    Then(ChannelScaffold, Anew(<<"bindings">>,
         ~Whole("manifest") \/ "channels" \in torn \/ ~Whole("agents")))
BindingScaffold == MadeOf("bindings", BindingSync)

\* The auth store follows the profiles and keeps what it knew of them.
AuthSync == Anew(<<"auth">>, {"auth", "profiles"} \cap torn # {})
AuthScaffold == MadeOf("auth", AuthSync)

\* The service's registry and its ingress's are made of the config.  The ingress's
\* scaffold reads it in any case.
ServiceSync == Anew(<<"run", "log", "service">>, ~Readable)
ServiceScaffold == MadeOf("service", ServiceSync)
IngressSync == Anew(<<"run", "ingress">>, ~Readable)
IngressScaffold == IF Missing("ingress") THEN IngressSync ELSE Anew(Fill("run"), ~Readable)

Ensured(f) ==
    CASE f = "worker"   -> WorkerScaffold
      [] f = "catalog"  -> CatalogScaffold
      [] f = "agents"   -> AgentScaffold
      [] f = "context"  -> ContextScaffold
      [] f = "channels" -> ChannelScaffold
      [] f = "skills"   -> SkillScaffold
      [] f = "gateway"  -> GatewayScaffold
      [] f = "bindings" -> BindingScaffold
      [] f = "auth"     -> AuthScaffold
      [] f = "service"  -> ServiceScaffold
      [] f = "ingress"  -> IngressScaffold
      [] OTHER          -> Scaffold(f)

Synced(f) ==
    CASE f = "channels"  -> ChannelSync
      [] f = "skills"    -> SkillSync
      [] f = "schedules" -> ScheduleSync
      [] f = "gateway"   -> GatewaySync
      [] f = "bindings"  -> BindingSync
      [] f = "auth"      -> AuthSync
      [] f = "service"   -> ServiceSync
      [] f = "ingress"   -> IngressSync

Ensure(fs) == [k \in 1..Len(fs) |-> <<"ensure", fs[k]>>]
Sync(fs) == [k \in 1..Len(fs) |-> <<"sync", fs[k]>>]
Write(fs) == [k \in 1..Len(fs) |-> <<"write", fs[k]>>]

----------------------------------------------------------------------------
(* The doctor's sections: what each writes and finds.                      *)

Required(fs) == {<<"CRITICAL", f>> : f \in {g \in fs : Missing(g)}}
Optional(fs) == {<<"WARN", f>> : f \in {g \in fs : Missing(g)}}

ScaffoldedUnread(f) ==
    [writes |-> Ensured(f).writes, found |-> IF Ensured(f).fails THEN {<<"WARN", f>>} ELSE {}]

\* A section that ensures a registry and then reads it: the path it checks is there,
\* what can be wrong is that the registry cannot be made or read.
Scaffolded(f) ==
    [writes |-> Ensured(f).writes,
     found |-> IF Ensured(f).fails \/ f \in torn THEN {<<"WARN", f>>} ELSE {}]

\* One that ensures a registry and then syncs it.
Resynced(f) ==
    [writes |-> IF Synced(f).fails THEN Ensured(f).writes ELSE Synced(f).writes,
     found |-> IF Synced(f).fails THEN {<<"WARN", f>>} ELSE {}]

\* One whose records are read one by one, the unreadable ones passed over.
Listed(f) == [writes |-> Ensured(f).writes, found |-> {}]

\* The directories and the capability registry are looked for before anything is made.
DoctorPaths ==
    [writes |-> <<>>,
     found |-> Required({"run", "log", "artifact", "capabilities", "catalog"})
                 \cup Optional({"profiles"})
                 \cup (IF "profiles" \in torn THEN {<<"WARN", "profiles">>} ELSE {})]

DoctorAuth == Resynced("auth")
DoctorGateway == Scaffolded("gateway")
DoctorService == Resynced("service")
DoctorIngress == Resynced("ingress")
DoctorManifest == Scaffolded("manifest")
DoctorAgents == Scaffolded("agents")
DoctorContext == Scaffolded("context")
DoctorHeartbeats == Scaffolded("heartbeats")
DoctorSchedules == Scaffolded("schedules")
DoctorChannels == Scaffolded("channels")
DoctorBindings == Scaffolded("bindings")
DoctorSkills == Scaffolded("skills")
DoctorProvenance == Scaffolded("provenance")
DoctorInstalls == Listed("locks")
DoctorRecurring == Listed("recurring")
DoctorPipeline == Listed("pipeline")

\* What the runtime needs beside the registries, never made here.
DoctorRuntime ==
    [writes |-> <<>>,
     found |-> Optional({"queue"}) \cup Required({"python", "typescript", "wasm"})
                 \cup (IF settings.org \in capsules THEN {} ELSE {<<"CRITICAL", "capsule">>})]

\* Every mode but the embedded one needs a kernel.
DoctorKernel ==
    [writes |-> <<>>,
     found |-> IF settings.kernel THEN {}
               ELSE {<<IF settings.mode = "embedded" THEN "WARN" ELSE "CRITICAL", "kernel">>}]

DoctorMemory == [writes |-> <<>>, found |-> Optional({"memory"})]

Section(s) ==
    CASE s = "paths"      -> DoctorPaths
      [] s = "auth"       -> DoctorAuth
      [] s = "gateway"    -> DoctorGateway
      [] s = "service"    -> DoctorService
      [] s = "ingress"    -> DoctorIngress
      [] s = "manifest"   -> DoctorManifest
      [] s = "agents"     -> DoctorAgents
      [] s = "context"    -> DoctorContext
      [] s = "heartbeats" -> DoctorHeartbeats
      [] s = "schedules"  -> DoctorSchedules
      [] s = "channels"   -> DoctorChannels
      [] s = "bindings"   -> DoctorBindings
      [] s = "skills"     -> DoctorSkills
      [] s = "provenance" -> DoctorProvenance
      [] s = "locks"      -> DoctorInstalls
      [] s = "recurring"  -> DoctorRecurring
      [] s = "pipeline"   -> DoctorPipeline
      [] s = "runtime"    -> DoctorRuntime
      [] s = "kernel"     -> DoctorKernel
      [] s = "memory"     -> DoctorMemory

Sections == <<"paths", "auth", "gateway", "service", "ingress", "manifest", "agents",
              "context", "heartbeats", "schedules", "channels", "bindings", "skills",
              "provenance", "locks", "recurring", "pipeline", "runtime", "kernel", "memory">>

----------------------------------------------------------------------------
(* The scripts.                                                            *)

InitConfigFirst ==
    <<<<"make", "root">>>>
      \o Write(<<"config">>)
      \o Ensure(<<"worker", "catalog", "agents", "context", "heartbeats", "schedules",
                  "profiles", "auth", "manifest", "channels", "gateway", "service",
                  "ingress", "bindings", "skills">>)
      \o Write(<<"state", "capsule", "shadow">>)

InitScript ==
    <<<<"make", "root">>>>
      \o Ensure(<<"worker", "catalog", "agents", "context", "heartbeats", "schedules",
                  "profiles", "auth", "manifest", "channels", "gateway">>)
      \o Write(<<"config">>)
      \o Ensure(<<"service", "ingress", "bindings", "skills">>)
      \o Write(<<"state", "capsule", "shadow">>)

DoctorScript == <<<<"read", "config">>>> \o [k \in 1..Len(Sections) |-> <<"check", Sections[k]>>]

\* The safe fixes: the directories, and every scaffold the doctor ensures.
FixScript ==
    <<<<"read", "config">>, <<"make", "fix">>>>
      \o Ensure(<<"manifest", "profiles", "auth">>) \o Sync(<<"auth">>)
      \o Ensure(<<"gateway", "service", "ingress", "agents", "context", "heartbeats",
                  "schedules", "channels", "bindings", "skills", "provenance", "locks",
                  "recurring", "pipeline">>)

OnboardManifestFirst(reset) ==
    <<<<"detect", "agents">>>> \o (IF reset THEN <<<<"drop", "manifest">>, <<"drop", "config">>>> ELSE <<>>)
      \o <<<<"enter", "config">>>>

\* An onboarding looks at the agents, if there is a config and the profiles can be
\* read, which makes their registry.  A reset removes the config first and then the
\* manifest.
OnboardScript(reset) ==
    <<<<"detect", "agents">>>> \o (IF reset THEN <<<<"drop", "config">>, <<"drop", "manifest">>>> ELSE <<>>)
      \o <<<<"enter", "config">>>>

PlanEnsured ==
    Ensure(<<"manifest">>) \o <<<<"read", "manifest">>, <<"ask", "operator">>>>
      \o Ensure(<<"profiles">>) \o <<<<"revise", "profiles">>>> \o Sync(<<"auth">>)
      \o Write(<<"config", "manifest">>)
      \o Ensure(<<"channels", "gateway", "service", "ingress", "bindings", "skills",
                  "schedules">>)
      \o Write(<<"memory">>)

\* Once the config is there: the plan, then the registries made of it.
PlanScript ==
    Ensure(<<"manifest">>) \o <<<<"read", "manifest">>, <<"ask", "operator">>>>
      \o Ensure(<<"profiles">>) \o <<<<"revise", "profiles">>>> \o Sync(<<"auth">>)
      \o Write(<<"config", "manifest">>)
      \o Sync(<<"channels", "gateway", "service", "ingress", "bindings", "skills",
                "schedules">>)
      \o Write(<<"memory">>)

MadeBy(what) ==
    IF what = "root"
      THEN <<"artifact", "run", "log", "capabilities", "python", "typescript", "wasm", "queue">>
      ELSE <<"run", "log", "artifact", "capabilities", "memory">>

\* The files a step writes, in order.
StepWrites(s) ==
    CASE s[1] = "ensure" -> Ensured(s[2]).writes
      [] s[1] = "sync"   -> Synced(s[2]).writes
      [] s[1] = "write"  -> <<s[2]>>
      [] s[1] = "revise" -> IF s[2] \in torn THEN <<>> ELSE <<s[2]>>
      [] s[1] = "make"   -> MadeBy(s[2])
      [] s[1] = "detect" -> IF Missing("config") \/ {"profiles", s[2]} \cap torn # {} THEN <<>>
                                                                        ELSE Fill(s[2])
      [] s[1] = "check"  -> Section(s[2]).writes
      [] OTHER           -> <<>>

\* What a command line overrides of a config.
Overridden(s, c) ==
    [s EXCEPT !.mode = IF c.mode # None THEN c.mode ELSE @,
              !.org = IF c.org # None THEN c.org ELSE @,
              !.kernel = @ \/ c.kernel]

\* The config init_workspace writes.
Created(op, c) ==
    [mode |-> IF c.mode # None THEN c.mode ELSE IF op = "init" THEN "standalone" ELSE "embedded",
     org |-> IF c.org # None THEN c.org ELSE IF op = "init" THEN "local_foundry" ELSE "default",
     bind |-> DefaultBind, kernel |-> c.kernel]

Base == IF Missing("config") THEN Created(command.op, command.choice)
                             ELSE Overridden(settings, command.choice)

StepFails(s) ==
    CASE s[1] = "ensure" -> Ensured(s[2]).fails
      [] s[1] = "sync"   -> Synced(s[2]).fails
      [] s[1] = "revise" -> s[2] \in torn
      [] s[1] = "read"   -> IF s[2] = "config" THEN ~Readable ELSE ~Whole(s[2])
      [] s[1] = "enter"  -> IF Missing("config") THEN Base.mode \notin Modes
                                                 ELSE ~Readable
      [] OTHER           -> FALSE

\* Once the files ws are written, and `cut` of them only in part.
Written(ws, cut) ==
    LET mem == command.mem IN
    /\ files' = files \cup ws
    /\ torn' = (torn \ ws) \cup cut
    /\ settings' = IF "config" \in ws THEN mem.settings ELSE settings
    /\ wizard' = IF "manifest" \in ws THEN mem.wizard ELSE wizard
    /\ edge' = IF "gateway" \in ws THEN wizard.bind ELSE edge
    /\ served' = IF "service" \in ws THEN settings.bind ELSE served
    /\ capsules' = IF "capsule" \in ws THEN capsules \cup {mem.settings.org} ELSE capsules

Elements(q) == {q[k] : k \in 1..Len(q)}

----------------------------------------------------------------------------
(* Steps of a command.                                                     *)

\* OnboardManifest::from_config
FromConfig(s) == [action |-> "initialized", bind |-> s.bind]

Entered(rest) ==
    [command EXCEPT !.todo = (IF Missing("config") THEN InitScript ELSE <<>>) \o rest,
                    !.mem = [settings |-> Base, wizard |-> FromConfig(Base)],
                    !.built = Missing("config")]

\* The action an onboarding leaves in its manifest.
LastAction ==
    CASE command.fresh -> "setup"
      [] ~command.had  -> "init"
      [] command.choice.reset -> "reset"
      [] command.choice.bind # None \/ command.choice.mode # None
           \/ command.choice.org # None \/ command.choice.kernel -> "modify"
      [] OTHER -> "keep"

\* The plan: the manifest under its overrides, and the config with the address the
\* manifest's bind gives it.
Planned ==
    LET bind == IF command.choice.bind # None THEN command.choice.bind ELSE wizard.bind
    IN  [settings |-> [command.mem.settings EXCEPT !.bind = bind],
         wizard |-> [action |-> LastAction, bind |-> bind]]

\* A doctor's reading of the config.
Examined == [settings |-> settings, wizard |-> FromConfig(settings)]

\* The last step leaves the command idle, and what it held is gone.
Advanced(c) == IF c.todo = <<>> THEN [c EXCEPT !.mem = Unread, !.ok = TRUE] ELSE c

Step ==
    /\ Running /\ ~StepFails(Head(command.todo))
    /\ LET s == Head(command.todo)
           rest == [command EXCEPT !.todo = Tail(@)]
       IN  /\ command' = Advanced(
                CASE s[1] = "enter"             -> Entered(
                        Tail(command.todo) \o (IF command.op = "init" THEN <<>> ELSE PlanScript))
                  [] s = <<"read", "config">>   -> [rest EXCEPT !.mem = Examined]
                  [] s = <<"read", "manifest">> -> [rest EXCEPT !.mem = Planned]
                  [] OTHER                      -> rest)
           /\ report' = CASE s = <<"read", "config">> -> {}
                          [] s[1] = "check"           -> report \cup Section(s[2]).found
                          [] OTHER                    -> report
           /\ IF s[1] = "drop"
                THEN /\ files' = files \ {s[2]} /\ torn' = torn \ {s[2]}
                     /\ UNCHANGED <<settings, wizard, edge, served, capsules>>
                ELSE Written(Elements(StepWrites(s)), {})
    /\ UNCHANGED <<lost, ops, crashes>>

\* A step that fails ends its command.
Fail ==
    /\ Running /\ StepFails(Head(command.todo))
    /\ Written(Elements(StepWrites(Head(command.todo))), {})
    /\ command' = Idle
    /\ UNCHANGED <<report, lost, ops, crashes>>

\* The wizard asks for its notice to be acknowledged when the root has been reset or
\* initialised already.
Decline ==
    /\ Running /\ Head(command.todo)[1] = "ask" /\ LastAction # "keep"
    /\ command' = Idle
    /\ UNCHANGED <<files, torn, settings, wizard, edge, served, capsules, report, lost,
                   ops, crashes>>

\* A death between two writes of a step, or in the middle of one.
Crash ==
    /\ Running /\ Faults < MaxFaults
    /\ LET ws == StepWrites(Head(command.todo)) IN
       \E k \in 0..Len(ws) :
       \E cut \in {{}, {ws[j] : j \in {k} \cap (1..k)} \ Directories} :
          Written({ws[j] : j \in 1..k}, cut)
    /\ command' = Idle
    /\ crashes' = crashes + 1
    /\ UNCHANGED <<report, lost, ops>>

Begin(op, choice, script, fresh, had) ==
    /\ ~Running /\ ops < MaxOps
    /\ command' = [Idle EXCEPT !.op = op, !.choice = choice, !.todo = script,
                               !.fresh = fresh, !.had = had]
    /\ report' = {}
    /\ ops' = ops + 1
    /\ UNCHANGED <<files, torn, settings, wizard, edge, served, capsules, lost, crashes>>

\* loom init refuses a root that has a config, whatever is in it.
InitWorkspace(c) ==
    /\ Missing("config") /\ c.bind = None /\ ~c.reset
    /\ Begin("init", c, <<<<"enter", "config">>>>, FALSE, FALSE)

\* A runtime is fresh when nothing has been asked of it since it was initialised.
Onboard(c) ==
    LET had == ~Missing("config")
        fresh == had /\ Whole("manifest") /\ wizard.action = "initialized"
    IN  Begin("onboard", c, OnboardScript(had /\ c.reset), fresh, had)

Doctor(fix) ==
    Begin(IF fix THEN "fix" ELSE "doctor", None,
          IF fix THEN DoctorScript \o FixScript \o DoctorScript ELSE DoctorScript, FALSE, FALSE)

\* The operator loses a file, or a directory with what is in it.
Lose(f) ==
    LET gone == {f} \cup Inside(f) IN
    /\ ~Running /\ f \in files /\ Faults < MaxFaults
    /\ files' = files \ gone
    /\ torn' = torn \ gone
    /\ lost' = lost \cup {f}
    /\ capsules' = IF f = "capsule" THEN {} ELSE capsules
    /\ command' = Idle /\ report' = {}
    /\ UNCHANGED <<settings, wizard, edge, served, ops, crashes>>

Next ==
    \/ Step \/ Fail \/ Decline \/ Crash
    \/ \E c \in Choices : InitWorkspace(c) \/ Onboard(c)
    \/ \E fix \in BOOLEAN : Doctor(fix)
    \/ \E f \in File : Lose(f)

Spec == Init /\ [][Next]_vars

----------------------------------------------------------------------------

\* Type invariant.
TypeOK ==
    /\ files \subseteq File /\ torn \subseteq files \ Directories
    /\ lost \subseteq File
    /\ {edge, served} \subseteq Binds \cup {None}
    /\ report \subseteq {"CRITICAL", "WARN"} \X (File \cup {"kernel"})
    /\ ops \in 0..MaxOps /\ crashes \in 0..MaxFaults

Ended(op) == ~Running /\ command.ok /\ command.op = op

\* A config is never there without its manifest: the manifest is written first when a
\* root is made and removed last when it is reset, so that a death at any point leaves
\* either the old plan or none (init_workspace, handle_onboard).
ManifestStands == "config" \in files => "manifest" \in files \/ "manifest" \in lost

\* An onboarding that ends leaves the config, the manifest, the gateway registry and the
\* service registry with one address, and none of the files it goes by half written,
\* whatever an earlier death or loss had left (handle_onboard).
OnboardAgrees ==
    Ended("onboard") =>
      /\ settings.bind = wizard.bind /\ edge = wizard.bind /\ served = settings.bind
      /\ torn \cap {"config", "manifest", "agents", "profiles", "auth", "channels", "gateway",
                    "service", "ingress", "bindings", "skills", "schedules"} = {}

\* A root that was made anew lacks nothing a doctor requires, and has the capsule of the
\* organisation its config names (init_workspace against doctor).
RebuiltIsWhole ==
    (~Running /\ command.ok /\ command.built) =>
      /\ {"run", "log", "artifact", "capabilities", "catalog", "python", "typescript", "wasm",
          "queue", "worker", "manifest"} \subseteq files
      /\ settings.org \in capsules

\* What a doctor with --fix still calls critical is beyond it: the capability registry,
\* the workers' directories, the capsule and the kernel (apply_safe_doctor_fixes).
FixLeaves ==
    Ended("fix") =>
      \A r \in report : r[1] = "CRITICAL" =>
        r[2] \in {"catalog", "python", "typescript", "wasm", "capsule", "kernel"}

\* A half-written file is told by a doctor, but for those whose readers pass over what
\* they cannot read, and the catalog, the worker and the files only written at the
\* making of a root, whose paths are all it looks at (doctor).
TearsAreTold ==
    (Ended("doctor") \/ Ended("fix")) =>
      \A f \in torn \ {"locks", "recurring", "pipeline", "catalog", "worker", "state",
                       "capsule", "shadow"} : <<"WARN", f>> \in report
=============================================================================
