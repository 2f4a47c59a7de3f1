-------------------------------- MODULE Holdings --------------------------------
(***************************************************************************)
(* What an operator sets up and keeps in a root, beside the surfaces: the  *)
(* root itself and the agents provisioned in it, extensions and skills,    *)
(* connectors, and the memory of an agent.  Each has files of its own, and *)
(* as in Surfaces one part of them all is explored while the others rest.  *)
(* Operators (of connectors and memory), Procs (of provisioning), the      *)
(* names of skills and the bounds are constants of Surfaces.               *)
(***************************************************************************)
EXTENDS Surfaces

CONSTANTS
    MaxAttempts, RateLimit, Window, Retentions, FloorsRate,     \* Connectors
    Agents, Me, EntryKeys, Docs, Texts, Begun, MaxEntries, Retention,  \* MemoryService
    Extensions, Versions,                                       \* Installs
    SetupChoices, Binds, DefaultBind,                           \* Setup
    Slugs, Org, Torn                                            \* Provisioning

VARIABLES
    adapter, tests, trail, sanctions, snapshot, degraded,               \* Connectors
    memory, lineage, synced, gone, ahead,                         \* MemoryService
    record, log, skills, stored, entry, backup, receipt, hurt, spoilt,  \* Installs
    present, settings, wizard, edge, served, capsules, report, lost,    \* Setup
    home, realm, members, profiles, configs, snapshots, opened, memories, beats, made,
    overlapped                                                          \* Provisioning

own == <<adapter, tests, trail, sanctions, snapshot, degraded>>
recall == <<memory, lineage, synced, gone, ahead>>
install == <<record, log, skills, stored, entry, backup, receipt, hurt, spoilt>>
setting == <<present, settings, wizard, edge, served, capsules, report, lost>>
provision == <<home, realm, members, profiles, configs, snapshots, opened, memories, beats,
               made, overlapped>>

Connect == INSTANCE Connectors WITH
    MaxOps <- Ops["connect"], MaxTime <- Time["connect"], MaxCrashes <- Crashes["connect"]

Memory == INSTANCE MemoryService WITH
    Keys <- EntryKeys, Actors <- Operators,
    MaxOps <- Ops["memory"], MaxTime <- Time["memory"], MaxCrashes <- Crashes["memory"]

Installed == INSTANCE Installs WITH
    Names <- SkillNames, registry <- skills, hand <- command,
    MaxOps <- Ops["install"], MaxTime <- Time["install"], MaxCrashes <- Crashes["install"]

Set == INSTANCE Setup WITH
    Choices <- SetupChoices, files <- present,
    MaxOps <- Ops["setup"], MaxFaults <- Crashes["setup"]

Provision == INSTANCE Provisioning WITH
    Operators <- Procs, sessions <- opened, hands <- command,
    MaxOps <- Ops["provision"], MaxCrashes <- Crashes["provision"]

ASSUME HoldingsAssumption ==
    /\ Memory!MemoryAssumption /\ Installed!InstallsAssumption
    /\ Set!SetupAssumption /\ Provision!ProvisioningAssumption

Holdings == {"connect", "memory", "install", "setup", "provision"}
holding == <<own, recall, install, setting, provision>>

\* A surface or one of these parts is at work.
RootInit ==
    /\ \/ Init
       \/ /\ part \in Holdings
          /\ CASE part = "connect"     -> Connect!Init
               [] part = "memory"      -> Memory!Init
               [] part = "install"     -> Installed!Init
               [] part = "setup"       -> Set!Init
               [] part = "provision"   -> Provision!Init
          /\ Resting
    /\ part # "connect" => /\ AtRest(adapter) /\ AtRest(tests) /\ AtRest(trail)
                           /\ AtRest(sanctions) /\ AtRest(snapshot) /\ AtRest(degraded)
    /\ part # "memory" => /\ AtRest(memory) /\ AtRest(lineage)
                          /\ AtRest(synced) /\ AtRest(gone) /\ AtRest(ahead)
    /\ part # "install" => /\ AtRest(record) /\ AtRest(log) /\ AtRest(skills)
                           /\ AtRest(stored) /\ AtRest(entry) /\ AtRest(backup)
                           /\ AtRest(receipt) /\ AtRest(hurt) /\ AtRest(spoilt)
    /\ part # "setup" => /\ AtRest(present) /\ AtRest(settings) /\ AtRest(wizard)
                         /\ AtRest(edge) /\ AtRest(served) /\ AtRest(capsules)
                         /\ AtRest(report) /\ AtRest(lost)
    /\ part # "provision" => /\ AtRest(home) /\ AtRest(realm) /\ AtRest(members)
                             /\ AtRest(profiles) /\ AtRest(configs) /\ AtRest(snapshots)
                             /\ AtRest(opened) /\ AtRest(memories) /\ AtRest(beats)
                             /\ AtRest(made) /\ AtRest(overlapped)
    /\ part \in {"setup", "provision"} => clock = 0
    /\ part = "provision" => AtRest(torn)

\* What a step of one of these parts leaves alone.
Leaves(p) ==
    /\ Rest(p)
    /\ p # "connect" => UNCHANGED own
    /\ p # "memory" => UNCHANGED recall
    /\ p # "install" => UNCHANGED install
    /\ p # "setup" => UNCHANGED setting
    /\ p # "provision" => UNCHANGED provision
    /\ p \in {"setup", "provision"} => UNCHANGED clock
    /\ p = "provision" => UNCHANGED torn

RootNext ==
    \/ Next /\ UNCHANGED holding
    \/ part = "connect" /\ Connect!Next /\ Leaves("connect")
    \/ part = "memory" /\ Memory!Next /\ Leaves("memory")
    \/ part = "install" /\ Installed!Next /\ Leaves("install")
    \/ part = "setup" /\ Set!Next /\ Leaves("setup")
    \/ part = "provision" /\ Provision!Next /\ Leaves("provision")

\* A behaviour in which a surface is at work is one of Surfaces.
RootSpec == RootInit /\ [][RootNext]_<<vars, holding>>

-----------------------------------------------------------------------------
(* The invariants of these parts, in bundles as well.                      *)

\* An adapter goes through every rung before a sanction and stays down when an
\* operator took it down; the histories agree with the registry and are pruned
\* only of what no limit counts any more (Connectors).
ConnectorsAgree == part = "connect" =>
    /\ Connect!TypeOK /\ Connect!SanctionEarned /\ Connect!DownIsDown
    /\ Connect!TrailAgrees /\ Connect!CountedIsKept /\ Connect!RateRespected

\* The receipts of a skill tell what its record is, the entries of extensions agree
\* with their manifests, and every receipt's way back leads back (Installs).  A root
\* never has a config without its plan, an onboarding leaves one address everywhere,
\* and the doctor tells of what is torn and fixes what it can (Setup).  A configured
\* agent is one the kernel and the registry know, an undisturbed one is all one agent's,
\* a nation stands whole and a quickstart's proof on what it ran (Provisioning).
InstallsAgree ==
    /\ part = "install" =>
        /\ Installed!TypeOK /\ Installed!ReceiptsTell
        /\ Installed!EntriesAgree /\ Installed!WayBack
    /\ part = "setup" =>
        /\ Set!TypeOK /\ Set!ManifestStands /\ Set!OnboardAgrees
        /\ Set!RebuiltIsWhole /\ Set!FixLeaves /\ Set!TearsAreTold
    /\ part = "provision" =>
        /\ Provision!TypeOK /\ Provision!ConfiguredIsKnown /\ Provision!ProvisionedWhole
        /\ Provision!NationStands /\ Provision!ProofStands

\* A memory file keeps its limit and its keys apart, the receipts tell what became
\* of each entry, a fork keeps what it wrote as long as anything older is left to evict
\* and the agent's sync state never leads its memory (MemoryService).
MemoryAgrees == part = "memory" =>
    /\ Memory!TypeOK /\ Memory!FilesAreSound /\ Memory!LineageAgrees
    /\ Memory!ForkArrives /\ Memory!StateFollowsMemory
===============================================================================
