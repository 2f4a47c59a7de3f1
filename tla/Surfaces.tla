-------------------------------- MODULE Surfaces --------------------------------
(***************************************************************************)
(* The operator's surfaces, each a component with files of its own that no *)
(* other one writes.  One of them is chosen and explored; the others rest  *)
(* in an initial state, so that the states of the run are those of the     *)
(* parts side by side and not their product.  The constants are the        *)
(* parts': whoever works on them and what they work on.                    *)
(***************************************************************************)
EXTENDS Integers

CONSTANTS
    Operators,      \* processes that run the commands of channels, capabilities and gates
    Serial,         \* whether those run one after another, where the part has a choice
    Procs,          \* processes of the shadow runs and the loops
    Deliveries, ReadyKinds, Age,                                \* Channels
    SkillNames, FileOf, BuiltIn, Gaps,                          \* Capabilities
    AccountNames,                                               \* Providers
    MaxPasses, MaxJobs,                                         \* SupervisorLoops
    Requests,                                                   \* Sessions
    Hashes, Free, Sentences, GateActions,                       \* Gates, Parity
    None,
    Ops, Time, Crashes, Runs        \* bounds, by part

VARIABLES part,
    config, manifest, registry, delivery, diagnostic, newest,           \* Channels
    worker, descriptor, gap, hit,                                       \* Capabilities
    expired, runs, execution, charges, settled, wrote,                  \* ShadowRuns
    files, keyed, table, selection, store, aliases, audit, chosen, failures,    \* Providers
    pending, finished, heartbeats, status, daemon, stop, did, late, mixed, emptied, cut, \* SupervisorLoops
    binding, overrides, policies, sessions, pipelines, index, overlap, count,   \* Sessions
    kernel, proofs, verified, events, reference, latest, decision,      \* Gates
    evidence, streams, dead,                                            \* Parity
    command, clock, ops, crashes, torn                                  \* of the part at work

channel == <<config, manifest, registry, delivery, diagnostic, newest>>
capability == <<worker, descriptor, gap, hit>>
shadow == <<expired, runs, execution, charges, settled, wrote>>
account == <<files, keyed, table, selection, store, aliases, audit, chosen, failures>>
looping == <<pending, finished, heartbeats, status, daemon, stop, did, late, mixed, emptied, cut>>
session == <<binding, overrides, policies, sessions, pipelines, index, overlap, count>>
gating == <<kernel, proofs, verified, events, reference, latest, decision>>
telling == <<evidence, streams, dead>>

Channel == INSTANCE Channels WITH
    Ready <- ReadyKinds, Actors <- Operators,
    MaxOps <- Ops["channel"], MaxTime <- Time["channel"], MaxCrashes <- Crashes["channel"]

Capability == INSTANCE Capabilities WITH
    Names <- SkillNames, manifest <- descriptor,
    MaxOps <- Ops["capability"], MaxCrashes <- Crashes["capability"]

Shadow == INSTANCE ShadowRuns WITH
    Operators <- Procs, MaxRuns <- Runs["shadow"],
    MaxOps <- Ops["shadow"], MaxCrashes <- Crashes["shadow"]

Provider == INSTANCE Providers WITH
    Identities <- AccountNames, manifest <- selection,
    MaxOps <- Ops["account"], MaxCrashes <- Crashes["account"]

Looped == INSTANCE SupervisorLoops WITH
    loop <- command, MaxRecords <- Runs["loops"], MaxCrashes <- Crashes["loops"]

Session == INSTANCE Sessions WITH
    runs <- pipelines, hand <- command, MaxRuns <- Runs["session"],
    MaxOps <- Ops["session"], MaxCrashes <- Crashes["session"]

Gated == INSTANCE Gates WITH
    MaxLines <- Runs["gates"], MaxChanges <- Time["gates"],
    MaxOps <- Ops["gates"], MaxCrashes <- Crashes["gates"]

Told == INSTANCE Parity WITH
    Hashes <- GateActions, MaxOps <- Ops["parity"], MaxCrashes <- Crashes["parity"]

ASSUME SurfacesAssumption ==
    /\ Channel!ChannelsAssumption /\ Capability!CapabilitiesAssumption
    /\ Shadow!ShadowAssumption
    /\ Provider!ProvidersAssumption /\ Looped!LoopsAssumption /\ Session!SessionsAssumption
    /\ Gated!GatesAssumption /\ Told!ParityAssumption

Surfaces == {"channel", "capability", "shadow", "account", "loops", "session", "gates", "parity"}
AtRest(v) == v = "at rest"

\* The parts without a clock, and those in which no file is found torn.
Untimed == {"capability", "shadow", "account", "loops", "session", "parity"}
Whole == {"shadow", "loops", "parity"}

\* The parts that are not at work.
Resting ==
    /\ part # "channel" => /\ AtRest(config) /\ AtRest(manifest) /\ AtRest(registry)
                           /\ AtRest(delivery) /\ AtRest(diagnostic) /\ AtRest(newest)
    /\ part # "capability" => /\ AtRest(worker) /\ AtRest(descriptor) /\ AtRest(gap) /\ AtRest(hit)
    /\ part # "shadow" => /\ AtRest(expired) /\ AtRest(runs) /\ AtRest(execution)
                          /\ AtRest(charges) /\ AtRest(settled) /\ AtRest(wrote)
    /\ part # "account" => /\ AtRest(files) /\ AtRest(keyed) /\ AtRest(table) /\ AtRest(selection)
                           /\ AtRest(store) /\ AtRest(aliases) /\ AtRest(audit)
                           /\ AtRest(chosen) /\ AtRest(failures)
    /\ part # "loops" => /\ AtRest(pending) /\ AtRest(finished) /\ AtRest(heartbeats)
                         /\ AtRest(status) /\ AtRest(daemon) /\ AtRest(stop) /\ AtRest(did)
                         /\ AtRest(late) /\ AtRest(mixed) /\ AtRest(emptied) /\ AtRest(cut)
    /\ part # "session" => /\ AtRest(binding) /\ AtRest(overrides) /\ AtRest(policies)
                           /\ AtRest(sessions) /\ AtRest(pipelines) /\ AtRest(index)
                           /\ AtRest(overlap) /\ AtRest(count)
    /\ part # "gates" => /\ AtRest(kernel) /\ AtRest(proofs) /\ AtRest(verified)
                         /\ AtRest(events) /\ AtRest(reference) /\ AtRest(latest)
                         /\ AtRest(decision)
    /\ part # "parity" => AtRest(evidence) /\ AtRest(streams) /\ AtRest(dead)
    /\ part \in Untimed => clock = 0
    /\ part \in Whole => AtRest(torn)
    /\ part = "loops" => ops = 0

Init ==
    /\ part \in Surfaces
    /\ CASE part = "channel"     -> Channel!Init
         [] part = "capability"  -> Capability!Init
         [] part = "shadow"      -> Shadow!Init
         [] part = "account"     -> Provider!Init
         [] part = "loops"       -> Looped!Init
         [] part = "session"     -> Session!Init
         [] part = "gates"       -> Gated!Init
         [] part = "parity"      -> Told!Init
    /\ Resting

\* What a step of one part leaves alone.
Rest(p) ==
    /\ UNCHANGED part
    /\ p # "channel" => UNCHANGED channel
    /\ p # "capability" => UNCHANGED capability
    /\ p # "shadow" => UNCHANGED shadow
    /\ p # "account" => UNCHANGED account
    /\ p # "loops" => UNCHANGED looping
    /\ p # "session" => UNCHANGED session
    /\ p # "gates" => UNCHANGED gating
    /\ p # "parity" => UNCHANGED telling
    /\ p \in Untimed => UNCHANGED clock
    /\ p \in Whole => UNCHANGED torn
    /\ p = "loops" => UNCHANGED ops

Next ==
    \/ part = "channel" /\ Channel!Next /\ Rest("channel")
    \/ part = "capability" /\ Capability!Next /\ Rest("capability")
    \/ part = "shadow" /\ Shadow!Next /\ Rest("shadow")
    \/ part = "account" /\ Provider!Next /\ Rest("account")
    \/ part = "loops" /\ Looped!Next /\ Rest("loops")
    \/ part = "session" /\ Session!Next /\ Rest("session")
    \/ part = "gates" /\ Gated!Next /\ Rest("gates")
    \/ part = "parity" /\ Told!Next /\ Rest("parity")

vars == <<part, channel, capability, shadow, account, looping, session, gating, telling,
          command, clock, ops, crashes, torn>>

Spec == Init /\ [][Next]_vars

----------------------------------------------------------------------------
(* Each component's invariants, in bundles of what one hazard would break. *)

\* A delivery, its diagnostic, the health history and the rebuilt registry agree
\* (Channels); a run tells of its session's override and policy, the index names the
\* last run, and a run never leads its session (Sessions).
ConversationsAgree ==
    /\ part = "channel" =>
        /\ Channel!TypeOK /\ Channel!DiagnosticAgrees
        /\ Channel!NewestIsCurrent /\ Channel!RegistryFollowsConfig
    /\ part = "session" =>
        /\ Session!TypeOK /\ Session!RunsTell
        /\ Session!IndexNamesLast /\ Session!SessionLeads

\* What is called verified or promoted has run, and a gap record never leads its
\* capability (Capabilities).
PromotionEarned == part = "capability" =>
    Capability!TypeOK /\ Capability!PromotedIsProved /\ Capability!GapNeverLeads

\* The evidence of a shadow run is complete up to where its command died, was
\* recorded under its warrant and tells of a missing acknowledgement; nothing is
\* charged that is not proved, and what a settlement tells as committed is (ShadowRuns).
\* A sentenced agent is refused and only a sentenced one, and what a preflight, a
\* comparison and a verification tell stands in their logs and artifacts (Gates).  An
\* execution's files lead to the ones before them, and agree (Parity).
EvidenceStands ==
    /\ part = "shadow" =>
        /\ Shadow!TypeOK /\ Shadow!EvidenceFollows
        /\ Shadow!CapturedInForce /\ Shadow!SilenceIsRemedied
        /\ Shadow!ChargedIsProved /\ Shadow!SettledIsCharged
    /\ part = "gates" =>
        /\ Gated!TypeOK /\ Gated!RestrictedIsRefused /\ Gated!RefusedForCause
        /\ Gated!ClearIsClear /\ Gated!PreflightTold
        /\ Gated!ComparisonOfOne /\ Gated!ProofsTell
    /\ part = "parity" =>
        /\ Told!TypeOK /\ Told!EvidenceLeads /\ Told!StatementsAgree
        /\ Told!IdsLead /\ Told!ReportsStarted

\* The manager's requests go out under the account that was chosen, the auth store
\* follows the profiles, and an alias is what the audit log says (Providers).
ProvidersAgree == part = "account" =>
    /\ Provider!TypeOK /\ Provider!AccountIsChosen
    /\ Provider!StoreFollowsTable /\ Provider!AuditAgrees

\* The supervisor's loops tell of no more than their passes did, end when they are
\* asked to, and are reported as they are (SupervisorLoops).
LoopsAgree == part = "loops" =>
    /\ Looped!TypeOK /\ Looped!HeartbeatsTell /\ Looped!StopEndsLoop
    /\ Looped!DaemonIsReported /\ Looped!DrainedWasEmpty
===============================================================================
