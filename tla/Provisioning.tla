----------------------------- MODULE Provisioning -----------------------------
(***************************************************************************)
(* `loom init-nation`, `loom new-agent`, the first steps of `loom          *)
(* run-agent` and `loom quickstart`, which runs the others one after the   *)
(* other: the kernel gets an institution, its treasury and agents, and the *)
(* runtime's root a profile, a config, memory and a session for each.  Two *)
(* operators may be at work at once and die between any two steps.  An     *)
(* agent's config lies beside the operator's other configs, its workspace, *)
(* memory and session under its slug, everything else under its id.  The   *)
(* making of the root is one step here (Setup).  The seven agents every    *)
(* registry is made with, the service and the daemon a run starts, its     *)
(* channels (Channels) and its memory (MemoryService) are left out.        *)
(***************************************************************************)
EXTENDS Integers, Sequences, FiniteSets

CONSTANTS
    Operators,
    Slugs,          \* the agents' names, as slugs
    Org,            \* the organisation asked for
    MaxOps,         \* bound: commands
    MaxCrashes,     \* bound: deaths
    None, Torn      \* nothing, and half a file

VARIABLES
    home,           \* loom.toml: [org, kernel], or None
    realm,          \* the kernel: which of institution, seeds, wallet and account it has
    members,        \* the agents registered in the kernel: [id, slug]
    profiles,       \* the runtime's agent registry: a set of ids
    configs,        \* by slug, the id in agent.toml
    snapshots,      \* by slug, the memory file: [id, facts]
    sessions,       \* by slug, the current session: [id, open]
    memories,       \* what has been remembered of which id
    beats,          \* the slugs that have a heartbeat
    made,           \* the files of a nation and of a quickstart
    hands,          \* what each operator's command does
    overlapped,     \* ghost: a file was written from a reading that was no longer true
    ops, crashes    \* commands, deaths

vars == <<home, realm, members, profiles, configs, snapshots, sessions, memories, beats, made,
          hands, overlapped, ops, crashes>>

ProvisioningAssumption ==
    /\ {MaxOps, MaxCrashes} \subseteq Nat
    /\ Torn # None

Ids == 1..MaxOps

Idle == [todo |-> <<>>, op |-> None, slug |-> None, id |-> None, seen |-> {}]

Init ==
    /\ \/ home = None /\ profiles = None
       \/ home \in [org : {Org, "local_foundry"}, kernel : BOOLEAN] /\ profiles = {}
    /\ realm = {} /\ members = {}
    /\ configs = [s \in Slugs |-> None]
    /\ snapshots = [s \in Slugs |-> None]
    /\ sessions = [s \in Slugs |-> None]
    /\ memories = {} /\ beats = {} /\ made = {}
    /\ hands = [a \in Operators |-> Idle]
    /\ overlapped = FALSE
    /\ ops = 0 /\ crashes = 0

Kept(f) == f \notin {None, Torn}

----------------------------------------------------------------------------
(* The scripts.                                                            *)

\* upsert_agent_runtime_profile: the registry is read and written, and then the
\* profile's own files are made where they are missing.
UpsertScript == <<"load", "store", "state">>

NewAgentConfigFirst ==
    <<"look", "home", "register", "config">> \o UpsertScript \o <<"profile", "delivery", "open">>

\* A slug that has a config is looked for first; an agent has its config only once the
\* kernel and the registry know it.
NewAgentScript ==
    <<"look", "home", "register">> \o UpsertScript \o <<"config", "profile", "delivery", "open">>

RunScript == <<"ready">> \o UpsertScript \o <<"facts", "beat", "open">>

NationWalletLast == <<"found", "bootstrap", "account", "wallet", "gateway", "nation">>

NationScript == <<"found", "bootstrap", "wallet", "account", "gateway", "nation">>

QuickstartProofEarly ==
    <<"init">> \o NationScript \o NewAgentScript \o <<"warrant", "shadow", "reports", "proof">>
      \o RunScript

\* Every step of a quickstart is a command of its own, and it goes on only when that
\* one succeeded.
QuickstartScript ==
    <<"init">> \o NationScript \o NewAgentScript \o RunScript
      \o <<"warrant", "shadow", "reports", "proof">>

Script(op) ==
    CASE op = "new-agent"  -> NewAgentScript
      [] op = "run-agent"  -> RunScript
      [] op = "nation"     -> NationScript
      [] op = "quickstart" -> QuickstartScript

Running(a) == hands[a].todo # <<>>

\* An agent's profile is looked up in the registry, which is made where it is missing.
Resolved(id) == profiles # Torn /\ profiles # None /\ id \in profiles

\* Once a step is done.
Onward(a) ==
    LET h == hands[a] IN IF Len(h.todo) = 1 THEN Idle ELSE [h EXCEPT !.todo = Tail(@)]

At(a, s) == Running(a) /\ Head(hands[a].todo) = s

Advance(a) == hands' = [hands EXCEPT ![a] = Onward(a)]

----------------------------------------------------------------------------
(* The root and the kernel.                                                *)

\* A root that is made has an agent registry.
Fresh ==
    /\ home' = [org |-> Org, kernel |-> TRUE]
    /\ profiles' = IF profiles = None THEN {} ELSE profiles

\* loom init refuses a root that has a config, so that a quickstart does.
InitRoot(a) ==
    /\ At(a, "init") /\ home = None
    /\ Fresh
    /\ Advance(a)
    /\ UNCHANGED <<realm, members, configs, snapshots, sessions, memories, beats, made,
                   overlapped, ops, crashes>>

\* init-nation takes a root that is there as it is.
Found(a) ==
    /\ At(a, "found")
    /\ IF home = None THEN Fresh ELSE UNCHANGED <<home, profiles>>
    /\ Advance(a)
    /\ UNCHANGED <<realm, members, configs, snapshots, sessions, memories, beats, made,
                   overlapped, ops, crashes>>

\* new-agent gives a root that has no kernel path one.
Home(a) ==
    /\ At(a, "home")
    /\ IF home = None THEN Fresh
                      ELSE home' = [home EXCEPT !.kernel = TRUE] /\ UNCHANGED profiles
    /\ Advance(a)
    /\ UNCHANGED <<realm, members, configs, snapshots, sessions, memories, beats, made,
                   overlapped, ops, crashes>>

\* The kernel founds the institution, with its seven agents or with fewer; with fewer
\* the command fails.
Bootstrap(a) ==
    /\ At(a, "bootstrap")
    /\ \E full \in BOOLEAN :
          /\ realm' = realm \cup {"institution"} \cup (IF full THEN {"seeds"} ELSE {})
          /\ hands' = [hands EXCEPT ![a] = IF "seeds" \in realm' THEN Onward(a) ELSE Idle]
    /\ UNCHANGED <<home, members, profiles, configs, snapshots, sessions, memories, beats,
                   made, overlapped, ops, crashes>>

\* The treasury's account is one of its wallet.
Wallet(a) ==
    /\ \/ At(a, "wallet") /\ realm' = realm \cup {"wallet"}
       \/ At(a, "account") /\ realm' = realm \cup {"account"}
    /\ Advance(a)
    /\ UNCHANGED <<home, members, profiles, configs, snapshots, sessions, memories, beats,
                   made, overlapped, ops, crashes>>

\* The kernel registers an agent under an id of its own, whatever its name.
Register(a) ==
    /\ At(a, "register")
    /\ LET id == Cardinality(members) + 1 IN
          /\ members' = members \cup {[id |-> id, slug |-> hands[a].slug]}
          /\ hands' = [hands EXCEPT ![a] = [Onward(a) EXCEPT !.id = id]]
    /\ UNCHANGED <<home, realm, profiles, configs, snapshots, sessions, memories, beats, made,
                   overlapped, ops, crashes>>

----------------------------------------------------------------------------
(* The agent runtime.                                                      *)

SlugOf(id) == (CHOOSE m \in members : m.id = id).slug

\* Every profile of the registry gets the files it lacks, in the order of their ids:
\* those of a slug are the first one's.
FirstOf(ids, s) ==
    LET here == {i \in ids : SlugOf(i) = s}
    IN  IF here = {} THEN None ELSE CHOOSE i \in here : \A j \in here : i <= j

Scaffolded(ids) ==
    /\ snapshots' = [s \in Slugs |->
           IF snapshots[s] # None \/ FirstOf(ids, s) = None THEN snapshots[s]
                                        ELSE [id |-> FirstOf(ids, s), facts |-> FALSE]]
    /\ sessions' = [s \in Slugs |->
           IF sessions[s] # None \/ FirstOf(ids, s) = None THEN sessions[s]
                                        ELSE [id |-> FirstOf(ids, s), open |-> FALSE]]

Load(a) ==
    /\ At(a, "load") /\ profiles # Torn
    /\ LET seen == IF profiles = None THEN {} ELSE profiles IN
          /\ profiles' = seen
          /\ Scaffolded(seen)
          /\ hands' = [hands EXCEPT ![a] = [Onward(a) EXCEPT !.seen = seen]]
    /\ UNCHANGED <<home, realm, members, configs, memories, beats, made, overlapped, ops,
                   crashes>>

StoreAlone(a) ==
    /\ At(a, "store")
    /\ profiles' = {hands[a].id}
    /\ overlapped' = (overlapped \/ profiles # hands[a].seen)
    /\ hands' = [hands EXCEPT ![a] = [Onward(a) EXCEPT !.seen = {}]]
    /\ UNCHANGED <<home, realm, members, configs, snapshots, sessions, memories, beats, made,
                   ops, crashes>>

Store(a) ==
    /\ At(a, "store")
    /\ profiles' = hands[a].seen \cup {hands[a].id}
    /\ overlapped' = (overlapped \/ profiles # hands[a].seen)
    /\ hands' = [hands EXCEPT ![a] = [Onward(a) EXCEPT !.seen = {}]]
    /\ UNCHANGED <<home, realm, members, configs, snapshots, sessions, memories, beats, made,
                   ops, crashes>>

\* The profile's own files, and its summary, which reads them.
State(a) ==
    /\ At(a, "state")
    /\ Scaffolded({hands[a].id})
    /\ LET s == hands[a].slug IN
       hands' = [hands EXCEPT ![a] =
           IF Resolved(hands[a].id) /\ Torn \notin {snapshots[s], sessions[s]} THEN Onward(a) ELSE Idle]
    /\ UNCHANGED <<home, realm, members, profiles, configs, memories, beats, made, overlapped,
                   ops, crashes>>

\* The memory file keeps the id it was made with.
Facts(a) ==
    /\ At(a, "facts")
    /\ LET s == hands[a].slug IN
       /\ Resolved(hands[a].id) /\ Kept(snapshots[s])
       /\ snapshots' = [snapshots EXCEPT ![s].facts = TRUE]
    /\ Advance(a)
    /\ UNCHANGED <<home, realm, members, profiles, configs, sessions, memories, beats, made,
                   overlapped, ops, crashes>>

Open(a) ==
    /\ At(a, "open") /\ Resolved(hands[a].id)
    /\ sessions' = [sessions EXCEPT ![hands[a].slug] = [id |-> hands[a].id, open |-> TRUE]]
    /\ Advance(a)
    /\ UNCHANGED <<home, realm, members, profiles, configs, snapshots, memories, beats, made,
                   overlapped, ops, crashes>>

----------------------------------------------------------------------------
(* The personal agent.                                                     *)

\* new-agent refuses a slug that has a config, whatever is in it.
Look(a) ==
    /\ At(a, "look") /\ configs[hands[a].slug] = None
    /\ Advance(a)
    /\ UNCHANGED <<home, realm, members, profiles, configs, snapshots, sessions, memories,
                   beats, made, overlapped, ops, crashes>>

\* The config is written over whatever another command wrote since this one looked.
Config(a) ==
    /\ At(a, "config")
    /\ configs' = [configs EXCEPT ![hands[a].slug] = hands[a].id]
    /\ overlapped' = (overlapped \/ configs[hands[a].slug] # None)
    /\ Advance(a)
    /\ UNCHANGED <<home, realm, members, profiles, snapshots, sessions, memories, beats, made,
                   ops, crashes>>

\* seed_personal_agent_memory
Seed(a) ==
    /\ \E kind \in {"profile", "delivery"} :
          At(a, kind) /\ memories' = memories \cup {<<hands[a].id, kind>>}
    /\ Advance(a)
    /\ UNCHANGED <<home, realm, members, profiles, configs, snapshots, sessions, beats, made,
                   overlapped, ops, crashes>>

\* A run goes by the config alone.
Ready(a) ==
    /\ At(a, "ready") /\ Kept(configs[hands[a].slug]) /\ home # None
    /\ hands' = [hands EXCEPT ![a] = [Onward(a) EXCEPT !.id = configs[hands[a].slug]]]
    /\ UNCHANGED <<home, realm, members, profiles, configs, snapshots, sessions, memories,
                   beats, made, overlapped, ops, crashes>>

Beat(a) ==
    /\ At(a, "beat")
    /\ beats' = beats \cup {hands[a].slug}
    /\ Advance(a)
    /\ UNCHANGED <<home, realm, members, profiles, configs, snapshots, sessions, memories,
                   made, overlapped, ops, crashes>>

\* The files a nation and a quickstart leave behind.
Make(a) ==
    /\ \E f \in {"gateway", "nation", "warrant", "shadow", "reports", "proof"} :
          At(a, f) /\ made' = made \cup {f}
    /\ Advance(a)
    /\ UNCHANGED <<home, realm, members, profiles, configs, snapshots, sessions, memories,
                   beats, overlapped, ops, crashes>>

----------------------------------------------------------------------------
(* Commands, failures and deaths.                                          *)

\* What ends a command with an error, with nothing written.
Refused(a) ==
    \/ At(a, "init") /\ home # None
    \/ At(a, "look") /\ configs[hands[a].slug] # None
    \/ At(a, "load") /\ profiles = Torn
    \/ At(a, "ready") /\ (home = None \/ ~Kept(configs[hands[a].slug]))
    \/ At(a, "facts") /\ (~Resolved(hands[a].id) \/ ~Kept(snapshots[hands[a].slug]))
    \/ At(a, "open") /\ ~Resolved(hands[a].id)

Fail(a) ==
    /\ Refused(a)
    /\ hands' = [hands EXCEPT ![a] = Idle]
    /\ UNCHANGED <<home, realm, members, profiles, configs, snapshots, sessions, memories,
                   beats, made, overlapped, ops, crashes>>

Die(a) ==
    /\ Running(a) /\ crashes < MaxCrashes
    /\ hands' = [hands EXCEPT ![a] = Idle]
    /\ crashes' = crashes + 1
    /\ UNCHANGED <<home, realm, members, beats, made, memories, overlapped, ops>>

Crash(a) ==
    Die(a) /\ UNCHANGED <<profiles, configs, snapshots, sessions>>

MakesFor(a, s) ==
    \/ At(a, "state") /\ s = hands[a].slug
    \/ At(a, "load") /\ Kept(profiles) /\ FirstOf(profiles, s) # None

\* A death within a write.  Half an agent.toml may lack what no run needs and be read
\* all the same, which is the death after the write.
CrashTorn(a) ==
    /\ Die(a)
    /\ LET s == hands[a].slug IN
       \/ /\ At(a, "store") /\ profiles' = Torn
          /\ UNCHANGED <<configs, snapshots, sessions>>
       \/ /\ At(a, "config") /\ configs' = [configs EXCEPT ![s] = Torn]
          /\ UNCHANGED <<profiles, snapshots, sessions>>
       \/ \E t \in Slugs :
             /\ \/ MakesFor(a, t) /\ snapshots[t] = None
                \/ At(a, "facts") /\ ~Refused(a) /\ t = s
             /\ snapshots' = [snapshots EXCEPT ![t] = Torn]
             /\ UNCHANGED <<profiles, configs, sessions>>
       \/ \E t \in Slugs :
             /\ \/ MakesFor(a, t) /\ sessions[t] = None /\ snapshots[t] # None
                \/ At(a, "open") /\ ~Refused(a) /\ t = s
             /\ sessions' = [sessions EXCEPT ![t] = Torn]
             /\ UNCHANGED <<profiles, configs, snapshots>>

Begin(a, op, s) ==
    /\ ~Running(a) /\ ops < MaxOps
    /\ ops' = ops + 1
    /\ hands' = [hands EXCEPT ![a] = [Idle EXCEPT !.op = op, !.slug = s, !.todo = Script(op)]]
    /\ UNCHANGED <<home, realm, members, profiles, configs, snapshots, sessions, memories,
                   beats, made, overlapped, crashes>>

NewAgent(a, s) == Begin(a, "new-agent", s)
RunAgent(a, s) == Begin(a, "run-agent", s)
Nation(a) == Begin(a, "nation", None)
Quickstart(a, s) == Begin(a, "quickstart", s)

Next ==
    \E a \in Operators :
       \/ InitRoot(a) \/ Found(a) \/ Look(a) \/ Home(a) \/ Bootstrap(a) \/ Wallet(a)
       \/ Register(a) \/ Load(a) \/ Store(a) \/ State(a) \/ Facts(a) \/ Open(a) \/ Config(a)
       \/ Seed(a) \/ Ready(a) \/ Beat(a) \/ Make(a) \/ Fail(a) \/ Crash(a)
       \/ CrashTorn(a) \/ Nation(a)
       \/ \E s \in Slugs : NewAgent(a, s) \/ RunAgent(a, s) \/ Quickstart(a, s)

Spec == Init /\ [][Next]_vars
----------------------------------------------------------------------------

\* Type invariant.
TypeOK ==
    /\ realm \subseteq {"institution", "seeds", "wallet", "account"}
    /\ members \subseteq [id : Ids, slug : Slugs]
    /\ profiles \in (SUBSET Ids) \cup {None, Torn}
    /\ configs \in [Slugs -> Ids \cup {None, Torn}]
    /\ snapshots \in [Slugs -> [id : Ids, facts : BOOLEAN] \cup {None, Torn}]
    /\ sessions \in [Slugs -> [id : Ids, open : BOOLEAN] \cup {None, Torn}]
    /\ memories \subseteq Ids \X {"profile", "delivery"} /\ beats \subseteq Slugs
    /\ ops \in 0..MaxOps /\ crashes \in 0..MaxCrashes

\* An agent that has a config is registered in the kernel under its name and, unless
\* another command wrote over its entry, known to the registry, wherever the command that
\* provisioned it died (handle_new_agent).
ConfiguredIsKnown ==
    \A s \in Slugs : Kept(configs[s]) =>
        /\ [id |-> configs[s], slug |-> s] \in members
        /\ profiles = Torn \/ configs[s] \in profiles \/ overlapped

\* With no death and no two commands at cross purposes an agent is registered once, and
\* its config, profile, memory, session and seeds are all the same agent's
\* (handle_new_agent and ensure_runtime_ready_for_personal_agent).
ProvisionedWhole ==
    (crashes = 0 /\ ~overlapped /\ \A a \in Operators : ~Running(a)) =>
      \A m \in members :
        /\ \A n \in members : n.slug = m.slug => n = m
        /\ configs[m.slug] = m.id /\ m.id \in profiles
        /\ snapshots[m.slug].id = m.id
        /\ sessions[m.slug] = [id |-> m.id, open |-> TRUE]
        /\ {m.id} \X {"profile", "delivery"} \subseteq memories

\* The treasury never has an account without its wallet, and a nation is only called
\* ready with all the kernel owes it and a gateway (handle_nation).
NationStands ==
    /\ "account" \in realm => "wallet" \in realm
    /\ "nation" \in made =>
         /\ realm = {"institution", "seeds", "wallet", "account"}
         /\ "gateway" \in made

\* A quickstart that tells of its proof has an agent that was seeded and has a
\* heartbeat, a nation, and every report it names (handle_quickstart).
ProofStands ==
    "proof" \in made =>
      /\ {"nation", "warrant", "shadow", "reports"} \subseteq made
      /\ home.kernel
      /\ \E m \in members : /\ {m.id} \X {"profile", "delivery"} \subseteq memories
                            /\ m.slug \in beats
===============================================================================
