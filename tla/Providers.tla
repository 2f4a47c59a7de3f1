------------------------------- MODULE Providers -------------------------------
(***************************************************************************)
(* Which account the manager's model requests go out under.  The choice is *)
(* kept in three files: the onboard manifest, the provider profiles (the   *)
(* table) and the auth store derived from them, beside the Codex auth      *)
(* files it points to; a login and an onboarding write them one after      *)
(* another and in different orders.  The token aliases and their audit log *)
(* are kept by `loom auth`.  One load-and-write of a file is one step, a   *)
(* command may die between any two, and commands do not overlap; the       *)
(* operator's own `codex login` does.  "frontier" stands for all profiles  *)
(* of the Codex kind, which always carry the same path; models, notes and  *)
(* endpoints are left out, and the manager is the one agent.               *)
(***************************************************************************)
EXTENDS Naturals, FiniteSets

CONSTANTS Identities,       \* accounts one can log in to
          None,
          MaxOps, MaxCrashes    \* bounds

VARIABLES
    files,        \* the Codex auth files: the account each holds
    keyed,        \* BOOLEAN: the endpoint's key is in the environment
    table,        \* the provider profiles file
    manifest,     \* the manager's part of the onboard manifest
    store,        \* the provider auth store
    aliases,      \* the status of each token alias
    audit,        \* what the audit log last says was done to each alias
    command,      \* the operator's command at work, and its next step
    ops, crashes,
    chosen,       \* ghost: what the last complete login or onboarding chose
    failures,     \* ghost: the failures marked, by profile
    torn          \* ghost: what a dead command may have left disagreeing

vars == <<files, keyed, table, manifest, store, aliases, audit, command, ops, crashes,
          chosen, failures, torn>>

Places == {"loom", "shared", "path"}
Profiles == {"local", "frontier", "endpoint"}
Names == Profiles \cup {"token"}            \* profile.<name> of each profile, and one by hand
Choices == {"loom", "cli", "path", "local", "endpoint"}    \* what an onboarding may be for
Accounts == Identities \cup {None}

ProvidersAssumption ==
    None \notin Identities \cup Places /\ {MaxOps, MaxCrashes} \subseteq Nat

OfSource(source) == IF source = "cli" THEN "shared" ELSE source     \* "loom" and "path" as they are

Table == [codex : Places \cup {None}, endpoint : BOOLEAN, agent : Profiles \cup {None}]
Manifest == [lane : {"frontier", "local"}, source : {"loom", "cli", "path", "none"},
             path : Places \cup {None}]
Store == [path : Places, ready : [Profiles -> BOOLEAN], known : SUBSET Profiles,
          errors : [Profiles -> Nat], cooling : SUBSET Profiles, good : SUBSET Profiles]
Idle == [doing |-> "none", step |-> 0, arg |-> None, id |-> None]
Command == [doing : {"none", "login", "onboard", "status", "rotate", "revoke"},
            step : 0 .. 5, arg : Names \cup Choices \cup {None},
            id : Accounts]

TypeOK ==
    /\ files \in [Places -> Accounts] /\ keyed \in BOOLEAN
    /\ table \in Table /\ manifest \in Manifest /\ store \in Store
    /\ aliases \in [Names -> {"none", "active", "attention", "revoked"}]
    /\ audit \in [Names -> {"none", "rotate", "revoke"}]
    /\ command \in Command
    /\ chosen \in [place : Places \cup {None}, id : Accounts]
    /\ failures \in [Profiles -> Nat] /\ torn \subseteq Names \cup {"selection", "store"}

----------------------------------------------------------------------------
(* What the files say.                                                     *)

\* A path that is not set is the shared file of the Codex CLI.
CodexFile(t) == IF t.codex = None THEN "shared" ELSE t.codex

\* The profiles of a table: the frontier ones are always added.
Known(t) == {"local", "frontier"} \cup IF t.endpoint THEN {"endpoint"} ELSE {}

ReadableAnyway(place) == files[place] # None

\* A Loom-managed file must not hold the account of the shared one.
Dedicated(place) == place = "loom" =>
    files["shared"] = None \/ files["loom"] # files["shared"]

Readable(place) == files[place] # None /\ Dedicated(place)

\* provider_auth_status
Ready(t, profile) ==
    \/ profile = "local"
    \/ profile = "endpoint" /\ keyed
    \/ profile = "frontier" /\ Readable(CodexFile(t))

\* The profile of the manager's requests: its rule in the table, else the profile
\* the agent registry is seeded with, before the capability's and the default.
RouteOf(t) == IF t.agent # None THEN t.agent ELSE "frontier"

\* The account a request of the manager goes out under; None: it is refused, or
\* needs no account.
SentUnder == IF RouteOf(table) = "frontier" /\ Ready(table, "frontier")
             THEN files[CodexFile(table)] ELSE None

\* apply_frontier_profile_defaults: every Codex profile gets the path given.
Pointed(t, path) == [t EXCEPT !.codex = path]

ConfiguredOnly(t, lane, path) == [t EXCEPT !.agent = lane]

\* configure_onboard_provider_routes: without a path the frontier lane takes
\* Loom's own file.
Configured(t, lane, path) ==
    [Pointed(t, IF lane = "frontier" /\ path = None THEN "loom" ELSE path)
        EXCEPT !.agent = lane]

\* configure_onboard_provider_profile: the endpoint becomes the default, the
\* capability's and the manager's; the Codex profiles keep their path.
WithEndpoint(t) == [t EXCEPT !.endpoint = TRUE, !.agent = "endpoint"]

SyncedFresh(t) == [store EXCEPT
    !.path = CodexFile(t), !.known = Known(t), !.ready = [p \in Profiles |-> Ready(t, p)],
    !.errors = [p \in Profiles |-> 0], !.cooling = {}, !.good = {}]

\* sync_provider_auth_store: records anew, usage kept.
Synced(t) == [store EXCEPT
    !.path = CodexFile(t), !.known = Known(t),
    !.ready = [p \in Profiles |-> p \in Known(t) /\ Ready(t, p)],
    !.cooling = @ \cap Known(t), !.good = @ \cap Known(t),
    !.errors = [p \in Profiles |-> IF p \in Known(t) THEN @[p] ELSE 0]]

----------------------------------------------------------------------------
(* Commands.                                                               *)

Begin(c) ==
    /\ command = Idle /\ ops < MaxOps
    /\ command' = c
    /\ ops' = ops + 1
    /\ UNCHANGED <<files, keyed, table, manifest, store, aliases, audit, crashes,
                   chosen, failures, torn>>

At(doing, step) == command.doing = doing /\ command.step = step
Goes == command' = [command EXCEPT !.step = @ + 1]
Ends == command' = Idle

\* What a command between two of its writes leaves disagreeing.
Open(c) ==
    {x \in {"selection", "store", c.arg} :
        \/ x = "selection" /\ \/ c.doing = "login" /\ c.step \in 3 .. 4
                              \/ c.doing = "onboard" /\ c.step \in 2 .. 3
        \/ x = "store" /\ \/ c.doing = "login" /\ c.step = 5
                          \/ c.doing = "onboard" /\ c.step = 2
        \/ x = c.arg /\ c.doing \in {"rotate", "revoke"} /\ c.step = 2}

\* `loom provider login`: without a source the manifest's, which may be none.
Login == \E source \in {"loom", "cli", "path"} \cup {manifest.source}, id \in Identities :
    /\ source # "none"
    /\ Begin([doing |-> "login", step |-> 1, arg |-> source, id |-> id])

\* `codex login` in a home of its own, whose file is then copied, or in the
\* operator's own; it may fail.
CodexLogin ==
    /\ At("login", 1)
    /\ \/ Ends /\ UNCHANGED files
       \/ /\ command.arg = "cli"
          /\ command' = [command EXCEPT !.step = 3]
          /\ files' = [files EXCEPT !["shared"] = command.id]
       \/ command.arg # "cli" /\ Goes /\ UNCHANGED files
    /\ UNCHANGED <<keyed, table, manifest, store, aliases, audit, ops, crashes,
                   chosen, failures, torn>>

\* sync_auth_material
CopyAuth ==
    /\ At("login", 2)
    /\ Goes
    /\ files' = [files EXCEPT ![OfSource(command.arg)] = command.id]
    /\ UNCHANGED <<keyed, table, manifest, store, aliases, audit, ops, crashes,
                   chosen, failures, torn>>

\* persist_login_selection: the manifest, then the table.
LoginSelects ==
    /\ At("login", 3)
    /\ Goes
    /\ manifest' = [manifest EXCEPT !.source = command.arg,
                                    !.path = OfSource(command.arg)]
    /\ UNCHANGED <<files, keyed, table, store, aliases, audit, ops, crashes,
                   chosen, failures, torn>>

LoginRoutes ==
    /\ At("login", 4)
    /\ Goes
    /\ table' = Configured(table, manifest.lane, manifest.path)
    /\ chosen' = [place |-> OfSource(command.arg),
                  id |-> IF command.arg = "cli" THEN None ELSE command.id]
    /\ torn' = torn \ {"selection"}
    /\ UNCHANGED <<files, keyed, manifest, store, aliases, audit, ops, crashes, failures>>

\* The store follows; a Loom login whose account is not ready answers Err.
LoginEnds ==
    /\ At("login", 5)
    /\ Ends
    /\ store' = Synced(table)
    /\ torn' = torn \ {"store"}
    /\ UNCHANGED <<files, keyed, table, manifest, aliases, audit, ops, crashes,
                   chosen, failures>>

\* What an onboarding settles on, after prompts and normalisation.
Selection(choice) ==
    IF choice \in {"local", "endpoint"}
    THEN [lane |-> IF choice = "local" THEN "local" ELSE "frontier",
          source |-> "none", path |-> None]
    ELSE [lane |-> "frontier", source |-> choice, path |-> OfSource(choice)]

Onboard == \E choice \in Choices :
    Begin([doing |-> "onboard", step |-> 1, arg |-> choice, id |-> None])

OnboardRoutes ==
    /\ At("onboard", 1)
    /\ Goes
    /\ LET c == Selection(command.arg) IN
       table' = IF command.arg = "endpoint" THEN WithEndpoint(table)
                ELSE Configured(table, c.lane, c.path)
    /\ UNCHANGED <<files, keyed, manifest, store, aliases, audit, ops, crashes,
                   chosen, failures, torn>>

OnboardSyncs ==
    /\ At("onboard", 2)
    /\ Goes
    /\ store' = Synced(table)
    /\ torn' = torn \ {"store"}
    /\ UNCHANGED <<files, keyed, table, manifest, aliases, audit, ops, crashes,
                   chosen, failures>>

OnboardEnds ==
    /\ At("onboard", 3)
    /\ Ends
    /\ manifest' = Selection(command.arg)
    /\ chosen' = [place |-> manifest'.path, id |-> None]
    /\ torn' = torn \ {"selection"}
    /\ UNCHANGED <<files, keyed, table, store, aliases, audit, ops, crashes, failures>>

\* `loom auth status`: the store is synced and its profiles get aliases.
Status == Begin([Idle EXCEPT !.doing = "status", !.step = 1])

StatusSyncs ==
    /\ At("status", 1)
    /\ Goes
    /\ store' = Synced(table)
    /\ torn' = torn \ {"store"}
    /\ UNCHANGED <<files, keyed, table, manifest, aliases, audit, ops, crashes,
                   chosen, failures>>

MigratedOver ==
    [a \in Names |->
        IF a \in store.known THEN IF store.ready[a] THEN "active" ELSE "attention"
        ELSE aliases[a]]

\* migrate_aliases_from_profiles: an alias that exists is left as it is.
Migrated ==
    [a \in Names |->
        IF a \in store.known /\ aliases[a] = "none"
        THEN IF store.ready[a] THEN "active" ELSE "attention"
        ELSE aliases[a]]

StatusMigrates ==
    /\ At("status", 2)
    /\ Ends
    /\ aliases' = Migrated
    /\ UNCHANGED <<files, keyed, table, manifest, store, audit, ops, crashes,
                   chosen, failures, torn>>

\* `loom auth rotate` and `revoke`: the alias is written, then the audit line.  A
\* refusal is only noted, as denied; an alias to revoke may not be found.
Change == \E doing \in {"rotate", "revoke"}, a \in Names :
    Begin([doing |-> doing, step |-> 1, arg |-> a, id |-> None])

Refused ==
    /\ command.doing \in {"rotate", "revoke"} /\ command.step = 1
    /\ Ends
    /\ UNCHANGED <<files, keyed, table, manifest, store, aliases, audit, ops, crashes,
                   chosen, failures, torn>>

Rotate ==
    /\ At("rotate", 1)
    /\ Goes
    /\ aliases' = [aliases EXCEPT ![command.arg] = "active"]
    /\ UNCHANGED <<files, keyed, table, manifest, store, audit, ops, crashes,
                   chosen, failures, torn>>

Revoke ==
    /\ At("revoke", 1) /\ aliases[command.arg] # "none"
    /\ Goes
    /\ aliases' = [aliases EXCEPT ![command.arg] = "revoked"]
    /\ UNCHANGED <<files, keyed, table, manifest, store, audit, ops, crashes,
                   chosen, failures, torn>>

Audited ==
    /\ command.doing \in {"rotate", "revoke"} /\ command.step = 2
    /\ Ends
    /\ audit' = [audit EXCEPT ![command.arg] = command.doing]
    /\ torn' = torn \ {command.arg}
    /\ UNCHANGED <<files, keyed, table, manifest, store, aliases, ops, crashes,
                   chosen, failures>>

\* mark_provider_auth_profile_used, ..._failure: one load-and-write of the store.
Marks(p, s) ==
    /\ command = Idle /\ ops < MaxOps /\ p \in store.known
    /\ store' = s /\ ops' = ops + 1
    /\ UNCHANGED <<files, keyed, table, manifest, aliases, audit, command, crashes,
                   chosen, torn>>

MarkUsed == \E p \in Profiles :
    /\ Marks(p, [store EXCEPT !.good = @ \cup {p}, !.cooling = @ \ {p}])
    /\ UNCHANGED failures

\* A failure given no cooldown also lifts an earlier one's.
MarkFailure == \E p \in Profiles, cools \in BOOLEAN :
    /\ Marks(p, [store EXCEPT !.errors[p] = @ + 1,
                                 !.cooling = IF cools THEN @ \cup {p} ELSE @ \ {p}])
    /\ failures' = [failures EXCEPT ![p] = @ + 1]

\* The operator's own `codex login`, and the key's coming and going.
SharedLogin ==
    /\ ops < MaxOps
    /\ \E id \in Identities : files' = [files EXCEPT !["shared"] = id]
    /\ ops' = ops + 1
    /\ UNCHANGED <<keyed, table, manifest, store, aliases, audit, command, crashes,
                   chosen, failures, torn>>

Rekeyed ==
    /\ ops < MaxOps
    /\ keyed' = ~keyed /\ ops' = ops + 1
    /\ UNCHANGED <<files, table, manifest, store, aliases, audit, command, crashes,
                   chosen, failures, torn>>

Crash ==
    /\ command # Idle /\ crashes < MaxCrashes
    /\ crashes' = crashes + 1
    /\ torn' = torn \cup Open(command)
    /\ Ends
    /\ UNCHANGED <<files, keyed, table, manifest, store, aliases, audit, ops,
                   chosen, failures>>

Init ==
    /\ files \in {f \in [Places -> Accounts] : f["loom"] = None /\ f["path"] = None}
    /\ keyed \in BOOLEAN
    /\ table = [codex |-> None, endpoint |-> FALSE, agent |-> None]
    /\ manifest = [lane |-> "frontier", source |-> "loom", path |-> "loom"]
    /\ store = [path |-> "shared", known |-> {"local", "frontier"},
                ready |-> [p \in Profiles |-> p # "endpoint" /\ Ready(table, p)],
                errors |-> [p \in Profiles |-> 0], cooling |-> {}, good |-> {}]
    /\ aliases = [a \in Names |-> "none"] /\ audit = [a \in Names |-> "none"]
    /\ command = Idle /\ ops = 0 /\ crashes = 0
    /\ chosen = [place |-> None, id |-> None]
    /\ failures = [p \in Profiles |-> 0] /\ torn = {}

Next ==
    \/ Login \/ CodexLogin \/ CopyAuth \/ LoginSelects \/ LoginRoutes \/ LoginEnds
    \/ Onboard \/ OnboardRoutes \/ OnboardSyncs \/ OnboardEnds
    \/ Status \/ StatusSyncs \/ StatusMigrates
    \/ Change \/ Refused \/ Rotate \/ Revoke \/ Audited
    \/ MarkUsed \/ MarkFailure \/ SharedLogin \/ Rekeyed \/ Crash

Spec == Init /\ [][Next]_vars

----------------------------------------------------------------------------
(* Properties.                                                             *)

Settled(x) == x \notin torn \cup Open(command)

\* The account chosen is the account used: after a complete login or
\* onboarding for a Codex account, manifest and table name its file, a ready
\* profile holds what was logged in to there, and what the manager sends under
\* Loom's own account is never the shared one, whoever logs in there since.
AccountIsChosen ==
    Settled("selection") /\ chosen.place # None =>
        /\ manifest.path = chosen.place /\ CodexFile(table) = chosen.place
        /\ Ready(table, "frontier") /\ chosen.id # None => files[chosen.place] = chosen.id
        /\ chosen.place = "loom" => SentUnder = None \/ SentUnder # files["shared"]

\* The auth store lists the table's profiles and the file of its Codex ones, and
\* no sync of it loses a failure that was marked.
StoreFollowsTable ==
    /\ Settled("store") => store.path = CodexFile(table) /\ store.known = Known(table)
    /\ store.errors = failures

\* An alias is what the audit log last says was done to it: what was revoked does
\* not come back with a sync of the profiles, only with a rotation.
AuditAgrees ==
    \A a \in Names : Settled(a) /\ audit[a] # "none" =>
        aliases[a] = (IF audit[a] = "revoke" THEN "revoked" ELSE "active")
================================================================================
