-------------------------------- MODULE Sessions --------------------------------
(***************************************************************************)
(* Session provenance and pipeline records.  For each request the service  *)
(* accepts it records a pipeline run: the binding of the channel says the  *)
(* session, the session's override and send policy are read, a provider    *)
(* route is resolved, and what is known is written to the session's record *)
(* (opened, routed, linked: three loads and three writes of one registry), *)
(* to the run's file and to the index.  Meanwhile an operator sets         *)
(* overrides and policies, opens and routes sessions by hand and rebuilds  *)
(* the bindings.  Every error of the recorder is ignored.                  *)
(* A request stands for its peer and for its job as well: each request has *)
(* one of its own, and a session of its own unless the scope is global.    *)
(***************************************************************************)
EXTENDS Integers, Sequences, FiniteSets

CONSTANTS Requests, None,
          MaxRuns,          \* bound: recordings
          MaxOps,           \* bound: commands
          MaxCrashes        \* bound: deaths, which may tear the file at work

VARIABLES
    binding,        \* the channel's binding: enabled, and the scope of its sessions
    overrides,      \* overrides.json
    policies,       \* send-policies.json
    sessions,       \* session-provenance/registry.json
    runs,           \* the files of the pipeline runs, in their order
    index,          \* Requests -> the run it names, 0 for none
    hand,           \* Actors -> what the service and the operator's command are at
    torn,           \* the files a death in the middle of a write has left unreadable
    overlap,        \* ghost: two actors held the registry at once
    count, ops, crashes

sessionVars == <<binding, overrides, policies, sessions, runs, index, hand, torn, overlap,
                 count, ops, crashes>>

Keys == Requests \cup {"global"}
Actors == {"service", "operator"}

\* "own" is the profile of the agent, "other" any further one; an override names a
\* profile or only a model.
Profiles == {"own", "other"}
Overrides == Profiles \cup {"model"}
Modes == {"deliver", "silent"}
Files == {"overrides", "policies", "sessions", "index"}

\* A session's record: the last route (model, transport, owner go with the profile),
\* where it came from, and the request linked; "linked" and "routed" are ghosts, the
\* recordings that wrote them last, a command counting as later than all of them.
Record == [profile: Profiles \cup {""}, source: {"default", "manual"},
           request: Requests \cup {None}, linked: Nat, routed: Nat]
Fresh == [profile |-> "", source |-> "default", request |-> None, linked |-> 0, routed |-> 0]

\* A run's file; "rec" is a ghost.
Run == [request: Requests, key: Keys, bound: BOOLEAN, profile: Profiles \cup {""},
        applied: BOOLEAN, policy: Modes, rec: Nat]

\* The registry of sessions, as it is loaded and written: whole.
Table == [Keys -> Record \cup {None}]

SessionsAssumption ==
    /\ Requests \cap {"global", "service", "own", "other", None} = {}
    /\ None \notin Record \cup Table \cup Overrides \cup Modes
    /\ {MaxRuns, MaxOps, MaxCrashes} \subseteq Nat

Idle == [pc |-> "idle", request |-> None, key |-> None, bound |-> FALSE, held |-> None,
         override |-> None, profile |-> "", policy |-> "deliver", rec |-> 0, link |-> FALSE,
         inForce |-> {}, modes |-> {}]

TypeOK ==
    /\ binding \in [enabled: BOOLEAN, scope: {"global", "peer"}]
    /\ overrides \in [Keys -> Overrides \cup {None}]
    /\ policies \in [Keys -> Modes \cup {None}]
    /\ sessions \in Table
    /\ runs \in Seq(Run)
    /\ index \in [Requests -> 0..Len(runs)]
    /\ DOMAIN hand = Actors /\ torn \subseteq Files /\ overlap \in BOOLEAN
    /\ count \in 0..MaxRuns /\ ops \in 0..MaxOps /\ crashes \in 0..MaxCrashes

policy == <<binding, overrides, policies>>
kept == <<torn, crashes>>

At(a, pc) == hand[a].pc = pc
Work(a, changes) == hand' = [hand EXCEPT ![a] = changes]
Goes(a, pc) == hand' = [hand EXCEPT ![a].pc = pc]
Done(a) == hand' = [hand EXCEPT ![a] = Idle]

Mode(k) == IF policies[k] = None THEN "deliver" ELSE policies[k]

----------------------------------------------------------------------------
(* The service.                                                            *)

\* A request is accepted, its receipt written; a retried one is accepted again.
Receive == \E r \in Requests :
    /\ At("service", "idle") /\ count < MaxRuns
    /\ count' = count + 1
    /\ Work("service", [Idle EXCEPT !.pc = "bind", !.request = r, !.rec = count + 1])
    /\ UNCHANGED <<policy, sessions, runs, index, kept, overlap, ops>>

\* resolve_binding; without a binding in force the session's key is made up and no
\* record is opened for it.
Resolve ==
    /\ At("service", "bind")
    /\ LET r == hand["service"].request
           k == IF binding.enabled /\ binding.scope = "global" THEN "global" ELSE r
       IN  Work("service", [hand["service"] EXCEPT
               !.pc = IF binding.enabled THEN "open" ELSE "override",
               !.key = k, !.bound = binding.enabled,
               !.inForce = {overrides[k]}, !.modes = {Mode(k)}])
    /\ UNCHANGED <<policy, sessions, runs, index, kept, overlap, count, ops>>

\* The override under the peer's own key, whatever the session.
ReadPeerOverride ==
    /\ At("service", "override")
    /\ \E ok \in BOOLEAN :
        LET h == hand["service"]
            o == IF "overrides" \in torn THEN None ELSE overrides[h.request]
        IN  Work("service", [h EXCEPT !.pc = "route", !.override = o,
                !.profile = IF ~ok THEN "" ELSE IF o \in Profiles THEN o ELSE "own"])
    /\ UNCHANGED <<policy, sessions, runs, index, kept, overlap, count, ops>>

\* apply_session_overrides, which an unreadable file makes none, and the route: the
\* override's profile if it names one.  The profile may not be ready.
ReadOverride ==
    /\ At("service", "override")
    /\ \E ok \in BOOLEAN :
        LET h == hand["service"]
            o == IF "overrides" \in torn THEN None ELSE overrides[h.key]
        IN  Work("service", [h EXCEPT !.pc = "route", !.override = o,
                !.profile = IF ~ok THEN "" ELSE IF o \in Profiles THEN o ELSE "own"])
    /\ UNCHANGED <<policy, sessions, runs, index, kept, overlap, count, ops>>

\* get_session_send_policy, which an unreadable file makes "deliver".
ReadPolicy ==
    /\ At("service", "policy")
    /\ LET h == hand["service"]
       IN  Work("service", [h EXCEPT !.pc = "link",
                !.policy = IF "policies" \in torn THEN "deliver" ELSE Mode(h.key)])
    /\ UNCHANGED <<policy, sessions, runs, index, kept, overlap, count, ops>>

Source(o) == IF o = None THEN "default" ELSE "manual"

\* persist_pipeline_run
WriteRun ==
    /\ At("service", "run")
    /\ LET h == hand["service"]
       IN  runs' = Append(runs, [request |-> h.request, key |-> h.key, bound |-> h.bound,
                profile |-> h.profile, applied |-> h.override # None, policy |-> h.policy,
                rec |-> h.rec])
    /\ Goes("service", "index")
    /\ UNCHANGED <<policy, sessions, index, kept, overlap, count, ops>>

\* index_pipeline_run, which keeps the run that was indexed first.
IndexFirst ==
    /\ At("service", "index")
    /\ index' = [r \in Requests |->
            IF r = hand["service"].request /\ index[r] = 0 THEN Len(runs) ELSE index[r]]
    /\ Done("service") /\ torn' = torn \ {"index"}
    /\ UNCHANGED <<policy, sessions, runs, crashes, overlap, count, ops>>

\* index_pipeline_run; an index that cannot be read is begun anew.
IndexRun ==
    /\ At("service", "index")
    /\ index' = [r \in Requests |->
            IF r = hand["service"].request THEN Len(runs)
            ELSE IF "index" \in torn THEN 0 ELSE index[r]]
    /\ Done("service") /\ torn' = torn \ {"index"}
    /\ UNCHANGED <<policy, sessions, runs, crashes, overlap, count, ops>>

----------------------------------------------------------------------------
(* The registry of sessions, loaded and written whole by either actor.     *)

Registry == {"open", "route", "link"}

\* What comes after: for the service the next thing to read or write, for the
\* operator's `session route` the route and the link.
After(a, pc) ==
    IF a = "service"
    THEN CASE pc = "open" -> "override" [] pc = "route" -> "policy" [] pc = "link" -> "run"
    ELSE CASE pc = "open" -> IF hand[a].profile = "" THEN "idle" ELSE "route"
           [] pc = "route" -> IF hand[a].link THEN "link" ELSE "idle"
           [] pc = "link" -> "idle"

\* A registry that cannot be read ends a command, and is passed over by the service.
LoadFails(a) ==
    /\ hand[a].pc \in Registry /\ hand[a].held = None /\ "sessions" \in torn
    /\ IF a = "service" THEN Goes(a, After(a, hand[a].pc)) ELSE Done(a)
    /\ UNCHANGED <<policy, sessions, runs, index, kept, overlap, count, ops>>

Load(a) ==
    /\ hand[a].pc \in Registry /\ hand[a].held = None /\ "sessions" \notin torn
    /\ hand' = [hand EXCEPT ![a].held = sessions]
    /\ overlap' = (overlap \/ \E b \in Actors \ {a} : hand[b].held # None)
    /\ UNCHANGED <<policy, sessions, runs, index, kept, count, ops>>

\* Every step of a command ends like this: the pc moves on, the copy is dropped.
Moves(a) ==
    LET next == After(a, hand[a].pc)
    IN  hand' = [hand EXCEPT ![a] = IF next = "idle" THEN Idle
                                    ELSE [@ EXCEPT !.pc = next, !.held = None]]

\* open_session_provenance
OpenSession(a) ==
    /\ At(a, "open") /\ hand[a].held # None
    /\ LET k == hand[a].key
       IN  sessions' = IF hand[a].held[k] = None THEN [hand[a].held EXCEPT ![k] = Fresh]
                       ELSE hand[a].held
    /\ Moves(a)
    /\ UNCHANGED <<policy, runs, index, kept, overlap, count, ops>>

\* A route that failed leaves the word on where it came from as well.
RouteKeeps(a) ==
    /\ At(a, "route") /\ hand[a].held # None
    /\ LET k == hand[a].key
           h == hand[a]
       IN  sessions' = IF h.held[k] = None THEN sessions
                       ELSE [h.held EXCEPT ![k].profile = IF h.profile = "" THEN @ ELSE h.profile,
                                           ![k].source = IF h.profile = "" THEN @
                                                         ELSE Source(h.override),
                                           ![k].routed = h.rec]
    /\ Moves(a)
    /\ UNCHANGED <<policy, runs, index, kept, overlap, count, ops>>

\* update_session_provenance_route_full: a route that failed leaves the earlier one,
\* but not the word on where it came from; a session that is not there is left so,
\* and nothing is written.
RouteSession(a) ==
    /\ At(a, "route") /\ hand[a].held # None
    /\ LET k == hand[a].key
           h == hand[a]
       IN  sessions' = IF h.held[k] = None THEN sessions
                       ELSE [h.held EXCEPT ![k].profile = IF h.profile = "" THEN @ ELSE h.profile,
                                           ![k].source = Source(h.override),
                                           ![k].routed = h.rec]
    /\ Moves(a)
    /\ UNCHANGED <<policy, runs, index, kept, overlap, count, ops>>

\* update_session_provenance_job: the request and its job in one write.
LinkSession(a) ==
    /\ At(a, "link") /\ hand[a].held # None
    /\ LET k == hand[a].key
           h == hand[a]
       IN  sessions' = IF h.held[k] = None THEN sessions
                       ELSE [h.held EXCEPT ![k].request = h.request,
                                           ![k].linked = h.rec]
    /\ Moves(a)
    /\ UNCHANGED <<policy, runs, index, kept, overlap, count, ops>>

----------------------------------------------------------------------------
(* The operator's commands.                                                *)

Command == ops < MaxOps /\ At("operator", "idle") /\ ops' = ops + 1

\* What the recording of a run sees come into force.
InForce(k, o) ==
    hand' = [hand EXCEPT !["service"].inForce = IF hand["service"].key = k THEN @ \cup {o} ELSE @]

\* `loom session override` and `clear-override`, which an unreadable file refuses.
SetOverride == \E k \in Keys, o \in Overrides \cup {None} :
    /\ Command /\ "overrides" \notin torn /\ o # overrides[k]
    /\ overrides' = [overrides EXCEPT ![k] = o]
    /\ InForce(k, o)
    /\ UNCHANGED <<binding, policies, sessions, runs, index, kept, overlap, count>>

\* `loom session send-policy`
SetPolicy == \E k \in Keys, m \in Modes :
    /\ Command /\ "policies" \notin torn /\ m # policies[k]
    /\ policies' = [policies EXCEPT ![k] = m]
    /\ hand' = [hand EXCEPT !["service"].modes =
                    IF hand["service"].key = k THEN @ \cup {m} ELSE @]
    /\ UNCHANGED <<binding, overrides, sessions, runs, index, kept, overlap, count>>

\* `loom binding sync`, after a channel was toggled or the onboarding changed.
SyncBindings == \E b \in [enabled: BOOLEAN, scope: {"global", "peer"}] :
    /\ Command /\ b # binding
    /\ binding' = b
    /\ UNCHANGED <<overrides, policies, sessions, runs, index, hand, kept, overlap, count>>

\* `loom binding resolve`, and a channel's ingress: a session is opened.
OpenByHand == \E r \in Requests :
    /\ Command /\ binding.enabled
    /\ Work("operator", [Idle EXCEPT !.pc = "open",
                            !.key = IF binding.scope = "global" THEN "global" ELSE r])
    /\ UNCHANGED <<policy, sessions, runs, index, kept, overlap, count>>

\* `loom session route`, which opens a session it does not find, if it is told
\* enough, routes it to a further profile and links it.
RouteByHand == \E k \in Keys, p \in Profiles \ {"own"}, told \in BOOLEAN,
                  r \in Requests \cup {None} :
    /\ Command /\ "sessions" \notin torn
    /\ Work("operator", [Idle EXCEPT !.rec = MaxRuns + 1, !.key = k, !.profile = p,
            !.request = r, !.link = r # None,
            !.pc = IF told /\ sessions[k] = None THEN "open" ELSE "route"])
    /\ UNCHANGED <<policy, sessions, runs, index, kept, overlap, count>>

----------------------------------------------------------------------------
\* The file an actor is writing, for those that write one.
Writing(a) ==
    IF hand[a].held # None
    THEN IF hand[a].pc = "open" \/ hand[a].held[hand[a].key] # None THEN {"sessions"} ELSE {}
    ELSE IF At(a, "index") THEN {"index"} ELSE {}

\* The service dies, or a command; a write that was begun leaves its file torn.
Crash(a) == \E f \in SUBSET Writing(a) :
    /\ ~At(a, "idle") /\ crashes < MaxCrashes
    /\ crashes' = crashes + 1 /\ torn' = torn \cup f
    /\ Done(a)
    /\ UNCHANGED <<policy, sessions, runs, index, overlap, count, ops>>

\* A command that dies while it writes the overrides or the policies.
CrashPolicy == \E f \in {"overrides", "policies"} :
    /\ Command /\ crashes < MaxCrashes
    /\ crashes' = crashes + 1 /\ torn' = torn \cup {f}
    /\ UNCHANGED <<policy, sessions, runs, index, hand, overlap, count>>

Init ==
    /\ binding \in [enabled: BOOLEAN, scope: {"global", "peer"}]
    /\ overrides = [k \in Keys |-> None] /\ policies = overrides
    /\ sessions = overrides
    /\ runs = <<>> /\ index = [r \in Requests |-> 0]
    /\ hand = [a \in Actors |-> Idle]
    /\ torn = {} /\ overlap = FALSE /\ count = 0 /\ ops = 0 /\ crashes = 0

Next ==
    \/ Receive \/ Resolve \/ ReadOverride \/ ReadPolicy \/ WriteRun \/ IndexRun
    \/ \E a \in Actors : Load(a) \/ LoadFails(a) \/ OpenSession(a) \/ RouteSession(a)
                         \/ LinkSession(a) \/ Crash(a)
    \/ SetOverride \/ SetPolicy \/ SyncBindings \/ OpenByHand \/ RouteByHand \/ CrashPolicy

Spec == Init /\ [][Next]_sessionVars

----------------------------------------------------------------------------
(* Properties.                                                             *)

\* A run tells of the override and of the send policy of its own session, as they
\* were at some moment of its recording, and a profile that was overridden is the one
\* it went out on; only an unreadable file makes it tell of none.  (The file is not
\* written again: it is enough to look at it when it has been written.)
RunsTell == At("service", "index") =>
    LET run == runs[Len(runs)]
        h == hand["service"]
    IN  /\ run.applied => h.inForce \ {None} # {}
        /\ ~run.applied => None \in h.inForce \/ "overrides" \in torn
        /\ run.profile = "other" => "other" \in h.inForce
        /\ run.policy \in h.modes \/ "policies" \in torn

\* The index names the last run of a request, or none; a later one's recorder is
\* still to index it or died before it did.
IndexNamesLast == \A r \in Requests : index[r] # 0 =>
    /\ runs[index[r]].request = r
    /\ Cardinality({i \in index[r] + 1 .. Len(runs) : runs[i].request = r})
            <= crashes + IF At("service", "index") THEN 1 ELSE 0

\* While nobody else held the registry and it can be read, a run with a binding never
\* leads its session: the session is open, and unless a later recording or the operator
\* has been at it, it is linked to the run's request and routed as the run was.
SessionLeads == ~overlap /\ "sessions" \notin torn => \A i \in DOMAIN runs :
    LET run == runs[i]
        s == sessions[run.key]
    IN  run.bound =>
            /\ s # None
            /\ s.linked >= run.rec
            /\ s.linked = run.rec => s.request = run.request
            /\ s.routed = run.rec =>
                /\ run.profile # "" => s.profile = run.profile
                /\ s.source = IF run.applied THEN "manual" ELSE "default"
================================================================================
