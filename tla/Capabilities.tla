----------------------------- MODULE Capabilities -----------------------------
(***************************************************************************)
(* Capabilities from a missing one to a promoted one.  A request for an    *)
(* unknown capability is recorded as a gap; a candidate is forged,         *)
(* scaffolded or imported as a worker file and a manifest beside it;       *)
(* verify runs the worker and writes the outcome into the manifest and the *)
(* gap; promote wants a verified manifest.  Every file is named after the  *)
(* sanitized capability name, so that two names may share their files.     *)
(***************************************************************************)
EXTENDS Integers, Sequences, FiniteSets

CONSTANTS Operators,   \* processes that run commands
          Serial,      \* whether commands run one after another
          Names,       \* capability names
          FileOf,      \* [Names -> Files]: sanitize_name
          BuiltIn,     \* names of the default registry
          Gaps,        \* gap ids
          None,
          MaxOps, MaxCrashes    \* bounds

Files == {FileOf[n] : n \in Names}
Sources == {"scaffold", "forge", "import"}      \* each has a worker path of its own
Outcomes == {"unverified", "verified", "failed"}
Promotions == {"candidate", "promoted"}
Described == [name : Names, source : Sources, verification : Outcomes, promotion : Promotions]
Recorded == [name : Names, forged : BOOLEAN, verification : Outcomes, promotion : Promotions]

CapabilitiesAssumption == None \notin Gaps \cup Described \cup Recorded

VARIABLES
    worker,      \* [Sources \X Files -> "none" | "fresh" | "proved"]: ghost in part,
                 \* whether what the file holds has run as it should in a verification
    manifest,    \* [Files -> None or a descriptor]: the custom manifests
    gap,         \* [Gaps -> None or a record]
    command,     \* [Operators -> the command at work]
    hit,         \* ghost: names a verification has found good, names promoted
    torn,        \* ghost: files whose worker was replaced by a command that then died
    ops, crashes

vars == <<worker, manifest, gap, command, hit, torn, ops, crashes>>

Idle == [op |-> "none", name |-> None, source |-> None, gap |-> None, good |-> FALSE, todo |-> <<>>]

Init ==
    /\ worker = [w \in Sources \X Files |-> "none"]
    /\ manifest = [f \in Files |-> None]
    /\ gap = [g \in Gaps |-> None]
    /\ command = [o \in Operators |-> Idle]
    /\ hit = [verified |-> {}, promoted |-> {}] /\ torn = {}
    /\ ops = 0 /\ crashes = 0

Candidate(name, source) == [name |-> name, source |-> source,
                            verification |-> "unverified", promotion |-> "candidate"]

\* load_capability_registry: the built-in ones, a custom manifest replacing its namesake.
CustomOf(name) == IF manifest[FileOf[name]] = None THEN None
                  ELSE IF manifest[FileOf[name]].name = name THEN manifest[FileOf[name]] ELSE None
Resolves(name) == CustomOf(name) # None \/ name \in BuiltIn

-----------------------------------------------------------------------------
(* The commands: what each checks first, and the writes that are left.     *)

Start(o, cmd) ==
    /\ command[o] = Idle /\ ops < MaxOps
    /\ Serial => \A p \in Operators : command[p] = Idle
    /\ command' = [command EXCEPT ![o] = cmd]
    /\ ops' = ops + 1
    /\ UNCHANGED <<worker, manifest, gap, hit, torn, crashes>>

\* action execute and service submit with a gap class, of a capability that is missing.
Request(o, name, g) ==
    /\ ~Resolves(name) /\ gap[g] = None
    /\ Start(o, [Idle EXCEPT !.op = "request", !.name = name, !.gap = g, !.todo = <<"record">>])

OfGap(g, name) == g # None => gap[g] # None /\ gap[g].name = name
WithGap(g, todo) == IF g = None THEN todo ELSE Append(todo, "gap")

ForgeTodoManifestFirst(g) == <<"manifest", "worker">> \o WithGap(g, <<>>)

\* forge_capability, then update_capability_gap_forge.
ForgeTodo(g) == WithGap(g, <<"worker", "manifest">>)

Forge(o, name, g) ==
    /\ OfGap(g, name)
    /\ Start(o, [Idle EXCEPT !.op = "forge", !.name = name, !.source = "forge", !.gap = g,
                             !.todo = ForgeTodo(g)])

\* scaffold_capability leaves a worker that is there.
Scaffold(o, name) ==
    Start(o, [Idle EXCEPT !.op = "scaffold", !.name = name, !.source = "scaffold",
                          !.todo = <<"worker", "manifest">>])

\* import_workspace_skill, once its skill was found to be of a known shape.
Import(o, name) ==
    Start(o, [Idle EXCEPT !.op = "import", !.name = name, !.source = "import",
                          !.todo = <<"worker", "manifest">>])

\* import_legacy_v1_plugin_skill_subset: a worker and a manifest for each skill in turn.
ImportPlugin(o, first, second) ==
    /\ first # second
    /\ Start(o, [Idle EXCEPT !.op = "plugin", !.name = first, !.source = "import", !.gap = second,
                             !.todo = <<"worker", "manifest", "next", "worker", "manifest">>])

\* verify of a capability that the registry has; its worker runs first.
Verify(o, name, g) ==
    /\ OfGap(g, name) /\ Resolves(name)
    /\ Start(o, [Idle EXCEPT !.op = "verify", !.name = name, !.gap = g,
                             !.todo = WithGap(g, <<"run", "verification">>)])

\* promote_capability: of a custom manifest that is verified.
Promote(o, name, g) ==
    /\ OfGap(g, name) /\ manifest[FileOf[name]] # None
    /\ manifest[FileOf[name]].verification = "verified"
    /\ Start(o, [Idle EXCEPT !.op = "promote", !.name = name, !.gap = g,
                             !.todo = WithGap(g, <<"promotion">>)])

-----------------------------------------------------------------------------
(* The writes.                                                             *)

File(o) == FileOf[command[o].name]

Step(o, w) ==
    /\ command[o].todo # <<>> /\ Head(command[o].todo) = w
    /\ UNCHANGED <<ops, crashes>>
Goes(o, cmd) ==
    command' = [command EXCEPT ![o] = IF Len(cmd.todo) = 1 THEN Idle ELSE [cmd EXCEPT !.todo = Tail(@)]]

Record(o) ==
    /\ Step(o, "record") /\ Goes(o, command[o])
    /\ gap' = [gap EXCEPT ![command[o].gap] =
                 [name |-> command[o].name, forged |-> FALSE,
                  verification |-> "unverified", promotion |-> "candidate"]]
    /\ UNCHANGED <<worker, manifest, hit, torn>>

WriteWorker(o) ==
    LET w == <<command[o].source, File(o)>> IN
    /\ Step(o, "worker") /\ Goes(o, command[o])
    /\ worker' = [worker EXCEPT ![w] = IF command[o].op = "scaffold" /\ @ # "none" THEN @ ELSE "fresh"]
    /\ torn' = torn \cup {File(o)}
    /\ UNCHANGED <<manifest, gap, hit>>

ManifestKeeps(o) ==
    IF manifest[File(o)] = None THEN Candidate(command[o].name, command[o].source)
    ELSE [manifest[File(o)] EXCEPT !.name = command[o].name, !.source = command[o].source]

\* Whatever the manifest said before, the capability is an unverified candidate again.
Descriptor(o) == Candidate(command[o].name, command[o].source)

WriteManifest(o) ==
    /\ Step(o, "manifest") /\ Goes(o, command[o])
    /\ manifest' = [manifest EXCEPT ![File(o)] = Descriptor(o)]
    /\ torn' = torn \ {File(o)}
    /\ UNCHANGED <<worker, gap, hit>>

NextSkill(o) ==
    /\ Step(o, "next") /\ Goes(o, [command[o] EXCEPT !.name = command[o].gap, !.gap = None])
    /\ UNCHANGED <<worker, manifest, gap, hit, torn>>

\* The worker runs under the runtime, which may refuse it, and its result is compared
\* with what was expected.  A built-in capability has no worker file of these.
RunWorker(o, good) ==
    LET custom == CustomOf(command[o].name) IN
    /\ Step(o, "run") /\ Goes(o, [command[o] EXCEPT !.good = good])
    /\ worker' = IF good /\ custom # None
                   THEN [worker EXCEPT ![<<custom.source, File(o)>>] = "proved"] ELSE worker
    /\ UNCHANGED <<manifest, gap, hit, torn>>

\* update_capability_verification reads the manifest again; a built-in one has none
\* and the command fails.
WriteVerification(o) ==
    LET status == IF command[o].good THEN "verified" ELSE "failed"
        f      == File(o)
    IN  /\ Step(o, "verification")
        /\ IF manifest[f] = None
             THEN /\ command' = [command EXCEPT ![o] = Idle]
                  /\ UNCHANGED <<manifest, hit>>
             ELSE /\ Goes(o, command[o])
                  /\ manifest' = [manifest EXCEPT ![f].verification = status]
                  /\ hit' = [hit EXCEPT !.verified = IF command[o].good THEN @ \cup {command[o].name} ELSE @]
        /\ UNCHANGED <<worker, gap, torn>>

\* promote_capability reads and writes the manifest again.
WritePromotion(o) ==
    /\ Step(o, "promotion") /\ Goes(o, command[o])
    /\ manifest' = [manifest EXCEPT ![File(o)].promotion = "promoted"]
    /\ hit' = [hit EXCEPT !.promoted = @ \cup {command[o].name}]
    /\ UNCHANGED <<worker, gap, torn>>

GapVerified(rec, good) == [rec EXCEPT !.verification = "verified"]

\* update_capability_gap_verification
GapOutcome(rec, good) == [rec EXCEPT !.verification = IF good THEN "verified" ELSE "failed"]

WriteGap(o) ==
    LET c == command[o] IN
    /\ Step(o, "gap") /\ Goes(o, c)
    /\ gap' = [gap EXCEPT ![c.gap] =
                 CASE c.op = "forge"  -> [@ EXCEPT !.forged = TRUE]
                   [] c.op = "verify" -> GapOutcome(@, c.good)
                   [] OTHER           -> [@ EXCEPT !.promotion = "promoted"]]
    /\ UNCHANGED <<worker, manifest, hit, torn>>

Crash(o) ==
    /\ command[o] # Idle /\ crashes < MaxCrashes
    /\ crashes' = crashes + 1
    /\ command' = [command EXCEPT ![o] = Idle]
    /\ UNCHANGED <<worker, manifest, gap, hit, torn, ops>>

Next ==
    \E o \in Operators :
      \/ \E name \in Names : Scaffold(o, name) \/ Import(o, name)
      \/ \E name \in Names, g \in Gaps : Request(o, name, g)
      \/ \E name \in Names, g \in Gaps \cup {None} :
            Forge(o, name, g) \/ Verify(o, name, g) \/ Promote(o, name, g)
      \/ \E first, second \in Names : ImportPlugin(o, first, second)
      \/ Record(o) \/ WriteWorker(o) \/ WriteManifest(o) \/ NextSkill(o)
      \/ \E good \in BOOLEAN : RunWorker(o, good)
      \/ WriteVerification(o) \/ WritePromotion(o) \/ WriteGap(o)
      \/ Crash(o)

Spec == Init /\ [][Next]_vars

-----------------------------------------------------------------------------
(* Properties.                                                             *)

TypeOK ==
    /\ worker \in [Sources \X Files -> {"none", "fresh", "proved"}]
    /\ manifest \in [Files -> Described \cup {None}]
    /\ \A f \in Files : manifest[f] # None => worker[<<manifest[f].source, f>>] # "none"
    /\ gap \in [Gaps -> Recorded \cup {None}]
    /\ torn \subseteq Files

\* What a manifest calls verified, and what it calls promoted, has run as it should in
\* a verification since its worker was written, except where a command died between
\* the worker and the manifest or is between them (forge_capability,
\* update_capability_verification, promote_capability).
PromotedIsProved ==
    \A f \in Files \ torn :
        manifest[f] # None
          /\ (manifest[f].verification = "verified" \/ manifest[f].promotion = "promoted")
            => worker[<<manifest[f].source, f>>] = "proved"

\* A gap lags behind its capability and never leads it, also where a command died: a
\* gap is forged only with a manifest in place, verified only after a good
\* verification, promoted only after a promotion (update_capability_gap_*).
GapNeverLeads ==
    \A g \in Gaps : gap[g] # None =>
        /\ gap[g].forged => manifest[FileOf[gap[g].name]] # None
        /\ gap[g].verification = "verified" => gap[g].name \in hit.verified
        /\ gap[g].promotion = "promoted" => gap[g].name \in hit.promoted

\* A candidate that was forged for a gap is the one the replay of its request finds.
ReplayFindsCandidate == \A g \in Gaps : gap[g] # None /\ gap[g].forged => Resolves(gap[g].name)
=============================================================================
