------------------------------- MODULE WasmHost -------------------------------
(***************************************************************************)
(* Guests run by the Wasm host as the worker of a job, one host process    *)
(* each: a module of the operator's, which calls the host any number of    *)
(* times and may trap between two calls, or a built-in one, which makes    *)
(* one call.  A call reads its request, is denied or has its effect, and   *)
(* only then writes the response into the guest's memory, where it may not *)
(* fit.  The instrumented calls leave a receipt.  The key-value store is   *)
(* one file that every guest shares; a terminal call hands its child the   *)
(* input and waits for it, with the output in a pipe that is read when the *)
(* child has ended.                                                        *)
(***************************************************************************)
EXTENDS PoGETrace

CONSTANTS Guests,
          Serial,         \* whether guests run one after another
          Keys, Values,   \* of the key-value store
          Children,       \* what a child wants to write before it exits
          PipeSize,       \* what a pipe holds until someone reads it
          Timeout,        \* the bounded timeout of a terminal call, in polls
          MaxResponse,    \* the bounded response size of a terminal call
          None,
          MaxCalls, MaxCrashes    \* bounds

ASSUME HostAssumption ==
    /\ Timeout \in Nat /\ MaxResponse \in Nat /\ PipeSize \in Nat /\ Children \subseteq Nat
    /\ None \notin Values

VARIABLES
    guest,       \* [Guests -> the run of a guest]
    kv,          \* [Keys -> Values \cup {None}]: the file of the key-value store
    workspace,   \* pieces written to the file of the workspace, by guest
    beats,       \* the guests that have a line in heartbeat_schedule.jsonl
    told,        \* ghost: [Keys -> the value last answered stored, None since a new attempt
                 \* to set the key and since a write of the file that did not end]
    torn,        \* the file holds a part of what was written, which no call can read
    calls, crashes

vars == <<guest, kv, workspace, beats, told, torn, calls, crashes>>

NoChild == [wants |-> 0, takes |-> TRUE, out |-> 0, state |-> "exited"]

\* What no settlement is, for nothing is settled of an empty trace.
Unsettled == [root |-> <<>>, len |-> 0]

Fresh == [phase |-> "ready", program |-> None, result |-> "none", calls |-> 0,
          instrumented |-> 0, trace |-> <<>>, settled |-> Unsettled,
          store |-> [k \in Keys |-> None], key |-> None, value |-> None,
          child |-> NoChild, polls |-> 0, answer |-> None]
Phases == {"ready", "running", "loaded", "emptied", "feed", "wait", "polled", "collect",
           "returned", "failed", "receipted", "over", "dead"}

Init ==
    /\ guest = [g \in Guests |-> Fresh]
    /\ kv = [k \in Keys |-> None] /\ workspace = <<>> /\ beats = {}
    /\ told = [k \in Keys |-> None] /\ torn = FALSE
    /\ calls = 0 /\ crashes = 0

Over(g) == guest[g].phase \in {"ready", "over", "dead"}

-----------------------------------------------------------------------------
(* The built-in guests: the one call each makes, and what its job's payload *)
(* must name.                                                              *)

Minimal       == [call |-> "none",               needs |-> None]
NavigateGuest == [call |-> "browser.navigate",   needs |-> "url"]
TerminalGuest == [call |-> "terminal.exec",      needs |-> "argv"]
BeatGuest     == [call |-> "heartbeat.schedule", needs |-> None]
InfoGuest     == [call |-> "system.info",        needs |-> None]
ReadGuest     == [call |-> "fs.read",            needs |-> "path"]
WriteGuest    == [call |-> "fs.write",           needs |-> "path"]
InferGuest    == [call |-> "llm.inference",      needs |-> "user_prompt"]
KvGetGuest    == [call |-> "kv.get",             needs |-> "key"]
KvSetGuest    == [call |-> "kv.set",             needs |-> "key"]

Builtins == {Minimal, NavigateGuest, TerminalGuest, BeatGuest, InfoGuest, ReadGuest,
             WriteGuest, InferGuest, KvGetGuest, KvSetGuest}

\* The kinds of the receipts the instrumented calls leave.
Kind(call) == IF call = "fs.write" THEN "fs_write" ELSE "observe"
Instrumented == {"browser.navigate", "system.info", "fs.read", "fs.write", "llm.inference"}

-----------------------------------------------------------------------------
(* A run.                                                                  *)

\* run_wasm_guest up to the entrypoint.
Begin(g, program) ==
    /\ guest[g].phase = "ready"
    /\ Serial => \A h \in Guests : Over(h)
    /\ guest' = [guest EXCEPT ![g].phase = "running", ![g].program = program]
    /\ UNCHANGED <<kv, workspace, beats, told, torn, calls, crashes>>

\* A module of the operator's, or a built-in one whose payload names what it needs,
\* without which the job's worker ends before any guest is made.
BeginOwn(g) == Begin(g, None)
BeginBuiltin(g, b) == Begin(g, b)
Unbuilt(g, b) ==
    /\ b.needs # None
    /\ guest[g].phase = "ready"
    /\ Serial => \A h \in Guests : Over(h)
    /\ guest' = [guest EXCEPT ![g].phase = "over"]
    /\ UNCHANGED <<kv, workspace, beats, told, torn, calls, crashes>>

\* The entrypoint returns: the trace is settled, unless it is empty.
Return(g) ==
    /\ guest[g].phase = "running"
    /\ guest[g].program # None /\ guest[g].program.call # "none" => guest[g].calls = 1
    /\ guest' = [guest EXCEPT ![g].phase = "returned",
                              ![g].settled = IF guest[g].trace # <<>>
                                             THEN Settle(guest[g].trace) ELSE Unsettled]
    /\ UNCHANGED <<kv, workspace, beats, told, torn, calls, crashes>>

\* A trap, the fuel's end, a probe or a response that cannot be read: nothing is
\* settled and the receipts are gone with the host.
Fail(g) ==
    /\ guest[g].phase = "running"
    /\ guest' = [guest EXCEPT ![g] = [Fresh EXCEPT !.phase = "failed"]]
    /\ UNCHANGED <<kv, workspace, beats, told, torn, calls, crashes>>

WriteResultFirst(g) ==
    /\ guest[g].phase \in {"returned", "receipted", "failed"}
    /\ guest' = [guest EXCEPT
         ![g].phase = IF guest[g].program = BeatGuest THEN "returned" ELSE "over",
         ![g].result = IF guest[g].phase = "failed" THEN "failed" ELSE "completed"]
    /\ UNCHANGED <<kv, workspace, beats, told, torn, calls, crashes>>

\* A guest that returned is told of as completed, one that failed as failed; a heartbeat
\* has its line first.  The log that follows says no more.
WriteResult(g) ==
    /\ \/ guest[g].phase = "returned" /\ guest[g].program # BeatGuest
       \/ guest[g].phase \in {"receipted", "failed"}
    /\ guest' = [guest EXCEPT
         ![g].phase = "over",
         ![g].result = IF guest[g].phase = "failed" THEN "failed" ELSE "completed"]
    /\ UNCHANGED <<kv, workspace, beats, told, torn, calls, crashes>>

\* append_builtin_heartbeat_receipt: also for a schedule the host denied.
AppendBeat(g) ==
    /\ guest[g].phase = "returned" /\ guest[g].program = BeatGuest
    /\ beats' = beats \cup {g}
    /\ guest' = [guest EXCEPT ![g].phase = "receipted"]
    /\ UNCHANGED <<kv, workspace, told, torn, calls, crashes>>

\* A write of the store that does not end leaves its file empty, or a part of it.
Tear ==
    /\ torn' \in BOOLEAN
    /\ told' = [k \in Keys |-> None]

Crash(g) ==
    /\ ~Over(g) /\ crashes < MaxCrashes
    /\ crashes' = crashes + 1
    /\ guest' = [guest EXCEPT ![g] = [Fresh EXCEPT !.phase = "dead"]]
    /\ IF guest[g].phase = "emptied" THEN Tear ELSE UNCHANGED <<told, torn>>
    /\ UNCHANGED <<kv, workspace, beats, calls>>

-----------------------------------------------------------------------------
(* The host calls.                                                         *)

Calls(g) == guest[g].phase = "running" /\ calls < MaxCalls

\* A built-in guest makes its one call.
May(g, call) ==
    guest[g].program # None => guest[g].calls = 0 /\ guest[g].program.call = call
Called(run) == [run EXCEPT !.calls = @ + 1, !.polls = 0, !.child = NoChild, !.answer = None]

\* The shims of web, model, system and file-read calls: an error is a request that
\* cannot be read or a response that does not fit; a denial is a response.
RecordedLate(run, kind, error) ==
    [Called(run) EXCEPT !.instrumented = @ + 1,
                        !.trace = IF error THEN @ ELSE RecordEvent(@, kind, FALSE)]
Recorded(run, kind, error) ==
    [Called(run) EXCEPT !.instrumented = @ + 1, !.trace = RecordEvent(@, kind, error)]

Observe(g, error) ==
    /\ Calls(g)
    /\ calls' = calls + 1
    /\ guest' = [guest EXCEPT ![g] = Recorded(@, "observe", error)]
    /\ UNCHANGED <<kv, workspace, beats, told, torn, crashes>>

\* The calls that only look: what they answer is not distinguished.
Navigate(g, error)   == May(g, "browser.navigate") /\ Observe(g, error)
SystemInfo(g, error) == May(g, "system.info") /\ Observe(g, error)
FsRead(g, error)     == May(g, "fs.read") /\ Observe(g, error)
Infer(g, error)      == May(g, "llm.inference") /\ Observe(g, error)

\* fs.write: a refused path leaves the file alone; a response that does not fit comes
\* after the write.
FsWrite(g, mode, error) ==
    /\ Calls(g) /\ May(g, "fs.write")
    /\ calls' = calls + 1
    /\ guest' = [guest EXCEPT ![g] = Recorded(@, "fs_write", error)]
    /\ workspace' = CASE mode = "refused" -> workspace
                      [] mode = "append"  -> Append(workspace, g)
                      [] OTHER            -> <<g>>
    /\ UNCHANGED <<kv, beats, told, torn, crashes>>

\* A call without a receipt that has no effect, as kv.set and terminal.exec are when
\* they are denied or not readable.
Ask(g) ==
    /\ Calls(g)
    /\ calls' = calls + 1
    /\ guest' = [guest EXCEPT ![g] = Called(@)]
    /\ UNCHANGED <<kv, workspace, beats, told, torn, crashes>>

\* heartbeat.schedule is always denied.
ScheduleHeartbeat(g) == May(g, "heartbeat.schedule") /\ Ask(g)
KvGet(g) == May(g, "kv.get") /\ Ask(g)
Denied(g) == (May(g, "kv.set") \/ May(g, "terminal.exec")) /\ Ask(g)

\* kv.set: the whole store is read, which fails if it is torn (Denied), ...
KvLoad(g, k, v) ==
    /\ Calls(g) /\ May(g, "kv.set") /\ ~torn
    /\ calls' = calls + 1
    /\ guest' = [guest EXCEPT ![g] = [Called(@) EXCEPT !.phase = "loaded", !.store = kv,
                                                       !.key = k, !.value = v]]
    /\ told' = [told EXCEPT ![k] = None]
    /\ UNCHANGED <<kv, workspace, beats, torn, crashes>>

\* ... its file is emptied, ...
KvEmpty(g) ==
    /\ guest[g].phase = "loaded"
    /\ guest' = [guest EXCEPT ![g].phase = "emptied"]
    /\ kv' = [k \in Keys |-> None] /\ torn' = FALSE
    /\ UNCHANGED <<workspace, beats, told, calls, crashes>>

KvSaveOwn(g, fits) ==
    /\ guest[g].phase = "emptied"
    /\ guest' = [guest EXCEPT ![g] = [@ EXCEPT !.phase = "running", !.store = Fresh.store,
                                               !.key = None, !.value = None]]
    /\ kv' = [[k \in Keys |-> None] EXCEPT ![guest[g].key] = guest[g].value]
    /\ told' = [told EXCEPT ![guest[g].key] = IF fits THEN guest[g].value ELSE None]
    /\ torn' = FALSE
    /\ UNCHANGED <<workspace, beats, calls, crashes>>

\* ... and written with the new value; then the guest is told, or not; ...
KvSave(g, fits) ==
    /\ guest[g].phase = "emptied"
    /\ guest' = [guest EXCEPT ![g] = [@ EXCEPT !.phase = "running", !.store = Fresh.store,
                                               !.key = None, !.value = None]]
    /\ kv' = [guest[g].store EXCEPT ![guest[g].key] = guest[g].value]
    /\ told' = [told EXCEPT ![guest[g].key] = IF fits THEN guest[g].value ELSE None]
    /\ torn' = FALSE
    /\ UNCHANGED <<workspace, beats, calls, crashes>>

\* ... or the write fails where it is, and the guest is told of an error.
KvFail(g) ==
    /\ guest[g].phase = "emptied"
    /\ guest' = [guest EXCEPT ![g] = [@ EXCEPT !.phase = "running", !.store = Fresh.store,
                                               !.key = None, !.value = None]]
    /\ Tear
    /\ UNCHANGED <<kv, workspace, beats, calls, crashes>>

-----------------------------------------------------------------------------
(* terminal.exec.                                                          *)

\* A child takes its input at once, as it does what its pipe holds, or when it has
\* written all it wants or exits.
Spawn(g, wants, takes) ==
    /\ Calls(g) /\ May(g, "terminal.exec")
    /\ calls' = calls + 1
    /\ guest' = [guest EXCEPT ![g] = [Called(@) EXCEPT
                    !.phase = "feed",
                    !.child = [wants |-> wants, takes |-> takes, out |-> 0,
                               state |-> "running"]]]
    /\ UNCHANGED <<kv, workspace, beats, told, torn, crashes>>

\* The input is written before the time starts.
Feed(g) ==
    /\ guest[g].phase = "feed"
    /\ guest[g].child.takes \/ guest[g].child.out = guest[g].child.wants
    /\ guest' = [guest EXCEPT ![g].phase = "wait"]
    /\ UNCHANGED <<kv, workspace, beats, told, torn, calls, crashes>>

\* The child blocks on a full pipe, for nobody reads it yet.
ChildWrites(g) ==
    /\ guest[g].phase \in {"feed", "wait", "polled"} /\ guest[g].child.state = "running"
    /\ guest[g].child.out < guest[g].child.wants /\ guest[g].child.out < PipeSize
    /\ guest' = [guest EXCEPT ![g].child.out = @ + 1]
    /\ UNCHANGED <<kv, workspace, beats, told, torn, calls, crashes>>

ChildExits(g) ==
    /\ guest[g].phase \in {"feed", "wait", "polled"} /\ guest[g].child.state = "running"
    /\ guest[g].child.out = guest[g].child.wants
    /\ guest' = [guest EXCEPT ![g].child.state = "exited"]
    /\ UNCHANGED <<kv, workspace, beats, told, torn, calls, crashes>>

\* The host looks whether the child has ended before it looks at the time.
Poll(g) ==
    /\ guest[g].phase = "wait"
    /\ guest' = [guest EXCEPT
         ![g] = IF guest[g].child.state # "running"
                  THEN [@ EXCEPT !.phase = "collect", !.answer = [timed_out |-> FALSE]]
                ELSE IF guest[g].polls >= Timeout THEN [@ EXCEPT !.phase = "polled"]
                ELSE [@ EXCEPT !.polls = guest[g].polls + 1]]
    /\ UNCHANGED <<kv, workspace, beats, told, torn, calls, crashes>>

\* The time is up: a child that ends in between is not hurt, but told of as timed out.
Kill(g) ==
    /\ guest[g].phase = "polled"
    /\ guest' = [guest EXCEPT
         ![g].phase = "collect", ![g].answer = [timed_out |-> TRUE],
         ![g].child.state = IF @ = "running" THEN "killed" ELSE @]
    /\ UNCHANGED <<kv, workspace, beats, told, torn, calls, crashes>>

AnswerUnmarked(g) == [timed_out |-> guest[g].answer.timed_out, truncated |-> FALSE,
    out |-> IF guest[g].child.out > MaxResponse THEN MaxResponse ELSE guest[g].child.out]
Answer(g) == [timed_out |-> guest[g].answer.timed_out,
              truncated |-> guest[g].child.out > MaxResponse,
              out |-> IF guest[g].child.out > MaxResponse THEN MaxResponse ELSE guest[g].child.out]

Collect(g) ==
    /\ guest[g].phase = "collect"
    /\ guest' = [guest EXCEPT ![g].phase = "running", ![g].answer = Answer(g)]
    /\ UNCHANGED <<kv, workspace, beats, told, torn, calls, crashes>>

-----------------------------------------------------------------------------

Next ==
    \E g \in Guests :
      \/ BeginOwn(g) \/ Return(g) \/ Fail(g) \/ Crash(g) \/ AppendBeat(g) \/ WriteResult(g)
      \/ \E b \in Builtins : BeginBuiltin(g, b) \/ Unbuilt(g, b)
      \/ \E error \in BOOLEAN : Navigate(g, error) \/ SystemInfo(g, error)
                                \/ FsRead(g, error) \/ Infer(g, error)
      \/ \E mode \in {"refused", "append", "replace"}, error \in BOOLEAN : FsWrite(g, mode, error)
      \/ Denied(g) \/ ScheduleHeartbeat(g) \/ KvGet(g)
      \/ \E k \in Keys, v \in Values : KvLoad(g, k, v)
      \/ KvEmpty(g)
      \/ \E fits \in BOOLEAN : KvSave(g, fits)
      \/ KvFail(g)
      \/ \E wants \in Children, takes \in BOOLEAN : Spawn(g, wants, takes)
      \/ Feed(g) \/ ChildWrites(g) \/ ChildExits(g) \/ Poll(g) \/ Kill(g) \/ Collect(g)

Spec == Init /\ [][Next]_vars

\* Guests are alike, and so are keys.
Symmetry == Permutations(Guests) \cup Permutations(Keys)

-----------------------------------------------------------------------------
(* Properties.                                                             *)

Settled == {g \in Guests : guest[g].settled # Unsettled}
InCall(g) == guest[g].phase \in {"loaded", "emptied", "feed", "wait", "polled", "collect"}

Receipts == [seq : 0 .. MaxReceipts - 1, kind : {"observe", "fs_write"}, error : BOOLEAN]
Traces == UNION {[1 .. n -> Receipts] : n \in 1 .. MaxReceipts}
Settlements == {Unsettled} \cup {Settle(trace) : trace \in Traces}
ChildRun == [wants : Children \cup {0}, takes : BOOLEAN, out : Nat,
             state : {"running", "exited", "killed"}]
Waited == [timed_out : BOOLEAN]
Answers == [timed_out : BOOLEAN, truncated : BOOLEAN, out : Nat]
Run == [phase : Phases, program : Builtins \cup {None},
        result : {"none", "completed", "failed"}, calls : Nat, instrumented : Nat,
        trace : Seq(Receipts), settled : Settlements,
        store : [Keys -> Values \cup {None}], key : Keys \cup {None}, value : Values \cup {None},
        child : ChildRun, polls : 0 .. Timeout, answer : {None} \cup Waited \cup Answers]

TypeOK ==
    /\ guest \in [Guests -> Run]
    /\ kv \in [Keys -> Values \cup {None}] /\ told \in [Keys -> Values \cup {None}]
    /\ workspace \in Seq(Guests) /\ beats \in SUBSET Guests
    /\ torn \in BOOLEAN /\ calls \in Nat /\ crashes \in Nat

\* A guest's trace is its instrumented calls, failed ones included, numbered without a
\* gap, until it is full (record_event and the shims).
IsDense(run) ==
    /\ Len(run.trace) = IF run.instrumented < MaxReceipts THEN run.instrumented ELSE MaxReceipts
    /\ \A i \in 1 .. Len(run.trace) : run.trace[i].seq = i - 1
TraceIsDense == \A g \in Guests : IsDense(guest[g])

\* Every piece in the workspace was put there by a call that left a receipt, also when
\* its guest was told of an error.  A trace that is full takes no more receipts, and
\* that of a guest that failed or died is gone, though its pieces stay.
Pieces(g) == {i \in 1 .. Len(workspace) : workspace[i] = g}
Writes(trace) == {i \in 1 .. Len(trace) : trace[i].kind = "fs_write"}
HasReceipts(g) ==
    guest[g].phase \notin {"failed", "dead"} /\ guest[g].result # "failed"
        /\ Len(guest[g].trace) < MaxReceipts =>
            Cardinality(Pieces(g)) <= Cardinality(Writes(guest[g].trace))
PiecesHaveReceipts == \A g \in Guests : HasReceipts(g)

\* A job told of as completed made its call, whatever the call answered (a refused write
\* included): a built-in instrumented call has the one receipt of its kind, settled, any
\* other none, and a heartbeat has its line; one that failed has neither
\* (dispatch_wasm_worker).
JobsTell ==
    \A g \in Guests :
        LET run == guest[g] IN
        /\ run.result = "completed" /\ run.program # None =>
             IF run.program.call \in Instrumented
               THEN /\ Len(run.trace) = 1 /\ run.trace[1].kind = Kind(run.program.call)
                    /\ run.settled # Unsettled
               ELSE run.trace = <<>> /\ run.settled = Unsettled
        /\ run.result = "completed" /\ run.program = BeatGuest => g \in beats
        /\ run.result = "failed" => g \notin beats /\ run.settled = Unsettled

\* What the workspace and the job's files tell of a guest agree with its receipts.
ReceiptsFollow == PiecesHaveReceipts /\ JobsTell

\* What a trace is settled in (root and length, which the witness digest binds) tells
\* it from every trace that differs in one receipt, lacks the last one or has it twice.
Neighbours(trace) ==
    {SubSeq(trace, 1, Len(trace) - 1), Append(trace, Last(trace))}
    \cup {[trace EXCEPT ![i].error = ~@] : i \in DOMAIN trace}
    \cup {[trace EXCEPT ![i] = trace[j], ![j] = trace[i]] : i, j \in DOMAIN trace}
SettlementBinds ==
    \A g \in Settled :
        \A other \in Neighbours(guest[g].trace) :
            other # <<>> /\ Settle(other) = guest[g].settled => other = guest[g].trace

\* The aggregate of settled runs changes with each of them and with their order
\* (aggregate_proofs).
AggregateBinds ==
    LET lists == BoundedSeq({Leaf(guest[g].settled) : g \in Settled}, 3) \ {<<>>}
    IN  Cardinality({Aggregate(s) : s \in lists}) = Cardinality(lists)

\* Guests that run one after another find in the store what a guest was told is
\* stored, whatever later calls and crashes did, until the key is set anew or a host
\* fails or dies while it writes the file; what is told after that holds again
\* (load_runtime_kv_store, save_runtime_kv_store).
ToldIsStored ==
    Serial /\ (\A g \in Guests : guest[g].phase # "emptied") =>
        \A k \in Keys : told[k] # None => kv[k] = told[k]

\* A terminal call that is not answered as timed out or truncated hands over all its
\* child wrote, and one answered as timed out was looked at for the whole timeout
\* (dispatch_terminal_exec).
AnswerIsWhole ==
    \A g \in Guests :
        LET run == guest[g] IN
        run.phase = "running" /\ run.answer # None =>
            /\ run.answer.out = run.child.wants \/ run.answer.timed_out \/ run.answer.truncated
            /\ run.answer.timed_out => run.polls = Timeout
            /\ run.child.state = "killed" => run.answer.timed_out

\* Why: a built-in guest has made its one call, with its one receipt, or none yet; what
\* is settled is the trace; and a host leaves nothing when it fails.
Made(run) ==
    IF run.calls = 1 /\ run.program.call \in Instrumented
    THEN Len(run.trace) = 1 /\ run.trace[1].kind = Kind(run.program.call)
    ELSE run.trace = <<>>
JobOf(g) ==
    LET run == guest[g] IN
    /\ run.phase \in {"ready", "failed", "dead"} => run = [Fresh EXCEPT !.phase = run.phase]
    /\ run.program # None => Made(run)
    /\ run.result # "none" => run.phase = "over"
    /\ IF run.phase \in {"returned", "receipted"} \/ run.result = "completed"
       THEN /\ run.settled = IF run.trace = <<>> THEN Unsettled ELSE Settle(run.trace)
            /\ run.program # None /\ run.program.call # "none" => run.calls = 1
       ELSE run.settled = Unsettled
    /\ run.phase = "receipted" \/ (run.result = "completed" /\ run.program = BeatGuest)
         => g \in beats
    /\ g \in beats => run.phase \in {"receipted", "dead"} \/ run.result = "completed"
JobInv == \A g \in Guests : JobOf(g)

\* Only one host is at work, and what it has loaded is the store, which told does not
\* promise more of.
StoreOf(g) ==
    LET run == guest[g] IN
    /\ run.phase \in {"loaded", "emptied"} =>
         run.key \in Keys /\ run.value \in Values /\ told[run.key] = None
    /\ run.phase = "loaded" => run.store = kv
    /\ run.phase = "emptied" => \A k \in Keys : told[k] # None => run.store[k] = told[k]
OneAtWork == \A g, h \in Guests : ~Over(g) /\ ~Over(h) => g = h
StoreInv == Serial =>
    OneAtWork /\ ToldIsStored /\ \A g \in Guests : StoreOf(g)

\* A child that exited has written all it wanted; the time is up when it is killed.
AnswerOf(g) ==
    LET run == guest[g]
        whole == run.child.state = "exited" /\ run.child.out = run.child.wants
    IN
    /\ run.phase \in {"feed", "wait", "polled"} =>
         run.child.state \in {"running", "exited"} /\ (run.child.state = "exited" => whole)
    /\ run.phase = "polled" => run.polls = Timeout
    /\ run.phase = "collect" => IF run.answer.timed_out THEN run.polls = Timeout ELSE whole
    /\ run.phase \notin {"feed", "wait", "polled", "collect"} /\ run.answer # None =>
         /\ run.answer.out = run.child.wants \/ run.answer.timed_out \/ run.answer.truncated
         /\ run.answer.timed_out => run.polls = Timeout
         /\ run.child.state = "killed" => run.answer.timed_out
AnswerInv == \A g \in Guests : AnswerOf(g)

\* The proof of each receipt of a settled trace is one MerkleProof.verify accepts,
\* however its digests compare (loom-poge: proof_for is "compatible with OpenZeppelin's
\* MerkleProof.verify() convention").  It is not: hash_branch does not sort.
ReceiptsVerify ==
    \A g \in Settled :
        LET trace == guest[g].trace
            tree == Build(trace)
        IN  \A smaller \in Orders({tree[i] : i \in DOMAIN tree}), i \in 1 .. Len(trace) :
                Verifies(smaller, Leaf(trace[i]), ProofFor(tree, i - 1), guest[g].settled.root)

\* Every host call leaves a receipt (loom-poge: record_event is called from each shim).
EveryCallRecorded ==
    \A g \in Guests : guest[g].calls <= MaxReceipts /\ ~InCall(g) =>
                          Len(guest[g].trace) = guest[g].calls
=============================================================================
