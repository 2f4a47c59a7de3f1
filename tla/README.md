# Verification of the Loom runtime

TLA+ modules of the Loom runtime, the TLC runs that check them on small
instances, and TLAPS proofs of what holds for every instance. Paths are relative
to the repository; `lib.rs` is `crates/loom-shadow/src/lib.rs` unless another
crate is named.

## 1. The system

Loom runs governed actions on one host. Nothing but files is shared: the
runtime service, the supervisor daemon, the personal agent's supervisor and
worker and every `loom` command are processes over one root directory, and most
operations are "read a table, change it in memory, write it back". There is no
file lock around them. What makes the system hard is therefore the order in
which processes touch files, what a death between two of those touches leaves
behind, and who is believed when files disagree.

| Component | State it keeps | Operations | Hard because | Correct when |
|---|---|---|---|---|
| Scheduler state, reservations (`scheduler_state.rs`, `reservations.rs`) | `scheduler/state.json`, `scheduler/reservations.json` | append, transition, reserve, ack, nack, expire | saved whole from a copy; leases expire | statuses follow `valid_transitions`, a reservation is exclusive |
| Policy lanes (`policy_queue.rs`) | none of its own | classify, order of lanes | one job may be in several lanes | lanes are taken by priority |
| Runtime queue (`lib.rs` 3803-4900) | `queue/pending/<lane>`, `processed`, `failed`, `acks`, `jobs/<id>/job.json` | enqueue, cancel, supervisor pass, reconcile, ack | five files per job, no lock, deaths, retries | no record lost, nothing run twice, cancellations stand, the queue drains |
| Runtime execution (`lib.rs` 956-1327, 11815-13166) | `runtime/jobs/<id>`, the kernel's treasury, audit log | decide, reserve budget, dispatch worker, finalise | several external effects, any of which may fail | a reservation is settled at most once, as the worker's outcome says |
| Service lifecycle (`lib.rs` 5421-6197, `commands/service.rs`) | `service.lock`, `runtime_state.json`, `stop.requested`, socket, HTTP port | start, restart, stop, loop, status | check-then-act on pids and files | one service, reported as such, that stops when asked |
| Service ingress (`lib.rs` 6199-6403, 6617-6803, 7553-7671) | `ingress/requests`, `ingress/receipts`, import markers | submit by socket, HTTP or file; import | client timeouts against late service, crashes | one submission makes one record; each is accepted in the end |
| Supervisor daemon, watch, drain (`lib.rs` 4570-5420) | heartbeat log, status, daemon state, stop request | watch, run until stopped, run until empty | several loops over one log and one stop request | stops when asked, tells of no more than was done |
| Personal-agent supervision (`commands/personal_agent.rs`) | run policy, loop state, stop file | run, supervise, restart, stop, reconcile | three processes rewrite one policy file | one worker; restarts as the policy says |
| Heartbeats, schedules (`recurring.rs`, `schedules.rs`, `recurring_executor.rs`) | two registries, delivery files | add, pause, cancel, claim, run-due | claim, dispatch and record are apart | a due time is served once, and served |
| Channels (`channels.rs`, `commands/channel.rs`) | registry, deliveries, diagnostics, health history | connect, sync, send, update, diagnose | a delivery is three files | they agree, up to a command that died |
| Connectors (`commands/connect.rs`) | registry, test, lifecycle and sanction histories | scaffold, test, health, fix, prune | five files per command | nobody is sanctioned who has not been through the ladder |
| Sessions and pipelines (`session_provenance.rs`, `session_policy.rs`, `pipeline.rs`) | session registry, overrides, policies, bindings, run files, index | record a request, override, sync, open, route | three loads and writes of one registry per request | a run tells what was in force |
| Memory (`memory_service.rs`) | entries per agent, receipts, sync state | write, forget, fork, replay, prune, sync | entries, receipts and sync state are apart | receipts tell what became of each entry |
| Providers (`provider_router.rs`, `provider_auth_store.rs`, `commands/provider.rs`) | onboard manifest, profiles, auth store, auth files | login, onboard, status, alias commands, marks | three files name one account | requests go out under the account chosen |
| Capabilities (`capabilities.rs`) | worker files, manifests, gap records | forge, import, verify, promote | four files per promotion | what is called verified has run |
| Skills, extensions (`skill_lifecycle.rs`, `commands/extension.rs`) | install records, receipts, registries, backups | install, enable, disable, update, remove | record, receipt and registry are apart | receipts tell, and their way back leads back |
| Shadow runs (`lib.rs` 1489-3320, `commands/job.rs`) | four capture files, two streams, settlement | eight backends, swarm, zk settlement | the settlement reads what others overwrite | nothing charged that is not proved |
| Wasm host, PoGE (`wasm_runner.rs`, `loom-poge`, `lib.rs` 12039-12600) | key-value file, trace, tree, the job's result, heartbeat lines | built-in guests, ten host calls, settle, prove, aggregate | effect before answer; a child's pipe | effects have receipts, the root binds them, a completed job did its work |
| Reference gates (`loom-core/src/lib.rs` 1685-2440, `commands/action.rs`, `commands/runtime.rs`) | decision, event and reference logs, reports, proofs | decide, preflight, compare, verify | a court that changes between two questions, or cannot be asked | a sentenced agent is refused, reports stand in their logs |
| Evidence of an execution (`lib.rs` 956-1327, 10700-11400, 13166-13500) | a dozen files and six streams per execution | execute, decide, report | each is written in place, and read by a later one | files lead to the ones before them, and agree |
| A root's making and repair (`loom-core/src/lib.rs` 254-1603, `commands/onboard.rs`, `commands/runtime.rs`) | `loom.toml`, onboard manifest, profiles, registries, capsules | init, onboard, reset, doctor, doctor with fixes | thirty writes in order, any of which may be the last or lost | no config without its plan, one address everywhere, tears are told |
| Provisioning (`commands/nation.rs`, `commands/quickstart.rs`, `commands/personal_agent.rs` 130-300, `agent_runtime.rs`) | kernel's institution, treasury and agents; agent registry, configs, memory, sessions | init-nation, new-agent, run-agent, quickstart | commands inside commands, two at once, retries after a death | a configured agent is known; a nation is whole |

`PROJECT.json` lists every component with its status and every hazard with its
line.

## 2. The modules

```
JobTables ── PolicyLanes ── QueueRuntime ── MCQueueRuntime          (TLC)
                                  └── QueueRuntime_proofs           (TLAPS)
ServiceLifecycle (its own TLC root)
SubmitOnce <= ServiceIngress ── MCServiceIngress                    (TLC)
ServiceLifecycle, ServiceIngress ── Service_proofs                  (TLAPS)
BudgetOnce <= RuntimeExecution ── MCRuntimeExecution                (TLC)
                  └── RuntimeExecution_proofs                       (TLAPS)
Recurring ── MCRecurring                                            (TLC)
    └── Recurring_proofs                                            (TLAPS)
AgentSupervisor (its own TLC root) ── AgentSupervisor_proofs        (TLAPS)
PoGETrace ── WasmHost (its own TLC root) ── WasmHost_proofs         (TLAPS)
Channels, Capabilities, ShadowRuns, Providers, SupervisorLoops,
Sessions, Gates, Parity ── Surfaces ── Surfaces_proofs              (TLAPS)
                                └── Conversations_proofs            (TLAPS)
Connectors, MemoryService, Installs, Setup,
Provisioning, Surfaces ── Holdings ── MCSurfaces                    (TLC)
```

In every module a step is one access to a shared file, one fork or one call, and
a process may die between any two. A file written whole is written in one step;
a death *in* a write is modelled where the code reads the result back and
behaves differently (`torn` in `Sessions`, `Installs`, `Capabilities`, `Gates` and
`Connectors`, `CrashTorn` and the cut files of `Parity`, `Setup` and
`Provisioning`, the emptied store in `WasmHost`), and for the logs that
`append_line` (`lib.rs` 13467) reads and writes whole, whose lines such a death
loses: the audit log in `RuntimeExecution`, the heartbeats in `SupervisorLoops`.

### JobTables, PolicyLanes

Operators on the two tables a process loads and saves: jobs with status and
bucket (`SchedulerState`), reservations with state, start and duration
(`ReservationLedger`). `TransitionJob` refuses what `valid_transitions` refuses;
`ExpireStale` and `RecoverExpired` are `expire_stale` and the loop of
`run_supervisor` that requeues what it returns. `PolicyLanes` has the four
classes with their priorities, `classify_action`, and `Before`, the order in
which `collect_pending_queue_paths` lists records.

### QueueRuntime

An actor is a process: a program counter and in-memory copies of the tables.
`enqueue_action` takes four steps (load and decide, write the record, save,
snapshot), the supervisor pass some thirty.

| Actions | Code |
|---|---|
| `EnqueueLoad` .. `EnqueueSnapshot` | `enqueue_action` 3803-3947 |
| `CancelLoad`, `CancelSave` | `cancel_job` request 6804-6885 |
| `LoadSched` .. `Takes` | start of a pass: load, expire, requeue, list (3981-4018) |
| `RecordVanished`, `RecordStale`, `RecordReserved`, `Reserve`, `ReserveRefused` | what a pass finds for a record (4018-4193) |
| `PrepareFails`, `MarkRunning`, `Execute`, `Capture`, `CaptureFails` | 4197-4333 |
| `DoneMove`, `FailWrite`, `FailRemove`, `SaveSnapshot`, `WriteAck` | putting away (4336-4503) |
| `ReconcileMove` | `reconcile_terminal_pending_queue_record` 4519-4560 |
| `QueueAck` | `ack_queue_job` 4870 |
| `Crash`, `Tick` | death of a process; the clock |

The outcome of an execution is one of `Outcomes`; `RuntimeExecution` has the
detail of how it comes about.

### ServiceLifecycle

Processes and the five things they share: stop file, lock, socket file, HTTP
port and state file. `Launch` gives a command, `RestartStop` .. `Start` are the
command's own checks, `Boot*` the boot of `run_runtime_service_loop` (5445-5628),
`LoopHead`, `ServeStop`, `Iterate` its iterations and `Down*` its shutdown
(5905-5957). `Die` is a kill or an error that ends the loop through `?`, which
leaves every file. `Serial` says that commands do not overlap a boot; `FreshPids`
that a new process has no pid a leftover file names. `RunningFlag` is what
`extract_json_bool` makes of the state file: with an HTTP token configured
(`Tokened`) it reads `running: false` as true, since it finds the `true` of
`http_token_required` behind it (13646, 11281); what is left to tell a stopped
service from a running one is its socket, its port and its pid.

### ServiceIngress, SubmitOnce

Clients go through `Submit`, `GiveUp`, `Stage`, `Poll`
(`submit_runtime_service_action`); the service through the phases of an
iteration. Handling one request takes three steps (`WriteRequest`, `Enqueue`,
`WriteReceipt`) with deaths in between; importing a delivery takes the last two.
`SubmitOnce` is the promise in terms of records and receipts alone.

### RuntimeExecution, BudgetOnce

`capture_decision` and `capture_runtime_execution`, which a supervisor pass and
`loom action execute` call. `Begin` decides (956-1047), `Reserve` asks the
kernel's treasury (12994), `Dispatch` starts a worker unless `Refusal` says not to
(1046, 11815), `RunPython`, `TakeResult` and `RunWasm` are the worker and what is
made of it (11954, 12039), `Finalize` charges the budget or gives it back (13082;
an id the treasury did not give, a treasury that has gone, one that fails and one
that answers with another status leave it reserved),
`Audit` writes the audit line through the kernel or else reads the log, which
`AppendEmpty` and `Append`, the two halves of `fs::write`, write again (13313,
`append_line` 13467), and
`Record` is the economy hook, the parity report and the job snapshot. `Fail` is a
call that returns `Err` or the death of the process. The treasury, whose calls
are taken to be atomic, and the worker are external. `BudgetOnce` is what one
expects of a budget, in terms of the reservation and the worker alone.

### Recurring

Timers of both registries, served by the agent's loop (`claim_due_heartbeats`
writes the claim first, `dispatch_heartbeat_run` follows) and by `run-due` of the
command line (serves first and writes the registry last), edited by add, pause,
cancel and by onboarding, which replaces the schedules. `dispatched` and
`delivered` count, for each due time, what was done for it; a pass of `run-due` that
is lost before it wrote the registry leaves its deliveries due again, so that for them
`delivered` counts anew. `ran` has the due times whose run was recorded, `lost` those a
loop had claimed and died before it dispatched. A payload without text is delivered
all the same, as its output or its status (`extract_delivery_text`).

### AgentSupervisor

`run_agent`, `stop` and `reconcile` (the commands), `supervise` and the worker's
loop, each a process with its own copy of the policy. Times are relative:
`policy.next` is how long a restart has still to wait and `Tick` counts it down in
every copy. `Patient` says that the operator lets a command's processes boot
before giving the next one. A process may die, or end with `Err`, anywhere. A
supervisor that dies after the fork of its worker and before `write_loop_state`
(548-549) leaves an orphan no file names (`unnamed`) until it writes a file itself;
a command given meanwhile does not see it and starts an agent beside it, which the
history variable `overlooked` records.

### PoGETrace, WasmHost

`PoGETrace` is `loom-poge` with symbolic hashes: `Build`, `Path`, `ProofFor`,
settlement and aggregation; `Verifies` is the verifier its comment names, which is
outside the repository and is given no index: of two digests it hashes the smaller
first (`Orders` has every way in which digests may compare). `WasmHost` runs guests
against the trace, as workers of jobs
(`dispatch_wasm_worker`): a module of the operator's (`BeginOwn`) or one of the ten
built-in guests (`BeginBuiltin`; `Unbuilt` when the payload lacks what the guest
needs), which makes its one call and returns. A call reads its request, is refused or has its effect, then writes its answer, which
may not fit; the instrumented calls append a receipt; `KvEmpty` and `KvSave` are the
two halves of the store's write, and `KvFail` is the second one failing, which leaves
the store empty; `AppendBeat` and `WriteResult` are what the job leaves,
the line of a heartbeat first; `Spawn`, `Feed`, `Poll`, `Kill`, `Collect` are a terminal
call and its child, whose output goes through a pipe of `PipeSize`. `Feed` is the
`write_all` of the child's input, which ends when the child takes it or exits.

### Surfaces, Holdings

Thirteen components that share no files with one another. `Surfaces` takes an
instance of eight of them and lets one be at work (the variable `part` says which
one; the others rest), so that a run has the sum of their states and not the product.
`Holdings` extends it by the other five (`Connectors`, `MemoryService`, `Installs`,
`Setup`, `Provisioning`: what an operator sets up and keeps in a root) in the same way:
a behaviour of its `RootSpec` in which a surface is at work is one of `Surfaces`, about
which the theorems speak. `MCSurfaces` gives the constants of both small values.

| Module | State and steps |
|---|---|
| `Connectors` | one adapter, just scaffolded, or enabled, edited by the operator and already tested once (`Tested`), with its three histories and the health snapshot; every command reads, then writes in the order of `connect.rs` (tests, sanctions, trail, snapshot, registry) |
| `Channels` | config, manifest, registry; deliveries with their diagnostics; the newest health entry per channel. `Sync` and `Boot` rebuild the registry |
| `Capabilities` | worker file, manifest and gap record. Names that differ may share a file (`FileOf` is `safe_filename`) |
| `ShadowRuns` | the last execution's file, the captures with the files they have reached, the treasury; `Swarm` chains eight backends, `Settle` charges what the last execution proves |
| `MemoryService` | the entries of two agents in file order, sorted as the code sorts them and cut at `MaxEntries`, from the files `Begun` on; the receipts folded into lineage, the personal agent's sync state; `Sync` finds whatever the operator made of the documents |
| `Providers` | auth files, profile table, selection of the manifest, store, aliases with their audit; login and onboarding in the order of their writes, the operator's own `codex login` at any time |
| `SupervisorLoops` | heartbeat log (read, then written whole, a death in the write empties it), status, daemon state, stop request; a pass is one step that finishes some records |
| `Sessions` | the recorder's three loads and writes of the session registry, the run's file and the index, beside an operator's commands |
| `Installs` | skills: record, receipt, rebuilt registry; extensions: backup, manifest, entry, receipt with the way back |
| `Gates` | the court and the agent's record; a command asks who the agent is (twice) and what the reference adapter says, then writes its decision, seven events, a reference log and a report, or an artifact per hook |
| `Parity` | the files and streams of one execution in the order of `capture_decision` and `capture_runtime_execution`, the shadow runs that overwrite three of them, what the reports show |
| `Setup` | which files of a root are there, whole or torn; each command is a script of steps that ensure, sync, make, read or remove, and a doctor's report is what the steps found |
| `Provisioning` | the kernel's side (institution, treasury, agents) and the runtime's (registry, configs, memory, sessions); `quickstart` runs the others' scripts one after another |

Each of these modules states its invariants by name; `Surfaces` and `Holdings` collect
them per hazard (`ConversationsAgree`, `ConnectorsAgree` and so on).

## 3. The runs

| Run | Instance | Shows |
|---|---|---|
| `queue_crash` | one process, two jobs of different lanes, three requests, one death anywhere | a captured completion is not repeated (`CompletedNotRerun`); an answered cancellation stands (`CancelSticks`); memory and disk agree (`MemoryIsDisk`); `NoDuplicateRecord` |
| `queue_serial` | one process, no death, enqueue, cancel and ack, sanctions on or off | `RunsOnce`, `InFlightHasRecord`, `AckAfterTerminal`, and the queue drains (`Drains`) |
| `queue_shared` | two processes, interleaved at every file operation | `NoRecordLost` |
| `execution` | two executions of one job, overlapping at every step or not, one error or death anywhere | executions implement `BudgetOnce`; `BooksAgree` (treasury, economy hook, snapshot); `AuditComplete` (without overlap every line is there, but those an execution lost that died in the rewrite); `RefusedNeverRuns` |
| `service_serial` | three processes, one of them with an HTTP token, four commands or stop requests, one death | `SoleService`, `ServiceIsReported`, `StopHonoured`; a start is turned away by a living process only (`TurnedAwayByTheLiving`) |
| `ingress_crash` | two clients with the same content, one delivery, one death | the ingress implements `SubmitOnce` (`SubmissionsOnce`); `RequestsAccepted`, `DeliveriesImported` |
| `recurring` | two heartbeats and a daily schedule, the loop beside the command line, an unregistered channel, one death | `DispatchedOnce`; `DeliveredOnce`, plus one for each pass of `run-due` that was lost with it served; a heartbeat that is due is run (`DueIsServed`), unless its claim was lost with the loop or somebody paused it |
| `agent` | two supervisors, three workers, two commands, two deaths of any of them anywhere, every file operation interleaved | unless a command overlooked an orphan: `OneWorker`; a restart waits its backoff (`BackoffHonoured`) and comes (`AlwaysRecovers`); a stop under manual ends everything (`StopEndsAgent`) |
| `wasm` | two guests one after the other, an operator's module or any built-in one, four host calls of any kind, a store that may refuse to be written, one death | `ReceiptsFollow` (the effects of a guest that lived have their receipts, as long as the trace has room, and a job told of as completed made its call), `SettlementBinds` (another trace of that length has another settlement), `ToldIsStored`, `AnswerIsWhole` |
| `surfaces` | the thirteen parts above, one death in each | `ConnectorsAgree`, `ConversationsAgree`, `PromotionEarned`, `EvidenceStands`, `InstallsAgree`, `MemoryAgrees`, `ProvidersAgree`, `LoopsAgree` |
| `stop_restarts` | the instance of `agent` under `always` | TLC refutes `StopEndsEveryAgent`: a stopped agent's worker overwrites the stop with its own older policy, and the supervisor starts it again |
| `poge_verify` | the instance of `wasm`, the smaller of two digests being either | TLC refutes `ReceiptsVerify`: `proof_for`'s siblings lead OpenZeppelin's verifier, which sorts each pair, to another root, since `hash_branch` does not sort |

What the last two runs show are the disagreements listed under `findings`, with the
lines they contradict. Others came up while modelling; each has a configuration
with which TLC reproduces its counterexample, for instance
`tlc -config FindDoubleExecution.cfg MCQueueRuntime`.

| Configuration | Module | The code does |
|---|---|---|
| `FindStuckAfterCrash` | `MCQueueRuntime` | a death while a job runs blocks the head of the queue for ever (`lib.rs` 4157) |
| `FindLostCancel` | `MCQueueRuntime` | another process's pass overwrites an answered cancellation (4191) |
| `FindDoubleExecution` | `MCQueueRuntime` | two supervisors reserve and run one job (4157) |
| the same with `PROPERTY NoDuplicateRecord` for its invariant | `MCQueueRuntime` | two enqueues of one action write two records (3826) |
| `FindQueuedWithoutRecord` | `MCQueueRuntime` | after a death an expired lease requeues a job that has no record (3990) |
| `FindTwoServices` with `FairSpec`, three operations and `PROPERTY StopHonoured` for its invariant | `ServiceLifecycle` | a boot erases the stop request of the running service (5445) |
| `FindTwoServices` | `ServiceLifecycle` | two boots pass the lock check together (5448) |
| `FindRestartStops` | `ServiceLifecycle` | a restart that waits too short a time leaves no service (`service.rs` 38) |
| `ServiceSerial` with `FreshPids = FALSE` and only `TurnedAwayByTheLiving` | `ServiceLifecycle` | a start takes its own reused pid for a running service (5453) |
| `IngressCrash` with `Deliveries = {}`, `KernelKnown = FALSE` and only `RequestsAccepted` | `MCServiceIngress` | a death after the rewrite of a request file makes it unacceptable (6722) |
| `Execution` with `PROPERTY AuditKept` alone | `MCRuntimeExecution` | two executions append to the audit log at once, and one line is lost (13468) |
| `Execution` with `INVARIANT ResultIsOwn` alone | `MCRuntimeExecution` | an execution takes the result an earlier one of the same job left (11995) |
| `Agent` with `INVARIANT OneWorkerEver` alone | `AgentSupervisor` | a supervisor that dies between the fork and the loop state leaves a worker no file names, and the next run starts a second one (`personal_agent.rs` 548) |
| `Surfaces` with `ForkedIsThere` in `MemoryAgrees` | `MCSurfaces` | a fork into a nearly full memory of the same second evicts an entry it reports as forked (`memory_service.rs` 430, `memory.rs` 124) |

Behaviour that surprises without contradicting a document, modelled as it is:

* A death in `append_line` (`lib.rs` 13474) leaves the audit log or the heartbeat log
  without the lines it had, while jobs and status still count them.
* What the agent's loop has claimed and not dispatched when it dies is never run: the
  registry has the next due time already (`recurring.rs` 357). What stands behind a
  schedule whose channel is unknown is never served by `run-due`, which ends with the
  first delivery that fails and keeps nothing of its pass.
* A stop under manual ends everything only if no orphan was overlooked: there is one
  stop file, which the first worker to see it removes, and an orphan writes back the
  older policy it holds. For the same reason a restart may then come before its
  backoff, or not at all. It takes three commands to see: the run, the one that overlooks
  the orphan, and the stop; with two, TLC finds the three properties to hold even so.
* A settlement is called "prepared" whatever the treasury answered to its commit, and an
  answer without `allowed` is taken as a yes (`job.rs` 212, 232); the settlement's record
  has the answer beside it. `SettledIsCharged` is about those that say "committed" too.
* The input of a terminal call is written before its time is looked at
  (`wasm_runner.rs` 954): a child that neither reads it nor ends keeps the call for ever.
  A store whose write fails is empty afterwards, and the guest is told of an error.
* After `loom init` the manifest names Loom's own auth file, while the profile
  table has no path, which means the shared file of the Codex CLI; the first
  login or onboarding brings them together. `AccountIsChosen` speaks from there on.
* A login after an endpoint onboarding routes the manager back to the frontier
  profile. Onboarding with source `none` makes a login without `--source` fail. A
  provider failure without a cooldown lifts an earlier one. A failed route keeps
  the earlier profile of a session but overwrites its `override_source`, and the
  `send_policy` in a session's record is never updated.
* Of two daemons the first to end takes the stop request meant for the other;
  `daemon start` may answer with the state an earlier daemon left; a drain may
  answer "remaining" though another process emptied the queue; with two writers a
  heartbeat line may be lost.
* Receipts and backups of extensions are named by the second: a second command of
  the same second that dies spoils the earlier one's backup. An install record
  torn by a death blocks every later command on its skill, `remove --force`
  included, and an error of the rebuild of the skill registry is ignored.
* The doctor's remedy for a root that lacks something is `loom onboard`, which makes
  neither the artifact and capability directories nor the capability registry, the
  workers' directories or the capsule again: only a reset does. A torn agent registry,
  auth store or profile table is never healed, and with a torn agent registry `doctor
  --fix` itself fails. `onboard --mode bogus` on an existing root writes a config
  nobody can read (`onboard.rs` 138), which only a reset undoes, and the wizard asks
  for its notice to be acknowledged after a reset has removed the old config.
* A death of `new-agent` after it wrote the agent's config leaves the agent unseeded for
  ever, since the command then refuses the name; one before it makes the retry
  register a second kernel agent, while the slug's memory file keeps the first one's
  id. `quickstart` runs `init`, which refuses an existing `loom.toml`: an interrupted
  one cannot be repeated in its root. It registers its agent under the hint for the
  organisation and not under the institution's id.
* The comparison of an execution never finds a `hard_deny` equal to the reference's
  `deny`, and calls it a divergence where the parity summary says "match"; an allowed
  action whose worker failed is a match in the comparison and a divergence in the
  summary. The audit's parity id differs from the comparison's exactly when the
  treasury refused, and a job's execution id is never its event's.
* `heartbeat.schedule` is denied to every guest, yet its job is told of as completed and
  a line is appended to `heartbeat_schedule.jsonl`. A module that fails loses its
  receipts. The shims of the heartbeat, terminal and key-value calls record none.
* A court that cannot be asked has restricted nobody (`loom-core/src/lib.rs` 2422).
  What then refuses a sentenced agent is the reference adapter, which asks it again.

### Bounds

The queue: two jobs are enough for one to be ahead of the other and for lanes to
differ; a third adds no interaction, since a pass handles one record at a time.
With `LeaseSecs = 1` and the clock running as long as a lease is out every lease
expires at every point where the code may meet an expired one. Three requests
cover enqueue, cancel and enqueue again. One death is enough: what a death leaves
on disk is a state the next pass starts from, and every such state is met. Two
processes, since an interference needs one writer and one that holds a copy; the
theorem `RecordsAreKept` covers the rest.

The service: a leftover, a service and a newcomer are three processes. Starts that
compete are not in its run, which is `Serial`; that they too are turned away by the
living only is the theorem `OnlyTheLivingTurnAway`, which asks for no `Serial`. The
ingress: two clients of the same content share a job, which is where a retry and
a fresh submission could be confused; the delivery has a job of its own. The
theorem `SubmitsOnce` covers any number of either, whatever jobs they share.

Executions: two of one job share everything that can be shared, the result, the
audit log and the treasury; one error or death leaves every state a later
execution can start from, and the theorems of `RuntimeExecution_proofs` cover any
number of both.

The agent: two commands are a run and what follows it; two supervisors and three
workers are a run, a restart and a successor; two deaths are a supervisor's, which
leaves an orphan, and one of what comes after it. Recurring: an interval, a one-shot
and a daily timer are the three ways a next due time comes about; two ticks are
one due time and one missed.

The surfaces: two to four commands each (in `Sessions` one command of the operator beside
two requests of the service). The shortest way to break a property
takes two (one leaves files apart, the next believes one of them); the others are
room for a repair in between. `Gates`, `Parity`, `Setup`
and `Provisioning` take two, each a script of ten to thirty writes with one death at any of
them; a lost file counts as the death in `Setup`. A sanction takes a failing test and
three looks at the health, so `Connectors` begins at two places of an adapter's life, the
second with the failing test behind it, and takes four commands: the ladder is climbed and
a toggle, a fix or a scaffold comes in between. Its one tick is longer than the rate window and
than the retention. In `MemoryService` two memories are there from the beginning, one full
and one with room for one entry, with four keys for three entries, so that a fork meets
what it overwrites, what it evicts and what is of its own second. The store of `WasmHost`
has two keys so that one may be lost while the other is written, three receipts so that a
leaf is padded, and children that want to write less than the pipe holds, as much, and more.

Symmetry: `ActorSymmetry` in `queue_shared`, `Alike` in `surfaces` and `Symmetry` in `wasm`
permute values that the modules only compare (processes, accounts, texts, requests, guests,
keys); these runs check invariants only.

### Fairness

The service loop repeats passes for as long as the process lives, and
`deploy/systemd/loom.service:13` restarts it on failure; hence weak fairness of a
process's next step and of `Start`. Time passes. A command that has been started
goes on. Nothing is assumed of operators: no request, launch or stop has to
happen. `Prompt` (used in `ingress_crash`) is an assumption about speed: the
phases before the pass take less than the five seconds a client waits.
The agent's loop is a loop, hence strong fairness of `LoopStep` in `Recurring`: it
comes round again even though a crash may interrupt it; in `AgentSupervisor` each
process that runs goes on and time passes.

## 4. The proofs

TLAPS checks, for all values of the constants:

* `QueueRuntime_proofs`: `TypeCorrect` and `RecordsAreKept` (any number of
  processes, crashing and interleaving anywhere). The record invariant needs one
  strengthening: an actor about to remove a failed record has the copy in
  `failed/`. With one process (`SingleActor`), crashes included, `SerialCorrect`, and from it `CompletedStaysCompleted`,
  `CancelledStaysCancelled`, `TablesAgree` and `NoSecondRecord`. None of them is
  inductive: a captured completion is safe because every copy of the table, in
  memory and on disk, has the job at `running` or beyond, from where
  `valid_transitions` leads nowhere back; so `SerialInv` speaks of copies, of which
  copies equal the disk, and of the status of the job being worked on.
  If that process does not die either (`NoCrash`), `RunsAtMostOnce`,
  `NoneIsStranded` and `AckComesAfter`, from `CalmInv`: a job that may still be
  reserved has not run (`Unrun`), one in flight has a record (`Recorded`), one
  whose snapshot may be acknowledged is over (`Answered`), each of every copy of
  the table. The recovery of leases needs a fourth part, `Leased`: `transition_job`
  lets a failed job back into the queue, so a job that failed must not keep a
  lease that could expire; `nack` and the order of the two saves see to that. The
  exceptions in `CalmActor` are the places between the two writes of one change.
* `Service_proofs`, of the life of the service: `TypeCorrect`; under `Serial`, `LifecycleCorrect` and
  from it `OneServiceAtATime`, `ServiceReported`; under `FreshPids`,
  `OnlyTheLivingTurnAway` through `LeftoverInv`. `LifecycleInv` adds to the two
  properties that one process boots at a time and that nobody serves while
  another is past the lock check and has not written its lock.
* `Service_proofs`, of its ingress (whose definitions have names apart from those of
  `ServiceLifecycle`, so that one module extends both): `IngressTypeCorrect`; with
  `Prompt` and `KernelKnown`, `IngressCorrect` and from it `SubmitsOnce`: the ingress implements `SubmitOnce`.
  `IngressInv` is what stands in for a check the code does not make: a source with
  a record and no answer has its job in flight (so a retry is answered from the
  record), it has its request file, and from the listing of the files to the end of
  the pass that file is on the list or being handled (so no pass takes the job to
  its end in between); and a client waits in one connection or one file at a time.
  Without `KernelKnown` a rewritten request is passed over, and without `Prompt` a
  client's connection and its file are both answered, a pass apart; TLC refutes
  `SubmissionsOnce` on either instance.
* `RuntimeExecution_proofs`: for any number of executions, overlapping or not, and
  any number of faults, `TypeCorrect`, `BooksKept` (the inductive invariant
  `BookInv`), from it `RefusedSafe` and `BooksSafe`, and `BudgetKept`: executions
  implement `BudgetOnce`. See section 5. `AuditIsComplete`, through `LogInv`: while
  no executions have overlapped, an execution that holds a copy of the log holds
  all of it, one between the two halves of its rewrite holds what the log had, and one
  that is past its line has it in the log, unless a later one died between those halves.

* `Recurring_proofs`: `TypeCorrect`, with `HoldInv` (what a process at each place
  holds: timers that were due when it took them up, all of one registry). With
  commands one after another (`Serial`), dying anywhere, `ServedCorrect`, and from it
  `DispatchedOnceHolds`, `DeliveredOnceHolds`, `PauseSticksHolds` and
  `RunsClosedHolds`. That a due time is dispatched once follows from no single write:
  `ServedInv` says that a copy differs from the file only in what its process
  changes (`CopyInv`), that a served record is past its due time in the file and in
  every copy that will be written (`Kept`), and that a claim is on disk before its
  first dispatch (`ClaimKept`). `run-due` does it the other way round, so its
  deliveries are ahead of the file until the pass is written; `DeliverInv` says that what
  a pass has delivered is served in its copy and, were the pass lost, due in the file,
  which is why one that is lost may deliver again and nothing else may.
* `AgentSupervisor_proofs`: `TypeCorrect`; for an operator who lets a command's
  processes boot before the next command (`Patient`), `FamilyCorrect` and from it
  `OneWorkerHolds` and `WorkerIsSeenHolds`, then `BackoffCorrect` and from it the
  action property `BackoffHonouredHolds`. `run-agent` looks at the worker alone and a
  supervisor writes its pid late; there is one worker all the same because the worker
  is the one supervisor's child, or an orphan the loop state names (`Family`,
  `Named`), and nobody is left when a command starts somebody (`NobodyYet`). All of it
  holds until a command overlooks an unnamed orphan: `FamilyStands` and `BackoffStands`
  are the invariants under `~overlooked`, and that `unnamed` has every worker which no file
  names is part of the first, so that nothing but such an orphan is exempt.
* `WasmHost_proofs`: for any guests, modules and built-in guests alike, `TypeCorrect`,
  `TraceIsDenseHolds`, `ReceiptsFollowHolds` (from `JobInv`: a built-in guest made its
  one call and has its one receipt, or neither), `AnswerIsWholeHolds` (from
  `AnswerInv`), `ToldIsStoredHolds` (from `StoreInv`: one host at work, which has
  loaded what the file holds); and for the tree of a trace of any length up to
  `MAX_TRACE_RECEIPTS` that the settlement tells the trace from others
  (`SettlementBindsHolds`). Types and trees depend on one another: a trace that is
  not dense would have no settlement of the right kind.

  `build` is a recursive function, and what it computes is proved without an induction
  theorem: a set of naturals has a least member (`LeastMember`, from `WFMin`), so the
  first node in which two trees differ has a parent in which they differ, which is absurd
  (`SettleBinds`). That the recursive definition means anything is proved the same way:
  a tree can be filled from its end (`TreeGrows`, `TreeExists`), as `build` fills it.

* `Surfaces_proofs`: a step of the whole is a step of the part at work (`Steps`), so
  each part has an invariant of its own. `PromotionEarnedHolds`, with commands one after
  another (`Serial`): nothing between the check that a manifest is verified and the
  write that says promoted is checked again, so `CommandInv` says of a command, from the
  writes it has left, what it has found and done (a manifest to come has a worker that
  was written and is marked torn, a verification to come has run the worker that the
  manifest names, a gap to update has its verification or promotion behind it). Its
  hypothesis `BuiltInApart` is about names: the verification of a built-in capability
  runs no worker file, but `update_capability_verification` (`capabilities.rs` 2377)
  writes the outcome into whatever manifest has its sanitized name, so a custom
  capability whose name is sanitized to the same file would be called verified without
  having run.
  `ProvidersAgreeHolds` needs no hypothesis: a command may die at any write, and the
  operator may log in elsewhere or change the key between any two. `AccountIsChosen` is not inductive: it speaks of the file of a ready
  profile, and whether the profile is ready changes with the next login elsewhere, so
  `ChosenStands` says of the file of a chosen account that it holds that account, ready
  or not. `AccountFacts` bounds the auth store by the table (a profile the store knows is
  one of the table's, one the table lacks has no failure), so that `StoreFollowsTable`
  survives a sync that drops entries, and `AccountCommandInv` says what a login, an
  onboarding, a rotation and a revocation have written before the write they have left,
  the audit line last.
  `ShadowStandsHolds` is the shadow runs' part of `EvidenceStands`, also without a
  hypothesis and for commands that do overlap. `ChargedIsProved` speaks of the treasury
  and the proof files; what carries it is that a settlement keeps the run it has read
  (bound, from then on) while others write `last_execution.json`, so `Placed` says of a
  command which run it holds and which of its files are written. `SettledIsCharged` needs
  that no two commands have one number, that nothing is charged under a number before its
  command reserves (`Paid`), and that a commit takes only a reservation of its own.
  `CapturedInForce` is proved of every run recorded, whichever of its files exist.
  `EvidenceStandsHolds` is the whole bundle: those and the parts of `Gates` and `Parity`.
  What a preflight, a comparison or a verification has told stands because `GatesInv` says,
  of a command by the place it is at, which lines it has emitted, which proofs it has written
  and what it will answer (`LinesInv`), and of the last answer which files it can still be
  read off. A comparison answers by counting lines that match, which TLC sees as a number;
  `ComparisonOfOne` is therefore about a log that is one preflight's, where the lines are
  seven and known. In `ParityInv`, `EvidenceInv` says of each file which execution it is of,
  which files that were written before it must then exist, and `WritesInv` which of the ten
  files of its chain the execution at work has written; that the summary, the comparison and
  the job then state one outcome is a matter of cases (`SaysItself`).
  `LoopsAgreeHolds` has no hypothesis either: loops run beside each other and die anywhere.
  Two of its four properties speak of every process, two of one that ran alone, and neither
  kind is inductive. `TellInv` bounds the lines in the log, and in every copy of it that a
  process has read and will write back, by what the passes did less the pass whose line is
  still to come, since one loop may bring back a log that lacks another's lines but never one
  with a line too many. `ExactInv` says, while no two ran at once and of those whose lines no death in a rewrite
  has lost (`cut`), that a copy is the log and that only that one line is missing; `StateInv` that the state file names the daemon at
  work, and `LateInv` that a daemon which began a pass after the request meets the request
  next. A log is counted by the cardinality of the set of its lines, not by a fold over it,
  so that adding a line is a fact about finite sets (`ToldAppend`) and needs no induction.

* `Conversations_proofs`, in the same manner for `Channels` and `Sessions`:
  `ConversationsAgreeHolds`, with the commands of the channels one after another (`Serial`;
  the sessions need nothing of the kind), for any number of deliveries, requests, overrides,
  runs and deaths. In `ChannelInv` the writes a command has left say which files agree
  already: `AgentAt`, by their number, what the nine writes of a connect or a disconnect
  have brought about, `DeliveryInv` that the delivery it has in hand is the one on disk, and
  `FilesAgree` that registry, health and diagnostics agree except where that command is
  still to write them. `SessionInv` has a recording and a command of the operator beside
  each other: `RecordingInv` says that what the recording has read was in force at some
  moment of it, `PipelinesInv` that each run has the number of a recording, the last one
  that of the recording at work, `IndexInv` that the runs of a request its index does not
  name are no more than the crashes and the run about to be indexed (`IndexStays` counts
  them). `SessionLeads` speaks of finished runs only and is not inductive: `LeadsRecording`
  says how far the recording at work has brought its session, `HeldInv` that a copy of the
  registry is the registry while nobody else has it, and `RegistryStep` that a registry
  rewritten by a later recording or by the operator still says what it said of the runs.

The type invariants of these modules and the inductive invariants (`SerialInv`,
`CalmInv`, `IngressInv`, `BookInv`, `LogInv`, `LifecycleInv`, `ServedInv`,
`FamilyInv`, `BackoffInv`, `JobInv`, `StoreInv`, `AnswerInv`, `CapabilityInv`,
`AccountInv`, `ShadowInv`, `GatesInv`, `ParityInv`, `LoopsInv`, `ChannelInv`,
`SessionInv`) are proved, so no run lists them. The assumptions `SingleActor`, `NoCrash`, `Serial` and `FreshPids` are
needed too: the configurations `FindLostCancel`, `FindQueuedWithoutRecord`,
`FindTwoServices` and `ServiceSerial` with `FreshPids` false show what happens without them, and TLC refutes
`DispatchedOnce` and `DeliveredOnce` on the instance of `Recurring.cfg` with `Serial`
false, `OneWorker` on that of `Agent.cfg` with `Patient` false, and `ConversationsAgree` on
that of `Surfaces.cfg` with two operators and `Serial` false.

Only model-checked: everything about liveness (`Drains`, `StopHonoured`,
`RequestsAccepted`, `DeliveriesImported`, `DueIsServed`, `AlwaysRecovers`,
`StopEndsAgent`), which with `ENABLED` is out of the prover's reach; and the three bundles
of `Holdings`: `ConnectorsAgree`, `MemoryAgrees` and `InstallsAgree`. They rest on what a
selection or a fold does to a whole sequence (the rate of an adapter counted from its audit
trail, the order of synced documents, the last receipt of a skill), which takes induction
over the data.
`AggregateBinds` of `PoGETrace` is stated for TLC and proved for no bound.

## 5. Budget

`BudgetOnce` cannot be read off one function: the status that decides whether to
settle is set in `reserve_runtime_budget`, the outcome that decides how in the
worker's dispatch, and each step between may fail. `BookInv` says, for each
execution, how the status it carries relates to the treasury's (they differ only
where a settlement failed, and then the status names the failure), and what its
place tells of the worker: none before the dispatch, none at all when the gates
or the treasury refused. From there the refinement is one step of `BudgetOnce`
per step of `Reserve`, `Dispatch`, `TakeResult`, `RunWasm` and `Finalize`, and a
stutter otherwise.

The treasury may keep a reservation for ever: after a settlement it failed, an
error or a death. `BudgetOnce` allows it, `BooksAgree` says that an execution that
ended with `Ok` names it. A treasury that is missing or fails at the reservation
does not stop the worker; only a refusal does. `AuditComplete`
is claimed as long as no executions have overlapped (the history variable
`overlapped`), and not of the lines that were in the log when an execution died in
the rewrite of it (`lost`); `AuditKept`, which drops the condition, is refuted on the same
instance.

## 6. What is not modelled

* Job approval: nothing in the code puts a job in `Suspended`, so `approve_job`
  (`lib.rs` 4885-4919) always ends with `Err`.
* Pending records directly under `queue/`, which older versions wrote.
* Torn tables of the queue: they cannot be parsed and nothing recovers from them,
  so no behaviour follows a death in such a write.
* Malformed requests and unreadable files, authentication, the read-only HTTP
  routes, and all rendering.
* The three seconds a background start waits for its child to report health.
* Fuel and memory limits of guests, models and endpoints of provider routes,
  warrant signatures.
* Searching and recalling in the memory (they only read), ingested channel
  messages (one new file each), the desktop transport's own history.
* Event sourcing, the marketplace and the advanced primitives
  (`advanced_primitives.rs` and its neighbours), `memory_hybrid.rs`, skill locks and
  `execute_pipeline_step`: nothing but their own tests uses them.
* What the gates answer is an input of `RuntimeExecution` and `WasmHost`; `Gates` has how
  they come to it. The kernel's own court, treasury and registry are external.
* In `Setup`: the interactive dialogue over providers, the daemon an onboarding may
  start, and the doctor's counts of what registries hold. In `Provisioning`: the seven
  agents every agent registry is made with and the files a workspace is only once
  furnished with.
* The HTTP routes of the ingress that import deliveries and cancel jobs, between the
  steps of another request: cancelling is modelled with the queue and importing with
  the ingress, each with the death and the retry that concern it.
* What registries list, views, and the parsing and wording of the command line: they
  are derived again on each call. When registries are written is in `Setup`.
