# A TLA+ verification of the distributed coding-agent platform

The platform accepts coding tasks through an HTTP API, stores each as a *run* in
PostgreSQL, and lets worker processes claim runs under leases, drive the model and
tool loop in a sandbox, and record everything they do as durable, fenced writes.
PostgreSQL is the only coordinator: there is no leader and no consensus. What is
hard is therefore what its rows allow several processes to do when they pause,
die, retry or disagree about the time.

## 1. The system and its parts

| part | source | state it keeps | operations | module |
|---|---|---|---|---|
| run aggregate | `agent-core/domain/transitions.py`, `models.py` | status, attempt, epoch, owner, expiry, cancellation | `transition_run`, `rewind_run` | `RunStateMachine` |
| run queue | `persistence/distributed.py` (`PostgresRunQueue`), `fencing.py` | `runs`, `run_leases`, `workers` | register, heartbeat, drain, claim, start, heartbeat, finish, recover, authorize sandbox | `RunQueue` |
| workspace leases | `persistence/distributed.py` (`PostgresWorkspaceLeaseStore`) | `workspace_leases` | acquire, heartbeat, release | `RunQueue` |
| run and approval repositories | `persistence/repositories.py` | `runs`, `approvals` | create, cancel, rewind, decide | `RunQueue` |
| agent loop, execution journal, recovery store, executor | `agent-core/loop.py`, `_tool_turn.py`, `_model_turn.py`, `persistence/repositories.py`, `distributed.py`, `agent-worker/executor.py` | conversation, tool rows, approvals, checkpoints, transcript | model turn, tool turn, suspension, recovery | `ToolJournal` |
| worker service and sandbox registry | `agent-worker/service.py`, `production.py`, `sandbox-node-agent/registry.py` | slots, tasks, heartbeats, sandboxes | claim, phases of an attempt, time limit, drain, close | `WorkerService` |
| event store and streams | `event-store/postgres.py`, `agent-api/events.py` | `events` per run, sequence counter | append, deliveries, fenced append, pages, live replay | `EventLog`, `EventFeed` |
| gateway client, capacity and policies | `gateway-client/*`, `persistence/capacity.py`, `gateway_store.py`, `gateway_policies.py` | request rows, capacity leases, token window, rate and circuit rows | claim, acquire, renew, attempt, complete, release | `Gateway` |
| context pipeline and compaction | `agent-core/context.py`, `agent-worker/context.py`, `persistence/context_management.py` | summaries, watermarks, transcript positions | request, build, complete, fail, rewind | `SessionContext` |
| memory jobs | `scheduler/memory.py`, `persistence/context_management.py` | memories, extraction jobs | enqueue, claim, extract, complete, archive | `MemoryJobs` |
| task plans | `agent-core/control.py`, `persistence/context_management.py` | versioned plans, copies in checkpoints | read, update, checkpoint, rewind | `TaskPlans` |
| sandbox runtime | `sandbox-runtime/*` | containers, worktree, snapshots, locks | create, execute, edit, snapshot, restore, cancel, destroy | `Sandbox` |
| command line, local session | `cli/*`, `sandbox-runtime/checkpoints.py` | transcript, checkpoints, worktree, patch | run, tool, interrupt, final patch | `LocalSession` |
| workspaces and source snapshots | `persistence/workspaces.py`, `artifact-store/validation.py` | snapshots, validation jobs, workspace head | upload, finalize, claim, complete, reject | `SourceSnapshots` |
| data lifecycle | `persistence/lifecycle.py`, `agent-core/lifecycle_service.py` | holds, deletion outbox, tenant status, exports | hold, enqueue, lease, delete, finalize, export | `DataLifecycle`, `AuditExports` |
| wake-ups, telemetry, release scripts | `queue-wakeup`, `telemetry`, `scripts` | none that matters for correctness | hints, metrics, builds | not modelled |

Hard behaviours: leases that expire while their owner is only slow; clocks of the
hosts that differ from the database's; crashes between two durable steps of one
execution; a decision, cancellation or rewind that arrives while another process
holds the run; answers that are lost and calls that are repeated; row locks taken in
two orders; threads that go on after the call that started them was given up;
transactions that read, one after the other, what others are changing. What makes the
parts correct: only the newest lease of a run writes or executes; what a dead owner
held comes back; nothing a user asked for is lost; no result is overwritten; no limit
is exceeded; repeating a call is harmless; and whatever was begun ends.

## 2. Modules

| module | state ↔ code |
|---|---|
| `RunStateMachine` | `RunRow` is the aggregate plus `lease_generation` and `retry_ready_at`; `transition_run` and `rewind_run` keep their names |
| `RunQueue` | one variable per table; `held`/`heldWs` are the lease objects in processes' memory; `writer` is the fence of the last accepted durable write |
| `ToolJournal` | `row`, `approval`, `checkpoint`, `messages` are the tables; `att` is what the worker's loop and executor hold in memory |
| `EventFeed` | the abstract feed: one growing log, each follower has received a prefix of it |
| `EventLog` | `rows`, `next` are the events and the run's counter; `txn` is what an open transaction has read; `stream`, `got` are the followers' connections and what they received |
| `WorkerService` | `pc`, `op`, `beat` are a task's position, the phase it awaits and its heartbeat; `exec`, `held`, `node` the executions and the sandboxes of the worker and the node |
| `Sandbox` | creation, commands and containers, cancellation, exclusive operations, removal, edits in threads, and the worker's calls; one variable per field of the sandbox that decides |
| `Gateway` | `phase`, `call`, `beat` are the client's calls; `request`, `rate`, `lease`, `route`, `circuit` the tables |
| `SessionContext` | `msgs`, `comps`, `ckpts` the tables; `build[w]` what a context build has read |
| `MemoryJobs`, `TaskPlans`, `SourceSnapshots`, `DataLifecycle`, `AuditExports` | the tables of the component and, per process, the position in its handler and what it has read |
| `LocalSession` | the worktree, the in-memory checkpoint records, the transcript and the final patch |
| `DataServices` | the composition of SourceSnapshots, DataLifecycle and AuditExports, with the variables of all three |
| `SessionData` | the composition of MemoryJobs, TaskPlans and LocalSession, with the variables of all three |
| `MC*` | the instances for TLC |
| `RunQueueProofs`, `ToolJournalProofs`, `SessionContextProofs`, `WorkerServiceProofs`, `EventLogProofs`, `GatewayProofs`, `DataServicesProofs`, `SandboxProofs` | the theorems, section 6 |

`DataServices` and `SessionData` each hold several components that share no state:
the initial state picks one, and the others rest, so that a behaviour is one of a single
component.

### RunQueue

**Time.** Instants are kept relative to the database clock, so the state space is
finite without a cap on time: `Tick` brings every future instant closer by one, and an
instant past on all clocks (`-MaxSkew`) stays there. Each host passes its own clock
(`occurred_at`) as an offset of at most `MaxSkew`; `assert_active_run_lease` uses the
database's (`clock_timestamp()`), offset 0. Heartbeats and registrations that the code
refuses because the same host's clock went backwards are not modelled: a host's
offset is constant.

**Atomicity.** Each operation is one transaction that takes its rows `FOR UPDATE`; it
is one action. `SKIP LOCKED` and the claim order are a free choice among eligible rows.
An operation that raises or returns early changes nothing and is no step.

**Crashes.** A process that dies simply makes no more calls; one that is paused makes
them late. Every lease object ever returned stays in `held`, and every operation may be
called with every one of them, so superseded owners are always present.

**Abstracted.** Priorities, routes, sessions and the wake-up hints sent after commit (the
workers poll regardless); `completed_at` and checkpoint identities; the cause of a failure.

### ToolJournal

**Steps.** An action is what happens between two points at which a worker can die with
something durable done: a fenced transaction, or a tool that has changed the sandbox. A
turn is driven by `att.pc`: `model` → `stream` (calls are stored as they are named) →
`turn` (validity and approvals of the whole turn) → `call` … (one call after the other,
with checkpoint, tool, finalization or rollback) → `journal` (the results go to the
transcript) → `emit` (only now the executor sees the events and writes the tool rows) →
`model` or `finish`. The order is the code's: `AgentLoop.run` journals before it yields
the report's events, and the executor handles an event before the generator goes on.

**Crashes.** `Crash` discards `att` and requeues the run: the death of the worker and the
scheduler's recovery (LOST, then QUEUED), whose interleavings are RunQueue's subject. Its
theorems and runs are the reason that one attempt at a time is enough here: a superseded
attempt can neither write nor execute.

**Data.** A call is an identifier together with its name and arguments; what it does is
the constant `Effect` (`read_only` also stands for tools that change only control state).
A workspace is the sequence of changes made in it, each marked with the epoch that made
it; a result records the workspace it saw. An instant is a position among the
checkpoints, since all that is compared is `completed_at >= created_at`.

**Conversation.** Without compaction the conversation of an attempt *is* the stored
transcript and its positions agree between attempts; what compaction does to them is
SessionContext's subject.

### EventLog

An append takes the run's row `FOR UPDATE`, checks the lease and the delivery key, takes
the next sequence number and commits: two steps, so that the lock and an answer that is
lost (the commit happened, the caller repeats) are in the model. A follower reads pages
bounded by a count and by bytes, may be disconnected with part of a page sent, and
reconnects with the last cursor it saw. `rows` is kept in the order of the commits; that a
query ordered by sequence number returns them in that order (`InOrder`, `After`) is a
consequence that the refinement needs, not an assumption. The mapping to `EventFeed` is
`log <- rows`, what was committed, and what each follower has received.

### WorkerService

One worker process: the claim loop, the tasks of its leases, their heartbeats and their
executions, which go on after their task has stopped waiting. When two things a task
awaits are ready in one turn of the event loop, either may be handled first, as the code
does. A lease may be lost at any time, the answer to a claim may be lost (`stray`), and a
heartbeat ends because the lease is lost, a cancellation was asked for, or its call raised a
domain error or any other exception (`beat`). A slot that is granted in the turn in which the
heartbeat ends is recorded by no task: `leaked` holds these, `SlotsAddUp` says that a slot is
lost in no other way, and `AttemptsEnd` claims nothing of waits once every slot has leaked.

### Sandbox

The node's tasks and threads, the user who edits the checkout during creation, and a
worker that makes calls, one at a time, and may give one up: the thread goes on. A
container that runs may write until it is removed. `promised` and `strays` are history
variables. The baseline comparison is by content, so that an edit undone between two
readings is seen as no edit, which is what a fingerprint does. That is also its limit:
tracked and untracked files are each read twice, and a user who changes both and changes
both back between the readings leaves a baseline that the checkout never was
(`git_workspace.py:738-772`). It takes six edits during one capture, which the run has; the
history variable `undone` notes which half was changed back, and `BaselineWasReal` claims
nothing when both were.

The end of `execute` runs in an unshielded `finally`: a cancellation there (`Interrupt`) may
keep the container from being removed and always keeps the command slot (`lost`). The container
is still in the list of those to be removed; no later command gets the slot, which is the one
exception of `SandboxWorkEnds`. A creation whose worktree cannot be removed keeps its
allocation.

### Gateway

Acquire and release lock their rows in two steps and in opposite orders; `DeadlockVictim`
is the database ending one of two that wait for each other. Request identifiers are the
caller's; a lease identifier is the request's. One route. The in-memory stores of the client
follow the same rules. The rate limiter and the circuit breaker read the clock of their host
before they open the session and lock the row (`gateway_policies.py:133, 163`): the time of
such a transaction is one of `Stamps`, at most `Lag` behind its commit. The code does not
bound `Lag`; from `Lag = Recovery` on `ProbesAreApart` claims nothing. A failure that is
stored late dates the opening of the circuit back and takes the probe of another call away.
`MaxFaults` bounds lost answers, store failures, cancellations, crashes and closes.

### SessionContext

A build reads the latest summary, the pending request, the proactive threshold and the
history in four transactions, and completes in a fifth; each is an action. Which completed
row is the latest is decided by clocks of different hosts, so it may be any. A summary is the
set of texts that *may* be in it: `_bounded_compression_source` leaves out fragments that do
not fit, the model what it likes, and `_fit_summary` cuts the answer. Properties therefore say
what is not in a summary (`SummaryWithinWatermark`, `AbandonedFutureStaysOut`) and which messages
a build had before it (`HistoryHasNoGap`), never what a summary tells. `past` is history: the
texts of the branch and of what came before it. A message at a taken position is stored again
if it is the same and fails the attempt otherwise. One run per session.

### Background components

DataLifecycle follows an object through three places that are written apart: the store
(`stored`), its row (`rows`) and its deletion job (`outbox`). A snapshot's row is written
before the client uploads it with its URL, whenever it likes; a patch is uploaded by the
sandbox before the worker writes its row under the lease, and also by a sandbox whose worker
has lost the run. An operation that was admitted before the tenant was closed is performed
later; a workspace or a session needs no parent row. `loose` is history: the objects that had
no row, or whose deletion had been asked for, when they were uploaded. Nothing in the
repository sets `expires_at` of a patch, so what the retention scan finds was set by an
operator. Claims select rows before they take the tenant's lock, as the code does.

In LocalSession a thread that edits a file goes on when its tool has run out of time or was
interrupted (`late`), and its change reaches the worktree at any later time, also after the
restore (`strays`).

In SourceSnapshots the content of an archive is a verdict, `Sound`. In MemoryJobs the
source of a job is read in another transaction than its claim, and the final transaction reads
the opt-out, without a lock, in another step than it commits. AuditExports has the pages
of one export while the log grows.

## 3. Runs

| run | instance | what it checks |
|---|---|---|
| `fencing` | one run, two workers, two claims, which a rewind may separate; one worker's clock ahead of the database's, the scheduler's behind it | a superseded lease neither writes (`FencesHold`) nor executes (`ExclusiveSandbox`); run and lease rows agree (`LeaseMirrorsRun`, `WorkspaceOwnerHasLease`, `RowsAgree`); a result is final (`ResultsAreFinal`) |
| `contention` | two runs on one workspace, one worker with two slots that may stop at any point, fair scheduler and clock | types, `SlotsNeverOversold`, and `RunsReturn`: no dead owner and no retry delay keeps a run |
| `crashes` | two mutations, a reading call and one the platform refuses, which may repeat its identifier, two crashes anywhere | `WorkspaceMatchesJournal`: no change is there twice, only finalized ones are, and none of a tool that failed; `CompletedIsRestored`; `ResultsAnswerCalls` |
| `approvals` | mutation and question under `require_sensitive`, identifiers repeated in and across turns, a rewind, one crash, fair workers | `ApprovedAndOnce`, `OutcomesAreFinal`, `RunSettles` |
| `lost_mutation` | two mutations under `require_sensitive`, one crash | **violation**: after a suspension recovery goes to an older checkpoint and a recorded change is missing |
| `events` | two owners, a rewind, a plain append, one follower that is disconnected once | `DeliveriesAreIdempotent`; EventLog implements EventFeed (`ImplementsFeed`); `FollowersCatchUp` |
| `worker` | two leases, two tasks, one sandbox slot, a node with one place, one fault, any heartbeat error | `SandboxesAreAccountedFor`, `AttemptsEnd` |
| `sandbox` | two commands, two edits, two snapshots, four calls, six changes of the checkout, one failing removal | `ContainersAreAccountedFor`, `RestoreHolds`, `NoTornOrLostContent`, `SandboxWorkEnds` |
| `gateway` | two calls of two clients, of one request or two, of one tenant or two; times one unit behind | `RequestsAreIdempotent`, `DeliveredIsDurable`, `CapacityIsAccounted`, `ProbesAreApart`, `CallsEnd` |
| `context` | two workers, one of them stale, six messages, two compactions, a rewind | `CompactionsAreSound`, `AbandonedFutureStaysOut` |
| `session_data` | two memory processes with two runs; a client, two attempts and a rewind on a task plan; a local session of two tasks | `MemoryFollowsTheUser`, `MemoryJobsEnd`; `PlansAreKept`; `SessionAddsUp` |
| `data_services` | two validators with two snapshots; two deletion workers with two objects and a hold; two calls of one export | `HeadsAreSound`; `DeletionIsClean`; `ExportIsEvidence`; `VerdictsStand`; `ServicesFinish` |

A property that is a conjunction has its parts defined, and commented, just before it in
the component's module.

**Bounds.** In RunQueue `MaxGen`, `MaxEpoch` and `MaxWsGen` allow an owner and a
successor, in one epoch or on either side of a rewind, which is what a fence argument
needs; `LeaseTtl = 2` lets a lease be renewed before it expires; two runs are the smallest
instance in which claims, slots and workspaces compete, and `RecoveryLimit` lets one
recovery transaction take both. In ToolJournal two turns of two calls give every pair of
calls in one turn and in two; two crashes let the second hit what the first one's recovery
does; `MaxSemanticRetries` is 0 there, so that a rejected turn ends the run.
In EventLog two owners and two epochs give a takeover and a rewind, pages hold less
than the log. Elsewhere two of each kind of process are the smallest number that compete,
attempts are bounded by 2 or 3 so that the last one is reached, and one or two faults per
behaviour let each failure happen at every point. `MaxSourceEdits = 6` is the smallest number
of edits with which both halves of the checkout can be changed back unseen (section 2,
Sandbox); `Lag = 1` with `Recovery = 2` lets a late failure bring a probe forward. `MAX_SNAPSHOT_VALIDATION_ATTEMPTS` is 100
in the code; 3 is more than the two faults that can use attempts up.

**Fairness.** RunQueue: time passes, and for each run a recovery transaction that can take
it is eventually made (`SchedulerService.serve` polls for ever and `recover_expired` serves
the oldest deadlines first); workers, users and the API are under no fairness. ToolJournal:
a worker that lives goes on (its waits have time limits) and a queued run is claimed.
EventLog: a follower reconnects and the server goes on sending. WorkerService: every call
returns, the heartbeat beats and the time limit is reached; a loop may run for ever unless
it is cancelled. Sandbox: the node's tasks and threads go on, nothing is asked of the
worker, the user or the commands beyond their time limit. Gateway, MemoryJobs,
SourceSnapshots and DataLifecycle: something that can happen by itself happens
(`WF_vars(Progress)`), which is the least a running process gives; their liveness
properties are of the form `[]<>` *all is done*.

## 4. Disagreements

`lost_mutation` is the one disagreement with a run: ADR 0019 promises that a recovered
attempt has the changes of its completed calls; `findings` in `PROJECT.json` quotes both
sides. `CompletedIsRestored` holds in `crashes`, where no run is suspended.

Modelling met more, which have no run of their own. The models take the steps, and where a
property would be false of the code it names the exception. Paths are under `src/`.

* An approval decided before its run is suspended is recorded and wakes nobody: `decide`
  requeues only a run that is WAITING_APPROVAL already (`persistence/repositories.py:932`;
  `docs/architecture/reliability.md:12`).
* A worker that dies after `complete_checkpoint_fenced` and before the tool row makes the
  replacement create a second checkpoint for the call, which a constraint refuses
  (`persistence/models.py:927`; `DESIGN.md:1137`).
* An approved call of a later turn is stored again under turn 1 when the run resumes, which
  fails it (`agent-worker/executor.py:330`; `reliability.md:12`).
* The answer to `ask_user` takes its row from WAITING_APPROVAL to COMPLETED, which the
  transition table refuses (`repositories.py:66`; `agent-core/control_tools.py:94`).
* A rewind into a turn drops the results of the turn's earlier calls
  (`repositories.py:765`; `reliability.md:10`).
* Cancelling a run in RETRY_PENDING leaves `retry_ready_at` set, which the table's own
  constraint refuses, so the request fails until the retry is due (`repositories.py:626`).
* ADR 0019 line 58 says that a finalized revision without a terminal tool row is rolled
  back; recovery keeps it (`persistence/distributed.py:1723`).
* A worker that dies after storing a call as WAITING_APPROVAL and before suspending the run
  makes the next attempt fail with `recovery_approval_incomplete` (`distributed.py:1628`).
* A call that fails after its revision was finalized is rolled back in the sandbox, but its
  change is in the stored snapshot that a replacement restores (`_tool_turn.py:580`; ADR 0019
  line 58): `FailedToolLeavesNoTrace` is about calls that their tool failed.
* The heartbeat ending in the turn of the event loop in which a slot is granted loses the
  slot (`agent-worker/service.py:291`; `docs/reviews/sequence-21-24-review.md:57`). A heartbeat
  that raises something other than a domain error skips the release of the workspace (356).
* A cancellation during the cleanup of a command loses the command slot
  (`sandbox-runtime/podman.py:359-374`); later commands wait until the sandbox is removed.
* A checkout whose tracked and untracked files are both changed and changed back during a
  capture is accepted (`git_workspace.py:738`), where ADR 0007 line 116 has changes fail closed.
* A late failure report clears the probe of another call and dates the opening back, so that
  the next probe comes before the recovery interval is over (`gateway_policies.py:163`;
  ADR 0013 lines 35–36).
* A renewal stopped between commit and answer leaves the client with an old lease, which
  release refuses (`gateway_client/client.py:471`; `docs/adr/0021-…:22`).
* A build that completes a compaction moves the watermark over the messages it kept
  verbatim; the next build has them nowhere (`agent-worker/context.py:350`; `README.md:404`).
  Fragments that do not fit the compressor's input are lost likewise (`context.py:839`).
* A stale build may complete a compaction requested after a rewind with a summary of the
  abandoned branch (`context_management.py:510`; `docs/adr/0034-…:28`), the one exception of
  `AbandonedFutureStaysOut`. The proactive
  compaction records the lease's route, not the summarization route of `README.md:407`.
* After a compaction a resumed run writes at positions that are taken and fails with
  `transcript_message_conflict` (`repositories.py:1076`); rows copied by a rewind can share a
  position, and the branch is then unable to rewind again (795); the history limit can leave a compaction pending for ever.
* Memories are deduplicated by session, epoch, kind and hash, so a fact of a rewound branch
  hides the same fact of another run; a deleted memory can be extracted again under a later
  epoch number (`context_management.py:939`). An opt-out that is committed while a job's last
  transaction is open does not stop it (915).
* A recovering worker takes the plan of the checkpoint (`docs/adr/0033-…:28`) where
  ADR 0019 line 32 speaks of the newest; task updates are not fenced, and a version number
  may return in another branch.
* A snapshot finalized before the head it saw was replaced conflicts until its attempts are
  used up and stays VALIDATING; a job whose last attempt dies is never claimed again.
* A deletion worker whose lease ran out still deletes the object, also after a hold was
  placed (`docs/operations/data-lifecycle-and-recovery.md:15`, ADR 0038 lines 33–34).
* A patch that was uploaded and never recorded, an upload with an old URL and a workspace or
  session that was admitted before the tenant was closed outlive the tenant
  (`sandbox-node-agent/production.py:244`, `agent-api/app.py:350`; ADR 0038 lines 40–41).
* An audit export repeated after a crash between upload and completion fails for good if an
  entry with an earlier time was added.
* A late edit of a call that was given up may follow a restore (`sandbox-runtime/tools.py:384`;
  `docs/adr/0007-…:101`), on a node and in a local session;
  `write_file_atomic` of a new file needs `require_absent`; the node releases the source
  before the worktree (`sandbox-node-agent/production.py:273`).
* The final patch after a failed restore may contain a failed tool's change.

## 5. Not modelled

* Byte and count limits other than the named ones, token estimates, prices, prompt layout,
  redaction, formats, searches, path and symbolic-link checks, TLS and authentication:
  sequential code whose result the models take as a choice.
* Queue wake-ups (hints that nothing depends on), telemetry, release scripts.
* Fallback routes of the gateway; a late failure report of a model call
  (`repositories.py:1464`, the one journal write without a fence); claim order and aging.
* The time after which a presigned URL is refused (uploads with it may come at any time);
  checkpoint archives, which have no artifact row.
* `rewind` and `reset` of the in-memory session, which nothing calls.

## 6. Proofs

TLAPS proves the theorems below for every value of the constants that the named
assumptions of the modules allow: any number of runs, workers, calls, clients, leases,
snapshots, commands, and any limits, durations and clock offsets. The bounds of the
models (`MaxGen`, `MaxTime`, `MaxFaults`, …) are constants too, so a theorem holds for every
bound. The assumptions say that the counted tables are finite, that limits and durations
are natural numbers (positive where the code's configuration requires it), that functions
on runs or calls have their types, and that `None` is none of the values it is compared
with. TLC evaluates them in every run.

Each inductive invariant was checked by TLC on the run's instance before it was proved.

### Run queue (`RunQueueProofs`)

`TypeCorrect`, `LeaseAndRunAgree` (`LeaseMirrorsRun`) and `NoOrphanedWorkspace`
(`WorkspaceOwnerHasLease`) are inductive together: a step of any operation is, for one run,
a move of five kinds (`OwnershipMove`: kept, moved while unassigned, granted, renewed,
ended), and each keeps the mirror.

The second half of the module does the same for the row itself: `RowMove` names the eleven things a
transaction does to one run, and every action is shown to be one of them for every run.
From it

* `ResultsStand` (`ResultsAreFinal`): only `RowRewound` leaves a terminal status, with a
  greater epoch;
* `RowsStayConsistent` (`RowsAgree`): needs `RowSound` (attempts and epochs bounded by the
  generation, and an absent row has the counters of a new one, or the creation would break
  the rest) and `ExpiriesNested` (a lease never reaches beyond its worker's clock plus the
  duration, `Horizon`, without which a renewal could shorten it and leave the workspace's
  writer with the longer one);
* `FencesOrderOwners` (`FencesHold`): needs `WriterBehind`, that the last accepted write is
  never ahead of the run's counters;
* `OneSandboxPerWorkspace` (`ExclusiveSandbox`): needs `HeldOrdered`, about every lease
  object in any process's memory, since a superseded one may be presented at any time;
* `SlotsHold` (`SlotsNeverOversold`): needs that a worker that never registered has no lease.

### Worker service (`WorkerServiceProofs`)

`WorkerAccountsForSandboxes` (`SandboxesAreAccountedFor`). The invariant has a share of each
lease (`TaskSound`, `ExecSound`), which only that lease's tasks disturb (`OthersSame`), and
what they share: `SlotsSound` counts the slots taken together with those just granted,
since a slot is handed over by one step and noticed by another, or leaked if the heartbeat
ends in between.

### Tool turns and their journal (`ToolJournalProofs`)

Five theorems of ToolJournal, for any calls and turns, every approval mode, crashes anywhere,
repeated identifiers and rewinds. None of the properties is inductive: a crash at any step
brings the attempt back from the tables, so the invariant has to say what the tables and the
attempt's memory know of each other at every `att.pc`.

* `Control` and `Decisions`: an attempt is under way exactly while the run is `running`; only
  an attempt that is leaving its turn has used up its retries; a request for a decision is
  stored once and for a row that exists, and what the attempt takes for a decision is the one in the
  table.
* `Trees`: each change of the attempt's workspace, and of every stored one, is there once, had
  a checkpoint of its call in its epoch, and was approved if it had to be.
* `ToolRuns`: while a tool runs, the newest checkpoint was made for it, the workspace is that
  checkpoint's (with the change, once the tool has returned), and no stored workspace has the
  change. This is why a tool never runs twice in an epoch: `CreateCheckpoint` refuses a
  call that has a checkpoint.
* `Failures` and `Restored` follow the state of a call through the three places that report it,
  the row, the loop's outcomes and the events not yet stored (`Reports`).
* `Transcript`: the stored transcript, and each version of it that a checkpoint kept, answers
  calls; and the turn that is open ends with its assistant message.

From it: `WorkspaceTheorem` (`WorkspaceMatchesJournal`), `ApprovalTheorem`
(`ApprovedAndOnce`), `TranscriptTheorem` (`ResultsAnswerCalls`), `OutcomesTheorem`
(`OutcomesAreFinal`, an action property: of all actions, only those that save a call, decide or
rewind write a row) and `RestoredTheorem`: `CompletedIsRestored` while `run.last = 0`. The
hypothesis is where the code stops keeping the property: once `finish` or `rewind` has selected a
checkpoint, later attempts are restored from it and not from the newest one, which is the
finding of `lost_mutation` (section 4).

### Conversation and compactions (`SessionContextProofs`)

`SessionCompactions` (`CompactionsAreSound`) and `AbandonedFutureIsLeftOut`
(`AbandonedFutureStaysOut`).
A build reads its inputs in four transactions and nothing fences it, so the invariant says, of
each build at each `pc`, what its reads still mean for the tables as they are now:

* `RowsSound`: only the newest row can be pending, and the watermarks are in the order of the
  rows. With it `WatermarksGrow` follows from `OutcomesAreFinal`: what completes is the last row.
* `Within`: the build of the lease's holder, and any build that has the pending row in hand, has
  read nothing beyond that row's watermark. A build without either can end no row and make no
  checkpoint. The checkpoint that recovery uses obeys the same bound (`CheckpointsSound`), since
  its summary is where the next build starts.
* `Accounts`: what precedes the watermark a build has read was summarised in what it has read or
  kept by a completed row, and what it loaded reaches from there to the watermark of its pending row;
  `Accounted` is `HistoryHasNoGap` over the tables.
* `Past`, for the second theorem: the messages of the branch, the summaries of its generation, the
  checkpoint that recovery uses and what a build of the branch has read are of the branch's
  past, and each checkpoint carries the past a rewind to it returns to; until a build has gone
  astray (`astray`), which the history variable remembers.

The parts are predicates of the tables (`M`, `C`, `K`, `E`), so one lemma for each way the
tables grow (`MessagesAdded`, `RowRequested`, `PendingEnded`) serves every build that did not
take the step. A rewind opens a generation that no row is of, so `Accounted` begins anew; the branch
it seeds is not empty because a checkpoint is made of a stored message. `InOrderIs` shows, by the
pigeonhole theorem, that ordering the loaded rows by rank loses none. The assumptions are that
API keys are numbers and that `NoWorker` is no worker.

### Event store (`EventLogProofs`)

`RepeatsAreHarmless` (`DeliveriesAreIdempotent`) rests on `TxnSound`: while a transaction has
the run's row locked nothing it has read changes, and its event is not stored yet; and on
`RowSound`: a lease's stored rows are at most one ahead of what it knows, so a repetition
meets its own event under its own key.

`EventStoreIsAFeed` (`ImplementsFeed`) is the refinement of `EventFeed`: the initial states
agree, every commit is an append, every page sent to a follower extends its prefix, and every
other step stutters. It needs `FollowerSound`: what a follower has is a prefix of the log
and a page under way continues it, although page, cursor and log are read at different times.

### Gateway (`GatewayProofs`)

`Inv` says: a request has at most one call that executes it or has contacted the provider
for it (`Alone`); such a call's row exists, has its payload, and holds the outcome and the
events that the call is about to hand over (`CallSound`); a live lease belongs to a call
that was begun, and a call uses a lease of its own request only (`LeaseSound`); a heartbeat
runs only beside a call with a lease; an open circuit has all its failures, and the last
probe is still under way or the circuit was opened after it (`CircuitSound`). Every action
is shown to keep it (`Kept`) through two facts: another call's row cannot be written, since
writers own their request and outcomes are final (`MovesKeep`), and the ways a call goes on
(`Stops`, `Advances`, `Ends`).

* `DeliveredIsStored` (`DeliveredIsDurable`) and `RequestsHaveOneOutcome`
  (`RequestsAreIdempotent`) follow from `CallSound` and `Alone`;
* `ProbesStayApart` (`ProbesAreApart`) from `CircuitSound`: a probe is let through only
  after the recovery time since opening and since the probe under way, by times that lie at most
  `Lag` behind;
* `CapacityStaysAccounted` (`CapacityIsAccounted`): one user per lease from `Alone` and
  `LeaseSound`; the limits by counting what `acquire` keeps; the tokens from a second
  invariant, `TokenInv`.

`TokenInv` says that the window is charged the sum of its leases' bills; that a live lease is
billed what was reserved, to the window it was given in, and nothing is billed to a window to
come (`BillSound`), so that a window which begins is charged nothing and a refund meets
exactly the reservation it takes back; and that a lease locked for its release is still there
(`LockSound`): `acquire` waits for it, or gives up because its clock is behind the route's
row. The sum is the community modules' fold, which takes out the element that `CHOOSE`
picks. `AdderExists` shows that the recursive function behind it exists, `SumRemove` that any
element may be taken out first, each from a smallest counterexample: strict inclusion is
well-founded on the subsets of a finite set (`MinimalSet`).

### Data services (`DataServicesProofs`)

One invariant for each service, and each service rests while another runs.

* `ValidatedHeads` (`HeadsAreSound`) needs, per snapshot, how row, job, object and artifact
  fit in each status, and, per validator, what it has read and whether its lease is current;
  the version of the workspace is the number of ready snapshots.
* `CleanDeletion` (`DeletionIsClean`) needs that a worker's claim, read before the tenant's
  lock, is of entries that no other worker's claim contains (`ClaimsDisjoint`); that the job of
  an object that is not `loose` is completed only when the object is gone; and that a deleted
  tenant has no run and gets none (`Closed`): a late operation finds nothing there but an empty
  workspace or session of its own.
* `ExportsAreEvidence` (`ExportIsEvidence`) needs that an exporter in its pages has written
  every required entry up to its cursor, and that the pages are ordered by time.
* `OutcomesStand` (`VerdictsStand`) is an action property of all three.

### Data of a session (`DataServicesProofs`)

The three components of `SessionData`, each with an invariant of its own.

* `MemoriesAreWanted` (`MemoryFollowsTheUser`) needs `JobRows`: a leased job has had one
  attempt for every lease, which is the fence that a late process meets, and an unfinished job
  is of the branch its run is in, because a rewind supersedes the others and waits for a
  transaction that has the job locked; and `FactsOnce`: a fact has one row in an epoch number,
  archived or not.
* `PlanUpdatesAreKept` (`PlansAreKept`) needs `PlanRows` (a version of a branch is one row,
  and follows the version its author had read) and `PlanCopies` (a checkpoint, an attempt in
  progress and the selected checkpoint hold a plan of their branch). A plan that passes
  `validate_graph` has no cycle; that it can then be worked off, in an order that respects
  dependencies and completed tasks, is proved by taking a largest set of tasks with such an
  order: it is all of them, since otherwise one more task could be appended (`OrderContinues`).
* `LocalSessionAddsUp` (`SessionAddsUp`) needs `CheckpointsSound` (only the last checkpoint
  may be open, and none while the model is asked) and `TreeSound`: unless a restore failed,
  and up to late edits (`Agree`), the worktree holds what the session's transcript, or the run's journal and the results not
  yet in it, report as done, and during a tool call the base of its checkpoint does.

The assumptions (`SessionDataType`) are that a job has an attempt, attempts are numbered
from 1, plans are over a finite set of tasks, and a session has room for its first message.

### Sandbox (`SandboxProofs`)

`ContainersAreKnown` (`ContainersAreAccountedFor`), `RestoredContentStays` (`RestoreHolds`),
`EditsAreKept` and `NoContentIsTornOrLost`. The invariant adds that a restore which resets, and a removal that has come
to the worktree, found nothing running and nothing that can start (`RunInv`); that commands
waiting since before a restore's sweep carry an old generation (`GenerationInv`), which is what
makes them fail when they get the slot after the restore has answered (`PromiseInv`); and that
one edit at a time is between its comparison and its replacement (`EditInv`).

`NoContentIsTornOrLost` is `NoTornOrLostContent` for any number of changes of the checkout.
`CaptureInv` says what the readings so far prove: as long as the tracked half was not changed
back, a reading that finds it as it was read first was made while it was, so that the files
read in between were there with it; and likewise for the untracked half at the last
comparison. Both must have been changed back for the comparison to accept files that were
never in the checkout together.

### What the proofs have in common

A minimum or a maximum is a `CHOOSE`, and that one exists is an induction; `LeastExists` and
`LargestExists` get it from the library's theorem that strict inclusion is well-founded on
finite sets, applied to the intervals below (above) the members. A record with many fields is
changed one field at a time, with a lemma for each kind of field.

### Only model-checked

* Liveness: `RunsReturn`, `RunSettles`, `FollowersCatchUp`, `AttemptsEnd`, `SandboxWorkEnds`,
  `CallsEnd`, `MemoryJobsEnd`, `ServicesFinish`; the prover does not reason about fairness
  and `ENABLED`.
* `CompletedIsRestored` of a run with a selected checkpoint: `lost_mutation` refutes it.
