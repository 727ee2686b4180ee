# A TLA+ model of MASS

MASS accepts inference jobs from runtime gateways, queues them durably, places
each one on a connected worker, streams the worker's output back and keeps a
durable result. Around that it enrols workers, benchmarks models on them,
downloads model files, supervises gateway processes and serves a dashboard.
This project models the parts of it in which something can be lost, done twice,
read stale or waited for in vain. The core is the scheduler
(`internal/scheduler`) with its tables (`internal/queue`); the modules about it
are composed and refined. The other parts have a module each. All are
model-checked, and every safety property that a run checks, invariant or action
property, is a theorem too.

## 1. Inventory

| Part | State | Operations | Interacts with |
|---|---|---|---|
| Durable queue (`queue/queue.go`) | rows of one table: queue name, envelope (request, anchor, attempts), lease, delivery count | Submit, Peek, PeekAll, LeaseByID, Defer, Extend, Delete, DeleteBoth, ReleaseLease, DeleteAndReleaseLease, LeaseAndSubmit, MoveTo, ListAbandoned | one SQL transaction each, called by the scheduler |
| Result store (`queue/results.go`) | one status row per request | Create, Processing, Pending, Complete, Fail, Cleanup | written by Submit, dispatch, pump, drain, cancel, sweeps |
| Dispatcher (`scheduler/scheduler.go`) | queue map, drain slots, dispatching and in-flight maps, tail mirror, memory reservations | Submit, drainGlobal, drainDeviceQueues, dispatchEnvelope, pumpWorkerChunks, attemptSteals, drainWorkerQueue, load planning | one goroutine for the loop, one drainer per queue, one pump per running job |
| Startup sweeper and recovery (`queue/sweeper.go`, `scheduler.go`) | what the database kept | reapAbandonedAtStartup, recoverPersistedQueues, sweepOrphanQueues | runs before and beside the loop |
| Operator operations (`scheduler/queue_view.go`) | none | CancelQueuedRow, CancelByRequestID, CancelRunningJob, EvictQueuedRowToGlobal, QueueSnapshot, QueuedModelFiles | HTTP handlers, concurrent with all of the above |
| Replay buffer (`scheduler/stream_buffer.go`) | a byte-capped ring per job, floor, terminal flag, notify channel | Append, enforceCap, Attach, pump; sweepReplayBuffers reaps | the pump appends, gateways attach |
| Worker hub and stream (`worker/hub.go`, `stream_worker.go`) | online flag, pending calls per connection, loaded models, cache contents | Connect, AssignJob, LoadModel, UnloadModel, benches, heartbeats, SetOffline, cache reconciliation, idle eviction | fleet callbacks create and drain queues |
| Enrolment and fleet (`worker/enroll.go`, `fleet.go`) | join tokens, worker rows, live streams | mint, redeem, authenticate, revoke, Register, Deregister | admission in Connect |
| Device whitelist (`web/workerops.go`, `worker/hub.go`) | rows of disabled devices, the set pushed to a worker | toggle, resync on connect | re-estimates the worker's queue |
| Benchmark orchestrator (`scheduler/bench_orchestrator.go`, `model_bench.go`) | task queue per worker, bench gate, benchmark rows and their cache | sweep, enqueue, run, retryOrRecord, lookups | holds a worker's drainer off; its verdicts decide eligibility |
| Downloads (`internal/downloads`, `pkg/download`) | job table, rows, partial files, transfer slots | Start, Pause, Resume, Cancel, Remove, recovery | triggers benchmarks |
| Runtimes and gateways (`internal/runtimes`) | installed packages, gateway processes | install, start, stop, uninstall, auto-start, exit watch | calls Submit, StreamChunks, cancel |
| Registry (`web/registryops.go`, `update.go`, `compat.go`, ...) | cached index, artifact cache, versions | refresh, resolve, install, compatibility check, update gate | decides which workers are admitted |
| Model store (`web/modelops.go`, `runtimes/scheduler_service.go`) | files on disk, imports, deletions | delete, import | reads the queues |
| Dashboard (`web/broker.go`, `routes_dashboard.go`, `syslog.go`, `routes_models_stream.go`) | subscribers, log ring, remembered cards | broadcast, subscribe, tail, render | callbacks from all parts |
| Gateway proxy (`web/handler.go`) | one stream per request | forward request, relay answer | gateways |
| Daemon (`cmd/mass`, `web/idle.go`, `daemonctl.go`) | the process, its listener, the idle countdown | launch, replace, retire, update, shut down | launchers, windows, operators |
| Store, configuration, metrics, statistics, TLS, themes, templates | tables, sessions, files | request handling and I/O | |

A submitted job gets a row on the *global* queue. Placement leases that row,
which becomes the job's *anchor*, and inserts a second row on a worker's queue
in the same transaction. The worker's drainer leases the second row and
dispatches it. Both rows are deleted when the job is answered; when a worker is
lost the second row is deleted and the anchor released, or both are replaced by
a fresh global row that carries one attempt more.

What is hard here: every decision is made from a read (a peek, a status, a map
lookup, a cached index) and carried out later, and between the two any of the
other goroutines, processes or requests may act. The list of these windows,
with the line each one bites at and the property that watches it, is `hazards`
in `PROJECT.json`. What makes the parts correct:

- *queue and dispatcher*: an unanswered job always has an anchor or a goroutine
  that owes it one; it runs on one worker at a time; its requeues are budgeted;
  the dispatching and in-flight maps do not leak; no wake-up of the loop is
  lost; a burst fits the worker's pool; every job is answered;
- *placement*: the ledger the scores are read from never understates a queue; a
  load takes devices no resident keeps and slots its memory allows;
- *restart*: a crash loses no accepted job, replaces no answer, leaves no caller
  without one;
- *result store*: no status write makes an answered job look live;
- *replay buffer*: chunks reach a consumer in order, without a hole; a loss is
  reported; the terminal frame comes after the durable result; consumers end;
- *operators*: a refused cancel means the job is over; an evicted row is not
  also running; a deletion spares the files of queued jobs;
- *worker connections*: every waiter is woken, no channel is used after it was
  closed, one stream per worker id, no admission on a dead credential, the
  worker ends with the operator's device set, nothing busy is evicted and
  nothing in use is deleted from its cache;
- *benchmarks*: one measurement at a time, verdicts reach the reader, no job
  waits for ever on one;
- *host*: a downloaded file is whole and a partial one is remembered; a watcher
  kills no living gateway; an idle daemon retires; install, admission and update
  gate agree; tabs learn of every change; the proxy keeps both directions whole.

## 2. Modules

| Module | Models | Notes |
|---|---|---|
| `ReplayLog` | what a job's stream promises | abstract: an append-only log and readers |
| `JobStream` | one replay buffer, all its writers, its consumers | refines `ReplayLog` |
| `JobStreamProofs` | | theorems about `JobStream` |
| `QueueTable` | the queue table as a value, its transactions as functions | no variables |
| `Dispatch` | jobs from Submit to answer, workers, drains, operators | extends `QueueTable` |
| `DispatchProofs` | | theorems about `Dispatch`: jobs are kept, answers are final, entries are owned |
| `RunOnceProofs` | | theorems about `Dispatch`: one run at a time, charged requeues |
| `SumLemmas` | | sums over finite sets, for every proof that adds up |
| `Restart` | crash, startup reap, recovery, orphaned queues | durable state survives, the rest does not |
| `Drain` | the event loop, its wake-ups, one queue's drainer and capacity | |
| `Envelope` | the packed body of a row and a job's way through its hops | |
| `Placement` | scoring, tails, steals, re-estimation | |
| `LoadPlan` | device set, evicted residents and pool size of a load | |
| `StreamWorker` | one connection: pending calls, handler, watcher | |
| `WorkerView` | loaded models, idle eviction, cache reconciliation | |
| `Enrolment` | admission, tokens, revocation, the fleet's map | |
| `Whitelist` | device toggles and the resync on connect | |
| `Bench` | sweeps, runners, gate, retries, verdict cache | one worker |
| `Daemon` | launchers, daemons, idle countdown, update | |
| `Catalogue` | deletion guard, queue snapshot, imports | |
| `Proxy` | one proxied request | |
| `Downloads` | jobs, runners, rows, partial files, restart | |
| `Runtimes` | gateway processes and their manager | |
| `Registry` | index, artifact cache, installs, compatibility, gates | |
| `Tabs` | broker and change streams; log ring and tails | two parts |
| `ModelsTab` | renders of one Models tab connection | |
| `WorkerSideProofs` | | theorems about `StreamWorker`, `WorkerView`, `Enrolment` and `Whitelist` |
| `SchedulerSideProofs` | | theorems about `Restart`, `Drain` and `Envelope` |
| `HostProofs` | | theorems about `Bench`, `Catalogue` and `Proxy` |
| `GatewaySideProofs` | | theorems about `Runtimes`, `Registry`, `LoadPlan`, `ModelsTab`, `Tabs`, `Downloads` and `Placement` |
| `MCDispatch`, `MCWorkerSide`, `MCSchedulerSide`, `MCHostSide`, `MCGatewaySide` | instances for TLC | |

The four `MC...Side` modules put together modules that share no variable. Each
has a variable `part` that `Init` chooses and nothing changes; a behaviour is a
behaviour of that one part with the other parts at rest, so the state space is
the sum of the parts' and not their product. Fairness is stated per part. The
parts of the code they model do meet, through calls that the modules keep as
nondeterministic inputs of each other: a lost connection, a heartbeat, a toggle,
a verdict.

Definitions whose comment begins with "Mutant of" are seeded faults: nothing
uses them but the sensitivity checks listed under `mutants` in `PROJECT.json`,
each of which must make its property fail.

### JobStream and ReplayLog

`chunks`, `bytes`, `nextSeq`, `floor` and `terminal` are the fields of
`jobBuffer`; a chunk is its kind and its size. The notify channel is a number:
`Append` replaces it under the lock (`AppendChunk`) and closes the old one after
unlocking (`CloseNotify`), so a consumer wakes when the channel it captured has
been replaced and closed. A consumer is the goroutine of `pump`: `Scan` is its
critical section, each send of the batch is a step, and `CtxDone` is possible at
every `select`. Writers are the job's own path (`PumpChunk` to `PumpTerminal`,
`Requeue`, `GiveUp`), the cancellation of a queued row (`CancelQueued`,
`DropJob`) and `sweepReplayBuffers` (`SweepTerminal`, `ReapUnregister`,
`ReapFail`, `ReapAppend`), which runs concurrently with the pump. `registered`
says whether the buffer is still in `jobBuffers`; a job that goes on with a
fresh buffer leaves this instance (phase `left`).

### QueueTable and Dispatch

A row keeps its queue, job, anchor and attempts for life; its lease is `free`
(visible), `leased` (delivered once, which is all goqite allows), `deferred`
(hidden, delivery count reset) or `gone`. Deleted rows stay in the table so
that an operation holding a stale identity does what it does in SQL: nothing.

Each transaction and each critical section of `Dispatch` is a step; a write of
the result is one step with the buffer operation beside it. Control state that
the code keeps on goroutine stacks is explicit:

- `place`: every submitter and the dispatcher between choosing a target and
  `LeaseAndSubmit`, between the verdict and the deletion in `failUnbenchable`,
  and between the peek and `MoveTo` of a steal. One dispatcher goroutine runs
  drainGlobal, the start of drainers and the steals, so these exclude each other;
- `batch`, `batchConn`: what a drainer peeked, and the connection it captured;
- `task`: dispatchEnvelope and then pumpWorkerChunks for a leased row, step by
  step: lookup, gate, load, startInflight, processingResult, AssignJob, stream,
  read of the cancel flag, finishInflight, result, deletion;
- `drain`: drainWorkerQueue with its PeekAll snapshot (`hot`: leased at the
  time of the peek), for a lost worker (`all`) or a disabled one;
- `cancel`, `evict`: the operators' operations, one step per query.

Which worker scores best, whether a model is resident, whether a load succeeds
and how much capacity a heartbeat reports are nondeterministic choices here;
`Placement`, `LoadPlan` and `Drain` model how they come about. Result status
`cancelled` is what the code stores as a failure with the text "cancelled by
operator". Worker connections are numbered, so that a drainer started for an old
connection is refused by `AssignJob` on it, as `StreamWorker.send` does.

### Restart, Drain, Envelope, Placement, LoadPlan

`Restart` keeps per job its result, anchor, worker row and owner (the goroutine
that holds it, which a crash forgets), and per worker its persisted queue entry.
A crash is possible between any two durable writes. A row whose lease has run
out is *spent*: goqite does not deliver it again, so `reapAbandonedAtStartup` or
a drain has to deal with it. What a crash or a removal spoils is recorded by the
step that does so and by no other: `torn` (a crash between the two writes of a
requeue), `unborn` (a crash between the creation of a worker's queue and the
write of its state), `stripped` (removeWorkerQueue deletes the state of a worker
that has come back) and `overlooked` (a start that lists the queues and so
misses a row of such a worker). `Drain` is the loop's `select` with its one-slot
wake channel, the busy flag and rerun flag of a drain slot, the bench gate, the
delivery count and `effectiveCapacity`; the ticker is an action without
fairness, so that `QueuedRowTaken` does not lean on it.

`Placement` takes every move of a row in the steps the code takes: the row is
read with the seconds it carries, moved or deleted in one transaction, and the
tails are debited and credited afterwards with the seconds that were read. That
holds of a placement (choose, `LeaseAndSubmit`, `CreditPlacement`), a steal
(`stealWithinRuntime`, `MoveTo`, `Debit`, `CreditPlacement`), an operator's
eviction (`EvictQueuedRowToGlobal`, `DeleteAndReleaseLease`, `Debit`) and a
drain (`LeaseWaiting`, then `StartRow`, `releaseLeaseForRetry` or
`retryAfterLoadFailure`); a re-estimation reads the rows, rewrites them one by
one (`UpdateBody`) and then replaces the tail. One step stands for startInflight
and the debit that follows it, so *running* means that the debit is done; a
re-estimation is one at a time per worker (tryReestimateLock), and the model has
one operator's eviction at a time. A job that an eviction gives out a second
time is followed as rows of the ledger only; that it may run twice is
`Dispatch`'s subject.

`LoadPlan` is one worker's devices and residents with one dispatch under way
(`PlanDispatch`, `EvictBlocker` for each blocker, then `LoadModel`, `LoadFails`
or `StartWarm`), between whose steps the operator toggles devices and the idle
evictor unloads models. The load names no device, so the worker takes what is
enabled when the load gets there. Whether a blocker is serving is asked in the
same step as the gate. The size of a pool is decided in three stages, each with
a reading of the free memory of its own: placement admits the row (`AdmitLoad`),
the dispatch reserves (`ReserveLoad`), and the load is sized after the evictions
(`SizePool`).

`Envelope` follows one job and looks at the bytes of its rows. A body is a
sequence of cells; one cell is a byte (of `ByteMax` + 1 values) or one number of
the fixed header, and the wide length of the load artifacts takes two cells where
the code has four bytes. Submit's checks, the two placements, the steal (which
copies the body), the release, the re-estimation (which reads a body and writes
it back by row id, whatever happened to the row), the dispatch and the two
requeues pack and unpack it as the code does, with the panic of `Marshal` as an
outcome.

### StreamWorker, WorkerView, Enrolment, Whitelist

`StreamWorker` has one entry per call in the pending maps, a channel per call
with its contents and closed flag, the Connect handler, and the liveness
watcher; `SetOffline` runs from both. `WorkerView` separates what the worker has
loaded (external) from what the scheduler believes, with the messages between
them in order; a pass of the idle evictor is one cutoff, one copy of the loaded
list, and then an unload per victim that waits for the worker's answer
(`EvictStart`, `EvictCopy`, `EvictModel`, `EvictNotify`, `EvictDone`).
`Enrolment` takes every database and fleet call of Connect as a step of its own,
so that expiry, revocation and a second connection of the same id fall between
them. `Whitelist` has two toggle requests under the worker's lock and the resync
of Connect under none.

### Bench, Daemon, Catalogue, Proxy

A runner of `Bench` is a goroutine that outlives the connection it was started
for, so runners have identities; the benchmark table and the cached verdicts are
separate, as are a lookup's read and its insertion. `BDisconnect` is Deregister
and the disconnect callback in one step, since a runner that ends between the
two ends as it would before them. `Daemon` models each process by its phase and
each launcher by what it learnt of the daemon it probed; the listening address
is all they share. `Catalogue` walks the queues one query at a time while rows
move. `Proxy` has a bounded window in either direction, and the handler that
sends the whole request before it reads the answer. Its property is about the
bytes and the status; that the two sides can wait for each other is shown by the
refuted `NeverCrossed` (section 4).

### Downloads, Runtimes, Registry, Tabs, ModelsTab

Files of `Downloads` have the identity of the runner that created them, since a
runner goes on writing to a file that another has renamed or unlinked.
`RemoveFinished` is the unlink and the deletion of the row in one step: a call
that falls between them overlaps the removal, which the property leaves out
(`raced`). `Runtimes` interleaves requests at every point where the manager's
lock is not held. A version range of `Registry` is a set of versions, no
constraint, or one that does not parse. Its resolver is the one without the
explicit worker and backend of the setup pages: where an index has several
artifacts for a runtime it yields none, while a request that names one is served
it. `Tabs` abstracts what a tab shows to the number of changes it reflects;
`ModelsTab` a card to the runtimes and files on it.

## 3. Runs

| Run | Question | Bounds |
|---|---|---|
| `jobstream` | ring, delivery, order of result and frame, refinement; do consumers end? | 1 consumer, 3 chunks of size 1 or 3, cap 2, channel of 2 |
| `dispatch_loss` | loss, duplication and budget while both workers disappear | 1 job, 2 workers, 6 rows, 2 drops, budget 2 |
| `dispatch_ops` | leaks and final answers against operators | 1 job, 1 worker connecting twice, 4 rows, failing loads, one of drop, evict, toggle, and a cancel |
| `dispatch_live` | is every job answered? | 1 job, 2 workers, 5 rows, failing loads, a steal |
| `scheduler_side` | do jobs and answers survive a crash, is every job answered through one; is a wake-up lost, a pool overfilled; does a job's envelope survive its hops? | `Restart`: 1 job, 2 workers of which one stays, a crash, a lost worker, budget 2. `Drain`: 2 jobs, 1 slot, one failing load, one bench. `Envelope`: bytes of 4 values, names on both sides of the limit, 8 rows, 4 load attempts, budget 3 |
| `worker_side` | calls woken, channels closed once, admission, whitelist, eviction and cache | one call of each kind and two model benches, job channel of 1; the view twice: with idle eviction (2 models, of which one is being loaded and the other there; TTL 1, 2 ticks, 1 message) and with a changing store; 2 connections, 2 ids, 1 token; 2 devices, 2 toggles, 2 streams |
| `host_side` | one bench at a time, cache, verdicts; idle daemon; deletion guard, snapshot, imports; proxy | 1 model on 2 device sets, 2 runners, 2 changes; 2 launchers, 2 daemons, an operator; 2 jobs, 2 queues, 3 deletion plans, 2 imports; body of 2, answer of 3, window of 2 |
| `gateway_side` | tails, loads, downloads, gateways, verdicts, fan-outs, cards | 2 jobs, 2 workers, 2 of steal, failed load, cancel and toggle, or with evictions 1 upset, 2 with one job; 2 GPUs, 1 CPU, 2 models, sizes to 2; 1 file of 2 chunks, 2 runners, 1 death; 1 kind, 2 requests, 2 processes, 1 exit, 1 restart; 4 indexes, 2 versions, 2 upgrades; 2 tabs, 2 log tails, ring of 3; 2 gateways, 2 groups, 2 renders |
| `jobstream_cancel`, `dispatch_evict`, `dispatch_answered`, `dispatch_cancel` | expected violations: findings 1 to 4 | the smallest instances that show them |

Why the bounds are enough for what they are asked. Consumers of a buffer share
nothing but the buffer, which they do not change, so one represents all. With a
cap of 2, chunks of size 1 fill the ring and a chunk of size 3 empties it, so
the floor moves by one, by several and past the newest chunk, and a consumer
with a channel of 2 falls behind. For dispatch, one job is enough for the
properties, which are per job: jobs meet only through a worker's drain slot and
its in-flight count, which the model's nondeterminism already covers (and
`Drain` has two jobs for one slot); two workers allow a requeue to another
worker, six rows allow an anchor and a worker row for the first run and each
requeue. `Budget`, `LoadAttempts` and `StealThreshold` are smaller than in the
code (3, configured, 2) so that their limits are reached. `NoDuplicateRun` is
checked without evictions and steals and with one connection per worker: with an
eviction it fails (finding 2), and a steal between a drain's peek and its
release or a worker that is back before its old queue is drained does the same
(section 4). Section 5 says which steps lead to a second run in general, and
proves that no others do. In the other modules the bounds follow one pattern:
two of whatever races (runners, connections, requests, renders, toggles,
imports), a limit of one or two where the code has a capacity so that it is hit,
and one or two of each disturbance, which is what a window between a read and
its use needs. Placement is explored once without evictions and once with them,
the view of a worker once with the evictor and once with the store, because the
two together would multiply steps that do not touch the same state; in
`LoadPlan` a sizing is explored with nothing in service, which it does not read.
`GatewaySide.cfg` declares jobs and workers of `Placement` symmetric: they are
model values that no definition tells apart, and the run has no liveness
property. Every mutant of section 2 is caught within these bounds.

The bounds on rows, disturbances and clocks make behaviours end, and so does the
system (all jobs answered, no request left), so the runs say
`CHECK_DEADLOCK FALSE`.

**Conditions in the properties.** Where the code leaves a window open that this
project shows below, the property names the window by a history variable and
holds outside it: `torn`, `unborn`, `stripped`, `overlooked` and `Stranded`
(`Restart`, section 2; each job or worker is marked by the one step that spoils
it, and a crash marks only the jobs whose requeue it tears), `tornRead`
(`Drain`: a heartbeat between the two reads of a capacity), `raced`
(`Downloads`: calls on one file overlapped), the conditions of `JobsGetVerdict`
and `CacheAgrees` (`Bench`: a task given up without a verdict, a lookup that
inserts after an invalidation; so the stale entry of that hazard is named and
not excluded), `skewed` (`Placement`: a figure that was read before another
change of the same rows was applied after it: a re-estimation with a credit, a
lease or an old debit on its way, a steal or an eviction of a row re-estimated
since it was read, an eviction of a row that had been taken; the worker counts
as skewed until the next re-estimation that none of these meets), `shifted`,
`less` and `more` (`LoadPlan`: a load that landed outside the set its dispatch
had cleared, and memory that shrank between admission and reservation or grew
between reservation and sizing), `overlapped` (`ModelsTab`), the movement of
rows during a snapshot (`Catalogue`) and a toggle during a resync (`Whitelist`).

**Fairness.** `JobStream!Fairness`: runnable goroutines run, an Append that has
replaced the channel closes it, the gateway reads its channel, and the age sweep
comes around (`replayBufferSweepLoop` is a ticker). Nothing is assumed about the
job making progress: the age sweep is what ends its stream.
`Dispatch!Fairness`: runnable goroutines run; the dispatcher loop returns to
every queue and every visible global row (strong fairness on `DrainStart` and on
the placement of a row: its 2 s ticker and 200 ms retry see to that however
often the loop is doing something else in between); the device-set gate opens
again and again (its blockers are jobs that end); a worker ends its streams.
Connecting, submitting, cancelling, evicting and toggling are never obliged.
`JobAnswered` is checked without disconnects: with them a row may wait for a
worker that never returns. `Restart` has that case: a process that is down comes
back, startup and the dispatch pass run, running jobs end, and the workers in
`Steady` return; the others need not. `Drain`: the loop and the drainer run, a
bench releases its gate, a deferral ends and workers end their jobs; neither the
ticker nor a heartbeat is obliged. `StreamWorker`: handler, watcher and callers
run; nothing is assumed of the peer. `Bench`: sweeps, runners, drainer and
placement run. `Daemon`: the goroutines and timers of a daemon run, its
launchers, windows and operators do as they like. The remaining modules claim
safety only.

## 4. Findings

1. `jobstream_cancel`: cancelling a queued job drops its buffer without a
   terminal frame, so an attached gateway is left waiting
   (`queue_view.go:301-303` promises "a clean terminal frame").
2. `dispatch_evict`: an eviction that loses the race with the drainer releases
   the anchor of a job that is being dispatched, which then runs twice, instead
   of answering ErrRowInFlight (`queue_view.go:399-401`).
3. `dispatch_answered`: the disconnect drain can re-place a job whose result
   lands between its check and its resubmission (`scheduler.go:1206-1207`).
4. `dispatch_cancel`: between LeaseByID and markDispatching a cancel is refused
   as not in flight and the job runs all the same (`queue_view.go:553-555`).

Beside the properties, the modules keep stronger statements that the code, a
comment or the purpose of a guard suggests and that TLC refutes. Each is
reproduced by its own configuration, or by putting it in place of the properties
of the configuration named.

| Statement | Configuration | Suggested by | What happens instead |
|---|---|---|---|
| `StaleStreamReturns` | `StreamWorkerStale.cfg` | `hub.go:228-229`: SetOffline "unblocks stream.Receive()" | the handler reads with the request's context, which SetOffline does not cancel |
| `NoDuplicateRun` | `DispatchReconnect.cfg` (`MCDispatch`) | `scheduler.go:1158-1171`: in-flight rows are requeued because the worker's stream is gone; of a live worker's, "requeueing would dispatch a duplicate of a running job" | the queue stays in the map while it is drained; a worker that is back by then takes a row of the drain's snapshot, which the drain then releases or requeues |
| `CrashedJobAnswered` | `RestartFast.cfg` | `scheduler.go:1322`: rows stranded by a crash "get a failure result instead of hanging their callers forever" | a process back before the lease has run out does not find the row, and nothing looks again |
| `RetriesEnd` (as the only INVARIANT, `LoadAttempts` 5, `MaxRowIds` 12) | `SchedulerSide.cfg` | `config.go:138`: "Total times to try placing a job before failing" | Attempts is one byte: with more than 256 configured attempts it wraps before it reaches the cap, and a job whose load always fails is requeued for ever |
| `TailSettles` | `TailDrift.cfg` | `worker_queue_state.go:155`: the clamp "protects against drift from out-of-order updates" | a debit before its credit is clamped away and the credit stays |
| `TailNeverShort` | `GatewaySide.cfg` | scoring reads the tail as the queue's length | a debit of the seconds an eviction or a steal read before a re-estimation takes off more than the row still stands for; so does an eviction of a row that the drain has taken |
| `NeverShared` | `GatewaySide.cfg` | the gate's purpose: no resident keeps a device of the load | a device enabled after the gate was read, while its evictions or the load block, is used by the load though its resident was not evicted |
| `ReservedAlways` | `GatewaySide.cfg` | the reservation's purpose | the pool is planned after the evictions, on memory they freed since the reservation |
| `EvictsOnlyIdle` | `WorkerSide.cfg` | the idle TTL's purpose | a model used or loaded anew since the pass copied the list is unloaded: `EvictModel` asks only whether it is listed |
| `ResyncMatchesIntent` | `WorkerSide.cfg` | `hub.go:202-203` | a toggle between the resync's read and its push is overwritten |
| `BenchExclusive` | `HostSide.cfg` | `scheduler.go:2258-2259`: "an otherwise-idle device set" | a drainer past the gate check dispatches into a bench |
| `QueuedFilesKept` | `HostSide.cfg` | `queue_view.go:175-176` | a job submitted after the guard read the global queue loses its file |
| `FailureShown`, `NeverCrossed` | `HostSide.cfg` | the handler's error path and its order of sending and reading | an error before the first frame is answered 200; a gateway that answers early and the handler can wait for each other |
| `OperatorNeverStopped`, `RecoveryAlone` (as PROPERTY) | `HostSide.cfg` | `daemonctl.go:18-20`: an operator's daemon "is never restarted"; recovery takes every lease for a dead process's | the launcher stops whoever listens now, not the daemon it probed; a second daemon recovers the database of a serving one before its own listen fails |
| `GatePredicts` | `GatewaySide.cfg` | `update.go:110-115` | the gate needs one admitting row for the server, the hub one row for server and runtime together |
| `BrowserInLine` | `GatewaySide.cfg` | `routes_models_stream.go:128-130` | two overlapping renders append a card twice |
| `TabShowsCurrent` | `GatewaySide.cfg` | the tab's purpose | a change between the first fetch and Subscribe is not fetched |
| `NoSendOnClosed` | `GatewaySide.cfg` | `syslog.go:7`: "thread-safe" | listeners are copied, then sent to; one that unsubscribes in between has closed its channel |
| `TrackedPersisted` | `GatewaySide.cfg` | `downloads/manager.go:2-3` | Cancel untracks a file and then deletes its row; a Start in between has saved the row that is deleted |
| `NoStrayGateway` | `GatewaySide.cfg` | the manager's role | of two starts that both found nothing running, the second replaces the entry of the first, whose process nobody closes |

## 5. Proofs

The theorems hold for every value of the constants and assume only the named
`ASSUME`s of the modules, and hypotheses where they are stated: sizes, caps,
limits and bounds are natural numbers; the names that stand for "nobody",
"nowhere" and "global" are not names of connections, workers or calls, and the
dispatcher is not a job (`PlacerNames`, `PlacesAssumption`); a call has one kind;
the sets whose members are counted or added up (jobs of a drain or of a ledger,
devices of a load, files of the downloads) are finite; an import's plan is a
sequence of paths; every tab has a topic; the requests of `Envelope` have fields
of their types, with names and payloads of any length and any bytes. TLC
evaluates each of them on the instances it checks. Each theorem of the form
`Spec => []Inv` rests on an inductive invariant; the tables name it and what it
adds.

`JobStreamProofs` proves `StreamInvariant`, and from it `Gapless`
(`GaplessDelivery`), `ResultFirst` (`ResultBeforeFrame`) and `Refinement`
(`ImplementsReplayLog`). Delivery without holes is not inductive by itself: a
consumer works from a batch copied before later appends and drops. The invariant
adds that the unsent rest of a batch is the interval from the cursor to the
length the log had at the scan (`BatchInv`), that a snapshot of the terminal flag
implies a terminal frame below that length, that the ring is the interval from
floor to the newest chunk (`RingInv`), and that where a terminal frame is, or is
about to be appended by the pump or the reaper, the result is settled
(`FrameInv`). The refinement maps the history of appended kinds to the log and
the consumer's program counter and outcome to the reader's state. `RingIsExact`
(`RingExact`) adds `BytesInv`: the running byte count, which `Append` and
`enforceCap` only ever adjust, is the sum of the sizes of the chunks retained.

`DispatchProofs` proves `DispatchInvariant`, and from it `DispatchTypes`
(`TypeOK`), `JobsAreKept` (`NoLostJob`) and `AnswersAreFinal` (`AnswerStays`).
`NoLostJob` is not inductive: deleting rows is safe only because the goroutine
doing it knows something it learnt earlier. `IInv` records that knowledge per
goroutine: the row it holds was born, belongs to the job it thinks, lies on the
queue it thinks (a drainer, a drain and an eviction never hold a global row), and
in the steps that delete without a successor the job is answered. The argument
then has two halves: what each transaction does to the table (`SubmitTable` and
its sisters: it keeps the identity of every row and the anchors of every other
job), and one lemma per action.

On top of `IInv`, `LeakInvariant` proves `EntriesAreOwned` (`NoLeakedEntry`: the
dispatching and in-flight maps hold an entry only for a task that will remove
it). A second task for the same row would overwrite the first one's position and
orphan its entries. `LeakInv` rules it out: the row of a task is leased or gone
and on a worker queue (`TasksHeld`), and the releases that drains, evictions and
requeues perform hit anchors, which are global rows (`AnchorsGlobal`,
`PlaceGlobal`), so no row of a task is ever leased a second time.

`RunOnceProofs` is about `NoDuplicateRun` and `DispatchBudget`, which do not hold
of every instance (section 3), so its theorems name what they leave out.
`OneRunUnlessStale` does it by a step: every behaviour without a `StaleRelease`
satisfies `NoDuplicateRun`, with any jobs, workers, reconnections, cancels,
steals and retried loads. A stale release gives a job back to the global queue
because of a row that was found earlier and that is being run, or was overtaken,
by now. It can come from a drain whose worker is back, or whose row a steal has
taken or whose device set was enabled again, from an eviction that lost the race
with the drainer, and from a failed load whose retry meets the drain of its lost
worker; the theorem shows that a second run takes such a step. Its invariant is
`Single`: a job has at most one course (a live worker row, or a dispatch on a
living connection), the anchor of a course is leased or gone, a job has at most
one anchor, and none of these while a resubmission of it is owed. Beside it
stand what each goroutine that is about to place a row knows of its target
(`Targets`), and that dispatches of a connection do not outlive it (`ConnOK`).

`OneRunInQuietWorld` names the disturbances instead; its invariant counts the
rows a drain has found among the courses too. Under `QuietWorld` there is no
eviction and no toggle; either workers are lost, and then one does not return,
nobody steals and a failed load is final (`LoadAttempts` = 1, the default of
`config.go`); or no worker is lost, and then steals and retries are free.
`DispatchLoss.cfg` checks a small instance of the first case.
`BudgetInQuietWorld` proves `DispatchBudget` in the same world by counting: a
row that has not been handed out (`Fresh`) carries a charge for every hand-out
its job has had, one that has been (`Used`) lags behind by one. It needs
`LoadAttempts` <= `Budget`. The code does not guarantee that (`load_attempts` is
configurable, `disconnectRequeueBudget` is 3); what it guarantees of the charges
whatever the configuration is `ChargesStayBounded`: no row is charged up to both
limits.

`SumLemmas` is what the sums need. The community modules add up with a recursive
function over an unspecified order of the elements; the lemmas show that no order
matters, by a smallest counterexample (a least number instead of an induction
theorem), and then what one element more, a change of one element and a union of
two sets do to a sum.

The other modules:

| Module | Theorem (property) | Inductive invariant, and what it is needed for |
|---|---|---|
| `WorkerSideProofs` | `ChannelsAreSafe` (`ChannelDiscipline`), `NobodyForgotten` (`NoForgottenCall`) | `ConnIInv`: every channel that can still be sent on or closed has one owner, a pending map or the Connect handler (`Owned`, `HandlerOK`, `Outside`); who waits is owned or has a closed channel (`Waiting`). An error path removes an entry by model name, which is its own only because one model bench is under way (`OneModelBench`) |
| | `TabIsCurrent` (`TabShowsLoaded`), `UnusedIsTaken` (`TakesOnlyUnused`) | `ViewIInv`: a load result on its way has a loader waiting for it (`LoadsAwaited`); an idle stamp is not older than the last busy heartbeat (`IdleIsIdle`); every victim still on a pass's list was unused for a TTL when the list was copied, whatever the entries say by now (`PassOK`) |
| | `OneStream` (`OneStreamPerWorker`), `Admitted` (`AdmissionJustified`) | `EnrolIInv`: what a handler has checked by each of its positions, against what was worthless when its stream opened (`HandlerKnows`); each stored credential went to a stream with a valid registration (`RowsEarned`) |
| | `IntentReachesWorker` (`WhitelistSettles`) | `WlIInv`: the lock admits one toggle (`LockOK`); who is about to push holds the persisted intent, unless a toggle met the resync (`TurnsOK`) |
| `SchedulerSideProofs` | `JobsSurvive` (`JobsSurviveCrash`), `AnswersSurvive` (`AnswersSurviveCrash`, an action property) | `RestIInv`: no goroutine outlives a crash (`MemoryOK`); what the holder of a job knows of its result (`OwnersOK`); the anchor stays until the answer is durable, so the answer is written before the rows go (`AnchorKept`); rows lie on queues with a stored state, or of a worker that one of the named steps left without (`QueuesFound`); while a worker is away, the removal of its queue still has every unanswered row before it and deletes the state after the last (`DrainsAll`) |
| | `BurstFits` (`PoolRespected`) | `DrainIInv`: a heartbeat does not advertise more than the busy jobs leave (`BeatOK`); the batch and the jobs in flight fit the pool together (`BatchOK`), by counting |
| | `EnvelopeIsKept` (`EnvelopeKept`) | `EnvInv`: every row decodes to the request with the retries counted, and so does an estimate as long as the row it was read from is there. It rests on `RoundTrip`: UnmarshalEnvelope after Marshal is the identity on envelopes that fit, field by field behind a prefix of any length. Hypotheses: `LoadAttempts` and `RequeueBudget` are at most `Base` (256 in the code, where `Attempts` is a byte); without them the count wraps, which `RetriesEnd` shows |
| `HostProofs` | `OneBench` (`OneBenchAtATime`), `CacheSound` (`CacheAgrees`) | `GateIInv`, `CacheIInv`: the properties with the shape of runners and cache entries |
| | `WalksAreSound` (`ReadersSeeQueued`) | `ReadersIInv`: what the guard has found so far (`GuardKnows`) and what an undisturbed snapshot has counted so far (`SnapshotKnows`) |
| | `ImportsAreWhole` (`ImportWhole`) | `ImportIInv`: the files before the one an import is at are there or being fetched (`ImportKnows`) |
| | `ProxyIsFaithful` (`ProxyFaithful`) | `ProxyInv`: what the gateway has read and what is on its way are the first frames of the request, as many as the handler's position says (`RequestOK`); frames of the answer are numbered and the last one ends it (`AnswersOK`); what the client has is the prefix that was taken off the stream (`ReplyOK`) |
| `GatewaySideProofs` | `WatcherSpares` (`WatcherSparesLiving`, an action property) | `GatewaysIInv`, `ManagerOK`: gateways ever made are numbered, the manager has one per kind |
| | `Verdicts` (`VerdictsAgree`) | `RegIInv`: the row an undisturbed installation works on, and the version of a worker that came of it, pair with index, runtime and server (`InstallKnows`, `WorkerFits`); `ResolvedAdmitted`: the resolver's test implies the hub's |
| | `CardsInStep` (`CardsMatchMemory`) | `MtIInv`: without overlap one render is under way, and between sending and remembering the browser shows what it is about to remember (`RendersKnow`) |
| | `LoadsFit` (`LoadFits`) | `PlanInv`: a resident that is not on the dispatch's list of blockers is off the set the gate was read with, through evictions and toggles (`GateInv`); what was reserved is what the reading then projected, and projections grow with the memory read (`SizingInv`) |
| | `StreamsCatchUp` (`ChangesCaughtUp`) | `TabsIInv`: the property with the shape of the counters |
| | `LinesShownOnce` (`LogLinesOnce`) | `LogsInv`: where each of the last lines is in the ring, whatever its position (`RingOK`); what a viewer has seen, what is buffered for it and what is about to be sent to it are distinct lines (`ViewerOK`); the pick of the ring keeps their order (`PickedLines`) |
| | `TailIsCovered` (`TailCovers`) | `LedgerInv`: a tail with the credits on their way covers the rows and every debit still on its way, of a thief, an operator or a drain whose row is gone (`Covered`); a drain holds no figure above its row's (`HoldsNoLess`); and so does what a walk of the re-estimation will replace the tail with, unless something overlapped it (`Foreseen`) |
| | `FilesAreWhole` (`FilesAccounted`) | `DlIInv`: for a file on which no calls overlapped (`Calm`): one runner owns it, the partial file is the one it writes, the final one is whole and excludes a partial one, a tracked file has a row |

Model-checked only:

- the liveness properties (`AttachedCloses`, `JobAnswered`, `RestartAnswers`,
  `QueuedRowTaken`, `LostWorkerWakesAll`, `JobsGetVerdict`, `IdleRetires`), which
  need fairness and ENABLED;
- that `NoDuplicateRun` and `DispatchBudget` hold outside their hypotheses is not
  claimed: `DispatchEvict.cfg` and `DispatchReconnect.cfg` show that the former
  does not.

## 6. Not modelled

- *Failing database calls*: logged and skipped in the code, call by call.
- *Renewal of leases*: a lease lasts while its holder lives, which is what the
  keep-alive is for; `Restart` has the leases of a dead process run out.
- *The TTL cleanup of answered results, and priorities within a queue.*
- *Rendering*: the templates, icons, themes and the text of pages; of the web
  handlers, those that read, call one modelled operation and format.
- *Sessions, configuration, TLS, metrics, statistics*: I/O, formatting and
  probes, with no state that the modelled parts rely on.
- *Command line parsing and the setup wizard.*
- *The worker process, gateways and browsers*: external; modelled by what they
  may send. The plugin handshake and the layout of packages are left out.
- *The worker pool helper*: no package uses it.

The components, with what each module covers of them, are listed in
`PROJECT.json`.

## 7. Plan

1. That `Drain` implements the fairness `Dispatch` assumes of its drainers, as a
   refinement (liveness, so a run of TLC).
2. A repair of a stale release in `Dispatch` (a release that looks at the row
   again in its transaction), and `NoDuplicateRun` without hypotheses for it.
3. Renewal of leases and the TTL cleanup in `Restart`.
