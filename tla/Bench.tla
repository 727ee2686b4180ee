--------------------------------- MODULE Bench ---------------------------------
(***************************************************************************)
(* The bench orchestrator (scheduler/bench_orchestrator.go) and the cached *)
(* benchmark lookup (scheduler/model_bench.go), for one worker: workers    *)
(* have separate runners, gates, rows and cache entries and meet nowhere.  *)
(*                                                                         *)
(* A runner is a goroutine with its own task queue.  stopWorker only asks  *)
(* it to stop, so the runner of a former connection may still be at work   *)
(* when a reconnect starts a new one: runners have identities.             *)
(***************************************************************************)
EXTENDS Naturals, Sequences, FiniteSets

CONSTANTS BModels, BSets,  \* model keys; the non-empty device sets
          RunnerIds,       \* bound: runners in one behaviour
          BenchMaxAttempts,
          MaxChanges       \* bound: reconnects, toggles, file changes, submissions, dispatches

ASSUME BenchAssumption ==
  /\ BenchMaxAttempts \in Nat \ {0} /\ MaxChanges \in Nat
  /\ RunnerIds \subseteq Nat \ {0} /\ 0 \notin BSets

NoSet    == 0
NoTask   == [m |-> 0, set |-> NoSet, att |-> 0, due |-> TRUE]
NoBRow   == [ver |-> 0, err |-> FALSE, none |-> TRUE]
Keys     == BSets \X BModels
Idle     == [st |-> "none", q |-> <<>>, cur |-> NoTask, pc |-> "idle", epoch |-> 0]

VARIABLES
  bOnline,   \* the connection's epoch, 0 when the worker is away
  bSet,      \* its predicted device set (predictDeviceSet)
  bFile,     \* bFile[m]: the version of the model's file, 0 when there is none
  bRow,      \* bRow[<<set, m>>]: the model_benchmarks row
  bCache,    \* bCache[<<set, m>>]: a cached row, in a set; {} is a miss
  bLook,     \* a placement's lookup between its read of the store and its put
  bRunner,   \* the orchestrator's entry for the worker, 0 when there is none
  bRun,      \* bRun[r]: the runner
  bGate,     \* the runner that holds the dispatch gate, 0 when it is down
  bTrig,     \* sweeps started and not listed yet
  bPend,     \* models a sweep still has to enqueue: <<model, only if missing>>
  bDrain,    \* the worker queue's drainer: "idle", "loading", "inflight"
  bJob,      \* bJob[m]: a job for m on the global queue
  bForgone,  \* history: a sweep or a task was given up without a verdict
  bStale,    \* history: keys whose cached row was overtaken before its put
  bDirty,    \* history: keys written and not invalidated yet
  bChanges, bEpoch

benchVars == <<bOnline, bSet, bFile, bRow, bCache, bLook, bRunner, bRun, bGate, bTrig, bPend,
               bDrain, bJob, bForgone, bStale, bDirty, bChanges, bEpoch>>
tables    == <<bRow, bCache, bStale, bDirty>>

\* StartBenchOrchestrator, which sweeps the workers that are connected.
BenchInit ==
  /\ bOnline = 0 /\ bSet = (CHOOSE d \in BSets : TRUE) /\ bFile = [m \in BModels |-> 1]
  /\ bRow = [k \in Keys |-> NoBRow] /\ bCache = [k \in Keys |-> {}] /\ bLook = <<>>
  /\ bRunner = 0 /\ bRun = [r \in RunnerIds |-> Idle] /\ bGate = 0
  /\ bTrig = {} /\ bPend = {} /\ bDrain = "idle" /\ bJob = [m \in BModels |-> "waiting"]
  /\ bForgone = FALSE /\ bStale = {} /\ bDirty = {} /\ bChanges = 0 /\ bEpoch = 0

-----------------------------------------------------------------------------
(* The store and the cache.                                                 *)

IsRow(row)  == ~row.none
Usable(row) == IsRow(row) /\ ~row.err

\* modelFileUnchanged: a file that cannot be read counts as changed.
modelFileUnchanged(row, m) == bFile[m] # 0 /\ row.ver = bFile[m]

\* upsertModelBenchmark; SaveModelBenchmarkError is the same with err set.
SaveModelBenchmark(k, row) == bRow' = [bRow EXCEPT ![k] = row]
DeleteModelBenchmarksByModel(m) == bRow' = [k \in Keys |-> IF k[2] = m THEN NoBRow ELSE bRow[k]]
DeleteModelBenchmarksByWorker   == bRow' = [k \in Keys |-> NoBRow]

\* dropWorker and dropAll are the same with one worker.
InvalidateModelBenchmarks == bCache' = [k \in Keys |-> {}] /\ bStale' = {} /\ bDirty' = {}

\* lookupModelBenchmark's answer, and the cache after it.
lookupModelBenchmark(k) == IF bCache[k] # {} THEN CHOOSE row \in bCache[k] : TRUE ELSE bRow[k]
CachePut(k, row)        == bCache' = [bCache EXCEPT ![k] = {row}]

-----------------------------------------------------------------------------
(* Discovery.                                                               *)

Change == bChanges < MaxChanges /\ bChanges' = bChanges + 1

\* OnWorkerConnected: sweepWorkerAsync.  The first connection is no change.
BConnect ==
  /\ IF bEpoch = 0 THEN UNCHANGED bChanges ELSE Change
  /\ bOnline = 0 /\ bOnline' = bEpoch + 1 /\ bEpoch' = bEpoch + 1
  /\ bTrig' = bTrig \cup {"all"} /\ bForgone' = FALSE
  /\ UNCHANGED <<bSet, bFile, tables, bLook, bRunner, bRun, bGate, bPend, bDrain, bJob>>

\* OnWorkerDisconnected: the cache is dropped and stopWorker forgets the
\* runner and closes its stop channel.
BDisconnect ==
  /\ Change /\ bOnline # 0 /\ bOnline' = 0
  /\ InvalidateModelBenchmarks /\ UNCHANGED bRow
  /\ bRunner' = 0
  /\ bRun' = IF bRunner = 0 THEN bRun ELSE [bRun EXCEPT ![bRunner].st = "stopping"]
  /\ UNCHANGED <<bSet, bFile, bLook, bGate, bTrig, bPend, bDrain, bJob, bForgone, bEpoch>>

\* A device toggle moves the predicted set and sweeps (ReestimateWorkerQueue).
BToggle ==
  /\ Change /\ bSet' \in (BSets \cup {NoSet}) \ {bSet}
  /\ bTrig' = IF bOnline # 0 THEN bTrig \cup {"all"} ELSE bTrig
  /\ bForgone' = FALSE
  /\ UNCHANGED <<bOnline, bFile, tables, bLook, bRunner, bRun, bGate, bPend, bDrain, bJob, bEpoch>>

\* A download lands (OnModelDownloaded).
OnModelDownloaded(m) ==
  /\ Change /\ bFile' = [bFile EXCEPT ![m] = 2] /\ bFile[m] # 2
  /\ bTrig' = bTrig \cup {m}
  /\ UNCHANGED <<bOnline, bSet, tables, bLook, bRunner, bRun, bGate, bPend, bDrain, bJob, bForgone, bEpoch>>

\* RebenchModel: the rows go, and the model is queued whatever the store says.
queueModelEverywhere(m) == bPend' = IF bFile[m] # 0 /\ bOnline # 0 THEN bPend \cup {<<m, FALSE>>} ELSE bPend

RebenchModel(m) ==
  /\ Change /\ DeleteModelBenchmarksByModel(m) /\ InvalidateModelBenchmarks /\ queueModelEverywhere(m)
  /\ UNCHANGED <<bOnline, bSet, bFile, bLook, bRunner, bRun, bGate, bTrig, bDrain, bJob, bForgone, bEpoch>>

\* cancelModel drops the queued tasks of the registered runners.
cancelModel(m) ==
  bRun' = IF bRunner = 0 THEN bRun
          ELSE [bRun EXCEPT ![bRunner].q = SelectSeq(@, LAMBDA t : t.m # m)]

\* OnModelRemoved: the file is gone already.
OnModelRemoved(m) ==
  /\ Change /\ bFile[m] # 0 /\ bFile' = [bFile EXCEPT ![m] = 0]
  /\ DeleteModelBenchmarksByModel(m) /\ cancelModel(m) /\ InvalidateModelBenchmarks
  /\ UNCHANGED <<bOnline, bSet, bLook, bRunner, bGate, bTrig, bPend, bDrain, bJob, bForgone, bEpoch>>

\* OnWorkerRemoved: the operator revoked the worker.
OnWorkerRemoved ==
  /\ Change /\ bOnline = 0 /\ DeleteModelBenchmarksByWorker /\ InvalidateModelBenchmarks
  /\ UNCHANGED <<bOnline, bSet, bFile, bLook, bRunner, bRun, bGate, bTrig, bPend, bDrain, bJob, bForgone, bEpoch>>

\* sweepWorker and queueModelsMatching: nothing without a device set or a
\* connected worker; else the catalogue, which is the models with a file.
SweepList(t) ==
  /\ t \in bTrig /\ bTrig' = bTrig \ {t}
  /\ bPend' = IF bOnline = 0 \/ bSet = NoSet THEN bPend
              ELSE bPend \cup {<<m, TRUE>> : m \in {x \in BModels : bFile[x] # 0 /\ t \in {"all", x}}}
  /\ UNCHANGED <<bOnline, bSet, bFile, tables, bLook, bRunner, bRun, bGate, bDrain, bJob, bForgone, bChanges, bEpoch>>

\* The gateway cannot list its models: the sweep is over, with a warning.
SweepFails(t) ==
  /\ t \in bTrig /\ bTrig' = bTrig \ {t} /\ bForgone' = TRUE
  /\ UNCHANGED <<bOnline, bSet, bFile, tables, bLook, bRunner, bRun, bGate, bPend, bDrain, bJob, bChanges, bEpoch>>

\* enqueue: the registered runner, or a new one; a task for the same model and
\* set that is queued or running answers for this one.  (It does not if it has
\* saved its verdict or given up already: that bench is forgone.)
Queued(r, m, d) == \E i \in 1..Len(bRun[r].q) : bRun[r].q[i].m = m /\ bRun[r].q[i].set = d
\* Mutant of Current: the running bench answers for every device set.
CurrentAnySet(r, m, d) == bRun[r].cur.m = m
Current(r, m, d) == bRun[r].cur.m = m /\ bRun[r].cur.set = d
Fresh == CHOOSE r \in RunnerIds : bRun[r].st = "none" /\ \A x \in RunnerIds : bRun[x].st = "none" => r <= x

enqueue(m, d) ==
  LET r == IF bRunner = 0 THEN Fresh ELSE bRunner
      t == [m |-> m, set |-> d, att |-> 0, due |-> TRUE] IN
  /\ bRunner' = r
  /\ bRun' = [bRun EXCEPT ![r].st = "live",
                          ![r].q = IF Queued(r, m, d) \/ Current(r, m, d) THEN @ ELSE Append(@, t)]
  /\ bForgone' = (bForgone \/ (~Queued(r, m, d) /\ Current(r, m, d) /\ bRun[r].pc \in {"saved", "finish"}))

\* enqueueIfMissing, or queueModelEverywhere's enqueue when it is forced.
EnqueueOne(m, missing) ==
  /\ <<m, missing>> \in bPend /\ bPend' = bPend \ {<<m, missing>>}
  /\ LET k == <<bSet, m>> IN
     IF bSet = NoSet \/ bOnline = 0
     THEN UNCHANGED <<bRunner, bRun, bForgone, bCache, bStale>>
     ELSE LET row == lookupModelBenchmark(k) IN
          /\ IF missing THEN CachePut(k, row) ELSE UNCHANGED bCache
          /\ bStale' = IF missing /\ row = bRow[k] THEN bStale \ {k} ELSE bStale
          /\ IF missing /\ IsRow(row) /\ modelFileUnchanged(row, m)
             THEN UNCHANGED <<bRunner, bRun, bForgone>>
             ELSE enqueue(m, bSet)
  /\ UNCHANGED <<bOnline, bSet, bFile, bRow, bDirty, bLook, bGate, bTrig, bDrain, bJob, bChanges, bEpoch>>

-----------------------------------------------------------------------------
(* A runner.                                                                *)

Tail1(q, i) == [j \in 1..(Len(q) - 1) |-> IF j < i THEN q[j] ELSE q[j + 1]]
Due(r)   == {i \in 1..Len(bRun[r].q) : bRun[r].q[i].due}
First(r) == CHOOSE i \in Due(r) : \A j \in Due(r) : i <= j

env == <<bOnline, bSet, bFile, bTrig, bPend, bDrain, bJob, bLook, bRunner, bChanges, bEpoch>>

At(r, pc) == bRun[r].pc = pc
Goto(r, pc) == bRun' = [bRun EXCEPT ![r].pc = pc]

\* next and runOne's head: a due task is taken even by a runner told to stop.
RunNext(r) ==
  /\ At(r, "idle") /\ bRun[r].st \in {"live", "stopping"} /\ Due(r) # {}
  /\ bRun' = [bRun EXCEPT ![r].q = Tail1(@, First(r)), ![r].cur = bRun[r].q[First(r)],
                          ![r].epoch = bOnline, ![r].pc = IF bOnline = 0 THEN "finish" ELSE "author"]
  /\ UNCHANGED <<env, tables, bGate, bForgone>>

\* The timer of a backed-off task fires.
BackoffEnds(r) ==
  /\ At(r, "idle") /\ bRun[r].st = "live" /\ Due(r) = {} /\ bRun[r].q # <<>>
  /\ bRun' = [bRun EXCEPT ![r].q = [i \in 1..Len(@) |-> [@[i] EXCEPT !.due = TRUE]]]
  /\ UNCHANGED <<env, tables, bGate, bForgone>>

\* The loop's select takes the stop channel when nothing is due.
RunExit(r) ==
  /\ At(r, "idle") /\ bRun[r].st = "stopping" /\ Due(r) = {}
  /\ bRun' = [bRun EXCEPT ![r] = [Idle EXCEPT !.st = "stopped"]]
  /\ UNCHANGED <<env, tables, bGate, bForgone>>

\* requeue with a backoff, and the end of runOne: the deferred release, finish.
Release(r)    == bGate' = IF bGate = r THEN 0 ELSE bGate
requeue(r, t) == bRun' = [bRun EXCEPT ![r].q = Append(@, [t EXCEPT !.due = FALSE]), ![r].pc = "finish"]

\* retryOrRecord: backed off, or recorded as incapable when the attempts are spent.
retryOrRecord(r) ==
  LET t == [bRun[r].cur EXCEPT !.att = @ + 1] IN
  IF t.att >= BenchMaxAttempts THEN Goto(r, "incapable") ELSE requeue(r, t)

Finish(r) ==
  /\ At(r, "finish") /\ Release(r)
  /\ bRun' = [bRun EXCEPT ![r].cur = NoTask, ![r].epoch = 0, ![r].pc = "idle"]
  /\ UNCHANGED <<env, tables, bForgone>>

\* AuthorBenchPayload: the gateway has no such model or is not running, for a
\* while (a free retry); it fails; or it authors a payload, possibly with no cost.
AuthorGone(r) ==
  /\ At(r, "author") /\ requeue(r, bRun[r].cur)
  /\ \/ bFile[bRun[r].cur.m] = 0 /\ UNCHANGED bChanges
     \/ Change
  /\ UNCHANGED <<bOnline, bSet, bFile, bTrig, bPend, bDrain, bJob, bLook, bRunner, bEpoch, tables, bGate, bForgone>>

AuthorFails(r) ==
  /\ At(r, "author") /\ retryOrRecord(r)
  /\ UNCHANGED <<env, tables, bGate, bForgone>>

AuthorAnswers(r) ==
  /\ At(r, "author") /\ bFile[bRun[r].cur.m] # 0
  /\ \/ Goto(r, "incapable")
     \/ Goto(r, "gate")
  /\ UNCHANGED <<env, tables, bGate, bForgone>>

\* Mutant of holdBenchGate: the gate is taken without a look.
holdBenchGateBlind(r) ==
  /\ At(r, "gate") /\ bGate' = r /\ Goto(r, "drain") /\ UNCHANGED bForgone
  /\ UNCHANGED <<env, tables>>

\* holdBenchGate: of two runners the second gives its task up, counting on the
\* sweep of a reconnect.
holdBenchGate(r) ==
  /\ At(r, "gate")
  /\ \/ bGate # 0 /\ Goto(r, "finish") /\ bForgone' = TRUE /\ UNCHANGED bGate
     \/ bGate = 0 /\ bGate' = r /\ Goto(r, "drain") /\ UNCHANGED bForgone
  /\ UNCHANGED <<env, tables>>

\* The poll: quiet means no job in flight; a lost worker ends the wait.
GateWait(r) ==
  /\ At(r, "drain")
  /\ \/ bDrain # "inflight" /\ Goto(r, "clear")
     \/ bDrain = "inflight" /\ bOnline = 0 /\ Goto(r, "finish")
  /\ UNCHANGED <<env, tables, bGate, bForgone>>

\* clearDeviceSet: a resident is busy or its eviction fails, which does not go
\* on for ever; or the set is clear.  A model still loading is no resident.
clearDeviceSet(r) ==
  /\ At(r, "clear")
  /\ \/ Change /\ requeue(r, bRun[r].cur)
     \/ Goto(r, "bench") /\ UNCHANGED bChanges
  /\ UNCHANGED <<bOnline, bSet, bFile, bTrig, bPend, bDrain, bJob, bLook, bRunner, bEpoch, tables, bGate, bForgone>>

\* StreamWorker.BenchModel's answers.
BenchIncapable(r) ==
  /\ At(r, "bench") /\ bRun[r].epoch = bOnline /\ Goto(r, "incapable")
  /\ UNCHANGED <<env, tables, bGate, bForgone>>

BenchOffline(r) ==
  /\ At(r, "bench") /\ bRun[r].epoch # bOnline /\ Goto(r, "finish")
  /\ UNCHANGED <<env, tables, bGate, bForgone>>

BenchFails(r) ==
  /\ At(r, "bench") /\ bRun[r].epoch = bOnline /\ retryOrRecord(r)
  /\ UNCHANGED <<env, tables, bGate, bForgone>>

SaveVerdict(r, err) ==
  LET k == <<bRun[r].cur.set, bRun[r].cur.m>>
      v == [ver |-> bFile[k[2]], err |-> err, none |-> FALSE] IN
  /\ SaveModelBenchmark(k, v) /\ bDirty' = bDirty \cup {k} /\ Goto(r, "saved")
  /\ UNCHANGED <<bCache, bStale, env, bGate, bForgone>>

\* recordMeasurement and recordIncapable: the file's identity is read now, the
\* row is saved under the task's set, and then the cache is invalidated.
recordMeasurement(r) == At(r, "bench") /\ bRun[r].epoch = bOnline /\ SaveVerdict(r, FALSE)
recordIncapable(r)   == At(r, "incapable") /\ SaveVerdict(r, TRUE)

\* Mutant of RecordInvalidate: the verdict is saved and the cache left alone.
RecordKeepsCache(r) ==
  /\ At(r, "saved") /\ Goto(r, "finish") /\ bDirty' = {}
  /\ UNCHANGED <<env, bRow, bCache, bStale, bGate, bForgone>>

RecordInvalidate(r) ==
  /\ At(r, "saved") /\ InvalidateModelBenchmarks /\ Goto(r, "finish")
  /\ UNCHANGED <<env, bRow, bGate, bForgone>>

-----------------------------------------------------------------------------
(* Dispatch and placement, as far as they meet the benches.                 *)

\* drainOneWorkerQueue checks the gate once; then the load, and startInflight.
DrainStart ==
  /\ Change /\ bDrain = "idle" /\ bOnline # 0 /\ bGate = 0 /\ bDrain' = "loading"
  /\ UNCHANGED <<bOnline, bSet, bFile, tables, bLook, bRunner, bRun, bGate, bTrig, bPend, bJob, bForgone, bEpoch>>

DrainStep ==
  /\ \/ bDrain = "loading" /\ bDrain' \in {"inflight", "idle"}
     \/ bDrain = "inflight" /\ bDrain' = "idle"
  /\ UNCHANGED <<bOnline, bSet, bFile, tables, bLook, bRunner, bRun, bGate, bTrig, bPend, bJob, bForgone, bChanges, bEpoch>>

SubmitJob(m) ==
  /\ Change /\ bJob[m] # "waiting" /\ bJob' = [bJob EXCEPT ![m] = "waiting"]
  /\ UNCHANGED <<bOnline, bSet, bFile, tables, bLook, bRunner, bRun, bGate, bTrig, bPend, bDrain, bForgone, bEpoch>>

\* drainGlobal prices the job: a usable row of this file makes the worker a
\* candidate, an incapable one fails the job (modelBenchConclusion), and
\* anything else leaves it waiting.
Conclude(m, row) ==
  bJob' = [bJob EXCEPT ![m] =
             IF IsRow(row) /\ modelFileUnchanged(row, m) THEN IF Usable(row) THEN "placed" ELSE "failed" ELSE @]

Price(m) ==
  /\ bJob[m] = "waiting" /\ bOnline # 0 /\ bSet # NoSet /\ bLook = <<>>
  /\ LET k == <<bSet, m>> IN
     \/ bCache[k] # {} /\ Conclude(m, lookupModelBenchmark(k)) /\ UNCHANGED bLook
     \/ bCache[k] = {} /\ bLook' = <<k, bRow[k]>> /\ UNCHANGED bJob
  /\ UNCHANGED <<bOnline, bSet, bFile, tables, bRunner, bRun, bGate, bTrig, bPend, bDrain, bForgone, bChanges, bEpoch>>

PricePut ==
  /\ bLook # <<>> /\ bLook' = <<>> /\ CachePut(bLook[1], bLook[2])
  /\ bStale' = IF bLook[2] = bRow[bLook[1]] THEN bStale \ {bLook[1]} ELSE bStale \cup {bLook[1]}
  /\ Conclude(bLook[1][2], bLook[2])
  /\ UNCHANGED <<bOnline, bSet, bFile, bRow, bDirty, bRunner, bRun, bGate, bTrig, bPend, bDrain, bForgone, bChanges, bEpoch>>

-----------------------------------------------------------------------------
RunnerStep(r) ==
  \/ RunNext(r) \/ BackoffEnds(r) \/ RunExit(r) \/ Finish(r)
  \/ AuthorGone(r) \/ AuthorFails(r) \/ AuthorAnswers(r)
  \/ holdBenchGate(r) \/ GateWait(r) \/ clearDeviceSet(r)
  \/ BenchIncapable(r) \/ BenchOffline(r) \/ BenchFails(r)
  \/ recordMeasurement(r) \/ recordIncapable(r) \/ RecordInvalidate(r)

SweepStep == \/ \E t \in bTrig : SweepList(t)
             \/ \E p \in bPend : EnqueueOne(p[1], p[2])

BenchNext ==
  \/ BConnect \/ BDisconnect \/ BToggle \/ OnWorkerRemoved
  \/ \E m \in BModels : OnModelDownloaded(m) \/ RebenchModel(m) \/ OnModelRemoved(m) \/ SubmitJob(m) \/ Price(m)
  \/ SweepStep \/ (\E t \in bTrig : SweepFails(t))
  \/ (\E r \in RunnerIds : RunnerStep(r))
  \/ DrainStart \/ DrainStep \/ PricePut

\* Goroutines run on; the dispatch pass comes back to a waiting job.
RunnersRun == \E r \in RunnerIds : RunnerStep(r)
PlacerRuns == PricePut \/ \E m \in BModels : Price(m)

BenchSpec ==
  /\ BenchInit /\ [][BenchNext]_benchVars
  /\ WF_benchVars(SweepStep) /\ WF_benchVars(RunnersRun) /\ WF_benchVars(DrainStep) /\ WF_benchVars(PlacerRuns)

-----------------------------------------------------------------------------
BenchTypeOK ==
  /\ bSet \in BSets \cup {NoSet} /\ bFile \in [BModels -> 0..2] /\ bGate \in RunnerIds \cup {0}
  /\ bRunner \in RunnerIds \cup {0} /\ bRunner # 0 => bRun[bRunner].st = "live"
  /\ \A k \in Keys : Cardinality(bCache[k]) <= 1
  /\ bDrain \in {"idle", "loading", "inflight"} /\ bJob \in [BModels -> {"waiting", "placed", "failed"}]

Measuring(r) == bRun[r].pc \in {"drain", "clear", "bench"}

\* One measurement at a time: the runner of a former connection, still working
\* off its queue, and the one a reconnect started never hold the worker
\* together, and the gate stays up until the one that raised it is through.
OneBenchAtATime == \A r \in RunnerIds : Measuring(r) => bGate = r

\* Every writer of the benchmark table invalidates the cache: once it has, a
\* cached verdict is the one in the store, unless a lookup that had read the
\* store before the write put its answer after the invalidation.
CacheAgrees ==
  \A k \in Keys : bCache[k] # {} /\ k \notin bStale \cup bDirty => bRow[k] \in bCache[k]

\* No job waits for ever on a bench: on a worker that is there with devices, a
\* waiting job is placed or failed by a verdict, through lost connections,
\* toggles, retries and file changes, unless a sweep or a task was given up
\* with no verdict or the cache kept an overtaken answer.
JobsGetVerdict ==
  \A m \in BModels :
    bJob[m] = "waiting" ~> (bJob[m] # "waiting" \/ bOnline = 0 \/ bSet = NoSet \/ bFile[m] = 0
                             \/ bForgone \/ bStale # {})

\* What dispatch promises a bench: "the measurement sees an otherwise-idle
\* device set" (drainOneWorkerQueue).
BenchExclusive == \A r \in RunnerIds : bRun[r].pc = "bench" => bDrain = "idle"
=============================================================================
