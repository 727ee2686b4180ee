------------------------------- MODULE HostProofs -------------------------------
(***************************************************************************)
(* Proofs about Bench, Catalogue and Proxy, for any number of runners,     *)
(* models, device sets, jobs, queues, deletions and imports, and requests  *)
(* and answers of any length through windows of any size.                  *)
(***************************************************************************)
EXTENDS Bench, Catalogue, Proxy, SumLemmas, SequenceTheorems

-----------------------------------------------------------------------------
(* The dispatch gate of a worker.                                          *)

IsRunner(x) == x \in [st : {x.st}, q : {x.q}, cur : {x.cur}, pc : {x.pc}, epoch : {x.epoch}]

\* The runners are records, whatever they hold; the gate is up for the one
\* that measures.
GateIInv ==
  /\ bRun = [r \in RunnerIds |-> bRun[r]]
  /\ \A r \in RunnerIds : IsRunner(bRun[r])
  /\ OneBenchAtATime

\* A step that leaves the gate alone and takes no runner into a measurement
\* preserves the gate's invariant.
LEMMA GateFrame ==
  ASSUME GateIInv, bGate' = bGate,
         bRun' = [r \in RunnerIds |-> bRun'[r]],
         \A r \in RunnerIds : IsRunner(bRun[r])' /\ (Measuring(r)' => Measuring(r))
  PROVE  GateIInv'
BY DEF GateIInv, OneBenchAtATime

\* A runner stays a record when a field of it is written, and the other
\* fields keep their values.
LEMMA WritePosition ==
  ASSUME NEW x, IsRunner(x), NEW a, NEW y, y = [x EXCEPT !.pc = a]
  PROVE  IsRunner(y) /\ y.pc = a
BY DEF IsRunner

\* A runner with another state or another queue is at the same point of its loop.
LEMMA WriteOne ==
  ASSUME NEW x, IsRunner(x), NEW a, NEW y, y = [x EXCEPT !.st = a] \/ y = [x EXCEPT !.q = a]
  PROVE  IsRunner(y) /\ y.pc = x.pc
BY DEF IsRunner

\* One runner is replaced by v: the others are as before.
Replaced(r, v) == bRun' = [bRun EXCEPT ![r] = v]

\* Replacing one runner leaves the others as they are.
LEMMA ReplacedRunner ==
  ASSUME GateIInv, NEW r, NEW v, Replaced(r, v), r \in RunnerIds => IsRunner(v)
  PROVE  /\ bRun' = [x \in RunnerIds |-> bRun'[x]]
         /\ \A x \in RunnerIds : IsRunner(bRun'[x])
         /\ \A x \in RunnerIds : x # r => bRun'[x] = bRun[x]
         /\ r \in RunnerIds => bRun'[r] = v
BY DEF GateIInv, Replaced

\* What the helpers do to the runner, as one replacement.
LEMMA GotoReplaces ==
  ASSUME GateIInv, NEW r \in RunnerIds, NEW p, Goto(r, p)
  PROVE  \E v : Replaced(r, v) /\ IsRunner(v) /\ v.pc = p
<1>1. Replaced(r, [bRun[r] EXCEPT !.pc = p])
  BY DEF Goto, Replaced
<1> QED BY <1>1, WritePosition DEF GateIInv

\* requeue sends its runner to the end of the task.
LEMMA RequeueReplaces ==
  ASSUME GateIInv, NEW r \in RunnerIds, NEW t, requeue(r, t)
  PROVE  \E v : Replaced(r, v) /\ IsRunner(v) /\ v.pc = "finish"
<1> DEFINE nq == Append(bRun[r].q, [t EXCEPT !.due = FALSE])
           v == [bRun[r] EXCEPT !.q = nq, !.pc = "finish"]
<1>1. Replaced(r, v)
  BY DEF requeue, Replaced
<1> HIDE DEF nq
<1>2. IsRunner(bRun[r])
  BY DEF GateIInv
<1>3. \A y : y = v => IsRunner(y) /\ y.pc = "finish"
  BY ONLY <1>2 DEF IsRunner
<1> HIDE DEF v
<1> QED BY <1>1, <1>3

\* retryOrRecord sends its runner to the end of the task, or to record the verdict.
LEMMA RetryReplaces ==
  ASSUME GateIInv, NEW r \in RunnerIds, retryOrRecord(r)
  PROVE  \E v : Replaced(r, v) /\ IsRunner(v) /\ v.pc \in {"finish", "incapable"}
<1> DEFINE t == [bRun[r].cur EXCEPT !.att = @ + 1]
<1>1. Goto(r, "incapable") \/ requeue(r, t)
  BY DEF retryOrRecord
<1> HIDE DEF t
<1> QED BY <1>1, GotoReplaces, RequeueReplaces

\* enqueue changes a runner's queue and state, not where it stands.
LEMMA EnqueueReplaces ==
  ASSUME GateIInv, NEW m, NEW d, enqueue(m, d)
  PROVE  \E r, v : Replaced(r, v) /\ (r \in RunnerIds => IsRunner(v) /\ v.pc = bRun[r].pc)
<1> DEFINE r == IF bRunner = 0 THEN Fresh ELSE bRunner
           t == [m |-> m, set |-> d, att |-> 0, due |-> TRUE]
           nq == IF Queued(r, m, d) \/ Current(r, m, d) THEN bRun[r].q ELSE Append(bRun[r].q, t)
           v == [bRun[r] EXCEPT !.st = "live", !.q = nq]
<1>1. Replaced(r, v)
  BY DEF enqueue, Replaced
<1> HIDE DEF r, nq
<1>2. ASSUME r \in RunnerIds PROVE \A y : y = v => IsRunner(y) /\ y.pc = bRun[r].pc
  <2>1. IsRunner(bRun[r])
    BY <1>2 DEF GateIInv
  <2> QED BY ONLY <2>1 DEF IsRunner
<1> HIDE DEF v
<1> QED BY <1>1, <1>2

\* cancelModel changes a runner's queue, not where it stands.
LEMMA CancelReplaces ==
  ASSUME GateIInv, NEW m, cancelModel(m)
  PROVE  \/ bRun' = bRun
         \/ \E r, v : Replaced(r, v) /\ (r \in RunnerIds => IsRunner(v) /\ v.pc = bRun[r].pc)
<1>1. CASE bRunner = 0
  BY <1>1 DEF cancelModel
<1>2. CASE bRunner # 0
  <2> DEFINE nq == SelectSeq(bRun[bRunner].q, LAMBDA t : t.m # m)
  <2>1. Replaced(bRunner, [bRun[bRunner] EXCEPT !.q = nq])
    BY <1>2 DEF cancelModel, Replaced
  <2> HIDE DEF nq
  <2>2. ASSUME bRunner \in RunnerIds PROVE IsRunner(bRun[bRunner])
    BY <2>2 DEF GateIInv
  <2> QED BY <2>1, <2>2, WriteOne
<1> QED BY <1>1, <1>2

\* At first no runner measures.
LEMMA GateInvInit == BenchInit => GateIInv
BY DEF BenchInit, GateIInv, OneBenchAtATime, Measuring, IsRunner, Idle

\* A replacement that does not take its runner into a measurement.
LEMMA GateReplace ==
  ASSUME GateIInv, UNCHANGED bGate,
         NEW r, NEW v, Replaced(r, v), r \in RunnerIds => IsRunner(v),
         r \in RunnerIds => v.pc = bRun[r].pc \/ v.pc \notin {"drain", "clear", "bench"}
                                     \/ bRun[r].pc \in {"drain", "clear", "bench"}
  PROVE  GateIInv'
<1>1. /\ bRun' = [x \in RunnerIds |-> bRun'[x]]
      /\ \A x \in RunnerIds : IsRunner(bRun'[x])
      /\ \A x \in RunnerIds : x # r => bRun'[x] = bRun[x]
      /\ r \in RunnerIds => bRun'[r] = v
  BY ReplacedRunner
<1> QED BY <1>1 DEF GateIInv, OneBenchAtATime, Measuring

\* The runner's own steps.
LEMMA GateRunnerStep ==
  ASSUME GateIInv, NEW r \in RunnerIds, RunnerStep(r)
  PROVE  GateIInv'
<1>r. IsRunner(bRun[r])
  BY DEF GateIInv
<1>1. CASE RunNext(r)
  <2> DEFINE nq == Tail1(bRun[r].q, First(r))
             t == bRun[r].q[First(r)]
             p == IF bOnline = 0 THEN "finish" ELSE "author"
             v == [bRun[r] EXCEPT !.q = nq, !.cur = t, !.epoch = bOnline, !.pc = p]
  <2>1. Replaced(r, v) /\ UNCHANGED bGate
    BY <1>1 DEF RunNext, Replaced
  <2> HIDE DEF nq, t
  <2>2. \A y : y = v => IsRunner(y) /\ y.pc = p
    BY ONLY <1>r DEF IsRunner
  <2> HIDE DEF v
  <2> QED BY <2>1, <2>2, GateReplace
<1>2. CASE BackoffEnds(r)
  <2> DEFINE nq == [i \in 1..Len(bRun[r].q) |-> [bRun[r].q[i] EXCEPT !.due = TRUE]]
             v == [bRun[r] EXCEPT !.q = nq]
  <2>1. Replaced(r, v) /\ UNCHANGED bGate
    BY <1>2 DEF BackoffEnds, Replaced
  <2> HIDE DEF nq
  <2>2. IsRunner(v) /\ v.pc = bRun[r].pc
    BY ONLY <1>r, WriteOne
  <2> HIDE DEF v
  <2> QED BY <2>1, <2>2, GateReplace
<1>3. CASE RunExit(r)
  <2> DEFINE v == [Idle EXCEPT !.st = "stopped"]
  <2>1. Replaced(r, v) /\ UNCHANGED bGate
    BY <1>3 DEF RunExit, Replaced
  <2>2. IsRunner(v) /\ v.pc = "idle"
    BY DEF IsRunner, Idle
  <2> HIDE DEF v
  <2> QED BY <2>1, <2>2, GateReplace
<1>4. CASE Finish(r)
  <2> DEFINE v == [bRun[r] EXCEPT !.cur = NoTask, !.epoch = 0, !.pc = "idle"]
  <2>1. Replaced(r, v)
    BY <1>4 DEF Finish, Replaced
  <2>2. \A y : y = v => IsRunner(y) /\ y.pc = "idle"
    BY ONLY <1>r DEF IsRunner
  <2> HIDE DEF v
  <2>3. /\ bRun' = [x \in RunnerIds |-> bRun'[x]]
        /\ \A x \in RunnerIds : IsRunner(bRun'[x])
        /\ \A x \in RunnerIds : x # r => bRun'[x] = bRun[x]
        /\ bRun'[r] = v
    BY <2>1, <2>2, ReplacedRunner
  <2>4. bGate' = IF bGate = r THEN 0 ELSE bGate
    BY <1>4 DEF Finish, Release
  <2> QED BY <2>2, <2>3, <2>4 DEF GateIInv, OneBenchAtATime, Measuring
<1>5. CASE AuthorGone(r)
  <2>1. requeue(r, bRun[r].cur) /\ UNCHANGED bGate
    BY <1>5 DEF AuthorGone
  <2> QED BY <2>1, RequeueReplaces, GateReplace
<1>6. CASE AuthorFails(r) \/ BenchFails(r)
  <2>1. retryOrRecord(r) /\ UNCHANGED bGate
    BY <1>6 DEF AuthorFails, BenchFails
  <2> QED BY <2>1, RetryReplaces, GateReplace
<1>7. CASE AuthorAnswers(r)
  <2>1. (Goto(r, "incapable") \/ Goto(r, "gate")) /\ UNCHANGED bGate
    BY <1>7 DEF AuthorAnswers
  <2> QED BY <2>1, GotoReplaces, GateReplace
<1>8. CASE holdBenchGate(r)
  <2>1. CASE Goto(r, "finish") /\ UNCHANGED bGate
    BY <2>1, GotoReplaces, GateReplace
  <2>2. CASE bGate = 0 /\ bGate' = r /\ Goto(r, "drain")
    <3>1. PICK v : Replaced(r, v) /\ IsRunner(v) /\ v.pc = "drain"
      BY <2>2, GotoReplaces
    <3>2. /\ bRun' = [x \in RunnerIds |-> bRun'[x]]
          /\ \A x \in RunnerIds : IsRunner(bRun'[x])
          /\ \A x \in RunnerIds : x # r => bRun'[x] = bRun[x]
      BY <3>1, ReplacedRunner
    <3>3. \A x \in RunnerIds : ~Measuring(x)
      BY <2>2, BenchAssumption DEF GateIInv, OneBenchAtATime
    <3> QED BY <2>2, <3>2, <3>3 DEF GateIInv, OneBenchAtATime, Measuring
  <2> QED BY <1>8, <2>1, <2>2 DEF holdBenchGate
<1>9. CASE GateWait(r)
  <2>1. (Goto(r, "clear") \/ Goto(r, "finish")) /\ UNCHANGED bGate /\ bRun[r].pc = "drain"
    BY <1>9 DEF GateWait, At
  <2> QED BY <2>1, GotoReplaces, GateReplace
<1>10. CASE clearDeviceSet(r)
  <2>1. (requeue(r, bRun[r].cur) \/ Goto(r, "bench")) /\ UNCHANGED bGate /\ bRun[r].pc = "clear"
    BY <1>10 DEF clearDeviceSet, At
  <2> QED BY <2>1, GotoReplaces, RequeueReplaces, GateReplace
<1>11. CASE BenchIncapable(r) \/ BenchOffline(r)
  <2>1. (Goto(r, "incapable") \/ Goto(r, "finish")) /\ UNCHANGED bGate
    BY <1>11 DEF BenchIncapable, BenchOffline
  <2> QED BY <2>1, GotoReplaces, GateReplace
<1>12. CASE recordMeasurement(r) \/ recordIncapable(r) \/ RecordInvalidate(r)
  <2>1. (Goto(r, "saved") \/ Goto(r, "finish")) /\ UNCHANGED bGate
    BY <1>12 DEF recordMeasurement, recordIncapable, RecordInvalidate, SaveVerdict
  <2> QED BY <2>1, GotoReplaces, GateReplace
<1> QED
  BY <1>1, <1>2, <1>3, <1>4, <1>5, <1>6, <1>7, <1>8, <1>9, <1>10, <1>11, <1>12 DEF RunnerStep

\* Every step keeps the gate with the runner that measures.
LEMMA GateInvNext == GateIInv /\ [BenchNext]_benchVars => GateIInv'
<1> SUFFICES ASSUME GateIInv, [BenchNext]_benchVars PROVE GateIInv'
  OBVIOUS
<1>1. ASSUME UNCHANGED <<bRun, bGate>> PROVE GateIInv'
  BY <1>1 DEF GateIInv, OneBenchAtATime, Measuring
<1>2. CASE BDisconnect
  <2>1. CASE bRunner = 0
    BY <1>1, <1>2, <2>1 DEF BDisconnect
  <2>2. CASE bRunner # 0
    <3> DEFINE v == [bRun[bRunner] EXCEPT !.st = "stopping"]
    <3>1. Replaced(bRunner, v) /\ UNCHANGED bGate
      BY <1>2, <2>2 DEF BDisconnect, Replaced
    <3>2. ASSUME bRunner \in RunnerIds PROVE IsRunner(v) /\ v.pc = bRun[bRunner].pc
      <4>1. IsRunner(bRun[bRunner])
        BY <3>2 DEF GateIInv
      <4> QED BY ONLY <4>1, WriteOne
    <3> HIDE DEF v
    <3> QED BY <3>1, <3>2, GateReplace
  <2> QED BY <2>1, <2>2
<1>3. ASSUME NEW m \in BModels, OnModelRemoved(m) PROVE GateIInv'
  <2>1. cancelModel(m) /\ UNCHANGED bGate
    BY <1>3 DEF OnModelRemoved
  <2> QED BY <1>1, <2>1, CancelReplaces, GateReplace
<1>4. ASSUME NEW m, NEW missing, EnqueueOne(m, missing) PROVE GateIInv'
  <2>1. UNCHANGED bGate /\ (UNCHANGED bRun \/ enqueue(m, bSet))
    BY <1>4 DEF EnqueueOne
  <2> QED BY <1>1, <2>1, EnqueueReplaces, GateReplace
<1>5. CASE BConnect \/ BToggle \/ OnWorkerRemoved \/ DrainStart \/ DrainStep \/ PricePut \/ UNCHANGED benchVars
  BY <1>1, <1>5 DEF BConnect, BToggle, OnWorkerRemoved, DrainStart, DrainStep, PricePut, benchVars
<1>6. ASSUME NEW m \in BModels, OnModelDownloaded(m) \/ RebenchModel(m) \/ SubmitJob(m) \/ Price(m)
      PROVE  GateIInv'
  BY <1>1, <1>6 DEF OnModelDownloaded, RebenchModel, SubmitJob, Price
<1>7. ASSUME NEW t \in bTrig, SweepList(t) \/ SweepFails(t) PROVE GateIInv'
  BY <1>1, <1>7 DEF SweepList, SweepFails
<1> QED BY <1>2, <1>3, <1>4, <1>5, <1>6, <1>7, GateRunnerStep DEF BenchNext, SweepStep

\* The gate's invariant holds throughout.
THEOREM GateInvariant == BenchSpec => []GateIInv
<1> QED BY GateInvInit, GateInvNext, PTL DEF BenchSpec

\* Two runners of one worker, the one of a lost connection and the one of its
\* successor, never measure at the same time, and the gate that keeps dispatch
\* away stays up until the one that raised it is through.
THEOREM OneBench == BenchSpec => []OneBenchAtATime
<1>1. GateIInv => OneBenchAtATime
  BY DEF GateIInv
<1> QED BY <1>1, GateInvariant, PTL

-----------------------------------------------------------------------------
(* The cached verdicts.                                                    *)

\* A cache entry is one row, and it is the row of the store unless the key is
\* one that was written or overtaken and not invalidated since.
CacheIInv ==
  /\ bRow = [k \in Keys |-> bRow[k]] /\ bCache = [k \in Keys |-> bCache[k]]
  /\ \A k \in Keys : \A a, b \in bCache[k] : a = b
  /\ CacheAgrees

\* The empty cache agrees with any table.
LEMMA CacheInvInit == BenchInit => CacheIInv
BY DEF BenchInit, CacheIInv, CacheAgrees

\* Whoever empties the cache may have written any rows before.
LEMMA CacheDropped ==
  ASSUME InvalidateModelBenchmarks, bRow' = [k \in Keys |-> bRow'[k]]
  PROVE  CacheIInv'
BY DEF InvalidateModelBenchmarks, CacheIInv, CacheAgrees

\* A lookup answers with the cached row if there is one, else with the store's.
LEMMA LookupAnswer ==
  ASSUME CacheIInv, NEW k \in Keys
  PROVE  IF bCache[k] = {} THEN lookupModelBenchmark(k) = bRow[k]
                           ELSE bCache[k] = {lookupModelBenchmark(k)}
<1>1. CASE bCache[k] = {}
  BY <1>1 DEF lookupModelBenchmark
<1>2. CASE bCache[k] # {}
  <2>1. lookupModelBenchmark(k) = CHOOSE row \in bCache[k] : TRUE
    BY <1>2 DEF lookupModelBenchmark
  <2>2. lookupModelBenchmark(k) \in bCache[k]
    BY <1>2, <2>1
  <2> QED BY <1>2, <2>2 DEF CacheIInv
<1> QED BY <1>1, <1>2

\* Every step keeps the cache and the store in agreement.
LEMMA CacheInvNext == CacheIInv /\ [BenchNext]_benchVars => CacheIInv'
<1> SUFFICES ASSUME CacheIInv, [BenchNext]_benchVars PROVE CacheIInv'
  OBVIOUS
<1>1. ASSUME UNCHANGED tables PROVE CacheIInv'
  BY <1>1 DEF CacheIInv, CacheAgrees, tables
<1>2. CASE BDisconnect \/ OnWorkerRemoved
  <2>1. InvalidateModelBenchmarks /\ (UNCHANGED bRow \/ DeleteModelBenchmarksByWorker)
    BY <1>2 DEF BDisconnect, OnWorkerRemoved
  <2>2. bRow' = [k \in Keys |-> bRow'[k]]
    BY <2>1 DEF CacheIInv, DeleteModelBenchmarksByWorker
  <2> QED BY <2>1, <2>2, CacheDropped
<1>3. ASSUME NEW m \in BModels, RebenchModel(m) \/ OnModelRemoved(m) PROVE CacheIInv'
  <2>1. InvalidateModelBenchmarks /\ DeleteModelBenchmarksByModel(m)
    BY <1>3 DEF RebenchModel, OnModelRemoved
  <2>2. bRow' = [k \in Keys |-> bRow'[k]]
    BY <2>1 DEF DeleteModelBenchmarksByModel
  <2> QED BY <2>1, <2>2, CacheDropped
<1>4. ASSUME NEW m, NEW missing, EnqueueOne(m, missing) PROVE CacheIInv'
  <2> DEFINE k == <<bSet, m>>
             row == lookupModelBenchmark(k)
  <2>1. UNCHANGED <<bRow, bDirty>>
    BY <1>4 DEF EnqueueOne
  <2>2. \/ UNCHANGED bCache /\ bStale' = bStale
        \/ CachePut(k, row) /\ bStale' = IF row = bRow[k] THEN bStale \ {k} ELSE bStale
    BY <1>4 DEF EnqueueOne
  <2>3. ASSUME k \in Keys
        PROVE  IF bCache[k] = {} THEN row = bRow[k] ELSE bCache[k] = {row}
    BY <2>3, LookupAnswer
  <2>4. CASE UNCHANGED bCache /\ bStale' = bStale
    BY <1>1, <2>1, <2>4 DEF tables
  <2>5. CASE CachePut(k, row) /\ bStale' = IF row = bRow[k] THEN bStale \ {k} ELSE bStale
    <3> HIDE DEF k, row
    <3> QED BY <2>1, <2>3, <2>5 DEF CachePut, CacheIInv, CacheAgrees
  <2> QED BY <2>2, <2>4, <2>5
<1>5. CASE PricePut
  <2> DEFINE k == bLook[1]
             row == bLook[2]
  <2>1. UNCHANGED <<bRow, bDirty>>
    BY <1>5 DEF PricePut
  <2>2. CachePut(k, row) /\ bStale' = IF row = bRow[k] THEN bStale \ {k} ELSE bStale \cup {k}
    BY <1>5 DEF PricePut
  <2> HIDE DEF k, row
  <2>3. bCache' = [bCache EXCEPT ![k] = {row}]
    BY <2>2 DEF CachePut
  <2> QED BY ONLY CacheIInv, <2>1, <2>2, <2>3 DEF CacheIInv, CacheAgrees
<1>6. ASSUME NEW r \in RunnerIds, NEW err, SaveVerdict(r, err) PROVE CacheIInv'
  <2> DEFINE k == <<bRun[r].cur.set, bRun[r].cur.m>>
             v == [ver |-> bFile[k[2]], err |-> err, none |-> FALSE]
  <2>1. SaveModelBenchmark(k, v) /\ bDirty' = bDirty \cup {k} /\ UNCHANGED <<bCache, bStale>>
    BY <1>6 DEF SaveVerdict
  <2> HIDE DEF k, v
  <2> QED BY <2>1 DEF SaveModelBenchmark, CacheIInv, CacheAgrees
<1>7. ASSUME NEW r \in RunnerIds, RunnerStep(r) PROVE CacheIInv'
  <2>1. CASE RecordInvalidate(r)
    <3>1. InvalidateModelBenchmarks /\ UNCHANGED bRow
      BY <2>1 DEF RecordInvalidate
    <3>2. bRow' = [k \in Keys |-> bRow'[k]]
      BY <3>1 DEF CacheIInv
    <3> QED BY <3>1, <3>2, CacheDropped
  <2>2. CASE recordMeasurement(r) \/ recordIncapable(r)
    BY <1>6, <2>2 DEF recordMeasurement, recordIncapable
  <2>3. CASE RunNext(r) \/ BackoffEnds(r) \/ RunExit(r) \/ Finish(r)
    BY <1>1, <2>3 DEF RunNext, BackoffEnds, RunExit, Finish
  <2>4. CASE AuthorGone(r) \/ AuthorFails(r) \/ AuthorAnswers(r) \/ holdBenchGate(r)
    BY <1>1, <2>4 DEF AuthorGone, AuthorFails, AuthorAnswers, holdBenchGate
  <2>5. CASE GateWait(r) \/ clearDeviceSet(r) \/ BenchIncapable(r) \/ BenchOffline(r) \/ BenchFails(r)
    BY <1>1, <2>5 DEF GateWait, clearDeviceSet, BenchIncapable, BenchOffline, BenchFails
  <2> QED BY <1>7, <2>1, <2>2, <2>3, <2>4, <2>5 DEF RunnerStep
<1>8. CASE BConnect \/ BToggle \/ DrainStart \/ DrainStep \/ UNCHANGED benchVars
  BY <1>1, <1>8 DEF BConnect, BToggle, DrainStart, DrainStep, benchVars, tables
<1>9. ASSUME NEW m \in BModels, OnModelDownloaded(m) \/ SubmitJob(m) \/ Price(m) PROVE CacheIInv'
  BY <1>1, <1>9 DEF OnModelDownloaded, SubmitJob, Price
<1>10. ASSUME NEW t \in bTrig, SweepList(t) \/ SweepFails(t) PROVE CacheIInv'
  BY <1>1, <1>10 DEF SweepList, SweepFails
<1> QED BY <1>2, <1>3, <1>4, <1>5, <1>7, <1>8, <1>9, <1>10 DEF BenchNext, SweepStep

\* The cache's invariant holds throughout.
THEOREM CacheInvariant == BenchSpec => []CacheIInv
<1> QED BY CacheInvInit, CacheInvNext, PTL DEF BenchSpec

\* Once a writer of the benchmark table has invalidated the cache, a cached
\* verdict is the one in the store, but for a lookup that was overtaken between
\* its read and its put.
THEOREM CacheSound == BenchSpec => []CacheAgrees
<1>1. CacheIInv => CacheAgrees
  BY DEF CacheIInv
<1> QED BY <1>1, CacheInvariant, PTL

-----------------------------------------------------------------------------
(* The walks over the queues.                                              *)

\* A placed job has a row on an open worker queue, and only a placed one.
RowsOK ==
  /\ glob \in [CJobs -> {"new", "ready", "held", "between", "done"}]
  /\ at \in [CJobs -> CWorkers \cup {Nowhere}] /\ flying \in [CJobs -> BOOLEAN]
  /\ devQ \subseteq CWorkers
  /\ \A j \in CJobs : IF glob[j] = "held" THEN at[j] \in devQ ELSE at[j] = Nowhere

JobFiles == {FileOf[j] : j \in CJobs}
DelRec == [pc : {"idle", "planned", "read", "remove"}, plan : DeletePlans \cup {{}},
           left : SUBSET ({globalQ} \cup CWorkers), found : SUBSET JobFiles, steady : SUBSET CJobs]

\* What a deletion's guard knows: the jobs that kept a row since it began still
\* have one while it reads, and once the global queue is read their files are
\* among those found.
GuardKnows(k) ==
  /\ k.pc = "read" => \A j \in k.steady : HasRow(j)
  /\ k.pc \in {"read", "remove"} /\ globalQ \notin k.left => \A j \in k.steady : FileOf[j] \in k.found
  /\ k.pc = "remove" => globalQ \notin k.left /\ ~firstPathOverlap(k.plan, k.found)

\* What an undisturbed snapshot has counted: the unleased rows of the global
\* queue and the rows of the worker queues it has been to.
SnapRec == [pc : {"idle", "global", "workers", "done"}, left : SUBSET CWorkers,
            shown : [CJobs -> Nat], run : SUBSET CJobs, moved : BOOLEAN]

SnapshotKnows ==
  /\ snap.pc # "idle" => snap.run = {j \in CJobs : flying[j]}
  /\ snap.pc = "global" => snap.left = devQ /\ \A j \in CJobs : snap.shown[j] = 0
  /\ snap.pc = "workers" =>
       \A j \in CJobs : snap.shown[j] = IF glob[j] = "ready" \/ at[j] \in devQ \ snap.left THEN 1 ELSE 0
  /\ snap.pc = "done" => \A j \in CJobs : snap.shown[j] = IF HasRow(j) THEN 1 ELSE 0

\* The inductive invariant of the two readers.
ReadersIInv ==
  /\ RowsOK
  /\ del \in [Deletes -> DelRec] /\ \A d \in Deletes : GuardKnows(del[d])
  /\ snap \in SnapRec /\ (~snap.moved => SnapshotKnows)

\* A step of a reader leaves the rows alone.
LEMMA RowsFrame == ASSUME RowsOK, UNCHANGED rowVars PROVE RowsOK'
BY DEF RowsOK, rowVars

\* With no deletion and no snapshot under way nothing has been read.
LEMMA ReadersInvInit == CatInit => ReadersIInv
<1> SUFFICES ASSUME CatInit PROVE ReadersIInv
  OBVIOUS
<1>1. RowsOK
  <2>1. \E w \in CWorkers : \A v \in CWorkers : w <= v
    BY CatAssumption, LeastNatural
  <2>2. (CHOOSE w \in CWorkers : \A v \in CWorkers : w <= v) \in CWorkers
    BY <2>1
  <2>3. devQ \subseteq CWorkers
    BY <2>2 DEF CatInit
  <2> QED BY <2>3 DEF CatInit, RowsOK
<1>2. del \in [Deletes -> DelRec] /\ \A d \in Deletes : GuardKnows(del[d])
  BY DEF CatInit, NoDelete, DelRec, GuardKnows
<1>3. snap \in SnapRec /\ SnapshotKnows
  BY DEF CatInit, SnapRec, SnapshotKnows
<1> QED BY <1>1, <1>2, <1>3 DEF ReadersIInv

\* A row moves: a placed job keeps a row on an open queue, ...
LEMMA RowsStep ==
  ASSUME RowsOK, RowsNext
  PROVE  RowsOK'
<1>1. ASSUME NEW j \in CJobs, Submit(j) \/ DeleteAndReleaseLease(j) \/ startInflight(j) PROVE RowsOK'
  BY <1>1, CatAssumption DEF Submit, DeleteAndReleaseLease, startInflight, RowsOK
<1>2. ASSUME NEW j \in CJobs, NEW next \in {"between", "done"}, DeleteBoth(j, next) PROVE RowsOK'
  BY <1>2 DEF DeleteBoth, RowsOK
<1>3. ASSUME NEW j \in CJobs, NEW w \in CWorkers, LeaseAndSubmit(j, w) \/ MoveTo(j, w) PROVE RowsOK'
  BY <1>3 DEF LeaseAndSubmit, MoveTo, RowsOK
<1>4. ASSUME NEW w \in CWorkers, OnWorkerConnected(w) PROVE RowsOK'
  BY <1>4 DEF OnWorkerConnected, RowsOK
<1> QED BY <1>1, <1>2, <1>3, <1>4 DEF RowsNext

\* ... a guard under way drops a job that lost its rows, and the snapshot under
\* way is known to be disturbed.
LEMMA ReadersRowsStep ==
  ASSUME ReadersIInv, RowsNext
  PROVE  ReadersIInv'
<1>1. RowsOK'
  BY RowsStep DEF ReadersIInv
<1>2. Moves
  BY DEF RowsNext, Submit, DeleteAndReleaseLease, startInflight, DeleteBoth, LeaseAndSubmit, MoveTo, OnWorkerConnected
<1>3. snap' \in SnapRec /\ snap'.moved
  BY <1>2 DEF Moves, ReadersIInv, SnapRec
<1>4. ASSUME NEW d \in Deletes PROVE del'[d] \in DelRec /\ GuardKnows(del[d])'
  <2> DEFINE st == {j \in del[d].steady : HasRow(j)'}
  <2>1. del'[d] = [del[d] EXCEPT !.steady = st]
    BY <1>2 DEF Moves
  <2>2. del[d] \in DelRec /\ GuardKnows(del[d])
    BY DEF ReadersIInv
  <2>3. st \in SUBSET CJobs /\ st \subseteq del[d].steady /\ \A j \in st : HasRow(j)'
    BY <2>2 DEF DelRec
  <2> HIDE DEF st
  <2>4. /\ del'[d] \in DelRec
        /\ del'[d].pc = del[d].pc /\ del'[d].plan = del[d].plan /\ del'[d].left = del[d].left
        /\ del'[d].found = del[d].found /\ del'[d].steady = st
    BY <2>1, <2>2, <2>3 DEF DelRec
  <2> QED BY <2>2, <2>3, <2>4 DEF GuardKnows
<1>5. del' = [d \in Deletes |-> del'[d]]
  BY <1>2 DEF Moves
<1> QED BY <1>1, <1>3, <1>4, <1>5 DEF ReadersIInv

\* A deletion's step: one deletion changes, the rows and the snapshot do not.
LEMMA ReadersOneDelete ==
  ASSUME ReadersIInv, UNCHANGED <<rowVars, snap>>, NEW d \in Deletes, NEW v \in DelRec, GuardKnows(v),
         del' = [del EXCEPT ![d] = v]
  PROVE  ReadersIInv'
<1>1. RowsOK' /\ snap' \in SnapRec
  BY RowsFrame DEF ReadersIInv
<1>2. \A x \in Deletes : GuardKnows(del'[x])
  BY DEF ReadersIInv
<1>3. \A x \in Deletes : GuardKnows(del[x])'
  BY <1>2 DEF GuardKnows, HasRow, rowVars
<1>4. ~snap'.moved => SnapshotKnows'
  BY DEF ReadersIInv, SnapshotKnows, HasRow, rowVars
<1>5. del' \in [Deletes -> DelRec]
  BY DEF ReadersIInv
<1> QED BY <1>1, <1>3, <1>4, <1>5 DEF ReadersIInv

\* More files found can only add overlaps.
LEMMA OverlapMonotone ==
  ASSUME NEW doomed, NEW Q, NEW R, Q \subseteq R, firstPathOverlap(doomed, Q)
  PROVE  firstPathOverlap(doomed, R)
BY DEF firstPathOverlap

\* A deletion that has not begun knows nothing.
LEMMA NoDeleteFine == NoDelete \in DelRec /\ GuardKnows(NoDelete)
BY DEF NoDelete, DelRec, GuardKnows

\* Every step of a deletion keeps what its guard knows: once it has read the global
\* queue, the files of the jobs that kept a row since it began are among those found.
LEMMA ReadersDeleteStep ==
  ASSUME ReadersIInv, DeleteNext
  PROVE  ReadersIInv'
<1> SUFFICES ASSUME NEW d \in Deletes,
                    \/ \E plan \in DeletePlans : PlanDelete(d, plan)
                    \/ \E q \in {globalQ} \cup CWorkers : QueuedModelFiles(d, q)
                    \/ ListQueues(d) \/ deleteModel(d) \/ RemoveLocal(d)
             PROVE  ReadersIInv'
  BY DEF DeleteNext
<1>0. del[d] \in DelRec /\ GuardKnows(del[d]) /\ RowsOK
  BY DEF ReadersIInv
<1>1. ASSUME NEW plan \in DeletePlans, PlanDelete(d, plan) PROVE ReadersIInv'
  <2> DEFINE v == [NoDelete EXCEPT !.pc = "planned", !.plan = plan]
  <2>1. del' = [del EXCEPT ![d] = v] /\ UNCHANGED <<rowVars, snap>>
    BY <1>1 DEF PlanDelete
  <2>2. v \in DelRec /\ GuardKnows(v)
    BY DEF NoDelete, DelRec, GuardKnows
  <2> HIDE DEF v
  <2> QED BY <2>1, <2>2, ReadersOneDelete
<1>2. CASE ListQueues(d)
  <2> DEFINE l == {globalQ} \cup devQ
             s == {j \in CJobs : HasRow(j)}
             v == [del[d] EXCEPT !.pc = "read", !.left = l, !.steady = s]
  <2>1. del' = [del EXCEPT ![d] = v] /\ UNCHANGED <<rowVars, snap>>
    BY <1>2 DEF ListQueues
  <2>2. l \in SUBSET ({globalQ} \cup CWorkers) /\ globalQ \in l /\ s \in SUBSET CJobs /\ \A j \in s : HasRow(j)
    BY <1>0 DEF RowsOK
  <2> HIDE DEF l, s
  <2>3. \A y : y = v => y \in DelRec /\ y.pc = "read" /\ y.left = l /\ y.steady = s
    BY <1>0, <2>2 DEF DelRec
  <2> HIDE DEF v
  <2>4. v \in DelRec /\ GuardKnows(v)
    BY <2>2, <2>3 DEF GuardKnows
  <2> QED BY <2>1, <2>4, ReadersOneDelete
<1>3. ASSUME NEW q \in {globalQ} \cup CWorkers, QueuedModelFiles(d, q) PROVE ReadersIInv'
  <2> DEFINE l == del[d].left \ {q}
             f == del[d].found \cup {FileOf[j] : j \in PeekAll(q)}
             v == [del[d] EXCEPT !.left = l, !.found = f]
  <2>1. del' = [del EXCEPT ![d] = v] /\ UNCHANGED <<rowVars, snap>> /\ del[d].pc = "read" /\ q \in del[d].left
    BY <1>3 DEF QueuedModelFiles
  <2>2. l \in SUBSET ({globalQ} \cup CWorkers) /\ f \in SUBSET JobFiles /\ del[d].found \subseteq f
    BY <1>0 DEF DelRec, JobFiles, PeekAll
  <2>3. ASSUME q = globalQ, NEW j \in del[d].steady PROVE FileOf[j] \in f
    <3>1. j \in CJobs /\ HasRow(j)
      BY <1>0, <2>1 DEF DelRec, GuardKnows
    <3>2. j \in PeekAll(q)
      BY <2>3, <3>1 DEF PeekAll
    <3> QED BY <3>2
  <2>4. globalQ \notin l => q = globalQ \/ globalQ \notin del[d].left
    OBVIOUS
  <2> HIDE DEF l, f
  <2>5. \A y : y = v => /\ y \in DelRec /\ y.pc = del[d].pc /\ y.left = l /\ y.found = f
                        /\ y.steady = del[d].steady /\ y.plan = del[d].plan
    BY <1>0, <2>2 DEF DelRec
  <2> HIDE DEF v
  <2>6. v \in DelRec /\ GuardKnows(v)
    BY <1>0, <2>1, <2>2, <2>3, <2>4, <2>5 DEF GuardKnows
  <2> QED BY <2>1, <2>6, ReadersOneDelete
<1>4. CASE deleteModel(d)
  <2>1. UNCHANGED <<rowVars, snap>> /\ del[d].pc = "read" /\ del[d].left = {}
    BY <1>4 DEF deleteModel
  <2>2. CASE firstPathOverlap(del[d].plan, del[d].found)
    <3>1. del' = [del EXCEPT ![d] = NoDelete]
      BY <1>4, <2>2 DEF deleteModel
    <3> QED BY <2>1, <3>1, NoDeleteFine, ReadersOneDelete
  <2>3. CASE ~firstPathOverlap(del[d].plan, del[d].found)
    <3> DEFINE v == [del[d] EXCEPT !.pc = "remove"]
    <3>1. del' = [del EXCEPT ![d] = v]
      BY <1>4, <2>3 DEF deleteModel
    <3>2. \A y : y = v => /\ y \in DelRec /\ y.pc = "remove" /\ y.left = del[d].left /\ y.found = del[d].found
                          /\ y.steady = del[d].steady /\ y.plan = del[d].plan
      BY <1>0 DEF DelRec
    <3> HIDE DEF v
    <3>3. v \in DelRec /\ GuardKnows(v)
      BY <1>0, <2>1, <2>3, <3>2 DEF GuardKnows
    <3> QED BY <2>1, <3>1, <3>3, ReadersOneDelete
  <2> QED BY <2>2, <2>3
<1>5. CASE RemoveLocal(d)
  <2>1. del' = [del EXCEPT ![d] = NoDelete] /\ UNCHANGED <<rowVars, snap>>
    BY <1>5 DEF RemoveLocal
  <2> QED BY <2>1, NoDeleteFine, ReadersOneDelete
<1> QED BY <1>1, <1>2, <1>3, <1>4, <1>5

\* A step that moves only the snapshot.
LEMMA ReadersSnapOnly ==
  ASSUME ReadersIInv, UNCHANGED <<rowVars, del>>, snap' \in SnapRec, ~snap'.moved => SnapshotKnows'
  PROVE  ReadersIInv'
<1>1. RowsOK'
  BY RowsFrame DEF ReadersIInv
<1>2. \A x \in Deletes : GuardKnows(del[x])'
  BY DEF ReadersIInv, GuardKnows, HasRow, rowVars
<1> QED BY <1>1, <1>2 DEF ReadersIInv

\* Every step of a snapshot keeps what it knows while no row moves.
LEMMA ReadersSnapshotStep ==
  ASSUME ReadersIInv, SnapshotNext
  PROVE  ReadersIInv'
<1>0. /\ RowsOK /\ snap \in SnapRec /\ (~snap.moved => SnapshotKnows)
      /\ UNCHANGED <<rowVars, del>>
  BY DEF ReadersIInv, SnapshotNext, inflightRequestIDs, SnapshotGlobal, QueueSnapshot
<1>1. CASE inflightRequestIDs
  <2>1. snap' = [pc |-> "global", left |-> devQ, shown |-> [j \in CJobs |-> 0],
                 run |-> {j \in CJobs : flying[j]}, moved |-> FALSE]
    BY <1>1 DEF inflightRequestIDs
  <2>2. snap' \in SnapRec /\ SnapshotKnows'
    BY <1>0, <2>1 DEF SnapRec, SnapshotKnows, RowsOK, rowVars
  <2> QED BY <1>0, <2>2, ReadersSnapOnly
<1>2. CASE SnapshotGlobal
  <2> DEFINE sh == Counted(peekRowsUnleased)
  <2>1. snap.pc = "global" /\ snap' = [snap EXCEPT !.pc = "workers", !.shown = sh]
    BY <1>2 DEF SnapshotGlobal
  <2>2. sh \in [CJobs -> Nat] /\ \A j \in CJobs : sh[j] = snap.shown[j] + IF glob[j] = "ready" THEN 1 ELSE 0
    BY <1>0 DEF Counted, peekRowsUnleased, SnapRec
  <2> HIDE DEF sh
  <2>3. /\ snap' \in SnapRec /\ snap'.pc = "workers" /\ snap'.shown = sh /\ snap'.left = snap.left
        /\ snap'.run = snap.run /\ snap'.moved = snap.moved
    BY <1>0, <2>1, <2>2 DEF SnapRec
  <2>4. ~snap'.moved => SnapshotKnows'
    BY <1>0, <2>1, <2>2, <2>3 DEF SnapshotKnows, rowVars
  <2> QED BY <1>0, <2>3, <2>4, ReadersSnapOnly
<1>3. ASSUME NEW w \in snap.left, snap.pc = "workers",
             snap' = [snap EXCEPT !.left = @ \ {w}, !.shown = Counted(peekRowsAll(w))]
      PROVE  ReadersIInv'
  <2> DEFINE sh == Counted(peekRowsAll(w))
             l == snap.left \ {w}
  <2>1. snap' = [snap EXCEPT !.left = l, !.shown = sh]
    BY <1>3
  <2>2. /\ sh \in [CJobs -> Nat] /\ \A j \in CJobs : sh[j] = snap.shown[j] + IF at[j] = w THEN 1 ELSE 0
        /\ l \in SUBSET CWorkers /\ l = snap.left \ {w}
    BY <1>0 DEF Counted, peekRowsAll, SnapRec
  <2> HIDE DEF sh, l
  <2>3. /\ snap' \in SnapRec /\ snap'.pc = "workers" /\ snap'.shown = sh /\ snap'.left = l
        /\ snap'.run = snap.run /\ snap'.moved = snap.moved
    BY <1>0, <1>3, <2>1, <2>2 DEF SnapRec
  <2>4. ASSUME ~snap.moved, NEW j \in CJobs
        PROVE  sh[j] = IF glob[j] = "ready" \/ at[j] \in devQ \ l THEN 1 ELSE 0
    <3>1. snap.shown[j] = IF glob[j] = "ready" \/ at[j] \in devQ \ snap.left THEN 1 ELSE 0
      BY <1>0, <1>3, <2>4 DEF SnapshotKnows
    <3>2. w \in CWorkers /\ w # Nowhere
      BY <1>0, CatAssumption DEF SnapRec
    <3>3. IF glob[j] = "held" THEN at[j] \in devQ ELSE at[j] = Nowhere
      BY <1>0 DEF RowsOK
    <3> QED BY <2>2, <3>1, <3>2, <3>3
  <2>5. ~snap'.moved => SnapshotKnows'
    BY <1>0, <1>3, <2>3, <2>4 DEF SnapshotKnows, rowVars
  <2> QED BY <1>0, <2>3, <2>5, ReadersSnapOnly
<1>4. ASSUME snap.left = {}, snap.pc = "workers", snap' = [snap EXCEPT !.pc = "done"]
      PROVE  ReadersIInv'
  <2>1. /\ snap' \in SnapRec /\ snap'.pc = "done" /\ snap'.shown = snap.shown
        /\ snap'.run = snap.run /\ snap'.moved = snap.moved
    BY <1>0, <1>4 DEF SnapRec
  <2>2. ASSUME ~snap.moved, NEW j \in CJobs PROVE snap.shown[j] = IF HasRow(j) THEN 1 ELSE 0
    <3>1. snap.shown[j] = IF glob[j] = "ready" \/ at[j] \in devQ THEN 1 ELSE 0
      BY <1>0, <1>4, <2>2 DEF SnapshotKnows
    <3>2. (IF glob[j] = "held" THEN at[j] \in devQ ELSE at[j] = Nowhere) /\ Nowhere \notin devQ
      BY <1>0, CatAssumption DEF RowsOK
    <3> QED BY <3>1, <3>2 DEF HasRow
  <2>3. ~snap'.moved => SnapshotKnows'
    BY <1>0, <1>4, <2>1, <2>2 DEF SnapshotKnows, HasRow, rowVars
  <2> QED BY <1>0, <2>1, <2>3, ReadersSnapOnly
<1>5. CASE QueueSnapshot
  BY <1>3, <1>4, <1>5 DEF QueueSnapshot
<1> QED BY <1>1, <1>2, <1>5 DEF SnapshotNext

\* Every step of the rows, the deletions, the snapshot and the imports preserves the
\* readers' invariant.
LEMMA ReadersInvNext == ReadersIInv /\ [CatNext]_catVars => ReadersIInv'
<1> SUFFICES ASSUME ReadersIInv, [CatNext]_catVars PROVE ReadersIInv'
  OBVIOUS
<1>1. CASE UNCHANGED <<rowVars, del, snap>>
  <2>1. RowsOK'
    BY <1>1, RowsFrame DEF ReadersIInv
  <2> QED BY <1>1, <2>1 DEF ReadersIInv, GuardKnows, SnapshotKnows, HasRow, rowVars
<1>2. CASE ImportNext
  BY <1>1, <1>2 DEF ImportNext, DownloadFiles, planImport, Plan, StartStat, StartClaim, Transferred
<1>3. CASE UNCHANGED catVars
  BY <1>1, <1>3 DEF catVars
<1> QED BY <1>2, <1>3, ReadersRowsStep, ReadersDeleteStep, ReadersSnapshotStep DEF CatNext

\* The readers' invariant holds throughout.
THEOREM ReadersInvariant == CatSpec => []ReadersIInv
<1> QED BY ReadersInvInit, ReadersInvNext, PTL DEF CatSpec

\* A deletion that passed its guard spares the files of every job that had a row
\* throughout the guard's walk over the queues, and an undisturbed snapshot shows
\* every queued job once and marks exactly the running ones.
THEOREM WalksAreSound == CatSpec => []ReadersSeeQueued
<1>1. ReadersIInv => ReadersSeeQueued
  <2> SUFFICES ASSUME ReadersIInv PROVE ReadersSeeQueued
    OBVIOUS
  <2>1. ASSUME NEW d \in Deletes, del[d].pc = "remove"
        PROVE  ~firstPathOverlap(del[d].plan, {FileOf[j] : j \in del[d].steady})
    <3>1. {FileOf[j] : j \in del[d].steady} \subseteq del[d].found /\ ~firstPathOverlap(del[d].plan, del[d].found)
      BY <2>1 DEF ReadersIInv, GuardKnows
    <3> QED BY <3>1, OverlapMonotone
  <2> QED BY <2>1 DEF ReadersIInv, ReadersSeeQueued, SnapshotKnows
<1> QED BY <1>1, ReadersInvariant, PTL

-----------------------------------------------------------------------------
(* Imports.                                                                *)

ImpRec == [pc : {"idle", "stat", "claim", "ok", "failed"}, kind : {"", "local", "remote", "gateway"},
           plan : ImportPlans \cup {<<>>}, n : Nat, started : SUBSET PlannedPaths, upset : BOOLEAN]

\* What an import knows while the store holds, or is fetching, the files S: the
\* files before the one it is at are there, and a gateway's batch that got past
\* the first look has no path to stumble over.
ImportKnows(k, S) ==
  /\ k.pc \in {"stat", "claim"} =>
       /\ k.n \in 1..Len(k.plan) /\ k.plan \in ImportPlans
       /\ ~k.upset => \A x \in 1..(k.n - 1) : k.plan[x] \in S
       /\ k.kind = "gateway" => BadPath \notin ToSet(k.plan)
  /\ k.pc = "ok" /\ ~k.upset => \A x \in 1..Len(k.plan) : k.plan[x] \in S
  /\ k.pc = "failed" /\ k.kind = "gateway" => k.started = {}

\* The inductive invariant of the imports.
ImportIInv ==
  /\ imp \in [Imports -> ImpRec]
  /\ \A i \in Imports : ImportKnows(imp[i], disk \cup tracked)

\* A plan is a sequence of the planned paths.
LEMMA PlanIsSequence ==
  ASSUME NEW p \in ImportPlans \cup {<<>>}
  PROVE  /\ p \in Seq(PlannedPaths) /\ Len(p) \in Nat
         /\ ToSet(p) = {p[x] : x \in 1..Len(p)}
         /\ p # <<>> => Len(p) >= 1
<1>1. p \in Seq(PlannedPaths)
  <2>1. CASE p \in ImportPlans
    BY <2>1, CatAssumption
  <2>2. CASE p = <<>>
    BY <2>2
  <2> QED BY <2>1, <2>2
<1>2. DOMAIN p = 1..Len(p) /\ Len(p) \in Nat
  BY <1>1
<1>3. p # <<>> => Len(p) >= 1
  BY <1>1
<1> QED BY <1>1, <1>2, <1>3 DEF ToSet

\* More files in the store take nothing from what an import knows; after a
\* cancellation or a deletion it relies on nothing.
LEMMA ImportKnowsMore ==
  ASSUME NEW k, NEW S, NEW T, S \subseteq T, ImportKnows(k, S)
  PROVE  ImportKnows(k, T)
BY DEF ImportKnows

\* A cancelled download or a deletion upsets the imports, of which nothing is then asked.
LEMMA ImportsUpset ==
  ASSUME ImportIInv, imp' = [i \in Imports |-> [imp[i] EXCEPT !.upset = TRUE]]
  PROVE  ImportIInv'
<1>1. ASSUME NEW i \in Imports PROVE imp'[i] \in ImpRec /\ ImportKnows(imp'[i], (disk \cup tracked)')
  <2>1. imp[i] \in ImpRec /\ ImportKnows(imp[i], disk \cup tracked)
    BY DEF ImportIInv
  <2>2. imp'[i] = [imp[i] EXCEPT !.upset = TRUE]
    OBVIOUS
  <2>3. /\ imp'[i] \in ImpRec /\ imp'[i].pc = imp[i].pc /\ imp'[i].kind = imp[i].kind /\ imp'[i].plan = imp[i].plan
        /\ imp'[i].n = imp[i].n /\ imp'[i].started = imp[i].started /\ imp'[i].upset
    BY <2>1, <2>2 DEF ImpRec
  <2> QED BY <2>1, <2>3 DEF ImportKnows
<1>2. imp' \in [Imports -> ImpRec]
  BY <1>1
<1> QED BY <1>1, <1>2 DEF ImportIInv

\* One import moves and files are only added.
LEMMA ImportOne ==
  ASSUME ImportIInv, NEW i \in Imports, NEW v \in ImpRec, imp' = [imp EXCEPT ![i] = v],
         disk \cup tracked \subseteq disk' \cup tracked', ImportKnows(v, disk' \cup tracked')
  PROVE  ImportIInv'
<1>1. \A x \in Imports : ImportKnows(imp[x], disk' \cup tracked')
  BY ImportKnowsMore DEF ImportIInv
<1> QED BY <1>1 DEF ImportIInv

\* An import that has not begun.
LEMMA NoImportFine ==
  /\ NoImport \in ImpRec /\ NoImport.n = 1 /\ NoImport.upset = FALSE /\ NoImport.started = {}
  /\ \A S : ImportKnows(NoImport, S)
<1>1. <<>> \in ImportPlans \cup {<<>>}
  OBVIOUS
<1> QED BY <1>1 DEF NoImport, ImpRec, ImportKnows

\* With no import under way there is no file to account for.
LEMMA ImportInvInit == CatInit => ImportIInv
BY NoImportFine DEF CatInit, ImportIInv

\* A new import begins with its first file, or is done if it has none.
LEMMA ImportPlanned ==
  ASSUME ImportIInv, NEW i \in Imports, NEW kind \in {"local", "remote", "gateway"}, NEW plan \in ImportPlans,
         kind = "gateway" => BadPath \notin ToSet(plan), Plan(i, kind, plan)
  PROVE  ImportIInv'
<1> DEFINE p == IF plan = <<>> THEN "ok" ELSE "stat"
           v == [NoImport EXCEPT !.pc = p, !.kind = kind, !.plan = plan]
<1>1. imp' = [imp EXCEPT ![i] = v] /\ UNCHANGED <<disk, tracked>>
  BY DEF Plan
<1>2. p \in {"stat", "ok"} /\ (p = "ok" => plan = <<>>) /\ (p = "stat" => Len(plan) >= 1) /\ Len(plan) \in Nat
  BY PlanIsSequence
<1> HIDE DEF p
<1>3. \A y : y = v => /\ y \in ImpRec /\ y.pc = p /\ y.kind = kind /\ y.plan = plan /\ y.n = 1 /\ ~y.upset
  BY <1>2, NoImportFine DEF ImpRec
<1> HIDE DEF v
<1>4. ImportKnows(v, disk \cup tracked)
  BY <1>2, <1>3 DEF ImportKnows
<1> QED BY <1>1, <1>3, <1>4, ImportOne

\* The import passes on to its next file, which it may once this one is there.
LEMMA ImportPasses ==
  ASSUME ImportIInv, NEW i \in Imports, imp[i].pc \in {"stat", "claim"}, NEW st, st \in SUBSET {Path(i)},
         NextFile(i, st), disk \cup tracked \subseteq disk' \cup tracked', Path(i) \in disk' \cup tracked'
  PROVE  ImportIInv'
<1> DEFINE k == imp[i]
           last == k.n = Len(k.plan)
           p == IF last THEN "ok" ELSE "stat"
           m == IF last THEN k.n ELSE k.n + 1
           s == k.started \cup st
           v == [k EXCEPT !.pc = p, !.n = m, !.started = s]
<1>1. imp' = [imp EXCEPT ![i] = v]
  BY DEF NextFile
<1>2. k \in ImpRec /\ ImportKnows(k, disk' \cup tracked')
  BY ImportKnowsMore DEF ImportIInv
<1>3. /\ k.n \in 1..Len(k.plan) /\ Len(k.plan) \in Nat /\ k.plan \in ImportPlans
      /\ ~k.upset => \A x \in 1..(k.n - 1) : k.plan[x] \in disk' \cup tracked'
      /\ k.kind = "gateway" => BadPath \notin ToSet(k.plan)
  BY <1>2, PlanIsSequence DEF ImportKnows
<1>4. Path(i) = k.plan[k.n]
  BY DEF Path
<1>5. k.plan[k.n] \in PlannedPaths
  BY <1>3, PlanIsSequence, ElementOfSeq
<1>6. m \in Nat /\ s \in SUBSET PlannedPaths /\ p \in {"ok", "stat"}
  <2>1. m \in Nat /\ p \in {"ok", "stat"}
    BY <1>3
  <2>2. k.started \subseteq PlannedPaths
    BY <1>2 DEF ImpRec
  <2> QED BY <1>4, <1>5, <2>1, <2>2
<1>7. /\ p = "stat" => m \in 1..Len(k.plan)
      /\ \A x \in 1..(m - 1) : x \in 1..k.n
      /\ p = "ok" => Len(k.plan) = k.n
  BY <1>3
<1> HIDE DEF k, m, p, s
<1>8. \A y : y = v => /\ y \in ImpRec /\ y.pc = p /\ y.kind = k.kind /\ y.plan = k.plan /\ y.n = m /\ y.upset = k.upset
  BY <1>2, <1>6 DEF ImpRec
<1> HIDE DEF v
<1>9. ~k.upset => \A x \in 1..k.n : k.plan[x] \in disk' \cup tracked'
  BY <1>3, <1>4
<1>10. ImportKnows(v, disk' \cup tracked')
  BY <1>3, <1>6, <1>7, <1>8, <1>9 DEF ImportKnows
<1> QED BY <1>1, <1>8, <1>10, ImportOne

\* The import moves on within a file: to the claim, or to its failure.
LEMMA ImportGoes ==
  ASSUME ImportIInv, NEW i \in Imports, imp[i].pc \in {"stat", "claim"}, NEW p \in {"claim", "failed"},
         p = "failed" => imp[i].kind # "gateway", ImpGoto(i, p), UNCHANGED <<disk, tracked>>
  PROVE  ImportIInv'
<1> DEFINE k == imp[i]
           v == [k EXCEPT !.pc = p]
<1>1. imp' = [imp EXCEPT ![i] = v]
  BY DEF ImpGoto
<1>2. k \in ImpRec /\ ImportKnows(k, disk \cup tracked)
  BY DEF ImportIInv
<1> HIDE DEF k
<1>3. \A y : y = v => /\ y \in ImpRec /\ y.pc = p /\ y.kind = k.kind /\ y.plan = k.plan /\ y.n = k.n /\ y.upset = k.upset
  BY <1>2 DEF ImpRec
<1> HIDE DEF v
<1>4. ImportKnows(v, disk \cup tracked)
  BY <1>2, <1>3 DEF ImportKnows, k
<1> QED BY <1>1, <1>3, <1>4, ImportOne

\* Every step of an import keeps the files it has passed in the store or under way.
LEMMA ImportStep ==
  ASSUME ImportIInv, ImportNext
  PROVE  ImportIInv'
<1>1. ASSUME NEW i \in Imports, NEW plan \in ImportPlans, DownloadFiles(i, plan) PROVE ImportIInv'
  <2>1. CASE ~(plan = <<>> \/ BadPath \in ToSet(plan))
    BY <1>1, <2>1, ImportPlanned DEF DownloadFiles
  <2>2. CASE plan = <<>> \/ BadPath \in ToSet(plan)
    <3> DEFINE v == [NoImport EXCEPT !.pc = "failed", !.kind = "gateway", !.plan = plan]
    <3>1. imp' = [imp EXCEPT ![i] = v] /\ UNCHANGED <<disk, tracked>>
      BY <1>1, <2>2 DEF DownloadFiles
    <3>2. \A y : y = v => y \in ImpRec /\ y.pc = "failed" /\ y.started = {}
      BY NoImportFine DEF ImpRec
    <3> HIDE DEF v
    <3>3. v \in ImpRec /\ ImportKnows(v, disk \cup tracked)
      BY <3>2 DEF ImportKnows
    <3> QED BY <3>1, <3>3, ImportOne
  <2> QED BY <2>1, <2>2
<1>2. ASSUME NEW i \in Imports, NEW plan \in ImportPlans, NEW kind \in {"local", "remote"}, planImport(i, kind, plan)
      PROVE  ImportIInv'
  BY <1>2, ImportPlanned DEF planImport
<1>3. ASSUME NEW i \in Imports, imp[i].pc \in {"stat", "claim"}, Conflict(i), UNCHANGED <<disk, tracked>>,
             Path(i) \in disk \cup tracked
      PROVE  ImportIInv'
  <2>1. CASE imp[i].kind = "local"
    BY <1>3, <2>1, ImportGoes DEF Conflict
  <2>2. CASE imp[i].kind # "local"
    <3>1. NextFile(i, {})
      BY <1>3, <2>2 DEF Conflict
    <3> QED BY <1>3, <3>1, ImportPasses
  <2> QED BY <2>1, <2>2
<1>4. ASSUME NEW i \in Imports, StartStat(i) PROVE ImportIInv'
  <2>1. imp[i].pc = "stat" /\ UNCHANGED <<disk, tracked>>
    BY <1>4 DEF StartStat
  <2>2. ASSUME Path(i) = BadPath PROVE imp[i].kind # "gateway"
    <3>1. imp[i] \in ImpRec /\ ImportKnows(imp[i], disk \cup tracked)
      BY DEF ImportIInv
    <3>2. imp[i].plan \in ImportPlans /\ imp[i].n \in 1..Len(imp[i].plan)
      BY <2>1, <3>1 DEF ImportKnows
    <3>3. Path(i) \in ToSet(imp[i].plan)
      BY <3>2, PlanIsSequence DEF Path
    <3> QED BY <2>1, <2>2, <3>1, <3>3 DEF ImportKnows
  <2>3. CASE Path(i) = BadPath /\ ImpGoto(i, "failed")
    BY <2>1, <2>2, <2>3, ImportGoes
  <2>4. CASE imp[i].kind = "local" /\ ImpGoto(i, "failed")
    BY <2>1, <2>4, ImportGoes
  <2>5. CASE Path(i) \in disk /\ NextFile(i, {})
    BY <2>1, <2>5, ImportPasses
  <2>6. CASE Path(i) \in disk /\ Conflict(i)
    BY <1>3, <2>1, <2>6
  <2>7. CASE ImpGoto(i, "claim")
    BY <2>1, <2>7, ImportGoes
  <2> QED BY <1>4, <2>3, <2>4, <2>5, <2>6, <2>7 DEF StartStat
<1>5. ASSUME NEW i \in Imports, StartClaim(i) PROVE ImportIInv'
  <2>1. imp[i].pc = "claim" /\ UNCHANGED disk
    BY <1>5 DEF StartClaim
  <2>2. CASE Path(i) \in tracked
    <3>1. Conflict(i) /\ UNCHANGED tracked
      BY <1>5, <2>2 DEF StartClaim
    <3> QED BY <1>3, <2>1, <2>2, <3>1
  <2>3. CASE Path(i) \notin tracked
    <3>1. tracked' = tracked \cup {Path(i)} /\ NextFile(i, {Path(i)})
      BY <1>5, <2>3 DEF StartClaim
    <3> QED BY <2>1, <3>1, ImportPasses
  <2> QED BY <2>2, <2>3
<1>6. ASSUME NEW p \in PlannedPaths, NEW ok \in BOOLEAN, Transferred(p, ok) PROVE ImportIInv'
  <2>1. CASE ok
    <3>1. imp' = imp /\ disk \cup tracked \subseteq disk' \cup tracked'
      BY <1>6, <2>1 DEF Transferred
    <3>2. \A i \in Imports : ImportKnows(imp[i], disk' \cup tracked')
      BY <3>1, ImportKnowsMore DEF ImportIInv
    <3> QED BY <3>1, <3>2 DEF ImportIInv
  <2>2. CASE ~ok
    BY <1>6, <2>2, ImportsUpset DEF Transferred
  <2> QED BY <2>1, <2>2
<1> QED BY <1>1, <1>2, <1>4, <1>5, <1>6 DEF ImportNext

\* Every step of the catalogue preserves the imports' invariant.
LEMMA ImportInvNext == ImportIInv /\ [CatNext]_catVars => ImportIInv'
<1> SUFFICES ASSUME ImportIInv, [CatNext]_catVars PROVE ImportIInv'
  OBVIOUS
<1>1. ASSUME UNCHANGED <<disk, tracked, imp>> PROVE ImportIInv'
  BY <1>1 DEF ImportIInv
<1>2. CASE RowsNext
  <2>1. Moves
    BY <1>2 DEF RowsNext, Submit, DeleteAndReleaseLease, startInflight, DeleteBoth, LeaseAndSubmit, MoveTo, OnWorkerConnected
  <2> QED BY <1>1, <2>1 DEF Moves
<1>3. CASE DeleteNext
  <2>1. ASSUME NEW d \in Deletes, RemoveLocal(d) PROVE ImportIInv'
    BY <2>1, ImportsUpset DEF RemoveLocal
  <2> QED BY <1>1, <1>3, <2>1 DEF DeleteNext, PlanDelete, QueuedModelFiles, ListQueues, deleteModel
<1>4. CASE SnapshotNext
  BY <1>1, <1>4 DEF SnapshotNext, inflightRequestIDs, SnapshotGlobal, QueueSnapshot
<1>5. CASE UNCHANGED catVars
  BY <1>1, <1>5 DEF catVars
<1> QED BY <1>2, <1>3, <1>4, <1>5, ImportStep DEF CatNext

\* The imports' invariant holds throughout.
THEOREM ImportInvariant == CatSpec => []ImportIInv
<1> QED BY ImportInvInit, ImportInvNext, PTL DEF CatSpec

\* An import that reports success has all its files in the store or under way,
\* whatever other imports of the same files did meanwhile, unless one was
\* cancelled or deleted; a gateway's batch refused for a path started nothing.
THEOREM ImportsAreWhole == CatSpec => []ImportWhole
<1>1. ImportIInv => ImportWhole
  <2> SUFFICES ASSUME ImportIInv, NEW i \in Imports
               PROVE  /\ imp[i].pc = "ok" /\ ~imp[i].upset => ToSet(imp[i].plan) \subseteq disk \cup tracked
                      /\ imp[i].pc = "failed" /\ imp[i].kind = "gateway" => imp[i].started = {}
    BY DEF ImportWhole
  <2>1. imp[i] \in ImpRec /\ ImportKnows(imp[i], disk \cup tracked)
    BY DEF ImportIInv
  <2>2. ToSet(imp[i].plan) = {imp[i].plan[x] : x \in 1..Len(imp[i].plan)}
    BY <2>1, PlanIsSequence DEF ImpRec
  <2> QED BY <2>1, <2>2 DEF ImportKnows
<1> QED BY <1>1, ImportInvariant, PTL

-----------------------------------------------------------------------------
(* A proxied request (Proxy).                                              *)

Frames == [status : Nat, body : Seq(Nat), last : BOOLEAN]
Sent == Len(gwSaw) + Len(toGw)
Taken == Len(answered) - Len(fromGw)
Chunks == IF Finished THEN Len(answered) - 1 ELSE Len(answered)
UpTo(n) == [i \in 1..n |-> i]

\* What the gateway has read and what is on its way are the frames of the request in
\* order, as many as the handler has sent by its position.
RequestOK ==
  /\ gwSaw \in Seq(Nat) /\ toGw \in Seq(Nat) /\ read \in 0..BodyLen
  /\ \A i \in 1..Len(gwSaw) : gwSaw[i] = i - 1
  /\ \A i \in 1..Len(toGw) : toGw[i] = Len(gwSaw) + i - 1
  /\ ppc \in {"route", "start", "head"} => Sent = 0 /\ read = 0
  /\ ppc = "body" => Sent = read + 1
  /\ Sent <= BodyLen + 2

\* The frames of the answer, of which the last ones are on their way.
AnswersOK ==
  /\ answered \in Seq(Frames) /\ fromGw \in Seq(Frames) /\ Taken \in Nat
  /\ \A i \in 1..Len(answered) : answered[i].body = IF answered[i].last THEN <<>> ELSE <<i>>
  /\ \A i \in 1..Len(answered) : answered[i].last => i = Len(answered)
  /\ \A i \in 1..Len(fromGw) : fromGw[i] = answered[Taken + i]

\* What the client got, by the position of the handler.
ReplyOK ==
  /\ reply = [status |-> reply.status, body |-> reply.body, trailers |-> reply.trailers]
  /\ outcome # "" <=> ppc = "done"
  /\ ppc \in {"route", "start", "head", "body", "close"} => reply = NoReply /\ Taken = 0
  /\ ppc = "recv" => /\ reply.body = UpTo(Taken) /\ (reply.status = 0 <=> Taken = 0)
                     /\ Taken > 0 => ~answered[Taken].last
  /\ outcome # "json" => \E n \in 0..Chunks : reply.body = UpTo(n)
  /\ outcome # "json" /\ reply.status # 0 =>
       Taken > 0 /\ reply.status = IF answered[1].status = 0 THEN 200 ELSE answered[1].status
  /\ outcome = "ok" /\ present => IF Finished THEN reply.body = Bodies /\ reply.trailers ELSE gwEnd # ""

ProxyInv == RequestOK /\ AnswersOK /\ ReplyOK

USE ProxyAssumption

\* At the start nothing is sent.
LEMMA ProxyInvInit == ProxyInit => ProxyInv
<1> SUFFICES ASSUME ProxyInit PROVE ProxyInv
  OBVIOUS
<1>0. /\ ppc = "route" /\ read = 0 /\ reply = NoReply /\ outcome = ""
      /\ toGw = <<>> /\ gwSaw = <<>> /\ fromGw = <<>> /\ answered = <<>>
  BY Zenon DEF ProxyInit
<1>01. ppc = "route" /\ read = 0 /\ reply = NoReply /\ outcome = ""
  BY <1>0
<1>00. Len(gwSaw) = 0 /\ Len(toGw) = 0 /\ Len(answered) = 0 /\ Len(fromGw) = 0
  BY <1>0
<1>1. RequestOK
  <2>1. gwSaw \in Seq(Nat) /\ toGw \in Seq(Nat)
    <3>1. << >> \in Seq(Nat)
      OBVIOUS
    <3> QED BY <1>0, <3>1, Zenon
  <2>2. Sent = 0 /\ 1..Len(gwSaw) = {} /\ 1..Len(toGw) = {}
    BY <1>00 DEF Sent
  <2>3. read \in 0..BodyLen /\ Sent <= BodyLen + 2 /\ ppc # "body"
    <3>1. BodyLen \in Nat /\ read = 0 /\ Sent = 0
      BY ProxyAssumption, <1>01, <2>2, Zenon
    <3>2. ppc # "body"
      BY <1>01, Zenon
    <3>3. 0 \in 0..BodyLen /\ 0 <= BodyLen + 2
      BY <3>1
    <3> QED BY <3>1, <3>2, <3>3, Zenon
  <2> QED BY <1>01, <2>1, <2>2, <2>3, Zenon DEF RequestOK
<1>2. AnswersOK
  <2>1. answered \in Seq(Frames) /\ fromGw \in Seq(Frames)
    <3>1. << >> \in Seq(Frames)
      OBVIOUS
    <3> QED BY <1>0, <3>1, Zenon
  <2>2. Taken = 0 /\ 1..Len(answered) = {} /\ 1..Len(fromGw) = {}
    BY <1>00 DEF Taken
  <2> QED BY <2>1, <2>2 DEF AnswersOK
<1>3. ReplyOK
  <2>0. ~Finished
    BY <1>0, Zenon DEF Finished
  <2>1. Taken = 0 /\ Len(answered) = 0 /\ ~Finished
    BY <1>00, <2>0 DEF Taken
  <2>2. NoReply.body = UpTo(0) /\ NoReply.status = 0 /\ Chunks = 0
    BY <2>1 DEF NoReply, UpTo, Chunks
  <2>4. \E n \in 0..Chunks : NoReply.body = UpTo(n)
    <3>1. 0 \in 0..Chunks
      BY <2>2
    <3> QED BY <2>2, <3>1, Zenon
  <2>3. NoReply = [status |-> NoReply.status, body |-> NoReply.body, trailers |-> NoReply.trailers]
    BY DEF NoReply
  <2> QED BY <1>01, <2>1, <2>2, <2>3, <2>4, Zenon DEF ReplyOK
<1> QED BY <1>1, <1>2, <1>3 DEF ProxyInv

\* Where the answer does not move the sums stay.
LEMMA AnswerFrame ==
  ASSUME AnswersOK, UNCHANGED <<answered, fromGw>>
  PROVE  AnswersOK' /\ Taken' = Taken /\ Finished' = Finished /\ Chunks' = Chunks /\ Bodies' = Bodies
BY DEF AnswersOK, Taken, Finished, Chunks, Bodies

\* A frame is sent, or the request fails.
LEMMA FrameSent ==
  ASSUME NEW f, NEW next, SendFrame(f, next)
  PROVE  \/ ppc' = "done" /\ outcome' = "error" /\ toGw' = toGw
         \/ ppc' = next /\ outcome' = outcome /\ toGw' = Append(toGw, f)
BY Zenon DEF SendFrame, Return, Continue

\* How the handler moves before it has read an answer.
LEMMA HandlerMoves ==
  ASSUME handleRuntimeProxy \/ OpenStream \/ SendHeader \/ streamRequestBody \/ CloseSend
  PROVE  /\ ppc \in {"route", "start", "head", "body", "close"} /\ UNCHANGED <<gwSaw, answered, fromGw, gwEnd, present>>
         /\ \/ ppc' = "done" /\ outcome' = "json" /\ \E s \in {404, 502, 503} : reply' = [NoReply EXCEPT !.status = s]
            \/ ppc' = "done" /\ outcome' = "error" /\ reply' = reply
            \/ ppc' \in {"start", "head", "body", "close", "recv"} /\ outcome' = outcome /\ reply' = reply
<1>1. CASE handleRuntimeProxy
  BY <1>1, ZenonT(40) DEF handleRuntimeProxy, Return, Continue, gwVars
<1>2. CASE OpenStream
  BY <1>2, ZenonT(40) DEF OpenStream, Return, Continue, gwVars
<1>3. CASE SendHeader
  BY <1>3, FrameSent, ZenonT(40) DEF SendHeader, gwVars
<1>4. CASE streamRequestBody
  <2>1. ppc = "body" /\ UNCHANGED <<gwSaw, answered, fromGw, gwEnd, present, reply>>
    BY <1>4, Zenon DEF streamRequestBody, gwVars
  <2>2. CASE SendFrame(read + 1, "body")
    BY <2>1, <2>2, FrameSent
  <2>3. CASE SendFrame(EndFrame, "close")
    BY <2>1, <2>3, FrameSent
  <2>4. CASE Return("error")
    BY <2>1, <2>4, Zenon DEF Return
  <2> QED BY <1>4, <2>2, <2>3, <2>4, Zenon DEF streamRequestBody
<1>5. CASE CloseSend
  BY <1>5, ZenonT(40) DEF CloseSend, Continue, gwVars
<1> QED BY <1>1, <1>2, <1>3, <1>4, <1>5

\* The handler goes on, or returns, before it has read an answer.
LEMMA HandlerSends ==
  ASSUME ProxyInv, handleRuntimeProxy \/ OpenStream \/ SendHeader \/ streamRequestBody \/ CloseSend
  PROVE  AnswersOK' /\ ReplyOK'
<1>1. ppc \in {"route", "start", "head", "body", "close"} /\ UNCHANGED <<answered, fromGw>>
  BY HandlerMoves
<1>2. AnswersOK' /\ Taken' = Taken /\ Finished' = Finished /\ Chunks' = Chunks /\ Bodies' = Bodies
  BY <1>1, AnswerFrame DEF ProxyInv
<1>2a. Chunks' = Chunks /\ Taken' = Taken
  BY <1>2, Zenon
<1>3. reply = NoReply /\ Taken = 0 /\ outcome = "" /\ ppc # "done"
  BY <1>1 DEF ProxyInv, ReplyOK
<1>4. /\ NoReply.body = UpTo(0) /\ NoReply.status = 0 /\ Chunks \in Nat
      /\ NoReply = [status |-> NoReply.status, body |-> NoReply.body, trailers |-> NoReply.trailers]
  <2>1. Chunks \in Nat
    <3>1. answered \in Seq(Frames)
      BY DEF ProxyInv, AnswersOK
    <3>2. Len(answered) \in Nat /\ (Finished => Len(answered) > 0)
      BY <3>1 DEF Finished
    <3> QED BY <3>2 DEF Chunks
  <2>2. UpTo(0) = <<>>
    BY DEF UpTo
  <2> QED BY <2>1, <2>2 DEF NoReply
<1>5. CASE ppc' = "done" /\ outcome' = "json" /\ \E s \in {404, 502, 503} : reply' = [NoReply EXCEPT !.status = s]
  <2>1. reply' = [status |-> reply'.status, body |-> reply'.body, trailers |-> reply'.trailers]
    BY <1>5, ZenonT(60) DEF NoReply
  <2>2. ppc' = "done" /\ outcome' = "json"
    BY <1>5
  <2> QED BY <1>2, <2>1, <2>2, Zenon DEF ReplyOK
<1>6. CASE ppc' = "done" /\ outcome' = "error" /\ reply' = reply
  <2>1. \E n \in 0..Chunks' : reply'.body = UpTo(n)
    <3>1. 0 \in 0..Chunks'
      BY <1>2a, <1>4
    <3>2. reply'.body = UpTo(0)
      BY <1>3, <1>4, <1>6
    <3> QED BY <3>1, <3>2
  <2>2. reply'.status = 0 /\ reply' = [status |-> reply'.status, body |-> reply'.body, trailers |-> reply'.trailers]
    BY <1>3, <1>4, <1>6
  <2>3. ppc' = "done" /\ outcome' = "error"
    BY <1>6
  <2> QED BY <1>2, <2>1, <2>2, <2>3, Zenon DEF ReplyOK
<1>7. CASE ppc' \in {"start", "head", "body", "close", "recv"} /\ outcome' = outcome /\ reply' = reply
  <2>1. \E n \in 0..Chunks' : reply'.body = UpTo(n)
    <3>1. 0 \in 0..Chunks'
      BY <1>2a, <1>4
    <3>2. reply'.body = UpTo(0)
      BY <1>3, <1>4, <1>7
    <3> QED BY <3>1, <3>2
  <2>2. reply'.status = 0 /\ reply' = [status |-> reply'.status, body |-> reply'.body, trailers |-> reply'.trailers]
    BY <1>3, <1>4, <1>7
  <2>3. outcome' = "" /\ ppc' # "done"
    BY <1>3, <1>7
  <2>4. Taken' = 0 /\ ~(Taken' > 0) /\ reply'.body = UpTo(Taken') /\ reply' = NoReply
    <3>1. Taken' = 0 /\ reply' = NoReply /\ reply'.body = UpTo(0)
      BY <1>2a, <1>3, <1>4, <1>7, Zenon
    <3> QED BY <3>1
  <2> QED BY <1>2, <2>1, <2>2, <2>3, <2>4, Zenon DEF ReplyOK
<1> QED BY <1>2, <1>5, <1>6, <1>7, HandlerMoves

\* ... and sends the next frame at most.
LEMMA RequestSent ==
  ASSUME ProxyInv, handleRuntimeProxy \/ OpenStream \/ SendHeader \/ streamRequestBody \/ CloseSend
  PROVE  RequestOK'
<1>0. RequestOK /\ UNCHANGED gwSaw
  BY HandlerMoves DEF ProxyInv
<1>1. ASSUME NEW f, toGw' = Append(toGw, f), f = Sent, Sent < BodyLen + 2, read' \in 0..BodyLen,
             ppc' \notin {"route", "start", "head"}, ppc' = "body" => Sent = read'
      PROVE  RequestOK'
  <2>1. Sent \in Nat /\ f \in Nat /\ toGw \in Seq(Nat) /\ gwSaw \in Seq(Nat)
    BY <1>0, <1>1 DEF Sent, RequestOK
  <2>2. /\ toGw' \in Seq(Nat) /\ Len(toGw') = Len(toGw) + 1
        /\ \A i \in 1..Len(toGw') : toGw'[i] = IF i <= Len(toGw) THEN toGw[i] ELSE f
    BY <1>1, <2>1
  <2>3. Sent' = Sent + 1
    BY <1>0, <2>1, <2>2 DEF Sent
  <2>4. ASSUME NEW i \in 1..Len(toGw') PROVE toGw'[i] = Len(gwSaw) + i - 1
    <3>1. CASE i <= Len(toGw)
      <4>1. i \in 1..Len(toGw) /\ toGw'[i] = toGw[i]
        BY <2>1, <2>2, <3>1
      <4> QED BY <1>0, <4>1 DEF RequestOK
    <3>2. CASE ~(i <= Len(toGw))
      BY <1>1, <2>1, <2>2, <3>2 DEF Sent
    <3> QED BY <3>1, <3>2
  <2>5. Sent' <= BodyLen + 2 /\ (ppc' = "body" => Sent' = read' + 1)
    <3>1. Sent \in Nat /\ Sent < BodyLen + 2 /\ (ppc' = "body" => Sent = read')
      BY <1>1, <2>1
    <3> HIDE DEF Sent
    <3>2. Sent + 1 <= BodyLen + 2 /\ (ppc' = "body" => Sent + 1 = read' + 1)
      BY <3>1
    <3> QED BY <2>3, <3>2
  <2>6. \A i \in 1..Len(gwSaw) : gwSaw[i] = i - 1
    BY <1>0 DEF RequestOK
  <2> QED BY <1>0, <1>1, <2>1, <2>2, <2>4, <2>5, <2>6 DEF RequestOK
<1>2. ASSUME UNCHANGED <<toGw, read>>, ppc' \in {"route", "start", "head"} => ppc \in {"route", "start", "head"},
             ppc' # "body"
      PROVE  RequestOK'
  BY <1>0, <1>2 DEF RequestOK, Sent
<1>3. CASE handleRuntimeProxy \/ OpenStream \/ CloseSend
  <2>1. UNCHANGED <<toGw, read>> /\ ppc' # "body" /\ (ppc' \in {"route", "start", "head"} => ppc \in {"route", "start", "head"})
    BY <1>3, ZenonT(40) DEF handleRuntimeProxy, OpenStream, CloseSend, Continue, Return
  <2> QED BY <1>2, <2>1
<1>4. CASE SendHeader
  <2>1. Sent = 0 /\ read = 0 /\ read' = read /\ SendFrame(HeadFrame, "body")
    BY <1>0, <1>4 DEF RequestOK, SendHeader
  <2>2. CASE ppc' = "done" /\ toGw' = toGw
    BY <1>2, <2>1, <2>2
  <2>3. CASE ppc' = "body" /\ toGw' = Append(toGw, HeadFrame)
    <3>1. HeadFrame = Sent /\ Sent < BodyLen + 2 /\ read' \in 0..BodyLen /\ Sent = read'
      BY <2>1 DEF HeadFrame
    <3> QED BY <1>1, <2>3, <3>1
  <2> QED BY <2>1, <2>2, <2>3, FrameSent
<1>5. CASE streamRequestBody
  <2>1. ppc = "body" /\ Sent = read + 1 /\ read \in 0..BodyLen
    BY <1>0, <1>5 DEF RequestOK, streamRequestBody
  <2>2. CASE read < BodyLen /\ SendFrame(read + 1, "body") /\ read' = read + 1
    <3>0. read' \in 0..BodyLen /\ Sent < BodyLen + 2 /\ Sent = read' /\ read + 1 = Sent
      BY <2>1, <2>2
    <3>1. CASE ppc' = "done" /\ toGw' = toGw
      <4>1. Sent' = Sent /\ Sent <= BodyLen + 2
        BY <1>0, <2>1, <3>1 DEF Sent
      <4> QED BY <1>0, <3>0, <3>1, <4>1 DEF RequestOK
    <3>2. CASE ppc' = "body" /\ toGw' = Append(toGw, read + 1)
      BY <1>1, <3>0, <3>2
    <3> QED BY <2>2, <3>1, <3>2, FrameSent
  <2>3. CASE read = BodyLen /\ SendFrame(EndFrame, "close") /\ UNCHANGED read
    <3>0. read' \in 0..BodyLen /\ Sent < BodyLen + 2 /\ EndFrame = Sent
      BY <2>1, <2>3 DEF EndFrame
    <3>1. CASE ppc' = "done" /\ toGw' = toGw
      BY <1>2, <2>3, <3>1
    <3>2. CASE ppc' = "close" /\ toGw' = Append(toGw, EndFrame)
      BY <1>1, <3>0, <3>2
    <3> QED BY <2>3, <3>1, <3>2, FrameSent
  <2>4. CASE ~present /\ Return("error") /\ UNCHANGED <<read, toGw>>
    <3>1. ppc' = "done"
      BY <2>4, Zenon DEF Return
    <3> QED BY <1>2, <2>4, <3>1
  <2> QED BY <1>5, <2>2, <2>3, <2>4 DEF streamRequestBody
<1> QED BY <1>3, <1>4, <1>5

\* A handler that does not send keeps the request's frames.
LEMMA RequestFrame ==
  ASSUME RequestOK, UNCHANGED <<read, toGw, gwSaw>>, ppc' = ppc \/ ppc' \in {"recv", "done"}
  PROVE  RequestOK'
<1>1. ppc' \in {"route", "start", "head"} => ppc \in {"route", "start", "head"}
  OBVIOUS
<1>2. ppc' = "body" => ppc = "body"
  OBVIOUS
<1>3. Sent' = Sent
  BY Zenon DEF Sent
<1> QED BY <1>1, <1>2, <1>3, Zenon DEF RequestOK

\* What the client got stays right where only the client or the stream goes.
LEMMA ReplyFrame ==
  ASSUME AnswersOK, ReplyOK, UNCHANGED <<ppc, outcome, reply, answered, fromGw>>,
         present' => present, gwEnd # "" => gwEnd' # ""
  PROVE  AnswersOK' /\ ReplyOK'
<1>1. AnswersOK' /\ Taken' = Taken /\ Finished' = Finished /\ Chunks' = Chunks /\ Bodies' = Bodies
  BY AnswerFrame, Zenon
<1> QED BY <1>1, Zenon DEF ReplyOK

\* The gateway reads the oldest frame.
LEMMA ReadsKeep == ASSUME ProxyInv, GatewayReads PROVE ProxyInv'
<1>0. RequestOK /\ toGw # <<>> /\ toGw' = Tail(toGw) /\ gwSaw' = Append(gwSaw, Head(toGw)) /\ read' = read /\ ppc' = ppc
  BY DEF ProxyInv, GatewayReads
<1>1. /\ gwSaw \in Seq(Nat) /\ toGw \in Seq(Nat) /\ Len(toGw) > 0
      /\ \A i \in 1..Len(gwSaw) : gwSaw[i] = i - 1
      /\ \A i \in 1..Len(toGw) : toGw[i] = Len(gwSaw) + i - 1
  BY <1>0 DEF RequestOK
<1>2. /\ Len(gwSaw) \in Nat /\ Len(gwSaw') = Len(gwSaw) + 1 /\ Len(toGw') = Len(toGw) - 1
      /\ gwSaw' \in Seq(Nat) /\ toGw' \in Seq(Nat)
  BY <1>0, <1>1
<1>3. ASSUME NEW i \in 1..Len(gwSaw') PROVE gwSaw'[i] = i - 1
  <2>1. CASE i \in 1..Len(gwSaw)
    BY <1>0, <1>1, <2>1
  <2>2. CASE i = Len(gwSaw) + 1
    <3>1. gwSaw'[i] = Head(toGw) /\ Head(toGw) = toGw[1]
      BY <1>0, <1>1, <2>2
    <3>2. toGw[1] = Len(gwSaw) + 1 - 1
      BY <1>1
    <3> QED BY <1>2, <2>2, <3>1, <3>2
  <2> QED BY <1>2, <2>1, <2>2
<1>4. ASSUME NEW i \in 1..Len(toGw') PROVE toGw'[i] = Len(gwSaw') + i - 1
  <2>1. toGw'[i] = toGw[i + 1] /\ i + 1 \in 1..Len(toGw)
    BY <1>0, <1>1, <1>2
  <2>2. toGw[i + 1] = Len(gwSaw) + (i + 1) - 1
    BY <1>1, <2>1
  <2> QED BY <1>2, <2>1, <2>2
<1>5. Sent' = Sent
  BY <1>1, <1>2 DEF Sent
<1>6. RequestOK'
  BY <1>0, <1>2, <1>3, <1>4, <1>5, Zenon DEF RequestOK
<1>7. AnswersOK' /\ ReplyOK'
  <2>1. UNCHANGED <<ppc, outcome, reply, answered, fromGw, present, gwEnd>> /\ AnswersOK /\ ReplyOK
    BY Zenon DEF GatewayReads, ProxyInv
  <2> QED BY <2>1, ReplyFrame, Zenon
<1> QED BY <1>6, <1>7 DEF ProxyInv

\* The chunks 1..n, one more, and none more.
LEMMA UpToMore ==
  ASSUME NEW n \in Nat
  PROVE  UpTo(n) \o <<n + 1>> = UpTo(n + 1) /\ UpTo(n) \o << >> = UpTo(n)
<1>1. UpTo(n) \in Seq(Nat) /\ Len(UpTo(n)) = n /\ UpTo(n + 1) \in Seq(Nat) /\ Len(UpTo(n + 1)) = n + 1
  BY DEF UpTo
<1>2. \A i \in 1..n + 1 : (UpTo(n) \o <<n + 1>>)[i] = UpTo(n + 1)[i]
  BY <1>1 DEF UpTo
<1>3. UpTo(n) \o <<n + 1>> \in Seq(Nat) /\ Len(UpTo(n) \o <<n + 1>>) = n + 1
  BY <1>1
<1>4. UpTo(n) \o <<n + 1>> = UpTo(n + 1)
  <2> DEFINE s == UpTo(n) \o <<n + 1>>
             t == UpTo(n + 1)
  <2>1. s \in Seq(Nat) /\ t \in Seq(Nat) /\ Len(s) = Len(t) /\ \A i \in 1..Len(s) : s[i] = t[i]
    BY <1>1, <1>2, <1>3
  <2> HIDE DEF s, t
  <2>2. s = t
    BY <2>1, SeqEqual
  <2> QED BY <2>2 DEF s, t
<1>5. UpTo(n) \o << >> = UpTo(n)
  BY <1>1, ConcatEmptySeq
<1> QED BY <1>4, <1>5

\* The answer that was read never exceeds the answer's chunks.
LEMMA TakenWithin ==
  ASSUME AnswersOK
  PROVE  /\ Taken \in Nat /\ Len(answered) \in Nat /\ Taken <= Len(answered) /\ Chunks \in Nat
         /\ Taken < Len(answered) => Taken <= Chunks
         /\ Taken > 0 /\ ~answered[Taken].last => Taken <= Chunks
         /\ Taken = 0 => Taken <= Chunks
         /\ Taken = Len(answered) /\ Taken > 0 /\ ~answered[Taken].last => ~Finished
         /\ Taken = Len(answered) /\ Taken = 0 => ~Finished
         /\ Bodies = UpTo(Chunks)
<1>1. answered \in Seq(Frames) /\ fromGw \in Seq(Frames) /\ Taken \in Nat
  BY DEF AnswersOK
<1>2. Len(answered) \in Nat /\ Len(fromGw) \in Nat /\ Taken = Len(answered) - Len(fromGw)
  BY <1>1 DEF Taken
<1>3. Finished => Len(answered) > 0 /\ answered[Len(answered)].last
  BY <1>1 DEF Finished, Last
<1>4. Bodies = UpTo(Chunks)
  BY Zenon DEF Bodies, UpTo, Chunks
<1>5. Chunks = IF Finished THEN Len(answered) - 1 ELSE Len(answered)
  BY DEF Chunks
<1> HIDE DEF Taken
<1> QED BY <1>1, <1>2, <1>3, <1>4, <1>5

\* The gateway sends one more frame.
LEMMA AnswersKeep ==
  ASSUME ProxyInv, NEW status \in {0, 404}, NEW last \in BOOLEAN, GatewayAnswers(status, last)
  PROVE  ProxyInv'
<1> DEFINE f == [status |-> status, body |-> IF last THEN <<>> ELSE <<Len(answered) + 1>>, last |-> last]
<1>0. /\ gwEnd = "" /\ ~Finished /\ fromGw' = Append(fromGw, f) /\ answered' = Append(answered, f)
      /\ UNCHANGED <<ppc, read, toGw, gwSaw, gwEnd, reply, present, outcome>>
  BY Zenon DEF GatewayAnswers
<1>1. /\ answered \in Seq(Frames) /\ fromGw \in Seq(Frames) /\ Taken \in Nat
      /\ Len(answered) \in Nat /\ Len(fromGw) \in Nat /\ Taken = Len(answered) - Len(fromGw)
  BY DEF ProxyInv, AnswersOK, Taken
<1>2. f \in Frames /\ f.last = last /\ f.body = IF last THEN <<>> ELSE <<Len(answered) + 1>>
  BY <1>1 DEF Frames
<1> HIDE DEF f
<1>3. /\ answered' \in Seq(Frames) /\ Len(answered') = Len(answered) + 1
      /\ \A i \in 1..Len(answered') : answered'[i] = IF i <= Len(answered) THEN answered[i] ELSE f
      /\ fromGw' \in Seq(Frames) /\ Len(fromGw') = Len(fromGw) + 1
      /\ \A i \in 1..Len(fromGw') : fromGw'[i] = IF i <= Len(fromGw) THEN fromGw[i] ELSE f
  <2>1. fromGw' = Append(fromGw, f) /\ answered' = Append(answered, f)
    BY <1>0, Zenon
  <2> QED BY <1>1, <1>2, <2>1, AppendProperties
<1>4. Taken' = Taken
  BY <1>1, <1>3 DEF Taken
<1>5. \A i \in 1..Len(answered) : ~answered[i].last
  <2>1. ASSUME NEW i \in 1..Len(answered), answered[i].last PROVE FALSE
    <3>1. i = Len(answered)
      BY <2>1 DEF ProxyInv, AnswersOK
    <3>2. answered # <<>> /\ Last(answered).last
      BY <1>1, <2>1, <3>1 DEF Last
    <3> QED BY <1>0, <3>2, Zenon DEF Finished
  <2> QED BY <2>1
<1>6. AnswersOK'
  <2>1. ASSUME NEW i \in 1..Len(answered')
        PROVE  /\ answered'[i].body = IF answered'[i].last THEN <<>> ELSE <<i>>
               /\ answered'[i].last => i = Len(answered')
    <3>1. CASE i \in 1..Len(answered)
      <4>1. answered'[i] = answered[i] /\ ~answered[i].last
        BY <1>1, <1>3, <1>5, <3>1
      <4> QED BY <3>1, <4>1 DEF ProxyInv, AnswersOK
    <3>2. CASE i = Len(answered) + 1
      <4>1. answered'[i] = f
        BY <1>1, <1>3, <3>2, SMTT(30)
      <4> QED BY <1>2, <1>3, <3>2, <4>1
    <3> QED BY <1>1, <1>3, <3>1, <3>2
  <2>2. ASSUME NEW i \in 1..Len(fromGw') PROVE fromGw'[i] = answered'[Taken' + i]
    <3>1. CASE i \in 1..Len(fromGw)
      <4>1. fromGw'[i] = fromGw[i] /\ Taken + i \in 1..Len(answered)
        BY <1>1, <1>3, <3>1
      <4>2. fromGw[i] = answered[Taken + i]
        BY <3>1 DEF ProxyInv, AnswersOK
      <4>3. answered'[Taken + i] = answered[Taken + i]
        <5>1. PICK j \in 1..Len(answered) : j = Taken + i
          BY <4>1
        <5>2. answered'[j] = answered[j]
          BY <1>1, <1>3
        <5> QED BY <5>1, <5>2
      <4> QED BY <1>4, <4>1, <4>2, <4>3
    <3>2. CASE i = Len(fromGw) + 1
      <4>1. fromGw'[i] = f /\ Taken + i = Len(answered) + 1
        BY <1>1, <1>3, <3>2
      <4>2. answered'[Len(answered) + 1] = f
        BY <1>1, <1>3
      <4> QED BY <1>4, <4>1, <4>2
    <3> QED BY <1>1, <1>3, <3>1, <3>2
  <2> QED BY <1>1, <1>3, <1>4, <2>1, <2>2, Zenon DEF AnswersOK
<1>7. Chunks = Len(answered) /\ Chunks' \in Nat /\ Chunks <= Chunks'
  <2>1. Chunks = Len(answered)
    BY <1>0, Zenon DEF Chunks
  <2>2. Chunks' = IF Finished' THEN Len(answered') - 1 ELSE Len(answered')
    BY Zenon DEF Chunks
  <2> QED BY <1>1, <1>3, <2>1, <2>2
<1>8. /\ Taken > 0 => answered'[1] = answered[1]
      /\ Taken > 0 => answered'[Taken] = answered[Taken]
  <2>1. \A i \in 1..Len(answered) : answered'[i] = answered[i]
    BY <1>1, <1>3
  <2>2. Taken > 0 => 1 \in 1..Len(answered) /\ Taken \in 1..Len(answered)
    BY <1>1
  <2> QED BY <2>1, <2>2
<1>9. ReplyOK'
  <2>1. ReplyOK
    BY DEF ProxyInv
  <2>2. \A n \in 0..Chunks : n \in 0..Chunks'
    BY <1>1, <1>7
  <2>3. ~(outcome = "ok" /\ present)
    <3>1. outcome = "ok" /\ present => gwEnd # ""
      BY <1>0, <2>1, Zenon DEF ReplyOK
    <3> QED BY <1>0, <3>1, Zenon
  <2>4. outcome # "json" => \E n \in 0..Chunks' : reply.body = UpTo(n)
    BY <2>1, <2>2, Zenon DEF ReplyOK
  <2>5. ppc = "recv" => /\ reply.body = UpTo(Taken) /\ (reply.status = 0 <=> Taken = 0)
                        /\ Taken > 0 => ~answered'[Taken].last
    <3>1. ppc = "recv" => /\ reply.body = UpTo(Taken) /\ (reply.status = 0 <=> Taken = 0)
                          /\ Taken > 0 => ~answered[Taken].last
      BY <2>1, Zenon DEF ReplyOK
    <3> QED BY <1>8, <3>1, Zenon
  <2>7. outcome # "json" /\ reply.status # 0 =>
           Taken > 0 /\ reply.status = IF answered'[1].status = 0 THEN 200 ELSE answered'[1].status
    <3>1. outcome # "json" /\ reply.status # 0 =>
             Taken > 0 /\ reply.status = IF answered[1].status = 0 THEN 200 ELSE answered[1].status
      BY <2>1, Zenon DEF ReplyOK
    <3> HIDE DEF Taken
    <3> QED BY <1>8, <3>1
  <2>6. /\ reply = [status |-> reply.status, body |-> reply.body, trailers |-> reply.trailers]
        /\ outcome # "" <=> ppc = "done"
        /\ ppc \in {"route", "start", "head", "body", "close"} => reply = NoReply /\ Taken = 0
    BY <2>1, Zenon DEF ReplyOK
  <2> QED BY <1>0, <1>4, <2>3, <2>4, <2>5, <2>6, <2>7, Zenon DEF ReplyOK
<1>10. RequestOK'
  <2>1. RequestOK
    BY DEF ProxyInv
  <2> QED BY <1>0, <2>1, RequestFrame, Zenon
<1> QED BY <1>6, <1>9, <1>10 DEF ProxyInv

\* The oldest frame on its way is taken: it is the next of the answer.
LEMMA FrameTaken ==
  ASSUME AnswersOK, UNCHANGED answered, fromGw # <<>>, fromGw' = Tail(fromGw)
  PROVE  AnswersOK' /\ Taken' = Taken + 1 /\ Head(fromGw) = answered[Taken + 1] /\ Taken + 1 \in 1..Len(answered)
<1>1. /\ answered \in Seq(Frames) /\ fromGw \in Seq(Frames) /\ Taken \in Nat
      /\ Len(answered) \in Nat /\ Len(fromGw) \in Nat \ {0} /\ Taken = Len(answered) - Len(fromGw)
      /\ \A i \in 1..Len(fromGw) : fromGw[i] = answered[Taken + i]
  BY DEF AnswersOK, Taken
<1>2. fromGw' \in Seq(Frames) /\ Len(fromGw') = Len(fromGw) - 1 /\ \A i \in 1..Len(fromGw') : fromGw'[i] = fromGw[i + 1]
  BY <1>1
<1>3. Taken' = Taken + 1
  BY <1>1, <1>2 DEF Taken
<1>4. \A i \in 1..Len(fromGw') : fromGw'[i] = answered[Taken + 1 + i]
  <2>1. ASSUME NEW i \in 1..Len(fromGw') PROVE fromGw'[i] = answered[Taken + 1 + i]
    <3>1. PICK k \in 1..Len(fromGw) : k = i + 1
      BY <1>1, <1>2
    <3>2. Taken + k = Taken + 1 + i
      BY <1>1, <3>1
    <3>4. fromGw[k] = answered[Taken + k]
      BY <1>1, Zenon
    <3>3. fromGw'[i] = fromGw[k]
      BY <1>2, <3>1, Zenon
    <3> QED BY <3>2, <3>3, <3>4, Zenon
  <2> QED BY <2>1
<1>5. AnswersOK'
  <2>1. /\ \A i \in 1..Len(answered) : answered[i].body = IF answered[i].last THEN <<>> ELSE <<i>>
        /\ \A i \in 1..Len(answered) : answered[i].last => i = Len(answered)
    BY DEF AnswersOK
  <2>2. Taken + 1 \in Nat
    BY <1>1
  <2> QED BY <1>1, <1>2, <1>3, <1>4, <2>1, <2>2, Zenon DEF AnswersOK
<1>6. Head(fromGw) = answered[Taken + 1] /\ Taken + 1 \in 1..Len(answered)
  BY <1>1
<1> QED BY <1>3, <1>5, <1>6

\* The handler takes a frame, finds the stream ended, or the client gone.
LEMMA RecvKeeps == ASSUME ProxyInv, Recv PROVE ProxyInv'
<1> DEFINE StatusOf(s) == IF s = 0 THEN 200 ELSE s
<1>0. /\ ppc = "recv" /\ UNCHANGED <<read, toGw, present, gwSaw, answered, gwEnd>>
      /\ RequestOK /\ AnswersOK /\ ReplyOK
  BY Zenon DEF Recv, gwVars, ProxyInv
<1>1. /\ Finished' = Finished /\ Chunks' = Chunks /\ Bodies' = Bodies
  BY <1>0, Zenon DEF Finished, Chunks, Bodies
<1>2. /\ outcome = "" /\ reply.body = UpTo(Taken) /\ (reply.status = 0 <=> Taken = 0)
      /\ Taken > 0 => ~answered[Taken].last
      /\ Taken > 0 => reply.status = StatusOf(answered[1].status)
      /\ reply = [status |-> reply.status, body |-> reply.body, trailers |-> reply.trailers]
  <2>1. /\ reply.body = UpTo(Taken) /\ (reply.status = 0 <=> Taken = 0)
        /\ Taken > 0 => ~answered[Taken].last
    BY <1>0, Zenon DEF ReplyOK
  <2>2. outcome = "" /\ reply = [status |-> reply.status, body |-> reply.body, trailers |-> reply.trailers]
    BY <1>0, Zenon DEF ReplyOK
  <2>3. outcome # "json" /\ reply.status # 0 => Taken > 0 /\ reply.status = StatusOf(answered[1].status)
    BY <1>0, Zenon DEF ReplyOK
  <2>4. Taken > 0 => Taken # 0
    BY DEF Taken
  <2> QED BY <2>1, <2>2, <2>3, <2>4, Zenon
<1>3. /\ Taken \in Nat /\ Len(answered) \in Nat /\ Taken <= Len(answered) /\ Chunks \in Nat
      /\ Taken <= Chunks /\ (Taken = Len(answered) => ~Finished) /\ Bodies = UpTo(Chunks)
  <2>1. Taken \in Nat => Taken = 0 \/ Taken > 0
    OBVIOUS
  <2> QED BY <1>0, <1>2, <2>1, TakenWithin, Zenon
<1>8. \E n \in 0..Chunks : reply.body = UpTo(n)
  <2>1. Taken \in 0..Chunks
    BY <1>3
  <2> QED BY <1>2, <2>1, Zenon
<1>9. Taken = 0 \/ Taken > 0
  BY <1>3
<1>10. Taken > 0 \/ reply.status = 0
  BY <1>2, <1>9, Zenon
<1>4. RequestOK'
  <2>1. ppc' \in {"recv", "done"}
    BY Zenon DEF Recv, Return, Continue
  <2> QED BY <1>0, <2>1, RequestFrame, Zenon
<1>5. CASE fromGw = <<>> /\ gwEnd # "" /\ Return(IF gwEnd = "eof" THEN "ok" ELSE "error") /\ UNCHANGED <<fromGw, reply>>
  <2>1. ~Finished
    <3>1. Taken = Len(answered)
      <4>1. Len(fromGw) = 0
        BY <1>5
      <4>2. Taken = Len(answered) - Len(fromGw)
        BY DEF Taken
      <4> QED BY <1>3, <4>1, <4>2
    <3> QED BY <1>3, <3>1, Zenon
  <2>2. AnswersOK' /\ Taken' = Taken
    BY <1>0, <1>5, AnswerFrame, Zenon
  <2>3. ppc' = "done" /\ outcome' \in {"ok", "error"} /\ reply' = reply /\ gwEnd' # ""
    BY <1>0, <1>5, Zenon DEF Return
  <2>6. ReplyOK'
    BY <1>0, <1>1, <1>2, <1>8, <1>10, <2>1, <2>2, <2>3, Zenon DEF ReplyOK
  <2> QED BY <1>4, <2>2, <2>6 DEF ProxyInv
<1>6. CASE ~present /\ Return("error") /\ UNCHANGED <<fromGw, reply>>
  <2>2. AnswersOK' /\ Taken' = Taken
    BY <1>0, <1>6, AnswerFrame, Zenon
  <2>3. ppc' = "done" /\ outcome' = "error" /\ reply' = reply
    BY <1>0, <1>6, Zenon DEF Return
  <2>6. ReplyOK'
    BY <1>0, <1>1, <1>2, <1>8, <1>10, <2>2, <2>3, Zenon DEF ReplyOK
  <2> QED BY <1>4, <2>2, <2>6 DEF ProxyInv
<1>7. ASSUME fromGw # <<>>, fromGw' = Tail(fromGw), NEW f, f = Head(fromGw), NEW status,
             status = IF reply.status # 0 THEN reply.status ELSE IF f.status = 0 THEN 200 ELSE f.status,
             \/ /\ f.body # <<>> /\ ~present /\ reply' = [reply EXCEPT !.status = status]
                /\ \E o \in {"ok", "error"} : Return(o)
             \/ /\ reply' = [status |-> status, body |-> reply.body \o f.body, trailers |-> f.last]
                /\ IF f.last THEN Return("ok") ELSE Continue("recv")
      PROVE  ProxyInv'
  <2>1. AnswersOK' /\ Taken' = Taken + 1 /\ f = answered[Taken + 1] /\ Taken + 1 \in 1..Len(answered)
    BY <1>0, <1>7, FrameTaken, Zenon
  <2>2. /\ f.body = IF f.last THEN <<>> ELSE <<Taken + 1>>
        /\ f.last => Taken + 1 = Len(answered)
        /\ f.status \in Nat
    <3>1. PICK k \in 1..Len(answered) : k = Taken + 1
      BY <2>1
    <3>2. answered[k] \in Frames
      BY <1>0 DEF AnswersOK
    <3>3. /\ answered[k].body = IF answered[k].last THEN <<>> ELSE <<k>>
          /\ answered[k].last => k = Len(answered)
      BY <1>0 DEF AnswersOK
    <3> QED BY <2>1, <3>1, <3>2, <3>3 DEF Frames
  <2>3. status = StatusOf(answered[1].status) /\ status # 0
    <3>1. CASE Taken = 0
      <4>1. reply.status = 0
        BY <1>2, <3>1, Zenon
      <4>2. f = answered[1]
        BY <2>1, <3>1
      <4>3. status = IF f.status = 0 THEN 200 ELSE f.status
        BY <1>7, <4>1, Zenon
      <4> QED BY <4>2, <4>3
    <3>2. CASE Taken > 0
      <4>1. reply.status # 0 /\ reply.status = StatusOf(answered[1].status)
        <5>1. Taken # 0
          BY <1>3, <3>2
        <5> QED BY <1>2, <3>2, <5>1, Zenon
      <4> QED BY <1>7, <4>1, Zenon
    <3> QED BY <1>9, <3>1, <3>2
  <2>4. Taken + 1 \in Nat /\ Taken + 1 > 0
    BY <1>3
  <2>5. CASE ~present /\ reply' = [reply EXCEPT !.status = status] /\ \E o \in {"ok", "error"} : Return(o)
    <3>1. ppc' = "done" /\ outcome' \in {"ok", "error"} /\ ~present'
      BY <1>0, <2>5, Zenon DEF Return
    <3>2. /\ reply'.status = status /\ reply'.body = reply.body
          /\ reply' = [status |-> reply'.status, body |-> reply'.body, trailers |-> reply'.trailers]
      <4>1. \E s, b, t : reply = [status |-> s, body |-> b, trailers |-> t]
        <5>1. reply = [status |-> reply.status, body |-> reply.body, trailers |-> reply.trailers]
          BY <1>2, Zenon
        <5> WITNESS reply.status, reply.body, reply.trailers
        <5> QED BY <5>1
      <4>2. PICK s, b, t : reply = [status |-> s, body |-> b, trailers |-> t]
        BY <4>1
      <4>3. reply' = [status |-> status, body |-> b, trailers |-> t]
        BY <2>5, <4>2
      <4> QED BY <4>2, <4>3
    <3>3. \E n \in 0..Chunks : reply'.body = UpTo(n)
      BY <1>8, <3>2, Zenon
    <3>4. ReplyOK'
      BY <1>0, <1>1, <2>1, <2>3, <2>4, <3>1, <3>2, <3>3, Zenon DEF ReplyOK
    <3> QED BY <1>4, <2>1, <3>4 DEF ProxyInv
  <2>6. CASE f.last /\ reply' = [status |-> status, body |-> reply.body \o f.body, trailers |-> f.last] /\ Return("ok")
    <3>1. ppc' = "done" /\ outcome' = "ok"
      BY <2>6, Zenon DEF Return
    <3>2. f.body = <<>>
      BY <2>2, <2>6
    <3>3. UpTo(Taken) \o <<>> = UpTo(Taken)
      BY <1>3, UpToMore
    <3>4. reply' = [status |-> status, body |-> UpTo(Taken), trailers |-> f.last]
      BY <1>2, <2>6, <3>2, <3>3, Zenon
    <3>5. reply'.status = status /\ reply'.body = UpTo(Taken) /\ reply'.trailers = f.last
      BY <3>4, Zenon
    <3>6. reply' = [status |-> reply'.status, body |-> reply'.body, trailers |-> reply'.trailers]
      BY <3>4, <3>5, Zenon
    <3>7. Finished
      <4>1. answered # <<>> /\ Last(answered) = answered[Len(answered)]
        BY <1>0, <2>1 DEF AnswersOK, Last
      <4> QED BY <2>1, <2>2, <2>6, <4>1, Zenon DEF Finished
    <3>8. Chunks = Taken
      <4>1. Chunks = Len(answered) - 1
        BY <3>7, Zenon DEF Chunks
      <4>2. Taken + 1 = Len(answered)
        BY <2>2, <2>6, Zenon
      <4> QED BY <1>3, <4>1, <4>2
    <3>9. \E n \in 0..Chunks : reply'.body = UpTo(n)
      BY <1>3, <3>5
    <3>10. Finished /\ reply'.body = Bodies /\ reply'.trailers
      BY <1>3, <2>6, <3>5, <3>7, <3>8, Zenon
    <3>11. ReplyOK'
      BY <1>0, <1>1, <2>1, <2>3, <2>4, <3>1, <3>5, <3>6, <3>9, <3>10, Zenon DEF ReplyOK
    <3> QED BY <1>4, <2>1, <3>11 DEF ProxyInv
  <2>7. CASE ~f.last /\ reply' = [status |-> status, body |-> reply.body \o f.body, trailers |-> f.last] /\ Continue("recv")
    <3>1. ppc' = "recv" /\ outcome' = ""
      BY <1>2, <2>7, Zenon DEF Continue
    <3>2. f.body = <<Taken + 1>>
      BY <2>2, <2>7
    <3>3. UpTo(Taken) \o <<Taken + 1>> = UpTo(Taken + 1)
      BY <1>3, UpToMore
    <3>4. reply' = [status |-> status, body |-> UpTo(Taken + 1), trailers |-> f.last]
      BY <1>2, <2>7, <3>2, <3>3, Zenon
    <3>5. reply'.status = status /\ reply'.body = UpTo(Taken + 1) /\ reply'.trailers = f.last
      BY <3>4, Zenon
    <3>6. reply' = [status |-> reply'.status, body |-> reply'.body, trailers |-> reply'.trailers]
      BY <3>4, <3>5, Zenon
    <3>7. ~answered[Taken + 1].last
      BY <2>1, <2>7, Zenon
    <3>8. Taken + 1 <= Chunks
      <4>1. CASE Taken' = Len(answered')
        <5>1. ~Finished'
          <6>1. AnswersOK' /\ Taken' = Len(answered') /\ Taken' > 0 /\ ~answered'[Taken'].last
            BY <1>0, <2>1, <2>4, <3>7, <4>1, Zenon
          <6>2. answered' \in Seq(Frames) /\ Len(answered') > 0
            BY <6>1 DEF AnswersOK
          <6>3. ~Last(answered').last
            BY <6>1, <6>2, Zenon DEF Last
          <6> QED BY <6>3, Zenon DEF Finished
        <5>2. Chunks = Len(answered)
          BY <1>1, <5>1, Zenon DEF Chunks
        <5> QED BY <2>1, <5>2
      <4>2. CASE Taken' # Len(answered')
        <5>1. Chunks = Len(answered) - 1 \/ Chunks = Len(answered)
          BY Zenon DEF Chunks
        <5>2. Taken + 1 # Len(answered)
          BY <1>0, <2>1, <4>2, Zenon
        <5> QED BY <1>3, <2>1, <5>1, <5>2
      <4> QED BY <4>1, <4>2
    <3>9. \E n \in 0..Chunks : reply'.body = UpTo(n)
      BY <1>3, <3>5, <3>8
    <3>10. Taken + 1 # 0
      BY <2>4
    <3>11. ReplyOK'
      BY <1>0, <1>1, <2>1, <2>3, <2>4, <3>1, <3>5, <3>6, <3>7, <3>9, <3>10, Zenon DEF ReplyOK
    <3> QED BY <1>4, <2>1, <3>11 DEF ProxyInv
  <2> QED BY <1>7, <2>5, <2>6, <2>7, Zenon
<1> HIDE DEF StatusOf
<1> QED BY <1>5, <1>6, <1>7, Zenon DEF Recv

\* The invariant holds in every state of a request.
THEOREM ProxyInvHolds == ProxySpec => []ProxyInv
<1>1. ProxyInit => ProxyInv
  BY ProxyInvInit
<1>2. ProxyInv /\ [ProxyNext]_proxyVars => ProxyInv'
  <2> SUFFICES ASSUME ProxyInv, [ProxyNext]_proxyVars PROVE ProxyInv'
    OBVIOUS
  <2>1. CASE handleRuntimeProxy \/ OpenStream \/ SendHeader \/ streamRequestBody \/ CloseSend
    BY <2>1, HandlerSends, RequestSent DEF ProxyInv
  <2>2. CASE Recv
    BY <2>2, RecvKeeps
  <2>3. CASE GatewayReads
    BY <2>3, ReadsKeep
  <2>4. CASE \E status \in {0, 404}, last \in BOOLEAN : GatewayAnswers(status, last)
    BY <2>4, AnswersKeep
  <2>5. CASE GatewayEnds \/ ClientLeaves \/ UNCHANGED proxyVars
    <3>1. UNCHANGED <<ppc, read, toGw, gwSaw, outcome, reply, answered, fromGw>>
      BY <2>5, Zenon DEF GatewayEnds, ClientLeaves, proxyVars, gwVars
    <3>2. present' => present
      BY <2>5, Zenon DEF GatewayEnds, ClientLeaves, proxyVars
    <3>3. gwEnd # "" => gwEnd' # ""
      BY <2>5, Zenon DEF GatewayEnds, ClientLeaves, proxyVars, gwVars
    <3>4. RequestOK' /\ AnswersOK' /\ ReplyOK'
      BY <3>1, <3>2, <3>3, RequestFrame, ReplyFrame, Zenon DEF ProxyInv
    <3> QED BY <3>4 DEF ProxyInv
  <2> QED BY <2>1, <2>2, <2>3, <2>4, <2>5, Zenon DEF ProxyNext
<1> QED BY <1>1, <1>2, PTL DEF ProxySpec

\* What the invariant says of the two directions.
LEMMA ProxyInvFaithful == ProxyInv => ProxyFaithful
<1> SUFFICES ASSUME ProxyInv PROVE ProxyFaithful
  OBVIOUS
<1>1. Contains(gwSaw, EndFrame) => gwSaw = [i \in 1..BodyLen + 2 |-> i - 1]
  <2> SUFFICES ASSUME Contains(gwSaw, EndFrame) PROVE gwSaw = [i \in 1..BodyLen + 2 |-> i - 1]
    OBVIOUS
  <2>1. /\ gwSaw \in Seq(Nat) /\ toGw \in Seq(Nat) /\ Len(gwSaw) + Len(toGw) <= BodyLen + 2
        /\ \A i \in 1..Len(gwSaw) : gwSaw[i] = i - 1
    BY DEF ProxyInv, RequestOK, Sent
  <2>2. PICK i \in 1..Len(gwSaw) : gwSaw[i] = BodyLen + 1
    BY <2>1 DEF Contains, EndFrame
  <2>3. Len(gwSaw) = BodyLen + 2
    <3>1. i - 1 = BodyLen + 1
      BY <2>1, <2>2
    <3> QED BY <2>1, <2>2, <3>1
  <2> QED BY <2>1, <2>3
<1>2. outcome # "json" => IsPrefix(reply.body, Bodies)
  <2> SUFFICES ASSUME outcome # "json" PROVE IsPrefix(reply.body, Bodies)
    OBVIOUS
  <2>1. PICK n \in 0..Chunks : reply.body = UpTo(n)
    BY Zenon DEF ProxyInv, ReplyOK
  <2>2. Bodies = UpTo(Chunks) /\ Chunks \in Nat
    BY TakenWithin DEF ProxyInv
  <2>3. Len(UpTo(n)) = n /\ Len(UpTo(Chunks)) = Chunks
    BY <2>1, <2>2 DEF UpTo
  <2>4. SubSeq(UpTo(n), 1, n) = SubSeq(UpTo(Chunks), 1, n)
    BY <2>1, <2>2, <2>3 DEF UpTo
  <2> QED BY <2>1, <2>2, <2>3, <2>4 DEF IsPrefix
<1>3. outcome # "json" /\ reply.status # 0 =>
        reply.status = IF answered[1].status = 0 THEN 200 ELSE answered[1].status
  BY Zenon DEF ProxyInv, ReplyOK
<1>4. outcome = "ok" /\ present /\ Finished => reply.body = Bodies /\ reply.trailers
  BY Zenon DEF ProxyInv, ReplyOK
<1> QED BY <1>1, <1>2, <1>3, <1>4, Zenon DEF ProxyFaithful

\* However many chunks the request and the answer have, and however small the windows:
\* the gateway is told that the request is complete only after all of it, and the client
\* gets the answer from its beginning, in order, all of it when the handler ended well.
THEOREM ProxyIsFaithful == ProxySpec => []ProxyFaithful
BY ProxyInvHolds, ProxyInvFaithful, PTL
=============================================================================
