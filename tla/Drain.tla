--------------------------------- MODULE Drain ---------------------------------
(***************************************************************************)
(* The dispatcher's event loop and the drain goroutine of one worker's     *)
(* queue (internal/scheduler/scheduler.go): how the loop is woken, how a   *)
(* pass finds a queue that is still being drained, and how many rows a     *)
(* drain takes from the slots the last heartbeat advertised.               *)
(*                                                                         *)
(* Time is left out: the two-second ticker is an action that need never    *)
(* happen.  The rows of the other queues, the steals and the loss of the   *)
(* worker are in Placement, Dispatch and Restart.                          *)
(***************************************************************************)
EXTENDS Integers, FiniteSets, FiniteSetsExt

CONSTANTS
  DJobs,     \* the jobs placed on this worker's queue
  Pool,      \* the slots of the worker's context pool, once a model is loaded
  MaxLoadFailures, MaxBenches   \* bounds

ASSUME DrainAssumption ==
  Pool \in Nat \ {0} /\ MaxLoadFailures \in Nat /\ MaxBenches \in Nat /\ IsFiniteSet(DJobs)

VARIABLES
  drow,       \* [DJobs -> absent | queued | leased | deferred | gone], the worker row
  dinflight,  \* the jobs of inflightByRequest
  busy,       \* the jobs the worker is running
  pooled,     \* whether the worker has a pool (a loaded model)
  beat,       \* the last heartbeat: AvailableCapacity and ActiveJobs
  wake,       \* Scheduler.wake, a channel of capacity one
  notify,     \* Pool.notify, a channel of capacity one
  loop,       \* "pass" or "select": where dispatchLoop is
  draining,   \* the worker's entry of Scheduler.draining: none, clean or skipped
  drainer,    \* the drain goroutine: its step and what it has read
  gate,       \* whether a benchmark holds the worker (benchGated)
  loadFailures, benches,
  tornRead        \* history: a heartbeat fell between the two reads of effectiveCapacity

loopVars == <<wake, notify, loop, draining>>
jobVars == <<drow, dinflight, busy, pooled, loadFailures>>
drainVars == <<loopVars, jobVars, beat, drainer, gate, benches, tornRead>>

NoDrain == [at |-> "none", inflight |-> 0, available |-> 0, rows |-> {}]

DrainTypeOK ==
  /\ drow \in [DJobs -> {"absent", "queued", "leased", "deferred", "gone"}]
  /\ dinflight \subseteq DJobs /\ busy \subseteq DJobs /\ pooled \in BOOLEAN
  /\ beat \in [available : 0..Pool, active : 0..Cardinality(DJobs)]
  /\ wake \in BOOLEAN /\ notify \in BOOLEAN
  /\ loop \in {"pass", "select"} /\ draining \in {"none", "clean", "skipped"}
  /\ drainer \in [at : {"none", "gate", "inflight", "available", "capacity", "rows", "load", "exit"},
                  inflight : 0..Cardinality(DJobs), available : 0..Pool, rows : SUBSET DJobs]
  /\ gate \in BOOLEAN /\ tornRead \in BOOLEAN
  /\ loadFailures \in 0..MaxLoadFailures /\ benches \in 0..MaxBenches

DrainInit ==
  /\ drow = [j \in DJobs |-> "absent"] /\ dinflight = {} /\ busy = {} /\ pooled = FALSE
  /\ beat = [available |-> 0, active |-> 0]
  /\ wake = FALSE /\ notify = FALSE /\ loop = "pass" /\ draining = "none"
  /\ drainer = NoDrain /\ gate = FALSE /\ loadFailures = 0 /\ benches = 0 /\ tornRead = FALSE

------------------------------------------------------------------------------
(* Wake-ups.                                                               *)

\* A send that does nothing when the channel already holds a signal.  It is made
\* in the step it announces: made later, it would only add a pass, as SlowTicker
\* does at any time.
Kick == wake' = TRUE

\* The row is on the worker's queue; LeaseAndSubmit signals the pool's channel
\* and Submit kicks.
PlaceRow(j) ==
  /\ drow[j] = "absent"
  /\ drow' = [drow EXCEPT ![j] = "queued"]
  /\ notify' = TRUE /\ Kick
  /\ UNCHANGED <<dinflight, busy, pooled, loadFailures, beat, loop, draining, drainer, gate, benches, tornRead>>

\* The deferred row becomes visible, and the timer started after Defer fires.
DeferralEnds(j) ==
  /\ drow[j] = "deferred"
  /\ drow' = [drow EXCEPT ![j] = "queued"] /\ Kick
  /\ UNCHANGED <<dinflight, busy, pooled, loadFailures, beat, notify, loop, draining, drainer, gate, benches, tornRead>>

------------------------------------------------------------------------------
(* The loop.                                                               *)

Wakes == \/ notify /\ notify' = FALSE /\ UNCHANGED wake
         \/ wake /\ wake' = FALSE /\ UNCHANGED notify

Receive ==
  /\ loop = "select" /\ Wakes /\ loop' = "pass"
  /\ UNCHANGED <<draining, jobVars, beat, drainer, gate, benches, tornRead>>

SlowTicker ==
  /\ loop = "select" /\ loop' = "pass"
  /\ UNCHANGED <<wake, notify, draining, jobVars, beat, drainer, gate, benches, tornRead>>

MarkForgetsSkip == IF draining = "none" THEN "clean" ELSE draining

\* The slot is claimed, or the pass is recorded as skipped.
tryMarkDraining == IF draining = "none" THEN "clean" ELSE "skipped"

drainDeviceQueues ==
  /\ loop = "pass" /\ loop' = "select"
  /\ draining' = tryMarkDraining
  /\ drainer' = IF draining = "none" THEN [NoDrain EXCEPT !.at = "gate"] ELSE drainer
  /\ UNCHANGED <<wake, notify, jobVars, beat, gate, benches, tornRead>>

\* The drain goroutine ends: the slot is given back, and a skipped pass is made up for.
finishDraining ==
  /\ drainer.at = "exit"
  /\ drainer' = NoDrain /\ draining' = "none"
  /\ IF draining = "skipped" THEN Kick ELSE UNCHANGED wake
  /\ UNCHANGED <<notify, loop, jobVars, beat, gate, benches, tornRead>>

------------------------------------------------------------------------------
(* One drain.                                                              *)

benchGateHeld ==
  /\ drainer.at = "gate"
  /\ drainer' = [drainer EXCEPT !.at = IF gate THEN "exit" ELSE "inflight"]
  /\ UNCHANGED <<loopVars, jobVars, beat, gate, benches, tornRead>>

inflightCountForWorker == Cardinality(dinflight)

CountInflight ==
  /\ drainer.at = "inflight"
  /\ drainer' = [drainer EXCEPT !.at = "available", !.inflight = inflightCountForWorker]
  /\ UNCHANGED <<loopVars, jobVars, beat, gate, benches, tornRead>>

ReadAvailable ==
  /\ drainer.at = "available"
  /\ drainer' = [drainer EXCEPT !.at = "capacity", !.available = beat.available]
  /\ UNCHANGED <<loopVars, jobVars, beat, gate, benches, tornRead>>

AdvertisedCapacity == drainer.available

\* The advertised slots, less the jobs the heartbeat does not know of yet.
effectiveCapacity == drainer.available - Max({0, inflightCountForWorker - beat.active})

\* A worker without a pool advertises nothing and must still get one row.
BatchSize ==
  IF drainer.inflight = 0 THEN Max({effectiveCapacity, 1}) ELSE effectiveCapacity

QueuedRows == {j \in DJobs : drow[j] = "queued"}

PeekBatch ==
  /\ drainer.at = "capacity"
  /\ IF BatchSize <= 0 \/ QueuedRows = {}
     THEN drainer' = [drainer EXCEPT !.at = "exit"]
     ELSE \E rows \in kSubset(Min({BatchSize, Cardinality(QueuedRows)}), QueuedRows) :
            drainer' = [drainer EXCEPT !.at = "rows", !.rows = rows]
  /\ UNCHANGED <<loopVars, jobVars, beat, gate, benches, tornRead>>

\* The rows of the batch one after another; a row that is gone is skipped.
LeaseNext ==
  /\ drainer.at = "rows"
  /\ IF drainer.rows = {}
     THEN drainer' = [drainer EXCEPT !.at = "exit"] /\ UNCHANGED drow
     ELSE \E j \in drainer.rows :
            IF drow[j] = "queued"
            THEN /\ drow' = [drow EXCEPT ![j] = "leased"]
                 /\ drainer' = [drainer EXCEPT !.at = "load"]
            ELSE /\ drainer' = [drainer EXCEPT !.rows = @ \ {j}]
                 /\ UNCHANGED drow
  /\ UNCHANGED <<loopVars, dinflight, busy, pooled, loadFailures, beat, gate, benches, tornRead>>

Taken(j) == drainer.at = "load" /\ j \in drainer.rows /\ drow[j] = "leased" /\ j \notin dinflight
NextRow(j) == drainer' = [drainer EXCEPT !.at = "rows", !.rows = @ \ {j}]

\* The model is resident or gets loaded; startInflight, then AssignJob.
DispatchRow(j) ==
  /\ Taken(j) /\ NextRow(j)
  /\ pooled' = TRUE
  /\ dinflight' = dinflight \cup {j} /\ busy' = busy \cup {j}
  /\ UNCHANGED <<drow, loadFailures, loopVars, beat, gate, benches, tornRead>>

\* A resident model that is still serving blocks the load.
releaseLeaseForRetry(j) ==
  /\ Taken(j) /\ NextRow(j)
  /\ busy # {}
  /\ drow' = [drow EXCEPT ![j] = "deferred"]
  /\ UNCHANGED <<dinflight, busy, pooled, loadFailures, loopVars, beat, gate, benches, tornRead>>

\* The load fails: the row goes back to the global queue, to be placed again.
LoadFails(j) ==
  /\ Taken(j) /\ NextRow(j)
  /\ loadFailures < MaxLoadFailures
  /\ loadFailures' = loadFailures + 1
  /\ drow' = [drow EXCEPT ![j] = "absent"] /\ Kick
  /\ UNCHANGED <<dinflight, busy, pooled, notify, loop, draining, beat, gate, benches, tornRead>>

------------------------------------------------------------------------------
(* The worker, the pump of a job and the benchmark.                        *)

WorkerFinishes(j) ==
  /\ j \in busy
  /\ busy' = busy \ {j}
  /\ UNCHANGED <<drow, dinflight, pooled, loadFailures, loopVars, beat, drainer, gate, benches, tornRead>>

Heartbeat ==
  /\ beat' = [available |-> IF pooled THEN Max({0, Pool - Cardinality(busy)}) ELSE 0,
              active |-> Cardinality(busy)]
  /\ tornRead' = (tornRead \/ (drainer.at = "capacity" /\ beat' # beat))
  /\ UNCHANGED <<loopVars, jobVars, drainer, gate, benches>>

\* The stream ended: the slot is free and the loop is told, the rows go.
PumpEnds(j) ==
  /\ j \in dinflight \ busy
  /\ dinflight' = dinflight \ {j} /\ drow' = [drow EXCEPT ![j] = "gone"]
  /\ Kick
  /\ UNCHANGED <<busy, pooled, loadFailures, notify, loop, draining, beat, drainer, gate, benches, tornRead>>

holdGate ==
  /\ ~gate /\ benches < MaxBenches
  /\ gate' = TRUE /\ benches' = benches + 1
  /\ UNCHANGED <<loopVars, jobVars, beat, drainer, tornRead>>

releaseGate ==
  /\ gate /\ dinflight = {}
  /\ gate' = FALSE /\ Kick
  /\ UNCHANGED <<notify, loop, draining, jobVars, beat, drainer, benches, tornRead>>

------------------------------------------------------------------------------
LoopRuns == Receive \/ drainDeviceQueues
DrainerRuns ==
  \/ benchGateHeld \/ CountInflight \/ ReadAvailable \/ PeekBatch \/ LeaseNext \/ finishDraining
  \/ \E j \in DJobs : DispatchRow(j) \/ releaseLeaseForRetry(j) \/ LoadFails(j)

DrainNext ==
  \/ LoopRuns \/ SlowTicker \/ DrainerRuns \/ Heartbeat \/ holdGate \/ releaseGate
  \/ \E j \in DJobs : PlaceRow(j) \/ DeferralEnds(j) \/ WorkerFinishes(j) \/ PumpEnds(j)

\* The goroutines run, jobs and benchmarks end, timers fire.  The ticker and
\* the heartbeat are not relied on.
DrainFairness ==
  /\ WF_drainVars(LoopRuns) /\ WF_drainVars(DrainerRuns) /\ WF_drainVars(releaseGate)
  /\ \A j \in DJobs : WF_drainVars(DeferralEnds(j)) /\ WF_drainVars(WorkerFinishes(j)) /\ WF_drainVars(PumpEnds(j))
DrainSpec == DrainInit /\ [][DrainNext]_drainVars /\ DrainFairness

------------------------------------------------------------------------------
(* Properties.                                                             *)

\* A burst stays within the worker's pool however old the heartbeat is: the
\* slots effectiveCapacity nets out are never given to two jobs.  The one
\* exception is a heartbeat that lands between its reads of AvailableCapacity
\* and ActiveJobs, which are taken under separate locks.
PoolRespected == tornRead \/ Cardinality(dinflight) <= Pool

\* No wake-up is lost: a row on the worker's queue is taken even if the slow
\* ticker never fires and no heartbeat ever arrives, whatever passes found the
\* queue being drained, the gate held or the pool full.
QueuedRowTaken == \A j \in DJobs : drow[j] = "queued" ~> drow[j] # "queued"
=============================================================================
