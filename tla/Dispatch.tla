------------------------------- MODULE Dispatch -------------------------------
(***************************************************************************)
(* The life of a job in internal/scheduler: from Submit through the global *)
(* queue, a worker queue, dispatchEnvelope and pumpWorkerChunks to its     *)
(* durable result, against everything that races it: the placers (Submit   *)
(* itself and the dispatcher goroutine), one queue drainer per worker, the *)
(* handler that drains a lost worker's queue, operators who cancel a job,  *)
(* evict a row or disable a worker's devices, and workers that come and    *)
(* go.  Each database transaction and each critical section is one step;   *)
(* a result is written together with the buffer operation next to it.      *)
(*                                                                         *)
(* Scoring, model residency and the heartbeat's capacity only choose among *)
(* the steps below and are nondeterministic here.  Database errors, crashes*)
(* of the process itself and lease expiry are not modelled.                *)
(***************************************************************************)
EXTENDS QueueTable, FiniteSetsExt

CONSTANTS
  Budget,          \* disconnectRequeueBudget
  LoadAttempts,    \* Config.EffectiveLoadAttempts
  StealThreshold,  \* stealThreshold
  PeekAllLimit,    \* peekAllLimit
  Cancels,         \* the jobs somebody tries to cancel, once each
  MaxConns,        \* bound: connections per worker
  Events,          \* which of "drop", "steal", "evict" and "toggle" happen
  MaxEvents        \* bound: how often they happen, together

ASSUME LimitAssumption ==
  /\ Budget \in Nat \ {0} /\ LoadAttempts \in Nat \ {0}
  /\ StealThreshold \in Nat /\ PeekAllLimit \in Nat \ {0}
ASSUME PlacerNames == "dispatcher" \notin Jobs
ASSUME EnvAssumption ==
  /\ Cancels \subseteq Jobs
  /\ {MaxConns, MaxEvents} \subseteq Nat

VARIABLES
  \* --- durable
  rows, born,   \* the queue table, and how many of its rows have been inserted
  result,       \* queue_results: the status of each job
  \* --- the scheduler's maps
  buffer,       \* the jobs with a replay buffer (jobBuffers)
  marker,       \* dispatchingByRequest: "none", "set", "cancel"
  inflight,     \* inflightByRequest: "none", "live", "cancelled"
  devQ,         \* the workers with a queue (devQueues)
  \* --- workers
  status,       \* "away", "online", or "offline": SetOffline, still in the fleet
  conn,         \* how many connections the worker has made
  connecting,   \* in the fleet, OnWorkerConnected not yet run
  disabled,     \* no enabled device
  \* --- goroutines
  place,        \* the submitters and the dispatcher, placing a row
  batch,        \* what each worker's drainer has peeked and not yet taken up,
  batchConn,    \*   and the connection it was started for
  task,         \* dispatchEnvelope, then pumpWorkerChunks, for a leased row
  drain,        \* drainWorkerQueue for a lost or disabled worker
  cancel,       \* CancelByRequestID or CancelQueuedRow
  evict,        \* EvictQueuedRowToGlobal: the row it has found, or 0
  \* --- history and bounds
  starts,       \* how often each job was handed to a worker
  events        \* how many Events have happened

tableVars  == <<rows, born>>
jobVars    == <<result, buffer, marker, inflight, starts>>
workerVars == <<status, conn, connecting, disabled>>
drainerVars == <<batch, batchConn>>
vars == <<tableVars, jobVars, devQ, workerVars, place, drainerVars, task, drain, cancel,
          evict, events>>

Terminal == {"done", "failed", "cancelled"}

NoTask  == [pc |-> "none", conn |-> 0, kind |-> "none", flag |-> FALSE]
NoPlace == [pc |-> "idle", row |-> 0, target |-> "global"]
NoDrain == [pc |-> "idle", all |-> FALSE, todo |-> {}, hot |-> {}, row |-> 0]

JobOf(i)      == rows[i].job
Online(w)     == status[w] = "online"
Alive(i)      == Online(rows[i].q) /\ conn[rows[i].q] = task[i].conn
Eligible      == {w \in devQ : Online(w) /\ w \notin disabled}
InDispatch    == {"lookup", "discard", "gate", "load", "resubmit", "start", "processing",
                  "abort", "assign", "unassign", "attach", "cleanup", "leave"}
TaskAt(w)     == {i \in Ids : rows[i].q = w /\ task[i].pc \in InDispatch}
isDraining(w) == batch[w] # {} \/ TaskAt(w) # {}
Event(e)      == e \in Events /\ events < MaxEvents /\ events' = events + 1
Next1         == born + 1
Room          == born < MaxRows

Init ==
  /\ rows = EmptyTable /\ born = 0
  /\ result = [j \in Jobs |-> "none"]
  /\ buffer = {}
  /\ marker = [j \in Jobs |-> "none"] /\ inflight = [j \in Jobs |-> "none"]
  /\ devQ = {} /\ connecting = {} /\ disabled = {}
  /\ status = [w \in Workers |-> "away"] /\ conn = [w \in Workers |-> 0]
  /\ place = [p \in Jobs \cup {"dispatcher"} |-> NoPlace]
  /\ batch = [w \in Workers |-> {}] /\ batchConn = [w \in Workers |-> 0]
  /\ task = [i \in Ids |-> NoTask]
  /\ drain = [w \in Workers |-> NoDrain]
  /\ cancel = [j \in Jobs |-> [pc |-> "idle", row |-> 0]]
  /\ evict = 0
  /\ starts = [j \in Jobs |-> 0]
  /\ events = 0

-----------------------------------------------------------------------------
(* Submit, and placement on a worker queue.                                *)

\* Submit: preflight, then the replay buffer and the pending result ...
SubmitCreate(j) ==
  /\ place[j].pc = "idle" /\ result[j] = "none"
  /\ \E w \in Workers : Online(w)
  /\ buffer' = buffer \cup {j}
  /\ result' = [result EXCEPT ![j] = "pending"]
  /\ place' = [place EXCEPT ![j].pc = "created"]
  /\ UNCHANGED <<tableVars, marker, inflight, starts, devQ, workerVars, drainerVars, task,
                 drain, cancel, evict, events>>

\* ... then the row on the global queue.
SubmitEnqueue(j) ==
  /\ place[j].pc = "created" /\ Room
  /\ rows' = Submit(rows, Next1, "global", j, 0, 0) /\ born' = Next1
  /\ place' = [place EXCEPT ![j].pc = "pick", ![j].row = Next1]
  /\ UNCHANGED <<jobVars, devQ, workerVars, drainerVars, task, drain, cancel, evict, events>>

\* placeOnWorkerQueue: pickWorkerQueue finds a target, or none.
SubmitPick(j) ==
  /\ place[j].pc = "pick"
  /\ \/ \E w \in Eligible : place' = [place EXCEPT ![j].pc = "commit", ![j].target = w]
     \/ place' = [place EXCEPT ![j] = [NoPlace EXCEPT !.pc = "done"]]
  /\ UNCHANGED <<tableVars, jobVars, devQ, workerVars, drainerVars, task, drain, cancel,
                 evict, events>>

\* drainGlobal, one peeked row with a target.  A row without one stays where it is.
DispatcherPick(i) ==
  /\ place["dispatcher"].pc = "idle"
  /\ i \in Peek(rows, "global")
  /\ \E w \in Eligible :
       place' = [place EXCEPT !["dispatcher"] = [pc |-> "commit", row |-> i, target |-> w]]
  /\ UNCHANGED <<tableVars, jobVars, devQ, workerVars, drainerVars, task, drain, cancel,
                 evict, events>>

\* Mutant of PlaceCommit: the row is leased without looking whether it still can be.
PlaceCommitBlind(p) ==
  /\ place[p].pc = "commit" /\ Room
  /\ rows' = LeaseAndSubmit(rows, place[p].row, Next1, place[p].target)
  /\ born' = Next1
  /\ place' = [place EXCEPT ![p] =
                 IF p = "dispatcher" THEN NoPlace ELSE [NoPlace EXCEPT !.pc = "done"]]
  /\ UNCHANGED <<jobVars, devQ, workerVars, drainerVars, task, drain, cancel, evict, events>>

\* LeaseAndSubmit to the target picked before, whose queue may be gone by now; the
\* row may have been taken by another placer or deleted.
PlaceCommit(p) ==
  /\ place[p].pc = "commit"
  /\ LET i == place[p].row
     IN  IF Visible(rows, i)
         THEN /\ Room
              /\ rows' = LeaseAndSubmit(rows, i, Next1, place[p].target)
              /\ born' = Next1
         ELSE UNCHANGED tableVars
  /\ place' = [place EXCEPT ![p] =
                 IF p = "dispatcher" THEN NoPlace ELSE [NoPlace EXCEPT !.pc = "done"]]
  /\ UNCHANGED <<jobVars, devQ, workerVars, drainerVars, task, drain, cancel, evict, events>>

\* drainGlobal: every eligible worker has concluded that it cannot run the model ...
Unbenchable(i) ==
  /\ place["dispatcher"].pc = "idle"
  /\ i \in Peek(rows, "global")
  /\ \E w \in Workers : Online(w) /\ w \notin disabled
  /\ place' = [place EXCEPT !["dispatcher"] = [NoPlace EXCEPT !.pc = "fail", !.row = i]]
  /\ UNCHANGED <<tableVars, jobVars, devQ, workerVars, drainerVars, task, drain, cancel,
                 evict, events>>

\* ... failUnbenchable: the failed result first, then the terminal frame into a
\* buffer that is created when it is absent ...
FailUnbenchable ==
  LET j == JobOf(place["dispatcher"].row)
  IN  /\ place["dispatcher"].pc = "fail"
      /\ result' = [result EXCEPT ![j] = "failed"]
      /\ buffer' = buffer \cup {j}
      /\ place' = [place EXCEPT !["dispatcher"].pc = "delete"]
      /\ UNCHANGED <<tableVars, marker, inflight, starts, devQ, workerVars, drainerVars,
                     task, drain, cancel, evict, events>>

\* ... then the row, whoever holds it now.
DeleteUnbenchable ==
  /\ place["dispatcher"].pc = "delete"
  /\ rows' = Delete(rows, {place["dispatcher"].row})
  /\ place' = [place EXCEPT !["dispatcher"] = NoPlace]
  /\ UNCHANGED <<born, jobVars, devQ, workerVars, drainerVars, task, drain, cancel, evict, events>>

\* stealWithinRuntime: an idle worker picks a row of a deep queue that nobody drains ...
StealPick(i, w) ==
  /\ place["dispatcher"].pc = "idle"
  /\ rows[i].q \in devQ /\ Online(rows[i].q) /\ i \in Peek(rows, rows[i].q)
  /\ w \in Eligible \ {rows[i].q} /\ Peek(rows, w) = {}
  /\ Cardinality(Peek(rows, rows[i].q)) > StealThreshold
  /\ ~isDraining(rows[i].q)
  /\ place' = [place EXCEPT !["dispatcher"] = [pc |-> "steal", row |-> i, target |-> w]]
  /\ Event("steal")
  /\ UNCHANGED <<tableVars, jobVars, devQ, workerVars, drainerVars, task, drain, cancel, evict>>

\* ... and MoveTo takes it, if it is still pending.
StealCommit ==
  LET i == place["dispatcher"].row
  IN  /\ place["dispatcher"].pc = "steal"
      /\ IF Visible(rows, i)
         THEN /\ Room
              /\ rows' = MoveTo(rows, i, Next1, place["dispatcher"].target) /\ born' = Next1
         ELSE UNCHANGED tableVars
      /\ place' = [place EXCEPT !["dispatcher"] = NoPlace]
      /\ UNCHANGED <<jobVars, devQ, workerVars, drainerVars, task, drain, cancel, evict, events>>

-----------------------------------------------------------------------------
(* A worker queue's drainer, and dispatchEnvelope.  The drainer takes up   *)
(* its rows one after the other.                                           *)

\* drainDeviceQueues / drainOneWorkerQueue: claim the drain slot, check the worker,
\* peek as many rows as its capacity admits.
DrainStart(w) ==
  /\ place["dispatcher"].pc = "idle"
  /\ w \in devQ /\ Online(w) /\ ~isDraining(w)
  /\ \E S \in SUBSET Peek(rows, w) \ {{}} : batch' = [batch EXCEPT ![w] = S]
  /\ batchConn' = [batchConn EXCEPT ![w] = conn[w]]
  /\ UNCHANGED <<tableVars, jobVars, devQ, workerVars, place, task, drain, cancel, evict, events>>

\* leaseAndDispatch: LeaseByID, or skip a row that another lease or delete has won.
LeaseAndDispatch(w, i) ==
  /\ i \in batch[w] /\ TaskAt(w) = {}
  /\ batch' = [batch EXCEPT ![w] = @ \ {i}]
  /\ IF Visible(rows, i)
     THEN /\ rows' = LeaseByID(rows, i)
          /\ task' = [task EXCEPT ![i] = [NoTask EXCEPT !.pc = "lookup", !.conn = batchConn[w]]]
     ELSE UNCHANGED <<rows, task>>
  /\ UNCHANGED <<born, jobVars, devQ, workerVars, place, batchConn, drain, cancel, evict, events>>

\* Everything but the tables, the jobs and the tasks.
Others == <<devQ, workerVars, place, drainerVars, drain, cancel, evict, events>>

Goto(i, pc) == task' = [task EXCEPT ![i].pc = pc]
Finish(i)   == task' = [task EXCEPT ![i] = NoTask]
Settle(j, r) == result' = [result EXCEPT ![j] = r]
clearDispatching(j) == marker' = [marker EXCEPT ![j] = "none"]

\* The replay buffer is looked up.  Without one, an answered job's rows are dropped
\* and a live job gets a fresh buffer.
Lookup(i) ==
  LET j == JobOf(i)
  IN  /\ task[i].pc = "lookup"
      /\ IF j \notin buffer /\ result[j] \in Terminal
         THEN Goto(i, "discard") /\ UNCHANGED buffer
         ELSE Goto(i, "gate") /\ buffer' = buffer \cup {j}
      /\ UNCHANGED <<tableVars, result, marker, inflight, starts, Others>>

\* The device-set gate refuses: no benchmark row any more, an active blocker or a
\* failed eviction.  releaseLeaseForRetry.
GateBounce(i) ==
  /\ task[i].pc = "gate"
  /\ rows' = Defer(rows, i)
  /\ Finish(i)
  /\ UNCHANGED <<born, jobVars, Others>>

\* The gate admits the job: markDispatching.
GatePass(i) ==
  /\ task[i].pc = "gate" /\ rows[i].q \notin disabled
  /\ marker' = [marker EXCEPT ![JobOf(i)] = "set"]
  /\ Goto(i, "load")
  /\ UNCHANGED <<tableVars, result, buffer, inflight, starts, Others>>

\* The model is warm, or LoadModel succeeds.
LoadDone(i) ==
  /\ task[i].pc = "load"
  /\ Goto(i, "start")
  /\ UNCHANGED <<tableVars, jobVars, Others>>

\* LoadModel fails.  retryAfterLoadFailure deletes both rows while attempts are
\* left; otherwise the job fails.
LoadFails(i) ==
  /\ task[i].pc = "load"
  /\ IF rows[i].attempts + 1 < LoadAttempts
     THEN rows' = DeleteBoth(rows, i) /\ Goto(i, "resubmit") /\ UNCHANGED result
     ELSE Settle(JobOf(i), "failed") /\ Goto(i, "cleanup") /\ UNCHANGED rows
  /\ UNCHANGED <<born, buffer, marker, inflight, starts, Others>>

\* retryAfterLoadFailure: the envelope returns to global with one attempt more.
LoadResubmit(i) ==
  /\ task[i].pc = "resubmit" /\ Room
  /\ rows' = Submit(rows, Next1, "global", JobOf(i), 0, rows[i].attempts + 1) /\ born' = Next1
  /\ Goto(i, "leave")
  /\ UNCHANGED <<jobVars, Others>>

\* startInflight consumes the marker: a cancel that landed during the load wins,
\* otherwise the job is in flight.
StartInflight(i) ==
  LET j == JobOf(i)
  IN  /\ task[i].pc = "start"
      /\ IF marker[j] = "cancel"
         THEN Goto(i, "abort") /\ UNCHANGED <<marker, inflight>>
         ELSE /\ clearDispatching(j)
              /\ inflight' = [inflight EXCEPT ![j] = "live"]
              /\ Goto(i, "processing")
      /\ UNCHANGED <<tableVars, result, buffer, starts, Others>>

\* The cancelled job is answered instead of being assigned.
AbortDispatch(i) ==
  /\ task[i].pc = "abort"
  /\ Settle(JobOf(i), "cancelled")
  /\ Goto(i, "cleanup")
  /\ UNCHANGED <<tableVars, buffer, marker, inflight, starts, Others>>

\* Mutant of ProcessingResult: the status is written over any other.
ProcessingResultBlind(i) ==
  /\ task[i].pc = "processing"
  /\ Settle(JobOf(i), "processing")
  /\ Goto(i, "assign")
  /\ UNCHANGED <<tableVars, buffer, marker, inflight, starts, Others>>

\* processingResult: only a pending result moves.
ProcessingResult(i) ==
  /\ task[i].pc = "processing"
  /\ result' = [result EXCEPT ![JobOf(i)] = IF @ = "pending" THEN "processing" ELSE @]
  /\ Goto(i, "assign")
  /\ UNCHANGED <<tableVars, buffer, marker, inflight, starts, Others>>

\* AssignJob reaches the worker, on the connection the drainer was started for.
AssignJob(i) ==
  /\ task[i].pc = "assign" /\ Alive(i)
  /\ starts' = [starts EXCEPT ![JobOf(i)] = @ + 1]
  /\ Goto(i, "attach")
  /\ UNCHANGED <<tableVars, result, buffer, marker, inflight, Others>>

\* AssignJob fails: the failed result ...
AssignFails(i) ==
  /\ task[i].pc = "assign" /\ ~Alive(i)
  /\ Settle(JobOf(i), "failed")
  /\ Goto(i, "unassign")
  /\ UNCHANGED <<tableVars, buffer, marker, inflight, starts, Others>>

\* Mutant of Unassign: the in-flight record is kept.
UnassignLeak(i) ==
  /\ task[i].pc = "unassign"
  /\ Goto(i, "cleanup")
  /\ UNCHANGED <<tableVars, jobVars, Others>>

\* ... then finishInflight.
Unassign(i) ==
  /\ task[i].pc = "unassign"
  /\ inflight' = [inflight EXCEPT ![JobOf(i)] = "none"]
  /\ Goto(i, "cleanup")
  /\ UNCHANGED <<tableVars, result, buffer, marker, starts, Others>>

\* attachWorkerJobID, the pump is started and dispatchEnvelope returns.
StartPump(i) ==
  /\ task[i].pc = "attach"
  /\ clearDispatching(JobOf(i))
  /\ Goto(i, "stream")
  /\ UNCHANGED <<tableVars, result, buffer, inflight, starts, Others>>

\* cleanupRows, on every path that ends before the stream starts.
CleanupRows(i) ==
  /\ task[i].pc \in {"discard", "cleanup"}
  /\ rows' = DeleteBoth(rows, i)
  /\ IF task[i].pc = "discard" THEN Finish(i) ELSE Goto(i, "leave")
  /\ UNCHANGED <<born, jobVars, Others>>

\* The deferred clearDispatching, for a marker that another dispatch of the job may
\* have set again.
LeaveDispatch(i) ==
  /\ task[i].pc = "leave"
  /\ clearDispatching(JobOf(i))
  /\ Finish(i)
  /\ UNCHANGED <<tableVars, result, buffer, inflight, starts, Others>>

-----------------------------------------------------------------------------
(* pumpWorkerChunks.                                                       *)

\* workerCh ends: with a terminal frame, or because SetOffline closed it.
StreamEnds(i, kind) ==
  /\ task[i].pc = "stream"
  /\ IF kind = "lost" THEN ~Alive(i) ELSE Alive(i)
  /\ task' = [task EXCEPT ![i].pc = "ended", ![i].kind = kind]
  /\ UNCHANGED <<tableVars, jobVars, Others>>

\* isInflightCancelled is read ...
ReadCancel(i) ==
  /\ task[i].pc = "ended"
  /\ task' = [task EXCEPT ![i].pc = "release", ![i].flag = (inflight[JobOf(i)] = "cancelled")]
  /\ UNCHANGED <<tableVars, jobVars, Others>>

\* ... before finishInflight removes the record, whoever wrote it.
FinishInflight(i) ==
  /\ task[i].pc = "release"
  /\ inflight' = [inflight EXCEPT ![JobOf(i)] = "none"]
  /\ Goto(i, "settle")
  /\ UNCHANGED <<tableVars, result, buffer, marker, starts, Others>>

\* A terminal frame, or a cancelled job's lost stream: the durable result.  A stream
\* lost by a worker that a late heartbeat has put back online fails the job.
PumpSettle(i) ==
  /\ task[i].pc = "settle"
  /\ Settle(JobOf(i), CASE task[i].kind = "done" -> "done"
                        [] task[i].kind # "done" /\ task[i].flag -> "cancelled"
                        [] OTHER -> "failed")
  /\ Goto(i, "delete")
  /\ UNCHANGED <<tableVars, buffer, marker, inflight, starts, Others>>

\* A lost stream of a job nobody cancelled is left to the disconnect drain.
PumpLeave(i) ==
  /\ task[i].pc = "settle" /\ task[i].kind = "lost" /\ ~task[i].flag
  /\ Finish(i)
  /\ UNCHANGED <<tableVars, jobVars, Others>>

\* deleteBothRows.
DeleteBothRows(i) ==
  /\ task[i].pc = "delete"
  /\ rows' = DeleteBoth(rows, i)
  /\ Finish(i)
  /\ UNCHANGED <<born, jobVars, Others>>

\* A deferred row becomes visible again after pendingRetryInterval.
DeferEnds(i) ==
  /\ rows[i].lease = "deferred"
  /\ rows' = [rows EXCEPT ![i].lease = "free"]
  /\ UNCHANGED <<born, jobVars, task, Others>>

-----------------------------------------------------------------------------
(* Workers come and go.                                                    *)

\* Everything but the workers and the queues they have.
Sched == <<tableVars, jobVars, place, drainerVars, task, cancel, evict>>

\* Fleet.Register: in the fleet, then the change callback.
Connect(w) ==
  /\ status[w] = "away" /\ conn[w] < MaxConns
  /\ status' = [status EXCEPT ![w] = "online"]
  /\ conn' = [conn EXCEPT ![w] = @ + 1]
  /\ connecting' = connecting \cup {w}
  /\ UNCHANGED <<Sched, devQ, disabled, drain, events>>

\* OnWorkerConnected: a queue, unless the worker has one or has no enabled device.
OnWorkerConnected(w) ==
  /\ w \in connecting
  /\ connecting' = connecting \ {w}
  /\ devQ' = IF w \in disabled THEN devQ ELSE devQ \cup {w}
  /\ UNCHANGED <<Sched, status, conn, disabled, drain, events>>

\* SetOffline: the stream has ended or the heartbeat is stale.
SetOffline(w) ==
  /\ Online(w) /\ w \notin connecting
  /\ status' = [status EXCEPT ![w] = "offline"]
  /\ Event("drop")
  /\ UNCHANGED <<Sched, devQ, conn, connecting, disabled, drain>>

\* Fleet.Deregister, whose callback is OnWorkerDisconnected: removeWorkerQueue
\* drains the queue the worker has.
Deregister(w) ==
  /\ status[w] = "offline" /\ drain[w].pc = "idle"
  /\ status' = [status EXCEPT ![w] = "away"]
  /\ drain' = [drain EXCEPT ![w] =
                 IF w \in devQ THEN [NoDrain EXCEPT !.pc = "peek", !.all = TRUE] ELSE NoDrain]
  /\ UNCHANGED <<Sched, devQ, conn, connecting, disabled, events>>

\* The last enabled device is disabled: OnWorkerDevicesChanged drains what is pending.
DisableDevices(w) ==
  /\ Online(w) /\ w \notin disabled /\ w \in devQ /\ drain[w].pc = "idle"
  /\ disabled' = disabled \cup {w}
  /\ Event("toggle")
  /\ drain' = [drain EXCEPT ![w] = [NoDrain EXCEPT !.pc = "peek"]]
  /\ UNCHANGED <<Sched, devQ, status, conn, connecting>>

\* A device is enabled again: OnWorkerConnected, and nothing to drain.
EnableDevices(w) ==
  /\ Online(w) /\ w \in disabled /\ drain[w].pc = "idle"
  /\ disabled' = disabled \ {w}
  /\ devQ' = devQ \cup {w}
  /\ UNCHANGED <<Sched, status, conn, connecting, drain, events>>

-----------------------------------------------------------------------------
(* drainWorkerQueue, for a lost worker (all) or a disabled one.            *)

DrainOthers == <<workerVars, place, drainerVars, task, cancel, evict, events>>
InDrain(w)  == JobOf(drain[w].row)

\* One row done.
DrainNext(w) ==
  drain' = [drain EXCEPT ![w].pc = "loop", ![w].todo = @ \ {drain[w].row}, ![w].row = 0]

\* PeekAll: the rows, and which of them are leased.
DrainPeek(w) ==
  /\ drain[w].pc = "peek"
  /\ \E S \in SUBSET PeekAll(rows, w) :
       /\ Cardinality(S) = Min({PeekAllLimit, Cardinality(PeekAll(rows, w))})
       /\ LET hot == {i \in S : Hidden(rows, i)}
          IN  drain' = [drain EXCEPT ![w].pc = "loop", ![w].hot = hot,
                                     ![w].todo = IF drain[w].all THEN S ELSE S \ hot]
  /\ UNCHANGED <<tableVars, jobVars, devQ, DrainOthers>>

\* A cancelled job and an answered one are dropped, every other one is acted on.
DrainCheck(w, i) ==
  LET j == JobOf(i)
  IN  /\ drain[w].pc = "loop" /\ i \in drain[w].todo
      /\ IF inflight[j] = "cancelled" THEN Settle(j, "cancelled") ELSE UNCHANGED result
      /\ drain' = [drain EXCEPT ![w].row = i,
                     ![w].pc = IF inflight[j] = "cancelled" \/ result[j] \in Terminal
                               THEN "drop" ELSE "act"]
      /\ UNCHANGED <<tableVars, buffer, marker, inflight, starts, devQ, DrainOthers>>

DrainDrop(w) ==
  /\ drain[w].pc = "drop"
  /\ rows' = DeleteBoth(rows, drain[w].row)
  /\ DrainNext(w)
  /\ UNCHANGED <<born, jobVars, devQ, DrainOthers>>

\* Mutant of DrainRelease: the anchor is deleted with the row.
DrainReleaseBoth(w) ==
  /\ drain[w].pc = "act" /\ drain[w].row \notin drain[w].hot
  /\ rows' = DeleteBoth(rows, drain[w].row)
  /\ DrainNext(w)
  /\ UNCHANGED <<born, jobVars, devQ, DrainOthers>>

\* A row that was pending when it was peeked gives its anchor back to global.
DrainRelease(w) ==
  /\ drain[w].pc = "act" /\ drain[w].row \notin drain[w].hot
  /\ rows' = DeleteAndReleaseLease(rows, drain[w].row)
  /\ DrainNext(w)
  /\ UNCHANGED <<born, jobVars, devQ, DrainOthers>>

\* A running job whose attempts are used up fails ...
DrainExhausted(w) ==
  /\ drain[w].pc = "act" /\ drain[w].row \in drain[w].hot
  /\ rows[drain[w].row].attempts + 1 >= Budget
  /\ Settle(InDrain(w), "failed")
  /\ drain' = [drain EXCEPT ![w].pc = "drop"]
  /\ UNCHANGED <<tableVars, buffer, marker, inflight, starts, devQ, DrainOthers>>

\* ... any other one loses both rows ...
DrainRequeue(w) ==
  /\ drain[w].pc = "act" /\ drain[w].row \in drain[w].hot
  /\ rows[drain[w].row].attempts + 1 < Budget
  /\ rows' = DeleteBoth(rows, drain[w].row)
  /\ drain' = [drain EXCEPT ![w].pc = "resubmit"]
  /\ UNCHANGED <<born, jobVars, devQ, DrainOthers>>

\* Mutant of DrainResubmit: the attempt is not charged.
DrainResubmitFree(w) ==
  /\ drain[w].pc = "resubmit" /\ Room
  /\ rows' = Submit(rows, Next1, "global", InDrain(w), 0, rows[drain[w].row].attempts)
  /\ born' = Next1
  /\ drain' = [drain EXCEPT ![w].pc = "revert"]
  /\ UNCHANGED <<jobVars, devQ, DrainOthers>>

\* ... and comes back to global as a new row with one attempt more.
DrainResubmit(w) ==
  /\ drain[w].pc = "resubmit" /\ Room
  /\ rows' = Submit(rows, Next1, "global", InDrain(w), 0, rows[drain[w].row].attempts + 1)
  /\ born' = Next1
  /\ drain' = [drain EXCEPT ![w].pc = "revert"]
  /\ UNCHANGED <<jobVars, devQ, DrainOthers>>

\* pendingResult: only a processing result is reverted.
DrainRevert(w) ==
  /\ drain[w].pc = "revert"
  /\ result' = [result EXCEPT ![InDrain(w)] = IF @ = "processing" THEN "pending" ELSE @]
  /\ DrainNext(w)
  /\ UNCHANGED <<tableVars, buffer, marker, inflight, starts, devQ, DrainOthers>>

\* removeWorkerQueue: the lost worker's queue is closed.
DrainEnd(w) ==
  /\ drain[w].pc = "loop" /\ drain[w].todo = {}
  /\ devQ' = IF drain[w].all THEN devQ \ {w} ELSE devQ
  /\ drain' = [drain EXCEPT ![w] = NoDrain]
  /\ UNCHANGED <<tableVars, jobVars, DrainOthers>>

-----------------------------------------------------------------------------
(* Operators.                                                              *)

CancelOthers == <<devQ, workerVars, place, drainerVars, task, drain, evict, events>>
CancelGoto(j, pc, i) == cancel' = [cancel EXCEPT ![j] = [pc |-> pc, row |-> i]]

\* CancelByRequestID: the caller has the request id once Submit has returned.
CancelStart(j) ==
  /\ j \in Cancels /\ cancel[j].pc = "idle" /\ place[j].pc = "done"
  /\ CancelGoto(j, "scanGlobal", 0)
  /\ UNCHANGED <<tableVars, jobVars, CancelOthers>>

\* CancelQueuedRow, for a row of the queue view.
CancelRow(j, i) ==
  /\ j \in Cancels /\ cancel[j].pc = "idle"
  /\ Live(rows, i) /\ JobOf(i) = j /\ rows[i].q \in devQ \cup {"global"}
  /\ CancelGoto(j, "confirm", i)
  /\ UNCHANGED <<tableVars, jobVars, CancelOthers>>

\* findPendingGlobalRow, findPendingWorkerRow.
CancelScan(j, from, queues, missed) ==
  LET found == {i \in Ids : JobOf(i) = j /\ \E q \in queues : i \in Peek(rows, q)}
  IN  /\ cancel[j].pc = from
      /\ IF found = {} THEN CancelGoto(j, missed, 0)
                       ELSE \E i \in found : CancelGoto(j, "confirm", i)
      /\ UNCHANGED <<tableVars, jobVars, CancelOthers>>

CancelScanGlobal(j)  == CancelScan(j, "scanGlobal", {"global"}, "scanWorkers")
CancelScanWorkers(j) == CancelScan(j, "scanWorkers", devQ, "marker")

\* cancelGlobal and cancelWorkerQueue: findUnleasedRow again, or ErrRowInFlight ...
CancelConfirm(j) ==
  /\ cancel[j].pc = "confirm"
  /\ IF Visible(rows, cancel[j].row) THEN CancelGoto(j, "delete", cancel[j].row)
                                     ELSE CancelGoto(j, "conflict", 0)
  /\ UNCHANGED <<tableVars, jobVars, CancelOthers>>

\* ... then the row and its anchor, whoever has leased them since ...
CancelDelete(j) ==
  /\ cancel[j].pc = "delete"
  /\ rows' = DeleteBoth(rows, cancel[j].row)
  /\ CancelGoto(j, "settle", 0)
  /\ UNCHANGED <<born, jobVars, CancelOthers>>

\* ... then failResult and dropJob.
CancelSettle(j) ==
  /\ cancel[j].pc = "settle"
  /\ Settle(j, "cancelled")
  /\ buffer' = buffer \ {j}
  /\ CancelGoto(j, "ok", 0)
  /\ UNCHANGED <<tableVars, marker, inflight, starts, CancelOthers>>

\* requestCancelDuringDispatch.
CancelMarker(j) ==
  /\ cancel[j].pc = "marker"
  /\ IF marker[j] = "none"
     THEN CancelGoto(j, "running", 0) /\ UNCHANGED marker
     ELSE CancelGoto(j, "ok", 0) /\ marker' = [marker EXCEPT ![j] = "cancel"]
  /\ UNCHANGED <<tableVars, result, buffer, inflight, starts, CancelOthers>>

\* CancelRunningJob: markInflightCancelled, or ErrNotInflight.  The cancel sent to
\* the worker ends the stream, which it may do anyway (StreamEnds).
CancelRunning(j) ==
  /\ cancel[j].pc = "running"
  /\ IF inflight[j] = "none"
     THEN CancelGoto(j, "notInflight", 0) /\ UNCHANGED inflight
     ELSE CancelGoto(j, "ok", 0) /\ inflight' = [inflight EXCEPT ![j] = "cancelled"]
  /\ UNCHANGED <<tableVars, result, buffer, marker, starts, CancelOthers>>

EvictOthers == <<devQ, workerVars, place, drainerVars, task, drain, cancel>>

\* EvictQueuedRowToGlobal: findUnleasedRow ...
EvictFind(i) ==
  /\ evict = 0
  /\ rows[i].q \in devQ /\ Visible(rows, i)
  /\ evict' = i
  /\ Event("evict")
  /\ UNCHANGED <<tableVars, jobVars, EvictOthers>>

\* ... then DeleteAndReleaseLease, whoever has leased the row since.
EvictCommit ==
  /\ evict # 0
  /\ rows' = DeleteAndReleaseLease(rows, evict)
  /\ evict' = 0
  /\ UNCHANGED <<born, jobVars, EvictOthers, events>>

-----------------------------------------------------------------------------
Placement ==
  \/ \E j \in Jobs : SubmitCreate(j) \/ SubmitEnqueue(j) \/ SubmitPick(j)
  \/ \E p \in Jobs \cup {"dispatcher"} : PlaceCommit(p)
  \/ \E i \in Ids : DispatcherPick(i) \/ Unbenchable(i)
  \/ FailUnbenchable \/ DeleteUnbenchable
  \/ \E i \in Ids, w \in Workers : StealPick(i, w)
  \/ StealCommit

Run(i) ==
  \/ Lookup(i) \/ GateBounce(i) \/ GatePass(i) \/ LoadDone(i) \/ LoadFails(i)
  \/ LoadResubmit(i) \/ StartInflight(i) \/ AbortDispatch(i) \/ ProcessingResult(i)
  \/ AssignJob(i) \/ AssignFails(i) \/ Unassign(i) \/ StartPump(i)
  \/ CleanupRows(i) \/ LeaveDispatch(i) \/ ReadCancel(i) \/ FinishInflight(i) \/ PumpSettle(i) \/ PumpLeave(i)
  \/ DeleteBothRows(i) \/ DeferEnds(i)
  \/ \E kind \in {"done", "error", "lost"} : StreamEnds(i, kind)

DrainQueue(w) ==
  \/ DrainPeek(w) \/ DrainDrop(w) \/ DrainRelease(w) \/ DrainExhausted(w)
  \/ DrainRequeue(w) \/ DrainResubmit(w) \/ DrainRevert(w) \/ DrainEnd(w)
  \/ \E i \in Ids : DrainCheck(w, i)

Worker(w) ==
  \/ Connect(w) \/ OnWorkerConnected(w) \/ SetOffline(w) \/ Deregister(w)
  \/ DisableDevices(w) \/ EnableDevices(w)

Cancel(j) ==
  \/ CancelStart(j) \/ CancelScanGlobal(j) \/ CancelScanWorkers(j) \/ CancelConfirm(j)
  \/ CancelDelete(j) \/ CancelSettle(j) \/ CancelMarker(j) \/ CancelRunning(j)
  \/ \E i \in Ids : CancelRow(j, i)

Next ==
  \/ Placement
  \/ \E w \in Workers : DrainStart(w) \/ DrainQueue(w) \/ Worker(w)
  \/ \E w \in Workers, i \in Ids : LeaseAndDispatch(w, i)
  \/ \E i \in Ids : Run(i) \/ EvictFind(i)
  \/ EvictCommit
  \/ \E j \in Jobs : Cancel(j)

Spec == Init /\ [][Next]_vars

\* Every goroutine that can step does.  The dispatcher loop comes back to every
\* queue and to every row on global (its tickers see to that), a blocker of the
\* device-set gate goes idle again and again, and a worker ends every stream.
\* Nobody is obliged to submit, connect, disconnect, cancel, evict or toggle.
Fairness ==
  /\ \A j \in Jobs :
       /\ WF_vars(SubmitEnqueue(j) \/ SubmitPick(j) \/ PlaceCommit(j))
       /\ WF_vars(Cancel(j) /\ cancel[j].pc # "idle")
  /\ WF_vars(PlaceCommit("dispatcher") \/ FailUnbenchable \/ DeleteUnbenchable \/ StealCommit)
  /\ SF_vars(\E i \in Ids : DispatcherPick(i) \/ Unbenchable(i))
  /\ \A i \in Ids : WF_vars(Run(i)) /\ SF_vars(GatePass(i))
  /\ \A w \in Workers :
       /\ SF_vars(DrainStart(w))
       /\ WF_vars(\E i \in Ids : LeaseAndDispatch(w, i))
       /\ WF_vars(OnWorkerConnected(w) \/ Deregister(w) \/ DrainQueue(w))
  /\ WF_vars(EvictCommit)

FairSpec == Spec /\ Fairness

-----------------------------------------------------------------------------
(* Properties.                                                             *)

TaskPcs == InDispatch \cup {"none", "stream", "ended", "release", "settle", "delete"}

\* Type correctness.
TypeOK ==
  /\ rows \in [Ids -> Row] /\ born \in 0..MaxRows
  /\ \A i \in Ids : (i > born) <=> (rows[i].lease = "unborn")
  /\ result \in [Jobs -> Terminal \cup {"none", "pending", "processing"}]
  /\ buffer \subseteq Jobs
  /\ marker \in [Jobs -> {"none", "set", "cancel"}]
  /\ inflight \in [Jobs -> {"none", "live", "cancelled"}]
  /\ devQ \subseteq Workers /\ connecting \subseteq Workers /\ disabled \subseteq Workers
  /\ status \in [Workers -> {"away", "online", "offline"}]
  /\ conn \in [Workers -> 0..MaxConns]
  /\ place \in [Jobs \cup {"dispatcher"} ->
                  [pc : {"idle", "created", "pick", "commit", "done", "fail", "delete", "steal"},
                   row : 0..MaxRows, target : Queues]]
  /\ batch \in [Workers -> SUBSET Ids] /\ batchConn \in [Workers -> 0..MaxConns]
  /\ task \in [Ids -> [pc : TaskPcs, conn : 0..MaxConns,
                       kind : {"none", "done", "error", "lost"}, flag : BOOLEAN]]
  /\ drain \in [Workers -> [pc : {"idle", "peek", "loop", "act", "drop", "resubmit", "revert"},
                            all : BOOLEAN, todo : SUBSET Ids, hot : SUBSET Ids,
                            row : 0..MaxRows]]
  /\ cancel \in [Jobs -> [pc : {"idle", "scanGlobal", "scanWorkers", "confirm", "delete",
                                "settle", "marker", "running", "ok", "conflict", "notInflight"},
                          row : 0..MaxRows]]
  /\ evict \in 0..MaxRows
  /\ starts \in [Jobs -> Nat]
  /\ events \in Nat

\* Between deleting a job's rows and submitting it again or answering it, some
\* goroutine still owes the job that step.
Owed(j) ==
  \/ place[j].pc = "created"
  \/ cancel[j].pc = "settle"
  \/ \E i \in Ids : task[i].pc = "resubmit" /\ JobOf(i) = j
  \/ \E w \in Workers : drain[w].pc = "resubmit" /\ InDrain(w) = j

\* A job without an answer is never lost: its anchor is on the global queue (visible,
\* or leased while the job is placed or running), whatever cancellations, evictions,
\* drains, steals and failed loads race each other.  (Submit's "recovery anchor".)
NoLostJob == \A j \in Jobs :
  result[j] \in {"pending", "processing"} =>
    Owed(j) \/ \E i \in Ids : rows[i].q = "global" /\ JobOf(i) = j /\ Live(rows, i)

\* From startInflight to finishInflight.
InflightPcs == {"processing", "assign", "unassign", "attach", "stream", "ended", "release"}

\* The in-flight and dispatching maps hold no entry that no goroutine will remove:
\* an entry left behind would take a slot of the worker's capacity for good.
NoLeakedEntry == \A j \in Jobs :
  /\ inflight[j] # "none" =>
       \E i \in Ids : JobOf(i) = j /\ task[i].pc \in InflightPcs
  /\ marker[j] # "none" =>
       \E i \in Ids : JobOf(i) = j /\ task[i].pc \in InDispatch \ {"lookup", "discard", "gate"}

\* A job runs on at most one worker at a time.
NoDuplicateRun == \A i, k \in Ids :
  (/\ {task[i].pc, task[k].pc} \subseteq {"attach", "stream"}
   /\ Alive(i) /\ Alive(k)
   /\ JobOf(i) = JobOf(k)) => i = k

\* Every hand-out of a job after its first one is charged to its envelope, and the
\* charges stay below the budget: a job that takes its workers down with it is
\* handed out Budget times at most.
DispatchBudget == \A j \in Jobs :
  LET charges == {0} \cup {rows[i].attempts : i \in {k \in Ids : JobOf(k) = j}}
  IN  /\ \A n \in charges : n < Budget
      /\ starts[j] <= 1 + Max(charges)

\* An answer stays: no racing status write makes an answered job look live again.
AnswerStays == [][\A j \in Jobs : result[j] \in Terminal => result'[j] \in Terminal]_vars

\* An answered job is not placed on the global queue again by a drain.
AnsweredNotRequeued == [][\A w \in Workers :
  (drain[w].pc = "resubmit" /\ drain'[w].pc = "revert") => result[InDrain(w)] \notin Terminal]_vars

\* A job whose cancellation was refused as not in flight is not handed to a worker later.
RefusedCancelIsOver == [][\A j \in Jobs :
  cancel[j].pc = "notInflight" => starts'[j] = starts[j]]_vars

\* Every submitted job is answered.
JobAnswered == \A j \in Jobs : result[j] = "pending" ~> result[j] \in Terminal
===============================================================================
