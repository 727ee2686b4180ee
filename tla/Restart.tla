-------------------------------- MODULE Restart --------------------------------
(***************************************************************************)
(* Crash and restart of the scheduler.  The database survives: results,    *)
(* the global row (anchor) and the worker row of each job, and the         *)
(* worker_queue_state table.  Everything else is memory.  A handler is     *)
(* split where a crash between two of its durable writes leaves a trace;   *)
(* interleavings inside one process life are the subject of Dispatch.      *)
(*                                                                         *)
(* goqite delivers a row once, so a row whose lease ran out is spent: it   *)
(* is never leased or stolen again.  Start fails the spent rows it finds   *)
(* (sweeper.go), reattaches the persisted queues, and the dispatch pass    *)
(* drains a reattached queue whose worker stays away (sweepOrphanQueues).  *)
(***************************************************************************)
EXTENDS Naturals, FiniteSets

CONSTANTS RJobs, RWorkers,
          Steady,       \* the workers that always come back and never leave
          FastRestart,  \* the process may be back before a lease has run out
          Budget,       \* disconnectRequeueBudget
          MaxCrashes, MaxLosses  \* bounds: crashes, disconnects

NoQueue == "no queue"

ASSUME RestartAssumption ==
  /\ Steady \subseteq RWorkers /\ FastRestart \in BOOLEAN
  /\ Budget \in Nat \ {0} /\ MaxCrashes \in Nat /\ MaxLosses \in Nat
  /\ NoQueue \notin RWorkers

VARIABLES
  mode,      \* the process: "down", "reap", "recover", "up"
  result,    \* result[j]: "none", "pending", "processing", "done", "error"
  anchor,    \* anchor[j]: "absent", "visible" or "leased" on the global queue
  wrow,      \* wrow[j]: [q, st], st "pending", "leased" or "spent"
  attempts,  \* the attempts in the job's envelope
  qstate,    \* the workers with a worker_queue_state row
  devQ,      \* memory: devQueues
  present,   \* memory: the fleet
  joining,   \* memory: OnWorkerConnected between devQueues and the upsert
  orphan,    \* memory: orphanSince
  removing,  \* memory: removeWorkerQueue: worker -> "no", "drain", "state"
  todo,      \* memory: the rows of the drain's one PeekAll, not visited yet
  owner,     \* memory: the goroutine that holds the job
  reaping,   \* memory: the rows the reap has listed and not finished
  accepted,  \* history: Submit has returned to the caller
  torn,      \* history: jobs a crash hit between the two writes of their requeue
  unborn,    \* history: workers a crash hit between the creation of their queue and
             \* its first registration, and not registered since
  stripped,  \* history: workers whose queue state a removal deleted after they had
             \* come back, and not registered since
  overlooked,\* history: jobs with a spent row on such a queue when a start listed them
  crashes, losses

durable  == <<result, anchor, wrow, attempts, qstate>>
memory   == <<devQ, present, joining, orphan, removing, todo, owner, reaping>>
flaws    == <<torn, unborn, stripped, overlooked>>
restVars == <<mode, durable, memory, accepted, flaws, crashes, losses>>

Answered(j) == result[j] \in {"done", "error"}
NoRow == [q |-> NoQueue, st |-> "pending"]

EmptyMemory ==
  /\ devQ' = {} /\ present' = {} /\ joining' = {} /\ orphan' = {} /\ reaping' = {}
  /\ removing' = [w \in RWorkers |-> "no"] /\ todo' = [w \in RWorkers |-> {}]
  /\ owner' = [j \in RJobs |-> "none"]

RestInit ==
  /\ mode = "up" /\ qstate = {} /\ devQ = {} /\ present = {} /\ joining = {} /\ orphan = {} /\ reaping = {}
  /\ result = [j \in RJobs |-> "none"] /\ anchor = [j \in RJobs |-> "absent"]
  /\ wrow = [j \in RJobs |-> NoRow] /\ attempts = [j \in RJobs |-> 0]
  /\ removing = [w \in RWorkers |-> "no"] /\ todo = [w \in RWorkers |-> {}]
  /\ owner = [j \in RJobs |-> "none"]
  /\ accepted = {} /\ torn = {} /\ unborn = {} /\ stripped = {} /\ overlooked = {} /\ crashes = 0 /\ losses = 0

-----------------------------------------------------------------------------
(* The durable statements.                                                  *)

DeleteRows(j) == anchor' = [anchor EXCEPT ![j] = "absent"] /\ wrow' = [wrow EXCEPT ![j] = NoRow]
SetResult(j, r) == result' = [result EXCEPT ![j] = r]
SetOwner(j, o)  == owner' = [owner EXCEPT ![j] = o]

-----------------------------------------------------------------------------
(* The process dies, at any point of its life or of its start.              *)

Crash ==
  /\ mode # "down" /\ crashes < MaxCrashes
  /\ mode' = "down" /\ crashes' = crashes + 1 /\ EmptyMemory
  /\ torn' = torn \cup {j \in RJobs : owner[j] = "requeue"}
  /\ unborn' = unborn \cup (joining \ qstate)
  /\ UNCHANGED <<durable, accepted, stripped, overlooked, losses>>

\* A lease with nobody to extend it runs out; the keep-alive of a live
\* dispatch holds it.
LeaseRunsOut(j) ==
  /\ wrow[j].q # NoQueue /\ wrow[j].st = "leased" /\ owner[j] = "none"
  /\ wrow' = [wrow EXCEPT ![j].st = "spent"]
  /\ UNCHANGED <<mode, result, anchor, attempts, qstate, memory, accepted, flaws, crashes, losses>>

\* Mutant of Boot: the reap looks at the global queue alone.
BootGlobalOnly ==
  /\ mode = "down"
  /\ FastRestart \/ \A j \in RJobs : wrow[j].st # "leased"
  /\ mode' = "reap" /\ reaping' = {}
  /\ UNCHANGED <<durable, devQ, present, joining, orphan, removing, todo, owner, accepted, flaws, crashes, losses>>

\* Rows whose lease ended with their delivery used up, on the queues with a stored state.
ListAbandoned == {j \in RJobs : wrow[j].q \in qstate /\ wrow[j].st = "spent"}

\* Start begins with reapAbandonedAtStartup, over the global queue, where a
\* leased anchor is not expired, and every persisted worker queue.
Boot ==
  /\ mode = "down"
  /\ FastRestart \/ \A j \in RJobs : wrow[j].st # "leased"
  /\ mode' = "reap" /\ reaping' = ListAbandoned
  /\ overlooked' = overlooked \cup {j \in RJobs : wrow[j].q \in unborn \cup stripped /\ wrow[j].st = "spent"}
  /\ UNCHANGED <<durable, devQ, present, joining, orphan, removing, todo, owner, accepted, torn, unborn, stripped, crashes, losses>>

\* Mutant of ReapFail: the failure is recorded over whatever is there.
ReapFailBlind(j) ==
  /\ mode = "reap" /\ j \in reaping /\ owner[j] = "none"
  /\ SetOwner(j, "reap") /\ SetResult(j, "error")
  /\ UNCHANGED <<mode, anchor, wrow, attempts, qstate, devQ, present, joining, orphan, removing, todo, reaping, accepted, flaws, crashes, losses>>

\* reapOne: a failure result, unless a terminal one is there, and then the
\* row and its anchor go.
ReapFail(j) ==
  /\ mode = "reap" /\ j \in reaping /\ owner[j] = "none"
  /\ SetOwner(j, "reap")
  /\ IF Answered(j) THEN UNCHANGED result ELSE SetResult(j, "error")
  /\ UNCHANGED <<mode, anchor, wrow, attempts, qstate, devQ, present, joining, orphan, removing, todo, reaping, accepted, flaws, crashes, losses>>

ReapDelete(j) ==
  /\ owner[j] = "reap" /\ SetOwner(j, "none") /\ reaping' = reaping \ {j}
  /\ DeleteRows(j)
  /\ UNCHANGED <<mode, result, attempts, qstate, devQ, present, joining, orphan, removing, todo, accepted, flaws, crashes, losses>>

\* recoverPersistedQueues, and the dispatcher starts.
Recover ==
  /\ mode = "reap" /\ reaping = {}
  /\ mode' = "up" /\ devQ' = devQ \cup qstate
  /\ UNCHANGED <<durable, present, joining, orphan, removing, todo, owner, reaping, accepted, flaws, crashes, losses>>

-----------------------------------------------------------------------------
(* A job's life.                                                            *)

up == mode = "up"

\* Submit: the result row, then the global row, then the caller's answer.
CreateResult(j) ==
  /\ up /\ result[j] = "none" /\ owner[j] = "none"
  /\ SetResult(j, "pending") /\ SetOwner(j, "submit")
  /\ UNCHANGED <<mode, anchor, wrow, attempts, qstate, devQ, present, joining, orphan, removing, todo, reaping, accepted, flaws, crashes, losses>>

SubmitGlobal(j) ==
  /\ owner[j] = "submit" /\ SetOwner(j, "none")
  /\ anchor' = [anchor EXCEPT ![j] = "visible"] /\ accepted' = accepted \cup {j}
  /\ UNCHANGED <<mode, result, wrow, attempts, qstate, devQ, present, joining, orphan, removing, todo, reaping, flaws, crashes, losses>>

\* LeaseAndSubmit, one transaction, to the queue of a connected worker.
Place(j, w) ==
  /\ up /\ anchor[j] = "visible" /\ w \in devQ \cap present
  /\ anchor' = [anchor EXCEPT ![j] = "leased"]
  /\ wrow' = [wrow EXCEPT ![j] = [q |-> w, st |-> "pending"]]
  /\ UNCHANGED <<mode, result, attempts, qstate, memory, accepted, flaws, crashes, losses>>

\* LeaseByID and dispatchEnvelope: a job without a buffer that has its answer
\* loses its rows.  A reconnected worker's rows wait here for the drain of its
\* former stream; what happens when they do not is in Dispatch.
LeaseRow(j) ==
  /\ up /\ wrow[j].q \in devQ \cap present /\ wrow[j].st = "pending" /\ owner[j] = "none"
  /\ removing[wrow[j].q] # "drain"
  /\ wrow' = [wrow EXCEPT ![j].st = "leased"]
  /\ SetOwner(j, IF Answered(j) THEN "finish" ELSE "run")
  /\ result' = [result EXCEPT ![j] = IF Answered(j) THEN @ ELSE "processing"]
  /\ UNCHANGED <<mode, anchor, attempts, qstate, devQ, present, joining, orphan, removing, todo, reaping, accepted, flaws, crashes, losses>>

\* Mutant of StoreResult: the rows go before the result is stored.
RowsBeforeResult(j) ==
  /\ owner[j] = "run" /\ DeleteRows(j) /\ SetOwner(j, "finish")
  /\ UNCHANGED <<mode, result, attempts, qstate, devQ, present, joining, orphan, removing, todo, reaping, accepted, flaws, crashes, losses>>

\* The pump stores the result and then deletes the rows.
StoreResult(j) ==
  /\ owner[j] = "run" /\ SetResult(j, "done") /\ SetOwner(j, "finish")
  /\ UNCHANGED <<mode, anchor, wrow, attempts, qstate, devQ, present, joining, orphan, removing, todo, reaping, accepted, flaws, crashes, losses>>

FinishRows(j) ==
  /\ owner[j] = "finish" /\ SetOwner(j, "none") /\ DeleteRows(j)
  /\ UNCHANGED <<mode, result, attempts, qstate, devQ, present, joining, orphan, removing, todo, reaping, accepted, flaws, crashes, losses>>

-----------------------------------------------------------------------------
(* Workers come and go.                                                     *)

\* OnWorkerConnected: the queue in memory, then its persisted row.
Join(w) ==
  /\ up /\ w \notin present
  /\ present' = present \cup {w} /\ devQ' = devQ \cup {w} /\ joining' = joining \cup {w}
  /\ orphan' = orphan \ {w}
  /\ UNCHANGED <<mode, durable, removing, todo, owner, reaping, accepted, flaws, crashes, losses>>

UpsertState(w) ==
  /\ w \in joining /\ joining' = joining \ {w} /\ qstate' = qstate \cup {w}
  /\ unborn' = unborn \ {w} /\ stripped' = stripped \ {w}
  /\ UNCHANGED <<mode, result, anchor, wrow, attempts, devQ, present, orphan, removing, todo, owner, reaping, accepted, torn, overlooked, crashes, losses>>

\* Mutant of PeekForDrain: Peek, which does not see leased rows.
PeekOnly(w) ==
  /\ removing' = [removing EXCEPT ![w] = IF w \in devQ THEN "drain" ELSE @]
  /\ todo' = [todo EXCEPT ![w] = IF w \in devQ THEN {j \in RJobs : wrow[j].q = w /\ wrow[j].st = "pending"} ELSE @]

\* removeWorkerQueue begins: drainWorkerQueue peeks the queue, once.
PeekForDrain(w) ==
  /\ removing' = [removing EXCEPT ![w] = IF w \in devQ THEN "drain" ELSE @]
  /\ todo' = [todo EXCEPT ![w] = IF w \in devQ THEN {j \in RJobs : wrow[j].q = w} ELSE @]

\* The worker drops: its pumps end without a terminal frame and leave their
\* jobs to the drain.
Leave(w) ==
  /\ up /\ w \in present \ Steady /\ w \notin joining /\ losses < MaxLosses
  /\ removing[w] = "no"
  /\ present' = present \ {w} /\ losses' = losses + 1 /\ PeekForDrain(w)
  /\ owner' = [j \in RJobs |-> IF owner[j] = "run" /\ wrow[j].q = w THEN "none" ELSE owner[j]]
  /\ UNCHANGED <<mode, durable, devQ, joining, orphan, reaping, accepted, flaws, crashes>>

\* The dispatch pass finds a queue whose worker is not in the fleet, notes it,
\* and after the grace drains it.
OrphanTrack(w) ==
  /\ up /\ w \in devQ \ present /\ w \notin orphan /\ removing[w] = "no"
  /\ orphan' = orphan \cup {w}
  /\ UNCHANGED <<mode, durable, devQ, present, joining, removing, todo, owner, reaping, accepted, flaws, crashes, losses>>

OrphanExpire(w) ==
  /\ up /\ w \in orphan /\ w \in devQ \ present /\ removing[w] = "no"
  /\ orphan' = orphan \ {w} /\ PeekForDrain(w)
  /\ UNCHANGED <<mode, durable, devQ, present, joining, owner, reaping, accepted, flaws, crashes, losses>>

\* drainWorkerQueue on one row: answered jobs go; a row that is not under a
\* lease, spent or never delivered, hands its anchor back; a leased one is
\* charged and either given up or requeued; a row that is gone is skipped.
DrainRow(w, j) ==
  /\ removing[w] = "drain" /\ j \in todo[w] /\ owner[j] = "none"
  /\ todo' = [todo EXCEPT ![w] = @ \ {j}]
  /\ \/ /\ wrow[j].q # w /\ UNCHANGED <<anchor, wrow, result, attempts, owner>>
     \/ /\ wrow[j].q = w /\ Answered(j) /\ DeleteRows(j) /\ UNCHANGED <<result, attempts, owner>>
     \/ /\ wrow[j].q = w /\ ~Answered(j) /\ wrow[j].st # "leased"
        /\ anchor' = [anchor EXCEPT ![j] = "visible"] /\ wrow' = [wrow EXCEPT ![j] = NoRow]
        /\ UNCHANGED <<result, attempts, owner>>
     \/ /\ wrow[j].q = w /\ ~Answered(j) /\ wrow[j].st = "leased" /\ attempts[j] + 1 >= Budget
        /\ SetResult(j, "error") /\ SetOwner(j, "finish") /\ UNCHANGED <<anchor, wrow, attempts>>
     \/ /\ wrow[j].q = w /\ ~Answered(j) /\ wrow[j].st = "leased" /\ attempts[j] + 1 < Budget
        /\ DeleteRows(j) /\ attempts' = [attempts EXCEPT ![j] = @ + 1] /\ SetOwner(j, "requeue")
        /\ UNCHANGED result
  /\ UNCHANGED <<mode, qstate, devQ, present, joining, orphan, removing, reaping, accepted, flaws, crashes, losses>>

Resubmit(j) ==
  /\ owner[j] = "requeue" /\ SetOwner(j, "none")
  /\ anchor' = [anchor EXCEPT ![j] = "visible"]
  /\ result' = [result EXCEPT ![j] = IF @ = "processing" THEN "pending" ELSE @]
  /\ UNCHANGED <<mode, wrow, attempts, qstate, devQ, present, joining, orphan, removing, todo, reaping, accepted, flaws, crashes, losses>>

RemoveQueue(w) ==
  /\ removing[w] = "drain" /\ todo[w] = {} /\ \A j \in RJobs : owner[j] # "requeue"
  /\ devQ' = devQ \ {w} /\ removing' = [removing EXCEPT ![w] = "state"]
  /\ UNCHANGED <<mode, durable, present, joining, orphan, todo, owner, reaping, accepted, flaws, crashes, losses>>

DeleteState(w) ==
  /\ removing[w] = "state" /\ removing' = [removing EXCEPT ![w] = "no"]
  /\ qstate' = qstate \ {w}
  /\ stripped' = IF w \in present THEN stripped \cup {w} ELSE stripped \ {w}
  /\ UNCHANGED <<mode, result, anchor, wrow, attempts, devQ, present, joining, orphan, todo, owner, reaping, accepted, torn, unborn, overlooked, crashes, losses>>

RestNext ==
  \/ Crash \/ Boot \/ Recover
  \/ \E j \in RJobs : \/ LeaseRunsOut(j) \/ ReapFail(j) \/ ReapDelete(j) \/ CreateResult(j) \/ SubmitGlobal(j)
                      \/ LeaseRow(j) \/ StoreResult(j) \/ FinishRows(j) \/ Resubmit(j)
                      \/ \E w \in RWorkers : Place(j, w) \/ DrainRow(w, j)
  \/ \E w \in RWorkers : \/ Join(w) \/ UpsertState(w) \/ Leave(w) \/ OrphanTrack(w) \/ OrphanExpire(w)
                         \/ RemoveQueue(w) \/ DeleteState(w)

\* Started goroutines run on, leases run out, a dead process is started again
\* and the steady workers reconnect.  Other workers owe nothing.
StartRuns  == Boot \/ Recover \/ \E j \in RJobs : LeaseRunsOut(j) \/ ReapFail(j) \/ ReapDelete(j)
JobRuns(j) == \/ SubmitGlobal(j) \/ LeaseRow(j) \/ StoreResult(j) \/ FinishRows(j) \/ Resubmit(j)
              \/ \E w \in RWorkers : Place(j, w)
QueueRuns(w) == \/ UpsertState(w) \/ RemoveQueue(w) \/ DeleteState(w) \/ OrphanTrack(w) \/ OrphanExpire(w)
                \/ (\E j \in RJobs : DrainRow(w, j)) \/ (w \in Steady /\ Join(w))

RestSpec ==
  /\ RestInit /\ [][RestNext]_restVars
  /\ WF_restVars(StartRuns) /\ \A j \in RJobs : WF_restVars(JobRuns(j))
  /\ \A w \in RWorkers : WF_restVars(QueueRuns(w))

-----------------------------------------------------------------------------
RestTypeOK ==
  /\ mode \in {"down", "reap", "up"}
  /\ result \in [RJobs -> {"none", "pending", "processing", "done", "error"}]
  /\ anchor \in [RJobs -> {"absent", "visible", "leased"}]
  /\ wrow \in [RJobs -> [q : RWorkers \cup {NoQueue}, st : {"pending", "leased", "spent"}]]
  /\ owner \in [RJobs -> {"none", "submit", "run", "finish", "requeue", "reap"}]
  /\ attempts \in [RJobs -> 0..Budget] /\ qstate \subseteq RWorkers /\ devQ \subseteq RWorkers

\* A job whose Submit has returned can be found after a crash at any moment:
\* until it is answered it keeps its anchor, unless its requeue is between its
\* two writes or a crash was (torn); and its worker row, if any, is on a queue
\* with a stored state.  A row's queue has none in two cases only, each with the
\* step that makes it so: its worker is connecting, or a crash hit it then
\* (joining, unborn), and its state was deleted although it was back (stripped).
\* A drain that overlooks a row, or a state deleted too early, breaks this.
JobsSurviveCrash ==
  \A j \in accepted : ~Answered(j) =>
    /\ anchor[j] # "absent" \/ owner[j] = "requeue" \/ j \in torn
    /\ wrow[j].q \in qstate \cup {NoQueue} \cup joining \cup unborn \cup stripped

\* An answer that reached the result store before a crash is the one the caller
\* gets: neither the startup reap nor a drain replaces it.
AnswersSurviveCrash == [][\A j \in RJobs : Answered(j) => result'[j] = result[j]]_restVars

\* A job out of reach: its row is on a queue the process has torn down, or the
\* workers that stay have no queue.  A worker that reconnects while its old
\* queue is drained gets there (OnWorkerConnected finds the queue still in
\* devQueues, and removeWorkerQueue then deletes it).
Stranded(j) ==
  \/ up /\ wrow[j].q \notin devQ \cup {NoQueue}
  \/ \E w \in Steady : w \in present \ devQ

\* Every accepted job is answered in the end, through crashes at any point, a
\* worker that never returns and one that drops, provided the process is away
\* long enough for its leases to run out, no crash tore a requeue, no start
\* overlooked the job and no queue was torn down under a reconnected worker.
RestartAnswers ==
  \A j \in RJobs : j \in accepted ~> (Answered(j) \/ j \in torn \cup overlooked \/ Stranded(j))

\* What the doc of reapAbandonedAtStartup says: rows a crash stranded "get a
\* failure result instead of hanging their callers forever".
CrashedJobAnswered ==
  \A j \in RJobs : (mode = "down" /\ j \in accepted \ torn) ~> (Answered(j) \/ j \in overlooked \/ Stranded(j))
=============================================================================
