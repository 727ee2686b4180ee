------------------------ MODULE SchedulerSideProofs -------------------------
(***************************************************************************)
(* Proofs about Restart, for any number of jobs, workers, crashes and      *)
(* losses; about the batches of Drain, for any number of jobs and any size *)
(* of the worker's pool; and about Envelope, for any requests the boundary *)
(* sees and any number of hops.                                            *)
(***************************************************************************)
EXTENDS Restart, Drain, Envelope, TLAPS, FiniteSetTheorems, SequenceTheorems

-----------------------------------------------------------------------------
(* Restart.  A handler writes the answer before it deletes the rows, and   *)
(* the invariant remembers the order: whoever is about to delete a job's   *)
(* rows has its answer in the store.  Goroutines exist only while the      *)
(* process is up, so a process that starts finds the tables as the crash   *)
(* left them.                                                              *)

Goroutines == {"submit", "run", "finish", "requeue"}

MemoryOK ==
  /\ removing \in [RWorkers -> {"no", "drain", "state"}]
  /\ todo \in [RWorkers -> SUBSET RJobs]
  /\ joining \subseteq RWorkers /\ reaping \subseteq RJobs
  /\ mode # "up" => joining = {} /\ \A w \in RWorkers : removing[w] = "no"

\* What a goroutine that holds a job knows of its result.
OwnersOK == \A j \in RJobs :
  /\ owner[j] \in Goroutines => up
  /\ owner[j] = "reap" => mode = "reap" /\ j \in reaping
  /\ owner[j] = "run" => result[j] = "processing"
  /\ owner[j] \in {"finish", "reap"} => Answered(j)

\* An accepted job that no crash tore keeps its anchor until it is answered.
AnchorKept == \A j \in accepted : ~Answered(j) => anchor[j] # "absent" \/ owner[j] = "requeue" \/ j \in torn

\* The queues with a stored state, and those the property lets be without one.
Known == qstate \cup joining \cup unborn \cup stripped

QueuesFound == \A j \in RJobs : ~Answered(j) => wrow[j].q \in Known \cup {NoQueue}

\* An unanswered job with a row on w.
Waits(j, w) == wrow[j].q = w /\ ~Answered(j)

\* A queue in memory is known.  While a worker stays away, the removal of its
\* queue has every unanswered row still to visit, and has visited them all when
\* it deletes the state.
DrainsAll ==
  /\ devQ \subseteq Known
  /\ \A w \in RWorkers \ present :
       /\ removing[w] = "drain" => \A j \in RJobs : Waits(j, w) => j \in todo[w]
       /\ removing[w] = "state" => w \notin devQ /\ \A j \in RJobs : ~Waits(j, w)

\* The inductive invariant of crash and restart.
RestIInv ==
  /\ RestTypeOK /\ accepted \subseteq RJobs
  /\ MemoryOK /\ OwnersOK /\ AnchorKept /\ QueuesFound /\ DrainsAll

\* A step of the process that is up, or of a start, touches no answer.
AnswersKept == \A j \in RJobs : Answered(j) => result'[j] = result[j]

\* A step that moves no queue and puts no row on one keeps what is known of them.
RowsKept ==
  \A k \in RJobs : ~Answered(k)' => wrow'[k].q = NoQueue \/ (~Answered(k) /\ wrow'[k].q = wrow[k].q)

LEMMA QueuesStay ==
  ASSUME RestIInv, RowsKept, UNCHANGED <<qstate, devQ, present, joining, removing, todo, unborn, stripped>>
  PROVE  QueuesFound' /\ DrainsAll'
<1>1. Known' = Known
  BY DEF Known
<1>2. QueuesFound'
  BY <1>1 DEF RestIInv, RowsKept, QueuesFound
<1>3. \A k \in RJobs, w \in RWorkers : Waits(k, w)' => Waits(k, w)
  BY RestartAssumption DEF RowsKept, Waits
<1>4. DrainsAll'
  BY <1>1, <1>3 DEF RestIInv, DrainsAll
<1>5. QED
  BY <1>2, <1>4

\* The crash: memory is emptied, a requeue between its two writes is noted as torn,
\* and a worker that was connecting as unborn.
LEMMA CrashStep ==
  ASSUME RestIInv, Crash
  PROVE  RestIInv' /\ AnswersKept
<1> USE DEF RestIInv, Crash, EmptyMemory, durable
<1>1. RestTypeOK' /\ accepted' \subseteq RJobs /\ AnswersKept
  BY DEF RestTypeOK, AnswersKept
<1>2. MemoryOK' /\ OwnersOK'
  BY DEF MemoryOK, OwnersOK, Goroutines, up
<1>3. AnchorKept'
  BY DEF AnchorKept, Answered
<1>4. Known \subseteq Known' /\ devQ' = {}
  BY DEF Known
<1>5. QueuesFound'
  BY <1>4 DEF QueuesFound, Answered
<1>6. DrainsAll'
  BY <1>4 DEF DrainsAll
<1>7. QED
  BY <1>1, <1>2, <1>3, <1>5, <1>6

\* The start: the reap works on rows whose jobs it has answered.
LEMMA StartStep ==
  ASSUME RestIInv, Boot \/ Recover
  PROVE  RestIInv' /\ AnswersKept
<1> USE DEF RestIInv, Boot, Recover, durable, flaws
<1>1. RestTypeOK' /\ accepted' \subseteq RJobs /\ AnswersKept
  BY DEF RestTypeOK, AnswersKept
<1>2. MemoryOK'
  BY DEF MemoryOK, ListAbandoned
<1>3. OwnersOK'
  BY DEF OwnersOK, Goroutines, up, Answered
<1>4. AnchorKept'
  BY DEF AnchorKept, Answered
<1>5. Known' = Known /\ devQ' \subseteq devQ \cup qstate /\ mode # "up"
  BY DEF Known
<1>6. QueuesFound'
  BY <1>5 DEF QueuesFound, Answered
<1>7. DrainsAll'
  BY <1>5 DEF DrainsAll, Known, MemoryOK
<1>8. QED
  BY <1>1, <1>2, <1>3, <1>4, <1>6, <1>7

\* A lease that runs out changes the state of a row and not its queue.
LEMMA LeaseRunsOutStep ==
  ASSUME RestIInv, NEW j \in RJobs, LeaseRunsOut(j)
  PROVE  RestIInv' /\ AnswersKept
<1> USE DEF RestIInv, LeaseRunsOut, memory, flaws
<1>1. \A k \in RJobs : wrow'[k].q = wrow[k].q
  BY DEF RestTypeOK
<1>2. RestTypeOK' /\ accepted' \subseteq RJobs /\ AnswersKept
  BY DEF RestTypeOK, AnswersKept
<1>3. MemoryOK' /\ OwnersOK'
  BY DEF MemoryOK, OwnersOK, up, Answered
<1>4. AnchorKept'
  BY <1>1 DEF AnchorKept, Answered
<1>5. RowsKept
  BY <1>1 DEF RowsKept, Answered
<1>6. QueuesFound' /\ DrainsAll'
  BY <1>5, QueuesStay DEF flaws
<1>7. QED
  BY <1>2, <1>3, <1>4, <1>6

\* The reap of one row: the failure, then the rows.
LEMMA ReapStep ==
  ASSUME RestIInv, NEW j \in RJobs, ReapFail(j) \/ ReapDelete(j)
  PROVE  RestIInv' /\ AnswersKept
<1> USE DEF RestIInv, SetOwner, SetResult, DeleteRows, NoRow, flaws
<1>1. CASE ReapFail(j)
  <2> USE <1>1 DEF ReapFail
  <2>1. RestTypeOK' /\ accepted' \subseteq RJobs
    BY DEF RestTypeOK, Answered
  <2>2. AnswersKept /\ \A k \in RJobs : (Answered(k) => Answered(k)') /\ (k # j => result'[k] = result[k])
    BY DEF RestTypeOK, AnswersKept, Answered
  <2>3. Answered(j)'
    BY DEF RestTypeOK, Answered
  <2>4. MemoryOK'
    BY DEF MemoryOK
  <2>5. OwnersOK'
    BY <2>2, <2>3 DEF OwnersOK, RestTypeOK, Goroutines, up
  <2>6. AnchorKept'
    BY <2>2, <2>3 DEF AnchorKept, RestTypeOK
  <2>6a. RowsKept
    BY <2>2, <2>3 DEF RowsKept, RestTypeOK
  <2>6b. QueuesFound' /\ DrainsAll'
    BY <2>6a, QueuesStay
  <2>7. QED
    BY <2>1, <2>2, <2>4, <2>5, <2>6, <2>6b
<1>2. CASE ReapDelete(j)
  <2> USE <1>2 DEF ReapDelete
  <2>1. RestTypeOK' /\ accepted' \subseteq RJobs /\ AnswersKept
    BY DEF RestTypeOK, AnswersKept
  <2>2. \A k \in RJobs : Answered(k)' <=> Answered(k)
    BY DEF Answered
  <2>3. MemoryOK' /\ OwnersOK'
    BY <2>2 DEF MemoryOK, OwnersOK, RestTypeOK, Goroutines, up
  <2>4. AnchorKept'
    BY <2>2 DEF AnchorKept, RestTypeOK, OwnersOK
  <2>4a. RowsKept
    BY <2>2 DEF RowsKept, RestTypeOK, OwnersOK
  <2>4b. QueuesFound' /\ DrainsAll'
    BY <2>4a, QueuesStay
  <2>5. QED
    BY <2>1, <2>3, <2>4, <2>4b
<1>3. QED
  BY <1>1, <1>2

\* The job's own steps: submission, placement, dispatch, result, rows.
LEMMA JobStep ==
  ASSUME RestIInv, NEW j \in RJobs,
         CreateResult(j) \/ SubmitGlobal(j) \/ LeaseRow(j) \/ StoreResult(j) \/ FinishRows(j) \/ Resubmit(j)
  PROVE  RestIInv' /\ AnswersKept
<1> USE DEF RestIInv, SetOwner, SetResult, DeleteRows, NoRow, flaws
<1>1. CASE CreateResult(j)
  <2> USE <1>1 DEF CreateResult
  <2>1. RestTypeOK' /\ accepted' \subseteq RJobs /\ AnswersKept /\ MemoryOK'
    BY DEF RestTypeOK, AnswersKept, MemoryOK, Answered
  <2>2. OwnersOK'
    BY DEF OwnersOK, RestTypeOK, Goroutines, up, Answered
  <2>3. AnchorKept'
    BY DEF AnchorKept, RestTypeOK, Answered
  <2>3a. RowsKept
    BY DEF RowsKept, RestTypeOK, Answered
  <2>3b. QueuesFound' /\ DrainsAll'
    BY <2>3a, QueuesStay
  <2>4. QED
    BY <2>1, <2>2, <2>3, <2>3b
<1>2. CASE SubmitGlobal(j)
  <2> USE <1>2 DEF SubmitGlobal
  <2>1. RestTypeOK' /\ accepted' \subseteq RJobs /\ AnswersKept /\ MemoryOK'
    BY DEF RestTypeOK, AnswersKept, MemoryOK
  <2>2. OwnersOK'
    BY DEF OwnersOK, RestTypeOK, Goroutines, up, Answered
  <2>3. AnchorKept'
    BY DEF AnchorKept, RestTypeOK, Answered
  <2>3a. RowsKept
    BY DEF RowsKept, RestTypeOK, Answered
  <2>3b. QueuesFound' /\ DrainsAll'
    BY <2>3a, QueuesStay
  <2>4. QED
    BY <2>1, <2>2, <2>3, <2>3b
<1>3. CASE LeaseRow(j)
  <2> USE <1>3 DEF LeaseRow
  <2>1. RestTypeOK' /\ accepted' \subseteq RJobs /\ MemoryOK'
    BY DEF RestTypeOK, MemoryOK
  <2>2. AnswersKept /\ \A k \in RJobs : Answered(k)' <=> Answered(k)
    BY DEF RestTypeOK, AnswersKept, Answered
  <2>3. OwnersOK'
    BY <2>2 DEF OwnersOK, RestTypeOK, Goroutines, up
  <2>4. AnchorKept'
    BY <2>2 DEF AnchorKept, RestTypeOK, up
  <2>4a. RowsKept
    BY <2>2 DEF RowsKept, RestTypeOK, up
  <2>4b. QueuesFound' /\ DrainsAll'
    BY <2>4a, QueuesStay
  <2>5. QED
    BY <2>1, <2>2, <2>3, <2>4, <2>4b
<1>4. CASE StoreResult(j)
  <2> USE <1>4 DEF StoreResult
  <2>1. RestTypeOK' /\ accepted' \subseteq RJobs /\ MemoryOK'
    BY DEF RestTypeOK, MemoryOK
  <2>2. AnswersKept /\ Answered(j)' /\ \A k \in RJobs : k # j => (Answered(k)' <=> Answered(k))
    BY DEF RestTypeOK, AnswersKept, Answered, OwnersOK
  <2>3. OwnersOK'
    BY <2>2 DEF OwnersOK, RestTypeOK, Goroutines, up
  <2>4. AnchorKept'
    BY <2>2 DEF AnchorKept, RestTypeOK
  <2>4a. RowsKept
    BY <2>2 DEF RowsKept, RestTypeOK
  <2>4b. QueuesFound' /\ DrainsAll'
    BY <2>4a, QueuesStay
  <2>5. QED
    BY <2>1, <2>2, <2>3, <2>4, <2>4b
<1>5. CASE FinishRows(j)
  <2> USE <1>5 DEF FinishRows
  <2>1. RestTypeOK' /\ accepted' \subseteq RJobs /\ MemoryOK' /\ AnswersKept
    BY DEF RestTypeOK, MemoryOK, AnswersKept
  <2>2. \A k \in RJobs : Answered(k)' <=> Answered(k)
    BY DEF Answered
  <2>3. OwnersOK'
    BY <2>2 DEF OwnersOK, RestTypeOK, Goroutines, up
  <2>4. AnchorKept'
    BY <2>2 DEF AnchorKept, RestTypeOK, OwnersOK
  <2>4a. RowsKept
    BY <2>2 DEF RowsKept, RestTypeOK, OwnersOK
  <2>4b. QueuesFound' /\ DrainsAll'
    BY <2>4a, QueuesStay
  <2>5. QED
    BY <2>1, <2>3, <2>4, <2>4b
<1>6. CASE Resubmit(j)
  <2> USE <1>6 DEF Resubmit
  <2>1. RestTypeOK' /\ accepted' \subseteq RJobs /\ MemoryOK'
    BY DEF RestTypeOK, MemoryOK
  <2>2. AnswersKept /\ \A k \in RJobs : Answered(k)' <=> Answered(k)
    BY DEF RestTypeOK, AnswersKept, Answered
  <2>3. OwnersOK'
    BY <2>2 DEF OwnersOK, RestTypeOK, Goroutines, up
  <2>4. AnchorKept'
    BY <2>2 DEF AnchorKept, RestTypeOK
  <2>4a. RowsKept
    BY <2>2 DEF RowsKept, RestTypeOK
  <2>4b. QueuesFound' /\ DrainsAll'
    BY <2>4a, QueuesStay
  <2>5. QED
    BY <2>1, <2>2, <2>3, <2>4, <2>4b
<1>7. QED
  BY <1>1, <1>2, <1>3, <1>4, <1>5, <1>6

\* A placement adds a worker row to a job whose anchor it leases.
LEMMA PlaceStep ==
  ASSUME RestIInv, NEW j \in RJobs, NEW w \in RWorkers, Place(j, w)
  PROVE  RestIInv' /\ AnswersKept
<1> USE DEF RestIInv, Place, memory, flaws
<1>1. RestTypeOK' /\ accepted' \subseteq RJobs /\ AnswersKept /\ MemoryOK' /\ OwnersOK'
  BY DEF RestTypeOK, AnswersKept, MemoryOK, OwnersOK, Answered, up
<1>2. AnchorKept'
  BY DEF AnchorKept, RestTypeOK, Answered, up
<1>3. /\ Known' = Known /\ w \in Known /\ w \in present /\ UNCHANGED <<devQ, present, removing, todo>>
      /\ wrow'[j].q = w /\ \A k \in RJobs : (Answered(k)' <=> Answered(k)) /\ (k # j => wrow'[k] = wrow[k])
  BY DEF Known, DrainsAll, RestTypeOK, Answered
<1>4. QueuesFound'
  BY <1>3 DEF QueuesFound
<1>5. \A k \in RJobs, v \in RWorkers \ present : Waits(k, v)' => Waits(k, v)
  BY <1>3 DEF Waits
<1>6. DrainsAll'
  BY <1>3, <1>5 DEF DrainsAll
<1>7. QED
  BY <1>1, <1>2, <1>4, <1>6

\* The drain of one row: rows go only with an answer, or with a resubmission owed.
LEMMA DrainRowStep ==
  ASSUME RestIInv, NEW j \in RJobs, NEW w \in RWorkers, DrainRow(w, j)
  PROVE  RestIInv' /\ AnswersKept
<1> USE DEF RestIInv, SetOwner, SetResult, DeleteRows, NoRow, flaws
<1>0. /\ up /\ owner[j] = "none" /\ UNCHANGED <<mode, qstate, devQ, present, joining, removing, reaping, accepted, flaws>>
      /\ todo' = [todo EXCEPT ![w] = @ \ {j}]
  BY DEF DrainRow, MemoryOK, up
<1>a. RowsKept /\ ~Waits(j, w)'
  BY RestartAssumption DEF DrainRow, RowsKept, Waits, RestTypeOK, Answered
<1>b. Known' = Known
  BY <1>0 DEF Known
<1>c. QueuesFound'
  BY <1>a, <1>b DEF RowsKept, QueuesFound
<1>d. \A k \in RJobs, v \in RWorkers : Waits(k, v)' => Waits(k, v) /\ (k # j \/ v # w)
  BY <1>a, RestartAssumption DEF RowsKept, Waits
<1>e. DrainsAll'
  BY <1>0, <1>b, <1>d DEF DrainsAll, MemoryOK
<1>1. CASE UNCHANGED <<anchor, wrow, result, attempts, owner>>
  BY <1>0, <1>1, <1>c, <1>e DEF RestTypeOK, AnswersKept, MemoryOK, OwnersOK, AnchorKept, Answered, up
<1>2. CASE Answered(j) /\ DeleteRows(j) /\ UNCHANGED <<result, attempts, owner>>
  <2>1. RestTypeOK' /\ AnswersKept /\ MemoryOK' /\ OwnersOK'
    BY <1>0, <1>2 DEF RestTypeOK, AnswersKept, MemoryOK, OwnersOK, Answered, up
  <2>2. AnchorKept'
    BY <1>0, <1>2 DEF AnchorKept, RestTypeOK, Answered, up
  <2>3. QED
    BY <1>0, <1>c, <1>e, <2>1, <2>2
<1>3. CASE /\ anchor' = [anchor EXCEPT ![j] = "visible"] /\ wrow' = [wrow EXCEPT ![j] = NoRow]
           /\ UNCHANGED <<result, attempts, owner>>
  <2>1. RestTypeOK' /\ AnswersKept /\ MemoryOK' /\ OwnersOK'
    BY <1>0, <1>3 DEF RestTypeOK, AnswersKept, MemoryOK, OwnersOK, Answered, up
  <2>2. AnchorKept'
    BY <1>0, <1>3 DEF AnchorKept, RestTypeOK, Answered, up
  <2>3. QED
    BY <1>0, <1>c, <1>e, <2>1, <2>2
<1>4. CASE /\ ~Answered(j) /\ SetResult(j, "error") /\ SetOwner(j, "finish")
           /\ UNCHANGED <<anchor, wrow, attempts>>
  <2>1. AnswersKept /\ Answered(j)' /\ \A k \in RJobs : k # j => (Answered(k)' <=> Answered(k))
    BY <1>4 DEF RestTypeOK, AnswersKept, Answered
  <2>2. RestTypeOK' /\ MemoryOK'
    BY <1>0, <1>4 DEF RestTypeOK, MemoryOK
  <2>3. OwnersOK'
    BY <1>0, <1>4, <2>1 DEF RestTypeOK, OwnersOK, up, Goroutines
  <2>4. AnchorKept'
    BY <1>0, <1>4, <2>1 DEF AnchorKept, RestTypeOK, up
  <2>5. QED
    BY <1>0, <1>c, <1>e, <2>1, <2>2, <2>3, <2>4
<1>5. CASE /\ ~Answered(j) /\ attempts[j] + 1 < Budget
           /\ DeleteRows(j) /\ attempts' = [attempts EXCEPT ![j] = @ + 1] /\ SetOwner(j, "requeue")
           /\ UNCHANGED result
  <2>1. RestTypeOK' /\ AnswersKept /\ MemoryOK'
    BY <1>0, <1>5, RestartAssumption DEF RestTypeOK, AnswersKept, MemoryOK
  <2>2. OwnersOK'
    BY <1>0, <1>5 DEF RestTypeOK, OwnersOK, Answered, up, Goroutines
  <2>3. AnchorKept'
    BY <1>0, <1>5 DEF AnchorKept, RestTypeOK, Answered, up
  <2>4. QED
    BY <1>0, <1>c, <1>e, <2>1, <2>2, <2>3
<1>6. QED
  BY <1>1, <1>2, <1>3, <1>4, <1>5 DEF DrainRow

\* Workers come and go: no result, anchor or row changes.
LEMMA QueueStep ==
  ASSUME RestIInv, NEW w \in RWorkers,
         Join(w) \/ UpsertState(w) \/ Leave(w) \/ OrphanTrack(w) \/ OrphanExpire(w) \/ RemoveQueue(w) \/ DeleteState(w)
  PROVE  RestIInv' /\ AnswersKept
<1> USE DEF RestIInv, durable, flaws
<1> DEFINE rest == <<mode, result, anchor, wrow, attempts, reaping, accepted, torn>>
<1>1. UNCHANGED rest /\ up
  BY DEF Join, UpsertState, Leave, OrphanTrack, OrphanExpire, RemoveQueue, DeleteState, MemoryOK, up
<1>2. \A j \in RJobs : owner'[j] = owner[j] \/ (owner'[j] = "none" /\ owner[j] = "run")
  BY DEF Join, UpsertState, Leave, OrphanTrack, OrphanExpire, RemoveQueue, DeleteState, RestTypeOK
<1>3. owner' \in [RJobs -> {"none", "submit", "run", "finish", "requeue", "reap"}]
  BY DEF Join, UpsertState, Leave, OrphanTrack, OrphanExpire, RemoveQueue, DeleteState, RestTypeOK
<1>4. qstate' \subseteq RWorkers /\ devQ' \subseteq RWorkers /\ joining' \subseteq RWorkers
  BY DEF Join, UpsertState, Leave, OrphanTrack, OrphanExpire, RemoveQueue, DeleteState, RestTypeOK, MemoryOK
<1>5. removing' \in [RWorkers -> {"no", "drain", "state"}] /\ todo' \in [RWorkers -> SUBSET RJobs]
  BY DEF Join, UpsertState, Leave, OrphanTrack, OrphanExpire, RemoveQueue, DeleteState, MemoryOK, PeekForDrain
<1>6. RestTypeOK' /\ AnswersKept
  BY <1>1, <1>3, <1>4 DEF RestTypeOK, AnswersKept
<1>7. MemoryOK'
  BY <1>1, <1>4, <1>5 DEF MemoryOK, up
<1>8. OwnersOK' /\ AnchorKept'
  BY <1>1, <1>2 DEF OwnersOK, AnchorKept, Answered, up, Goroutines
<1>9. \A j \in RJobs : (Answered(j)' <=> Answered(j)) /\ \A v \in RWorkers : Waits(j, v)' <=> Waits(j, v)
  BY <1>1 DEF Answered, Waits
<1>10. QueuesFound' /\ DrainsAll'
  <2>1. CASE DeleteState(w)
    <3>1. /\ removing[w] = "state" /\ UNCHANGED <<devQ, present, joining, todo, unborn>>
          /\ removing' = [removing EXCEPT ![w] = "no"] /\ qstate' = qstate \ {w}
          /\ stripped' = IF w \in present THEN stripped \cup {w} ELSE stripped \ {w}
      BY <2>1 DEF DeleteState
    <3>2. CASE w \in present
      <4>1. Known \subseteq Known'
        BY <3>1, <3>2 DEF Known
      <4>2. QueuesFound'
        BY <1>1, <1>9, <4>1 DEF QueuesFound
      <4>3. DrainsAll'
        BY <1>9, <3>1, <4>1 DEF DrainsAll, MemoryOK
      <4> QED BY <4>2, <4>3
    <3>3. CASE w \notin present
      <4>1. Known \ {w} \subseteq Known'
        BY <3>1 DEF Known
      <4>2. w \notin devQ /\ \A j \in RJobs : ~Waits(j, w)
        BY <3>1, <3>3 DEF DrainsAll
      <4>3. QueuesFound'
        BY <1>1, <1>9, <4>1, <4>2 DEF QueuesFound, Waits
      <4>4. DrainsAll'
        BY <1>9, <3>1, <4>1, <4>2 DEF DrainsAll, MemoryOK
      <4> QED BY <4>3, <4>4
    <3> QED BY <3>2, <3>3
  <2>2. CASE UpsertState(w)
    <3>1. Known' = Known /\ UNCHANGED <<devQ, present, removing, todo>>
      BY <2>2 DEF UpsertState, Known
    <3>2. QueuesFound'
      BY <1>1, <1>9, <3>1 DEF QueuesFound
    <3>3. DrainsAll'
      BY <1>9, <3>1 DEF DrainsAll
    <3> QED BY <3>2, <3>3
  <2>3. CASE Join(w)
    <3>1. /\ Known' = Known \cup {w} /\ devQ' = devQ \cup {w} /\ present' = present \cup {w}
          /\ UNCHANGED <<removing, todo>>
      BY <2>3 DEF Join, Known
    <3>2. QueuesFound'
      BY <1>1, <1>9, <3>1 DEF QueuesFound
    <3>3. DrainsAll'
      BY <1>9, <3>1 DEF DrainsAll
    <3> QED BY <3>2, <3>3
  <2>4. CASE Leave(w) \/ OrphanExpire(w)
    <3>1. /\ UNCHANGED <<qstate, joining, unborn, stripped, devQ>> /\ PeekForDrain(w)
          /\ removing[w] = "no" /\ present' = present \ {w}
      BY <2>4 DEF Leave, OrphanExpire
    <3>2. Known' = Known
      BY <3>1 DEF Known
    <3>3. QueuesFound'
      BY <1>1, <1>9, <3>2 DEF QueuesFound
    <3>4. ASSUME NEW v \in RWorkers \ present'
          PROVE  /\ removing'[v] = "drain" => \A j \in RJobs : Waits(j, v) => j \in todo'[v]
                 /\ removing'[v] = "state" => v \notin devQ /\ \A j \in RJobs : ~Waits(j, v)
      <4>1. CASE v = w
        BY <3>1, <4>1 DEF PeekForDrain, MemoryOK, Waits
      <4>2. CASE v # w
        BY <3>1, <4>2 DEF PeekForDrain, MemoryOK, DrainsAll
      <4> QED BY <4>1, <4>2
    <3>5. DrainsAll'
      BY <1>9, <3>1, <3>2, <3>4 DEF DrainsAll
    <3> QED BY <3>3, <3>5
  <2>5. CASE RemoveQueue(w)
    <3>1. /\ UNCHANGED <<qstate, joining, unborn, stripped, present, todo>> /\ todo[w] = {}
          /\ removing[w] = "drain" /\ removing' = [removing EXCEPT ![w] = "state"] /\ devQ' = devQ \ {w}
      BY <2>5 DEF RemoveQueue
    <3>2. Known' = Known
      BY <3>1 DEF Known
    <3>3. QueuesFound'
      BY <1>1, <1>9, <3>2 DEF QueuesFound
    <3>4. DrainsAll'
      BY <1>9, <3>1, <3>2 DEF DrainsAll, MemoryOK
    <3> QED BY <3>3, <3>4
  <2>6. CASE OrphanTrack(w)
    <3>1. UNCHANGED <<qstate, joining, unborn, stripped, present, todo, removing, devQ>>
      BY <2>6 DEF OrphanTrack
    <3>2. RowsKept
      BY <1>1, <1>9 DEF RowsKept
    <3> QED BY <3>1, <3>2, QueuesStay
  <2> QED BY <2>1, <2>2, <2>3, <2>4, <2>5, <2>6
<1>11. QED
  BY <1>1, <1>6, <1>7, <1>8, <1>10

\* Every step keeps the invariant and every answer.
LEMMA RestStep ==
  ASSUME RestIInv, [RestNext]_restVars
  PROVE  RestIInv' /\ AnswersKept
<1>1. CASE Crash
  BY <1>1, CrashStep
<1>2. CASE Boot \/ Recover
  BY <1>2, StartStep
<1>3. ASSUME NEW j \in RJobs, LeaseRunsOut(j) PROVE RestIInv' /\ AnswersKept
  BY <1>3, LeaseRunsOutStep
<1>4. ASSUME NEW j \in RJobs, ReapFail(j) \/ ReapDelete(j) PROVE RestIInv' /\ AnswersKept
  BY <1>4, ReapStep
<1>5. ASSUME NEW j \in RJobs,
             CreateResult(j) \/ SubmitGlobal(j) \/ LeaseRow(j) \/ StoreResult(j) \/ FinishRows(j) \/ Resubmit(j)
      PROVE  RestIInv' /\ AnswersKept
  BY <1>5, JobStep
<1>6. ASSUME NEW j \in RJobs, NEW w \in RWorkers, Place(j, w) PROVE RestIInv' /\ AnswersKept
  BY <1>6, PlaceStep
<1>7. ASSUME NEW j \in RJobs, NEW w \in RWorkers, DrainRow(w, j) PROVE RestIInv' /\ AnswersKept
  BY <1>7, DrainRowStep
<1>8. ASSUME NEW w \in RWorkers,
             Join(w) \/ UpsertState(w) \/ Leave(w) \/ OrphanTrack(w) \/ OrphanExpire(w) \/ RemoveQueue(w) \/ DeleteState(w)
      PROVE  RestIInv' /\ AnswersKept
  BY <1>8, QueueStep
<1>9. CASE UNCHANGED restVars
  <2>1. UNCHANGED <<durable, memory, flaws, mode, accepted>>
    BY <1>9 DEF restVars
  <2>2. RowsKept
    BY <2>1 DEF durable, RowsKept, Answered
  <2>3. QueuesFound' /\ DrainsAll'
    BY <2>1, <2>2, QueuesStay DEF durable, memory, flaws
  <2> QED
    BY <2>1, <2>3 DEF durable, memory, flaws, RestIInv, RestTypeOK, AnswersKept, MemoryOK, OwnersOK, AnchorKept,
                      Answered, up
<1>10. QED
  BY <1>1, <1>2, <1>3, <1>4, <1>5, <1>6, <1>7, <1>8, <1>9 DEF RestNext

\* The inductive invariant of crash and restart (scheduler.go, sweeper.go).
THEOREM RestartInvariant == RestSpec => []RestIInv
<1>1. RestInit => RestIInv
  BY RestartAssumption DEF RestInit, RestIInv, RestTypeOK, MemoryOK, OwnersOK, AnchorKept, QueuesFound, DrainsAll, Goroutines, NoRow
<1>2. RestIInv /\ [RestNext]_restVars => RestIInv'
  BY RestStep
<1>3. QED
  BY <1>1, <1>2, PTL DEF RestSpec

\* An accepted job can be found after any number of crashes: until it is answered it
\* keeps its anchor, or a crash tore its requeue, and its worker row is on a queue
\* with a stored state, or on that of a worker that was connecting at a crash or
\* came back under the removal of its queue.
THEOREM JobsSurvive == RestSpec => []JobsSurviveCrash
<1>1. RestIInv => JobsSurviveCrash
  BY DEF RestIInv, JobsSurviveCrash, AnchorKept, QueuesFound, Known
<1>2. QED
  BY <1>1, RestartInvariant, PTL

\* No answer in the result store is ever replaced: not by the reap of a start,
\* not by a drain, not by a second dispatch.
THEOREM AnswersSurvive == RestSpec => AnswersSurviveCrash
<1>1. RestIInv /\ [RestNext]_restVars => [\A j \in RJobs : Answered(j) => result'[j] = result[j]]_restVars
  BY RestStep DEF AnswersKept
<1>2. QED
  BY <1>1, RestartInvariant, PTL DEF RestSpec, AnswersSurviveCrash

-----------------------------------------------------------------------------
(* The batches of a drain.  Before it peeks, a drain has counted the jobs  *)
(* in flight and read the advertised slots; only the drain adds to the     *)
(* jobs in flight, so the count can only be too high.  From the peek on    *)
(* the rows of the batch and the jobs in flight share the pool.            *)

In == Cardinality(dinflight)

BeatOK == beat.available = 0 \/ beat.available + beat.active <= Pool

BatchOK ==
  /\ drainer.at \in {"available", "capacity"} => In <= drainer.inflight
  /\ drainer.at = "capacity" => tornRead \/ drainer.available = beat.available
  /\ drainer.at \in {"rows", "load"} => tornRead \/ Cardinality(drainer.rows) + In <= Pool

\* The inductive invariant of the drain.
DrainIInv == DrainTypeOK /\ busy \subseteq dinflight /\ BeatOK /\ BatchOK /\ PoolRespected

\* Max and Min of two integers.
LEMMA MaxOfTwo ==
  ASSUME NEW m \in Int, NEW n \in Int
  PROVE  Max({m, n}) \in {m, n} /\ Max({m, n}) >= m /\ Max({m, n}) >= n
<1>1. \E x \in {m, n} : \A y \in {m, n} : x >= y
  <2>1. CASE m >= n
    BY <2>1
  <2>2. CASE n >= m
    BY <2>2
  <2>3. QED
    BY <2>1, <2>2
<1>2. QED
  BY <1>1 DEF Max

\* The minimum of two integers.
LEMMA MinOfTwo ==
  ASSUME NEW m \in Int, NEW n \in Int
  PROVE  Min({m, n}) \in {m, n} /\ Min({m, n}) <= m /\ Min({m, n}) <= n
<1>1. \E x \in {m, n} : \A y \in {m, n} : x <= y
  <2>1. CASE m <= n
    BY <2>1
  <2>2. CASE n <= m
    BY <2>2
  <2>3. QED
    BY <2>1, <2>2
<1>2. QED
  BY <1>1 DEF Min

\* A set of the worker's jobs is finite and counted.
LEMMA JobSets ==
  ASSUME NEW T \in SUBSET DJobs
  PROVE  IsFiniteSet(T) /\ Cardinality(T) \in 0..Cardinality(DJobs) /\ Cardinality(DJobs) \in Nat
<1>1. IsFiniteSet(DJobs)
  BY DrainAssumption
<1>2. IsFiniteSet(T) /\ Cardinality(T) <= Cardinality(DJobs)
  BY <1>1, FS_Subset
<1>3. QED
  BY <1>1, <1>2, FS_CardinalityType

\* A subset is not larger, and a job that leaves or joins a set counts for one.
LEMMA JobCounts ==
  ASSUME NEW T \in SUBSET DJobs, NEW j \in DJobs
  PROVE  /\ \A U \in SUBSET T : Cardinality(U) <= Cardinality(T)
         /\ Cardinality(T \ {j}) = IF j \in T THEN Cardinality(T) - 1 ELSE Cardinality(T)
         /\ Cardinality(T \cup {j}) = IF j \in T THEN Cardinality(T) ELSE Cardinality(T) + 1
<1>1. IsFiniteSet(T)
  BY JobSets
<1>2. QED
  BY <1>1, FS_Subset, FS_RemoveElement, FS_AddElement

\* The loop and the benchmark's gate: no job and no reading changes.
LEMMA LoopStep ==
  ASSUME DrainIInv,
         Receive \/ SlowTicker \/ drainDeviceQueues \/ finishDraining \/ benchGateHeld \/ holdGate \/ releaseGate
  PROVE  DrainIInv'
<1> USE DEF DrainIInv, jobVars, loopVars, Receive, SlowTicker, drainDeviceQueues, finishDraining, benchGateHeld,
            holdGate, releaseGate
<1>1. UNCHANGED <<drow, dinflight, busy, pooled, loadFailures, beat, tornRead>>
  OBVIOUS
<1>2. /\ drainer'.at \in {"none", "gate", "exit", "inflight"} \/ drainer' = drainer
      /\ drainer' \in [at : {"none", "gate", "inflight", "available", "capacity", "rows", "load", "exit"},
                       inflight : 0..Cardinality(DJobs), available : 0..Pool, rows : SUBSET DJobs]
  <2>1. Cardinality(DJobs) \in Nat /\ Pool \in Nat
    BY JobSets, DrainAssumption
  <2>2. NoDrain \in [at : {"none", "gate", "inflight", "available", "capacity", "rows", "load", "exit"},
                     inflight : 0..Cardinality(DJobs), available : 0..Pool, rows : SUBSET DJobs]
    BY <2>1 DEF NoDrain
  <2>3. QED
    BY <2>2 DEF DrainTypeOK, NoDrain
<1>3. wake' \in BOOLEAN /\ notify' \in BOOLEAN /\ loop' \in {"pass", "select"}
      /\ draining' \in {"none", "clean", "skipped"} /\ gate' \in BOOLEAN /\ benches' \in 0..MaxBenches
  <2>1. wake' \in BOOLEAN /\ notify' \in BOOLEAN
    BY Zenon DEF DrainTypeOK, Wakes, Kick
  <2>2. loop' \in {"pass", "select"} /\ draining' \in {"none", "clean", "skipped"} /\ gate' \in BOOLEAN
    BY DEF DrainTypeOK, tryMarkDraining
  <2>3. benches' \in 0..MaxBenches
    BY DrainAssumption DEF DrainTypeOK
  <2>4. QED
    BY <2>1, <2>2, <2>3
<1>4. DrainTypeOK'
  BY <1>1, <1>2, <1>3 DEF DrainTypeOK
<1>5. BeatOK' /\ PoolRespected' /\ busy' \subseteq dinflight'
  BY <1>1 DEF BeatOK, PoolRespected
<1>6. BatchOK'
  BY <1>1, <1>2 DEF BatchOK, In
<1>7. QED
  BY <1>4, <1>5, <1>6

\* The drain counts the jobs in flight and reads the advertised slots.
LEMMA ReadStep ==
  ASSUME DrainIInv, CountInflight \/ ReadAvailable
  PROVE  DrainIInv'
<1> USE DEF DrainIInv, jobVars, loopVars, CountInflight, ReadAvailable
<1>1. dinflight \in SUBSET DJobs /\ Cardinality(dinflight) \in 0..Cardinality(DJobs)
  BY JobSets DEF DrainTypeOK
<1>2. DrainTypeOK'
  BY <1>1, ZenonT(60) DEF DrainTypeOK, inflightCountForWorker
<1>3. BeatOK' /\ PoolRespected' /\ busy' \subseteq dinflight'
  BY DEF BeatOK, PoolRespected
<1>4. BatchOK'
  <2>1. CASE CountInflight
    BY <1>1, <2>1 DEF BatchOK, In, DrainTypeOK, inflightCountForWorker
  <2>2. CASE ReadAvailable
    BY <1>1, <2>2 DEF BatchOK, In, DrainTypeOK
  <2>3. QED
    BY <2>1, <2>2
<1>5. QED
  BY <1>2, <1>3, <1>4

\* The peek: what the batch adds fits beside the jobs in flight.
LEMMA PeekStep ==
  ASSUME DrainIInv, PeekBatch
  PROVE  DrainIInv'
<1> USE DEF DrainIInv, jobVars, loopVars
<1> DEFINE n == Min({BatchSize, Cardinality(QueuedRows)})
<1>1. dinflight \in SUBSET DJobs /\ In \in Nat /\ Pool \in Nat /\ Pool > 0 /\ Cardinality(DJobs) \in Nat
  BY JobSets, DrainAssumption DEF DrainTypeOK, In
<1>2. QueuedRows \in SUBSET DJobs /\ Cardinality(QueuedRows) \in Nat
  BY JobSets DEF QueuedRows
<1>3. /\ beat.available \in Nat /\ beat.available <= Pool /\ beat.active \in Nat
      /\ drainer.available \in Nat /\ drainer.inflight \in Nat
  BY <1>1 DEF DrainTypeOK
<1>0. Max({0, In - beat.active}) \in Int /\ Max({0, In - beat.active}) >= 0
      /\ Max({0, In - beat.active}) >= In - beat.active
  <2>1. In - beat.active \in Int /\ 0 \in Int
    BY <1>1, <1>3
  <2>2. /\ Max({0, In - beat.active}) \in {0, In - beat.active}
        /\ Max({0, In - beat.active}) >= 0 /\ Max({0, In - beat.active}) >= In - beat.active
    BY <2>1, MaxOfTwo
  <2>3. QED
    BY <2>1, <2>2
<1>8. effectiveCapacity \in Int /\ 1 \in Int
  BY <1>0, <1>3 DEF effectiveCapacity, inflightCountForWorker, In
<1>9. Max({effectiveCapacity, 1}) \in {effectiveCapacity, 1} /\ Max({effectiveCapacity, 1}) >= 1
  BY <1>8, MaxOfTwo
<1>10. BatchSize \in Int
  BY <1>8, <1>9 DEF BatchSize
<1>11. n \in {BatchSize, Cardinality(QueuedRows)} /\ n <= BatchSize
  <2>1. Cardinality(QueuedRows) \in Int
    BY <1>2
  <2>2. QED
    BY <1>10, <2>1, MinOfTwo
<1>12. n \in Int
  BY <1>2, <1>10, <1>11
<1>4. UNCHANGED <<drow, dinflight, busy, pooled, loadFailures, beat, tornRead, wake, notify, loop, draining, gate, benches>>
  BY DEF PeekBatch
<1> HIDE DEF n
<1>5. CASE drainer' = [drainer EXCEPT !.at = "exit"]
  <2>1. DrainTypeOK'
    BY <1>4, <1>5 DEF DrainTypeOK
  <2>2. BatchOK'
    BY <1>5 DEF BatchOK, DrainTypeOK
  <2>3. QED
    BY <1>4, <2>1, <2>2 DEF BeatOK, PoolRespected
<1>6. ASSUME BatchSize > 0,
             NEW rows \in kSubset(n, QueuedRows), drainer' = [drainer EXCEPT !.at = "rows", !.rows = rows]
      PROVE  DrainIInv'
  <2>1. rows \in SUBSET DJobs /\ Cardinality(rows) = n
    BY <1>2, <1>6 DEF kSubset
  <2>2. DrainTypeOK'
    BY <1>4, <1>6, <2>1 DEF DrainTypeOK
  <2>3. Max({0, In - beat.active}) \in Int /\ Max({0, In - beat.active}) >= 0
        /\ Max({0, In - beat.active}) >= In - beat.active
    BY <1>0
  <2>4. effectiveCapacity = drainer.available - Max({0, In - beat.active}) /\ effectiveCapacity \in Int
    BY <1>3, <2>3 DEF effectiveCapacity, inflightCountForWorker, In
  <2>5. BatchSize \in Int /\ n <= BatchSize
    BY <1>10, <1>11
  <2>6. tornRead \/ n + In <= Pool
    <3> SUFFICES ASSUME ~tornRead PROVE n + In <= Pool
      OBVIOUS
    <3>1. drainer.available = beat.available /\ In <= drainer.inflight
      BY DEF BatchOK, PeekBatch
    <3>2. CASE drainer.inflight = 0
      <4>1. In = 0
        BY <1>1, <3>1, <3>2
      <4>2. BatchSize \in {effectiveCapacity, 1}
        BY <1>9, <3>2 DEF BatchSize
      <4>3. BatchSize <= Pool
        BY <1>1, <1>3, <2>3, <2>4, <3>1, <4>2
      <4>4. n \in Int
        BY <1>12
      <4>5. QED
        BY <1>1, <2>5, <4>1, <4>3, <4>4
    <3>3. CASE drainer.inflight # 0
      <4>1. BatchSize = effectiveCapacity
        BY <3>3 DEF BatchSize
      <4>2. beat.available # 0
        BY <1>3, <1>6, <2>3, <2>4, <3>1, <4>1
      <4>3. beat.available + beat.active <= Pool
        BY <4>2 DEF BeatOK
      <4>4. n \in Int
        BY <1>12
      <4>5. effectiveCapacity + In <= Pool
        BY <1>1, <1>3, <2>3, <2>4, <3>1, <4>3
      <4>6. QED
        BY <1>1, <2>4, <2>5, <4>1, <4>4, <4>5
    <3>4. QED
      BY <3>2, <3>3
  <2>7. drainer'.at = "rows" /\ drainer'.rows = rows
    BY <1>6 DEF DrainTypeOK
  <2>8. BatchOK'
    BY <1>4, <2>1, <2>6, <2>7 DEF BatchOK, In
  <2>9. QED
    BY <1>4, <2>2, <2>8 DEF BeatOK, PoolRespected
<1>7. QED
  <2>1. BatchSize <= 0 \/ BatchSize > 0
    BY <1>10
  <2>2. QED
    BY <1>5, <1>6, <2>1 DEF PeekBatch, n

\* The rows of the batch: one that is dispatched moves from the batch to the
\* jobs in flight, the others only leave the batch.
LEMMA BatchStep ==
  ASSUME DrainIInv,
         LeaseNext \/ \E j \in DJobs : DispatchRow(j) \/ releaseLeaseForRetry(j) \/ LoadFails(j)
  PROVE  DrainIInv'
<1> USE DEF DrainIInv, loopVars
<1>1. /\ dinflight \in SUBSET DJobs /\ In \in Nat /\ Pool \in Nat
      /\ drainer.rows \in SUBSET DJobs /\ Cardinality(drainer.rows) \in Nat
  BY JobSets, DrainAssumption DEF DrainTypeOK, In
<1>2. CASE LeaseNext
  <2> USE <1>2 DEF LeaseNext
  <2>1. DrainTypeOK'
    BY DEF DrainTypeOK
  <2>2. drainer'.at \in {"exit", "rows", "load"} /\ drainer'.rows \in SUBSET drainer.rows
    BY DEF DrainTypeOK
  <2>3. Cardinality(drainer'.rows) <= Cardinality(drainer.rows) /\ Cardinality(drainer'.rows) \in Nat
    BY <1>1, <2>1, <2>2, FS_Subset, JobSets DEF DrainTypeOK
  <2>4. BatchOK'
    BY <1>1, <2>2, <2>3 DEF BatchOK, In
  <2>5. QED
    BY <2>1, <2>4 DEF BeatOK, PoolRespected
<1>3. ASSUME NEW j \in DJobs, Taken(j), NextRow(j), UNCHANGED <<beat, tornRead, gate, benches, loop, draining, notify>>,
             drow' \in [DJobs -> {"absent", "queued", "leased", "deferred", "gone"}],
             wake' \in BOOLEAN, pooled' \in BOOLEAN, loadFailures' \in 0..MaxLoadFailures,
             \/ UNCHANGED <<dinflight, busy>>
             \/ dinflight' = dinflight \cup {j} /\ busy' = busy \cup {j}
      PROVE  DrainIInv'
  <2>1. drainer'.at = "rows" /\ drainer'.rows = drainer.rows \ {j} /\ drainer.at = "load" /\ j \in drainer.rows
        /\ j \notin dinflight
    BY <1>3 DEF NextRow, Taken, DrainTypeOK
  <2>2. DrainTypeOK' /\ busy' \subseteq dinflight'
    BY <1>3 DEF DrainTypeOK, NextRow
  <2>3. Cardinality(drainer'.rows) = Cardinality(drainer.rows) - 1
    BY <1>1, <2>1, JobCounts
  <2>4. Cardinality(dinflight') \in {In, In + 1}
    BY <1>1, <1>3, <2>1, JobCounts DEF In
  <2>5. tornRead \/ Cardinality(drainer.rows) + In <= Pool
    BY <2>1 DEF BatchOK
  <2>6. tornRead \/ Cardinality(drainer'.rows) + Cardinality(dinflight') <= Pool
    BY <1>1, <2>3, <2>4, <2>5
  <2>7. Cardinality(drainer.rows) >= 1
    <3>1. Cardinality(drainer.rows) - 1 \in Nat
      <4>1. drainer.rows \ {j} \in SUBSET DJobs
        BY <1>1
      <4>2. Cardinality(drainer.rows \ {j}) \in Nat
        BY <4>1, JobSets
      <4>3. QED
        BY <2>1, <2>3, <4>2
    <3>2. QED
      BY <1>1, <3>1
  <2>8. BatchOK' /\ PoolRespected' /\ BeatOK'
    BY <1>1, <1>3, <2>1, <2>3, <2>4, <2>6, <2>7 DEF BatchOK, In, PoolRespected, BeatOK
  <2>9. QED
    BY <2>2, <2>8
<1>4. ASSUME NEW j \in DJobs, DispatchRow(j) PROVE DrainIInv'
  <2>1. /\ Taken(j) /\ NextRow(j) /\ UNCHANGED <<beat, tornRead, gate, benches, loop, draining, notify>>
        /\ drow' = drow /\ wake' = wake /\ pooled' = TRUE /\ loadFailures' = loadFailures
        /\ dinflight' = dinflight \cup {j} /\ busy' = busy \cup {j}
    BY <1>4 DEF DispatchRow
  <2>2. QED
    BY <1>3, <2>1 DEF DrainTypeOK
<1>5. ASSUME NEW j \in DJobs, releaseLeaseForRetry(j) PROVE DrainIInv'
  <2>1. /\ Taken(j) /\ NextRow(j) /\ UNCHANGED <<beat, tornRead, gate, benches, loop, draining, notify>>
        /\ drow' = [drow EXCEPT ![j] = "deferred"] /\ wake' = wake /\ pooled' = pooled /\ loadFailures' = loadFailures
        /\ UNCHANGED <<dinflight, busy>>
    BY <1>5 DEF releaseLeaseForRetry
  <2>2. QED
    BY <1>3, <2>1 DEF DrainTypeOK
<1>6. ASSUME NEW j \in DJobs, LoadFails(j) PROVE DrainIInv'
  <2>1. /\ Taken(j) /\ NextRow(j) /\ UNCHANGED <<beat, tornRead, gate, benches, loop, draining, notify>>
        /\ drow' = [drow EXCEPT ![j] = "absent"] /\ wake' = TRUE /\ pooled' = pooled
        /\ loadFailures' = loadFailures + 1 /\ loadFailures < MaxLoadFailures
        /\ UNCHANGED <<dinflight, busy>>
    BY <1>6 DEF LoadFails, Kick
  <2>2. QED
    BY <1>3, <2>1, DrainAssumption DEF DrainTypeOK
<1>7. QED
  BY <1>2, <1>4, <1>5, <1>6

\* The worker and the pumps: jobs in flight only go away.
LEMMA WorkerStep ==
  ASSUME DrainIInv, NEW j \in DJobs, PlaceRow(j) \/ DeferralEnds(j) \/ WorkerFinishes(j) \/ PumpEnds(j)
  PROVE  DrainIInv'
<1> USE DEF DrainIInv, loopVars, PlaceRow, DeferralEnds, WorkerFinishes, PumpEnds, Kick
<1>1. DrainTypeOK' /\ busy' \subseteq dinflight'
  BY ZenonT(60) DEF DrainTypeOK
<1>2. /\ In \in Nat /\ In' \in Nat /\ In' <= In /\ Pool \in Nat
      /\ drainer' = drainer /\ beat' = beat /\ tornRead' = tornRead
  <2>1. dinflight \in SUBSET DJobs /\ dinflight' \in SUBSET DJobs /\ dinflight' \in SUBSET dinflight
    BY DEF DrainTypeOK
  <2>2. In' <= In
    BY <2>1, JobSets, FS_Subset DEF In
  <2>3. QED
    BY <2>1, <2>2, JobSets, DrainAssumption DEF In
<1>3. Cardinality(drainer.rows) \in Nat /\ drainer.inflight \in Nat
  BY JobSets DEF DrainTypeOK
<1>4. BeatOK' /\ PoolRespected'
  BY <1>2 DEF BeatOK, PoolRespected, In
<1>5. BatchOK'
  BY <1>2, <1>3 DEF BatchOK
<1>6. QED
  BY <1>1, <1>4, <1>5

\* A heartbeat advertises what the busy jobs leave of the pool; one that lands
\* between the two reads of a drain is noted.
LEMMA HeartbeatStep ==
  ASSUME DrainIInv, Heartbeat
  PROVE  DrainIInv'
<1> USE DEF DrainIInv, loopVars, jobVars, Heartbeat
<1>1. busy \in SUBSET DJobs /\ Cardinality(busy) \in 0..Cardinality(DJobs) /\ Cardinality(DJobs) \in Nat /\ Pool \in Nat
  BY JobSets, DrainAssumption DEF DrainTypeOK
<1>2. /\ Max({0, Pool - Cardinality(busy)}) \in {0, Pool - Cardinality(busy)}
      /\ Max({0, Pool - Cardinality(busy)}) >= 0
  <2>1. Pool - Cardinality(busy) \in Int /\ 0 \in Int
    BY <1>1
  <2>2. QED
    BY <2>1, MaxOfTwo
<1>3. beat'.available \in 0..Pool /\ beat'.active = Cardinality(busy)
      /\ (beat'.available = 0 \/ beat'.available + beat'.active <= Pool)
  BY <1>1, <1>2
<1>4. beat' \in [available : 0..Pool, active : 0..Cardinality(DJobs)]
  BY <1>1, <1>2
<1>5. DrainTypeOK'
  BY <1>4 DEF DrainTypeOK
<1>6. BeatOK' /\ PoolRespected'
  BY <1>3 DEF BeatOK, PoolRespected
<1>7. BatchOK'
  BY DEF BatchOK, In
<1>8. QED
  BY <1>5, <1>6, <1>7

\* The inductive invariant of the drain (scheduler.go, drainDeviceQueue).
THEOREM DrainInvariant == DrainSpec => []DrainIInv
<1>1. DrainInit => DrainIInv
  <2> SUFFICES ASSUME DrainInit PROVE DrainIInv
    OBVIOUS
  <2>1. Cardinality({}) = 0 /\ Cardinality(DJobs) \in Nat /\ Pool \in Nat /\ MaxLoadFailures \in Nat /\ MaxBenches \in Nat
    BY JobSets, FS_EmptySet, DrainAssumption
  <2>2. DrainTypeOK
    <3>1. drainer \in [at : {"none", "gate", "inflight", "available", "capacity", "rows", "load", "exit"},
                       inflight : 0..Cardinality(DJobs), available : 0..Pool, rows : SUBSET DJobs]
      BY <2>1 DEF DrainInit, NoDrain
    <3>2. beat \in [available : 0..Pool, active : 0..Cardinality(DJobs)]
      BY <2>1 DEF DrainInit
    <3>3. loadFailures \in 0..MaxLoadFailures /\ benches \in 0..MaxBenches
      BY <2>1 DEF DrainInit
    <3>4. QED
      BY <3>1, <3>2, <3>3 DEF DrainInit, DrainTypeOK
  <2>3. QED
    BY <2>1, <2>2 DEF DrainInit, DrainIInv, BeatOK, BatchOK, PoolRespected, NoDrain
<1>2. DrainIInv /\ [DrainNext]_drainVars => DrainIInv'
  <2> SUFFICES ASSUME DrainIInv, [DrainNext]_drainVars PROVE DrainIInv'
    OBVIOUS
  <2>1. CASE Receive \/ SlowTicker \/ drainDeviceQueues \/ finishDraining \/ benchGateHeld \/ holdGate \/ releaseGate
    BY <2>1, LoopStep
  <2>2. CASE CountInflight \/ ReadAvailable
    BY <2>2, ReadStep
  <2>3. CASE PeekBatch
    BY <2>3, PeekStep
  <2>4. CASE LeaseNext \/ \E j \in DJobs : DispatchRow(j) \/ releaseLeaseForRetry(j) \/ LoadFails(j)
    BY <2>4, BatchStep
  <2>5. CASE Heartbeat
    BY <2>5, HeartbeatStep
  <2>6. ASSUME NEW j \in DJobs, PlaceRow(j) \/ DeferralEnds(j) \/ WorkerFinishes(j) \/ PumpEnds(j) PROVE DrainIInv'
    BY <2>6, WorkerStep
  <2>7. CASE UNCHANGED drainVars
    BY <2>7 DEF drainVars, loopVars, jobVars, DrainIInv, DrainTypeOK, BeatOK, BatchOK, In, PoolRespected
  <2>8. QED
    BY <2>1, <2>2, <2>3, <2>4, <2>5, <2>6, <2>7 DEF DrainNext, LoopRuns, DrainerRuns
<1>3. QED
  BY <1>1, <1>2, PTL DEF DrainSpec

\* A burst stays within the worker's pool, whatever the heartbeat's age, unless
\* a heartbeat fell between the two reads of effectiveCapacity.
THEOREM BurstFits == DrainSpec => []PoolRespected
<1>1. DrainIInv => PoolRespected
  BY DEF DrainIInv
<1>2. QED
  BY <1>1, DrainInvariant, PTL

-----------------------------------------------------------------------------
(* The body of a queue row (Envelope).                                     *)

Cells == Seq(Int)

\* An envelope, whatever it carries.
EnvelopeType ==
  [prio : Int, attempts : Int, cost : Int, secs : Int, headroom : Int32s,
   runtime : Cells, model : Cells, source : Cells, reqId : Cells, gmid : Cells,
   files : Int, hints : Cells, payload : Cells]

\* Two sequences of cells joined, and three in either order.
LEMMA Joined ==
  ASSUME NEW s \in Cells, NEW t \in Cells
  PROVE  /\ s \o t \in Cells /\ Len(s) \in Nat /\ Len(t) \in Nat /\ Len(s \o t) = Len(s) + Len(t)
         /\ \A i \in 1..Len(s) : (s \o t)[i] = s[i]
         /\ \A i \in 1..Len(t) : (s \o t)[Len(s) + i] = t[i]
BY DEF Cells

\* Two joins in a row are the same from either end.
Joins(P, s, R) == (P \o s) \o R = P \o (s \o R)

\* Concatenation is associative, in the opaque form the reads cite.
LEMMA Joining ==
  ASSUME NEW P \in Cells, NEW s \in Cells, NEW R \in Cells
  PROVE  Joins(P, s, R)
<1>1. P \in Seq(Int) /\ s \in Seq(Int) /\ R \in Seq(Int)
  BY DEF Cells
<1>2. (P \o s) \o R = P \o (s \o R)
  BY <1>1, ConcatAssociative, SMTT(30)
<1> QED BY <1>2 DEF Joins

\* A single cell is a sequence of cells.
LEMMA OneCell == ASSUME NEW x \in Int PROVE <<x>> \in Cells /\ Len(<<x>>) = 1 /\ <<x>>[1] = x
BY DEF Cells

\* What stands between two parts of a sequence.
LEMMA Middle ==
  ASSUME NEW P \in Cells, NEW s \in Cells, NEW R \in Cells
  PROVE  /\ P \o (s \o R) \in Cells /\ Len(P \o (s \o R)) = Len(P) + Len(s) + Len(R)
         /\ SubSeq(P \o (s \o R), Len(P) + 1, Len(P) + Len(s)) = s
<1>0. PICK T : T = s \o R
  OBVIOUS
<1>1. /\ T \in Cells /\ Len(s) \in Nat /\ Len(R) \in Nat /\ Len(T) = Len(s) + Len(R)
      /\ \A i \in 1..Len(s) : T[i] = s[i]
  BY <1>0, Joined, Zenon
<1>20. PICK D : D = P \o T
  OBVIOUS
<1>2. /\ D \in Cells /\ Len(P) \in Nat /\ Len(D) = Len(P) + Len(T)
      /\ \A i \in 1..Len(T) : D[Len(P) + i] = T[i]
  <2>1. T \in Cells
    BY <1>1
  <2> QED BY <1>20, <2>1, Joined, ZenonT(40)
<1>3. PICK U : U = SubSeq(D, Len(P) + 1, Len(P) + Len(s))
  OBVIOUS
<1>4. U \in Cells /\ Len(U) = Len(s) /\ \A i \in 1..Len(s) : U[i] = D[Len(P) + i]
  <2>1. D \in Seq(Int) /\ Len(D) = Len(P) + Len(s) + Len(R) /\ Len(P) \in Nat
    BY <1>1, <1>2 DEF Cells
  <2>2. \A i \in Len(P) + 1..Len(P) + Len(s) : D[i] \in Int
    BY <1>1, <2>1
  <2>3. Len(P) + 1 \in Int /\ Len(P) + Len(s) \in Int
    BY <1>1, <2>1
  <2> DEFINE m == Len(P) + 1
             n == Len(P) + Len(s)
  <2>4. m \in Int /\ n \in Int /\ n - m + 1 = Len(s) /\ (n < m => Len(s) = 0) /\ \A i \in m..n : D[i] \in Int
    BY <1>1, <2>1, <2>2, <2>3
  <2>5. \A i \in 1..Len(s) : m + i - 1 = Len(P) + i
    BY <1>1, <2>1
  <2>6. U = SubSeq(D, m, n)
    BY <1>3
  <2> HIDE DEF m, n
  <2>7. /\ SubSeq(D, m, n) \in Seq(Int) /\ Len(SubSeq(D, m, n)) = IF m <= n THEN n - m + 1 ELSE 0
        /\ \A i \in 1..n - m + 1 : SubSeq(D, m, n)[i] = D[m + i - 1]
    BY <2>4, SubSeqProperties
  <2>8. Len(SubSeq(D, m, n)) = Len(s)
    BY <2>4, <2>7
  <2> QED BY <2>4, <2>5, <2>6, <2>7, <2>8 DEF Cells
<1>5. ASSUME NEW i \in 1..Len(s) PROVE U[i] = s[i]
  <2>1. i \in 1..Len(T)
    BY <1>1
  <2> QED BY <1>1, <1>2, <1>4, <2>1
<1>6. U = s
  <2>1. \A i \in 1..Len(U) : U[i] = s[i]
    BY <1>4, <1>5
  <2>2. U \in Seq(Int) /\ s \in Seq(Int) /\ Len(U) = Len(s)
    BY <1>4 DEF Cells
  <2> QED BY <2>1, <2>2, SeqEqual
<1>7. Len(D) = Len(P) + Len(s) + Len(R)
  BY <1>1, <1>2
<1> QED BY <1>0, <1>20, <1>2, <1>3, <1>6, <1>7, Zenon

\* A field behind P: the cells of its length, c, and what it holds, s.
Field(P, c, s, R) == P \o ((c \o s) \o R)

FieldIs(P, c, s, R) ==
  /\ Len(P) \in Nat /\ Len(c) \in Nat /\ Len(s) \in Nat
  /\ Len(Field(P, c, s, R)) >= Len(P) + Len(c)
  /\ \A i \in 1..Len(c) : Field(P, c, s, R)[Len(P) + i] = c[i]
  /\ Take(Field(P, c, s, R), Len(P) + Len(c), Len(s)) = [ok |-> TRUE, val |-> s, off |-> Len(P) + Len(c) + Len(s)]
  /\ c \o s \in Cells /\ P \o (c \o s) \in Cells /\ Field(P, c, s, R) = (P \o (c \o s)) \o R
  /\ Len(P \o (c \o s)) = Len(P) + Len(c) + Len(s)

\* What stands behind a field's length is read back whole, and the rest of the row follows it.
LEMMA FieldRead ==
  ASSUME NEW P \in Cells, NEW c \in Cells, NEW s \in Cells, NEW R \in Cells
  PROVE  FieldIs(P, c, s, R)
<1>0. PICK D : D = Field(P, c, s, R) /\ D = P \o ((c \o s) \o R)
  BY DEF Field
<1>1. PICK w : w = c \o s
  OBVIOUS
<1>2. w \in Cells /\ Len(w) = Len(c) + Len(s) /\ Len(c) \in Nat /\ Len(s) \in Nat
  BY <1>1, Joined, Zenon
<1>3. PICK T : T = s \o R
  OBVIOUS
<1>4. T \in Cells /\ Len(T) = Len(s) + Len(R) /\ Len(R) \in Nat
  BY <1>3, Joined, Zenon
<1>5. w \o R = c \o T
  <2>1. Joins(c, s, R)
    BY Joining
  <2> QED BY <1>1, <1>3, <2>1, Zenon DEF Joins
<1>6. PICK Q : Q = P \o c
  OBVIOUS
<1>7. /\ Q \in Cells /\ Len(Q) = Len(P) + Len(c) /\ Len(P) \in Nat
      /\ \A i \in 1..Len(c) : Q[Len(P) + i] = c[i]
  BY <1>6, Joined, ZenonT(40)
<1>8. D = Q \o T
  <2>1. T \in Cells
    BY <1>4
  <2>2. Joins(P, c, T)
    BY <2>1, Joining
  <2> QED BY <1>0, <1>1, <1>5, <1>6, <2>2, Zenon DEF Joins
<1>9. Len(D) = Len(Q) + Len(s) + Len(R) /\ SubSeq(D, Len(Q) + 1, Len(Q) + Len(s)) = s
  <2>1. Q \in Cells /\ D = Q \o (s \o R)
    BY <1>3, <1>7, <1>8, Zenon
  <2>2. /\ Len(Q \o (s \o R)) = Len(Q) + Len(s) + Len(R)
        /\ SubSeq(Q \o (s \o R), Len(Q) + 1, Len(Q) + Len(s)) = s
    BY <2>1, Middle
  <2> QED BY <2>1, <2>2, Zenon
<1>10. Len(D) >= Len(P) + Len(c) /\ ~(Len(D) < Len(P) + Len(c) + Len(s))
  BY <1>2, <1>4, <1>7, <1>9
<1>11. Take(D, Len(P) + Len(c), Len(s)) = [ok |-> TRUE, val |-> s, off |-> Len(P) + Len(c) + Len(s)]
  BY <1>7, <1>9, <1>10, Zenon DEF Take
<1>12. \A i \in 1..Len(c) : D[Len(P) + i] = c[i]
  <2>1. Q \in Cells /\ T \in Cells
    BY <1>4, <1>7
  <2>2. \A k \in 1..Len(Q) : (Q \o T)[k] = Q[k]
    BY <2>1, Joined, Zenon
  <2>3. \A i \in 1..Len(c) : Len(P) + i \in 1..Len(Q)
    BY <1>2, <1>7
  <2> QED BY <1>7, <1>8, <2>2, <2>3, Zenon
<1>13. P \o w \in Cells /\ Len(P \o w) = Len(P) + Len(c) + Len(s)
  <2>1. w \in Cells
    BY <1>2
  <2>2. P \o w \in Cells /\ Len(P \o w) = Len(P) + Len(w)
    BY <2>1, Joined, Zenon
  <2> QED BY <1>2, <1>7, <2>2
<1>14. D = (P \o w) \o R
  <2>1. w \in Cells
    BY <1>2
  <2>2. Joins(P, w, R)
    BY <2>1, Joining
  <2> QED BY <1>0, <1>1, <2>2, Zenon DEF Joins
<1> QED BY <1>0, <1>1, <1>2, <1>7, <1>10, <1>11, <1>12, <1>13, <1>14, Zenon DEF FieldIs

\* A name is read back from behind P, and the blob of the load artifacts.
NameBack(P, s, R) ==
  /\ readLenPrefixed(P \o (writeLenPrefixed(s) \o R), Len(P)) =
       [ok |-> TRUE, val |-> s, off |-> Len(P \o writeLenPrefixed(s))]
  /\ writeLenPrefixed(s) \in Cells
  /\ (P \o writeLenPrefixed(s)) \o R = P \o (writeLenPrefixed(s) \o R)
  /\ P \o writeLenPrefixed(s) \in Cells

\* A length-prefixed name is read back from wherever it stands (readLenPrefixed after writeLenPrefixed).
LEMMA NameRead ==
  ASSUME NEW P \in Cells, NEW s \in Cells, NEW R \in Cells
  PROVE  NameBack(P, s, R)
<1>1. PICK n \in Nat : n = Len(s)
  BY DEF Cells
<1>2. PICK c : c = <<n>>
  OBVIOUS
<1>3. c \in Cells /\ Len(c) = 1 /\ c[1] = n
  BY <1>2 DEF Cells
<1>4. writeLenPrefixed(s) = c \o s
  BY <1>1, <1>2, Zenon DEF writeLenPrefixed
<1>5. PICK D : D = Field(P, c, s, R) /\ D = P \o ((c \o s) \o R)
  BY DEF Field
<1>6. /\ Len(P) \in Nat /\ Len(c) \in Nat /\ Len(s) \in Nat
      /\ Len(D) >= Len(P) + Len(c) /\ \A i \in 1..Len(c) : D[Len(P) + i] = c[i]
      /\ Take(D, Len(P) + Len(c), Len(s)) = [ok |-> TRUE, val |-> s, off |-> Len(P) + Len(c) + Len(s)]
      /\ c \o s \in Cells /\ P \o (c \o s) \in Cells /\ D = (P \o (c \o s)) \o R
      /\ Len(P \o (c \o s)) = Len(P) + Len(c) + Len(s)
  <2>1. c \in Cells
    BY <1>3
  <2>2. FieldIs(P, c, s, R)
    BY <2>1, FieldRead
  <2> QED BY <1>5, <2>2, Zenon DEF FieldIs
<1>7. 1 \in 1..Len(c) /\ (Len(D) \in Int => ~(Len(D) < Len(P) + 1))
  BY <1>3, <1>6
<1>8. D[Len(P) + 1] = n
  BY <1>3, <1>6, <1>7, Zenon
<1>9. ~(Len(D) < Len(P) + 1)
  <2>1. (P \o (c \o s)) \o R \in Cells
    BY <1>6, Joined, Zenon
  <2>2. Len(D) \in Int
    BY <1>6, <2>1 DEF Cells
  <2> QED BY <1>7, <2>2
<1>10. readLenPrefixed(D, Len(P)) = [ok |-> TRUE, val |-> s, off |-> Len(P \o (c \o s))]
  BY <1>1, <1>3, <1>6, <1>8, <1>9, Zenon DEF readLenPrefixed
<1> QED BY <1>4, <1>5, <1>6, <1>10, Zenon DEF NameBack

\* A length in two digits to the base of a byte.
LEMMA Digits == ASSUME NEW n \in Nat PROVE n % Base \in Int /\ n \div Base \in Int /\ (n % Base) + Base * (n \div Base) = n
<1>1. PICK b \in Nat \ {0} : b = Base
  BY EnvelopeAssumption DEF Base
<1>2. n % b \in Int /\ n \div b \in Int /\ (n % b) + b * (n \div b) = n
  OBVIOUS
<1> QED BY <1>1, <1>2, Zenon

BlobBack(P, s, R) ==
  /\ readLenPrefixedU32(P \o (writeLenPrefixedU32(s) \o R), Len(P)) =
       [ok |-> TRUE, val |-> s, off |-> Len(P \o writeLenPrefixedU32(s))]
  /\ writeLenPrefixedU32(s) \in Cells
  /\ (P \o writeLenPrefixedU32(s)) \o R = P \o (writeLenPrefixedU32(s) \o R)
  /\ P \o writeLenPrefixedU32(s) \in Cells

\* So is the blob of the load artifacts, whose length takes two cells.
LEMMA BlobRead ==
  ASSUME NEW P \in Cells, NEW s \in Cells, NEW R \in Cells
  PROVE  BlobBack(P, s, R)
<1>1. PICK n \in Nat : n = Len(s)
  BY DEF Cells
<1>2. PICK x \in Int, y \in Int : x = n % Base /\ y = n \div Base /\ x + Base * y = n
  BY Digits, Zenon
<1>20. PICK c : c = <<x, y>>
  OBVIOUS
<1>3. c \in Cells /\ Len(c) = 2 /\ c[1] = x /\ c[2] = y
  BY <1>20 DEF Cells
<1>4. writeLenPrefixedU32(s) = c \o s
  BY <1>1, <1>2, <1>20, Zenon DEF writeLenPrefixedU32
<1>5. PICK D : D = Field(P, c, s, R) /\ D = P \o ((c \o s) \o R)
  BY DEF Field
<1>6. /\ Len(P) \in Nat /\ Len(c) \in Nat /\ Len(s) \in Nat
      /\ Len(D) >= Len(P) + Len(c) /\ \A i \in 1..Len(c) : D[Len(P) + i] = c[i]
      /\ Take(D, Len(P) + Len(c), Len(s)) = [ok |-> TRUE, val |-> s, off |-> Len(P) + Len(c) + Len(s)]
      /\ c \o s \in Cells /\ P \o (c \o s) \in Cells /\ D = (P \o (c \o s)) \o R
      /\ Len(P \o (c \o s)) = Len(P) + Len(c) + Len(s)
  <2>1. c \in Cells
    BY <1>3
  <2>2. FieldIs(P, c, s, R)
    BY <2>1, FieldRead
  <2> QED BY <1>5, <2>2, Zenon DEF FieldIs
<1>7. 1 \in 1..Len(c) /\ 2 \in 1..Len(c) /\ (Len(D) \in Int => ~(Len(D) < Len(P) + 2))
  BY <1>3, <1>6
<1>8. D[Len(P) + 1] = x /\ D[Len(P) + 2] = y
  BY <1>3, <1>6, <1>7, Zenon
<1>9. ~(Len(D) < Len(P) + 2)
  <2>1. (P \o (c \o s)) \o R \in Cells
    BY <1>6, Joined, Zenon
  <2>2. Len(D) \in Int
    BY <1>6, <2>1 DEF Cells
  <2> QED BY <1>7, <2>2
<1>10. readLenPrefixedU32(D, Len(P)) = [ok |-> TRUE, val |-> s, off |-> Len(P \o (c \o s))]
  BY <1>1, <1>2, <1>3, <1>6, <1>8, <1>9, Zenon DEF readLenPrefixedU32
<1> QED BY <1>4, <1>5, <1>6, <1>10, Zenon DEF BlobBack

\* The load artifacts, and the headroom as an unsigned word.
LEMMA ArtifactsBack ==
  ASSUME NEW files \in Int, NEW hints \in Cells
  PROVE  /\ marshalLoadArtifacts(files, hints) \in Cells
         /\ unmarshalLoadArtifacts(marshalLoadArtifacts(files, hints)) = [files |-> files, hints |-> hints]
<1>1. CASE files = 0 /\ hints = <<>>
  <2>1. marshalLoadArtifacts(files, hints) = <<>>
    BY <1>1, Zenon DEF marshalLoadArtifacts
  <2>2. <<>> \in Cells
    BY DEF Cells
  <2> QED BY <1>1, <2>1, <2>2, Zenon DEF unmarshalLoadArtifacts
<1>2. CASE ~(files = 0 /\ hints = <<>>)
  <2>1. PICK b : b = <<files>> \o hints
    OBVIOUS
  <2>2. marshalLoadArtifacts(files, hints) = b
    BY <1>2, <2>1, Zenon DEF marshalLoadArtifacts, ProtoMarshal
  <2>3. b \in Cells /\ b # <<>> /\ Head(b) = files /\ Tail(b) = hints
    <3>1. PICK c : c = <<files>>
      OBVIOUS
    <3>2. c \in Cells /\ Len(c) = 1 /\ c[1] = files
      BY <3>1 DEF Cells
    <3>3. /\ b \in Cells /\ Len(b) = Len(c) + Len(hints) /\ Len(hints) \in Nat
          /\ \A i \in 1..Len(c) : b[i] = c[i]
          /\ \A i \in 1..Len(hints) : b[Len(c) + i] = hints[i]
      <4>1. c \in Cells
        BY <3>2
      <4> QED BY <2>1, <3>1, <4>1, Joined, Zenon
    <3>4. Len(b) = 1 + Len(hints) /\ b[1] = files /\ b # <<>> /\ b \in Seq(Int)
      <4>1. 1 \in 1..Len(c)
        BY <3>2
      <4>2. b[1] = files
        BY <3>2, <3>3, <4>1, Zenon
      <4>3. Len(b) = 1 + Len(hints) /\ b \in Seq(Int)
        BY <3>2, <3>3 DEF Cells
      <4>4. b # <<>>
        BY <3>3, <4>3
      <4> QED BY <4>2, <4>3, <4>4
    <3>5. PICK t : t = Tail(b)
      OBVIOUS
    <3>6. t \in Seq(Int) /\ Len(t) = Len(hints) /\ \A i \in 1..Len(t) : t[i] = b[i + 1]
      BY <3>3, <3>4, <3>5
    <3>7. \A i \in 1..Len(t) : t[i] = hints[i]
      <4>1. ASSUME NEW i \in 1..Len(t) PROVE t[i] = hints[i]
        <5>1. i \in 1..Len(hints) /\ Len(c) + i = i + 1
          BY <3>2, <3>3, <3>6
        <5> QED BY <3>3, <3>6, <5>1, Zenon
      <4> QED BY <4>1
    <3>8. t = hints
      <4>1. hints \in Seq(Int)
        BY DEF Cells
      <4> QED BY <3>6, <3>7, <4>1, SeqEqual
    <3> QED BY <3>3, <3>4, <3>5, <3>8
  <2> QED BY <2>2, <2>3, Zenon DEF unmarshalLoadArtifacts
<1> QED BY <1>1, <1>2

\* The headroom survives its trip through an unsigned word.
LEMMA HeadroomBack == ASSUME NEW h \in Int32s PROVE Uint32(h) \in Int /\ Int32(Uint32(h)) = h
<1>1. PICK w \in Nat : w = Word /\ w >= 4
  <2>1. PICK b \in Nat : b = Base /\ b >= 2
    BY EnvelopeAssumption DEF Base
  <2>2. b * b >= 4 /\ b * b \in Nat
    BY <2>1
  <2> QED BY <2>1, <2>2, Zenon DEF Word
<1>2. h \in (w \div 2) - w .. (w \div 2) - 1
  BY <1>1, Zenon DEF Int32s
<1>3. PICK u : u = h % w
  OBVIOUS
<1>4. u = IF h >= 0 THEN h ELSE h + w
  BY <1>1, <1>2, <1>3
<1>5. u \in Int /\ (IF u >= w \div 2 THEN u - w ELSE u) = h
  BY <1>1, <1>2, <1>4
<1> QED BY <1>1, <1>3, <1>5, Zenon DEF Uint32, Int32

\* Where a name stands, the chain of the reads goes on behind it.
NameIs(P, s, R) ==
  /\ \A r : r.ok /\ r.off = Len(P) =>
       NextName((P \o writeLenPrefixed(s)) \o R, r) = [ok |-> TRUE, val |-> s, off |-> Len(P \o writeLenPrefixed(s))]
  /\ writeLenPrefixed(s) \o R \in Cells /\ P \o writeLenPrefixed(s) \in Cells
  /\ (P \o writeLenPrefixed(s)) \o R = P \o (writeLenPrefixed(s) \o R)

\* One name of the list is read and the offset moves behind it.
LEMMA NextRead ==
  ASSUME NEW P \in Cells, NEW s \in Cells, NEW R \in Cells
  PROVE  NameIs(P, s, R)
<1>1. /\ readLenPrefixed(P \o (writeLenPrefixed(s) \o R), Len(P)) =
           [ok |-> TRUE, val |-> s, off |-> Len(P \o writeLenPrefixed(s))]
      /\ writeLenPrefixed(s) \in Cells /\ P \o writeLenPrefixed(s) \in Cells
      /\ (P \o writeLenPrefixed(s)) \o R = P \o (writeLenPrefixed(s) \o R)
  <2>1. NameBack(P, s, R)
    BY NameRead
  <2> QED BY <2>1, Zenon DEF NameBack
<1>2. writeLenPrefixed(s) \o R \in Cells
  BY <1>1, Joined, Zenon
<1> QED BY <1>1, <1>2, Zenon DEF NameIs, NextName

\* The last part of a sequence.
LEMMA Behind ==
  ASSUME NEW P \in Cells, NEW s \in Cells
  PROVE  SubSeq(P \o s, Len(P) + 1, Len(P \o s)) = s
<1>1. s \o <<>> = s /\ <<>> \in Cells
  BY ConcatEmptySeq DEF Cells
<1>2. SubSeq(P \o (s \o <<>>), Len(P) + 1, Len(P) + Len(s)) = s
  BY <1>1, Middle, Zenon
<1>3. Len(P \o s) = Len(P) + Len(s)
  BY Joined, Zenon
<1> QED BY <1>1, <1>2, <1>3, Zenon

\* What is packed is unpacked: no field is lost, moved or mixed up with its neighbour.
LEMMA RoundTrip == ASSUME NEW e \in EnvelopeType PROVE UnmarshalEnvelope(Marshal(e)) = [ok |-> TRUE, env |-> e]
<1>1. /\ e.prio \in Int /\ e.attempts \in Int /\ e.cost \in Int /\ e.secs \in Int /\ e.headroom \in Int32s
      /\ e.runtime \in Cells /\ e.model \in Cells /\ e.source \in Cells /\ e.reqId \in Cells /\ e.gmid \in Cells
      /\ e.files \in Int /\ e.hints \in Cells /\ e.payload \in Cells
  BY DEF EnvelopeType
<1>2. e = [prio |-> e.prio, attempts |-> e.attempts, cost |-> e.cost, secs |-> e.secs, headroom |-> e.headroom,
           runtime |-> e.runtime, model |-> e.model, source |-> e.source, reqId |-> e.reqId, gmid |-> e.gmid,
           files |-> e.files, hints |-> e.hints, payload |-> e.payload]
  BY DEF EnvelopeType
<1>3. PICK hr : hr = Uint32(e.headroom) /\ hr \in Int /\ Int32(hr) = e.headroom
  BY <1>1, HeadroomBack, Zenon
<1>4. PICK h : h = <<e.prio, e.attempts, e.cost, e.secs, hr>>
  OBVIOUS
<1>5. h \in Cells /\ Len(h) = 5 /\ h[1] = e.prio /\ h[2] = e.attempts /\ h[3] = e.cost /\ h[4] = e.secs /\ h[5] = hr
  BY <1>1, <1>3, <1>4 DEF Cells
<1>6. PICK b : b = marshalLoadArtifacts(e.files, e.hints) /\ b \in Cells
               /\ unmarshalLoadArtifacts(b) = [files |-> e.files, hints |-> e.hints]
  BY <1>1, ArtifactsBack, Zenon
<1>7. PICK a1, a2, a3, a4, a5, a6, D :
        /\ a1 = h \o writeLenPrefixed(e.runtime) /\ a2 = a1 \o writeLenPrefixed(e.model)
        /\ a3 = a2 \o writeLenPrefixed(e.source) /\ a4 = a3 \o writeLenPrefixed(e.reqId)
        /\ a5 = a4 \o writeLenPrefixed(e.gmid) /\ a6 = a5 \o writeLenPrefixedU32(b) /\ D = a6 \o e.payload
  OBVIOUS
<1>8. Marshal(e) = D
  BY <1>3, <1>4, <1>6, <1>7, Zenon DEF Marshal
<1>9. a1 \in Cells /\ a2 \in Cells /\ a3 \in Cells /\ a4 \in Cells /\ a5 \in Cells
  <2>0. \A P \in Cells, s \in Cells : P \o writeLenPrefixed(s) \in Cells
    <3>1. ASSUME NEW P \in Cells, NEW s \in Cells PROVE P \o writeLenPrefixed(s) \in Cells
      <4>1. <<>> \in Cells
        BY DEF Cells
      <4> QED BY <4>1, NextRead, Zenon DEF NameIs
    <3> QED BY <3>1
  <2>1. a1 \in Cells
    BY <1>1, <1>5, <1>7, <2>0, Zenon
  <2>2. a2 \in Cells
    BY <1>1, <1>7, <2>0, <2>1, Zenon
  <2>3. a3 \in Cells
    BY <1>1, <1>7, <2>0, <2>2, Zenon
  <2>4. a4 \in Cells
    BY <1>1, <1>7, <2>0, <2>3, Zenon
  <2>5. a5 \in Cells
    BY <1>1, <1>7, <2>0, <2>4, Zenon
  <2> QED BY <2>1, <2>2, <2>3, <2>4, <2>5
<1>10. /\ readLenPrefixedU32(D, Len(a5)) = [ok |-> TRUE, val |-> b, off |-> Len(a6)] /\ a6 \in Cells
       /\ \E R \in Cells : D = a5 \o R
  <2>1. a5 \in Cells /\ b \in Cells /\ e.payload \in Cells
    BY <1>1, <1>6, <1>9
  <2>2. BlobBack(a5, b, e.payload)
    BY <2>1, BlobRead
  <2>3. writeLenPrefixedU32(b) \o e.payload \in Cells
    BY <2>1, <2>2, Joined, Zenon DEF BlobBack
  <2> QED BY <1>7, <2>2, <2>3, Zenon DEF BlobBack
<1>11. /\ \A r : r.ok /\ r.off = Len(a4) => NextName(D, r) = [ok |-> TRUE, val |-> e.gmid, off |-> Len(a5)]
       /\ \E R \in Cells : D = a4 \o R
  <2>1. PICK R \in Cells : D = a5 \o R
    BY <1>10
  <2>2. NameIs(a4, e.gmid, R)
    BY <1>1, <1>9, NextRead, Zenon
  <2> QED BY <1>7, <2>1, <2>2, Zenon DEF NameIs
<1>12. /\ \A r : r.ok /\ r.off = Len(a3) => NextName(D, r) = [ok |-> TRUE, val |-> e.reqId, off |-> Len(a4)]
       /\ \E R \in Cells : D = a3 \o R
  <2>1. PICK R \in Cells : D = a4 \o R
    BY <1>11
  <2>2. NameIs(a3, e.reqId, R)
    BY <1>1, <1>9, NextRead, Zenon
  <2> QED BY <1>7, <2>1, <2>2, Zenon DEF NameIs
<1>13. /\ \A r : r.ok /\ r.off = Len(a2) => NextName(D, r) = [ok |-> TRUE, val |-> e.source, off |-> Len(a3)]
       /\ \E R \in Cells : D = a2 \o R
  <2>1. PICK R \in Cells : D = a3 \o R
    BY <1>12
  <2>2. NameIs(a2, e.source, R)
    BY <1>1, <1>9, NextRead, Zenon
  <2> QED BY <1>7, <2>1, <2>2, Zenon DEF NameIs
<1>14. /\ \A r : r.ok /\ r.off = Len(a1) => NextName(D, r) = [ok |-> TRUE, val |-> e.model, off |-> Len(a2)]
       /\ \E R \in Cells : D = a1 \o R
  <2>1. PICK R \in Cells : D = a2 \o R
    BY <1>13
  <2>2. NameIs(a1, e.model, R)
    BY <1>1, <1>9, NextRead, Zenon
  <2> QED BY <1>7, <2>1, <2>2, Zenon DEF NameIs
<1>15. /\ \A r : r.ok /\ r.off = Len(h) => NextName(D, r) = [ok |-> TRUE, val |-> e.runtime, off |-> Len(a1)]
       /\ \E R \in Cells : D = h \o R
  <2>1. PICK R \in Cells : D = a1 \o R
    BY <1>14
  <2>2. NameIs(h, e.runtime, R)
    BY <1>1, <1>5, NextRead, Zenon
  <2> QED BY <1>7, <2>1, <2>2, Zenon DEF NameIs
<1>16. D[1] = e.prio /\ D[2] = e.attempts /\ D[3] = e.cost /\ D[4] = e.secs /\ D[5] = hr /\ Len(D) >= HeaderCells
  <2>1. PICK R \in Cells : D = h \o R
    BY <1>15
  <2>2. /\ \A i \in 1..Len(h) : D[i] = h[i]
        /\ Len(D) = Len(h) + Len(R) /\ Len(R) \in Nat
    BY <1>5, <2>1, Joined, Zenon
  <2>3. {1, 2, 3, 4, 5} \subseteq 1..Len(h) /\ Len(D) >= 5
    BY <1>5, <2>2
  <2>4. D[1] = h[1] /\ D[2] = h[2] /\ D[3] = h[3] /\ D[4] = h[4] /\ D[5] = h[5]
    BY <2>2, <2>3
  <2> QED BY <1>5, <2>3, <2>4, Zenon DEF HeaderCells
<1>17. ReadNames(D) = [ok |-> TRUE, names |-> <<e.runtime, e.model, e.source, e.reqId, e.gmid>>, off |-> Len(a5)]
  <2> DEFINE r0 == [ok |-> Len(D) >= HeaderCells, val |-> NoName, off |-> HeaderCells]
             r1 == NextName(D, r0)
             r2 == NextName(D, r1)
             r3 == NextName(D, r2)
             r4 == NextName(D, r3)
             r5 == NextName(D, r4)
  <2>1. r0.ok /\ r0.off = Len(h)
    BY <1>5, <1>16 DEF HeaderCells
  <2>7. ReadNames(D) = [ok |-> r5.ok, names |-> <<r1.val, r2.val, r3.val, r4.val, r5.val>>, off |-> r5.off]
    BY Zenon DEF ReadNames
  <2> HIDE DEF r0
  <2>2. r1 = [ok |-> TRUE, val |-> e.runtime, off |-> Len(a1)]
    BY <1>15, <2>1, Zenon
  <2> HIDE DEF r1
  <2>3. r2 = [ok |-> TRUE, val |-> e.model, off |-> Len(a2)]
    BY <1>14, <2>2, Zenon
  <2> HIDE DEF r2
  <2>4. r3 = [ok |-> TRUE, val |-> e.source, off |-> Len(a3)]
    BY <1>13, <2>3, Zenon
  <2> HIDE DEF r3
  <2>5. r4 = [ok |-> TRUE, val |-> e.reqId, off |-> Len(a4)]
    BY <1>12, <2>4, Zenon
  <2> HIDE DEF r4
  <2>6. r5 = [ok |-> TRUE, val |-> e.gmid, off |-> Len(a5)]
    BY <1>11, <2>5, Zenon
  <2> HIDE DEF r5
  <2>8. /\ r1.val = e.runtime /\ r2.val = e.model /\ r3.val = e.source /\ r4.val = e.reqId /\ r5.val = e.gmid
        /\ r5.ok = TRUE /\ r5.off = Len(a5)
    BY <2>2, <2>3, <2>4, <2>5, <2>6
  <2> QED BY <2>7, <2>8, Zenon
<1>18. SubSeq(D, Len(a6) + 1, Len(D)) = e.payload
  BY <1>1, <1>7, <1>10, Behind, ZenonT(40)
<1> DEFINE n == ReadNames(D)
           blob == readLenPrefixedU32(D, n.off)
           art == unmarshalLoadArtifacts(blob.val)
           env == [prio |-> D[1], attempts |-> D[2], cost |-> D[3], secs |-> D[4], headroom |-> Int32(D[5]),
                   runtime |-> n.names[1], model |-> n.names[2], source |-> n.names[3],
                   reqId |-> n.names[4], gmid |-> n.names[5],
                   files |-> art.files, hints |-> art.hints, payload |-> SubSeq(D, blob.off + 1, Len(D))]
<1>20. UnmarshalEnvelope(D) = IF ~n.ok \/ ~blob.ok THEN Undecodable ELSE [ok |-> TRUE, env |-> env]
  BY Zenon DEF UnmarshalEnvelope
<1>21. /\ n.ok /\ n.off = Len(a5)
       /\ n.names[1] = e.runtime /\ n.names[2] = e.model /\ n.names[3] = e.source /\ n.names[4] = e.reqId
       /\ n.names[5] = e.gmid
  BY <1>17
<1> HIDE DEF n
<1>22. blob.ok /\ blob.val = b /\ blob.off = Len(a6)
  <2>1. blob = [ok |-> TRUE, val |-> b, off |-> Len(a6)]
    BY <1>10, <1>21, Zenon
  <2> HIDE DEF blob
  <2> QED BY <2>1
<1> HIDE DEF blob
<1>23. art.files = e.files /\ art.hints = e.hints
  <2>1. art = [files |-> e.files, hints |-> e.hints]
    BY <1>6, <1>22, Zenon
  <2> HIDE DEF art
  <2> QED BY <2>1
<1> HIDE DEF art
<1>24. env = e
  BY <1>2, <1>3, <1>16, <1>18, <1>21, <1>22, <1>23, Zenon
<1> HIDE DEF env
<1> QED BY <1>8, <1>20, <1>21, <1>22, <1>24, Zenon

\* The envelope of request r after c retries, on the row of anchor g, with seconds s.
Carried(r, c, g, s) ==
  [prio |-> r.prio, attempts |-> c, cost |-> r.cost, secs |-> s, headroom |-> r.headroom,
   runtime |-> r.runtime, model |-> r.model, source |-> Source(r), reqId |-> ReqId, gmid |-> g,
   files |-> r.files, hints |-> r.hints, payload |-> r.payload]

\* A row, or an estimate, holds such an envelope.
RowOf(row, r, c, g) == \E s \in 0..1 : row.body = Marshal(Carried(r, c, g, s))

IsRow(row) == row = [id |-> row.id, body |-> row.body] /\ row.id \in 0..rowIds

\* Every row decodes to the request with the retries counted; an estimate does as long as
\* the row it was made from is still there; and so does what a dispatch holds.
EnvInv ==
  /\ request \in EnvRequests /\ stage # "panicked" /\ rowIds \in Nat /\ charged \in 0..Base - 1
  /\ IsRow(globRow) /\ IsRow(workRow) /\ IsRow(estimate)
  /\ stage \in {"submit", "refused"} => charged = 0 /\ globRow.id = 0 /\ workRow.id = 0 /\ estimate.id = 0
  /\ stage \notin {"submit", "refused"} => FieldsFit(request)
  /\ stage \in {"global", "placed", "running"} => globRow.id # 0
  /\ stage \in {"placed", "running"} => workRow.id # 0
  /\ globRow.id # 0 => globRow.body = Marshal(Carried(request, charged, NoName, 0))
  /\ workRow.id # 0 => RowOf(workRow, request, charged, <<globRow.id>>)
  /\ estimate.id # 0 /\ estimate.id = workRow.id => RowOf(estimate, request, charged, <<globRow.id>>)
  /\ stage = "running" => held.ok /\ \E s \in 0..1 : held.env = Carried(request, charged, <<globRow.id>>, s)

\* Such an envelope is packed without a panic, and unpacked to what it was.
LEMMA CarriedBack ==
  ASSUME NEW r \in EnvRequests, FieldsFit(r), NEW c \in Nat, NEW g \in Cells, Len(g) <= 1, NEW s \in Int
  PROVE  /\ ~Panics(Carried(r, c, g, s))
         /\ UnmarshalEnvelope(Marshal(Carried(r, c, g, s))) = [ok |-> TRUE, env |-> Carried(r, c, g, s)]
<1>1. \A x \in Bytes : x \in Cells
  <2>1. ASSUME NEW x \in Seq(0..ByteMax) PROVE x \in Seq(Int)
    <3>0. ByteMax \in Nat
      BY EnvelopeAssumption
    <3>1. x = [i \in 1..Len(x) |-> x[i]]
      BY <3>0
    <3>3. \A i \in 1..Len(x) : x[i] \in Int
      BY <3>0
    <3>4. Len(x) \in Nat
      OBVIOUS
    <3>2. [i \in 1..Len(x) |-> x[i]] \in Seq(Int)
      BY <3>3, <3>4
    <3> QED BY <3>1, <3>2, Zenon
  <2> QED BY <2>1 DEF Bytes, Cells
<1>2. /\ r.prio \in Int /\ r.cost \in Int /\ r.headroom \in Int32s /\ r.runtime \in Bytes /\ r.model \in Bytes
      /\ r.source \in Bytes /\ r.files \in Nat /\ r.hints \in Bytes /\ r.payload \in Bytes
  <2>1. r \in [prio : Int, cost : Int, headroom : Int32s, runtime : Bytes, model : Bytes,
               source : Bytes, files : Nat, hints : Bytes, payload : Bytes]
    BY EnvelopeAssumption
  <2> QED BY <2>1
<1>3. Source(r) \in Cells
  <2>1. Prefix \in Cells /\ r.runtime \in Cells /\ r.source \in Cells
    BY <1>1, <1>2, EnvelopeAssumption
  <2>2. Prefix \o r.runtime \in Cells
    BY <2>1, Joined, Zenon
  <2> QED BY <2>1, <2>2, Zenon DEF Source
<1>4. ReqId \in Cells /\ Len(ReqId) = 1
  BY OneCell DEF ReqId
<1>5. Carried(r, c, g, s) \in EnvelopeType
  <2>1. r.runtime \in Cells /\ r.model \in Cells /\ r.hints \in Cells /\ r.payload \in Cells
    BY <1>1, <1>2, Zenon
  <2>2. c \in Int /\ r.files \in Int /\ s \in Int
    BY <1>2
  <2> HIDE DEF Cells, Int32s
  <2> QED BY <1>2, <1>3, <1>4, <2>1, <2>2, Zenon DEF Carried, EnvelopeType
<1>6. ~Panics(Carried(r, c, g, s))
  <2> DEFINE n == Names(Carried(r, c, g, s))
  <2>1. n = <<r.runtime, r.model, Source(r), ReqId, g>>
    BY Zenon DEF Names, Carried
  <2>2. n[1] = r.runtime /\ n[2] = r.model /\ n[3] = Source(r) /\ n[4] = ReqId /\ n[5] = g
    BY <2>1
  <2> HIDE DEF n
  <2>3. fit255(r.runtime) /\ fit255(r.model) /\ fit255(Source(r))
    BY Zenon DEF FieldsFit
  <2>4. fit255(ReqId) /\ fit255(g)
    <3>1. ByteMax \in Nat \ {0} /\ Len(g) \in Nat
      BY EnvelopeAssumption DEF Cells
    <3> QED BY <1>4, <3>1 DEF fit255
  <2>5. \A i \in 1..5 : i = 1 \/ i = 2 \/ i = 3 \/ i = 4 \/ i = 5
    OBVIOUS
  <2>6. \A i \in 1..5 : fit255(n[i])
    BY <2>2, <2>3, <2>4, <2>5, Zenon
  <2> QED BY <2>6, Zenon DEF Panics, n
<1> QED BY <1>5, <1>6, RoundTrip

\* What the hops do to it: other seconds, one more retry.
LEMMA CarriedFields ==
  ASSUME NEW r, NEW c, NEW g, NEW s
  PROVE  /\ NewEnvelope(r) = Carried(r, 0, NoName, 0)
         /\ Carried(r, c, g, s).secs = s /\ Carried(r, c, g, s).attempts = c
BY DEF Carried, NewEnvelope

\* A row just submitted carries its request.
LEMMA CarriedIsNew ==
  ASSUME NEW r, NEW c, NEW g, NEW s
  PROVE  [NewEnvelope(r) EXCEPT !.gmid = g, !.attempts = c, !.secs = s] = Carried(r, c, g, s)
<1>1. [NewEnvelope(r) EXCEPT !.gmid = g, !.attempts = c, !.secs = s] =
        [[[NewEnvelope(r) EXCEPT !.gmid = g] EXCEPT !.attempts = c] EXCEPT !.secs = s]
  BY Zenon
<1>2. NewEnvelope(r) = Carried(r, 0, NoName, 0)
  BY CarriedFields
<1>3. [Carried(r, 0, NoName, 0) EXCEPT !.gmid = g] = Carried(r, 0, g, 0)
  BY DEF Carried
<1>4. [Carried(r, 0, g, 0) EXCEPT !.attempts = c] = Carried(r, c, g, 0)
  BY DEF Carried
<1>5. [Carried(r, c, g, 0) EXCEPT !.secs = s] = Carried(r, c, g, s)
  BY DEF Carried
<1> QED BY <1>1, <1>2, <1>3, <1>4, <1>5, Zenon

\* A row that carries a job's identity still does when it is put back with one attempt more.
LEMMA CarriedRetried ==
  ASSUME NEW r, NEW c \in Nat, NEW g, NEW s, c + 1 < Base
  PROVE  Retried(Carried(r, c, g, s)) = Carried(r, c + 1, NoName, 0)
<1>1. PICK b \in Nat \ {0} : b = Base
  BY EnvelopeAssumption DEF Base
<1>2. (c + 1) % b = c + 1
  BY <1>1
<1>3. PICK d : d = c + 1 /\ d = (c + 1) % Base
  BY <1>1, <1>2
<1>4. Retried(Carried(r, c, g, s)) = [Carried(r, c, g, s) EXCEPT !.attempts = d, !.gmid = NoName, !.secs = 0]
  <2>1. Carried(r, c, g, s).attempts = c
    BY CarriedFields
  <2>2. Retried(Carried(r, c, g, s)) = [Carried(r, c, g, s) EXCEPT !.attempts = (c + 1) % Base, !.gmid = NoName, !.secs = 0]
    BY <2>1, Zenon DEF Retried
  <2> QED BY <1>3, <2>2, Zenon
<1>5. [Carried(r, c, g, s) EXCEPT !.attempts = d, !.gmid = NoName, !.secs = 0] =
        [[[Carried(r, c, g, s) EXCEPT !.attempts = d] EXCEPT !.gmid = NoName] EXCEPT !.secs = 0]
  BY Zenon
<1>6. [Carried(r, c, g, s) EXCEPT !.attempts = d] = Carried(r, d, g, s)
  BY DEF Carried
<1>7. [Carried(r, d, g, s) EXCEPT !.gmid = NoName] = Carried(r, d, NoName, s)
  BY DEF Carried
<1>8. [Carried(r, d, NoName, s) EXCEPT !.secs = 0] = Carried(r, d, NoName, 0)
  BY DEF Carried
<1> QED BY <1>3, <1>4, <1>5, <1>6, <1>7, <1>8, Zenon

\* At the start there is no row.
LEMMA EnvInvInit == EnvInit => EnvInv
<1> SUFFICES ASSUME EnvInit PROVE EnvInv
  OBVIOUS
<1>1. /\ request \in EnvRequests /\ stage = "submit" /\ charged = 0 /\ rowIds = 0
      /\ globRow = NoBody /\ workRow = NoBody /\ estimate = NoBody
  BY Zenon DEF EnvInit
<1>2. NoBody = [id |-> NoBody.id, body |-> NoBody.body] /\ NoBody.id = 0
  BY DEF NoBody
<1>3. 0 \in 0..rowIds /\ 0 \in 0..Base - 1 /\ rowIds \in Nat
  BY <1>1, EnvelopeAssumption DEF Base
<1> QED BY <1>1, <1>2, <1>3, Zenon DEF EnvInv, IsRow

\* What a step of the rows needs: they stay rows, old ones and new ones.
LEMMA RowsStay ==
  ASSUME rowIds \in Nat, rowIds' \in {rowIds, rowIds + 1}
  PROVE  /\ rowIds' \in Nat
         /\ \A row : IsRow(row) => /\ row = [id |-> row.id, body |-> row.body] /\ row.id \in 0..rowIds'
                                   /\ row.id # rowIds + 1 /\ row.id \in Nat
         /\ NoBody = [id |-> NoBody.id, body |-> NoBody.body] /\ NoBody.id = 0 /\ NoBody.id \in 0..rowIds'
         /\ rowIds + 1 # 0 /\ (rowIds' = rowIds + 1 => rowIds + 1 \in 0..rowIds')
         /\ \A e : Insert(e) = [id |-> Insert(e).id, body |-> Insert(e).body]
                   /\ Insert(e).id = rowIds + 1 /\ Insert(e).body = Marshal(e)
<1>1. rowIds' \in Nat
  OBVIOUS
<1>2. \A row : IsRow(row) => /\ row = [id |-> row.id, body |-> row.body] /\ row.id \in 0..rowIds'
                             /\ row.id # rowIds + 1 /\ row.id \in Nat
  BY DEF IsRow
<1>3. NoBody = [id |-> NoBody.id, body |-> NoBody.body] /\ NoBody.id = 0 /\ NoBody.id \in 0..rowIds'
  BY DEF NoBody
<1>4. rowIds + 1 # 0 /\ (rowIds' = rowIds + 1 => rowIds + 1 \in 0..rowIds')
  OBVIOUS
<1>5. \A e : Insert(e) = [id |-> Insert(e).id, body |-> Insert(e).body]
             /\ Insert(e).id = rowIds + 1 /\ Insert(e).body = Marshal(e)
  BY DEF Insert
<1> QED BY <1>1, <1>2, <1>3, <1>4, <1>5, Zenon

\* An envelope of the request, as the steps meet it.
LEMMA CarriedIs ==
  ASSUME EnvInv, FieldsFit(request), NEW g, g = NoName \/ \E i : i \in Int /\ g = <<i>>, NEW s \in 0..1
  PROVE  /\ ~Panics(Carried(request, charged, g, s))
         /\ UnmarshalEnvelope(Marshal(Carried(request, charged, g, s))) =
              [ok |-> TRUE, env |-> Carried(request, charged, g, s)]
<1>1. request \in EnvRequests /\ charged \in Nat
  <2>1. request \in EnvRequests /\ charged \in 0..Base - 1
    BY Zenon DEF EnvInv
  <2>2. \A n \in 0..Base - 1 : n \in Nat
    OBVIOUS
  <2> QED BY <2>1, <2>2, Zenon
<1>2. g \in Cells /\ Len(g) <= 1
  <2>1. CASE g = NoName
    <3>1. NoName \in Cells /\ Len(NoName) <= 1
      BY DEF NoName, Cells
    <3> QED BY <2>1, <3>1, Zenon
  <2>2. CASE \E i : i \in Int /\ g = <<i>>
    <3>1. PICK i : i \in Int /\ g = <<i>>
      BY <2>2
    <3>2. <<i>> \in Cells /\ Len(<<i>>) <= 1
      BY <3>1, OneCell
    <3> QED BY <3>1, <3>2, Zenon
  <2> QED BY <2>1, <2>2
<1>3. s \in Int
  OBVIOUS
<1> QED BY <1>1, <1>2, <1>3, CarriedBack, Zenon

\* Submit marshals the request into a global row.
LEMMA SubmitKeeps == ASSUME EnvInv, SubmitJob PROVE EnvInv'
<1>1. /\ request \in EnvRequests /\ rowIds \in Nat /\ charged \in 0..Base - 1 /\ stage = "submit"
      /\ IsRow(globRow) /\ IsRow(workRow) /\ IsRow(estimate)
      /\ charged = 0 /\ globRow.id = 0 /\ workRow.id = 0 /\ estimate.id = 0
      /\ UNCHANGED <<request, held, estimate, charged>>
  BY Zenon DEF EnvInv, SubmitJob
<1>2. CASE stage' = "refused" /\ UNCHANGED <<rowIds, globRow, workRow>>
  BY <1>1, <1>2, Zenon DEF EnvInv, IsRow
<1>3. CASE Acceptable(request)
           /\ Stored(NewEnvelope(request), "global", globRow' = Insert(NewEnvelope(request)) /\ UNCHANGED workRow)
  <2>1. FieldsFit(request)
    BY <1>3, Zenon DEF Acceptable
  <2>2. PICK e : e = Carried(request, charged, NoName, 0) /\ e = NewEnvelope(request)
    BY <1>1, CarriedFields, Zenon
  <2>3. ~Panics(e)
    <3>1. 0 \in 0..1
      OBVIOUS
    <3> QED BY <2>1, <2>2, <3>1, CarriedIs, Zenon
  <2>4. stage' = "global" /\ rowIds' = rowIds + 1 /\ globRow' = Insert(e) /\ workRow' = workRow
    BY <1>3, <2>2, <2>3, Zenon DEF Stored
  <2>5. /\ rowIds' \in Nat /\ rowIds + 1 # 0 /\ rowIds + 1 \in 0..rowIds'
        /\ IsRow(workRow)' /\ IsRow(estimate)'
        /\ globRow' = [id |-> globRow'.id, body |-> globRow'.body] /\ globRow'.id = rowIds + 1
        /\ globRow'.body = Marshal(e)
    <3>1. rowIds' \in {rowIds, rowIds + 1}
      BY <2>4
    <3> QED BY <1>1, <2>4, <3>1, RowsStay, Zenon DEF IsRow
  <2> QED BY <1>1, <2>1, <2>2, <2>4, <2>5, Zenon DEF EnvInv, IsRow
<1> QED BY <1>2, <1>3, Zenon DEF SubmitJob

\* A placement stamps the anchor and the seconds, and submits a worker row.
LEMMA PlaceKeeps == ASSUME EnvInv, NEW secs \in 0..1, PlaceJob(secs) PROVE EnvInv'
<1>1. /\ request \in EnvRequests /\ rowIds \in Nat /\ charged \in 0..Base - 1 /\ stage = "global"
      /\ IsRow(globRow) /\ IsRow(workRow) /\ IsRow(estimate) /\ FieldsFit(request)
      /\ globRow.id # 0 /\ globRow.body = Marshal(Carried(request, charged, NoName, 0))
      /\ UNCHANGED <<request, held, estimate, charged>>
  BY Zenon DEF EnvInv, PlaceJob
<1>2. UnmarshalEnvelope(globRow.body) = [ok |-> TRUE, env |-> Carried(request, charged, NoName, 0)]
  <2>1. 0 \in 0..1
    OBVIOUS
  <2> QED BY <1>1, <2>1, CarriedIs, Zenon
<1>3. PICK e : e = Carried(request, charged, <<globRow.id>>, secs)
               /\ e = Placed(UnmarshalEnvelope(globRow.body).env, secs)
  <2>1. PICK d : d = UnmarshalEnvelope(globRow.body) /\ d = [ok |-> TRUE, env |-> Carried(request, charged, NoName, 0)]
    BY <1>2, Zenon
  <2>2. d.env = Carried(request, charged, NoName, 0)
    BY <2>1
  <2>3. [Carried(request, charged, NoName, 0) EXCEPT !.gmid = <<globRow.id>>, !.secs = secs] =
          Carried(request, charged, <<globRow.id>>, secs)
    <3>1. [Carried(request, charged, NoName, 0) EXCEPT !.gmid = <<globRow.id>>, !.secs = secs] =
            [[Carried(request, charged, NoName, 0) EXCEPT !.gmid = <<globRow.id>>] EXCEPT !.secs = secs]
      BY Zenon
    <3>2. [Carried(request, charged, NoName, 0) EXCEPT !.gmid = <<globRow.id>>] =
            Carried(request, charged, <<globRow.id>>, 0)
      BY DEF Carried
    <3>3. [Carried(request, charged, <<globRow.id>>, 0) EXCEPT !.secs = secs] =
            Carried(request, charged, <<globRow.id>>, secs)
      BY DEF Carried
    <3> QED BY <3>1, <3>2, <3>3, Zenon
  <2> QED BY <2>1, <2>2, <2>3, Zenon DEF Placed
<1>4. ~Panics(e)
  <2>1. globRow.id \in Int
    BY <1>1 DEF IsRow
  <2> QED BY <1>1, <1>3, <2>1, CarriedIs, Zenon
<1>5. stage' = "placed" /\ rowIds' = rowIds + 1 /\ workRow' = Insert(e) /\ globRow' = globRow
  BY <1>3, <1>4, Zenon DEF PlaceJob, Stored
<1>6. rowIds' \in {rowIds, rowIds + 1}
  BY <1>5
<1>7. /\ rowIds' \in Nat /\ rowIds + 1 # 0 /\ rowIds + 1 \in 0..rowIds' /\ estimate.id # rowIds + 1
      /\ IsRow(globRow)' /\ IsRow(estimate)'
      /\ workRow' = [id |-> workRow'.id, body |-> workRow'.body] /\ workRow'.id = rowIds + 1
      /\ workRow'.body = Marshal(e)
  BY <1>1, <1>5, <1>6, RowsStay, Zenon DEF IsRow
<1>8. RowOf(workRow', request, charged, <<globRow.id>>)
  BY <1>3, <1>7, Zenon DEF RowOf
<1> QED BY <1>1, <1>5, <1>7, <1>8, Zenon DEF EnvInv, IsRow

\* A stolen row is a new one with the body of the old.
LEMMA StealKeeps == ASSUME EnvInv, StealJob PROVE EnvInv'
<1>1. /\ request \in EnvRequests /\ rowIds \in Nat /\ charged \in 0..Base - 1 /\ stage = "placed"
      /\ IsRow(globRow) /\ IsRow(workRow) /\ IsRow(estimate) /\ FieldsFit(request)
      /\ globRow.id # 0 /\ workRow.id # 0 /\ globRow.body = Marshal(Carried(request, charged, NoName, 0))
      /\ RowOf(workRow, request, charged, <<globRow.id>>)
      /\ UNCHANGED <<request, stage, globRow, held, estimate, charged>>
  BY Zenon DEF EnvInv, StealJob
<1>2. workRow' = [workRow EXCEPT !.id = rowIds + 1] /\ rowIds' = rowIds + 1
  BY Zenon DEF StealJob
<1>3. PICK b : workRow = [id |-> workRow.id, body |-> b] /\ b = workRow.body
  BY <1>1, Zenon DEF IsRow
<1>4. workRow' = [id |-> rowIds + 1, body |-> b]
  BY <1>2, <1>3
<1>5. rowIds' \in {rowIds, rowIds + 1}
  BY <1>2
<1>6. /\ rowIds' \in Nat /\ rowIds + 1 # 0 /\ rowIds + 1 \in 0..rowIds' /\ estimate.id # rowIds + 1
      /\ IsRow(globRow)' /\ IsRow(estimate)'
  BY <1>1, <1>2, <1>5, RowsStay, Zenon DEF IsRow
<1>7. workRow' = [id |-> workRow'.id, body |-> workRow'.body] /\ workRow'.id = rowIds + 1 /\ workRow'.body = workRow.body
  BY <1>3, <1>4, Zenon
<1>8. RowOf(workRow', request, charged, <<globRow.id>>)
  BY <1>1, <1>7, Zenon DEF RowOf
<1> QED BY <1>1, <1>2, <1>6, <1>7, <1>8, Zenon DEF EnvInv, IsRow

\* A release drops the worker row; the anchor is what it was.
LEMMA ReleaseKeeps == ASSUME EnvInv, ReleaseJob PROVE EnvInv'
<1>1. /\ stage = "placed" /\ stage' = "global" /\ workRow' = NoBody /\ rowIds \in Nat
      /\ IsRow(globRow) /\ IsRow(estimate) /\ UNCHANGED <<request, globRow, held, estimate, charged, rowIds>>
  BY Zenon DEF EnvInv, ReleaseJob
<1>2. rowIds' \in {rowIds, rowIds + 1}
  BY <1>1
<1>3. IsRow(globRow)' /\ IsRow(workRow)' /\ IsRow(estimate)' /\ workRow'.id = 0
  BY <1>1, <1>2, RowsStay, Zenon DEF IsRow
<1> QED BY <1>1, <1>3, Zenon DEF EnvInv

\* The re-estimate pass reads the row before it rewrites it.
LEMMA PeekKeeps == ASSUME EnvInv, NEW secs \in 0..1, PeekEstimate(secs) PROVE EnvInv'
<1>1. /\ request \in EnvRequests /\ charged \in 0..Base - 1 /\ rowIds \in Nat
      /\ stage = "placed" /\ FieldsFit(request) /\ IsRow(globRow) /\ IsRow(workRow) /\ workRow.id # 0
      /\ RowOf(workRow, request, charged, <<globRow.id>>)
      /\ UNCHANGED <<request, stage, globRow, workRow, held, charged, rowIds>>
  BY Zenon DEF EnvInv, PeekEstimate
<1>2. PICK s \in 0..1 : workRow.body = Marshal(Carried(request, charged, <<globRow.id>>, s))
  BY <1>1, Zenon DEF RowOf
<1>3. UnmarshalEnvelope(workRow.body) = [ok |-> TRUE, env |-> Carried(request, charged, <<globRow.id>>, s)]
  <2>1. globRow.id \in Int
    BY <1>1 DEF IsRow
  <2> QED BY <1>1, <1>2, <2>1, CarriedIs, Zenon
<1>4. PICK d : d = UnmarshalEnvelope(workRow.body) /\ d.env = Carried(request, charged, <<globRow.id>>, s)
  BY <1>3
<1>5. [d.env EXCEPT !.secs = secs] = Carried(request, charged, <<globRow.id>>, secs)
  <2>1. [Carried(request, charged, <<globRow.id>>, s) EXCEPT !.secs = secs] = Carried(request, charged, <<globRow.id>>, secs)
    BY DEF Carried
  <2> QED BY <1>4, <2>1, Zenon
<1>6. estimate' = [id |-> workRow.id, body |-> Marshal(Carried(request, charged, <<globRow.id>>, secs))]
  BY <1>4, <1>5, Zenon DEF PeekEstimate
<1>7. /\ estimate'.id = workRow.id /\ estimate'.body = Marshal(Carried(request, charged, <<globRow.id>>, secs))
      /\ estimate' = [id |-> estimate'.id, body |-> estimate'.body]
  BY <1>6
<1>8. RowOf(estimate', request, charged, <<globRow.id>>)
  BY <1>7, Zenon DEF RowOf
<1> QED BY <1>1, <1>7, <1>8, Zenon DEF EnvInv, IsRow

\* What the pass writes back, it read from a row with the same id.
LEMMA UpdateKeeps == ASSUME EnvInv, UpdateBody PROVE EnvInv'
<1>1. /\ estimate.id # 0 /\ estimate' = NoBody /\ rowIds \in Nat
      /\ workRow' = IF workRow.id = estimate.id THEN estimate ELSE workRow
      /\ IsRow(globRow) /\ IsRow(workRow) /\ IsRow(estimate)
      /\ UNCHANGED <<request, stage, globRow, held, charged, rowIds>>
  BY Zenon DEF EnvInv, UpdateBody
<1>2. rowIds' \in {rowIds, rowIds + 1}
  BY <1>1
<1>3. IsRow(globRow)' /\ IsRow(estimate)' /\ estimate'.id = 0
  BY <1>1, <1>2, RowsStay, Zenon DEF IsRow
<1>4. CASE workRow.id = estimate.id
  <2>1. workRow' = estimate /\ workRow'.id = workRow.id
    BY <1>1, <1>4
  <2>2. RowOf(estimate, request, charged, <<globRow.id>>)
    BY <1>1, <1>4, Zenon DEF EnvInv
  <2> QED BY <1>1, <1>3, <2>1, <2>2, Zenon DEF EnvInv, IsRow
<1>5. CASE workRow.id # estimate.id
  <2>1. workRow' = workRow
    BY <1>1, <1>5
  <2> QED BY <1>1, <1>3, <2>1, Zenon DEF EnvInv, IsRow
<1> QED BY <1>4, <1>5

\* A dispatch sends what the row carries.
LEMMA DispatchKeeps == ASSUME EnvInv, DispatchJob PROVE EnvInv'
<1>1. /\ request \in EnvRequests /\ charged \in 0..Base - 1 /\ rowIds \in Nat
      /\ stage = "placed" /\ FieldsFit(request) /\ IsRow(globRow) /\ workRow.id # 0
      /\ RowOf(workRow, request, charged, <<globRow.id>>)
      /\ held' = UnmarshalEnvelope(workRow.body)
      /\ UNCHANGED <<request, globRow, estimate, charged, rowIds>>
  BY Zenon DEF EnvInv, DispatchJob
<1>2. PICK s \in 0..1 : workRow.body = Marshal(Carried(request, charged, <<globRow.id>>, s))
  BY <1>1, Zenon DEF RowOf
<1>3. UnmarshalEnvelope(workRow.body) = [ok |-> TRUE, env |-> Carried(request, charged, <<globRow.id>>, s)]
  <2>1. globRow.id \in Int
    BY <1>1 DEF IsRow
  <2> QED BY <1>1, <1>2, <2>1, CarriedIs, Zenon
<1>4. held'.ok /\ held'.env = Carried(request, charged, <<globRow.id>>, s)
  BY <1>1, <1>3
<1>5. stage' = "running" /\ workRow' = workRow
  BY <1>4, Zenon DEF DispatchJob
<1> QED BY <1>1, <1>4, <1>5, Zenon DEF EnvInv, IsRow

\* The job is answered, and its rows are gone.
LEMMA RowsGone ==
  ASSUME EnvInv, stage = "running", stage' = "answered", globRow' = NoBody, workRow' = NoBody,
         UNCHANGED <<request, held, estimate, charged, rowIds>>
  PROVE  EnvInv'
<1>1. rowIds \in Nat /\ rowIds' \in {rowIds, rowIds + 1} /\ IsRow(estimate)
  BY DEF EnvInv
<1>2. IsRow(globRow)' /\ IsRow(workRow)' /\ IsRow(estimate)' /\ globRow'.id = 0 /\ workRow'.id = 0
  BY <1>1, RowsStay, Zenon DEF IsRow
<1> QED BY <1>2, Zenon DEF EnvInv

\* A retry counts what the row or the dispatch has counted before.
LEMMA RequeueKeeps ==
  ASSUME EnvInv, stage = "running", NEW s \in 0..1, NEW cap \in Nat, cap <= Base,
         RequeueJob(Carried(request, charged, <<globRow.id>>, s), cap)
  PROVE  EnvInv'
<1> DEFINE e == Carried(request, charged, <<globRow.id>>, s)
<1>1. /\ request \in EnvRequests /\ charged \in 0..Base - 1 /\ rowIds \in Nat /\ FieldsFit(request)
      /\ IsRow(estimate) /\ UNCHANGED <<request, held, estimate>>
  BY Zenon DEF EnvInv, RequeueJob
<1>2. e.attempts = charged
  BY DEF Carried
<1>3. CASE charged + 1 >= cap
  <2>1. stage' = "answered" /\ globRow' = NoBody /\ workRow' = NoBody /\ UNCHANGED <<charged, rowIds>>
    BY <1>2, <1>3, Zenon DEF RequeueJob
  <2> QED BY <1>1, <2>1, RowsGone, Zenon
<1>4. CASE ~(charged + 1 >= cap)
  <2>1. charged + 1 < Base /\ charged + 1 \in 0..Base - 1 /\ charged + 1 \in Nat
    <3>1. Base \in Nat
      BY EnvelopeAssumption DEF Base
    <3> QED BY <1>1, <1>4, <3>1
  <2>2. PICK n : n = Carried(request, charged + 1, NoName, 0) /\ n = Retried(e)
    <3>1. charged \in Nat
      BY <1>1
    <3>2. Retried(e) = Carried(request, charged + 1, NoName, 0)
      BY <2>1, <3>1, CarriedRetried
    <3> QED BY <3>2
  <2>3. ~Panics(n)
    <3>1. NoName \in Cells /\ Len(NoName) <= 1 /\ 0 \in Int
      BY DEF NoName, Cells
    <3> QED BY <1>1, <2>1, <2>2, <3>1, CarriedBack, Zenon
  <2>4. Stored(n, "global", globRow' = Insert(n) /\ workRow' = NoBody) /\ charged' = charged + 1
    BY <1>2, <1>4, <2>2, Zenon DEF RequeueJob
  <2>5. stage' = "global" /\ rowIds' = rowIds + 1 /\ globRow' = Insert(n) /\ workRow' = NoBody
    BY <2>3, <2>4, Zenon DEF Stored
  <2>6. rowIds' \in {rowIds, rowIds + 1}
    BY <2>5
  <2>7. /\ rowIds' \in Nat /\ rowIds + 1 # 0 /\ rowIds + 1 \in 0..rowIds'
        /\ IsRow(workRow)' /\ IsRow(estimate)' /\ workRow'.id = 0
        /\ globRow' = [id |-> globRow'.id, body |-> globRow'.body] /\ globRow'.id = rowIds + 1
        /\ globRow'.body = Marshal(n)
    BY <1>1, <2>5, <2>6, RowsStay, Zenon DEF IsRow
  <2> QED BY <1>1, <2>1, <2>2, <2>4, <2>5, <2>7, Zenon DEF EnvInv, IsRow
<1> QED BY <1>3, <1>4

\* The invariant holds as long as the attempts that are allowed fit the byte that counts them.
THEOREM EnvInvHolds == ASSUME LoadAttempts <= Base, RequeueBudget <= Base PROVE EnvSpec => []EnvInv
<1>1. EnvInit => EnvInv
  BY EnvInvInit
<1>2. EnvInv /\ [EnvNext]_envVars => EnvInv'
  <2> SUFFICES ASSUME EnvInv, [EnvNext]_envVars PROVE EnvInv'
    OBVIOUS
  <2>0. LoadAttempts \in Nat /\ RequeueBudget \in Nat
    BY EnvelopeAssumption
  <2>1. CASE SubmitJob
    BY <2>1, SubmitKeeps
  <2>2. CASE StealJob
    BY <2>2, StealKeeps
  <2>3. CASE ReleaseJob
    BY <2>3, ReleaseKeeps
  <2>4. CASE UpdateBody
    BY <2>4, UpdateKeeps
  <2>5. CASE DispatchJob
    BY <2>5, DispatchKeeps
  <2>6. CASE FinishJob
    BY <2>6, RowsGone, Zenon DEF FinishJob
  <2>7. CASE RetryLoad
    <3>1. PICK s \in 0..1 : held.env = Carried(request, charged, <<globRow.id>>, s)
      BY <2>7, Zenon DEF RetryLoad, EnvInv
    <3>2. stage = "running" /\ RequeueJob(Carried(request, charged, <<globRow.id>>, s), LoadAttempts)
      BY <2>7, <3>1, Zenon DEF RetryLoad
    <3> QED BY <2>0, <3>2, RequeueKeeps, Zenon
  <2>8. CASE RequeueLost
    <3>1. stage = "running" /\ FieldsFit(request) /\ IsRow(globRow) /\ RowOf(workRow, request, charged, <<globRow.id>>)
      BY <2>8, Zenon DEF RequeueLost, EnvInv
    <3>2. PICK s \in 0..1 : workRow.body = Marshal(Carried(request, charged, <<globRow.id>>, s))
      BY <3>1, Zenon DEF RowOf
    <3>3. UnmarshalEnvelope(workRow.body) = [ok |-> TRUE, env |-> Carried(request, charged, <<globRow.id>>, s)]
      <4>1. rowIds \in Nat
        BY Zenon DEF EnvInv
      <4>2. globRow.id \in Int
        BY <3>1, <4>1 DEF IsRow
      <4> QED BY <3>1, <3>2, <4>2, CarriedIs, Zenon
    <3>4. PICK d : d = UnmarshalEnvelope(workRow.body) /\ d.env = Carried(request, charged, <<globRow.id>>, s)
      BY <3>3
    <3>5. RequeueJob(Carried(request, charged, <<globRow.id>>, s), RequeueBudget)
      BY <2>8, <3>4, Zenon DEF RequeueLost
    <3> QED BY <2>0, <3>1, <3>5, RequeueKeeps, Zenon
  <2>9. CASE \E secs \in 0..1 : PlaceJob(secs) \/ PeekEstimate(secs)
    BY <2>9, PlaceKeeps, PeekKeeps, Zenon
  <2>10. CASE UNCHANGED envVars
    BY <2>10, Zenon DEF EnvInv, IsRow, envVars
  <2> QED BY <2>1, <2>2, <2>3, <2>4, <2>5, <2>6, <2>7, <2>8, <2>9, <2>10, Zenon DEF EnvNext
<1> QED BY <1>1, <1>2, PTL DEF EnvSpec

\* What the invariant says of a row, decoded.
LEMMA EnvInvKept == EnvInv => EnvelopeKept
<1> SUFFICES ASSUME EnvInv PROVE EnvelopeKept
  OBVIOUS
<1>1. stage # "panicked" /\ request \in EnvRequests /\ charged \in 0..Base - 1 /\ rowIds \in Nat /\ IsRow(globRow) /\ IsRow(workRow)
  BY Zenon DEF EnvInv
<1>2. globRow.id # 0 \/ workRow.id # 0 => FieldsFit(request)
  BY Zenon DEF EnvInv
<1>3. ASSUME NEW row, NEW g, NEW s \in 0..1, g = NoName \/ \E i : i \in Int /\ g = <<i>>,
             row.id # 0 => FieldsFit(request) /\ row.body = Marshal(Carried(request, charged, g, s))
      PROVE  Holds(row, g)
  <2> SUFFICES ASSUME row.id # 0 PROVE LET d == UnmarshalEnvelope(row.body)
                                       IN  d.ok /\ d.env = [NewEnvelope(request) EXCEPT !.gmid = g, !.attempts = charged, !.secs = d.env.secs]
    BY Zenon DEF Holds
  <2>1. PICK d : d = UnmarshalEnvelope(row.body) /\ d = [ok |-> TRUE, env |-> Carried(request, charged, g, s)]
    BY <1>1, <1>3, CarriedIs, Zenon
  <2>2. d.ok /\ d.env = Carried(request, charged, g, s)
    BY <2>1
  <2>3. /\ Carried(request, charged, g, s).secs = s
        /\ [NewEnvelope(request) EXCEPT !.gmid = g, !.attempts = charged, !.secs = s] = Carried(request, charged, g, s)
    <3>1. Carried(request, charged, g, s).secs = s
      BY CarriedFields
    <3>2. [NewEnvelope(request) EXCEPT !.gmid = g, !.attempts = charged, !.secs = s] = Carried(request, charged, g, s)
      BY CarriedIsNew, Zenon
    <3> QED BY <3>1, <3>2, Zenon
  <2> QED BY <2>1, <2>2, <2>3, Zenon
<1>4. Holds(globRow, NoName)
  <2>1. 0 \in 0..1 /\ (globRow.id # 0 => globRow.body = Marshal(Carried(request, charged, NoName, 0)))
    BY DEF EnvInv
  <2> QED BY <1>2, <1>3, <2>1, Zenon
<1>5. Holds(workRow, <<globRow.id>>)
  <2>1. globRow.id \in Int
    BY <1>1 DEF IsRow
  <2>2. CASE workRow.id = 0
    BY <2>2, Zenon DEF Holds
  <2>3. CASE workRow.id # 0
    <3>1. PICK s \in 0..1 : workRow.body = Marshal(Carried(request, charged, <<globRow.id>>, s))
      BY <2>3, Zenon DEF EnvInv, RowOf
    <3> QED BY <1>2, <1>3, <2>1, <2>3, <3>1, Zenon
  <2> QED BY <2>2, <2>3
<1> QED BY <1>1, <1>4, <1>5, Zenon DEF EnvelopeKept

\* For any names, artifacts and payload that the boundary accepts, and any number of hops:
\* a row decodes to the request that was submitted, with every retry counted.
THEOREM EnvelopeIsKept == ASSUME LoadAttempts <= Base, RequeueBudget <= Base PROVE EnvSpec => []EnvelopeKept
BY EnvInvHolds, EnvInvKept, PTL
=============================================================================
