------------------------------- MODULE Catalogue -------------------------------
(***************************************************************************)
(* The operations on the model store that look across components           *)
(* (modelops.go, queue_view.go, scheduler_service.go): deleting a model,   *)
(* which must spare the files of queued jobs; the queue tab's snapshot;    *)
(* and importing a model of several files.                                 *)
(*                                                                         *)
(* Both readers walk the queues one query at a time, while rows move.  A   *)
(* path is the sequence of its components.  A job has a row on the global  *)
(* queue ("ready", or "held" as the anchor of a placed job) for as long as *)
(* it is queued, and one on a worker's queue while it is placed.           *)
(***************************************************************************)
EXTENDS Integers, Sequences, FiniteSets, SequencesExt

CONSTANTS
  CJobs, CWorkers,  \* jobs; workers, as numbers from 1: queues are listed in their order
  FileOf,           \* FileOf[j]: the path job j needs
  DeletePlans,      \* the sets of paths a gateway may name for a deletion
  Deletes,          \* deletions in progress
  Imports,          \* imports in progress
  ImportPlans,      \* the sequences of paths a gateway may plan
  BadPath,          \* a path ValidateRelPath refuses
  Nowhere

VARIABLES
  glob,     \* glob[j]: "new", "ready", "held", "between" (rows deleted, not resubmitted), "done"
  at,       \* at[j]: the worker queue with a row of j, or Nowhere
  flying,   \* flying[j]: j has an in-flight record
  devQ,     \* worker queues that are open
  del,      \* del[d]: [pc, plan, left, found, steady]
  snap,     \* the snapshot: [pc, left, shown, run, moved]
  disk,     \* paths of the store's files
  tracked,  \* paths with a download or a local copy under way
  imp       \* imp[i]: [pc, kind, plan, n, started, upset]

rowVars == <<glob, at, flying, devQ>>
catVars == <<rowVars, del, snap, disk, tracked, imp>>

globalQ == 0

HasRow(j) == glob[j] \in {"ready", "held"}
NoDelete == [pc |-> "idle", plan |-> {}, left |-> {}, found |-> {}, steady |-> {}]
NoImport == [pc |-> "idle", kind |-> "", plan |-> <<>>, n |-> 1, started |-> {}, upset |-> FALSE]
PlannedPaths == UNION {ToSet(p) : p \in ImportPlans}

ASSUME CatAssumption ==
  /\ CWorkers # {} /\ CWorkers \subseteq Nat \ {globalQ} /\ Nowhere \notin CWorkers
  /\ ImportPlans \subseteq Seq(PlannedPaths)

CatTypeOK ==
  /\ glob \in [CJobs -> {"new", "ready", "held", "between", "done"}]
  /\ at \in [CJobs -> CWorkers \cup {Nowhere}] /\ flying \in [CJobs -> BOOLEAN]
  /\ \A j \in CJobs : (at[j] # Nowhere) = (glob[j] = "held")
  /\ devQ \subseteq CWorkers
  /\ \A d \in Deletes : del[d].pc \in {"idle", "planned", "read", "remove"}
  /\ snap.pc \in {"idle", "global", "workers", "done"}
  /\ tracked \subseteq PlannedPaths
  /\ \A i \in Imports : imp[i].pc \in {"idle", "stat", "claim", "ok", "failed"}

CatInit ==
  /\ glob = [j \in CJobs |-> "new"] /\ at = [j \in CJobs |-> Nowhere]
  /\ flying = [j \in CJobs |-> FALSE] /\ devQ = {CHOOSE w \in CWorkers : \A v \in CWorkers : w <= v}
  /\ del = [d \in Deletes |-> NoDelete]
  /\ snap = [pc |-> "idle", left |-> {}, shown |-> [j \in CJobs |-> 0], run |-> {}, moved |-> FALSE]
  /\ disk = {FileOf[j] : j \in CJobs} /\ tracked = {}
  /\ imp = [i \in Imports |-> NoImport]

-----------------------------------------------------------------------------
(* The rows of a job.  Each step is one transaction of the queue.          *)

\* History: a snapshot under way was disturbed; a guard under way saw a job lose its rows.
Moves ==
  /\ snap' = [snap EXCEPT !.moved = TRUE]
  /\ del' = [d \in Deletes |-> [del[d] EXCEPT !.steady = {j \in @ : HasRow(j)'}]]
  /\ UNCHANGED <<disk, tracked, imp>>

Submit(j) ==
  /\ glob[j] \in {"new", "between"} /\ glob' = [glob EXCEPT ![j] = "ready"]
  /\ UNCHANGED <<at, flying, devQ>> /\ Moves

LeaseAndSubmit(j, w) ==
  /\ glob[j] = "ready" /\ w \in devQ
  /\ glob' = [glob EXCEPT ![j] = "held"] /\ at' = [at EXCEPT ![j] = w]
  /\ UNCHANGED <<flying, devQ>> /\ Moves

MoveTo(j, w) ==
  /\ glob[j] = "held" /\ ~flying[j] /\ w \in devQ \ {at[j]} /\ at' = [at EXCEPT ![j] = w]
  /\ UNCHANGED <<glob, flying, devQ>> /\ Moves

DeleteAndReleaseLease(j) ==
  /\ glob[j] = "held" /\ ~flying[j]
  /\ glob' = [glob EXCEPT ![j] = "ready"] /\ at' = [at EXCEPT ![j] = Nowhere]
  /\ UNCHANGED <<flying, devQ>> /\ Moves

startInflight(j) ==
  /\ glob[j] = "held" /\ ~flying[j] /\ flying' = [flying EXCEPT ![j] = TRUE]
  /\ UNCHANGED <<glob, at, devQ>> /\ Moves

\* Both rows go: the job is over, or it is about to be submitted again.
DeleteBoth(j, next) ==
  /\ glob[j] = "held" /\ glob' = [glob EXCEPT ![j] = next]
  /\ at' = [at EXCEPT ![j] = Nowhere] /\ flying' = [flying EXCEPT ![j] = FALSE]
  /\ UNCHANGED devQ /\ Moves

OnWorkerConnected(w) ==
  /\ devQ' = devQ \cup {w} /\ w \notin devQ
  /\ UNCHANGED <<glob, at, flying>> /\ Moves

-----------------------------------------------------------------------------
(* Deleting a model.                                                       *)

\* dir is a directory that path lies under.
pathCovers(dir, path) == IsStrictPrefix(dir, path)

\* Some doomed path is, holds or lies in a path that is queued.
firstPathOverlap(doomed, queued) ==
  \E d \in doomed, q \in queued : d = q \/ pathCovers(d, q) \/ pathCovers(q, d)

\* The gateway plans; it refuses while it sees a running job of the model.
PlanDelete(d, plan) ==
  /\ del[d].pc = "idle" /\ ~firstPathOverlap(plan, {FileOf[j] : j \in {k \in CJobs : flying[k]}})
  /\ del' = [del EXCEPT ![d] = [NoDelete EXCEPT !.pc = "planned", !.plan = plan]]
  /\ UNCHANGED <<rowVars, snap, disk, tracked, imp>>

\* The guard notes which queues there are ...
ListQueues(d) ==
  /\ del[d].pc = "planned"
  /\ del' = [del EXCEPT ![d].pc = "read", ![d].left = {globalQ} \cup devQ,
                        ![d].steady = {j \in CJobs : HasRow(j)}]
  /\ UNCHANGED <<rowVars, snap, disk, tracked, imp>>

\* Mutant: only rows nobody has leased.
PeekVisible(q) == {j \in CJobs : IF q = globalQ THEN glob[j] = "ready" ELSE at[j] = q /\ ~flying[j]}

\* Every row of a queue, leased ones too.
PeekAll(q) == {j \in CJobs : IF q = globalQ THEN HasRow(j) ELSE at[j] = q}

\* ... and reads them one after another, the global one first.
QueuedModelFiles(d, q) ==
  /\ del[d].pc = "read" /\ q \in del[d].left /\ (globalQ \in del[d].left => q = globalQ)
  /\ del' = [del EXCEPT ![d].left = @ \ {q}, ![d].found = @ \cup {FileOf[j] : j \in PeekAll(q)}]
  /\ UNCHANGED <<rowVars, snap, disk, tracked, imp>>

deleteModel(d) ==
  /\ del[d].pc = "read" /\ del[d].left = {}
  /\ del' = IF firstPathOverlap(del[d].plan, del[d].found) THEN [del EXCEPT ![d] = NoDelete]
            ELSE [del EXCEPT ![d].pc = "remove"]
  /\ UNCHANGED <<rowVars, snap, disk, tracked, imp>>

\* Imports of the named files are cancelled, files and directories removed.
RemoveLocal(d) ==
  /\ del[d].pc = "remove" /\ del' = [del EXCEPT ![d] = NoDelete]
  /\ disk' = {p \in disk : ~\E r \in del[d].plan : r = p \/ pathCovers(r, p)}
  /\ tracked' = tracked \ del[d].plan
  /\ imp' = [i \in Imports |-> [imp[i] EXCEPT !.upset = TRUE]]
  /\ UNCHANGED <<rowVars, snap>>

-----------------------------------------------------------------------------
(* The queue tab's snapshot.                                               *)

Counted(js) == [j \in CJobs |-> snap.shown[j] + IF j \in js THEN 1 ELSE 0]

inflightRequestIDs ==
  /\ snap.pc \in {"idle", "done"}
  /\ snap' = [pc |-> "global", left |-> devQ, shown |-> [j \in CJobs |-> 0],
              run |-> {j \in CJobs : flying[j]}, moved |-> FALSE]
  /\ UNCHANGED <<rowVars, del, disk, tracked, imp>>

\* The global section has no leased row: that job shows under its worker.
peekRowsUnleased == {j \in CJobs : glob[j] = "ready"}

SnapshotGlobal ==
  /\ snap.pc = "global"
  /\ snap' = [snap EXCEPT !.pc = "workers", !.shown = Counted(peekRowsUnleased)]
  /\ UNCHANGED <<rowVars, del, disk, tracked, imp>>

peekRowsAll(w) == {j \in CJobs : at[j] = w}

QueueSnapshot ==
  /\ snap.pc = "workers"
  /\ \/ \E w \in snap.left : /\ \A v \in snap.left : w <= v
                             /\ snap' = [snap EXCEPT !.left = @ \ {w}, !.shown = Counted(peekRowsAll(w))]
     \/ snap.left = {} /\ snap' = [snap EXCEPT !.pc = "done"]
  /\ UNCHANGED <<rowVars, del, disk, tracked, imp>>

RowsNext ==
  \/ \E j \in CJobs :
       \/ Submit(j) \/ DeleteAndReleaseLease(j) \/ startInflight(j)
       \/ \E next \in {"between", "done"} : DeleteBoth(j, next)
       \/ \E w \in CWorkers : LeaseAndSubmit(j, w) \/ MoveTo(j, w)
  \/ \E w \in CWorkers : OnWorkerConnected(w)

DeleteNext ==
  \E d \in Deletes :
    \/ \E plan \in DeletePlans : PlanDelete(d, plan)
    \/ \E q \in {globalQ} \cup CWorkers : QueuedModelFiles(d, q)
    \/ ListQueues(d) \/ deleteModel(d) \/ RemoveLocal(d)

SnapshotNext == inflightRequestIDs \/ SnapshotGlobal \/ QueueSnapshot

-----------------------------------------------------------------------------
(* Importing a model: from this host, from a repository, or by a gateway.  *)

Plan(i, kind, plan) ==
  /\ imp[i].pc \in {"idle", "ok", "failed"}
  /\ imp' = [imp EXCEPT ![i] = [NoImport EXCEPT !.pc = IF plan = <<>> THEN "ok" ELSE "stat", !.kind = kind, !.plan = plan]]
  /\ UNCHANGED <<rowVars, del, snap, disk, tracked>>

\* A runtime that is up plans the files of an import.
planImport(i, kind, plan) == kind \in {"local", "remote"} /\ Plan(i, kind, plan)

\* Mutant: the paths of a batch are not looked at beforehand.
DownloadUnchecked(i, plan) == Plan(i, "gateway", plan)

\* A gateway's batch: it may not be empty, and one path that is refused refuses them all.
DownloadFiles(i, plan) ==
  IF plan = <<>> \/ BadPath \in ToSet(plan)
  THEN /\ imp[i].pc \in {"idle", "ok", "failed"}
       /\ imp' = [imp EXCEPT ![i] = [NoImport EXCEPT !.pc = "failed", !.kind = "gateway", !.plan = plan]]
       /\ UNCHANGED <<rowVars, del, snap, disk, tracked>>
  ELSE Plan(i, "gateway", plan)

Path(i) == imp[i].plan[imp[i].n]
ImpGoto(i, pc) == imp' = [imp EXCEPT ![i].pc = pc]
NextFile(i, st) ==
  imp' = [imp EXCEPT ![i].pc = IF imp[i].n = Len(imp[i].plan) THEN "ok" ELSE "stat",
                     ![i].n = IF imp[i].n = Len(imp[i].plan) THEN @ ELSE @ + 1,
                     ![i].started = @ \cup st]

\* The conflict of a file that is there or under way: a local import gives up, the other
\* kinds pass on to the next file.
Conflict(i) == IF imp[i].kind = "local" THEN ImpGoto(i, "failed") ELSE NextFile(i, {})

\* The path and the file's presence are checked first.  The source of a local import may
\* be missing; one that is its own destination needs no copy.
StartStat(i) ==
  /\ imp[i].pc = "stat"
  /\ \/ Path(i) = BadPath /\ ImpGoto(i, "failed")
     \/ Path(i) # BadPath /\ imp[i].kind = "local" /\ ImpGoto(i, "failed")
     \/ Path(i) # BadPath /\ imp[i].kind = "local" /\ Path(i) \in disk /\ NextFile(i, {})
     \/ Path(i) # BadPath /\ Path(i) \in disk /\ Conflict(i)
     \/ Path(i) # BadPath /\ Path(i) \notin disk /\ ImpGoto(i, "claim")
  /\ UNCHANGED <<rowVars, del, snap, disk, tracked>>

\* Then, under the manager's lock, whether it is under way already.
StartClaim(i) ==
  /\ imp[i].pc = "claim"
  /\ IF Path(i) \in tracked THEN Conflict(i) /\ UNCHANGED tracked
     ELSE tracked' = tracked \cup {Path(i)} /\ NextFile(i, {Path(i)})
  /\ UNCHANGED <<rowVars, del, snap, disk>>

\* A transfer ends: with its file, or cancelled.
Transferred(p, ok) ==
  /\ p \in tracked /\ tracked' = tracked \ {p}
  /\ disk' = IF ok THEN disk \cup {p} ELSE disk
  /\ imp' = IF ok THEN imp ELSE [i \in Imports |-> [imp[i] EXCEPT !.upset = TRUE]]
  /\ UNCHANGED <<rowVars, del, snap>>

ImportNext ==
  \/ \E i \in Imports :
       \/ \E plan \in ImportPlans : DownloadFiles(i, plan) \/ \E kind \in {"local", "remote"} : planImport(i, kind, plan)
       \/ StartStat(i) \/ StartClaim(i)
  \/ \E p \in PlannedPaths, ok \in BOOLEAN : Transferred(p, ok)

CatNext == RowsNext \/ DeleteNext \/ SnapshotNext \/ ImportNext
CatSpec == CatInit /\ [][CatNext]_catVars

-----------------------------------------------------------------------------
(* Properties.                                                             *)

\* What the two walks over the queues may be relied on for.  A deletion that passes its
\* guard spares the files of every job that had a row throughout the guard's reading,
\* however its rows moved between the queues meanwhile: the anchor is what makes the walk
\* safe (QueuedModelFiles).  And a snapshot that nothing disturbed shows every queued job
\* once and marks exactly the running ones (QueueSnapshot).
ReadersSeeQueued ==
  /\ \A d \in Deletes : del[d].pc = "remove" => ~firstPathOverlap(del[d].plan, {FileOf[j] : j \in del[d].steady})
  /\ snap.pc = "done" /\ ~snap.moved =>
       /\ \A j \in CJobs : snap.shown[j] = IF HasRow(j) THEN 1 ELSE 0
       /\ snap.run = {j \in CJobs : flying[j]}

\* An import that reports success has every planned file in the store or under way, unless
\* one was cancelled or deleted since, whatever other imports did to the same files; and a
\* gateway's batch that is refused for a path started nothing.
ImportWhole ==
  \A i \in Imports :
    /\ imp[i].pc = "ok" /\ ~imp[i].upset => ToSet(imp[i].plan) \subseteq disk \cup tracked
    /\ imp[i].pc = "failed" /\ imp[i].kind = "gateway" => imp[i].started = {}

\* The guard's purpose: no file of a queued job is removed ("refuse a delete that would
\* strand a QUEUED job").  It fails for a job submitted after the global queue was read,
\* and for one whose rows are deleted and submitted again while the guard reads.
QueuedFilesKept == \A j \in CJobs : HasRow(j) => FileOf[j] \in disk
=============================================================================
