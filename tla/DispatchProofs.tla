---------------------------- MODULE DispatchProofs ----------------------------
(***************************************************************************)
(* Proofs about Dispatch, for every set of jobs and workers, every budget  *)
(* and every bound.                                                        *)
(*                                                                         *)
(* NoLostJob is not inductive: an action that deletes rows is harmless     *)
(* only because the job is answered, because its goroutine owes the job a  *)
(* resubmission, or because the row it deletes is not the anchor.  IInv    *)
(* adds what each goroutine knows of the row it works on, from the step in *)
(* which it learnt it to the step that uses it: that the row exists, which *)
(* job it carries, on which queue it is, and that the job is answered.     *)
(***************************************************************************)
EXTENDS Dispatch, TLAPS

Statuses   == Terminal \cup {"none", "pending", "processing"}
Unanswered == {"pending", "processing"}

\* Rows are born in order, and a row's anchor is another row with the same envelope.
TableOK(t, b) ==
  /\ t \in [Ids -> Row] /\ b \in 0..MaxRows
  /\ \A i \in Ids : (i > b) <=> (t[i].lease = "unborn")
  /\ \A i \in Ids : i > b => t[i].attempts = 0
  /\ \A i \in 1..b : t[i].anchor # 0 =>
       /\ t[i].anchor \in 1..b
       /\ t[t[i].anchor].job = t[i].job /\ t[t[i].anchor].attempts = t[i].attempts

\* A row that was born keeps its queue and its envelope.
Same(t, b, u) == \A i \in 1..b :
  /\ u[i].q = t[i].q /\ u[i].job = t[i].job
  /\ u[i].anchor = t[i].anchor /\ u[i].attempts = t[i].attempts

\* The anchors of job j are still there.
Keeps(t, u, j) == \A i \in Ids :
  t[i].q = "global" /\ t[i].job = j /\ Live(t, i) =>
    u[i].q = "global" /\ u[i].job = j /\ Live(u, i)

JobsOK ==
  /\ result \in [Jobs -> Statuses]
  /\ buffer \subseteq Jobs
  /\ marker \in [Jobs -> {"none", "set", "cancel"}]
  /\ inflight \in [Jobs -> {"none", "live", "cancelled"}]
  /\ starts \in [Jobs -> Nat]

WorkersOK ==
  /\ devQ \subseteq Workers /\ connecting \subseteq Workers /\ disabled \subseteq Workers
  /\ status \in [Workers -> {"away", "online", "offline"}]
  /\ conn \in [Workers -> 0..MaxConns]
  /\ batchConn \in [Workers -> 0..MaxConns]
  /\ events \in Nat

BatchOK ==
  /\ batch \in [Workers -> SUBSET Ids]
  /\ \A w \in Workers : \A i \in batch[w] : i \in 1..born /\ rows[i].q = w

Placers == Jobs \cup {"dispatcher"}

PlaceOK ==
  /\ place \in [Placers ->
                  [pc : {"idle", "created", "pick", "commit", "done", "fail", "delete", "steal"},
                   row : 0..MaxRows, target : Queues]]
  /\ \A p \in Placers :
       /\ place[p].pc \in {"pick", "commit", "fail", "delete", "steal"} => place[p].row \in 1..born
       /\ place[p].pc = "delete" => result[JobOf(place[p].row)] \in Terminal
       /\ place[p].pc = "steal" => rows[place[p].row].q # "global"

AnsweredPcs == {"discard", "cleanup", "unassign", "delete"}

TaskOK ==
  /\ task \in [Ids -> [pc : TaskPcs, conn : 0..MaxConns,
                       kind : {"none", "done", "error", "lost"}, flag : BOOLEAN]]
  /\ \A i \in Ids :
       /\ task[i].pc # "none" => i \in 1..born
       /\ task[i].pc \in AnsweredPcs => result[JobOf(i)] \in Terminal

DrainOK ==
  /\ drain \in [Workers -> [pc : {"idle", "peek", "loop", "act", "drop", "resubmit", "revert"},
                            all : BOOLEAN, todo : SUBSET Ids, hot : SUBSET Ids,
                            row : 0..MaxRows]]
  /\ \A w \in Workers :
       /\ \A i \in drain[w].todo : i \in 1..born /\ rows[i].q = w
       /\ drain[w].pc \in {"act", "drop", "resubmit", "revert"} =>
            drain[w].row \in 1..born /\ rows[drain[w].row].q = w
       /\ drain[w].pc = "drop" => result[InDrain(w)] \in Terminal

CancelOK ==
  /\ cancel \in [Jobs -> [pc : {"idle", "scanGlobal", "scanWorkers", "confirm", "delete",
                                "settle", "marker", "running", "ok", "conflict", "notInflight"},
                          row : 0..MaxRows]]
  /\ \A j \in Jobs : cancel[j].pc \in {"confirm", "delete"} =>
       cancel[j].row \in 1..born /\ JobOf(cancel[j].row) = j

EvictOK ==
  /\ evict \in 0..MaxRows
  /\ evict # 0 => evict \in 1..born /\ rows[evict].q # "global"

\* The inductive invariant.
Refs == TableOK(rows, born) /\ JobsOK /\ WorkersOK /\ BatchOK /\ PlaceOK /\ TaskOK /\ DrainOK
        /\ CancelOK /\ EvictOK
IInv == Refs /\ NoLostJob

\* What every step does to the table and to the results.
TableStep == TableOK(rows', born') /\ born <= born' /\ Same(rows, born, rows')
Answers   == \A j \in Jobs : result[j] \in Terminal => result'[j] \in Terminal
Step      == TableStep /\ Answers /\ result' \in [Jobs -> Statuses]

\* NoLostJob and Owed, taken apart.
Anchored(j)  == \E i \in Ids : rows[i].q = "global" /\ JobOf(i) = j /\ Live(rows, i)
OwesTask(j)  == \E i \in Ids : task[i].pc = "resubmit" /\ JobOf(i) = j
OwesDrain(j) == \E w \in Workers : drain[w].pc = "resubmit" /\ InDrain(w) = j
Stays(j)     == result'[j] \in Unanswered => result[j] \in Unanswered

-----------------------------------------------------------------------------
(* The queue's transactions.                                               *)

\* Submit keeps the table well formed, the identity of every older row and
\* every job's anchors.
LEMMA SubmitTable ==
  ASSUME NEW t, NEW b, TableOK(t, b), b < MaxRows,
         NEW q \in Queues, NEW j \in Jobs, NEW n \in Nat, NEW a \in 0..MaxRows,
         a # 0 => a \in 1..b /\ t[a].job = j /\ t[a].attempts = n
  PROVE  LET u == Submit(t, b + 1, q, j, a, n)
         IN  /\ TableOK(u, b + 1) /\ Same(t, b, u)
             /\ \A k \in Jobs : Keeps(t, u, k)
             /\ u[b + 1].q = q /\ u[b + 1].job = j /\ Live(u, b + 1)
             /\ b + 1 \in Ids
<1> DEFINE u == Submit(t, b + 1, q, j, a, n)
<1>1. b \in 0..MaxRows /\ b + 1 \in Ids /\ MaxRows \in Nat
  BY RowBound DEF TableOK, Ids
<1>2. \A i \in Ids : u[i] = IF i = b + 1
                            THEN [q |-> q, job |-> j, anchor |-> a, attempts |-> n, lease |-> "free"]
                            ELSE t[i]
  BY <1>1 DEF TableOK, Submit
<1>3. u \in [Ids -> Row]
  BY <1>1, <1>2 DEF TableOK, Submit, Row, Leases
<1>4. \A i \in 1..b : i \in Ids /\ u[i] = t[i]
  BY <1>1, <1>2 DEF Ids
<1>5. \A i \in Ids : (i > b + 1) <=> (u[i].lease = "unborn")
  BY <1>1, <1>2 DEF TableOK, Ids
<1>6. \A i \in 1..(b + 1) : u[i].anchor # 0 =>
         /\ u[i].anchor \in 1..(b + 1)
         /\ u[u[i].anchor].job = u[i].job /\ u[u[i].anchor].attempts = u[i].attempts
  <2> SUFFICES ASSUME NEW i \in 1..(b + 1), u[i].anchor # 0
               PROVE  /\ u[i].anchor \in 1..(b + 1)
                      /\ u[u[i].anchor].job = u[i].job /\ u[u[i].anchor].attempts = u[i].attempts
    OBVIOUS
  <2>1. CASE i = b + 1
    BY <2>1, <1>1, <1>2, <1>4
  <2>2. CASE i \in 1..b
    BY <2>2, <1>1, <1>4 DEF TableOK
  <2> QED BY <2>1, <2>2, <1>1
<1>7. TableOK(u, b + 1)
  <2>1. \A i \in Ids : i > b + 1 => u[i].attempts = 0
    BY <1>1, <1>2 DEF TableOK, Ids
  <2> QED BY <1>1, <1>3, <1>5, <1>6, <2>1 DEF TableOK
<1>8. \A k \in Jobs : Keeps(t, u, k)
  BY <1>1, <1>2 DEF TableOK, Keeps, Live
<1> QED BY <1>1, <1>2, <1>4, <1>7, <1>8 DEF Same, Live

\* Delete keeps the table well formed and every row's identity, and the anchors
\* of each job none of whose global rows it deletes.
LEMMA DeleteTable ==
  ASSUME NEW t, NEW b, TableOK(t, b), NEW S, \A i \in S : i = 0 \/ i \in 1..b
  PROVE  LET u == Delete(t, S)
         IN  /\ TableOK(u, b) /\ Same(t, b, u)
             /\ \A j \in Jobs : (\A i \in S : i = 0 \/ t[i].job # j \/ t[i].q # "global") => Keeps(t, u, j)
<1> DEFINE u == Delete(t, S)
<1>1. b \in 0..MaxRows /\ MaxRows \in Nat /\ 1..b \subseteq Ids /\ 0 \notin Ids
  BY RowBound DEF TableOK, Ids
<1>2. \A i \in Ids : u[i] = IF i \in S THEN [t[i] EXCEPT !.lease = "gone"] ELSE t[i]
  BY DEF Delete
<1>3. u \in [Ids -> Row]
  BY <1>2 DEF TableOK, Delete, Row, Leases
<1>4. \A i \in Ids : u[i].q = t[i].q /\ u[i].job = t[i].job /\ u[i].anchor = t[i].anchor
                     /\ u[i].attempts = t[i].attempts /\ (i \notin S => u[i] = t[i])
  BY <1>2 DEF TableOK, Row
<1>5. \A i \in Ids : (i > b) <=> (u[i].lease = "unborn")
  <2> TAKE i \in Ids
  <2>1. CASE i \in S
    <3>1. i \in 1..b
      BY <2>1, <1>1
    <3>2. u[i].lease = "gone"
      BY <2>1, <1>2 DEF TableOK, Row
    <3> QED BY <3>1, <3>2, <1>1
  <2>2. CASE i \notin S
    BY <2>2, <1>2 DEF TableOK
  <2> QED BY <2>1, <2>2
<1>6. TableOK(u, b)
  BY <1>1, <1>3, <1>4, <1>5 DEF TableOK
<1> QED BY <1>1, <1>4, <1>6 DEF Same, Keeps, Live

\* DeleteBoth touches the rows of one job only.
LEMMA DeleteBothTable ==
  ASSUME NEW t, NEW b, TableOK(t, b), NEW i \in 1..b
  PROVE  LET u == DeleteBoth(t, i)
         IN  /\ TableOK(u, b) /\ Same(t, b, u)
             /\ \A j \in Jobs : j # t[i].job => Keeps(t, u, j)
<1>1. \A k \in {i, t[i].anchor} : k = 0 \/ (k \in 1..b /\ t[k].job = t[i].job)
  BY DEF TableOK
<1> QED BY <1>1, DeleteTable DEF DeleteBoth

\* ReleaseLease keeps the table well formed and every job's anchors.
LEMMA ReleaseTable ==
  ASSUME NEW t, NEW b, TableOK(t, b), NEW i
  PROVE  LET u == ReleaseLease(t, i)
         IN  TableOK(u, b) /\ Same(t, b, u) /\ \A j \in Jobs : Keeps(t, u, j)
<1> DEFINE u == ReleaseLease(t, i)
<1>1. b \in 0..MaxRows /\ MaxRows \in Nat /\ 1..b \subseteq Ids
  BY RowBound DEF TableOK, Ids
<1>2. \A k \in Ids : u[k] = IF k = i /\ Live(t, k) THEN [t[k] EXCEPT !.lease = "free"] ELSE t[k]
  BY DEF ReleaseLease
<1>3. u \in [Ids -> Row]
  BY <1>2 DEF TableOK, ReleaseLease, Row, Leases
<1>4. \A k \in Ids : u[k].q = t[k].q /\ u[k].job = t[k].job /\ u[k].anchor = t[k].anchor
                     /\ u[k].attempts = t[k].attempts /\ (Live(t, k) => Live(u, k)) /\ (~Live(t, k) => u[k] = t[k])
  BY <1>2, ZenonT(60) DEF TableOK, Row, Live
<1>5. \A k \in Ids : (k > b) <=> (u[k].lease = "unborn")
  BY <1>1, <1>4 DEF TableOK, Live
<1>6. TableOK(u, b)
  BY <1>1, <1>3, <1>4, <1>5 DEF TableOK
<1> QED BY <1>1, <1>4, <1>6 DEF Same, Keeps

\* Row identity and anchors survive two table operations in a row.
LEMMA TableTrans ==
  ASSUME NEW t, NEW u, NEW v, NEW b,
         Same(t, b, u), Same(u, b, v), \A j \in Jobs : Keeps(t, u, j), \A j \in Jobs : Keeps(u, v, j)
  PROVE  Same(t, b, v) /\ \A j \in Jobs : Keeps(t, v, j)
<1>1. Same(t, b, v)
  BY DEF Same
<1>2. ASSUME NEW j \in Jobs PROVE Keeps(t, v, j)
  <2>1. Keeps(t, u, j) /\ Keeps(u, v, j)
    OBVIOUS
  <2> QED BY <2>1 DEF Keeps
<1> QED BY <1>1, <1>2

\* DeleteAndReleaseLease of a worker row keeps every job's anchors.
LEMMA DeleteAndReleaseTable ==
  ASSUME NEW t, NEW b, TableOK(t, b), NEW i \in 1..b, t[i].q # "global"
  PROVE  LET u == DeleteAndReleaseLease(t, i)
         IN  TableOK(u, b) /\ Same(t, b, u) /\ \A j \in Jobs : Keeps(t, u, j)
<1> DEFINE d == Delete(t, {i})
           u == ReleaseLease(d, t[i].anchor)
<1>1. TableOK(d, b) /\ Same(t, b, d) /\ \A j \in Jobs : Keeps(t, d, j)
  BY DeleteTable
<1>2. TableOK(u, b) /\ Same(d, b, u) /\ \A j \in Jobs : Keeps(d, u, j)
  BY <1>1, ReleaseTable
<1>3. Same(t, b, u) /\ \A j \in Jobs : Keeps(t, u, j)
  BY <1>1, <1>2, TableTrans
<1> QED BY <1>2, <1>3 DEF DeleteAndReleaseLease

\* A live row changes its lease.
Relet(t, i, l) == [t EXCEPT ![i].lease = l]

\* Changing the lease of a live row keeps every job's anchors.
LEMMA LeaseTable ==
  ASSUME NEW t, NEW b, TableOK(t, b), NEW i \in 1..b,
         NEW l \in {"free", "leased", "deferred"}, Live(t, i)
  PROVE  LET u == Relet(t, i, l)
         IN  TableOK(u, b) /\ Same(t, b, u) /\ \A j \in Jobs : Keeps(t, u, j)
<1> DEFINE u == Relet(t, i, l)
<1>1. b \in 0..MaxRows /\ MaxRows \in Nat /\ 1..b \subseteq Ids
  BY RowBound DEF TableOK, Ids
<1>2. \A k \in Ids : u[k] = IF k = i THEN [t[k] EXCEPT !.lease = l] ELSE t[k]
  BY DEF TableOK, Relet
<1>3. u \in [Ids -> Row]
  BY <1>1 DEF TableOK, Row, Leases, Relet
<1>4. \A k \in Ids : u[k].q = t[k].q /\ u[k].job = t[k].job /\ u[k].anchor = t[k].anchor
                     /\ u[k].attempts = t[k].attempts /\ (Live(t, k) => Live(u, k))
  BY <1>2, ZenonT(60) DEF TableOK, Row, Live
<1>5. \A k \in Ids : (k > b) <=> (u[k].lease = "unborn")
  BY <1>1, <1>2 DEF TableOK, Ids, Row, Live
<1>6. TableOK(u, b)
  BY <1>1, <1>3, <1>4, <1>5 DEF TableOK
<1> QED BY <1>1, <1>4, <1>6 DEF Same, Keeps

\* LeaseAndSubmit, the commit of a placement, keeps every job's anchors.
LEMMA LeaseAndSubmitTable ==
  ASSUME NEW t, NEW b, TableOK(t, b), b < MaxRows, NEW i \in 1..b, Visible(t, i), NEW q \in Queues
  PROVE  LET u == LeaseAndSubmit(t, i, b + 1, q)
         IN  TableOK(u, b + 1) /\ Same(t, b, u) /\ \A j \in Jobs : Keeps(t, u, j)
<1> DEFINE d == LeaseByID(t, i)
           u == Submit(d, b + 1, q, t[i].job, i, t[i].attempts)
<1>0. i \in Ids /\ i \in 0..MaxRows /\ t[i] \in Row
  BY RowBound DEF TableOK, Ids
<1>1. TableOK(d, b) /\ Same(t, b, d) /\ \A j \in Jobs : Keeps(t, d, j)
  BY LeaseTable DEF LeaseByID, Relet, Visible, Live
<1>2. TableOK(u, b + 1) /\ Same(d, b, u) /\ \A j \in Jobs : Keeps(d, u, j)
  BY <1>0, <1>1, SubmitTable, SMTT(30) DEF Same, Row
<1>3. Same(t, b, u) /\ \A j \in Jobs : Keeps(t, u, j)
  BY <1>1, <1>2, TableTrans
<1> QED BY <1>2, <1>3 DEF LeaseAndSubmit

\* MoveTo, the steal of a worker row, keeps every job's anchors.
LEMMA MoveToTable ==
  ASSUME NEW t, NEW b, TableOK(t, b), b < MaxRows, NEW i \in 1..b, t[i].q # "global", NEW q \in Queues
  PROVE  LET u == MoveTo(t, i, b + 1, q)
         IN  TableOK(u, b + 1) /\ Same(t, b, u) /\ \A j \in Jobs : Keeps(t, u, j)
<1> DEFINE d == Delete(t, {i})
           u == Submit(d, b + 1, q, t[i].job, t[i].anchor, t[i].attempts)
<1>0. i \in Ids /\ t[i] \in Row
  BY RowBound DEF TableOK, Ids
<1>1. TableOK(d, b) /\ Same(t, b, d) /\ \A j \in Jobs : Keeps(t, d, j)
  BY DeleteTable
<1>2. t[i].anchor # 0 => /\ t[i].anchor \in 1..b
                         /\ d[t[i].anchor].job = t[i].job /\ d[t[i].anchor].attempts = t[i].attempts
  BY <1>1 DEF TableOK, Same
<1>3. TableOK(u, b + 1) /\ Same(d, b, u) /\ \A j \in Jobs : Keeps(d, u, j)
  BY <1>0, <1>1, <1>2, SubmitTable DEF Row
<1>4. Same(t, b, u) /\ \A j \in Jobs : Keeps(t, u, j)
  BY <1>1, <1>3, TableTrans
<1> QED BY <1>3, <1>4 DEF MoveTo
-----------------------------------------------------------------------------
(* A part whose own variables stay is preserved by every step.             *)

\* A row that was ever inserted is a row id, and its job is a job.
LEMMA BornIds ==
  ASSUME Refs
  PROVE  /\ born \in Nat /\ 1..born \subseteq Ids /\ \A i \in 1..born : JobOf(i) \in Jobs
         /\ \A i \in Ids : Live(rows, i) => i \in 1..born /\ i # 0
BY RowBound DEF Refs, TableOK, Ids, Row, JobOf, Live

\* A row keeps its job and its queue in every step.
LEMMA Stable ==
  ASSUME Refs, Step
  PROVE  \A i \in 1..born : i \in 1..born' /\ JobOf(i)' = JobOf(i) /\ rows'[i].q = rows[i].q
<1>1. born \in Nat /\ born' \in Nat
  BY RowBound DEF Refs, Step, TableStep, TableOK
<1> QED BY <1>1 DEF Step, TableStep, Same, JobOf

\* What the placers know stays true in a step in which none of them moves.
LEMMA PlaceFrame ==
  ASSUME Refs, Step, place' = place
  PROVE  PlaceOK'
BY BornIds, Stable DEF Refs, PlaceOK, Step, Answers

\* What the dispatch goroutines know, and the answers they owe, stay in a step
\* in which none of them moves.
LEMMA TaskFrame ==
  ASSUME Refs, Step, task' = task
  PROVE  TaskOK' /\ \A j \in Jobs : OwesTask(j) => OwesTask(j)'
<1>1. TaskOK'
  BY BornIds, Stable DEF Refs, TaskOK, AnsweredPcs, Step, Answers
<1>2. \A j \in Jobs : OwesTask(j) => OwesTask(j)'
  BY BornIds, Stable DEF Refs, TaskOK, OwesTask
<1> QED BY <1>1, <1>2

\* What the disconnect drains know, and the answers they owe, stay in a step
\* in which none of them moves.
LEMMA DrainFrame ==
  ASSUME Refs, Step, drain' = drain
  PROVE  DrainOK' /\ \A j \in Jobs : OwesDrain(j) => OwesDrain(j)'
<1>1. DrainOK'
  BY BornIds, Stable DEF Refs, DrainOK, Step, Answers, InDrain
<1>2. \A j \in Jobs : OwesDrain(j) => OwesDrain(j)'
  BY BornIds, Stable DEF Refs, DrainOK, OwesDrain, InDrain
<1> QED BY <1>1, <1>2

\* The rows a drainer peeked stay rows of its queue in every step.
LEMMA BatchFrame ==
  ASSUME Refs, Step, batch' = batch
  PROVE  BatchOK'
BY BornIds, Stable DEF Refs, BatchOK

\* The row a cancel found stays a row of its job in every step.
LEMMA CancelFrame ==
  ASSUME Refs, Step, cancel' = cancel
  PROVE  CancelOK'
BY BornIds, Stable DEF Refs, CancelOK

\* The row eviction found stays a row in every step.
LEMMA EvictFrame ==
  ASSUME Refs, Step, evict' = evict
  PROVE  EvictOK'
BY BornIds, Stable DEF Refs, EvictOK

\* A job whose anchors a step keeps is still anchored after it.
LEMMA AnchorFrame ==
  ASSUME NEW j \in Jobs, Keeps(rows, rows', j), Anchored(j)
  PROVE  Anchored(j)'
BY DEF Keeps, Anchored, JobOf

\* A step that leaves the table alone.
LEMMA TableQuiet ==
  ASSUME Refs, UNCHANGED tableVars
  PROVE  TableStep /\ \A j \in Jobs : Keeps(rows, rows', j)
BY RowBound DEF Refs, tableVars, TableStep, TableOK, Same, Keeps

\* A step that leaves the results alone.
LEMMA ResultQuiet ==
  ASSUME Refs, UNCHANGED result
  PROVE  Answers /\ result' \in [Jobs -> Statuses] /\ \A j \in Jobs : Stays(j)
BY DEF Refs, JobsOK, Answers, Stays

\* A step that answers job j.
LEMMA ResultSettled ==
  ASSUME Refs, NEW j \in Jobs, NEW r \in Terminal, Settle(j, r)
  PROVE  /\ Answers /\ result' \in [Jobs -> Statuses] /\ \A k \in Jobs : Stays(k)
         /\ result'[j] \in Terminal /\ result'[j] \notin Unanswered
BY DEF Refs, JobsOK, Settle, Answers, Stays, Statuses, Terminal, Unanswered

\* A dispatch goroutine that moves to pc keeps TaskOK, and only one that leaves
\* "resubmit" drops the answer it owes.
LEMMA GotoTask ==
  ASSUME Refs, Step, NEW i \in 1..born, NEW pc \in TaskPcs, Goto(i, pc),
         pc \in AnsweredPcs => result'[JobOf(i)] \in Terminal
  PROVE  /\ TaskOK'
         /\ \A j \in Jobs : OwesTask(j) /\ (task[i].pc # "resubmit" \/ j # JobOf(i)) => OwesTask(j)'
         /\ pc = "resubmit" => \A j \in Jobs : j = JobOf(i) => OwesTask(j)'
<1> i \in Ids
  BY BornIds
<1>1. \A k \in Ids : task'[k] = IF k = i THEN [task[i] EXCEPT !.pc = pc] ELSE task[k]
  BY DEF Refs, TaskOK, Goto
<1>2. \A k \in Ids : task'[k].pc = IF k = i THEN pc ELSE task[k].pc
  BY <1>1 DEF Refs, TaskOK
<1>3. task' \in [Ids -> [pc : TaskPcs, conn : 0..MaxConns,
                        kind : {"none", "done", "error", "lost"}, flag : BOOLEAN]]
  BY DEF Refs, TaskOK, Goto
<1>4. TaskOK'
  BY <1>2, <1>3, BornIds, Stable DEF Refs, TaskOK, AnsweredPcs, Step, Answers
<1>5. \A j \in Jobs : OwesTask(j) /\ (task[i].pc # "resubmit" \/ j # JobOf(i)) => OwesTask(j)'
  BY <1>2, BornIds, Stable DEF Refs, TaskOK, OwesTask
<1>6. pc = "resubmit" => \A j \in Jobs : j = JobOf(i) => OwesTask(j)'
  BY <1>2, BornIds, Stable DEF OwesTask
<1> QED BY <1>4, <1>5, <1>6

\* A dispatch goroutine that ends keeps TaskOK, and drops an answer only from
\* "resubmit".
LEMMA FinishTask ==
  ASSUME Refs, Step, NEW i \in 1..born, Finish(i)
  PROVE  /\ TaskOK'
         /\ \A j \in Jobs : OwesTask(j) /\ (task[i].pc # "resubmit" \/ j # JobOf(i)) => OwesTask(j)'
<1> i \in Ids
  BY BornIds
<1>1. \A k \in Ids : task'[k] = IF k = i THEN NoTask ELSE task[k]
  BY DEF Refs, TaskOK, Finish
<1>2. \A k \in Ids : task'[k].pc = IF k = i THEN "none" ELSE task[k].pc
  BY <1>1 DEF NoTask
<1>3. NoTask \in [pc : TaskPcs, conn : 0..MaxConns,
                 kind : {"none", "done", "error", "lost"}, flag : BOOLEAN]
  BY EnvAssumption DEF NoTask, TaskPcs
<1>4. task' \in [Ids -> [pc : TaskPcs, conn : 0..MaxConns,
                        kind : {"none", "done", "error", "lost"}, flag : BOOLEAN]]
  BY <1>3 DEF Refs, TaskOK, Finish
<1>5. TaskOK'
  BY <1>2, <1>4, BornIds, Stable DEF Refs, TaskOK, AnsweredPcs, Step, Answers
<1>6. \A j \in Jobs : OwesTask(j) /\ (task[i].pc # "resubmit" \/ j # JobOf(i)) => OwesTask(j)'
  BY <1>2, BornIds, Stable DEF Refs, TaskOK, OwesTask
<1> QED BY <1>5, <1>6
-----------------------------------------------------------------------------
(* dispatchEnvelope and pumpWorkerChunks.                                  *)

TaskSafe == \A j \in Jobs :
  Stays(j) /\ (OwesTask(j) \/ Anchored(j) => result'[j] \notin Unanswered \/ OwesTask(j)' \/ Anchored(j)')

\* A move of a dispatch goroutine that changes neither table nor result.
LEMMA QuietGoto ==
  ASSUME Refs, UNCHANGED tableVars, UNCHANGED result, NEW i \in Ids,
         task[i].pc \notin {"none", "resubmit"}, NEW pc \in TaskPcs, Goto(i, pc),
         pc \in AnsweredPcs => result[JobOf(i)] \in Terminal
  PROVE  Step /\ TaskOK' /\ TaskSafe
<1>1. Step /\ i \in 1..born /\ \A j \in Jobs : Stays(j) /\ Keeps(rows, rows', j)
  BY TableQuiet, ResultQuiet DEF Step, Refs, TaskOK
<1>2. TaskOK' /\ \A j \in Jobs : OwesTask(j) => OwesTask(j)'
  BY <1>1, GotoTask
<1> QED BY <1>1, <1>2, AnchorFrame DEF TaskSafe

\* The end of a dispatch goroutine that changes neither table nor result.
LEMMA QuietFinish ==
  ASSUME Refs, UNCHANGED tableVars, UNCHANGED result, NEW i \in Ids,
         task[i].pc \notin {"none", "resubmit"}, Finish(i)
  PROVE  Step /\ TaskOK' /\ TaskSafe
<1>1. Step /\ i \in 1..born /\ \A j \in Jobs : Stays(j) /\ Keeps(rows, rows', j)
  BY TableQuiet, ResultQuiet DEF Step, Refs, TaskOK
<1>2. TaskOK' /\ \A j \in Jobs : OwesTask(j) => OwesTask(j)'
  BY <1>1, FinishTask
<1> QED BY <1>1, <1>2, AnchorFrame DEF TaskSafe

\* A move of a dispatch goroutine that stores its job's terminal result.
LEMMA SettleGoto ==
  ASSUME Refs, UNCHANGED tableVars, NEW i \in Ids, NEW r \in Terminal, Settle(JobOf(i), r),
         task[i].pc \notin {"none", "resubmit"}, NEW pc \in TaskPcs, Goto(i, pc)
  PROVE  Step /\ TaskOK' /\ TaskSafe
<1>0. i \in 1..born /\ JobOf(i) \in Jobs
  BY BornIds DEF Refs, TaskOK
<1>1. /\ Step /\ result'[JobOf(i)] \in Terminal
      /\ \A j \in Jobs : Stays(j) /\ Keeps(rows, rows', j)
  BY <1>0, TableQuiet, ResultSettled DEF Step
<1>2. TaskOK' /\ \A j \in Jobs : OwesTask(j) => OwesTask(j)'
  BY <1>0, <1>1, GotoTask
<1> QED BY <1>1, <1>2, AnchorFrame DEF TaskSafe

\* The rows of an answered job are deleted.
LEMMA DeleteAnswered ==
  ASSUME Refs, NEW i \in Ids, task[i].pc \in AnsweredPcs, rows' = DeleteBoth(rows, i),
         UNCHANGED <<born, result>>, Finish(i) \/ Goto(i, "leave")
  PROVE  Step /\ TaskOK' /\ TaskSafe
<1>0. i \in 1..born /\ JobOf(i) \in Jobs /\ result[JobOf(i)] \in Terminal
  BY BornIds DEF Refs, TaskOK, AnsweredPcs
<1>1. TableStep /\ \A j \in Jobs : j # JobOf(i) => Keeps(rows, rows', j)
  BY <1>0, BornIds, DeleteBothTable DEF TableStep, Refs, JobOf
<1>2. Step /\ \A j \in Jobs : Stays(j)
  BY <1>1, ResultQuiet DEF Step
<1>3. TaskOK' /\ \A j \in Jobs : OwesTask(j) => OwesTask(j)'
  BY <1>0, <1>2, GotoTask, FinishTask DEF AnsweredPcs, TaskPcs, InDispatch
<1>4. \A j \in Jobs : j = JobOf(i) => result'[j] \notin Unanswered
  BY <1>0 DEF Terminal, Unanswered
<1> QED BY <1>1, <1>2, <1>3, <1>4, AnchorFrame DEF TaskSafe

\* The stream of a dispatch ends: only this task's pc and kind change.
LEMMA EndTask ==
  ASSUME Refs, NEW i \in Ids, NEW pc \in TaskPcs, NEW kind \in {"none", "done", "error", "lost"},
         task' = [task EXCEPT ![i].pc = pc, ![i].kind = kind]
  PROVE  /\ task' \in [Ids -> [pc : TaskPcs, conn : 0..MaxConns,
                               kind : {"none", "done", "error", "lost"}, flag : BOOLEAN]]
         /\ \A k \in Ids : task'[k].pc = IF k = i THEN pc ELSE task[k].pc
BY DEF Refs, TaskOK

\* Every step of a dispatch goroutine keeps TaskOK and loses no job.
LEMMA RunStep ==
  ASSUME Refs, NEW i \in Ids, Run(i)
  PROVE  Step /\ TaskOK' /\ TaskSafe /\ JobsOK' /\ UNCHANGED Others
<1> USE DEF TaskPcs, InDispatch
<1>0. task[i].pc # "none" => i \in 1..born /\ JobOf(i) \in Jobs
  BY BornIds DEF Refs, TaskOK
<1>1. CASE Lookup(i)
  <2>1. CASE JobOf(i) \notin buffer /\ result[JobOf(i)] \in Terminal
    BY <1>1, <2>1, QuietGoto DEF Lookup, Refs, JobsOK
  <2>2. CASE ~(JobOf(i) \notin buffer /\ result[JobOf(i)] \in Terminal)
    <3>1. Goto(i, "gate") /\ buffer' = buffer \cup {JobOf(i)}
      BY <1>1, <2>2 DEF Lookup
    <3> QED BY <1>0, <1>1, <3>1, QuietGoto DEF Lookup, AnsweredPcs, Refs, JobsOK
  <2> QED BY <2>1, <2>2
<1>2. CASE GateBounce(i)
  <2>1. task[i].pc = "gate" /\ Finish(i) /\ UNCHANGED <<born, result>> /\ UNCHANGED <<jobVars, Others>>
    BY <1>2 DEF GateBounce, jobVars
  <2>2. TableStep /\ \A j \in Jobs : Keeps(rows, rows', j)
    <3>1. CASE Live(rows, i)
      <4>1. rows' = Relet(rows, i, "deferred")
        BY <1>2, <3>1 DEF GateBounce, Defer, Relet
      <4> QED BY <4>1, <3>1, <2>1, <1>0, BornIds, LeaseTable DEF TableStep, Refs
    <3>2. CASE ~Live(rows, i)
      <4>1. rows' = rows
        BY <1>2, <3>2 DEF GateBounce, Defer, Refs, TableOK, Row
      <4> QED BY <4>1, <2>1, TableQuiet DEF tableVars
    <3> QED BY <3>1, <3>2
  <2>3. Step /\ \A j \in Jobs : Stays(j)
    BY <2>1, <2>2, ResultQuiet DEF Step
  <2>4. TaskOK' /\ \A j \in Jobs : OwesTask(j) => OwesTask(j)'
    BY <1>0, <2>1, <2>3, FinishTask
  <2>5. TaskSafe
    BY <2>2, <2>3, <2>4, AnchorFrame DEF TaskSafe
  <2> QED BY <2>1, <2>3, <2>4, <2>5 DEF Refs, JobsOK, jobVars
<1>3. CASE GatePass(i)
  BY <1>0, <1>3, QuietGoto DEF GatePass, AnsweredPcs, Refs, JobsOK
<1>4. CASE LoadDone(i)
  BY <1>0, <1>4, QuietGoto DEF LoadDone, AnsweredPcs, Refs, JobsOK, jobVars
<1>5. CASE LoadFails(i)
  <2>0. /\ task[i].pc = "load" /\ i \in 1..born /\ JobOf(i) \in Jobs
        /\ UNCHANGED <<born, buffer, marker, inflight, starts, Others>>
    BY <1>0, <1>5 DEF LoadFails
  <2>1. CASE rows[i].attempts + 1 < LoadAttempts
    <3>1. rows' = DeleteBoth(rows, i) /\ Goto(i, "resubmit") /\ UNCHANGED result
      BY <1>5, <2>1 DEF LoadFails
    <3>2. TableStep /\ \A j \in Jobs : j # JobOf(i) => Keeps(rows, rows', j)
      BY <2>0, <3>1, BornIds, DeleteBothTable DEF TableStep, Refs, JobOf
    <3>3. Step /\ \A j \in Jobs : Stays(j)
      BY <3>1, <3>2, ResultQuiet DEF Step
    <3>4. /\ TaskOK' /\ \A j \in Jobs : j = JobOf(i) => OwesTask(j)'
          /\ \A j \in Jobs : OwesTask(j) => OwesTask(j)'
      BY <2>0, <3>1, <3>3, GotoTask DEF AnsweredPcs
    <3>5. TaskSafe
      BY <3>2, <3>3, <3>4, AnchorFrame DEF TaskSafe
    <3> QED BY <2>0, <3>1, <3>3, <3>4, <3>5 DEF Refs, JobsOK
  <2>2. CASE ~(rows[i].attempts + 1 < LoadAttempts)
    <3>1. Settle(JobOf(i), "failed") /\ Goto(i, "cleanup") /\ UNCHANGED rows
      BY <1>5, <2>2 DEF LoadFails
    <3> QED BY <2>0, <3>1, SettleGoto DEF Terminal, tableVars, Step, Refs, JobsOK
  <2> QED BY <2>1, <2>2
<1>6. CASE LoadResubmit(i)
  <2>1. /\ task[i].pc = "resubmit" /\ i \in 1..born /\ JobOf(i) \in Jobs /\ born < MaxRows
        /\ rows' = Submit(rows, born + 1, "global", JobOf(i), 0, rows[i].attempts + 1)
        /\ born' = born + 1 /\ Goto(i, "leave") /\ UNCHANGED <<jobVars, Others>>
    BY <1>0, <1>6 DEF LoadResubmit, Room, Next1
  <2>2. rows[i].attempts + 1 \in Nat /\ "global" \in Queues /\ 0 \in 0..MaxRows
    BY RowBound DEF Refs, TableOK, Row, Queues
  <2>3. /\ TableStep /\ \A j \in Jobs : Keeps(rows, rows', j)
        /\ rows'[born + 1].q = "global" /\ rows'[born + 1].job = JobOf(i) /\ Live(rows', born + 1)
        /\ born + 1 \in Ids
    BY <2>1, <2>2, BornIds, SubmitTable DEF TableStep, Refs
  <2>4. Step /\ \A j \in Jobs : Stays(j) /\ (j = JobOf(i) => Anchored(j)')
    BY <2>1, <2>3, BornIds, ResultQuiet, Stable DEF Step, Anchored, JobOf, jobVars
  <2>5. TaskOK' /\ \A j \in Jobs : OwesTask(j) /\ j # JobOf(i) => OwesTask(j)'
    BY <2>1, <2>4, GotoTask DEF AnsweredPcs
  <2>6. TaskSafe
    BY <2>3, <2>4, <2>5, AnchorFrame DEF TaskSafe
  <2> QED BY <2>1, <2>4, <2>5, <2>6 DEF Refs, JobsOK, jobVars
<1>7. CASE StartInflight(i)
  <2>0. task[i].pc = "start" /\ UNCHANGED <<tableVars, result, buffer, starts, Others>>
    BY <1>7 DEF StartInflight
  <2>1. CASE marker[JobOf(i)] = "cancel"
    BY <1>0, <1>7, <2>1, QuietGoto DEF StartInflight, AnsweredPcs, Refs, JobsOK
  <2>2. CASE marker[JobOf(i)] # "cancel"
    <3>1. /\ clearDispatching(JobOf(i)) /\ Goto(i, "processing")
          /\ inflight' = [inflight EXCEPT ![JobOf(i)] = "live"]
      BY <1>7, <2>2 DEF StartInflight
    <3> QED BY <1>0, <2>0, <3>1, QuietGoto DEF AnsweredPcs, Refs, JobsOK, clearDispatching
  <2> QED BY <2>1, <2>2
<1>8. CASE AbortDispatch(i)
  BY <1>0, <1>8, SettleGoto DEF AbortDispatch, Terminal, Step, Refs, JobsOK
<1>9. CASE ProcessingResult(i)
  <2>1. /\ task[i].pc = "processing" /\ Goto(i, "assign")
        /\ UNCHANGED <<tableVars, buffer, marker, inflight, starts, Others>>
        /\ result' = [result EXCEPT ![JobOf(i)] = IF @ = "pending" THEN "processing" ELSE @]
    BY <1>9 DEF ProcessingResult
  <2>2. Answers /\ result' \in [Jobs -> Statuses] /\ \A j \in Jobs : Stays(j)
    BY <1>0, <2>1 DEF Refs, JobsOK, Answers, Stays, Statuses, Terminal, Unanswered
  <2>3. Step /\ \A j \in Jobs : Keeps(rows, rows', j)
    BY <2>1, <2>2, TableQuiet DEF Step
  <2>4. TaskOK' /\ \A j \in Jobs : OwesTask(j) => OwesTask(j)'
    BY <1>0, <2>1, <2>3, GotoTask DEF AnsweredPcs
  <2>5. TaskSafe
    BY <2>2, <2>3, <2>4, AnchorFrame DEF TaskSafe
  <2> QED BY <2>1, <2>2, <2>3, <2>4, <2>5 DEF Refs, JobsOK
<1>10. CASE AssignJob(i)
  BY <1>0, <1>10, QuietGoto DEF AssignJob, AnsweredPcs, Refs, JobsOK
<1>11. CASE AssignFails(i)
  BY <1>0, <1>11, SettleGoto DEF AssignFails, Terminal, Step, Refs, JobsOK
<1>12. CASE Unassign(i)
  BY <1>0, <1>12, QuietGoto DEF Unassign, AnsweredPcs, Refs, JobsOK, TaskOK
<1>13. CASE StartPump(i)
  BY <1>0, <1>13, QuietGoto DEF StartPump, clearDispatching, AnsweredPcs, Refs, JobsOK
<1>14. CASE CleanupRows(i)
  BY <1>14, DeleteAnswered DEF CleanupRows, AnsweredPcs, Refs, JobsOK, jobVars
<1>15. CASE LeaveDispatch(i)
  BY <1>0, <1>15, QuietFinish DEF LeaveDispatch, clearDispatching, Refs, JobsOK
<1>16. CASE ReadCancel(i)
  <2>1. /\ task[i].pc = "ended" /\ UNCHANGED <<tableVars, jobVars, Others>>
        /\ task' = [task EXCEPT ![i].pc = "release", ![i].flag = (inflight[JobOf(i)] = "cancelled")]
    BY <1>16 DEF ReadCancel
  <2>2. Step /\ \A j \in Jobs : Stays(j) /\ Keeps(rows, rows', j)
    BY <2>1, TableQuiet, ResultQuiet DEF Step, jobVars
  <2>3. PICK f \in BOOLEAN : task' = [task EXCEPT ![i].pc = "release", ![i].flag = f]
    BY <2>1
  <2>4. task' \in [Ids -> [pc : TaskPcs, conn : 0..MaxConns,
                         kind : {"none", "done", "error", "lost"}, flag : BOOLEAN]]
    BY <2>3, ZenonT(60) DEF Refs, TaskOK
  <2>5. \A k \in Ids : task'[k].pc = IF k = i THEN "release" ELSE task[k].pc
    BY <2>3 DEF Refs, TaskOK
  <2>6. TaskOK'
    BY <1>0, <2>1, <2>2, <2>4, <2>5, BornIds, Stable DEF Refs, TaskOK, AnsweredPcs, Step, Answers
  <2>7. \A j \in Jobs : OwesTask(j) => OwesTask(j)'
    BY <2>1, <2>2, <2>5, BornIds, Stable DEF Refs, TaskOK, OwesTask
  <2>8. TaskSafe
    BY <2>2, <2>7, AnchorFrame DEF TaskSafe
  <2> QED BY <2>1, <2>2, <2>6, <2>8 DEF Refs, JobsOK, jobVars
<1>17. CASE FinishInflight(i)
  BY <1>0, <1>17, QuietGoto DEF FinishInflight, AnsweredPcs, Refs, JobsOK
<1>18. CASE PumpSettle(i)
  <2>1. PICK r \in Terminal : Settle(JobOf(i), r)
    BY <1>18 DEF PumpSettle, Terminal
  <2> QED BY <1>0, <1>18, <2>1, SettleGoto DEF PumpSettle, Step, Refs, JobsOK
<1>19. CASE PumpLeave(i)
  BY <1>0, <1>19, QuietFinish DEF PumpLeave, Refs, JobsOK, jobVars
<1>20. CASE DeleteBothRows(i)
  BY <1>20, DeleteAnswered DEF DeleteBothRows, AnsweredPcs, Refs, JobsOK, jobVars
<1>21. CASE DeferEnds(i)
  <2>1. /\ rows' = Relet(rows, i, "free") /\ Live(rows, i) /\ i \in 1..born
        /\ UNCHANGED <<born, jobVars, task, Others>>
    BY <1>21, BornIds DEF DeferEnds, Live, Relet
  <2>2. TableStep /\ \A j \in Jobs : Keeps(rows, rows', j)
    BY <2>1, BornIds, LeaseTable DEF TableStep, Refs
  <2>3. Step /\ \A j \in Jobs : Stays(j)
    BY <2>1, <2>2, ResultQuiet DEF Step, jobVars
  <2>4. TaskOK' /\ TaskSafe
    BY <2>1, <2>2, <2>3, TaskFrame, AnchorFrame DEF TaskSafe
  <2> QED BY <2>1, <2>3, <2>4 DEF Refs, JobsOK, jobVars
<1>22. ASSUME NEW kind \in {"done", "error", "lost"}, StreamEnds(i, kind)
       PROVE  Step /\ TaskOK' /\ TaskSafe /\ JobsOK' /\ UNCHANGED Others
  <2>1. /\ task[i].pc = "stream" /\ UNCHANGED <<tableVars, jobVars, Others>>
        /\ task' = [task EXCEPT ![i].pc = "ended", ![i].kind = kind]
    BY <1>22 DEF StreamEnds
  <2>2. Step /\ \A j \in Jobs : Stays(j) /\ Keeps(rows, rows', j)
    BY <2>1, TableQuiet, ResultQuiet DEF Step, jobVars
  <2>3. "ended" \in TaskPcs /\ kind \in {"none", "done", "error", "lost"}
    OBVIOUS
  <2> HIDE DEF TaskPcs, InDispatch
  <2>4. task' \in [Ids -> [pc : TaskPcs, conn : 0..MaxConns,
                         kind : {"none", "done", "error", "lost"}, flag : BOOLEAN]]
    BY <2>1, <2>3, EndTask
  <2>5. \A k \in Ids : task'[k].pc = IF k = i THEN "ended" ELSE task[k].pc
    BY <2>1, <2>3, EndTask
  <2>6. TaskOK'
    BY <1>0, <2>1, <2>2, <2>4, <2>5, BornIds, Stable DEF Refs, TaskOK, AnsweredPcs, Step, Answers
  <2>7. \A j \in Jobs : OwesTask(j) => OwesTask(j)'
    BY <2>1, <2>2, <2>5, BornIds, Stable DEF Refs, TaskOK, OwesTask
  <2>8. TaskSafe
    BY <2>2, <2>7, AnchorFrame DEF TaskSafe
  <2> QED BY <2>1, <2>2, <2>6, <2>8 DEF Refs, JobsOK, jobVars
<1> QED
  BY <1>1, <1>2, <1>3, <1>4, <1>5, <1>6, <1>7, <1>8, <1>9, <1>10, <1>11, <1>12, <1>13, <1>14,
     <1>15, <1>16, <1>17, <1>18, <1>19, <1>20, <1>21, <1>22 DEF Run
-----------------------------------------------------------------------------
(* Submit, the dispatcher and stealing.                                    *)

PlaceRec == [pc : {"idle", "created", "pick", "commit", "done", "fail", "delete", "steal"},
             row : 0..MaxRows, target : Queues]

PlaceSafe == \A j \in Jobs : result'[j] \in Unanswered =>
  \/ place'[j].pc = "created"
  \/ Anchored(j)'
  \/ result[j] \in Unanswered /\ place[j].pc # "created" /\ ~Anchored(j)

\* A placer that moves to a record whose row it may hold keeps PlaceOK.
LEMMA MovePlace ==
  ASSUME Refs, Step, NEW p \in Placers, NEW r \in PlaceRec, place' = [place EXCEPT ![p] = r],
         r.pc \in {"pick", "commit", "fail", "delete", "steal"} => r.row \in 1..born',
         r.pc = "delete" => result'[rows'[r.row].job] \in Terminal,
         r.pc = "steal" => rows'[r.row].q # "global"
  PROVE  PlaceOK' /\ \A k \in Placers : place'[k].pc = IF k = p THEN r.pc ELSE place[k].pc
<1>1. \A k \in Placers : place'[k] = IF k = p THEN r ELSE place[k]
  BY DEF Refs, PlaceOK
<1>2. place' \in [Placers -> PlaceRec]
  BY DEF Refs, PlaceOK, PlaceRec
<1>3. ASSUME NEW k \in Placers
      PROVE  /\ place'[k].pc \in {"pick", "commit", "fail", "delete", "steal"} =>
                  place'[k].row \in 1..born'
             /\ place'[k].pc = "delete" => result'[JobOf(place[k].row)'] \in Terminal
             /\ place'[k].pc = "steal" => rows'[place'[k].row].q # "global"
  <2>1. CASE k = p
    BY <1>1, <2>1 DEF JobOf
  <2>2. CASE k # p
    BY <1>1, <2>2, BornIds, Stable DEF Refs, PlaceOK, Step, Answers
  <2> QED BY <2>1, <2>2
<1>4. PlaceOK'
  BY <1>2, <1>3 DEF PlaceOK, PlaceRec
<1> QED BY <1>1, <1>4

\* Every step of the placement side keeps PlaceOK and loses no job.
LEMMA PlacementStep ==
  ASSUME Refs, Placement
  PROVE  /\ Step /\ PlaceOK' /\ PlaceSafe /\ JobsOK' /\ events' \in Nat
         /\ UNCHANGED <<devQ, workerVars, drainerVars, task, drain, cancel, evict>>
<1> DEFINE Frame == UNCHANGED <<devQ, workerVars, drainerVars, task, drain, cancel, evict>>
           Goal  == Step /\ PlaceOK' /\ PlaceSafe /\ JobsOK' /\ events' \in Nat /\ Frame
<1> USE DEF Placers
<1>a. NoPlace \in PlaceRec /\ [NoPlace EXCEPT !.pc = "done"] \in PlaceRec /\ "global" \in Queues
      /\ Workers \subseteq Queues /\ born \in Nat
  BY RowBound DEF NoPlace, PlaceRec, Queues, Refs, TableOK
<1>b. events \in Nat /\ place \in [Placers -> PlaceRec]
  BY DEF Refs, WorkersOK, PlaceOK, PlaceRec
<1>c. Eligible \subseteq Workers
  BY DEF Eligible, Refs, WorkersOK
<1>1. ASSUME NEW j \in Jobs, SubmitCreate(j) PROVE Goal
  <2> DEFINE r == [place[j] EXCEPT !.pc = "created"]
  <2>1. /\ result[j] = "none" /\ result' = [result EXCEPT ![j] = "pending"]
        /\ buffer' = buffer \cup {j} /\ place' = [place EXCEPT ![j] = r]
        /\ UNCHANGED <<tableVars, marker, inflight, starts, events>> /\ Frame
    BY <1>1 DEF SubmitCreate
  <2>2. /\ Answers /\ result' \in [Jobs -> Statuses]
        /\ \A k \in Jobs : k # j => Stays(k)
    BY <2>1 DEF Refs, JobsOK, Answers, Stays, Statuses, Terminal, Unanswered
  <2>3. Step /\ \A k \in Jobs : Keeps(rows, rows', k)
    BY <2>1, <2>2, TableQuiet DEF Step
  <2>4. r \in PlaceRec /\ r.pc = "created"
    BY <1>b DEF PlaceRec
  <2> HIDE DEF r
  <2>5. PlaceOK' /\ \A k \in Placers : place'[k].pc = IF k = j THEN r.pc ELSE place[k].pc
    BY <2>1, <2>3, <2>4, MovePlace
  <2>6. PlaceSafe
    BY <2>2, <2>3, <2>4, <2>5, AnchorFrame DEF PlaceSafe, Stays
  <2> QED BY <1>b, <2>1, <2>2, <2>3, <2>5, <2>6 DEF Refs, JobsOK
<1>2. ASSUME NEW j \in Jobs, SubmitEnqueue(j) PROVE Goal
  <2> DEFINE r == [place[j] EXCEPT !.pc = "pick", !.row = born + 1]
  <2>1. /\ born < MaxRows /\ rows' = Submit(rows, born + 1, "global", j, 0, 0) /\ born' = born + 1
        /\ place' = [place EXCEPT ![j] = r]
        /\ UNCHANGED <<jobVars, events>> /\ Frame
    BY <1>2, <1>b DEF SubmitEnqueue, Room, Next1
  <2>2. /\ TableStep /\ \A k \in Jobs : Keeps(rows, rows', k)
        /\ rows'[born + 1].q = "global" /\ rows'[born + 1].job = j /\ Live(rows', born + 1)
        /\ born + 1 \in Ids /\ born + 1 \in 1..born' /\ born + 1 \in 0..MaxRows
    BY <1>a, <2>1, RowBound, SubmitTable DEF TableStep, Refs
  <2>3. Step /\ \A k \in Jobs : Stays(k) /\ (k = j => Anchored(k)')
    BY <2>1, <2>2, ResultQuiet DEF Step, Anchored, JobOf, jobVars
  <2>4. r \in PlaceRec /\ r.pc = "pick" /\ r.row = born + 1
    <3>1. place[j] \in PlaceRec
      BY <1>b
    <3>2. ASSUME NEW n \in 0..MaxRows
          PROVE  LET s == [place[j] EXCEPT !.pc = "pick", !.row = n]
                 IN  s \in PlaceRec /\ s.pc = "pick" /\ s.row = n
      BY <3>1 DEF PlaceRec
    <3> QED BY <2>2, <3>2
  <2> HIDE DEF r
  <2>5. PlaceOK' /\ \A k \in Placers : place'[k].pc = IF k = j THEN r.pc ELSE place[k].pc
    <3>1. /\ Step /\ j \in Placers /\ r \in PlaceRec /\ place' = [place EXCEPT ![j] = r]
          /\ r.row \in 1..born' /\ r.pc \notin {"delete", "steal"}
      BY <2>1, <2>2, <2>3, <2>4
    <3> QED BY <3>1, MovePlace
  <2>6. PlaceSafe
    BY <2>2, <2>3, <2>4, <2>5, AnchorFrame DEF PlaceSafe, Stays
  <2> QED BY <1>b, <2>1, <2>3, <2>5, <2>6 DEF Refs, JobsOK, jobVars
\* A placer other than a creating one moves, and nothing else does.
<1>3. ASSUME NEW p \in Placers, NEW r \in PlaceRec, place' = [place EXCEPT ![p] = r],
             r.pc # "created", place[p].pc # "created",
             r.pc \in {"pick", "commit", "fail", "delete", "steal"} => r.row \in 1..born,
             r.pc # "delete", r.pc = "steal" => rows[r.row].q # "global",
             UNCHANGED <<tableVars, jobVars>>, events' \in Nat, Frame
      PROVE  Goal
  <2>1. Step /\ \A k \in Jobs : Stays(k) /\ Keeps(rows, rows', k)
    BY <1>3, TableQuiet, ResultQuiet DEF Step, jobVars
  <2>2. PlaceOK' /\ \A k \in Placers : place'[k].pc = IF k = p THEN r.pc ELSE place[k].pc
    BY <1>3, <2>1, MovePlace DEF tableVars
  <2>3. PlaceSafe
    BY <1>3, <2>1, <2>2, AnchorFrame DEF PlaceSafe, Stays
  <2> QED BY <1>3, <2>1, <2>2, <2>3 DEF Refs, JobsOK, jobVars
<1>4. ASSUME NEW j \in Jobs, SubmitPick(j) PROVE Goal
  <2>0. place[j].pc = "pick" /\ place[j].row \in 1..born
    BY <1>4 DEF SubmitPick, Refs, PlaceOK
  <2>1. CASE place' = [place EXCEPT ![j] = [NoPlace EXCEPT !.pc = "done"]]
    <3> DEFINE r == [NoPlace EXCEPT !.pc = "done"]
    <3>1. r.pc = "done"
      BY DEF NoPlace
    <3> QED BY <1>a, <1>b, <1>4, <2>0, <2>1, <3>1, <1>3 DEF SubmitPick
  <2>2. ASSUME NEW w \in Eligible, place' = [place EXCEPT ![j].pc = "commit", ![j].target = w]
        PROVE Goal
    <3> DEFINE r == [place[j] EXCEPT !.pc = "commit", !.target = w]
    <3>1. r \in PlaceRec /\ r.pc = "commit" /\ r.row = place[j].row /\ place' = [place EXCEPT ![j] = r]
      BY <1>a, <1>b, <1>c, <2>2 DEF PlaceRec
    <3> HIDE DEF r
    <3> QED BY <1>b, <1>4, <2>0, <3>1, <1>3 DEF SubmitPick
  <2> QED BY <1>4, <2>1, <2>2 DEF SubmitPick
<1>5. ASSUME NEW i \in Ids, DispatcherPick(i) PROVE Goal
  <2>1. PICK w \in Eligible :
          place' = [place EXCEPT !["dispatcher"] = [pc |-> "commit", row |-> i, target |-> w]]
    BY <1>5 DEF DispatcherPick
  <2> DEFINE r == [pc |-> "commit", row |-> i, target |-> w]
  <2>2. i \in 1..born /\ i \in 0..MaxRows
    BY <1>5, BornIds, RowBound DEF DispatcherPick, Peek, Visible, Live, Ids
  <2>3. r \in PlaceRec /\ r.pc = "commit" /\ r.row = i
    BY <1>a, <1>c, <2>2 DEF PlaceRec
  <2> HIDE DEF r
  <2> QED BY <1>b, <1>5, <2>1, <2>2, <2>3, <1>3 DEF DispatcherPick, r
<1>6. ASSUME NEW i \in Ids, Unbenchable(i) PROVE Goal
  <2> DEFINE r == [NoPlace EXCEPT !.pc = "fail", !.row = i]
  <2>2. i \in 1..born /\ i \in 0..MaxRows
    BY <1>6, BornIds, RowBound DEF Unbenchable, Peek, Visible, Live, Ids
  <2>3. r \in PlaceRec /\ r.pc = "fail" /\ r.row = i
    BY <1>a, <2>2 DEF PlaceRec, NoPlace
  <2>4. place["dispatcher"].pc # "created" /\ place' = [place EXCEPT !["dispatcher"] = r]
        /\ UNCHANGED <<tableVars, jobVars, events>> /\ Frame
    BY <1>6 DEF Unbenchable
  <2> HIDE DEF r
  <2> QED BY <1>b, <2>2, <2>3, <2>4, <1>3
<1>7. ASSUME NEW i \in Ids, NEW w \in Workers, StealPick(i, w) PROVE Goal
  <2> DEFINE r == [pc |-> "steal", row |-> i, target |-> w]
  <2>1. rows[i].q # "global"
    BY <1>7, QueueNames DEF StealPick, Refs, WorkersOK
  <2>2. i \in 1..born /\ i \in 0..MaxRows
    BY <1>7, BornIds, RowBound DEF StealPick, Peek, Visible, Live, Ids
  <2>3. r \in PlaceRec /\ r.pc = "steal" /\ r.row = i
    BY <1>a, <2>2 DEF PlaceRec
  <2>4. place["dispatcher"].pc # "created" /\ place' = [place EXCEPT !["dispatcher"] = r]
        /\ UNCHANGED <<tableVars, jobVars>> /\ events' \in Nat /\ Frame
    BY <1>7, <1>b DEF StealPick, Event
  <2> HIDE DEF r
  <2> QED BY <2>1, <2>2, <2>3, <2>4, <1>3
\* A placer that held a row lets go of it, and every anchor stays.
<1>8. ASSUME NEW p \in Placers, place[p].pc \in {"commit", "steal"}, TableStep,
             \A k \in Jobs : Keeps(rows, rows', k),
             place' = [place EXCEPT ![p] =
                         IF p = "dispatcher" THEN NoPlace ELSE [NoPlace EXCEPT !.pc = "done"]],
             UNCHANGED <<jobVars, events>>, Frame
      PROVE  Goal
  <2> DEFINE r == IF p = "dispatcher" THEN NoPlace ELSE [NoPlace EXCEPT !.pc = "done"]
  <2>1. Step /\ \A k \in Jobs : Stays(k)
    BY <1>8, ResultQuiet DEF Step, jobVars
  <2>2. r \in PlaceRec /\ r.pc \in {"idle", "done"}
    BY <1>a DEF NoPlace
  <2> HIDE DEF r
  <2>3. PlaceOK' /\ \A k \in Placers : place'[k].pc = IF k = p THEN r.pc ELSE place[k].pc
    BY <1>8, <2>1, <2>2, MovePlace, ZenonT(60) DEF r
  <2>4. PlaceSafe
    BY <1>8, <2>1, <2>2, <2>3, AnchorFrame DEF PlaceSafe, Stays
  <2> QED BY <1>8, <1>b, <2>1, <2>3, <2>4 DEF Refs, JobsOK, jobVars
<1>9. ASSUME NEW p \in Placers, PlaceCommit(p) PROVE Goal
  <2>1. /\ place[p].pc = "commit" /\ place[p].row \in 1..born /\ place[p].target \in Queues
    BY <1>9 DEF PlaceCommit, Refs, PlaceOK
  <2>2. TableStep /\ \A k \in Jobs : Keeps(rows, rows', k)
    <3>1. CASE Visible(rows, place[p].row)
      <4>1. born < MaxRows /\ rows' = LeaseAndSubmit(rows, place[p].row, born + 1, place[p].target)
            /\ born' = born + 1
        BY <1>9, <3>1 DEF PlaceCommit, Room, Next1
      <4> QED BY <1>a, <2>1, <3>1, <4>1, LeaseAndSubmitTable DEF TableStep, Refs
    <3>2. CASE ~Visible(rows, place[p].row)
      BY <1>9, <3>2, TableQuiet DEF PlaceCommit
    <3> QED BY <3>1, <3>2
  <2> QED BY <1>9, <2>1, <2>2, <1>8 DEF PlaceCommit
<1>10. ASSUME StealCommit PROVE Goal
  <2> DEFINE i == place["dispatcher"].row
  <2>1. /\ place["dispatcher"].pc = "steal" /\ i \in 1..born /\ rows[i].q # "global"
        /\ place["dispatcher"].target \in Queues
    BY <1>10 DEF StealCommit, Refs, PlaceOK
  <2>2. TableStep /\ \A k \in Jobs : Keeps(rows, rows', k)
    <3>1. CASE Visible(rows, i)
      <4>1. born < MaxRows /\ rows' = MoveTo(rows, i, born + 1, place["dispatcher"].target)
            /\ born' = born + 1
        BY <1>10, <3>1 DEF StealCommit, Room, Next1
      <4> HIDE DEF i
      <4> QED BY <1>a, <2>1, <4>1, MoveToTable DEF TableStep, Refs
    <3>2. CASE ~Visible(rows, i)
      BY <1>10, <3>2, TableQuiet DEF StealCommit
    <3> QED BY <3>1, <3>2
  <2> QED BY <1>10, <2>1, <2>2, <1>8 DEF StealCommit
<1>11. ASSUME FailUnbenchable PROVE Goal
  <2> DEFINE i == place["dispatcher"].row
             r == [place["dispatcher"] EXCEPT !.pc = "delete"]
  <2>1. /\ place["dispatcher"].pc = "fail" /\ i \in 1..born
        /\ Settle(JobOf(i), "failed") /\ buffer' = buffer \cup {JobOf(i)}
        /\ place' = [place EXCEPT !["dispatcher"] = r]
        /\ UNCHANGED <<tableVars, marker, inflight, starts, events>> /\ Frame
    BY <1>11, <1>b DEF FailUnbenchable, Settle, Refs, PlaceOK
  <2>2. r \in PlaceRec /\ r.pc = "delete" /\ r.row = i
    BY <1>b DEF PlaceRec
  <2> HIDE DEF i, r
  <2>3. JobOf(i) \in Jobs
    BY <2>1, BornIds
  <2>4. /\ Step /\ result'[JobOf(i)] \in Terminal
        /\ \A k \in Jobs : Stays(k) /\ Keeps(rows, rows', k)
    BY <2>1, <2>3, ResultSettled, TableQuiet DEF Step, Terminal
  <2>5. PlaceOK' /\ \A k \in Placers : place'[k].pc = IF k = "dispatcher" THEN r.pc ELSE place[k].pc
    <3>1. i \in 1..born' /\ result'[rows'[i].job] \in Terminal
      BY <2>1, <2>4 DEF tableVars, JobOf
    <3>2. "dispatcher" \in Placers
      OBVIOUS
    <3> QED BY <2>1, <2>2, <2>4, <3>1, <3>2, MovePlace
  <2>6. PlaceSafe
    BY <2>1, <2>2, <2>4, <2>5, AnchorFrame DEF PlaceSafe, Stays
  <2> QED BY <1>b, <2>1, <2>3, <2>4, <2>5, <2>6 DEF Refs, JobsOK, Step
<1>12. ASSUME DeleteUnbenchable PROVE Goal
  <2> DEFINE i == place["dispatcher"].row
  <2>1. /\ place["dispatcher"].pc = "delete" /\ i \in 1..born
        /\ result[JobOf(i)] \in Terminal /\ rows' = Delete(rows, {i}) /\ born' = born
        /\ place' = [place EXCEPT !["dispatcher"] = NoPlace]
        /\ UNCHANGED <<jobVars, events>> /\ Frame
    BY <1>12 DEF DeleteUnbenchable, Refs, PlaceOK
  <2> HIDE DEF i
  <2>2. TableStep /\ \A k \in Jobs : k # JobOf(i) => Keeps(rows, rows', k)
    BY <1>a, <2>1, DeleteTable DEF TableStep, Refs, JobOf
  <2>3. Step /\ \A k \in Jobs : Stays(k) /\ (k = JobOf(i) => result'[k] \notin Unanswered)
    BY <2>1, <2>2, ResultQuiet DEF Step, jobVars, Terminal, Unanswered
  <2>4. PlaceOK' /\ \A k \in Placers : place'[k].pc = IF k = "dispatcher" THEN "idle" ELSE place[k].pc
    <3>1. NoPlace \in PlaceRec /\ NoPlace.pc = "idle"
      BY <1>a DEF NoPlace
    <3>2. "dispatcher" \in Placers
      OBVIOUS
    <3>3. PlaceOK' /\ \A k \in Placers : place'[k].pc = IF k = "dispatcher" THEN NoPlace.pc ELSE place[k].pc
      BY <2>1, <2>3, <3>1, <3>2, MovePlace
    <3> QED BY <3>1, <3>3
  <2>5. PlaceSafe
    BY <2>1, <2>2, <2>3, <2>4, AnchorFrame DEF PlaceSafe, Stays
  <2> QED BY <1>b, <2>1, <2>3, <2>4, <2>5 DEF Refs, JobsOK, jobVars
<1> HIDE DEF Goal
<1>13. Goal
  BY <1>1, <1>2, <1>4, <1>5, <1>6, <1>7, <1>9, <1>10, <1>11, <1>12 DEF Placement
<1> QED BY <1>13 DEF Goal
-----------------------------------------------------------------------------
(* The drainers.                                                           *)

\* A drainer that peeks its queue holds rows of that queue only.
LEMMA DrainStartStep ==
  ASSUME Refs, NEW w \in Workers, DrainStart(w)
  PROVE  /\ BatchOK' /\ batchConn' \in [Workers -> 0..MaxConns]
         /\ UNCHANGED <<tableVars, jobVars, devQ, workerVars, place, task, drain, cancel, evict, events>>
<1>1. PICK S \in SUBSET Peek(rows, w) : batch' = [batch EXCEPT ![w] = S]
  BY DEF DrainStart
<1>2. S \subseteq Ids /\ \A i \in S : i \in 1..born /\ rows[i].q = w
  BY BornIds DEF Peek, Visible, Live
<1>3. batchConn' = [batchConn EXCEPT ![w] = conn[w]] /\ UNCHANGED <<rows, born>>
  BY DEF DrainStart, tableVars
<1>4. BatchOK'
  BY <1>1, <1>2, <1>3 DEF Refs, BatchOK
<1>5. batchConn' \in [Workers -> 0..MaxConns]
  BY <1>3 DEF Refs, WorkersOK
<1> QED BY <1>4, <1>5 DEF DrainStart

\* A drainer that leases a peeked row and starts its dispatch loses no job.
LEMMA LeaseStep ==
  ASSUME Refs, NEW w \in Workers, NEW i \in Ids, LeaseAndDispatch(w, i)
  PROVE  /\ Step /\ TaskOK' /\ TaskSafe /\ BatchOK'
         /\ UNCHANGED <<jobVars, devQ, workerVars, place, batchConn, drain, cancel, evict, events>>
<1>1. /\ UNCHANGED <<born, jobVars>>
      /\ UNCHANGED <<devQ, workerVars, place, batchConn, drain, cancel, evict, events>>
  BY DEF LeaseAndDispatch
<1>0. ASSUME Step PROVE BatchOK'
  <2>1. batch' = [batch EXCEPT ![w] = @ \ {i}]
    BY DEF LeaseAndDispatch
  <2> QED BY <1>0, <2>1, BornIds, Stable DEF Refs, BatchOK
<1>2. CASE Visible(rows, i)
  <2> DEFINE r == [NoTask EXCEPT !.pc = "lookup", !.conn = batchConn[w]]
  <2>1. i \in 1..born /\ Live(rows, i) /\ rows' = Relet(rows, i, "leased")
        /\ task' = [task EXCEPT ![i] = r]
    BY <1>2, BornIds DEF LeaseAndDispatch, Visible, Live, LeaseByID, Relet
  <2>2. TableStep /\ \A j \in Jobs : Keeps(rows, rows', j)
    BY <1>1, <2>1, BornIds, LeaseTable DEF TableStep, Refs
  <2>3. Step /\ \A j \in Jobs : Stays(j)
    BY <1>1, <2>2, ResultQuiet DEF Step, jobVars
  <2>4. batchConn[w] \in 0..MaxConns
    BY DEF Refs, WorkersOK
  <2>5. r \in [pc : TaskPcs, conn : 0..MaxConns,
             kind : {"none", "done", "error", "lost"}, flag : BOOLEAN] /\ r.pc = "lookup"
    BY <2>4 DEF NoTask, TaskPcs, InDispatch
  <2> HIDE DEF r
  <2>6. \A k \in Ids : task'[k] = IF k = i THEN r ELSE task[k]
    BY <2>1 DEF Refs, TaskOK
  <2>7. task' \in [Ids -> [pc : TaskPcs, conn : 0..MaxConns,
                         kind : {"none", "done", "error", "lost"}, flag : BOOLEAN]]
    BY <2>1, <2>5 DEF Refs, TaskOK
  <2>8. TaskOK'
    BY <2>1, <2>3, <2>5, <2>6, <2>7, BornIds, Stable DEF Refs, TaskOK, AnsweredPcs, Step, Answers
  <2>9. \A j \in Jobs : OwesTask(j) => OwesTask(j)' \/ (task[i].pc = "resubmit" /\ JobOf(i) = j)
    BY <2>3, <2>6, BornIds, Stable DEF Refs, TaskOK, OwesTask
  <2>10. task[i].pc # "resubmit"
    BY DEF LeaseAndDispatch, TaskAt, InDispatch, Refs, BatchOK
  <2>11. TaskSafe
    BY <2>2, <2>3, <2>9, <2>10, AnchorFrame DEF TaskSafe
  <2> QED BY <1>0, <1>1, <2>3, <2>8, <2>11
<1>3. CASE ~Visible(rows, i)
  <2>1. UNCHANGED <<rows, task>>
    BY <1>3 DEF LeaseAndDispatch
  <2>2. Step /\ \A j \in Jobs : Stays(j) /\ Keeps(rows, rows', j)
    BY <1>1, <2>1, TableQuiet, ResultQuiet DEF Step, tableVars, jobVars
  <2>3. TaskOK' /\ TaskSafe
    BY <2>1, <2>2, TaskFrame, AnchorFrame DEF TaskSafe
  <2> QED BY <1>0, <1>1, <2>2, <2>3
<1> QED BY <1>2, <1>3

-----------------------------------------------------------------------------
(* drainWorkerQueue, and the workers.                                      *)

DrainRec == [pc : {"idle", "peek", "loop", "act", "drop", "resubmit", "revert"},
             all : BOOLEAN, todo : SUBSET Ids, hot : SUBSET Ids, row : 0..MaxRows]

DrainSafe == \A j \in Jobs :
  Stays(j) /\ (OwesDrain(j) \/ Anchored(j) =>
                result'[j] \notin Unanswered \/ OwesDrain(j)' \/ Anchored(j)')

\* A disconnect drain that moves to a record whose rows are of its queue keeps
\* DrainOK, and drops an answer it owes only when it leaves "resubmit".
LEMMA MoveDrain ==
  ASSUME Refs, Step, NEW w \in Workers, NEW r \in DrainRec, drain' = [drain EXCEPT ![w] = r],
         \A i \in r.todo : i \in 1..born /\ rows[i].q = w,
         r.pc \in {"act", "drop", "resubmit", "revert"} =>
           r.row \in 1..born /\ rows[r.row].q = w,
         r.pc = "drop" => result'[JobOf(r.row)] \in Terminal
  PROVE  /\ DrainOK'
         /\ \A j \in Jobs : OwesDrain(j) /\ (drain[w].pc # "resubmit" \/ j # InDrain(w)) => OwesDrain(j)'
         /\ r.pc = "resubmit" => \A j \in Jobs : j = JobOf(r.row) => OwesDrain(j)'
<1>1. \A v \in Workers : drain'[v] = IF v = w THEN r ELSE drain[v]
  BY DEF Refs, DrainOK
<1>2. drain' \in [Workers -> DrainRec]
  BY DEF Refs, DrainOK, DrainRec
<1>3. ASSUME NEW v \in Workers
      PROVE  /\ \A i \in drain'[v].todo : i \in 1..born' /\ rows'[i].q = v
             /\ drain'[v].pc \in {"act", "drop", "resubmit", "revert"} =>
                  drain'[v].row \in 1..born' /\ rows'[drain'[v].row].q = v
             /\ drain'[v].pc = "drop" => result'[JobOf(drain[v].row)'] \in Terminal
  <2>1. CASE v = w
    BY <1>1, <2>1, Stable DEF JobOf
  <2>2. CASE v # w
    BY <1>1, <2>2, BornIds, Stable DEF Refs, DrainOK, Step, Answers, InDrain
  <2> QED BY <2>1, <2>2
<1>4. DrainOK'
  BY <1>2, <1>3 DEF DrainOK, DrainRec, InDrain
<1>5. \A j \in Jobs : OwesDrain(j) /\ (drain[w].pc # "resubmit" \/ j # InDrain(w)) => OwesDrain(j)'
  BY <1>1, Stable DEF Refs, DrainOK, OwesDrain, InDrain
<1>6. r.pc = "resubmit" => \A j \in Jobs : j = JobOf(r.row) => OwesDrain(j)'
  BY <1>1, Stable DEF OwesDrain, InDrain
<1> QED BY <1>4, <1>5, <1>6

\* DrainNext, from any step but the one that resubmits.
LEMMA NextDrain ==
  ASSUME Refs, Step, NEW w \in Workers, drain[w].pc # "resubmit", DrainNext(w)
  PROVE  DrainOK' /\ \A j \in Jobs : OwesDrain(j) => OwesDrain(j)'
<1> DEFINE r == [drain[w] EXCEPT !.pc = "loop", !.todo = drain[w].todo \ {drain[w].row}, !.row = 0]
<1>1. drain' = [drain EXCEPT ![w] = r]
  BY DEF DrainNext
<1>2. drain[w] \in DrainRec
  BY DEF Refs, DrainOK, DrainRec
<1>3. r \in DrainRec /\ r.pc = "loop" /\ r.todo \subseteq drain[w].todo
  <2>1. drain[w].todo \in SUBSET Ids
    BY <1>2 DEF DrainRec
  <2>2. ASSUME NEW T \in SUBSET Ids
        PROVE  LET u == [drain[w] EXCEPT !.pc = "loop", !.todo = T, !.row = 0]
               IN  u \in DrainRec /\ u.pc = "loop" /\ u.todo = T
    <3>1. 0 \in 0..MaxRows
      BY RowBound
    <3> QED BY <1>2, <3>1 DEF DrainRec
  <2> QED BY <2>1, <2>2
<1> HIDE DEF r
<1>4. \A i \in r.todo : i \in 1..born /\ rows[i].q = w
  BY <1>3 DEF Refs, DrainOK
<1> QED BY <1>1, <1>3, <1>4, MoveDrain

\* Every step of a disconnect drain keeps DrainOK and loses no job.
LEMMA DrainQueueStep ==
  ASSUME Refs, NEW w \in Workers, DrainQueue(w)
  PROVE  Step /\ DrainOK' /\ DrainSafe /\ JobsOK' /\ devQ' \subseteq Workers /\ UNCHANGED DrainOthers
<1> DEFINE Goal == Step /\ DrainOK' /\ DrainSafe /\ JobsOK' /\ devQ' \subseteq Workers
                   /\ UNCHANGED DrainOthers
           d == drain[w].row
<1>a. drain[w] \in DrainRec /\ devQ \subseteq Workers /\ born \in Nat /\ 0 \in 0..MaxRows
  BY RowBound DEF Refs, DrainOK, DrainRec, WorkersOK, TableOK
<1>b. drain[w].pc \in {"act", "drop", "resubmit", "revert"} =>
        d \in 1..born /\ rows[d].q = w /\ rows[d].q # "global" /\ JobOf(d) \in Jobs
  BY BornIds, QueueNames DEF Refs, DrainOK
<1>c. \A i \in drain[w].todo : i \in 1..born /\ rows[i].q = w
  BY DEF Refs, DrainOK
<1>1. CASE DrainPeek(w)
  <2>1. PICK S \in SUBSET PeekAll(rows, w) :
          LET hot == {i \in S : Hidden(rows, i)}
          IN  drain' = [drain EXCEPT ![w].pc = "loop", ![w].hot = hot,
                                     ![w].todo = IF drain[w].all THEN S ELSE S \ hot]
    BY <1>1 DEF DrainPeek
  <2>2. \A i \in S : i \in Ids /\ i \in 1..born /\ rows[i].q = w
    BY BornIds DEF PeekAll
  <2>3. PICK H \in SUBSET Ids, T \in SUBSET S :
          drain' = [drain EXCEPT ![w].pc = "loop", ![w].hot = H, ![w].todo = T]
    BY <2>1, <2>2
  <2> DEFINE r == [drain[w] EXCEPT !.pc = "loop", !.hot = H, !.todo = T]
  <2>4. T \in SUBSET Ids
    BY <2>2
  <2>5. r \in DrainRec /\ r.pc = "loop" /\ r.todo = T /\ drain' = [drain EXCEPT ![w] = r]
    BY <1>a, <2>3, <2>4 DEF DrainRec
  <2> HIDE DEF r
  <2>6. drain[w].pc = "peek" /\ UNCHANGED <<tableVars, jobVars, devQ, DrainOthers>>
    BY <1>1 DEF DrainPeek
  <2>7. Step /\ \A j \in Jobs : Stays(j) /\ Keeps(rows, rows', j)
    BY <2>6, TableQuiet, ResultQuiet DEF Step, jobVars
  <2>8. DrainOK' /\ \A j \in Jobs : OwesDrain(j) => OwesDrain(j)'
    BY <2>2, <2>5, <2>6, <2>7, MoveDrain
  <2>9. DrainSafe
    BY <2>7, <2>8, AnchorFrame DEF DrainSafe
  <2> QED BY <1>a, <2>6, <2>7, <2>8, <2>9 DEF Refs, JobsOK, jobVars
<1>2. ASSUME NEW i \in Ids, DrainCheck(w, i) PROVE Goal
  <2>0. /\ drain[w].pc = "loop" /\ i \in drain[w].todo /\ i \in 1..born /\ JobOf(i) \in Jobs
        /\ i \in 0..MaxRows /\ rows[i].q = w
        /\ UNCHANGED <<tableVars, buffer, marker, inflight, starts, devQ, DrainOthers>>
    BY <1>2, <1>c, BornIds, RowBound DEF DrainCheck, Ids
  <2>1. /\ Answers /\ result' \in [Jobs -> Statuses] /\ \A j \in Jobs : Stays(j)
        /\ inflight[JobOf(i)] = "cancelled" \/ result[JobOf(i)] \in Terminal =>
             result'[JobOf(i)] \in Terminal
    <3>1. CASE inflight[JobOf(i)] = "cancelled"
      <4>1. Settle(JobOf(i), "cancelled")
        BY <1>2, <3>1 DEF DrainCheck
      <4> QED BY <2>0, <4>1, ResultSettled DEF Terminal
    <3>2. CASE inflight[JobOf(i)] # "cancelled"
      <4>1. UNCHANGED result
        BY <1>2, <3>2 DEF DrainCheck
      <4> QED BY <3>2, <4>1, ResultQuiet
    <3> QED BY <3>1, <3>2
  <2>2. Step /\ \A j \in Jobs : Keeps(rows, rows', j)
    BY <2>0, <2>1, TableQuiet DEF Step
  <2>3. PICK pc \in {"drop", "act"} :
          /\ drain' = [drain EXCEPT ![w].row = i, ![w].pc = pc]
          /\ pc = "drop" => result'[JobOf(i)] \in Terminal
    BY <1>2, <2>1 DEF DrainCheck
  <2> DEFINE r == [drain[w] EXCEPT !.row = i, !.pc = pc]
  <2>4. /\ r \in DrainRec /\ r.pc = pc /\ r.row = i /\ r.todo = drain[w].todo
        /\ drain' = [drain EXCEPT ![w] = r]
    BY <1>a, <2>0, <2>3 DEF DrainRec
  <2> HIDE DEF r
  <2>5. DrainOK' /\ \A j \in Jobs : OwesDrain(j) => OwesDrain(j)'
    <3>1. /\ \A k \in r.todo : k \in 1..born /\ rows[k].q = w
          /\ r.row \in 1..born /\ rows[r.row].q = w
          /\ r.pc = "drop" => result'[JobOf(r.row)] \in Terminal
          /\ drain[w].pc # "resubmit" /\ r.pc # "resubmit"
      BY <1>c, <2>0, <2>3, <2>4
    <3> QED BY <2>2, <2>4, <3>1, MoveDrain
  <2>6. DrainSafe
    BY <2>1, <2>2, <2>5, AnchorFrame DEF DrainSafe
  <2> QED BY <1>a, <2>0, <2>1, <2>2, <2>5, <2>6 DEF Refs, JobsOK
<1>3. CASE DrainDrop(w)
  <2>1. /\ drain[w].pc = "drop" /\ rows' = DeleteBoth(rows, d) /\ DrainNext(w)
        /\ UNCHANGED <<born, jobVars, devQ, DrainOthers>>
        /\ result[JobOf(d)] \in Terminal
    BY <1>3 DEF DrainDrop, Refs, DrainOK, InDrain
  <2>2. TableStep /\ \A j \in Jobs : j # JobOf(d) => Keeps(rows, rows', j)
    BY <1>a, <1>b, <2>1, DeleteBothTable DEF TableStep, Refs, JobOf
  <2>3. Step /\ \A j \in Jobs : Stays(j) /\ (j = JobOf(d) => result'[j] \notin Unanswered)
    BY <2>1, <2>2, ResultQuiet DEF Step, jobVars, Terminal, Unanswered
  <2>4. DrainOK' /\ \A j \in Jobs : OwesDrain(j) => OwesDrain(j)'
    BY <2>1, <2>3, NextDrain
  <2>5. DrainSafe
    BY <2>2, <2>3, <2>4, AnchorFrame DEF DrainSafe
  <2> QED BY <1>a, <2>1, <2>3, <2>4, <2>5 DEF Refs, JobsOK, jobVars
<1>4. CASE DrainRelease(w)
  <2>1. /\ drain[w].pc = "act" /\ rows' = DeleteAndReleaseLease(rows, d) /\ DrainNext(w)
        /\ UNCHANGED <<born, jobVars, devQ, DrainOthers>>
    BY <1>4 DEF DrainRelease
  <2>2. TableStep /\ \A j \in Jobs : Keeps(rows, rows', j)
    BY <1>a, <1>b, <2>1, DeleteAndReleaseTable DEF TableStep, Refs
  <2>3. Step /\ \A j \in Jobs : Stays(j)
    BY <2>1, <2>2, ResultQuiet DEF Step, jobVars
  <2>4. DrainOK' /\ \A j \in Jobs : OwesDrain(j) => OwesDrain(j)'
    BY <2>1, <2>3, NextDrain
  <2>5. DrainSafe
    BY <2>2, <2>3, <2>4, AnchorFrame DEF DrainSafe
  <2> QED BY <1>a, <2>1, <2>3, <2>4, <2>5 DEF Refs, JobsOK, jobVars
<1>5. CASE DrainExhausted(w)
  <2> DEFINE r == [drain[w] EXCEPT !.pc = "drop"]
  <2>1. /\ drain[w].pc = "act" /\ Settle(JobOf(d), "failed")
        /\ drain' = [drain EXCEPT ![w].pc = "drop"]
        /\ UNCHANGED <<tableVars, buffer, marker, inflight, starts, devQ, DrainOthers>>
    BY <1>5 DEF DrainExhausted, InDrain
  <2>2. /\ Step /\ result'[JobOf(d)] \in Terminal
        /\ \A j \in Jobs : Stays(j) /\ Keeps(rows, rows', j)
    BY <1>b, <2>1, TableQuiet, ResultSettled DEF Step, Terminal
  <2>3. /\ r \in DrainRec /\ r.pc = "drop" /\ r.row = d /\ r.todo = drain[w].todo
        /\ drain' = [drain EXCEPT ![w] = r]
    BY <1>a, <2>1 DEF DrainRec
  <2> HIDE DEF r
  <2>4. DrainOK' /\ \A j \in Jobs : OwesDrain(j) => OwesDrain(j)'
    BY <1>b, <1>c, <2>1, <2>2, <2>3, MoveDrain
  <2>5. DrainSafe
    BY <2>2, <2>4, AnchorFrame DEF DrainSafe
  <2> QED BY <1>a, <2>1, <2>2, <2>4, <2>5 DEF Refs, JobsOK, Step
<1>6. CASE DrainRequeue(w)
  <2> DEFINE r == [drain[w] EXCEPT !.pc = "resubmit"]
  <2>1. /\ drain[w].pc = "act" /\ rows' = DeleteBoth(rows, d)
        /\ drain' = [drain EXCEPT ![w].pc = "resubmit"]
        /\ UNCHANGED <<born, jobVars, devQ, DrainOthers>>
    BY <1>6 DEF DrainRequeue
  <2>2. TableStep /\ \A j \in Jobs : j # JobOf(d) => Keeps(rows, rows', j)
    BY <1>a, <1>b, <2>1, DeleteBothTable DEF TableStep, Refs, JobOf
  <2>3. Step /\ \A j \in Jobs : Stays(j)
    BY <2>1, <2>2, ResultQuiet DEF Step, jobVars
  <2>4. /\ r \in DrainRec /\ r.pc = "resubmit" /\ r.row = d /\ r.todo = drain[w].todo
        /\ drain' = [drain EXCEPT ![w] = r]
    BY <1>a, <2>1 DEF DrainRec
  <2> HIDE DEF r
  <2>5. /\ DrainOK'
        /\ \A j \in Jobs : OwesDrain(j) \/ j = JobOf(d) => OwesDrain(j)'
    BY <1>b, <1>c, <2>1, <2>3, <2>4, MoveDrain
  <2>6. DrainSafe
    BY <2>2, <2>3, <2>5, AnchorFrame DEF DrainSafe
  <2> QED BY <1>a, <2>1, <2>3, <2>5, <2>6 DEF Refs, JobsOK, jobVars
<1>7. CASE DrainResubmit(w)
  <2> DEFINE r == [drain[w] EXCEPT !.pc = "revert"]
  <2>1. /\ drain[w].pc = "resubmit" /\ born < MaxRows /\ born' = born + 1
        /\ rows' = Submit(rows, born + 1, "global", JobOf(d), 0, rows[d].attempts + 1)
        /\ drain' = [drain EXCEPT ![w].pc = "revert"]
        /\ UNCHANGED <<jobVars, devQ, DrainOthers>>
    BY <1>7 DEF DrainResubmit, Room, Next1, InDrain
  <2>2. rows[d].attempts + 1 \in Nat /\ "global" \in Queues
    BY <1>b, <2>1, BornIds DEF Refs, TableOK, Row, Queues
  <2>3. /\ TableStep /\ \A j \in Jobs : Keeps(rows, rows', j)
        /\ rows'[born + 1].q = "global" /\ rows'[born + 1].job = JobOf(d) /\ Live(rows', born + 1)
        /\ born + 1 \in Ids
    BY <1>a, <1>b, <2>1, <2>2, SubmitTable DEF TableStep, Refs
  <2>4. Step /\ \A j \in Jobs : Stays(j) /\ (j = JobOf(d) => Anchored(j)')
    BY <2>1, <2>3, ResultQuiet DEF Step, Anchored, JobOf, jobVars
  <2>5. /\ r \in DrainRec /\ r.pc = "revert" /\ r.row = d /\ r.todo = drain[w].todo
        /\ drain' = [drain EXCEPT ![w] = r]
    BY <1>a, <2>1 DEF DrainRec
  <2> HIDE DEF r
  <2>6. DrainOK' /\ \A j \in Jobs : OwesDrain(j) /\ j # JobOf(d) => OwesDrain(j)'
    <3>1. /\ \A k \in r.todo : k \in 1..born /\ rows[k].q = w
          /\ r.row \in 1..born /\ rows[r.row].q = w /\ r.pc # "drop"
          /\ JobOf(d) = InDrain(w)
      BY <1>b, <1>c, <2>1, <2>5 DEF InDrain
    <3> QED BY <2>4, <2>5, <3>1, MoveDrain
  <2>7. DrainSafe
    BY <2>3, <2>4, <2>6, AnchorFrame DEF DrainSafe
  <2> QED BY <1>a, <2>1, <2>4, <2>6, <2>7 DEF Refs, JobsOK, jobVars
<1>8. CASE DrainRevert(w)
  <2>1. /\ drain[w].pc = "revert" /\ DrainNext(w)
        /\ result' = [result EXCEPT ![JobOf(d)] = IF @ = "processing" THEN "pending" ELSE @]
        /\ UNCHANGED <<tableVars, buffer, marker, inflight, starts, devQ, DrainOthers>>
    BY <1>8 DEF DrainRevert, InDrain
  <2>2. Answers /\ result' \in [Jobs -> Statuses] /\ \A j \in Jobs : Stays(j)
    BY <1>b, <2>1 DEF Refs, JobsOK, Answers, Stays, Statuses, Terminal, Unanswered
  <2>3. Step /\ \A j \in Jobs : Keeps(rows, rows', j)
    BY <2>1, <2>2, TableQuiet DEF Step
  <2>4. DrainOK' /\ \A j \in Jobs : OwesDrain(j) => OwesDrain(j)'
    BY <2>1, <2>3, NextDrain
  <2>5. DrainSafe
    BY <2>2, <2>3, <2>4, AnchorFrame DEF DrainSafe
  <2> QED BY <1>a, <2>1, <2>2, <2>3, <2>4, <2>5 DEF Refs, JobsOK
<1>9. CASE DrainEnd(w)
  <2>1. /\ drain[w].pc = "loop" /\ drain' = [drain EXCEPT ![w] = NoDrain]
        /\ UNCHANGED <<tableVars, jobVars, DrainOthers>> /\ devQ' \subseteq Workers
    BY <1>a, <1>9 DEF DrainEnd
  <2>2. Step /\ \A j \in Jobs : Stays(j) /\ Keeps(rows, rows', j)
    BY <2>1, TableQuiet, ResultQuiet DEF Step, jobVars
  <2>3. NoDrain \in DrainRec /\ NoDrain.pc = "idle" /\ NoDrain.todo = {}
    BY <1>a DEF NoDrain, DrainRec
  <2>4. DrainOK' /\ \A j \in Jobs : OwesDrain(j) => OwesDrain(j)'
    BY <2>1, <2>2, <2>3, MoveDrain
  <2>5. DrainSafe
    BY <2>2, <2>4, AnchorFrame DEF DrainSafe
  <2> QED BY <2>1, <2>2, <2>4, <2>5 DEF Refs, JobsOK, jobVars
<1> QED BY <1>1, <1>2, <1>3, <1>4, <1>5, <1>6, <1>7, <1>8, <1>9 DEF DrainQueue

\* Every step of a worker's connection and devices keeps the queues and loses
\* no job.
LEMMA WorkerStep ==
  ASSUME Refs, NEW w \in Workers, Worker(w)
  PROVE  Step /\ DrainOK' /\ DrainSafe /\ WorkersOK' /\ UNCHANGED Sched
<1>1. UNCHANGED Sched
  BY DEF Worker, Connect, OnWorkerConnected, SetOffline, Deregister, DisableDevices, EnableDevices
<1>2. Step /\ \A j \in Jobs : Stays(j) /\ Keeps(rows, rows', j)
  BY <1>1, TableQuiet, ResultQuiet DEF Step, Sched, jobVars
<1>3. DrainOK' /\ \A j \in Jobs : OwesDrain(j) => OwesDrain(j)'
  <2>1. CASE drain' = drain
    BY <1>2, <2>1, DrainFrame
  <2>2. CASE \E b \in BOOLEAN : /\ drain[w].pc = "idle"
                                /\ drain' = [drain EXCEPT ![w] = [NoDrain EXCEPT !.pc = "peek", !.all = b]]
    <3>1. PICK b \in BOOLEAN : drain' = [drain EXCEPT ![w] = [NoDrain EXCEPT !.pc = "peek", !.all = b]]
      BY <2>2
    <3> DEFINE r == [NoDrain EXCEPT !.pc = "peek", !.all = b]
    <3>2. 0 \in 0..MaxRows
      BY RowBound
    <3>3. r \in DrainRec /\ r.pc = "peek" /\ r.todo = {}
      BY <3>2 DEF NoDrain, DrainRec
    <3> HIDE DEF r
    <3> QED BY <1>2, <2>2, <3>1, <3>3, MoveDrain DEF r
  <2>3. CASE drain[w].pc = "idle" /\ drain' = [drain EXCEPT ![w] = NoDrain]
    <3>2. 0 \in 0..MaxRows
      BY RowBound
    <3>3. NoDrain \in DrainRec /\ NoDrain.pc = "idle" /\ NoDrain.todo = {}
      BY <3>2 DEF NoDrain, DrainRec
    <3> QED BY <1>2, <2>3, <3>3, MoveDrain
  <2>4. CASE Deregister(w)
    <3>1. drain[w].pc = "idle"
      BY <2>4 DEF Deregister
    <3>2. CASE w \in devQ
      <4>1. drain' = [drain EXCEPT ![w] = [NoDrain EXCEPT !.pc = "peek", !.all = TRUE]]
        BY <2>4, <3>2 DEF Deregister
      <4> QED BY <2>2, <3>1, <4>1
    <3>3. CASE w \notin devQ
      BY <2>4, <2>3, <3>1, <3>3 DEF Deregister
    <3> QED BY <3>2, <3>3
  <2>5. CASE DisableDevices(w)
    <3>1. drain[w].pc = "idle" /\ drain' = [drain EXCEPT ![w] = [NoDrain EXCEPT !.pc = "peek"]]
      BY <2>5 DEF DisableDevices
    <3> DEFINE r == [NoDrain EXCEPT !.pc = "peek"]
    <3>2. 0 \in 0..MaxRows
      BY RowBound
    <3>3. r \in DrainRec /\ r.pc = "peek" /\ r.todo = {}
      BY <3>2 DEF NoDrain, DrainRec
    <3> HIDE DEF r
    <3> QED BY <1>2, <3>1, <3>3, MoveDrain DEF r
  <2> QED BY <2>1, <2>4, <2>5 DEF Worker, Connect, OnWorkerConnected, SetOffline, EnableDevices
<1>4. DrainSafe
  BY <1>2, <1>3, AnchorFrame DEF DrainSafe
<1>5. WorkersOK'
  <2>1. batchConn' = batchConn
    BY <1>1 DEF Sched, drainerVars
  <2>2. CASE Connect(w)
    <3>1. conn[w] + 1 \in 0..MaxConns
      BY <2>2, EnvAssumption DEF Connect, Refs, WorkersOK
    <3>2. conn' \in [Workers -> 0..MaxConns]
      BY <2>2, <3>1 DEF Connect, Refs, WorkersOK
    <3> QED BY <2>1, <2>2, <3>2 DEF Connect, Refs, WorkersOK
  <2>3. CASE OnWorkerConnected(w)
    BY <2>1, <2>3 DEF OnWorkerConnected, Refs, WorkersOK
  <2>4. CASE SetOffline(w)
    BY <2>1, <2>4 DEF SetOffline, Event, Refs, WorkersOK
  <2>5. CASE Deregister(w)
    BY <2>1, <2>5 DEF Deregister, Refs, WorkersOK
  <2>6. CASE DisableDevices(w)
    BY <2>1, <2>6 DEF DisableDevices, Event, Refs, WorkersOK
  <2>7. CASE EnableDevices(w)
    BY <2>1, <2>7 DEF EnableDevices, Refs, WorkersOK
  <2> QED BY <2>2, <2>3, <2>4, <2>5, <2>6, <2>7 DEF Worker
<1> QED BY <1>1, <1>2, <1>3, <1>4, <1>5

-----------------------------------------------------------------------------
(* Cancellation and eviction.                                              *)

CancelSafe == \A j \in Jobs :
  Stays(j) /\ (cancel[j].pc = "settle" \/ Anchored(j) =>
                result'[j] \notin Unanswered \/ cancel'[j].pc = "settle" \/ Anchored(j)')

CancelPcs == {"idle", "scanGlobal", "scanWorkers", "confirm", "delete", "settle", "marker",
              "running", "ok", "conflict", "notInflight"}

\* A cancel that moves to a row of its job keeps CancelOK.
LEMMA MoveCancel ==
  ASSUME Refs, Step, NEW j \in Jobs, NEW pc \in CancelPcs, NEW i \in 0..MaxRows,
         CancelGoto(j, pc, i), pc \in {"confirm", "delete"} => i \in 1..born /\ JobOf(i) = j
  PROVE  CancelOK' /\ \A k \in Jobs : cancel'[k].pc = IF k = j THEN pc ELSE cancel[k].pc
<1>1. \A k \in Jobs : cancel'[k] = IF k = j THEN [pc |-> pc, row |-> i] ELSE cancel[k]
  BY DEF Refs, CancelOK, CancelGoto
<1>2. cancel' \in [Jobs -> [pc : CancelPcs, row : 0..MaxRows]]
  BY DEF Refs, CancelOK, CancelGoto, CancelPcs
<1>3. \A k \in Jobs : cancel'[k].pc \in {"confirm", "delete"} =>
        cancel'[k].row \in 1..born' /\ rows'[cancel'[k].row].job = k
  BY <1>1, BornIds, Stable DEF Refs, CancelOK, JobOf
<1>4. CancelOK'
  BY <1>2, <1>3 DEF CancelOK, CancelPcs, JobOf
<1> QED BY <1>1, <1>4

\* A step of a cancellation that touches neither the table nor a result.
LEMMA QuietCancel ==
  ASSUME Refs, UNCHANGED tableVars, UNCHANGED result, NEW j \in Jobs, NEW pc \in CancelPcs,
         NEW i \in 0..MaxRows, CancelGoto(j, pc, i), cancel[j].pc # "settle",
         pc \in {"confirm", "delete"} => i \in 1..born /\ JobOf(i) = j
  PROVE  Step /\ CancelOK' /\ CancelSafe
<1>1. Step /\ \A k \in Jobs : Stays(k) /\ Keeps(rows, rows', k)
  BY TableQuiet, ResultQuiet DEF Step
<1>2. CancelOK' /\ \A k \in Jobs : cancel'[k].pc = IF k = j THEN pc ELSE cancel[k].pc
  BY <1>1, MoveCancel
<1> QED BY <1>1, <1>2, AnchorFrame DEF CancelSafe

\* A cancel's scan of some queues keeps CancelOK and loses no job.
LEMMA ScanStep ==
  ASSUME Refs, NEW j \in Jobs, NEW from, NEW queues, NEW missed \in CancelPcs \ {"confirm", "delete"},
         from # "settle", CancelScan(j, from, queues, missed)
  PROVE  Step /\ CancelOK' /\ CancelSafe /\ UNCHANGED <<jobVars, CancelOthers>>
<1>1. cancel[j].pc # "settle" /\ UNCHANGED <<tableVars, jobVars, CancelOthers>>
  BY DEF CancelScan
<1>2. \/ CancelGoto(j, missed, 0)
      \/ \E i \in Ids : JobOf(i) = j /\ Visible(rows, i) /\ CancelGoto(j, "confirm", i)
  BY DEF CancelScan, Peek
<1>3. 0 \in 0..MaxRows /\ Ids \subseteq 0..MaxRows /\ "confirm" \in CancelPcs
  BY RowBound DEF Ids, CancelPcs
<1>4. CASE CancelGoto(j, missed, 0)
  BY <1>1, <1>3, <1>4, QuietCancel DEF jobVars
<1>5. ASSUME NEW i \in Ids, JobOf(i) = j, Visible(rows, i), CancelGoto(j, "confirm", i)
      PROVE  Step /\ CancelOK' /\ CancelSafe /\ UNCHANGED <<jobVars, CancelOthers>>
  <2>1. i \in 1..born
    BY <1>5, BornIds DEF Visible, Live
  <2> QED BY <1>1, <1>3, <1>5, <2>1, QuietCancel DEF jobVars
<1> QED BY <1>2, <1>4, <1>5

\* Every step of a cancel keeps CancelOK and loses no job.
LEMMA CancelStep ==
  ASSUME Refs, NEW j \in Jobs, Cancel(j)
  PROVE  Step /\ CancelOK' /\ CancelSafe /\ JobsOK' /\ UNCHANGED CancelOthers
<1> DEFINE Goal == Step /\ CancelOK' /\ CancelSafe /\ JobsOK' /\ UNCHANGED CancelOthers
<1> USE DEF CancelPcs
<1>a. 0 \in 0..MaxRows /\ Ids \subseteq 0..MaxRows /\ born \in Nat
  BY RowBound DEF Ids, Refs, TableOK
<1>b. UNCHANGED jobVars => JobsOK'
  BY DEF Refs, JobsOK, jobVars
<1>1. CASE CancelStart(j)
  BY <1>a, <1>b, <1>1, QuietCancel DEF CancelStart, jobVars
<1>2. ASSUME NEW i \in Ids, CancelRow(j, i) PROVE Goal
  <2>1. i \in 1..born /\ JobOf(i) = j /\ i \in 0..MaxRows
    BY <1>a, <1>2, BornIds DEF CancelRow
  <2> QED BY <1>b, <1>2, <2>1, QuietCancel DEF CancelRow, jobVars
<1>3. CASE CancelScanGlobal(j)
  BY <1>b, <1>3, ScanStep DEF CancelScanGlobal
<1>4. CASE CancelScanWorkers(j)
  BY <1>b, <1>4, ScanStep DEF CancelScanWorkers
<1>5. CASE CancelConfirm(j)
  <2>1. /\ cancel[j].pc = "confirm" /\ UNCHANGED <<tableVars, jobVars, CancelOthers>>
        /\ cancel[j].row \in 1..born /\ JobOf(cancel[j].row) = j /\ cancel[j].row \in 0..MaxRows
        /\ CancelGoto(j, "delete", cancel[j].row) \/ CancelGoto(j, "conflict", 0)
    BY <1>5 DEF CancelConfirm, Refs, CancelOK
  <2> QED BY <1>a, <1>b, <2>1, QuietCancel DEF jobVars
<1>6. CASE CancelDelete(j)
  <2> DEFINE i == cancel[j].row
  <2>1. /\ cancel[j].pc = "delete" /\ rows' = DeleteBoth(rows, i) /\ CancelGoto(j, "settle", 0)
        /\ i \in 1..born /\ JobOf(i) = j /\ UNCHANGED <<born, jobVars, CancelOthers>>
    BY <1>6 DEF CancelDelete, Refs, CancelOK
  <2> HIDE DEF i
  <2>2. TableStep /\ \A k \in Jobs : k # j => Keeps(rows, rows', k)
    BY <1>a, <2>1, DeleteBothTable DEF TableStep, Refs, JobOf
  <2>3. Step /\ \A k \in Jobs : Stays(k)
    BY <2>1, <2>2, ResultQuiet DEF Step, jobVars
  <2>4. CancelOK' /\ \A k \in Jobs : cancel'[k].pc = IF k = j THEN "settle" ELSE cancel[k].pc
    BY <1>a, <2>1, <2>3, MoveCancel
  <2>5. CancelSafe
    BY <2>2, <2>3, <2>4, AnchorFrame DEF CancelSafe
  <2> QED BY <1>b, <2>1, <2>3, <2>4, <2>5
<1>7. CASE CancelSettle(j)
  <2>1. /\ Settle(j, "cancelled") /\ CancelGoto(j, "ok", 0) /\ buffer' = buffer \ {j}
        /\ UNCHANGED <<tableVars, marker, inflight, starts, CancelOthers>>
    BY <1>7 DEF CancelSettle
  <2>2. /\ Step /\ result'[j] \notin Unanswered
        /\ \A k \in Jobs : Stays(k) /\ Keeps(rows, rows', k)
    BY <2>1, TableQuiet, ResultSettled DEF Step, Terminal
  <2>3. CancelOK' /\ \A k \in Jobs : cancel'[k].pc = IF k = j THEN "ok" ELSE cancel[k].pc
    BY <1>a, <2>1, <2>2, MoveCancel
  <2>4. CancelSafe
    BY <2>2, <2>3, AnchorFrame DEF CancelSafe
  <2> QED BY <2>1, <2>2, <2>3, <2>4 DEF Refs, JobsOK, Step
<1>8. CASE CancelMarker(j)
  <2>1. /\ cancel[j].pc = "marker" /\ marker' \in [Jobs -> {"none", "set", "cancel"}]
        /\ UNCHANGED <<tableVars, result, buffer, inflight, starts, CancelOthers>>
        /\ CancelGoto(j, "running", 0) \/ CancelGoto(j, "ok", 0)
    BY <1>8 DEF CancelMarker, Refs, JobsOK
  <2>2. Step /\ CancelOK' /\ CancelSafe
    BY <1>a, <2>1, QuietCancel
  <2> QED BY <2>1, <2>2 DEF Refs, JobsOK
<1>9. CASE CancelRunning(j)
  <2>1. /\ cancel[j].pc = "running" /\ inflight' \in [Jobs -> {"none", "live", "cancelled"}]
        /\ UNCHANGED <<tableVars, result, buffer, marker, starts, CancelOthers>>
        /\ CancelGoto(j, "notInflight", 0) \/ CancelGoto(j, "ok", 0)
    BY <1>9 DEF CancelRunning, Refs, JobsOK
  <2>2. Step /\ CancelOK' /\ CancelSafe
    BY <1>a, <2>1, QuietCancel
  <2> QED BY <2>1, <2>2 DEF Refs, JobsOK
<1> QED BY <1>1, <1>2, <1>3, <1>4, <1>5, <1>6, <1>7, <1>8, <1>9 DEF Cancel

\* The two steps of an eviction keep EvictOK and every job's anchors.
LEMMA EvictStep ==
  ASSUME Refs, (\E i \in Ids : EvictFind(i)) \/ EvictCommit
  PROVE  /\ Step /\ EvictOK' /\ events' \in Nat /\ UNCHANGED <<jobVars, EvictOthers>>
         /\ \A j \in Jobs : Stays(j) /\ Keeps(rows, rows', j)
<1>a. 0 \in 0..MaxRows /\ Ids \subseteq 0..MaxRows /\ born \in Nat /\ events \in Nat
  BY RowBound DEF Ids, Refs, TableOK, WorkersOK
<1>1. ASSUME NEW i \in Ids, EvictFind(i)
      PROVE  /\ Step /\ EvictOK' /\ events' \in Nat /\ UNCHANGED <<jobVars, EvictOthers>>
             /\ \A j \in Jobs : Stays(j) /\ Keeps(rows, rows', j)
  <2>1. /\ evict' = i /\ UNCHANGED <<tableVars, jobVars, EvictOthers>> /\ events' \in Nat
        /\ i \in 1..born /\ i \in 0..MaxRows /\ rows[i].q # "global"
    BY <1>a, <1>1, BornIds, QueueNames DEF EvictFind, Event, Visible, Live, Refs, WorkersOK
  <2>2. Step /\ \A j \in Jobs : Stays(j) /\ Keeps(rows, rows', j)
    BY <2>1, TableQuiet, ResultQuiet DEF Step, jobVars
  <2> QED BY <2>1, <2>2, Stable DEF EvictOK
<1>2. CASE EvictCommit
  <2>1. /\ evict \in 1..born /\ rows[evict].q # "global" /\ evict' = 0
        /\ rows' = DeleteAndReleaseLease(rows, evict)
        /\ UNCHANGED <<born, jobVars, EvictOthers, events>>
    BY <1>2 DEF EvictCommit, Refs, EvictOK
  <2>2. TableStep /\ \A j \in Jobs : Keeps(rows, rows', j)
    BY <1>a, <2>1, DeleteAndReleaseTable DEF TableStep, Refs
  <2>3. Step /\ \A j \in Jobs : Stays(j)
    BY <2>1, <2>2, ResultQuiet DEF Step, jobVars
  <2> QED BY <1>a, <2>1, <2>2, <2>3 DEF EvictOK
<1> QED BY <1>1, <1>2
-----------------------------------------------------------------------------
(* The invariant.                                                          *)

\* The initial state, with an empty table and no goroutine, satisfies IInv.
LEMMA InvInit == Init => IInv
<1> SUFFICES ASSUME Init PROVE IInv
  OBVIOUS
<1> USE DEF Init
<1>0. MaxRows \in Nat /\ 0 \in 0..MaxRows /\ MaxConns \in Nat /\ 0 \in 0..MaxConns /\ 1..0 = {}
  BY RowBound, EnvAssumption
<1>1. TableOK(rows, born)
  <2>1. (CHOOSE j \in Jobs : TRUE) \in Jobs
    BY JobNames
  <2>2. rows \in [Ids -> Row] /\ \A i \in Ids : rows[i].lease = "unborn" /\ rows[i].attempts = 0
    BY <1>0, <2>1 DEF EmptyTable, Row, Queues, Leases
  <2>3. \A i \in Ids : i > born
    BY <1>0 DEF Ids
  <2> QED BY <1>0, <2>2, <2>3 DEF TableOK
<1>2. JobsOK
  BY DEF JobsOK, Statuses
<1>3. WorkersOK /\ BatchOK
  BY <1>0 DEF WorkersOK, BatchOK
<1>4. PlaceOK
  BY <1>0 DEF PlaceOK, Placers, NoPlace, Queues
<1>5. TaskOK
  BY <1>0 DEF TaskOK, NoTask, TaskPcs, AnsweredPcs
<1>6. DrainOK
  BY <1>0 DEF DrainOK, NoDrain
<1>7. CancelOK
  BY <1>0 DEF CancelOK
<1>8. EvictOK
  BY <1>0 DEF EvictOK
<1>9. NoLostJob
  BY DEF NoLostJob
<1> QED BY <1>1, <1>2, <1>3, <1>4, <1>5, <1>6, <1>7, <1>8, <1>9 DEF IInv, Refs

\* Owed, split by the goroutine that owes the answer.
LEMMA OwedParts ==
  ASSUME NEW j \in Jobs
  PROVE  /\ Owed(j) <=> place[j].pc = "created" \/ cancel[j].pc = "settle" \/ OwesTask(j) \/ OwesDrain(j)
         /\ Owed(j)' <=> \/ place'[j].pc = "created" \/ cancel'[j].pc = "settle"
                         \/ OwesTask(j)' \/ OwesDrain(j)'
BY DEF Owed, OwesTask, OwesDrain

\* NoLostJob, restated with the names the proof uses, before and after a step.
LEMMA NoLostParts ==
  /\ NoLostJob <=> \A j \in Jobs : result[j] \in Unanswered => Owed(j) \/ Anchored(j)
  /\ NoLostJob' <=> \A j \in Jobs : result'[j] \in Unanswered => Owed(j)' \/ Anchored(j)'
BY DEF NoLostJob, Anchored, Unanswered

\* Every step preserves IInv, and an answered job stays answered.
LEMMA InvNext == IInv /\ [Next]_vars => IInv' /\ Answers
<1> SUFFICES ASSUME IInv, [Next]_vars PROVE IInv' /\ Answers
  OBVIOUS
<1>0. Refs /\ NoLostJob
  BY DEF IInv
<1>1. CASE Placement
  <2>1. /\ Step /\ PlaceOK' /\ PlaceSafe /\ JobsOK' /\ events' \in Nat
        /\ UNCHANGED <<devQ, workerVars, drainerVars, task, drain, cancel, evict>>
    BY <1>0, <1>1, PlacementStep
  <2>2. Refs'
    BY <1>0, <2>1, TaskFrame, DrainFrame, BatchFrame, CancelFrame, EvictFrame
       DEF Refs, Step, TableStep, WorkersOK, workerVars, drainerVars
  <2>3. NoLostJob'
    BY <1>0, <2>1, TaskFrame, DrainFrame, OwedParts, NoLostParts DEF PlaceSafe
  <2> QED BY <2>1, <2>2, <2>3 DEF IInv, Step
<1>2. ASSUME NEW w \in Workers, DrainStart(w) PROVE IInv' /\ Answers
  <2>1. /\ BatchOK' /\ batchConn' \in [Workers -> 0..MaxConns]
        /\ UNCHANGED <<tableVars, jobVars, devQ, workerVars, place, task, drain, cancel, evict, events>>
    BY <1>0, <1>2, DrainStartStep
  <2>2. Step /\ \A j \in Jobs : Stays(j) /\ Keeps(rows, rows', j)
    BY <1>0, <2>1, TableQuiet, ResultQuiet DEF Step, jobVars
  <2>3. Refs'
    BY <1>0, <2>1, <2>2, PlaceFrame, TaskFrame, DrainFrame, CancelFrame, EvictFrame
       DEF Refs, Step, TableStep, WorkersOK, workerVars, JobsOK, jobVars
  <2>4. NoLostJob'
    BY <1>0, <2>1, <2>2, TaskFrame, DrainFrame, AnchorFrame, OwedParts, NoLostParts DEF Stays
  <2> QED BY <2>2, <2>3, <2>4 DEF IInv, Step
<1>3. ASSUME NEW w \in Workers, NEW i \in Ids, LeaseAndDispatch(w, i) PROVE IInv' /\ Answers
  <2>1. /\ Step /\ TaskOK' /\ TaskSafe /\ BatchOK'
        /\ UNCHANGED <<jobVars, devQ, workerVars, place, batchConn, drain, cancel, evict, events>>
    BY <1>0, <1>3, LeaseStep
  <2>2. Refs'
    BY <1>0, <2>1, PlaceFrame, DrainFrame, CancelFrame, EvictFrame
       DEF Refs, Step, TableStep, WorkersOK, workerVars, JobsOK, jobVars
  <2>3. NoLostJob'
    BY <1>0, <2>1, DrainFrame, OwedParts, NoLostParts DEF TaskSafe, Stays
  <2> QED BY <2>1, <2>2, <2>3 DEF IInv, Step
<1>4. ASSUME NEW i \in Ids, Run(i) PROVE IInv' /\ Answers
  <2>1. Step /\ TaskOK' /\ TaskSafe /\ JobsOK' /\ UNCHANGED Others
    BY <1>0, <1>4, RunStep
  <2>2. Refs'
    BY <1>0, <2>1, PlaceFrame, DrainFrame, BatchFrame, CancelFrame, EvictFrame
       DEF Refs, Step, TableStep, WorkersOK, workerVars, drainerVars, Others
  <2>3. NoLostJob'
    BY <1>0, <2>1, DrainFrame, OwedParts, NoLostParts DEF TaskSafe, Stays, Others
  <2> QED BY <2>1, <2>2, <2>3 DEF IInv, Step
<1>5. ASSUME NEW w \in Workers, DrainQueue(w) PROVE IInv' /\ Answers
  <2>1. Step /\ DrainOK' /\ DrainSafe /\ JobsOK' /\ devQ' \subseteq Workers /\ UNCHANGED DrainOthers
    BY <1>0, <1>5, DrainQueueStep
  <2>2. Refs'
    BY <1>0, <2>1, PlaceFrame, TaskFrame, BatchFrame, CancelFrame, EvictFrame
       DEF Refs, Step, TableStep, WorkersOK, workerVars, drainerVars, DrainOthers
  <2>3. NoLostJob'
    BY <1>0, <2>1, TaskFrame, OwedParts, NoLostParts DEF DrainSafe, Stays, DrainOthers
  <2> QED BY <2>1, <2>2, <2>3 DEF IInv, Step
<1>6. ASSUME NEW w \in Workers, Worker(w) PROVE IInv' /\ Answers
  <2>1. Step /\ DrainOK' /\ DrainSafe /\ WorkersOK' /\ UNCHANGED Sched
    BY <1>0, <1>6, WorkerStep
  <2>2. Refs'
    BY <1>0, <2>1, PlaceFrame, TaskFrame, BatchFrame, CancelFrame, EvictFrame
       DEF Refs, Step, TableStep, JobsOK, jobVars, drainerVars, Sched
  <2>3. NoLostJob'
    BY <1>0, <2>1, TaskFrame, OwedParts, NoLostParts DEF DrainSafe, Stays, Sched
  <2> QED BY <2>1, <2>2, <2>3 DEF IInv, Step
<1>7. ASSUME NEW j \in Jobs, Cancel(j) PROVE IInv' /\ Answers
  <2>1. Step /\ CancelOK' /\ CancelSafe /\ JobsOK' /\ UNCHANGED CancelOthers
    BY <1>0, <1>7, CancelStep
  <2>2. Refs'
    BY <1>0, <2>1, PlaceFrame, TaskFrame, DrainFrame, BatchFrame, EvictFrame
       DEF Refs, Step, TableStep, WorkersOK, workerVars, drainerVars, CancelOthers
  <2>3. NoLostJob'
    BY <1>0, <2>1, TaskFrame, DrainFrame, OwedParts, NoLostParts DEF CancelSafe, Stays, CancelOthers
  <2> QED BY <2>1, <2>2, <2>3 DEF IInv, Step
<1>8. CASE (\E i \in Ids : EvictFind(i)) \/ EvictCommit
  <2>1. /\ Step /\ EvictOK' /\ events' \in Nat /\ UNCHANGED <<jobVars, EvictOthers>>
        /\ \A j \in Jobs : Stays(j) /\ Keeps(rows, rows', j)
    BY <1>0, <1>8, EvictStep
  <2>2. Refs'
    BY <1>0, <2>1, PlaceFrame, TaskFrame, DrainFrame, BatchFrame, CancelFrame
       DEF Refs, Step, TableStep, WorkersOK, workerVars, drainerVars, JobsOK, jobVars, EvictOthers
  <2>3. NoLostJob'
    BY <1>0, <2>1, TaskFrame, DrainFrame, AnchorFrame, OwedParts, NoLostParts DEF Stays, EvictOthers
  <2> QED BY <2>1, <2>2, <2>3 DEF IInv, Step
<1>9. CASE UNCHANGED vars
  <2>1. /\ UNCHANGED tableVars /\ UNCHANGED jobVars
        /\ UNCHANGED <<devQ, workerVars, place, drainerVars, task, drain, cancel, evict, events>>
    BY <1>9 DEF vars
  <2>2. Step /\ \A j \in Jobs : Stays(j) /\ Keeps(rows, rows', j)
    BY <1>0, <2>1, TableQuiet, ResultQuiet DEF Step, jobVars
  <2>3. Refs'
    BY <1>0, <2>1, <2>2, PlaceFrame, TaskFrame, DrainFrame, BatchFrame, CancelFrame, EvictFrame
       DEF Refs, Step, TableStep, WorkersOK, workerVars, drainerVars, JobsOK, jobVars
  <2>4. NoLostJob'
    BY <1>0, <2>1, <2>2, TaskFrame, DrainFrame, AnchorFrame, OwedParts, NoLostParts DEF Stays
  <2> QED BY <2>2, <2>3, <2>4 DEF IInv, Step
<1> QED
  BY <1>1, <1>2, <1>3, <1>4, <1>5, <1>6, <1>7, <1>8, <1>9 DEF Next

\* The inductive invariant implies the type invariant and NoLostJob.
LEMMA InvTypes == IInv => TypeOK /\ NoLostJob
BY DEF IInv, Refs, TableOK, JobsOK, Statuses, WorkersOK, BatchOK, PlaceOK, Placers, TaskOK, DrainOK,
       CancelOK, EvictOK, TypeOK

\* Every reachable state is well typed, and what a goroutine knows of the row it
\* works on (that it exists, its job, its queue, that it is answered) is true of it.
THEOREM DispatchInvariant == Spec => []IInv
<1>1. Init => IInv
  BY InvInit
<1>2. IInv /\ [Next]_vars => IInv'
  BY InvNext
<1> QED BY <1>1, <1>2, PTL DEF Spec

\* Type correctness of the dispatch state.
THEOREM DispatchTypes == Spec => []TypeOK
<1>1. IInv => TypeOK
  BY InvTypes
<1> QED BY <1>1, DispatchInvariant, PTL

\* No accepted job is lost, whatever placements, drains, steals, evictions,
\* cancellations and failed loads race each other, and with any number of workers.
THEOREM JobsAreKept == Spec => []NoLostJob
<1>1. IInv => NoLostJob
  BY DEF IInv
<1> QED BY <1>1, DispatchInvariant, PTL

\* No racing write turns an answered job back into a live one.
THEOREM AnswersAreFinal == Spec => AnswerStays
<1>1. IInv /\ [Next]_vars => [\A j \in Jobs : result[j] \in Terminal => result'[j] \in Terminal]_vars
  BY InvNext DEF Answers
<1> QED BY <1>1, DispatchInvariant, PTL DEF Spec, AnswerStays
-----------------------------------------------------------------------------
(* No map entry without a goroutine.  The one step that replaces a task is *)
(* the lease that starts a dispatch, so the invariant says that a row with *)
(* a task can not be leased again: it is held, leased or gone, until its   *)
(* own goroutine is through with it.  Two transactions make a leased row   *)
(* visible again.  One defers the row of the goroutine that runs it; the   *)
(* other releases an anchor, which is never a worker's row.                *)

Held(t, i) == t[i].q # "global" /\ t[i].lease \in {"leased", "gone"}
HeldKept(t, u) == \A i \in Ids : Held(t, i) => Held(u, i)
AnchorsGlobal(t, b) == \A i \in 1..b : t[i].anchor # 0 => t[t[i].anchor].q = "global"

TasksHeld   == \A i \in Ids : task[i].pc # "none" => Held(rows, i)
PlaceGlobal == \A p \in Placers : place[p].pc \in {"pick", "commit"} => rows[place[p].row].q = "global"

\* What keeps NoLeakedEntry.
LeakInv == TasksHeld /\ AnchorsGlobal(rows, born) /\ PlaceGlobal /\ NoLeakedEntry

MarkerPcs == InDispatch \ {"lookup", "discard", "gate"}

\* A new row holds nobody's place, and its anchor is a global row.
LEMMA HeldSubmit ==
  ASSUME NEW t, NEW b, TableOK(t, b), AnchorsGlobal(t, b), b < MaxRows,
         NEW q \in Queues, NEW j \in Jobs, NEW n \in Nat, NEW a \in 0..MaxRows,
         a # 0 => a \in 1..b /\ t[a].q = "global"
  PROVE  LET u == Submit(t, b + 1, q, j, a, n) IN HeldKept(t, u) /\ AnchorsGlobal(u, b + 1)
<1> DEFINE u == Submit(t, b + 1, q, j, a, n)
<1>1. b \in 0..MaxRows /\ b + 1 \in Ids /\ MaxRows \in Nat /\ 1..b \subseteq Ids
  BY RowBound DEF TableOK, Ids
<1>2. \A i \in Ids : u[i] = IF i = b + 1
                            THEN [q |-> q, job |-> j, anchor |-> a, attempts |-> n, lease |-> "free"]
                            ELSE t[i]
  BY <1>1 DEF TableOK, Submit
<1> HIDE DEF u
<1>3. HeldKept(t, u)
  <2>1. t[b + 1].lease = "unborn"
    BY <1>1 DEF TableOK
  <2> QED BY <1>2, <2>1 DEF HeldKept, Held
<1>4. \A i \in 1..b : i \in Ids /\ u[i] = t[i]
  BY <1>1, <1>2
<1>5. AnchorsGlobal(u, b + 1)
  <2> SUFFICES ASSUME NEW i \in 1..(b + 1), u[i].anchor # 0
               PROVE  u[u[i].anchor].q = "global"
    BY DEF AnchorsGlobal
  <2>1. CASE i = b + 1
    BY <2>1, <1>1, <1>2, <1>4
  <2>2. CASE i \in 1..b
    BY <2>2, <1>1, <1>4 DEF TableOK, AnchorsGlobal
  <2> QED BY <2>1, <2>2, <1>1
<1> QED BY <1>3, <1>5 DEF u

\* A table whose born rows keep their identity keeps global anchors.
LEMMA SameAnchors ==
  ASSUME NEW t, NEW u, NEW b, TableOK(t, b), AnchorsGlobal(t, b), Same(t, b, u)
  PROVE  AnchorsGlobal(u, b)
BY DEF TableOK, AnchorsGlobal, Same

\* A deleted row is still held.
LEMMA HeldDelete ==
  ASSUME NEW t, NEW b, TableOK(t, b), NEW S
  PROVE  HeldKept(t, Delete(t, S))
BY DEF TableOK, Row, Delete, HeldKept, Held

\* Releasing a global row takes no worker row from its goroutine.
LEMMA HeldRelease ==
  ASSUME NEW t, NEW b, TableOK(t, b), NEW k, k \in Ids => t[k].q = "global"
  PROVE  HeldKept(t, ReleaseLease(t, k))
BY DEF TableOK, Row, ReleaseLease, HeldKept, Held

\* Leasing or releasing a row that nobody holds.
LEMMA HeldRelet ==
  ASSUME NEW t, NEW b, TableOK(t, b), NEW i \in Ids, NEW l,
         t[i].lease \in {"free", "deferred"}
  PROVE  HeldKept(t, Relet(t, i, l))
<1>1. \A k \in Ids : k # i => Relet(t, i, l)[k] = t[k]
  BY DEF TableOK, Relet
<1> QED BY <1>1 DEF HeldKept, Held

\* DeleteAndReleaseLease releases an anchor, never a held row.
LEMMA HeldDeleteAndRelease ==
  ASSUME NEW t, NEW b, TableOK(t, b), AnchorsGlobal(t, b), NEW i \in 1..b
  PROVE  HeldKept(t, DeleteAndReleaseLease(t, i))
<1> DEFINE d == Delete(t, {i})
           u == ReleaseLease(d, t[i].anchor)
<1>1. TableOK(d, b) /\ Same(t, b, d)
  BY DeleteTable
<1>2. HeldKept(t, d)
  BY HeldDelete
<1>3. t[i].anchor \in Ids => d[t[i].anchor].q = "global"
  <2> HIDE DEF d
  <2>1. t[i].anchor \in Ids => t[i].anchor \in 1..b /\ t[t[i].anchor].q = "global"
    BY RowBound DEF TableOK, AnchorsGlobal, Ids
  <2> QED BY <1>1, <2>1 DEF Same
<1>4. HeldKept(d, u)
  BY <1>1, <1>3, HeldRelease
<1> QED BY <1>2, <1>4 DEF HeldKept, DeleteAndReleaseLease

\* LeaseAndSubmit leases the global row it hands on.
LEMMA HeldLeaseAndSubmit ==
  ASSUME NEW t, NEW b, TableOK(t, b), AnchorsGlobal(t, b), b < MaxRows, NEW i \in 1..b,
         Visible(t, i), t[i].q = "global", NEW q \in Queues
  PROVE  LET u == LeaseAndSubmit(t, i, b + 1, q) IN HeldKept(t, u) /\ AnchorsGlobal(u, b + 1)
<1> DEFINE d == LeaseByID(t, i)
           u == Submit(d, b + 1, q, t[i].job, i, t[i].attempts)
<1>0. i \in Ids /\ i \in 0..MaxRows /\ t[i] \in Row
  BY RowBound DEF TableOK, Ids
<1>1. TableOK(d, b) /\ Same(t, b, d)
  BY LeaseTable DEF LeaseByID, Relet, Visible, Live
<1>2. HeldKept(t, d)
  BY <1>0, HeldRelet DEF LeaseByID, Relet, Visible
<1>3. AnchorsGlobal(d, b) /\ d[i].q = "global"
  BY <1>1, SameAnchors DEF Same
<1>4. HeldKept(d, u) /\ AnchorsGlobal(u, b + 1)
  BY <1>0, <1>1, <1>3, HeldSubmit DEF Row
<1> QED BY <1>2, <1>4 DEF HeldKept, LeaseAndSubmit

\* MoveTo hands on the anchor of the row it moves.
LEMMA HeldMoveTo ==
  ASSUME NEW t, NEW b, TableOK(t, b), AnchorsGlobal(t, b), b < MaxRows, NEW i \in 1..b,
         NEW q \in Queues
  PROVE  LET u == MoveTo(t, i, b + 1, q) IN HeldKept(t, u) /\ AnchorsGlobal(u, b + 1)
<1> DEFINE d == Delete(t, {i})
           u == Submit(d, b + 1, q, t[i].job, t[i].anchor, t[i].attempts)
<1>0. i \in Ids /\ t[i] \in Row
  BY RowBound DEF TableOK, Ids
<1>1. TableOK(d, b) /\ Same(t, b, d)
  BY DeleteTable
<1>2. HeldKept(t, d)
  BY HeldDelete
<1>3. AnchorsGlobal(d, b) /\ (t[i].anchor # 0 => t[i].anchor \in 1..b /\ d[t[i].anchor].q = "global")
  <2> HIDE DEF d
  <2>1. AnchorsGlobal(d, b)
    BY <1>1, SameAnchors
  <2>2. t[i].anchor # 0 => t[i].anchor \in 1..b /\ t[t[i].anchor].q = "global"
    BY DEF TableOK, AnchorsGlobal
  <2> QED BY <1>1, <2>1, <2>2 DEF Same
<1>4. HeldKept(d, u) /\ AnchorsGlobal(u, b + 1)
  BY <1>0, <1>1, <1>3, HeldSubmit DEF Row
<1> QED BY <1>2, <1>4 DEF HeldKept, MoveTo

\* A step that moves no goroutine of a dispatch, empties no entry's owner and fills no
\* empty entry leaks nothing.
LEMMA LeakFrame ==
  ASSUME Refs, Step, LeakInv, HeldKept(rows, rows'), AnchorsGlobal(rows', born'), PlaceGlobal',
         task' = task,
         \A j \in Jobs : inflight'[j] # "none" => inflight[j] # "none",
         \A j \in Jobs : marker'[j] # "none" => marker[j] # "none"
  PROVE  LeakInv'
<1>1. \A i \in Ids : task[i].pc # "none" => JobOf(i)' = JobOf(i)
  BY Stable DEF Refs, TaskOK
<1>2. "none" \notin InflightPcs /\ "none" \notin InDispatch
  BY DEF InflightPcs, InDispatch
<1>3. TasksHeld'
  BY DEF LeakInv, TasksHeld, HeldKept
<1>4. NoLeakedEntry'
  BY <1>1, <1>2 DEF LeakInv, NoLeakedEntry
<1> QED BY <1>3, <1>4 DEF LeakInv

\* The placers' rows stay global while the placers stay.
LEMMA PlaceGlobalFrame ==
  ASSUME Refs, Step, PlaceGlobal, place' = place
  PROVE  PlaceGlobal'
BY Stable DEF Refs, PlaceOK, PlaceGlobal

\* Placing, failing and stealing rows leaks nothing.
LEMMA LeakPlacement ==
  ASSUME Refs, LeakInv, Placement
  PROVE  LeakInv'
<1>0. /\ Step /\ PlaceOK' /\ PlaceOK /\ TableOK(rows, born) /\ AnchorsGlobal(rows, born)
      /\ UNCHANGED <<task, marker, inflight>>
  <2>1. Step /\ PlaceOK' /\ UNCHANGED task
    BY PlacementStep
  <2>2. UNCHANGED <<marker, inflight>>
    BY DEF Placement, SubmitCreate, SubmitEnqueue, SubmitPick, PlaceCommit, DispatcherPick,
           Unbenchable, FailUnbenchable, DeleteUnbenchable, StealPick, StealCommit, jobVars
  <2> QED BY <2>1, <2>2 DEF Refs, LeakInv
<1>a. born \in Nat /\ (Room => born < MaxRows) /\ Next1 = born + 1 /\ "global" \in Queues /\ 0 \in 0..MaxRows
  BY <1>0, RowBound DEF TableOK, Room, Next1, Queues
<1>b. \A i \in 1..born : i \in Ids /\ rows'[i].q = rows[i].q
  BY <1>0, BornIds, Stable
<1>c. SUFFICES HeldKept(rows, rows') /\ AnchorsGlobal(rows', born') /\ PlaceGlobal'
  BY <1>0, LeakFrame
<1>d. ASSUME UNCHANGED tableVars
      PROVE  HeldKept(rows, rows') /\ AnchorsGlobal(rows', born')
  BY <1>0, <1>d DEF HeldKept, tableVars
\* A placer with a new pc and row, the others as before.
<1>e. ASSUME NEW p \in Placers, \A x \in Placers : x # p => place'[x] = place[x],
             place'[p].pc \in {"pick", "commit"} => rows'[place'[p].row].q = "global"
      PROVE  PlaceGlobal'
  BY <1>b, <1>e DEF LeakInv, PlaceGlobal, Refs, PlaceOK
<1>f. "dispatcher" \in Placers /\ Jobs \subseteq Placers
  BY DEF Placers
<1>1. ASSUME NEW j \in Jobs, SubmitCreate(j) \/ SubmitPick(j)
      PROVE  HeldKept(rows, rows') /\ AnchorsGlobal(rows', born') /\ PlaceGlobal'
  <2>1. UNCHANGED tableVars
    BY <1>1 DEF SubmitCreate, SubmitPick
  <2>2. \A x \in Placers : x # j => place'[x] = place[x]
    BY <1>0, <1>1, <1>f DEF SubmitCreate, SubmitPick, PlaceOK
  <2>3. ASSUME place'[j].pc \in {"pick", "commit"} PROVE rows'[place'[j].row].q = "global"
    <3>1. place[j].pc = "pick" /\ place'[j].row = place[j].row
      BY <1>0, <1>1, <1>f, <2>3 DEF SubmitCreate, SubmitPick, PlaceOK, NoPlace
    <3> QED BY <2>1, <3>1, <1>f DEF tableVars, LeakInv, PlaceGlobal
  <2> QED BY <1>d, <1>e, <1>f, <2>1, <2>2, <2>3
<1>2. ASSUME NEW j \in Jobs, SubmitEnqueue(j)
      PROVE  HeldKept(rows, rows') /\ AnchorsGlobal(rows', born') /\ PlaceGlobal'
  <2>1. /\ born < MaxRows /\ rows' = Submit(rows, born + 1, "global", j, 0, 0) /\ born' = born + 1
        /\ place' = [place EXCEPT ![j].pc = "pick", ![j].row = born + 1]
    BY <1>2, <1>a DEF SubmitEnqueue
  <2>2. HeldKept(rows, rows') /\ AnchorsGlobal(rows', born')
    BY <1>0, <1>a, <2>1, HeldSubmit
  <2>3. rows'[born + 1].q = "global"
    BY <1>0, <1>a, <2>1, SubmitTable
  <2>4. /\ \A x \in Placers : x # j => place'[x] = place[x]
        /\ place'[j].row = born + 1
    BY <1>0, <1>f, <2>1 DEF PlaceOK
  <2> QED BY <1>e, <1>f, <2>2, <2>3, <2>4
<1>3. ASSUME NEW p \in Placers, PlaceCommit(p)
      PROVE  HeldKept(rows, rows') /\ AnchorsGlobal(rows', born') /\ PlaceGlobal'
  <2> DEFINE i == place[p].row
             q == place[p].target
  <2>1. /\ i \in 1..born /\ q \in Queues /\ rows[i].q = "global"
    BY <1>0, <1>3 DEF PlaceCommit, PlaceOK, LeakInv, PlaceGlobal
  <2>2. \/ UNCHANGED tableVars
        \/ Visible(rows, i) /\ born < MaxRows /\ rows' = LeaseAndSubmit(rows, i, born + 1, q)
           /\ born' = born + 1
    BY <1>3, <1>a DEF PlaceCommit
  <2>3. /\ \A x \in Placers : x # p => place'[x] = place[x]
        /\ place'[p].pc \in {"idle", "done"}
    BY <1>0, <1>3 DEF PlaceCommit, PlaceOK, NoPlace
  <2> HIDE DEF i, q
  <2>4. HeldKept(rows, rows') /\ AnchorsGlobal(rows', born')
    BY <1>0, <1>d, <2>1, <2>2, HeldLeaseAndSubmit
  <2> QED BY <1>e, <2>3, <2>4
<1>4. ASSUME NEW i \in Ids, DispatcherPick(i) \/ Unbenchable(i) \/ (\E w \in Workers : StealPick(i, w))
      PROVE  HeldKept(rows, rows') /\ AnchorsGlobal(rows', born') /\ PlaceGlobal'
  <2>1. UNCHANGED tableVars
    BY <1>4 DEF DispatcherPick, Unbenchable, StealPick
  <2>2. /\ \A x \in Placers : x # "dispatcher" => place'[x] = place[x]
        /\ \/ place'["dispatcher"].pc \notin {"pick", "commit"}
           \/ rows[i].q = "global" /\ place'["dispatcher"].row = i
    <3>1. CASE DispatcherPick(i)
      BY <1>0, <1>f, <3>1 DEF DispatcherPick, Peek, PlaceOK
    <3>2. CASE Unbenchable(i)
      BY <1>0, <1>f, <3>2 DEF Unbenchable, PlaceOK, NoPlace
    <3>3. ASSUME NEW w \in Workers, StealPick(i, w)
          PROVE  /\ \A x \in Placers : x # "dispatcher" => place'[x] = place[x]
                 /\ place'["dispatcher"].pc \notin {"pick", "commit"}
      BY <1>0, <1>f, <3>3 DEF StealPick, PlaceOK
    <3> QED BY <1>4, <3>1, <3>2, <3>3
  <2> QED BY <1>d, <1>e, <1>f, <2>1, <2>2 DEF tableVars
<1>5. CASE FailUnbenchable
  <2>1. UNCHANGED tableVars /\ place' = [place EXCEPT !["dispatcher"].pc = "delete"]
    BY <1>5 DEF FailUnbenchable
  <2> QED BY <1>0, <1>d, <1>e, <1>f, <2>1 DEF PlaceOK
<1>6. CASE DeleteUnbenchable
  <2>1. /\ rows' = Delete(rows, {place["dispatcher"].row}) /\ born' = born
        /\ place' = [place EXCEPT !["dispatcher"] = NoPlace]
    BY <1>6 DEF DeleteUnbenchable
  <2>2. HeldKept(rows, rows')
    BY <1>0, <2>1, HeldDelete
  <2>3. AnchorsGlobal(rows', born')
    BY <1>0, <2>1, SameAnchors DEF Step, TableStep
  <2> QED BY <1>0, <1>e, <1>f, <2>1, <2>2, <2>3 DEF PlaceOK, NoPlace
<1>7. CASE StealCommit
  <2> DEFINE i == place["dispatcher"].row
             q == place["dispatcher"].target
  <2>1. i \in 1..born /\ q \in Queues
    BY <1>0, <1>7, <1>f DEF StealCommit, PlaceOK
  <2>2. \/ UNCHANGED tableVars
        \/ born < MaxRows /\ rows' = MoveTo(rows, i, born + 1, q) /\ born' = born + 1
    BY <1>7, <1>a DEF StealCommit
  <2>3. place' = [place EXCEPT !["dispatcher"] = NoPlace]
    BY <1>7 DEF StealCommit
  <2> HIDE DEF i, q
  <2>4. HeldKept(rows, rows') /\ AnchorsGlobal(rows', born')
    BY <1>0, <1>d, <2>1, <2>2, HeldMoveTo
  <2> QED BY <1>0, <1>e, <1>f, <2>3, <2>4 DEF PlaceOK, NoPlace
<1> QED BY <1>1, <1>2, <1>3, <1>4, <1>5, <1>6, <1>7 DEF Placement, Placers

\* A drain of a lost or disabled worker deletes, releases anchors and resubmits.
LEMMA LeakDrain ==
  ASSUME Refs, LeakInv, NEW w \in Workers, DrainQueue(w)
  PROVE  LeakInv'
<1> DEFINE i == drain[w].row
<1>0. /\ Step /\ DrainOK /\ TableOK(rows, born) /\ AnchorsGlobal(rows, born) /\ JobsOK
      /\ UNCHANGED <<task, place, marker, inflight>>
  <2>1. Step /\ UNCHANGED DrainOthers
    BY DrainQueueStep
  <2>2. UNCHANGED <<marker, inflight>>
    BY DEF DrainQueue, DrainPeek, DrainCheck, DrainDrop, DrainRelease, DrainExhausted, DrainRequeue,
           DrainResubmit, DrainRevert, DrainEnd, jobVars
  <2> QED BY <2>1, <2>2 DEF Refs, LeakInv, DrainOthers
<1>a. born \in Nat /\ "global" \in Queues /\ 0 \in 0..MaxRows
  BY <1>0, RowBound DEF TableOK, Queues
<1>1. PlaceGlobal'
  BY <1>0, PlaceGlobalFrame DEF LeakInv
<1>2. SUFFICES HeldKept(rows, rows') /\ AnchorsGlobal(rows', born')
  BY <1>0, <1>1, LeakFrame
<1>3. CASE UNCHANGED tableVars
  BY <1>0, <1>3 DEF HeldKept, tableVars
<1>4. CASE DrainDrop(w) \/ DrainRequeue(w)
  <2>1. rows' = DeleteBoth(rows, i) /\ born' = born
    BY <1>4 DEF DrainDrop, DrainRequeue
  <2> HIDE DEF i
  <2> QED BY <1>0, <2>1, HeldDelete, SameAnchors DEF DeleteBoth, Step, TableStep
<1>5. CASE DrainRelease(w)
  <2>1. rows' = DeleteAndReleaseLease(rows, i) /\ born' = born /\ i \in 1..born
    BY <1>0, <1>5 DEF DrainRelease, DrainOK
  <2> HIDE DEF i
  <2> QED BY <1>0, <2>1, HeldDeleteAndRelease, SameAnchors DEF Step, TableStep
<1>6. CASE DrainResubmit(w)
  <2> DEFINE j == InDrain(w)
             n == rows[i].attempts + 1
  <2>1. /\ born < MaxRows /\ rows' = Submit(rows, born + 1, "global", j, 0, n) /\ born' = born + 1
        /\ i \in 1..born
    BY <1>0, <1>6, <1>a, RowBound DEF DrainResubmit, DrainOK, Room, Next1, TableOK
  <2>2. j \in Jobs /\ n \in Nat
    BY <2>1, BornIds DEF Refs, TableOK, Row, InDrain
  <2> HIDE DEF i, j, n
  <2> QED BY <1>0, <1>a, <2>1, <2>2, HeldSubmit
<1>7. \/ UNCHANGED tableVars \/ DrainDrop(w) \/ DrainRequeue(w) \/ DrainRelease(w) \/ DrainResubmit(w)
  BY DEF DrainQueue, DrainPeek, DrainCheck, DrainExhausted, DrainRevert, DrainEnd
<1> QED BY <1>3, <1>4, <1>5, <1>6, <1>7

\* A cancel deletes rows, and changes only entries that exist.
LEMMA LeakCancel ==
  ASSUME Refs, LeakInv, NEW j \in Jobs, Cancel(j)
  PROVE  LeakInv'
<1>0. /\ Step /\ TableOK(rows, born) /\ AnchorsGlobal(rows, born) /\ JobsOK
      /\ UNCHANGED <<task, place>>
  <2>1. Step /\ UNCHANGED CancelOthers
    BY CancelStep
  <2> QED BY <2>1 DEF Refs, LeakInv, CancelOthers
<1>1. PlaceGlobal'
  BY <1>0, PlaceGlobalFrame DEF LeakInv
<1>2. HeldKept(rows, rows') /\ AnchorsGlobal(rows', born')
  <2>1. CASE UNCHANGED tableVars
    BY <1>0, <2>1 DEF HeldKept, tableVars
  <2>2. CASE CancelDelete(j)
    <3>1. rows' = DeleteBoth(rows, cancel[j].row) /\ born' = born
      BY <2>2 DEF CancelDelete
    <3> QED BY <1>0, <3>1, HeldDelete, SameAnchors DEF DeleteBoth, Step, TableStep
  <2>3. UNCHANGED tableVars \/ CancelDelete(j)
    BY DEF Cancel, CancelStart, CancelRow, CancelScanGlobal, CancelScanWorkers, CancelScan,
           CancelConfirm, CancelSettle, CancelMarker, CancelRunning
  <2> QED BY <2>1, <2>2, <2>3
<1>3. /\ \A k \in Jobs : inflight'[k] # "none" => inflight[k] # "none"
      /\ \A k \in Jobs : marker'[k] # "none" => marker[k] # "none"
  <2>1. CASE UNCHANGED <<marker, inflight>>
    BY <2>1
  <2>2. CASE CancelMarker(j)
    BY <1>0, <2>2 DEF CancelMarker, JobsOK
  <2>3. CASE CancelRunning(j)
    BY <1>0, <2>3 DEF CancelRunning, JobsOK
  <2>4. UNCHANGED <<marker, inflight>> \/ CancelMarker(j) \/ CancelRunning(j)
    BY DEF Cancel, CancelStart, CancelRow, CancelScanGlobal, CancelScanWorkers, CancelScan,
           CancelConfirm, CancelDelete, CancelSettle, jobVars
  <2> QED BY <2>1, <2>2, <2>3, <2>4
<1> QED BY <1>0, <1>1, <1>2, <1>3, LeakFrame

\* An eviction releases an anchor.
LEMMA LeakEvict ==
  ASSUME Refs, LeakInv, (\E i \in Ids : EvictFind(i)) \/ EvictCommit
  PROVE  LeakInv'
<1>0. /\ Step /\ TableOK(rows, born) /\ AnchorsGlobal(rows, born) /\ EvictOK
      /\ UNCHANGED <<task, place, marker, inflight>>
  <2>1. Step /\ UNCHANGED <<jobVars, EvictOthers>>
    BY EvictStep
  <2> QED BY <2>1 DEF Refs, LeakInv, EvictOthers, jobVars
<1>1. PlaceGlobal'
  BY <1>0, PlaceGlobalFrame DEF LeakInv
<1>2. HeldKept(rows, rows') /\ AnchorsGlobal(rows', born')
  <2>1. CASE UNCHANGED tableVars
    BY <1>0, <2>1 DEF HeldKept, tableVars
  <2>2. CASE EvictCommit
    <3>1. rows' = DeleteAndReleaseLease(rows, evict) /\ born' = born /\ evict \in 1..born
      BY <1>0, <2>2 DEF EvictCommit, EvictOK
    <3> QED BY <1>0, <3>1, HeldDeleteAndRelease, SameAnchors DEF Step, TableStep
  <2> QED BY <2>1, <2>2 DEF EvictFind
<1> QED BY <1>0, <1>1, <1>2, LeakFrame

\* A goroutine of a dispatch that moves leaks nothing when it leaves the pcs that own
\* an entry of its job only with the entry gone.
LEMMA LeakMove ==
  ASSUME Refs, Step, LeakInv, HeldKept(rows, rows'), AnchorsGlobal(rows', born'), PlaceGlobal',
         NEW i \in 1..born, \A k \in Ids : k # i => task'[k] = task[k],
         task'[i].pc # "none" => Held(rows', i),
         \A j \in Jobs : j # JobOf(i) => inflight'[j] = inflight[j] /\ marker'[j] = marker[j],
         \/ inflight'[JobOf(i)] = "none" \/ task'[i].pc \in InflightPcs
         \/ task[i].pc \notin InflightPcs /\ inflight'[JobOf(i)] = inflight[JobOf(i)],
         \/ marker'[JobOf(i)] = "none" \/ task'[i].pc \in MarkerPcs
         \/ task[i].pc \notin MarkerPcs /\ marker'[JobOf(i)] = marker[JobOf(i)]
  PROVE  LeakInv'
<1>1. i \in Ids /\ JobOf(i)' = JobOf(i) /\ \A k \in Ids : task[k].pc # "none" => JobOf(k)' = JobOf(k)
  BY BornIds, Stable DEF Refs, TaskOK
<1>2. "none" \notin InflightPcs /\ "none" \notin MarkerPcs
  BY DEF InflightPcs, MarkerPcs, InDispatch
<1>3. TasksHeld'
  BY <1>1 DEF LeakInv, TasksHeld, HeldKept
<1>4. ASSUME NEW j \in Jobs, inflight'[j] # "none"
      PROVE  \E k \in Ids : JobOf(k)' = j /\ task'[k].pc \in InflightPcs
  <2>1. CASE j = JobOf(i) /\ task'[i].pc \in InflightPcs
    BY <1>1, <2>1
  <2>2. CASE ~(j = JobOf(i) /\ task'[i].pc \in InflightPcs)
    <3>1. inflight'[j] = inflight[j] /\ (j = JobOf(i) => task[i].pc \notin InflightPcs)
      BY <1>4, <2>2
    <3>2. PICK k \in Ids : JobOf(k) = j /\ task[k].pc \in InflightPcs
      BY <1>4, <3>1 DEF LeakInv, NoLeakedEntry
    <3> QED BY <1>1, <1>2, <3>1, <3>2
  <2> QED BY <2>1, <2>2
<1>5. ASSUME NEW j \in Jobs, marker'[j] # "none"
      PROVE  \E k \in Ids : JobOf(k)' = j /\ task'[k].pc \in MarkerPcs
  <2>1. CASE j = JobOf(i) /\ task'[i].pc \in MarkerPcs
    BY <1>1, <2>1
  <2>2. CASE ~(j = JobOf(i) /\ task'[i].pc \in MarkerPcs)
    <3>1. marker'[j] = marker[j] /\ (j = JobOf(i) => task[i].pc \notin MarkerPcs)
      BY <1>5, <2>2
    <3>2. PICK k \in Ids : JobOf(k) = j /\ task[k].pc \in MarkerPcs
      BY <1>5, <3>1 DEF LeakInv, NoLeakedEntry, MarkerPcs
    <3> QED BY <1>1, <1>2, <3>1, <3>2
  <2> QED BY <2>1, <2>2
<1>6. NoLeakedEntry'
  BY <1>4, <1>5 DEF NoLeakedEntry, MarkerPcs
<1> QED BY <1>3, <1>6 DEF LeakInv

\* A drainer starts a dispatch only for a row that has none.
LEMMA LeakLease ==
  ASSUME Refs, LeakInv, NEW w \in Workers, NEW i \in Ids, LeaseAndDispatch(w, i)
  PROVE  LeakInv'
<1>0. /\ Step /\ TableOK(rows, born) /\ AnchorsGlobal(rows, born) /\ BatchOK /\ TaskOK
      /\ UNCHANGED <<born, place, marker, inflight>>
  <2>1. Step /\ UNCHANGED <<jobVars, place>>
    BY LeaseStep
  <2>2. born' = born
    BY DEF LeaseAndDispatch
  <2> QED BY <2>1, <2>2 DEF Refs, LeakInv, jobVars
<1>1. PlaceGlobal' /\ AnchorsGlobal(rows', born')
  BY <1>0, PlaceGlobalFrame, SameAnchors DEF LeakInv, Step, TableStep
<1>2. CASE Visible(rows, i)
  <2> DEFINE r == [NoTask EXCEPT !.pc = "lookup", !.conn = batchConn[w]]
  <2>1. /\ rows' = LeaseByID(rows, i) /\ task' = [task EXCEPT ![i] = r] /\ r.pc = "lookup"
        /\ i \in 1..born /\ rows[i].q = w
    BY <1>0, <1>2 DEF LeaseAndDispatch, NoTask, BatchOK
  <2> HIDE DEF r
  <2>2. HeldKept(rows, rows')
    <3>1. rows' = Relet(rows, i, "leased") /\ rows[i].lease = "free"
      BY <1>2, <2>1 DEF LeaseByID, Relet, Visible
    <3> QED BY <1>0, <3>1, HeldRelet
  <2>3. Held(rows', i)
    BY <1>0, <2>1, QueueNames DEF LeaseByID, TableOK, Row, Held
  <2>4. task[i].pc = "none"
    BY <1>2 DEF LeakInv, TasksHeld, Held, Visible
  <2>5. (\A k \in Ids : k # i => task'[k] = task[k]) /\ task'[i].pc = "lookup"
    BY <1>0, <2>1 DEF TaskOK
  <2>6. "none" \notin InflightPcs /\ "none" \notin MarkerPcs
    BY DEF InflightPcs, MarkerPcs, InDispatch
  <2> QED BY <1>0, <1>1, <2>1, <2>2, <2>3, <2>4, <2>5, <2>6, LeakMove
<1>3. CASE ~Visible(rows, i)
  <2>1. rows' = rows /\ task' = task
    BY <1>3 DEF LeaseAndDispatch
  <2> QED BY <1>0, <1>1, <2>1, LeakFrame DEF HeldKept
<1> QED BY <1>2, <1>3

\* What a step of dispatch i does to the tasks and to the entries of its job.
Moves(i, pc) ==
  /\ \A k \in Ids : task'[k].pc = (IF k = i THEN pc ELSE task[k].pc)
  /\ \A k \in Ids : k # i => task'[k] = task[k]

\* A goroutine that goes on, or ends, moves its own task only.
LEMMA TaskMoves ==
  ASSUME TaskOK, NEW i \in Ids, NEW pc
  PROVE  /\ Goto(i, pc) => Moves(i, pc)
         /\ Finish(i) => Moves(i, "none")
BY DEF TaskOK, Goto, Finish, Moves, NoTask

\* Every step of a dispatch leaks nothing.
LEMMA LeakRun ==
  ASSUME Refs, LeakInv, NEW i \in Ids, Run(i)
  PROVE  LeakInv'
<1> DEFINE j == JobOf(i)
<1>0. /\ Step /\ TableOK(rows, born) /\ AnchorsGlobal(rows, born) /\ TaskOK /\ JobsOK
      /\ UNCHANGED place
  <2>1. Step /\ UNCHANGED Others
    BY RunStep
  <2> QED BY <2>1 DEF Refs, LeakInv, Others
<1>a. PlaceGlobal'
  BY <1>0, PlaceGlobalFrame DEF LeakInv
<1>b. task[i].pc # "none" => i \in 1..born /\ j \in Jobs /\ Held(rows, i)
  BY BornIds DEF Refs, TaskOK, LeakInv, TasksHeld
<1>c. born \in Nat /\ "global" \in Queues /\ 0 \in 0..MaxRows
  BY <1>0, RowBound DEF TableOK, Queues
<1>d. ASSUME HeldKept(rows, rows'), AnchorsGlobal(rows', born'), task[i].pc # "none", NEW pc, Moves(i, pc),
             \A k \in Jobs : k # j => inflight'[k] = inflight[k] /\ marker'[k] = marker[k],
             \/ inflight'[j] = "none" \/ pc \in InflightPcs
             \/ task[i].pc \notin InflightPcs /\ inflight'[j] = inflight[j],
             \/ marker'[j] = "none" \/ pc \in MarkerPcs
             \/ task[i].pc \notin MarkerPcs /\ marker'[j] = marker[j]
      PROVE  LeakInv'
  BY <1>0, <1>a, <1>b, <1>d, LeakMove DEF Moves, HeldKept
<1>e. ASSUME UNCHANGED tableVars
      PROVE  HeldKept(rows, rows') /\ AnchorsGlobal(rows', born')
  BY <1>0, <1>e DEF HeldKept, tableVars
<1>f. ASSUME rows' = DeleteBoth(rows, i), born' = born
      PROVE  HeldKept(rows, rows') /\ AnchorsGlobal(rows', born')
  BY <1>0, <1>f, HeldDelete, SameAnchors DEF DeleteBoth, Step, TableStep
<1> HIDE DEF j
<1> USE DEF InflightPcs, MarkerPcs, InDispatch
<1>1. CASE Lookup(i)
  <2>1. /\ task[i].pc = "lookup" /\ UNCHANGED <<tableVars, inflight, marker>>
        /\ Goto(i, "discard") \/ Goto(i, "gate")
    BY <1>1 DEF Lookup
  <2> QED BY <1>0, <1>d, <1>e, <2>1, TaskMoves
<1>2. CASE GateBounce(i)
  <2>1. /\ task[i].pc = "gate" /\ rows' = Defer(rows, i) /\ born' = born /\ Finish(i)
        /\ UNCHANGED <<inflight, marker>>
    BY <1>2 DEF GateBounce, jobVars
  <2>2. AnchorsGlobal(rows', born')
    BY <1>0, <2>1, SameAnchors DEF Step, TableStep
  <2>3. \A k \in Ids : k # i => rows'[k] = rows[k]
    BY <1>0, <2>1 DEF Defer, TableOK
  <2>4. Moves(i, "none")
    BY <1>0, <2>1, TaskMoves
  <2>5. TasksHeld'
    BY <2>3, <2>4 DEF TasksHeld, LeakInv, Moves, Held
  <2>6. \A k \in Ids : task[k].pc # "none" => JobOf(k)' = JobOf(k)
    BY <1>0, Stable DEF TaskOK
  <2>7. NoLeakedEntry'
    <3>1. ASSUME NEW k \in Jobs, inflight'[k] # "none"
          PROVE  \E n \in Ids : JobOf(n)' = k /\ task'[n].pc \in InflightPcs
      BY <2>1, <2>4, <2>6, <3>1 DEF LeakInv, NoLeakedEntry, Moves
    <3>2. ASSUME NEW k \in Jobs, marker'[k] # "none"
          PROVE  \E n \in Ids : JobOf(n)' = k /\ task'[n].pc \in MarkerPcs
      BY <2>1, <2>4, <2>6, <3>2 DEF LeakInv, NoLeakedEntry, Moves
    <3> QED BY <3>1, <3>2 DEF NoLeakedEntry
  <2> QED BY <1>a, <2>2, <2>5, <2>7 DEF LeakInv
<1>3. CASE GatePass(i)
  <2>1. /\ task[i].pc = "gate" /\ UNCHANGED <<tableVars, inflight>> /\ Goto(i, "load")
        /\ marker' = [marker EXCEPT ![j] = "set"]
    BY <1>3 DEF GatePass, j
  <2> QED BY <1>0, <1>d, <1>e, <2>1, TaskMoves DEF JobsOK
<1>4. CASE LoadDone(i)
  <2>1. task[i].pc = "load" /\ UNCHANGED <<tableVars, inflight, marker>> /\ Goto(i, "start")
    BY <1>4 DEF LoadDone, jobVars
  <2> QED BY <1>0, <1>d, <1>e, <2>1, TaskMoves
<1>5. CASE LoadFails(i)
  <2>1. /\ task[i].pc = "load" /\ UNCHANGED <<born, inflight, marker>>
        /\ \/ rows' = DeleteBoth(rows, i) /\ Goto(i, "resubmit")
           \/ rows' = rows /\ Goto(i, "cleanup")
    BY <1>5 DEF LoadFails
  <2> QED BY <1>0, <1>d, <1>e, <1>f, <2>1, TaskMoves DEF tableVars
<1>6. CASE LoadResubmit(i)
  <2>1. /\ task[i].pc = "resubmit" /\ UNCHANGED <<inflight, marker>> /\ Goto(i, "leave")
        /\ born < MaxRows /\ born' = born + 1
        /\ rows' = Submit(rows, born + 1, "global", j, 0, rows[i].attempts + 1)
    BY <1>0, <1>6, <1>c, RowBound DEF LoadResubmit, jobVars, Room, Next1, TableOK, j
  <2>2. rows[i].attempts + 1 \in Nat
    BY <1>0 DEF TableOK, Row
  <2>3. HeldKept(rows, rows') /\ AnchorsGlobal(rows', born')
    BY <1>0, <1>b, <1>c, <2>1, <2>2, HeldSubmit
  <2> QED BY <1>0, <1>d, <2>1, <2>3, TaskMoves
<1>7. CASE StartInflight(i)
  <2>1. /\ task[i].pc = "start" /\ UNCHANGED tableVars
        /\ \/ Goto(i, "abort") /\ UNCHANGED <<marker, inflight>>
           \/ /\ marker' = [marker EXCEPT ![j] = "none"]
              /\ inflight' = [inflight EXCEPT ![j] = "live"] /\ Goto(i, "processing")
    BY <1>7 DEF StartInflight, clearDispatching, j
  <2>2. CASE Goto(i, "abort") /\ UNCHANGED <<marker, inflight>>
    BY <1>0, <1>d, <1>e, <2>1, <2>2, TaskMoves
  <2>3. CASE /\ marker' = [marker EXCEPT ![j] = "none"]
             /\ inflight' = [inflight EXCEPT ![j] = "live"] /\ Goto(i, "processing")
    <3>1. marker'[j] = "none" /\ \A k \in Jobs : k # j => inflight'[k] = inflight[k] /\ marker'[k] = marker[k]
      BY <1>0, <1>b, <2>1, <2>3 DEF JobsOK
    <3> QED BY <1>0, <1>d, <1>e, <2>1, <2>3, <3>1, TaskMoves
  <2> QED BY <2>1, <2>2, <2>3
<1>8. CASE AbortDispatch(i) \/ ProcessingResult(i) \/ AssignJob(i) \/ AssignFails(i)
  <2>1. /\ UNCHANGED <<tableVars, inflight, marker>>
        /\ \/ task[i].pc = "abort" /\ Goto(i, "cleanup")
           \/ task[i].pc = "processing" /\ Goto(i, "assign")
           \/ task[i].pc = "assign" /\ Goto(i, "attach")
           \/ task[i].pc = "assign" /\ Goto(i, "unassign")
    BY <1>8 DEF AbortDispatch, ProcessingResult, AssignJob, AssignFails
  <2> QED BY <1>0, <1>d, <1>e, <2>1, TaskMoves
<1>9. CASE Unassign(i) \/ FinishInflight(i)
  <2>1. /\ UNCHANGED <<tableVars, marker>> /\ inflight' = [inflight EXCEPT ![j] = "none"]
        /\ \/ task[i].pc = "unassign" /\ Goto(i, "cleanup")
           \/ task[i].pc = "release" /\ Goto(i, "settle")
    BY <1>9 DEF Unassign, FinishInflight, j
  <2>2. inflight'[j] = "none" /\ \A k \in Jobs : k # j => inflight'[k] = inflight[k]
    BY <1>0, <1>b, <2>1 DEF JobsOK
  <2> QED BY <1>0, <1>d, <1>e, <2>1, <2>2, TaskMoves
<1>10. CASE StartPump(i) \/ LeaveDispatch(i)
  <2>1. /\ UNCHANGED <<tableVars, inflight>> /\ marker' = [marker EXCEPT ![j] = "none"]
        /\ \/ task[i].pc = "attach" /\ Goto(i, "stream")
           \/ task[i].pc = "leave" /\ Finish(i)
    BY <1>10 DEF StartPump, LeaveDispatch, clearDispatching, j
  <2>2. marker'[j] = "none" /\ \A k \in Jobs : k # j => marker'[k] = marker[k]
    BY <1>0, <1>b, <2>1 DEF JobsOK
  <2> QED BY <1>0, <1>d, <1>e, <2>1, <2>2, TaskMoves
<1>11. CASE CleanupRows(i) \/ DeleteBothRows(i)
  <2>1. /\ rows' = DeleteBoth(rows, i) /\ born' = born /\ UNCHANGED <<inflight, marker>>
        /\ \/ task[i].pc = "discard" /\ Finish(i)
           \/ task[i].pc = "cleanup" /\ Goto(i, "leave")
           \/ task[i].pc = "delete" /\ Finish(i)
    BY <1>11 DEF CleanupRows, DeleteBothRows, jobVars
  <2> QED BY <1>0, <1>d, <1>f, <2>1, TaskMoves
<1>12. CASE PumpSettle(i) \/ PumpLeave(i)
  <2>1. /\ UNCHANGED <<tableVars, inflight, marker>> /\ task[i].pc = "settle"
        /\ Goto(i, "delete") \/ Finish(i)
    BY <1>12 DEF PumpSettle, PumpLeave, jobVars
  <2> QED BY <1>0, <1>d, <1>e, <2>1, TaskMoves
<1>13. CASE ReadCancel(i) \/ \E kind \in {"done", "error", "lost"} : StreamEnds(i, kind)
  <2>1. /\ UNCHANGED <<tableVars, inflight, marker>>
        /\ \/ task[i].pc = "ended" /\ Moves(i, "release")
           \/ task[i].pc = "stream" /\ Moves(i, "ended")
    BY <1>0, <1>13 DEF ReadCancel, StreamEnds, jobVars, TaskOK, Moves
  <2> QED BY <1>0, <1>d, <1>e, <2>1
<1>14. CASE DeferEnds(i)
  <2>1. /\ rows[i].lease = "deferred" /\ rows' = Relet(rows, i, "free")
        /\ UNCHANGED <<born, task, inflight, marker>>
    BY <1>14 DEF DeferEnds, Relet, jobVars
  <2>2. HeldKept(rows, rows')
    BY <1>0, <2>1, HeldRelet
  <2>3. AnchorsGlobal(rows', born')
    BY <1>0, <2>1, SameAnchors DEF Step, TableStep
  <2> QED BY <1>0, <1>a, <2>1, <2>2, <2>3, LeakFrame
<1> QED BY <1>1, <1>2, <1>3, <1>4, <1>5, <1>6, <1>7, <1>8, <1>9, <1>10, <1>11, <1>12, <1>13, <1>14
        DEF Run

\* LeakInv is preserved wherever IInv holds.
LEMMA LeakNext == IInv /\ LeakInv /\ [Next]_vars => LeakInv'
<1> SUFFICES ASSUME IInv, LeakInv, [Next]_vars PROVE LeakInv'
  OBVIOUS
<1>0. Refs
  BY DEF IInv
<1>1. ASSUME UNCHANGED <<tableVars, jobVars, place, task>> PROVE LeakInv'
  <2>1. Step
    BY <1>0, <1>1, TableQuiet, ResultQuiet DEF Step, jobVars
  <2> QED BY <1>0, <1>1, <2>1, PlaceGlobalFrame, LeakFrame DEF LeakInv, HeldKept, tableVars, jobVars
<1>2. CASE Placement
  BY <1>0, <1>2, LeakPlacement
<1>3. ASSUME NEW w \in Workers, DrainStart(w) \/ Worker(w) PROVE LeakInv'
  <2>1. CASE DrainStart(w)
    BY <1>1, <2>1 DEF DrainStart
  <2>2. CASE Worker(w)
    BY <1>0, <1>1, <2>2, WorkerStep DEF Sched
  <2> QED BY <1>3, <2>1, <2>2
<1>4. ASSUME NEW w \in Workers, DrainQueue(w) PROVE LeakInv'
  BY <1>0, <1>4, LeakDrain
<1>5. ASSUME NEW w \in Workers, NEW i \in Ids, LeaseAndDispatch(w, i) PROVE LeakInv'
  BY <1>0, <1>5, LeakLease
<1>6. ASSUME NEW i \in Ids, Run(i) PROVE LeakInv'
  BY <1>0, <1>6, LeakRun
<1>7. CASE (\E i \in Ids : EvictFind(i)) \/ EvictCommit
  BY <1>0, <1>7, LeakEvict
<1>8. ASSUME NEW j \in Jobs, Cancel(j) PROVE LeakInv'
  BY <1>0, <1>8, LeakCancel
<1>9. CASE UNCHANGED vars
  BY <1>1, <1>9 DEF vars
<1> QED BY <1>2, <1>3, <1>4, <1>5, <1>6, <1>7, <1>8, <1>9 DEF Next

\* A row that a goroutine works on is leased or gone until that goroutine is through,
\* and only global rows are anchors.
THEOREM LeakInvariant == Spec => []LeakInv
<1>1. Init => LeakInv
  BY RowBound DEF Init, LeakInv, TasksHeld, NoTask, AnchorsGlobal, PlaceGlobal, Placers, NoPlace,
                  NoLeakedEntry
<1>2. IInv /\ LeakInv /\ [Next]_vars => LeakInv'
  BY LeakNext
<1> QED BY <1>1, <1>2, DispatchInvariant, PTL DEF Spec

\* No entry of the in-flight or of the dispatching map outlives the goroutines of its
\* job, with any number of placements, evictions, drains, steals and cancellations of
\* the same job: none takes a slot of a worker's capacity for good.
THEOREM EntriesAreOwned == Spec => []NoLeakedEntry
<1>1. LeakInv => NoLeakedEntry
  BY DEF LeakInv
<1> QED BY <1>1, LeakInvariant, PTL
=============================================================================
