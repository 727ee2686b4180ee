----------------------------- MODULE RunOnceProofs -----------------------------
(***************************************************************************)
(* Proofs about Dispatch: a job runs on one worker at a time, and its      *)
(* requeues are charged.                                                   *)
(*                                                                         *)
(* NoDuplicateRun is not true of every instance.  What is true of every    *)
(* instance is that a job has one course (a live worker row, or a dispatch *)
(* that can still reach or has reached its worker), and its anchor stays   *)
(* closed meanwhile, as long as nobody who found a row earlier releases or *)
(* requeues its job after the job has gone on (StaleRelease).  The first   *)
(* theorem says so; the second one that no such step is needed to rule out *)
(* a second run without operators' evictions and toggles when no worker is *)
(* lost, or when a lost one does not come back, a failed load is final and *)
(* nobody steals.                                                          *)
(***************************************************************************)
EXTENDS DispatchProofs, WellFoundedInduction

\* The steps of a dispatch that lead to, or are, a run.
PreAssign == {"lookup", "gate", "load", "start", "processing", "assign"}
Going     == PreAssign \cup {"attach", "stream"}

\* A dispatch whose connection is still the worker's: it will hand the job out, or has.
Active(i) == task[i].pc \in Going /\ Alive(i)

\* The courses of all jobs, the anchors there are, and the resubmissions owed
\* (by whom, and of which job).
Courses    == {i \in Ids : rows[i].q # "global" /\ (Live(rows, i) \/ Active(i))}
Globals(t) == {g \in Ids : t[g].q = "global" /\ Live(t, g)}
Owing == {<<"task", i, JobOf(i)>> : i \in {k \in Ids : task[k].pc = "resubmit"}}
           \cup {<<"drain", w, InDrain(w)>> : w \in {v \in Workers : drain[v].pc = "resubmit"}}

\* Row i was overtaken: another dispatch of its job is active, or the row is gone and
\* its job has gone on, as another row than its anchor or as a resubmission owed.
Elsewhere(i) ==
  \/ \E k \in Ids \ {i} : JobOf(k) = JobOf(i) /\ Active(k)
  \/ /\ ~Live(rows, i)
     /\ \/ \E k \in Ids \ {rows[i].anchor} : JobOf(k) = JobOf(i) /\ Live(rows, k)
        \/ \E x \in Owing : x[3] = JobOf(i)

\* A step that gives a job back to the global queue because of a row that was found
\* earlier, and that is active or overtaken by now: the release and the requeue of a
\* drain, the release of an eviction, the requeue of a failed load.
StaleRelease ==
  \/ \E w \in Workers : /\ DrainRelease(w) \/ DrainRequeue(w)
                        /\ Active(drain[w].row) \/ Elsewhere(drain[w].row)
  \/ EvictCommit /\ (Active(evict) \/ Elsewhere(evict))
  \/ \E i \in Ids : LoadFails(i) /\ task'[i].pc = "resubmit" /\ Elsewhere(i)

-----------------------------------------------------------------------------
(* One course per job, as a relation of a table t, a set C of courses and  *)
(* a set O of resubmissions owed.                                          *)

Closed(t, i) == t[i].lease \in {"leased", "gone"}

Single(t, C, O) ==
  /\ \A i \in C : t[i].anchor \in Ids /\ Closed(t, t[i].anchor)
  /\ \A i, k \in C : t[i].job = t[k].job => i = k
  /\ \A i \in C, g \in Globals(t) : t[i].job = t[g].job => g = t[i].anchor
  /\ \A g, h \in Globals(t) : t[g].job = t[h].job => g = h
  /\ \A x \in O : (\A i \in C : t[i].job # x[3]) /\ (\A g \in Globals(t) : t[g].job # x[3])
  /\ \A x, y \in O : x[3] = y[3] => x = y

\* Nothing is added and no anchor of a course opens.
LEMMA SingleShrinks ==
  ASSUME NEW t, NEW u, NEW b, TableOK(t, b), Same(t, b, u), NEW C, NEW D, NEW O, NEW P,
         Single(t, C, O), C \subseteq 1..b, D \subseteq C, P \subseteq O,
         Globals(u) \subseteq Globals(t), \A i \in D : Closed(u, t[i].anchor)
  PROVE  Single(u, D, P)
<1>1. Globals(t) \subseteq 1..b
  BY RowBound DEF TableOK, Globals, Live, Ids
<1>2. \A i \in 1..b : u[i].job = t[i].job /\ u[i].anchor = t[i].anchor
  BY DEF Same
<1> QED BY <1>1, <1>2 DEF Single

\* A visible anchor g is leased and gets a course k, a new row.
LEMMA SinglePlaced ==
  ASSUME NEW t, NEW u, NEW b, TableOK(t, b), Same(t, b, u), NEW C, NEW D, NEW O, NEW P,
         Single(t, C, O), C \subseteq 1..b, P \subseteq O, Globals(u) \subseteq Globals(t),
         NEW g \in Globals(t), Visible(t, g), Closed(u, g),
         \A i \in C : Closed(u, t[i].anchor),
         NEW k, k \notin 1..b, u[k].job = t[g].job, u[k].anchor = g, D \subseteq C \cup {k}
  PROVE  Single(u, D, P)
<1>1. Globals(t) \subseteq 1..b /\ Globals(t) \subseteq Ids
  BY RowBound DEF TableOK, Globals, Live, Ids
<1>2. \A i \in 1..b : u[i].job = t[i].job /\ u[i].anchor = t[i].anchor
  BY DEF Same
<1>3. \A i \in C : t[i].job # t[g].job
  BY DEF Single, Closed, Visible
<1>4. \A x \in O : x[3] # t[g].job
  BY DEF Single
<1>5. \A i \in D : u[i].anchor \in Ids /\ Closed(u, u[i].anchor)
  BY <1>1, <1>2 DEF Single
<1>6. \A i, n \in D : u[i].job = u[n].job => i = n
  BY <1>2, <1>3 DEF Single
<1>7. \A i \in D, h \in Globals(u) : u[i].job = u[h].job => h = u[i].anchor
  BY <1>1, <1>2 DEF Single
<1>8. \A h, n \in Globals(u) : u[h].job = u[n].job => h = n
  BY <1>1, <1>2 DEF Single
<1>9. \A x \in P : (\A i \in D : u[i].job # x[3]) /\ (\A h \in Globals(u) : u[h].job # x[3])
  BY <1>1, <1>2, <1>4 DEF Single
<1> QED BY <1>5, <1>6, <1>7, <1>8, <1>9 DEF Single

\* A course i is replaced by a new row k with the same anchor.
LEMMA SingleMoved ==
  ASSUME NEW t, NEW u, NEW b, TableOK(t, b), Same(t, b, u), NEW C, NEW D, NEW O, NEW P,
         Single(t, C, O), C \subseteq 1..b, P \subseteq O, Globals(u) \subseteq Globals(t),
         \A n \in C : Closed(u, t[n].anchor),
         NEW i \in C, NEW k, k \notin 1..b, u[k].job = t[i].job, u[k].anchor = t[i].anchor,
         D \subseteq (C \ {i}) \cup {k}
  PROVE  Single(u, D, P)
<1>1. Globals(t) \subseteq 1..b
  BY RowBound DEF TableOK, Globals, Live, Ids
<1>2. \A n \in 1..b : u[n].job = t[n].job /\ u[n].anchor = t[n].anchor
  BY DEF Same
<1>5. \A n \in D : u[n].anchor \in Ids /\ Closed(u, u[n].anchor)
  BY <1>2 DEF Single
<1>6. \A m, n \in D : u[m].job = u[n].job => m = n
  BY <1>2 DEF Single
<1>7. \A n \in D, h \in Globals(u) : u[n].job = u[h].job => h = u[n].anchor
  BY <1>1, <1>2 DEF Single
<1>8. \A h, n \in Globals(u) : u[h].job = u[n].job => h = n
  BY <1>1, <1>2 DEF Single
<1>9. \A x \in P : (\A n \in D : u[n].job # x[3]) /\ (\A h \in Globals(u) : u[h].job # x[3])
  BY <1>1, <1>2 DEF Single
<1> QED BY <1>5, <1>6, <1>7, <1>8, <1>9 DEF Single

\* A job without course and anchor owes a resubmission: x is all there is of it.
LEMMA SingleOwed ==
  ASSUME NEW t, NEW u, NEW b, TableOK(t, b), Same(t, b, u), NEW C, NEW D, NEW O, NEW P,
         Single(t, C, O), C \subseteq 1..b, D \subseteq C, Globals(u) \subseteq Globals(t),
         \A n \in D : Closed(u, t[n].anchor),
         NEW x, P \subseteq O \cup {x}, \A y \in O : y[3] # x[3],
         \A n \in D : t[n].job # x[3], \A g \in Globals(u) : t[g].job # x[3]
  PROVE  Single(u, D, P)
<1>1. Globals(t) \subseteq 1..b
  BY RowBound DEF TableOK, Globals, Live, Ids
<1>2. \A n \in 1..b : u[n].job = t[n].job /\ u[n].anchor = t[n].anchor
  BY DEF Same
<1>5. /\ \A n \in D : u[n].anchor \in Ids /\ Closed(u, u[n].anchor)
      /\ \A m, n \in D : u[m].job = u[n].job => m = n
      /\ \A n \in D, h \in Globals(u) : u[n].job = u[h].job => h = u[n].anchor
      /\ \A h, n \in Globals(u) : u[h].job = u[n].job => h = n
  BY <1>1, <1>2 DEF Single
<1>6. ASSUME NEW y \in P
      PROVE  (\A n \in D : u[n].job # y[3]) /\ (\A h \in Globals(u) : u[h].job # y[3])
  <2>1. CASE y \in O
    <3>1. (\A n \in C : t[n].job # y[3]) /\ (\A h \in Globals(t) : t[h].job # y[3])
      BY <2>1 DEF Single
    <3> QED BY <1>1, <1>2, <3>1
  <2>2. CASE y = x
    BY <1>1, <1>2, <2>2
  <2> QED BY <2>1, <2>2
<1>7. \A y, z \in P : y[3] = z[3] => y = z
  BY DEF Single
<1> QED BY <1>5, <1>6, <1>7 DEF Single

-----------------------------------------------------------------------------
(* What the transactions do to courses, anchors and debts.                 *)

\* No row comes to life, and no anchor that is closed opens.
Ebbs(t, u) == \A i \in Ids :
  /\ Live(u, i) => Live(t, i)
  /\ t[i].q = "global" /\ Closed(t, i) => Closed(u, i)

\* Deleting rows.
LEMMA DeleteEbbs ==
  ASSUME NEW t, NEW b, TableOK(t, b), NEW S
  PROVE  Ebbs(t, Delete(t, S)) /\ \A i \in S \cap Ids : ~Live(Delete(t, S), i)
BY DEF TableOK, Row, Delete, Ebbs, Live, Closed

\* Leasing a live row, or changing the lease of a live worker row or of an open one.
LEMMA ReletEbbs ==
  ASSUME NEW t, NEW b, TableOK(t, b), NEW i \in Ids, NEW l, Live(t, i),
         l = "leased" \/ t[i].q # "global" \/ ~Closed(t, i), l \in {"free", "leased", "deferred"}
  PROVE  Ebbs(t, Relet(t, i, l))
<1>1. \A k \in Ids : k # i => Relet(t, i, l)[k] = t[k]
  BY DEF TableOK, Relet
<1>2. Relet(t, i, l)[i].lease = l
  BY DEF TableOK, Row, Relet
<1> QED BY <1>1, <1>2 DEF Ebbs, Live, Closed

\* The table that stays.
LEMMA SameEbbs == ASSUME NEW t PROVE Ebbs(t, t)
BY DEF Ebbs

\* A row that was not born keeps no course; courses and anchors are born rows.
LEMMA CoursesBorn ==
  ASSUME Refs
  PROVE  /\ Courses \subseteq 1..born /\ Courses \subseteq Ids
         /\ Globals(rows) \subseteq 1..born
<1>1. "none" \notin Going
  BY DEF Going, PreAssign
<1> QED BY <1>1, BornIds DEF Refs, TaskOK, Courses, Globals, Active

\* An active dispatch is of a worker row, and a course.
LEMMA ActiveIsCourse ==
  ASSUME LeakInv, NEW i \in Ids, Active(i)
  PROVE  i \in Courses
<1>1. "none" \notin Going
  BY DEF Going, PreAssign
<1> QED BY <1>1 DEF LeakInv, TasksHeld, Held, Courses, Active

\* The anchor of a row is a global row of the same job.
LEMMA AnchorIsGlobal ==
  ASSUME Refs, LeakInv, NEW i \in 1..born, rows[i].anchor \in Ids
  PROVE  /\ rows[i].anchor \in 1..born /\ rows[rows[i].anchor].q = "global"
         /\ rows[rows[i].anchor].job = rows[i].job
BY RowBound DEF Refs, TableOK, LeakInv, AnchorsGlobal, Ids

\* A step in which rows only ebb, no dispatch comes to life and nothing is owed anew.
Ebb == Ebbs(rows, rows') /\ Courses' \subseteq Courses /\ Owing' \subseteq Owing

\* An ebb keeps one course per job.
LEMMA SingleEbb ==
  ASSUME Refs, LeakInv, Step, Ebb, NEW C, NEW D, C \subseteq 1..born, D \subseteq C,
         Single(rows, C, Owing)
  PROVE  Single(rows', D, Owing')
<1>1. Same(rows, born, rows') /\ TableOK(rows, born)
  BY DEF Step, TableStep, Refs
<1>2. Globals(rows') \subseteq Globals(rows)
  <2> SUFFICES ASSUME NEW g \in Globals(rows') PROVE g \in Globals(rows)
    OBVIOUS
  <2>1. g \in Ids /\ Live(rows, g)
    BY DEF Globals, Ebb, Ebbs
  <2>2. g \in 1..born
    BY <2>1, BornIds
  <2> QED BY <1>1, <2>1, <2>2 DEF Globals, Same
<1>3. \A i \in D : Closed(rows', rows[i].anchor)
  <2> SUFFICES ASSUME NEW i \in D PROVE Closed(rows', rows[i].anchor)
    OBVIOUS
  <2>1. i \in 1..born /\ rows[i].anchor \in Ids /\ Closed(rows, rows[i].anchor)
    BY DEF Single
  <2>2. rows[rows[i].anchor].q = "global"
    BY <2>1, AnchorIsGlobal
  <2> QED BY <2>1, <2>2 DEF Ebb, Ebbs
<1> QED BY <1>1, <1>2, <1>3, SingleShrinks DEF Ebb

\* Dispatches that were not active do not become so, and rows ebb: no new course.
LEMMA CoursesEbb ==
  ASSUME Refs, Step, Ebbs(rows, rows'), \A i \in Ids : Active(i)' => Active(i) \/ Live(rows, i)
  PROVE  Courses' \subseteq Courses
<1> SUFFICES ASSUME NEW i \in Courses' PROVE i \in Courses
  OBVIOUS
<1>1. i \in Ids /\ (Live(rows, i) \/ Active(i)) /\ rows'[i].q # "global"
  BY DEF Courses, Ebbs
<1>2. i \in 1..born
  <2>1. "none" \notin Going
    BY DEF Going, PreAssign
  <2> QED BY <1>1, <2>1, BornIds DEF Active, Refs, TaskOK
<1>3. rows'[i].q = rows[i].q
  BY <1>2 DEF Step, TableStep, Same
<1> QED BY <1>1, <1>3 DEF Courses

\* No dispatch becomes active when the connections stay and each one that goes on was
\* going on the same connection.
LEMMA ActiveStays ==
  ASSUME Refs, Step, UNCHANGED <<status, conn>>,
         NEW i \in Ids, task[i].pc \in Going, task'[i].conn = task[i].conn, Active(i)'
  PROVE  Active(i)
<1>1. i \in 1..born
  BY DEF Refs, TaskOK, Going, PreAssign
<1>2. rows'[i].q = rows[i].q
  BY <1>1 DEF Step, TableStep, Same
<1> QED BY <1>2 DEF Active, Alive, Online

\* The debts, by debtor.
LEMMA OwingEbb ==
  ASSUME Refs, Step,
         \A i \in Ids : task'[i].pc = "resubmit" => task[i].pc = "resubmit",
         \A w \in Workers : drain'[w].pc = "resubmit" =>
           drain[w].pc = "resubmit" /\ drain'[w].row = drain[w].row
  PROVE  Owing' \subseteq Owing
<1> SUFFICES ASSUME NEW x \in Owing' PROVE x \in Owing
  OBVIOUS
<1>1. ASSUME NEW i \in Ids, task'[i].pc = "resubmit", x = <<"task", i, JobOf(i)'>>
      PROVE  x \in Owing
  <2>1. task[i].pc = "resubmit" /\ i \in 1..born
    BY <1>1 DEF Refs, TaskOK
  <2>2. JobOf(i)' = JobOf(i)
    BY <2>1, Stable
  <2> QED BY <1>1, <2>1, <2>2 DEF Owing
<1>2. ASSUME NEW w \in Workers, drain'[w].pc = "resubmit", x = <<"drain", w, InDrain(w)'>>
      PROVE  x \in Owing
  <2>1. drain[w].pc = "resubmit" /\ drain'[w].row = drain[w].row /\ drain[w].row \in 1..born
    BY <1>2 DEF Refs, DrainOK
  <2>2. InDrain(w)' = InDrain(w)
    BY <2>1, Stable DEF InDrain
  <2> QED BY <1>2, <2>1, <2>2 DEF Owing
<1> QED BY <1>1, <1>2 DEF Owing

-----------------------------------------------------------------------------
(* The transitions of courses, anchors and debts.                          *)

\* Row i is all that its job has in C, with its anchor, and nobody owes the job anything.
Sole(i, C) ==
  /\ \A n \in C : rows[n].job = rows[i].job => n = i
  /\ \A g \in Globals(rows) : rows[g].job = rows[i].job => g = rows[i].anchor
  /\ \A x \in Owing : x[3] # rows[i].job

\* A course is all that its job has.
LEMMA CourseIsSole ==
  ASSUME NEW C, Single(rows, C, Owing), NEW i \in C
  PROVE  Sole(i, C)
BY DEF Single, Sole

\* A row that was not overtaken is all that its job has.
LEMMA NotElsewhereIsSole ==
  ASSUME Refs, LeakInv, Single(rows, Courses, Owing), NEW i \in 1..born, rows[i].q # "global",
         ~Elsewhere(i)
  PROVE  Sole(i, Courses)
<1>0. i \in Ids
  BY BornIds
<1>1. CASE Live(rows, i)
  <2>1. i \in Courses
    BY <1>0, <1>1 DEF Courses
  <2> QED BY <2>1, CourseIsSole
<1>2. CASE ~Live(rows, i)
  <2>1. \A k \in Ids : k # rows[i].anchor /\ rows[k].job = rows[i].job => ~Live(rows, k)
    BY <1>2 DEF Elsewhere, JobOf
  <2>2. \A k \in Ids : k # i /\ rows[k].job = rows[i].job => ~Active(k)
    BY DEF Elsewhere, JobOf
  <2>3. \A x \in Owing : x[3] # rows[i].job
    BY <1>2 DEF Elsewhere, JobOf
  <2>4. \A g \in Globals(rows) : rows[g].job = rows[i].job => g = rows[i].anchor
    BY <2>1 DEF Globals
  <2>5. ASSUME NEW n \in Courses, rows[n].job = rows[i].job PROVE n = i
    <3>1. CASE Active(n)
      BY <2>2, <2>5, <3>1 DEF Courses
    <3>2. CASE Live(rows, n)
      <4>1. n = rows[i].anchor /\ n \in Ids /\ rows[n].q # "global"
        BY <2>1, <2>5, <3>2 DEF Courses
      <4> QED BY <4>1, AnchorIsGlobal
    <3> QED BY <3>1, <3>2 DEF Courses
  <2> QED BY <2>3, <2>4, <2>5 DEF Sole
<1> QED BY <1>1, <1>2

\* Only row k comes to life or opens.
EbbsBut(t, u, k) == \A i \in Ids : i # k =>
  /\ Live(u, i) => Live(t, i)
  /\ t[i].q = "global" /\ Closed(t, i) => Closed(u, i)

\* Courses whose anchor is not row k keep it closed.
LEMMA AnchorsStayClosed ==
  ASSUME Refs, LeakInv, NEW C, C \subseteq 1..born, Single(rows, C, Owing),
         NEW k, EbbsBut(rows, rows', k), NEW D, D \subseteq C, \A n \in D : rows[n].anchor # k
  PROVE  \A n \in D : Closed(rows', rows[n].anchor)
<1> SUFFICES ASSUME NEW n \in D PROVE Closed(rows', rows[n].anchor)
  OBVIOUS
<1>1. n \in 1..born /\ rows[n].anchor \in Ids /\ Closed(rows, rows[n].anchor)
  BY DEF Single
<1>2. rows[rows[n].anchor].q = "global"
  BY <1>1, AnchorIsGlobal
<1> QED BY <1>1, <1>2 DEF EbbsBut

\* No anchor is new but row k.
LEMMA GlobalsBut ==
  ASSUME Refs, Step, NEW k, EbbsBut(rows, rows', k)
  PROVE  Globals(rows') \subseteq Globals(rows) \cup {k}
<1> SUFFICES ASSUME NEW g \in Globals(rows'), g # k PROVE g \in Globals(rows)
  OBVIOUS
<1>1. g \in Ids /\ Live(rows, g)
  BY DEF Globals, EbbsBut
<1>2. g \in 1..born
  BY <1>1, BornIds
<1> QED BY <1>1, <1>2 DEF Globals, Step, TableStep, Same

\* Deleting a row and releasing its anchor opens nothing but the anchor.
LEMMA ReleaseEbbs ==
  ASSUME NEW t, NEW b, TableOK(t, b), NEW i \in Ids
  PROVE  LET u == DeleteAndReleaseLease(t, i)
         IN  /\ EbbsBut(t, u, t[i].anchor)
             /\ \A k \in Ids : Live(u, k) => Live(t, k)
             /\ t[i].anchor # i => ~Live(u, i)
<1> DEFINE d == Delete(t, {i})
           u == ReleaseLease(d, t[i].anchor)
<1>1. \A k \in Ids : d[k] = IF k = i THEN [t[k] EXCEPT !.lease = "gone"] ELSE t[k]
  BY DEF Delete
<1> HIDE DEF d
<1>2. \A k \in Ids : k # t[i].anchor => u[k] = d[k]
  BY DEF ReleaseLease
<1>3. \A k \in Ids : ~Live(d, k) => u[k] = d[k]
  BY DEF ReleaseLease
<1>4. \A k \in Ids : (Live(d, k) => Live(t, k)) /\ (Closed(t, k) => Closed(d, k)) /\ ~Live(d, i)
  BY <1>1 DEF TableOK, Row, Live, Closed
<1> HIDE DEF u
<1>5. \A k \in Ids : Live(u, k) => Live(t, k)
  BY <1>3, <1>4 DEF Live
<1>6. EbbsBut(t, u, t[i].anchor)
  BY <1>2, <1>4, <1>5 DEF EbbsBut, Closed
<1>7. ~Live(u, i)
  BY <1>3, <1>4 DEF Live
<1> QED BY <1>5, <1>6, <1>7 DEF DeleteAndReleaseLease, u, d

\* Row i of C is given back to the global queue.
LEMMA SingleReleased ==
  ASSUME Refs, LeakInv, Step, NEW C, NEW D, C \subseteq 1..born, Single(rows, C, Owing),
         NEW i \in 1..born, Sole(i, C), rows' = DeleteAndReleaseLease(rows, i),
         D \subseteq C \ {i}, Owing' \subseteq Owing
  PROVE  Single(rows', D, Owing')
<1>0. Same(rows, born, rows') /\ TableOK(rows, born) /\ i \in Ids
  BY BornIds DEF Step, TableStep, Refs
<1>1. EbbsBut(rows, rows', rows[i].anchor) /\ \A k \in Ids : Live(rows', k) => Live(rows, k)
  BY <1>0, ReleaseEbbs
<1>2. \A n \in D : rows[n].anchor # rows[i].anchor
  <2> SUFFICES ASSUME NEW n \in D, rows[n].anchor = rows[i].anchor PROVE FALSE
    OBVIOUS
  <2>1. n \in C /\ n # i /\ n \in 1..born /\ rows[n].anchor \in Ids
    BY DEF Single
  <2>2. rows[n].job = rows[i].job
    BY <2>1, AnchorIsGlobal
  <2> QED BY <2>1, <2>2 DEF Sole
<1>3. \A n \in D : Closed(rows', rows[n].anchor)
  BY <1>1, <1>2, AnchorsStayClosed
<1>4. Globals(rows') \subseteq Globals(rows)
  <2> SUFFICES ASSUME NEW g \in Globals(rows') PROVE g \in Globals(rows)
    OBVIOUS
  <2>1. g \in Ids /\ Live(rows, g)
    BY <1>1 DEF Globals
  <2>2. g \in 1..born
    BY <2>1, BornIds
  <2> QED BY <1>0, <2>1, <2>2 DEF Globals, Same
<1> QED BY <1>0, <1>3, <1>4, SingleShrinks

\* Row i of C is deleted with its anchor, and its job is owed as x.
LEMMA SingleRequeued ==
  ASSUME Refs, LeakInv, Step, NEW C, NEW D, C \subseteq 1..born, Single(rows, C, Owing),
         NEW i \in 1..born, Sole(i, C), rows' = DeleteBoth(rows, i),
         D \subseteq C \ {i}, NEW x, x[3] = rows[i].job, Owing' \subseteq Owing \cup {x}
  PROVE  Single(rows', D, Owing')
<1>0. Same(rows, born, rows') /\ TableOK(rows, born) /\ i \in Ids
  BY BornIds DEF Step, TableStep, Refs
<1>1. Ebbs(rows, rows') /\ (rows[i].anchor \in Ids => ~Live(rows', rows[i].anchor))
  BY <1>0, DeleteEbbs DEF DeleteBoth
<1>2. EbbsBut(rows, rows', 0) /\ 0 \notin Ids
  BY <1>1, RowBound DEF Ebbs, EbbsBut, Ids
<1>3. \A n \in D : rows[n].anchor # 0
  BY <1>2 DEF Single
<1>4. \A n \in D : Closed(rows', rows[n].anchor)
  BY <1>2, <1>3, AnchorsStayClosed
<1>5. Globals(rows') \subseteq Globals(rows)
  BY <1>2, GlobalsBut DEF Globals
<1>6. \A n \in D : rows[n].job # x[3]
  BY DEF Sole
<1>7. \A g \in Globals(rows') : rows[g].job # x[3]
  BY <1>1, <1>5 DEF Sole, Globals
<1>8. \A y \in Owing : y[3] # x[3]
  BY DEF Sole
<1>9. D \subseteq C
  OBVIOUS
<1> QED BY <1>0, <1>4, <1>5, <1>6, <1>7, <1>8, <1>9, SingleOwed, ZenonT(40)

\* A row that is inserted touches no other one.
LEMMA SubmitEbbs ==
  ASSUME NEW t, NEW b, TableOK(t, b), b < MaxRows, NEW q, NEW j, NEW a, NEW n
  PROVE  LET u == Submit(t, b + 1, q, j, a, n)
         IN  /\ EbbsBut(t, u, b + 1) /\ b + 1 \notin 1..b
             /\ u[b + 1].q = q /\ u[b + 1].job = j /\ u[b + 1].anchor = a
<1>1. b + 1 \in Ids /\ b + 1 \notin 1..b
  BY RowBound DEF TableOK, Ids
<1>2. \A i \in Ids : i # b + 1 => Submit(t, b + 1, q, j, a, n)[i] = t[i]
  BY DEF TableOK, Submit
<1>3. Submit(t, b + 1, q, j, a, n)[b + 1] =
        [q |-> q, job |-> j, anchor |-> a, attempts |-> n, lease |-> "free"]
  BY <1>1 DEF TableOK, Submit
<1> QED BY <1>1, <1>2, <1>3 DEF EbbsBut, Live, Closed

\* An ebb, then the insertion of row k.
LEMMA EbbTwice ==
  ASSUME NEW t, NEW b, TableOK(t, b), NEW d, Ebbs(t, d), Same(t, b, d), NEW u, NEW k,
         EbbsBut(d, u, k)
  PROVE  EbbsBut(t, u, k)
<1> SUFFICES ASSUME NEW n \in Ids, n # k
             PROVE  /\ Live(u, n) => Live(t, n)
                    /\ t[n].q = "global" /\ Closed(t, n) => Closed(u, n)
  BY DEF EbbsBut
<1>1. CASE n \in 1..b
  BY <1>1 DEF EbbsBut, Ebbs, Same
<1>2. CASE n \notin 1..b
  <2>1. ~Live(t, n) /\ ~Closed(t, n)
    BY <1>2, RowBound DEF TableOK, Ids, Live, Closed
  <2> QED BY <2>1 DEF EbbsBut, Ebbs
<1> QED BY <1>1, <1>2

\* A row that is not yet born is nobody's anchor.
LEMMA AnchorsAreOld ==
  ASSUME Refs, LeakInv, NEW C, C \subseteq 1..born, Single(rows, C, Owing), NEW k, k \notin 1..born
  PROVE  \A m \in C : rows[m].anchor # k
<1> SUFFICES ASSUME NEW m \in C PROVE rows[m].anchor # k
  OBVIOUS
<1>1. m \in 1..born /\ rows[m].anchor \in Ids
  BY DEF Single
<1> QED BY <1>1, AnchorIsGlobal

\* A new anchor for a job that has nothing else.
LEMMA SingleNewAnchor ==
  ASSUME Refs, LeakInv, Step, NEW C, NEW D, C \subseteq 1..born, D \subseteq C,
         Single(rows, C, Owing), born < MaxRows, NEW j, NEW n,
         rows' = Submit(rows, born + 1, "global", j, 0, n),
         Owing' \subseteq Owing, \A y \in Owing' : y[3] # j,
         \A m \in C : rows[m].job # j, \A g \in Globals(rows) : rows[g].job # j
  PROVE  Single(rows', D, Owing')
<1>0. Same(rows, born, rows') /\ TableOK(rows, born) /\ born \in Nat
  BY BornIds DEF Step, TableStep, Refs
<1>1. EbbsBut(rows, rows', born + 1) /\ rows'[born + 1].job = j /\ born + 1 \notin 1..born
  BY <1>0, SubmitEbbs
<1>2. \A m \in D : rows[m].anchor # born + 1
  BY <1>1, AnchorsAreOld
<1>3. \A m \in D : Closed(rows', rows[m].anchor)
  BY <1>1, <1>2, AnchorsStayClosed
<1>4. Globals(rows') \subseteq Globals(rows) \cup {born + 1}
  BY <1>1, GlobalsBut
<1>5. Globals(rows) \subseteq 1..born
  BY CoursesBorn
<1>6. \A m \in 1..born : rows'[m].job = rows[m].job /\ rows'[m].anchor = rows[m].anchor
  BY <1>0 DEF Same
<1>7. /\ \A m \in D : rows'[m].anchor \in Ids /\ Closed(rows', rows'[m].anchor)
      /\ \A m, l \in D : rows'[m].job = rows'[l].job => m = l
  BY <1>3, <1>6 DEF Single
<1>8. \A y, z \in Owing' : y[3] = z[3] => y = z
  BY DEF Single
<1>9. \A m \in D, h \in Globals(rows') : rows'[m].job = rows'[h].job => h = rows'[m].anchor
  BY <1>1, <1>4, <1>5, <1>6 DEF Single
<1>10. \A h, l \in Globals(rows') : rows'[h].job = rows'[l].job => h = l
  BY <1>1, <1>4, <1>5, <1>6 DEF Single
<1>11. \A y \in Owing' : /\ \A m \in D : rows'[m].job # y[3]
                         /\ \A h \in Globals(rows') : rows'[h].job # y[3]
  BY <1>1, <1>4, <1>5, <1>6 DEF Single
<1> QED BY <1>7, <1>8, <1>9, <1>10, <1>11 DEF Single

\* Leasing a visible row for a new one.
LEMMA LeaseAndSubmitEbbs ==
  ASSUME NEW t, NEW b, TableOK(t, b), b < MaxRows, NEW g \in 1..b, Visible(t, g), NEW q
  PROVE  LET u == LeaseAndSubmit(t, g, b + 1, q)
         IN  /\ EbbsBut(t, u, b + 1) /\ b + 1 \notin 1..b /\ Closed(u, g)
             /\ u[b + 1].q = q /\ u[b + 1].job = t[g].job /\ u[b + 1].anchor = g
<1> DEFINE d == Relet(t, g, "leased")
           u == Submit(d, b + 1, q, t[g].job, g, t[g].attempts)
<1>0. g \in Ids /\ Live(t, g) /\ b \in Nat
  BY RowBound DEF TableOK, Ids, Visible, Live
<1>1. TableOK(d, b) /\ Ebbs(t, d) /\ Same(t, b, d)
  BY <1>0, LeaseTable, ReletEbbs
<1>3. d[g].lease = "leased"
  BY <1>0 DEF Relet, TableOK, Row
<1>2. \A i \in Ids : i # b + 1 => u[i] = d[i]
  BY <1>1 DEF TableOK, Submit
<1> HIDE DEF d
<1>4. /\ EbbsBut(d, u, b + 1) /\ b + 1 \notin 1..b
      /\ u[b + 1].job = t[g].job /\ u[b + 1].anchor = g /\ u[b + 1].q = q
  BY <1>1, SubmitEbbs
<1> HIDE DEF u
<1>5. EbbsBut(t, u, b + 1)
  BY <1>1, <1>4, EbbTwice
<1>6. Closed(u, g)
  BY <1>0, <1>2, <1>3, <1>4 DEF Closed
<1> QED BY <1>4, <1>5, <1>6 DEF LeaseAndSubmit, LeaseByID, Relet, u, d

\* Moving a row.
LEMMA MoveToEbbs ==
  ASSUME NEW t, NEW b, TableOK(t, b), b < MaxRows, NEW i \in 1..b, NEW q
  PROVE  LET u == MoveTo(t, i, b + 1, q)
         IN  /\ EbbsBut(t, u, b + 1) /\ b + 1 \notin 1..b /\ ~Live(u, i)
             /\ u[b + 1].q = q /\ u[b + 1].job = t[i].job /\ u[b + 1].anchor = t[i].anchor
<1> DEFINE d == Delete(t, {i})
           u == Submit(d, b + 1, q, t[i].job, t[i].anchor, t[i].attempts)
<1>0. i \in Ids /\ b \in Nat
  BY RowBound DEF TableOK, Ids
<1>1. TableOK(d, b) /\ Ebbs(t, d) /\ Same(t, b, d) /\ ~Live(d, i)
  BY <1>0, DeleteTable, DeleteEbbs
<1>2. \A k \in Ids : k # b + 1 => u[k] = d[k]
  BY <1>1 DEF TableOK, Submit
<1> HIDE DEF d
<1>4. /\ EbbsBut(d, u, b + 1) /\ b + 1 \notin 1..b
      /\ u[b + 1].job = t[i].job /\ u[b + 1].anchor = t[i].anchor /\ u[b + 1].q = q
  BY <1>1, SubmitEbbs
<1> HIDE DEF u
<1>5. EbbsBut(t, u, b + 1)
  BY <1>1, <1>4, EbbTwice
<1>6. ~Live(u, i)
  BY <1>0, <1>1, <1>2, <1>4 DEF Live
<1> QED BY <1>4, <1>5, <1>6 DEF MoveTo, u, d

\* A visible anchor g is leased for a new course.
LEMMA SingleNewCourse ==
  ASSUME Refs, LeakInv, Step, NEW C, NEW D, C \subseteq 1..born, D \subseteq C \cup {born + 1},
         Single(rows, C, Owing), born < MaxRows, NEW g \in 1..born, rows[g].q = "global",
         Visible(rows, g), NEW q, q # "global", rows' = LeaseAndSubmit(rows, g, born + 1, q),
         Owing' \subseteq Owing
  PROVE  Single(rows', D, Owing')
<1>0. /\ Same(rows, born, rows') /\ TableOK(rows, born) /\ g \in Globals(rows)
  BY BornIds DEF Step, TableStep, Refs, Visible, Live, Globals
<1>4. /\ EbbsBut(rows, rows', born + 1) /\ born + 1 \notin 1..born /\ Closed(rows', g)
      /\ rows'[born + 1].job = rows[g].job /\ rows'[born + 1].anchor = g
      /\ rows'[born + 1].q = q
  BY <1>0, LeaseAndSubmitEbbs
<1>7. \A m \in C : rows[m].anchor # born + 1
  BY <1>4, AnchorsAreOld
<1>8. \A m \in C : Closed(rows', rows[m].anchor)
  BY <1>4, <1>7, AnchorsStayClosed
<1>9. Globals(rows') \subseteq Globals(rows)
  BY <1>4, GlobalsBut DEF Globals
<1> QED BY <1>0, <1>4, <1>8, <1>9, SinglePlaced

\* A course i is moved to a new row of another queue.
LEMMA SingleNewRow ==
  ASSUME Refs, LeakInv, Step, NEW C, NEW D, NEW i \in C, C \subseteq 1..born,
         D \subseteq (C \ {i}) \cup {born + 1}, Single(rows, C, Owing), born < MaxRows,
         NEW q, q # "global", rows' = MoveTo(rows, i, born + 1, q), Owing' \subseteq Owing
  PROVE  Single(rows', D, Owing')
<1>0. Same(rows, born, rows') /\ TableOK(rows, born) /\ i \in 1..born
  BY DEF Step, TableStep, Refs
<1>4. /\ EbbsBut(rows, rows', born + 1) /\ born + 1 \notin 1..born
      /\ rows'[born + 1].job = rows[i].job /\ rows'[born + 1].anchor = rows[i].anchor
      /\ rows'[born + 1].q = q
  BY <1>0, MoveToEbbs
<1>7. \A m \in C : rows[m].anchor # born + 1
  BY <1>4, AnchorsAreOld
<1>8. \A m \in C : Closed(rows', rows[m].anchor)
  BY <1>4, <1>7, AnchorsStayClosed
<1>9. Globals(rows') \subseteq Globals(rows)
  BY <1>4, GlobalsBut DEF Globals
<1> QED BY <1>0, <1>4, <1>8, <1>9, SingleMoved, ZenonT(60)

-----------------------------------------------------------------------------
(* The invariant, and the steps that keep it.                              *)

\* A request whose Submit has not enqueued it yet has no row at all.
Unsubmitted == \A j \in Jobs : place[j].pc \in {"idle", "created"} => \A i \in 1..born : rows[i].job # j

\* What is placed or stolen goes to a worker.
Targets == \A p \in Placers : place[p].pc \in {"commit", "steal"} => place[p].target \in Workers

\* No dispatch and no drainer is of a connection that is still to come.
ConnOK ==
  /\ \A i \in Ids : task[i].pc # "none" => task[i].conn <= conn[rows[i].q]
  /\ \A w \in Workers : batchConn[w] <= conn[w]

\* No course is new but row k.
LEMMA CoursesBut ==
  ASSUME Refs, Step, NEW k, EbbsBut(rows, rows', k),
         \A i \in Ids : Active(i)' => Active(i) \/ Live(rows, i)
  PROVE  Courses' \subseteq Courses \cup {k}
<1> SUFFICES ASSUME NEW i \in Courses', i # k PROVE i \in Courses
  OBVIOUS
<1>1. i \in Ids /\ (Live(rows, i) \/ Active(i)) /\ rows'[i].q # "global"
  BY DEF Courses, EbbsBut
<1>2. i \in 1..born
  <2>1. "none" \notin Going
    BY DEF Going, PreAssign
  <2> QED BY <1>1, <2>1, BornIds DEF Active, Refs, TaskOK
<1>3. rows'[i].q = rows[i].q
  BY <1>2 DEF Step, TableStep, Same
<1> QED BY <1>1, <1>3 DEF Courses

\* What is active, and what is owed, while neither dispatches nor connections move.
LEMMA ActiveFrame ==
  ASSUME Refs, Step, UNCHANGED <<status, conn, task>>
  PROVE  \A i \in Ids : Active(i)' => Active(i)
<1> SUFFICES ASSUME NEW i \in Ids, Active(i)' PROVE Active(i)
  OBVIOUS
<1>1. task[i].pc \in Going /\ task'[i].conn = task[i].conn
  BY DEF Active
<1> QED BY <1>1, ActiveStays

\* The debts while at most dispatch i starts to owe.
LEMMA OwingBut ==
  ASSUME Refs, Step, drain' = drain, NEW i \in 1..born, \A k \in Ids : k # i => task'[k] = task[k]
  PROVE  Owing' \subseteq Owing \cup {<<"task", i, rows[i].job>>}
<1> SUFFICES ASSUME NEW y \in Owing', y # <<"task", i, rows[i].job>> PROVE y \in Owing
  OBVIOUS
<1>0. rows'[i].job = rows[i].job
  BY DEF Step, TableStep, Same
<1>1. ASSUME NEW k \in Ids, task'[k].pc = "resubmit", y = <<"task", k, JobOf(k)'>>
      PROVE  y \in Owing
  <2>1. k # i
    BY <1>0, <1>1 DEF JobOf
  <2>2. task[k].pc = "resubmit" /\ k \in 1..born
    BY <1>1, <2>1 DEF Refs, TaskOK
  <2> QED BY <1>1, <2>2, Stable DEF Owing
<1>2. ASSUME NEW w \in Workers, drain'[w].pc = "resubmit", y = <<"drain", w, InDrain(w)'>>
      PROVE  y \in Owing
  <2>1. drain[w].pc = "resubmit" /\ drain[w].row \in 1..born
    BY <1>2 DEF Refs, DrainOK
  <2>2. InDrain(w)' = InDrain(w)
    BY <2>1, Stable DEF InDrain
  <2> QED BY <1>2, <2>1, <2>2 DEF Owing
<1> QED BY <1>1, <1>2 DEF Owing

\* The debts while at most the drain of w, on row d, starts to owe.
LEMMA OwingByDrain ==
  ASSUME Refs, Step, task' = task, NEW w \in Workers, NEW d \in 1..born, drain'[w].row = d,
         \A v \in Workers : v # w => drain'[v] = drain[v]
  PROVE  Owing' \subseteq Owing \cup {<<"drain", w, rows[d].job>>}
<1> SUFFICES ASSUME NEW y \in Owing', y # <<"drain", w, rows[d].job>> PROVE y \in Owing
  OBVIOUS
<1>0. rows'[d].job = rows[d].job
  BY DEF Step, TableStep, Same
<1>1. ASSUME NEW k \in Ids, task'[k].pc = "resubmit", y = <<"task", k, JobOf(k)'>>
      PROVE  y \in Owing
  <2>1. task[k].pc = "resubmit" /\ k \in 1..born
    BY <1>1 DEF Refs, TaskOK
  <2> QED BY <1>1, <2>1, Stable DEF Owing
<1>2. ASSUME NEW v \in Workers, drain'[v].pc = "resubmit", y = <<"drain", v, InDrain(v)'>>
      PROVE  y \in Owing
  <2>1. v # w
    BY <1>0, <1>2 DEF InDrain, JobOf
  <2>2. drain[v].pc = "resubmit" /\ drain[v].row \in 1..born
    BY <1>2, <2>1 DEF Refs, DrainOK
  <2>3. InDrain(v)' = InDrain(v)
    BY <2>1, <2>2, Stable DEF InDrain
  <2> QED BY <1>2, <2>2, <2>3 DEF Owing
<1> QED BY <1>1, <1>2 DEF Owing

\* The debts while neither dispatches nor drains move.
LEMMA OwingFrame ==
  ASSUME Refs, Step, UNCHANGED <<task, drain>>
  PROVE  Owing' \subseteq Owing
BY OwingEbb

\* A step that inserts no row keeps what is unsubmitted, and one that inserts a row of
\* a job that has one too.
LEMMA UnsubmittedFrame ==
  ASSUME Refs, Step, Unsubmitted,
         \A j \in Jobs : place'[j].pc \in {"idle", "created"} => place[j].pc \in {"idle", "created"},
         \/ born' = born
         \/ /\ born' = born + 1
            /\ \/ \E i \in 1..born : rows'[born + 1].job = rows[i].job
               \/ /\ rows'[born + 1].job \in Jobs
                  /\ place'[rows'[born + 1].job].pc \notin {"idle", "created"}
  PROVE  Unsubmitted'
<1> SUFFICES ASSUME NEW j \in Jobs, place'[j].pc \in {"idle", "created"}, NEW i \in 1..born'
             PROVE  rows'[i].job # j
  BY DEF Unsubmitted
<1>1. \A k \in 1..born : rows[k].job # j /\ rows'[k].job = rows[k].job
  BY DEF Unsubmitted, Step, TableStep, Same
<1>2. born \in Nat
  BY BornIds
<1> QED BY <1>1, <1>2

\* What the placers do: a new anchor for a job that has none, a course for a visible
\* anchor, or the move of a course, unless somebody else holds it in P.
LEMMA OncePlacement ==
  ASSUME Refs, LeakInv, Unsubmitted, Targets, Placement, NEW P, P \subseteq 1..born,
         Single(rows, Courses \cup P, Owing), StealCommit => P = {}
  PROVE  Single(rows', Courses' \cup P, Owing') /\ Unsubmitted'
<1> DEFINE C == Courses \cup P
           D == Courses' \cup P
           Goal == Single(rows', D, Owing') /\ Unsubmitted'
<1>0. /\ Step /\ PlaceOK /\ TableOK(rows, born) /\ UNCHANGED <<task, drain, status, conn>>
  BY PlacementStep DEF Refs, workerVars
<1>a. /\ born \in Nat /\ (Room => born < MaxRows) /\ Next1 = born + 1 /\ C \subseteq 1..born
      /\ Globals(rows) \subseteq 1..born
  <2>1. born \in Nat /\ (Room => born < MaxRows) /\ Next1 = born + 1
    BY <1>0, RowBound DEF TableOK, Room, Next1
  <2>2. C \subseteq 1..born /\ Globals(rows) \subseteq 1..born
    BY CoursesBorn
  <2> QED BY <2>1, <2>2
<1>b. /\ Owing' \subseteq Owing /\ \A i \in Ids : Active(i)' => Active(i)
  BY <1>0, OwingFrame, ActiveFrame
<1>c. ASSUME Ebbs(rows, rows'), born' = born,
             \A j \in Jobs : place'[j].pc \in {"idle", "created"} => place[j].pc \in {"idle", "created"}
      PROVE  Goal
  <2>1. Courses' \subseteq Courses
    BY <1>0, <1>b, <1>c, CoursesEbb
  <2>2. Single(rows', D, Owing')
    BY <1>0, <1>a, <1>b, <1>c, <2>1, SingleEbb DEF Ebb
  <2>3. Unsubmitted'
    BY <1>0, <1>c, UnsubmittedFrame
  <2> QED BY <2>2, <2>3
<1>d. ASSUME UNCHANGED tableVars,
             \A j \in Jobs : place'[j].pc \in {"idle", "created"} => place[j].pc \in {"idle", "created"}
      PROVE  Goal
  BY <1>c, <1>d, SameEbbs DEF tableVars
<1>f. "dispatcher" \in Placers /\ Jobs \subseteq Placers /\ "dispatcher" \notin Jobs
  BY PlacerNames DEF Placers
<1>1. ASSUME NEW j \in Jobs, SubmitCreate(j) \/ SubmitPick(j) PROVE Goal
  <2>1. UNCHANGED tableVars
    BY <1>1 DEF SubmitCreate, SubmitPick
  <2>2. \A k \in Jobs : place'[k].pc \in {"idle", "created"} => place[k].pc \in {"idle", "created"}
    BY <1>0, <1>1, <1>f DEF SubmitCreate, SubmitPick, PlaceOK, NoPlace
  <2> QED BY <1>d, <2>1, <2>2
<1>2. ASSUME NEW j \in Jobs, SubmitEnqueue(j) PROVE Goal
  <2>1. /\ born < MaxRows /\ rows' = Submit(rows, born + 1, "global", j, 0, 0) /\ born' = born + 1
        /\ place' = [place EXCEPT ![j].pc = "pick", ![j].row = born + 1] /\ place[j].pc = "created"
    BY <1>2, <1>a DEF SubmitEnqueue
  <2>2. \A i \in 1..born : rows[i].job # j
    BY <2>1 DEF Unsubmitted
  <2>3. EbbsBut(rows, rows', born + 1) /\ rows'[born + 1].q = "global" /\ rows'[born + 1].job = j
    BY <1>0, <2>1, SubmitEbbs
  <2>4. D \subseteq C
    BY <1>0, <1>b, <2>3, CoursesBut DEF Courses
  <2>5. \A y \in Owing : y[3] # j
    <3>1. \A i \in Ids : task[i].pc = "resubmit" => JobOf(i) # j
      BY <2>2 DEF Refs, TaskOK, JobOf
    <3>2. \A w \in Workers : drain[w].pc = "resubmit" => InDrain(w) # j
      BY <2>2 DEF Refs, DrainOK, InDrain, JobOf
    <3> QED BY <3>1, <3>2 DEF Owing
  <2>6. \A y \in Owing' : y[3] # j
    BY <1>b, <2>5
  <2>7. Single(rows', D, Owing')
    BY <1>0, <1>a, <1>b, <2>1, <2>2, <2>4, <2>6, SingleNewAnchor
  <2>8. place'[j].pc = "pick" /\ \A k \in Jobs : k # j => place'[k] = place[k]
    BY <1>0, <1>f, <2>1 DEF PlaceOK
  <2>9. Unsubmitted'
    BY <1>0, <2>1, <2>3, <2>8, UnsubmittedFrame
  <2> QED BY <2>7, <2>9
<1>3. ASSUME NEW p \in Placers, PlaceCommit(p) PROVE Goal
  <2> DEFINE i == place[p].row
             q == place[p].target
  <2>1. i \in 1..born /\ rows[i].q = "global"
    BY <1>0, <1>3 DEF PlaceCommit, PlaceOK, LeakInv, PlaceGlobal
  <2>2. \/ UNCHANGED tableVars
        \/ Visible(rows, i) /\ born < MaxRows /\ rows' = LeaseAndSubmit(rows, i, born + 1, q)
           /\ born' = born + 1
    BY <1>3, <1>a DEF PlaceCommit
  <2>3. \A k \in Jobs : place'[k].pc \in {"idle", "created"} => place[k].pc \in {"idle", "created"}
    BY <1>0, <1>3, <1>f DEF PlaceCommit, PlaceOK, NoPlace
  <2> HIDE DEF i, q
  <2>4. CASE UNCHANGED tableVars
    BY <1>d, <2>3, <2>4
  <2>5. CASE Visible(rows, i) /\ born < MaxRows /\ rows' = LeaseAndSubmit(rows, i, born + 1, q)
             /\ born' = born + 1
    <3>1. q # "global"
      BY <1>3, QueueNames DEF Targets, PlaceCommit, q
    <3>2. /\ EbbsBut(rows, rows', born + 1) /\ rows'[born + 1].job = rows[i].job
      BY <1>0, <1>a, <1>b, <2>1, <2>5, <3>1, LeaseAndSubmitEbbs
    <3>3. D \subseteq C \cup {born + 1}
      BY <1>0, <1>b, <3>2, CoursesBut
    <3>4. Single(rows', D, Owing')
      BY <1>0, <1>a, <1>b, <2>1, <2>5, <3>1, <3>3, SingleNewCourse
    <3>5. Unsubmitted'
      BY <1>0, <2>1, <2>3, <2>5, <3>2, UnsubmittedFrame
    <3> QED BY <3>4, <3>5
  <2> QED BY <2>2, <2>4, <2>5
<1>4. ASSUME NEW i \in Ids, DispatcherPick(i) \/ Unbenchable(i) \/ (\E w \in Workers : StealPick(i, w))
      PROVE  Goal
  <2>1. UNCHANGED tableVars
    BY <1>4 DEF DispatcherPick, Unbenchable, StealPick
  <2>2. \A k \in Jobs : place'[k] = place[k]
    <3>1. CASE DispatcherPick(i)
      BY <1>0, <1>f, <3>1 DEF DispatcherPick, PlaceOK
    <3>2. CASE Unbenchable(i)
      BY <1>0, <1>f, <3>2 DEF Unbenchable, PlaceOK
    <3>3. ASSUME NEW w \in Workers, StealPick(i, w) PROVE \A k \in Jobs : place'[k] = place[k]
      BY <1>0, <1>f, <3>3 DEF StealPick, PlaceOK
    <3> QED BY <1>4, <3>1, <3>2, <3>3
  <2> QED BY <1>d, <2>1, <2>2
<1>5. CASE FailUnbenchable
  <2>1. UNCHANGED tableVars /\ place' = [place EXCEPT !["dispatcher"].pc = "delete"]
    BY <1>5 DEF FailUnbenchable
  <2> QED BY <1>0, <1>d, <1>f, <2>1 DEF PlaceOK
<1>6. CASE DeleteUnbenchable
  <2>1. /\ rows' = Delete(rows, {place["dispatcher"].row}) /\ born' = born
        /\ place' = [place EXCEPT !["dispatcher"] = NoPlace]
    BY <1>6 DEF DeleteUnbenchable
  <2>2. Ebbs(rows, rows')
    BY <1>0, <2>1, DeleteEbbs
  <2>3. \A k \in Jobs : place'[k] = place[k]
    BY <1>0, <1>f, <2>1 DEF PlaceOK
  <2> QED BY <1>c, <2>1, <2>2, <2>3
<1>7. CASE StealCommit
  <2> DEFINE i == place["dispatcher"].row
             q == place["dispatcher"].target
  <2>1. i \in 1..born /\ rows[i].q # "global" /\ i \in Ids /\ q # "global"
    BY <1>0, <1>7, <1>f, BornIds, QueueNames DEF StealCommit, PlaceOK, Targets
  <2>2. \/ UNCHANGED tableVars
        \/ Visible(rows, i) /\ born < MaxRows /\ rows' = MoveTo(rows, i, born + 1, q)
           /\ born' = born + 1
    BY <1>7, <1>a DEF StealCommit
  <2>3. \A k \in Jobs : place'[k] = place[k]
    BY <1>0, <1>7, <1>f DEF StealCommit, PlaceOK
  <2> HIDE DEF i, q
  <2>4. CASE UNCHANGED tableVars
    BY <1>d, <2>3, <2>4
  <2>5. CASE Visible(rows, i) /\ born < MaxRows /\ rows' = MoveTo(rows, i, born + 1, q)
             /\ born' = born + 1
    <3>1. i \in C /\ P = {} /\ ~Active(i)
      BY <1>7, <2>1, <2>5 DEF Courses, Live, Visible, Active, LeakInv, TasksHeld, Held, Going, PreAssign
    <3>2. /\ EbbsBut(rows, rows', born + 1) /\ rows'[born + 1].job = rows[i].job
          /\ ~Live(rows', i)
      BY <1>0, <1>a, <2>1, <2>5, MoveToEbbs
    <3>3. D \subseteq (C \ {i}) \cup {born + 1}
      BY <1>0, <1>b, <2>1, <3>1, <3>2, CoursesBut DEF Courses
    <3>4. Single(rows', D, Owing')
      BY <1>0, <1>a, <1>b, <2>1, <2>5, <3>1, <3>3, SingleNewRow
    <3>5. Unsubmitted'
      BY <1>0, <2>1, <2>3, <2>5, <3>2, UnsubmittedFrame
    <3> QED BY <3>4, <3>5
  <2> QED BY <2>2, <2>4, <2>5
<1>8. Goal
  BY <1>1, <1>2, <1>3, <1>4, <1>5, <1>6, <1>7 DEF Placement, Placers
<1> QED BY <1>8

\* What a step of dispatch i does to the dispatches: it moves its own, starts none, and owes a resubmission
\* only after a failed load.
LEMMA RunMoves ==
  ASSUME TaskOK, NEW i \in Ids, Run(i)
  PROVE  /\ \A k \in Ids : k # i => task'[k] = task[k]
         /\ task'[i].pc \in Going => task[i].pc \in Going /\ task'[i].conn = task[i].conn
         /\ task'[i].pc \in PreAssign => task[i].pc \in PreAssign
         /\ task'[i].pc # "none" => task[i].pc # "none" /\ task'[i].conn = task[i].conn
         /\ task'[i].pc = "resubmit" => task[i].pc = "resubmit" \/ LoadFails(i)
<1> DEFINE Goal == /\ \A k \in Ids : k # i => task'[k] = task[k]
                   /\ task'[i].pc \in Going => task[i].pc \in Going /\ task'[i].conn = task[i].conn
                   /\ task'[i].pc \in PreAssign => task[i].pc \in PreAssign
                   /\ task'[i].pc # "none" => task[i].pc # "none" /\ task'[i].conn = task[i].conn
                   /\ task'[i].pc = "resubmit" => task[i].pc = "resubmit" \/ LoadFails(i)
<1> USE DEF Going, PreAssign
<1>a. ASSUME NEW pc, Goto(i, pc)
      PROVE  /\ task'[i].pc = pc /\ task'[i].conn = task[i].conn
             /\ \A k \in Ids : k # i => task'[k] = task[k]
  BY <1>a DEF TaskOK, Goto
<1>b. ASSUME NEW pc, Goto(i, pc), pc # "resubmit", task[i].pc # "none",
             pc \in Going => task[i].pc \in Going, pc \in PreAssign => task[i].pc \in PreAssign
      PROVE  Goal
  BY <1>a, <1>b
<1>c. ASSUME Finish(i) PROVE Goal
  BY <1>c DEF TaskOK, Finish, NoTask
<1>1. CASE Lookup(i) \/ GatePass(i) \/ LoadDone(i) \/ StartInflight(i)
  <2>1. CASE Lookup(i)
    BY <1>b, <2>1 DEF Lookup
  <2>2. CASE GatePass(i) \/ LoadDone(i)
    BY <1>b, <2>2 DEF GatePass, LoadDone
  <2>3. CASE StartInflight(i)
    BY <1>b, <2>3 DEF StartInflight
  <2> QED BY <1>1, <2>1, <2>2, <2>3
<1>2. CASE GateBounce(i) \/ LeaveDispatch(i) \/ PumpLeave(i) \/ DeleteBothRows(i)
  BY <1>2, <1>c DEF GateBounce, LeaveDispatch, PumpLeave, DeleteBothRows
<1>3. CASE LoadFails(i)
  <2>1. task[i].pc = "load" /\ (Goto(i, "resubmit") \/ Goto(i, "cleanup"))
    BY <1>3 DEF LoadFails
  <2> QED BY <1>3, <1>a, <2>1
<1>4. CASE LoadResubmit(i) \/ AbortDispatch(i) \/ ProcessingResult(i)
  BY <1>4, <1>b DEF LoadResubmit, AbortDispatch, ProcessingResult
<1>5. CASE AssignJob(i) \/ AssignFails(i) \/ Unassign(i) \/ StartPump(i)
  BY <1>5, <1>b DEF AssignJob, AssignFails, Unassign, StartPump
<1>6. CASE CleanupRows(i)
  <2>1. task[i].pc \in {"discard", "cleanup"} /\ (Finish(i) \/ Goto(i, "leave"))
    BY <1>6 DEF CleanupRows
  <2> QED BY <1>b, <1>c, <2>1
<1>7. CASE FinishInflight(i) \/ PumpSettle(i)
  BY <1>7, <1>b DEF FinishInflight, PumpSettle
<1>8. CASE ReadCancel(i) \/ \E kind \in {"done", "error", "lost"} : StreamEnds(i, kind)
  BY <1>8 DEF ReadCancel, StreamEnds, TaskOK
<1>9. CASE DeferEnds(i)
  BY <1>9 DEF DeferEnds
<1> QED BY <1>1, <1>2, <1>3, <1>4, <1>5, <1>6, <1>7, <1>8, <1>9 DEF Run

\* Row i of C, with its anchor, makes way for a new anchor once somebody who owes it
\* has inserted it.
LEMMA SinglePaid ==
  ASSUME Refs, LeakInv, Step, NEW C, NEW D, C \subseteq 1..born, D \subseteq C,
         Single(rows, C, Owing), born < MaxRows, NEW x \in Owing, NEW n,
         rows' = Submit(rows, born + 1, "global", x[3], 0, n),
         Owing' \subseteq Owing, x \notin Owing'
  PROVE  Single(rows', D, Owing')
<1>1. /\ \A m \in C : rows[m].job # x[3]
      /\ \A g \in Globals(rows) : rows[g].job # x[3]
      /\ \A y \in Owing : y[3] = x[3] => y = x
  BY DEF Single
<1>2. \A y \in Owing' : y[3] # x[3]
  BY <1>1
<1> QED BY <1>1, <1>2, SingleNewAnchor

\* What a dispatch does: its row and its anchor ebb, or a failed load turns them into a
\* debt, or it pays the debt.
LEMMA OnceRun ==
  ASSUME Refs, LeakInv, Unsubmitted, NEW i \in Ids, Run(i), NEW P, P \subseteq 1..born,
         Single(rows, Courses \cup P, Owing),
         task[i].pc # "resubmit" /\ task'[i].pc = "resubmit" => Sole(i, Courses \cup P) /\ i \notin P
  PROVE  Single(rows', Courses' \cup P, Owing') /\ Unsubmitted'
<1> DEFINE C == Courses \cup P
           D == Courses' \cup P
<1>0. /\ Step /\ TaskOK /\ TableOK(rows, born) /\ UNCHANGED <<place, drain, status, conn>>
  BY RunStep DEF Refs, Others, workerVars
<1>a. C \subseteq 1..born /\ born \in Nat
  BY CoursesBorn, BornIds
<1>b. /\ \A k \in Ids : k # i => task'[k] = task[k]
      /\ task'[i].pc \in Going => task[i].pc \in Going /\ task'[i].conn = task[i].conn
      /\ task'[i].pc = "resubmit" => task[i].pc = "resubmit" \/ LoadFails(i)
  BY <1>0, RunMoves
<1>c. ASSUME NEW k \in Ids, Active(k)' PROVE Active(k)
  <2>1. task[k].pc \in Going /\ task'[k].conn = task[k].conn
    BY <1>b, <1>c DEF Active
  <2> QED BY <1>0, <1>c, <2>1, ActiveStays
<1>d. task[i].pc # "none" => i \in 1..born /\ rows[i].q # "global"
  BY DEF Refs, TaskOK, LeakInv, TasksHeld, Held
<1>e. (task'[i].pc = "resubmit" => task[i].pc = "resubmit") => Owing' \subseteq Owing
  BY <1>0, <1>b, OwingEbb
<1>f. ASSUME Ebbs(rows, rows') PROVE Courses' \subseteq Courses
  BY <1>0, <1>c, <1>f, CoursesEbb
<1>g. ASSUME Ebbs(rows, rows'), task'[i].pc = "resubmit" => task[i].pc = "resubmit"
      PROVE  Single(rows', D, Owing')
  BY <1>0, <1>a, <1>e, <1>f, <1>g, SingleEbb DEF Ebb
<1>h. ASSUME born' = born PROVE Unsubmitted'
  BY <1>0, <1>h, UnsubmittedFrame
<1>i. Ebbs(rows, DeleteBoth(rows, i))
  BY <1>0, DeleteEbbs DEF DeleteBoth
<1> SUFFICES Single(rows', D, Owing') /\ Unsubmitted'
  OBVIOUS
<1> HIDE DEF D
<1>1. CASE LoadFails(i)
  <2>0. task[i].pc = "load" /\ born' = born
    BY <1>1 DEF LoadFails
  <2>1. CASE rows' = DeleteBoth(rows, i) /\ Goto(i, "resubmit")
    <3>1. task'[i].pc = "resubmit" /\ Sole(i, C) /\ i \notin P
      BY <1>0, <2>0, <2>1 DEF TaskOK, Goto
    <3>2. ~Live(rows', i) /\ ~Active(i)'
      BY <1>0, <2>1, <3>1, DeleteEbbs DEF DeleteBoth, Active, Going, PreAssign
    <3>3. D \subseteq C \ {i}
      BY <1>f, <1>i, <2>1, <3>1, <3>2 DEF D, Courses
    <3> DEFINE x == <<"task", i, rows[i].job>>
    <3>4. Owing' \subseteq Owing \cup {x}
      BY <1>0, <1>b, <1>d, <2>0, OwingBut
    <3>5. x[3] = rows[i].job
      OBVIOUS
    <3> HIDE DEF x
    <3>6. Single(rows', D, Owing')
      BY <1>0, <1>a, <1>d, <2>0, <2>1, <3>1, <3>3, <3>4, <3>5, SingleRequeued
    <3> QED BY <1>h, <2>0, <3>6
  <2>2. CASE rows' = rows /\ Goto(i, "cleanup")
    <3>1. task'[i].pc = "cleanup"
      BY <1>0, <2>2 DEF TaskOK, Goto
    <3> QED BY <1>g, <1>h, <2>0, <2>2, <3>1, SameEbbs
  <2> QED BY <1>1, <2>1, <2>2 DEF LoadFails
<1>2. CASE LoadResubmit(i)
  <2> DEFINE x == <<"task", i, rows[i].job>>
  <2>1. /\ born < MaxRows /\ born' = born + 1 /\ task[i].pc = "resubmit" /\ Goto(i, "leave")
        /\ rows' = Submit(rows, born + 1, "global", x[3], 0, rows[i].attempts + 1)
    BY <1>0, <1>2, <1>a, RowBound DEF LoadResubmit, Room, Next1, TableOK, JobOf
  <2>2. x \in Owing
    BY <2>1 DEF Owing, JobOf
  <2>3. task'[i].pc = "leave"
    BY <1>0, <2>1 DEF TaskOK, Goto
  <2>4. x \notin Owing'
    BY <2>3 DEF Owing
  <2>5. x[3] = rows[i].job
    OBVIOUS
  <2> HIDE DEF x
  <2>6. EbbsBut(rows, rows', born + 1) /\ rows'[born + 1].q = "global" /\ rows'[born + 1].job = x[3]
    BY <1>0, <2>1, SubmitEbbs
  <2>7. D \subseteq C
    BY <1>0, <1>c, <2>6, CoursesBut DEF D, Courses
  <2>8. Single(rows', D, Owing')
    BY <1>0, <1>a, <1>e, <2>1, <2>2, <2>4, <2>7, SinglePaid
  <2>9. Unsubmitted'
    BY <1>0, <1>d, <2>1, <2>5, <2>6, UnsubmittedFrame
  <2> QED BY <2>8, <2>9
<1>3. CASE GateBounce(i)
  <2>1. task[i].pc = "gate" /\ rows' = Defer(rows, i) /\ born' = born /\ Finish(i)
    BY <1>3 DEF GateBounce
  <2>2. Ebbs(rows, rows')
    <3>1. CASE Live(rows, i)
      <4>1. rows' = Relet(rows, i, "deferred")
        BY <2>1, <3>1 DEF Defer, Relet
      <4> QED BY <1>0, <1>d, <2>1, <3>1, <4>1, ReletEbbs
    <3>2. CASE ~Live(rows, i)
      <4>1. \A k \in Ids : rows'[k].lease = rows[k].lease
        BY <1>0, <2>1, <3>2 DEF Defer, TableOK, Row
      <4> QED BY <4>1 DEF Ebbs, Live, Closed
    <3> QED BY <3>1, <3>2
  <2>3. task'[i].pc # "resubmit"
    BY <1>0, <2>1 DEF TaskOK, Finish, NoTask
  <2> QED BY <1>g, <1>h, <2>1, <2>2, <2>3
<1>4. CASE DeferEnds(i)
  <2>1. /\ rows[i].lease = "deferred" /\ rows' = Relet(rows, i, "free") /\ UNCHANGED <<born, task>>
    BY <1>4 DEF DeferEnds, Relet
  <2>2. Ebbs(rows, rows')
    BY <1>0, <2>1, ReletEbbs DEF Live, Closed
  <2> QED BY <1>g, <1>h, <2>1, <2>2
<1>5. CASE CleanupRows(i) \/ DeleteBothRows(i)
  <2>1. rows' = DeleteBoth(rows, i) /\ born' = born
    BY <1>5 DEF CleanupRows, DeleteBothRows
  <2>2. task'[i].pc = "resubmit" => task[i].pc = "resubmit"
    BY <1>5, <1>b DEF CleanupRows, DeleteBothRows, LoadFails
  <2> QED BY <1>g, <1>h, <1>i, <2>1, <2>2
<1>6. CASE ~LoadFails(i) /\ UNCHANGED tableVars
  BY <1>b, <1>g, <1>h, <1>6, SameEbbs DEF tableVars
<1>7. \/ LoadFails(i) \/ LoadResubmit(i) \/ GateBounce(i) \/ DeferEnds(i)
      \/ CleanupRows(i) \/ DeleteBothRows(i) \/ UNCHANGED tableVars
  BY DEF Run, Lookup, GatePass, LoadDone, StartInflight, AbortDispatch, ProcessingResult, AssignJob,
         AssignFails, Unassign, StartPump, LeaveDispatch, ReadCancel, FinishInflight, PumpSettle,
         PumpLeave, StreamEnds
<1> QED BY <1>1, <1>2, <1>3, <1>4, <1>5, <1>6, <1>7

\* What a drain does: rows that it has found ebb, a pending one goes back to the global
\* queue, a leased one becomes a debt, which is then paid.  Q is what the drains are
\* about to act on after the step.
LEMMA OnceDrain ==
  ASSUME Refs, LeakInv, Unsubmitted, NEW w \in Workers, DrainQueue(w), NEW P, NEW Q,
         P \subseteq 1..born, Q \subseteq Courses \cup P, Single(rows, Courses \cup P, Owing),
         DrainRelease(w) \/ DrainRequeue(w) =>
           /\ Sole(drain[w].row, Courses \cup P) /\ drain[w].row \notin Q
           /\ ~Active(drain[w].row)
  PROVE  Single(rows', Courses' \cup Q, Owing') /\ Unsubmitted'
<1> DEFINE C == Courses \cup P
           D == Courses' \cup Q
           d == drain[w].row
<1>0. /\ Step /\ DrainOK /\ TableOK(rows, born) /\ UNCHANGED <<place, task, status, conn>>
  BY DrainQueueStep DEF Refs, DrainOthers, workerVars
<1>a. C \subseteq 1..born /\ born \in Nat
  BY CoursesBorn, BornIds
<1>b. \A k \in Ids : Active(k)' => Active(k)
  BY <1>0, ActiveFrame
<1>c. \A v \in Workers : v # w => drain'[v] = drain[v]
  BY <1>0, ZenonT(60) DEF DrainQueue, DrainPeek, DrainDrop, DrainRelease, DrainExhausted, DrainRequeue,
              DrainResubmit, DrainRevert, DrainEnd, DrainCheck, DrainNext, DrainOK
<1>d. drain[w].pc \in {"act", "drop", "resubmit", "revert"} => d \in 1..born /\ rows[d].q # "global"
  BY <1>0, QueueNames DEF DrainOK
<1>e. ASSUME drain'[w].pc # "resubmit" PROVE Owing' \subseteq Owing
  BY <1>0, <1>c, <1>e, OwingEbb
<1>f. ASSUME Ebbs(rows, rows'), born' = born, drain'[w].pc # "resubmit"
      PROVE  Single(rows', D, Owing') /\ Unsubmitted'
  <2>1. Courses' \subseteq Courses
    BY <1>0, <1>b, <1>f, CoursesEbb
  <2>2. Single(rows', D, Owing')
    BY <1>0, <1>a, <1>e, <1>f, <2>1, SingleEbb DEF Ebb
  <2> QED BY <1>0, <1>f, <2>2, UnsubmittedFrame
<1> SUFFICES Single(rows', D, Owing') /\ Unsubmitted'
  OBVIOUS
<1> HIDE DEF D
<1>1. CASE DrainRelease(w)
  <2>1. /\ rows' = DeleteAndReleaseLease(rows, d) /\ DrainNext(w) /\ born' = born
        /\ drain[w].pc = "act"
    BY <1>1 DEF DrainRelease
  <2>2. d \in 1..born /\ d \in Ids /\ rows[d].q # "global" /\ rows[d].anchor # d
    BY <1>d, <2>1, BornIds, AnchorIsGlobal
  <2>3. drain'[w].pc # "resubmit"
    BY <1>0, <2>1 DEF DrainNext, DrainOK
  <2>4. (\A k \in Ids : Live(rows', k) => Live(rows, k)) /\ ~Live(rows', d)
    BY <1>0, <2>1, <2>2, ReleaseEbbs
  <2>5. ASSUME NEW k \in Courses' PROVE k \in Courses /\ k # d
    <3>1. k \in Ids /\ (Live(rows, k) \/ Active(k)) /\ rows'[k].q # "global" /\ k # d
      BY <1>1, <1>b, <2>4, <2>5 DEF Courses
    <3>2. k \in 1..born
      BY <3>1, BornIds DEF Active, Refs, TaskOK, Going, PreAssign
    <3>3. rows'[k].q = rows[k].q
      BY <1>0, <3>2 DEF Step, TableStep, Same
    <3> QED BY <3>1, <3>3 DEF Courses
  <2>6. D \subseteq C \ {d}
    BY <1>1, <2>5 DEF D
  <2>7. Single(rows', D, Owing')
    BY <1>0, <1>1, <1>a, <1>e, <2>1, <2>2, <2>3, <2>6, SingleReleased
  <2> QED BY <1>0, <2>1, <2>7, UnsubmittedFrame
<1>2. CASE DrainRequeue(w)
  <2>1. rows' = DeleteBoth(rows, d) /\ born' = born /\ drain[w].pc = "act"
        /\ drain'[w].pc = "resubmit" /\ drain'[w].row = d
    BY <1>0, <1>2 DEF DrainRequeue, DrainOK
  <2>2. d \in 1..born /\ d \in Ids
    BY <1>d, <2>1, BornIds
  <2>3. Ebbs(rows, rows') /\ ~Live(rows', d)
    BY <1>0, <2>1, <2>2, DeleteEbbs DEF DeleteBoth
  <2>4. D \subseteq C \ {d}
    <3>1. Courses' \subseteq Courses
      BY <1>0, <1>b, <2>3, CoursesEbb
    <3>2. d \notin Courses'
      BY <1>2, <1>b, <2>2, <2>3 DEF Courses
    <3> QED BY <1>2, <3>1, <3>2 DEF D
  <2> DEFINE x == <<"drain", w, rows[d].job>>
  <2>5. Owing' \subseteq Owing \cup {x}
    BY <1>0, <1>c, <2>1, <2>2, OwingByDrain
  <2>6. x[3] = rows[d].job
    OBVIOUS
  <2> HIDE DEF x
  <2>7. Single(rows', D, Owing')
    BY <1>0, <1>2, <1>a, <2>1, <2>2, <2>4, <2>5, <2>6, SingleRequeued
  <2> QED BY <1>0, <2>1, <2>7, UnsubmittedFrame
<1>3. CASE DrainResubmit(w)
  <2> DEFINE x == <<"drain", w, rows[d].job>>
  <2>1. /\ born < MaxRows /\ born' = born + 1 /\ drain[w].pc = "resubmit"
        /\ rows' = Submit(rows, born + 1, "global", x[3], 0, rows[d].attempts + 1)
        /\ drain'[w].pc = "revert"
    BY <1>0, <1>3, <1>a, RowBound DEF DrainResubmit, Room, Next1, TableOK, InDrain, JobOf, DrainOK
  <2>2. x \in Owing
    BY <2>1 DEF Owing, InDrain, JobOf
  <2>4. x \notin Owing'
    BY <2>1 DEF Owing
  <2>5. x[3] = rows[d].job
    OBVIOUS
  <2> HIDE DEF x
  <2>6. EbbsBut(rows, rows', born + 1) /\ rows'[born + 1].q = "global" /\ rows'[born + 1].job = x[3]
    BY <1>0, <2>1, SubmitEbbs
  <2>7. D \subseteq C
    BY <1>0, <1>b, <2>6, CoursesBut DEF D, Courses
  <2>8. Single(rows', D, Owing')
    BY <1>0, <1>a, <1>e, <2>1, <2>2, <2>4, <2>7, SinglePaid
  <2>9. Unsubmitted'
    BY <1>0, <1>d, <2>1, <2>5, <2>6, UnsubmittedFrame
  <2> QED BY <2>8, <2>9
<1>4. CASE DrainDrop(w)
  <2>1. rows' = DeleteBoth(rows, d) /\ born' = born /\ DrainNext(w)
    BY <1>4 DEF DrainDrop
  <2>2. drain'[w].pc # "resubmit"
    BY <1>0, <2>1 DEF DrainNext, DrainOK
  <2> QED BY <1>0, <1>f, <2>1, <2>2, DeleteEbbs DEF DeleteBoth
<1>5. CASE DrainPeek(w) \/ DrainExhausted(w) \/ DrainRevert(w) \/ DrainEnd(w)
           \/ \E i \in Ids : DrainCheck(w, i)
  <2>1. rows' = rows /\ born' = born
    BY <1>5 DEF DrainPeek, DrainExhausted, DrainRevert, DrainEnd, DrainCheck, tableVars
  <2>2. drain'[w].pc # "resubmit"
    <3>1. CASE DrainPeek(w)
      <4>1. PICK h, t : drain' = [drain EXCEPT ![w].pc = "loop", ![w].hot = h, ![w].todo = t]
        BY <3>1 DEF DrainPeek
      <4> QED BY <1>0, <4>1 DEF DrainOK
    <3>2. CASE DrainExhausted(w) \/ DrainRevert(w)
      BY <1>0, <3>2 DEF DrainExhausted, DrainRevert, DrainNext, DrainOK
    <3>3. CASE DrainEnd(w)
      BY <1>0, <3>3 DEF DrainEnd, NoDrain, DrainOK
    <3>4. ASSUME NEW i \in Ids, DrainCheck(w, i) PROVE drain'[w].pc # "resubmit"
      BY <1>0, <3>4 DEF DrainCheck, DrainOK
    <3> QED BY <1>5, <3>1, <3>2, <3>3, <3>4
  <2> QED BY <1>f, <2>1, <2>2, SameEbbs
<1> QED BY <1>1, <1>2, <1>3, <1>4, <1>5 DEF DrainQueue

\* Steps that move neither rows nor dispatches nor debts, and revive no dispatch.
LEMMA OnceQuiet ==
  ASSUME Refs, LeakInv, Unsubmitted, Step, UNCHANGED <<tableVars, place, task>>,
         \A w \in Workers : drain'[w].pc = "resubmit" =>
           drain[w].pc = "resubmit" /\ drain'[w].row = drain[w].row,
         \A i \in Ids : Active(i)' => Active(i),
         NEW P, P \subseteq 1..born, Single(rows, Courses \cup P, Owing)
  PROVE  Single(rows', Courses' \cup P, Owing') /\ Unsubmitted'
<1>1. Ebbs(rows, rows') /\ born' = born
  BY SameEbbs DEF tableVars
<1>2. Courses' \subseteq Courses
  BY <1>1, CoursesEbb
<1>3. Owing' \subseteq Owing
  BY OwingEbb
<1>4. Single(rows', Courses' \cup P, Owing')
  BY <1>1, <1>2, <1>3, CoursesBorn, SingleEbb DEF Ebb
<1> QED BY <1>1, <1>4, UnsubmittedFrame

\* A drainer leases a row that was live.
LEMMA OnceLease ==
  ASSUME Refs, LeakInv, Unsubmitted, NEW w \in Workers, NEW i \in Ids, LeaseAndDispatch(w, i),
         NEW P, P \subseteq 1..born, Single(rows, Courses \cup P, Owing)
  PROVE  Single(rows', Courses' \cup P, Owing') /\ Unsubmitted'
<1>0. /\ Step /\ TaskOK /\ TableOK(rows, born) /\ UNCHANGED <<born, place, drain, status, conn>>
  BY LeaseStep DEF Refs, workerVars, LeaseAndDispatch
<1>1. CASE Visible(rows, i)
  <2>1. /\ rows' = Relet(rows, i, "leased") /\ Live(rows, i)
        /\ \A k \in Ids : k # i => task'[k] = task[k]
        /\ task'[i].pc = "lookup"
    BY <1>0, <1>1 DEF LeaseAndDispatch, LeaseByID, Relet, Visible, Live, NoTask, TaskOK
  <2>2. Ebbs(rows, rows')
    BY <1>0, <2>1, ReletEbbs
  <2>3. \A k \in Ids : Active(k)' => Active(k) \/ Live(rows, k)
    <3> SUFFICES ASSUME NEW k \in Ids, Active(k)', k # i PROVE Active(k)
      BY <2>1
    <3>1. task[k].pc \in Going /\ task'[k].conn = task[k].conn
      BY <2>1 DEF Active
    <3> QED BY <1>0, <3>1, ActiveStays
  <2>4. Courses' \subseteq Courses
    BY <1>0, <2>2, <2>3, CoursesEbb
  <2>5. Owing' \subseteq Owing
    BY <1>0, <2>1, OwingEbb
  <2>6. Single(rows', Courses' \cup P, Owing')
    BY <1>0, <2>2, <2>4, <2>5, CoursesBorn, SingleEbb DEF Ebb
  <2> QED BY <1>0, <2>6, UnsubmittedFrame
<1>2. CASE ~Visible(rows, i)
  <2>1. UNCHANGED <<tableVars, task>>
    BY <1>0, <1>2 DEF LeaseAndDispatch, tableVars
  <2> QED BY <1>0, <2>1, ActiveFrame, OnceQuiet
<1> QED BY <1>1, <1>2

\* A cancel deletes a row and its anchor.
LEMMA OnceCancel ==
  ASSUME Refs, LeakInv, Unsubmitted, NEW j \in Jobs, Cancel(j),
         NEW P, P \subseteq 1..born, Single(rows, Courses \cup P, Owing)
  PROVE  Single(rows', Courses' \cup P, Owing') /\ Unsubmitted'
<1>0. Step /\ TableOK(rows, born) /\ UNCHANGED <<place, task, drain, status, conn>>
  BY CancelStep DEF Refs, CancelOthers, workerVars
<1>1. CASE CancelDelete(j)
  <2>1. rows' = DeleteBoth(rows, cancel[j].row) /\ born' = born
    BY <1>1 DEF CancelDelete
  <2>2. Ebbs(rows, rows')
    BY <1>0, <2>1, DeleteEbbs DEF DeleteBoth
  <2>4. Courses' \subseteq Courses
    BY <1>0, <2>2, ActiveFrame, CoursesEbb
  <2>5. Owing' \subseteq Owing
    BY <1>0, OwingFrame
  <2>6. Single(rows', Courses' \cup P, Owing')
    BY <1>0, <2>2, <2>4, <2>5, CoursesBorn, SingleEbb DEF Ebb
  <2> QED BY <1>0, <2>1, <2>6, UnsubmittedFrame
<1>2. CASE ~CancelDelete(j)
  <2>1. UNCHANGED tableVars
    BY <1>2 DEF Cancel, CancelStart, CancelScanGlobal, CancelScanWorkers, CancelScan, CancelConfirm,
           CancelSettle, CancelMarker, CancelRunning, CancelRow
  <2> QED BY <1>0, <2>1, ActiveFrame, OnceQuiet
<1> QED BY <1>1, <1>2

\* An eviction gives back the row that it has found.
LEMMA OnceEvict ==
  ASSUME Refs, LeakInv, Unsubmitted, (\E i \in Ids : EvictFind(i)) \/ EvictCommit,
         NEW P, P \subseteq 1..born, Single(rows, Courses \cup P, Owing),
         EvictCommit => Sole(evict, Courses \cup P) /\ evict \notin P /\ ~Active(evict)
  PROVE  Single(rows', Courses' \cup P, Owing') /\ Unsubmitted'
<1>0. Step /\ TableOK(rows, born) /\ UNCHANGED <<place, task, drain, status, conn>>
  BY EvictStep DEF Refs, EvictOthers, workerVars
<1>1. CASE EvictCommit
  <2>1. rows' = DeleteAndReleaseLease(rows, evict) /\ born' = born /\ evict # 0
    BY <1>1 DEF EvictCommit
  <2>2. evict \in 1..born /\ evict \in Ids /\ rows[evict].q # "global" /\ rows[evict].anchor # evict
    BY <2>1, BornIds, AnchorIsGlobal DEF Refs, EvictOK
  <2>4. (\A k \in Ids : Live(rows', k) => Live(rows, k)) /\ ~Live(rows', evict)
    BY <1>0, <2>1, <2>2, ReleaseEbbs
  <2>5. ASSUME NEW k \in Courses' PROVE k \in Courses /\ k # evict
    <3>1. k \in Ids /\ (Live(rows, k) \/ Active(k)) /\ rows'[k].q # "global" /\ k # evict
      BY <1>0, <1>1, <2>4, <2>5, ActiveFrame DEF Courses
    <3>2. k \in 1..born
      BY <3>1, BornIds DEF Active, Refs, TaskOK, Going, PreAssign
    <3>3. rows'[k].q = rows[k].q
      BY <1>0, <3>2 DEF Step, TableStep, Same
    <3> QED BY <3>1, <3>3 DEF Courses
  <2>6. Courses' \cup P \subseteq (Courses \cup P) \ {evict}
    BY <1>1, <2>5
  <2>7. Owing' \subseteq Owing
    BY <1>0, OwingFrame
  <2>8. Single(rows', Courses' \cup P, Owing')
    BY <1>0, <1>1, <2>1, <2>2, <2>6, <2>7, CoursesBorn, SingleReleased
  <2> QED BY <1>0, <2>1, <2>8, UnsubmittedFrame
<1>2. CASE \E i \in Ids : EvictFind(i)
  <2>1. UNCHANGED tableVars
    BY <1>2 DEF EvictFind
  <2> QED BY <1>0, <2>1, ActiveFrame, OnceQuiet
<1> QED BY <1>1, <1>2

\* A connection that a worker makes is not the one of any dispatch.
LEMMA WorkerActive ==
  ASSUME Refs, LeakInv, ConnOK, NEW w \in Workers, Worker(w), NEW i \in Ids, Active(i)'
  PROVE  Active(i)
<1>a. Step /\ WorkersOK /\ UNCHANGED <<tableVars, task>>
  BY WorkerStep DEF Refs, Sched
<1>0. task[i].pc \in Going /\ rows'[i].q = rows[i].q /\ task[i].pc # "none"
      /\ rows[i].q \in Workers
  <2>1. task[i].pc \in Going /\ task[i].pc # "none" /\ rows' = rows
    BY <1>a DEF Active, Going, PreAssign, tableVars
  <2>2. rows[i].q # "global"
    BY <2>1 DEF LeakInv, TasksHeld, Held
  <2> QED BY <2>1, <2>2 DEF Refs, TableOK, Row, Queues
<1>1. status'[rows[i].q] = "online" /\ conn'[rows[i].q] = task[i].conn
  BY <1>a, <1>0 DEF Active, Alive, Online
<1>2. CASE Connect(w)
  <2>1. rows[i].q # w
    <3>1. conn'[w] = conn[w] + 1 /\ conn[w] \in Nat
      BY <1>a, <1>2 DEF Connect, WorkersOK
    <3>2. task[i].conn <= conn[rows[i].q] /\ task[i].conn \in Nat
      BY <1>0 DEF ConnOK, Refs, TaskOK
    <3> QED BY <1>1, <3>1, <3>2
  <2>2. status'[rows[i].q] = status[rows[i].q] /\ conn'[rows[i].q] = conn[rows[i].q]
    BY <1>a, <1>0, <1>2, <2>1 DEF Connect, WorkersOK
  <2> QED BY <1>0, <1>1, <2>2 DEF Active, Alive, Online
<1>3. CASE ~Connect(w)
  <2>1. conn' = conn /\ (status'[rows[i].q] = "online" => status[rows[i].q] = "online")
    BY <1>a, <1>0, <1>3 DEF Worker, OnWorkerConnected, SetOffline, Deregister, DisableDevices,
           EnableDevices, WorkersOK
  <2> QED BY <1>0, <1>1, <2>1 DEF Active, Alive, Online
<1> QED BY <1>2, <1>3

\* A worker that comes or goes adds no course.
LEMMA OnceWorker ==
  ASSUME Refs, LeakInv, Unsubmitted, ConnOK, NEW w \in Workers, Worker(w),
         NEW P, P \subseteq 1..born, Single(rows, Courses \cup P, Owing)
  PROVE  Single(rows', Courses' \cup P, Owing') /\ Unsubmitted'
<1>0. Step /\ WorkersOK /\ DrainOK /\ UNCHANGED <<tableVars, place, task>>
  BY WorkerStep DEF Refs, Sched
<1>1. ASSUME NEW v \in Workers, drain'[v].pc = "resubmit"
      PROVE  drain[v].pc = "resubmit" /\ drain'[v].row = drain[v].row
  <2>1. CASE drain' = drain
    BY <1>1, <2>1
  <2>2. CASE drain' # drain
    <3>1. Deregister(w) \/ DisableDevices(w)
      BY <2>2 DEF Worker, Connect, OnWorkerConnected, SetOffline, EnableDevices
    <3>2. /\ \A x \in Workers : x # w => drain'[x] = drain[x]
          /\ drain'[w].pc # "resubmit"
      <4>1. CASE Deregister(w)
        BY <1>0, <4>1 DEF Deregister, NoDrain, DrainOK
      <4>2. CASE DisableDevices(w)
        BY <1>0, <4>2 DEF DisableDevices, NoDrain, DrainOK
      <4> QED BY <3>1, <4>1, <4>2
    <3> QED BY <1>1, <3>2
  <2> QED BY <2>1, <2>2
<1>2. \A i \in Ids : Active(i)' => Active(i)
  BY WorkerActive
<1> QED BY <1>0, <1>1, <1>2, OnceQuiet

\* Every placer that comes to a commit has just picked an eligible worker.
LEMMA TargetsNext ==
  ASSUME Refs, Targets, Next
  PROVE  Targets'
<1>0. place \in [Placers -> PlaceRec] /\ "dispatcher" \in Placers /\ Jobs \subseteq Placers
      /\ Eligible \subseteq Workers
  BY DEF Refs, PlaceOK, PlaceRec, Placers, Eligible, WorkersOK
<1>a. ASSUME NEW p \in Placers, \A x \in Placers : x # p => place'[x] = place[x],
             place'[p].pc \in {"commit", "steal"} => place'[p].target \in Workers
      PROVE  Targets'
  BY <1>a DEF Targets
<1>b. ASSUME place' = place PROVE Targets'
  BY <1>b DEF Targets
<1>1. ASSUME NEW j \in Jobs, SubmitCreate(j) \/ SubmitEnqueue(j) \/ SubmitPick(j) PROVE Targets'
  <2>1. CASE SubmitCreate(j) \/ SubmitEnqueue(j)
    <3>1. place'[j].pc \in {"created", "pick"} /\ \A x \in Placers : x # j => place'[x] = place[x]
      BY <1>0, <2>1 DEF SubmitCreate, SubmitEnqueue, PlaceRec
    <3> QED BY <1>0, <1>a, <3>1
  <2>2. CASE SubmitPick(j)
    <3>1. \/ \E w \in Workers : place' = [place EXCEPT ![j].pc = "commit", ![j].target = w]
          \/ place' = [place EXCEPT ![j] = [NoPlace EXCEPT !.pc = "done"]]
      BY <1>0, <2>2 DEF SubmitPick
    <3>2. \A x \in Placers : x # j => place'[x] = place[x]
      BY <1>0, <3>1
    <3>3. place'[j].target \in Workers \/ place'[j].pc = "done"
      BY <1>0, <3>1 DEF NoPlace, PlaceRec
    <3> QED BY <1>0, <1>a, <3>2, <3>3
  <2> QED BY <1>1, <2>1, <2>2
<1>2. ASSUME NEW p \in Placers, PlaceCommit(p) PROVE Targets'
  <2>1. place'[p].pc \in {"idle", "done"} /\ \A x \in Placers : x # p => place'[x] = place[x]
    BY <1>0, <1>2 DEF PlaceCommit, NoPlace
  <2> QED BY <1>a, <2>1
<1>3. ASSUME NEW i \in Ids, DispatcherPick(i) \/ Unbenchable(i) \/ (\E w \in Workers : StealPick(i, w))
      PROVE  Targets'
  <2>1. \/ \E w \in Workers, pc \in {"commit", "steal"} :
             place' = [place EXCEPT !["dispatcher"] = [pc |-> pc, row |-> i, target |-> w]]
        \/ place' = [place EXCEPT !["dispatcher"] = [NoPlace EXCEPT !.pc = "fail", !.row = i]]
    BY <1>0, <1>3 DEF DispatcherPick, Unbenchable, StealPick
  <2>2. \A x \in Placers : x # "dispatcher" => place'[x] = place[x]
    BY <1>0, <2>1
  <2>3. place'["dispatcher"].target \in Workers \/ place'["dispatcher"].pc = "fail"
    <3>1. ASSUME NEW w \in Workers, NEW pc,
                 place' = [place EXCEPT !["dispatcher"] = [pc |-> pc, row |-> i, target |-> w]]
          PROVE  place'["dispatcher"].target \in Workers
      BY <1>0, <3>1
    <3>2. ASSUME place' = [place EXCEPT !["dispatcher"] = [NoPlace EXCEPT !.pc = "fail", !.row = i]]
          PROVE  place'["dispatcher"].pc = "fail"
      BY <1>0, <3>2 DEF NoPlace
    <3> QED BY <2>1, <3>1, <3>2
  <2> QED BY <1>0, <1>a, <2>2, <2>3
<1>4. CASE FailUnbenchable \/ DeleteUnbenchable \/ StealCommit
  <2>1. place'["dispatcher"].pc \in {"idle", "delete"}
        /\ \A x \in Placers : x # "dispatcher" => place'[x] = place[x]
    <3>1. CASE FailUnbenchable
      BY <1>0, <3>1 DEF FailUnbenchable, PlaceRec
    <3>2. CASE DeleteUnbenchable \/ StealCommit
      BY <1>0, <3>2 DEF DeleteUnbenchable, StealCommit, NoPlace
    <3> QED BY <1>4, <3>1, <3>2
  <2> QED BY <1>0, <1>a, <2>1
<1>5. ASSUME ~Placement PROVE place' = place
  <2>1. ASSUME NEW w \in Workers, DrainStart(w) \/ DrainQueue(w) \/ Worker(w) PROVE place' = place
    BY <2>1, DrainStartStep, DrainQueueStep, WorkerStep DEF DrainOthers, Sched
  <2>2. ASSUME NEW w \in Workers, NEW i \in Ids, LeaseAndDispatch(w, i) PROVE place' = place
    BY <2>2, LeaseStep
  <2>3. ASSUME NEW i \in Ids, Run(i) PROVE place' = place
    BY <2>3, RunStep DEF Others
  <2>4. ASSUME (\E i \in Ids : EvictFind(i)) \/ EvictCommit PROVE place' = place
    BY <2>4, EvictStep DEF EvictOthers
  <2>5. ASSUME NEW j \in Jobs, Cancel(j) PROVE place' = place
    BY <2>5, CancelStep DEF CancelOthers
  <2> QED BY <1>5, <2>1, <2>2, <2>3, <2>4, <2>5 DEF Next
<1> QED BY <1>1, <1>2, <1>3, <1>4, <1>5, <1>b DEF Placement, Placers

\* Connections only grow, and a dispatch takes over the one of its drainer.
LEMMA ConnNext ==
  ASSUME Refs, LeakInv, ConnOK, Next
  PROVE  ConnOK'
<1>0. /\ conn \in [Workers -> 0..MaxConns] /\ batchConn \in [Workers -> 0..MaxConns] /\ MaxConns \in Nat
      /\ TaskOK /\ BatchOK
  BY EnvAssumption DEF Refs, WorkersOK
<1>a. ASSUME NEW i \in Ids, task[i].pc # "none"
      PROVE  i \in 1..born /\ rows[i].q \in Workers
  BY <1>a DEF Refs, TaskOK, TableOK, Row, Queues, LeakInv, TasksHeld, Held
<1>b. ASSUME Step, \A w \in Workers : conn[w] <= conn'[w] /\ conn'[w] \in Nat,
             \A w \in Workers : batchConn'[w] <= conn'[w],
             \A i \in Ids : task'[i].pc # "none" => task[i].pc # "none" /\ task'[i].conn = task[i].conn
      PROVE  ConnOK'
  <2> SUFFICES ASSUME NEW i \in Ids, task'[i].pc # "none" PROVE task'[i].conn <= conn'[rows'[i].q]
    BY <1>b DEF ConnOK
  <2>1. task[i].pc # "none" /\ task'[i].conn = task[i].conn /\ rows[i].q \in Workers
    BY <1>a, <1>b
  <2>2. rows'[i].q = rows[i].q
    BY <1>a, <1>b, <2>1, Stable
  <2>3. task[i].conn <= conn[rows[i].q] /\ task[i].conn \in Nat
    BY <1>0, <2>1 DEF ConnOK, TaskOK
  <2> QED BY <1>0, <1>b, <2>1, <2>2, <2>3
<1>c. ASSUME Step, UNCHANGED <<conn, batchConn>>,
             \A i \in Ids : task'[i].pc # "none" => task[i].pc # "none" /\ task'[i].conn = task[i].conn
      PROVE  ConnOK'
  BY <1>0, <1>b, <1>c DEF ConnOK
<1>1. CASE Placement
  BY <1>1, <1>c, PlacementStep DEF workerVars, drainerVars
<1>2. ASSUME NEW w \in Workers, DrainStart(w) PROVE ConnOK'
  <2>1. Step
    BY <1>2, DrainStartStep, TableQuiet, ResultQuiet DEF Step, jobVars
  <2>2. conn' = conn /\ task' = task /\ batchConn' = [batchConn EXCEPT ![w] = conn[w]]
    BY <1>2 DEF DrainStart, workerVars
  <2>3. \A v \in Workers : batchConn'[v] <= conn'[v]
    BY <1>0, <2>2 DEF ConnOK
  <2> QED BY <1>0, <1>b, <2>1, <2>2, <2>3
<1>3. ASSUME NEW w \in Workers, DrainQueue(w) PROVE ConnOK'
  BY <1>3, <1>c, DrainQueueStep DEF DrainOthers, workerVars, drainerVars
<1>4. ASSUME NEW w \in Workers, Worker(w) PROVE ConnOK'
  <2>1. Step /\ UNCHANGED <<batchConn, task>>
    BY <1>4, WorkerStep DEF Sched, drainerVars
  <2>2. conn' = conn \/ conn' = [conn EXCEPT ![w] = @ + 1]
    BY <1>4 DEF Worker, Connect, OnWorkerConnected, SetOffline, Deregister, DisableDevices,
                EnableDevices
  <2>3. \A v \in Workers : conn[v] <= conn'[v] /\ conn'[v] \in Nat
    BY <1>0, <2>2
  <2>4. \A v \in Workers : batchConn'[v] <= conn'[v]
    BY <1>0, <2>1, <2>3 DEF ConnOK
  <2> QED BY <1>b, <2>1, <2>3, <2>4
<1>5. ASSUME NEW w \in Workers, NEW i \in Ids, LeaseAndDispatch(w, i) PROVE ConnOK'
  <2>1. Step /\ UNCHANGED <<conn, batchConn>>
    BY <1>5, LeaseStep DEF workerVars
  <2>2. CASE task' = task
    BY <1>c, <2>1, <2>2
  <2>3. CASE task' # task
    <3>1. task' = [task EXCEPT ![i] = [NoTask EXCEPT !.pc = "lookup", !.conn = batchConn[w]]]
      BY <1>5, <2>3 DEF LeaseAndDispatch
    <3>2. task'[i].conn = batchConn[w] /\ \A k \in Ids : k # i => task'[k] = task[k]
      BY <1>0, <3>1 DEF TaskOK, NoTask
    <3>3. rows[i].q = w /\ i \in 1..born
      BY <1>0, <1>5 DEF LeaseAndDispatch, BatchOK
    <3>4. rows'[i].q = w
      BY <2>1, <3>3, Stable
    <3>5. ASSUME NEW k \in Ids, task'[k].pc # "none" PROVE task'[k].conn <= conn'[rows'[k].q]
      <4>1. CASE k = i
        BY <2>1, <3>2, <3>4, <4>1 DEF ConnOK
      <4>2. CASE k # i
        BY <1>a, <2>1, <3>2, <3>5, <4>2, Stable DEF ConnOK
      <4> QED BY <4>1, <4>2
    <3> QED BY <2>1, <3>5 DEF ConnOK
  <2> QED BY <2>2, <2>3
<1>6. ASSUME NEW i \in Ids, Run(i) PROVE ConnOK'
  <2>1. Step /\ UNCHANGED <<conn, batchConn>>
    BY <1>6, RunStep DEF Others, workerVars, drainerVars
  <2>2. \A k \in Ids : task'[k].pc # "none" => task[k].pc # "none" /\ task'[k].conn = task[k].conn
    BY <1>0, <1>6, RunMoves
  <2> QED BY <1>c, <2>1, <2>2
<1>7. CASE (\E i \in Ids : EvictFind(i)) \/ EvictCommit
  BY <1>7, <1>c, EvictStep DEF EvictOthers, workerVars, drainerVars
<1>8. ASSUME NEW j \in Jobs, Cancel(j) PROVE ConnOK'
  BY <1>8, <1>c, CancelStep DEF CancelOthers, workerVars, drainerVars
<1> QED BY <1>1, <1>2, <1>3, <1>4, <1>5, <1>6, <1>7, <1>8 DEF Next

-----------------------------------------------------------------------------
(* One course per job, as long as no release is stale.                     *)

OnceInv == Single(rows, Courses, Owing) /\ Unsubmitted /\ Targets /\ ConnOK

\* There is no row, no dispatch and no debt.
LEMMA OnceInit == Init => OnceInv
<1> SUFFICES ASSUME Init PROVE OnceInv
  OBVIOUS
<1>1. \A i \in Ids : ~Live(rows, i) /\ task[i].pc = "none"
  BY DEF Init, EmptyTable, Live, NoTask
<1>2. Courses = {} /\ Globals(rows) = {} /\ Owing = {}
  BY <1>1 DEF Courses, Globals, Owing, Active, Going, PreAssign, Init, NoDrain
<1>3. Single(rows, Courses, Owing)
  BY <1>2 DEF Single
<1>4. Unsubmitted
  BY DEF Unsubmitted, Init
<1>5. Targets /\ ConnOK
  BY <1>1 DEF Targets, ConnOK, Init, NoPlace, Placers
<1> QED BY <1>3, <1>4, <1>5 DEF OnceInv

\* A step that is no stale release keeps one course per job.
LEMMA OnceNext == IInv /\ LeakInv /\ OnceInv /\ [Next]_vars /\ [~StaleRelease]_vars => OnceInv'
<1> SUFFICES ASSUME IInv, LeakInv, OnceInv, [Next]_vars, [~StaleRelease]_vars PROVE OnceInv'
  OBVIOUS
<1>p. PICK P : P = {}
  OBVIOUS
<1>0. Refs /\ Single(rows, Courses \cup P, Owing) /\ Unsubmitted /\ Targets /\ ConnOK
      /\ P = {} /\ P \subseteq 1..born /\ Courses \cup P = Courses /\ Courses' \cup P = Courses'
  BY <1>p DEF IInv, OnceInv
<1> DEFINE Goal == Single(rows', Courses' \cup P, Owing') /\ Unsubmitted'
<1>1. CASE UNCHANGED vars
  <2>1. UNCHANGED <<tableVars, jobVars, place, task, drain, status, conn>> /\ UNCHANGED batchConn
    BY <1>1 DEF vars, workerVars, drainerVars
  <2>2. Step
    BY <1>0, <2>1, TableQuiet, ResultQuiet DEF Step, jobVars
  <2>3. Goal
    BY <1>0, <2>1, <2>2, ActiveFrame, OnceQuiet
  <2>4. Targets'
    BY <1>0, <2>1 DEF Targets
  <2>5. ConnOK'
    BY <1>0, <2>1 DEF ConnOK, tableVars
  <2> QED BY <1>0, <2>3, <2>4, <2>5 DEF OnceInv
<1>2. CASE Next /\ ~StaleRelease
  <2>1. Targets' /\ ConnOK'
    BY <1>0, <1>2, TargetsNext, ConnNext
  <2>2. ASSUME Placement PROVE Goal
    BY <1>0, <2>2, OncePlacement
  <2>3. ASSUME NEW w \in Workers, DrainStart(w) PROVE Goal
    <3>1. UNCHANGED <<tableVars, jobVars, place, task, drain, status, conn>>
      BY <2>3 DEF DrainStart, workerVars
    <3>2. Step
      BY <1>0, <3>1, TableQuiet, ResultQuiet DEF Step, jobVars
    <3> QED BY <1>0, <3>1, <3>2, ActiveFrame, OnceQuiet
  <2>4. ASSUME NEW w \in Workers, DrainQueue(w) PROVE Goal
    <3>1. ASSUME DrainRelease(w) \/ DrainRequeue(w)
          PROVE  Sole(drain[w].row, Courses) /\ ~Active(drain[w].row)
      <4>1. ~Active(drain[w].row) /\ ~Elsewhere(drain[w].row)
        BY <1>2, <3>1 DEF StaleRelease
      <4>2. drain[w].row \in 1..born /\ rows[drain[w].row].q # "global"
        BY <1>0, <3>1, QueueNames DEF DrainRelease, DrainRequeue, Refs, DrainOK
      <4> QED BY <1>0, <4>1, <4>2, NotElsewhereIsSole
    <3> QED BY <1>0, <2>4, <3>1, OnceDrain
  <2>5. ASSUME NEW w \in Workers, Worker(w) PROVE Goal
    BY <1>0, <2>5, OnceWorker
  <2>6. ASSUME NEW w \in Workers, NEW i \in Ids, LeaseAndDispatch(w, i) PROVE Goal
    BY <1>0, <2>6, OnceLease
  <2>7. ASSUME NEW i \in Ids, Run(i) PROVE Goal
    <3>1. ASSUME task[i].pc # "resubmit", task'[i].pc = "resubmit" PROVE Sole(i, Courses)
      <4>1. LoadFails(i) /\ task[i].pc # "none"
        BY <1>0, <2>7, <3>1, RunMoves DEF Refs
      <4>2. ~Elsewhere(i)
        BY <1>2, <3>1, <4>1 DEF StaleRelease
      <4>3. i \in 1..born /\ rows[i].q # "global"
        BY <1>0, <4>1 DEF Refs, TaskOK, LeakInv, TasksHeld, Held
      <4> QED BY <1>0, <4>2, <4>3, NotElsewhereIsSole
    <3> QED BY <1>0, <2>7, <3>1, OnceRun
  <2>8. ASSUME (\E i \in Ids : EvictFind(i)) \/ EvictCommit PROVE Goal
    <3>1. ASSUME EvictCommit PROVE Sole(evict, Courses) /\ ~Active(evict)
      <4>1. ~Active(evict) /\ ~Elsewhere(evict)
        BY <1>2, <3>1 DEF StaleRelease
      <4>2. evict \in 1..born /\ rows[evict].q # "global"
        BY <1>0, <3>1 DEF EvictCommit, Refs, EvictOK
      <4> QED BY <1>0, <4>1, <4>2, NotElsewhereIsSole
    <3> QED BY <1>0, <2>8, <3>1, OnceEvict
  <2>9. ASSUME NEW j \in Jobs, Cancel(j) PROVE Goal
    BY <1>0, <2>9, OnceCancel
  <2> HIDE DEF Goal
  <2>10. Goal
    BY <1>2, <2>2, <2>3, <2>4, <2>5, <2>6, <2>7, <2>8, <2>9 DEF Next
  <2> QED BY <1>0, <2>1, <2>10 DEF OnceInv, Goal
<1> QED BY <1>1, <1>2

\* Dispatches that run are courses.
LEMMA OneCourseOneRun == LeakInv /\ Single(rows, Courses, Owing) => NoDuplicateRun
<1> SUFFICES ASSUME LeakInv, Single(rows, Courses, Owing), NEW i \in Ids, NEW k \in Ids,
                    {task[i].pc, task[k].pc} \subseteq {"attach", "stream"},
                    Alive(i), Alive(k), JobOf(i) = JobOf(k)
             PROVE  i = k
  BY DEF NoDuplicateRun
<1>1. Active(i) /\ Active(k)
  BY DEF Active, Going, PreAssign
<1>2. i \in Courses /\ k \in Courses
  BY <1>1, ActiveIsCourse
<1> QED BY <1>2 DEF Single, JobOf

\* No job ever runs on two workers, with any number of jobs, workers, reconnections,
\* cancellations, steals and failed loads, in every behaviour in which nobody gives a
\* job back to the global queue for a row that he found earlier and that has been
\* overtaken since: these releases are the only way to a second run.
THEOREM OneRunUnlessStale == Spec /\ [][~StaleRelease]_vars => []NoDuplicateRun
<1>1. Init => OnceInv
  BY OnceInit
<1>2. IInv /\ LeakInv /\ OnceInv /\ [Next]_vars /\ [~StaleRelease]_vars => OnceInv'
  BY OnceNext
<1>3. LeakInv /\ OnceInv => NoDuplicateRun
  BY OneCourseOneRun DEF OnceInv
<1> QED BY <1>1, <1>2, <1>3, DispatchInvariant, LeakInvariant, PTL DEF Spec

-----------------------------------------------------------------------------
(* No release is stale when operators neither evict nor toggle, and either *)
(* no worker is lost, or nobody steals, a lost worker does not come back   *)
(* and a failed load is final.                                             *)

QuietWorld ==
  /\ Events \subseteq {"drop"} \/ Events \subseteq {"steal"}
  /\ "drop" \in Events => MaxConns <= 1 /\ LoadAttempts = 1

\* The rows that a drain has found and not yet acted on.
Pending == {i \in Ids : \E w \in Workers :
  i \in drain[w].todo /\ ~(drain[w].pc \in {"drop", "resubmit", "revert"} /\ drain[w].row = i)}

\* A drain acts on a row that it has found, and has none when it is over.
DrainRows == \A w \in Workers :
  /\ drain[w].pc = "act" => drain[w].row \in drain[w].todo
  /\ drain[w].pc = "idle" => drain[w].todo = {}

\* Nobody evicts, and nobody steals where rows are drained.
Calm == evict = 0 /\ ("steal" \notin Events => place["dispatcher"].pc # "steal")

\* No worker is lost: nothing is drained, and every dispatch is of a live connection.
NoneLost ==
  /\ \A w \in Workers : status[w] # "offline" /\ drain[w] = NoDrain
  /\ \A i \in Ids : task[i].pc # "none" => Alive(i)
  /\ \A w \in Workers : batch[w] # {} => Online(w) /\ batchConn[w] = conn[w]

\* No worker comes back: one that is drained is away for good.
NoneReturns ==
  /\ \A i \in Ids : task[i].pc # "resubmit"
  /\ \A w \in Workers : status[w] # "away" => conn[w] = 1
  /\ \A w \in Workers : drain[w].pc # "idle" => status[w] = "away" /\ conn[w] = 1

QuietEnv == /\ DrainRows /\ Calm
            /\ "drop" \notin Events => NoneLost
            /\ "drop" \in Events => NoneReturns

\* Nothing has happened yet.
LEMMA QuietEnvInit == Init => QuietEnv
BY DEF Init, QuietEnv, DrainRows, Calm, NoneLost, NoneReturns, NoDrain, NoTask, NoPlace, Placers

\* Evictions and steals need the operator or the setting that they are of.
LEMMA CalmNext ==
  ASSUME Refs, QuietWorld, Calm, Next
  PROVE  Calm'
<1>0. place \in [Placers -> PlaceRec] /\ "dispatcher" \in Placers /\ "dispatcher" \notin Jobs
      /\ "evict" \notin Events
  BY PlacerNames DEF Refs, PlaceOK, PlaceRec, Placers, QuietWorld
<1>1. CASE Placement
  <2>1. evict' = evict
    BY <1>1, PlacementStep
  <2>2. ASSUME "steal" \notin Events PROVE place'["dispatcher"].pc # "steal"
    <3>1. ASSUME NEW j \in Jobs, SubmitCreate(j) \/ SubmitEnqueue(j) \/ SubmitPick(j)
          PROVE  place'["dispatcher"] = place["dispatcher"]
      BY <1>0, <3>1 DEF SubmitCreate, SubmitEnqueue, SubmitPick
    <3>2. ASSUME NEW p \in Placers, PlaceCommit(p)
          PROVE  place'["dispatcher"].pc # "steal"
      BY <1>0, <2>2, <3>2 DEF PlaceCommit, NoPlace, Calm
    <3>3. ASSUME NEW i \in Ids, DispatcherPick(i) \/ Unbenchable(i)
          PROVE  place'["dispatcher"].pc # "steal"
      <4>1. CASE DispatcherPick(i)
        BY <1>0, <4>1 DEF DispatcherPick
      <4>2. CASE Unbenchable(i)
        BY <1>0, <4>2 DEF Unbenchable, NoPlace
      <4> QED BY <3>3, <4>1, <4>2
    <3>4. ASSUME NEW i \in Ids, NEW w \in Workers, StealPick(i, w) PROVE FALSE
      BY <2>2, <3>4 DEF StealPick, Event
    <3>5. CASE FailUnbenchable \/ DeleteUnbenchable \/ StealCommit
      <4>1. CASE FailUnbenchable
        BY <1>0, <4>1 DEF FailUnbenchable, PlaceRec
      <4>2. CASE DeleteUnbenchable \/ StealCommit
        BY <1>0, <4>2 DEF DeleteUnbenchable, StealCommit, NoPlace
      <4> QED BY <3>5, <4>1, <4>2
    <3> QED BY <1>1, <2>2, <3>1, <3>2, <3>3, <3>4, <3>5 DEF Placement, Placers, Calm
  <2> QED BY <2>1, <2>2 DEF Calm
<1>2. ASSUME ~Placement PROVE place' = place /\ evict' = evict
  <2>1. ASSUME NEW w \in Workers, DrainStart(w) \/ DrainQueue(w) \/ Worker(w)
        PROVE  place' = place /\ evict' = evict
    BY <2>1, DrainStartStep, DrainQueueStep, WorkerStep DEF DrainOthers, Sched
  <2>2. ASSUME NEW w \in Workers, NEW i \in Ids, LeaseAndDispatch(w, i)
        PROVE  place' = place /\ evict' = evict
    BY <2>2, LeaseStep
  <2>3. ASSUME NEW i \in Ids, Run(i) PROVE place' = place /\ evict' = evict
    BY <2>3, RunStep DEF Others
  <2>4. ~EvictCommit /\ \A i \in Ids : ~EvictFind(i)
    BY <1>0 DEF EvictFind, EvictCommit, Event, Calm
  <2>5. ASSUME NEW j \in Jobs, Cancel(j) PROVE place' = place /\ evict' = evict
    BY <2>5, CancelStep DEF CancelOthers
  <2> QED BY <1>2, <2>1, <2>2, <2>3, <2>4, <2>5 DEF Next
<1> QED BY <1>1, <1>2 DEF Calm

\* What a drain does to its own record.
LEMMA DrainMoves ==
  ASSUME Refs, DrainRows, NEW w \in Workers, DrainQueue(w)
  PROVE  /\ \A v \in Workers : v # w => drain'[v] = drain[v]
         /\ drain[w].pc # "idle"
         /\ drain'[w].pc = "act" => drain'[w].row \in drain'[w].todo
         /\ Pending' \subseteq Courses \cup Pending
         /\ DrainRelease(w) \/ DrainRequeue(w) =>
              drain[w].row \in Pending /\ drain[w].row \notin Pending'
<1>0. DrainOK /\ \A v \in Workers : v \in Queues /\ v # "global"
  BY QueueNames DEF Refs, Queues
<1>1. /\ \A v \in Workers : v # w => drain'[v] = drain[v]
      /\ drain[w].pc # "idle"
  BY <1>0, ZenonT(60) DEF DrainQueue, DrainPeek, DrainDrop, DrainRelease, DrainExhausted, DrainRequeue,
              DrainResubmit, DrainRevert, DrainEnd, DrainCheck, DrainNext, DrainOK
\* Pending', by worker.
<1>2. ASSUME NEW T, T \subseteq Courses \cup Pending,
             \A i \in drain'[w].todo :
               \/ i \in T
               \/ drain'[w].pc \in {"drop", "resubmit", "revert"} /\ drain'[w].row = i
      PROVE  Pending' \subseteq Courses \cup Pending
  <2> SUFFICES ASSUME NEW i \in Pending' PROVE i \in Courses \cup Pending
    OBVIOUS
  <2>1. PICK v \in Workers : /\ i \in drain'[v].todo /\ i \in Ids
                             /\ ~(drain'[v].pc \in {"drop", "resubmit", "revert"} /\ drain'[v].row = i)
    BY DEF Pending
  <2> QED BY <1>1, <1>2, <2>1 DEF Pending
<1>3. CASE DrainPeek(w)
  <2>1. PICK h, t : /\ t \subseteq PeekAll(rows, w)
                     /\ drain' = [drain EXCEPT ![w].pc = "loop", ![w].hot = h, ![w].todo = t]
    <3>1. PICK S \in SUBSET PeekAll(rows, w) :
            LET hot == {i \in S : Hidden(rows, i)}
            IN  drain' = [drain EXCEPT ![w].pc = "loop", ![w].hot = hot,
                                       ![w].todo = IF drain[w].all THEN S ELSE S \ hot]
      BY <1>3 DEF DrainPeek
    <3> QED BY <3>1
  <2>2. drain'[w].pc = "loop" /\ drain'[w].todo = t
    BY <1>0, <2>1 DEF DrainOK
  <2>3. t \subseteq Courses
    BY <1>0, <2>1 DEF PeekAll, Courses
  <2>4. ~DrainRelease(w) /\ ~DrainRequeue(w)
    BY <1>3 DEF DrainPeek, DrainRelease, DrainRequeue
  <2>5. Pending' \subseteq Courses \cup Pending
    BY <1>2, <2>2, <2>3
  <2> QED BY <1>1, <2>2, <2>4, <2>5
<1>4. ASSUME NEW i \in Ids, DrainCheck(w, i)
      PROVE  /\ drain'[w].pc = "act" => drain'[w].row \in drain'[w].todo
             /\ Pending' \subseteq Courses \cup Pending
             /\ ~DrainRelease(w) /\ ~DrainRequeue(w)
  <2>1. /\ drain[w].pc = "loop" /\ i \in drain[w].todo
        /\ drain'[w].todo = drain[w].todo /\ drain'[w].row = i
    BY <1>0, <1>4 DEF DrainCheck, DrainOK
  <2>2. drain[w].todo \subseteq Pending
    BY <1>0, <2>1 DEF Pending, DrainOK
  <2>3. Pending' \subseteq Courses \cup Pending
    BY <1>2, <2>1, <2>2
  <2> QED BY <2>1, <2>3 DEF DrainRelease, DrainRequeue
\* The row in hand is not pending any more.
<1>5. ASSUME drain'[w].todo = drain[w].todo, drain'[w].row = drain[w].row,
             drain'[w].pc \in {"drop", "resubmit", "revert"}, drain[w].pc # "loop"
      PROVE  Pending' \subseteq Courses \cup Pending
  <2>1. drain[w].todo \ {drain[w].row} \subseteq Pending
    BY <1>0 DEF Pending, DrainOK
  <2> QED BY <1>2, <1>5, <2>1
<1>6. ASSUME DrainNext(w)
      PROVE  /\ drain'[w].pc = "loop" /\ drain'[w].todo = drain[w].todo \ {drain[w].row}
             /\ Pending' \subseteq Courses \cup Pending
  <2>1. drain'[w].pc = "loop" /\ drain'[w].todo = drain[w].todo \ {drain[w].row}
    BY <1>0, <1>6 DEF DrainNext, DrainOK
  <2>2. drain[w].todo \ {drain[w].row} \subseteq Pending
    BY <1>0 DEF Pending, DrainOK
  <2> QED BY <1>2, <2>1, <2>2
<1>7. ASSUME DrainRelease(w) \/ DrainRequeue(w)
      PROVE  drain[w].row \in Pending /\ drain[w].row \notin Pending' /\ drain[w].pc = "act"
  <2>1. drain[w].pc = "act" /\ drain[w].row \in drain[w].todo
    BY <1>7 DEF DrainRelease, DrainRequeue, DrainRows
  <2>2. drain[w].row \in Pending
    BY <1>0, <2>1 DEF Pending, DrainOK
  <2>3. \A v \in Workers : v # w => drain[w].row \notin drain'[v].todo
    BY <1>0, <1>1, <2>1 DEF DrainOK
  <2>4. drain[w].row \notin drain'[w].todo \/ (drain'[w].pc = "resubmit" /\ drain'[w].row = drain[w].row)
    BY <1>0, <1>6, <1>7 DEF DrainRelease, DrainRequeue, DrainOK
  <2> QED BY <2>1, <2>2, <2>3, <2>4 DEF Pending
<1>8. CASE DrainDrop(w) \/ DrainRelease(w) \/ DrainRevert(w)
  <2>1. DrainNext(w)
    BY <1>8 DEF DrainDrop, DrainRelease, DrainRevert
  <2> QED BY <1>1, <1>6, <1>7, <2>1
<1>9. CASE DrainExhausted(w) \/ DrainRequeue(w) \/ DrainResubmit(w)
  <2>1. /\ drain'[w].todo = drain[w].todo /\ drain'[w].row = drain[w].row
        /\ drain'[w].pc \in {"drop", "resubmit", "revert"} /\ drain[w].pc # "loop"
    BY <1>0, <1>9 DEF DrainExhausted, DrainRequeue, DrainResubmit, DrainOK
  <2> QED BY <1>1, <1>5, <1>7, <2>1
<1>10. CASE DrainEnd(w)
  <2>1. drain'[w] = NoDrain
    BY <1>0, <1>10 DEF DrainEnd, DrainOK
  <2>2. drain'[w].pc = "idle" /\ drain'[w].todo = {}
    BY <2>1 DEF NoDrain
  <2>3. Pending' \subseteq Courses \cup Pending
    BY <1>2, <2>2
  <2>4. ~DrainRelease(w) /\ ~DrainRequeue(w)
    BY <1>10 DEF DrainEnd, DrainRelease, DrainRequeue
  <2> QED BY <1>1, <2>2, <2>3, <2>4
<1> QED BY <1>1, <1>3, <1>4, <1>8, <1>9, <1>10 DEF DrainQueue

\* While no worker is lost, no drain starts, and every dispatch stays on its connection.
LEMMA NoneLostNext ==
  ASSUME Refs, LeakInv, QuietWorld, "drop" \notin Events, NoneLost, Next
  PROVE  NoneLost'
<1>0. /\ WorkersOK /\ BatchOK /\ TaskOK /\ "toggle" \notin Events
      /\ \A w \in Workers : drain[w].pc = "idle"
  BY DEF Refs, QuietWorld, NoneLost, NoDrain
<1>a. \A i \in Ids : task[i].pc # "none" => rows[i].q \in Workers /\ i \in 1..born
  BY DEF Refs, TaskOK, TableOK, Row, Queues, LeakInv, TasksHeld, Held
<1>b. ASSUME Step, UNCHANGED <<status, conn, batch, batchConn, drain>>,
             \A i \in Ids : task'[i].pc # "none" => task[i].pc # "none" /\ task'[i].conn = task[i].conn
      PROVE  NoneLost'
  BY <1>a, <1>b, Stable DEF NoneLost, Alive, Online
<1>1. CASE Placement
  BY <1>1, <1>b, PlacementStep DEF workerVars, drainerVars
<1>2. ASSUME NEW w \in Workers, DrainStart(w) PROVE NoneLost'
  <2>1. /\ UNCHANGED <<status, conn, drain, task, rows>> /\ status[w] = "online"
        /\ \A v \in Workers : v # w => batch'[v] = batch[v] /\ batchConn'[v] = batchConn[v]
        /\ batchConn'[w] = conn[w]
    BY <1>0, <1>2 DEF DrainStart, workerVars, tableVars, WorkersOK, BatchOK, Online
  <2> QED BY <2>1 DEF NoneLost, Alive, Online
<1>3. ASSUME NEW w \in Workers, DrainQueue(w) PROVE FALSE
  BY <1>0, <1>3 DEF DrainQueue, DrainPeek, DrainDrop, DrainRelease, DrainExhausted, DrainRequeue,
              DrainResubmit, DrainRevert, DrainEnd, DrainCheck
<1>4. ASSUME NEW w \in Workers, Worker(w) PROVE NoneLost'
  <2>1. UNCHANGED <<task, rows, batch, batchConn>>
    BY <1>4 DEF Worker, Connect, OnWorkerConnected, SetOffline, Deregister, DisableDevices,
                EnableDevices, Sched, tableVars, drainerVars
  <2>2. CASE Connect(w)
    <3>1. /\ status[w] = "away" /\ drain' = drain /\ status'[w] = "online"
          /\ \A v \in Workers : v # w => status'[v] = status[v] /\ conn'[v] = conn[v]
      BY <1>0, <2>2 DEF Connect, WorkersOK
    <3> QED BY <1>a, <2>1, <3>1 DEF NoneLost, Alive, Online
  <2>3. CASE ~Connect(w)
    <3>1. UNCHANGED <<status, conn, drain>>
      BY <1>0, <1>4, <2>3 DEF Worker, OnWorkerConnected, SetOffline, Deregister, DisableDevices,
                EnableDevices, Event, NoneLost
    <3> QED BY <2>1, <3>1 DEF NoneLost, Alive, Online
  <2> QED BY <2>2, <2>3
<1>5. ASSUME NEW w \in Workers, NEW i \in Ids, LeaseAndDispatch(w, i) PROVE NoneLost'
  <2>1. /\ Step /\ UNCHANGED <<status, conn, batchConn, drain>>
        /\ batch' = [batch EXCEPT ![w] = @ \ {i}] /\ i \in batch[w]
    BY <1>5, LeaseStep DEF workerVars, LeaseAndDispatch
  <2>2. \A v \in Workers : batch'[v] \subseteq batch[v]
    BY <1>0, <2>1 DEF BatchOK
  <2>3. \A v \in Workers : batch'[v] # {} => Online(v)' /\ batchConn'[v] = conn'[v]
    BY <2>1, <2>2 DEF NoneLost, Online
  <2>4. rows[i].q = w /\ i \in 1..born /\ Online(w) /\ batchConn[w] = conn[w]
    BY <1>0, <2>1 DEF BatchOK, NoneLost
  <2>5. ASSUME NEW k \in Ids, task'[k].pc # "none" PROVE Alive(k)'
    <3>1. CASE task' = task
      BY <1>a, <2>1, <2>5, <3>1, Stable DEF NoneLost, Alive, Online
    <3>2. CASE task' # task
      <4>1. task' = [task EXCEPT ![i] = [NoTask EXCEPT !.pc = "lookup", !.conn = batchConn[w]]]
        BY <1>5, <3>2 DEF LeaseAndDispatch
      <4>2. task'[i].conn = batchConn[w] /\ \A n \in Ids : n # i => task'[n] = task[n]
        BY <1>0, <4>1 DEF TaskOK, NoTask
      <4>3. rows'[i].q = w
        BY <2>1, <2>4, Stable
      <4>4. CASE k = i
        BY <2>1, <2>4, <4>2, <4>3, <4>4 DEF Alive, Online
      <4>5. CASE k # i
        BY <1>a, <2>1, <2>5, <4>2, <4>5, Stable DEF NoneLost, Alive, Online
      <4> QED BY <4>4, <4>5
    <3> QED BY <3>1, <3>2
  <2> QED BY <2>1, <2>3, <2>5 DEF NoneLost
<1>6. ASSUME NEW i \in Ids, Run(i) PROVE NoneLost'
  <2>1. Step /\ UNCHANGED <<status, conn, batch, batchConn, drain>>
    BY <1>6, RunStep DEF Others, workerVars, drainerVars
  <2>2. \A k \in Ids : task'[k].pc # "none" => task[k].pc # "none" /\ task'[k].conn = task[k].conn
    BY <1>0, <1>6, RunMoves
  <2> QED BY <1>b, <2>1, <2>2
<1>7. CASE (\E i \in Ids : EvictFind(i)) \/ EvictCommit
  BY <1>7, <1>b, EvictStep DEF EvictOthers, workerVars, drainerVars
<1>8. ASSUME NEW j \in Jobs, Cancel(j) PROVE NoneLost'
  BY <1>8, <1>b, CancelStep DEF CancelOthers, workerVars, drainerVars
<1> QED BY <1>1, <1>2, <1>3, <1>4, <1>5, <1>6, <1>7, <1>8 DEF Next

\* While no worker comes back, a drain is of a worker that is away for good.
LEMMA NoneReturnsNext ==
  ASSUME Refs, DrainRows, QuietWorld, "drop" \in Events, NoneReturns, Next
  PROVE  NoneReturns'
<1>0. /\ WorkersOK /\ DrainOK /\ TaskOK /\ "toggle" \notin Events /\ MaxConns <= 1 /\ LoadAttempts = 1
      /\ MaxConns \in Nat
  BY EnvAssumption DEF Refs, QuietWorld
<1>b. ASSUME UNCHANGED <<status, conn, drain>>, \A i \in Ids : task'[i].pc # "resubmit"
      PROVE  NoneReturns'
  BY <1>b DEF NoneReturns
<1>1. CASE Placement
  BY <1>1, <1>b, PlacementStep DEF workerVars, NoneReturns
<1>2. ASSUME NEW w \in Workers, DrainStart(w) PROVE NoneReturns'
  BY <1>2, <1>b DEF DrainStart, workerVars, NoneReturns
<1>3. ASSUME NEW w \in Workers, DrainQueue(w) PROVE NoneReturns'
  <2>1. UNCHANGED <<status, conn, task>>
    BY <1>3, DrainQueueStep DEF DrainOthers, workerVars
  <2> QED BY <1>3, <2>1, DrainMoves DEF NoneReturns
<1>4. ASSUME NEW w \in Workers, Worker(w) PROVE NoneReturns'
  <2>1. task' = task
    BY <1>4, WorkerStep DEF Sched
  <2>2. CASE Connect(w)
    <3>1. /\ conn[w] = 0 /\ conn'[w] = 1 /\ drain' = drain /\ status'[w] = "online"
          /\ \A v \in Workers : v # w => status'[v] = status[v] /\ conn'[v] = conn[v]
      BY <1>0, <2>2 DEF Connect, WorkersOK
    <3> QED BY <2>1, <3>1 DEF NoneReturns
  <2>3. CASE OnWorkerConnected(w) \/ DisableDevices(w) \/ EnableDevices(w)
    <3>1. UNCHANGED <<status, conn, drain>>
      BY <1>0, <2>3 DEF OnWorkerConnected, DisableDevices, EnableDevices, Event
    <3> QED BY <1>b, <2>1, <3>1 DEF NoneReturns
  <2>4. CASE SetOffline(w)
    <3>1. /\ status[w] = "online" /\ UNCHANGED <<conn, drain>>
          /\ \A v \in Workers : v # w => status'[v] = status[v]
      BY <1>0, <2>4 DEF SetOffline, Online, WorkersOK
    <3> QED BY <2>1, <3>1 DEF NoneReturns
  <2>5. CASE Deregister(w)
    <3>1. /\ status[w] = "offline" /\ status'[w] = "away" /\ conn' = conn
          /\ \A v \in Workers : v # w => status'[v] = status[v] /\ drain'[v] = drain[v]
      BY <1>0, <2>5 DEF Deregister, WorkersOK, DrainOK
    <3> QED BY <2>1, <3>1 DEF NoneReturns
  <2> QED BY <1>4, <2>2, <2>3, <2>4, <2>5 DEF Worker
<1>5. ASSUME NEW w \in Workers, NEW i \in Ids, LeaseAndDispatch(w, i) PROVE NoneReturns'
  <2>1. UNCHANGED <<status, conn, drain>>
    BY <1>5, LeaseStep DEF workerVars
  <2>2. CASE task' = task
    BY <1>b, <2>1, <2>2 DEF NoneReturns
  <2>3. CASE task' = [task EXCEPT ![i] = [NoTask EXCEPT !.pc = "lookup", !.conn = batchConn[w]]]
    BY <1>0, <1>b, <2>1, <2>3 DEF NoneReturns, TaskOK, NoTask
  <2> QED BY <1>5, <2>2, <2>3 DEF LeaseAndDispatch
<1>6. ASSUME NEW i \in Ids, Run(i) PROVE NoneReturns'
  <2>1. UNCHANGED <<status, conn, drain>>
    BY <1>6, RunStep DEF Others, workerVars
  <2>2. LoadFails(i) => Goto(i, "cleanup")
    <3>1. i \in Ids /\ rows[i].attempts \in Nat
      BY DEF Refs, TableOK, Row
    <3> QED BY <1>0, <3>1 DEF LoadFails
  <2>3. \A k \in Ids : task'[k].pc # "resubmit"
    <3>1. LoadFails(i) => task'[i].pc = "cleanup"
      BY <1>0, <2>2 DEF Goto, TaskOK
    <3> QED BY <1>0, <1>6, <3>1, RunMoves DEF NoneReturns
  <2> QED BY <1>b, <2>1, <2>3
<1>7. CASE (\E i \in Ids : EvictFind(i)) \/ EvictCommit
  BY <1>7, <1>b, EvictStep DEF EvictOthers, workerVars, NoneReturns
<1>8. ASSUME NEW j \in Jobs, Cancel(j) PROVE NoneReturns'
  BY <1>8, <1>b, CancelStep DEF CancelOthers, workerVars, NoneReturns
<1> QED BY <1>1, <1>2, <1>3, <1>4, <1>5, <1>6, <1>7, <1>8 DEF Next

-----------------------------------------------------------------------------
(* One course per job in a quiet world.  A row that a drain is about to    *)
(* act on counts as a course, also when it is gone.                        *)

QuietInv == Single(rows, Courses \cup Pending, Owing) /\ Unsubmitted /\ Targets /\ ConnOK /\ QuietEnv

\* What is pending has been found.
LEMMA PendingBorn == ASSUME Refs PROVE Pending \subseteq 1..born
BY DEF Refs, DrainOK, Pending

\* A record of a drain that does not move leaves what is pending alone.
LEMMA PendingFrame == ASSUME UNCHANGED drain PROVE Pending' = Pending
BY DEF Pending

\* Nothing is drained while no worker is lost.
LEMMA NonePending == ASSUME NoneLost PROVE Pending = {}
BY DEF NoneLost, Pending, NoDrain

\* At the start nothing is queued, running or owed.
LEMMA QuietInit == Init => QuietInv
<1> SUFFICES ASSUME Init PROVE QuietInv
  OBVIOUS
<1>1. OnceInv
  BY OnceInit
<1>2. Pending = {}
  BY DEF Init, Pending, NoDrain
<1>3. QuietEnv
  BY QuietEnvInit
<1> QED BY <1>1, <1>2, <1>3 DEF OnceInv, QuietInv

\* Fewer courses are held.
LEMMA SingleFewer ==
  ASSUME NEW t, NEW C, NEW D, NEW O, Single(t, C, O), D \subseteq C
  PROVE  Single(t, D, O)
BY DEF Single

\* Workers that come and go give no drain anything to do.
LEMMA WorkerPending ==
  ASSUME Refs, NEW w \in Workers, Worker(w)
  PROVE  Pending' \subseteq Pending
<1>1. CASE drain' = drain
  BY <1>1, PendingFrame
<1>2. CASE drain' # drain
  <2>1. Deregister(w) \/ DisableDevices(w)
    BY <1>2 DEF Worker, Connect, OnWorkerConnected, SetOffline, EnableDevices
  <2>2. /\ \A x \in Workers : x # w => drain'[x] = drain[x]
        /\ drain'[w].todo = {}
    <3>1. CASE Deregister(w)
      BY <3>1 DEF Deregister, NoDrain, DrainOK, Refs
    <3>2. CASE DisableDevices(w)
      BY <3>2 DEF DisableDevices, NoDrain, DrainOK, Refs
    <3> QED BY <2>1, <3>1, <3>2
  <2> QED BY <2>2 DEF Pending
<1> QED BY <1>1, <1>2

\* A drain that a worker's coming or going touches is at its start.
LEMMA WorkerDrains ==
  ASSUME Refs, NEW w \in Workers, Worker(w), NEW v \in Workers
  PROVE  drain'[v] = drain[v] \/ (drain'[v].pc \in {"idle", "peek"} /\ drain'[v].todo = {})
<1>1. CASE drain' = drain
  BY <1>1
<1>2. CASE Deregister(w)
  BY <1>2 DEF Deregister, NoDrain, DrainOK, Refs
<1>3. CASE DisableDevices(w)
  BY <1>3 DEF DisableDevices, NoDrain, DrainOK, Refs
<1> QED BY <1>1, <1>2, <1>3 DEF Worker, Connect, OnWorkerConnected, SetOffline, EnableDevices

\* A drain is over when nothing is left to do.
LEMMA DrainIdle ==
  ASSUME Refs, NEW w \in Workers, DrainQueue(w), drain'[w].pc = "idle"
  PROVE  drain'[w].todo = {}
<1>0. DrainOK
  BY DEF Refs
<1>1. CASE DrainEnd(w)
  BY <1>0, <1>1 DEF DrainEnd, NoDrain, DrainOK
<1>2. CASE DrainPeek(w)
  <2>1. PICK S \in SUBSET PeekAll(rows, w) :
          LET hot == {i \in S : Hidden(rows, i)}
          IN  drain' = [drain EXCEPT ![w].pc = "loop", ![w].hot = hot,
                                     ![w].todo = IF drain[w].all THEN S ELSE S \ hot]
    BY <1>2 DEF DrainPeek
  <2>2. drain'[w].pc = "loop"
    BY <1>0, <2>1, ZenonT(60) DEF DrainOK
  <2> QED BY <2>2
<1>3. CASE DrainDrop(w) \/ DrainRelease(w) \/ DrainRevert(w)
  <2>1. DrainNext(w)
    BY <1>3 DEF DrainDrop, DrainRelease, DrainRevert
  <2> QED BY <1>0, <2>1 DEF DrainNext, DrainOK
<1>4. CASE DrainExhausted(w) \/ DrainRequeue(w) \/ DrainResubmit(w)
  BY <1>0, <1>4 DEF DrainExhausted, DrainRequeue, DrainResubmit, DrainOK
<1>5. ASSUME NEW i \in Ids, DrainCheck(w, i) PROVE FALSE
  BY <1>0, <1>5 DEF DrainCheck, DrainOK
<1> QED BY <1>1, <1>2, <1>3, <1>4, <1>5 DEF DrainQueue

\* The environment of a quiet world stays quiet.
LEMMA QuietEnvNext ==
  ASSUME Refs, LeakInv, QuietWorld, QuietEnv, Next
  PROVE  QuietEnv'
<1>1. Calm'
  BY CalmNext DEF QuietEnv
<1>2. "drop" \notin Events => NoneLost'
  BY NoneLostNext DEF QuietEnv
<1>3. "drop" \in Events => NoneReturns'
  BY NoneReturnsNext DEF QuietEnv
<1>4. ASSUME NEW w \in Workers
      PROVE  /\ drain'[w].pc = "act" => drain'[w].row \in drain'[w].todo
             /\ drain'[w].pc = "idle" => drain'[w].todo = {}
  <2>1. CASE drain' = drain
    BY <2>1 DEF QuietEnv, DrainRows
  <2>2. ASSUME NEW v \in Workers, DrainQueue(v)
        PROVE  /\ drain'[w].pc = "act" => drain'[w].row \in drain'[w].todo
               /\ drain'[w].pc = "idle" => drain'[w].todo = {}
    BY <2>2, DrainMoves, DrainIdle DEF QuietEnv, DrainRows
  <2>3. ASSUME NEW v \in Workers, Worker(v)
        PROVE  /\ drain'[w].pc = "act" => drain'[w].row \in drain'[w].todo
               /\ drain'[w].pc = "idle" => drain'[w].todo = {}
    BY <2>3, WorkerDrains DEF QuietEnv, DrainRows
  <2>4. ASSUME \A v \in Workers : ~DrainQueue(v), \A v \in Workers : ~Worker(v)
        PROVE  drain' = drain
    <3>1. CASE Placement
      BY <3>1, PlacementStep
    <3>2. ASSUME NEW v \in Workers, DrainStart(v) PROVE drain' = drain
      BY <3>2 DEF DrainStart
    <3>3. ASSUME NEW v \in Workers, NEW i \in Ids, LeaseAndDispatch(v, i) PROVE drain' = drain
      BY <3>3, LeaseStep
    <3>4. ASSUME NEW i \in Ids, Run(i) PROVE drain' = drain
      BY <3>4, RunStep DEF Others
    <3>5. CASE (\E i \in Ids : EvictFind(i)) \/ EvictCommit
      BY <3>5, EvictStep DEF EvictOthers
    <3>6. ASSUME NEW j \in Jobs, Cancel(j) PROVE drain' = drain
      BY <3>6, CancelStep DEF CancelOthers
    <3> QED BY <2>4, <3>1, <3>2, <3>3, <3>4, <3>5, <3>6 DEF Next
  <2> QED BY <2>1, <2>2, <2>3, <2>4
<1> QED BY <1>1, <1>2, <1>3, <1>4 DEF QuietEnv, DrainRows

\* Every step keeps one course per job.
LEMMA QuietNext == QuietWorld /\ IInv /\ LeakInv /\ QuietInv /\ [Next]_vars => QuietInv'
<1> SUFFICES ASSUME QuietWorld, IInv, LeakInv, QuietInv, [Next]_vars PROVE QuietInv'
  OBVIOUS
<1>p. PICK P : P = Pending
  OBVIOUS
<1>q. PICK Q : Q = Pending'
  OBVIOUS
<1>0. Refs /\ Single(rows, Courses \cup P, Owing) /\ Unsubmitted /\ Targets /\ ConnOK /\ QuietEnv
      /\ P = Pending /\ P \subseteq 1..born /\ Q = Pending'
  BY <1>p, <1>q, PendingBorn DEF IInv, QuietInv
<1> DEFINE Goal == Single(rows', Courses' \cup Q, Owing') /\ Unsubmitted'
\* Where drains do not move, the rest of the step decides.
<1>a. ASSUME Single(rows', Courses' \cup P, Owing') /\ Unsubmitted', UNCHANGED drain PROVE Goal
  BY <1>0, <1>a, PendingFrame
<1>1. CASE UNCHANGED vars
  <2>1. UNCHANGED <<tableVars, jobVars, place, task, drain, status, conn, batch, batchConn, evict>>
    BY <1>1 DEF vars, workerVars, drainerVars
  <2>2. Step
    BY <1>0, <2>1, TableQuiet, ResultQuiet DEF Step, jobVars
  <2>3. Goal
    BY <1>0, <1>a, <2>1, <2>2, ActiveFrame, OnceQuiet
  <2>4. Targets'
    BY <1>0, <2>1 DEF Targets
  <2>5. ConnOK'
    BY <1>0, <2>1 DEF ConnOK, tableVars
  <2>6. QuietEnv'
    BY <1>0, <2>1 DEF QuietEnv, DrainRows, Calm, NoneLost, NoneReturns, Alive, Online, tableVars
  <2> QED BY <1>0, <2>3, <2>4, <2>5, <2>6 DEF QuietInv
<1>2. CASE Next
  <2>1. Targets' /\ ConnOK' /\ QuietEnv'
    BY <1>0, <1>2, TargetsNext, ConnNext, QuietEnvNext
  <2>2. ASSUME Placement PROVE Goal
    <3>1. StealCommit => P = {}
      <4>1. ASSUME StealCommit PROVE "drop" \notin Events
        BY <1>0, <4>1 DEF QuietWorld, QuietEnv, Calm, StealCommit
      <4> QED BY <1>0, <4>1, NonePending DEF QuietEnv
    <3> QED BY <1>0, <1>a, <2>2, <3>1, PlacementStep, OncePlacement
  <2>3. ASSUME NEW w \in Workers, DrainStart(w) PROVE Goal
    <3>1. UNCHANGED <<tableVars, jobVars, place, task, drain, status, conn>>
      BY <2>3 DEF DrainStart, workerVars
    <3>2. Step
      BY <1>0, <3>1, TableQuiet, ResultQuiet DEF Step, jobVars
    <3> QED BY <1>0, <1>a, <3>1, <3>2, ActiveFrame, OnceQuiet
  <2>4. ASSUME NEW w \in Workers, DrainQueue(w) PROVE Goal
    <3> DEFINE d == drain[w].row
    <3>0. /\ DrainRows /\ drain[w].pc # "idle" /\ Q \subseteq Courses \cup P
          /\ DrainRelease(w) \/ DrainRequeue(w) => d \in P /\ d \notin Q
      BY <1>0, <2>4, DrainMoves DEF QuietEnv
    <3>1. "drop" \in Events /\ status[w] = "away"
      BY <1>0, <3>0 DEF QuietEnv, NoneLost, NoneReturns, NoDrain
    <3>2. ASSUME DrainRelease(w) \/ DrainRequeue(w)
          PROVE  Sole(d, Courses \cup P) /\ d \notin Q /\ ~Active(d)
      <4>1. d \in Courses \cup P /\ d \notin Q
        BY <3>0, <3>2
      <4>2. rows[d].q = w
        BY <1>0, <3>2 DEF DrainRelease, DrainRequeue, Refs, DrainOK
      <4>3. ~Active(d)
        BY <3>1, <4>2 DEF Active, Alive, Online
      <4> QED BY <1>0, <4>1, <4>3, CourseIsSole
    <3> QED BY <1>0, <2>4, <3>0, <3>2, OnceDrain
  <2>5. ASSUME NEW w \in Workers, Worker(w) PROVE Goal
    <3>1. Single(rows', Courses' \cup P, Owing') /\ Unsubmitted'
      BY <1>0, <2>5, OnceWorker
    <3>2. Q \subseteq P
      BY <1>0, <2>5, WorkerPending
    <3> QED BY <3>1, <3>2, SingleFewer
  <2>6. ASSUME NEW w \in Workers, NEW i \in Ids, LeaseAndDispatch(w, i) PROVE Goal
    BY <1>0, <1>a, <2>6, LeaseStep, OnceLease
  <2>7. ASSUME NEW i \in Ids, Run(i) PROVE Goal
    <3>1. ASSUME task[i].pc # "resubmit", task'[i].pc = "resubmit"
          PROVE  Sole(i, Courses \cup P) /\ i \notin P
      <4>1. LoadFails(i) /\ task[i].pc = "load"
        BY <1>0, <2>7, <3>1, RunMoves DEF Refs, LoadFails
      <4>2. "drop" \notin Events
        BY <2>1, <3>1 DEF QuietEnv, NoneReturns
      <4>3. P = {} /\ Alive(i)
        BY <1>0, <4>1, <4>2, NonePending DEF QuietEnv, NoneLost
      <4>4. i \in Courses \cup P
        BY <1>0, <4>1, <4>3, ActiveIsCourse DEF Active, Going, PreAssign
      <4> QED BY <1>0, <4>3, <4>4, CourseIsSole
    <3> QED BY <1>0, <1>a, <2>7, <3>1, RunStep, OnceRun DEF Others
  <2>8. ASSUME (\E i \in Ids : EvictFind(i)) \/ EvictCommit PROVE Goal
    <3>1. ~EvictCommit
      BY <1>0 DEF EvictCommit, QuietEnv, Calm
    <3> QED BY <1>0, <1>a, <2>8, <3>1, EvictStep, OnceEvict DEF EvictOthers
  <2>9. ASSUME NEW j \in Jobs, Cancel(j) PROVE Goal
    BY <1>0, <1>a, <2>9, CancelStep, OnceCancel DEF CancelOthers
  <2> HIDE DEF Goal
  <2>10. Goal
    BY <1>2, <2>2, <2>3, <2>4, <2>5, <2>6, <2>7, <2>8, <2>9 DEF Next
  <2> QED BY <1>0, <2>1, <2>10 DEF QuietInv, Goal
<1> QED BY <1>1, <1>2

\* In a quiet world no job ever runs on two workers, whatever placements, cancellations,
\* refusals, failed loads and, where no worker is lost, steals race each other, and with
\* any number of jobs and workers.
THEOREM OneRunInQuietWorld == ASSUME QuietWorld PROVE Spec => []NoDuplicateRun
<1>1. Init => QuietInv
  BY QuietInit
<1>2. IInv /\ LeakInv /\ QuietInv /\ [Next]_vars => QuietInv'
  BY QuietNext
<1>3. LeakInv /\ QuietInv => NoDuplicateRun
  <2> SUFFICES ASSUME LeakInv, QuietInv PROVE NoDuplicateRun
    OBVIOUS
  <2>1. Single(rows, Courses, Owing)
    BY SingleFewer DEF QuietInv
  <2> QED BY <2>1, OneCourseOneRun
<1> QED BY <1>1, <1>2, <1>3, DispatchInvariant, LeakInvariant, PTL DEF Spec

-----------------------------------------------------------------------------
(* What the envelopes are charged.                                         *)

\* The attempts that an envelope may have.
Chargeable(n) == n < Budget \/ n < LoadAttempts

ChargesBounded == \A i \in Ids : Chargeable(rows[i].attempts)

\* ... and the ones that will be inserted.
ChargeInv ==
  /\ ChargesBounded
  /\ \A i \in Ids : task[i].pc = "resubmit" => Chargeable(rows[i].attempts + 1)
  /\ \A w \in Workers : drain[w].pc = "resubmit" => Chargeable(rows[drain[w].row].attempts + 1)

\* A row that was born keeps its attempts, and one that was not has none.
LEMMA AttemptsKept ==
  ASSUME Refs, Step
  PROVE  /\ \A i \in 1..born : rows'[i].attempts = rows[i].attempts /\ rows'[i].job = rows[i].job
         /\ \A i \in Ids : i \in 1..born \/ (born' = born + 1 /\ i = born + 1) \/ born' > born + 1
                           \/ rows'[i].attempts = 0
<1>1. /\ TableOK(rows, born) /\ TableOK(rows', born') /\ Same(rows, born, rows')
      /\ born \in Nat /\ born' \in Nat
  BY RowBound DEF Refs, Step, TableStep, TableOK
<1>2. \A i \in Ids : i > born' => rows'[i].attempts = 0
  BY <1>1 DEF TableOK
<1> QED BY <1>1, <1>2 DEF Same, Ids

\* A step keeps the bound when the row that it inserts does.
LEMMA ChargeStep ==
  ASSUME Refs, Step, ChargesBounded,
         born' = born \/ (born' = born + 1 /\ Chargeable(rows'[born + 1].attempts))
  PROVE  ChargesBounded'
<1>1. Chargeable(0)
  BY LimitAssumption DEF Chargeable
<1>2. born \in Nat
  BY BornIds
<1> QED BY <1>1, <1>2, AttemptsKept, BornIds DEF ChargesBounded, Chargeable

\* What the row that a placer inserts has of the table that it read.
LEMMA PlacedRow ==
  ASSUME Refs, Placement
  PROVE  \/ born' = born
         \/ /\ born' = born + 1
            /\ \/ rows'[born + 1].attempts = 0
               \/ \E i \in 1..born : rows'[born + 1].attempts = rows[i].attempts
<1>0. /\ PlaceOK /\ TableOK(rows, born) /\ born \in Nat
      /\ (Room => born + 1 \in Ids) /\ Next1 = born + 1
  BY RowBound DEF Refs, TableOK, Room, Next1, Ids
<1>1. ASSUME NEW j \in Jobs, SubmitEnqueue(j)
      PROVE  born' = born + 1 /\ rows'[born + 1].attempts = 0
  BY <1>0, <1>1 DEF SubmitEnqueue, Submit, TableOK
<1>2. ASSUME NEW p \in Placers, PlaceCommit(p), born' # born
      PROVE  born' = born + 1 /\ \E i \in 1..born : rows'[born + 1].attempts = rows[i].attempts
  <2>1. /\ rows' = LeaseAndSubmit(rows, place[p].row, born + 1, place[p].target) /\ born' = born + 1
        /\ place[p].row \in 1..born /\ Room
    BY <1>0, <1>2 DEF PlaceCommit, tableVars, PlaceOK
  <2>2. rows'[born + 1].attempts = rows[place[p].row].attempts
    BY <1>0, <2>1 DEF LeaseAndSubmit, LeaseByID, Submit, TableOK
  <2> QED BY <2>1, <2>2
<1>3. ASSUME StealCommit, born' # born
      PROVE  born' = born + 1 /\ \E i \in 1..born : rows'[born + 1].attempts = rows[i].attempts
  <2> DEFINE p == "dispatcher"
  <2>1. /\ rows' = MoveTo(rows, place[p].row, born + 1, place[p].target) /\ born' = born + 1
        /\ place[p].row \in 1..born /\ Room
    BY <1>0, <1>3 DEF StealCommit, tableVars, PlaceOK, Placers
  <2>2. rows'[born + 1].attempts = rows[place[p].row].attempts
    BY <1>0, <2>1 DEF MoveTo, Delete, Submit, TableOK
  <2> QED BY <2>1, <2>2
<1>4. ASSUME \A j \in Jobs : ~SubmitEnqueue(j), \A p \in Placers : ~PlaceCommit(p), ~StealCommit
      PROVE  born' = born
  BY <1>4 DEF Placement, Placers, SubmitCreate, SubmitPick, DispatcherPick, Unbenchable,
              FailUnbenchable, DeleteUnbenchable, StealPick, tableVars
<1> QED BY <1>1, <1>2, <1>3, <1>4

\* What a dispatch inserts, and what makes it owe a resubmission.
LEMMA RunRow ==
  ASSUME Refs, NEW i \in Ids, Run(i)
  PROVE  /\ \/ born' = born
            \/ /\ born' = born + 1 /\ LoadResubmit(i)
               /\ rows'[born + 1].attempts = rows[i].attempts + 1
         /\ task[i].pc # "resubmit" /\ task'[i].pc = "resubmit" =>
              LoadFails(i) /\ rows[i].attempts + 1 < LoadAttempts
<1>0. TaskOK /\ TableOK(rows, born) /\ born \in Nat /\ Next1 = born + 1 /\ (Room => born + 1 \in Ids)
  BY RowBound DEF Refs, TableOK, Room, Next1, Ids
<1>1. ASSUME LoadResubmit(i) PROVE born' = born + 1 /\ rows'[born + 1].attempts = rows[i].attempts + 1
  BY <1>0, <1>1 DEF LoadResubmit, Submit, TableOK
<1>2. ASSUME ~LoadResubmit(i) PROVE born' = born
  BY <1>2 DEF Run, Lookup, GateBounce, GatePass, LoadDone, LoadFails, StartInflight, AbortDispatch,
       ProcessingResult, AssignJob, AssignFails, Unassign, StartPump, CleanupRows, LeaveDispatch,
       ReadCancel, FinishInflight, PumpSettle, PumpLeave, DeleteBothRows, DeferEnds, StreamEnds,
       tableVars
<1>3. ASSUME task[i].pc # "resubmit", task'[i].pc = "resubmit"
      PROVE  LoadFails(i) /\ rows[i].attempts + 1 < LoadAttempts
  <2>1. LoadFails(i)
    BY <1>0, <1>3, RunMoves
  <2>2. CASE Goto(i, "cleanup")
    BY <1>0, <1>3, <2>2 DEF Goto, TaskOK
  <2> QED BY <2>1, <2>2 DEF LoadFails
<1> QED BY <1>1, <1>2, <1>3

\* What a drain inserts, and what makes it owe a resubmission.
LEMMA DrainRow ==
  ASSUME Refs, NEW w \in Workers, DrainQueue(w)
  PROVE  /\ \/ born' = born
            \/ /\ born' = born + 1 /\ DrainResubmit(w)
               /\ rows'[born + 1].attempts = rows[drain[w].row].attempts + 1
         /\ \A v \in Workers : drain'[v].pc = "resubmit" =>
              /\ drain'[v].row = drain[v].row
              /\ drain[v].pc = "resubmit" \/ (v = w /\ DrainRequeue(w))
<1>0. DrainOK /\ TableOK(rows, born) /\ born \in Nat /\ Next1 = born + 1 /\ (Room => born + 1 \in Ids)
  BY RowBound DEF Refs, TableOK, Room, Next1, Ids
<1>1. ASSUME DrainResubmit(w)
      PROVE  born' = born + 1 /\ rows'[born + 1].attempts = rows[drain[w].row].attempts + 1
  BY <1>0, <1>1 DEF DrainResubmit, Submit, TableOK
<1>2. ASSUME ~DrainResubmit(w) PROVE born' = born
  BY <1>2 DEF DrainQueue, DrainPeek, DrainDrop, DrainRelease, DrainExhausted, DrainRequeue,
              DrainRevert, DrainEnd, DrainCheck, tableVars
<1>3. \A v \in Workers : v # w => drain'[v] = drain[v]
  BY <1>0 DEF DrainQueue, DrainPeek, DrainDrop, DrainRelease, DrainExhausted, DrainRequeue,
              DrainResubmit, DrainRevert, DrainEnd, DrainCheck, DrainNext, DrainOK
<1>4. CASE DrainRequeue(w)
  BY <1>0, <1>2, <1>3, <1>4 DEF DrainRequeue, DrainResubmit, DrainOK
<1>5. ASSUME ~DrainRequeue(w) PROVE drain'[w].pc # "resubmit"
  <2>1. CASE DrainDrop(w) \/ DrainRelease(w) \/ DrainRevert(w)
    <3>1. DrainNext(w)
      BY <2>1 DEF DrainDrop, DrainRelease, DrainRevert
    <3> QED BY <1>0, <3>1 DEF DrainNext, DrainOK
  <2>2. CASE DrainPeek(w)
    <3>1. PICK h, t : drain' = [drain EXCEPT ![w].pc = "loop", ![w].hot = h, ![w].todo = t]
      BY <2>2 DEF DrainPeek
    <3> QED BY <1>0, <3>1 DEF DrainOK
  <2>3. CASE DrainExhausted(w) \/ DrainResubmit(w)
    BY <1>0, <2>3 DEF DrainExhausted, DrainResubmit, DrainOK
  <2>4. CASE DrainEnd(w)
    BY <1>0, <2>4 DEF DrainEnd, DrainOK, NoDrain
  <2>5. ASSUME NEW i \in Ids, DrainCheck(w, i) PROVE drain'[w].pc # "resubmit"
    BY <1>0, <2>5 DEF DrainCheck, DrainOK
  <2> QED BY <1>5, <2>1, <2>2, <2>3, <2>4, <2>5 DEF DrainQueue
<1> QED BY <1>1, <1>2, <1>3, <1>4, <1>5

\* Every step keeps the charges bounded.
LEMMA ChargeNext == IInv /\ ChargeInv /\ [Next]_vars => ChargeInv'
<1> SUFFICES ASSUME IInv, ChargeInv, [Next]_vars PROVE ChargeInv'
  OBVIOUS
<1>0. /\ Refs /\ TaskOK /\ DrainOK /\ ChargesBounded
      /\ \A i \in Ids : task[i].pc = "resubmit" => Chargeable(rows[i].attempts + 1)
      /\ \A w \in Workers : drain[w].pc = "resubmit" => Chargeable(rows[drain[w].row].attempts + 1)
  BY DEF IInv, Refs, ChargeInv
\* A step that inserts a chargeable row, if any, and after which whoever owes a
\* resubmission owed it before, or may.
<1>a. ASSUME Step, born' = born \/ (born' = born + 1 /\ Chargeable(rows'[born + 1].attempts)),
             \A i \in Ids : task'[i].pc = "resubmit" =>
               i \in 1..born /\ Chargeable(rows[i].attempts + 1),
             \A w \in Workers : drain'[w].pc = "resubmit" =>
               drain'[w].row \in 1..born /\ Chargeable(rows[drain'[w].row].attempts + 1)
      PROVE  ChargeInv'
  <2>1. ChargesBounded'
    BY <1>0, <1>a, ChargeStep
  <2>2. \A i \in 1..born : rows'[i].attempts = rows[i].attempts
    BY <1>0, <1>a, AttemptsKept
  <2> QED BY <1>a, <2>1, <2>2 DEF ChargeInv
<1>b. /\ \A i \in Ids : task[i].pc = "resubmit" => i \in 1..born /\ Chargeable(rows[i].attempts + 1)
      /\ \A w \in Workers : drain[w].pc = "resubmit" =>
           drain[w].row \in 1..born /\ Chargeable(rows[drain[w].row].attempts + 1)
  BY <1>0 DEF TaskOK, DrainOK
<1>1. CASE UNCHANGED vars
  BY <1>0, <1>1 DEF vars, tableVars, ChargeInv, ChargesBounded
<1>2. CASE Placement
  <2>1. Step /\ UNCHANGED <<task, drain>>
    BY <1>0, <1>2, PlacementStep
  <2>2. Chargeable(0) /\ 1..born \subseteq Ids
    BY <1>0, LimitAssumption, BornIds DEF Chargeable
  <2>3. born' = born \/ (born' = born + 1 /\ Chargeable(rows'[born + 1].attempts))
    BY <1>0, <1>2, <2>2, PlacedRow DEF ChargesBounded
  <2> QED BY <1>a, <1>b, <2>1, <2>3
<1>3. ASSUME NEW w \in Workers, DrainStart(w) PROVE ChargeInv'
  BY <1>0, <1>3 DEF DrainStart, tableVars, ChargeInv, ChargesBounded
<1>4. ASSUME NEW w \in Workers, DrainQueue(w) PROVE ChargeInv'
  <2>1. Step /\ UNCHANGED task
    BY <1>0, <1>4, DrainQueueStep DEF DrainOthers
  <2>2. born' = born \/ (born' = born + 1 /\ Chargeable(rows'[born + 1].attempts))
    BY <1>0, <1>4, DrainRow DEF DrainResubmit
  <2>3. ASSUME NEW v \in Workers, drain'[v].pc = "resubmit"
        PROVE  drain'[v].row \in 1..born /\ Chargeable(rows[drain'[v].row].attempts + 1)
    <3>1. drain'[v].row = drain[v].row /\ (drain[v].pc = "resubmit" \/ (v = w /\ DrainRequeue(w)))
      BY <1>0, <1>4, <2>3, DrainRow
    <3>2. CASE DrainRequeue(w) /\ v = w
      BY <1>0, <3>1, <3>2 DEF DrainRequeue, DrainOK, Chargeable
    <3> QED BY <1>b, <3>1, <3>2
  <2> QED BY <1>a, <1>b, <2>1, <2>2, <2>3
<1>5. ASSUME NEW w \in Workers, Worker(w) PROVE ChargeInv'
  <2>1. Step /\ UNCHANGED <<tableVars, task>>
    BY <1>0, <1>5, WorkerStep DEF Sched
  <2>2. ASSUME NEW v \in Workers, drain'[v].pc = "resubmit" PROVE drain'[v] = drain[v]
    BY <1>0, <1>5, <2>2, WorkerDrains
  <2> QED BY <1>a, <1>b, <2>1, <2>2 DEF tableVars
<1>6. ASSUME NEW w \in Workers, NEW i \in Ids, LeaseAndDispatch(w, i) PROVE ChargeInv'
  <2>1. Step /\ UNCHANGED <<born, drain>>
    BY <1>0, <1>6, LeaseStep DEF LeaseAndDispatch
  <2>2. \A k \in Ids : task'[k].pc = "resubmit" => task[k].pc = "resubmit"
    <3>1. CASE task' = [task EXCEPT ![i] = [NoTask EXCEPT !.pc = "lookup", !.conn = batchConn[w]]]
      BY <1>0, <3>1 DEF TaskOK, NoTask
    <3> QED BY <1>6, <3>1 DEF LeaseAndDispatch
  <2> QED BY <1>a, <1>b, <2>1, <2>2
<1>7. ASSUME NEW i \in Ids, Run(i) PROVE ChargeInv'
  <2>1. Step /\ UNCHANGED drain /\ \A k \in Ids : k # i => task'[k] = task[k]
    BY <1>0, <1>7, RunStep, RunMoves DEF Others
  <2>2. born' = born \/ (born' = born + 1 /\ Chargeable(rows'[born + 1].attempts))
    BY <1>0, <1>7, RunRow DEF LoadResubmit
  <2>3. ASSUME NEW k \in Ids, task'[k].pc = "resubmit"
        PROVE  k \in 1..born /\ Chargeable(rows[k].attempts + 1)
    <3>1. CASE task[k].pc = "resubmit"
      BY <1>b, <3>1
    <3>2. CASE task[k].pc # "resubmit"
      <4>1. k = i /\ LoadFails(i) /\ rows[i].attempts + 1 < LoadAttempts
        BY <1>0, <1>7, <2>1, <2>3, <3>2, RunRow
      <4> QED BY <1>0, <4>1 DEF LoadFails, TaskOK, Chargeable
    <3> QED BY <3>1, <3>2
  <2> QED BY <1>a, <1>b, <2>1, <2>2, <2>3
<1>8. CASE (\E i \in Ids : EvictFind(i)) \/ EvictCommit
  <2>1. Step /\ UNCHANGED <<born, task, drain>>
    BY <1>0, <1>8, EvictStep DEF EvictOthers, EvictFind, EvictCommit, tableVars
  <2> QED BY <1>a, <1>b, <2>1
<1>9. ASSUME NEW j \in Jobs, Cancel(j) PROVE ChargeInv'
  <2>1. Step /\ UNCHANGED <<task, drain>>
    BY <1>0, <1>9, CancelStep DEF CancelOthers
  <2>2. born' = born
    BY <1>9 DEF Cancel, CancelStart, CancelScanGlobal, CancelScanWorkers, CancelScan, CancelConfirm,
           CancelDelete, CancelSettle, CancelMarker, CancelRunning, CancelRow, tableVars
  <2> QED BY <1>a, <1>b, <2>1, <2>2
<1> QED BY <1>1, <1>2, <1>3, <1>4, <1>5, <1>6, <1>7, <1>8, <1>9 DEF Next

\* No envelope is ever charged up to both limits, in any behaviour at all: a drain
\* requeues only below disconnectRequeueBudget, a failed load only below its own limit.
THEOREM ChargesStayBounded == Spec => []ChargesBounded
<1>1. Init => ChargeInv
  <2>1. Init => \A i \in Ids : rows[i].attempts = 0 /\ task[i].pc # "resubmit"
    BY DEF Init, EmptyTable, NoTask
  <2>2. Init => \A w \in Workers : drain[w].pc # "resubmit"
    BY DEF Init, NoDrain
  <2> QED BY <2>1, <2>2, LimitAssumption DEF ChargeInv, ChargesBounded, Chargeable
<1>2. IInv /\ ChargeInv /\ [Next]_vars => ChargeInv'
  BY ChargeNext
<1>3. ChargeInv => ChargesBounded
  BY DEF ChargeInv
<1> QED BY <1>1, <1>2, <1>3, DispatchInvariant, PTL DEF Spec

-----------------------------------------------------------------------------
(* Every hand-out but the first is charged, in a quiet world.  A row that  *)
(* has not been handed out carries a charge for every hand-out that its    *)
(* job has had, one that has been lags behind by one.                      *)

\* The rows that wait, the rows that a drain will release, and the rows that have not
\* been handed out.
Open  == {i \in Ids : rows[i].lease \in {"free", "deferred"}}
Cold  == {i \in Ids : \E w \in Workers :
            /\ i \in drain[w].todo \ drain[w].hot
            /\ ~(drain[w].pc \in {"drop", "resubmit", "revert"} /\ drain[w].row = i)}
Fresh == Open \cup {i \in Courses : task[i].pc \in PreAssign} \cup Cold

\* The rows whose resubmission is owed, and the rows that may have been handed out.
Debtors == {i \in Ids : task[i].pc = "resubmit"}
             \cup {drain[w].row : w \in {v \in Workers : drain[v].pc = "resubmit"}}
Used    == Courses \cup Pending \cup Debtors

Counted ==
  /\ \A i \in Fresh : starts[JobOf(i)] <= rows[i].attempts
  /\ \A i \in Used : starts[JobOf(i)] <= rows[i].attempts + 1
  /\ \A j \in Jobs : starts[j] = 0 \/ \E i \in 1..born : JobOf(i) = j /\ starts[j] <= rows[i].attempts + 1

\* All these rows were born.
LEMMA FreshBorn ==
  ASSUME Refs
  PROVE  Fresh \subseteq 1..born /\ Used \subseteq 1..born /\ Cold \subseteq Pending
<1>1. Cold \subseteq Pending
  BY DEF Cold, Pending
<1>2. Open \subseteq 1..born
  <2>1. \A i \in Open : i \in Ids /\ ~(i > born) /\ born \in Nat
    BY BornIds DEF Open, Refs, TableOK
  <2> QED BY <2>1 DEF Ids
<1>3. Debtors \subseteq 1..born
  BY DEF Debtors, Refs, TaskOK, DrainOK
<1> QED BY <1>1, <1>2, <1>3, CoursesBorn, PendingBorn DEF Fresh, Used

\* Every row but k stays as it is, or is leased or deleted.
Sinks(t, u, k) == \A i \in Ids : i # k =>
  u[i] = t[i] \/ u[i].lease = "gone" \/ (u[i].lease = "leased" /\ Live(t, i))

\* No course is new but row k.
LEMMA CoursesSink ==
  ASSUME Refs, Step, NEW k, Sinks(rows, rows', k),
         \A i \in Ids : Active(i)' => Active(i) \/ Live(rows, i)
  PROVE  Courses' \subseteq Courses \cup {k}
<1>1. EbbsBut(rows, rows', k)
  BY DEF Sinks, EbbsBut, Live, Closed
<1> QED BY <1>1, CoursesBut

\* A step that hands nothing out keeps the count when the one row k that it inserts or
\* opens is charged, and whoever is found or owed now was there before.
LEMMA CountedFrame ==
  ASSUME Refs, Step, Counted, starts' = starts, NEW k, Sinks(rows, rows', k),
         k \in Ids /\ Live(rows', k) =>
           k \in 1..born' /\ starts[rows'[k].job] <= rows'[k].attempts,
         \A i \in Ids : Active(i)' => Active(i) \/ Live(rows, i),
         \A i \in Ids : task'[i].pc \in PreAssign => task[i].pc \in PreAssign \/ i \in Open,
         Pending' \subseteq Courses \cup Pending, Cold' \subseteq Open \cup Cold,
         Debtors' \subseteq Used
  PROVE  Counted'
<1>0. /\ born \in Nat /\ born' \in Nat /\ born <= born' /\ 1..born \subseteq 1..born'
      /\ \A i \in 1..born : /\ rows'[i].job = rows[i].job /\ rows'[i].attempts = rows[i].attempts
                            /\ rows[i].attempts \in Nat /\ i \in Ids
                            /\ starts[rows[i].job] \in Nat
  <2>1. born \in Nat /\ born' \in Nat /\ born <= born' /\ 1..born \subseteq Ids
    BY BornIds, RowBound DEF Step, TableStep, TableOK
  <2>2. \A i \in 1..born : rows[i].attempts \in Nat /\ starts[rows[i].job] \in Nat
    BY <2>1, BornIds DEF Refs, TableOK, Row, JobsOK, JobOf
  <2> QED BY <2>1, <2>2, AttemptsKept
<1>1. ASSUME NEW i \in Fresh, i \in Ids PROVE starts'[rows'[i].job] <= rows'[i].attempts
  BY <1>0, FreshBorn DEF Counted, JobOf
<1>2. ASSUME NEW i \in Used PROVE starts'[rows'[i].job] <= rows'[i].attempts + 1
  BY <1>0, FreshBorn DEF Counted, JobOf
<1>3. ASSUME k \in Ids, Live(rows', k)
      PROVE  /\ starts'[rows'[k].job] <= rows'[k].attempts
             /\ starts'[rows'[k].job] <= rows'[k].attempts + 1
  <2>1. /\ starts[rows'[k].job] <= rows'[k].attempts
        /\ starts[rows'[k].job] \in Nat /\ rows'[k].attempts \in Nat
    BY <1>3 DEF Step, TableStep, TableOK, Row, Refs, JobsOK
  <2> QED BY <2>1
<1>4. Courses' \subseteq Courses \cup {k}
  BY CoursesSink
\* Row k, where it is no new life.
<1>5. ASSUME k \in Courses', ~Live(rows', k)
      PROVE  k \in Courses
  <2>1. k \in Ids /\ rows'[k].q # "global" /\ (Active(k) \/ Live(rows, k))
    BY <1>5 DEF Courses
  <2>2. k \in 1..born
    BY <2>1, BornIds DEF Active, Refs, TaskOK, Going, PreAssign
  <2>3. rows'[k].q = rows[k].q
    BY <2>2 DEF Step, TableStep, Same
  <2> QED BY <2>1, <2>3 DEF Courses
<1>6. ASSUME NEW i \in Fresh' PROVE starts'[rows'[i].job] <= rows'[i].attempts
  <2>1. CASE i \in Open'
    <3>1. i \in Ids /\ Live(rows', i)
      BY <2>1 DEF Open, Live
    <3>2. i = k \/ i \in Open
      BY <2>1, <3>1 DEF Open, Sinks
    <3> QED BY <1>1, <1>3, <3>1, <3>2 DEF Fresh
  <2>2. CASE i \in Courses' /\ task'[i].pc \in PreAssign
    <3>1. i \in Ids /\ (task[i].pc \in PreAssign \/ i \in Open)
      BY <2>2 DEF Courses
    <3>2. CASE i \in Courses
      BY <1>1, <3>1, <3>2 DEF Fresh
    <3>3. CASE i \notin Courses
      <4>1. i = k /\ Live(rows', k)
        BY <1>4, <1>5, <2>2, <3>3
      <4> QED BY <1>3, <3>1, <4>1
    <3> QED BY <3>2, <3>3
  <2>3. CASE i \in Cold'
    <3>1. i \in Fresh /\ i \in Ids
      BY <2>3 DEF Fresh, Cold, Open
    <3> QED BY <1>1, <3>1
  <2> QED BY <2>1, <2>2, <2>3 DEF Fresh
<1>7. ASSUME NEW i \in Used' PROVE starts'[rows'[i].job] <= rows'[i].attempts + 1
  <2>1. CASE i \in Courses'
    BY <1>2, <1>3, <1>4, <1>5, <2>1, CoursesBorn DEF Used, Courses
  <2>2. CASE i \in Pending' \/ i \in Debtors'
    <3>1. i \in Used
      BY <2>2 DEF Used
    <3> QED BY <1>2, <3>1
  <2> QED BY <2>1, <2>2 DEF Used
<1>8. ASSUME NEW j \in Jobs, starts'[j] # 0
      PROVE  \E i \in 1..born' : rows'[i].job = j /\ starts'[j] <= rows'[i].attempts + 1
  <2>1. PICK i \in 1..born : rows[i].job = j /\ starts[j] <= rows[i].attempts + 1
    BY <1>8 DEF Counted, JobOf
  <2> QED BY <1>0, <2>1
<1> QED BY <1>6, <1>7, <1>8 DEF Counted, JobOf

\* Deleting rows, and leaving them alone.
LEMMA SinkDelete ==
  ASSUME NEW t, NEW b, TableOK(t, b), NEW S, NEW k
  PROVE  Sinks(t, Delete(t, S), k) /\ Sinks(t, t, k)
BY DEF Sinks, Delete, TableOK, Row

\* Leasing a live row.
LEMMA SinkLease ==
  ASSUME NEW t, NEW b, TableOK(t, b), NEW i \in Ids, Live(t, i), NEW k
  PROVE  Sinks(t, LeaseByID(t, i), k)
BY DEF Sinks, LeaseByID, TableOK, Row

\* What waits for a drain, and what is owed, while no drain and no dispatch moves.
LEMMA ColdFrame ==
  ASSUME UNCHANGED drain
  PROVE  Pending' = Pending /\ Cold' = Cold
BY DEF Pending, Cold

\* Who owes a resubmission does not change while drains and goroutines stand still.
LEMMA DebtorsFrame == ASSUME UNCHANGED <<task, drain>> PROVE Debtors' = Debtors
BY DEF Debtors

\* A step of neither dispatches nor drains nor workers.
LEMMA CountedQuiet ==
  ASSUME Refs, Step, Counted, UNCHANGED <<starts, drain, task, status, conn>>,
         NEW k, Sinks(rows, rows', k),
         k \in Ids /\ Live(rows', k) =>
           k \in 1..born' /\ starts[rows'[k].job] <= rows'[k].attempts
  PROVE  Counted'
<1>1. \A i \in Ids : Active(i)' => Active(i)
  BY ActiveFrame
<1>2. Pending' = Pending /\ Cold' = Cold /\ Debtors' = Debtors
  BY ColdFrame, DebtorsFrame
<1>3. Pending' \subseteq Courses \cup Pending /\ Cold' \subseteq Open \cup Cold /\ Debtors' \subseteq Used
  BY <1>2 DEF Used
<1>4. \A i \in Ids : task'[i].pc \in PreAssign => task[i].pc \in PreAssign
  OBVIOUS
<1> QED BY <1>1, <1>3, <1>4, CountedFrame

\* A new job has no charge and needs none; a placement and a steal copy the charges.
LEMMA CountedPlacement ==
  ASSUME Refs, Unsubmitted, Counted, Placement
  PROVE  Counted'
<1>0. /\ Step /\ PlaceOK /\ TableOK(rows, born) /\ UNCHANGED <<task, drain, status, conn>>
      /\ born \in Nat /\ (Room => born + 1 \in Ids) /\ Next1 = born + 1 /\ 0 \notin Ids
  BY PlacementStep, RowBound DEF Refs, workerVars, TableOK, Room, Next1, Ids
<1>a. \A i \in Open : starts[rows[i].job] <= rows[i].attempts
  BY DEF Counted, Fresh, JobOf
<1>1. ASSUME NEW j \in Jobs, SubmitEnqueue(j) PROVE Counted'
  <2>1. /\ rows' = Submit(rows, born + 1, "global", j, 0, 0) /\ born' = born + 1 /\ Room
        /\ place[j].pc = "created" /\ starts' = starts
    BY <1>0, <1>1 DEF SubmitEnqueue, jobVars
  <2>2. /\ rows'[born + 1].job = j /\ rows'[born + 1].attempts = 0
        /\ \A i \in Ids : i # born + 1 => rows'[i] = rows[i]
    BY <1>0, <2>1 DEF Submit, TableOK
  <2>3. starts[j] = 0
    BY <2>1 DEF Counted, Unsubmitted, JobOf
  <2>4. Sinks(rows, rows', born + 1)
    BY <2>2 DEF Sinks
  <2>5. born + 1 \in 1..born' /\ starts[rows'[born + 1].job] <= rows'[born + 1].attempts
    BY <1>0, <2>1, <2>2, <2>3
  <2> QED BY <1>0, <2>1, <2>4, <2>5, CountedQuiet
<1>2. ASSUME NEW p \in Placers, PlaceCommit(p) PROVE Counted'
  <2> DEFINE i == place[p].row
  <2>1. CASE Visible(rows, i)
    <3>1. /\ rows' = LeaseAndSubmit(rows, i, born + 1, place[p].target) /\ born' = born + 1
          /\ i \in 1..born /\ i \in Ids /\ Room /\ starts' = starts
      BY <1>0, <1>2, <2>1, BornIds DEF PlaceCommit, PlaceOK, jobVars
    <3>2. /\ rows'[born + 1].job = rows[i].job /\ rows'[born + 1].attempts = rows[i].attempts
          /\ \A n \in Ids : n # born + 1 => rows'[n] = LeaseByID(rows, i)[n]
      BY <1>0, <3>1 DEF LeaseAndSubmit, LeaseByID, Submit, TableOK
    <3>3. Sinks(rows, rows', born + 1)
      <4>1. Sinks(rows, LeaseByID(rows, i), born + 1)
        BY <1>0, <2>1, <3>1, SinkLease DEF Visible, Live
      <4> QED BY <3>2, <4>1 DEF Sinks
    <3>4. i \in Open
      BY <2>1, <3>1 DEF Visible, Open
    <3>5. born + 1 \in 1..born' /\ starts[rows'[born + 1].job] <= rows'[born + 1].attempts
      BY <1>0, <1>a, <3>1, <3>2, <3>4
    <3> QED BY <1>0, <3>1, <3>3, <3>5, CountedQuiet
  <2>2. CASE ~Visible(rows, i)
    <3>1. rows' = rows /\ starts' = starts
      BY <1>2, <2>2 DEF PlaceCommit, tableVars, jobVars
    <3>2. Sinks(rows, rows', 0)
      BY <3>1 DEF Sinks
    <3> QED BY <1>0, <3>1, <3>2, CountedQuiet
  <2> QED BY <2>1, <2>2
<1>3. CASE StealCommit
  <2> DEFINE i == place["dispatcher"].row
  <2>1. CASE Visible(rows, i)
    <3>1. /\ rows' = MoveTo(rows, i, born + 1, place["dispatcher"].target) /\ born' = born + 1
          /\ i \in 1..born /\ i \in Ids /\ Room /\ starts' = starts
      BY <1>0, <1>3, <2>1, BornIds DEF StealCommit, PlaceOK, Placers, jobVars
    <3>2. /\ rows'[born + 1].job = rows[i].job /\ rows'[born + 1].attempts = rows[i].attempts
          /\ \A n \in Ids : n # born + 1 => rows'[n] = Delete(rows, {i})[n]
      BY <1>0, <3>1 DEF MoveTo, Delete, Submit, TableOK
    <3>3. Sinks(rows, rows', born + 1)
      <4>1. Sinks(rows, Delete(rows, {i}), born + 1)
        BY <1>0, SinkDelete
      <4> QED BY <3>2, <4>1 DEF Sinks
    <3>4. i \in Open
      BY <2>1, <3>1 DEF Visible, Open
    <3>5. born + 1 \in 1..born' /\ starts[rows'[born + 1].job] <= rows'[born + 1].attempts
      BY <1>0, <1>a, <3>1, <3>2, <3>4
    <3> QED BY <1>0, <3>1, <3>3, <3>5, CountedQuiet
  <2>2. CASE ~Visible(rows, i)
    <3>1. rows' = rows /\ starts' = starts
      BY <1>3, <2>2 DEF StealCommit, tableVars, jobVars
    <3>2. Sinks(rows, rows', 0)
      BY <3>1 DEF Sinks
    <3> QED BY <1>0, <3>1, <3>2, CountedQuiet
  <2> QED BY <2>1, <2>2
<1>4. CASE DeleteUnbenchable
  <2>1. rows' = Delete(rows, {place["dispatcher"].row}) /\ starts' = starts
    BY <1>4 DEF DeleteUnbenchable, jobVars
  <2>2. Sinks(rows, rows', 0)
    BY <1>0, <2>1, SinkDelete
  <2> QED BY <1>0, <2>1, <2>2, CountedQuiet
<1>5. ASSUME rows' = rows, starts' = starts PROVE Counted'
  <2>1. Sinks(rows, rows', 0)
    BY <1>5 DEF Sinks
  <2> QED BY <1>0, <1>5, <2>1, CountedQuiet
<1>6. ASSUME \A j \in Jobs : ~SubmitEnqueue(j), \A p \in Placers : ~PlaceCommit(p), ~StealCommit,
             ~DeleteUnbenchable
      PROVE  rows' = rows /\ starts' = starts
  BY <1>6 DEF Placement, Placers, SubmitCreate, SubmitPick, DispatcherPick, Unbenchable,
              FailUnbenchable, StealPick, tableVars, jobVars
<1> QED BY <1>1, <1>2, <1>3, <1>4, <1>5, <1>6

\* A dispatch that hands nothing out: a refused row waits again, uncharged, a failed
\* load comes back with one charge more.
LEMMA CountedRun ==
  ASSUME Refs, LeakInv, Counted, NEW i \in Ids, Run(i), ~AssignJob(i),
         task[i].pc # "resubmit" /\ task'[i].pc = "resubmit" => Active(i)
  PROVE  Counted'
<1>0. /\ Step /\ TaskOK /\ TableOK(rows, born) /\ UNCHANGED <<drain, status, conn>>
      /\ born \in Nat /\ (Room => born + 1 \in Ids) /\ Next1 = born + 1 /\ 0 \notin Ids
  BY RunStep, RowBound DEF Refs, Others, workerVars, TableOK, Room, Next1, Ids
<1>1. starts' = starts
  BY DEF Run, Lookup, GateBounce, GatePass, LoadDone, LoadFails, LoadResubmit, StartInflight,
       AbortDispatch, ProcessingResult, AssignFails, Unassign, StartPump, CleanupRows, LeaveDispatch,
       ReadCancel, FinishInflight, PumpSettle, PumpLeave, DeleteBothRows, DeferEnds, StreamEnds,
       jobVars
<1>2. /\ \A k \in Ids : k # i => task'[k] = task[k]
      /\ task'[i].pc \in Going => task[i].pc \in Going /\ task'[i].conn = task[i].conn
      /\ task'[i].pc \in PreAssign => task[i].pc \in PreAssign
  BY <1>0, RunMoves
<1>3. ASSUME NEW k \in Ids, Active(k)' PROVE Active(k)
  <2>1. task[k].pc \in Going /\ task'[k].conn = task[k].conn
    BY <1>2, <1>3 DEF Active
  <2> QED BY <1>0, <1>3, <2>1, ActiveStays
<1>4. \A k \in Ids : task'[k].pc \in PreAssign => task[k].pc \in PreAssign
  BY <1>2
<1>5. Debtors' \subseteq Used
  <2>1. ASSUME NEW k \in Ids, task'[k].pc = "resubmit" PROVE k \in Used
    <3>1. CASE task[k].pc = "resubmit"
      BY <3>1 DEF Used, Debtors
    <3>2. CASE task[k].pc # "resubmit"
      <4>1. k = i
        BY <1>2, <2>1, <3>2
      <4> QED BY <2>1, <3>2, <4>1, ActiveIsCourse DEF Used
    <3> QED BY <3>1, <3>2
  <2>2. \A w \in Workers : drain'[w].pc = "resubmit" => drain'[w].row \in Used
    BY <1>0 DEF Used, Debtors
  <2> QED BY <2>1, <2>2 DEF Debtors
<1>6. Pending' \subseteq Courses \cup Pending /\ Cold' \subseteq Open \cup Cold
  BY <1>0, ColdFrame
\* What is left is the row that is inserted or opened.
<1>a. ASSUME NEW k, Sinks(rows, rows', k),
             k \in Ids /\ Live(rows', k) =>
               k \in 1..born' /\ starts[rows'[k].job] <= rows'[k].attempts
      PROVE  Counted'
  BY <1>0, <1>1, <1>3, <1>4, <1>5, <1>6, <1>a, CountedFrame
<1>7. CASE LoadResubmit(i)
  <2>1. /\ rows' = Submit(rows, born + 1, "global", rows[i].job, 0, rows[i].attempts + 1)
        /\ born' = born + 1 /\ Room /\ i \in Debtors
    BY <1>0, <1>7 DEF LoadResubmit, Debtors, JobOf
  <2>2. /\ rows'[born + 1].job = rows[i].job /\ rows'[born + 1].attempts = rows[i].attempts + 1
        /\ \A k \in Ids : k # born + 1 => rows'[k] = rows[k]
    BY <1>0, <2>1 DEF Submit, TableOK
  <2>3. Sinks(rows, rows', born + 1)
    BY <2>2 DEF Sinks
  <2>4. starts[rows[i].job] <= rows[i].attempts + 1
    BY <2>1 DEF Counted, Used, JobOf
  <2>5. born + 1 \in 1..born'
    BY <1>0, <2>1
  <2> QED BY <1>a, <2>2, <2>3, <2>4, <2>5
<1>8. ASSUME i \in Fresh,
             \A k \in Ids : k # i => rows'[k] = rows[k]
      PROVE  Counted'
  <2>1. Sinks(rows, rows', i)
    BY <1>8 DEF Sinks
  <2>2. i \in 1..born /\ i \in 1..born' /\ starts[rows[i].job] <= rows[i].attempts
    BY <1>8, <1>0, FreshBorn, Stable DEF Counted, JobOf
  <2>3. rows'[i].job = rows[i].job /\ rows'[i].attempts = rows[i].attempts
    BY <1>0, <2>2, AttemptsKept
  <2> QED BY <1>a, <2>1, <2>2, <2>3
<1>9. ASSUME NEW S, rows' = Delete(rows, S) \/ rows' = rows PROVE Counted'
  <2>1. Sinks(rows, rows', 0)
    BY <1>0, <1>9, SinkDelete
  <2> QED BY <1>0, <1>a, <2>1
<1>10. CASE GateBounce(i)
  <2>1. CASE Live(rows, i)
    <3>1. i \in Fresh
      BY <1>10, <2>1 DEF GateBounce, Fresh, Courses, PreAssign, LeakInv, TasksHeld, Held
    <3>2. \A k \in Ids : k # i => rows'[k] = rows[k]
      BY <1>0, <1>10 DEF GateBounce, Defer, TableOK
    <3> QED BY <1>8, <3>1, <3>2
  <2>2. CASE ~Live(rows, i)
    <3>1. rows' = rows
      BY <1>0, <1>10, <2>2 DEF GateBounce, Defer, TableOK, Row
    <3> QED BY <1>9, <3>1
  <2> QED BY <2>1, <2>2
<1>11. CASE DeferEnds(i)
  <2>1. i \in Fresh /\ \A k \in Ids : k # i => rows'[k] = rows[k]
    BY <1>0, <1>11 DEF DeferEnds, Fresh, Open, TableOK
  <2> QED BY <1>8, <2>1
<1>12. CASE LoadFails(i) \/ CleanupRows(i) \/ DeleteBothRows(i)
  <2>1. rows' = Delete(rows, {i, rows[i].anchor}) \/ rows' = rows
    BY <1>12 DEF LoadFails, CleanupRows, DeleteBothRows, DeleteBoth
  <2> QED BY <1>9, <2>1
<1>13. ASSUME ~LoadResubmit(i), ~GateBounce(i), ~DeferEnds(i), ~LoadFails(i), ~CleanupRows(i),
              ~DeleteBothRows(i)
       PROVE  rows' = rows
  BY <1>13 DEF Run, Lookup, GatePass, LoadDone, StartInflight, AbortDispatch, ProcessingResult,
       AssignFails, Unassign, StartPump, LeaveDispatch, ReadCancel, FinishInflight, PumpSettle,
       PumpLeave, StreamEnds, tableVars
<1> QED BY <1>7, <1>9, <1>10, <1>11, <1>12, <1>13

\* The hand-out: its row is all that its job has, so that no other row falls behind.
LEMMA CountedAssign ==
  ASSUME Refs, LeakInv, Counted, Single(rows, Courses \cup Pending, Owing),
         NEW i \in Ids, AssignJob(i), i \notin Pending
  PROVE  Counted'
<1>0. /\ TaskOK /\ TableOK(rows, born) /\ JobsOK /\ UNCHANGED <<rows, born, drain, status, conn>>
      /\ task[i].pc = "assign" /\ Alive(i) /\ i \in 1..born
      /\ starts' = [starts EXCEPT ![JobOf(i)] = @ + 1] /\ JobOf(i) \in Jobs
  BY BornIds DEF AssignJob, Refs, tableVars, Others, workerVars, TaskOK
<1>1. /\ \A k \in Ids : k # i => task'[k] = task[k]
      /\ task'[i].pc = "attach"
  BY <1>0 DEF AssignJob, Goto, TaskOK
<1>2. i \in Courses /\ i \in Fresh
  BY <1>0, ActiveIsCourse DEF Active, Going, PreAssign, Fresh
<1>3. /\ starts[JobOf(i)] \in Nat /\ rows[i].attempts \in Nat
      /\ starts[JobOf(i)] <= rows[i].attempts
      /\ \A j \in Jobs : starts'[j] = IF j = JobOf(i) THEN starts[j] + 1 ELSE starts[j]
  BY <1>0, <1>2 DEF Counted, JobsOK, TableOK, Row
<1>4. Pending' = Pending /\ Cold' = Cold /\ Open' = Open
  BY <1>0, ColdFrame DEF Open
<1>5. Courses' \subseteq Courses
  <2>1. ASSUME NEW k \in Ids, Active(k)' PROVE Active(k)
    BY <1>0, <1>1, <2>1 DEF Active, Alive, Online, Going, PreAssign
  <2> QED BY <1>0, <2>1 DEF Courses
<1>6. Debtors' \subseteq Debtors
  BY <1>0, <1>1 DEF Debtors
\* What else there is of the job.
<1>7. ASSUME NEW k \in Courses \cup Pending, JobOf(k) = JobOf(i) PROVE k = i
  BY <1>2, <1>7 DEF Single, JobOf
<1>8. ASSUME NEW k \in Open, JobOf(k) = JobOf(i) PROVE FALSE
  <2>1. k \in Ids /\ Live(rows, k) /\ rows[k].lease \in {"free", "deferred"}
    BY <1>8 DEF Open, Live
  <2>2. CASE rows[k].q = "global"
    <3>1. k = rows[i].anchor
      BY <1>2, <1>8, <2>1, <2>2 DEF Single, Globals, JobOf
    <3>2. Closed(rows, k)
      BY <1>2, <3>1 DEF Single
    <3> QED BY <2>1, <3>2 DEF Closed
  <2>3. CASE rows[k].q # "global"
    <3>1. k = i
      BY <1>7, <1>8, <2>1, <2>3 DEF Courses
    <3>2. rows[i].lease \in {"leased", "gone"}
      BY <1>0 DEF LeakInv, TasksHeld, Held
    <3> QED BY <2>1, <3>1, <3>2
  <2> QED BY <2>2, <2>3
<1>9. ASSUME NEW k \in Debtors, JobOf(k) = JobOf(i) PROVE FALSE
  <2>1. \E x \in Owing : x[3] = JobOf(k)
    <3>1. CASE k \in Ids /\ task[k].pc = "resubmit"
      <4>1. <<"task", k, JobOf(k)>> \in Owing
        BY <3>1 DEF Owing
      <4> QED BY <4>1
    <3>2. ASSUME NEW w \in Workers, drain[w].pc = "resubmit", k = drain[w].row
          PROVE  \E x \in Owing : x[3] = JobOf(k)
      <4>1. <<"drain", w, JobOf(k)>> \in Owing
        BY <3>2 DEF Owing, InDrain
      <4> QED BY <4>1
    <3> QED BY <3>1, <3>2 DEF Debtors
  <2> QED BY <1>2, <1>9, <2>1 DEF Single, JobOf
<1>10. ASSUME NEW k \in Fresh' PROVE starts'[JobOf(k)'] <= rows'[k].attempts
  <2>1. k \in Fresh /\ k \in 1..born /\ JobOf(k) \in Jobs
    <3>1. k \in Fresh
      <4>1. CASE k \in Courses' /\ task'[k].pc \in PreAssign
        BY <1>1, <1>5, <4>1 DEF Fresh, Courses, PreAssign
      <4> QED BY <1>4, <4>1 DEF Fresh
    <3> QED BY <3>1, FreshBorn, BornIds
  <2>2. JobOf(k) # JobOf(i)
    <3> SUFFICES ASSUME JobOf(k) = JobOf(i) PROVE FALSE
      OBVIOUS
    <3>1. CASE k \in Courses' /\ task'[k].pc \in PreAssign
      BY <1>1, <1>5, <1>7, <3>1 DEF PreAssign
    <3>2. CASE k \in Open
      BY <1>8, <3>2
    <3>3. CASE k \in Cold
      BY <1>7, <3>3, FreshBorn
    <3> QED BY <1>4, <3>1, <3>2, <3>3 DEF Fresh
  <2> QED BY <1>0, <1>3, <2>1, <2>2 DEF Counted, JobOf
<1>11. ASSUME NEW k \in Used' PROVE starts'[JobOf(k)'] <= rows'[k].attempts + 1
  <2>1. k \in Used /\ k \in 1..born /\ JobOf(k) \in Jobs
    <3>1. k \in Used
      BY <1>4, <1>5, <1>6 DEF Used
    <3> QED BY <3>1, FreshBorn, BornIds
  <2>2. JobOf(k) = JobOf(i) => k = i
    BY <1>7, <1>9, <2>1 DEF Used
  <2> QED BY <1>0, <1>3, <2>1, <2>2 DEF Counted, JobOf
<1>12. ASSUME NEW j \in Jobs, starts'[j] # 0
       PROVE  \E k \in 1..born' : JobOf(k)' = j /\ starts'[j] <= rows'[k].attempts + 1
  <2>1. CASE j = JobOf(i)
    <3>1. JobOf(i)' = j /\ starts'[j] <= rows'[i].attempts + 1
      BY <1>0, <1>3, <2>1 DEF JobOf
    <3> QED BY <1>0, <3>1
  <2>2. CASE j # JobOf(i)
    BY <1>0, <1>3, <1>12, <2>2 DEF Counted, JobOf
  <2> QED BY <2>1, <2>2
<1> QED BY <1>10, <1>11, <1>12 DEF Counted

\* What a drain will release it has found waiting.
LEMMA ColdMoves ==
  ASSUME Refs, DrainRows, NEW w \in Workers, DrainQueue(w)
  PROVE  /\ Cold' \subseteq Open \cup Cold
         /\ DrainRelease(w) => drain[w].row \in Cold
<1>0. DrainOK /\ \A v \in Workers : v # w => drain'[v] = drain[v]
  BY DrainMoves DEF Refs
<1>1. ASSUME NEW T, T \subseteq Open \cup Cold,
             \A i \in drain'[w].todo \ drain'[w].hot :
               \/ i \in T
               \/ drain'[w].pc \in {"drop", "resubmit", "revert"} /\ drain'[w].row = i
      PROVE  Cold' \subseteq Open \cup Cold
  <2> SUFFICES ASSUME NEW i \in Cold' PROVE i \in Open \cup Cold
    OBVIOUS
  <2>1. PICK v \in Workers :
          /\ i \in drain'[v].todo \ drain'[v].hot /\ i \in Ids
          /\ ~(drain'[v].pc \in {"drop", "resubmit", "revert"} /\ drain'[v].row = i)
    BY DEF Cold
  <2> QED BY <1>0, <1>1, <2>1 DEF Cold
<1>2. (drain[w].todo \ drain[w].hot) \ {drain[w].row} \subseteq Cold
  BY <1>0 DEF Cold, DrainOK
<1>3. drain[w].pc \notin {"drop", "resubmit", "revert"} => drain[w].todo \ drain[w].hot \subseteq Cold
  BY <1>0 DEF Cold, DrainOK
<1>4. CASE DrainPeek(w)
  <2>1. PICK S, h :
          /\ S \in SUBSET PeekAll(rows, w)
          /\ h = {i \in S : Hidden(rows, i)}
          /\ drain' = [drain EXCEPT ![w].pc = "loop", ![w].hot = h,
                                    ![w].todo = IF drain[w].all THEN S ELSE S \ h]
    BY <1>4 DEF DrainPeek
  <2>2. drain'[w].todo \ drain'[w].hot \subseteq S \ h
    <3>1. PICK t : t = IF drain[w].all THEN S ELSE S \ h
      OBVIOUS
    <3>2. drain' = [drain EXCEPT ![w].pc = "loop", ![w].hot = h, ![w].todo = t]
      BY <2>1, <3>1
    <3>3. drain'[w].hot = h /\ drain'[w].todo = t
      BY <1>0, <3>2 DEF DrainOK
    <3> QED BY <3>1, <3>3
  <2>3. S \ h \subseteq Open
    BY <2>1 DEF PeekAll, Hidden, Open, Live
  <2>4. ~DrainRelease(w)
    BY <1>4 DEF DrainPeek, DrainRelease
  <2> QED BY <1>1, <2>2, <2>3, <2>4
<1>5. ASSUME NEW i \in Ids, DrainCheck(w, i) PROVE Cold' \subseteq Open \cup Cold /\ ~DrainRelease(w)
  <2>1. /\ drain[w].pc = "loop" /\ drain'[w].todo = drain[w].todo /\ drain'[w].hot = drain[w].hot
    BY <1>0, <1>5 DEF DrainCheck, DrainOK
  <2> QED BY <1>1, <1>3, <2>1 DEF DrainRelease
<1>6. CASE DrainDrop(w) \/ DrainRelease(w) \/ DrainRevert(w)
  <2>1. DrainNext(w)
    BY <1>6 DEF DrainDrop, DrainRelease, DrainRevert
  <2>2. drain'[w].todo = drain[w].todo \ {drain[w].row} /\ drain'[w].hot = drain[w].hot
    BY <1>0, <2>1 DEF DrainNext, DrainOK
  <2>3. DrainRelease(w) => drain[w].row \in Cold
    BY <1>3 DEF DrainRelease, DrainRows
  <2> QED BY <1>1, <1>2, <2>2, <2>3
<1>7. CASE DrainExhausted(w) \/ DrainRequeue(w) \/ DrainResubmit(w)
  <2>1. /\ drain'[w].todo = drain[w].todo /\ drain'[w].row = drain[w].row
        /\ drain'[w].hot = drain[w].hot /\ drain'[w].pc \in {"drop", "resubmit", "revert"}
    BY <1>0, <1>7 DEF DrainExhausted, DrainRequeue, DrainResubmit, DrainOK
  <2>2. ~DrainRelease(w)
    BY <1>7 DEF DrainExhausted, DrainRequeue, DrainResubmit, DrainRelease
  <2> QED BY <1>1, <1>2, <2>1, <2>2
<1>8. CASE DrainEnd(w)
  <2>1. drain'[w] = NoDrain /\ NoDrain.todo = {}
    BY <1>0, <1>8 DEF DrainEnd, DrainOK, NoDrain
  <2>2. ~DrainRelease(w)
    BY <1>8 DEF DrainEnd, DrainRelease
  <2>3. drain'[w].todo \ drain'[w].hot = {}
    BY <2>1
  <2> QED BY <1>1, <2>2, <2>3
<1> QED BY <1>4, <1>5, <1>6, <1>7, <1>8 DEF DrainQueue

\* A drain: what has not been handed out goes back uncharged, the rest with one charge more.
LEMMA CountedDrain ==
  ASSUME Refs, LeakInv, Counted, DrainRows, NEW w \in Workers, DrainQueue(w)
  PROVE  Counted'
<1> DEFINE d == drain[w].row
<1>0. /\ Step /\ DrainOK /\ TableOK(rows, born) /\ UNCHANGED <<task, status, conn>>
      /\ born \in Nat /\ (Room => born + 1 \in Ids) /\ Next1 = born + 1 /\ 0 \notin Ids
  BY DrainQueueStep, RowBound DEF Refs, DrainOthers, workerVars, TableOK, Room, Next1, Ids
<1>1. starts' = starts
  BY DEF DrainQueue, DrainPeek, DrainDrop, DrainRelease, DrainExhausted, DrainRequeue,
         DrainResubmit, DrainRevert, DrainEnd, DrainCheck, jobVars
<1>2. /\ Pending' \subseteq Courses \cup Pending /\ Cold' \subseteq Open \cup Cold
      /\ DrainRelease(w) => d \in Cold
      /\ DrainRequeue(w) => d \in Pending
  BY DrainMoves, ColdMoves
<1>3. Debtors' \subseteq Used
  <2>1. ASSUME NEW v \in Workers, drain'[v].pc = "resubmit" PROVE drain'[v].row \in Used
    <3>1. drain'[v].row = drain[v].row /\ (drain[v].pc = "resubmit" \/ (v = w /\ DrainRequeue(w)))
      BY <2>1, DrainRow
    <3> QED BY <1>2, <3>1 DEF Used, Debtors
  <2>2. \A k \in Ids : task'[k].pc = "resubmit" => k \in Used
    BY <1>0 DEF Used, Debtors
  <2> QED BY <2>1, <2>2 DEF Debtors
<1>4. (\A i \in Ids : Active(i)' => Active(i)) /\ \A i \in Ids : task'[i].pc \in PreAssign => task[i].pc \in PreAssign
  BY <1>0, ActiveFrame
<1>a. ASSUME NEW k, Sinks(rows, rows', k),
             k \in Ids /\ Live(rows', k) =>
               k \in 1..born' /\ starts[rows'[k].job] <= rows'[k].attempts
      PROVE  Counted'
  BY <1>0, <1>1, <1>2, <1>3, <1>4, <1>a, CountedFrame
<1>5. ASSUME NEW S, rows' = Delete(rows, S) \/ rows' = rows PROVE Counted'
  <2>1. Sinks(rows, rows', 0)
    BY <1>0, <1>5, SinkDelete
  <2> QED BY <1>0, <1>a, <2>1
<1>6. CASE DrainRelease(w)
  <2> DEFINE a == rows[d].anchor
             x == Delete(rows, {d})
  <2>1. rows' = ReleaseLease(x, a) /\ d \in 1..born /\ d \in Ids
    BY <1>0, <1>6, BornIds DEF DrainRelease, DeleteAndReleaseLease, DrainOK
  <2>2. \A i \in Ids : i # a => rows'[i] = x[i]
    BY <2>1 DEF ReleaseLease
  <2>3. Sinks(rows, rows', a)
    <3>1. Sinks(rows, x, a)
      BY <1>0, SinkDelete
    <3> HIDE DEF x
    <3> QED BY <2>2, <3>1 DEF Sinks
  <2>4. starts[rows[d].job] <= rows[d].attempts
    BY <1>2, <1>6 DEF Counted, Fresh, JobOf
  <2>5. ASSUME a \in Ids PROVE /\ a \in 1..born /\ a \in 1..born'
                               /\ rows'[a].job = rows[d].job /\ rows'[a].attempts = rows[d].attempts
    <3>1. a \in 1..born /\ rows[a].job = rows[d].job /\ rows[a].attempts = rows[d].attempts
      BY <1>0, <2>1, <2>5 DEF TableOK
    <3> QED BY <1>0, <3>1, AttemptsKept, Stable
  <2> HIDE DEF a
  <2> QED BY <1>a, <2>3, <2>4, <2>5
<1>7. CASE DrainResubmit(w)
  <2>1. /\ rows' = Submit(rows, born + 1, "global", rows[d].job, 0, rows[d].attempts + 1)
        /\ born' = born + 1 /\ Room /\ d \in Debtors
    BY <1>0, <1>7 DEF DrainResubmit, Debtors, JobOf, InDrain
  <2>2. /\ rows'[born + 1].job = rows[d].job /\ rows'[born + 1].attempts = rows[d].attempts + 1
        /\ \A k \in Ids : k # born + 1 => rows'[k] = rows[k]
    BY <1>0, <2>1 DEF Submit, TableOK
  <2>3. Sinks(rows, rows', born + 1)
    BY <2>2 DEF Sinks
  <2>4. starts[rows[d].job] <= rows[d].attempts + 1
    BY <2>1 DEF Counted, Used, JobOf
  <2>5. born + 1 \in 1..born'
    BY <1>0, <2>1
  <2> QED BY <1>a, <2>2, <2>3, <2>4, <2>5
<1>8. CASE DrainDrop(w) \/ DrainRequeue(w)
  <2>1. rows' = Delete(rows, {d, rows[d].anchor})
    BY <1>8 DEF DrainDrop, DrainRequeue, DeleteBoth
  <2> QED BY <1>5, <2>1
<1>9. ASSUME ~DrainRelease(w), ~DrainResubmit(w), ~DrainDrop(w), ~DrainRequeue(w) PROVE rows' = rows
  BY <1>9 DEF DrainQueue, DrainPeek, DrainExhausted, DrainRevert, DrainEnd, DrainCheck, tableVars
<1> QED BY <1>5, <1>6, <1>7, <1>8, <1>9

\* A lease, of a row that waited.
LEMMA CountedLease ==
  ASSUME Refs, Counted, NEW w \in Workers, NEW i \in Ids, LeaseAndDispatch(w, i)
  PROVE  Counted'
<1>0. /\ Step /\ TaskOK /\ TableOK(rows, born) /\ UNCHANGED <<born, drain, status, conn>>
      /\ starts' = starts /\ 0 \notin Ids
  <2>1. Step /\ TaskOK /\ TableOK(rows, born) /\ UNCHANGED <<born, drain, status, conn>>
    BY LeaseStep DEF Refs, workerVars, LeaseAndDispatch
  <2>2. starts' = starts /\ 0 \notin Ids
    BY DEF LeaseAndDispatch, jobVars, Ids
  <2> QED BY <2>1, <2>2
<1>1. CASE Visible(rows, i)
  <2>1. /\ rows' = LeaseByID(rows, i) /\ Live(rows, i) /\ i \in Open
        /\ \A k \in Ids : k # i => task'[k] = task[k]
        /\ task'[i].pc = "lookup"
    BY <1>0, <1>1 DEF LeaseAndDispatch, Visible, Live, Open, NoTask, TaskOK
  <2>2. Sinks(rows, rows', 0)
    BY <1>0, <2>1, SinkLease
  <2>3. ASSUME NEW k \in Ids, Active(k)', k # i PROVE Active(k)
    <3>1. task[k].pc \in Going /\ task'[k].conn = task[k].conn
      BY <2>1, <2>3 DEF Active
    <3> QED BY <1>0, <2>3, <3>1, ActiveStays
  <2>4. \A k \in Ids : Active(k)' => Active(k) \/ Live(rows, k)
    BY <2>1, <2>3
  <2>5. Debtors' \subseteq Used
    BY <1>0, <2>1 DEF Debtors, Used
  <2>6. Pending' \subseteq Courses \cup Pending /\ Cold' \subseteq Open \cup Cold
    BY <1>0, ColdFrame
  <2>7. \A k \in Ids : task'[k].pc \in PreAssign => task[k].pc \in PreAssign \/ k \in Open
    BY <2>1
  <2> QED BY <1>0, <2>2, <2>4, <2>5, <2>6, <2>7, CountedFrame
<1>2. CASE ~Visible(rows, i)
  <2>1. UNCHANGED <<rows, task>>
    BY <1>0, <1>2 DEF LeaseAndDispatch
  <2>2. Sinks(rows, rows', 0)
    BY <2>1 DEF Sinks
  <2> QED BY <1>0, <2>1, <2>2, CountedQuiet
<1> QED BY <1>1, <1>2

\* A worker that comes or goes hands nothing out.
LEMMA CountedWorker ==
  ASSUME Refs, LeakInv, ConnOK, Counted, NEW w \in Workers, Worker(w)
  PROVE  Counted'
<1>0. Step /\ UNCHANGED <<rows, task, starts>> /\ 0 \notin Ids
  BY WorkerStep DEF Sched, tableVars, jobVars, Ids
<1>1. \A v \in Workers : drain'[v] = drain[v] \/ (drain'[v].pc \in {"idle", "peek"} /\ drain'[v].todo = {})
  BY WorkerDrains
<1>2. Pending' \subseteq Pending /\ Cold' \subseteq Cold
  BY <1>1 DEF Pending, Cold
<1>3. Debtors' \subseteq Used
  BY <1>0, <1>1 DEF Debtors, Used
<1>4. Sinks(rows, rows', 0)
  BY <1>0 DEF Sinks
<1>5. \A i \in Ids : Active(i)' => Active(i)
  BY WorkerActive
<1>6. \A i \in Ids : task'[i].pc \in PreAssign => task[i].pc \in PreAssign
  BY <1>0
<1> QED BY <1>0, <1>2, <1>3, <1>4, <1>5, <1>6, CountedFrame

\* A cancellation deletes rows.
LEMMA CountedCancel ==
  ASSUME Refs, Counted, NEW j \in Jobs, Cancel(j)
  PROVE  Counted'
<1>0. /\ Step /\ TableOK(rows, born) /\ UNCHANGED <<task, drain, status, conn>> /\ 0 \notin Ids
  BY CancelStep DEF Refs, CancelOthers, workerVars, Ids
<1>1. starts' = starts
  BY DEF Cancel, CancelStart, CancelScanGlobal, CancelScanWorkers, CancelScan, CancelConfirm,
         CancelDelete, CancelSettle, CancelMarker, CancelRunning, CancelRow, jobVars
<1>2. rows' = Delete(rows, {cancel[j].row, rows[cancel[j].row].anchor}) \/ rows' = rows
  BY DEF Cancel, CancelStart, CancelScanGlobal, CancelScanWorkers, CancelScan, CancelConfirm,
         CancelDelete, CancelSettle, CancelMarker, CancelRunning, CancelRow, tableVars, DeleteBoth
<1>3. Sinks(rows, rows', 0)
  BY <1>0, <1>2, SinkDelete
<1> QED BY <1>0, <1>1, <1>3, CountedQuiet

\* What keeps the budget in a quiet world.
BudgetInv == QuietInv /\ ChargeInv /\ Counted

\* At the start no job has been charged a delivery.
LEMMA BudgetInit == Init => BudgetInv
<1> SUFFICES ASSUME Init PROVE BudgetInv
  OBVIOUS
<1>1. \A i \in Ids : rows[i].attempts = 0 /\ rows[i].lease = "unborn" /\ task[i].pc = "none"
  BY DEF Init, EmptyTable, NoTask
<1>2. ChargeInv
  BY <1>1, LimitAssumption DEF Init, NoDrain, ChargeInv, ChargesBounded, Chargeable
<1>3. Fresh = {} /\ Used = {}
  BY <1>1 DEF Init, NoDrain, Fresh, Used, Open, Cold, Courses, Pending, Debtors, Live, Active, Going,
              PreAssign
<1>4. Counted
  BY <1>3 DEF Counted, Init
<1> QED BY <1>2, <1>4, QuietInit DEF BudgetInv

\* Every step of a quiet world keeps the count.
LEMMA BudgetNext == QuietWorld /\ IInv /\ LeakInv /\ BudgetInv /\ [Next]_vars => BudgetInv'
<1> SUFFICES ASSUME QuietWorld, IInv, LeakInv, BudgetInv, [Next]_vars PROVE BudgetInv'
  OBVIOUS
<1>0. /\ Refs /\ Unsubmitted /\ ConnOK /\ QuietEnv /\ DrainRows /\ Counted
      /\ Single(rows, Courses \cup Pending, Owing)
  BY DEF IInv, BudgetInv, QuietInv, QuietEnv
<1>1. QuietInv' /\ ChargeInv'
  BY QuietNext, ChargeNext DEF BudgetInv
<1> SUFFICES Counted'
  BY <1>1 DEF BudgetInv
<1>2. CASE UNCHANGED vars
  BY <1>0, <1>2 DEF vars, tableVars, jobVars, workerVars, Counted, Fresh, Used, Open, Cold, Courses,
                    Pending, Debtors, Live, Active, Alive, Online, JobOf
<1>3. ASSUME Placement PROVE Counted'
  BY <1>0, <1>3, CountedPlacement
<1>4. ASSUME NEW w \in Workers, DrainStart(w) PROVE Counted'
  BY <1>0, <1>4 DEF DrainStart, tableVars, jobVars, workerVars, Counted, Fresh, Used, Open, Cold,
                    Courses, Pending, Debtors, Live, Active, Alive, Online, JobOf
<1>5. ASSUME NEW w \in Workers, DrainQueue(w) PROVE Counted'
  BY <1>0, <1>5, CountedDrain
<1>6. ASSUME NEW w \in Workers, Worker(w) PROVE Counted'
  BY <1>0, <1>6, CountedWorker
<1>7. ASSUME NEW w \in Workers, NEW i \in Ids, LeaseAndDispatch(w, i) PROVE Counted'
  BY <1>0, <1>7, CountedLease
<1>8. ASSUME NEW i \in Ids, Run(i) PROVE Counted'
  <2>1. CASE AssignJob(i)
    <3>1. i \notin Pending
      <4> SUFFICES ASSUME i \in Pending PROVE FALSE
        OBVIOUS
      <4>1. PICK w \in Workers : i \in drain[w].todo
        BY DEF Pending
      <4>2. rows[i].q = w /\ drain[w] # NoDrain
        BY <1>0, <4>1 DEF Refs, DrainOK, NoDrain
      <4>3. status[w] = "away"
        <5>1. "drop" \in Events
          BY <1>0, <4>2 DEF QuietEnv, NoneLost
        <5>2. drain[w].pc # "idle"
          BY <1>0, <4>1 DEF DrainRows
        <5> QED BY <1>0, <5>1, <5>2 DEF QuietEnv, NoneReturns
      <4> QED BY <2>1, <4>2, <4>3 DEF AssignJob, Alive, Online
    <3> QED BY <1>0, <2>1, <3>1, CountedAssign
  <2>2. CASE ~AssignJob(i)
    <3>1. ASSUME task[i].pc # "resubmit", task'[i].pc = "resubmit" PROVE Active(i)
      <4>1. LoadFails(i) /\ task[i].pc = "load"
        BY <1>0, <1>8, <3>1, RunMoves DEF Refs, LoadFails
      <4>2. "drop" \notin Events
        BY <1>1, <3>1 DEF QuietInv, QuietEnv, NoneReturns
      <4> QED BY <1>0, <4>1, <4>2 DEF QuietEnv, NoneLost, Active, Going, PreAssign
    <3> QED BY <1>0, <1>8, <2>2, <3>1, CountedRun
  <2> QED BY <2>1, <2>2
<1>9. ASSUME (\E i \in Ids : EvictFind(i)) \/ EvictCommit PROVE FALSE
  BY <1>0, <1>9 DEF QuietWorld, QuietEnv, Calm, EvictFind, EvictCommit, Event
<1>10. ASSUME NEW j \in Jobs, Cancel(j) PROVE Counted'
  BY <1>0, <1>10, CountedCancel
<1> QED BY <1>2, <1>3, <1>4, <1>5, <1>6, <1>7, <1>8, <1>9, <1>10 DEF Next
\* A bounded set of natural numbers that is not empty has a largest element.
LEMMA LargestNatural ==
  ASSUME NEW S, S \subseteq Nat, NEW b \in Nat, \A n \in S : n <= b, NEW e \in S
  PROVE  Max(S) \in S /\ \A n \in S : n <= Max(S)
<1> DEFINE T == {b - n : n \in S}
           R == OpToRel(<, Nat)
<1>1. T \subseteq Nat /\ T # {}
  OBVIOUS
<1>2. \A x, y \in Nat : <<x, y>> \in R <=> x < y
  BY DEF OpToRel
<1>3. IsWellFoundedOn(R, Nat)
  BY NatLessThanWellFounded
<1> HIDE DEF R
<1>4. PICK t \in T : \A y \in T : <<y, t>> \notin R
  BY <1>1, <1>3, WFMin
<1>5. PICK m \in S : t = b - m
  OBVIOUS
<1>6. \A n \in S : n <= m
  <2> SUFFICES ASSUME NEW n \in S PROVE n <= m
    OBVIOUS
  <2>1. ~(b - n < b - m) /\ n \in Nat /\ m \in Nat
    BY <1>1, <1>2, <1>4, <1>5
  <2> QED BY <2>1
<1>7. \E x \in S : \A y \in S : x >= y
  BY <1>5, <1>6
<1>8. Max(S) \in S /\ \A y \in S : Max(S) >= y
  BY <1>7 DEF Max
<1> QED BY <1>8

\* The count gives the budget.
LEMMA BudgetFromCount ==
  ASSUME IInv, ChargesBounded, Counted, LoadAttempts <= Budget
  PROVE  DispatchBudget
<1> SUFFICES ASSUME NEW j \in Jobs
             PROVE  LET charges == {0} \cup {rows[i].attempts : i \in {k \in Ids : JobOf(k) = j}}
                    IN  (\A n \in charges : n < Budget) /\ starts[j] <= 1 + Max(charges)
  BY DEF DispatchBudget
<1> DEFINE charges == {0} \cup {rows[i].attempts : i \in {k \in Ids : JobOf(k) = j}}
<1>1. starts[j] \in Nat /\ Budget \in Nat \ {0} /\ LoadAttempts \in Nat
  BY LimitAssumption DEF IInv, Refs, JobsOK
<1>2. \A i \in Ids : rows[i].attempts \in Nat
  BY DEF IInv, Refs, TableOK, Row
<1>3. \A n \in charges : n \in Nat /\ n < Budget
  BY <1>1, <1>2 DEF ChargesBounded, Chargeable
<1>4. Max(charges) \in charges /\ \A n \in charges : n <= Max(charges)
  <2>1. 0 \in charges
    OBVIOUS
  <2> HIDE DEF charges
  <2>2. charges \subseteq Nat /\ Budget \in Nat /\ \A n \in charges : n <= Budget
    BY <1>1, <1>3
  <2> QED BY <2>1, <2>2, LargestNatural
<1>5. starts[j] <= 1 + Max(charges)
  <2>1. CASE starts[j] = 0
    <3>1. Max(charges) \in Nat
      BY <1>3, <1>4
    <3> HIDE DEF charges
    <3> QED BY <2>1, <3>1
  <2>2. CASE starts[j] # 0
    <3>1. PICK i \in 1..born : JobOf(i) = j /\ starts[j] <= rows[i].attempts + 1
      BY <2>2 DEF Counted
    <3>2. i \in Ids
      BY BornIds DEF IInv, Refs, TableOK
    <3>3. rows[i].attempts \in charges
      BY <3>1, <3>2
    <3> HIDE DEF charges
    <3> QED BY <1>1, <1>2, <1>3, <1>4, <3>1, <3>2, <3>3
  <2> QED BY <2>1, <2>2
<1> QED BY <1>3, <1>5

\* DispatchBudget, for every number of jobs, workers, rows and charges: where nothing is
\* evicted, re-enabled or toggled, and either no connection is lost or a worker that is gone
\* stays gone, every hand-out of a job after its first one is charged to its envelope
\* (requeueAfterDisconnect, resubmitForRetry) and the charges stay below
\* disconnectRequeueBudget.
THEOREM BudgetInQuietWorld ==
  ASSUME QuietWorld, LoadAttempts <= Budget
  PROVE  Spec => []DispatchBudget
<1>1. IInv /\ BudgetInv => DispatchBudget
  BY BudgetFromCount DEF BudgetInv, ChargeInv
<1>2. QuietWorld
  OBVIOUS
<1>3. QuietWorld /\ IInv /\ LeakInv /\ BudgetInv /\ [Next]_vars => BudgetInv'
  BY BudgetNext
<1>4. IInv /\ LeakInv /\ BudgetInv /\ [Next]_vars => BudgetInv'
  BY <1>2, <1>3
<1> QED BY <1>1, <1>4, BudgetInit, DispatchInvariant, LeakInvariant, PTL DEF Spec
=============================================================================
