------------------------------- MODULE Placement -------------------------------
(***************************************************************************)
(* Placement and its ledger (internal/scheduler/scheduler.go): a job goes  *)
(* to the worker on which it is expected to complete soonest, and what     *)
(* "soonest" means is read from the tails, a running sum per worker queue  *)
(* that every placement credits and every dispatch, steal and eviction     *)
(* debits.  A row is read, then moved in one transaction, and the ledger   *)
(* follows in further steps with the seconds that were read, so scoring    *)
(* sees it lag and a re-estimation may fall in between.                    *)
(*                                                                         *)
(* Seconds are small numbers.  The mirror and the stored tail are updated  *)
(* alike and the model keeps one of them.                                  *)
(***************************************************************************)
EXTENDS Integers, FiniteSets, FiniteSetsExt, Functions

CONSTANTS
  PJobs, PWorkers,
  PModels,         \* the models jobs need
  TaskSec,         \* the seconds a job computes on a worker with all its devices
  LoadSec,         \* the seconds a model switch takes
  Threshold,       \* stealThreshold
  Upsets, MaxUpsets   \* which of steal, load failure, cancel, evict and toggle happen; how many in all

ASSUME PlacementAssumption ==
  /\ TaskSec \in Nat /\ LoadSec \in Nat /\ Threshold \in Nat
  /\ Upsets \subseteq {"steal", "load", "cancel", "evict", "toggle"} /\ MaxUpsets \in Nat
ASSUME PlacesAssumption ==
  /\ IsFiniteSet(PJobs)
  /\ PWorkers \cap {"new", "global", "over", "none"} = {}

VARIABLES
  prow,      \* [PJobs -> the job's row: its number, the queue it is on, its lease, its QueuedSeconds]
  tail,      \* [PWorkers -> seconds and model of tails]
  resident,  \* [PWorkers -> the loaded model]
  halved,    \* [PWorkers -> some of the worker's devices are disabled]
  placer,    \* the goroutines that move rows: a caller of Submit, the dispatcher, an operator
  drain,     \* [PWorkers -> the row its drain has leased, as the drain read it]
  inflight,  \* [PWorkers -> the jobs of its inflight records]
  estimate,  \* [PWorkers -> the walk of ReestimateWorkerQueue]
  spent,     \* how many upsets happened
  skewed     \* history: the workers whose tail was last changed by an outdated figure

restVars == <<resident, halved, inflight, spent>>
placeVars == <<prow, tail, placer, drain, estimate, skewed, restVars>>

Places == {"new", "global", "over"} \cup PWorkers
Nobody == [at |-> "idle", job |-> "none", id |-> 0, to |-> "none", from |-> "none", sec |-> 0]
NoDrain == [job |-> "none", sec |-> 0]
NoWalk == [at |-> "idle", new |-> <<>>, sum |-> 0]
Spend(k) == k \in Upsets /\ spent < MaxUpsets /\ spent' = spent + 1

PlaceTypeOK ==
  /\ \A j \in PJobs : prow[j].at \in Places /\ prow[j].st \in {"free", "leased", "running"} /\ prow[j].sec \in Nat
                    /\ prow[j].model \in PModels \cup {"none"} /\ prow[j].id \in 0..MaxUpsets + 1
  /\ \A w \in PWorkers : tail[w].sec \in Nat /\ tail[w].model \in PModels \cup {"none"}
  /\ resident \in [PWorkers -> PModels \cup {"none"}] /\ halved \in [PWorkers -> BOOLEAN]
  /\ \A p \in {"submit", "loop", "operator"} : placer[p].at \in {"idle", "lease", "move", "debit", "credit"}
  /\ \A w \in PWorkers : drain[w].job \in PJobs \cup {"none"} /\ estimate[w].at \in {"idle", "write", "late"}
  /\ inflight \in [PWorkers -> SUBSET PJobs]
  /\ spent \in 0..MaxUpsets
  /\ skewed \subseteq PWorkers

PlaceInit ==
  /\ prow = [j \in PJobs |-> [id |-> 0, at |-> "new", st |-> "free", sec |-> 0, model |-> "none"]]
  /\ tail = [w \in PWorkers |-> [sec |-> 0, model |-> "none"]]
  /\ resident = [w \in PWorkers |-> "none"] /\ halved = [w \in PWorkers |-> FALSE]
  /\ placer = [p \in {"submit", "loop", "operator"} |-> Nobody]
  /\ drain = [w \in PWorkers |-> NoDrain] /\ inflight = [w \in PWorkers |-> {}]
  /\ estimate = [w \in PWorkers |-> NoWalk]
  /\ spent = 0 /\ skewed = {}

------------------------------------------------------------------------------
(* Scoring.                                                                *)

\* The job's own compute time; a worker with fewer devices takes twice as long.
TaskSeconds(w) == IF halved[w] THEN 2 * TaskSec ELSE TaskSec

\* With rows waiting, the worker will be warm for the model of the last of
\* them; with none, for the model that is loaded.
loadLatencyForCand(w, m) ==
  IF (tail[w].sec > 0 /\ tail[w].model = m) \/ (tail[w].sec = 0 /\ resident[w] = m)
  THEN 0 ELSE LoadSec

getInflightSeconds(w) == TaskSec * Cardinality(inflight[w])

QueuedSeconds(w, m) == TaskSeconds(w) + loadLatencyForCand(w, m)
Score(w, m) == getInflightSeconds(w) + tail[w].sec + QueuedSeconds(w, m)

\* Of equal scores the first candidate of the map's iteration wins.
pickWorkerQueue(m) == {w \in PWorkers : \A v \in PWorkers : Score(w, m) <= Score(v, m)}

------------------------------------------------------------------------------
(* The ledger.                                                             *)

\* The sum is kept from going below zero.
AddTail(w, delta) == [tail EXCEPT ![w].sec = Max({0, @ + delta})]
creditTail(w, j, delta) == [AddTail(w, delta) EXCEPT ![w].model = prow[j].model]
debitTail(w, delta) == AddTail(w, 0 - delta)

\* The row is deleted, or replaced by a fresh one on another queue: its number is a new one.
Onto(j, place) == [prow[j] EXCEPT !.at = place, !.id = @ + 1]
ToRow(j, place) == [Onto(j, place) EXCEPT !.st = "free", !.sec = 0]

\* A re-estimation that has read the rows of w will overwrite what changes now.
Overlaps(w) == estimate' = [estimate EXCEPT ![w].at = IF @ = "write" THEN "late" ELSE @]

\* The row is moved or deleted: a re-estimation no longer rewrites it, and the one of
\* a queue that gets it at a figure it was not credited with is late.
Leaves(j, late) ==
  estimate' = [w \in PWorkers |->
    [estimate[w] EXCEPT !.at = IF @ = "write" /\ w \in late THEN "late" ELSE @,
                        !.new = [i \in DOMAIN @ \ {j} |-> @[i]]]]

------------------------------------------------------------------------------
(* Placers.                                                                *)

Chosen(j, w, sec) == [Nobody EXCEPT !.at = "lease", !.job = j, !.to = w, !.sec = sec]

Submit(j) ==
  /\ prow[j].at = "new" /\ placer["submit"].at = "idle"
  /\ \E m \in PModels : \E w \in pickWorkerQueue(m) :
       /\ prow' = [prow EXCEPT ![j].at = "global", ![j].model = m]
       /\ placer' = [placer EXCEPT !["submit"] = Chosen(j, w, QueuedSeconds(w, m))]
  /\ UNCHANGED <<tail, drain, estimate, skewed, restVars>>

drainGlobal(j) ==
  /\ prow[j].at = "global" /\ placer["loop"].at = "idle"
  /\ \E w \in pickWorkerQueue(prow[j].model) :
       placer' = [placer EXCEPT !["loop"] = Chosen(j, w, QueuedSeconds(w, prow[j].model))]
  /\ UNCHANGED <<prow, tail, drain, estimate, skewed, restVars>>

\* The global row is leased and the worker row inserted, unless another placer
\* was first.
LeaseAndSubmit(p) ==
  LET c == placer[p] IN
  /\ c.at = "lease"
  /\ IF prow[c.job].at = "global"
     THEN /\ prow' = [prow EXCEPT ![c.job].at = c.to, ![c.job].sec = c.sec]
          /\ placer' = [placer EXCEPT ![p].at = "credit"]
     ELSE /\ placer' = [placer EXCEPT ![p] = Nobody]
          /\ UNCHANGED prow
  /\ UNCHANGED <<tail, drain, estimate, skewed, restVars>>

CreditBlind(p) ==
  /\ placer[p].at = "credit"
  /\ placer' = [placer EXCEPT ![p] = Nobody]
  /\ UNCHANGED <<prow, tail, drain, estimate, skewed, restVars>>

CreditPlacement(p) ==
  LET c == placer[p] IN
  /\ c.at = "credit"
  /\ tail' = creditTail(c.to, c.job, c.sec) /\ Overlaps(c.to)
  /\ placer' = [placer EXCEPT ![p] = Nobody]
  /\ UNCHANGED <<prow, drain, skewed, restVars>>

\* QueuedSeconds of some rows, added up.
Seconds(rs) == SumFunctionOnSet([j \in PJobs |-> prow[j].sec], rs)

Waiting(w) == {j \in PJobs : prow[j].at = w /\ prow[j].st = "free"}

\* The row is read, with the seconds it carries then; from is where it is.
Reads(p, j, to) ==
  placer' = [placer EXCEPT ![p] =
    [at |-> "move", job |-> j, id |-> prow[j].id, to |-> to, from |-> prow[j].at, sec |-> prow[j].sec]]
StillThere(c) == prow[c.job].id = c.id /\ prow[c.job].at = c.from

\* The first row of a queue that is deeper than the threshold and has no drain running
\* is read for an idle worker, ...
stealWithinRuntime(j, w) ==
  LET v == prow[j].at IN
  /\ placer["loop"].at = "idle" /\ Spend("steal")
  /\ v \in PWorkers \ {w} /\ prow[j].st = "free" /\ drain[v] = NoDrain
  /\ Cardinality(Waiting(v)) > Threshold /\ Waiting(w) = {}
  /\ Reads("loop", j, w)
  /\ UNCHANGED <<prow, tail, drain, estimate, skewed, resident, halved, inflight>>

\* ... and moved as it is by then, unless it is leased or gone.
MoveTo ==
  LET c == placer["loop"]
      low  == IF prow[c.job].sec < c.sec THEN {c.from} ELSE {}
      high == IF prow[c.job].sec > c.sec THEN {c.to} ELSE {}
  IN  /\ c.at = "move"
      /\ \/ /\ StillThere(c) /\ prow[c.job].st = "free"
            /\ prow' = [prow EXCEPT ![c.job] = Onto(c.job, c.to)]
            /\ placer' = [placer EXCEPT !["loop"].at = "debit"]
            /\ Leaves(c.job, high) /\ skewed' = skewed \cup low \cup high
         \/ /\ ~ (StillThere(c) /\ prow[c.job].st = "free")
            /\ placer' = [placer EXCEPT !["loop"] = Nobody]
            /\ UNCHANGED <<prow, estimate, skewed>>
      /\ UNCHANGED <<tail, drain, restVars>>

\* The seconds that were read come off the tail; a thief credits its own next.
Debit(p) ==
  LET c == placer[p] IN
  /\ c.at = "debit"
  /\ tail' = debitTail(c.from, c.sec)
  /\ placer' = [placer EXCEPT ![p] = IF c.to = "none" THEN Nobody ELSE [c EXCEPT !.at = "credit"]]
  /\ UNCHANGED <<prow, drain, estimate, skewed, restVars>>

------------------------------------------------------------------------------
(* The drain of a worker's queue, one row at a time.                       *)

\* A queue that the dispatcher is stealing from is not drained: it starts the drains.
LeaseWaiting(j) ==
  LET w == prow[j].at IN
  /\ w \in PWorkers /\ prow[j].st = "free" /\ drain[w] = NoDrain /\ placer["loop"].from # w
  /\ prow' = [prow EXCEPT ![j].st = "leased"]
  /\ drain' = [drain EXCEPT ![w] = [job |-> j, sec |-> prow[j].sec]]
  /\ Overlaps(w)
  /\ UNCHANGED <<tail, placer, skewed, restVars>>

\* The leased row is still on the queue: nobody evicted or cancelled it since.
Holds(w) == drain[w] # NoDrain /\ prow[drain[w].job].at = w /\ prow[drain[w].job].st = "leased"

\* Loaded and in flight: the seconds that the drain read leave the tail.
StartRow(w) ==
  LET j == drain[w].job IN
  /\ drain[w] # NoDrain
  /\ prow' = IF Holds(w) THEN [prow EXCEPT ![j].st = "running"] ELSE prow
  /\ resident' = [resident EXCEPT ![w] = prow[j].model]
  /\ inflight' = [inflight EXCEPT ![w] = @ \cup {j}]
  /\ tail' = debitTail(w, drain[w].sec)
  /\ drain' = [drain EXCEPT ![w] = NoDrain]
  /\ UNCHANGED <<halved, placer, estimate, spent, skewed>>

\* The device-set gate is shut: the row waits on.
releaseLeaseForRetry(w) ==
  /\ drain[w] # NoDrain /\ drain' = [drain EXCEPT ![w] = NoDrain]
  /\ prow' = IF Holds(w) THEN [prow EXCEPT ![drain[w].job].st = "free"] ELSE prow
  /\ UNCHANGED <<tail, placer, estimate, skewed, restVars>>

\* A load that fails sends the row back to global, or ends the job when it was the last
\* attempt or a cancel came in; the tail is not touched.
retryAfterLoadFailure(w) ==
  LET j == drain[w].job IN
  /\ drain[w] # NoDrain /\ Spend("load") /\ drain' = [drain EXCEPT ![w] = NoDrain]
  /\ IF Holds(w)
     THEN /\ \E place \in {"global", "over"} : prow' = [prow EXCEPT ![j] = ToRow(j, place)]
          /\ Leaves(j, {})
     ELSE UNCHANGED <<prow, estimate>>
  /\ UNCHANGED <<tail, placer, skewed, resident, halved, inflight>>

\* The inflight record goes, and the row with it if it is still there.
FinishRow(w, j) ==
  /\ j \in inflight[w] /\ inflight' = [inflight EXCEPT ![w] = @ \ {j}]
  /\ IF prow[j].at = w /\ prow[j].st = "running"
     THEN prow' = [prow EXCEPT ![j] = ToRow(j, "over")] /\ Leaves(j, {})
     ELSE UNCHANGED <<prow, estimate>>
  /\ UNCHANGED <<tail, resident, halved, placer, drain, spent, skewed>>

------------------------------------------------------------------------------
(* Operators.                                                              *)

\* A row that was free when it was read is deleted with its anchor, leased by now or
\* not; the tail is not touched.
cancelWorkerQueue(j) ==
  /\ prow[j].at \in PWorkers /\ Spend("cancel")
  /\ prow' = [prow EXCEPT ![j] = ToRow(j, "over")]
  /\ Leaves(j, {})
  /\ UNCHANGED <<tail, placer, drain, skewed, resident, halved, inflight>>

EvictQueuedRowToGlobal(j) ==
  /\ placer["operator"].at = "idle" /\ prow[j].at \in PWorkers /\ prow[j].st = "free" /\ Spend("evict")
  /\ Reads("operator", j, "none")
  /\ UNCHANGED <<prow, tail, drain, estimate, skewed, resident, halved, inflight>>

\* The row is deleted and its anchor released whatever happened to it meanwhile, and the
\* seconds that were read are debited next even if there was no row any more.
DeleteAndReleaseLease ==
  LET c == placer["operator"] IN
  /\ c.at = "move" /\ placer' = [placer EXCEPT !["operator"].at = "debit"]
  /\ IF StillThere(c)
     THEN prow' = [prow EXCEPT ![c.job] = ToRow(c.job, "global")] /\ Leaves(c.job, {})
     ELSE UNCHANGED <<prow, estimate>>
  /\ skewed' = IF StillThere(c) /\ prow[c.job].st = "free" /\ prow[c.job].sec >= c.sec
               THEN skewed ELSE skewed \cup {c.from}
  /\ UNCHANGED <<tail, drain, restVars>>

\* What a row will take on the devices that are enabled now: the switch is free
\* when the row walked before it, or the worker, already has its model.
predictedQueuedSeconds(w, warm) == TaskSeconds(w)' + (IF warm THEN 0 ELSE LoadSec)

\* The devices are toggled under the worker's lock and the rows are read: the
\* leased ones keep their prediction, the others get a new one.  Which of them
\* are warm depends on the order of the walk.
ReestimatePeek(w) ==
  /\ estimate[w].at = "idle" /\ Spend("toggle")
  /\ halved' = [halved EXCEPT ![w] = ~@]
  /\ \E warm \in SUBSET Waiting(w) :
       estimate' = [estimate EXCEPT ![w] =
         [at |-> "write",
          new |-> [j \in Waiting(w) |-> predictedQueuedSeconds(w, j \in warm)],
          sum |-> SumFunction([j \in Waiting(w) |-> predictedQueuedSeconds(w, j \in warm)])
                  + Seconds({j \in PJobs : prow[j].at = w} \ Waiting(w))]]
  /\ UNCHANGED <<prow, tail, resident, inflight, drain, placer, skewed>>

\* The envelopes are rewritten one by one, leased by now or not, ...
UpdateBody(w, j) ==
  /\ j \in DOMAIN estimate[w].new
  /\ prow' = [prow EXCEPT ![j].sec = estimate[w].new[j]]
  /\ estimate' = [estimate EXCEPT ![w].new = [i \in DOMAIN @ \ {j} |-> @[i]]]
  /\ UNCHANGED <<tail, placer, drain, skewed, restVars>>

\* No debit of w is on its way whose figure is older than the walk's.
Settled(w) ==
  /\ \A p \in {"loop", "operator"} : ~ (placer[p].at = "debit" /\ placer[p].from = w)
  /\ drain[w] = NoDrain \/ (Holds(w) /\ drain[w].sec <= prow[drain[w].job].sec)

\* ... and the tail is replaced.
ReestimateWrite(w) ==
  /\ estimate[w].at # "idle" /\ DOMAIN estimate[w].new = {}
  /\ \E m \in PModels \cup {"none"} :
       /\ m = "none" <=> {j \in PJobs : prow[j].at = w} = {}
       /\ m # "none" => \E j \in PJobs : prow[j].at = w /\ prow[j].model = m
       /\ tail' = [tail EXCEPT ![w] = [sec |-> estimate[w].sum, model |-> m]]
  /\ estimate' = [estimate EXCEPT ![w] = NoWalk]
  /\ skewed' = IF estimate[w].at = "write" /\ Settled(w) THEN skewed \ {w} ELSE skewed \cup {w}
  /\ UNCHANGED <<prow, placer, drain, restVars>>

------------------------------------------------------------------------------
PlaceNext ==
  \/ \E j \in PJobs :
       \/ Submit(j) \/ drainGlobal(j) \/ LeaseWaiting(j) \/ cancelWorkerQueue(j) \/ EvictQueuedRowToGlobal(j)
       \/ \E w \in PWorkers : stealWithinRuntime(j, w) \/ FinishRow(w, j) \/ UpdateBody(w, j)
  \/ \E p \in {"submit", "loop"} : LeaseAndSubmit(p) \/ CreditPlacement(p)
  \/ \E p \in {"loop", "operator"} : Debit(p)
  \/ MoveTo \/ DeleteAndReleaseLease
  \/ \E w \in PWorkers :
       \/ StartRow(w) \/ releaseLeaseForRetry(w) \/ retryAfterLoadFailure(w)
       \/ ReestimatePeek(w) \/ ReestimateWrite(w)

PlaceSpec == PlaceInit /\ [][PlaceNext]_placeVars

------------------------------------------------------------------------------
(* Properties.                                                             *)

Ahead(w) == Seconds({j \in PJobs : prow[j].at = w /\ prow[j].st # "running"})
Due(p, w) == IF placer[p].at \in {"credit", "debit"} /\ placer[p].to = w THEN placer[p].sec ELSE 0
Owed(w) == Due("submit", w) + Due("loop", w)

\* Scoring never believes a queue shorter than it is: the tail of a worker, with
\* the credits still on their way, covers every row that waits there, over placements,
\* drains, steals, evictions, cancels and failed loads.  Except while a re-estimation is
\* rewriting the rows, and after one of these (skewed), until the next that none of them
\* meets: a re-estimation with a credit, a lease or an outdated debit on its way, a steal
\* or eviction of a row that was re-estimated since it was read, and an eviction of a row
\* that a drain, a thief or a cancel had taken.
TailCovers == \A w \in PWorkers \ skewed : estimate[w].at = "idle" => Ahead(w) <= tail[w].sec + Owed(w)

\* The stronger statement, in every order of those steps.  It does not hold: rows, walks
\* and tails are changed in steps of their own, with figures read before.
TailNeverShort == \A w \in PWorkers : Ahead(w) <= tail[w].sec + Owed(w)

\* The tail is back at zero once nothing waits on the queue and no update of it
\* is on its way, as the comment of AddTailSeconds promises of updates that
\* arrive out of order.
TailSettles ==
  \A w \in PWorkers :
    (Ahead(w) = 0 /\ drain[w] = NoDrain /\ \A p \in {"submit", "loop", "operator"} : placer[p].at \in {"idle", "lease"})
      => tail[w].sec = 0
=============================================================================
