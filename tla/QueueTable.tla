------------------------------ MODULE QueueTable ------------------------------
(***************************************************************************)
(* The rows of the queue table (internal/queue/queue.go over goqite) as a  *)
(* value, and the queue's transactions as functions from tables to tables. *)
(*                                                                         *)
(* A row keeps its identity, its queue and its envelope from insertion to  *)
(* deletion; only its lease state moves.  "free" is a visible row with     *)
(* delivery budget left, "leased" a hidden row that was delivered once     *)
(* (MaxReceive = 1), "deferred" a hidden row whose delivery count was      *)
(* reset.  Deleted rows stay in the table as "gone", so that an operation  *)
(* which still holds their identity finds nothing and is a no-op.          *)
(***************************************************************************)
EXTENDS Integers, FiniteSets

CONSTANTS
  Jobs,      \* request ids
  Workers,   \* worker ids, which also name the worker queues
  MaxRows    \* bound: rows inserted in one behaviour

ASSUME QueueNames == "global" \notin Workers
ASSUME JobNames == Jobs # {}
ASSUME RowBound == MaxRows \in Nat \ {0}

Ids    == 1..MaxRows
Queues == Workers \cup {"global"}
Leases == {"unborn", "free", "leased", "deferred", "gone"}
Row    == [q : Queues, job : Jobs, anchor : 0..MaxRows, attempts : Nat, lease : Leases]

EmptyTable == [i \in Ids |->
  [q |-> "global", job |-> CHOOSE j \in Jobs : TRUE, anchor |-> 0, attempts |-> 0,
   lease |-> "unborn"]]

Live(t, i)    == t[i].lease \in {"free", "leased", "deferred"}
Visible(t, i) == t[i].lease = "free"
Hidden(t, i)  == t[i].lease = "leased"

\* Peek / Depth: the visible rows of a queue.
Peek(t, q) == {i \in Ids : t[i].q = q /\ Visible(t, i)}

\* PeekAll: leased and deferred rows too.
PeekAll(t, q) == {i \in Ids : t[i].q = q /\ Live(t, i)}

\* Submit (and SendAndGetIDTx): row i is the next one to be born.
Submit(t, i, q, job, anchor, attempts) ==
  [t EXCEPT ![i] = [q |-> q, job |-> job, anchor |-> anchor, attempts |-> attempts,
                    lease |-> "free"]]

\* Delete and DeleteBoth, by identity and whatever the lease state is.
Delete(t, S) == [i \in Ids |-> IF i \in S THEN [t[i] EXCEPT !.lease = "gone"] ELSE t[i]]
DeleteBoth(t, i) == Delete(t, {i, t[i].anchor})

\* LeaseByID on a row that Visible(t, i) admits.
LeaseByID(t, i) == [t EXCEPT ![i].lease = "leased"]

\* Mutant of Defer: the delivery stays counted, so the row is never visible again.
DeferCounted(t, i) == [t EXCEPT ![i].lease = IF Live(t, i) THEN "leased" ELSE @]

\* Defer: hide the row again and reset its delivery count.
Defer(t, i) == [t EXCEPT ![i].lease = IF Live(t, i) THEN "deferred" ELSE @]

\* ReleaseLease: row k, if there is one, is visible again.
ReleaseLease(t, k) ==
  [i \in Ids |-> IF i = k /\ Live(t, i) THEN [t[i] EXCEPT !.lease = "free"] ELSE t[i]]

\* DeleteAndReleaseLease: delete row i, make its anchor visible again.
DeleteAndReleaseLease(t, i) == ReleaseLease(Delete(t, {i}), t[i].anchor)

\* LeaseAndSubmit on a visible global row i: lease it and insert row k for it on
\* queue q.  A row that is not visible any more leaves the table alone.
LeaseAndSubmit(t, i, k, q) ==
  Submit(LeaseByID(t, i), k, q, t[i].job, i, t[i].attempts)

\* MoveTo on a visible row i: delete it and insert its envelope as row k of q.
MoveTo(t, i, k, q) ==
  Submit(Delete(t, {i}), k, q, t[i].job, t[i].anchor, t[i].attempts)
===============================================================================
