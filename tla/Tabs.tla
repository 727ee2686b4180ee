--------------------------------- MODULE Tabs ---------------------------------
(***************************************************************************)
(* The dashboard's live tabs.  A change-only tab (queue, scheduler,        *)
(* workers) fetches its list, then opens an event stream; every broadcast  *)
(* of the tab's Broker becomes a "change" frame, on which the browser      *)
(* fetches the list again (broker.go, routes_dashboard.go, routes_queue.go,*)
(* shell.js).  A log tail replays the ring of system log lines and then    *)
(* subscribes to the lines that follow (syslog.go, routes_dashboard.go).   *)
(*                                                                         *)
(* What a tab shows is abstracted to a version: how many changes of its    *)
(* topic it reflects.  A log line is its number.                           *)
(***************************************************************************)
EXTENDS Integers, Sequences, FiniteSets, FiniteSetsExt, SequencesExt

CONSTANTS
  TopicOf,      \* TopicOf[c]: the topic of tab c
  BrokerCap,    \* events a subscriber's channel buffers (16)
  MaxTabChanges,\* bound on the changes of the server's state
  MaxDrops,     \* bound on the event streams that break
  Tails,        \* connections of a log viewer
  RuntimeTails, \* those of them that view the lines of one runtime
  ReplayMax,    \* lines of the ring a runtime's viewer replays (200)
  RingSize,     \* lines the log buffer keeps
  TailCap,      \* lines a listener's channel buffers (64)
  MaxLines      \* bound on the lines logged

Tabs   == DOMAIN TopicOf
Topics == {"queue", "scheduler", "workers"}

ASSUME TabsAssumption ==
  /\ BrokerCap \in Nat \ {0} /\ \A c \in Tabs : TopicOf[c] \in Topics
  /\ RingSize \in Nat \ {0} /\ ReplayMax \in Nat /\ MaxLines \in Nat

VARIABLES
  truth,    \* truth[t]: changes of topic t so far
  due,      \* due[t]: changes whose broadcast is still to come
  benching, \* automatic benchmarks of added workers that are under way
  tab,      \* tab[c]: "closed", "loading", "opening" or "open"
  events,   \* events[c]: change events buffered for the stream of tab c
  seen,     \* seen[c]: history, the version when the stream last took an event
  frames,   \* frames[c]: change frames on their way to the browser
  gets,     \* gets[c]: the versions of list answers on their way
  view,     \* view[c]: the version the tab shows
  drops,
  slots, pos, full,  \* the log ring
  logged,   \* lines logged
  adding,   \* adding[l]: the listeners line l is still to be sent to
  tailer,   \* tailer[k]: "closed", "replayed", "open" or "gone"
  lines,    \* lines[k]: lines buffered for viewer k
  shown,    \* shown[k]: lines written to the viewer
  panicked  \* a line was sent to a closed channel

tabVars  == <<truth, due, benching, tab, events, seen, frames, gets, view, drops>>
tailVars == <<slots, pos, full, logged, adding, tailer, lines, shown, panicked>>
tabsVars == <<tabVars, tailVars>>

TabsTypeOK ==
  /\ truth \in [Topics -> 0..2 * MaxTabChanges] /\ due \in [Topics -> 0..2 * MaxTabChanges]
  /\ benching \in 0..MaxTabChanges
  /\ tab \in [Tabs -> {"closed", "loading", "opening", "open"}]
  /\ events \in [Tabs -> 0..BrokerCap] /\ frames \in [Tabs -> Nat]
  /\ slots \in [1..RingSize -> 0..MaxLines] /\ pos \in 1..RingSize /\ full \in BOOLEAN
  /\ tailer \in [Tails -> {"closed", "replayed", "open", "gone"}]
  /\ \A k \in Tails : Len(lines[k]) <= TailCap
  /\ adding \in [1..MaxLines -> SUBSET Tails]

TabsInit ==
  /\ truth = [t \in Topics |-> 0] /\ due = truth /\ benching = 0 /\ drops = 0
  /\ tab = [c \in Tabs |-> "closed"]
  /\ events = [c \in Tabs |-> 0] /\ seen = events /\ frames = events /\ view = events
  /\ gets = [c \in Tabs |-> {}]
  /\ slots = [i \in 1..RingSize |-> 0] /\ pos = 1 /\ full = FALSE /\ logged = 0
  /\ adding = [l \in 1..MaxLines |-> {}]
  /\ tailer = [k \in Tails |-> "closed"] /\ lines = [k \in Tails |-> <<>>] /\ shown = lines
  /\ panicked = FALSE

-----------------------------------------------------------------------------
(* Changes, and who broadcasts them (handler.go, NewHandler).              *)

Moves(ts) ==
  /\ truth["queue"] + truth["scheduler"] + truth["workers"] < MaxTabChanges
  /\ truth' = [t \in Topics |-> IF t \in ts THEN truth[t] + 1 ELSE truth[t]]
  /\ due'   = [t \in Topics |-> IF t \in ts THEN due[t] + 1 ELSE due[t]]
  /\ UNCHANGED <<tab, events, seen, frames, gets, view, drops, tailVars>>

\* A row appears or disappears; the scheduler's callback broadcasts.
QueueChange == Moves({"queue"}) /\ UNCHANGED benching

\* A worker's loaded set or counters move.
LoadedChange == Moves({"scheduler"}) /\ UNCHANGED benching

\* A worker is added or removed: two tabs move; an added one is benchmarked.
FleetChange(added) ==
  /\ Moves({"workers", "scheduler"})
  /\ benching' = IF added THEN benching + 1 ELSE benching

\* autoBenchmarkWorker stores what was missing and broadcasts.
autoBenchmarkWorker ==
  /\ benching > 0 /\ benching' = benching - 1
  /\ truth' = [truth EXCEPT !["workers"] = @ + 1] /\ due' = [due EXCEPT !["workers"] = @ + 1]
  /\ UNCHANGED <<tab, events, seen, frames, gets, view, drops, tailVars>>

Subscribers(t) == {c \in Tabs : tab[c] = "open" /\ TopicOf[c] = t}

\* Mutant: a full channel ends the loop instead of the one send.
BroadcastStops(t) ==
  /\ due[t] > 0 /\ due' = [due EXCEPT ![t] = @ - 1]
  /\ events' = IF \E c \in Subscribers(t) : events[c] = BrokerCap THEN events
               ELSE [c \in Tabs |-> IF c \in Subscribers(t) THEN events[c] + 1 ELSE events[c]]
  /\ UNCHANGED <<truth, benching, tab, seen, frames, gets, view, drops, tailVars>>

\* Broker.Broadcast: a full channel drops the event.
Broadcast(t) ==
  /\ due[t] > 0 /\ due' = [due EXCEPT ![t] = @ - 1]
  /\ events' = [c \in Tabs |-> IF c \in Subscribers(t) THEN Min({events[c] + 1, BrokerCap}) ELSE events[c]]
  /\ UNCHANGED <<truth, benching, tab, seen, frames, gets, view, drops, tailVars>>

-----------------------------------------------------------------------------
(* The browser and its stream.                                             *)

\* loadTab fetches the list; the stream is opened only when the answer is applied.
loadTab(c) ==
  /\ tab[c] = "closed" /\ tab' = [tab EXCEPT ![c] = "loading"]
  /\ gets' = [gets EXCEPT ![c] = {truth[TopicOf[c]]}]
  /\ UNCHANGED <<truth, due, benching, events, seen, frames, view, drops, tailVars>>

\* An answer is applied, in whatever order the answers arrive.
ApplyList(c, v) ==
  /\ v \in gets[c]
  /\ gets' = [gets EXCEPT ![c] = @ \ {v}] /\ view' = [view EXCEPT ![c] = v]
  /\ tab' = IF tab[c] = "loading" THEN [tab EXCEPT ![c] = "opening"] ELSE tab
  /\ UNCHANGED <<truth, due, benching, events, seen, frames, drops, tailVars>>

\* Broker.Subscribe, at the start of the stream's handler.
Subscribe(c) ==
  /\ tab[c] = "opening" /\ tab' = [tab EXCEPT ![c] = "open"]
  /\ events' = [events EXCEPT ![c] = 0]
  /\ seen' = [seen EXCEPT ![c] = truth[TopicOf[c]] - due[TopicOf[c]]]
  /\ UNCHANGED <<truth, due, benching, frames, gets, view, drops, tailVars>>

\* streamChangeEvents takes an event and writes a frame.
streamChangeEvents(c) ==
  /\ tab[c] = "open" /\ events[c] > 0
  /\ events' = [events EXCEPT ![c] = @ - 1] /\ frames' = [frames EXCEPT ![c] = @ + 1]
  /\ seen' = [seen EXCEPT ![c] = truth[TopicOf[c]]]
  /\ UNCHANGED <<truth, due, benching, tab, gets, view, drops, tailVars>>

\* The browser answers a frame by fetching the list; a statistics frame of the workers
\* tab does so too when it names a device the list does not show.
Refetch(c) ==
  /\ \/ frames[c] > 0 /\ frames' = [frames EXCEPT ![c] = @ - 1]
     \/ /\ tab[c] = "open" /\ TopicOf[c] = "workers" /\ view[c] # truth["workers"] /\ gets[c] = {}
        /\ UNCHANGED frames
  /\ gets' = [gets EXCEPT ![c] = @ \cup {truth[TopicOf[c]]}]
  /\ UNCHANGED <<truth, due, benching, tab, events, seen, view, drops, tailVars>>

\* The stream breaks: the handler unsubscribes, the browser reconnects by itself.
StreamBreaks(c) ==
  /\ tab[c] = "open" /\ drops < MaxDrops /\ drops' = drops + 1
  /\ tab' = [tab EXCEPT ![c] = "opening"]
  /\ events' = [events EXCEPT ![c] = 0] /\ frames' = [frames EXCEPT ![c] = 0]
  /\ UNCHANGED <<truth, due, benching, seen, gets, view, tailVars>>

TabNext ==
  \/ QueueChange \/ LoadedChange \/ autoBenchmarkWorker
  \/ \E added \in BOOLEAN : FleetChange(added)
  \/ \E t \in Topics : Broadcast(t)
  \/ \E c \in Tabs :
       \/ loadTab(c) \/ Subscribe(c) \/ streamChangeEvents(c) \/ Refetch(c) \/ StreamBreaks(c)
       \/ \E v \in gets[c] : ApplyList(c, v)

-----------------------------------------------------------------------------
(* The log ring and its tails.                                             *)

\* Mutant: the first part of a full ring is copied with the slot before it.
LinesOverlap ==
  IF full THEN SubSeq(slots, IF pos = 1 THEN 1 ELSE pos - 1, RingSize) \o SubSeq(slots, 1, pos - 1)
  ELSE SubSeq(slots, 1, pos - 1)

\* SystemLogBuffer.Lines, oldest first.
Lines ==
  IF full THEN SubSeq(slots, pos, RingSize) \o SubSeq(slots, 1, pos - 1)
  ELSE SubSeq(slots, 1, pos - 1)

\* Add stores the line and copies the listeners under the lock ...
Add ==
  /\ logged < MaxLines /\ logged' = logged + 1
  /\ slots' = [slots EXCEPT ![pos] = logged + 1]
  /\ IF pos = RingSize THEN pos' = 1 /\ full' = TRUE ELSE pos' = pos + 1 /\ UNCHANGED full
  /\ adding' = [adding EXCEPT ![logged + 1] = {k \in Tails : tailer[k] = "open"}]
  /\ UNCHANGED <<tabVars, tailer, lines, shown, panicked>>

\* ... and sends to each of them after it; several lines may be on their way at once.
AddSends(l, k) ==
  /\ k \in adding[l] /\ adding' = [adding EXCEPT ![l] = @ \ {k}]
  /\ panicked' = (panicked \/ tailer[k] = "gone")
  /\ lines' = IF tailer[k] = "open" /\ Len(lines[k]) < TailCap THEN [lines EXCEPT ![k] = Append(@, l)] ELSE lines
  /\ UNCHANGED <<tabVars, slots, pos, full, logged, tailer, shown>>

\* Whether viewer k writes line l: every other line is about the runtime.
matches(k, l) == k \in RuntimeTails => l % 2 = 1

\* What handleRuntimeLogsSSE picks of the ring: the last lines that match.
Keep(picked, l) == IF Len(picked) < ReplayMax THEN Append(picked, l) ELSE Tail(Append(picked, l))
pickTail(k, hist) ==
  LET picked[i \in 0..Len(hist)] ==
        IF i = 0 THEN <<>>
        ELSE IF matches(k, hist[i]) THEN Keep(picked[i - 1], hist[i]) ELSE picked[i - 1]
  IN  picked[Len(hist)]

\* A viewer is written the ring, or its pick, then subscribes, then is forwarded the
\* lines that match until it goes.
TailReplays(k) ==
  /\ tailer[k] = "closed" /\ tailer' = [tailer EXCEPT ![k] = "replayed"]
  /\ shown' = [shown EXCEPT ![k] = IF k \in RuntimeTails THEN pickTail(k, Lines) ELSE Lines]
  /\ UNCHANGED <<tabVars, slots, pos, full, logged, adding, lines, panicked>>

TailSubscribes(k) ==
  /\ tailer[k] = "replayed" /\ tailer' = [tailer EXCEPT ![k] = "open"]
  /\ UNCHANGED <<tabVars, slots, pos, full, logged, adding, lines, shown, panicked>>

TailForwards(k) ==
  /\ tailer[k] = "open" /\ lines[k] # <<>>
  /\ lines' = [lines EXCEPT ![k] = Tail(@)]
  /\ shown' = IF matches(k, Head(lines[k])) THEN [shown EXCEPT ![k] = Append(@, Head(lines[k]))] ELSE shown
  /\ UNCHANGED <<tabVars, slots, pos, full, logged, adding, tailer, panicked>>

\* Unsubscribe removes the listener and closes its channel.
TailUnsubscribes(k) ==
  /\ tailer[k] = "open" /\ tailer' = [tailer EXCEPT ![k] = "gone"]
  /\ UNCHANGED <<tabVars, slots, pos, full, logged, adding, lines, shown, panicked>>

TailNext ==
  /\ ~panicked
  /\ \/ Add
     \/ \E l \in 1..MaxLines, k \in Tails : AddSends(l, k)
     \/ \E k \in Tails : TailReplays(k) \/ TailSubscribes(k) \/ TailForwards(k) \/ TailUnsubscribes(k)

TabsSpec == TabsInit /\ [][TabNext \/ TailNext]_tabsVars

-----------------------------------------------------------------------------
(* Properties.                                                             *)

\* A change stream with nothing buffered has taken an event after every change that was
\* broadcast since it subscribed, although Broadcast drops: an event is dropped only
\* while one that will be served is buffered.
ChangesCaughtUp ==
  \A c \in Tabs : tab[c] = "open" /\ events[c] = 0 => seen[c] >= truth[TopicOf[c]] - due[TopicOf[c]]

\* A log viewer sees no line twice (the replay of the ring and the subscription never
\* overlap), and a runtime's viewer none but the runtime's.
LogLinesOnce ==
  \A k \in Tails : IsInjective(shown[k] \o lines[k]) /\ \A i \in DOMAIN shown[k] : matches(k, shown[k][i])

\* A tab at rest shows the current state.  It need not: a change between the first fetch
\* and Subscribe, or while the stream reconnects, is not fetched, and of two answers
\* under way the older may arrive last.
TabShowsCurrent ==
  \A c \in Tabs :
    tab[c] = "open" /\ events[c] = 0 /\ frames[c] = 0 /\ gets[c] = {} /\ due[TopicOf[c]] = 0
      => view[c] = truth[TopicOf[c]]

\* "SystemLogBuffer is a thread-safe ring buffer": a line that is still being sent when
\* its listener unsubscribes is sent to a closed channel, and the process panics.
NoSendOnClosed == ~panicked
=============================================================================
