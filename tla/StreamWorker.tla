----------------------------- MODULE StreamWorker -----------------------------
(***************************************************************************)
(* One worker connection as the scheduler sees it: the StreamWorker object *)
(* (internal/worker/stream_worker.go) and the hub's Connect handler that   *)
(* feeds it (internal/worker/hub.go).  Callers register a channel in a     *)
(* pending map, send a request and wait; the handler delivers the replies; *)
(* SetOffline, called by the liveness watcher and by the handler's         *)
(* deferred function, wakes whoever is still in a map.                     *)
(*                                                                         *)
(* The maps loads, unloads and benches are keyed by a fresh id, so a call  *)
(* is its own key; modelBenches is keyed by the model, of which there is   *)
(* one here.  A channel is the sequence of values in it and a closed flag. *)
(***************************************************************************)
EXTENDS Naturals, Sequences, FiniteSets

CONSTANTS JobCalls, LoadCalls, UnloadCalls, DeviceBenches, ModelBenches,  \* the calls of each kind
          ChanCap                                       \* capacity of a job channel (16 in the code)

Calls == JobCalls \cup LoadCalls \cup UnloadCalls \cup DeviceBenches \cup ModelBenches

\* A job channel has room for ChanCap chunks, an outcome channel for one.
ChanRoom(c) == IF c \in JobCalls THEN ChanCap ELSE 1

ASSUME CapAssumption == ChanCap \in Nat \ {0}

NoCall == "none"
ASSUME NoCallAssumption == NoCall \notin Calls

\* A call is of one kind: jobs and model benchmarks have maps of their own.
ASSUME KindAssumption ==
  /\ JobCalls \cap (LoadCalls \cup UnloadCalls \cup DeviceBenches \cup ModelBenches) = {}
  /\ ModelBenches \cap (LoadCalls \cup UnloadCalls \cup DeviceBenches) = {}

VARIABLES
  online,     \* StreamWorker.online
  stream,     \* the transport: "open", or "broken" once the peer is gone
  ctxDone,    \* the context of the benchmark orchestrator: done at shutdown
  handler,    \* the Connect handler: [pc, call, last, lock]
  watcher,    \* the liveness watcher's position
  call,       \* call[c]: the position of a caller
  chan,       \* chan[c]: [buf, closed], the caller's channel
  pend,       \* the calls that are in the maps keyed by id
  benchEntry, \* modelBenches[model]: a call or NoCall
  wire,       \* requests the peer has received
  panic       \* a send on, or a second close of, a closed channel

connVars == <<online, stream, ctxDone, handler, watcher, call, chan, pend, benchEntry, wire, panic>>
\* What a step of a caller that is not receiving leaves alone.
connOthers == <<online, stream, ctxDone, handler, watcher, chan, panic>>

LoopIdle == [pc |-> "loop", call |-> NoCall, last |-> FALSE]

ConnInit ==
  /\ online = TRUE /\ stream = "open" /\ ctxDone = FALSE
  /\ handler = LoopIdle /\ watcher = "tick"
  /\ call = [c \in Calls |-> "idle"]
  /\ chan = [c \in Calls |-> [buf |-> <<>>, closed |-> FALSE]]
  /\ pend = {} /\ benchEntry = NoCall /\ wire = {} /\ panic = FALSE

-----------------------------------------------------------------------------
(* The locks.  pendingMu is held across a step by DeliverJobChunk (while it
   sends) and by SetOffline (which takes it in one step of its own).        *)

pendingFree == handler.pc # "push_locked"

\* The entry of a call in its map.
InMap(c) == IF c \in ModelBenches THEN benchEntry = c ELSE c \in pend

-----------------------------------------------------------------------------
(* The callers.                                                             *)

CallGoto(c, pc) == call' = [call EXCEPT ![c] = pc]

\* Mutant of OpenCall: the channel is registered by the caller only after the
\* request has been sent (the entry appears when the wait begins).
OpenCallLate(c) ==
  \/ /\ call[c] = "idle" /\ CallGoto(c, "send")
     /\ UNCHANGED <<pend, benchEntry, wire>> /\ UNCHANGED connOthers
  \/ /\ call[c] = "wait" /\ c \notin pend /\ chan[c].buf = <<>> /\ ~chan[c].closed
     /\ pend' = pend \cup {c}
     /\ UNCHANGED <<call, benchEntry, wire>> /\ UNCHANGED connOthers

\* A caller registers its channel before it sends, so that SetOffline finds it.
OpenCall(c) ==
  /\ call[c] = "idle" /\ pendingFree
  /\ pend' = pend \cup {c}
  /\ CallGoto(c, "send")
  /\ UNCHANGED <<benchEntry, wire>> /\ UNCHANGED connOthers

AssignJob(c)   == c \in JobCalls    /\ OpenCall(c)
LoadModel(c)   == c \in LoadCalls   /\ OpenCall(c)
UnloadModel(c) == c \in UnloadCalls /\ OpenCall(c)
benchSend(c)   == c \in DeviceBenches /\ OpenCall(c)

\* The benchmark orchestrator runs one benchmark at a time on a worker, so
\* BenchModel's refusal of a second one in flight is never taken.
BenchModel(c) ==
  /\ c \in ModelBenches /\ call[c] = "idle" /\ pendingFree
  /\ \A d \in ModelBenches : call[d] \in {"idle", "done"}
  /\ benchEntry = NoCall
  /\ benchEntry' = c /\ CallGoto(c, "send")
  /\ UNCHANGED <<pend, wire>> /\ UNCHANGED connOthers

\* send reads the online flag and releases the lock before it uses the stream.
SendCheck(c) ==
  /\ call[c] = "send"
  /\ CallGoto(c, IF online THEN "write" ELSE "undo")
  /\ UNCHANGED <<pend, benchEntry, wire>> /\ UNCHANGED connOthers

\* sender.Send: an error of a broken stream, or a request on its way.
SendWrite(c) ==
  /\ call[c] = "write"
  /\ \/ stream = "open" /\ wire' = wire \cup {c} /\ CallGoto(c, "wait")
     \/ stream = "broken" /\ CallGoto(c, "undo") /\ UNCHANGED wire
  /\ UNCHANGED <<pend, benchEntry>> /\ UNCHANGED connOthers

\* Mutant of UndoCall: the error path forgets its entry.
UndoCallLeak(c) ==
  /\ call[c] = "undo" /\ pendingFree
  /\ CallGoto(c, "done")
  /\ UNCHANGED <<wire, pend, benchEntry>> /\ UNCHANGED connOthers

\* The error path of every caller: the entry goes, under the lock.
UndoCall(c) ==
  /\ call[c] = "undo" /\ pendingFree
  /\ pend' = pend \ {c}
  /\ benchEntry' = IF c \in ModelBenches THEN NoCall ELSE benchEntry
  /\ CallGoto(c, "done")
  /\ UNCHANGED wire /\ UNCHANGED connOthers

\* A caller receives: a value, or the news that the channel is closed.  A
\* caller of one outcome returns with it; the pump reads a job to its end.
AwaitOutcome(c) ==
  /\ call[c] = "wait"
  /\ \/ /\ chan[c].buf # <<>>
        /\ chan' = [chan EXCEPT ![c].buf = Tail(@)]
        /\ CallGoto(c, IF c \in JobCalls THEN "wait" ELSE "done")
     \/ /\ chan[c].buf = <<>> /\ chan[c].closed
        /\ CallGoto(c, "done") /\ UNCHANGED chan
  /\ UNCHANGED <<online, stream, ctxDone, handler, watcher, pend, benchEntry, wire, panic>>

\* BenchModel also waits for its context, and then removes its entry.
BenchCancelled(c) ==
  /\ c \in ModelBenches /\ call[c] = "wait" /\ ctxDone
  /\ CallGoto(c, "undo")
  /\ UNCHANGED <<pend, benchEntry, wire>> /\ UNCHANGED connOthers

Caller(c) ==
  \/ AssignJob(c) \/ LoadModel(c) \/ UnloadModel(c) \/ benchSend(c) \/ BenchModel(c)
  \/ SendCheck(c) \/ SendWrite(c) \/ UndoCall(c) \/ AwaitOutcome(c) \/ BenchCancelled(c)

-----------------------------------------------------------------------------
(* The receive loop of Connect.                                             *)

receiving == handler.pc = "loop" /\ stream = "open"

\* ApplyHeartbeat marks the worker online, whatever SetOffline did before.
ApplyHeartbeat ==
  /\ receiving
  /\ online' = TRUE
  /\ UNCHANGED <<stream, ctxDone, handler, watcher, call, chan, pend, benchEntry, wire, panic>>

\* Mutant of DeliverJobChunk: the channel is looked up under the lock and the
\* send happens after the unlock.
DeliverJobChunkUnlocked(c, last) ==
  /\ receiving /\ c \in JobCalls \cap wire
  /\ c \in pend
  /\ handler' = [pc |-> "push", call |-> c, last |-> last]
  /\ pend' = IF last THEN pend \ {c} ELSE pend
  /\ UNCHANGED <<online, stream, ctxDone, watcher, call, chan, benchEntry, wire, panic>>

\* DeliverJobChunk keeps pendingMu while it sends: SetOffline cannot close the
\* channel in between.  A terminal frame leaves the map first.
DeliverJobChunk(c, last) ==
  /\ receiving /\ c \in JobCalls \cap wire
  /\ c \in pend
  /\ handler' = [pc |-> "push_locked", call |-> c, last |-> last]
  /\ pend' = IF last THEN pend \ {c} ELSE pend
  /\ UNCHANGED <<online, stream, ctxDone, watcher, call, chan, benchEntry, wire, panic>>

\* The one-shot deliveries take the entry out of the map under the lock and
\* send after it: whoever removed the entry owns the channel.
Take(c) ==
  /\ handler' = [pc |-> "push", call |-> c, last |-> TRUE]
  /\ UNCHANGED <<online, stream, ctxDone, watcher, call, chan, wire, panic>>

DeliverById(c) == receiving /\ c \in pend \cap wire /\ pend' = pend \ {c} /\ Take(c) /\ UNCHANGED benchEntry

DeliverLoadResult(c)   == c \in LoadCalls   /\ DeliverById(c)
DeliverUnloadResult(c) == c \in UnloadCalls /\ DeliverById(c)
DeliverBenchResult(c)  == c \in DeviceBenches /\ DeliverById(c)

\* A model benchmark's reply goes to whoever holds the model's entry.
DeliverModelBenchResult ==
  /\ receiving /\ wire \cap ModelBenches # {} /\ benchEntry # NoCall
  /\ benchEntry' = NoCall
  /\ Take(benchEntry) /\ UNCHANGED pend

\* The send on the channel: it waits for room, and closes after the last frame.
Push ==
  /\ handler.pc \in {"push", "push_locked"}
  /\ LET c == handler.call IN
     /\ chan[c].closed \/ Len(chan[c].buf) < ChanRoom(c)
     /\ panic' = (panic \/ chan[c].closed)
     /\ chan' = [chan EXCEPT ![c] = [buf |-> IF chan[c].closed THEN @.buf ELSE Append(@.buf, "value"),
                                     closed |-> @.closed \/ handler.last]]
  /\ handler' = LoopIdle
  /\ UNCHANGED <<online, stream, ctxDone, watcher, call, pend, benchEntry, wire>>

\* stream.Receive fails: the loop is over and the deferred function runs.
ReceiveFails ==
  /\ handler.pc = "loop" /\ stream = "broken"
  /\ handler' = [handler EXCEPT !.pc = "offline"]
  /\ UNCHANGED <<online, stream, ctxDone, watcher, call, chan, pend, benchEntry, wire, panic>>

-----------------------------------------------------------------------------
(* SetOffline: the flag under w.mu, then the maps under pendingMu.          *)

OfflineFlag == online' = FALSE

\* Mutant of OfflineSweep: the channels are closed and the entries stay.
OfflineSweepKeeps ==
  /\ pendingFree
  /\ LET swept == {c \in Calls : InMap(c)} IN
     /\ panic' = (panic \/ \E c \in swept : chan[c].closed)
     /\ chan' = [c \in Calls |-> IF c \notin swept THEN chan[c] ELSE [chan[c] EXCEPT !.closed = TRUE]]
  /\ UNCHANGED <<pend, benchEntry>>

\* Mutant of OfflineSweep: model benchmarks are not woken.
OfflineSweepForgets ==
  /\ pendingFree
  /\ panic' = (panic \/ \E c \in pend : chan[c].closed)
  /\ chan' = [c \in Calls |-> IF c \notin pend THEN chan[c]
                              ELSE [buf |-> IF c \in JobCalls THEN chan[c].buf ELSE Append(chan[c].buf, "offline"),
                                    closed |-> TRUE]]
  /\ pend' = {} /\ UNCHANGED benchEntry

\* Everyone in a map is woken: a job's channel is closed, the others get
\* ErrWorkerOffline and are closed.
OfflineSweep ==
  /\ pendingFree
  /\ LET swept == {c \in Calls : InMap(c)} IN
     /\ panic' = (panic \/ \E c \in swept : chan[c].closed)
     /\ chan' = [c \in Calls |->
                   IF c \notin swept THEN chan[c]
                   ELSE [buf |-> IF c \in JobCalls THEN chan[c].buf ELSE Append(chan[c].buf, "offline"),
                         closed |-> TRUE]]
  /\ pend' = {} /\ benchEntry' = NoCall

DeferredOffline ==
  \/ /\ handler.pc = "offline" /\ OfflineFlag
     /\ handler' = [handler EXCEPT !.pc = "sweep"]
     /\ UNCHANGED <<stream, ctxDone, watcher, call, chan, pend, benchEntry, wire, panic>>
  \/ /\ handler.pc = "sweep" /\ OfflineSweep
     /\ handler' = [handler EXCEPT !.pc = "done"]
     /\ UNCHANGED <<online, stream, ctxDone, watcher, call, wire>>

\* The watcher finds the heartbeat stale, marks the worker offline and ends.
\* It also ends when its context is cancelled, by SetOffline or by Connect.
Watch ==
  \/ /\ watcher = "tick" /\ online /\ OfflineFlag
     /\ watcher' = "sweep"
     /\ UNCHANGED <<stream, ctxDone, handler, call, chan, pend, benchEntry, wire, panic>>
  \/ /\ watcher = "tick" /\ handler.pc \in {"sweep", "done"}
     /\ watcher' = "left"
     /\ UNCHANGED <<online, stream, ctxDone, handler, call, chan, pend, benchEntry, wire, panic>>
  \/ /\ watcher = "sweep" /\ OfflineSweep
     /\ watcher' = "done"
     /\ UNCHANGED <<online, stream, ctxDone, handler, call, wire>>

-----------------------------------------------------------------------------
(* The world: the connection breaks, the process shuts down.                *)

PeerGone ==
  /\ stream = "open" /\ stream' = "broken"
  /\ UNCHANGED <<online, ctxDone, handler, watcher, call, chan, pend, benchEntry, wire, panic>>

Shutdown ==
  /\ ~ctxDone /\ ctxDone' = TRUE
  /\ UNCHANGED <<online, stream, handler, watcher, call, chan, pend, benchEntry, wire, panic>>

HubLoop ==
  \/ ApplyHeartbeat \/ DeliverModelBenchResult \/ Push \/ ReceiveFails \/ DeferredOffline
  \/ \E c \in Calls : \/ \E last \in BOOLEAN : DeliverJobChunk(c, last)
                      \/ DeliverLoadResult(c) \/ DeliverUnloadResult(c) \/ DeliverBenchResult(c)

ConnNext == HubLoop \/ Watch \/ PeerGone \/ Shutdown \/ \E c \in Calls : Caller(c)

ConnSpec == ConnInit /\ [][ConnNext]_connVars

\* Runnable goroutines run.  Nothing is assumed of the peer.
HubRuns     == Push \/ ReceiveFails \/ DeferredOffline
WatcherRuns == watcher = "sweep" /\ Watch
CallerRuns(c) == SendCheck(c) \/ SendWrite(c) \/ UndoCall(c) \/ AwaitOutcome(c)

ConnFairSpec ==
  /\ ConnSpec
  /\ WF_connVars(HubRuns) /\ WF_connVars(WatcherRuns)
  /\ \A c \in Calls : WF_connVars(CallerRuns(c))

-----------------------------------------------------------------------------
CallPcs    == {"idle", "send", "write", "undo", "wait", "done"}
HandlerPcs == {"loop", "push", "push_locked", "offline", "sweep", "done"}

ConnTypeOK ==
  /\ online \in BOOLEAN /\ stream \in {"open", "broken"} /\ ctxDone \in BOOLEAN
  /\ handler \in [pc : HandlerPcs, call : Calls \cup {NoCall}, last : BOOLEAN]
  /\ watcher \in {"tick", "sweep", "done", "left"}
  /\ call \in [Calls -> CallPcs]
  /\ chan \in [Calls -> [buf : Seq({"value", "offline"}), closed : BOOLEAN]]
  /\ pend \subseteq Calls \ ModelBenches /\ benchEntry \in ModelBenches \cup {NoCall}
  /\ wire \subseteq Calls /\ panic \in BOOLEAN

\* Deliveries, the watcher's SetOffline and the handler's SetOffline meet on the
\* same channels: none is sent on or closed after it was closed, and SetOffline
\* never finds an outcome channel without room, which would block it under
\* pendingMu for ever.
ChannelDiscipline ==
  /\ ~panic
  /\ \A c \in Calls : Len(chan[c].buf) <= ChanRoom(c)
  /\ \A c \in Calls \ JobCalls : InMap(c) => chan[c].buf = <<>> /\ ~chan[c].closed

\* The maps do not leak: a call that has returned is in none of them, and the
\* channel of a caller that waits is closed, in a map, or in the hands of the
\* handler, so that somebody will wake it.
NoForgottenCall ==
  \A c \in Calls :
    /\ call[c] = "done" => ~InMap(c)
    /\ call[c] = "wait" => \/ InMap(c) \/ chan[c].closed \/ chan[c].buf # <<>>
                           \/ handler.call = c

\* A worker that is gone wakes every caller: once the handler's deferred
\* SetOffline is through, everyone who waits returns, also one who registered
\* or sent while it ran.
LostWorkerWakesAll ==
  \A c \in Calls : (handler.pc = "done" /\ call[c] = "wait") ~> call[c] = "done"

\* What hub.go says of the watcher: SetOffline "unblocks stream.Receive() in the
\* loop below and lets Connect return cleanly".
StaleStreamReturns == (watcher = "done") ~> (handler.pc = "done")
=============================================================================
