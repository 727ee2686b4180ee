-------------------------- MODULE WorkerSideProofs --------------------------
(***************************************************************************)
(* Proofs about what stands between the scheduler and one worker, for any  *)
(* number of calls, connections, ids, tokens, devices, models, files and   *)
(* operators and any channel capacity: StreamWorker, WorkerView, Enrolment *)
(* and Whitelist.                                                          *)
(***************************************************************************)
EXTENDS StreamWorker, WorkerView, Enrolment, Whitelist, TLAPS

-----------------------------------------------------------------------------
(***************************************************************************)
(* StreamWorker and WorkerView.  Neither ChannelDiscipline nor             *)
(* NoForgottenCall is inductive.  What makes the code right is ownership:  *)
(* a channel may be sent on or closed by whoever has it, and it is in one  *)
(* pair of hands, the map's (for the next delivery or SetOffline) or the   *)
(* handler's.  Owned says that an owned channel is open, and empty if it   *)
(* takes one outcome; HandlerOK that the handler shares a channel with the *)
(* map only between two chunks of a job, with the lock in its hands;       *)
(* Waiting that a call under way has an owner or a closed channel.         *)
(***************************************************************************)

Pushing == {"push", "push_locked"}
HandlerRec == [pc : HandlerPcs, call : Calls \cup {NoCall}, last : BOOLEAN]

\* The handler holds a channel exactly while it sends.  A one-shot delivery has
\* removed the entry; a chunk of a job has, when it is the last.
HandlerOK ==
  /\ handler.pc \notin Pushing => handler.call = NoCall
  /\ handler.pc = "push" => handler.call \in Calls \ JobCalls /\ handler.last /\ ~InMap(handler.call)
  /\ handler.pc = "push_locked" => handler.call \in JobCalls /\ (handler.last <=> handler.call \notin pend)

\* A channel in the map or in the handler's hands is open, and an outcome
\* channel is empty besides.
Owned == \A c \in Calls : InMap(c) \/ handler.call = c =>
  ~chan[c].closed /\ (c \notin JobCalls => chan[c].buf = <<>>)

\* A call that has not begun has no owner and an untouched channel; one that
\* has returned is in no map.
Outside == \A c \in Calls :
  /\ call[c] = "idle" => ~InMap(c) /\ handler.call # c /\ chan[c].buf = <<>> /\ ~chan[c].closed
  /\ call[c] = "done" => ~InMap(c)

\* A call under way that has not failed is owned, or its channel is closed.
Waiting == \A c \in Calls : call[c] \in {"send", "write", "wait"} =>
  InMap(c) \/ handler.call = c \/ chan[c].closed

\* The orchestrator has one model benchmark under way.
OneModelBench == \A c, d \in ModelBenches :
  call[c] \notin {"idle", "done"} /\ call[d] \notin {"idle", "done"} => c = d

Room == \A c \in Calls : Len(chan[c].buf) <= ChanRoom(c)

\* The inductive invariant.
ConnIInv ==
  /\ ConnTypeOK /\ ~panic /\ Room
  /\ HandlerOK /\ Owned /\ Outside /\ Waiting /\ OneModelBench

-----------------------------------------------------------------------------
(* The callers.  A caller touches its own entry, its own position and, when
   it receives, its own channel.                                           *)

\* Registering a channel under an id (AssignJob, LoadModel, UnloadModel,
\* benchSend) preserves the invariant.
LEMMA OpenCallStep ==
  ASSUME ConnIInv, NEW c \in Calls \ ModelBenches, OpenCall(c)
  PROVE  ConnIInv'
<1> USE DEF ConnIInv, ConnTypeOK, connOthers
<1>1. ConnTypeOK' /\ ~panic' /\ Room'
  BY DEF OpenCall, CallGoto, CallPcs, Room
<1>2. HandlerOK'
  BY DEF OpenCall, CallGoto, HandlerOK, InMap, pendingFree, Pushing, Outside
<1>3. Owned' /\ Outside' /\ Waiting' /\ OneModelBench'
  BY DEF OpenCall, CallGoto, Owned, Outside, Waiting, OneModelBench, InMap
<1>4. QED
  BY <1>1, <1>2, <1>3

\* BenchModel takes the model's entry, which nobody holds.
LEMMA BenchModelStep ==
  ASSUME ConnIInv, NEW c \in Calls, BenchModel(c)
  PROVE  ConnIInv'
<1> USE NoCallAssumption DEF ConnIInv, ConnTypeOK, connOthers, BenchModel, CallGoto
<1>1. ConnTypeOK' /\ ~panic' /\ Room'
  BY DEF CallPcs, Room
<1>2. HandlerOK'
  BY DEF HandlerOK, InMap, pendingFree, Pushing, Outside
<1>3. Owned' /\ Outside' /\ Waiting' /\ OneModelBench'
  BY DEF Owned, Outside, Waiting, OneModelBench, InMap, Calls
<1>4. QED
  BY <1>1, <1>2, <1>3

\* send, the write to the stream and the end of a benchmark's context only move
\* the caller.
LEMMA CallerMoves ==
  ASSUME ConnIInv, NEW c \in Calls, SendCheck(c) \/ SendWrite(c) \/ BenchCancelled(c)
  PROVE  ConnIInv'
<1> USE DEF ConnIInv, ConnTypeOK, connOthers, SendCheck, SendWrite, BenchCancelled, CallGoto
<1>1. call' \in [Calls -> CallPcs] /\ wire' \subseteq Calls
  BY DEF CallPcs
<1>0. ConnTypeOK' /\ ~panic' /\ Room'
  BY <1>1 DEF Room
<1>2. HandlerOK'
  BY DEF HandlerOK, InMap
<1>3. Owned' /\ Outside' /\ Waiting'
  BY DEF Owned, Outside, Waiting, InMap
<1>4. OneModelBench'
  BY DEF OneModelBench, Calls
<1>5. QED
  BY <1>0, <1>2, <1>3, <1>4

\* The error path removes the caller's own entry: the model's entry can only be
\* the one of this benchmark, as no other is under way.
LEMMA UndoCallStep ==
  ASSUME ConnIInv, NEW c \in Calls, UndoCall(c)
  PROVE  ConnIInv'
<1> USE NoCallAssumption DEF ConnIInv, ConnTypeOK, connOthers, UndoCall, CallGoto
<1>1. ConnTypeOK' /\ ~panic' /\ Room'
  BY DEF CallPcs, Room
<1>2. HandlerOK'
  BY DEF HandlerOK, InMap, pendingFree, Pushing
<1>3. \A d \in Calls : InMap(d)' <=> InMap(d) /\ d # c
  BY DEF InMap, Outside, OneModelBench, Calls
<1>4. Owned' /\ Outside' /\ Waiting'
  BY <1>3 DEF Owned, Outside, Waiting
<1>5. OneModelBench'
  BY DEF OneModelBench, Calls
<1>6. QED
  BY <1>1, <1>2, <1>4, <1>5

\* A receive leaves the map and the handler alone; what it takes out of an
\* outcome channel was put there by the owner, who has closed it.
LEMMA AwaitOutcomeStep ==
  ASSUME ConnIInv, NEW c \in Calls, AwaitOutcome(c)
  PROVE  ConnIInv'
<1> USE DEF ConnIInv, ConnTypeOK, AwaitOutcome, CallGoto
<1>1. chan[c].buf \in Seq({"value", "offline"})
  OBVIOUS
<1>2. chan[c].buf # <<>> => /\ Tail(chan[c].buf) \in Seq({"value", "offline"})
                            /\ Len(Tail(chan[c].buf)) <= Len(chan[c].buf)
  BY <1>1
<1>3. ConnTypeOK' /\ ~panic'
  <2>1. call' \in [Calls -> CallPcs]
    BY DEF CallPcs
  <2>2. chan' \in [Calls -> [buf : Seq({"value", "offline"}), closed : BOOLEAN]]
    <3>1. CASE chan[c].buf # <<>> /\ chan' = [chan EXCEPT ![c].buf = Tail(@)]
      <4> DEFINE s == Tail(chan[c].buf)
      <4>1. s \in Seq({"value", "offline"})
        BY <1>2, <3>1
      <4>2. [chan[c] EXCEPT !.buf = s] \in [buf : Seq({"value", "offline"}), closed : BOOLEAN]
        BY <4>1
      <4>3. QED
        BY <3>1, <4>2
    <3>2. CASE chan' = chan
      BY <3>2
    <3>3. QED
      BY <3>1, <3>2
  <2>3. QED
    BY <2>1, <2>2
<1>4. Room'
  <2>1. Len(chan[c].buf) \in Nat /\ ChanRoom(c) \in Nat
    BY <1>1, CapAssumption DEF ChanRoom
  <2>2. Len(chan'[c].buf) <= Len(chan[c].buf) /\ Len(chan'[c].buf) \in Nat
    BY <1>1, <1>2, <2>1
  <2>3. \A d \in Calls : d # c => chan'[d] = chan[d]
    OBVIOUS
  <2>4. QED
    BY <2>1, <2>2, <2>3 DEF Room, ChanRoom
<1>5. HandlerOK'
  BY DEF HandlerOK, InMap
<1>6. \A d \in Calls : chan'[d].closed = chan[d].closed /\ (d # c => chan'[d] = chan[d])
  OBVIOUS
<1>7. Owned' /\ Outside' /\ Waiting' /\ OneModelBench'
  <2>1. (chan[c].buf # <<>> /\ c \notin JobCalls) \/ chan[c].closed => ~InMap(c)
    BY DEF Owned
  <2>2. \A d \in Calls : (InMap(d)' <=> InMap(d)) /\ (d # c => call'[d] = call[d])
    BY DEF InMap
  <2>3. call[c] = "wait" /\ call'[c] \in {"wait", "done"} /\ (call'[c] = "done" => ~InMap(c))
    BY <2>1
  <2>4. Owned'
    <3>1. chan[c].buf = <<>> => chan'[c].buf = <<>>
      OBVIOUS
    <3>2. QED
      BY <1>6, <2>2, <3>1 DEF Owned
  <2>5. Outside' /\ Waiting'
    BY <1>6, <2>2, <2>3 DEF Outside, Waiting
  <2>6. OneModelBench'
    BY <2>2, <2>3 DEF OneModelBench, Calls
  <2>7. QED
    BY <2>4, <2>5, <2>6
<1>8. QED
  BY <1>3, <1>4, <1>5, <1>7

\* Every step of a caller preserves the invariant.
LEMMA CallerStep ==
  ASSUME ConnIInv, NEW c \in Calls, Caller(c)
  PROVE  ConnIInv'
<1>1. CASE AssignJob(c) \/ LoadModel(c) \/ UnloadModel(c) \/ benchSend(c)
  BY <1>1, OpenCallStep, KindAssumption DEF AssignJob, LoadModel, UnloadModel, benchSend, Calls
<1>2. CASE BenchModel(c)
  BY <1>2, BenchModelStep
<1>3. CASE SendCheck(c) \/ SendWrite(c) \/ BenchCancelled(c)
  BY <1>3, CallerMoves
<1>4. CASE UndoCall(c)
  BY <1>4, UndoCallStep
<1>5. CASE AwaitOutcome(c)
  BY <1>5, AwaitOutcomeStep
<1>6. QED
  BY <1>1, <1>2, <1>3, <1>4, <1>5 DEF Caller

-----------------------------------------------------------------------------
(* The receive loop: the handler takes a channel out of the map, or keeps it
   there with the lock, and gives it back when it has sent.                *)

\* A chunk of a job: the handler holds the channel and pendingMu.
LEMMA DeliverJobChunkStep ==
  ASSUME ConnIInv, NEW c \in Calls, NEW last \in BOOLEAN, DeliverJobChunk(c, last)
  PROVE  ConnIInv'
<1> USE NoCallAssumption, KindAssumption DEF ConnIInv, ConnTypeOK, DeliverJobChunk, receiving
<1>1. ConnTypeOK' /\ ~panic' /\ Room'
  BY DEF HandlerPcs, Room
<1>2. c \in JobCalls /\ c \notin ModelBenches /\ c \in pend /\ InMap(c)
  BY DEF InMap
<1>3. HandlerOK'
  BY <1>2 DEF HandlerOK, Pushing
<1>4. \A d \in Calls : (InMap(d)' => InMap(d)) /\ (d # c => (InMap(d)' <=> InMap(d)))
  BY <1>2 DEF InMap
<1>5. handler'.call = c /\ handler.call = NoCall
  BY DEF HandlerOK, Pushing
<1>6. call[c] \notin {"idle", "done"}
  BY <1>2 DEF Outside
<1>7. Owned' /\ Outside' /\ Waiting' /\ OneModelBench'
  BY <1>2, <1>4, <1>5, <1>6 DEF Owned, Outside, Waiting, OneModelBench
<1>8. QED
  BY <1>1, <1>3, <1>7

\* A one-shot delivery takes the entry out of its map and holds the channel.
LEMMA TakeStep ==
  ASSUME ConnIInv, receiving, NEW c \in Calls \ JobCalls, InMap(c), Take(c),
         IF c \in ModelBenches THEN benchEntry' = NoCall /\ UNCHANGED pend
                               ELSE pend' = pend \ {c} /\ UNCHANGED benchEntry
  PROVE  ConnIInv'
<1> USE NoCallAssumption DEF ConnIInv, ConnTypeOK, Take, receiving
<1>1. ConnTypeOK' /\ ~panic' /\ Room'
  BY DEF HandlerPcs, Room
<1>2. \A d \in Calls : InMap(d)' <=> InMap(d) /\ d # c
  BY DEF InMap, Calls
<1>3. HandlerOK'
  BY <1>2 DEF HandlerOK, Pushing
<1>4. handler'.call = c /\ handler.call = NoCall
  BY DEF HandlerOK, Pushing
<1>5. call[c] \notin {"idle", "done"}
  BY DEF Outside
<1>6. Owned' /\ Outside' /\ Waiting' /\ OneModelBench'
  BY <1>2, <1>4, <1>5 DEF Owned, Outside, Waiting, OneModelBench
<1>7. QED
  BY <1>1, <1>3, <1>6

\* The send: the channel is open, it has room, and the handler closes it if it
\* has taken it out of the map.
LEMMA PushStep ==
  ASSUME ConnIInv, Push
  PROVE  ConnIInv'
<1> DEFINE h == handler.call
<1> USE NoCallAssumption DEF ConnIInv, ConnTypeOK, Push, Pushing
<1>1. h \in Calls /\ ~chan[h].closed /\ chan[h].buf \in Seq({"value", "offline"})
  <2>1. h \in Calls
    BY DEF HandlerOK, Calls
  <2>2. ~chan[h].closed
    BY <2>1 DEF Owned
  <2>3. chan[h] \in [buf : Seq({"value", "offline"}), closed : BOOLEAN]
    BY <2>1
  <2>4. QED
    BY <2>1, <2>2, <2>3
<1>2. chan' = [chan EXCEPT ![h] = [buf |-> Append(chan[h].buf, "value"), closed |-> handler.last]]
  BY <1>1
<1>3. /\ Append(chan[h].buf, "value") \in Seq({"value", "offline"})
      /\ Append(chan[h].buf, "value") # <<>>
      /\ Len(Append(chan[h].buf, "value")) = Len(chan[h].buf) + 1
      /\ Len(chan[h].buf) \in Nat
  <2> DEFINE s == chan[h].buf
  <2>1. s \in Seq({"value", "offline"})
    BY <1>1
  <2> HIDE DEF s
  <2>2. /\ Append(s, "value") \in Seq({"value", "offline"}) /\ Append(s, "value") # <<>>
        /\ Len(Append(s, "value")) = Len(s) + 1 /\ Len(s) \in Nat
    BY ONLY <2>1
  <2>3. QED
    BY <2>2 DEF s
<1>4. ConnTypeOK' /\ ~panic'
  <2>1. handler.last \in BOOLEAN
    OBVIOUS
  <2>2. chan' \in [Calls -> [buf : Seq({"value", "offline"}), closed : BOOLEAN]]
    BY <1>1, <1>2, <1>3, <2>1
  <2>3. handler' \in [pc : HandlerPcs, call : Calls \cup {NoCall}, last : BOOLEAN]
    BY DEF LoopIdle, HandlerPcs
  <2>4. QED
    BY <1>1, <2>2, <2>3
<1>5. Room'
  <2>1. ChanRoom(h) \in Nat /\ Len(chan[h].buf) < ChanRoom(h)
    BY <1>1, CapAssumption DEF ChanRoom
  <2>2. Len(chan'[h].buf) <= ChanRoom(h)
    BY <1>1, <1>2, <1>3, <2>1
  <2>3. \A d \in Calls : d # h => chan'[d] = chan[d]
    BY <1>2
  <2>4. QED
    BY <2>2, <2>3 DEF Room
<1>6. HandlerOK'
  BY DEF HandlerOK, LoopIdle
<1>7. /\ \A d \in Calls : InMap(d)' <=> InMap(d)
      /\ handler'.call = NoCall
      /\ \A d \in Calls : d # h => chan'[d] = chan[d]
      /\ chan'[h].closed = handler.last
  BY <1>1, <1>2 DEF InMap, LoopIdle
<1>8. handler.last <=> ~InMap(h)
  BY KindAssumption DEF HandlerOK, InMap, Calls
<1>9. InMap(h) => h \in JobCalls
  BY <1>8 DEF HandlerOK
<1>10. call[h] # "idle"
  BY <1>1 DEF Outside
<1>11. Owned' /\ Outside' /\ Waiting' /\ OneModelBench'
  BY <1>1, <1>7, <1>8, <1>9, <1>10 DEF Owned, Outside, Waiting, OneModelBench
<1>12. QED
  BY <1>4, <1>5, <1>6, <1>11

-----------------------------------------------------------------------------
(* SetOffline.                                                             *)

\* The sweep finds every channel of the maps open, and an outcome channel empty:
\* it neither blocks nor panics, and everyone who was in a map has a closed
\* channel.
LEMMA SweepStep ==
  ASSUME ConnIInv, OfflineSweep,
         UNCHANGED <<online, stream, ctxDone, call, wire>>,
         watcher' \in {"tick", "sweep", "done", "left"},
         handler' \in HandlerRec,
         handler' = handler \/ (handler'.call = NoCall /\ handler'.pc \notin Pushing /\ handler.pc \notin Pushing)
  PROVE  ConnIInv'
<1> USE NoCallAssumption DEF ConnIInv, ConnTypeOK, OfflineSweep, HandlerRec
<1> DEFINE swept == {c \in Calls : InMap(c)}
<1>1. \A c \in swept : c \in Calls /\ ~chan[c].closed /\ (c \notin JobCalls => chan[c].buf = <<>>)
  BY DEF Owned
<1>2. \A c \in Calls : c \notin swept => chan'[c] = chan[c]
  OBVIOUS
<1>3. \A c \in swept : chan'[c].closed /\ (c \in JobCalls => chan'[c].buf = chan[c].buf)
  OBVIOUS
<1>4. \A c \in swept : c \notin JobCalls => chan'[c].buf = <<"offline">>
  <2>1. Append(<<>>, "offline") = <<"offline">>
    OBVIOUS
  <2>2. QED
    BY <1>1, <2>1
<1>5. \A c \in Calls : ~InMap(c)'
  BY DEF InMap, Calls
<1>6. ConnTypeOK' /\ ~panic'
  <2>1. <<"offline">> \in Seq({"value", "offline"})
    OBVIOUS
  <2>2. \A c \in Calls : chan'[c] \in [buf : Seq({"value", "offline"}), closed : BOOLEAN]
    <3> SUFFICES ASSUME NEW c \in Calls
                 PROVE  chan'[c] \in [buf : Seq({"value", "offline"}), closed : BOOLEAN]
      OBVIOUS
    <3>1. CASE c \notin swept
      BY <3>1, <1>2
    <3>2. CASE c \in swept
      <4>1. chan'[c] = [buf |-> IF c \in JobCalls THEN chan[c].buf ELSE Append(chan[c].buf, "offline"),
                        closed |-> TRUE]
        BY <3>2
      <4>2. chan'[c].buf \in Seq({"value", "offline"})
        BY <3>2, <1>3, <1>4, <2>1
      <4>3. QED
        BY <4>1, <4>2
    <3>3. QED
      BY <3>1, <3>2
  <2>3. chan' \in [Calls -> [buf : Seq({"value", "offline"}), closed : BOOLEAN]]
    BY <2>2
  <2>4. ~panic'
    BY <1>1
  <2>5. pend' = {} /\ benchEntry' = NoCall
    OBVIOUS
  <2>6. QED
    BY <2>3, <2>4, <2>5
<1>7. Room'
  <2> SUFFICES ASSUME NEW c \in Calls
               PROVE  Len(chan'[c].buf) <= ChanRoom(c)
    BY DEF Room
  <2>1. CASE c \in swept /\ c \notin JobCalls
    <3>1. Len(<<"offline">>) = 1
      OBVIOUS
    <3>2. chan'[c].buf = <<"offline">> /\ ChanRoom(c) = 1
      BY <2>1, <1>4 DEF ChanRoom
    <3>3. Len(chan'[c].buf) = 1
      BY ONLY <3>1, <3>2
    <3>4. QED
      BY ONLY <3>2, <3>3
  <2>2. CASE c \notin swept \/ c \in JobCalls
    BY <2>2, <1>2, <1>3 DEF Room
  <2>3. QED
    BY <2>1, <2>2
<1>8. handler'.call = handler.call /\ handler.pc # "push_locked"
  BY DEF HandlerOK, pendingFree
<1>9. HandlerOK'
  BY <1>5, <1>8 DEF HandlerOK, Pushing
<1>10. Owned' /\ Outside' /\ Waiting' /\ OneModelBench'
  <2>1. \A c \in Calls : handler.call = c => c \notin swept
    BY <1>8 DEF HandlerOK, Pushing
  <2>2. Owned'
    BY <2>1, <1>2, <1>5, <1>8 DEF Owned
  <2>3. Outside' /\ Waiting'
    BY <1>2, <1>3, <1>5, <1>8 DEF Outside, Waiting
  <2>4. OneModelBench'
    BY DEF OneModelBench
  <2>5. QED
    BY <2>2, <2>3, <2>4
<1>11. QED
  BY <1>6, <1>7, <1>9, <1>10

\* A step that moves only the flags, the watcher, or the handler between two
\* positions in which it holds no channel.
LEMMA QuietStep ==
  ASSUME ConnIInv, UNCHANGED <<call, chan, pend, benchEntry, wire, panic>>,
         online' \in BOOLEAN, stream' \in {"open", "broken"}, ctxDone' \in BOOLEAN,
         watcher' \in {"tick", "sweep", "done", "left"},
         handler' \in HandlerRec,
         handler' = handler \/ (handler'.call = NoCall /\ handler'.pc \notin Pushing /\ handler.pc \notin Pushing)
  PROVE  ConnIInv'
<1> USE NoCallAssumption DEF ConnIInv, ConnTypeOK, HandlerRec
<1>1. ConnTypeOK' /\ ~panic' /\ Room'
  BY DEF Room
<1>2. handler'.call = handler.call
  BY DEF HandlerOK
<1>3. HandlerOK'
  BY <1>2 DEF HandlerOK, InMap, Pushing
<1>4. Owned' /\ Outside' /\ Waiting' /\ OneModelBench'
  BY <1>2 DEF Owned, Outside, Waiting, OneModelBench, InMap
<1>5. QED
  BY <1>1, <1>3, <1>4

\* The same, of a step that leaves the handler alone.
LEMMA FlagStep ==
  ASSUME ConnIInv, UNCHANGED <<handler, call, chan, pend, benchEntry, wire, panic>>,
         online' \in BOOLEAN, stream' \in {"open", "broken"}, ctxDone' \in BOOLEAN,
         watcher' \in {"tick", "sweep", "done", "left"}
  PROVE  ConnIInv'
<1>1. handler \in HandlerRec
  BY DEF ConnIInv, ConnTypeOK, HandlerRec
<1>2. handler' = handler
  OBVIOUS
<1>3. handler' \in HandlerRec
  BY <1>1, <1>2
<1>4. QED
  BY <1>2, <1>3, QuietStep

\* Every step of the handler preserves the invariant.
LEMMA HubStep ==
  ASSUME ConnIInv, HubLoop
  PROVE  ConnIInv'
<1>0. ConnTypeOK /\ HandlerOK
  BY DEF ConnIInv
<1>1. CASE ApplyHeartbeat
  BY <1>0, <1>1, FlagStep DEF ApplyHeartbeat, ConnTypeOK
<1>2. CASE DeliverModelBenchResult
  <2>1. /\ benchEntry \in Calls \ JobCalls /\ benchEntry \in ModelBenches /\ InMap(benchEntry)
        /\ receiving /\ Take(benchEntry) /\ benchEntry' = NoCall /\ UNCHANGED pend
    BY <1>0, <1>2, KindAssumption DEF DeliverModelBenchResult, InMap, Calls, ConnTypeOK
  <2>2. QED
    BY <2>1, TakeStep
<1>3. CASE Push
  BY <1>3, PushStep
<1>4. CASE ReceiveFails
  BY <1>0, <1>4, QuietStep DEF ReceiveFails, ConnTypeOK, HandlerOK, Pushing, HandlerPcs, HandlerRec
<1>5. CASE DeferredOffline
  <2>1. CASE handler.pc = "offline" /\ OfflineFlag /\ handler' = [handler EXCEPT !.pc = "sweep"]
             /\ UNCHANGED <<stream, ctxDone, watcher, call, chan, pend, benchEntry, wire, panic>>
    BY <1>0, <2>1, QuietStep DEF OfflineFlag, ConnTypeOK, HandlerOK, Pushing, HandlerPcs, HandlerRec
  <2>2. CASE handler.pc = "sweep" /\ OfflineSweep /\ handler' = [handler EXCEPT !.pc = "done"]
             /\ UNCHANGED <<online, stream, ctxDone, watcher, call, wire>>
    BY <1>0, <2>2, SweepStep DEF ConnTypeOK, HandlerOK, Pushing, HandlerPcs, HandlerRec
  <2>3. QED
    BY <1>5, <2>1, <2>2 DEF DeferredOffline
<1>6. ASSUME NEW c \in Calls, NEW last \in BOOLEAN, DeliverJobChunk(c, last)
      PROVE  ConnIInv'
  BY <1>6, DeliverJobChunkStep
<1>7. ASSUME NEW c \in Calls, DeliverLoadResult(c) \/ DeliverUnloadResult(c) \/ DeliverBenchResult(c)
      PROVE  ConnIInv'
  <2>1. /\ c \in Calls \ JobCalls /\ c \notin ModelBenches /\ InMap(c)
        /\ receiving /\ Take(c) /\ pend' = pend \ {c} /\ UNCHANGED benchEntry
    BY <1>7, KindAssumption
       DEF DeliverLoadResult, DeliverUnloadResult, DeliverBenchResult, DeliverById, InMap
  <2>2. QED
    BY <2>1, TakeStep
<1>8. QED
  BY <1>1, <1>2, <1>3, <1>4, <1>5, <1>6, <1>7 DEF HubLoop

\* Every step of the liveness watcher preserves the invariant.
LEMMA WatchStep ==
  ASSUME ConnIInv, Watch
  PROVE  ConnIInv'
<1>0. ConnTypeOK
  BY DEF ConnIInv
<1>1. CASE /\ watcher = "tick" /\ online /\ OfflineFlag /\ watcher' = "sweep"
           /\ UNCHANGED <<stream, ctxDone, handler, call, chan, pend, benchEntry, wire, panic>>
  BY <1>0, <1>1, FlagStep DEF OfflineFlag, ConnTypeOK
<1>2. CASE /\ watcher = "tick" /\ watcher' = "left"
           /\ UNCHANGED <<online, stream, ctxDone, handler, call, chan, pend, benchEntry, wire, panic>>
  BY <1>0, <1>2, FlagStep DEF ConnTypeOK
<1>3. CASE /\ watcher = "sweep" /\ OfflineSweep /\ watcher' = "done"
           /\ UNCHANGED <<online, stream, ctxDone, handler, call, wire>>
  <2>1. handler' = handler /\ handler \in HandlerRec
    BY <1>0, <1>3 DEF ConnTypeOK, HandlerRec
  <2>2. handler' \in HandlerRec
    BY <2>1
  <2>3. QED
    BY <1>3, <2>1, <2>2, SweepStep
<1>4. QED
  BY <1>1, <1>2, <1>3 DEF Watch

-----------------------------------------------------------------------------
(* The theorems.                                                           *)

\* The inductive invariant holds in every behaviour of a connection: every
\* channel that can still be sent on or closed has one owner (the pending maps
\* of stream_worker.go or the Connect handler).
THEOREM ConnInvariant == ConnSpec => []ConnIInv
<1>1. ConnInit => ConnIInv
  <2> SUFFICES ASSUME ConnInit PROVE ConnIInv
    OBVIOUS
  <2> USE NoCallAssumption DEF ConnInit, LoopIdle
  <2>1. ConnTypeOK /\ ~panic
    <3>1. <<>> \in Seq({"value", "offline"})
      OBVIOUS
    <3>2. chan \in [Calls -> [buf : Seq({"value", "offline"}), closed : BOOLEAN]]
      BY <3>1
    <3>3. QED
      BY <3>2 DEF ConnTypeOK, HandlerPcs, CallPcs
  <2>2. Room
    BY CapAssumption DEF Room, ChanRoom
  <2>3. HandlerOK /\ Owned /\ Outside /\ Waiting /\ OneModelBench
    BY DEF HandlerOK, Owned, Outside, Waiting, OneModelBench, InMap, Pushing, Calls
  <2>4. QED
    BY <2>1, <2>2, <2>3 DEF ConnIInv
<1>2. ConnIInv /\ [ConnNext]_connVars => ConnIInv'
  <2> SUFFICES ASSUME ConnIInv, [ConnNext]_connVars PROVE ConnIInv'
    OBVIOUS
  <2>0. ConnTypeOK
    BY DEF ConnIInv
  <2>1. CASE HubLoop
    BY <2>1, HubStep
  <2>2. CASE Watch
    BY <2>2, WatchStep
  <2>3. CASE PeerGone \/ Shutdown
    BY <2>0, <2>3, FlagStep DEF PeerGone, Shutdown, ConnTypeOK
  <2>4. CASE \E c \in Calls : Caller(c)
    BY <2>4, CallerStep
  <2>5. CASE UNCHANGED connVars
    BY <2>0, <2>5, FlagStep DEF connVars, ConnTypeOK
  <2>6. QED
    BY <2>1, <2>2, <2>3, <2>4, <2>5 DEF ConnNext
<1>3. QED
  BY <1>1, <1>2, PTL DEF ConnSpec

\* Deliveries and the two SetOfflines never send on or close a closed channel,
\* never overfill one, and SetOffline never blocks on an outcome channel while
\* it holds pendingMu.
THEOREM ChannelsAreSafe == ConnSpec => []ChannelDiscipline
<1>1. ConnIInv => ChannelDiscipline
  BY DEF ConnIInv, ChannelDiscipline, Room, Owned
<1>2. QED
  BY <1>1, ConnInvariant, PTL

\* No caller of a stream worker is forgotten: while it waits, its channel is in
\* a map, in the handler's hands, or closed; once it has returned, no map holds
\* its entry.
THEOREM NobodyForgotten == ConnSpec => []NoForgottenCall
<1>1. ConnIInv => NoForgottenCall
  BY DEF ConnIInv, NoForgottenCall, Outside, Waiting
<1>2. QED
  BY <1>1, ConnInvariant, PTL

-----------------------------------------------------------------------------
(* What the server believes about a worker (WorkerView).                   *)
(*                                                                         *)
(* TakesOnlyUnused is not inductive.  It rests on IdleIsIdle, which says   *)
(* of every entry at all times that an idle period begins no earlier than  *)
(* the last heartbeat that reported the model busy, although heartbeats    *)
(* carry the start over and loads stamp new entries; and on PassOK, which  *)
(* says of the victims still to come what the property says of the model   *)
(* being unloaded, and that the cutoff lies a TTL before the copy.         *)

IsLoader(x) == x \in [pc : {x.pc}, model : {x.model}]
IsEvictor(x) == x \in [pc : {x.pc}, cutoff : {x.cutoff}, left : {x.left}, model : {x.model},
                       readAt : {x.readAt}, busyAt : {x.busyAt}]
IsEntry(x) == x \in [active : {x.active}, source : {x.source}, idle : {x.idle}, files : {x.files}]

Messages == [kind : {"loaded", "unloaded", "refused"}, models : SUBSET Models]
            \cup [kind : {"beat"}, models : SUBSET Models, busy : SUBSET Models, cache : SUBSET CachePaths]

\* One load result at most is on its way, and only to a caller that waits for it.
LoadsAwaited ==
  /\ \A i \in 1..Len(uplink) : uplink[i].kind = "loaded" => loader.pc = "wait"
  /\ \A i, k \in 1..Len(uplink) : uplink[i].kind = "loaded" /\ uplink[k].kind = "loaded" => i = k

IdleIsIdle ==
  \A m \in Models \cap Loaded :
    view[m].idle \in Nat /\ (view[m].idle # Never => lastBusy[m] <= view[m].idle)

Unloading(x) == x.pc \in {"sent", "wait", "notify"}
LongUnused(x, m) == x.busyAt[m] + Ttl <= x.readAt

PassOK(x, now) ==
  /\ IsEvictor(x)
  /\ x.pc = "started" => x.cutoff \in Int /\ x.cutoff + Ttl <= now
  /\ \A m \in x.left : LongUnused(x, m)
  /\ Unloading(x) => LongUnused(x, x.model)

ViewIInv ==
  /\ IsLoader(loader) /\ PassOK(evictor, tick) /\ \A m \in Loaded : IsEntry(view[m])
  /\ tick \in Nat /\ lastBusy \in [Models -> Nat] /\ \A m \in Models : lastBusy[m] <= tick
  /\ uplink \in Seq(Messages)
  /\ LoadsAwaited /\ IdleIsIdle /\ TabShowsLoaded /\ TakesOnlyUnused

\* A worker that has just connected has nothing loaded and nothing shown.
LEMMA ViewInvInit == ViewInit => ViewIInv
<1> SUFFICES ASSUME ViewInit PROVE ViewIInv
  OBVIOUS
<1>1. IsLoader(loader) /\ Loaded = {}
  BY DEF ViewInit, IsLoader, Loaded
<1>a. PassOK(evictor, tick) /\ evictor.pc = "idle"
  BY DEF ViewInit, NoPass, PassOK, IsEvictor, Unloading
<1>2. tick \in Nat /\ lastBusy \in [Models -> Nat] /\ \A m \in Models : lastBusy[m] <= tick
  BY DEF ViewInit, Never
<1>3. shown = Rendered(view)
  BY DEF ViewInit, Rendered
<1>4. dropped.paths = {}
  BY DEF ViewInit, NoDrop
<1>5. uplink \in Seq(Messages) /\ LoadsAwaited
  BY DEF ViewInit, LoadsAwaited
<1> QED BY <1>1, <1>a, <1>2, <1>3, <1>4, <1>5 DEF ViewIInv, IdleIsIdle, TabShowsLoaded, TakesOnlyUnused

\* A step that moves neither the entries nor the tab nor the reconciliation keeps
\* what is known of them, whatever it does to the loader and the evictor's pc.
LEMMA ViewQuiet ==
  ASSUME ViewIInv, UNCHANGED <<tick, view, shown, lastBusy, dropped>>,
         IsLoader(loader'), PassOK(evictor', tick), uplink' \in Seq(Messages), LoadsAwaited',
         loader.pc = "notify" => loader'.pc = "notify"
  PROVE  ViewIInv'
<1>1. TakesOnlyUnused'
  BY DEF ViewIInv, TakesOnlyUnused, PassOK, Unloading, LongUnused
<1>2. PassOK(evictor, tick)'
  OBVIOUS
<1> QED BY <1>1, <1>2 DEF ViewIInv, IdleIsIdle, TabShowsLoaded, Loaded, Rendered

\* A step of the pass that only moves its pc keeps what is known of it, if it was
\* unloading before, or is not after.
LEMMA PassGoesOn ==
  ASSUME NEW x, NEW y, NEW t, NEW p, PassOK(x, t), y = [x EXCEPT !.pc = p],
         p \in {"sent", "wait", "notify"} => Unloading(x), p # "started"
  PROVE  PassOK(y, t)
<1>1. /\ IsEvictor(y) /\ y.pc = p /\ y.left = x.left /\ y.model = x.model
      /\ y.readAt = x.readAt /\ y.busyAt = x.busyAt
  BY DEF PassOK, IsEvictor
<1> QED BY <1>1 DEF PassOK, Unloading, LongUnused

\* Receiving takes the first message away.
LEMMA Received ==
  ASSUME ViewIInv, uplink # <<>>, uplink' = Tail(uplink),
         loader'.pc = loader.pc \/ Head(uplink).kind = "loaded"
  PROVE  /\ uplink' \in Seq(Messages) /\ LoadsAwaited'
         /\ Head(uplink).kind = "loaded" => loader.pc = "wait"
<1>1. uplink \in Seq(Messages) /\ Len(uplink) \in Nat \ {0} /\ Head(uplink) = uplink[1]
  BY DEF ViewIInv
<1>2. /\ uplink' \in Seq(Messages) /\ Len(uplink') = Len(uplink) - 1
      /\ \A i \in 1..Len(uplink') : uplink'[i] = uplink[i + 1]
  BY <1>1
<1>3. LoadsAwaited
  BY DEF ViewIInv
<1>4. \A i \in 1..Len(uplink') : uplink'[i].kind = "loaded" => loader'.pc = "wait"
  <2> SUFFICES ASSUME NEW i \in 1..Len(uplink'), uplink'[i].kind = "loaded" PROVE loader'.pc = "wait"
    OBVIOUS
  <2>1. i + 1 \in 1..Len(uplink) /\ uplink[i + 1].kind = "loaded" /\ 1 \in 1..Len(uplink) /\ i + 1 # 1
    BY <1>1, <1>2
  <2>2. Head(uplink).kind # "loaded" /\ loader.pc = "wait"
    BY <1>1, <1>3, <2>1 DEF LoadsAwaited
  <2> QED BY <2>2
<1>5. \A i, k \in 1..Len(uplink') : uplink'[i].kind = "loaded" /\ uplink'[k].kind = "loaded" => i = k
  <2> SUFFICES ASSUME NEW i \in 1..Len(uplink'), NEW k \in 1..Len(uplink'),
                      uplink'[i].kind = "loaded", uplink'[k].kind = "loaded"
               PROVE  i = k
    OBVIOUS
  <2>1. i + 1 \in 1..Len(uplink) /\ k + 1 \in 1..Len(uplink)
    BY <1>1, <1>2
  <2>2. i + 1 = k + 1
    BY <1>2, <1>3, <2>1 DEF LoadsAwaited
  <2> QED BY <2>2
<1> QED BY <1>1, <1>2, <1>3, <1>4, <1>5 DEF LoadsAwaited

\* Sending adds one at the end.
LEMMA Sent ==
  ASSUME ViewIInv, NEW x \in Messages, uplink' = Append(uplink, x),
         \/ x.kind # "loaded" /\ loader'.pc = loader.pc
         \/ loader.pc # "wait" /\ loader'.pc = "wait"
  PROVE  uplink' \in Seq(Messages) /\ LoadsAwaited'
<1>1. /\ uplink \in Seq(Messages) /\ Len(uplink) \in Nat /\ uplink' \in Seq(Messages) /\ Len(uplink') = Len(uplink) + 1
      /\ uplink'[Len(uplink) + 1] = x /\ \A i \in 1..Len(uplink) : uplink'[i] = uplink[i]
  BY DEF ViewIInv
<1>2. LoadsAwaited
  BY DEF ViewIInv
<1>3. \A i \in 1..Len(uplink') : i \in 1..Len(uplink) \/ i = Len(uplink) + 1
  BY <1>1
<1> QED BY <1>1, <1>2, <1>3 DEF LoadsAwaited

\* A path that reconciliation asks the worker to delete shares no file with the
\* models of the heartbeat it answers.
LEMMA StaleIsUnused ==
  ASSUME NEW cache, NEW canon, NEW next, NEW backing, loadedFiles(next) = backing
  PROVE  /\ canon = {} => StalePaths(cache, canon, next) = {}
         /\ \A p \in StalePaths(cache, canon, next) : \A q \in backing : ~IsPrefix(p, q) /\ ~IsPrefix(q, p)
BY DEF StalePaths, isProtected, covers, IsStrictPrefix

\* A heartbeat replaces the loaded list, keeps the stamps of models still loaded and
\* notifies the tab when the rendered set has changed.
LEMMA BeatStep == ViewIInv /\ ReceiveBeat => ViewIInv'
<1> SUFFICES ASSUME ViewIInv, ReceiveBeat PROVE ViewIInv'
  OBVIOUS
<1> DEFINE beat == Head(uplink)
           next == [m \in beat.models |-> MergeEntry(m, beat)]
<1>1. PICK canon :
        /\ view' = next
        /\ shown' = IF sameLoadedSet(view, next) THEN shown ELSE Rendered(next)
        /\ lastBusy' = [m \in Models |-> IF m \in beat.busy THEN tick ELSE lastBusy[m]]
        /\ dropped' = [paths |-> StalePaths(beat.cache, canon, next), canon |-> canon,
                       backing |-> UNION {Files[m] : m \in beat.models}]
  BY DEF ReceiveBeat
<1>2. UNCHANGED <<tick, loader, evictor>>
  BY DEF ReceiveBeat
<1>3. \A m \in beat.models :
        /\ IsEntry(next[m]) /\ next[m].files = Files[m]
        /\ next[m].idle = IF m \in beat.busy THEN Never
                          ELSE IF m \in Loaded /\ view[m].idle # Never THEN view[m].idle ELSE tick
  BY DEF MergeEntry, IsEntry
<1>4. DOMAIN next = beat.models /\ Loaded' = beat.models
  BY <1>1 DEF Loaded
<1> HIDE DEF beat, next
<1>5. loadedFiles(next) = UNION {Files[m] : m \in beat.models}
  <2>1. {next[m].files : m \in DOMAIN next} = {Files[m] : m \in beat.models}
    BY <1>3, <1>4
  <2> QED BY <2>1 DEF loadedFiles
<1>6. /\ lastBusy' \in [Models -> Nat] /\ \A m \in Models : lastBusy'[m] <= tick'
  BY <1>1, <1>2 DEF ViewIInv
<1>7. IdleIsIdle'
  <2> SUFFICES ASSUME NEW m \in Models, m \in beat.models
               PROVE  next[m].idle \in Nat /\ (next[m].idle # Never => lastBusy'[m] <= next[m].idle)
    BY <1>1, <1>4 DEF IdleIsIdle
  <2>1. CASE m \in beat.busy
    BY <1>3, <2>1 DEF Never
  <2>2. CASE m \notin beat.busy
    BY <1>1, <1>3, <2>2 DEF ViewIInv, IdleIsIdle, Never
  <2> QED BY <2>1, <2>2
<1>8. TabShowsLoaded'
  <2>1. ASSUME shown = Rendered(view) PROVE shown' = Rendered(next)
    BY <1>1, <2>1 DEF sameLoadedSet
  <2> QED BY <1>1, <1>2, <2>1 DEF ViewIInv, TabShowsLoaded
<1>9. TakesOnlyUnused'
  <2>1. /\ dropped'.paths = StalePaths(beat.cache, canon, next) /\ dropped'.canon = canon
        /\ dropped'.backing = UNION {Files[m] : m \in beat.models}
    BY <1>1
  <2> QED BY <1>2, <1>5, <2>1, StaleIsUnused DEF ViewIInv, TakesOnlyUnused
<1>10. \A m \in Loaded' : IsEntry(view'[m])
  BY <1>1, <1>3, <1>4
<1>11. uplink' \in Seq(Messages) /\ LoadsAwaited'
  BY <1>2, Received DEF ReceiveBeat
<1> QED BY <1>2, <1>6, <1>7, <1>8, <1>9, <1>10, <1>11 DEF ViewIInv

\* Every step of the worker's view (heartbeats, loads, evictions, reconciliation)
\* preserves its invariant.
LEMMA ViewInvNext == ViewIInv /\ [ViewNext]_viewVars => ViewIInv'
<1> SUFFICES ASSUME ViewIInv, [ViewNext]_viewVars PROVE ViewIInv'
  OBVIOUS
<1>0. /\ PassOK(evictor, tick) /\ IsLoader(loader)
      /\ uplink \in Seq(Messages) /\ LoadsAwaited /\ TabShowsLoaded
  BY DEF ViewIInv
<1>p. ASSUME NEW x, loader' = [loader EXCEPT !.pc = x]
      PROVE  IsLoader(loader') /\ loader'.pc = x
  BY <1>0, <1>p DEF IsLoader
<1>r. ASSUME UNCHANGED <<uplink, loader>> PROVE uplink' \in Seq(Messages) /\ LoadsAwaited'
  BY <1>0, <1>r DEF LoadsAwaited
<1>1. CASE Tick
  <2>1. UNCHANGED <<uplink, loader, evictor, view, shown, lastBusy, dropped>> /\ tick' = tick + 1
    BY <1>1 DEF Tick
  <2>2. PassOK(evictor, tick + 1)
    BY <1>0, ViewAssumption DEF ViewIInv, PassOK
  <2>3. PassOK(evictor, tick)'
    BY <2>1, <2>2
  <2> QED BY <1>r, <2>1, <2>3 DEF ViewIInv, IdleIsIdle, TabShowsLoaded, TakesOnlyUnused, Loaded, Rendered
<1>2. CASE StoreChanges \/ UNCHANGED viewVars \/ \E m \in Models : WorkerWorks(m)
  <2>1. UNCHANGED <<tick, uplink, view, shown, lastBusy, dropped, loader, evictor>>
    BY <1>2 DEF StoreChanges, WorkerWorks, viewVars
  <2> QED BY <1>0, <1>r, <2>1, ViewQuiet
<1>3. CASE WorkerBeats
  <2> DEFINE x == [kind |-> "beat", models |-> {m \in Models : truth[m] # "out"},
                   busy |-> {m \in Models : truth[m] = "busy"}, cache |-> CachePaths]
  <2>1. UNCHANGED <<tick, view, shown, lastBusy, dropped, loader, evictor>> /\ uplink' = Append(uplink, x)
    BY <1>3 DEF WorkerBeats
  <2>2. x \in Messages /\ x.kind = "beat"
    BY DEF Messages
  <2> HIDE DEF x
  <2>3. uplink' \in Seq(Messages) /\ LoadsAwaited'
    BY <2>1, <2>2, Sent
  <2> QED BY <1>0, <2>1, <2>3, ViewQuiet
<1>4. CASE ReceiveBeat
  BY <1>4, BeatStep
<1>5. ASSUME NEW m \in Models, WorkerLoads(m) PROVE ViewIInv'
  <2> DEFINE x == [kind |-> "loaded", models |-> {m}]
  <2>1. /\ UNCHANGED <<tick, view, shown, lastBusy, dropped, evictor>> /\ loader.pc = "sent"
        /\ loader' = [loader EXCEPT !.pc = "wait"] /\ uplink' = Append(uplink, x)
    BY <1>5 DEF WorkerLoads
  <2>2. x \in Messages
    BY DEF Messages
  <2> HIDE DEF x
  <2>3. uplink' \in Seq(Messages) /\ LoadsAwaited'
    BY <1>p, <2>1, <2>2, Sent
  <2> QED BY <1>0, <1>p, <2>1, <2>3, ViewQuiet
<1>6. ASSUME NEW m \in Models, WorkerUnloads(m) PROVE ViewIInv'
  <2>1. /\ UNCHANGED <<tick, view, shown, lastBusy, dropped, loader>>
        /\ evictor.pc = "sent" /\ evictor' = [evictor EXCEPT !.pc = "wait"]
    BY <1>6 DEF WorkerUnloads
  <2>2. PICK k \in {"unloaded", "refused"} : uplink' = Append(uplink, [kind |-> k, models |-> {m}])
    BY <1>6 DEF WorkerUnloads
  <2> DEFINE x == [kind |-> k, models |-> {m}]
  <2>3. x \in Messages /\ x.kind # "loaded" /\ uplink' = Append(uplink, x)
    BY <2>2 DEF Messages
  <2> HIDE DEF x
  <2>4. uplink' \in Seq(Messages) /\ LoadsAwaited'
    BY <2>1, <2>3, Sent
  <2>5. PassOK(evictor', tick)
    BY <1>0, <2>1, PassGoesOn DEF Unloading
  <2> QED BY <1>0, <2>1, <2>4, <2>5, ViewQuiet
<1>7. CASE ReceiveLoaded
  <2>1. /\ UNCHANGED <<tick, view, shown, lastBusy, dropped, evictor>>
        /\ loader' = [loader EXCEPT !.pc = "stamp"]
    BY <1>7 DEF ReceiveLoaded
  <2>2. uplink' \in Seq(Messages) /\ LoadsAwaited' /\ loader.pc = "wait"
    BY <1>7, Received DEF ReceiveLoaded
  <2> QED BY <1>0, <1>p, <2>1, <2>2, ViewQuiet
<1>8. CASE ReceiveUnloaded
  <2> DEFINE p == IF evictor.pc # "wait" THEN evictor.pc
                  ELSE IF Head(uplink).kind = "unloaded" THEN "notify" ELSE "picking"
  <2>1. UNCHANGED <<tick, view, shown, lastBusy, dropped, loader>> /\ evictor' = [evictor EXCEPT !.pc = p]
    BY <1>8 DEF ReceiveUnloaded
  <2>2. uplink' \in Seq(Messages) /\ LoadsAwaited'
    BY <1>8, Received DEF ReceiveUnloaded
  <2>3. PassOK(evictor', tick)
    <3>1. CASE evictor.pc = "wait"
      BY <1>0, <2>1, <3>1, PassGoesOn DEF Unloading
    <3>2. CASE evictor.pc # "wait"
      BY <1>0, <2>1, <3>2 DEF PassOK, IsEvictor
    <3> QED BY <3>1, <3>2
  <2> QED BY <1>0, <2>1, <2>2, <2>3, ViewQuiet
<1>9. ASSUME NEW m \in Models, LoadSend(m) PROVE ViewIInv'
  <2>1. /\ UNCHANGED <<tick, uplink, view, shown, lastBusy, dropped, evictor>>
        /\ loader.pc \in {"idle", "done"} /\ loader' = [pc |-> "sent", model |-> m]
    BY <1>9 DEF LoadSend
  <2>2. IsLoader(loader')
    BY <2>1 DEF IsLoader
  <2>3. LoadsAwaited'
    BY <1>0, <2>1 DEF LoadsAwaited
  <2> QED BY <1>0, <2>1, <2>2, <2>3, ViewQuiet
<1>10. CASE LoadStamp
  <2>1. /\ UNCHANGED <<tick, uplink, shown, lastBusy, dropped, evictor>> /\ loader.pc = "stamp"
        /\ loader' = [loader EXCEPT !.pc = "notify"]
    BY <1>10 DEF LoadStamp
  <2>2. LoadsAwaited'
    BY <1>0, <2>1 DEF LoadsAwaited
  <2> DEFINE l == loader.model
             new == [active |-> 0, source |-> "app", idle |-> tick, files |-> {}]
             old == [view[l] EXCEPT !.source = "app"]
  <2>3. view' = [k \in Loaded \cup {l} |-> IF k # l THEN view[k] ELSE IF l \in Loaded THEN old ELSE new]
    BY <1>10 DEF LoadStamp, markLoaded
  <2>4. \A y : y = new => IsEntry(y) /\ y.idle = tick
    BY DEF IsEntry
  <2>5. l \in Loaded => \A y : y = old => IsEntry(y) /\ y.idle = view[l].idle
    BY DEF IsEntry, ViewIInv
  <2> HIDE DEF l, new, old
  <2>6. \A m \in Loaded' : /\ m # l => m \in Loaded /\ view'[m] = view[m]
                           /\ m = l => IsEntry(view'[m])
                           /\ m = l /\ m \in Loaded => view'[m].idle = view[m].idle
                           /\ m = l /\ m \notin Loaded => view'[m].idle = tick
    BY <2>3, <2>4, <2>5 DEF Loaded
  <2>7. IdleIsIdle'
    BY <2>1, <2>6 DEF ViewIInv, IdleIsIdle
  <2>8. \A m \in Loaded' : IsEntry(view'[m])
    BY <2>6 DEF ViewIInv
  <2> QED BY <1>0, <1>p, <2>1, <2>2, <2>7, <2>8 DEF ViewIInv, TabShowsLoaded, TakesOnlyUnused
<1>11. CASE LoadNotify
  <2>1. /\ UNCHANGED <<tick, uplink, view, lastBusy, dropped, evictor>> /\ shown' = Rendered(view)
        /\ loader.pc = "notify" /\ loader' = [loader EXCEPT !.pc = "done"]
    BY <1>11 DEF LoadNotify
  <2>2. LoadsAwaited'
    BY <1>0, <2>1 DEF LoadsAwaited
  <2> QED BY <1>0, <1>p, <2>1, <2>2 DEF ViewIInv, IdleIsIdle, TabShowsLoaded, TakesOnlyUnused, Loaded, Rendered
<1>12. CASE EvictStart \/ EvictDone
  <2>1. UNCHANGED <<tick, uplink, view, shown, lastBusy, dropped, loader>>
    BY <1>12 DEF EvictStart, EvictDone
  <2>2. CASE EvictStart
    <3>1. evictor' = [evictor EXCEPT !.pc = "started", !.cutoff = tick - Ttl] /\ tick \in Nat /\ Ttl \in Nat
      BY <2>2, ViewAssumption DEF EvictStart, ViewIInv
    <3>2. /\ IsEvictor(evictor') /\ evictor'.pc = "started" /\ evictor'.cutoff = tick - Ttl /\ evictor'.left = evictor.left
          /\ evictor'.busyAt = evictor.busyAt /\ evictor'.readAt = evictor.readAt
      BY <1>0, <3>1 DEF PassOK, IsEvictor
    <3>3. PassOK(evictor', tick)
      BY <1>0, <3>1, <3>2 DEF PassOK, Unloading, LongUnused
    <3> QED BY <1>0, <1>r, <2>1, <3>3, ViewQuiet
  <2>3. CASE EvictDone
    <3>1. PassOK(evictor', tick)
      BY <2>3 DEF EvictDone, NoPass, PassOK, IsEvictor, Unloading
    <3> QED BY <1>0, <1>r, <2>1, <3>1, ViewQuiet
  <2> QED BY <1>12, <2>2, <2>3
<1>13. CASE EvictCopy
  <2> DEFINE victims == IdleVictims(evictor.cutoff)
             busy == [m \in Models |-> IF m \in victims THEN lastBusy[m] ELSE Never]
  <2>1. /\ UNCHANGED <<tick, uplink, view, shown, lastBusy, dropped, loader>> /\ evictor.pc = "started"
        /\ evictor' = [evictor EXCEPT !.pc = "picking", !.left = victims, !.readAt = tick, !.busyAt = busy]
    BY <1>13 DEF EvictCopy
  <2>2. /\ IsEvictor(evictor') /\ evictor'.pc = "picking" /\ evictor'.left = victims
        /\ evictor'.readAt = tick /\ evictor'.busyAt = busy
    BY <1>0, <2>1 DEF PassOK, IsEvictor
  <2>3. ASSUME NEW m \in victims PROVE busy[m] + Ttl <= tick
    <3>1. m \in Models /\ m \in Loaded /\ view[m].idle # Never /\ view[m].idle <= evictor.cutoff
      BY DEF IdleVictims
    <3>2. view[m].idle \in Nat /\ lastBusy[m] <= view[m].idle /\ lastBusy[m] \in Nat
      BY <3>1 DEF ViewIInv, IdleIsIdle
    <3>3. evictor.cutoff \in Int /\ evictor.cutoff + Ttl <= tick /\ tick \in Nat /\ Ttl \in Nat
      BY <1>0, <2>1, ViewAssumption DEF PassOK, ViewIInv
    <3>4. busy[m] = lastBusy[m]
      BY <3>1
    <3> QED BY <3>1, <3>2, <3>3, <3>4
  <2> HIDE DEF victims, busy
  <2>4. PassOK(evictor', tick)
    BY <2>2, <2>3 DEF PassOK, Unloading, LongUnused
  <2> QED BY <1>0, <1>r, <2>1, <2>4, ViewQuiet
<1>14. ASSUME NEW m \in Models, EvictModel(m) PROVE ViewIInv'
  <2> DEFINE p == IF m \in Loaded THEN "sent" ELSE "picking"
  <2>1. /\ UNCHANGED <<tick, uplink, view, shown, lastBusy, dropped, loader>> /\ m \in evictor.left
        /\ evictor' = [evictor EXCEPT !.pc = p, !.left = @ \ {m}, !.model = m]
    BY <1>14 DEF EvictModel
  <2>2. /\ IsEvictor(evictor') /\ evictor'.pc = p /\ evictor'.left = evictor.left \ {m} /\ evictor'.model = m
        /\ evictor'.readAt = evictor.readAt /\ evictor'.busyAt = evictor.busyAt
    BY <1>0, <2>1 DEF PassOK, IsEvictor
  <2>3. p # "started"
    OBVIOUS
  <2> HIDE DEF p
  <2>4. PassOK(evictor', tick)
    BY <1>0, <2>1, <2>2, <2>3 DEF PassOK, LongUnused
  <2> QED BY <1>0, <1>r, <2>1, <2>4, ViewQuiet
<1>15. CASE EvictNotify
  <2>1. /\ UNCHANGED <<tick, uplink, view, lastBusy, dropped, loader>> /\ shown' = Rendered(view)
        /\ evictor' = [evictor EXCEPT !.pc = "picking"]
    BY <1>15 DEF EvictNotify
  <2>2. PassOK(evictor', tick)
    BY <1>0, <2>1, PassGoesOn DEF Unloading
  <2>3. TakesOnlyUnused'
    BY <2>1, <2>2 DEF ViewIInv, TakesOnlyUnused, PassOK, Unloading, LongUnused
  <2> QED BY <1>0, <1>r, <2>1, <2>2, <2>3 DEF ViewIInv, IdleIsIdle, TabShowsLoaded, Loaded, Rendered
<1> QED BY <1>1, <1>2, <1>3, <1>4, <1>5, <1>6, <1>7, <1>8, <1>9, <1>10, <1>11, <1>12, <1>13, <1>14, <1>15 DEF ViewNext

\* The inductive invariant of the server's view of a worker.
THEOREM ViewInvariant == ViewSpec => []ViewIInv
BY ViewInvInit, ViewInvNext, PTL DEF ViewSpec

\* The Scheduler tab shows the loaded set of the worker's entry whenever no load is
\* between its stamp and its notification, whatever heartbeats, loads and evictions
\* interleave.
THEOREM TabIsCurrent == ViewSpec => []TabShowsLoaded
<1>1. ViewIInv => TabShowsLoaded
  BY DEF ViewIInv
<1>2. QED
  BY <1>1, ViewInvariant, PTL

\* Every model evictIdleOnce unloads had not been reported busy for a whole TTL when
\* the pass copied the loaded list, however long ago that is and whatever happened
\* since; and maybeReconcile never asks for a path that shares a file with a loaded
\* model.
THEOREM UnusedIsTaken == ViewSpec => []TakesOnlyUnused
<1>1. ViewIInv => TakesOnlyUnused
  BY DEF ViewIInv
<1>2. QED
  BY <1>1, ViewInvariant, PTL

-----------------------------------------------------------------------------
(***************************************************************************)
(* Enrolment and Whitelist.  A handler of Connect checks a credential in   *)
(* one step and uses the result in a later one, while tokens expire and    *)
(* ids are revoked.  The inductive invariants say what a handler knows     *)
(* from the check on, and why later expiry and revocation cannot make it   *)
(* false: what was worthless when the stream opened is worthless for ever, *)
(* and a revoked id is never handed out again.                             *)
(***************************************************************************)

(* The admission of a worker.                                              *)

Credentials == JoinTokens \cup WorkerIds
ConnRec == [pc : ConnStates, valid : BOOLEAN, bearer : Credentials \cup {Nobody},
            pid : WorkerIds \cup {Nobody}, id : WorkerIds \cup {Nobody}, dead : SUBSET Credentials]

\* The tables: the live part of the tokens ever minted, the ids that were
\* assigned and not revoked.
TablesOK ==
  /\ clock \in 0..MaxTime /\ noAuth \in BOOLEAN
  /\ DOMAIN minted \subseteq JoinTokens /\ \A t \in DOMAIN minted : minted[t] \in Nat
  /\ DOMAIN tokenRows \subseteq DOMAIN minted
  /\ \A t \in DOMAIN tokenRows : tokenRows[t] = minted[t]
  /\ \A t \in DOMAIN minted : minted[t] > clock => t \in DOMAIN tokenRows
  /\ credRows \subseteq known /\ known \subseteq WorkerIds
  /\ revoked \subseteq known /\ revoked \cap credRows = {}

Expired == {t \in DOMAIN minted : minted[t] <= clock}

\* What the handler of a stream knows at each of its positions.
HandlerKnows(k) ==
  /\ k.pc \notin {"new", "rejected"} => k.valid
  /\ k.dead \subseteq revoked \cup Expired
  /\ k.pc \in {"new", "join", "secret", "enroll"} => k.id = Nobody
  /\ k.pc \in {"join", "enroll", "welcome"} => k.pid = Nobody
  /\ k.pc = "secret" => k.pid # Nobody
  /\ k.pc \in {"welcome", "register", "serving"} => k.id \in known \ k.dead
  /\ k.pc \in {"enroll", "welcome", "register", "serving"} /\ k.pid = Nobody /\ ~noAuth =>
       k.bearer \in DOMAIN minted \ k.dead

\* Every stored credential was handed out to a stream with a valid registration.
RowsEarned == \A w \in credRows : \E c \in Conns : conn[c].id = w /\ conn[c].pid = Nobody /\ conn[c].valid

\* The inductive invariant of the admission.
EnrolIInv ==
  /\ TablesOK
  /\ conn \in [Conns -> ConnRec] /\ fleet \in [WorkerIds -> Conns \cup {Nobody}]
  /\ \A c \in Conns : HandlerKnows(conn[c])
  /\ RowsEarned /\ OneStreamPerWorker

\* What pruning the expired rows leaves.
LEMMA UnexpiredRows ==
  ASSUME NEW rows
  PROVE  /\ DOMAIN Unexpired(rows) = {t \in DOMAIN rows : rows[t] > clock}
         /\ \A t \in DOMAIN Unexpired(rows) : Unexpired(rows)[t] = rows[t]
BY DEF Unexpired, Restrict

\* A step that touches no handler and no entry of the fleet, and takes nothing
\* from what was ever minted, assigned, expired or revoked.
LEMMA OperatorStep ==
  ASSUME EnrolIInv, TablesOK', UNCHANGED <<noAuth, conn, fleet>>,
         revoked \subseteq revoked', known \subseteq known', Expired \subseteq Expired',
         DOMAIN minted \subseteq DOMAIN minted', credRows' \subseteq credRows
  PROVE  EnrolIInv'
<1> USE DEF EnrolIInv
<1>1. \A c \in Conns : HandlerKnows(conn[c])'
  BY DEF HandlerKnows
<1>2. RowsEarned' /\ OneStreamPerWorker'
  BY DEF RowsEarned, OneStreamPerWorker
<1>3. QED
  BY <1>1, <1>2

\* Minting keeps every live token: the prune drops only expired rows.
LEMMA MintStep ==
  ASSUME EnrolIInv, NEW t \in JoinTokens, MintJoinToken(t)
  PROVE  EnrolIInv'
<1>1. clock \in Nat /\ TokenTtl \in Nat /\ TokenTtl > 0 /\ clock + TokenTtl \in Nat
  BY EnrolAssumption DEF EnrolIInv, TablesOK
<1>2. /\ DOMAIN minted' = {t} \cup DOMAIN minted /\ t \notin DOMAIN minted
      /\ minted'[t] = clock + TokenTtl
      /\ \A x \in DOMAIN minted : minted'[x] = minted[x]
  BY DEF MintJoinToken, WithRow
<1>3. /\ DOMAIN tokenRows' = {t} \cup {x \in DOMAIN tokenRows : tokenRows[x] > clock}
      /\ tokenRows'[t] = clock + TokenTtl
      /\ \A x \in DOMAIN tokenRows : tokenRows[x] > clock /\ x # t => tokenRows'[x] = tokenRows[x]
  BY UnexpiredRows DEF MintJoinToken, InsertJoinToken, WithRow
<1>4. TablesOK'
  BY <1>1, <1>2, <1>3 DEF EnrolIInv, TablesOK, MintJoinToken
<1>5. Expired \subseteq Expired'
  BY <1>2 DEF Expired, MintJoinToken
<1>6. QED
  BY <1>2, <1>4, <1>5, OperatorStep DEF MintJoinToken

\* A revoked id leaves the table for good.
LEMMA RevokeStep ==
  ASSUME EnrolIInv, NEW w \in WorkerIds, RevokeWorker(w)
  PROVE  EnrolIInv'
<1>1. TablesOK'
  BY DEF EnrolIInv, TablesOK, RevokeWorker, DeleteWorker
<1>2. Expired' = Expired
  BY DEF Expired, RevokeWorker
<1>3. QED
  BY <1>1, <1>2, OperatorStep DEF RevokeWorker, DeleteWorker

\* Time only lets tokens expire.
LEMMA ElapseStep ==
  ASSUME EnrolIInv, Elapse
  PROVE  EnrolIInv'
<1>1. TablesOK'
  BY EnrolAssumption DEF EnrolIInv, TablesOK, Elapse
<1>2. Expired \subseteq Expired'
  BY DEF Expired, Elapse, EnrolIInv, TablesOK
<1>3. QED
  BY <1>1, <1>2, OperatorStep DEF Elapse

\* A handler's step that neither enters nor leaves the fleet, and stores no
\* credential: it is enough that the handler knows what its new position asks.
LEMMA ConnStep ==
  ASSUME EnrolIInv, TablesOK', NEW c \in Conns, NEW k \in ConnRec,
         conn' = [conn EXCEPT ![c] = k],
         UNCHANGED <<clock, noAuth, minted, known, revoked, credRows, fleet>>,
         HandlerKnows(k),
         conn[c].pc # "serving", k.pc # "serving",
         conn[c].id # Nobody => k.id = conn[c].id /\ k.pid = conn[c].pid /\ k.valid = conn[c].valid
  PROVE  EnrolIInv'
<1> USE NobodyAssumption DEF EnrolIInv
<1>1. conn' \in [Conns -> ConnRec] /\ conn'[c] = k /\ \A d \in Conns : d # c => conn'[d] = conn[d]
  OBVIOUS
<1>2. \A d \in Conns : HandlerKnows(conn[d])'
  BY <1>1 DEF HandlerKnows, Expired
<1>3. RowsEarned'
  <2> SUFFICES ASSUME NEW w \in credRows
               PROVE  \E d \in Conns : conn'[d].id = w /\ conn'[d].pid = Nobody /\ conn'[d].valid
    BY DEF RowsEarned
  <2>1. PICK d \in Conns : conn[d].id = w /\ conn[d].pid = Nobody /\ conn[d].valid
    BY DEF RowsEarned
  <2>2. w # Nobody
    BY DEF TablesOK
  <2>3. QED
    BY <1>1, <2>1, <2>2
<1>4. OneStreamPerWorker'
  BY <1>1 DEF OneStreamPerWorker, ConnRec
<1>5. QED
  BY <1>1, <1>2, <1>3, <1>4

\* A stream opens: what is worthless now is noted.
LEMMA OpenStep ==
  ASSUME EnrolIInv, NEW c \in Conns, NEW b \in Bearers, NEW p \in known \cup {Nobody}, NEW v \in BOOLEAN,
         OpenStream(c, b, p, v)
  PROVE  EnrolIInv'
<1> DEFINE k == [pc |-> IF ~v THEN "rejected" ELSE IF p = Nobody THEN "join" ELSE "secret",
                 valid |-> v, bearer |-> b, pid |-> p, id |-> Nobody, dead |-> revoked \cup Expired]
<1>1. TablesOK' /\ TablesOK /\ HandlerKnows(conn[c])
  BY DEF EnrolIInv, TablesOK, OpenStream
<1>2. conn' = [conn EXCEPT ![c] = k]
  BY DEF OpenStream, Expired
<1>3. k \in ConnRec
  BY <1>1 DEF ConnRec, ConnStates, TablesOK, Expired, Bearers, SecretOf, Credentials
<1>4. HandlerKnows(k)
  BY DEF HandlerKnows
<1>5. QED
  BY <1>1, <1>2, <1>3, <1>4, ConnStep, SMTT(30) DEF OpenStream, HandlerKnows

\* The secret of an id that is still in the table: the id was not revoked when
\* the stream opened.
LEMMA AuthSecretStep ==
  ASSUME EnrolIInv, NEW c \in Conns, AuthSecret(c)
  PROVE  EnrolIInv'
<1> DEFINE k == [conn[c] EXCEPT !.pc = "register", !.id = conn[c].pid]
           r == [conn[c] EXCEPT !.pc = "rejected"]
<1>1. TablesOK' /\ TablesOK /\ HandlerKnows(conn[c]) /\ conn[c] \in ConnRec /\ conn \in [Conns -> ConnRec]
  BY DEF EnrolIInv, TablesOK, AuthSecret
<1>2. CASE conn' = [conn EXCEPT ![c].pc = "rejected"]
  <2>1. conn' = [conn EXCEPT ![c] = r]
    BY <1>1, <1>2
  <2>2. r \in ConnRec
    BY <1>1 DEF ConnRec, ConnStates
  <2>3. HandlerKnows(r)
    BY <1>1 DEF HandlerKnows, ConnRec
  <2>4. QED
    BY <1>1, <2>1, <2>2, <2>3, ConnStep DEF AuthSecret, HandlerKnows, ConnRec
<1>3. CASE authenticateWorker(conn[c].pid, conn[c].bearer)
           /\ conn' = [conn EXCEPT ![c].pc = "register", ![c].id = conn[c].pid]
  <2>1. conn' = [conn EXCEPT ![c] = k]
    BY <1>1, <1>3
  <2>2. k \in ConnRec
    BY <1>1 DEF ConnRec, ConnStates
  <2>3. conn[c].pid \in credRows /\ conn[c].pid \notin conn[c].dead
    BY <1>1, <1>3, EnrolAssumption DEF authenticateWorker, GetWorker, HandlerKnows, TablesOK, Expired
  <2>4. HandlerKnows(k)
    BY <1>1, <2>3 DEF HandlerKnows, ConnRec, TablesOK, AuthSecret
  <2>5. QED
    <3>1. conn[c].id = Nobody /\ conn[c].pc # "serving" /\ k.pc # "serving"
      BY <1>1 DEF AuthSecret, HandlerKnows, ConnRec
    <3>2. QED
      BY <1>1, <2>1, <2>2, <2>4, <3>1, ConnStep DEF AuthSecret
<1>4. QED
  BY <1>2, <1>3 DEF AuthSecret, ConnGoto

\* A token found after the prune is live now, so it was live when the stream
\* opened.
LEMMA JoinStep ==
  ASSUME EnrolIInv, NEW c \in Conns, validateJoinToken(c)
  PROVE  EnrolIInv'
<1> DEFINE k(pc) == [conn[c] EXCEPT !.pc = pc]
<1>1. TablesOK /\ HandlerKnows(conn[c]) /\ conn[c] \in ConnRec /\ conn \in [Conns -> ConnRec]
  BY DEF EnrolIInv
<1>2. tokenRows' = tokenRows \/ tokenRows' = Unexpired(tokenRows)
  BY DEF validateJoinToken
<1>3. TablesOK'
  <2>1. CASE tokenRows' = Unexpired(tokenRows)
    <3>1. /\ DOMAIN tokenRows' = {t \in DOMAIN tokenRows : tokenRows[t] > clock}
          /\ \A t \in DOMAIN tokenRows' : tokenRows'[t] = tokenRows[t]
      BY <2>1, UnexpiredRows
    <3>2. QED
      BY <1>1, <3>1 DEF TablesOK, validateJoinToken
  <2>2. CASE tokenRows' = tokenRows
    BY <1>1, <2>2 DEF TablesOK, validateJoinToken
  <2>3. QED
    BY <1>2, <2>1, <2>2
<1>4. PICK pc \in {"enroll", "rejected"} :
        /\ conn' = [conn EXCEPT ![c].pc = pc]
        /\ pc = "enroll" /\ ~noAuth => conn[c].bearer \in DOMAIN Unexpired(tokenRows)
  BY DEF validateJoinToken, ConnGoto
<1>5. conn' = [conn EXCEPT ![c] = k(pc)]
  BY <1>1, <1>4
<1>6. k(pc) \in ConnRec
  BY <1>1 DEF ConnRec, ConnStates
<1>7. pc = "enroll" /\ ~noAuth => conn[c].bearer \in DOMAIN minted \ conn[c].dead
  <2> SUFFICES ASSUME pc = "enroll", ~noAuth
               PROVE  conn[c].bearer \in DOMAIN minted \ conn[c].dead
    OBVIOUS
  <2>1. conn[c].bearer \in DOMAIN tokenRows /\ tokenRows[conn[c].bearer] > clock
    BY <1>4, UnexpiredRows
  <2>2. conn[c].bearer \in DOMAIN minted /\ minted[conn[c].bearer] > clock
    BY <1>1, <2>1 DEF TablesOK
  <2>3. conn[c].bearer \notin revoked \cup Expired
    BY <1>1, <2>2, EnrolAssumption DEF TablesOK, Expired
  <2>4. QED
    BY <1>1, <2>2, <2>3 DEF HandlerKnows
<1>8. HandlerKnows(k(pc))
  BY <1>1, <1>7 DEF HandlerKnows, ConnRec, validateJoinToken
<1>9. QED
  BY <1>1, <1>3, <1>5, <1>6, <1>8, ConnStep, ZenonT(60) DEF validateJoinToken, HandlerKnows, ConnRec

\* A fresh id: it was never assigned, so it was never revoked, and the stream
\* that gets it is the witness of its row.
LEMMA EnrollStep ==
  ASSUME EnrolIInv, NEW c \in Conns, NEW w \in WorkerIds, Enroll(c, w)
  PROVE  EnrolIInv'
<1> USE NobodyAssumption DEF EnrolIInv, Enroll, InsertWorker
<1>1. TablesOK'
  BY DEF TablesOK
<1>2. /\ conn' \in [Conns -> ConnRec] /\ \A d \in Conns : d # c => conn'[d] = conn[d]
      /\ conn'[c] = [conn[c] EXCEPT !.pc = "welcome", !.id = w]
  <2>1. conn[c] \in ConnRec
    OBVIOUS
  <2>2. [conn[c] EXCEPT !.pc = "welcome", !.id = w] \in ConnRec
    BY <2>1 DEF ConnRec, ConnStates
  <2>3. conn' = [conn EXCEPT ![c] = [conn[c] EXCEPT !.pc = "welcome", !.id = w]]
    BY <2>1
  <2>4. QED
    BY <2>2, <2>3
<1>3. w \notin conn[c].dead
  BY EnrolAssumption DEF HandlerKnows, TablesOK, Expired
<1>4. \A d \in Conns : HandlerKnows(conn[d])'
  <2>1. HandlerKnows(conn[c]) /\ conn[c] \in ConnRec
    OBVIOUS
  <2>2. HandlerKnows(conn[c])'
    BY <1>2, <1>3, <2>1 DEF HandlerKnows, ConnRec, Expired
  <2>3. QED
    BY <1>2, <2>2 DEF HandlerKnows, Expired
<1>5. RowsEarned'
  <2>1. conn'[c].id = w /\ conn'[c].pid = Nobody /\ conn'[c].valid
    BY <1>2 DEF HandlerKnows, ConnRec
  <2>2. conn[c].id = Nobody
    BY DEF HandlerKnows
  <2>3. \A x \in credRows : x # Nobody
    BY DEF TablesOK
  <2>4. QED
    BY <1>2, <2>1, <2>2, <2>3 DEF RowsEarned
<1>6. OneStreamPerWorker'
  BY <1>2 DEF OneStreamPerWorker, ConnRec
<1>7. QED
  BY <1>1, <1>2, <1>4, <1>5, <1>6

\* WorkerEnrolled is sent, or the handler gives up.
LEMMA SendEnrolledStep ==
  ASSUME EnrolIInv, NEW c \in Conns, SendEnrolled(c)
  PROVE  EnrolIInv'
<1> DEFINE k(pc) == [conn[c] EXCEPT !.pc = pc]
<1>1. TablesOK /\ TablesOK' /\ HandlerKnows(conn[c]) /\ conn[c] \in ConnRec /\ conn \in [Conns -> ConnRec]
  BY DEF EnrolIInv, TablesOK, SendEnrolled
<1>2. PICK pc \in {"register", "rejected"} : conn' = [conn EXCEPT ![c].pc = pc]
  BY DEF SendEnrolled, ConnGoto
<1>3. conn' = [conn EXCEPT ![c] = k(pc)]
  BY <1>1, <1>2
<1>4. k(pc) \in ConnRec
  BY <1>1 DEF ConnRec, ConnStates
<1>5. HandlerKnows(k(pc))
  BY <1>1 DEF HandlerKnows, ConnRec, SendEnrolled
<1>6. QED
  BY <1>1, <1>3, <1>4, <1>5, ConnStep, ZenonT(60) DEF SendEnrolled, HandlerKnows, ConnRec

\* Register and Deregister: the entry of an id is the stream that serves it, so
\* the removal by id takes away the stream's own entry.
LEMMA FleetStep ==
  ASSUME EnrolIInv, NEW c \in Conns, FleetRegister(c) \/ FleetDeregister(c)
  PROVE  EnrolIInv'
<1> USE NobodyAssumption DEF EnrolIInv, FleetRegister, FleetDeregister, ConnGoto
<1>1. TablesOK'
  BY DEF TablesOK
<1>2. PICK pc \in {"serving", "rejected", "ended"} : conn' = [conn EXCEPT ![c].pc = pc]
  OBVIOUS
<1>3. /\ conn' \in [Conns -> ConnRec] /\ \A d \in Conns : d # c => conn'[d] = conn[d]
      /\ conn'[c] = [conn[c] EXCEPT !.pc = pc]
  BY <1>2, SMTT(30) DEF ConnRec, ConnStates
<1>4. conn[c].id \in WorkerIds /\ conn[c] \in ConnRec
  BY DEF HandlerKnows, TablesOK
<1>5. \A d \in Conns : HandlerKnows(conn[d])'
  BY <1>3, <1>4 DEF HandlerKnows, ConnRec, Expired
<1>6. RowsEarned'
  BY <1>3, <1>4 DEF RowsEarned, ConnRec
<1>7. OneStreamPerWorker' /\ fleet' \in [WorkerIds -> Conns \cup {Nobody}]
  <2>1. CASE FleetRegister(c) /\ fleet[conn[c].id] = Nobody
    <3>1. conn'[c].pc = "serving" /\ conn'[c].id = conn[c].id /\ fleet' = [fleet EXCEPT ![conn[c].id] = c]
      BY <1>4, <2>1 DEF ConnRec
    <3>2. \A d \in Conns : conn[d].pc = "serving" => d # c /\ conn[d].id # conn[c].id
      BY <2>1 DEF OneStreamPerWorker
    <3>3. \A v \in WorkerIds : fleet[v] # Nobody => v # conn[c].id /\ fleet[v] # c
      BY <2>1 DEF OneStreamPerWorker
    <3>4. \A d \in Conns : conn'[d].pc = "serving" => fleet'[conn'[d].id] = d
      <4>1. \A d \in Conns : conn[d].pc = "serving" => conn[d].id \in WorkerIds
        BY DEF HandlerKnows, TablesOK
      <4>2. fleet'[conn'[c].id] = c
        BY <1>4, <3>1
      <4>3. \A d \in Conns : d # c /\ conn[d].pc = "serving" => fleet'[conn[d].id] = d
        BY <3>1, <3>2, <4>1 DEF OneStreamPerWorker
      <4>4. QED
        BY ONLY <1>3, <4>2, <4>3
    <3>5. \A v \in WorkerIds : fleet'[v] # Nobody => conn'[fleet'[v]].pc = "serving" /\ conn'[fleet'[v]].id = v
      <4>1. fleet'[conn[c].id] = c /\ \A v \in WorkerIds : v # conn[c].id => fleet'[v] = fleet[v]
        BY <1>4, <3>1
      <4>2. \A v \in WorkerIds : v # conn[c].id /\ fleet[v] # Nobody =>
              /\ fleet[v] \in Conns /\ fleet[v] # c
              /\ conn'[fleet[v]].pc = "serving" /\ conn'[fleet[v]].id = v
        BY <1>3, <3>3 DEF OneStreamPerWorker
      <4>3. QED
        BY ONLY <3>1, <4>1, <4>2
    <3>6. QED
      BY <1>4, <3>1, <3>4, <3>5 DEF OneStreamPerWorker
  <2>4. CASE FleetRegister(c) /\ fleet[conn[c].id] # Nobody
    BY <1>3, <1>4, <2>4 DEF OneStreamPerWorker, ConnRec
  <2>2. CASE FleetDeregister(c)
    BY <1>3, <1>4, <2>2 DEF OneStreamPerWorker, ConnRec
  <2>3. QED
    BY <2>1, <2>2, <2>4
<1>8. QED
  BY <1>1, <1>3, <1>5, <1>6, <1>7

\* The inductive invariant of the admission (hub.go, enroll.go, fleet.go).
THEOREM EnrolInvariant == EnrolSpec => []EnrolIInv
<1>1. EnrolInit => EnrolIInv
  <2> SUFFICES ASSUME EnrolInit PROVE EnrolIInv
    OBVIOUS
  <2> USE NobodyAssumption DEF EnrolInit, Closed
  <2>1. TablesOK
    BY EnrolAssumption DEF TablesOK
  <2>2. conn \in [Conns -> ConnRec] /\ fleet \in [WorkerIds -> Conns \cup {Nobody}]
    BY DEF ConnRec, ConnStates
  <2>3. \A c \in Conns : HandlerKnows(conn[c])
    BY DEF HandlerKnows
  <2>4. RowsEarned /\ OneStreamPerWorker
    BY DEF RowsEarned, OneStreamPerWorker
  <2>5. QED
    BY <2>1, <2>2, <2>3, <2>4 DEF EnrolIInv
<1>2. EnrolIInv /\ [EnrolNext]_enrolVars => EnrolIInv'
  <2> SUFFICES ASSUME EnrolIInv, [EnrolNext]_enrolVars PROVE EnrolIInv'
    OBVIOUS
  <2>1. CASE Elapse
    BY <2>1, ElapseStep
  <2>2. ASSUME NEW t \in JoinTokens, MintJoinToken(t) PROVE EnrolIInv'
    BY <2>2, MintStep
  <2>3. ASSUME NEW w \in WorkerIds, RevokeWorker(w) PROVE EnrolIInv'
    BY <2>3, RevokeStep
  <2>4. ASSUME NEW c \in Conns, NEW b \in Bearers, NEW p \in known \cup {Nobody}, NEW v \in BOOLEAN,
               OpenStream(c, b, p, v)
        PROVE  EnrolIInv'
    BY <2>4, OpenStep
  <2>5. ASSUME NEW c \in Conns, AuthSecret(c) PROVE EnrolIInv'
    BY <2>5, AuthSecretStep
  <2>6. ASSUME NEW c \in Conns, validateJoinToken(c) PROVE EnrolIInv'
    BY <2>6, JoinStep
  <2>7. ASSUME NEW c \in Conns, SendEnrolled(c) PROVE EnrolIInv'
    BY <2>7, SendEnrolledStep
  <2>8. ASSUME NEW c \in Conns, FleetRegister(c) \/ FleetDeregister(c) PROVE EnrolIInv'
    BY <2>8, FleetStep
  <2>9. ASSUME NEW c \in Conns, NEW w \in WorkerIds, Enroll(c, w) PROVE EnrolIInv'
    BY <2>9, EnrollStep
  <2>10. CASE UNCHANGED enrolVars
    BY <2>10 DEF enrolVars, EnrolIInv, TablesOK, HandlerKnows, Expired, RowsEarned, OneStreamPerWorker
  <2>11. QED
    BY <2>1, <2>2, <2>3, <2>4, <2>5, <2>6, <2>7, <2>8, <2>9, <2>10 DEF EnrolNext
<1>3. QED
  BY <1>1, <1>2, PTL DEF EnrolSpec

\* One stream serves a worker id, and the fleet's entry is that stream, also
\* after an old stream's deferred Deregister.
THEOREM OneStream == EnrolSpec => []OneStreamPerWorker
<1>1. EnrolIInv => OneStreamPerWorker
  BY DEF EnrolIInv
<1>2. QED
  BY <1>1, EnrolInvariant, PTL

\* Nobody serves on a credential that was worthless when its stream opened, no
\* live join token is pruned, and no rejected registration leaves a row.
THEOREM Admitted == EnrolSpec => []AdmissionJustified
<1>1. EnrolIInv => AdmissionJustified
  BY DEF EnrolIInv, AdmissionJustified, TablesOK, HandlerKnows, RowsEarned
<1>2. QED
  BY <1>1, EnrolInvariant, PTL

-----------------------------------------------------------------------------
(* The device whitelist.                                                   *)

Intent == {d \in Devices : devRows[d] # "off"}
Locked == {"persist", "read", "push", "release"}
SetRec == [all : BOOLEAN, ids : SUBSET Devices]

WlTypes ==
  /\ WlTypeOK
  /\ resync \in [pc : {"read", "push", "done"}, set : SetRec]
  /\ toggler \in [Togglers -> [pc : Locked \cup {"idle", "done"}, to : Nat, set : SetRec]]
  /\ raced \in BOOLEAN

\* The re-estimation lock: one toggle at a time.
LockOK ==
  /\ reLock <=> toggling
  /\ \A t, u \in Togglers : toggler[t].pc \in Locked /\ toggler[u].pc \in Locked => t = u

\* On a stream whose resync met no toggle, the resync and the toggles take
\* turns, and whoever is about to push has the persisted intent in hand.
TurnsOK == connected /\ ~raced =>
  /\ resync.pc # "done" => ~toggling
  /\ resync.pc = "push" => Effective(resync.set) = Intent
  /\ resync.pc = "done" /\ ~toggling => Effective(held) = Intent
  /\ \A t \in Togglers :
       /\ toggler[t].pc \in Locked => toggler[t].to = streamNo
       /\ toggler[t].pc = "push" => Effective(toggler[t].set) = Intent
       /\ toggler[t].pc = "release" => Effective(held) = Intent

WlIInv == WlTypes /\ LockOK /\ TurnsOK /\ (resync.pc # "done" => connected)

\* The whitelist computed from the rows enables exactly what no row disables.
LEMMA ComputedIsIntent ==
  ASSUME devRows \in [Devices -> {"absent", "on", "off"}]
  PROVE  /\ ComputeEnabledDevices(devRows) \in SetRec
         /\ Effective(ComputeEnabledDevices(devRows)) = Intent
BY DEF ComputeEnabledDevices, Effective, Intent, SetRec, AllDevices

\* A stream number is odd, or even, and the next one is the other.
LEMMA Parity ==
  ASSUME NEW n \in Nat
  PROVE  (n + 1) % 2 = 1 <=> ~(n % 2 = 1)
OBVIOUS

\* The steps of a connection and of its resync.
LEMMA StreamStep ==
  ASSUME WlIInv, WlConnect \/ ResyncRead \/ ResyncPush \/ WlDisconnect
  PROVE  WlIInv'
<1> USE DEF WlIInv, WlTypes, WlTypeOK
<1>0. streamNo \in Nat
  BY WhitelistAssumption
<1>1. CASE WlConnect
  <2> USE <1>1 DEF WlConnect
  <2>1. connected' /\ ~connected /\ streamNo' \in 0..2 * MaxStreams
    BY <1>0, Parity, WhitelistAssumption DEF connected
  <2>2. WlTypes'
    BY <2>1 DEF AllDevices, SetRec, toggling
  <2>3. LockOK' /\ (toggling' <=> toggling)
    BY DEF LockOK, toggling
  <2>4. TurnsOK'
    BY <2>3 DEF TurnsOK, toggling, Locked
  <2>5. QED
    BY <2>1, <2>2, <2>3, <2>4
<1>2. CASE ResyncRead
  <2> USE <1>2 DEF ResyncRead
  <2>1. WlTypes' /\ Effective(resync'.set) = Intent
    BY ComputedIsIntent DEF SetRec
  <2>2. LockOK' /\ (toggling' <=> toggling) /\ (connected' <=> connected)
    BY DEF LockOK, toggling, connected
  <2>3. TurnsOK'
    BY <2>1, <2>2 DEF TurnsOK, Intent
  <2>4. QED
    BY <2>1, <2>2, <2>3
<1>3. CASE ResyncPush
  <2> USE <1>3 DEF ResyncPush
  <2>1. WlTypes'
    BY DEF SetRec
  <2>2. LockOK' /\ (toggling' <=> toggling) /\ (connected' <=> connected)
    BY DEF LockOK, toggling, connected
  <2>3. TurnsOK'
    BY <2>1, <2>2 DEF TurnsOK, Intent, toggling, Locked
  <2>4. QED
    BY <2>1, <2>2, <2>3
<1>4. CASE WlDisconnect
  <2> USE <1>4 DEF WlDisconnect
  <2>1. ~connected' /\ streamNo' \in 0..2 * MaxStreams
    <3>1. streamNo # 2 * MaxStreams
      BY WhitelistAssumption DEF connected
    <3>2. QED
      BY <1>0, <3>1, Parity, WhitelistAssumption DEF connected
  <2>2. WlTypes' /\ LockOK'
    BY <2>1 DEF LockOK, toggling
  <2>3. QED
    BY <2>1, <2>2 DEF TurnsOK
<1>5. QED
  BY <1>1, <1>2, <1>3, <1>4

\* The steps of an operator's request.  It holds the lock from its first step,
\* so the rows it reads back are the ones it pushes.
LEMMA ToggleStep ==
  ASSUME WlIInv, NEW t \in Togglers,
         ToggleBegin(t) \/ TogglePersist(t) \/ ToggleRead(t) \/ TogglePush(t) \/ ToggleRelease(t)
  PROVE  WlIInv'
<1> USE DEF WlIInv, WlTypes, WlTypeOK
<1>0. streamNo \in Nat /\ AllDevices \in SetRec
  BY WhitelistAssumption DEF AllDevices, SetRec
<1>1. CASE ToggleBegin(t)
  <2> USE <1>1 DEF ToggleBegin, TryReestimateLock
  <2>1. WlTypes'
    BY <1>0 DEF Locked
  <2>2. ~toggling /\ toggling'
    BY DEF LockOK, toggling
  <2>3. \A u \in Togglers : u # t => toggler'[u] = toggler[u] /\ toggler[u].pc \notin Locked
    BY <2>2 DEF toggling, Locked
  <2>4. toggler'[t].pc = "persist" /\ toggler'[t].to = streamNo
    OBVIOUS
  <2>5. LockOK'
    BY <2>2, <2>3 DEF LockOK
  <2>6. TurnsOK'
    BY <2>2, <2>3, <2>4 DEF TurnsOK, connected, Locked
  <2>7. QED
    BY <2>1, <2>5, <2>6 DEF connected
<1>2. CASE TogglePersist(t)
  <2> USE <1>2 DEF TogglePersist
  <2>1. devRows' \in [Devices -> {"absent", "on", "off"}]
    BY DEF SetWorkerDeviceEnabled, SetWorkerDevicesEnabledBulk
  <2>2. WlTypes'
    BY <2>1 DEF Locked
  <2>3. toggling /\ toggling'
    BY DEF toggling
  <2>4. \A u \in Togglers : u # t => toggler'[u] = toggler[u] /\ toggler[u].pc \notin Locked
    BY DEF LockOK, Locked
  <2>5. LockOK'
    BY <2>3, <2>4 DEF LockOK
  <2>6. toggler'[t].pc = "read" /\ toggler'[t].to = toggler[t].to
    OBVIOUS
  <2>7. TurnsOK'
    BY <2>3, <2>4, <2>6 DEF TurnsOK, connected, Locked
  <2>8. QED
    BY <2>2, <2>5, <2>7 DEF connected
<1>3. CASE ToggleRead(t)
  <2> USE <1>3 DEF ToggleRead
  <2>1. /\ toggler'[t].pc = "push" /\ toggler'[t].to = toggler[t].to
        /\ toggler'[t].set = ComputeEnabledDevices(devRows)
    OBVIOUS
  <2>2. WlTypes'
    BY ComputedIsIntent, ZenonT(60) DEF Locked
  <2>3. toggling /\ toggling'
    BY DEF toggling
  <2>4. \A u \in Togglers : u # t => toggler'[u] = toggler[u] /\ toggler[u].pc \notin Locked
    BY DEF LockOK, Locked
  <2>5. LockOK'
    BY <2>3, <2>4 DEF LockOK
  <2>6. TurnsOK'
    BY <2>1, <2>3, <2>4, ComputedIsIntent DEF TurnsOK, connected, Locked, Intent
  <2>7. QED
    BY <2>2, <2>5, <2>6 DEF connected
<1>4. CASE TogglePush(t)
  <2> USE <1>4 DEF TogglePush
  <2>1. toggler'[t].pc = "release" /\ toggler'[t].to = toggler[t].to
    OBVIOUS
  <2>2. WlTypes'
    BY DEF Locked, SetRec
  <2>3. toggling /\ toggling'
    BY DEF toggling
  <2>4. \A u \in Togglers : u # t => toggler'[u] = toggler[u] /\ toggler[u].pc \notin Locked
    BY DEF LockOK, Locked
  <2>5. LockOK'
    BY <2>3, <2>4 DEF LockOK
  <2>6. TurnsOK'
    BY <2>1, <2>3, <2>4 DEF TurnsOK, connected, Locked, Intent
  <2>7. QED
    BY <2>2, <2>5, <2>6 DEF connected
<1>5. CASE ToggleRelease(t)
  <2> USE <1>5 DEF ToggleRelease
  <2>1. toggler'[t].pc = "done"
    OBVIOUS
  <2>2. WlTypes'
    OBVIOUS
  <2>3. \A u \in Togglers : u # t => toggler'[u] = toggler[u] /\ toggler[u].pc \notin Locked
    BY DEF LockOK, Locked
  <2>4. toggling /\ ~toggling'
    BY <2>1, <2>3 DEF toggling, Locked
  <2>5. LockOK'
    BY <2>1, <2>3, <2>4 DEF LockOK, Locked
  <2>6. TurnsOK'
    BY <2>1, <2>3, <2>4 DEF TurnsOK, connected, Locked, Intent
  <2>7. QED
    BY <2>2, <2>5, <2>6 DEF connected
<1>6. QED
  BY <1>1, <1>2, <1>3, <1>4, <1>5

\* The inductive invariant of the toggles and the resync (workerops.go, hub.go).
THEOREM WlInvariant == WlSpec => []WlIInv
<1>1. WlInit => WlIInv
  <2> SUFFICES ASSUME WlInit PROVE WlIInv
    OBVIOUS
  <2> USE DEF WlInit
  <2>1. WlTypes
    <3>1. 0 \in 0..2 * MaxStreams /\ AllDevices \in SetRec
      BY WhitelistAssumption DEF AllDevices, SetRec
    <3>2. toggler \in [Togglers -> [pc : Locked \cup {"idle", "done"}, to : Nat, set : SetRec]]
      BY <3>1
    <3>3. resync \in [pc : {"read", "push", "done"}, set : SetRec]
      BY <3>1
    <3>4. QED
      BY <3>1, <3>2, <3>3 DEF WlTypes, WlTypeOK, SetRec
  <2>2. ~connected /\ ~toggling /\ LockOK
    BY DEF connected, toggling, LockOK, Locked
  <2>3. QED
    BY <2>1, <2>2 DEF WlIInv, TurnsOK
<1>2. WlIInv /\ [WlNext]_wlVars => WlIInv'
  <2> SUFFICES ASSUME WlIInv, [WlNext]_wlVars PROVE WlIInv'
    OBVIOUS
  <2>1. CASE WlConnect \/ ResyncRead \/ ResyncPush \/ WlDisconnect
    BY <2>1, StreamStep
  <2>2. ASSUME NEW t \in Togglers,
               ToggleBegin(t) \/ TogglePersist(t) \/ ToggleRead(t) \/ TogglePush(t) \/ ToggleRelease(t)
        PROVE  WlIInv'
    BY <2>2, ToggleStep
  <2>3. CASE UNCHANGED wlVars
    BY <2>3 DEF wlVars, WlIInv, WlTypes, WlTypeOK, LockOK, TurnsOK, toggling, connected, Intent
  <2>4. QED
    BY <2>1, <2>2, <2>3 DEF WlNext
<1>3. QED
  BY <1>1, <1>2, PTL DEF WlSpec

\* Once the resync of a stream and the toggles are through, the worker applies
\* the operator's persisted intent, if no toggle met the resync.
THEOREM IntentReachesWorker == WlSpec => []WhitelistSettles
<1>1. WlIInv => WhitelistSettles
  BY DEF WlIInv, TurnsOK, WhitelistSettles, Intent
<1>2. QED
  BY <1>1, WlInvariant, PTL
=============================================================================
