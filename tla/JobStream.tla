------------------------------ MODULE JobStream ------------------------------
(***************************************************************************)
(* The replay buffer of one job (internal/scheduler/stream_buffer.go) with *)
(* everything that writes to it or takes it away: the dispatcher's pump,   *)
(* the cancellation of a queued row, the disconnect drain that gives a job *)
(* up, and the sweep that reaps buffers; and the StreamChunks consumers    *)
(* attached to it, each a goroutine of its own.                            *)
(*                                                                         *)
(* A chunk's payload is abstracted to its kind and its size; chunks is the *)
(* ring, indexed by the chunks' own sequence numbers.                      *)
(***************************************************************************)
EXTENDS Integers, Sequences, Functions

CONSTANTS
  Consumers,  \* the StreamChunks calls
  Sizes,      \* the sizes a chunk can have
  Cap,        \* streamBufferMaxBytes
  OutCap,     \* capacity of a consumer's channel
  MaxSeq      \* bound: data chunks appended in one behaviour

ASSUME SizesAssumption == Sizes \subseteq Nat
ASSUME CapAssumption == Cap \in Nat
ASSUME BoundAssumption == OutCap \in Nat \ {0} /\ MaxSeq \in Nat

VARIABLES
  \* --- jobBuffer
  chunks,      \* the retained chunks: sequence number -> [kind, size]
  bytes,       \* jobBuffer.bytes
  nextSeq,     \* jobBuffer.nextSeq
  floor,       \* jobBuffer.floor
  terminal,    \* jobBuffer.terminal
  notify,      \* identity of the current notify channel
  closing,     \* replaced notify channels that Append has yet to close
  \* --- the scheduler around it
  registered,  \* the buffer is in Scheduler.jobBuffers
  result,      \* the durable result: "open" or "settled"
  phase,       \* what the job's own goroutine does
  reap,        \* what sweepReplayBuffers does to this buffer
  \* --- consumers (Attach / pump goroutines)
  pc, cursor, batch, sawTerminal, waitOn, unread, outcome,
  \* --- history, for the properties only
  history,     \* the kind of every chunk appended
  resume,      \* the resume_seq each consumer asked for
  sent         \* the sequence numbers put on each consumer's channel

bufVars  == <<chunks, bytes, nextSeq, floor, terminal, notify, closing, history>>
jobVars  == <<registered, result, phase, reap>>
consVars == <<pc, cursor, batch, sawTerminal, waitOn, unread, outcome, resume, sent>>
vars     == <<bufVars, jobVars, consVars>>

Kinds         == {"data", "completed", "error"}
TerminalKinds == {"completed", "error"}
Chunk         == [kind : Kinds, size : Sizes]

SizeOf(buf) == SumFunction([s \in DOMAIN buf |-> buf[s].size])

Init ==
  /\ chunks = [s \in {} |-> [kind |-> "data", size |-> 0]]
  /\ bytes = 0 /\ nextSeq = 0 /\ floor = 0 /\ terminal = FALSE
  /\ notify = 0 /\ closing = {} /\ history = <<>>
  /\ registered = TRUE /\ result = "open" /\ phase = "queued" /\ reap = "idle"
  /\ pc = [c \in Consumers |-> "idle"]
  /\ cursor = [c \in Consumers |-> 0]
  /\ batch = [c \in Consumers |-> {}]
  /\ sawTerminal = [c \in Consumers |-> FALSE]
  /\ waitOn = [c \in Consumers |-> 0]
  /\ unread = [c \in Consumers |-> 0]
  /\ outcome = [c \in Consumers |-> "none"]
  /\ resume = [c \in Consumers |-> 0]
  /\ sent = [c \in Consumers |-> {}]

-----------------------------------------------------------------------------
(* The producer side of the buffer.                                        *)

\* Mutant of EnforceCap: the floor is the number of the last dropped chunk.
EnforceCapLowFloor(full, total, k) ==
  LET left(j) == total - SizeOf([s \in {t \in DOMAIN full : t < j} |-> full[s]])
  IN  /\ left(k) <= Cap \/ k = nextSeq + 1
      /\ \A j \in floor..(k - 1) : left(j) > Cap
      /\ chunks' = [s \in {t \in DOMAIN full : t >= k} |-> full[s]]
      /\ bytes' = left(k)
      /\ floor' = IF k = floor THEN floor ELSE k - 1

\* enforceCap: drop from the old end while the byte budget is exceeded; k is
\* the first sequence number that stays.
EnforceCap(full, total, k) ==
  LET left(j) == total - SizeOf([s \in {t \in DOMAIN full : t < j} |-> full[s]])
  IN  /\ left(k) <= Cap \/ k = nextSeq + 1
      /\ \A j \in floor..(k - 1) : left(j) > Cap
      /\ chunks' = [s \in {t \in DOMAIN full : t >= k} |-> full[s]]
      /\ bytes' = left(k)
      /\ floor' = k

\* Append: number the chunk, store it, enforce the cap, raise the terminal
\* flag, and replace the notify channel; the old channel is closed after the
\* lock is released (CloseNotify).
AppendChunk(kind, size) ==
  LET full == [s \in DOMAIN chunks \cup {nextSeq} |->
                 IF s = nextSeq THEN [kind |-> kind, size |-> size] ELSE chunks[s]]
  IN  /\ \E k \in floor..(nextSeq + 1) : EnforceCap(full, bytes + size, k)
      /\ nextSeq' = nextSeq + 1
      /\ terminal' = (terminal \/ kind \in TerminalKinds)
      /\ notify' = notify + 1
      /\ closing' = closing \cup {notify}
      /\ history' = Append(history, kind)

CloseNotify(n) ==
  /\ n \in closing
  /\ closing' = closing \ {n}
  /\ UNCHANGED <<chunks, bytes, nextSeq, floor, terminal, notify, history, jobVars, consVars>>

-----------------------------------------------------------------------------
(* The job's own path: dispatch, stream, finish; or be cancelled, requeued  *)
(* or given up.                                                            *)

\* dispatchEnvelope: the worker starts to stream into the registered buffer.  A
\* job whose buffer is gone leaves this buffer for good: its rows are dropped
\* when its result is settled, and otherwise it goes on with a fresh buffer
\* (ensureJobBuffer), which is another instance of this module.
Dispatch ==
  /\ phase = "queued"
  /\ phase' = IF registered THEN "running" ELSE "left"
  /\ UNCHANGED <<bufVars, registered, result, reap, consVars>>

\* pumpWorkerChunks, a non-terminal chunk.
PumpChunk ==
  /\ phase = "running"
  /\ nextSeq < MaxSeq
  /\ \E z \in Sizes : AppendChunk("data", z)
  /\ UNCHANGED <<jobVars, consVars>>

\* pumpWorkerChunks, the terminal chunk: completeResult / failResult first.
PumpStoreResult ==
  /\ phase = "running"
  /\ result' = "settled"
  /\ phase' = "stored"
  /\ UNCHANGED <<bufVars, registered, reap, consVars>>

\* ... then the terminal frame.
PumpTerminal ==
  /\ phase = "stored"
  /\ \E k \in TerminalKinds, z \in Sizes : AppendChunk(k, z)
  /\ phase' = "done"
  /\ UNCHANGED <<registered, result, reap, consVars>>

\* The worker goes away without a terminal frame: pumpWorkerChunks leaves the
\* job to drainWorkerQueue, which requeues it ...
Requeue ==
  /\ phase = "running"
  /\ phase' = "queued"
  /\ UNCHANGED <<bufVars, registered, result, reap, consVars>>

\* ... or, with its attempts spent, fails it; no frame is appended.
GiveUp ==
  /\ phase = "running"
  /\ result' = "settled"
  /\ phase' = "done"
  /\ UNCHANGED <<bufVars, registered, reap, consVars>>

\* cancelGlobal / cancelWorkerQueue on a queued row: failResult ...
CancelQueued ==
  /\ phase = "queued"
  /\ result' = "settled"
  /\ phase' = "cancelling"
  /\ UNCHANGED <<bufVars, registered, reap, consVars>>

\* ... then dropJob.
DropJob ==
  /\ phase = "cancelling"
  /\ registered' = FALSE
  /\ phase' = "cancelled"
  /\ UNCHANGED <<bufVars, result, reap, consVars>>

-----------------------------------------------------------------------------
(* sweepReplayBuffers.                                                      *)

\* A terminal buffer past its replay TTL leaves the map.
SweepTerminal ==
  /\ registered /\ terminal
  /\ registered' = FALSE
  /\ UNCHANGED <<bufVars, result, phase, reap, consVars>>

\* A buffer without a terminal frame past jobBufferMaxAge leaves the map ...
ReapUnregister ==
  /\ registered /\ ~terminal /\ reap = "idle"
  /\ registered' = FALSE
  /\ reap' = "fail"
  /\ UNCHANGED <<bufVars, result, phase, consVars>>

\* Mutant of ReapFail: the frame is published without failing the result.
ReapFailSkipped ==
  /\ reap = "fail"
  /\ reap' = "append"
  /\ UNCHANGED <<bufVars, registered, result, phase, consVars>>

\* ... its result is failed ...
ReapFail ==
  /\ reap = "fail"
  /\ result' = "settled"
  /\ reap' = "append"
  /\ UNCHANGED <<bufVars, registered, phase, consVars>>

\* ... and an error frame is appended for whoever is still attached.
ReapAppend ==
  /\ reap = "append"
  /\ \E z \in Sizes : AppendChunk("error", z)
  /\ reap' = "idle"
  /\ UNCHANGED <<registered, result, phase, consVars>>

-----------------------------------------------------------------------------
(* Consumers.                                                               *)

\* StreamChunks / Attach.
Attach(c, r) ==
  /\ registered
  /\ pc[c] = "idle"
  /\ pc' = [pc EXCEPT ![c] = "scan"]
  /\ cursor' = [cursor EXCEPT ![c] = r]
  /\ resume' = [resume EXCEPT ![c] = r]
  /\ UNCHANGED <<bufVars, jobVars, batch, sawTerminal, waitOn, unread, outcome, sent>>

\* pump, under the lock, with the cursor below the floor.
ScanGap(c) ==
  /\ pc[c] = "scan"
  /\ cursor[c] < floor
  /\ pc' = [pc EXCEPT ![c] = "gap"]
  /\ UNCHANGED <<bufVars, jobVars, cursor, batch, sawTerminal, waitOn, unread, outcome, resume, sent>>

\* Mutant of Scan: the cursor is not compared with the floor.
ScanAnywhere(c) ==
  /\ pc[c] = "scan"
  /\ batch' = [batch EXCEPT ![c] = {s \in DOMAIN chunks : s >= cursor[c]}]
  /\ sawTerminal' = [sawTerminal EXCEPT ![c] = terminal]
  /\ waitOn' = [waitOn EXCEPT ![c] = notify]
  /\ pc' = [pc EXCEPT ![c] = "send"]
  /\ UNCHANGED <<bufVars, jobVars, cursor, unread, outcome, resume, sent>>

\* pump, under the lock: copy what is at or after the cursor, and snapshot the
\* terminal flag and the notify channel.
Scan(c) ==
  /\ pc[c] = "scan"
  /\ cursor[c] >= floor
  /\ batch' = [batch EXCEPT ![c] = {s \in DOMAIN chunks : s >= cursor[c]}]
  /\ sawTerminal' = [sawTerminal EXCEPT ![c] = terminal]
  /\ waitOn' = [waitOn EXCEPT ![c] = notify]
  /\ pc' = [pc EXCEPT ![c] = "send"]
  /\ UNCHANGED <<bufVars, jobVars, cursor, unread, outcome, resume, sent>>

\* One send of the batch, oldest first.
Send(c) ==
  /\ pc[c] = "send"
  /\ unread[c] < OutCap
  /\ \E s \in batch[c] :
       /\ \A t \in batch[c] : s <= t
       /\ cursor' = [cursor EXCEPT ![c] = s + 1]
       /\ sent' = [sent EXCEPT ![c] = @ \cup {s}]
       /\ batch' = [batch EXCEPT ![c] = @ \ {s}]
  /\ unread' = [unread EXCEPT ![c] = @ + 1]
  /\ UNCHANGED <<bufVars, jobVars, pc, sawTerminal, waitOn, outcome, resume>>

Close(c, why) ==
  /\ pc' = [pc EXCEPT ![c] = "closed"]
  /\ outcome' = [outcome EXCEPT ![c] = why]
  /\ UNCHANGED <<bufVars, jobVars, cursor, batch, sawTerminal, waitOn, resume, sent>>

\* Mutant of EndOfStream: the terminal flag is read again, outside the snapshot.
EndOfStreamLiveFlag(c) ==
  /\ pc[c] = "send" /\ batch[c] = {} /\ terminal
  /\ Close(c, "ended")
  /\ UNCHANGED unread

\* The batch is out: return if the snapshot was terminal, else wait.
EndOfStream(c) ==
  /\ pc[c] = "send" /\ batch[c] = {} /\ sawTerminal[c]
  /\ Close(c, "ended")
  /\ UNCHANGED unread

\* Mutant of StartWait: the notify channel is taken when the wait starts, not
\* with the snapshot.
StartWaitFresh(c) ==
  /\ pc[c] = "send" /\ batch[c] = {} /\ ~sawTerminal[c]
  /\ pc' = [pc EXCEPT ![c] = "wait"]
  /\ waitOn' = [waitOn EXCEPT ![c] = notify]
  /\ UNCHANGED <<bufVars, jobVars, cursor, batch, sawTerminal, unread, outcome, resume, sent>>

StartWait(c) ==
  /\ pc[c] = "send" /\ batch[c] = {} /\ ~sawTerminal[c]
  /\ pc' = [pc EXCEPT ![c] = "wait"]
  /\ UNCHANGED <<bufVars, jobVars, cursor, batch, sawTerminal, waitOn, unread, outcome, resume, sent>>

\* The captured notify channel is closed.
Wake(c) ==
  /\ pc[c] = "wait"
  /\ waitOn[c] # notify /\ waitOn[c] \notin closing
  /\ pc' = [pc EXCEPT ![c] = "scan"]
  /\ UNCHANGED <<bufVars, jobVars, cursor, batch, sawTerminal, waitOn, unread, outcome, resume, sent>>

\* The synthetic error chunk, then close.
SendGap(c) ==
  /\ pc[c] = "gap"
  /\ unread[c] < OutCap
  /\ Close(c, "gap")
  /\ unread' = [unread EXCEPT ![c] = @ + 1]

\* ctx.Done in any of pump's selects.
CtxDone(c) ==
  /\ pc[c] = "gap" \/ pc[c] = "wait" \/ (pc[c] = "send" /\ batch[c] # {})
  /\ Close(c, "cancelled")
  /\ UNCHANGED unread

\* The gateway reads its channel.
Receive(c) ==
  /\ unread[c] > 0
  /\ unread' = [unread EXCEPT ![c] = @ - 1]
  /\ UNCHANGED <<bufVars, jobVars, pc, cursor, batch, sawTerminal, waitOn, outcome, resume, sent>>

-----------------------------------------------------------------------------
Producer ==
  \/ Dispatch \/ PumpChunk \/ PumpStoreResult \/ PumpTerminal \/ Requeue \/ GiveUp
  \/ CancelQueued \/ DropJob
  \/ SweepTerminal \/ ReapUnregister \/ ReapFail \/ ReapAppend
  \/ \E n \in closing : CloseNotify(n)

Pump(c) ==
  ScanGap(c) \/ Scan(c) \/ Send(c) \/ EndOfStream(c) \/ StartWait(c) \/ Wake(c) \/ SendGap(c)

Next ==
  \/ Producer
  \/ \E c \in Consumers :
       Pump(c) \/ CtxDone(c) \/ Receive(c) \/ \E r \in 0..MaxSeq : Attach(c, r)

Spec == Init /\ [][Next]_vars

\* Goroutines that can run do run, an Append closes the channel it replaced,
\* a sweep that started finishes, and the age sweep comes around; nothing is
\* assumed about attaching, cancelling, or the job making progress.
Fairness ==
  /\ \A c \in Consumers : WF_vars(Pump(c)) /\ WF_vars(Receive(c))
  /\ WF_vars(\E n \in closing : CloseNotify(n))
  /\ WF_vars(PumpTerminal) /\ WF_vars(DropJob)
  /\ WF_vars(ReapUnregister) /\ WF_vars(ReapFail) /\ WF_vars(ReapAppend)

FairSpec == Spec /\ Fairness
-----------------------------------------------------------------------------
(* Properties.                                                              *)

Phases   == {"queued", "running", "stored", "done", "cancelling", "cancelled", "left"}
PCs      == {"idle", "scan", "gap", "send", "wait", "closed"}
Outcomes == {"none", "ended", "gap", "cancelled"}

\* Every variable has its type; a consumer never sends more than its channel
\* (Attach's make(chan, 16)) can hold.
TypeOK ==
  /\ DOMAIN chunks \subseteq Nat
  /\ \A s \in DOMAIN chunks : chunks[s] \in Chunk
  /\ nextSeq \in Nat /\ floor \in Nat /\ terminal \in BOOLEAN
  /\ notify \in Nat /\ closing \subseteq Nat /\ history \in Seq(Kinds)
  /\ registered \in BOOLEAN /\ result \in {"open", "settled"} /\ phase \in Phases
  /\ reap \in {"idle", "fail", "append"}
  /\ pc \in [Consumers -> PCs]
  /\ cursor \in [Consumers -> Nat] /\ resume \in [Consumers -> Nat]
  /\ batch \in [Consumers -> SUBSET Nat] /\ sent \in [Consumers -> SUBSET Nat]
  /\ sawTerminal \in [Consumers -> BOOLEAN] /\ waitOn \in [Consumers -> Nat]
  /\ unread \in [Consumers -> 0..OutCap] /\ outcome \in [Consumers -> Outcomes]

\* The ring (Append, enforceCap): what is retained is exactly the chunks from
\* floor up to the newest, whatever was dropped, and the running byte count is
\* theirs and within the cap.
RingExact ==
  /\ DOMAIN chunks = floor..(nextSeq - 1)
  /\ bytes = SizeOf(chunks)
  /\ bytes <= Cap

\* Attach: "instead of silently advancing past it".  Whatever is appended and
\* dropped while a consumer sends its batch, the chunks put on its channel are
\* all the chunks from its resume point to its cursor, without a hole.
GaplessDelivery ==
  \A c \in Consumers :
    /\ resume[c] <= cursor[c]
    /\ sent[c] = resume[c]..(cursor[c] - 1)

\* The producer invariant of jobBuffer: the durable result is stored before the
\* terminal frame is published, whoever publishes it (pump or age sweep), so a
\* consumer that closes on the frame reads a settled result.
ResultBeforeFrame ==
  \A c \in Consumers :
    (outcome[c] = "ended" \/ \E s \in sent[c] : history[s + 1] \in TerminalKinds)
      => result = "settled"

\* The buffer implements the log of ReplayLog: chunks are delivered in order
\* from the resume point, a gap is only reported for a chunk that exists and
\* was not delivered, and the stream ends only behind a terminal frame.
StreamState(c) ==
  CASE pc[c] = "idle"   -> "idle"
    [] pc[c] = "closed" -> outcome[c]
    [] OTHER            -> "live"

Log == INSTANCE ReplayLog WITH log <- history, pos <- cursor,
                               state <- [c \in Consumers |-> StreamState(c)]

ImplementsReplayLog == Log!Spec

Attached(c) == pc[c] \notin {"idle", "closed"}

\* No consumer pumps forever: once a terminal frame is in the buffer every
\* attached consumer closes (no wakeup is lost between the snapshot of notify
\* and the wait), and the age sweep supplies that frame for a job that never
\* ends on its own.  A cancelled queued job is left out: see CancelCloses.
AttachedCloses ==
  \A c \in Consumers : Attached(c) ~> (~Attached(c) \/ phase = "cancelled")

\* CancelQueuedRow: "writes an error result so any gateway waiting on the
\* request sees a clean terminal frame": the consumers attached to a cancelled
\* job close.
CancelCloses ==
  \A c \in Consumers : (Attached(c) /\ phase = "cancelled") ~> ~Attached(c)
=============================================================================
