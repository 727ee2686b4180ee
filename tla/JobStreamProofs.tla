--------------------------- MODULE JobStreamProofs ---------------------------
(***************************************************************************)
(* Proofs about JobStream, for any number of consumers, any chunk sizes,   *)
(* any cap and any number of chunks.                                       *)
(***************************************************************************)
EXTENDS JobStream, SumLemmas

\* The ring holds the chunks from floor to the newest, and the history has one
\* entry per number given out.
RingInv ==
  /\ floor <= nextSeq
  /\ DOMAIN chunks = floor..(nextSeq - 1)
  /\ Len(history) = nextSeq

\* A terminal frame is among the first n chunks of the log.
Ends(n) == \E i \in 1..n : history[i] \in TerminalKinds

\* What a consumer has yet to send of its batch continues at its cursor and
\* ends at the length the log had when it scanned; if its snapshot of the
\* terminal flag is set, a terminal frame lies below that.
BatchInv ==
  \A c \in Consumers :
    pc[c] = "send" =>
      \E top \in 0..nextSeq :
        /\ batch[c] = cursor[c]..(top - 1)
        /\ sawTerminal[c] => Ends(top)

\* Nothing is sent that was not appended, and a consumer about to report a gap
\* is behind the end of the log.
SentInv ==
  \A c \in Consumers :
    /\ sent[c] \subseteq 0..(nextSeq - 1)
    /\ pc[c] = "gap" => cursor[c] < nextSeq
    /\ pc[c] = "idle" => sent[c] = {}

\* Where a terminal frame is, or is about to be, the result is settled.
FrameInv ==
  /\ terminal => Ends(nextSeq)
  /\ Ends(nextSeq) \/ phase = "stored" \/ reap = "append" => result = "settled"
  /\ \A c \in Consumers : outcome[c] = "ended" => result = "settled"

StreamInv == TypeOK /\ RingInv /\ BatchInv /\ SentInv /\ FrameInv /\ GaplessDelivery

USE SizesAssumption, CapAssumption, BoundAssumption

-----------------------------------------------------------------------------
\* What every Append does to the ring, whatever enforceCap drops.
LEMMA AppendLemma ==
  ASSUME TypeOK, RingInv, NEW kind \in Kinds, NEW size \in Sizes, AppendChunk(kind, size)
  PROVE  /\ RingInv'
         /\ nextSeq' = nextSeq + 1 /\ nextSeq' \in Nat /\ floor' \in Nat
         /\ DOMAIN chunks' \subseteq Nat
         /\ \A s \in DOMAIN chunks' : chunks'[s] \in Chunk
         /\ terminal' \in BOOLEAN /\ notify' \in Nat /\ closing' \subseteq Nat
         /\ history' \in Seq(Kinds)
         /\ history' = Append(history, kind)
<1> DEFINE new  == [kind |-> kind, size |-> size]
           full == [s \in DOMAIN chunks \cup {nextSeq} |->
                      IF s = nextSeq THEN new ELSE chunks[s]]
<1>1. PICK k \in floor..(nextSeq + 1) : EnforceCap(full, bytes + size, k)
  BY DEF AppendChunk
<1>2. /\ chunks' = [s \in {t \in DOMAIN full : t >= k} |-> full[s]]
      /\ floor' = k
  BY <1>1 DEF EnforceCap
<1>3. DOMAIN full = floor..nextSeq
  BY DEF TypeOK, RingInv
<1>4. /\ nextSeq' = nextSeq + 1
      /\ terminal' = (terminal \/ kind \in TerminalKinds)
      /\ notify' = notify + 1
      /\ closing' = closing \cup {notify}
      /\ history' = Append(history, kind)
  BY DEF AppendChunk
<1>5. DOMAIN chunks' = k..nextSeq
  BY <1>2, <1>3 DEF TypeOK
<1>6. \A s \in DOMAIN full : full[s] \in Chunk
  BY <1>3 DEF TypeOK, RingInv, Chunk
<1>7. \A s \in DOMAIN chunks' : chunks'[s] \in Chunk
  BY <1>2, <1>6
<1>8. history' \in Seq(Kinds) /\ Len(history') = nextSeq'
  BY <1>4 DEF TypeOK, RingInv
<1>9. RingInv'
  <2>1. floor' <= nextSeq'
    BY <1>2, <1>4 DEF TypeOK
  <2>2. DOMAIN chunks' = floor'..(nextSeq' - 1)
    BY <1>2, <1>4, <1>5 DEF TypeOK
  <2> QED BY <2>1, <2>2, <1>8 DEF RingInv
<1>10. /\ DOMAIN chunks' \subseteq Nat /\ floor' \in Nat /\ nextSeq' \in Nat
       /\ notify' \in Nat /\ closing' \subseteq Nat
  BY <1>2, <1>4, <1>5 DEF TypeOK
<1>11. terminal' \in BOOLEAN
  BY <1>4
<1> QED
  BY <1>4, <1>7, <1>8, <1>9, <1>10, <1>11

\* A log that grows at its end keeps the frames it has.
LEMMA EndsGrows ==
  ASSUME TypeOK, RingInv, NEW kind \in Kinds, history' = Append(history, kind), NEW n \in 0..nextSeq
  PROVE  /\ Ends(n) => (\E i \in 1..n : history'[i] \in TerminalKinds)
         /\ (\E i \in 1..n : history'[i] \in TerminalKinds) => Ends(n)
<1>1. \A i \in 1..n : history'[i] = history[i]
  BY DEF TypeOK, RingInv
<1> QED BY <1>1 DEF Ends

-----------------------------------------------------------------------------
(* The invariant, one group of actions at a time.                           *)

\* A fresh stream, with an empty buffer and nobody attached, satisfies StreamInv.
LEMMA InitStream == Init => StreamInv
<1> SUFFICES ASSUME Init PROVE StreamInv
  OBVIOUS
<1>1. TypeOK
  <2>1. DOMAIN chunks = {} /\ history \in Seq(Kinds)
    BY DEF Init
  <2>2. unread \in [Consumers -> 0..OutCap]
    BY DEF Init
  <2>3. terminal \in BOOLEAN /\ registered \in BOOLEAN /\ sawTerminal \in [Consumers -> BOOLEAN]
    BY DEF Init
  <2>4. /\ pc \in [Consumers -> PCs] /\ outcome \in [Consumers -> Outcomes]
        /\ phase \in Phases /\ batch \in [Consumers -> SUBSET Nat]
        /\ sent \in [Consumers -> SUBSET Nat]
    BY DEF Init, Phases, PCs, Outcomes
  <2>5. /\ nextSeq \in Nat /\ floor \in Nat /\ notify \in Nat /\ closing \subseteq Nat
        /\ cursor \in [Consumers -> Nat] /\ resume \in [Consumers -> Nat]
        /\ waitOn \in [Consumers -> Nat]
        /\ result \in {"open", "settled"} /\ reap \in {"idle", "fail", "append"}
    BY DEF Init
  <2> QED BY <2>1, <2>2, <2>3, <2>4, <2>5 DEF TypeOK
<1>2. RingInv
  BY DEF Init, RingInv
<1>3. BatchInv /\ SentInv
  BY DEF Init, BatchInv, SentInv
<1>4. FrameInv
  BY DEF Init, FrameInv, Ends
<1>5. GaplessDelivery
  BY DEF Init, GaplessDelivery
<1> QED BY <1>1, <1>2, <1>3, <1>4, <1>5 DEF StreamInv

\* A step of the producer side that appends a chunk.  A terminal frame is only
\* appended once the result is settled.
LEMMA AppendStep ==
  ASSUME StreamInv, UNCHANGED consVars,
         NEW kind \in Kinds, NEW size \in Sizes, AppendChunk(kind, size),
         kind \in TerminalKinds => result = "settled",
         registered' = registered, result' = result, phase' \in Phases,
         phase' = phase \/ phase' # "stored",
         reap' \in {"idle", "fail", "append"}, reap' = reap \/ reap' = "idle"
  PROVE  StreamInv'
<1>1. /\ RingInv'
      /\ nextSeq' = nextSeq + 1 /\ nextSeq' \in Nat /\ floor' \in Nat
      /\ DOMAIN chunks' \subseteq Nat
      /\ \A s \in DOMAIN chunks' : chunks'[s] \in Chunk
      /\ terminal' \in BOOLEAN /\ notify' \in Nat /\ closing' \subseteq Nat
      /\ history' \in Seq(Kinds)
      /\ history' = Append(history, kind)
  BY AppendLemma DEF StreamInv
<1>2. TypeOK'
  BY <1>1 DEF TypeOK, StreamInv, consVars
<1>3. \A n \in 0..nextSeq : Ends(n) <=> Ends(n)'
  BY <1>1, EndsGrows DEF StreamInv, Ends
<1>4. BatchInv'
  <2> SUFFICES ASSUME NEW c \in Consumers, pc'[c] = "send"
               PROVE  \E top \in 0..nextSeq' : /\ batch'[c] = cursor'[c]..(top - 1)
                                               /\ sawTerminal'[c] => Ends(top)'
    BY DEF BatchInv
  <2>1. PICK top \in 0..nextSeq : /\ batch[c] = cursor[c]..(top - 1)
                                  /\ sawTerminal[c] => Ends(top)
    BY DEF StreamInv, BatchInv, consVars
  <2>2. top \in 0..nextSeq' /\ (sawTerminal'[c] => Ends(top)')
    BY <1>1, <1>3, <2>1 DEF consVars, StreamInv, TypeOK
  <2> QED BY <2>1, <2>2 DEF consVars
<1>5. SentInv'
  <2>1. \A c \in Consumers : sent[c] \subseteq 0..(nextSeq - 1) /\ (pc[c] = "gap" => cursor[c] < nextSeq)
                                /\ (pc[c] = "idle" => sent[c] = {})
    BY DEF StreamInv, SentInv
  <2> QED BY <1>1, <2>1, SMTT(30) DEF SentInv, consVars, StreamInv, TypeOK
<1>6. FrameInv'
  <2>1. history'[nextSeq'] = kind
    BY <1>1 DEF StreamInv, TypeOK, RingInv
  <2>3. terminal' => Ends(nextSeq)'
    <3>1. CASE terminal
      <4>1. Ends(nextSeq)
        BY <3>1 DEF StreamInv, FrameInv
      <4>2. PICK i \in 1..nextSeq : history[i] \in TerminalKinds
        BY <4>1 DEF Ends
      <4>3. history'[i] = history[i] /\ i \in 1..nextSeq'
        BY <1>1, <4>2 DEF StreamInv, TypeOK, RingInv
      <4> QED BY <4>2, <4>3 DEF Ends
    <3>2. CASE kind \in TerminalKinds
      BY <3>2, <2>1, <1>1 DEF Ends, StreamInv, TypeOK
    <3> QED BY <3>1, <3>2 DEF AppendChunk
  <2>4. Ends(nextSeq)' => result = "settled"
    <3> SUFFICES ASSUME NEW i \in 1..nextSeq', history'[i] \in TerminalKinds
                 PROVE  result = "settled"
      BY DEF Ends
    <3>1. CASE i = nextSeq'
      BY <3>1, <2>1
    <3>2. CASE i \in 1..nextSeq
      <4>1. history[i] = history'[i]
        BY <3>2, <1>1 DEF StreamInv, TypeOK, RingInv
      <4>2. Ends(nextSeq)
        BY <3>2, <4>1 DEF Ends
      <4> QED BY <4>2 DEF StreamInv, FrameInv
    <3> QED BY <3>1, <3>2, <1>1 DEF StreamInv, TypeOK
  <2> QED BY <2>3, <2>4 DEF FrameInv, StreamInv, consVars
<1>7. GaplessDelivery'
  BY DEF StreamInv, GaplessDelivery, consVars
<1> QED BY <1>1, <1>2, <1>4, <1>5, <1>6, <1>7 DEF StreamInv

\* A step that leaves the buffer and the consumers alone.
LEMMA JobStep ==
  ASSUME StreamInv, UNCHANGED <<bufVars, consVars>>,
         registered' \in BOOLEAN, phase' \in Phases, reap' \in {"idle", "fail", "append"},
         result' = result \/ result' = "settled",
         phase' = "stored" => phase = "stored" \/ result' = "settled",
         reap' = "append" => reap = "append" \/ result' = "settled"
  PROVE  StreamInv'
<1>1. TypeOK' /\ RingInv'
  BY DEF StreamInv, TypeOK, RingInv, bufVars, consVars
<1>2. BatchInv' /\ SentInv' /\ GaplessDelivery'
  BY DEF StreamInv, BatchInv, SentInv, GaplessDelivery, Ends, bufVars, consVars
<1>3. FrameInv'
  BY DEF StreamInv, FrameInv, Ends, bufVars, consVars
<1> QED BY <1>1, <1>2, <1>3 DEF StreamInv

\* Every step of the producer side (dispatch, pump, requeue, cancel, drop)
\* preserves StreamInv.
LEMMA ProducerStep == StreamInv /\ Producer => StreamInv'
<1> SUFFICES ASSUME StreamInv, Producer PROVE StreamInv'
  OBVIOUS
<1>1. CASE Dispatch \/ PumpStoreResult \/ Requeue \/ GiveUp
  BY <1>1, JobStep DEF StreamInv, Dispatch, PumpStoreResult, Requeue, GiveUp, TypeOK, Phases
<1>2. CASE CancelQueued \/ DropJob
  BY <1>2, JobStep DEF StreamInv, CancelQueued, DropJob, TypeOK, Phases
<1>3. CASE SweepTerminal \/ ReapUnregister \/ ReapFail
  BY <1>3, JobStep DEF StreamInv, SweepTerminal, ReapUnregister, ReapFail, TypeOK
<1>4. CASE PumpChunk
  <2>1. PICK size \in Sizes : AppendChunk("data", size)
    BY <1>4 DEF PumpChunk
  <2>2. UNCHANGED <<jobVars, consVars>>
    BY <1>4 DEF PumpChunk
  <2> QED BY <2>1, <2>2, AppendStep DEF jobVars, StreamInv, TypeOK, Kinds, TerminalKinds
<1>5. CASE PumpTerminal
  <2>1. PICK kind \in TerminalKinds, size \in Sizes : AppendChunk(kind, size)
    BY <1>5 DEF PumpTerminal
  <2>2. kind \in Kinds /\ phase' \in Phases /\ phase' # "stored" /\ result = "settled"
    BY <1>5 DEF PumpTerminal, Kinds, TerminalKinds, Phases, StreamInv, FrameInv
  <2>3. UNCHANGED <<registered, result, reap, consVars>>
    BY <1>5 DEF PumpTerminal
  <2> QED BY <2>1, <2>2, <2>3, AppendStep DEF StreamInv, TypeOK
<1>6. CASE ReapAppend
  <2>1. PICK size \in Sizes : AppendChunk("error", size)
    BY <1>6 DEF ReapAppend
  <2>2. result = "settled" /\ reap' = "idle" /\ UNCHANGED <<registered, result, phase, consVars>>
    BY <1>6 DEF ReapAppend, StreamInv, FrameInv
  <2> QED BY <2>1, <2>2, AppendStep DEF StreamInv, TypeOK, Kinds
<1>7. CASE \E n \in closing : CloseNotify(n)
  <2>1. /\ UNCHANGED <<chunks, nextSeq, floor, terminal, notify, history, jobVars, consVars>>
        /\ closing' \subseteq closing
    BY <1>7 DEF CloseNotify
  <2>2. TypeOK' /\ RingInv'
    BY <2>1 DEF StreamInv, TypeOK, RingInv, jobVars, consVars
  <2>3. BatchInv' /\ SentInv' /\ GaplessDelivery'
    BY <2>1 DEF StreamInv, BatchInv, SentInv, GaplessDelivery, Ends, consVars
  <2>4. FrameInv'
    BY <2>1 DEF StreamInv, FrameInv, Ends, jobVars, consVars
  <2> QED BY <2>2, <2>3, <2>4 DEF StreamInv
<1> QED BY <1>1, <1>2, <1>3, <1>4, <1>5, <1>6, <1>7 DEF Producer

-----------------------------------------------------------------------------
(* The consumers.                                                           *)

\* A step that leaves the buffer alone and starts no batch keeps BatchInv.
LEMMA BatchKept ==
  ASSUME StreamInv, UNCHANGED bufVars,
         \A d \in Consumers : pc'[d] = "send" =>
           /\ pc[d] = "send"
           /\ batch'[d] = batch[d] /\ cursor'[d] = cursor[d] /\ sawTerminal'[d] = sawTerminal[d]
  PROVE  BatchInv'
<1> SUFFICES ASSUME NEW d \in Consumers, pc'[d] = "send"
             PROVE  \E top \in 0..nextSeq' : /\ batch'[d] = cursor'[d]..(top - 1)
                                             /\ sawTerminal'[d] => Ends(top)'
  BY DEF BatchInv
<1>1. PICK top \in 0..nextSeq : /\ batch[d] = cursor[d]..(top - 1)
                                /\ sawTerminal[d] => Ends(top)
  BY DEF StreamInv, BatchInv
<1>2. Ends(top)' = Ends(top) /\ nextSeq' = nextSeq
  BY DEF Ends, bufVars
<1> QED BY <1>1, <1>2

\* Every step of one consumer (attach, pump a batch, receive, context done)
\* preserves StreamInv.
LEMMA ConsumerStep ==
  ASSUME StreamInv, NEW c \in Consumers,
         Pump(c) \/ CtxDone(c) \/ Receive(c) \/ (\E r \in 0..MaxSeq : Attach(c, r))
  PROVE  StreamInv'
<1> USE DEF StreamInv
<1>1. CASE \E r \in 0..MaxSeq : Attach(c, r)
  <2>1. PICK r \in 0..MaxSeq : Attach(c, r)
    BY <1>1
  <2>2. TypeOK' /\ RingInv'
    BY <2>1, SMTT(30) DEF Attach, TypeOK, RingInv, bufVars, jobVars, PCs
  <2>3. BatchInv'
    BY <2>1, BatchKept DEF Attach, TypeOK
  <2>4. SentInv' /\ FrameInv'
    BY <2>1 DEF Attach, SentInv, FrameInv, Ends, TypeOK, bufVars, jobVars
  <2>5. GaplessDelivery'
    <3> SUFFICES ASSUME NEW d \in Consumers
                 PROVE  resume'[d] <= cursor'[d] /\ sent'[d] = resume'[d]..(cursor'[d] - 1)
      BY DEF GaplessDelivery
    <3>1. CASE d = c
      <4>1. sent'[c] = {} /\ resume'[c] = r /\ cursor'[c] = r
        BY <2>1 DEF Attach, SentInv, TypeOK
      <4>2. r..(r - 1) = {} /\ r <= r
        OBVIOUS
      <4> QED BY <3>1, <4>1, <4>2
    <3>2. CASE d # c
      BY <2>1, <3>2 DEF Attach, GaplessDelivery, TypeOK
    <3> QED BY <3>1, <3>2
  <2> QED BY <2>2, <2>3, <2>4, <2>5
<1>2. CASE ScanGap(c)
  <2>1. TypeOK' /\ RingInv'
    BY <1>2 DEF ScanGap, TypeOK, RingInv, bufVars, jobVars, PCs
  <2>2. BatchInv'
    BY <1>2, BatchKept DEF ScanGap, TypeOK
  <2>3. SentInv'
    BY <1>2 DEF ScanGap, SentInv, TypeOK, RingInv, bufVars
  <2>4. FrameInv' /\ GaplessDelivery'
    BY <1>2 DEF ScanGap, FrameInv, GaplessDelivery, Ends, bufVars, jobVars
  <2> QED BY <2>1, <2>2, <2>3, <2>4
<1>3. CASE Scan(c)
  <2>1. TypeOK' /\ RingInv'
    BY <1>3 DEF Scan, TypeOK, RingInv, bufVars, jobVars, PCs
  <2>2. batch'[c] = cursor[c]..(nextSeq - 1)
    BY <1>3 DEF Scan, TypeOK, RingInv
  <2>3. BatchInv'
    <3> SUFFICES ASSUME NEW d \in Consumers, pc'[d] = "send"
                 PROVE  \E top \in 0..nextSeq' : /\ batch'[d] = cursor'[d]..(top - 1)
                                                 /\ sawTerminal'[d] => Ends(top)'
      BY DEF BatchInv
    <3>1. \A n \in Nat : Ends(n)' = Ends(n)
      BY <1>3 DEF Scan, Ends, bufVars
    <3>2. CASE d = c
      <4>1. sawTerminal'[c] => Ends(nextSeq)
        BY <1>3 DEF Scan, TypeOK, FrameInv
      <4>2. cursor'[c] = cursor[c] /\ nextSeq' = nextSeq /\ nextSeq \in 0..nextSeq'
        BY <1>3 DEF Scan, TypeOK, bufVars
      <4> QED BY <3>1, <3>2, <4>1, <4>2, <2>2 DEF TypeOK
    <3>3. CASE d # c
      <4>1. pc[d] = "send" /\ batch'[d] = batch[d] /\ sawTerminal'[d] = sawTerminal[d]
            /\ cursor'[d] = cursor[d] /\ nextSeq' = nextSeq
        BY <1>3, <3>3 DEF Scan, TypeOK, bufVars
      <4> QED BY <3>1, <4>1 DEF BatchInv, TypeOK
    <3> QED BY <3>2, <3>3
  <2>4. SentInv' /\ FrameInv' /\ GaplessDelivery'
    BY <1>3 DEF Scan, SentInv, FrameInv, GaplessDelivery, Ends, TypeOK, bufVars, jobVars
  <2> QED BY <2>1, <2>3, <2>4
<1>4. CASE Send(c)
  <2>1. PICK s \in batch[c] :
          /\ \A t \in batch[c] : s <= t
          /\ cursor' = [cursor EXCEPT ![c] = s + 1]
          /\ sent' = [sent EXCEPT ![c] = @ \cup {s}]
          /\ batch' = [batch EXCEPT ![c] = @ \ {s}]
    BY <1>4 DEF Send
  <2>2. PICK top \in 0..nextSeq : /\ batch[c] = cursor[c]..(top - 1)
                                  /\ sawTerminal[c] => Ends(top)
    BY <1>4 DEF Send, BatchInv
  <2>3. s = cursor[c] /\ s < nextSeq /\ s \in Nat
    BY <2>1, <2>2, SMTT(30) DEF TypeOK
  <2>4. /\ UNCHANGED <<bufVars, jobVars, pc, sawTerminal, waitOn, outcome, resume>>
        /\ unread' = [unread EXCEPT ![c] = @ + 1]
        /\ unread[c] < OutCap
    BY <1>4 DEF Send
  <2>5. TypeOK' /\ RingInv'
    <3>1. unread' \in [Consumers -> 0..OutCap]
      BY <2>4 DEF TypeOK
    <3>2. /\ cursor' \in [Consumers -> Nat]
          /\ sent' \in [Consumers -> SUBSET Nat]
          /\ batch' \in [Consumers -> SUBSET Nat]
      BY <2>1, <2>3 DEF TypeOK
    <3> QED BY <2>4, <3>1, <3>2 DEF TypeOK, RingInv, bufVars, jobVars
  <2>6. BatchInv'
    <3> SUFFICES ASSUME NEW d \in Consumers, pc'[d] = "send"
                 PROVE  \E m \in 0..nextSeq' : /\ batch'[d] = cursor'[d]..(m - 1)
                                               /\ sawTerminal'[d] => Ends(m)'
      BY DEF BatchInv
    <3>1. \A n \in Nat : Ends(n)' = Ends(n)
      BY <2>4 DEF Ends, bufVars
    <3>2. CASE d = c
      <4>1. batch'[c] = cursor'[c]..(top - 1)
        BY <2>1, <2>2, <2>3, SMTT(30) DEF TypeOK
      <4>2. nextSeq' = nextSeq /\ (sawTerminal'[c] => Ends(top)')
        BY <3>1, <2>2, <2>4 DEF bufVars, TypeOK
      <4> QED BY <3>2, <4>1, <4>2
    <3>3. CASE d # c
      <4>1. pc[d] = "send" /\ batch'[d] = batch[d] /\ sawTerminal'[d] = sawTerminal[d]
            /\ cursor'[d] = cursor[d] /\ nextSeq' = nextSeq
        BY <2>1, <2>4, <3>3 DEF TypeOK, bufVars
      <4>2. BatchInv /\ nextSeq \in Nat
        BY DEF TypeOK
      <4>3. PICK m \in 0..nextSeq : batch[d] = cursor[d]..(m - 1) /\ (sawTerminal[d] => Ends(m))
        BY <4>1, <4>2 DEF BatchInv
      <4>4. m \in Nat /\ m \in 0..nextSeq'
        BY <4>1, <4>2, <4>3
      <4>5. batch'[d] = cursor'[d]..(m - 1) /\ (sawTerminal'[d] => Ends(m)')
        BY <3>1, <4>1, <4>3, <4>4, Zenon
      <4> QED BY <4>4, <4>5
    <3> QED BY <3>2, <3>3
  <2>7. SentInv'
    BY <1>4, <2>1, <2>3, <2>4, SMTT(30) DEF Send, SentInv, TypeOK, bufVars
  <2>8. FrameInv'
    BY <2>4 DEF FrameInv, Ends, bufVars, jobVars
  <2>9. GaplessDelivery'
    <3> SUFFICES ASSUME NEW d \in Consumers
                 PROVE  resume'[d] <= cursor'[d] /\ sent'[d] = resume'[d]..(cursor'[d] - 1)
      BY DEF GaplessDelivery
    <3>1. CASE d = c
      <4>1. /\ resume'[c] = resume[c] /\ cursor'[c] = cursor[c] + 1
            /\ sent'[c] = sent[c] \cup {cursor[c]}
        BY <2>1, <2>3, <2>4 DEF TypeOK
      <4>2. /\ resume[c] <= cursor[c] /\ sent[c] = resume[c]..(cursor[c] - 1)
            /\ resume[c] \in Nat /\ cursor[c] \in Nat
        BY DEF GaplessDelivery, TypeOK
      <4>3. sent'[c] = resume[c]..cursor[c]
        BY <4>1, <4>2
      <4> QED BY <3>1, <4>1, <4>2, <4>3
    <3>2. CASE d # c
      BY <2>1, <2>4, <3>2 DEF GaplessDelivery, TypeOK
    <3> QED BY <3>1, <3>2
  <2> QED BY <2>5, <2>6, <2>7, <2>8, <2>9
<1>5. CASE EndOfStream(c)
  <2>1. PICK top \in 0..nextSeq : sawTerminal[c] => Ends(top)
    BY <1>5 DEF EndOfStream, BatchInv
  <2>2. result = "settled"
    BY <1>5, <2>1 DEF EndOfStream, Ends, FrameInv, TypeOK
  <2>3. TypeOK' /\ RingInv'
    BY <1>5 DEF EndOfStream, Close, TypeOK, RingInv, bufVars, jobVars, PCs, Outcomes
  <2>4. BatchInv'
    BY <1>5, BatchKept DEF EndOfStream, Close, TypeOK
  <2>6. SentInv' /\ GaplessDelivery'
    BY <1>5 DEF EndOfStream, Close, SentInv, GaplessDelivery, TypeOK, bufVars
  <2>5. FrameInv'
    BY <1>5, <2>2 DEF EndOfStream, Close, FrameInv, Ends, bufVars, jobVars
  <2> QED BY <2>3, <2>4, <2>5, <2>6
<1>6. CASE StartWait(c) \/ Wake(c)
  <2>1. TypeOK' /\ RingInv'
    BY <1>6 DEF StartWait, Wake, TypeOK, RingInv, bufVars, jobVars, PCs
  <2>2. BatchInv'
    BY <1>6, BatchKept DEF StartWait, Wake, TypeOK
  <2>3. SentInv' /\ GaplessDelivery'
    BY <1>6 DEF StartWait, Wake, SentInv, GaplessDelivery, TypeOK, bufVars
  <2>4. FrameInv'
    BY <1>6 DEF StartWait, Wake, FrameInv, Ends, bufVars, jobVars
  <2> QED BY <2>1, <2>2, <2>3, <2>4
<1>7. CASE SendGap(c) \/ CtxDone(c)
  <2>1. TypeOK' /\ RingInv'
    <3>1. unread' \in [Consumers -> 0..OutCap]
      <4>1. CASE SendGap(c)
        BY <4>1 DEF SendGap, TypeOK
      <4>2. CASE CtxDone(c)
        BY <4>2 DEF CtxDone, TypeOK
      <4> QED BY <1>7, <4>1, <4>2
    <3> QED BY <1>7, <3>1 DEF SendGap, CtxDone, Close, TypeOK, RingInv, bufVars, jobVars, PCs, Outcomes
  <2>2. BatchInv'
    BY <1>7, BatchKept DEF SendGap, CtxDone, Close, TypeOK
  <2>4. SentInv' /\ GaplessDelivery'
    BY <1>7, ZenonT(60) DEF SendGap, CtxDone, Close, SentInv, GaplessDelivery, TypeOK, bufVars
  <2>3. FrameInv'
    BY <1>7, SMTT(30) DEF SendGap, CtxDone, Close, FrameInv, Ends, bufVars, jobVars, TypeOK
  <2> QED BY <2>1, <2>2, <2>3, <2>4
<1>8. CASE Receive(c)
  <2>1. TypeOK' /\ RingInv'
    <3>1. unread' \in [Consumers -> 0..OutCap]
      BY <1>8 DEF Receive, TypeOK
    <3> QED BY <1>8, <3>1 DEF Receive, TypeOK, RingInv, bufVars, jobVars
  <2>2. BatchInv'
    BY <1>8, BatchKept DEF Receive
  <2>3. SentInv' /\ FrameInv' /\ GaplessDelivery'
    BY <1>8 DEF Receive, SentInv, FrameInv, GaplessDelivery, Ends, bufVars, jobVars
  <2> QED BY <2>1, <2>2, <2>3
<1> QED BY <1>1, <1>2, <1>3, <1>4, <1>5, <1>6, <1>7, <1>8 DEF Pump

\* The invariant holds throughout.
THEOREM StreamInvariant == Spec => []StreamInv
<1>1. StreamInv /\ UNCHANGED vars => StreamInv'
  <2> SUFFICES ASSUME StreamInv, UNCHANGED vars PROVE StreamInv'
    OBVIOUS
  <2>1. TypeOK' /\ RingInv'
    BY DEF StreamInv, TypeOK, RingInv, vars, bufVars, jobVars, consVars
  <2>2. BatchInv'
    BY BatchKept DEF vars, consVars
  <2>3. SentInv' /\ FrameInv' /\ GaplessDelivery'
    BY DEF StreamInv, SentInv, FrameInv, GaplessDelivery, Ends, vars, bufVars, jobVars, consVars
  <2> QED BY <2>1, <2>2, <2>3 DEF StreamInv
<1>2. StreamInv /\ Next => StreamInv'
  BY ProducerStep, ConsumerStep DEF Next
<1> QED BY <1>1, <1>2, InitStream, PTL DEF Spec

\* GaplessDelivery (Attach, pump): no consumer is ever moved past a chunk, for
\* every cap, every chunk size and any number of consumers.
THEOREM Gapless == Spec => []GaplessDelivery
BY StreamInvariant, PTL DEF StreamInv

\* ResultBeforeFrame (the producer invariant of jobBuffer): a consumer that got
\* a terminal frame, or reached the end of the stream, finds the result settled.
THEOREM ResultFirst == Spec => []ResultBeforeFrame
<1>1. StreamInv => ResultBeforeFrame
  <2> SUFFICES ASSUME StreamInv, NEW c \in Consumers, result # "settled"
               PROVE  outcome[c] # "ended" /\ \A s \in sent[c] : history[s + 1] \notin TerminalKinds
    BY DEF ResultBeforeFrame
  <2>1. outcome[c] # "ended" /\ ~Ends(nextSeq)
    BY DEF StreamInv, FrameInv
  <2>2. \A s \in sent[c] : s + 1 \in 1..nextSeq
    BY DEF StreamInv, SentInv, TypeOK
  <2> QED BY <2>1, <2>2 DEF Ends
<1> QED BY <1>1, StreamInvariant, PTL

-----------------------------------------------------------------------------
(* The buffer implements the log.                                           *)

StreamStates == [d \in Consumers |-> StreamState(d)]

\* A step that touches neither the log nor a cursor, and keeps every consumer
\* in the same abstract state, is a stutter of the log.
LEMMA LogStutter ==
  ASSUME history' = history, cursor' = cursor,
         \A d \in Consumers : StreamState(d)' = StreamState(d)
  PROVE  UNCHANGED Log!vars
<1>1. StreamStates' = StreamStates
  BY DEF StreamStates
<1> QED BY <1>1 DEF Log!vars, StreamStates

\* The abstract state after a step that changes only consumer c.
LEMMA StateChange ==
  ASSUME NEW c \in Consumers, NEW v,
         StreamState(c)' = v,
         \A d \in Consumers \ {c} : StreamState(d)' = StreamState(d)
  PROVE  StreamStates' = [StreamStates EXCEPT ![c] = v]
BY DEF StreamStates

\* An Append is a Publish, and every other step of the producer side stutters.
LEMMA ProducerSimulates ==
  ASSUME StreamInv, Producer
  PROVE  [Log!Next]_(Log!vars)
<1>1. ASSUME NEW kind \in Kinds, NEW size \in Sizes, AppendChunk(kind, size), UNCHANGED consVars
      PROVE  Log!Next
  <2>1. history' = Append(history, kind) /\ cursor' = cursor
    BY <1>1 DEF AppendChunk, consVars
  <2>2. StreamStates' = StreamStates
    BY <1>1 DEF StreamStates, StreamState, consVars
  <2>3. Log!Publish(kind)
    BY <2>1, <2>2 DEF Log!Publish, StreamStates
  <2> QED BY <2>3 DEF Log!Next
<1>2. ASSUME UNCHANGED <<history, consVars>>
      PROVE  UNCHANGED Log!vars
  BY <1>2, LogStutter DEF StreamState, consVars
<1>3. CASE PumpChunk
  BY <1>1, <1>3 DEF PumpChunk, Kinds
<1>4. CASE PumpTerminal
  BY <1>1, <1>4 DEF PumpTerminal, Kinds, TerminalKinds
<1>5. CASE ReapAppend
  BY <1>1, <1>5 DEF ReapAppend, Kinds
<1>6. CASE \/ Dispatch \/ PumpStoreResult \/ Requeue \/ GiveUp \/ CancelQueued \/ DropJob
           \/ SweepTerminal \/ ReapUnregister \/ ReapFail \/ \E n \in closing : CloseNotify(n)
  <2>1. UNCHANGED <<history, consVars>>
    BY <1>6 DEF Dispatch, PumpStoreResult, Requeue, GiveUp, CancelQueued, DropJob,
                SweepTerminal, ReapUnregister, ReapFail, CloseNotify, bufVars
  <2> QED BY <2>1, <1>2
<1> QED BY <1>3, <1>4, <1>5, <1>6 DEF Producer

\* Every step of a consumer is a step of the abstract log, or a stutter of it.
LEMMA ConsumerSimulates ==
  ASSUME StreamInv, NEW c \in Consumers,
         Pump(c) \/ CtxDone(c) \/ Receive(c) \/ (\E r \in 0..MaxSeq : Attach(c, r))
  PROVE  [Log!Next]_(Log!vars)
<1> USE DEF StreamInv
<1>1. CASE \E r \in 0..MaxSeq : Attach(c, r)
  <2>1. PICK r \in 0..MaxSeq : Attach(c, r)
    BY <1>1
  <2>2. StreamStates[c] = "idle" /\ history' = history
    BY <2>1 DEF Attach, StreamStates, StreamState, bufVars
  <2>3. StreamStates' = [StreamStates EXCEPT ![c] = "live"]
    <3>1. StreamState(c)' = "live" /\ \A d \in Consumers \ {c} : StreamState(d)' = StreamState(d)
      BY <2>1 DEF Attach, StreamState, TypeOK
    <3> QED BY <3>1, StateChange
  <2>4. cursor' = [cursor EXCEPT ![c] = cursor'[c]] /\ cursor'[c] \in Nat
    BY <2>1 DEF Attach, TypeOK
  <2>5. Log!Open(c)
    BY <2>2, <2>3, <2>4 DEF Log!Open, StreamStates
  <2> QED BY <2>5 DEF Log!Next
<1>2. CASE ScanGap(c) \/ Scan(c) \/ StartWait(c) \/ Wake(c) \/ Receive(c)
  <2>1. history' = history /\ cursor' = cursor
    BY <1>2 DEF ScanGap, Scan, StartWait, Wake, Receive, bufVars
  <2>2. \A d \in Consumers : StreamState(d)' = StreamState(d)
    BY <1>2, SMTT(30) DEF ScanGap, Scan, StartWait, Wake, Receive, StreamState, TypeOK
  <2> QED BY <2>1, <2>2, LogStutter
<1>3. CASE Send(c)
  <2>1. PICK s \in batch[c] :
          /\ \A t \in batch[c] : s <= t
          /\ cursor' = [cursor EXCEPT ![c] = s + 1]
    BY <1>3 DEF Send
  <2>2. PICK top \in 0..nextSeq : batch[c] = cursor[c]..(top - 1)
    BY <1>3 DEF Send, BatchInv
  <2>3. s = cursor[c] /\ cursor[c] < Len(history)
    BY <2>1, <2>2 DEF TypeOK, RingInv
  <2>4. StreamStates' = StreamStates /\ StreamStates[c] = "live" /\ history' = history
    BY <1>3 DEF Send, StreamStates, StreamState, bufVars
  <2>5. Log!Deliver(c)
    BY <2>1, <2>3, <2>4 DEF Log!Deliver, StreamStates, TypeOK
  <2> QED BY <2>5 DEF Log!Next
<1>4. ASSUME NEW why \in {"ended", "gap", "cancelled"}, Close(c, why), pc[c] \in {"send", "gap", "wait"}
      PROVE  /\ StreamStates' = [StreamStates EXCEPT ![c] = why] /\ StreamStates[c] = "live"
             /\ history' = history /\ cursor' = cursor
  <2>1. StreamState(c)' = why /\ \A d \in Consumers \ {c} : StreamState(d)' = StreamState(d)
    BY <1>4 DEF Close, StreamState, TypeOK
  <2>2. StreamStates[c] = "live" /\ history' = history /\ cursor' = cursor
    BY <1>4 DEF Close, StreamStates, StreamState, bufVars
  <2> QED BY <2>1, <2>2, StateChange
<1>5. CASE EndOfStream(c)
  <2>1. Close(c, "ended") /\ pc[c] = "send" /\ batch[c] = {} /\ sawTerminal[c]
    BY <1>5 DEF EndOfStream
  <2>2. PICK top \in 0..nextSeq : batch[c] = cursor[c]..(top - 1) /\ Ends(top)
    BY <2>1 DEF BatchInv
  <2>3. PICK i \in 1..top : history[i] \in TerminalKinds
    BY <2>2 DEF Ends
  <2>4. i <= cursor[c] /\ i \in 1..Len(history)
    <3>1. cursor[c] \in Nat /\ top \in Nat /\ cursor[c] \notin cursor[c]..(top - 1)
      BY <2>1, <2>2 DEF TypeOK
    <3>2. top <= cursor[c]
      BY <3>1
    <3> QED BY <2>2, <2>3, <3>1, <3>2 DEF TypeOK, RingInv
  <2>5. Log!End(c)
    BY <2>1, <2>3, <2>4, <1>4 DEF Log!End, StreamStates
  <2> QED BY <2>5 DEF Log!Next
<1>6. CASE SendGap(c)
  <2>1. Close(c, "gap") /\ pc[c] = "gap" /\ cursor[c] < Len(history)
    BY <1>6 DEF SendGap, SentInv, RingInv
  <2>2. Log!Lose(c)
    BY <2>1, <1>4 DEF Log!Lose, StreamStates
  <2> QED BY <2>2 DEF Log!Next
<1>7. CASE CtxDone(c)
  <2>1. Close(c, "cancelled") /\ pc[c] \in {"send", "gap", "wait"}
    BY <1>7 DEF CtxDone
  <2>2. Log!Cancel(c)
    BY <2>1, <1>4 DEF Log!Cancel, StreamStates
  <2> QED BY <2>2 DEF Log!Next
<1> QED BY <1>1, <1>2, <1>3, <1>5, <1>6, <1>7 DEF Pump

\* ImplementsReplayLog: the replay buffer, its cap, its notify channels and its
\* sweeps implement an append-only log read in order, for every parameter.
THEOREM Refinement == Spec => ImplementsReplayLog
<1>1. Init => Log!Init
  <2> SUFFICES ASSUME Init PROVE Log!Init
    OBVIOUS
  <2>1. StreamStates = [c \in Consumers |-> "idle"]
    BY DEF Init, StreamStates, StreamState
  <2> QED BY <2>1 DEF Init, Log!Init, StreamStates
<1>2. StreamInv /\ [Next]_vars => [Log!Next]_(Log!vars)
  <2> SUFFICES ASSUME StreamInv, [Next]_vars PROVE [Log!Next]_(Log!vars)
    OBVIOUS
  <2>1. CASE Next
    BY <2>1, ProducerSimulates, ConsumerSimulates DEF Next
  <2>2. CASE UNCHANGED vars
    <3>1. history' = history /\ cursor' = cursor /\ pc' = pc /\ outcome' = outcome
      BY <2>2 DEF vars, bufVars, consVars
    <3>2. \A d \in Consumers : StreamState(d)' = StreamState(d)
      BY <3>1 DEF StreamState
    <3>3. UNCHANGED Log!vars
      BY <3>1, <3>2, LogStutter
    <3> QED BY <3>3
  <2> QED BY <2>1, <2>2
<1> QED BY <1>1, <1>2, StreamInvariant, PTL DEF Spec, ImplementsReplayLog, Log!Spec

-----------------------------------------------------------------------------
(* The bytes of the ring.                                                  *)

\* The byte count is that of the retained chunks, and within the cap.
BytesInv == bytes = SizeOf(chunks) /\ bytes <= Cap

\* The byte count of a buffer is the sum of the sizes of its chunks, however they are
\* added up.
LEMMA SizeIsSum ==
  ASSUME NEW full, NEW part, NEW S, S = DOMAIN part, S \subseteq DOMAIN full, IsFiniteSet(S),
         \A s \in S : part[s] = full[s]
  PROVE  SizeOf(part) = SumFunctionOnSet([s \in DOMAIN full |-> full[s].size], S)
<1> DEFINE V == [s \in DOMAIN part |-> part[s].size]
           W == [s \in DOMAIN full |-> full[s].size]
<1>1. DOMAIN V = S /\ \A s \in S : V[s] = W[s]
  OBVIOUS
<1>2. SizeOf(part) = SumFunctionOnSet(V, S)
  BY <1>1 DEF SizeOf, SumFunction
<1>3. SumFunctionOnSet(V, S) = SumFunctionOnSet(W, S)
  <2> HIDE DEF V, W
  <2> QED BY <1>1, SumAgrees
<1> QED BY <1>2, <1>3

\* Append adds the size of the chunk, enforceCap takes off those of the chunks it drops;
\* it stops within the cap, or with an empty ring.
LEMMA AppendBytes ==
  ASSUME TypeOK, RingInv, BytesInv, NEW kind \in Kinds, NEW size \in Sizes, AppendChunk(kind, size)
  PROVE  BytesInv'
<1> DEFINE new  == [kind |-> kind, size |-> size]
           full == [s \in DOMAIN chunks \cup {nextSeq} |->
                      IF s = nextSeq THEN new ELSE chunks[s]]
           W == [s \in DOMAIN full |-> full[s].size]
           Old(k) == {t \in DOMAIN full : t < k}
           Young(k) == {t \in DOMAIN full : t >= k}
<1>0. PICK total : total = bytes + size
  OBVIOUS
<1>1. PICK k \in floor..(nextSeq + 1) : EnforceCap(full, total, k)
  <2>1. PICK k \in floor..(nextSeq + 1) : EnforceCap(full, bytes + size, k)
    BY DEF AppendChunk
  <2> QED BY <1>0, <2>1
<1>2. /\ chunks' = [s \in Young(k) |-> full[s]]
      /\ bytes' = total - SizeOf([s \in Old(k) |-> full[s]])
      /\ bytes' <= Cap \/ k = nextSeq + 1
  <2> HIDE DEF full
  <2> QED BY <1>1 DEF EnforceCap
<1>3. /\ floor \in Nat /\ nextSeq \in Nat /\ floor <= nextSeq /\ k \in Nat
      /\ DOMAIN chunks = floor..(nextSeq - 1)
  BY DEF TypeOK, RingInv
<1>4. DOMAIN full = floor..nextSeq /\ IsFiniteSet(floor..nextSeq) /\ IsFiniteSet(DOMAIN chunks)
  <2>1. floor..nextSeq = (floor..(nextSeq - 1)) \cup {nextSeq}
    BY <1>3
  <2>2. IsFiniteSet(floor..nextSeq) /\ IsFiniteSet(floor..(nextSeq - 1))
    BY <1>3, FS_Interval
  <2> QED BY <1>3, <2>1, <2>2
<1>5. \A s \in DOMAIN full : W[s] \in Nat
  BY <1>3 DEF TypeOK, Chunk
<1>6. /\ Old(k) \cup Young(k) = DOMAIN full /\ Old(k) \cap Young(k) = {}
      /\ IsFiniteSet(Old(k)) /\ IsFiniteSet(Young(k))
  <2>1. Old(k) \cup Young(k) = DOMAIN full /\ Old(k) \cap Young(k) = {}
    BY <1>3, <1>4
  <2> QED BY <1>4, <2>1, FS_Subset
<1>7. SizeOf(chunks) = SumFunctionOnSet(W, DOMAIN chunks)
  <2>1. DOMAIN chunks \subseteq DOMAIN full
    BY <1>3, <1>4
  <2>2. \A s \in DOMAIN chunks : chunks[s] = full[s]
    BY <1>3
  <2> HIDE DEF full
  <2> QED BY <1>4, <2>1, <2>2, SizeIsSum
<1>8. /\ SizeOf(chunks') = SumFunctionOnSet(W, Young(k))
      /\ SizeOf([s \in Old(k) |-> full[s]]) = SumFunctionOnSet(W, Old(k))
  <2> DEFINE old == [s \in Old(k) |-> full[s]]
  <2>1. Young(k) \subseteq DOMAIN full /\ Old(k) \subseteq DOMAIN full
    OBVIOUS
  <2>2. DOMAIN chunks' = Young(k) /\ \A s \in Young(k) : chunks'[s] = full[s]
    BY <1>2
  <2>3. DOMAIN old = Old(k) /\ \A s \in Old(k) : old[s] = full[s]
    OBVIOUS
  <2> HIDE DEF full, Young, Old, old
  <2>4. SizeOf(old) = SumFunctionOnSet(W, Old(k)) /\ SizeOf(chunks') = SumFunctionOnSet(W, Young(k))
    BY <1>6, <2>1, <2>2, <2>3, SizeIsSum
  <2> QED BY <2>4 DEF old
<1>9. SumFunctionOnSet(W, DOMAIN full) = SumFunctionOnSet(W, DOMAIN chunks) + size
  <2>1. nextSeq \notin DOMAIN chunks /\ DOMAIN full = DOMAIN chunks \cup {nextSeq} /\ W[nextSeq] = size
    BY <1>3
  <2> HIDE DEF full, W
  <2> QED BY <1>4, <1>5, <2>1, SumAdd
<1>10. SumFunctionOnSet(W, DOMAIN full) = SumFunctionOnSet(W, Old(k)) + SumFunctionOnSet(W, Young(k))
  <2> HIDE DEF full, W, Old, Young
  <2> QED BY <1>5, <1>6, SumUnion
<1>11. /\ SumFunctionOnSet(W, Old(k)) \in Nat /\ SumFunctionOnSet(W, Young(k)) \in Nat
       /\ SumFunctionOnSet(W, DOMAIN chunks) \in Nat /\ size \in Nat
  <2>1. \A s \in DOMAIN chunks : W[s] \in Nat
    BY <1>3, <1>4, <1>5
  <2> HIDE DEF full, W, Old, Young
  <2> QED BY <1>4, <1>5, <1>6, <2>1, SumNat
<1>12. bytes' = SizeOf(chunks')
  <2> HIDE DEF full, W, Old, Young
  <2> QED BY <1>0, <1>2, <1>7, <1>8, <1>9, <1>10, <1>11 DEF BytesInv
<1>13. k = nextSeq + 1 => bytes' = 0
  <2> SUFFICES ASSUME k = nextSeq + 1 PROVE bytes' = 0
    OBVIOUS
  <2>1. Young(k) = {}
    BY <1>3, <1>4
  <2>2. SumFunctionOnSet(W, {}) = 0
    BY FS_EmptySet, SumStep
  <2> HIDE DEF full, W, Old, Young
  <2> QED BY <1>8, <1>12, <2>1, <2>2
<1>14. (SizeOf(chunks))' = SizeOf(chunks')
  BY DEF SizeOf
<1> QED BY <1>2, <1>12, <1>13, <1>14 DEF BytesInv

\* RingExact (Append, enforceCap), for every cap, every size of a chunk and every length
\* of the log: what is retained is exactly the chunks from the floor up to the newest, and
\* the running byte count, which is only ever adjusted, is theirs and within the cap.
THEOREM RingIsExact == Spec => []RingExact
<1>1. Init => BytesInv
  <2> SUFFICES ASSUME Init PROVE BytesInv
    OBVIOUS
  <2>1. DOMAIN chunks = {} /\ bytes = 0
    BY DEF Init
  <2>2. SizeOf(chunks) = SumFunctionOnSet([s \in DOMAIN chunks |-> chunks[s].size], {})
    BY <2>1 DEF SizeOf, SumFunction
  <2>3. SizeOf(chunks) = 0
    BY <2>2, FS_EmptySet, SumStep
  <2> QED BY <2>1, <2>3 DEF BytesInv
<1>2. StreamInv /\ BytesInv /\ [Next]_vars => BytesInv'
  <2> SUFFICES ASSUME StreamInv, BytesInv, [Next]_vars PROVE BytesInv'
    OBVIOUS
  <2>1. ASSUME NEW kind \in Kinds, NEW size \in Sizes, AppendChunk(kind, size) PROVE BytesInv'
    BY <2>1, AppendBytes DEF StreamInv
  <2>2. CASE UNCHANGED <<chunks, bytes>>
    BY <2>2 DEF BytesInv, SizeOf
  <2>3. CASE PumpChunk \/ PumpTerminal \/ ReapAppend
    BY <2>1, <2>3 DEF PumpChunk, PumpTerminal, ReapAppend, Kinds, TerminalKinds
  <2>4. ASSUME \/ Dispatch \/ PumpStoreResult \/ Requeue \/ GiveUp \/ CancelQueued \/ DropJob
               \/ SweepTerminal \/ ReapUnregister \/ ReapFail \/ \E n \in closing : CloseNotify(n)
        PROVE  UNCHANGED <<chunks, bytes>>
    BY <2>4 DEF Dispatch, PumpStoreResult, Requeue, GiveUp, CancelQueued, DropJob, SweepTerminal,
                ReapUnregister, ReapFail, CloseNotify, bufVars
  <2>5. ASSUME NEW c \in Consumers,
               Pump(c) \/ CtxDone(c) \/ Receive(c) \/ \E r \in 0..MaxSeq : Attach(c, r)
        PROVE  UNCHANGED <<chunks, bytes>>
    BY <2>5 DEF Pump, ScanGap, Scan, Send, EndOfStream, StartWait, Wake, SendGap, CtxDone, Receive,
                Attach, Close, bufVars
  <2>6. CASE UNCHANGED vars
    BY <2>2, <2>6 DEF vars, bufVars
  <2> QED BY <2>2, <2>3, <2>4, <2>5, <2>6 DEF Next, Producer
<1>3. StreamInv /\ BytesInv => RingExact
  BY DEF StreamInv, RingInv, BytesInv, RingExact
<1> QED BY <1>1, <1>2, <1>3, StreamInvariant, PTL DEF Spec
=============================================================================
