-------------------------------- MODULE Envelope --------------------------------
(***************************************************************************)
(* The body of a queue row: how an envelope is packed and unpacked         *)
(* (internal/queue/queue.go) and what the scheduler does to it on a job's  *)
(* way from Submit through placement, re-estimation, steal and release to  *)
(* a retry.  Whoever moves a job decodes the body of its row, changes a    *)
(* field and packs the whole again, so what one hop loses is lost for all. *)
(*                                                                         *)
(* A body is a sequence of cells.  A cell holds a byte, 0..ByteMax, or one *)
(* number of the fixed header.  A name is the sequence of its bytes; the   *)
(* id of a row, as a name, is one cell.                                    *)
(***************************************************************************)
EXTENDS Integers, Sequences

CONSTANTS
  ByteMax,           \* 255
  Prefix,            \* the bytes of "gateway:"
  EnvRequests,       \* the requests submitted
  LoadAttempts,      \* Config.EffectiveLoadAttempts
  RequeueBudget,     \* disconnectRequeueBudget
  MaxRowIds          \* bound: rows inserted

Base == ByteMax + 1
\* HeadroomPct is an int32, stored as a uint32.
Word == Base * Base
Int32s == (Word \div 2) - Word .. (Word \div 2) - 1
Bytes  == Seq(0..ByteMax)

ASSUME EnvelopeAssumption ==
  /\ ByteMax \in Nat \ {0} /\ LoadAttempts \in Nat \ {0} /\ RequeueBudget \in Nat \ {0}
  /\ MaxRowIds \in Nat /\ Prefix \in Bytes
  /\ EnvRequests \subseteq [prio : Int, cost : Int, headroom : Int32s, runtime : Bytes, model : Bytes,
                            source : Bytes, files : Nat, hints : Bytes, payload : Bytes]

VARIABLES
  request,   \* what the gateway submits
  stage,     \* where the job is
  globRow, workRow,  \* its row on the global and on a worker's queue: id 0 when there is none
  held,      \* the envelope dispatchEnvelope works with
  estimate,  \* what a re-estimation has peeked and will write back
  charged,   \* how often the job was requeued
  rowIds     \* rows inserted so far

envVars == <<request, stage, globRow, workRow, held, estimate, charged, rowIds>>

NoBody == [id |-> 0, body |-> <<>>]
NoName == <<>>

------------------------------------------------------------------------------
(* The wire format.                                                        *)

\* The five names, in the order of the wire; each must fit its one-byte length.
Names(e) == <<e.runtime, e.model, e.source, e.reqId, e.gmid>>
fit255(s) == Len(s) <= ByteMax
writeLenPrefixed(s) == <<Len(s)>> \o s
\* A wide length is little-endian, in two cells where the code has four bytes.
writeLenPrefixedU32(b) == <<Len(b) % Base, Len(b) \div Base>> \o b

Uint32(h) == h % Word
Int32(u)  == IF u >= Word \div 2 THEN u - Word ELSE u

\* protobuf's own encoding of the files and the hints: never empty.
ProtoMarshal(files, hints) == <<files>> \o hints
marshalLoadArtifacts(files, hints) == IF files = 0 /\ hints = <<>> THEN <<>> ELSE ProtoMarshal(files, hints)
unmarshalLoadArtifacts(blob) == IF blob = <<>> THEN [files |-> 0, hints |-> <<>>]
                                ELSE [files |-> Head(blob), hints |-> Tail(blob)]

Panics(e) == \E i \in 1..5 : ~fit255(Names(e)[i])

Marshal(e) ==
  <<e.prio, e.attempts, e.cost, e.secs, Uint32(e.headroom)>>
  \o writeLenPrefixed(e.runtime) \o writeLenPrefixed(e.model) \o writeLenPrefixed(e.source)
  \o writeLenPrefixed(e.reqId) \o writeLenPrefixed(e.gmid)
  \o writeLenPrefixedU32(marshalLoadArtifacts(e.files, e.hints))
  \o e.payload

\* Readers return what they read, the offset behind it, and whether there was enough.
TooShort == [ok |-> FALSE, val |-> <<>>, off |-> 0]
Take(data, off, n) == IF Len(data) < off + n THEN TooShort
                      ELSE [ok |-> TRUE, val |-> SubSeq(data, off + 1, off + n), off |-> off + n]

readLenPrefixed(data, off) ==
  IF Len(data) < off + 1 THEN TooShort ELSE Take(data, off + 1, data[off + 1])
readLenPrefixedU32(data, off) ==
  IF Len(data) < off + 2 THEN TooShort ELSE Take(data, off + 2, data[off + 1] + Base * data[off + 2])

\* A name is read where the one before it ended, unless an earlier read failed.
NextName(data, r) == IF r.ok THEN readLenPrefixed(data, r.off) ELSE r

HeaderCells == 5
ReadNames(data) ==
  LET header == [ok |-> Len(data) >= HeaderCells, val |-> NoName, off |-> HeaderCells]
      r1 == NextName(data, header)
      r2 == NextName(data, r1)
      r3 == NextName(data, r2)
      r4 == NextName(data, r3)
      r5 == NextName(data, r4)
  IN  [ok |-> r5.ok, names |-> <<r1.val, r2.val, r3.val, r4.val, r5.val>>, off |-> r5.off]

Undecodable == [ok |-> FALSE]
UnmarshalEnvelope(data) ==
  LET n    == ReadNames(data)
      blob == readLenPrefixedU32(data, n.off)
      art  == unmarshalLoadArtifacts(blob.val)
  IN  IF ~n.ok \/ ~blob.ok THEN Undecodable
      ELSE [ok |-> TRUE,
            env |-> [prio |-> data[1], attempts |-> data[2], cost |-> data[3], secs |-> data[4],
                     headroom |-> Int32(data[5]),
                     runtime |-> n.names[1], model |-> n.names[2], source |-> n.names[3],
                     reqId |-> n.names[4], gmid |-> n.names[5],
                     files |-> art.files, hints |-> art.hints,
                     payload |-> SubSeq(data, blob.off + 1, Len(data))]]

------------------------------------------------------------------------------
(* The way of a job.                                                       *)

\* The source an envelope carries: the gateway's, or one made from the runtime's name.
Source(r) == IF r.source = NoName THEN Prefix \o r.runtime ELSE r.source

\* Mutant of FieldsFit: the "gateway:" prefix does not count against the cap.
RawFieldsFit(r) == \A f \in {r.runtime, r.model, r.source} : fit255(f)

\* The check at the boundary: the resolved source, prefix included, must fit.
FieldsFit(r) == \A f \in {r.runtime, r.model, Source(r)} : fit255(f)

Acceptable(r) == r.runtime # NoName /\ r.cost > 0 /\ FieldsFit(r)

ReqId == <<1>>   \* the UUID of the request
NewEnvelope(r) ==
  [prio |-> r.prio, attempts |-> 0, cost |-> r.cost, secs |-> 0, headroom |-> r.headroom,
   runtime |-> r.runtime, model |-> r.model, source |-> Source(r), reqId |-> ReqId, gmid |-> NoName,
   files |-> r.files, hints |-> r.hints, payload |-> r.payload]

\* The next row, with the envelope in it; or the panic of Marshal.
Insert(e) == [id |-> rowIds + 1, body |-> Marshal(e)]
Stored(e, next, row) ==
  /\ rowIds < MaxRowIds
  /\ IF Panics(e) THEN stage' = "panicked" /\ UNCHANGED <<rowIds, globRow, workRow>>
     ELSE stage' = next /\ rowIds' = rowIds + 1 /\ row

EnvInit ==
  /\ request \in EnvRequests /\ stage = "submit"
  /\ globRow = NoBody /\ workRow = NoBody /\ held = Undecodable
  /\ estimate = NoBody /\ charged = 0 /\ rowIds = 0

SubmitJob ==
  /\ stage = "submit"
  /\ \/ /\ ~Acceptable(request)
        /\ stage' = "refused" /\ UNCHANGED <<rowIds, globRow, workRow>>
     \/ /\ Acceptable(request)
        /\ Stored(NewEnvelope(request), "global", globRow' = Insert(NewEnvelope(request)) /\ UNCHANGED workRow)
  /\ UNCHANGED <<request, held, estimate, charged>>

\* placeOnWorkerQueue and drainGlobal stamp the anchor and the seconds; the former has the
\* envelope in hand that the latter reads from the row.
Placed(e, secs) == [e EXCEPT !.gmid = <<globRow.id>>, !.secs = secs]
PlaceJob(secs) ==
  /\ stage = "global"
  /\ LET d == UnmarshalEnvelope(globRow.body)
     IN  /\ d.ok
         /\ Stored(Placed(d.env, secs), "placed", workRow' = Insert(Placed(d.env, secs)) /\ UNCHANGED globRow)
  /\ UNCHANGED <<request, held, estimate, charged>>

\* MoveTo: the stolen row is a new one, its body byte for byte the old one.
StealJob ==
  /\ stage = "placed" /\ UnmarshalEnvelope(workRow.body).ok /\ rowIds < MaxRowIds
  /\ workRow' = [workRow EXCEPT !.id = rowIds + 1] /\ rowIds' = rowIds + 1
  /\ UNCHANGED <<request, stage, globRow, held, estimate, charged>>

\* An eviction, or the drain of an unleased row: the anchor is visible again.
ReleaseJob ==
  /\ stage = "placed" /\ stage' = "global" /\ workRow' = NoBody
  /\ UNCHANGED <<request, globRow, held, estimate, charged, rowIds>>

\* ReestimateWorkerQueue peeks the row, and writes the body back by the row's id.
PeekEstimate(secs) ==
  /\ stage = "placed" /\ estimate.id = 0
  /\ LET d == UnmarshalEnvelope(workRow.body)
     IN  d.ok /\ estimate' = [id |-> workRow.id, body |-> Marshal([d.env EXCEPT !.secs = secs])]
  /\ UNCHANGED <<request, stage, globRow, workRow, held, charged, rowIds>>
UpdateBody ==
  /\ estimate.id # 0 /\ estimate' = NoBody
  /\ workRow' = IF workRow.id = estimate.id THEN estimate ELSE workRow
  /\ UNCHANGED <<request, stage, globRow, held, charged, rowIds>>

\* The drainer leases the row and decodes it; a row it cannot decode is deleted.
DispatchJob ==
  /\ stage = "placed"
  /\ held' = UnmarshalEnvelope(workRow.body)
  /\ IF held'.ok THEN stage' = "running" /\ UNCHANGED workRow ELSE stage' = "dropped" /\ workRow' = NoBody
  /\ UNCHANGED <<request, globRow, estimate, charged, rowIds>>

FinishJob ==
  /\ stage = "running" /\ stage' = "answered"
  /\ globRow' = NoBody /\ workRow' = NoBody
  /\ UNCHANGED <<request, held, estimate, charged, rowIds>>

\* The envelope of a retry: Attempts is a byte.
Retried(e) == [e EXCEPT !.attempts = (@ + 1) % Base, !.gmid = NoName, !.secs = 0]
RequeueJob(e, cap) ==
  /\ IF e.attempts + 1 >= cap
     THEN stage' = "answered" /\ globRow' = NoBody /\ workRow' = NoBody /\ UNCHANGED <<charged, rowIds>>
     ELSE /\ Stored(Retried(e), "global", globRow' = Insert(Retried(e)) /\ workRow' = NoBody)
          /\ charged' = charged + 1
  /\ UNCHANGED <<request, held, estimate>>

\* retryAfterLoadFailure, from what the dispatch decoded.
RetryLoad == stage = "running" /\ RequeueJob(held.env, LoadAttempts)
\* The drain of a lost worker, from what its row holds.
RequeueLost == /\ stage = "running"
               /\ LET d == UnmarshalEnvelope(workRow.body) IN d.ok /\ RequeueJob(d.env, RequeueBudget)

EnvNext ==
  \/ SubmitJob \/ StealJob \/ ReleaseJob \/ UpdateBody \/ DispatchJob \/ FinishJob \/ RetryLoad \/ RequeueLost
  \/ \E secs \in 0..1 : PlaceJob(secs) \/ PeekEstimate(secs)

EnvSpec == EnvInit /\ [][EnvNext]_envVars

------------------------------------------------------------------------------
(* Properties.                                                             *)

EnvTypeOK ==
  /\ stage \in {"submit", "refused", "panicked", "global", "placed", "running", "dropped", "answered"}
  /\ charged \in Nat /\ rowIds \in 0..MaxRowIds /\ {globRow.id, workRow.id, estimate.id} \subseteq 0..rowIds

\* What a row must hold, whatever seconds it carries.
Holds(row, gmid) ==
  LET d == UnmarshalEnvelope(row.body)
  IN  row.id # 0 => /\ d.ok
                    /\ d.env = [NewEnvelope(request) EXCEPT !.gmid = gmid, !.attempts = charged, !.secs = d.env.secs]

\* A job that Submit accepts is packed without a panic, and every row it ever has, after
\* any hops and with a re-estimation writing a body it read earlier, decodes to the request
\* that was submitted, names the anchor it belongs to, and has counted every retry.
EnvelopeKept ==
  /\ stage # "panicked"
  /\ Holds(globRow, NoName) /\ Holds(workRow, <<globRow.id>>)

\* LoadAttempts is the "total times to try placing a job before failing" (config.go).  With
\* more of them than a byte can count, Attempts wraps and the retries never end.
RetriesEnd == charged < LoadAttempts \/ charged < RequeueBudget
=============================================================================
