--------------------------------- MODULE Proxy ---------------------------------
(***************************************************************************)
(* One request to /mass.<kind>, forwarded to the runtime's gateway over a  *)
(* gRPC stream (handler.go: handleRuntimeProxy, proxyToGateway,            *)
(* streamRequestBody).  The request is sent whole, the response is read    *)
(* only then.  Each direction of the stream buffers a bounded number of    *)
(* frames.  The gateway and the client are external.                       *)
(*                                                                         *)
(* A request's body is the chunks 1..BodyLen, a response's the chunks the  *)
(* gateway numbers from 1.                                                 *)
(***************************************************************************)
EXTENDS Integers, Sequences, SequencesExt

CONSTANTS
  BodyLen,    \* chunks of the request's body
  AnswerLen,  \* bound on the chunks of the response
  Window,     \* frames a direction of the stream buffers
  Early       \* whether the gateway may answer before it has read the whole request

ASSUME ProxyAssumption == BodyLen \in Nat /\ AnswerLen \in Nat /\ Window \in Nat

VARIABLES
  ppc,      \* where the handler is
  read,     \* chunks read from the request's body
  toGw,     \* frames on their way to the gateway: HeadFrame, chunks, EndFrame
  gwSaw,    \* frames the gateway has read
  fromGw,   \* frames on their way back: [status, body, last]
  answered, \* frames the gateway has sent
  gwEnd,    \* how the gateway ended the stream: "", "eof", "error"
  reply,    \* what the client got: [status, body, trailers]; status 0 while none was written
  present,  \* whether the client is still there
  outcome,  \* "", "ok", "error" (returned to handleRuntimeProxy), "json" (an error reply)
  method,   \* "DELETE", which may change the catalogue, or "other"
  fired     \* whether the Models page was told that the catalogue may have changed

proxyVars == <<ppc, read, toGw, gwSaw, fromGw, answered, gwEnd, reply, present, outcome,
               method, fired>>
gwVars    == <<gwSaw, answered, gwEnd>>

\* The frames of a request: its head, the chunks 1..BodyLen, and the end of the stream.
HeadFrame == 0
EndFrame  == BodyLen + 1

NoReply == [status |-> 0, body |-> <<>>, trailers |-> FALSE]

ProxyTypeOK ==
  /\ ppc \in {"route", "start", "head", "body", "close", "recv", "done"}
  /\ read \in 0..BodyLen /\ Len(toGw) <= Window /\ Len(fromGw) <= Window
  /\ gwEnd \in {"", "eof", "error"} /\ outcome \in {"", "ok", "error", "json"}
  /\ reply.status \in {0, 200, 404, 502, 503}

ProxyInit ==
  /\ ppc = "route" /\ read = 0 /\ toGw = <<>> /\ gwSaw = <<>> /\ fromGw = <<>> /\ answered = <<>>
  /\ gwEnd = "" /\ reply = NoReply /\ present = TRUE /\ outcome = ""
  /\ method \in {"DELETE", "other"} /\ fired = FALSE

-----------------------------------------------------------------------------
(* The handler.                                                            *)

\* Back in handleRuntimeProxy: a DELETE that was proxied well wakes the Models page.
Return(o) ==
  /\ ppc' = "done" /\ outcome' = o
  /\ fired' = (o = "ok" /\ method = "DELETE")

Continue(next) == ppc' = next /\ UNCHANGED <<outcome, fired>>

\* A path without a runtime, or one that is not installed or does not start, is answered.
handleRuntimeProxy ==
  /\ ppc = "route"
  /\ \/ Continue("start") /\ UNCHANGED reply
     \/ Return("json") /\ \E s \in {404, 502, 503} : reply' = [NoReply EXCEPT !.status = s]
  /\ UNCHANGED <<method, read, toGw, fromGw, present, gwVars>>

\* The stream is opened, or that fails.
OpenStream ==
  /\ ppc = "start"
  /\ \/ Continue("head")
     \/ Return("error")
  /\ UNCHANGED <<method, read, toGw, fromGw, reply, present, gwVars>>

\* Send blocks while the window is full, and fails once the stream is over.
SendFrame(f, next) ==
  IF gwEnd # "" \/ ~present THEN Return("error") /\ UNCHANGED toGw
  ELSE Len(toGw) < Window /\ toGw' = Append(toGw, f) /\ Continue(next)

SendHeader ==
  /\ ppc = "head" /\ SendFrame(HeadFrame, "body")
  /\ UNCHANGED <<method, read, fromGw, reply, present, gwVars>>

\* Mutant: the end of the body is announced with its last chunk still unread.
EndsEarly ==
  /\ ppc = "body"
  /\ IF read < BodyLen - 1 THEN SendFrame(read + 1, "body") /\ read' = read + 1
     ELSE SendFrame(EndFrame, "close") /\ UNCHANGED read
  /\ UNCHANGED <<method, fromGw, reply, present, gwVars>>

\* A chunk is read and sent; at its end the body is announced complete.  A read that
\* fails because the client went away ends the request.
streamRequestBody ==
  /\ ppc = "body"
  /\ \/ read < BodyLen /\ SendFrame(read + 1, "body") /\ read' = read + 1
     \/ read = BodyLen /\ SendFrame(EndFrame, "close") /\ UNCHANGED read
     \/ ~present /\ Return("error") /\ UNCHANGED <<read, toGw>>
  /\ UNCHANGED <<method, fromGw, reply, present, gwVars>>

CloseSend ==
  /\ ppc = "close" /\ Continue("recv")
  /\ UNCHANGED <<method, read, toGw, fromGw, reply, present, gwVars>>

\* A response frame: the first sets the status, the last the trailers.  A write to a client
\* that is gone ends the request.
Recv ==
  /\ ppc = "recv"
  /\ \/ /\ fromGw # <<>> /\ fromGw' = Tail(fromGw)
        /\ LET f == Head(fromGw)
               status == IF reply.status # 0 THEN reply.status ELSE IF f.status = 0 THEN 200 ELSE f.status
           IN IF f.body # <<>> /\ ~present
              THEN reply' = [reply EXCEPT !.status = status] /\ \E o \in {"ok", "error"} : Return(o)
              ELSE /\ reply' = [status |-> status, body |-> reply.body \o f.body, trailers |-> f.last]
                   /\ IF f.last THEN Return("ok") ELSE Continue("recv")
     \/ /\ fromGw = <<>> /\ gwEnd # "" /\ Return(IF gwEnd = "eof" THEN "ok" ELSE "error")
        /\ UNCHANGED <<fromGw, reply>>
     \/ ~present /\ Return("error") /\ UNCHANGED <<fromGw, reply>>
  /\ UNCHANGED <<method, read, toGw, present, gwVars>>

-----------------------------------------------------------------------------
(* The gateway and the client.                                              *)

GatewayReads ==
  /\ gwEnd = "" /\ toGw # <<>>
  /\ toGw' = Tail(toGw) /\ gwSaw' = Append(gwSaw, Head(toGw))
  /\ UNCHANGED <<ppc, read, fromGw, answered, gwEnd, reply, present, outcome, method, fired>>

Finished == answered # <<>> /\ Last(answered).last

GatewayAnswers(status, last) ==
  /\ gwEnd = "" /\ gwSaw # <<>> /\ (Early \/ Contains(gwSaw, EndFrame)) /\ ~Finished
  /\ Len(answered) < AnswerLen /\ Len(fromGw) < Window
  /\ LET f == [status |-> status, body |-> IF last THEN <<>> ELSE <<Len(answered) + 1>>, last |-> last]
     IN fromGw' = Append(fromGw, f) /\ answered' = Append(answered, f)
  /\ UNCHANGED <<ppc, read, toGw, gwSaw, gwEnd, reply, present, outcome, method, fired>>

\* The stream ends, in order or because the gateway fails.
GatewayEnds ==
  /\ gwEnd = "" /\ ppc \notin {"route", "start"}
  /\ gwEnd' \in {"eof", "error"}
  /\ UNCHANGED <<ppc, read, toGw, gwSaw, fromGw, answered, reply, present, outcome, method, fired>>

ClientLeaves ==
  /\ present /\ present' = FALSE /\ ppc # "done"
  /\ UNCHANGED <<ppc, read, toGw, fromGw, reply, outcome, method, fired, gwVars>>

ProxyNext ==
  \/ handleRuntimeProxy \/ OpenStream \/ SendHeader \/ streamRequestBody \/ CloseSend \/ Recv
  \/ GatewayReads \/ GatewayEnds \/ ClientLeaves
  \/ \E status \in {0, 404}, last \in BOOLEAN : GatewayAnswers(status, last)

ProxySpec == ProxyInit /\ [][ProxyNext]_proxyVars

-----------------------------------------------------------------------------
(* Properties.                                                             *)

\* The chunks of the answer so far: frame i carries chunk i, and the last frame none.
Bodies == [i \in 1..(IF Finished THEN Len(answered) - 1 ELSE Len(answered)) |-> i]

\* The two directions arrive whole and in order.  The gateway is told that the request is
\* complete only after every chunk of it; and the client gets a prefix of what the
\* gateway answered under the status of its first frame, all of it with the trailers when
\* the gateway had finished and the handler ended well with the client still there.
ProxyFaithful ==
  /\ Contains(gwSaw, EndFrame) => gwSaw = [i \in 1..BodyLen + 2 |-> i - 1]
  /\ outcome # "json" => IsPrefix(reply.body, Bodies)
  /\ outcome # "json" /\ reply.status # 0 =>
       reply.status = IF answered[1].status = 0 THEN 200 ELSE answered[1].status
  /\ outcome = "ok" /\ present /\ Finished => reply.body = Bodies /\ reply.trailers

\* A request that failed before the gateway answered does not look like a success.  It
\* does: the handler logs the error and returns, and net/http answers 200.
FailureShown == ppc = "done" /\ outcome = "error" /\ present => reply.status # 0

\* The two ends never wait for each other: the handler to send its request, the gateway
\* to send an answer that nobody reads yet.  With a gateway that answers early they may.
NeverCrossed ==
  ~(ppc = "body" /\ Len(toGw) = Window /\ Len(fromGw) = Window /\ gwEnd = "" /\ present)
=============================================================================
