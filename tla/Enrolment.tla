------------------------------- MODULE Enrolment -------------------------------
(***************************************************************************)
(* How a worker gets in: the admission part of Hub.Connect (hub.go), the   *)
(* Enroller (enroll.go) over the join_tokens and workers tables, the       *)
(* operator's mint and revoke, and the Fleet's map of live streams.        *)
(* A credential is opaque: a join token, or the secret of a worker id,     *)
(* which only that id's hash matches.  A connection is a handler goroutine *)
(* and takes its database and fleet steps one at a time.                   *)
(***************************************************************************)
EXTENDS Naturals, FiniteSets, Functions

CONSTANTS Conns, WorkerIds, JoinTokens,
          TokenTtl,  \* lifetime of a join token
          MaxTime    \* bound: the clock

ASSUME EnrolAssumption == TokenTtl \in Nat \ {0} /\ MaxTime \in Nat /\ JoinTokens \cap WorkerIds = {}

Nobody == "nobody"
ASSUME NobodyAssumption == Nobody \notin Conns \cup WorkerIds \cup JoinTokens
SecretOf(w) == w   \* a secret is written like the one id whose hash it matches

VARIABLES
  clock,      \* unix seconds
  noAuth,     \* no operator token is configured
  tokenRows,  \* join_tokens: token -> expires_at
  credRows,   \* workers: the ids with a stored secret hash
  minted,     \* history: token -> expires_at, never pruned
  known,      \* history: the worker ids ever assigned
  revoked,    \* history: the worker ids revoked
  conn,       \* conn[c]: the handler of a stream
  fleet       \* Fleet.workers: id -> connection or Nobody

enrolVars == <<clock, noAuth, tokenRows, credRows, minted, known, revoked, conn, fleet>>

\* [pc, valid, bearer, pid (X-Mass-Worker-Id), id, and the tokens and ids that
\* were already worthless when the stream opened]
Closed == [pc |-> "new", valid |-> FALSE, bearer |-> Nobody, pid |-> Nobody, id |-> Nobody, dead |-> {}]

EnrolInit ==
  /\ clock = 0 /\ noAuth \in BOOLEAN
  /\ tokenRows = [t \in {} |-> 0] /\ minted = [t \in {} |-> 0]
  /\ credRows = {} /\ known = {} /\ revoked = {}
  /\ conn = [c \in Conns |-> Closed]
  /\ fleet = [w \in WorkerIds |-> Nobody]

ConnGoto(c, pc) == conn' = [conn EXCEPT ![c].pc = pc]

-----------------------------------------------------------------------------
(* The operator.                                                            *)

\* Mutant of Unexpired: the expired rows are what is kept.
UnexpiredInverted(rows) == Restrict(rows, {t \in DOMAIN rows : rows[t] <= clock})

\* Both token statements prune the expired rows first.
Unexpired(rows) == Restrict(rows, {t \in DOMAIN rows : rows[t] > clock})

\* One transaction: the prune and the insert.
WithRow(rows, t, expires) == [x \in DOMAIN rows \cup {t} |-> IF x = t THEN expires ELSE rows[x]]
InsertJoinToken(t, expires) == tokenRows' = WithRow(Unexpired(tokenRows), t, expires)

MintJoinToken(t) ==
  /\ t \notin DOMAIN minted
  /\ InsertJoinToken(t, clock + TokenTtl) /\ minted' = WithRow(minted, t, clock + TokenTtl)
  /\ UNCHANGED <<clock, noAuth, credRows, known, revoked, conn, fleet>>

DeleteWorker(w) == w \in credRows /\ credRows' = credRows \ {w}

\* revokeWorker: the row goes; a live stream stays until it ends.
RevokeWorker(w) ==
  /\ DeleteWorker(w) /\ revoked' = revoked \cup {w}
  /\ UNCHANGED <<clock, noAuth, tokenRows, minted, known, conn, fleet>>

Elapse ==
  /\ clock < MaxTime /\ clock' = clock + 1
  /\ UNCHANGED <<noAuth, tokenRows, credRows, minted, known, revoked, conn, fleet>>

-----------------------------------------------------------------------------
(* Connect.                                                                 *)

\* Mutant of OpenStream: the registration is checked, but too late.
OpenStreamUnchecked(c, bearer, pid, valid) ==
  /\ conn[c].pc = "new"
  /\ conn' = [conn EXCEPT ![c] = [pc |-> IF pid = Nobody THEN "join" ELSE "secret",
                                  valid |-> valid, bearer |-> bearer, pid |-> pid, id |-> Nobody,
                                  dead |-> revoked \cup {t \in DOMAIN minted : minted[t] <= clock}]]
  /\ UNCHANGED <<clock, noAuth, tokenRows, credRows, minted, known, revoked, fleet>>

\* The first message is read and validated (runtime name, runtime installed,
\* protocol, index compatibility) before any credential is touched.
OpenStream(c, bearer, pid, valid) ==
  /\ conn[c].pc = "new"
  /\ conn' = [conn EXCEPT ![c] = [pc |-> IF ~valid THEN "rejected" ELSE IF pid = Nobody THEN "join" ELSE "secret",
                                  valid |-> valid, bearer |-> bearer, pid |-> pid, id |-> Nobody,
                                  dead |-> revoked \cup {t \in DOMAIN minted : minted[t] <= clock}]]
  /\ UNCHANGED <<clock, noAuth, tokenRows, credRows, minted, known, revoked, fleet>>

\* Mutant of authenticateWorker: a missing row is not told from a present one.
authenticateWorkerLenient(w, bearer) == bearer = SecretOf(w)

GetWorker(w) == w \in credRows

\* The stored hash of the presented id matches the presented secret.
authenticateWorker(w, bearer) == GetWorker(w) /\ bearer = SecretOf(w)

\* Steady state, also without operator auth; a failed read of the row is an
\* internal error and refuses too.
AuthSecret(c) ==
  /\ conn[c].pc = "secret"
  /\ \/ /\ conn[c].bearer # Nobody /\ authenticateWorker(conn[c].pid, conn[c].bearer)
        /\ conn' = [conn EXCEPT ![c].pc = "register", ![c].id = conn[c].pid]
     \/ ConnGoto(c, "rejected")
  /\ UNCHANGED <<clock, noAuth, tokenRows, credRows, minted, known, revoked, fleet>>

\* Enrolment: the join token must be live, unless auth is off.
validateJoinToken(c) ==
  /\ conn[c].pc = "join"
  /\ IF noAuth
       THEN ConnGoto(c, "enroll") /\ UNCHANGED tokenRows
       ELSE \/ /\ conn[c].bearer = Nobody /\ ConnGoto(c, "rejected") /\ UNCHANGED tokenRows
            \/ /\ conn[c].bearer # Nobody
               /\ tokenRows' = Unexpired(tokenRows)
               /\ ConnGoto(c, IF conn[c].bearer \in DOMAIN Unexpired(tokenRows) THEN "enroll" ELSE "rejected")
  /\ UNCHANGED <<clock, noAuth, credRows, minted, known, revoked, fleet>>

InsertWorker(w) == credRows' = credRows \cup {w}

\* A fresh id and its secret's hash are stored; then WorkerEnrolled is sent,
\* and if that fails the handler returns and the row stays.
Enroll(c, w) ==
  /\ conn[c].pc = "enroll" /\ w \notin known
  /\ InsertWorker(w) /\ known' = known \cup {w}
  /\ conn' = [conn EXCEPT ![c].pc = "welcome", ![c].id = w]
  /\ UNCHANGED <<clock, noAuth, tokenRows, minted, revoked, fleet>>

SendEnrolled(c) ==
  /\ conn[c].pc = "welcome"
  /\ \E pc \in {"register", "rejected"} : ConnGoto(c, pc)
  /\ UNCHANGED <<clock, noAuth, tokenRows, credRows, minted, known, revoked, fleet>>

\* Mutant of FleetRegister: a second stream takes the entry over.
FleetRegisterOver(c) ==
  /\ conn[c].pc = "register"
  /\ ConnGoto(c, "serving") /\ fleet' = [fleet EXCEPT ![conn[c].id] = c]
  /\ UNCHANGED <<clock, noAuth, tokenRows, credRows, minted, known, revoked>>

FleetRegister(c) ==
  /\ conn[c].pc = "register"
  /\ IF fleet[conn[c].id] = Nobody
       THEN ConnGoto(c, "serving") /\ fleet' = [fleet EXCEPT ![conn[c].id] = c]
       ELSE ConnGoto(c, "rejected") /\ UNCHANGED fleet
  /\ UNCHANGED <<clock, noAuth, tokenRows, credRows, minted, known, revoked>>

\* The stream ends; the deferred function removes the entry under its id,
\* whoever's it is.
FleetDeregister(c) ==
  /\ conn[c].pc = "serving"
  /\ ConnGoto(c, "ended") /\ fleet' = [fleet EXCEPT ![conn[c].id] = Nobody]
  /\ UNCHANGED <<clock, noAuth, tokenRows, credRows, minted, known, revoked>>

\* What a client can present: nothing, or a credential that was handed out.
Bearers == {Nobody} \cup DOMAIN minted \cup {SecretOf(w) : w \in known}

EnrolNext ==
  \/ Elapse
  \/ \E t \in JoinTokens : MintJoinToken(t)
  \/ \E w \in WorkerIds : RevokeWorker(w)
  \/ \E c \in Conns :
       \/ \E b \in Bearers, p \in known \cup {Nobody}, v \in BOOLEAN : OpenStream(c, b, p, v)
       \/ AuthSecret(c) \/ validateJoinToken(c) \/ SendEnrolled(c) \/ FleetRegister(c) \/ FleetDeregister(c)
       \/ \E w \in WorkerIds : Enroll(c, w)

EnrolSpec == EnrolInit /\ [][EnrolNext]_enrolVars

-----------------------------------------------------------------------------
ConnStates == {"new", "join", "secret", "enroll", "welcome", "register", "serving", "ended", "rejected"}

EnrolTypeOK ==
  /\ clock \in 0..MaxTime /\ noAuth \in BOOLEAN
  /\ DOMAIN tokenRows \subseteq JoinTokens /\ credRows \subseteq known /\ known \subseteq WorkerIds
  /\ \A c \in Conns : conn[c].pc \in ConnStates /\ conn[c].id \in WorkerIds \cup {Nobody}
  /\ fleet \in [WorkerIds -> Conns \cup {Nobody}]

\* The fleet's entry of a worker is the stream whose handler is running: no
\* second stream serves the same id, and the deferred Deregister of an old
\* stream, which removes by id, never takes away a new stream's entry.
OneStreamPerWorker ==
  /\ \A c \in Conns : conn[c].pc = "serving" => fleet[conn[c].id] = c
  /\ \A w \in WorkerIds : fleet[w] # Nobody => conn[fleet[w]].pc = "serving" /\ conn[fleet[w]].id = w

\* Whoever serves was admitted: its registration was valid and it used neither
\* a token that had expired nor an id that had been revoked when its stream
\* opened, however the checks interleave with expiry and revocation; and no
\* live token has been pruned, nor has a rejected registration left a row.
AdmissionJustified ==
  /\ \A c \in Conns : conn[c].pc = "serving" =>
       /\ conn[c].valid /\ conn[c].id \notin conn[c].dead
       /\ conn[c].pid = Nobody /\ ~noAuth => conn[c].bearer \in DOMAIN minted \ conn[c].dead
  /\ \A t \in DOMAIN minted : minted[t] > clock => t \in DOMAIN tokenRows
  /\ \A w \in credRows : \E c \in Conns : conn[c].id = w /\ conn[c].pid = Nobody /\ conn[c].valid
=============================================================================
