--------------------------------- MODULE Daemon ---------------------------------
(***************************************************************************)
(* The local daemon's life: launchers that look for it, replace it and     *)
(* start it (cmd/mass/launch.go, gui.go), its start and teardown           *)
(* (cmd/mass/serve.go), the idle countdown that retires a daemon started   *)
(* on demand (internal/web/idle.go), and the control surface and update    *)
(* that stop one (internal/web/daemonctl.go, update.go).  There is no      *)
(* lock: the listen address is all the processes share, besides the        *)
(* database.                                                               *)
(***************************************************************************)
EXTENDS Integers, FiniteSets

CONSTANTS
  Clients,       \* processes of `mass`: a CLI verb or a window
  Windows,       \* the clients that are windows
  Stale,         \* the clients of the build before the update
  MaxDaemons,    \* bound: daemon processes started
  OperatorRuns,  \* whether an operator starts `mass serve` too
  MaxDownloads   \* bound: downloads started

ASSUME DaemonAssumption == Windows \subseteq Clients /\ Stale \subseteq Clients /\ MaxDaemons \in Nat /\ MaxDownloads \in Nat

VARIABLES
  daemons,      \* processes started, an initial part of 1..MaxDaemons
  client,       \* [Clients -> where it is, and the daemon its request is on]
  fetched       \* downloads started

daemonVars == <<daemons, client, fetched>>

Daemons == 1..MaxDaemons
Builds == {"old", "new"}
BuildOf(c) == IF c \in Stale THEN "old" ELSE "new"

DaemonTypeOK ==
  /\ DOMAIN daemons \subseteq Daemons /\ fetched \in 0..MaxDownloads
  /\ \A d \in DOMAIN daemons :
       daemons[d] \in [build : Builds, onDemand : BOOLEAN, phase : {"boot", "recovered", "serving", "draining", "gone"},
                       asked : BOOLEAN, armed : BOOLEAN, due : BOOLEAN, fired : BOOLEAN, busy : BOOLEAN]
  /\ client \in [Clients -> [at : {"new", "ask", "await", "spawn", "wait", "attached", "using", "done"},
                             on : DOMAIN daemons \cup {0}, told : BOOLEAN]]

DaemonInit ==
  /\ daemons = <<>> /\ fetched = 0
  /\ client = [c \in Clients |-> [at |-> "new", on |-> 0, told |-> FALSE]]

------------------------------------------------------------------------------

\* The daemon that answers at the address.
Answers(d) == d \in DOMAIN daemons /\ daemons[d].phase = "serving"
AddressFree == \A d \in DOMAIN daemons : ~Answers(d)
Move(c, at) == client' = [client EXCEPT ![c].at = at]
Set(d, rec) == daemons' = [daemons EXCEPT ![d] = rec]

\* A process of the build starts `mass serve`.
Start(build, onDemand) ==
  LET d == Cardinality(DOMAIN daemons) + 1
  IN  /\ d \in Daemons
      /\ daemons' = [i \in 1..d |-> IF i < d THEN daemons[i]
           ELSE [build |-> build, onDemand |-> onDemand, phase |-> "boot", asked |-> FALSE,
                 armed |-> FALSE, due |-> FALSE, fired |-> FALSE, busy |-> FALSE]]

Operator(build) == /\ OperatorRuns /\ Start(build, FALSE) /\ UNCHANGED <<client, fetched>>

\* ensureDaemon's probe and what it decides on the answer.
ensureDaemon(c) ==
  /\ client[c].at = "new"
  /\ \/ AddressFree /\ Move(c, "spawn")
     \/ \E d \in DOMAIN daemons :
          /\ Answers(d)
          /\ Move(c, IF daemons[d].build # BuildOf(c) /\ daemons[d].onDemand THEN "ask" ELSE "attached")
  /\ UNCHANGED <<daemons, fetched>>

\* The endpoint answers at once and leaves the teardown to a goroutine.
handleDaemonShutdown(d) == Answers(d) /\ Set(d, [daemons[d] EXCEPT !.asked = TRUE])

\* requestDaemonShutdown reaches whatever answers by now; refused, or with nobody
\* there, the launcher attaches anyway.
requestDaemonShutdown(c) ==
  /\ client[c].at = "ask"
  /\ \/ (\E d \in DOMAIN daemons : handleDaemonShutdown(d)) /\ Move(c, "await")
     \/ Move(c, "attached") /\ UNCHANGED daemons
  /\ UNCHANGED fetched

\* waitForDaemonExit, or its timeout.
waitForDaemonExit(c) ==
  /\ client[c].at = "await"
  /\ \/ AddressFree /\ Move(c, "spawn")
     \/ ~AddressFree /\ Move(c, "done")
  /\ UNCHANGED <<daemons, fetched>>

\* spawnAndWait's spawn.
spawnDetached(c) ==
  /\ client[c].at = "spawn" /\ Start(BuildOf(c), TRUE) /\ Move(c, "wait") /\ UNCHANGED fetched

\* waitForDaemon takes any MASS daemon, or times out.
waitForDaemon(c) ==
  /\ client[c].at = "wait"
  /\ Move(c, IF AddressFree THEN "done" ELSE "attached")
  /\ UNCHANGED <<daemons, fetched>>

------------------------------------------------------------------------------
(* Start and teardown of a daemon.                                         *)

\* runServe up to the listener: the database, the downloads' Recover and the
\* scheduler's Start.
runServe(d) ==
  /\ d \in DOMAIN daemons /\ daemons[d].phase = "boot"
  /\ Set(d, [daemons[d] EXCEPT !.phase = "recovered"]) /\ UNCHANGED <<client, fetched>>

\* The countdown starts, then the address is bound; a taken address is fatal.
ListenAndServe(d) ==
  /\ d \in DOMAIN daemons /\ daemons[d].phase = "recovered"
  /\ Set(d, IF AddressFree THEN [daemons[d] EXCEPT !.phase = "serving", !.armed = daemons[d].onDemand]
                           ELSE [daemons[d] EXCEPT !.phase = "gone"])
  /\ UNCHANGED <<client, fetched>>

\* A signal from outside.
Signal(d) == /\ Answers(d) /\ ~daemons[d].asked
             /\ Set(d, [daemons[d] EXCEPT !.asked = TRUE]) /\ UNCHANGED <<client, fetched>>

\* shutdown: the countdown is stopped, the background work and the requests are
\* cancelled and the listener is closed; a request cancelled ends its client's use.
shutdown(d) ==
  /\ Answers(d) /\ daemons[d].asked
  /\ Set(d, [daemons[d] EXCEPT !.phase = "draining", !.fired = TRUE, !.armed = FALSE])
  /\ client' = [c \in Clients |-> IF client[c].on = d
                                  THEN [client[c] EXCEPT !.at = IF c \in Windows /\ ~client[c].told THEN "attached" ELSE "done", !.on = 0]
                                  ELSE client[c]]
  /\ UNCHANGED fetched

\* The rest of it: the gateways are stopped, the database is closed, the process ends.
Exit(d) ==
  /\ d \in DOMAIN daemons /\ daemons[d].phase = "draining"
  /\ Set(d, [daemons[d] EXCEPT !.phase = "gone", !.due = FALSE, !.busy = FALSE])
  /\ UNCHANGED <<client, fetched>>

------------------------------------------------------------------------------
(* Requests and the idle countdown.                                        *)

inFlight(d) == Cardinality({c \in Clients : client[c].on = d})

\* A verb's request, or the window's channel: begin stops the countdown, which does
\* not take back one that has run out.  With nobody at the address a verb fails and
\* a window tries again.
begin(c) ==
  /\ client[c].at = "attached"
  /\ \/ \E d \in DOMAIN daemons :
          /\ Answers(d)
          /\ client' = [client EXCEPT ![c].at = "using", ![c].on = d]
          /\ Set(d, [daemons[d] EXCEPT !.armed = FALSE])
     \/ AddressFree /\ c \notin Windows /\ Move(c, "done") /\ UNCHANGED daemons
  /\ UNCHANGED fetched

\* The request ends (a window is closed): the last one starts the countdown again.
end(c) ==
  /\ client[c].at = "using"
  /\ client' = [client EXCEPT ![c].at = "done", ![c].on = 0]
  /\ LET d == client[c].on
     IN  Set(d, [daemons[d] EXCEPT !.armed = @ \/ (daemons[d].onDemand /\ ~daemons[d].fired /\ inFlight(d) = 1)])
  /\ UNCHANGED fetched

\* A request starts a download that outlives it.
Download(c) ==
  /\ client[c].at = "using" /\ fetched < MaxDownloads
  /\ fetched' = fetched + 1
  /\ Set(client[c].on, [daemons[client[c].on] EXCEPT !.busy = TRUE])
  /\ UNCHANGED client

DownloadEnds(d) ==
  /\ Answers(d) /\ daemons[d].busy
  /\ Set(d, [daemons[d] EXCEPT !.busy = FALSE]) /\ UNCHANGED <<client, fetched>>

\* The window elapses: the timer's goroutine is started.
Elapses(d) ==
  /\ Answers(d) /\ daemons[d].armed
  /\ Set(d, [daemons[d] EXCEPT !.armed = FALSE, !.due = TRUE]) /\ UNCHANGED <<client, fetched>>

FireForgets(rec, n) == IF rec.fired \/ n > 0 \/ rec.busy THEN rec ELSE [rec EXCEPT !.fired = TRUE, !.asked = TRUE]

\* What fire decides: decline with a request in flight, check again a window later
\* with a download at work, or stop the daemon.
FireDecides(rec, n) ==
  CASE rec.fired \/ n > 0 -> rec
    [] ~rec.fired /\ n = 0 /\ rec.busy -> [rec EXCEPT !.armed = TRUE]
    [] OTHER -> [rec EXCEPT !.fired = TRUE, !.asked = TRUE]

fire(d) ==
  /\ Answers(d) /\ daemons[d].due
  /\ Set(d, [FireDecides(daemons[d], inFlight(d)) EXCEPT !.due = FALSE])
  /\ UNCHANGED <<client, fetched>>

\* The windows on the channel that still have room for one event more are told; an
\* event for one that is not reading is dropped.
send(d) == \E got \in SUBSET {w \in Windows : client[w].on = d} :
             client' = [w \in Clients |-> IF w \in got THEN [client[w] EXCEPT !.told = TRUE] ELSE client[w]]

\* handleUpdateApply: refused by a daemon an operator runs; the attached windows are
\* sent the news, and the daemon stops after a grace.
handleUpdateApply(c) ==
  LET d == client[c].on
  IN  /\ client[c].at = "using" /\ daemons[d].onDemand /\ daemons[d].build = "old" /\ ~daemons[d].asked
      /\ send(d)
      /\ Set(d, [daemons[d] EXCEPT !.asked = TRUE])
      /\ UNCHANGED fetched

ClientRuns(c) ==
  \/ ensureDaemon(c) \/ requestDaemonShutdown(c) \/ waitForDaemonExit(c) \/ spawnDetached(c) \/ waitForDaemon(c)
  \/ begin(c) \/ end(c) \/ Download(c) \/ handleUpdateApply(c)
DaemonRuns(d) == runServe(d) \/ ListenAndServe(d) \/ shutdown(d) \/ Exit(d) \/ Elapses(d) \/ fire(d) \/ DownloadEnds(d)

DaemonNext ==
  \/ \E c \in Clients : ClientRuns(c)
  \/ \E d \in Daemons : DaemonRuns(d) \/ Signal(d)
  \/ \E build \in Builds : Operator(build)

\* A daemon's goroutines and timers run; its clients may do as they like.
DaemonSpec == DaemonInit /\ [][DaemonNext]_daemonVars /\ \A d \in Daemons : WF_daemonVars(DaemonRuns(d))

------------------------------------------------------------------------------
(* Properties.                                                             *)

\* Startup recovery is alone with the database: no other daemon serves, or still
\* drains, on it when a daemon reaps and recovers what it takes for a dead one's.
RecoveryAlone ==
  [][ \A d \in DOMAIN daemons : daemons[d].phase = "boot" /\ daemons'[d].phase = "recovered" =>
        \A o \in DOMAIN daemons \ {d} : daemons[o].phase \notin {"serving", "draining"} ]_daemonVars

\* A daemon started on demand does not stay up with nobody using it: there is no
\* order of requests, downloads and timers in which the countdown is lost.
IdleRetires ==
  \A d \in Daemons : []<>( d \notin DOMAIN daemons \/ ~Answers(d) \/ ~daemons[d].onDemand
                           \/ inFlight(d) > 0 \/ daemons[d].busy )

\* An operator's daemon is stopped by its operator only, never by a launcher that
\* mistook it for the daemon it had probed.
OperatorNeverStopped ==
  [][ \A c \in Clients, d \in DOMAIN daemons :
        client[c].at = "ask" /\ client'[c].at = "await" /\ daemons'[d].asked /\ ~daemons[d].asked => daemons[d].onDemand ]_daemonVars
=============================================================================
