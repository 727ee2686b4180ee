----------------------------- MODULE MCWorkerSide -----------------------------
(***************************************************************************)
(* The worker side, for TLC: one worker's stream, the view the scheduler   *)
(* has of it, its admission and its device whitelist.  The four share no   *)
(* variable, so each behaviour explores one of them (part) and leaves the  *)
(* others in their initial state: their interleavings would add nothing.   *)
(* The stream is explored with three sets of calls; the view once with     *)
(* idle eviction and an unchanging store, once with the store changing and *)
(* no eviction, which never read what the other writes.                    *)
(***************************************************************************)
EXTENDS StreamWorker, WorkerView, Enrolment, Whitelist

VARIABLE part
sideVars == <<part, connVars, viewVars, enrolVars, wlVars>>

FilesDef  == [m \in Models |-> {<<"a", "x">>}]
PathsDef  == {<<"a">>, <<"a", "x">>}
StoresDef == {{}, {<<"a", "x">>}}

\* The calls that are made in each exploration of the stream.
CallsOf == [calls |-> JobCalls \cup LoadCalls, admin |-> UnloadCalls \cup DeviceBenches, benches |-> ModelBenches]

MCInit ==
  /\ part \in {"calls", "admin", "benches", "evict", "reconcile", "enrol", "whitelist"}
  /\ ConnInit /\ ViewInit /\ EnrolInit /\ WlInit
  /\ part # "reconcile" => store = {}
  /\ part # "evict" => truth = [m \in Models |-> "out"]
  /\ part = "evict" => \A m \in Models : truth[m] = "out" <=> m = loader.model
  /\ part # "enrol" => noAuth = FALSE

StreamStep(A) == A /\ part \in DOMAIN CallsOf /\ UNCHANGED <<part, viewVars, enrolVars, wlVars>>

MCNext ==
  \/ /\ StreamStep(ConnNext)
     /\ \A c \in Calls \ CallsOf[part] : call'[c] = "idle"
  \/ /\ part = "evict"  /\ ViewNext  /\ UNCHANGED <<part, connVars, enrolVars, wlVars, store, memo>>
     /\ loader'.model = loader.model
  \/ part = "reconcile" /\ ViewNext  /\ UNCHANGED <<part, connVars, enrolVars, wlVars, evictor, tick>>
  \/ part = "enrol"     /\ EnrolNext /\ UNCHANGED <<part, connVars, viewVars, wlVars>>
  \/ part = "whitelist" /\ WlNext    /\ UNCHANGED <<part, connVars, viewVars, enrolVars>>

\* The fairness of StreamWorker; the other parts need none.
MCSpec ==
  /\ MCInit /\ [][MCNext]_sideVars
  /\ WF_sideVars(StreamStep(HubRuns)) /\ WF_sideVars(StreamStep(WatcherRuns))
  /\ \A c \in Calls : WF_sideVars(StreamStep(CallerRuns(c)))

TypeOK == ConnTypeOK /\ ViewTypeOK /\ EnrolTypeOK /\ WlTypeOK
=============================================================================
