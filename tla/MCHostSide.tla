------------------------------- MODULE MCHostSide -------------------------------
(***************************************************************************)
(* The benchmarks, the daemon process, the operations on the model store   *)
(* and the proxy to a runtime's gateway, for TLC.  They share no variable, *)
(* so each behaviour explores one of them (part); the readers of the       *)
(* queues and the imports of Catalogue are parts of their own.             *)
(***************************************************************************)
EXTENDS Bench, Daemon, Catalogue, Proxy

VARIABLE part
hostVars == <<part, benchVars, daemonVars, catVars, proxyVars>>

FileOfDef == [j1 |-> <<"m", "a">>, j2 |-> <<"n">>]
\* A directory with a queued file below it, a path below a queued one, two queued files.
DeletePlansDef == {{<<"m">>}, {<<"n", "x">>}, {<<"m", "a">>, <<"n">>}}
\* Imports that overlap in a file, one of a file that is there, one of a refused path, an empty one.
ImportPlansDef == {<< <<"m", "a">>, <<"m", "b">> >>, << <<"m", "b">>, BadPath >>, <<>>}

MCInit ==
  /\ part \in {"bench", "daemon", "deletes", "snapshot", "imports", "proxy"}
  /\ BenchInit /\ DaemonInit /\ CatInit /\ ProxyInit
  /\ part = "proxy" \/ method = "other"

BenchStep(A)   == part = "bench" /\ A /\ UNCHANGED <<part, daemonVars, catVars, proxyVars>>
ProcessStep(A) == part = "daemon" /\ A /\ UNCHANGED <<part, benchVars, catVars, proxyVars>>
CatStep(p, A)  == part = p /\ A /\ UNCHANGED <<part, benchVars, daemonVars, proxyVars>>
ProxyStep(A)   == part = "proxy" /\ A /\ UNCHANGED <<part, benchVars, daemonVars, catVars>>

MCNext ==
  \/ BenchStep(BenchNext) \/ ProcessStep(DaemonNext) \/ ProxyStep(ProxyNext)
  \/ CatStep("deletes", RowsNext \/ DeleteNext)
  \/ CatStep("snapshot", RowsNext \/ SnapshotNext)
  \/ CatStep("imports", ImportNext)

\* The fairness of the benchmarks and of the daemon.
MCSpec ==
  /\ MCInit /\ [][MCNext]_hostVars
  /\ WF_hostVars(BenchStep(SweepStep)) /\ WF_hostVars(BenchStep(RunnersRun))
  /\ WF_hostVars(BenchStep(DrainStep)) /\ WF_hostVars(BenchStep(PlacerRuns))
  /\ \A d \in Daemons : WF_hostVars(ProcessStep(DaemonRuns(d)))

TypeOK == BenchTypeOK /\ DaemonTypeOK /\ CatTypeOK /\ ProxyTypeOK
=============================================================================
