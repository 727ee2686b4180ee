---------------------------- MODULE MCSchedulerSide ----------------------------
(***************************************************************************)
(* The dispatcher's surroundings, for TLC: restart and recovery, the loop  *)
(* with its drains, and the body of a queue row.  They share no variable,  *)
(* so each behaviour explores one of them (part) and leaves the others in  *)
(* their initial state.                                                    *)
(***************************************************************************)
EXTENDS Restart, Drain, Envelope

VARIABLE part
schedVars == <<part, restVars, drainVars, envVars>>

\* Requests that differ where the format has edges: names of no bytes, of the last length
\* that fits and of the first that does not, with a prefix and without; a blob whose
\* length needs the second cell; a negative headroom; nothing to load.
Name(n) == [i \in 1..n |-> 1]
Plain == [prio |-> 1, cost |-> 1, headroom |-> 2, runtime |-> Name(1), model |-> Name(2), source |-> <<>>,
          files |-> 0, hints |-> <<>>, payload |-> <<>>]
PrefixDef == <<2>>
EnvRequestsDef ==
  {Plain} \cup {[Plain EXCEPT !.runtime = Name(n), !.source = Name(k)] : n \in {0, ByteMax - 1, ByteMax, Base}, k \in {0, ByteMax, Base}}
  \cup {[Plain EXCEPT !.model = Name(n), !.cost = c] : n \in {ByteMax, Base}, c \in 0..1}
  \cup {[Plain EXCEPT !.files = b.f, !.hints = Name(b.n), !.payload = b.p, !.headroom = b.h] :
           b \in [f : 0..1, n : {0, ByteMax, 2 * Base}, p : {<<0, 3>>}, h : {-1}]}

MCInit ==
  /\ part \in {"restart", "drain", "envelope"}
  /\ RestInit /\ DrainInit /\ EnvInit
  /\ part = "envelope" \/ request = Plain

RestStep(A) == part = "restart" /\ A /\ UNCHANGED <<part, drainVars, envVars>>
LoopStep(A) == part = "drain" /\ A /\ UNCHANGED <<part, restVars, envVars>>
BodyStep(A) == part = "envelope" /\ A /\ UNCHANGED <<part, restVars, drainVars>>

MCNext == RestStep(RestNext) \/ LoopStep(DrainNext) \/ BodyStep(EnvNext)

\* The fairness of the first two parts; the third claims safety only.
MCSpec ==
  /\ MCInit /\ [][MCNext]_schedVars
  /\ WF_schedVars(RestStep(StartRuns)) /\ \A j \in RJobs : WF_schedVars(RestStep(JobRuns(j)))
  /\ \A w \in RWorkers : WF_schedVars(RestStep(QueueRuns(w)))
  /\ WF_schedVars(LoopStep(LoopRuns)) /\ WF_schedVars(LoopStep(DrainerRuns)) /\ WF_schedVars(LoopStep(releaseGate))
  /\ \A j \in DJobs : /\ WF_schedVars(LoopStep(DeferralEnds(j))) /\ WF_schedVars(LoopStep(WorkerFinishes(j)))
                      /\ WF_schedVars(LoopStep(PumpEnds(j)))

TypeOK == RestTypeOK /\ DrainTypeOK /\ EnvTypeOK
=============================================================================
