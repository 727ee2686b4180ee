------------------------------ MODULE MCGatewaySide ------------------------------
(***************************************************************************)
(* What stands beside the scheduler, for TLC: placement and load planning, *)
(* the managers of downloads and runtimes, the package registry and the    *)
(* live tabs of the dashboard.  They share no variable, so each behaviour  *)
(* explores one of them (part).  Placement is explored once without        *)
(* evictions and with one toggle, and once with both, with one upset or    *)
(* with one job.                                                           *)
(***************************************************************************)
EXTENDS Placement, LoadPlan, Downloads, Runtimes, Registry, Tabs, ModelsTab, TLC

VARIABLE part
gateVars == <<part, placeVars, planVars, dlVars, rtVars, regVars, tabsVars, mtVars>>

Parts == {"place", "evict", "plan", "downloads", "runtimes", "registry", "tabs", "tails", "models"}

\* Indexes that differ in what makes a verdict hard: two versions of a package, one version
\* in two packages whose ranges are split, an unparseable range, two backends.
Row(pkg, ver, rt, ms, back) == [pkg |-> pkg, ver |-> ver, rt |-> rt, mass |-> ms, back |-> back]
RowOld   == Row("p", 1, {1}, {1}, {"cpu"})
RowNew   == Row("p", 2, {1, 2}, {2, Top}, {"cpu"})
RowSplit == Row("q", 1, {2}, {2}, {})
RowBad   == Row("q", 1, AnyRange, BadRange, {"cpu"})
RowWide  == Row("p", 1, AnyRange, {1, 2, Top}, {"cpu", "gpu"})
RowsDef    == {RowOld, RowNew, RowSplit, RowBad, RowWide}
IndexesDef == {{RowOld, RowNew}, {RowOld, RowSplit}, {RowNew, RowWide}, {RowSplit, RowBad}}

\* The jobs and the workers of Placement are alike.
Alike == Permutations(PJobs) \cup Permutations(PWorkers)

OneJob == Cardinality({j \in PJobs : prow[j].at # "new"}) <= 1
NoToggleYet == \A w \in PWorkers : ~ halved[w]

TopicDef == [a |-> "workers", b |-> "workers"]

MCInit ==
  /\ part \in Parts
  /\ PlaceInit /\ PlanInit /\ DlInit /\ RtInit /\ RegInit /\ TabsInit /\ MtInit
  /\ part = "plan" \/ reports
  /\ part = "registry" \/ (published = {RowOld, RowNew} /\ rtVer = 0 /\ mass.kind = "release")
  /\ part = "models" \/ (gwUp = {} /\ \A g \in MGroups : disk[g] = {})

MCNext ==
  \/ /\ part \in {"place", "evict"} /\ PlaceNext /\ UNCHANGED <<part, planVars, dlVars, rtVars, regVars, tabsVars, mtVars>>
     /\ IF part = "place" THEN placer'["operator"].at = "idle" /\ (halved' # halved => NoToggleYet)
        ELSE spent' <= 1 \/ OneJob'
  \/ /\ part = "plan" /\ PlanNext /\ UNCHANGED <<part, placeVars, dlVars, rtVars, regVars, tabsVars, mtVars>>
     /\ sizing' = <<>> \/ (reports /\ serving = {})
  \/ part = "downloads" /\ DlNext /\ UNCHANGED <<part, placeVars, planVars, rtVars, regVars, tabsVars, mtVars>>
  \/ part = "runtimes" /\ RtNext /\ UNCHANGED <<part, placeVars, planVars, dlVars, regVars, tabsVars, mtVars>>
  \/ part = "registry" /\ RegNext /\ UNCHANGED <<part, placeVars, planVars, dlVars, rtVars, tabsVars, mtVars>>
  \/ part = "tabs" /\ TabNext /\ UNCHANGED <<part, placeVars, planVars, dlVars, rtVars, regVars, mtVars>>
  \/ part = "tails" /\ TailNext /\ UNCHANGED <<part, placeVars, planVars, dlVars, rtVars, regVars, mtVars>>
  \/ part = "models" /\ MtNext /\ UNCHANGED <<part, placeVars, planVars, dlVars, rtVars, regVars, tabsVars>>

MCSpec == MCInit /\ [][MCNext]_gateVars

TypeOK == PlaceTypeOK /\ PlanTypeOK /\ DlTypeOK /\ RtTypeOK /\ RegTypeOK /\ TabsTypeOK /\ MtTypeOK
=============================================================================
