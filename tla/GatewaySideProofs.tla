------------------------- MODULE GatewaySideProofs --------------------------
(***************************************************************************)
(* Proofs about Runtimes, Registry, LoadPlan, ModelsTab, Tabs, Downloads   *)
(* and Placement, for any number of runtimes, requests, gateways, workers, *)
(* installations, devices, renders, tabs, files, runners, retries, deaths  *)
(* of the process and jobs, and any seconds.                               *)
(***************************************************************************)
EXTENDS Runtimes, Registry, LoadPlan, ModelsTab, Tabs, Downloads, Placement, SumLemmas

-----------------------------------------------------------------------------
(* The watchers of the gateways.                                           *)

IsGateway(x) == x \in [kind : {x.kind}, alive : {x.alive}, watch : {x.watch}]

\* The gateways ever made are numbered from 1, and are records.
GatewaysIInv ==
  /\ \E n \in Nat : DOMAIN gateways = 1..n
  /\ gateways = [g \in DOMAIN gateways |-> gateways[g]]
  /\ \A g \in DOMAIN gateways : IsGateway(gateways[g])

\* The map of the running gateways is one of the kinds.
ManagerOK == running = [k \in Kinds |-> running[k]] /\ boots \in Nat

\* Every step keeps the manager's map of running gateways a map of the kinds.
LEMMA ManagerStep == ManagerOK /\ [RtNext]_rtVars => ManagerOK'
<1> SUFFICES ASSUME ManagerOK, [RtNext]_rtVars PROVE ManagerOK'
  OBVIOUS
<1>1. ASSUME UNCHANGED <<running, boots>> PROVE ManagerOK'
  BY <1>1 DEF ManagerOK
<1>2. ASSUME NEW c \in Callers, NEW k \in Kinds, NEW op, Begin(c, op, k) \/ Stop(c, op, k) PROVE ManagerOK'
  BY <1>2 DEF Begin, Stop, ManagerOK
<1>3. ASSUME NEW c \in Callers,
             \/ extractPackage(c) \/ UpsertRuntime(c) \/ reload(c) \/ startGateway(c)
             \/ Close(c) \/ DeleteRuntime(c) \/ SetAutoStart(c)
      PROVE  ManagerOK'
  BY <1>1, <1>3 DEF extractPackage, UpsertRuntime, reload, startGateway, Close, DeleteRuntime, SetAutoStart
<1>4. ASSUME NEW c \in Callers, initGateway(c) PROVE ManagerOK'
  BY <1>4 DEF initGateway, ManagerOK
<1>5. ASSUME NEW g \in Gateways, GatewayExits(g) \/ watchGatewayExit(g) PROVE ManagerOK'
  BY <1>1, <1>5 DEF GatewayExits, watchGatewayExit
<1>6. ASSUME NEW g \in Gateways, RemoveDead(g) PROVE ManagerOK'
  BY <1>6 DEF RemoveDead, ManagerOK
<1>7. CASE Reboot
  <2>1. boots' = boots + 1 /\ running' = [k \in Kinds |-> 0]
    BY <1>7 DEF Reboot
  <2> QED BY <2>1 DEF ManagerOK
<1>8. CASE UNCHANGED rtVars
  BY <1>1, <1>8 DEF rtVars
<1> QED BY <1>2, <1>3, <1>4, <1>5, <1>6, <1>7, <1>8 DEF RtNext

\* Before the first start there is no gateway.
LEMMA GatewaysInvInit == RtInit => GatewaysIInv
<1> SUFFICES ASSUME RtInit PROVE GatewaysIInv
  OBVIOUS
<1>1. gateways = <<>>
  BY DEF RtInit
<1>2. DOMAIN gateways = 1..0 /\ gateways = [g \in DOMAIN gateways |-> gateways[g]]
  BY <1>1
<1> QED BY <1>2 DEF GatewaysIInv

\* One gateway is replaced by v.
LEMMA OneGateway ==
  ASSUME GatewaysIInv, NEW g, NEW v, g \in DOMAIN gateways => IsGateway(v),
         gateways' = [gateways EXCEPT ![g] = v]
  PROVE  /\ GatewaysIInv' /\ \A x \in DOMAIN gateways : x # g => gateways'[x] = gateways[x]
         /\ g \in DOMAIN gateways => gateways'[g] = v
BY DEF GatewaysIInv

\* A gateway process that dies keeps its watcher.
LEMMA SetAlive ==
  ASSUME GatewaysIInv, NEW g, gateways' = [gateways EXCEPT ![g].alive = FALSE]
  PROVE  GatewaysIInv' /\ \A x \in DOMAIN gateways : gateways'[x].watch = gateways[x].watch
<1> DEFINE v == [gateways[g] EXCEPT !.alive = FALSE]
<1>1. gateways' = [gateways EXCEPT ![g] = v]
  OBVIOUS
<1>2. ASSUME g \in DOMAIN gateways PROVE IsGateway(v) /\ v.watch = gateways[g].watch
  <2>1. IsGateway(gateways[g])
    BY <1>2 DEF GatewaysIInv
  <2> QED BY ONLY <2>1 DEF IsGateway
<1> HIDE DEF v
<1> QED BY <1>1, <1>2, OneGateway

\* A watcher that moves changes its own gateway only.
LEMMA SetWatch ==
  ASSUME GatewaysIInv, NEW g, NEW w, gateways' = [gateways EXCEPT ![g].watch = w]
  PROVE  /\ GatewaysIInv' /\ \A x \in DOMAIN gateways : x # g => gateways'[x] = gateways[x]
         /\ g \in DOMAIN gateways => gateways'[g].watch = w
<1> DEFINE v == [gateways[g] EXCEPT !.watch = w]
<1>1. gateways' = [gateways EXCEPT ![g] = v]
  OBVIOUS
<1>2. ASSUME g \in DOMAIN gateways PROVE IsGateway(v) /\ v.watch = w
  <2>1. IsGateway(gateways[g])
    BY <1>2 DEF GatewaysIInv
  <2> QED BY ONLY <2>1 DEF IsGateway
<1> HIDE DEF v
<1> QED BY <1>1, <1>2, OneGateway

\* A gateway that is closed with its watcher leaves a well-formed table.
LEMMA SetBoth ==
  ASSUME GatewaysIInv, NEW g, gateways' = [gateways EXCEPT ![g].alive = FALSE, ![g].watch = "off"]
  PROVE  GatewaysIInv'
<1> DEFINE v == [gateways[g] EXCEPT !.alive = FALSE, !.watch = "off"]
<1>1. gateways' = [gateways EXCEPT ![g] = v]
  OBVIOUS
<1>2. ASSUME g \in DOMAIN gateways PROVE \A y : y = v => IsGateway(y)
  <2>1. IsGateway(gateways[g])
    BY <1>2 DEF GatewaysIInv
  <2> QED BY ONLY <2>1 DEF IsGateway
<1> HIDE DEF v
<1> QED BY <1>1, <1>2, OneGateway

\* A watcher's step: the steps that change the running gateways are Stop, which
\* leaves the watchers alone, a gateway that is registered, whose watcher starts
\* to poll, a restart, and the watcher's own removal.
SparesLiving ==
  \A g \in DOMAIN gateways : gateways[g].watch = "seen" /\ gateways'[g].watch = "off" =>
    \A k \in Kinds : running[k] # 0 /\ running[k] # g /\ gateways[running[k]].alive /\ boots' = boots
                     => running'[k] = running[k]

\* Every step keeps the gateways well formed, and no watcher that lets go of its gateway
\* takes a living one off the manager (watchGatewayExit looks again under the lock).
LEMMA WatcherStep ==
  ASSUME ManagerOK, GatewaysIInv, [RtNext]_rtVars
  PROVE  GatewaysIInv' /\ SparesLiving
<1>1. ASSUME UNCHANGED gateways PROVE GatewaysIInv' /\ SparesLiving
  BY <1>1 DEF GatewaysIInv, SparesLiving
<1>2. ASSUME UNCHANGED running PROVE SparesLiving
  BY <1>2 DEF SparesLiving
<1>3. ASSUME NEW c \in Callers, NEW k \in Kinds, NEW op, Begin(c, op, k) \/ Stop(c, op, k)
      PROVE  GatewaysIInv' /\ SparesLiving
  BY <1>1, <1>3 DEF Begin, Stop
<1>4. ASSUME NEW c \in Callers,
             extractPackage(c) \/ UpsertRuntime(c) \/ reload(c) \/ DeleteRuntime(c) \/ SetAutoStart(c)
      PROVE  GatewaysIInv' /\ SparesLiving
  BY <1>1, <1>4 DEF extractPackage, UpsertRuntime, reload, DeleteRuntime, SetAutoStart
<1>5. ASSUME NEW c \in Callers, startGateway(c) PROVE GatewaysIInv' /\ SparesLiving
  <2>1. UNCHANGED running
    BY <1>5 DEF startGateway
  <2>2. CASE UNCHANGED gateways
    BY <1>1, <2>2
  <2> DEFINE n == Cardinality(DOMAIN gateways)
             v == [kind |-> caller[c].kind, alive |-> TRUE, watch |-> "none"]
  <2>3. CASE gateways' = [i \in 1..(n + 1) |-> IF i < n + 1 THEN gateways[i] ELSE v]
    <3>1. PICK m \in Nat : DOMAIN gateways = 1..m
      BY DEF GatewaysIInv
    <3>2. n = m
      BY <3>1, FS_Interval
    <3>3. IsGateway(v)
      BY DEF IsGateway
    <3> HIDE DEF n, v
    <3>4. DOMAIN gateways' = 1..(m + 1) /\ gateways' = [i \in 1..(m + 1) |-> IF i < m + 1 THEN gateways[i] ELSE v]
      BY <2>3, <3>2
    <3>5. \A i \in 1..(m + 1) : IsGateway(gateways'[i])
      <4>1. \A i \in 1..(m + 1) : i < m + 1 => i \in DOMAIN gateways
        BY <3>1
      <4> QED BY <3>3, <3>4, <4>1 DEF GatewaysIInv
    <3>6. GatewaysIInv'
      BY <3>4, <3>5 DEF GatewaysIInv
    <3> QED BY <1>2, <2>1, <3>6
  <2> QED BY <1>5, <2>2, <2>3 DEF startGateway
<1>6. ASSUME NEW c \in Callers, initGateway(c) PROVE GatewaysIInv' /\ SparesLiving
  <2> DEFINE g == caller[c].gw
  <2>1. CASE gateways' = [gateways EXCEPT ![g].alive = FALSE, ![g].watch = "off"] /\ UNCHANGED running
    <3> HIDE DEF g
    <3> QED BY <1>2, <2>1, SetBoth
  <2>2. CASE gateways' = [gateways EXCEPT ![g].watch = "poll"]
    <3> HIDE DEF g
    <3>1. /\ GatewaysIInv' /\ \A x \in DOMAIN gateways : x # g => gateways'[x] = gateways[x]
          /\ g \in DOMAIN gateways => gateways'[g].watch = "poll"
      BY <2>2, SetWatch
    <3> QED BY <3>1 DEF SparesLiving
  <2> QED BY <1>6, <2>1, <2>2 DEF initGateway
<1>7. ASSUME NEW c \in Callers, Close(c) PROVE GatewaysIInv' /\ SparesLiving
  BY <1>2, <1>7, SetAlive DEF Close
<1>8. ASSUME NEW g \in Gateways, GatewayExits(g) PROVE GatewaysIInv' /\ SparesLiving
  BY <1>2, <1>8, SetAlive DEF GatewayExits
<1>9. ASSUME NEW g \in Gateways, watchGatewayExit(g) PROVE GatewaysIInv' /\ SparesLiving
  BY <1>2, <1>9, SetWatch DEF watchGatewayExit
<1>10. ASSUME NEW g \in Gateways, RemoveDead(g) PROVE GatewaysIInv' /\ SparesLiving
  <2>1. /\ g \in DOMAIN gateways /\ gateways' = [gateways EXCEPT ![g].watch = "off"]
        /\ running' = IF running[gateways[g].kind] = g THEN [running EXCEPT ![gateways[g].kind] = 0] ELSE running
    BY <1>10 DEF RemoveDead, StillCurrent
  <2>2. /\ GatewaysIInv' /\ \A x \in DOMAIN gateways : x # g => gateways'[x] = gateways[x]
    BY <2>1, SetWatch
  <2>3. ASSUME NEW k \in Kinds, running[k] # g PROVE running'[k] = running[k]
    BY <2>1, <2>3 DEF ManagerOK
  <2> QED BY <2>2, <2>3 DEF SparesLiving
<1>11. CASE Reboot
  <2>0. boots' = boots + 1
    BY <1>11 DEF Reboot
  <2>1. boots' # boots
    BY <2>0 DEF ManagerOK
  <2>2. SparesLiving
    BY <2>1 DEF SparesLiving
  <2>3. GatewaysIInv'
    <3>1. gateways' = [g \in DOMAIN gateways |-> [gateways[g] EXCEPT !.alive = FALSE, !.watch = "off"]]
      BY <1>11 DEF Reboot
    <3>2. ASSUME NEW g \in DOMAIN gateways PROVE IsGateway(gateways'[g])
      <4>1. IsGateway(gateways[g])
        BY DEF GatewaysIInv
      <4>2. \A y : y = [gateways[g] EXCEPT !.alive = FALSE, !.watch = "off"] => IsGateway(y)
        BY ONLY <4>1 DEF IsGateway
      <4> QED BY <3>1, <4>2
    <3> QED BY <3>1, <3>2 DEF GatewaysIInv
  <2> QED BY <2>2, <2>3
<1>12. CASE UNCHANGED rtVars
  BY <1>1, <1>12 DEF rtVars
<1> QED BY <1>3, <1>4, <1>5, <1>6, <1>7, <1>8, <1>9, <1>10, <1>11, <1>12 DEF RtNext

\* The watcher of a dead gateway never takes a living one off the manager, not
\* even the one that replaced its own between the moment it saw its own dead and
\* the moment it got the lock (watchGatewayExit).
THEOREM WatcherSpares == RtSpec => WatcherSparesLiving
<1>1. RtInit => ManagerOK /\ GatewaysIInv
  BY GatewaysInvInit DEF RtInit, ManagerOK
<1>2. ManagerOK /\ GatewaysIInv /\ [RtNext]_rtVars => (ManagerOK /\ GatewaysIInv)'
  BY ManagerStep, WatcherStep
<1>3. ManagerOK /\ GatewaysIInv /\ [RtNext]_rtVars => [SparesLiving]_rtVars
  BY WatcherStep
<1>4. RtSpec => [][SparesLiving]_rtVars
  BY <1>1, <1>2, <1>3, PTL DEF RtSpec
<1> QED BY <1>4 DEF WatcherSparesLiving, SparesLiving

-----------------------------------------------------------------------------
(* The verdicts on a worker.                                               *)

IsInstall(x) == x \in [pc : {x.pc}, row : {x.row}, kept : BOOLEAN]

\* What was resolved for the cached index, the runtime and the server as they are
\* pairs with them: the row an installation is at work on, and the version of a
\* worker that came of one.
InstallKnows(x) == x.pc # "idle" /\ x.kept => x.row \in CompatibleWorkers(idx)
WorkerFits(w) == fresh[w] => wst[w] # "down" /\ \E r \in CompatibleWorkers(idx) : r.ver = wver[w]

\* The inductive invariant of the installations.
RegIInv ==
  /\ inst = [i \in Installs |-> inst[i]] /\ \A i \in Installs : IsInstall(inst[i]) /\ InstallKnows(inst[i])
  /\ fresh \in [RegWorkers -> BOOLEAN]
  /\ wst = [w \in RegWorkers |-> wst[w]] /\ wver = [w \in RegWorkers |-> wver[w]]
  /\ \A w \in RegWorkers : WorkerFits(w)

\* The resolver's test of a row implies the hub's: a row that covers the runtime
\* and the server it resolves for does not refuse them.
LEMMA ResolvedAdmitted ==
  ASSUME NEW r \in CompatibleWorkers(idx)
  PROVE  CheckWorkerCompat(r.ver, rtVer, mass)
<1>1. r \in idx /\ InRange(r.rt, rtVer) /\ InRange(r.mass, massVersionForResolve)
  BY DEF CompatibleWorkers
<1>2. admits(r.rt, rtVer, "release") # "no"
  BY <1>1 DEF admits, InRange
<1>3. admits(r.mass, mass.v, mass.kind) # "no"
  BY <1>1 DEF admits, InRange, massVersionForResolve
<1> QED BY <1>1, <1>2, <1>3 DEF CheckWorkerCompat, checkWorkerIndexCompat, checkWorkerRow, workerVersionRows

\* What the gates count is refused: a row that excludes the candidate on either
\* half refuses it, and they count a worker only when all its rows do.
LEMMA GatesAreHonest == GateHonest
<1>1. ASSUME NEW v \in Vers, rtVer > 0, NEW w \in fleetGate(v)
      PROVE  ~CheckWorkerCompat(wver[w], rtVer, [v |-> v, kind |-> "release"])
  <2> DEFINE m == [v |-> v, kind |-> "release"]
             rows == workerVersionRows(idx, wver[w])
  <2>1. idx # NoIndex /\ rows # {} /\ \A r \in rows : admits(r.mass, m.v, m.kind) = "no"
    BY <1>1 DEF fleetGate, workerRejectsMass
  <2>2. rtVer # 0
    BY <1>1
  <2> HIDE DEF m
  <2> QED BY <2>1, <2>2 DEF CheckWorkerCompat, checkWorkerIndexCompat, checkWorkerRow, m
<1>2. ASSUME NEW v \in Vers, idx # NoIndex, NEW w \in countIncompatibleWorkers(v)
      PROVE  ~CheckWorkerCompat(wver[w], v, mass)
  <2> DEFINE rows == workerVersionRows(idx, wver[w])
  <2>1. rows # {} /\ \A r \in rows : admits(r.rt, v, "release") = "no"
    BY <1>2 DEF countIncompatibleWorkers
  <2>2. v # 0
    BY DEF Vers
  <2> QED BY <1>2, <2>1, <2>2 DEF CheckWorkerCompat, checkWorkerIndexCompat, checkWorkerRow
<1> QED BY <1>1, <1>2 DEF GateHonest

\* With no installation under way there is no offer to keep.
LEMMA RegInvInit == RegInit => RegIInv
BY DEF RegInit, RegIInv, InstallKnows, WorkerFits, IsInstall, Idle

\* What was resolved is as good as long as the index, the runtime and the server
\* are the same.
IndexStays == idx' = idx /\ rtVer' = rtVer /\ mass' = mass

\* The rows the resolver picks from depend on the index, the runtime and the server only.
LEMMA CompatibleFrame == IndexStays => CompatibleWorkers(idx)' = CompatibleWorkers(idx)
BY DEF IndexStays, CompatibleWorkers, massVersionForResolve

\* A step that moves one installation to v and settles no worker.
LEMMA RegOneInstall ==
  ASSUME RegIInv, IndexStays, UNCHANGED <<fresh, wst, wver>>, NEW i \in Installs, NEW v, IsInstall(v), InstallKnows(v),
         inst' = [inst EXCEPT ![i] = v]
  PROVE  RegIInv'
<1>1. CompatibleWorkers(idx)' = CompatibleWorkers(idx)
  BY CompatibleFrame
<1>2. \A x \in Installs : IsInstall(inst'[x]) /\ InstallKnows(inst'[x])
  BY DEF RegIInv
<1>3. \A x \in Installs : IsInstall(inst[x])' /\ InstallKnows(inst[x])'
  BY <1>1, <1>2 DEF IsInstall, InstallKnows
<1>4. \A w \in RegWorkers : WorkerFits(w)'
  BY <1>1 DEF RegIInv, WorkerFits
<1>5. inst' = [x \in Installs |-> inst'[x]]
  BY DEF RegIInv
<1> QED BY <1>3, <1>4, <1>5 DEF RegIInv

\* An installation that goes on keeps what it has resolved.
LEMMA RegGoto ==
  ASSUME RegIInv, IndexStays, UNCHANGED <<fresh, wst, wver>>, NEW i \in Installs, NEW p, InstGoto(i, p),
         inst[i].pc # "idle"
  PROVE  RegIInv'
<1> DEFINE v == [inst[i] EXCEPT !.pc = p]
<1>1. inst' = [inst EXCEPT ![i] = v]
  BY DEF InstGoto
<1>2. IsInstall(inst[i]) /\ InstallKnows(inst[i])
  BY DEF RegIInv
<1>3. IsInstall(v) /\ v.row = inst[i].row /\ v.kept = inst[i].kept
  BY ONLY <1>2 DEF IsInstall
<1> HIDE DEF v
<1>4. InstallKnows(v)
  BY <1>2, <1>3 DEF InstallKnows
<1> QED BY <1>1, <1>3, <1>4, RegOneInstall

\* A change of index, runtime or server: nothing that was resolved is relied on.
LEMMA RegUnsettled ==
  ASSUME RegIInv, Unsettle, UNCHANGED <<wst, wver>>
  PROVE  RegIInv'
<1>1. ASSUME NEW i \in Installs PROVE IsInstall(inst[i])' /\ InstallKnows(inst[i])'
  <2>1. IsInstall(inst[i])
    BY DEF RegIInv
  <2>2. inst'[i] = [inst[i] EXCEPT !.kept = FALSE]
    BY DEF Unsettle
  <2>3. IsInstall(inst'[i]) /\ inst'[i].kept = FALSE
    BY ONLY <2>1, <2>2 DEF IsInstall
  <2> QED BY <2>3 DEF InstallKnows, IsInstall
<1>2. /\ inst' = [i \in Installs |-> inst'[i]] /\ fresh' = [w \in RegWorkers |-> FALSE]
  BY DEF Unsettle
<1>3. \A w \in RegWorkers : WorkerFits(w)'
  BY <1>2 DEF WorkerFits
<1> QED BY <1>1, <1>2, <1>3 DEF RegIInv

\* A step that touches neither installations nor workers keeps the offers good.
LEMMA RegFrame ==
  ASSUME RegIInv, IndexStays, UNCHANGED <<inst, fresh, wst, wver>>
  PROVE  RegIInv'
BY CompatibleFrame DEF RegIInv, InstallKnows, WorkerFits, IsInstall

\* An installation that has not begun is well formed.
LEMMA IdleInstall == IsInstall(Idle) /\ Idle.pc = "idle"
BY DEF IsInstall, Idle

\* Every step keeps the offers good.
LEMMA RegInvNext == RegIInv /\ [RegNext]_regVars => RegIInv'
<1> SUFFICES ASSUME RegIInv, [RegNext]_regVars PROVE RegIInv'
  OBVIOUS
<1>1. CASE Publish \/ UNCHANGED regVars \/ \E v \in Vers, force \in BOOLEAN : handleUpdateApply(v, force)
  BY <1>1, RegFrame DEF Publish, handleUpdateApply, regVars, IndexStays
<1>2. CASE searchPackages
  <2>1. PICK ix \in FetchedIndexes : Refresh(ix)
    BY <1>2 DEF searchPackages
  <2>2. UNCHANGED <<wver, wst, rtVer, mass>>
    BY <1>2 DEF searchPackages, serverVars
  <2> QED BY <2>1, <2>2, RegFrame, RegUnsettled DEF Refresh, IndexStays
<1>3. CASE installRuntimeFromRegistry \/ uninstallRuntime
  BY <1>3, RegUnsettled DEF installRuntimeFromRegistry, uninstallRuntime
<1>4. CASE UpdateRestart
  <2>1. /\ inst' = [i \in Installs |-> Idle] /\ fresh' = [w \in RegWorkers |-> FALSE] /\ UNCHANGED wver
        /\ wst' = [w \in RegWorkers |-> IF wst[w] = "on" THEN "off" ELSE wst[w]]
    BY <1>4 DEF UpdateRestart
  <2>2. \A i \in Installs : IsInstall(inst[i])' /\ InstallKnows(inst[i])'
    BY <2>1, IdleInstall DEF IsInstall, InstallKnows
  <2>3. \A w \in RegWorkers : WorkerFits(w)'
    BY <2>1 DEF WorkerFits
  <2> QED BY <2>1, <2>2, <2>3 DEF RegIInv
<1>5. ASSUME NEW w \in RegWorkers, Register(w) PROVE RegIInv'
  <2>1. /\ wst' = [wst EXCEPT ![w] = IF CheckWorkerCompat(wver[w], rtVer, mass) THEN "on" ELSE "down"]
        /\ IndexStays /\ UNCHANGED <<inst, fresh, wver>>
    BY <1>5 DEF Register, serverVars, IndexStays
  <2>2. CompatibleWorkers(idx)' = CompatibleWorkers(idx)
    BY <2>1, CompatibleFrame
  <2>3. \A x \in Installs : IsInstall(inst[x])' /\ InstallKnows(inst[x])'
    BY <2>1, <2>2 DEF RegIInv, IsInstall, InstallKnows
  <2>4. fresh[w] => CheckWorkerCompat(wver[w], rtVer, mass)
    BY ResolvedAdmitted DEF RegIInv, WorkerFits
  <2>5. ASSUME NEW x \in RegWorkers, fresh[x] PROVE wst'[x] # "down"
    <3>1. wst[x] # "down"
      BY <2>5 DEF RegIInv, WorkerFits
    <3>2. wst'[x] = wst[x] \/ (x = w /\ wst'[x] = IF CheckWorkerCompat(wver[w], rtVer, mass) THEN "on" ELSE "down")
      BY <2>1 DEF RegIInv
    <3> QED BY <2>4, <2>5, <3>1, <3>2
  <2>6. \A x \in RegWorkers : WorkerFits(x)'
    BY <2>1, <2>2, <2>5 DEF RegIInv, WorkerFits
  <2>7. wst' = [x \in RegWorkers |-> wst'[x]]
    BY <2>1 DEF RegIInv
  <2> QED BY <2>1, <2>3, <2>6, <2>7 DEF RegIInv
<1>6. ASSUME NEW i \in Installs, installLocalWorker(i) PROVE RegIInv'
  <2>1. PICK ix \in FetchedIndexes : \E r \in resolveWorkerArtifact(ix) :
               /\ idx' = ix
               /\ fresh' = [w \in RegWorkers |-> fresh[w] /\ ix = idx]
               /\ inst' = [j \in Installs |-> IF j = i THEN [pc |-> "stat", row |-> r, kept |-> TRUE]
                                              ELSE [inst[j] EXCEPT !.kept = @ /\ ix = idx]]
    BY <1>6 DEF installLocalWorker
  <2>2. PICK r \in resolveWorkerArtifact(ix) :
               /\ idx' = ix
               /\ fresh' = [w \in RegWorkers |-> fresh[w] /\ ix = idx]
               /\ inst' = [j \in Installs |-> IF j = i THEN [pc |-> "stat", row |-> r, kept |-> TRUE]
                                              ELSE [inst[j] EXCEPT !.kept = @ /\ ix = idx]]
    BY <2>1
  <2>3. UNCHANGED <<wver, wst, rtVer, mass>>
    BY <1>6 DEF installLocalWorker, serverVars
  <2>4. CompatibleWorkers(idx)' = CompatibleWorkers(ix) /\ r \in CompatibleWorkers(ix)
    BY <2>2, <2>3 DEF CompatibleWorkers, massVersionForResolve, resolveWorkerArtifact
  <2>5. ASSUME NEW j \in Installs PROVE IsInstall(inst'[j]) /\ (inst'[j].pc # "idle" /\ inst'[j].kept => inst'[j].row \in CompatibleWorkers(ix))
    <3>1. CASE j = i
      <4>1. inst'[j] = [pc |-> "stat", row |-> r, kept |-> TRUE]
        BY <2>2, <3>1
      <4> QED BY <2>4, <4>1 DEF IsInstall
    <3>2. CASE j # i
      <4>1. inst'[j] = [inst[j] EXCEPT !.kept = @ /\ ix = idx]
        BY <2>2, <3>2
      <4>2. IsInstall(inst[j]) /\ InstallKnows(inst[j])
        BY DEF RegIInv
      <4>3. IsInstall(inst'[j]) /\ inst'[j].pc = inst[j].pc /\ inst'[j].row = inst[j].row
             /\ (inst'[j].kept => inst[j].kept /\ ix = idx)
        BY ONLY <4>1, <4>2 DEF IsInstall
      <4> QED BY <4>2, <4>3 DEF InstallKnows
    <3> QED BY <3>1, <3>2
  <2>6. \A j \in Installs : IsInstall(inst[j])' /\ InstallKnows(inst[j])'
    BY <2>4, <2>5 DEF IsInstall, InstallKnows
  <2>7. fresh' \in [RegWorkers -> BOOLEAN] /\ \A w \in RegWorkers : fresh'[w] => fresh[w] /\ ix = idx
    BY <2>2
  <2>8. \A w \in RegWorkers : WorkerFits(w)'
    BY <2>3, <2>4, <2>7 DEF RegIInv, WorkerFits
  <2>9. inst' = [j \in Installs |-> inst'[j]]
    BY <2>2
  <2> QED BY <2>3, <2>6, <2>7, <2>8, <2>9 DEF RegIInv
<1>7. ASSUME NEW i \in Installs, EnsureStat(i) \/ EnsureClaim(i) \/ stageInstaller(i) PROVE RegIInv'
  <2>1. IndexStays /\ UNCHANGED <<fresh, wst, wver>> /\ inst[i].pc # "idle" /\ \E p : InstGoto(i, p)
    BY <1>7 DEF EnsureStat, EnsureClaim, stageInstaller, serverVars, IndexStays
  <2> QED BY <2>1, RegGoto
<1>8. ASSUME NEW i \in Installs, EnsureQuit(i) \/ RunFails(i) PROVE RegIInv'
  <2>1. IndexStays /\ UNCHANGED <<fresh, wst, wver>> /\ inst' = [inst EXCEPT ![i] = Idle]
    BY <1>8 DEF EnsureQuit, RunFails, serverVars, IndexStays
  <2>2. InstallKnows(Idle)
    BY IdleInstall DEF InstallKnows
  <2> QED BY <2>1, <2>2, IdleInstall, RegOneInstall
<1>9. ASSUME NEW i \in Installs, NEW ok \in BOOLEAN, EnsureDone(i, ok) PROVE RegIInv'
  <2> DEFINE p == IF ok THEN "have" ELSE "failed"
             Hit(j) == j = i \/ (inst[j].pc = "wait" /\ inst[j].row = inst[i].row)
  <2>1. /\ IndexStays /\ UNCHANGED <<fresh, wst, wver>> /\ inst[i].pc = "get"
        /\ inst' = [j \in Installs |-> IF Hit(j) THEN [inst[j] EXCEPT !.pc = p] ELSE inst[j]]
    BY <1>9 DEF EnsureDone, serverVars, IndexStays
  <2>2. CompatibleWorkers(idx)' = CompatibleWorkers(idx)
    BY <2>1, CompatibleFrame
  <2>3. ASSUME NEW j \in Installs PROVE IsInstall(inst'[j]) /\ InstallKnows(inst'[j])
    <3>1. IsInstall(inst[j]) /\ InstallKnows(inst[j])
      BY DEF RegIInv
    <3>2. CASE Hit(j)
      <4>1. inst'[j] = [inst[j] EXCEPT !.pc = p] /\ inst[j].pc # "idle"
        BY <2>1, <3>2
      <4> HIDE DEF p
      <4>2. IsInstall(inst'[j]) /\ inst'[j].row = inst[j].row /\ inst'[j].kept = inst[j].kept
        BY ONLY <3>1, <4>1 DEF IsInstall
      <4> QED BY <3>1, <4>1, <4>2 DEF InstallKnows
    <3>3. CASE ~Hit(j)
      BY <2>1, <3>1, <3>3
    <3> QED BY <3>2, <3>3
  <2>4. \A j \in Installs : IsInstall(inst[j])' /\ InstallKnows(inst[j])'
    BY <2>2, <2>3 DEF IsInstall, InstallKnows
  <2>5. \A w \in RegWorkers : WorkerFits(w)'
    BY <2>1, <2>2 DEF RegIInv, WorkerFits
  <2>6. inst' = [j \in Installs |-> inst'[j]]
    BY <2>1
  <2> QED BY <2>1, <2>4, <2>5, <2>6 DEF RegIInv
<1>10. ASSUME NEW i \in Installs, NEW w \in RegWorkers, RunInstaller(i, w) PROVE RegIInv'
  <2> DEFINE b == inst[i].kept /\ (inst[i].pc = "staged" => staged = inst[i].row)
  <2>1. /\ IndexStays /\ inst[i].pc # "idle" /\ inst' = [inst EXCEPT ![i] = Idle]
        /\ wst' = [wst EXCEPT ![w] = "off"] /\ fresh' = [fresh EXCEPT ![w] = b]
    BY <1>10 DEF RunInstaller, serverVars, IndexStays
  <2>2. \E x : wver' = [wver EXCEPT ![w] = x] /\ (b => x = inst[i].row.ver)
    BY <1>10 DEF RunInstaller
  <2>3. CompatibleWorkers(idx)' = CompatibleWorkers(idx)
    BY <2>1, CompatibleFrame
  <2>4. \A x \in Installs : IsInstall(inst'[x]) /\ InstallKnows(inst'[x])
    BY <2>1, IdleInstall DEF RegIInv, InstallKnows
  <2>5. \A x \in Installs : IsInstall(inst[x])' /\ InstallKnows(inst[x])'
    BY <2>3, <2>4 DEF IsInstall, InstallKnows
  <2>6. b => inst[i].row \in CompatibleWorkers(idx)
    BY <2>1 DEF RegIInv, InstallKnows
  <2>7. b \in BOOLEAN
    OBVIOUS
  <2> HIDE DEF b
  <2>8. ASSUME NEW x \in RegWorkers PROVE WorkerFits(x)'
    <3>1. CASE x = w
      <4>1. fresh'[x] = b /\ wst'[x] = "off" /\ (b => wver'[x] = inst[i].row.ver)
        BY <2>1, <2>2, <3>1 DEF RegIInv
      <4> QED BY <2>3, <2>6, <4>1 DEF WorkerFits
    <3>2. CASE x # w
      <4>1. fresh'[x] = fresh[x] /\ wst'[x] = wst[x] /\ wver'[x] = wver[x]
        BY <2>1, <2>2, <3>2 DEF RegIInv
      <4> QED BY <2>3, <4>1 DEF RegIInv, WorkerFits
    <3> QED BY <3>1, <3>2
  <2>9. /\ inst' = [x \in Installs |-> inst'[x]] /\ fresh' \in [RegWorkers -> BOOLEAN]
        /\ wst' = [x \in RegWorkers |-> wst'[x]] /\ wver' = [x \in RegWorkers |-> wver'[x]]
    BY <2>1, <2>2, <2>7 DEF RegIInv
  <2> QED BY <2>5, <2>8, <2>9 DEF RegIInv
<1> QED BY <1>1, <1>2, <1>3, <1>4, <1>5, <1>6, <1>7, <1>8, <1>9, <1>10 DEF RegNext

\* The installations' invariant holds throughout.
THEOREM RegInvariant == RegSpec => []RegIInv
<1> QED BY RegInvInit, RegInvNext, PTL DEF RegSpec

\* The resolver of an install, the hub's check of a worker that registers and the
\* gates of the upgrades never contradict each other: what the server offered it
\* admits as long as nothing it was resolved for has changed, and what the gates
\* count as stranded the hub would refuse.
THEOREM Verdicts == RegSpec => []VerdictsAgree
<1>1. RegIInv => VerdictsAgree
  BY GatesAreHonest DEF RegIInv, WorkerFits, VerdictsAgree, OfferedWorkerAdmitted
<1> QED BY <1>1, RegInvariant, PTL

-----------------------------------------------------------------------------
(* The cards of the Models tab.                                            *)

IsRender(x) == x \in [pc : {x.pc}, gws : {x.gws}, got : {x.got}]
CardOf(x) == IF x = NoCard THEN [n |-> 0, card |-> NoCard] ELSE [n |-> 1, card |-> x]

\* As long as renders did not overlap: one is at work at most; until it has sent
\* its groups the browser shows what is remembered, and from then on what the
\* render is about to remember.
RendersKnow ==
  /\ \A r, q \in Renders : rd[r].pc # "idle" /\ rd[q].pc # "idle" => r = q
  /\ (\A r \in Renders : rd[r].pc # "remember") => Shows
  /\ \A r \in Renders : rd[r].pc = "remember" =>
       rd[r].got # NoMemory /\ body = "inner" /\ \A g \in MGroups : cards[g] = CardOf(rd[r].got[g])

\* The inductive invariant of the renderer.
MtIInv ==
  /\ rd = [r \in Renders |-> rd[r]] /\ \A r \in Renders : IsRender(rd[r])
  /\ overlapped \in BOOLEAN /\ (~overlapped => RendersKnow)

\* What the browser shows, group by group.
LEMMA ShowsCards == Shows <=> /\ \A g \in MGroups : cards[g] = CardOf(lastGroupHTML[g])
                              /\ lastGroupHTML = NoMemory => body = lastEmpty
                              /\ lastGroupHTML # NoMemory => body = "inner"
BY DEF Shows, CardOf

\* A fresh connection shows nothing and remembers nothing.
LEMMA MtInvInit == MtInit => MtIInv
<1> SUFFICES ASSUME MtInit PROVE MtIInv
  OBVIOUS
<1>1. IsRender(RdIdle) /\ RdIdle.pc = "idle"
  BY DEF IsRender, RdIdle
<1>2. rd = [r \in Renders |-> RdIdle] /\ lastGroupHTML = NoMemory /\ lastEmpty = "" /\ cards = NoCards /\ body = ""
      /\ overlapped = FALSE
  BY DEF MtInit
<1>3. Shows
  BY <1>2 DEF Shows, NoMemory, NoCards
<1> QED BY <1>1, <1>2, <1>3 DEF MtIInv, RendersKnow

\* An empty state leaves the browser and the memory in agreement.
LEMMA EmptyShown ==
  ASSUME NEW b, emitEmpty(b), Shows
  PROVE  Shows'
<1>1. CASE b = lastEmpty /\ lastGroupHTML = NoMemory
  BY <1>1 DEF emitEmpty, Shows, memory, browser
<1>2. CASE ~(b = lastEmpty /\ lastGroupHTML = NoMemory)
  <2>1. body' = b /\ cards' = NoCards /\ lastEmpty' = b /\ lastGroupHTML' = NoMemory
    BY <1>2 DEF emitEmpty, writePatchInner
  <2> QED BY <2>1 DEF Shows, NoMemory, NoCards
<1> QED BY <1>1, <1>2

\* The patches of a render turn the cards of what is remembered into those of
\* what it got.
LEMMA PatchesLand ==
  ASSUME Shows, NEW got, NEW g \in MGroups
  PROVE  Patched(got)[g] = CardOf(got[g])
<1> DEFINE base == IF lastGroupHTML = NoMemory THEN NoCards ELSE cards
<1>1. base[g] = CardOf(lastGroupHTML[g])
  BY DEF Shows, CardOf, NoCards, NoMemory
<1>2. Patched(got)[g] =
        CASE got[g] = NoCard /\ lastGroupHTML[g] # NoCard -> [n |-> 0, card |-> NoCard]
          [] got[g] # NoCard /\ lastGroupHTML[g] = NoCard -> [n |-> base[g].n + 1, card |-> got[g]]
          [] got[g] # NoCard /\ lastGroupHTML[g] \notin {NoCard, got[g]} /\ base[g].n > 0 -> [base[g] EXCEPT !.card = got[g]]
          [] OTHER -> base[g]
  BY DEF Patched
<1> HIDE DEF base
<1>3. CASE lastGroupHTML[g] = NoCard
  <2>1. base[g].n = 0 /\ base[g] = [n |-> 0, card |-> NoCard]
    BY <1>1, <1>3 DEF CardOf
  <2> QED BY <1>2, <1>3, <2>1 DEF CardOf
<1>4. CASE lastGroupHTML[g] # NoCard
  <2>1. base[g] = [n |-> 1, card |-> lastGroupHTML[g]] /\ base[g].n = 1
    BY <1>1, <1>4 DEF CardOf
  <2>2. CASE got[g] = NoCard
    <3>1. Patched(got)[g] = [n |-> 0, card |-> NoCard]
      BY <1>2, <1>4, <2>2
    <3>2. CardOf(got[g]) = [n |-> 0, card |-> NoCard]
      BY <2>2 DEF CardOf
    <3> QED BY <3>1, <3>2
  <2>3. CASE got[g] # NoCard /\ got[g] # lastGroupHTML[g]
    <3>1. Patched(got)[g] = [base[g] EXCEPT !.card = got[g]]
      BY <1>2, <1>4, <2>1, <2>3
    <3> QED BY <2>1, <2>3, <3>1 DEF CardOf
  <2>4. CASE got[g] # NoCard /\ got[g] = lastGroupHTML[g]
    BY <1>2, <2>1, <2>4 DEF CardOf
  <2> QED BY <2>2, <2>3, <2>4
<1> QED BY <1>3, <1>4

\* One render is replaced by v.
LEMMA OneRender ==
  ASSUME MtIInv, NEW r \in Renders, NEW v, IsRender(v), rd' = [rd EXCEPT ![r] = v]
  PROVE  /\ rd' = [x \in Renders |-> rd'[x]] /\ \A x \in Renders : IsRender(rd'[x])
         /\ rd'[r] = v /\ \A x \in Renders : x # r => rd'[x] = rd[x]
BY DEF MtIInv

\* A render that has not begun is well formed.
LEMMA RenderIdle == IsRender(RdIdle) /\ RdIdle.pc = "idle"
BY DEF IsRender, RdIdle

\* Every step of the Models page keeps the memory of a renderer that has not been
\* overlapped equal to what the browser shows, branch by branch of render.
LEMMA MtInvNext == MtIInv /\ [MtNext]_mtVars => MtIInv'
<1> SUFFICES ASSUME MtIInv, [MtNext]_mtVars PROVE MtIInv'
  OBVIOUS
<1>1. ASSUME UNCHANGED <<rd, overlapped, memory, browser>> PROVE MtIInv'
  BY <1>1 DEF MtIInv, RendersKnow, Shows, memory, browser
<1>2. CASE AddOnStateChange \/ UNCHANGED mtVars \/ \E k \in MGateways : fireStateChange(k)
  BY <1>1, <1>2 DEF AddOnStateChange, fireStateChange, mtVars, memory, browser
<1>3. ASSUME NEW g \in MGroups, NEW f \in MFiles, FireStateChange(g, f) \/ subscribeDownloadsForRender(g, f)
      PROVE  MtIInv'
  BY <1>1, <1>3 DEF FireStateChange, subscribeDownloadsForRender
<1>4. ASSUME NEW r \in Renders, RenderBegins(r) PROVE MtIInv'
  <2> DEFINE v == [RdIdle EXCEPT !.pc = "list", !.gws = gwUp]
  <2>1. /\ rd[r].pc = "idle" /\ rd' = [rd EXCEPT ![r] = v]
        /\ overlapped' = (overlapped \/ \E q \in Renders : rd[q].pc # "idle")
    BY <1>4 DEF RenderBegins
  <2>2. \A y : y = v => IsRender(y) /\ y.pc = "list"
    BY DEF RdIdle, IsRender
  <2> HIDE DEF v
  <2>3. /\ rd' = [x \in Renders |-> rd'[x]] /\ \A x \in Renders : IsRender(rd'[x])
        /\ rd'[r] = v /\ \A x \in Renders : x # r => rd'[x] = rd[x]
    BY <2>1, <2>2, OneRender
  <2>4. ASSUME ~overlapped' PROVE RendersKnow'
    <3>1. ~overlapped /\ \A q \in Renders : rd[q].pc = "idle"
      BY <2>1, <2>4
    <3>2. Shows
      BY <3>1 DEF MtIInv, RendersKnow
    <3>3. Shows'
      BY <1>4, <3>2, EmptyShown DEF RenderBegins, Shows, memory, browser
    <3> QED BY <2>2, <2>3, <3>1, <3>3 DEF RendersKnow
  <2>5. overlapped' \in BOOLEAN
    BY <2>1 DEF MtIInv
  <2> QED BY <2>3, <2>4, <2>5 DEF MtIInv
<1>5. ASSUME NEW r \in Renders, RenderLists(r) PROVE MtIInv'
  <2>1. PICK got : rd' = [rd EXCEPT ![r].got = got, ![r].pc = "emit"]
    BY <1>5 DEF RenderLists
  <2>2. rd[r].pc = "list" /\ UNCHANGED <<overlapped, lastGroupHTML, lastEmpty, cards, body>>
    BY <1>5 DEF RenderLists, memory, browser
  <2> DEFINE v == [rd[r] EXCEPT !.got = got, !.pc = "emit"]
  <2>3. rd' = [rd EXCEPT ![r] = v]
    BY <2>1
  <2>4. IsRender(rd[r])
    BY DEF MtIInv
  <2>5. \A y : y = v => IsRender(y) /\ y.pc = "emit"
    BY ONLY <2>4 DEF IsRender
  <2> HIDE DEF v
  <2>6. /\ rd' = [x \in Renders |-> rd'[x]] /\ \A x \in Renders : IsRender(rd'[x])
        /\ rd'[r] = v /\ \A x \in Renders : x # r => rd'[x] = rd[x]
    BY <2>3, <2>5, OneRender
  <2>7. ~overlapped => RendersKnow'
    BY <2>2, <2>5, <2>6 DEF MtIInv, RendersKnow, Shows
  <2> QED BY <2>2, <2>6, <2>7 DEF MtIInv
<1>6. ASSUME NEW r \in Renders, RenderEmits(r) PROVE MtIInv'
  <2>0. rd[r].pc = "emit" /\ UNCHANGED overlapped
    BY <1>6 DEF RenderEmits
  <2>1. ASSUME ~overlapped PROVE Shows /\ \A q \in Renders : q # r => rd[q].pc = "idle"
    BY <2>0, <2>1 DEF MtIInv, RendersKnow
  <2>2. ASSUME NEW b, emitEmpty(b), rd' = [rd EXCEPT ![r] = RdIdle] PROVE MtIInv'
    <3>1. /\ rd' = [x \in Renders |-> rd'[x]] /\ \A x \in Renders : IsRender(rd'[x])
          /\ rd'[r] = RdIdle /\ \A x \in Renders : x # r => rd'[x] = rd[x]
      BY <2>2, RenderIdle, OneRender
    <3>2. ~overlapped => RendersKnow'
      BY <2>1, <2>2, <3>1, RenderIdle, EmptyShown DEF RendersKnow
    <3> QED BY <2>0, <3>1, <3>2 DEF MtIInv
  <2>3. ASSUME rd[r].got # NoMemory, cards' = Patched(rd[r].got), rd' = [rd EXCEPT ![r].pc = "remember"],
               IF lastGroupHTML = NoMemory THEN body' = "inner" /\ lastEmpty' = "" ELSE UNCHANGED <<body, lastEmpty>>
        PROVE  MtIInv'
    <3> DEFINE v == [rd[r] EXCEPT !.pc = "remember"]
    <3>1. rd' = [rd EXCEPT ![r] = v]
      BY <2>3
    <3>2. IsRender(rd[r])
      BY DEF MtIInv
    <3>3. IsRender(v) /\ v.pc = "remember" /\ v.got = rd[r].got
      BY ONLY <3>2 DEF IsRender
    <3> HIDE DEF v
    <3>4. /\ rd' = [x \in Renders |-> rd'[x]] /\ \A x \in Renders : IsRender(rd'[x])
          /\ rd'[r] = v /\ \A x \in Renders : x # r => rd'[x] = rd[x]
      BY <3>1, <3>3, OneRender
    <3>5. ASSUME ~overlapped PROVE RendersKnow'
      <4>1. body' = "inner"
        BY <2>1, <2>3, <3>5 DEF Shows
      <4>2. \A g \in MGroups : cards'[g] = CardOf(rd[r].got[g])
        BY <2>1, <2>3, <3>5, PatchesLand
      <4>3. \A q \in Renders : q # r => rd'[q].pc = "idle"
        BY <2>1, <3>4, <3>5
      <4>4. \A g \in MGroups : cards'[g] = CardOf(rd[r].got[g])'
        BY <3>3, <3>4, <4>2 DEF CardOf
      <4> QED BY <2>3, <3>3, <3>4, <4>1, <4>3, <4>4 DEF RendersKnow, NoMemory
    <3> QED BY <2>0, <3>4, <3>5 DEF MtIInv
  <2> QED BY <1>6, <2>2, <2>3 DEF RenderEmits
<1>7. ASSUME NEW r \in Renders, RenderRemembers(r) PROVE MtIInv'
  <2>1. /\ rd[r].pc = "remember" /\ lastGroupHTML' = rd[r].got /\ rd' = [rd EXCEPT ![r] = RdIdle]
        /\ UNCHANGED <<overlapped, lastEmpty, cards, body>>
    BY <1>7 DEF RenderRemembers, browser
  <2>2. /\ rd' = [x \in Renders |-> rd'[x]] /\ \A x \in Renders : IsRender(rd'[x])
        /\ rd'[r] = RdIdle /\ \A x \in Renders : x # r => rd'[x] = rd[x]
    BY <2>1, RenderIdle, OneRender
  <2>3. ASSUME ~overlapped PROVE RendersKnow'
    <3>1. /\ rd[r].got # NoMemory /\ body = "inner" /\ \A g \in MGroups : cards[g] = CardOf(rd[r].got[g])
          /\ \A q \in Renders : q # r => rd[q].pc = "idle"
      BY <2>1, <2>3 DEF MtIInv, RendersKnow
    <3>2. Shows'
      BY <2>1, <3>1 DEF Shows, CardOf, NoMemory
    <3> QED BY <2>2, <3>1, <3>2, RenderIdle DEF RendersKnow
  <2> QED BY <2>1, <2>2, <2>3 DEF MtIInv
<1> QED BY <1>2, <1>3, <1>4, <1>5, <1>6, <1>7 DEF MtNext

\* The renderer's invariant holds throughout.
THEOREM RenderInvariant == MtSpec => []MtIInv
<1> QED BY MtInvInit, MtInvNext, PTL DEF MtSpec

\* Between renders that did not overlap, the browser shows exactly what the
\* renderer remembers having sent, so that the next difference lands.
THEOREM CardsInStep == MtSpec => []CardsMatchMemory
<1>1. MtIInv => CardsMatchMemory
  BY DEF MtIInv, RendersKnow, CardsMatchMemory, Quiet
<1> QED BY <1>1, RenderInvariant, PTL


-----------------------------------------------------------------------------
(* Where a load goes and how large it is made (LoadPlan).                  *)

\* The greater and the smaller of two numbers.
LEMMA MaxOfTwo ==
  ASSUME NEW a \in Int, NEW b \in Int
  PROVE  Max({a, b}) \in {a, b} /\ Max({a, b}) >= a /\ Max({a, b}) >= b
<1>1. \E x \in {a, b} : \A y \in {a, b} : x >= y
  OBVIOUS
<1> QED BY <1>1 DEF Max

\* The minimum of two integers.
LEMMA MinOfTwo ==
  ASSUME NEW a \in Int, NEW b \in Int
  PROVE  Min({a, b}) \in {a, b} /\ Min({a, b}) <= a /\ Min({a, b}) <= b
<1>1. \E x \in {a, b} : \A y \in {a, b} : x <= y
  OBVIOUS
<1> QED BY <1>1 DEF Min

\* Go's integer division of a number that is not negative.
LEMMA Quotient ==
  ASSUME NEW a \in Nat, NEW d \in Nat \ {0}
  PROVE  a \div d \in Nat /\ d * (a \div d) <= a /\ a < d * (a \div d) + d
OBVIOUS

\* Free memory is never negative, whatever is reserved.
LEMMA FreeIsNat ==
  ASSUME NEW total \in Int, NEW used \in Int, NEW reserved \in Int
  PROVE  freeMemoryBytes(total, used, reserved) \in Nat
<1>1. IsFiniteSet(GPUs \cap on) /\ IsFiniteSet(CPUs \cap on)
  BY LoadPlanAssumption, FS_Subset
<1>2. IsFiniteSet(deviceSet)
  BY <1>1, FS_Singleton, FS_EmptySet DEF deviceSet
<1>3. Cardinality(deviceSet) \in Nat
  BY <1>2, FS_CardinalityType
<1> DEFINE each == Max({0, total - used})
           sum == Cardinality(deviceSet) * each - reserved
<1>4. each \in Nat
  <2> DEFINE diff == total - used
  <2>1. diff \in Int /\ 0 \in Int
    OBVIOUS
  <2> HIDE DEF diff
  <2>2. Max({0, diff}) \in {0, diff} /\ Max({0, diff}) >= 0
    BY <2>1, MaxOfTwo, Zenon
  <2>3. Max({0, diff}) \in Nat
    BY <2>1, <2>2
  <2> QED BY <2>3 DEF diff
<1> HIDE DEF each
<1>5. sum \in Int
  BY <1>3, <1>4
<1> HIDE DEF sum
<1>6. Max({0, sum}) \in Nat
  BY <1>5, MaxOfTwo
<1> QED BY <1>6 DEF sum, each, freeMemoryBytes

\* The slots the latency budget asks for are at least one and at most the cap.
LEMMA LatencyInRange ==
  ASSUME NEW secs \in Nat
  PROVE  LatencySlots(secs) \in 1..SlotsCap
<1> DEFINE x == IF secs > 0 THEN BudgetSecs \div secs ELSE SlotsCap
<1>1. x \in Int /\ SlotsCap \in Nat \ {0}
  BY LoadPlanAssumption
<1> HIDE DEF x
<1> DEFINE y == Max({1, x})
<1>2. y \in {1, x} /\ y >= 1
  <2>1. 1 \in Int
    OBVIOUS
  <2> QED BY <1>1, <2>1, MaxOfTwo, Zenon
<1>3. y \in Int /\ SlotsCap \in Int
  BY <1>1, <1>2
<1> HIDE DEF y
<1>4. Min({SlotsCap, y}) \in {SlotsCap, y} /\ Min({SlotsCap, y}) <= SlotsCap
  BY <1>3, MinOfTwo, Zenon
<1>5. Min({SlotsCap, y}) \in 1..SlotsCap
  BY <1>1, <1>2, <1>3, <1>4
<1> QED BY <1>5 DEF x, y, LatencySlots

\* A pool that is planned on any free memory, also on less than the model itself takes:
\* a slot at least, the slots after the first within the watermark, and none wasted.
LEMMA PoolFits ==
  ASSUME NEW free \in Nat, NEW base \in Nat, NEW per \in Nat, NEW pct \in 1..100, NEW secs \in Nat
  PROVE  LET pool == plannedPoolSize(free, base, per, pct, secs)
             above == (pool - 1) * per
             watermark == (free - base) * pct
         IN  /\ pool \in 1..SlotsCap /\ above \in Nat
             /\ base > 0 /\ above > 0 => 100 * above <= watermark
             /\ pool < LatencySlots(secs) => 100 * (above + per) > watermark
<1> DEFINE pool == plannedPoolSize(free, base, per, pct, secs)
           latency == LatencySlots(secs)
           room == (free - base) * pct
           headroom == room \div 100
           above == (pool - 1) * per
<1>1. latency \in 1..SlotsCap /\ SlotsCap \in Nat
  BY LatencyInRange, LoadPlanAssumption
<1>2. pool = IF per <= 0 \/ base <= 0 THEN latency
              ELSE IF headroom <= 0 THEN 1 ELSE Min({latency, 1 + headroom \div per})
  BY DEF plannedPoolSize
<1>3. room \in Int
  <2> DEFINE slack == free - base
  <2>1. slack \in Int /\ pct \in Int
    OBVIOUS
  <2> HIDE DEF slack
  <2>2. slack * pct \in Int
    BY <2>1
  <2> QED BY <2>2 DEF slack
<1> SUFFICES /\ pool \in 1..SlotsCap /\ above \in Nat
             /\ base > 0 /\ above > 0 => 100 * above <= room
             /\ pool < latency => 100 * (above + per) > room
  OBVIOUS
<1> HIDE DEF pool, latency, room
<1>4. CASE per = 0 \/ base = 0
  <2>1. pool = latency
    BY <1>2, <1>4
  <2>2. pool - 1 \in Nat
    BY <1>1, <2>1
  <2>3. above \in Nat /\ (per = 0 => above = 0)
    BY <2>2
  <2> HIDE DEF above
  <2> QED BY <1>1, <1>3, <1>4, <2>1, <2>3
<1>5. CASE per > 0 /\ base > 0 /\ headroom <= 0
  <2>1. pool = 1
    BY <1>2, <1>5
  <2>2. above = 0
    BY <2>1
  <2>3. room < 100
    BY <1>3, <1>5
  <2> HIDE DEF above, headroom
  <2> QED BY <1>1, <1>3, <1>5, <2>1, <2>2, <2>3
<1>6. CASE per > 0 /\ base > 0 /\ headroom > 0
  <2>1. room \in Nat
    BY <1>3, <1>6
  <2>2. headroom \in Nat /\ 100 * headroom <= room /\ room < 100 * headroom + 100
    BY <2>1, Quotient
  <2> HIDE DEF headroom
  <2> DEFINE more == headroom \div per
  <2>3. more \in Nat /\ per * more <= headroom /\ headroom < per * more + per
    BY <1>6, <2>2, Quotient
  <2> DEFINE top == 1 + more
  <2>4. ~(per <= 0 \/ base <= 0) /\ ~(headroom <= 0)
    BY <1>6, <2>2
  <2>5. pool = Min({latency, top})
    BY <1>2, <2>4, Zenon
  <2> HIDE DEF more
  <2>6. latency \in Int /\ top \in Int
    BY <1>1, <2>3
  <2> HIDE DEF top
  <2>7. pool \in {latency, top} /\ pool <= latency /\ pool <= top
    BY <2>5, <2>6, MinOfTwo, Zenon
  <2>8. pool \in {latency, 1 + more} /\ pool <= latency /\ pool <= 1 + more
    BY <2>7 DEF top
  <2>9. pool \in 1..SlotsCap /\ pool - 1 \in Nat /\ pool - 1 <= more
    BY <1>1, <2>3, <2>8
  <2>10. above \in Nat /\ above <= more * per
    BY <1>6, <2>3, <2>9
  <2>11. pool < latency => above = more * per
    BY <1>1, <2>3, <2>8
  <2>12. more * per = per * more /\ more * per \in Nat
    BY <2>3
  <2> HIDE DEF above
  <2> QED BY <1>6, <2>1, <2>2, <2>3, <2>9, <2>10, <2>11, <2>12
<1>7. headroom \in Int
  BY <1>3
<1> HIDE DEF headroom
<1> QED BY <1>4, <1>5, <1>6, <1>7

\* What is projected for a row that fits is within the memory it was read from.
LEMMA ProjectionFits ==
  ASSUME NEW free \in Nat, NEW base \in Nat, NEW per \in Nat, NEW pct \in 1..100, NEW secs \in Nat,
         base = 0 \/ free >= base
  PROVE  projectedLoadBytes(free, base, per, pct, secs) <= free
<1> DEFINE pool == plannedPoolSize(free, base, per, pct, secs)
           bytes == projectedLoadBytes(free, base, per, pct, secs)
           above == (pool - 1) * per
           room == (free - base) * pct
<1>1. above \in Nat /\ (base > 0 /\ above > 0 => 100 * above <= room)
  BY PoolFits
<1>2. bytes = IF base <= 0 THEN 0 ELSE IF per <= 0 THEN base ELSE base + above
  BY DEF projectedLoadBytes
<1> HIDE DEF bytes, above
<1>3. free >= base => room <= 100 * (free - base) /\ room \in Nat
  <2> SUFFICES ASSUME free >= base PROVE room <= 100 * (free - base) /\ room \in Nat
    OBVIOUS
  <2> DEFINE slack == free - base
  <2>1. slack \in Nat
    OBVIOUS
  <2> HIDE DEF slack
  <2>2. slack * pct \in Nat /\ slack * pct <= slack * 100
    BY <2>1
  <2> QED BY <2>2 DEF slack
<1> HIDE DEF room
<1>4. bytes <= free
  BY <1>1, <1>2, <1>3
<1> QED BY <1>4 DEF bytes

\* Division by the same number keeps the order.
LEMMA QuotientOrder ==
  ASSUME NEW a \in Nat, NEW b \in Nat, NEW d \in Nat \ {0}, a <= b
  PROVE  a \div d <= b \div d
<1> DEFINE p == a \div d
           q == b \div d
<1>1. p \in Nat /\ d * p <= a
  BY Quotient
<1>2. q \in Nat /\ b < d * q + d
  BY Quotient
<1> HIDE DEF p, q
<1>3. d * p < d * q + d
  <2> DEFINE x == d * p
             y == d * q
  <2>1. x \in Nat /\ y \in Nat /\ x <= a /\ b < y + d
    BY <1>1, <1>2
  <2> HIDE DEF x, y
  <2>2. x < y + d
    BY <2>1
  <2> QED BY <2>2 DEF x, y
<1>4. d * q + d = d * (q + 1)
  BY <1>2
<1>5. ~(p >= q + 1)
  <2> SUFFICES ASSUME p >= q + 1 PROVE FALSE
    OBVIOUS
  <2>1. d * p >= d * (q + 1)
    BY <1>1, <1>2
  <2> QED BY <1>1, <1>2, <1>3, <1>4, <2>1
<1>6. p <= q
  BY <1>1, <1>2, <1>5
<1> QED BY <1>6 DEF p, q

\* Less memory never plans a larger pool.
LEMMA PoolOrder ==
  ASSUME NEW less \in Nat, NEW free \in Nat, less <= free,
         NEW base \in Nat, NEW per \in Nat, NEW pct \in 1..100, NEW secs \in Nat
  PROVE  plannedPoolSize(less, base, per, pct, secs) <= plannedPoolSize(free, base, per, pct, secs)
<1> DEFINE pool(f) == plannedPoolSize(f, base, per, pct, secs)
           latency == LatencySlots(secs)
           room(f) == (f - base) * pct
           headroom(f) == room(f) \div 100
<1>1. latency \in 1..SlotsCap /\ SlotsCap \in Nat
  BY LatencyInRange, LoadPlanAssumption
<1>2. \A f \in Nat : pool(f) = IF per <= 0 \/ base <= 0 THEN latency
              ELSE IF headroom(f) <= 0 THEN 1 ELSE Min({latency, 1 + headroom(f) \div per})
  BY DEF plannedPoolSize
<1>3. \A f \in Nat : pool(f) \in 1..SlotsCap
  BY PoolFits
<1> HIDE DEF pool, latency
<1>4. CASE per = 0 \/ base = 0 \/ headroom(less) <= 0
  <2>1. ASSUME per = 0 \/ base = 0 PROVE pool(less) = pool(free)
    <3>1. per <= 0 \/ base <= 0
      BY <2>1
    <3> HIDE DEF headroom
    <3> QED BY <1>2, <3>1
  <2>2. ASSUME ~ (per = 0 \/ base = 0) PROVE pool(less) = 1
    <3>1. ~ (per <= 0 \/ base <= 0) /\ headroom(less) <= 0
      BY <1>4, <2>2
    <3> HIDE DEF headroom
    <3> QED BY <1>2, <3>1
  <2>3. pool(less) <= pool(free)
    BY <1>1, <1>3, <2>1, <2>2
  <2> QED BY <2>3 DEF pool
<1>5. CASE per > 0 /\ base > 0 /\ headroom(less) > 0
  <2>1. room(less) \in Int /\ room(free) \in Int /\ room(less) <= room(free)
    <3> DEFINE a == less - base
               b == free - base
    <3>1. a \in Int /\ b \in Int /\ a <= b
      OBVIOUS
    <3> HIDE DEF a, b
    <3>2. a * pct \in Int /\ b * pct \in Int /\ a * pct <= b * pct
      BY <3>1
    <3> QED BY <3>2 DEF a, b
  <2> DEFINE x == room(less)
             y == room(free)
  <2> HIDE DEF x, y
  <2>2. x \in Nat /\ y \in Nat /\ x <= y
    BY <1>5, <2>1 DEF x, y
  <2>3. x \div 100 <= y \div 100 /\ x \div 100 \in Nat /\ y \div 100 \in Nat
    BY <2>2, QuotientOrder, Quotient
  <2> DEFINE hx == x \div 100
             hy == y \div 100
  <2>4. hx = headroom(less) /\ hy = headroom(free)
    BY DEF x, y
  <2> HIDE DEF room, headroom, hx, hy
  <2>5. hx > 0 /\ hy > 0 /\ hx <= hy /\ hx \in Nat /\ hy \in Nat
    BY <1>5, <2>3, <2>4 DEF hx, hy
  <2> DEFINE mx == hx \div per
             my == hy \div per
  <2>6. mx \in Nat /\ my \in Nat /\ mx <= my
    BY <1>5, <2>5, QuotientOrder, Quotient
  <2>7. pool(less) = Min({latency, 1 + mx}) /\ pool(free) = Min({latency, 1 + my})
    BY <1>2, <1>5, <2>4, <2>5
  <2> DEFINE tx == 1 + mx
             ty == 1 + my
  <2> HIDE DEF mx, my
  <2>8. latency \in Int /\ tx \in Int /\ ty \in Int /\ tx <= ty
    BY <1>1, <2>6
  <2>9. pool(less) = Min({latency, tx}) /\ pool(free) = Min({latency, ty})
    BY <2>7
  <2> HIDE DEF tx, ty
  <2>10. pool(less) <= latency /\ pool(less) <= tx /\ pool(less) \in {latency, tx}
    BY <2>8, <2>9, MinOfTwo
  <2>11. pool(free) \in {latency, ty}
    BY <2>8, <2>9, MinOfTwo
  <2>12. pool(less) <= pool(free)
    BY <2>8, <2>10, <2>11
  <2> QED BY <2>12 DEF pool
<1> QED BY <1>4, <1>5 DEF headroom

\* The same for what is reserved: the pool of less memory takes no more.
LEMMA ReservationHolds ==
  ASSUME NEW less \in Nat, NEW free \in Nat, less <= free,
         NEW base \in Nat \ {0}, NEW per \in Nat, NEW pct \in 1..100, NEW secs \in Nat
  PROVE  base + (plannedPoolSize(less, base, per, pct, secs) - 1) * per
           <= projectedLoadBytes(free, base, per, pct, secs)
<1> DEFINE small == plannedPoolSize(less, base, per, pct, secs)
           pool == plannedPoolSize(free, base, per, pct, secs)
           bytes == projectedLoadBytes(free, base, per, pct, secs)
<1>1. small <= pool
  BY PoolOrder
<1>2. small \in Nat \ {0} /\ pool \in Nat \ {0}
  <2>1. small \in 1..SlotsCap /\ pool \in 1..SlotsCap
    BY PoolFits
  <2> HIDE DEF small, pool
  <2> QED BY <2>1, LoadPlanAssumption
<1>3. bytes = IF per <= 0 THEN base ELSE base + (pool - 1) * per
  BY DEF projectedLoadBytes
<1> HIDE DEF small, pool, bytes
<1>4. (small - 1) * per <= (pool - 1) * per /\ (small - 1) * per \in Nat /\ (pool - 1) * per \in Nat
  <2> DEFINE s == small - 1
             p == pool - 1
  <2>1. s \in Nat /\ p \in Nat /\ s <= p
    BY <1>1, <1>2
  <2> HIDE DEF s, p
  <2>2. s * per <= p * per /\ s * per \in Nat /\ p * per \in Nat
    BY <2>1
  <2> QED BY <2>2 DEF s, p
<1>5. per = 0 => (small - 1) * per = 0
  BY <1>2
<1>6. base + (small - 1) * per <= bytes
  BY <1>3, <1>4, <1>5
<1> QED BY <1>6 DEF small, bytes


Measured == [stage : {"placed", "reserved", "sized"}, base : Nat, per : Nat, total : Nat, secs : Nat, pct : 1..100,
             free : Nat, less : BOOLEAN, bytes : Int, slots : Int, more : BOOLEAN]

\* A sizing carries the measurements it began with and, at each stage, what the stage
\* computed from them.
SizingInv ==
  sizing # <<>> =>
    /\ sizing \in Measured
    /\ sizing.stage = "placed" /\ ~ sizing.less => sizing.base = 0 \/ sizing.free >= sizing.base
    /\ sizing.stage = "reserved" =>
         sizing.bytes = projectedLoadBytes(sizing.free, sizing.base, sizing.per, sizing.pct, sizing.secs)
    /\ ReservedEnough /\ PoolSized

\* While a dispatch is under way, every resident that is off the set it read at the
\* gate stays off it: only blockers (left) and the model itself may be on it.
GateInv ==
  dispatch # NoDispatch =>
    /\ dispatch \in [model : LModels, set : SUBSET Devices, left : SUBSET LModels, load : BOOLEAN]
    /\ \A n \in DOMAIN residents \ dispatch.left :
         n # dispatch.model => residents[n] \cap dispatch.set = {}

PlanInv == SizingInv /\ GateInv /\ ResidentsDisjoint /\ DOMAIN residents \subseteq LModels

\* What a reading finds is a natural number.
LEMMA ReadingIsNat == ASSUME NEW total \in Nat, NEW free \in Reading(total) PROVE free \in Nat
<1>1. PICK used \in {0, 1}, reserved \in {0, 1} : free = freeMemoryBytes(total, used, reserved)
  BY DEF Reading
<1> QED BY <1>1, FreeIsNat

\* Each stage of a sizing keeps its invariant: the reservation is what the memory then
\* calls for, and the pool planned later on no more memory is within it.
LEMMA SizingStep == ASSUME SizingInv, AdmitLoad \/ ReserveLoad \/ SizePool PROVE SizingInv'
<1>1. CASE AdmitLoad
  <2>1. PICK base \in 0..MaxBytes, per \in 0..MaxBytes, total \in 0..MaxBytes, override \in Headrooms \cup {0},
             secs \in 0..2, warm \in BOOLEAN :
          \E free \in Reading(total) :
            /\ memoryEligible(free, base, warm)
            /\ sizing' = [stage |-> "placed", base |-> base, per |-> per, total |-> total, secs |-> secs,
                          pct |-> effectiveHeadroomPct(override, 0), free |-> free, less |-> warm,
                          bytes |-> 0, slots |-> 0, more |-> FALSE]
    BY <1>1 DEF AdmitLoad
  <2>2. PICK free \in Reading(total) :
            /\ memoryEligible(free, base, warm)
            /\ sizing' = [stage |-> "placed", base |-> base, per |-> per, total |-> total, secs |-> secs,
                          pct |-> effectiveHeadroomPct(override, 0), free |-> free, less |-> warm,
                          bytes |-> 0, slots |-> 0, more |-> FALSE]
    BY <2>1
  <2>3. base \in Nat /\ per \in Nat /\ total \in Nat /\ secs \in Nat
    BY LoadPlanAssumption
  <2>4. free \in Nat
    BY <2>3, ReadingIsNat
  <2> DEFINE pct == effectiveHeadroomPct(override, 0)
  <2>5. pct \in 1..100
    BY LoadPlanAssumption DEF effectiveHeadroomPct
  <2> HIDE DEF pct
  <2>6. sizing' = [stage |-> "placed", base |-> base, per |-> per, total |-> total, secs |-> secs,
                   pct |-> pct, free |-> free, less |-> warm, bytes |-> 0, slots |-> 0, more |-> FALSE]
    BY <2>2 DEF pct
  <2>7. sizing' \in Measured
    BY <2>3, <2>4, <2>5, <2>6 DEF Measured
  <2>8. /\ sizing'.stage = "placed" /\ sizing'.base = base /\ sizing'.free = free
        /\ sizing'.less = warm
    BY <2>6
  <2>9. ~ warm => base = 0 \/ free >= base
    BY <2>2, <2>3 DEF memoryEligible
  <2> QED BY <2>7, <2>8, <2>9 DEF SizingInv, ReservedEnough, PoolSized
<1>2. CASE ReserveLoad
  <2>1. PICK free \in Reading(sizing.total) :
          sizing' = [sizing EXCEPT !.stage = "reserved", !.free = free, !.less = @ \/ free < sizing.free,
                       !.bytes = projectedLoadBytes(free, sizing.base, sizing.per, sizing.pct, sizing.secs)]
    BY <1>2 DEF ReserveLoad
  <2>2. sizing \in Measured /\ sizing.stage = "placed"
    BY <1>2 DEF ReserveLoad, SizingInv
  <2> DEFINE base == sizing.base
             per == sizing.per
             pct == sizing.pct
             secs == sizing.secs
             bytes == projectedLoadBytes(free, base, per, pct, secs)
             less == sizing.less \/ free < sizing.free
  <2>3. base \in Nat /\ per \in Nat /\ sizing.total \in Nat /\ secs \in Nat /\ pct \in 1..100 /\ sizing.free \in Nat
    BY <2>2 DEF Measured
  <2>4. free \in Nat
    BY <2>3, ReadingIsNat
  <2>5. bytes \in Int
    <3>1. (plannedPoolSize(free, base, per, pct, secs) - 1) * per \in Nat
      BY <2>3, <2>4, PoolFits
    <3> QED BY <2>3, <3>1 DEF projectedLoadBytes
  <2>6. ~ sizing.less => base = 0 \/ sizing.free >= base
    BY <1>2, <2>2 DEF SizingInv, ReserveLoad
  <2>7. ~ less => bytes <= free
    <3> SUFFICES ASSUME ~ less PROVE bytes <= free
      OBVIOUS
    <3>1. base = 0 \/ free >= base
      BY <2>3, <2>4, <2>6
    <3> QED BY <2>3, <2>4, <3>1, ProjectionFits
  <2>8. sizing' = [sizing EXCEPT !.stage = "reserved", !.free = free, !.less = less, !.bytes = bytes]
    BY <2>1
  <2> HIDE DEF bytes, less
  <2>9. /\ sizing'.stage = "reserved" /\ sizing'.base = base /\ sizing'.per = per /\ sizing'.pct = pct
        /\ sizing'.secs = secs /\ sizing'.free = free /\ sizing'.bytes = bytes /\ sizing'.less = less
    BY <2>2, <2>8 DEF Measured
  <2>10. sizing' \in Measured
    <3>1. less \in BOOLEAN
      BY DEF less
    <3> QED BY <2>2, <2>4, <2>5, <2>8, <3>1 DEF Measured
  <2>11. sizing'.bytes = projectedLoadBytes(sizing'.free, sizing'.base, sizing'.per, sizing'.pct, sizing'.secs)
    BY <2>9 DEF bytes
  <2> HIDE DEF base, per, pct, secs
  <2> QED BY <2>7, <2>9, <2>10, <2>11 DEF SizingInv, ReservedEnough, PoolSized
<1>3. CASE SizePool
  <2>1. PICK free \in Reading(sizing.total) :
          sizing' = [sizing EXCEPT !.stage = "sized", !.free = free, !.more = free > sizing.free,
                       !.slots = plannedPoolSize(free, sizing.base, sizing.per, sizing.pct, sizing.secs)]
    BY <1>3 DEF SizePool
  <2>2. sizing \in Measured /\ sizing.stage = "reserved"
    BY <1>3 DEF SizePool, SizingInv
  <2> DEFINE base == sizing.base
             per == sizing.per
             pct == sizing.pct
             secs == sizing.secs
             pool == plannedPoolSize(free, base, per, pct, secs)
             above == (pool - 1) * per
             room == (free - base) * pct
             more == free > sizing.free
  <2>3. base \in Nat /\ per \in Nat /\ sizing.total \in Nat /\ secs \in Nat /\ pct \in 1..100 /\ sizing.free \in Nat
    BY <2>2 DEF Measured
  <2>4. free \in Nat
    BY <2>3, ReadingIsNat
  <2>5. /\ pool \in 1..SlotsCap /\ above \in Nat
        /\ base > 0 /\ above > 0 => 100 * above <= room
        /\ pool < LatencySlots(secs) => 100 * (above + per) > room
    BY <2>3, <2>4, PoolFits
  <2>6. sizing.bytes = projectedLoadBytes(sizing.free, base, per, pct, secs)
    BY <1>3, <2>2 DEF SizingInv, SizePool
  <2>7. ~ more /\ base > 0 => base + above <= sizing.bytes
    <3> SUFFICES ASSUME ~ more, base > 0 PROVE base + above <= sizing.bytes
      OBVIOUS
    <3>1. free <= sizing.free /\ base \in Nat \ {0}
      BY <2>3, <2>4
    <3> HIDE DEF base, per, pct, secs
    <3>2. base + above <= projectedLoadBytes(sizing.free, base, per, pct, secs)
      BY <2>3, <2>4, <3>1, ReservationHolds
    <3> QED BY <2>6, <3>2
  <2>8. sizing' = [sizing EXCEPT !.stage = "sized", !.free = free, !.more = more, !.slots = pool]
    BY <2>1
  <2> HIDE DEF pool, more
  <2>9. /\ sizing'.stage = "sized" /\ sizing'.base = base /\ sizing'.per = per /\ sizing'.pct = pct
        /\ sizing'.secs = secs /\ sizing'.free = free /\ sizing'.bytes = sizing.bytes
        /\ sizing'.slots = pool /\ sizing'.more = more
    BY <2>2, <2>8 DEF Measured
  <2>10. sizing' \in Measured
    <3>1. more \in BOOLEAN
      BY DEF more
    <3>2. pool \in Int
      BY <2>5, LoadPlanAssumption
    <3> QED BY <2>2, <2>4, <2>8, <3>1, <3>2 DEF Measured
  <2> HIDE DEF base, per, pct, secs
  <2>11. PoolSized'
    <3>1. (sizing'.slots - 1) * sizing'.per = above /\ (sizing'.free - sizing'.base) * sizing'.pct = room
      BY <2>9
    <3>2. LatencySlots(sizing'.secs) = LatencySlots(secs)
      BY <2>9
    <3> HIDE DEF above, room
    <3>3. /\ sizing'.slots \in 1..SlotsCap
          /\ sizing'.base > 0 /\ above > 0 => 100 * above <= room
          /\ sizing'.slots < LatencySlots(sizing'.secs) => 100 * (above + sizing'.per) > room
      BY <2>5, <2>9, <3>2
    <3> QED BY <3>1, <3>3 DEF PoolSized
  <2>12. ReservedEnough'
    <3>1. sizing'.base + (sizing'.slots - 1) * sizing'.per = base + above
      BY <2>9
    <3> HIDE DEF above
    <3> QED BY <2>7, <2>9, <3>1 DEF ReservedEnough
  <2> QED BY <2>9, <2>10, <2>11, <2>12 DEF SizingInv
<1> QED BY <1>1, <1>2, <1>3

GateOK == GateInv /\ ResidentsDisjoint /\ DOMAIN residents \subseteq LModels

\* A resident that leaves only frees devices.
LEMMA ResidentLeaves ==
  ASSUME GateOK, NEW n, Unloads(n),
         dispatch' = dispatch \/ (n \in dispatch.left /\ dispatch' = [dispatch EXCEPT !.left = @ \ {n}])
  PROVE  GateOK'
<1>1. /\ DOMAIN residents' = DOMAIN residents \ {n}
      /\ \A k \in DOMAIN residents' : residents'[k] = residents[k]
      /\ shifted' = shifted \ {n}
  BY DEF Unloads, Drop
<1>2. ResidentsDisjoint'
  BY <1>1 DEF ResidentsDisjoint, GateOK
<1>3. CASE dispatch' = dispatch
  <2>1. GateInv'
    BY <1>1, <1>3 DEF GateInv, GateOK, NoDispatch
  <2> QED BY <1>1, <1>2, <2>1 DEF GateOK
<1>4. CASE n \in dispatch.left /\ dispatch' = [dispatch EXCEPT !.left = @ \ {n}]
  <2>1. dispatch # NoDispatch
    BY <1>4 DEF NoDispatch
  <2>2. dispatch \in [model : LModels, set : SUBSET Devices, left : SUBSET LModels, load : BOOLEAN]
    BY <2>1 DEF GateInv, GateOK
  <2>3. /\ dispatch' \in [model : LModels, set : SUBSET Devices, left : SUBSET LModels, load : BOOLEAN]
        /\ dispatch'.model = dispatch.model /\ dispatch'.set = dispatch.set
        /\ dispatch'.left = dispatch.left \ {n}
    BY <1>4, <2>2
  <2>4. GateInv'
    BY <1>1, <2>1, <2>3 DEF GateInv, GateOK
  <2> QED BY <1>1, <1>2, <2>4 DEF GateOK
<1> QED BY <1>3, <1>4

\* The gate: whoever is neither a blocker nor the model itself is off the set.
LEMMA GateReads == ASSUME GateOK, NEW m \in LModels, PlanDispatch(m) PROVE GateOK'
<1> DEFINE left == residentsBlockingLoad(m)
           need == needsLoad(m)
<1>1. /\ dispatch' = [model |-> m, set |-> predictDeviceSet, left |-> left, load |-> need]
      /\ residents' = residents /\ shifted' = shifted
  BY DEF PlanDispatch
<1>2. left \in SUBSET LModels /\ predictDeviceSet \in SUBSET Devices
  BY DEF GateOK, residentsBlockingLoad, predictDeviceSet, Devices
<1>3. need \in BOOLEAN
  BY DEF needsLoad
<1>4. \A n \in DOMAIN residents \ left : n # m => residents[n] \cap predictDeviceSet = {}
  BY DEF residentsBlockingLoad, DeviceIDs
<1> HIDE DEF left, need
<1>5. /\ dispatch' \in [model : LModels, set : SUBSET Devices, left : SUBSET LModels, load : BOOLEAN]
      /\ dispatch'.model = m /\ dispatch'.set = predictDeviceSet /\ dispatch'.left = left
  BY <1>1, <1>2, <1>3
<1>6. GateInv'
  BY <1>1, <1>4, <1>5 DEF GateInv
<1>7. ResidentsDisjoint'
  BY <1>1 DEF GateOK, ResidentsDisjoint
<1> QED BY <1>1, <1>6, <1>7 DEF GateOK

\* A load lands on a set that was cleared, or is remembered as shifted.
LEMMA LoadLands == ASSUME GateOK, LoadModel PROVE GateOK'
<1> DEFINE m == dispatch.model
           P == predictDeviceSet
<1>1. /\ dispatch # NoDispatch /\ dispatch.left = {}
      /\ residents' = [n \in DOMAIN residents \cup {m} |-> IF n = m THEN P ELSE residents[n]]
      /\ shifted' = IF P \subseteq dispatch.set THEN shifted \ {m} ELSE shifted \cup {m}
      /\ dispatch' = NoDispatch
  BY DEF LoadModel, Cleared, Starts
<1>2. m \in LModels /\ \A n \in DOMAIN residents : n # m => residents[n] \cap dispatch.set = {}
  BY <1>1 DEF GateOK, GateInv
<1> HIDE DEF m, P
<1>3. DOMAIN residents' \subseteq LModels
  BY <1>1, <1>2 DEF GateOK
<1>4. ResidentsDisjoint'
  <2> SUFFICES ASSUME NEW k \in DOMAIN residents', NEW n \in DOMAIN residents', k # n,
                      {k, n} \cap shifted' = {}
               PROVE  residents'[k] \cap residents'[n] = {}
    BY DEF ResidentsDisjoint
  <2>1. CASE k = m \/ n = m
    <3>1. P \subseteq dispatch.set
      BY <1>1, <2>1
    <3> QED BY <1>1, <1>2, <2>1, <3>1
  <2>2. CASE k # m /\ n # m
    <3>1. k \in DOMAIN residents /\ n \in DOMAIN residents /\ {k, n} \cap shifted = {}
      BY <1>1, <2>2
    <3>2. residents'[k] = residents[k] /\ residents'[n] = residents[n]
      BY <1>1, <2>2
    <3> QED BY <2>2, <3>1, <3>2 DEF GateOK, ResidentsDisjoint
  <2> QED BY <2>1, <2>2
<1> QED BY <1>1, <1>3, <1>4 DEF GateOK, GateInv

\* Every step of the gate keeps what a pending dispatch relies on, whatever the
\* operator toggles meanwhile.
LEMMA GateStep == ASSUME GateOK, GateNext PROVE GateOK'
<1>1. ASSUME UNCHANGED residents, UNCHANGED shifted, dispatch' = NoDispatch \/ UNCHANGED dispatch PROVE GateOK'
  <2>1. GateInv'
    BY <1>1 DEF GateOK, GateInv, NoDispatch
  <2>2. ResidentsDisjoint'
    BY <1>1 DEF GateOK, ResidentsDisjoint
  <2> QED BY <1>1, <2>1, <2>2 DEF GateOK
<1>2. ASSUME NEW m \in LModels, PlanDispatch(m) PROVE GateOK'
  BY <1>2, GateReads
<1>3. ASSUME NEW n \in LModels, EvictBlocker(n) PROVE GateOK'
  <2>1. CASE n \in dispatch.left /\ Unloads(n) /\ dispatch' = [dispatch EXCEPT !.left = @ \ {n}]
    BY <2>1, ResidentLeaves
  <2>2. CASE dispatch' = NoDispatch /\ UNCHANGED <<residents, shifted>>
    BY <1>1, <2>2
  <2> QED BY <1>3, <2>1, <2>2 DEF EvictBlocker
<1>4. ASSUME NEW n \in LModels, EvictIdle(n) PROVE GateOK'
  BY <1>4, ResidentLeaves DEF EvictIdle
<1>5. ASSUME NEW m \in LModels, JobEnds(m) PROVE GateOK'
  BY <1>1, <1>5 DEF JobEnds
<1>6. CASE LoadModel
  BY <1>6, LoadLands
<1>7. CASE LoadFails \/ StartWarm
  BY <1>1, <1>7 DEF LoadFails, StartWarm, Starts
<1> QED BY <1>2, <1>3, <1>4, <1>5, <1>6, <1>7 DEF GateNext

\* What a load leaves behind is sound (residentsBlockingLoad, plannedPoolSize,
\* projectedLoadBytes): nobody is put on a device another model holds, however the
\* evictions and the loads of a dispatch are spread over time and whatever is toggled
\* between them, unless the load landed outside the set that was cleared; the pool
\* loaded wastes nothing and oversteps nothing, and no more than was reserved for it
\* unless memory was freed in between.
THEOREM LoadsFit == PlanSpec => []LoadFits
<1>1. PlanInit => PlanInv
  BY DEF PlanInit, PlanInv, SizingInv, GateInv, ResidentsDisjoint
<1>2. PlanInv /\ [PlanNext]_planVars => PlanInv'
  <2> SUFFICES ASSUME PlanInv, [PlanNext]_planVars PROVE PlanInv'
    OBVIOUS
  <2>0. SizingInv /\ GateOK
    BY DEF PlanInv, GateOK
  <2>1. ASSUME UNCHANGED sizing PROVE SizingInv'
    BY <2>0, <2>1 DEF SizingInv, ReservedEnough, PoolSized
  <2>2. ASSUME UNCHANGED loadVars PROVE GateOK'
    BY <2>0, <2>2 DEF GateOK, GateInv, ResidentsDisjoint, loadVars
  <2>3. CASE (AdmitLoad \/ ReserveLoad \/ SizePool) /\ UNCHANGED <<on, reports, loadVars>>
    BY <2>0, <2>2, <2>3, SizingStep DEF PlanInv, GateOK
  <2>4. CASE GateNext /\ UNCHANGED <<on, reports, sizing>>
    BY <2>0, <2>1, <2>4, GateStep DEF PlanInv, GateOK
  <2>5. ASSUME NEW d \in Devices, ToggleDevice(d) PROVE PlanInv'
    BY <2>1, <2>2, <2>5 DEF ToggleDevice, PlanInv, GateOK
  <2>6. CASE UNCHANGED planVars
    BY <2>1, <2>2, <2>6 DEF planVars, PlanInv, GateOK
  <2> QED BY <2>3, <2>4, <2>5, <2>6 DEF PlanNext
<1>3. PlanInv => LoadFits
  BY DEF PlanInv, SizingInv, LoadFits, PoolSized, ReservedEnough
<1> QED BY <1>1, <1>2, <1>3, PTL DEF PlanSpec

-----------------------------------------------------------------------------
(* The change streams of the dashboard (Tabs).                             *)

CountsOK ==
  /\ truth \in [Topics -> Int] /\ due \in [Topics -> Nat]
  /\ tab = [c \in Tabs |-> tab[c]] /\ events \in [Tabs -> Nat] /\ seen \in [Tabs -> Int]

TabsIInv == CountsOK /\ ChangesCaughtUp

\* Before the first change every stream has seen all of them.
LEMMA TabsInvInit == TabsInit => TabsIInv
BY DEF TabsInit, TabsIInv, CountsOK, ChangesCaughtUp

\* Neither the streams nor the counts of some tabs move.
LEMMA StreamsQuiet ==
  ASSUME TabsIInv, UNCHANGED <<truth, due, tab, events, seen>>
  PROVE  TabsIInv'
BY DEF TabsIInv, CountsOK, ChangesCaughtUp

\* A change raises what was and what is to be broadcast alike.
LEMMA ChangesMove ==
  ASSUME TabsIInv, UNCHANGED <<tab, events, seen>>,
         truth' \in [Topics -> Int], due' \in [Topics -> Nat],
         \A t \in Topics : truth'[t] - due'[t] = truth[t] - due[t]
  PROVE  TabsIInv'
BY TabsAssumption DEF TabsIInv, CountsOK, ChangesCaughtUp

\* Every step of tabs and log tails keeps the streams caught up.
LEMMA TabsInvNext == TabsIInv /\ [TabNext \/ TailNext]_tabsVars => TabsIInv'
<1> SUFFICES ASSUME TabsIInv, [TabNext \/ TailNext]_tabsVars PROVE TabsIInv'
  OBVIOUS
<1>0. CountsOK /\ ChangesCaughtUp /\ \A c \in Tabs : TopicOf[c] \in Topics
  BY TabsAssumption DEF TabsIInv
<1>1. CASE TailNext \/ UNCHANGED tabsVars
  BY <1>1, StreamsQuiet DEF TailNext, Add, AddSends, TailReplays, TailSubscribes, TailForwards,
     TailUnsubscribes, tabsVars, tabVars
<1>2. ASSUME NEW ts \in SUBSET Topics, Moves(ts) PROVE TabsIInv'
  BY <1>0, <1>2, ChangesMove DEF Moves, CountsOK
<1>3. CASE QueueChange \/ LoadedChange \/ \E added \in BOOLEAN : FleetChange(added)
  BY <1>2, <1>3 DEF QueueChange, LoadedChange, FleetChange, Topics
<1>4. CASE autoBenchmarkWorker
  BY <1>0, <1>4, ChangesMove DEF autoBenchmarkWorker, CountsOK, Topics
<1>5. ASSUME NEW t \in Topics, Broadcast(t) PROVE TabsIInv'
  <2>1. /\ due[t] > 0 /\ due' = [due EXCEPT ![t] = due[t] - 1] /\ UNCHANGED <<truth, tab, seen>>
        /\ events' = [c \in Tabs |-> IF c \in Subscribers(t) THEN Min({events[c] + 1, BrokerCap}) ELSE events[c]]
    BY <1>5 DEF Broadcast
  <2>2. ASSUME NEW c \in Tabs PROVE Min({events[c] + 1, BrokerCap}) \in Nat \ {0}
    <3> DEFINE more == events[c] + 1
    <3>1. more \in Int /\ more > 0 /\ BrokerCap \in Int /\ BrokerCap > 0
      BY <1>0, TabsAssumption DEF CountsOK
    <3> HIDE DEF more
    <3>2. Min({more, BrokerCap}) \in {more, BrokerCap}
      BY <3>1, MinOfTwo, Zenon
    <3> QED BY <3>1, <3>2 DEF more
  <2>3. /\ due' \in [Topics -> Nat] /\ due'[t] = due[t] - 1 /\ \A u \in Topics : u # t => due'[u] = due[u]
    BY <1>0, <2>1 DEF CountsOK
  <2>4. events' \in [Tabs -> Nat] /\ \A c \in Tabs : IF c \in Subscribers(t) THEN events'[c] # 0 ELSE events'[c] = events[c]
    BY <1>0, <2>1, <2>2 DEF CountsOK
  <2>5. CountsOK'
    BY <1>0, <2>1, <2>3, <2>4 DEF CountsOK
  <2>6. ChangesCaughtUp'
    BY <1>0, <2>1, <2>3, <2>4 DEF ChangesCaughtUp, Subscribers, CountsOK
  <2> QED BY <2>5, <2>6 DEF TabsIInv
<1>6. ASSUME NEW c \in Tabs, loadTab(c) PROVE TabsIInv'
  BY <1>0, <1>6 DEF loadTab, TabsIInv, CountsOK, ChangesCaughtUp
<1>7. ASSUME NEW c \in Tabs, Subscribe(c) PROVE TabsIInv'
  BY <1>0, <1>7 DEF Subscribe, TabsIInv, CountsOK, ChangesCaughtUp
<1>8. ASSUME NEW c \in Tabs, streamChangeEvents(c) PROVE TabsIInv'
  BY <1>0, <1>8 DEF streamChangeEvents, TabsIInv, CountsOK, ChangesCaughtUp
<1>9. ASSUME NEW c \in Tabs, Refetch(c) PROVE TabsIInv'
  BY <1>9, StreamsQuiet DEF Refetch
<1>10. ASSUME NEW c \in Tabs, StreamBreaks(c) PROVE TabsIInv'
  BY <1>0, <1>10 DEF StreamBreaks, TabsIInv, CountsOK, ChangesCaughtUp
<1>11. ASSUME NEW c \in Tabs, NEW v, ApplyList(c, v) PROVE TabsIInv'
  BY <1>0, <1>11 DEF ApplyList, TabsIInv, CountsOK, ChangesCaughtUp
<1> QED BY <1>1, <1>3, <1>4, <1>5, <1>6, <1>7, <1>8, <1>9, <1>10, <1>11 DEF TabNext

\* However many events Broadcast drops, a stream that has nothing left to take has taken
\* one after the last broadcast: the tab is told to fetch again after every change.
THEOREM StreamsCatchUp == TabsSpec => []ChangesCaughtUp
<1>1. TabsIInv => ChangesCaughtUp
  BY DEF TabsIInv
<1>2. QED
  BY <1>1, TabsInvInit, TabsInvNext, PTL DEF TabsSpec

-----------------------------------------------------------------------------
(* The log ring and its tails (Tabs).                                      *)

\* Where the lines of the ring are: the last ones, in the order of their slots.
RingOK ==
  /\ logged \in Nat /\ pos \in 1..RingSize /\ slots \in [1..RingSize -> Nat]
  /\ full \in BOOLEAN /\ (full => logged >= RingSize) /\ (~full => logged = pos - 1)
  /\ \A i \in 1..RingSize :
       /\ i < pos => slots[i] = logged - pos + 1 + i
       /\ full /\ i >= pos => slots[i] = logged - pos + 1 + i - RingSize

Missing(l, s) == \A i \in 1..Len(s) : s[i] # l
Logged(s) == s \in Seq(Nat) /\ \A i \in 1..Len(s) : s[i] <= logged

\* What a viewer has seen, what is buffered for it and what is still to be sent to it are
\* lines that were logged, and no line is in two of them.
ViewerOK(k) ==
  /\ Logged(shown[k]) /\ Logged(lines[k])
  /\ IsInjective(shown[k]) /\ IsInjective(lines[k])
  /\ \A i \in 1..Len(lines[k]) : Missing(lines[k][i], shown[k])
  /\ \A i \in 1..Len(shown[k]) : matches(k, shown[k][i])
  /\ \A l \in 1..MaxLines : k \in adding[l] =>
       l <= logged /\ Missing(l, shown[k]) /\ Missing(l, lines[k])
  /\ tailer[k] \in {"closed", "replayed"} => lines[k] = <<>> /\ \A l \in 1..MaxLines : k \notin adding[l]

LogsInv ==
  /\ RingOK
  /\ tailer = [k \in Tails |-> tailer[k]] /\ lines = [k \in Tails |-> lines[k]] /\ shown = [k \in Tails |-> shown[k]]
  /\ adding \in [1..MaxLines -> SUBSET Tails]
  /\ \A k \in Tails : ViewerOK(k)

\* A sequence with distinct elements stays one when a new element is appended ...
LEMMA AppendOnce ==
  ASSUME NEW s \in Seq(Nat), IsInjective(s), NEW l \in Nat, Missing(l, s)
  PROVE  /\ Append(s, l) \in Seq(Nat) /\ IsInjective(Append(s, l)) /\ Len(Append(s, l)) = Len(s) + 1
         /\ \A i \in 1..Len(Append(s, l)) : Append(s, l)[i] = IF i <= Len(s) THEN s[i] ELSE l
BY SMTT(30) DEF IsInjective, Missing

\* ... and when its first one is taken off.
LEMMA TailOnce ==
  ASSUME NEW s \in Seq(Nat), IsInjective(s), s # <<>>
  PROVE  /\ Tail(s) \in Seq(Nat) /\ IsInjective(Tail(s)) /\ Len(Tail(s)) = Len(s) - 1
         /\ \A i \in 1..Len(Tail(s)) : Tail(s)[i] = s[i + 1]
         /\ Head(s) \in Nat /\ Head(s) = s[1] /\ Missing(Head(s), Tail(s))
BY SMTT(30) DEF IsInjective, Missing

\* The lines of the ring are the last ones, in order.
LEMMA LinesInOrder ==
  ASSUME RingOK
  PROVE  Lines \in Seq(Nat) /\ \A i \in 1..Len(Lines) : Lines[i] = logged - Len(Lines) + i
<1>0. RingSize \in Nat \ {0}
  BY TabsAssumption
<1>1. CASE ~full
  <2>1. Lines = SubSeq(slots, 1, pos - 1)
    BY <1>1 DEF Lines
  <2>2. slots \in Seq(Nat) /\ Len(slots) = RingSize
    BY <1>0 DEF RingOK
  <2>3. /\ Lines \in Seq(Nat) /\ Len(Lines) = pos - 1
        /\ \A i \in 1..Len(Lines) : Lines[i] = slots[i]
    BY <1>0, <2>1, <2>2 DEF RingOK
  <2> QED BY <1>0, <1>1, <2>3 DEF RingOK
<1>2. CASE full
  <2> DEFINE a == SubSeq(slots, pos, RingSize)
             b == SubSeq(slots, 1, pos - 1)
  <2>1. Lines = a \o b
    BY <1>2 DEF Lines
  <2>2. slots \in Seq(Nat) /\ Len(slots) = RingSize
    BY <1>0 DEF RingOK
  <2>3. a \in Seq(Nat) /\ Len(a) = RingSize - pos + 1 /\ \A i \in 1..Len(a) : a[i] = slots[pos + i - 1]
    BY <1>0, <2>2 DEF RingOK
  <2>4. b \in Seq(Nat) /\ Len(b) = pos - 1 /\ \A i \in 1..Len(b) : b[i] = slots[i]
    BY <1>0, <2>2 DEF RingOK
  <2> HIDE DEF a, b
  <2>5. pos \in Nat /\ 1 <= pos /\ pos <= RingSize /\ logged \in Nat
    BY <1>0 DEF RingOK
  <2>6. /\ Lines \in Seq(Nat) /\ Len(Lines) = Len(a) + Len(b)
        /\ \A i \in 1..Len(Lines) : Lines[i] = IF i <= Len(a) THEN a[i] ELSE b[i - Len(a)]
    <3>1. a \in Seq(Nat) /\ b \in Seq(Nat)
      BY <2>3, <2>4
    <3>2. PICK c : c = a \o b
      OBVIOUS
    <3>3. c \in Seq(Nat) /\ Len(c) = Len(a) + Len(b) /\ \A i \in 1..Len(c) : c[i] = IF i <= Len(a) THEN a[i] ELSE b[i - Len(a)]
      BY <3>1, <3>2
    <3> QED BY <2>1, <3>2, <3>3
  <2>7. Len(Lines) = RingSize
    BY <1>0, <2>3, <2>4, <2>5, <2>6
  <2>8. ASSUME NEW i \in 1..Len(Lines) PROVE Lines[i] = logged - RingSize + i
    <3>0. i \in Nat /\ 1 <= i /\ i <= RingSize
      BY <1>0, <2>7
    <3>1. CASE i <= Len(a)
      <4>1. i \in 1..Len(a) /\ pos + i - 1 \in 1..RingSize /\ pos + i - 1 >= pos
        BY <1>0, <2>3, <2>5, <3>0, <3>1
      <4>2. Lines[i] = slots[pos + i - 1]
        BY <2>3, <2>6, <3>1, <4>1
      <4>3. slots[pos + i - 1] = logged - pos + 1 + (pos + i - 1) - RingSize
        BY <1>2, <4>1 DEF RingOK
      <4> QED BY <1>0, <2>5, <3>0, <4>2, <4>3
    <3>2. CASE i > Len(a)
      <4>1. i - Len(a) \in 1..Len(b) /\ i - Len(a) \in 1..RingSize /\ i - Len(a) < pos
        BY <1>0, <2>3, <2>4, <2>5, <3>0, <3>2
      <4>2. Lines[i] = slots[i - Len(a)]
        BY <2>3, <2>4, <2>6, <3>2, <4>1
      <4>3. slots[i - Len(a)] = logged - pos + 1 + (i - Len(a))
        BY <4>1 DEF RingOK
      <4> QED BY <1>0, <2>3, <2>5, <3>0, <4>2, <4>3
    <3> QED BY <1>0, <2>3, <2>5, <3>0, <3>1, <3>2
  <2> QED BY <2>6, <2>7, <2>8
<1> QED BY <1>1, <1>2 DEF RingOK

\* What the replay of a runtime's lines has picked of the first lines of the ring.
Picks(f, k, hist) ==
  f = [i \in 0..Len(hist) |->
         IF i = 0 THEN <<>> ELSE IF matches(k, hist[i]) THEN Keep(f[i - 1], hist[i]) ELSE f[i - 1]]

\* The loop over the first n lines ends.
LEMMA PicksExist ==
  ASSUME NEW k, NEW hist \in Seq(Nat)
  PROVE  \E f : Picks(f, k, hist)
<1> DEFINE Upto(f, n) == f = [i \in 0..n |->
             IF i = 0 THEN <<>> ELSE IF matches(k, hist[i]) THEN Keep(f[i - 1], hist[i]) ELSE f[i - 1]]
           P == {n \in Nat : ~\E f : Upto(f, n)}
<1>1. P = {}
  <2> SUFFICES ASSUME P # {} PROVE FALSE
    OBVIOUS
  <2>1. PICK n \in P : \A m \in P : n <= m
    BY LeastNatural
  <2>2. CASE n = 0
    <3>1. PICK f : f = [i \in 0..0 |-> <<>>]
      OBVIOUS
    <3>2. Upto(f, 0)
      BY <3>1
    <3> QED BY <2>1, <2>2, <3>2
  <2>3. CASE n # 0
    <3>1. n - 1 \in Nat /\ n - 1 \notin P
      <4>1. n \in Nat
        BY <2>1
      <4> HIDE DEF P
      <4> QED BY <2>1, <2>3, <4>1
    <3>2. PICK g : Upto(g, n - 1)
      BY <3>1
    <3>3. PICK last : last = IF matches(k, hist[n]) THEN Keep(g[n - 1], hist[n]) ELSE g[n - 1]
      OBVIOUS
    <3>4. PICK f : f = [i \in 0..n |-> IF i = n THEN last ELSE g[i]]
      OBVIOUS
    <3>5. ASSUME NEW i \in 0..n
          PROVE  f[i] = IF i = 0 THEN <<>> ELSE IF matches(k, hist[i]) THEN Keep(f[i - 1], hist[i]) ELSE f[i - 1]
      <4>1. CASE i = n
        <5>1. f[i] = last /\ f[i - 1] = g[n - 1] /\ i # 0
          BY <2>1, <2>3, <3>4, <4>1
        <5> QED BY <3>3, <4>1, <5>1
      <4>2. CASE i # n
        <5>1. i \in 0..(n - 1) /\ f[i] = g[i] /\ (i # 0 => f[i - 1] = g[i - 1])
          BY <2>1, <3>4, <4>2
        <5>2. g[i] = IF i = 0 THEN <<>> ELSE IF matches(k, hist[i]) THEN Keep(g[i - 1], hist[i]) ELSE g[i - 1]
          BY <3>2, <5>1
        <5> QED BY <5>1, <5>2
      <4> QED BY <4>1, <4>2
    <3>6. Upto(f, n)
      <4>1. f = [i \in 0..n |-> f[i]]
        BY <3>4
      <4> QED BY <3>5, <4>1
    <3> QED BY <2>1, <3>6
  <2> QED BY <2>2, <2>3
<1> QED BY <1>1 DEF Picks

\* A replay is a choice of the ring's lines that match, each of them once.
LEMMA PickedLines ==
  ASSUME NEW k, NEW hist \in Seq(Nat), IsInjective(hist)
  PROVE  LET s == pickTail(k, hist)
         IN  /\ s \in Seq(Nat) /\ IsInjective(s)
             /\ \A i \in 1..Len(s) : matches(k, s[i]) /\ \E h \in 1..Len(hist) : s[i] = hist[h]
<1>0. PICK f : f = CHOOSE g : Picks(g, k, hist)
  OBVIOUS
<1>1. Picks(f, k, hist)
  BY <1>0, PicksExist
<1>2. pickTail(k, hist) = f[Len(hist)]
  BY <1>0 DEF pickTail, Picks
<1> DEFINE Good(n) == /\ f[n] \in Seq(Nat) /\ IsInjective(f[n])
                      /\ \A i \in 1..Len(f[n]) : matches(k, f[n][i]) /\ \E h \in 1..n : f[n][i] = hist[h]
           P == {n \in 0..Len(hist) : ~Good(n)}
<1>3. P = {}
  <2> SUFFICES ASSUME P # {} PROVE FALSE
    OBVIOUS
  <2>0. P \subseteq Nat
    OBVIOUS
  <2>1. PICK n \in P : \A m \in P : n <= m
    <3> HIDE DEF P
    <3> QED BY <2>0, LeastNatural
  <2>2. n # 0
    <3>1. f[0] = <<>>
      BY <1>1 DEF Picks
    <3>2. Good(0)
      BY <3>1 DEF IsInjective
    <3> QED BY <2>1, <3>2
  <2>3. n \in 1..Len(hist) /\ n - 1 \in 0..Len(hist) /\ Good(n - 1)
    BY <2>1, <2>2
  <2>4. PICK s : s = f[n - 1]
    OBVIOUS
  <2>5. s \in Seq(Nat) /\ IsInjective(s) /\ \A i \in 1..Len(s) : matches(k, s[i]) /\ \E h \in 1..(n - 1) : s[i] = hist[h]
    BY <2>3, <2>4
  <2>6. f[n] = IF matches(k, hist[n]) THEN Keep(s, hist[n]) ELSE s
    BY <1>1, <2>2, <2>3, <2>4 DEF Picks
  <2> HIDE DEF Good, P
  <2>7. CASE matches(k, hist[n])
    <3>1. PICK l \in Nat : l = hist[n]
      BY <2>3
    <3>2. Missing(l, s)
      <4> SUFFICES ASSUME NEW i \in 1..Len(s), s[i] = l PROVE FALSE
        BY DEF Missing
      <4>1. PICK h \in 1..(n - 1) : s[i] = hist[h]
        BY <2>5
      <4>2. h \in DOMAIN hist /\ n \in DOMAIN hist /\ h # n
        BY <2>3
      <4> QED BY <3>1, <4>1, <4>2 DEF IsInjective
    <3>3. PICK t : t = Append(s, l)
      OBVIOUS
    <3>4. /\ t \in Seq(Nat) /\ IsInjective(t) /\ Len(t) = Len(s) + 1
          /\ \A i \in 1..Len(t) : t[i] = IF i <= Len(s) THEN s[i] ELSE l
      BY <2>5, <3>2, <3>3, AppendOnce
    <3>5. \A i \in 1..Len(t) : matches(k, t[i]) /\ \E h \in 1..n : t[i] = hist[h]
      <4> SUFFICES ASSUME NEW i \in 1..Len(t)
                   PROVE  matches(k, t[i]) /\ \E h \in 1..n : t[i] = hist[h]
        OBVIOUS
      <4>1. CASE i <= Len(s)
        <5>1. i \in 1..Len(s) /\ t[i] = s[i]
          BY <2>5, <3>4, <4>1
        <5>2. PICK h \in 1..(n - 1) : s[i] = hist[h]
          BY <2>5, <5>1
        <5>3. h \in 1..n
          BY <2>3
        <5> QED BY <2>5, <5>1, <5>2, <5>3
      <4>2. CASE ~(i <= Len(s))
        <5>1. t[i] = hist[n] /\ n \in 1..n
          BY <2>3, <3>1, <3>4, <4>2
        <5> QED BY <2>7, <5>1
      <4> QED BY <4>1, <4>2
    <3>6. f[n] = t \/ f[n] = Tail(t)
      BY <2>6, <2>7, <3>1, <3>3 DEF Keep
    <3>7. t # <<>>
      BY <2>5, <3>4
    <3>8. CASE f[n] = t
      <4>1. Good(n)
        BY <3>4, <3>5, <3>8 DEF Good
      <4> QED BY <2>1, <4>1 DEF P
    <3>9. CASE f[n] = Tail(t)
      <4>1. /\ Tail(t) \in Seq(Nat) /\ IsInjective(Tail(t)) /\ Len(Tail(t)) = Len(t) - 1
            /\ \A i \in 1..Len(Tail(t)) : Tail(t)[i] = t[i + 1]
        BY <3>4, <3>7, TailOnce
      <4>2. \A i \in 1..Len(Tail(t)) : i + 1 \in 1..Len(t)
        BY <2>5, <3>4, <4>1
      <4>3. Good(n)
        BY <3>5, <3>9, <4>1, <4>2 DEF Good
      <4> QED BY <2>1, <4>3 DEF P
    <3> QED BY <3>6, <3>8, <3>9
  <2>8. CASE ~matches(k, hist[n])
    <3>1. f[n] = s /\ \A h \in 1..(n - 1) : h \in 1..n
      BY <2>3, <2>6, <2>8
    <3>2. Good(n)
      BY <2>5, <3>1 DEF Good
    <3> QED BY <2>1, <3>2 DEF P
  <2> QED BY <2>7, <2>8
<1>4. Good(Len(hist))
  <2>1. Len(hist) \in 0..Len(hist)
    OBVIOUS
  <2> HIDE DEF Good
  <2> QED BY <1>3, <2>1 DEF P
<1> QED BY <1>2, <1>4

\* Where nothing of a viewer changes, and no more is to be sent to it.
LEMMA ViewerFrame ==
  ASSUME NEW k \in Tails, ViewerOK(k), logged \in Nat, logged' \in Nat, logged' >= logged,
         shown'[k] = shown[k], lines'[k] = lines[k], tailer'[k] = tailer[k],
         \A l \in 1..MaxLines : k \in adding'[l] => k \in adding[l]
  PROVE  ViewerOK(k)'
<1>1. /\ shown[k] \in Seq(Nat) /\ \A i \in 1..Len(shown[k]) : shown[k][i] <= logged'
      /\ lines[k] \in Seq(Nat) /\ \A i \in 1..Len(lines[k]) : lines[k][i] <= logged'
  <2>1. Logged(shown[k]) /\ Logged(lines[k])
    BY DEF ViewerOK
  <2>2. ASSUME NEW s, Logged(s) PROVE s \in Seq(Nat) /\ \A i \in 1..Len(s) : s[i] <= logged'
    BY <2>2 DEF Logged
  <2> QED BY <2>1, <2>2, Zenon
<1>2. \A l \in 1..MaxLines : k \in adding'[l] => l <= logged' /\ Missing(l, shown[k]) /\ Missing(l, lines[k])
  BY DEF ViewerOK
<1> QED BY <1>1, <1>2 DEF ViewerOK, Logged, Missing, matches, IsInjective

\* At first nothing is logged.
LEMMA LogsInit == TabsInit => LogsInv
<1> SUFFICES ASSUME TabsInit PROVE LogsInv
  OBVIOUS
<1>1. RingOK
  <2>1. slots = [i \in 1..RingSize |-> 0] /\ pos = 1 /\ full = FALSE /\ logged = 0
    BY DEF TabsInit
  <2>2. 1 \in 1..RingSize /\ \A i \in 1..RingSize : ~(i < 1)
    BY TabsAssumption
  <2>3. slots \in [1..RingSize -> Nat] /\ logged \in Nat /\ logged = pos - 1
    BY <2>1
  <2>4. full \in BOOLEAN /\ ~full
    BY <2>1, Zenon
  <2> QED BY <2>1, <2>2, <2>3, <2>4 DEF RingOK
<1>2. \A k \in Tails : ViewerOK(k)
  BY DEF TabsInit, ViewerOK, Logged, Missing, IsInjective
<1> QED BY <1>1, <1>2 DEF TabsInit, LogsInv

\* A line enters the ring in the place of the oldest one.
LEMMA LineAdded ==
  ASSUME LogsInv, Add
  PROVE  LogsInv'
<1>0. RingSize \in Nat \ {0} /\ MaxLines \in Nat
  BY TabsAssumption
<1>1. /\ logged < MaxLines /\ logged' = logged + 1 /\ slots' = [slots EXCEPT ![pos] = logged + 1]
      /\ adding' = [adding EXCEPT ![logged + 1] = {k \in Tails : tailer[k] = "open"}]
      /\ UNCHANGED <<tailer, lines, shown>>
  BY DEF Add
<1>2. RingOK /\ RingOK'
  <2>1. RingOK
    BY DEF LogsInv
  <2>2. /\ logged \in Nat /\ pos \in 1..RingSize /\ slots \in [1..RingSize -> Nat]
        /\ full \in BOOLEAN /\ (full => logged >= RingSize) /\ (~full => logged = pos - 1)
    BY <2>1 DEF RingOK
  <2>3. slots' \in [1..RingSize -> Nat] /\ slots'[pos] = logged + 1 /\ \A i \in 1..RingSize \ {pos} : slots'[i] = slots[i]
    BY <1>1, <2>2
  <2>4. CASE pos = RingSize
    <3>1. pos' = 1 /\ full' = TRUE /\ logged' >= RingSize
      BY <1>0, <1>1, <2>2, <2>4 DEF Add
    <3>2. ASSUME NEW i \in 1..RingSize PROVE slots'[i] = logged' - pos' + 1 + i - RingSize
      <4>1. CASE i = RingSize
        BY <1>0, <1>1, <2>2, <2>3, <2>4, <3>1, <4>1
      <4>2. CASE i # RingSize
        <5>1. slots'[i] = slots[i] /\ i < pos
          BY <1>0, <2>3, <2>4, <4>2
        <5>2. slots[i] = logged - pos + 1 + i
          BY <2>1, <5>1 DEF RingOK
        <5> QED BY <1>0, <1>1, <2>2, <2>4, <3>1, <5>1, <5>2
      <4> QED BY <4>1, <4>2
    <3>3. pos' \in 1..RingSize /\ logged' \in Nat /\ \A i \in 1..RingSize : ~(i < pos')
      BY <1>0, <1>1, <2>2, <3>1
    <3> QED BY <2>1, <2>3, <3>1, <3>2, <3>3 DEF RingOK
  <2>5. CASE pos # RingSize
    <3>1. pos' = pos + 1 /\ full' = full
      BY <2>5 DEF Add
    <3>2. ASSUME NEW i \in 1..RingSize, i < pos' PROVE slots'[i] = logged' - pos' + 1 + i
      <4>1. CASE i = pos
        BY <1>1, <2>2, <2>3, <3>1, <4>1
      <4>2. CASE i # pos
        <5>1. slots'[i] = slots[i] /\ i < pos
          BY <1>0, <2>2, <2>3, <3>1, <3>2, <4>2
        <5>2. slots[i] = logged - pos + 1 + i
          BY <2>1, <5>1 DEF RingOK
        <5> QED BY <1>1, <2>2, <3>1, <5>1, <5>2
      <4> QED BY <4>1, <4>2
    <3>3. ASSUME NEW i \in 1..RingSize, full', i >= pos' PROVE slots'[i] = logged' - pos' + 1 + i - RingSize
      <4>1. slots'[i] = slots[i] /\ i >= pos /\ full
        BY <1>0, <2>2, <2>3, <3>1, <3>3
      <4>2. slots[i] = logged - pos + 1 + i - RingSize
        BY <2>1, <4>1 DEF RingOK
      <4> QED BY <1>0, <1>1, <2>2, <3>1, <4>1, <4>2
    <3>4. pos' \in 1..RingSize /\ logged' \in Nat /\ (full' => logged' >= RingSize) /\ (~full' => logged' = pos' - 1)
      BY <1>0, <1>1, <2>2, <2>5, <3>1
    <3> QED BY <2>1, <2>2, <2>3, <3>1, <3>2, <3>3, <3>4 DEF RingOK
  <2> QED BY <2>4, <2>5
<1>3. logged \in Nat /\ logged' \in Nat /\ logged' >= logged /\ logged + 1 \in 1..MaxLines
  BY <1>0, <1>1, <1>2 DEF RingOK
<1>4. adding \in [1..MaxLines -> SUBSET Tails]
  BY DEF LogsInv
<1>5. /\ adding' \in [1..MaxLines -> SUBSET Tails] /\ adding'[logged + 1] = {k \in Tails : tailer[k] = "open"}
      /\ \A l \in 1..MaxLines : l # logged + 1 => adding'[l] = adding[l]
  BY <1>1, <1>3, <1>4
<1>6. ASSUME NEW k \in Tails PROVE ViewerOK(k)'
  <2>0. ViewerOK(k)
    BY DEF LogsInv
  <2>1. /\ Logged(shown[k])' /\ Logged(lines[k])'
    <3>1. Logged(shown[k]) /\ Logged(lines[k])
      BY <2>0 DEF ViewerOK
    <3>2. shown' = shown /\ lines' = lines
      BY <1>1
    <3>3. ASSUME NEW s, Logged(s) PROVE s \in Seq(Nat) /\ \A i \in 1..Len(s) : s[i] <= logged'
      BY <1>3, <3>3 DEF Logged
    <3> QED BY <3>1, <3>2, <3>3, Zenon DEF Logged
  <2>2. ASSUME NEW l \in 1..MaxLines, k \in adding'[l]
        PROVE  l <= logged' /\ Missing(l, shown[k]) /\ Missing(l, lines[k])
    <3>1. CASE l = logged + 1
      BY <1>1, <1>3, <2>0, <3>1 DEF ViewerOK, Logged, Missing
    <3>2. CASE l # logged + 1
      <4>1. k \in adding[l]
        BY <1>5, <2>2, <3>2
      <4> QED BY <1>3, <2>0, <4>1 DEF ViewerOK
    <3> QED BY <3>1, <3>2
  <2>3. tailer[k] \in {"closed", "replayed"} => lines[k] = <<>> /\ \A l \in 1..MaxLines : k \notin adding'[l]
    BY <1>5, <2>0 DEF ViewerOK
  <2> QED BY <1>1, <2>0, <2>1, <2>2, <2>3 DEF ViewerOK, Missing, matches, IsInjective
<1> QED BY <1>1, <1>2, <1>5, <1>6 DEF LogsInv

\* A line on its way reaches a channel, or finds it full or closed.
LEMMA LineSent ==
  ASSUME LogsInv, NEW l \in 1..MaxLines, NEW k \in Tails, AddSends(l, k)
  PROVE  LogsInv'
<1>0. ViewerOK(k) /\ RingOK /\ adding \in [1..MaxLines -> SUBSET Tails] /\ MaxLines \in Nat
  BY TabsAssumption DEF LogsInv
<1>1. /\ k \in adding[l] /\ adding' = [adding EXCEPT ![l] = adding[l] \ {k}]
      /\ lines' = (IF tailer[k] = "open" /\ Len(lines[k]) < TailCap THEN [lines EXCEPT ![k] = Append(lines[k], l)] ELSE lines)
      /\ UNCHANGED <<slots, pos, full, logged, tailer, shown>>
  BY DEF AddSends
<1>2. /\ adding' \in [1..MaxLines -> SUBSET Tails] /\ k \notin adding'[l]
      /\ \A m \in 1..MaxLines : adding'[m] \subseteq adding[m]
  BY <1>0, <1>1
<1>3. RingOK' /\ logged \in Nat /\ logged' = logged
  BY <1>0, <1>1 DEF RingOK
<1>4. lines' = [j \in Tails |-> lines'[j]] /\ \A j \in Tails \ {k} : lines'[j] = lines[j]
  BY <1>1 DEF LogsInv
<1>5. \A j \in Tails \ {k} : ViewerOK(j)'
  <2> SUFFICES ASSUME NEW j \in Tails \ {k} PROVE ViewerOK(j)'
    OBVIOUS
  <2>1. ViewerOK(j)
    BY DEF LogsInv
  <2> QED BY <1>1, <1>2, <1>3, <1>4, <2>1, ViewerFrame
<1>6. ViewerOK(k)'
  <2>1. CASE lines' = lines
    BY <1>0, <1>1, <1>2, <1>3, <2>1, ViewerFrame
  <2>2. CASE lines' # lines
    <3>1. tailer[k] = "open" /\ lines'[k] = Append(lines[k], l)
      BY <1>1, <2>2 DEF LogsInv
    <3>2. /\ lines[k] \in Seq(Nat) /\ IsInjective(lines[k]) /\ Missing(l, lines[k]) /\ Missing(l, shown[k])
          /\ l <= logged /\ l \in Nat
      BY <1>0, <1>1 DEF ViewerOK, Logged
    <3>3. PICK t : t = Append(lines[k], l)
      OBVIOUS
    <3>4. /\ t \in Seq(Nat) /\ IsInjective(t) /\ Len(t) = Len(lines[k]) + 1
          /\ \A i \in 1..Len(t) : t[i] = IF i <= Len(lines[k]) THEN lines[k][i] ELSE l
      BY <3>2, <3>3, AppendOnce
    <3>5. \A i \in 1..Len(t) : t[i] <= logged /\ Missing(t[i], shown[k])
      <4> SUFFICES ASSUME NEW i \in 1..Len(t) PROVE t[i] <= logged /\ Missing(t[i], shown[k])
        OBVIOUS
      <4>1. t[i] = l \/ (i \in 1..Len(lines[k]) /\ t[i] = lines[k][i])
        BY <3>2, <3>4
      <4> QED BY <1>0, <3>2, <4>1 DEF ViewerOK, Logged
    <3>6. ASSUME NEW m \in 1..MaxLines, k \in adding'[m]
          PROVE  m <= logged /\ Missing(m, shown[k]) /\ Missing(m, t)
      <4>1. m # l /\ k \in adding[m]
        BY <1>2, <3>6
      <4>2. m <= logged /\ Missing(m, shown[k]) /\ Missing(m, lines[k])
        BY <1>0, <4>1 DEF ViewerOK
      <4>3. Missing(m, t)
        <5> SUFFICES ASSUME NEW i \in 1..Len(t) PROVE t[i] # m
          BY DEF Missing
        <5>1. t[i] = l \/ (i \in 1..Len(lines[k]) /\ t[i] = lines[k][i])
          BY <3>2, <3>4
        <5> QED BY <4>1, <4>2, <5>1 DEF Missing
      <4> QED BY <4>2, <4>3
    <3>7. lines'[k] = t /\ shown'[k] = shown[k] /\ tailer'[k] = "open"
      BY <1>1, <3>1, <3>3
    <3> QED BY <1>0, <1>3, <3>4, <3>5, <3>6, <3>7 DEF ViewerOK, Logged, matches
  <2> QED BY <2>1, <2>2
<1> QED BY <1>1, <1>2, <1>3, <1>4, <1>5, <1>6 DEF LogsInv

\* A viewer is written the ring, subscribes, forwards or goes.
LEMMA ViewerSteps ==
  ASSUME LogsInv, NEW k \in Tails, TailReplays(k) \/ TailSubscribes(k) \/ TailForwards(k) \/ TailUnsubscribes(k)
  PROVE  LogsInv'
<1>0. ViewerOK(k) /\ RingOK /\ logged \in Nat
  BY DEF LogsInv, RingOK
<1>1. UNCHANGED <<slots, pos, full, logged, adding>>
  BY DEF TailReplays, TailSubscribes, TailForwards, TailUnsubscribes
<1>2. /\ RingOK' /\ adding' \in [1..MaxLines -> SUBSET Tails]
  BY <1>0, <1>1 DEF LogsInv, RingOK
<1>3. /\ tailer' = [j \in Tails |-> tailer'[j]] /\ lines' = [j \in Tails |-> lines'[j]] /\ shown' = [j \in Tails |-> shown'[j]]
      /\ \A j \in Tails \ {k} : tailer'[j] = tailer[j] /\ lines'[j] = lines[j] /\ shown'[j] = shown[j]
  BY DEF LogsInv, TailReplays, TailSubscribes, TailForwards, TailUnsubscribes
<1>4. \A j \in Tails \ {k} : ViewerOK(j)'
  <2> SUFFICES ASSUME NEW j \in Tails \ {k} PROVE ViewerOK(j)'
    OBVIOUS
  <2>1. ViewerOK(j)
    BY DEF LogsInv
  <2> QED BY <1>0, <1>1, <1>3, <2>1, ViewerFrame
<1>5. CASE TailReplays(k)
  <2>1. PICK s : s = IF k \in RuntimeTails THEN pickTail(k, Lines) ELSE Lines
    OBVIOUS
  <2>2. tailer[k] = "closed" /\ tailer'[k] = "replayed" /\ shown'[k] = s /\ lines'[k] = lines[k]
    BY <1>5, <2>1 DEF TailReplays, LogsInv
  <2>3. Lines \in Seq(Nat) /\ \A i \in 1..Len(Lines) : Lines[i] = logged - Len(Lines) + i
    BY <1>0, LinesInOrder
  <2>4. PICK ls : ls = Lines
    OBVIOUS
  <2>5. ls \in Seq(Nat) /\ IsInjective(ls) /\ \A i \in 1..Len(ls) : ls[i] <= logged
    <3>1. ls \in Seq(Nat) /\ Len(ls) \in Nat /\ DOMAIN ls = 1..Len(ls) /\ \A i \in 1..Len(ls) : ls[i] = logged - Len(ls) + i
      BY <2>3, <2>4
    <3> QED BY <1>0, <3>1 DEF IsInjective
  <2>6. /\ s \in Seq(Nat) /\ IsInjective(s)
        /\ \A i \in 1..Len(s) : matches(k, s[i]) /\ s[i] <= logged
    <3>1. CASE k \in RuntimeTails
      <4>1. s = pickTail(k, ls)
        BY <2>1, <2>4, <3>1
      <4>2. /\ s \in Seq(Nat) /\ IsInjective(s)
            /\ \A i \in 1..Len(s) : matches(k, s[i]) /\ \E h \in 1..Len(ls) : s[i] = ls[h]
        BY <2>5, <4>1, PickedLines
      <4> QED BY <2>5, <4>2
    <3>2. CASE k \notin RuntimeTails
      BY <2>1, <2>4, <2>5, <3>2 DEF matches
    <3> QED BY <3>1, <3>2
  <2>7. lines[k] = <<>> /\ \A l \in 1..MaxLines : k \notin adding'[l]
    BY <1>0, <1>1, <2>2 DEF ViewerOK
  <2>8. ViewerOK(k)'
    BY <1>0, <1>1, <2>2, <2>6, <2>7 DEF ViewerOK, Logged, matches, IsInjective
  <2> QED BY <1>2, <1>3, <1>4, <2>8 DEF LogsInv
<1>6. CASE TailSubscribes(k) \/ TailUnsubscribes(k)
  <2>1. tailer'[k] \in {"open", "gone"} /\ UNCHANGED <<shown, lines>>
    BY <1>6 DEF TailSubscribes, TailUnsubscribes, LogsInv
  <2>2. ViewerOK(k)'
    BY <1>0, <1>1, <2>1 DEF ViewerOK, Logged, matches, Missing
  <2> QED BY <1>2, <1>3, <1>4, <2>2 DEF LogsInv
<1>7. CASE TailForwards(k)
  <2>1. PICK q, s : q = lines[k] /\ s = shown[k]
    OBVIOUS
  <2>2. /\ tailer[k] = "open" /\ q # <<>> /\ lines'[k] = Tail(q) /\ tailer'[k] = "open"
        /\ shown'[k] = IF matches(k, Head(q)) THEN Append(s, Head(q)) ELSE s
    BY <1>7, <2>1 DEF TailForwards, LogsInv
  <2>3. /\ q \in Seq(Nat) /\ s \in Seq(Nat) /\ IsInjective(q) /\ IsInjective(s)
        /\ \A i \in 1..Len(q) : q[i] <= logged /\ Missing(q[i], s)
        /\ \A i \in 1..Len(s) : s[i] <= logged /\ matches(k, s[i])
        /\ \A l \in 1..MaxLines : k \in adding[l] => l <= logged /\ Missing(l, s) /\ Missing(l, q)
    BY <1>0, <2>1 DEF ViewerOK, Logged
  <2>4. PICK t, h : t = Tail(q) /\ h = Head(q)
    OBVIOUS
  <2>5. /\ t \in Seq(Nat) /\ IsInjective(t) /\ Len(t) = Len(q) - 1
        /\ \A i \in 1..Len(t) : t[i] = q[i + 1]
        /\ h \in Nat /\ h = q[1] /\ Missing(h, t)
    BY <2>2, <2>3, <2>4, TailOnce
  <2>6. 1 \in 1..Len(q) /\ \A i \in 1..Len(t) : i + 1 \in 1..Len(q)
    BY <2>2, <2>3, <2>5
  <2>7. h <= logged /\ Missing(h, s) /\ \A i \in 1..Len(t) : t[i] <= logged /\ Missing(t[i], s)
    BY <2>3, <2>5, <2>6
  <2>8. \A l \in 1..MaxLines : k \in adding[l] => l # h /\ Missing(l, t)
    BY <2>3, <2>5, <2>6 DEF Missing
  <2>9. CASE ~matches(k, h)
    <3>1. shown'[k] = s /\ lines'[k] = t /\ tailer'[k] = "open"
      BY <2>2, <2>4, <2>9
    <3>2. ViewerOK(k)'
      BY <1>1, <2>3, <2>5, <2>7, <2>8, <3>1 DEF ViewerOK, Logged, matches
    <3> QED BY <1>2, <1>3, <1>4, <3>2 DEF LogsInv
  <2>10. CASE matches(k, h)
    <3>1. PICK u : u = Append(s, h)
      OBVIOUS
    <3>2. shown'[k] = u /\ lines'[k] = t /\ tailer'[k] = "open"
      BY <2>2, <2>4, <2>10, <3>1
    <3>3. /\ u \in Seq(Nat) /\ IsInjective(u) /\ Len(u) = Len(s) + 1
          /\ \A i \in 1..Len(u) : u[i] = IF i <= Len(s) THEN s[i] ELSE h
      BY <2>3, <2>5, <2>7, <3>1, AppendOnce
    <3>4. \A i \in 1..Len(u) : u[i] = h \/ \E j \in 1..Len(s) : u[i] = s[j]
      <4> SUFFICES ASSUME NEW i \in 1..Len(u) PROVE u[i] = h \/ \E j \in 1..Len(s) : u[i] = s[j]
        OBVIOUS
      <4>1. Len(s) \in Nat /\ i \in Nat /\ i >= 1
        BY <2>3, <3>3
      <4>2. CASE i <= Len(s)
        <5>1. i \in 1..Len(s) /\ u[i] = s[i]
          BY <3>3, <4>1, <4>2
        <5> QED BY <5>1
      <4>3. CASE ~ (i <= Len(s))
        BY <3>3, <4>3
      <4> QED BY <4>2, <4>3
    <3>5. \A i \in 1..Len(u) : u[i] <= logged /\ matches(k, u[i])
      BY <2>3, <2>7, <2>10, <3>4
    <3>6. \A x : x # h /\ Missing(x, s) => Missing(x, u)
      BY <3>4 DEF Missing
    <3>7. \A i \in 1..Len(t) : Missing(t[i], u)
      BY <2>5, <2>7, <3>6 DEF Missing
    <3>8. \A l \in 1..MaxLines : k \in adding[l] => l <= logged /\ Missing(l, u) /\ Missing(l, t)
      BY <2>3, <2>8, <3>6
    <3>9. ViewerOK(k)'
      BY <1>1, <2>5, <2>7, <3>2, <3>3, <3>5, <3>7, <3>8 DEF ViewerOK, Logged, matches
    <3> QED BY <1>2, <1>3, <1>4, <3>9 DEF LogsInv
  <2> QED BY <2>9, <2>10
<1> QED BY <1>5, <1>6, <1>7

\* Two sequences with distinct elements and nothing in common make one.
LEMMA JoinOnce ==
  ASSUME NEW s \in Seq(Nat), NEW t \in Seq(Nat), IsInjective(s), IsInjective(t),
         \A i \in 1..Len(t) : Missing(t[i], s)
  PROVE  IsInjective(s \o t)
<1>1. PICK u : u = s \o t
  OBVIOUS
<1>2. /\ u \in Seq(Nat) /\ Len(u) = Len(s) + Len(t)
      /\ \A i \in 1..Len(u) : u[i] = IF i <= Len(s) THEN s[i] ELSE t[i - Len(s)]
  BY <1>1
<1>3. ASSUME NEW a \in 1..Len(u), NEW b \in 1..Len(u), u[a] = u[b] PROVE a = b
  <2>1. CASE a <= Len(s) /\ b <= Len(s)
    <3>1. a \in 1..Len(s) /\ b \in 1..Len(s) /\ s[a] = s[b]
      BY <1>2, <1>3, <2>1, SMTT(30)
    <3> QED BY <3>1 DEF IsInjective
  <2>2. CASE ~(a <= Len(s)) /\ ~(b <= Len(s))
    <3>1. a - Len(s) \in 1..Len(t) /\ b - Len(s) \in 1..Len(t) /\ t[a - Len(s)] = t[b - Len(s)]
      BY <1>2, <1>3, <2>2, SMTT(30)
    <3>2. a - Len(s) = b - Len(s)
      BY <3>1 DEF IsInjective
    <3> QED BY <3>2
  <2>3. CASE a <= Len(s) /\ ~(b <= Len(s))
    <3>1. a \in 1..Len(s) /\ b - Len(s) \in 1..Len(t)
      BY <1>2, <2>3
    <3>2. u[a] = s[a] /\ u[b] = t[b - Len(s)]
      BY <1>2, <2>3
    <3> QED BY <1>3, <3>1, <3>2 DEF Missing
  <2>4. CASE ~(a <= Len(s)) /\ b <= Len(s)
    <3>1. b \in 1..Len(s) /\ a - Len(s) \in 1..Len(t)
      BY <1>2, <2>4
    <3>2. u[b] = s[b] /\ u[a] = t[a - Len(s)]
      BY <1>2, <2>4
    <3> QED BY <1>3, <3>1, <3>2 DEF Missing
  <2> QED BY <2>1, <2>2, <2>3, <2>4
<1> QED BY <1>1, <1>2, <1>3 DEF IsInjective

\* A log viewer is shown no line twice, neither between the ring that it replays and the
\* lines that follow, nor among the lines that several calls of Add send at once; and a
\* viewer of one runtime is shown that runtime's lines alone.
THEOREM LinesShownOnce == TabsSpec => []LogLinesOnce
<1>1. LogsInv /\ [TabNext \/ TailNext]_tabsVars => LogsInv'
  <2> SUFFICES ASSUME LogsInv, [TabNext \/ TailNext]_tabsVars PROVE LogsInv'
    OBVIOUS
  <2>1. CASE UNCHANGED tailVars
    <3>1. RingOK'
      BY <2>1 DEF LogsInv, RingOK, tailVars
    <3>2. \A k \in Tails : ViewerOK(k)'
      BY <2>1 DEF LogsInv, ViewerOK, Logged, Missing, matches, tailVars
    <3> QED BY <2>1, <3>1, <3>2 DEF LogsInv, tailVars
  <2>2. CASE TabNext
    BY <2>1, <2>2 DEF TabNext, QueueChange, LoadedChange, FleetChange, autoBenchmarkWorker, Moves, Broadcast,
       loadTab, Subscribe, streamChangeEvents, Refetch, StreamBreaks, ApplyList
  <2>3. CASE TailNext
    BY <2>3, LineAdded, LineSent, ViewerSteps DEF TailNext
  <2> QED BY <2>1, <2>2, <2>3 DEF tabsVars
<1>2. LogsInv => LogLinesOnce
  <2> SUFFICES ASSUME LogsInv, NEW k \in Tails
               PROVE  IsInjective(shown[k] \o lines[k]) /\ \A i \in DOMAIN shown[k] : matches(k, shown[k][i])
    BY DEF LogLinesOnce
  <2>1. /\ shown[k] \in Seq(Nat) /\ lines[k] \in Seq(Nat) /\ IsInjective(shown[k]) /\ IsInjective(lines[k])
        /\ \A i \in 1..Len(lines[k]) : Missing(lines[k][i], shown[k])
        /\ \A i \in 1..Len(shown[k]) : matches(k, shown[k][i])
    BY DEF LogsInv, ViewerOK, Logged
  <2> QED BY <2>1, JoinOnce, SMTT(30)
<1> QED BY <1>1, <1>2, LogsInit, PTL DEF TabsSpec

-----------------------------------------------------------------------------
(***************************************************************************)
(* Downloads.  FilesAccounted says something of the files alone; what      *)
(* makes it true is who may write to them.  Calm(f) says of a file whose   *)
(* calls have not raced that one runner at most is at work on it, that     *)
(* this runner's position is the length of the partial file it opened,     *)
(* that nothing carries the final name until that runner renames it, and   *)
(* that whoever is at work has a row.                                      *)
(***************************************************************************)

IsJob(x) == x \in [file : Files, status : {x.status}, handle : {x.handle}, local : {x.local}, locked : {x.locked}]
IsRunner(x) == x \in [job : Nat, kind : {x.kind}, pc : {x.pc}, cancelled : {x.cancelled},
                      pos : 0..Chunks, tries : {x.tries}, id : Nat]
FileSet == [id : Nat, size : Nat, good : BOOLEAN]

\* The jobs and the runners are numbered from 1, and every runner has a job.
JobsOK == /\ \E n \in Nat : DOMAIN jobs = 1..n
          /\ jobs = [j \in DOMAIN jobs |-> jobs[j]] /\ \A j \in DOMAIN jobs : IsJob(jobs[j])
RunnersOK ==
  /\ \E n \in Nat : DOMAIN runners = 1..n
  /\ runners = [r \in DOMAIN runners |-> runners[r]]
  /\ \A r \in DOMAIN runners : IsRunner(runners[r]) /\ runners[r].job \in DOMAIN jobs

\* A tracked job is a job for that path.
TrackedOK ==
  /\ tracked = [f \in Files |-> tracked[f]]
  /\ \A f \in Files : tracked[f] # 0 => tracked[f] \in DOMAIN jobs /\ jobs[tracked[f]].file = f
PathsOK ==
  /\ temp \in [Files -> FileSet] /\ final \in [Files -> FileSet]
  /\ dlRow = [f \in Files |-> dlRow[f]] /\ cancelling = [f \in Files |-> cancelling[f]]

\* The runners at work on a file.
Own(f) == {r \in DOMAIN runners : runners[r].pc # "gone" /\ FileOf(r) = f}

\* Where the runner r of f stands, and the files it works on.
RunnerOK(f, r) ==
  /\ tracked[f] # 0 \/ cancelling[f].on
  /\ runners[r].pc # "landed" => final[f] = NoFile /\ dlRow[f] # "none"
  /\ runners[r].pc = "landed" => temp[f] = NoFile
  /\ runners[r].pc \in {"born", "wait", "copy"} => runners[r].pos = 0
  /\ runners[r].pc = "sent" => runners[r].pos = temp[f].size
  /\ runners[r].pc = "xfer" => temp[f] # NoFile /\ temp[f].id = runners[r].id /\ runners[r].pos = temp[f].size

Calm(f) ==
  /\ \A r, q \in Own(f) : r = q
  /\ \A r \in Own(f) : RunnerOK(f, r)
  /\ temp[f] # NoFile => temp[f].id # 0 /\ temp[f].size <= Chunks /\ temp[f].good /\ dlRow[f] # "none"
  /\ final[f] # NoFile => final[f].size = Chunks /\ final[f].good /\ temp[f] = NoFile
  /\ tracked[f] # 0 => dlRow[f] # "none" /\ ~cancelling[f].on /\ (Own(f) = {} => final[f] = NoFile)

DlIInv == JobsOK /\ RunnersOK /\ TrackedOK /\ PathsOK /\ \A f \in Files \ raced : Calm(f)

\* The jobs there are keep their paths.
JobsKeep == DOMAIN jobs \subseteq DOMAIN jobs' /\ \A j \in DOMAIN jobs : jobs'[j].file = jobs[j].file

\* The absent file is a file record of length 0.
LEMMA NoFileOK == NoFile \in FileSet /\ NoFile.size = 0 /\ NoFile.id = 0
BY DEF NoFile, FileSet

\* A manager that starts with an empty store satisfies the invariant.
LEMMA DlInvInit == DlInit => DlIInv
<1> SUFFICES ASSUME DlInit PROVE DlIInv
  OBVIOUS
<1>1. DOMAIN jobs = {} /\ DOMAIN runners = {} /\ jobs = [j \in DOMAIN jobs |-> jobs[j]]
      /\ runners = [r \in DOMAIN runners |-> runners[r]]
  BY DEF DlInit
<1>2. {} = 1..0 /\ 0 \in Nat
  OBVIOUS
<1>3. JobsOK /\ RunnersOK
  BY <1>1, <1>2 DEF JobsOK, RunnersOK
<1>4. TrackedOK /\ PathsOK
  BY NoFileOK DEF DlInit, TrackedOK, PathsOK
<1>5. \A f \in Files : Own(f) = {} /\ temp[f] = NoFile /\ final[f] = NoFile /\ tracked[f] = 0
  BY <1>1 DEF Own, DlInit
<1>6. \A f \in Files : Calm(f)
  BY <1>5 DEF Calm
<1> QED BY <1>3, <1>4, <1>6 DEF DlIInv

\* A file no step touches stays calm.
LEMMA Elsewhere ==
  ASSUME NEW g, Calm(g), tracked'[g] = tracked[g], dlRow'[g] = dlRow[g], temp'[g] = temp[g],
         final'[g] = final[g], cancelling'[g] = cancelling[g], Own(g)' = Own(g),
         \A r \in Own(g) : runners'[r].pc = runners[r].pc /\ runners'[r].pos = runners[r].pos
                           /\ runners'[r].id = runners[r].id
  PROVE  Calm(g)'
<1>1. \A r \in Own(g) : RunnerOK(g, r) => RunnerOK(g, r)'
  BY DEF RunnerOK
<1> QED BY <1>1 DEF Calm

\* The runner of a calm file is its only one.
LEMMA OnlyRunner ==
  ASSUME DlIInv, NEW r \in DOMAIN runners, Alive(r)
  PROVE  /\ FileOf(r) \in Files /\ r \in Own(FileOf(r)) /\ IsRunner(runners[r])
         /\ FileOf(r) \notin raced => Calm(FileOf(r)) /\ Own(FileOf(r)) = {r} /\ RunnerOK(FileOf(r), r)
<1>1. FileOf(r) \in Files /\ IsRunner(runners[r])
  BY DEF DlIInv, JobsOK, RunnersOK, IsJob, FileOf
<1>2. r \in Own(FileOf(r))
  BY DEF Own, Alive
<1>3. ASSUME FileOf(r) \notin raced PROVE Calm(FileOf(r)) /\ Own(FileOf(r)) = {r} /\ RunnerOK(FileOf(r), r)
  <2>1. Calm(FileOf(r))
    BY <1>1, <1>3 DEF DlIInv
  <2>2. \A q \in Own(FileOf(r)) : q = r /\ RunnerOK(FileOf(r), q)
    BY <1>2, <2>1 DEF Calm
  <2> QED BY <1>2, <2>1, <2>2
<1> QED BY <1>1, <1>2, <1>3

\* A runner r of file f becomes v, and nothing happens to other files: what is left
\* to show is that f stays calm, its runner being r as it now is, or nobody.
LEMMA RunnerActs ==
  ASSUME DlIInv, NEW r \in DOMAIN runners, Alive(r), NEW f \in Files, f = FileOf(r), NEW v, IsRunner(v), v.job = runners[r].job,
         runners' = [runners EXCEPT ![r] = v], JobsKeep, JobsOK', TrackedOK', PathsOK', raced' = raced,
         \A g \in Files : g # f =>
            /\ tracked'[g] = tracked[g] /\ dlRow'[g] = dlRow[g] /\ temp'[g] = temp[g]
            /\ final'[g] = final[g] /\ cancelling'[g] = cancelling[g],
         (/\ f \notin raced /\ runners'[r] = v
          /\ Own(f)' = IF v.pc = "gone" THEN {} ELSE {r}) => Calm(f)'
  PROVE  DlIInv'
<1>1. RunnersOK /\ JobsOK
  BY DEF DlIInv
<1>2. /\ DOMAIN runners' = DOMAIN runners /\ runners'[r] = v
      /\ \A q \in DOMAIN runners : q # r => runners'[q] = runners[q]
      /\ runners' = [q \in DOMAIN runners' |-> runners'[q]]
  BY <1>1 DEF RunnersOK
<1>3. \A q \in DOMAIN runners : IsRunner(runners'[q]) /\ runners'[q].job = runners[q].job /\ runners[q].job \in DOMAIN jobs
  BY <1>1, <1>2 DEF RunnersOK
<1>4. RunnersOK'
  BY <1>1, <1>2, <1>3 DEF RunnersOK, JobsKeep
<1>5. \A q \in DOMAIN runners : FileOf(q)' = FileOf(q)
  BY <1>3 DEF FileOf, JobsKeep
<1>6. \A q \in DOMAIN runners : q \in Own(FileOf(q)) <=> runners[q].pc # "gone"
  BY DEF Own
<1>7. \A g \in Files : g # f => Own(g)' = Own(g) /\ r \notin Own(g)
  BY <1>2, <1>5 DEF Own
<1>8. f \notin raced => Own(f)' = IF v.pc = "gone" THEN {} ELSE {r}
  <2> SUFFICES ASSUME f \notin raced PROVE Own(f)' = IF v.pc = "gone" THEN {} ELSE {r}
    OBVIOUS
  <2>1. Own(f) = {r}
    BY OnlyRunner, Zenon
  <2>2. \A q \in DOMAIN runners : q # r /\ FileOf(q) = f => runners[q].pc = "gone"
    BY <2>1 DEF Own
  <2>3. \A q : q \in Own(f)' <=> q = r /\ v.pc # "gone"
    BY <1>2, <1>5, <2>2 DEF Own
  <2> QED BY <2>3
<1>9. \A g \in Files \ raced' : Calm(g)'
  <2> SUFFICES ASSUME NEW g \in Files \ raced PROVE Calm(g)'
    OBVIOUS
  <2>1. CASE g = f
    BY <1>2, <1>8, <2>1
  <2>2. CASE g # f
    <3>1. \A q \in Own(g) : q # r /\ q \in DOMAIN runners
      BY <1>7, <2>2 DEF Own
    <3>2. Calm(g)
      BY DEF DlIInv
    <3> QED BY <1>2, <1>7, <2>2, <3>1, <3>2, Elsewhere
  <2> QED BY <2>1, <2>2
<1> QED BY <1>4, <1>9 DEF DlIInv

-----------------------------------------------------------------------------
(* The steps of a runner.                                                  *)

\* Another field of a job than its path is set.
LEMMA JobField ==
  ASSUME DlIInv, NEW j \in DOMAIN jobs, NEW v, IsJob(v), v.file = jobs[j].file,
         jobs' = [jobs EXCEPT ![j] = v]
  PROVE  /\ JobsOK' /\ JobsKeep /\ DOMAIN jobs' = DOMAIN jobs
         /\ UNCHANGED tracked => TrackedOK'
<1>1. JobsOK /\ TrackedOK
  BY DEF DlIInv
<1>2. /\ DOMAIN jobs' = DOMAIN jobs /\ jobs'[j] = v /\ \A k \in DOMAIN jobs : k # j => jobs'[k] = jobs[k]
      /\ jobs' = [k \in DOMAIN jobs' |-> jobs'[k]]
  BY <1>1 DEF JobsOK
<1>3. JobsKeep
  BY <1>2 DEF JobsKeep
<1>4. JobsOK'
  BY <1>1, <1>2 DEF JobsOK
<1>5. UNCHANGED tracked => TrackedOK'
  BY <1>1, <1>2, <1>3 DEF TrackedOK, JobsKeep
<1> QED BY <1>2, <1>3, <1>4, <1>5

\* A step that leaves the manager's jobs alone keeps what is known of them.
LEMMA JobsQuiet ==
  ASSUME DlIInv, UNCHANGED jobs
  PROVE  JobsOK' /\ JobsKeep /\ (UNCHANGED tracked => TrackedOK')
BY DEF DlIInv, JobsOK, JobsKeep, TrackedOK

\* A runner's pc is set.
LEMMA PcMoves ==
  ASSUME NEW x, IsRunner(x), NEW c, NEW v, v = [x EXCEPT !.pc = c]
  PROVE  IsRunner(v) /\ v.job = x.job /\ v.pc = c /\ v.pos = x.pos /\ v.id = x.id
BY DEF IsRunner

\* A runner that has ended is well formed and at work on nothing.
LEMMA EndedRunner ==
  ASSUME NEW j \in Nat, NEW v, v = Ended(j)
  PROVE  IsRunner(v) /\ v.job = j /\ v.pc = "gone"
BY DownloadAssumption DEF IsRunner, Ended

\* A runner moves without touching its files, and its row stays if there is one.
LEMMA QuietRunner ==
  ASSUME DlIInv, NEW r \in DOMAIN runners, Alive(r), NEW f \in Files, f = FileOf(r),
         NEW v, IsRunner(v), v.job = runners[r].job, runners' = [runners EXCEPT ![r] = v],
         JobsKeep, JobsOK', TrackedOK', UNCHANGED <<tracked, temp, final, cancelling, raced>>,
         dlRow' = [g \in Files |-> dlRow'[g]], \A g \in Files : g # f => dlRow'[g] = dlRow[g],
         dlRow'[f] = "none" <=> dlRow[f] = "none",
         f \notin raced =>
           /\ runners[r].pc # "landed" /\ v.pc # "landed"
           /\ v.pc \in {"born", "wait", "copy"} => v.pos = 0
           /\ v.pc = "sent" => v.pos = temp[f].size
           /\ v.pc # "xfer"
  PROVE  DlIInv'
<1>1. PathsOK'
  BY DEF DlIInv, PathsOK
<1>2. ASSUME f \notin raced, runners'[r] = v, Own(f)' = IF v.pc = "gone" THEN {} ELSE {r} PROVE Calm(f)'
  <2>1. Calm(f) /\ Own(f) = {r} /\ RunnerOK(f, r)
    BY <1>2, OnlyRunner
  <2>2. final[f] = NoFile /\ dlRow[f] # "none"
    BY <1>2, <2>1 DEF RunnerOK
  <2>3. v.pc # "gone" => RunnerOK(f, r)'
    BY <1>2, <2>1, <2>2 DEF RunnerOK
  <2> QED BY <1>2, <2>1, <2>2, <2>3 DEF Calm
<1> QED BY <1>1, <1>2, RunnerActs

\* The steps of run and Fetch that touch neither the partial nor the final file (taking a
\* slot, requesting, failing, being interrupted) preserve the invariant.
LEMMA QuietStep ==
  ASSUME DlIInv, NEW r \in DOMAIN runners,
         StoreCancel(r) \/ TakeSlot(r) \/ Interrupted(r) \/ Request(r) \/ TransferFails(r) \/ failJob(r)
  PROVE  DlIInv'
<1>1. Alive(r) /\ UNCHANGED <<tracked, temp, final, cancelling, raced>>
  BY DEF StoreCancel, TakeSlot, Interrupted, Request, TransferFails, failJob
<1> DEFINE f == FileOf(r)
           x == runners[r]
<1>2. /\ f \in Files /\ IsRunner(x) /\ x.job \in DOMAIN jobs /\ x.job \in Nat
      /\ f \notin raced => Calm(f) /\ RunnerOK(f, r)
  BY <1>1, OnlyRunner DEF DlIInv, RunnersOK, IsRunner
<1>3. \A g \in Files : temp[g] \in FileSet /\ temp[g].size \in Nat
  BY DEF DlIInv, PathsOK, FileSet
<1>r. dlRow = [g \in Files |-> dlRow[g]]
  BY DEF DlIInv, PathsOK
<1>4. CASE StoreCancel(r)
  <2> DEFINE v == [x EXCEPT !.pc = "wait"]
             u == [jobs[x.job] EXCEPT !.handle = r]
  <2>1. runners' = [runners EXCEPT ![r] = v] /\ jobs' = [jobs EXCEPT ![x.job] = u] /\ x.pc = "born" /\ UNCHANGED dlRow
    BY <1>4 DEF StoreCancel, Goes
  <2>2. IsRunner(v) /\ v.job = x.job /\ v.pc = "wait" /\ v.pos = x.pos
    BY <1>2, PcMoves
  <2>3. IsJob(u) /\ u.file = jobs[x.job].file
    BY <1>2 DEF DlIInv, JobsOK, IsJob
  <2> HIDE DEF v, u
  <2>4. JobsOK' /\ JobsKeep /\ TrackedOK'
    BY <1>1, <1>2, <2>1, <2>3, JobField
  <2>5. f \notin raced => x.pos = 0
    BY <1>2, <2>1 DEF RunnerOK
  <2> QED BY <1>1, <1>2, <1>r, <2>1, <2>2, <2>4, <2>5, QuietRunner
<1>5. CASE TakeSlot(r)
  <2> DEFINE c == IF x.kind = "copy" THEN "copy" ELSE "open"
             v == [x EXCEPT !.pc = c]
  <2>1. runners' = [runners EXCEPT ![r] = v] /\ UNCHANGED jobs /\ x.pc = "wait" /\ UNCHANGED dlRow
    BY <1>5 DEF TakeSlot, Goes
  <2>2. IsRunner(v) /\ v.job = x.job /\ v.pc = c /\ v.pos = x.pos /\ c \in {"copy", "open"}
    BY <1>2, PcMoves
  <2> HIDE DEF v, c
  <2>4. JobsOK' /\ JobsKeep /\ TrackedOK'
    BY <1>1, <2>1, JobsQuiet
  <2>5. f \notin raced => x.pos = 0
    BY <1>2, <2>1 DEF RunnerOK
  <2> QED BY <1>1, <1>2, <1>r, <2>1, <2>2, <2>4, <2>5, QuietRunner
<1>6. CASE Interrupted(r)
  <2> DEFINE v == Ended(x.job)
  <2>1. runners' = [runners EXCEPT ![r] = v] /\ UNCHANGED jobs /\ x.pc # "landed" /\ UNCHANGED dlRow
    BY <1>6 DEF Interrupted, Ends
  <2>2. IsRunner(v) /\ v.job = x.job /\ v.pc = "gone"
    BY <1>2, EndedRunner
  <2> HIDE DEF v
  <2>4. JobsOK' /\ JobsKeep /\ TrackedOK'
    BY <1>1, <2>1, JobsQuiet
  <2> QED BY <1>1, <1>2, <1>r, <2>1, <2>2, <2>4, QuietRunner
<1>7. CASE Request(r)
  <2> DEFINE c == IF final[f].size > 0 THEN "landed" ELSE "sent"
             p == IF temp[f].size > Chunks THEN Chunks ELSE temp[f].size
             v == [x EXCEPT !.pc = c, !.pos = p]
  <2>1. runners' = [runners EXCEPT ![r] = v] /\ UNCHANGED jobs /\ x.pc = "open" /\ UNCHANGED dlRow
    BY <1>7 DEF Request
  <2>2. p \in 0..Chunks
    BY <1>2, <1>3, DownloadAssumption
  <2>3. f \notin raced => c = "sent" /\ p = temp[f].size
    <3>1. f \notin raced => final[f] = NoFile /\ (temp[f] # NoFile => temp[f].size <= Chunks)
      BY <1>2, <2>1 DEF RunnerOK, Calm
    <3> QED BY <1>2, <1>3, <3>1, NoFileOK, DownloadAssumption
  <2> HIDE DEF c, p
  <2>4. IsRunner(v) /\ v.job = x.job /\ v.pc = c /\ v.pos = p
    BY <1>2, <2>2 DEF IsRunner
  <2> HIDE DEF v
  <2>5. JobsOK' /\ JobsKeep /\ TrackedOK'
    BY <1>1, <2>1, JobsQuiet
  <2> QED BY <1>1, <1>2, <1>r, <2>1, <2>3, <2>4, <2>5, QuietRunner
<1>8. CASE TransferFails(r)
  <2>1. PICK c \in {"open", "failing"} :
          \/ runners' = [runners EXCEPT ![r] = [x EXCEPT !.pc = c, !.tries = @ + 1]]
          \/ runners' = [runners EXCEPT ![r] = [x EXCEPT !.pc = c]]
    BY <1>8 DEF TransferFails, Goes
  <2>2. UNCHANGED <<jobs, dlRow>> /\ x.pc # "landed"
    BY <1>8 DEF TransferFails
  <2>3. PICK v : runners' = [runners EXCEPT ![r] = v] /\ IsRunner(v) /\ v.job = x.job /\ v.pc = c
    <3> DEFINE y == [x EXCEPT !.pc = c, !.tries = @ + 1]
               z == [x EXCEPT !.pc = c]
    <3>1. IsRunner(y) /\ y.job = x.job /\ y.pc = c
      BY <1>2 DEF IsRunner
    <3>2. IsRunner(z) /\ z.job = x.job /\ z.pc = c
      BY <1>2 DEF IsRunner
    <3>3. runners' = [runners EXCEPT ![r] = y] \/ runners' = [runners EXCEPT ![r] = z]
      BY <2>1
    <3> HIDE DEF y, z
    <3> QED BY <3>1, <3>2, <3>3
  <2>5. JobsOK' /\ JobsKeep /\ TrackedOK'
    BY <1>1, <2>2, JobsQuiet
  <2> QED BY <1>1, <1>2, <1>r, <2>2, <2>3, <2>5, QuietRunner
<1>9. CASE failJob(r)
  <2> DEFINE v == Ended(x.job)
             u == [jobs[x.job] EXCEPT !.status = "error"]
  <2>1. runners' = [runners EXCEPT ![r] = v] /\ x.pc = "failing"
    BY <1>9 DEF failJob, Ends
  <2>2. IsRunner(v) /\ v.job = x.job /\ v.pc = "gone"
    BY <1>2, EndedRunner
  <2>3. UNCHANGED <<jobs, dlRow>> \/ (jobs' = [jobs EXCEPT ![x.job] = u] /\ dlRow' = SetDownloadStatus(f, "error"))
    BY <1>9 DEF failJob
  <2>4. IsJob(u) /\ u.file = jobs[x.job].file
    BY <1>2 DEF DlIInv, JobsOK, IsJob
  <2> HIDE DEF v, u
  <2>5. JobsOK' /\ JobsKeep /\ TrackedOK'
    BY <1>1, <1>2, <2>3, <2>4, JobsQuiet, JobField
  <2>6. /\ dlRow' = [g \in Files |-> dlRow'[g]] /\ \A g \in Files : g # f => dlRow'[g] = dlRow[g]
        /\ dlRow'[f] = "none" <=> dlRow[f] = "none"
    BY <1>2, <1>r, <2>3 DEF SetDownloadStatus
  <2> QED BY <1>1, <1>2, <2>1, <2>2, <2>5, <2>6, QuietRunner
<1> QED BY <1>4, <1>5, <1>6, <1>7, <1>8, <1>9

\* What of a step of r concerns the files: the partial file or the final one of f
\* changes, and r is then where the files say it is.
LEMMA WritingRunner ==
  ASSUME DlIInv, NEW r \in DOMAIN runners, Alive(r), NEW f \in Files, f = FileOf(r),
         NEW v, IsRunner(v), v.job = runners[r].job, runners' = [runners EXCEPT ![r] = v],
         UNCHANGED <<tracked, jobs, dlRow, cancelling, raced>>,
         temp' \in [Files -> FileSet], final' \in [Files -> FileSet],
         \A g \in Files : g # f => temp'[g] = temp[g] /\ final'[g] = final[g],
         runners[r].pc # "landed", v.pc \in {"xfer", "landed"},
         f \notin raced =>
           /\ temp'[f] # NoFile => temp'[f].id # 0 /\ temp'[f].size <= Chunks /\ temp'[f].good
           /\ v.pc = "xfer" => /\ temp'[f] # NoFile /\ temp'[f].id = v.id /\ v.pos = temp'[f].size
                               /\ final'[f] = NoFile
           /\ v.pc = "landed" => /\ temp'[f] = NoFile
                                 /\ final'[f] # NoFile => final'[f].size = Chunks /\ final'[f].good
  PROVE  DlIInv'
<1>1. PathsOK' /\ JobsOK' /\ JobsKeep /\ TrackedOK'
  BY JobsQuiet DEF DlIInv, PathsOK
<1>2. ASSUME f \notin raced, runners'[r] = v, Own(f)' = IF v.pc = "gone" THEN {} ELSE {r} PROVE Calm(f)'
  <2>1. Calm(f) /\ Own(f) = {r} /\ RunnerOK(f, r)
    BY <1>2, OnlyRunner
  <2>2. dlRow[f] # "none" /\ Own(f)' = {r}
    BY <1>2, <2>1 DEF RunnerOK
  <2>3. RunnerOK(f, r)'
    BY <1>2, <2>1, <2>2 DEF RunnerOK
  <2> QED BY <1>2, <2>1, <2>2, <2>3 DEF Calm
<1> QED BY <1>1, <1>2, RunnerActs

\* Opening or creating the partial file, appending a chunk and the rename preserve the
\* invariant: the file's one runner writes where the file ends.
LEMMA WritingStep ==
  ASSUME DlIInv, NEW r \in DOMAIN runners, OpenTemp(r) \/ CreateTemp(r) \/ WriteChunk(r) \/ RenameTemp(r)
  PROVE  DlIInv'
<1>1. Alive(r) /\ UNCHANGED <<tracked, jobs, dlRow, cancelling, raced>>
  BY DEF OpenTemp, CreateTemp, WriteChunk, RenameTemp
<1> DEFINE f == FileOf(r)
           x == runners[r]
           ident == IF temp[f] = NoFile THEN r ELSE temp[f].id
           empty == [id |-> ident, size |-> 0, good |-> TRUE]
<1>2. /\ f \in Files /\ IsRunner(x) /\ x.job \in DOMAIN jobs /\ r \in Nat \ {0}
      /\ f \notin raced => Calm(f) /\ RunnerOK(f, r)
  BY <1>1, OnlyRunner DEF DlIInv, RunnersOK, IsRunner
<1>3. temp \in [Files -> FileSet] /\ final \in [Files -> FileSet]
  BY DEF DlIInv, PathsOK
<1>4. temp[f] \in FileSet /\ final[f] \in FileSet
  BY <1>2, <1>3
<1>5. ident \in Nat /\ (f \notin raced => ident # 0)
  BY <1>2, <1>4 DEF Calm, FileSet
<1>6. /\ empty \in FileSet /\ empty.id = ident /\ empty.size = 0 /\ empty.good
      /\ ident # 0 => empty # NoFile
  BY <1>5, NoFileOK DEF FileSet
<1>7. x.pos \in 0..Chunks /\ Chunks \in Nat
  BY <1>2, DownloadAssumption DEF IsRunner
<1>8. CASE OpenTemp(r)
  <2>1. PICK answer \in {"partial", "full", "restart"} :
          LET opened == handleResumeResponse(answer, x.pos)
          IN  /\ answer # "full" => x.pos > 0
              /\ opened.append => temp[f] # NoFile
              /\ temp' = [temp EXCEPT ![f] = IF opened.append THEN @ ELSE empty]
              /\ runners' = [runners EXCEPT ![r].pc = "xfer", ![r].pos = opened.from, ![r].id = ident]
    BY <1>8 DEF OpenTemp
  <2> DEFINE appends == answer = "partial" /\ x.pos > 0
             from == IF answer = "partial" THEN x.pos ELSE 0
             v == [x EXCEPT !.pc = "xfer", !.pos = from, !.id = ident]
             file == IF appends THEN temp[f] ELSE empty
  <2>2. /\ appends => temp[f] # NoFile
        /\ temp' = [temp EXCEPT ![f] = file] /\ runners' = [runners EXCEPT ![r] = v]
    BY <2>1 DEF handleResumeResponse
  <2>3. from = (IF appends THEN x.pos ELSE 0) /\ from \in 0..Chunks
    BY <1>7, <2>1
  <2>4. x.pc = "sent" /\ UNCHANGED final
    BY <1>8 DEF OpenTemp
  <2> HIDE DEF from
  <2>5. IsRunner(v) /\ v.job = x.job /\ v.pc = "xfer" /\ v.pos = from /\ v.id = ident
    BY <1>2, <1>5, <2>3 DEF IsRunner
  <2>6. file \in FileSet
    BY <1>4, <1>6
  <2>7. f \notin raced => /\ file # NoFile /\ file.id = ident /\ file.size = from /\ file.size <= Chunks /\ file.good
                          /\ final[f] = NoFile
    BY <1>2, <1>5, <1>6, <1>7, <2>2, <2>3, <2>4 DEF RunnerOK, Calm
  <2> HIDE DEF v, file, ident, empty, appends
  <2>8. temp' \in [Files -> FileSet] /\ temp'[f] = file /\ \A g \in Files : g # f => temp'[g] = temp[g]
    BY <1>2, <1>3, <2>2, <2>6
  <2> QED BY <1>1, <1>2, <1>3, <1>5, <2>2, <2>4, <2>5, <2>7, <2>8, WritingRunner
<1>9. CASE CreateTemp(r)
  <2> DEFINE v == [x EXCEPT !.pc = "xfer", !.id = ident]
  <2>1. /\ x.pc = "copy" /\ UNCHANGED final /\ temp' = [temp EXCEPT ![f] = empty] /\ runners' = [runners EXCEPT ![r] = v]
    BY <1>9 DEF CreateTemp
  <2>2. IsRunner(v) /\ v.job = x.job /\ v.pc = "xfer" /\ v.pos = x.pos /\ v.id = ident
    BY <1>2, <1>5 DEF IsRunner
  <2>3. f \notin raced => x.pos = 0 /\ final[f] = NoFile
    BY <1>2, <2>1 DEF RunnerOK
  <2> HIDE DEF v, ident, empty
  <2>4. temp' \in [Files -> FileSet] /\ temp'[f] = empty /\ \A g \in Files : g # f => temp'[g] = temp[g]
    BY <1>2, <1>3, <1>6, <2>1
  <2>5. f \notin raced => /\ temp'[f] # NoFile /\ temp'[f].id # 0 /\ temp'[f].size <= Chunks /\ temp'[f].good
                          /\ temp'[f].id = v.id /\ v.pos = temp'[f].size /\ final'[f] = NoFile
    BY <1>5, <1>6, <1>7, <2>1, <2>2, <2>3, <2>4
  <2> QED BY <1>1, <1>2, <1>3, <2>1, <2>2, <2>4, <2>5, WritingRunner
<1>10. CASE WriteChunk(r)
  <2> DEFINE c == IF x.cancelled = "asked" THEN "seen" ELSE x.cancelled
             p == x.pos + 1
             v == [x EXCEPT !.pos = p, !.cancelled = c]
  <2>1. /\ x.pc = "xfer" /\ x.pos < Chunks
        /\ temp' = [temp EXCEPT ![f] = Written(temp[f], r)]
        /\ final' = [final EXCEPT ![f] = Written(final[f], r)]
        /\ runners' = [runners EXCEPT ![r] = v]
    BY <1>10 DEF WriteChunk
  <2>a. p \in 0..Chunks
    BY <1>7, <2>1
  <2> HIDE DEF c, p
  <2>b. IsRunner(v) /\ v.job = x.job /\ v.pc = "xfer" /\ v.pos = p /\ v.id = x.id
    BY <1>2, <2>a, <2>1 DEF IsRunner
  <2>2. IsRunner(v) /\ v.job = x.job /\ v.pc = "xfer" /\ v.pos = x.pos + 1 /\ v.id = x.id
    BY <2>b DEF p
  <2> HIDE DEF v
  <2>3. ASSUME NEW y \in FileSet
        PROVE  /\ Written(y, r) \in FileSet /\ (y.id # x.id => Written(y, r) = y)
               /\ y.id = x.id => /\ Written(y, r).id = y.id /\ Written(y, r).size = y.size + 1
                                 /\ y.good /\ y.size = x.pos => Written(y, r).good
    <3> DEFINE right == y.good /\ y.size = x.pos
               more == y.size + 1
               w == [y EXCEPT !.size = more, !.good = right]
    <3>1. Written(y, r) = IF y.id # x.id THEN y ELSE w
      BY DEF Written
    <3>2. right \in BOOLEAN /\ more \in Nat
      BY DEF FileSet
    <3> HIDE DEF right, more
    <3>3. w \in FileSet /\ w.id = y.id /\ w.size = more /\ w.good = right
      BY <3>2 DEF FileSet
    <3> HIDE DEF w
    <3> QED BY <3>1, <3>3 DEF right, more
  <2>4. /\ temp' \in [Files -> FileSet] /\ temp'[f] = Written(temp[f], r) /\ \A g \in Files : g # f => temp'[g] = temp[g]
        /\ final' \in [Files -> FileSet] /\ final'[f] = Written(final[f], r) /\ \A g \in Files : g # f => final'[g] = final[g]
    BY <1>2, <1>3, <1>4, <2>1, <2>3
  <2>5. f \notin raced => /\ temp[f].id = x.id /\ x.id # 0 /\ temp[f].size = x.pos /\ temp[f].good
                          /\ final[f] = NoFile
    BY <1>2, <2>1 DEF RunnerOK, Calm
  <2>6. f \notin raced => /\ temp'[f].id = x.id /\ x.id # 0 /\ temp'[f].size = x.pos + 1 /\ temp'[f].good
                          /\ final'[f] = NoFile
    BY <1>4, <2>3, <2>4, <2>5, NoFileOK
  <2>7. f \notin raced => /\ temp'[f] # NoFile /\ temp'[f].id # 0 /\ temp'[f].size <= Chunks /\ temp'[f].good
                          /\ temp'[f].id = v.id /\ v.pos = temp'[f].size /\ final'[f] = NoFile
    BY <1>7, <2>1, <2>2, <2>6, NoFileOK
  <2> QED BY <1>1, <1>2, <2>1, <2>2, <2>4, <2>7, WritingRunner
<1>11. CASE RenameTemp(r) /\ temp[f] # NoFile
  <2> DEFINE v == [x EXCEPT !.pc = "landed"]
  <2>1. /\ x.pc = "xfer" /\ x.pos = Chunks /\ runners' = [runners EXCEPT ![r] = v]
        /\ final' = [final EXCEPT ![f] = temp[f]] /\ temp' = [temp EXCEPT ![f] = NoFile]
    BY <1>11 DEF RenameTemp, Goes
  <2>2. IsRunner(v) /\ v.job = x.job /\ v.pc = "landed"
    BY <1>2, PcMoves
  <2> HIDE DEF v
  <2>3. /\ temp' \in [Files -> FileSet] /\ temp'[f] = NoFile /\ \A g \in Files : g # f => temp'[g] = temp[g]
        /\ final' \in [Files -> FileSet] /\ final'[f] = temp[f] /\ \A g \in Files : g # f => final'[g] = final[g]
    BY <1>2, <1>3, <1>4, <2>1, NoFileOK
  <2>4. f \notin raced => temp[f].size = Chunks /\ temp[f].good
    BY <1>2, <1>11, <2>1 DEF RunnerOK, Calm
  <2> QED BY <1>1, <1>2, <2>1, <2>2, <2>3, <2>4, WritingRunner
<1>12. CASE RenameTemp(r) /\ temp[f] = NoFile
  <2> DEFINE v == [x EXCEPT !.pc = "failing"]
  <2>1. /\ x.pc = "xfer" /\ runners' = [runners EXCEPT ![r] = v] /\ UNCHANGED <<temp, final>>
    BY <1>12 DEF RenameTemp, Goes
  <2>2. IsRunner(v) /\ v.job = x.job /\ v.pc = "failing"
    BY <1>2, PcMoves
  <2> HIDE DEF v
  <2>3. JobsOK' /\ JobsKeep /\ TrackedOK'
    BY <1>1, JobsQuiet
  <2>4. dlRow = [g \in Files |-> dlRow[g]]
    BY DEF DlIInv, PathsOK
  <2> QED BY <1>1, <1>2, <2>1, <2>2, <2>3, <2>4, QuietRunner
<1> QED BY <1>8, <1>9, <1>10, <1>11, <1>12

\* Success: the entry and the row of the path go.
LEMMA CompleteStep ==
  ASSUME DlIInv, NEW r \in DOMAIN runners, Complete(r)
  PROVE  DlIInv'
<1> DEFINE x == runners[r]
           v == Ended(x.job)
<1>0. PICK f : f = FileOf(r)
  OBVIOUS
<1>1. /\ Alive(r) /\ x.pc = "landed" /\ UNCHANGED <<jobs, temp, final, cancelling, raced>>
      /\ tracked' = [tracked EXCEPT ![f] = 0] /\ dlRow' = [dlRow EXCEPT ![f] = "none"]
      /\ runners' = [runners EXCEPT ![r] = v]
  BY <1>0 DEF Complete, Ends
<1>2. /\ f \in Files /\ IsRunner(x) /\ x.job \in Nat
      /\ f \notin raced => Calm(f) /\ RunnerOK(f, r)
  BY <1>0, <1>1, OnlyRunner DEF IsRunner
<1>3. IsRunner(v) /\ v.job = x.job /\ v.pc = "gone"
  BY <1>2, EndedRunner
<1> HIDE DEF v
<1>4. TrackedOK /\ PathsOK
  BY DEF DlIInv
<1>5. JobsOK' /\ JobsKeep
  BY <1>1, JobsQuiet
<1>6. TrackedOK' /\ tracked'[f] = 0 /\ \A g \in Files : g # f => tracked'[g] = tracked[g]
  BY <1>1, <1>2, <1>4 DEF TrackedOK
<1>7. PathsOK' /\ \A g \in Files : g # f => dlRow'[g] = dlRow[g]
  BY <1>1, <1>2, <1>4 DEF PathsOK
<1>8. ASSUME f \notin raced, Own(f)' = {} PROVE Calm(f)'
  BY <1>1, <1>2, <1>6, <1>8 DEF Calm, RunnerOK
<1>9. (f \notin raced /\ runners'[r] = v /\ Own(f)' = IF v.pc = "gone" THEN {} ELSE {r}) => Calm(f)'
  BY <1>3, <1>8
<1> QED BY <1>1, <1>2, <1>3, <1>5, <1>6, <1>7, <1>0, <1>9, RunnerActs

\* Every step of a runner (run, copyLocal, Fetch) preserves the invariant.
LEMMA RunnerStepKeeps == ASSUME DlIInv, NEW r \in Runners, RunnerStep(r) PROVE DlIInv'
<1>1. r \in DOMAIN runners
  BY DEF RunnerStep, StoreCancel, TakeSlot, Interrupted, Request, OpenTemp, CreateTemp, WriteChunk,
     TransferFails, failJob, RenameTemp, Complete, Alive
<1> QED BY <1>1, QuietStep, WritingStep, CompleteStep DEF RunnerStep

-----------------------------------------------------------------------------
(* The operator's calls.                                                   *)

\* The next number, and what is ident under it.
LEMMA Appended ==
  ASSUME NEW s, NEW n \in Nat, DOMAIN s = 1..n, NEW e
  PROVE  /\ NextId(s) = n + 1 /\ DOMAIN Append1(s, e) = 1..(n + 1) /\ Append1(s, e)[n + 1] = e
         /\ Append1(s, e) = [i \in 1..(n + 1) |-> Append1(s, e)[i]]
         /\ \A i \in DOMAIN s : Append1(s, e)[i] = s[i] /\ i # n + 1
<1>1. Cardinality(1..n) = n
  BY FS_Interval
<1>2. (1..n) \cup {n + 1} = 1..(n + 1)
  OBVIOUS
<1>3. NextId(s) = n + 1
  BY <1>1 DEF NextId
<1>4. Append1(s, e) = [i \in 1..(n + 1) |-> IF i \in DOMAIN s THEN s[i] ELSE e]
  BY <1>1, <1>2 DEF Append1
<1> QED BY <1>3, <1>4

\* The runners change nothing but the request to end.
LEMMA SameRunners ==
  ASSUME DlIInv, JobsKeep, RunnersOK', DOMAIN runners' = DOMAIN runners,
         \A r \in DOMAIN runners : /\ runners'[r].job = runners[r].job /\ runners'[r].pc = runners[r].pc
                                   /\ runners'[r].pos = runners[r].pos /\ runners'[r].id = runners[r].id
  PROVE  /\ \A g \in Files : Own(g)' = Own(g)
         /\ \A g \in Files : (/\ Calm(g) /\ tracked'[g] = tracked[g] /\ dlRow'[g] = dlRow[g] /\ temp'[g] = temp[g]
                              /\ final'[g] = final[g] /\ cancelling'[g] = cancelling[g]) => Calm(g)'
<1>1. \A r \in DOMAIN runners : FileOf(r)' = FileOf(r)
  BY DEF DlIInv, RunnersOK, FileOf, JobsKeep
<1>2. \A g \in Files : Own(g)' = Own(g) /\ \A r \in Own(g) : r \in DOMAIN runners
  BY <1>1 DEF Own
<1> QED BY <1>2, Elsewhere

\* Cancelling a runner's context changes none of what it holds: job, position and file.
LEMMA Cancelled ==
  ASSUME DlIInv, JobsKeep, NEW h, runners' = CancelRunner(h, runners)
  PROVE  /\ RunnersOK' /\ DOMAIN runners' = DOMAIN runners
         /\ \A r \in DOMAIN runners : /\ runners'[r].job = runners[r].job /\ runners'[r].pc = runners[r].pc
                                      /\ runners'[r].pos = runners[r].pos /\ runners'[r].id = runners[r].id
<1>1. RunnersOK
  BY DEF DlIInv
<1>2. DOMAIN runners' = DOMAIN runners /\ runners' = [r \in DOMAIN runners' |-> runners'[r]]
  BY DEF CancelRunner
<1>3. ASSUME NEW r \in DOMAIN runners
      PROVE  /\ IsRunner(runners'[r]) /\ runners'[r].job = runners[r].job /\ runners'[r].pc = runners[r].pc
             /\ runners'[r].pos = runners[r].pos /\ runners'[r].id = runners[r].id
  <2> DEFINE v == [runners[r] EXCEPT !.cancelled = "asked"]
  <2>1. IsRunner(runners[r])
    BY <1>1 DEF RunnersOK
  <2>2. /\ IsRunner(v) /\ v.job = runners[r].job /\ v.pc = runners[r].pc
        /\ v.pos = runners[r].pos /\ v.id = runners[r].id
    BY <2>1 DEF IsRunner
  <2>3. runners'[r] = v \/ runners'[r] = runners[r]
    BY DEF CancelRunner
  <2> HIDE DEF v
  <2> QED BY <2>1, <2>2, <2>3
<1> QED BY <1>1, <1>2, <1>3 DEF RunnersOK, JobsKeep

\* A goroutine is spawned for the path f: unless that is a race, it is the only one.
LEMMA Spawned ==
  ASSUME DlIInv, NEW f \in Files, NEW j \in DOMAIN jobs', jobs'[j].file = f, NEW kind, Spawn(j, f, kind),
         JobsKeep, JobsOK', TrackedOK', PathsOK',
         \A g \in Files : g # f => /\ tracked'[g] = tracked[g] /\ dlRow'[g] = dlRow[g] /\ temp'[g] = temp[g]
                                   /\ final'[g] = final[g],
         cancelling' = cancelling, tracked'[f] # 0, temp'[f] = temp[f], final'[f] = final[f],
         f \notin raced /\ Own(f) = {} => dlRow'[f] # "none" /\ final[f] = NoFile
  PROVE  DlIInv'
<1>1. PICK n \in Nat : DOMAIN runners = 1..n
  BY DEF DlIInv, RunnersOK
<1> DEFINE e == [job |-> j, kind |-> kind, pc |-> "born", cancelled |-> "no", pos |-> 0, tries |-> 0, id |-> 0]
<1>2. j \in Nat
  BY DEF JobsOK
<1>3. IsRunner(e) /\ e.job = j /\ e.pc = "born" /\ e.pos = 0
  BY <1>2, DownloadAssumption DEF IsRunner
<1>4. /\ runners' = Append1(runners, e)
      /\ raced' = IF cancelling[f].on \/ \E r \in DOMAIN runners : Alive(r) /\ FileOf(r) = f
                  THEN raced \cup {f} ELSE raced
  BY DEF Spawn, Races
<1> HIDE DEF e
<1>5. /\ DOMAIN runners' = 1..(n + 1) /\ runners'[n + 1] = e /\ runners' = [i \in DOMAIN runners' |-> runners'[i]]
      /\ \A i \in DOMAIN runners : runners'[i] = runners[i] /\ i # n + 1
  BY <1>1, <1>4, Appended
<1>6. DOMAIN runners' = DOMAIN runners \cup {n + 1} /\ n + 1 \notin DOMAIN runners /\ n + 1 \in Nat
  BY <1>1, <1>5
<1>7. RunnersOK'
  <2>1. \A i \in DOMAIN runners' : IsRunner(runners'[i]) /\ runners'[i].job \in DOMAIN jobs'
    BY <1>3, <1>5, <1>6 DEF DlIInv, RunnersOK, JobsKeep
  <2> QED BY <1>5, <1>6, <2>1 DEF RunnersOK
<1>8. \A i \in DOMAIN runners : FileOf(i)' = FileOf(i)
  BY <1>5 DEF DlIInv, RunnersOK, FileOf, JobsKeep
<1>9. FileOf(n + 1)' = f
  BY <1>3, <1>5 DEF FileOf
<1>10. \A g \in Files : g # f => Own(g)' = Own(g)
  BY <1>5, <1>6, <1>8, <1>9 DEF Own
<1>11. Own(f)' = Own(f) \cup {n + 1}
  BY <1>3, <1>5, <1>6, <1>8, <1>9 DEF Own
<1>12. f \notin raced' => f \notin raced /\ Own(f) = {} /\ ~cancelling[f].on
  BY <1>4 DEF Own, Alive
<1>13. ASSUME f \notin raced' PROVE Calm(f)'
  <2>1. Own(f)' = {n + 1} /\ Calm(f) /\ final[f] = NoFile /\ dlRow'[f] # "none" /\ ~cancelling'[f].on
    BY <1>11, <1>12, <1>13 DEF DlIInv
  <2>2. RunnerOK(f, n + 1)'
    BY <1>3, <1>5, <2>1 DEF RunnerOK
  <2> QED BY <2>1, <2>2 DEF Calm
<1>14. ASSUME NEW g \in Files \ raced', g # f PROVE Calm(g)'
  <2>1. Calm(g) /\ \A r \in Own(g) : r \in DOMAIN runners
    BY <1>4, <1>14 DEF DlIInv, Own
  <2> QED BY <1>5, <1>10, <1>14, <2>1, Elsewhere
<1> QED BY <1>7, <1>13, <1>14 DEF DlIInv

\* StartDownload and ImportLocal, which track a file and spawn a runner, preserve the
\* invariant; a file that a runner still works on is raced from then on.
LEMMA TrackStep ==
  ASSUME DlIInv, NEW f \in Files, StartDownload(f) \/ ImportLocal(f)
  PROVE  DlIInv'
<1>1. PICK local \in BOOLEAN, kind \in {"http", "copy"} : Track(f, local) /\ Spawn(NextId(jobs), f, kind)
  BY DEF StartDownload, ImportLocal
<1>2. PICK n \in Nat : DOMAIN jobs = 1..n
  BY DEF DlIInv, JobsOK
<1> DEFINE e == [file |-> f, status |-> "active", handle |-> 0, local |-> local, locked |-> FALSE]
<1>3. /\ final[f] = NoFile /\ tracked[f] = 0 /\ jobs' = Append1(jobs, e)
      /\ tracked' = [tracked EXCEPT ![f] = NextId(jobs)] /\ dlRow' = [dlRow EXCEPT ![f] = "active"]
      /\ UNCHANGED <<temp, final, cancelling, deaths>>
  BY <1>1 DEF Track
<1>4. IsJob(e) /\ e.file = f
  BY DEF IsJob
<1> HIDE DEF e
<1>5. /\ NextId(jobs) = n + 1 /\ DOMAIN jobs' = 1..(n + 1) /\ jobs'[n + 1] = e
      /\ jobs' = [i \in DOMAIN jobs' |-> jobs'[i]] /\ \A i \in DOMAIN jobs : jobs'[i] = jobs[i]
  BY <1>2, <1>3, Appended
<1>6. /\ n + 1 \in DOMAIN jobs' /\ n + 1 # 0 /\ n + 1 \in Nat /\ DOMAIN jobs \subseteq DOMAIN jobs'
      /\ DOMAIN jobs' = DOMAIN jobs \cup {n + 1}
  BY <1>2, <1>5
<1>7. JobsKeep /\ JobsOK'
  BY <1>4, <1>5, <1>6 DEF JobsKeep, JobsOK, DlIInv
<1>8. /\ tracked' = [g \in Files |-> tracked'[g]] /\ tracked'[f] = n + 1
      /\ \A g \in Files : g # f => tracked'[g] = tracked[g]
  BY <1>3, <1>5 DEF DlIInv, TrackedOK
<1>9. TrackedOK'
  BY <1>4, <1>5, <1>6, <1>7, <1>8 DEF DlIInv, TrackedOK, JobsKeep
<1>10. PathsOK' /\ dlRow'[f] = "active" /\ \A g \in Files : g # f => dlRow'[g] = dlRow[g]
  BY <1>3 DEF DlIInv, PathsOK
<1>11. jobs'[n + 1].file = f /\ Spawn(n + 1, f, kind)
  BY <1>1, <1>4, <1>5
<1> QED BY <1>3, <1>6, <1>7, <1>8, <1>9, <1>10, <1>11, Spawned

\* Resume preserves the invariant; a file whose paused runner still exits is raced.
LEMMA ResumeStep ==
  ASSUME DlIInv, NEW f \in Files, Resume(f)
  PROVE  DlIInv'
<1> DEFINE j == tracked[f]
           u == [jobs[j] EXCEPT !.status = "active"]
<1>1. /\ j # 0 /\ jobs' = [jobs EXCEPT ![j] = u] /\ dlRow' = SetDownloadStatus(f, "active")
      /\ Spawn(j, f, "http") /\ UNCHANGED <<tracked, temp, final, cancelling, deaths>>
  BY DEF Resume
<1>2. j \in DOMAIN jobs /\ jobs[j].file = f /\ IsJob(jobs[j])
  BY <1>1 DEF DlIInv, TrackedOK, JobsOK
<1>3. IsJob(u) /\ u.file = jobs[j].file
  BY <1>2 DEF IsJob
<1> HIDE DEF u
<1>4. JobsOK' /\ JobsKeep /\ TrackedOK' /\ DOMAIN jobs' = DOMAIN jobs
  BY <1>1, <1>2, <1>3, JobField
<1>5. /\ PathsOK' /\ \A g \in Files : g # f => dlRow'[g] = dlRow[g]
      /\ dlRow[f] # "none" => dlRow'[f] # "none"
  BY <1>1 DEF DlIInv, PathsOK, SetDownloadStatus
<1>6. f \notin raced /\ Own(f) = {} => dlRow'[f] # "none" /\ final[f] = NoFile
  BY <1>1, <1>5 DEF DlIInv, Calm
<1> HIDE DEF j
<1>7. j \in DOMAIN jobs' /\ jobs'[j].file = f /\ tracked'[f] # 0
  BY <1>1, <1>2, <1>4 DEF JobsKeep, j
<1> QED BY <1>1, <1>4, <1>5, <1>6, <1>7, Spawned

\* Pause, which cancels the runner and stores the status, preserves the invariant.
LEMMA PauseStep ==
  ASSUME DlIInv, NEW f \in Files, Pause(f)
  PROVE  DlIInv'
<1> DEFINE j == tracked[f]
           u == [jobs[j] EXCEPT !.locked = TRUE]
           v == [jobs[j] EXCEPT !.status = "paused"]
<1>1. /\ j # 0 /\ UNCHANGED <<tracked, temp, final, cancelling, deaths, raced>>
      /\ \/ jobs' = [jobs EXCEPT ![j] = u] /\ UNCHANGED <<runners, dlRow>>
         \/ /\ runners' = CancelRunner(jobs[j].handle, runners) /\ jobs' = [jobs EXCEPT ![j] = v]
            /\ dlRow' = SetDownloadStatus(f, "paused")
  BY DEF Pause
<1>2. j \in DOMAIN jobs /\ IsJob(jobs[j])
  BY <1>1 DEF DlIInv, TrackedOK, JobsOK
<1>3. IsJob(u) /\ u.file = jobs[j].file /\ IsJob(v) /\ v.file = jobs[j].file
  BY <1>2 DEF IsJob
<1> HIDE DEF u, v
<1>4. JobsOK' /\ JobsKeep /\ TrackedOK'
  BY <1>1, <1>2, <1>3, JobField
<1> HIDE DEF j
<1>5. /\ RunnersOK' /\ DOMAIN runners' = DOMAIN runners
      /\ \A r \in DOMAIN runners : /\ runners'[r].job = runners[r].job /\ runners'[r].pc = runners[r].pc
                                   /\ runners'[r].pos = runners[r].pos /\ runners'[r].id = runners[r].id
  <2>1. CASE UNCHANGED runners
    BY <1>4, <2>1 DEF DlIInv, RunnersOK, JobsKeep
  <2> QED BY <1>1, <1>4, <2>1, Cancelled
<1>6. /\ PathsOK' /\ \A g \in Files : g # f => dlRow'[g] = dlRow[g]
      /\ (dlRow[f] # "none" <=> dlRow'[f] # "none")
  BY <1>1 DEF DlIInv, PathsOK, SetDownloadStatus
<1>7. /\ \A g \in Files : Own(g)' = Own(g)
      /\ \A g \in Files \ raced' : g # f => Calm(g)'
  BY <1>1, <1>4, <1>5, <1>6, SameRunners DEF DlIInv
<1>8. ASSUME f \notin raced' PROVE Calm(f)'
  <2>1. Calm(f) /\ \A r \in Own(f) : r \in DOMAIN runners
    BY <1>1, <1>8 DEF DlIInv, Own
  <2>2. \A r \in Own(f) : RunnerOK(f, r)'
    BY <1>1, <1>5, <1>6, <2>1 DEF Calm, RunnerOK
  <2> QED BY <1>1, <1>6, <1>7, <2>1, <2>2 DEF Calm
<1> QED BY <1>4, <1>5, <1>6, <1>7, <1>8 DEF DlIInv

\* Cancel untracks a file and cancels its runner; its row and files stay for now.
LEMMA CancelStep ==
  ASSUME DlIInv, NEW f \in Files, NEW remove \in BOOLEAN, Cancel(f, remove)
  PROVE  DlIInv'
<1>1. /\ tracked[f] # 0 /\ tracked' = [tracked EXCEPT ![f] = 0] /\ UNCHANGED <<jobs, dlRow, temp, final, deaths, raced>>
      /\ runners' = CancelRunner(jobs[tracked[f]].handle, runners)
      /\ \E a : cancelling' = [cancelling EXCEPT ![f] = [on |-> TRUE, await |-> a, remove |-> remove]]
  BY DEF Cancel
<1>2. JobsOK' /\ JobsKeep
  BY <1>1, JobsQuiet
<1>3. TrackedOK' /\ tracked'[f] = 0 /\ \A g \in Files : g # f => tracked'[g] = tracked[g]
  BY <1>1 DEF DlIInv, TrackedOK
<1>4. PathsOK' /\ cancelling'[f].on /\ \A g \in Files : g # f => cancelling'[g] = cancelling[g]
  <2>1. PICK a : cancelling' = [cancelling EXCEPT ![f] = [on |-> TRUE, await |-> a, remove |-> remove]]
    BY <1>1
  <2>2. PICK c : c = [on |-> TRUE, await |-> a, remove |-> remove]
    OBVIOUS
  <2>3. c.on
    BY <2>2
  <2>4. cancelling' = [cancelling EXCEPT ![f] = c]
    BY <2>1, <2>2
  <2>5. /\ cancelling' = [g \in Files |-> cancelling'[g]] /\ cancelling'[f] = c
        /\ \A g \in Files : g # f => cancelling'[g] = cancelling[g]
    BY <2>4 DEF DlIInv, PathsOK
  <2>6. PathsOK'
    BY <1>1, <2>5 DEF DlIInv, PathsOK
  <2> QED BY <2>3, <2>5, <2>6
<1>5. /\ RunnersOK' /\ DOMAIN runners' = DOMAIN runners
      /\ \A r \in DOMAIN runners : /\ runners'[r].job = runners[r].job /\ runners'[r].pc = runners[r].pc
                                   /\ runners'[r].pos = runners[r].pos /\ runners'[r].id = runners[r].id
  BY <1>1, <1>2, Cancelled
<1>7. /\ \A g \in Files : Own(g)' = Own(g)
      /\ \A g \in Files \ raced' : g # f => Calm(g)'
  BY <1>1, <1>2, <1>3, <1>4, <1>5, SameRunners DEF DlIInv
<1>8. ASSUME f \notin raced' PROVE Calm(f)'
  <2>1. Calm(f) /\ \A r \in Own(f) : r \in DOMAIN runners
    BY <1>1, <1>8 DEF DlIInv, Own
  <2>2. \A r \in Own(f) : RunnerOK(f, r)'
    BY <1>1, <1>4, <1>5, <2>1 DEF Calm, RunnerOK
  <2> QED BY <1>1, <1>3, <1>7, <2>1, <2>2 DEF Calm
<1> QED BY <1>2, <1>3, <1>4, <1>5, <1>7, <1>8 DEF DlIInv

\* CancelEnds and RemoveFinished: the files and the row of f go; f has no runner then,
\* or the calls have raced.
LEMMA RemovalStep ==
  ASSUME DlIInv, NEW f \in Files, CancelEnds(f) \/ RemoveFinished(f)
  PROVE  DlIInv'
<1>1. /\ UNCHANGED <<tracked, jobs, runners, deaths>> /\ dlRow' = [dlRow EXCEPT ![f] = "none"]
      /\ temp' = temp \/ temp' = [temp EXCEPT ![f] = NoFile]
      /\ final' = [final EXCEPT ![f] = NoFile] \/ final' = [final EXCEPT ![f] = @]
      /\ cancelling' = cancelling \/ cancelling' = [cancelling EXCEPT ![f] = NoCancel]
  BY DEF CancelEnds, RemoveFinished
<1>2. JobsOK' /\ JobsKeep /\ TrackedOK'
  BY <1>1, JobsQuiet
<1>3. PathsOK
  BY DEF DlIInv
<1>4. /\ PathsOK' /\ dlRow'[f] = "none" /\ \A g \in Files : g # f => /\ dlRow'[g] = dlRow[g] /\ temp'[g] = temp[g]
                                                           /\ final'[g] = final[g] /\ cancelling'[g] = cancelling[g]
      /\ temp'[f] \in {temp[f], NoFile} /\ final'[f] \in {final[f], NoFile}
  <2>1. temp' \in [Files -> FileSet] /\ temp'[f] \in {temp[f], NoFile} /\ \A g \in Files : g # f => temp'[g] = temp[g]
    BY <1>1, <1>3, NoFileOK DEF PathsOK
  <2>2. final' \in [Files -> FileSet] /\ final'[f] \in {final[f], NoFile} /\ \A g \in Files : g # f => final'[g] = final[g]
    BY <1>1, <1>3, NoFileOK DEF PathsOK
  <2>3. /\ dlRow' = [g \in Files |-> dlRow'[g]] /\ dlRow'[f] = "none" /\ \A g \in Files : g # f => dlRow'[g] = dlRow[g]
        /\ cancelling' = [g \in Files |-> cancelling'[g]] /\ \A g \in Files : g # f => cancelling'[g] = cancelling[g]
    BY <1>1, <1>3 DEF PathsOK
  <2> QED BY <2>1, <2>2, <2>3 DEF PathsOK
<1>5. RunnersOK'
  BY <1>1 DEF DlIInv, RunnersOK
<1>6. raced \subseteq raced' /\ raced' \subseteq raced \cup {f}
  BY DEF CancelEnds, RemoveFinished, Races
<1>7. /\ \A g \in Files : Own(g)' = Own(g)
      /\ \A g \in Files \ raced' : g # f => Calm(g)'
  BY <1>1, <1>2, <1>4, <1>5, <1>6, SameRunners DEF DlIInv
<1>8. ASSUME f \notin raced' PROVE Calm(f)'
  <2>1. Calm(f)
    BY <1>6, <1>8 DEF DlIInv
  <2>2. tracked[f] = 0 /\ Own(f) = {} /\ temp'[f] = NoFile
    <3>1. CASE CancelEnds(f)
      <4>1. tracked[f] = 0 /\ temp'[f] = NoFile
        BY <2>1, <3>1, <1>3 DEF CancelEnds, Calm, PathsOK
      <4>2. Own(f) = {}
        BY <1>8, <3>1 DEF CancelEnds, Races, Own, Alive
      <4> QED BY <4>1, <4>2
    <3>2. CASE RemoveFinished(f)
      BY <2>1, <3>2 DEF RemoveFinished, Calm, RunnerOK
    <3> QED BY <3>1, <3>2
  <2> QED BY <1>1, <1>4, <1>7, <2>1, <2>2 DEF Calm
<1> QED BY <1>2, <1>4, <1>5, <1>7, <1>8 DEF DlIInv

-----------------------------------------------------------------------------
(* The process ends and starts again.                                      *)

\* Numbers can be given to the recovered files, one each.
LEMMA Numbering ==
  ASSUME NEW kept, IsFiniteSet(kept)
  PROVE  /\ Cardinality(kept) \in Nat
         /\ \E o \in [kept -> 1..Cardinality(kept)] : \A f, g \in kept : f # g => o[f] # o[g]
<1> DEFINE n == Cardinality(kept)
<1>1. n \in Nat /\ ExistsBijection(1..n, kept)
  BY FS_CardinalityType
<1>2. IsFiniteSet(1..n) /\ Cardinality(1..n) = n
  BY <1>1, FS_Interval
<1>3. ExistsBijection(kept, 1..n)
  BY <1>2, FS_SameCardinalityBij
<1>4. PICK o : o \in [kept -> 1..n] /\ \A f, g \in kept : f # g => o[f] # o[g]
  BY <1>3 DEF ExistsBijection, Bijection, Injection, IsInjective
<1> QED BY <1>1, <1>4

\* And then all of the numbers are used.
LEMMA Surjective ==
  ASSUME NEW kept, IsFiniteSet(kept), NEW n \in Nat, n = Cardinality(kept),
         NEW order \in [kept -> 1..n], \A f, g \in kept : f # g => order[f] # order[g]
  PROVE  \A i \in 1..n : \E f \in kept : order[f] = i
<1>1. IsFiniteSet(1..n) /\ Cardinality(1..n) = n
  BY FS_Interval
<1>2. order \in Injection(kept, 1..n)
  BY DEF Injection, IsInjective
<1>3. order \in Surjection(kept, 1..n)
  BY <1>1, <1>2, FS_Injection
<1> QED BY <1>3 DEF Surjection

\* A death of the process leaves rows and files, and Recover tracks what it finds.
LEMMA RecoverStep ==
  ASSUME DlIInv, DieAndRecover
  PROVE  DlIInv'
<1>k. PICK kept : kept = {f \in Files : Recoverable(f)}
  OBVIOUS
<1>1. PICK order : order = CHOOSE o \in [kept -> 1..Cardinality(kept)] : \A f, g \in kept : f # g => o[f] # o[g]
  OBVIOUS
<1> DEFINE base == Cardinality(DOMAIN jobs)
           m == Cardinality(kept)
<1>2. /\ runners' = [r \in DOMAIN runners |-> Ended(runners[r].job)]
      /\ jobs' = [j \in 1..(base + m) |->
                    IF j <= base THEN jobs[j]
                    ELSE LET f == CHOOSE g \in kept : base + order[g] = j
                         IN  [file |-> f, status |-> RecoveredStatus(f), handle |-> Noop,
                              local |-> jobs[LastJob(f)].local, locked |-> FALSE]]
      /\ tracked' = [f \in Files |-> IF f \in kept THEN base + order[f] ELSE 0]
      /\ dlRow' = [f \in Files |-> IF f \in kept THEN RecoveredStatus(f) ELSE "none"]
      /\ cancelling' = [f \in Files |-> NoCancel]
      /\ UNCHANGED <<temp, final, raced>>
  BY <1>k, <1>1 DEF DieAndRecover
<1>3. PICK n \in Nat : DOMAIN jobs = 1..n
  BY DEF DlIInv, JobsOK
<1>4. base = n
  BY <1>3, FS_Interval
<1>5. IsFiniteSet(kept)
  BY <1>k, DownloadAssumption, FS_Subset
<1>6. \A f \in kept : f \in Files /\ temp[f] # NoFile
  BY <1>k DEF Recoverable
<1>a. \A f \in Files : f \notin kept => temp[f] = NoFile \/ dlRow[f] = "none"
  BY <1>k DEF Recoverable
<1> HIDE DEF base
<1>7. /\ m \in Nat /\ order \in [kept -> 1..m] /\ \A f, g \in kept : f # g => order[f] # order[g]
      /\ \A i \in 1..m : \E f \in kept : order[f] = i
  <2>1. m \in Nat /\ order \in [kept -> 1..m] /\ \A f, g \in kept : f # g => order[f] # order[g]
    BY <1>1, <1>5, Numbering
  <2> QED BY <1>5, <2>1, Surjective
<1> HIDE DEF m
<1>8. DOMAIN jobs' = 1..(n + m) /\ jobs' = [j \in DOMAIN jobs' |-> jobs'[j]] /\ n + m \in Nat
  BY <1>2, <1>4, <1>7
<1>9. \A j \in DOMAIN jobs : j \in DOMAIN jobs' /\ jobs'[j] = jobs[j]
  BY <1>2, <1>3, <1>4, <1>7, <1>8
<1>10. ASSUME NEW f \in kept
       PROVE  /\ n + order[f] \in DOMAIN jobs' /\ n + order[f] # 0
              /\ IsJob(jobs'[n + order[f]]) /\ jobs'[n + order[f]].file = f
  <2> DEFINE j == n + order[f]
  <2>1. order[f] \in 1..m /\ j \in 1..(n + m) /\ ~(j <= n) /\ j # 0
    BY <1>7
  <2>2. \A g \in kept : n + order[g] = j => g = f
    <3>1. \A g \in kept : order[g] \in Nat /\ order[f] \in Nat /\ (g # f => order[g] # order[f])
      BY <1>7
    <3> QED BY <3>1
  <2>3. (CHOOSE g \in kept : n + order[g] = j) = f
    BY <2>2
  <2>4. jobs'[j] = [file |-> f, status |-> RecoveredStatus(f), handle |-> Noop,
                    local |-> jobs[LastJob(f)].local, locked |-> FALSE]
    BY <1>2, <1>4, <2>1, <2>3
  <2>5. PICK y : y = [file |-> f, status |-> RecoveredStatus(f), handle |-> Noop,
                      local |-> jobs[LastJob(f)].local, locked |-> FALSE]
    OBVIOUS
  <2>6. IsJob(y) /\ y.file = f
    BY <1>6, <2>5 DEF IsJob
  <2> QED BY <1>8, <2>1, <2>4, <2>5, <2>6
<1>11. \A j \in DOMAIN jobs' : j \in DOMAIN jobs \/ \E f \in kept : j = n + order[f]
  <2> SUFFICES ASSUME NEW j \in 1..(n + m), j \notin 1..n PROVE \E f \in kept : j = n + order[f]
    BY <1>3, <1>8
  <2>1. j - n \in 1..m
    BY <1>7
  <2>2. PICK f \in kept : order[f] = j - n
    BY <1>7, <2>1
  <2>3. j = n + order[f]
    BY <1>7, <2>2
  <2> QED BY <2>3
<1>12. JobsOK' /\ JobsKeep
  BY <1>8, <1>9, <1>10, <1>11 DEF DlIInv, JobsOK, JobsKeep
<1>13. \A f \in Files : (f \in kept /\ tracked'[f] = n + order[f]) \/ (f \notin kept /\ tracked'[f] = 0)
  BY <1>2, <1>4
<1>14. tracked' = [f \in Files |-> tracked'[f]]
  BY <1>2
<1>15. TrackedOK'
  BY <1>10, <1>13, <1>14 DEF TrackedOK
<1>16. /\ DOMAIN runners' = DOMAIN runners /\ runners' = [r \in DOMAIN runners' |-> runners'[r]]
       /\ \A r \in DOMAIN runners : runners'[r] = Ended(runners[r].job)
  BY <1>2
<1>17. \A r \in DOMAIN runners : IsRunner(runners'[r]) /\ runners'[r].job = runners[r].job /\ runners'[r].pc = "gone"
  BY <1>16, EndedRunner DEF DlIInv, RunnersOK, IsRunner
<1>18. RunnersOK'
  BY <1>12, <1>16, <1>17 DEF DlIInv, RunnersOK, JobsKeep
<1>19. PathsOK'
  BY <1>2 DEF DlIInv, PathsOK
<1>20. \A f \in Files : Own(f)' = {}
  BY <1>16, <1>17 DEF Own
<1>21. \A f \in Files : ~cancelling'[f].on
  BY <1>2 DEF NoCancel
<1>22. \A f \in kept : dlRow'[f] # "none"
  BY <1>2, <1>6 DEF RecoveredStatus
<1>23. ASSUME NEW f \in Files \ raced' PROVE Calm(f)'
  <2>1. Calm(f)
    BY <1>2 DEF DlIInv
  <2>2. CASE f \in kept
    BY <1>2, <1>6, <1>20, <1>21, <1>22, <2>1, <2>2 DEF Calm
  <2>3. CASE f \notin kept
    BY <1>2, <1>a, <1>13, <1>20, <2>1, <2>3 DEF Calm
  <2> QED BY <2>2, <2>3
<1> QED BY <1>12, <1>15, <1>18, <1>19, <1>23 DEF DlIInv

\* Every step of the manager, its runners and a restart preserves the invariant.
LEMMA DlInvNext == DlIInv /\ [DlNext]_dlVars => DlIInv'
<1> SUFFICES ASSUME DlIInv, [DlNext]_dlVars PROVE DlIInv'
  OBVIOUS
<1>1. CASE UNCHANGED dlVars
  <2>1. JobsOK' /\ JobsKeep /\ TrackedOK'
    BY <1>1, JobsQuiet DEF dlVars
  <2>2. RunnersOK' /\ PathsOK'
    BY <1>1 DEF dlVars, DlIInv, RunnersOK, PathsOK
  <2>3. \A f \in Files \ raced' : Calm(f)'
    BY <1>1, <2>1, <2>2, SameRunners DEF dlVars, DlIInv
  <2> QED BY <2>1, <2>2, <2>3 DEF DlIInv
<1> QED BY <1>1, TrackStep, PauseStep, ResumeStep, RemovalStep, CancelStep, RunnerStepKeeps, RecoverStep DEF DlNext

\* Over any starts, pauses, resumes, cancels, failures and restarts, a file whose calls
\* have not raced has one writer at most, at the position the partial file has.
THEOREM DownloadInvariant == DlSpec => []DlIInv
BY DlInvInit, DlInvNext, PTL DEF DlSpec

\* What run and copyLocal leave under the final name is the whole file, and a partial
\* file has a row that Recover will find after a restart, unless calls on it raced.
THEOREM FilesAreWhole == DlSpec => []FilesAccounted
<1>1. DlIInv => FilesAccounted
  BY DEF DlIInv, Calm, FilesAccounted
<1>2. QED
  BY <1>1, DownloadInvariant, PTL

-----------------------------------------------------------------------------
(***************************************************************************)
(* Placement.  TailCovers is not inductive: a row leaves a queue before    *)
(* its seconds leave the tail, a drain debits what it read when it leased, *)
(* and a walk replaces a tail with a sum that it read earlier.  Covered    *)
(* adds what a thief, an operator and a drain whose row was taken have     *)
(* still to debit, and Foreseen says of a walk under way that the sum it   *)
(* will write covers the rows as it will rewrite them.                     *)
(***************************************************************************)

(* The ledger of the tails.                                                *)

TailRec == [sec : Nat, model : PModels \cup {"none"}]
RowRec  == [id : Nat, at : Places, st : {"free", "leased", "running"}, sec : Nat, model : PModels \cup {"none"}]
PlacerRec == [at : {"idle", "lease", "move", "debit", "credit"}, job : PJobs \cup {"none"}, id : Nat,
              to : PWorkers \cup {"none"}, from : PWorkers \cup {"none"}, sec : Nat]
DrainRec == [job : PJobs \cup {"none"}, sec : Nat]
Placers == {"submit", "loop", "operator"}

\* A walk: the new predictions of some rows, and their sum.
IsWalk(e) ==
  /\ e = [at |-> e.at, new |-> e.new, sum |-> e.sum]
  /\ e.at \in {"idle", "write", "late"} /\ e.sum \in Nat
  /\ \A j \in DOMAIN e.new : e.new[j] \in Nat

LedgerOK ==
  /\ prow \in [PJobs -> RowRec]
  /\ tail \in [PWorkers -> TailRec]
  /\ placer \in [Placers -> PlacerRec]
  /\ drain \in [PWorkers -> DrainRec]
  /\ estimate = [w \in PWorkers |-> estimate[w]]
  /\ \A w \in PWorkers : IsWalk(estimate[w])
  /\ skewed \subseteq PWorkers

\* A row that was leased is on a worker's queue, a drain knows its row, and a walk under
\* way has rows of its own queue left to rewrite.
RowsSit ==
  /\ \A j \in PJobs : prow[j].st # "free" => prow[j].at \in PWorkers
  /\ \A w \in PWorkers : drain[w] # NoDrain => drain[w].job \in PJobs
  /\ \A w \in PWorkers : \A j \in DOMAIN estimate[w].new :
       j \in PJobs /\ prow[j].at = w /\ estimate[w].at # "idle"

\* A placer knows what it places and where; only the dispatcher steals, only an operator
\* moves a row without placing it.
PlacersSit ==
  /\ \A p \in {"submit", "loop"} : placer[p].at # "idle" => placer[p].job \in PJobs /\ placer[p].to \in PWorkers
  /\ placer["submit"].at \notin {"move", "debit"}
  /\ placer["loop"].at \in {"move", "debit"} => placer["loop"].from \in PWorkers
  /\ placer["operator"].at \in {"idle", "move", "debit"}
  /\ placer["operator"].at # "idle" =>
       placer["operator"].job \in PJobs /\ placer["operator"].to = "none" /\ placer["operator"].from \in PWorkers

\* What a row of the queue weighs now, and what it will weigh when the walk is written back.
Counts(w, j) == prow[j].at = w /\ prow[j].st # "running"
Weight(w) == [j \in PJobs |-> IF Counts(w, j) THEN prow[j].sec ELSE 0]
Wanted(w) == [j \in PJobs |->
  IF Counts(w, j) THEN (IF j \in DOMAIN estimate[w].new THEN estimate[w].new[j] ELSE prow[j].sec) ELSE 0]
Planned(w) == SumFunctionOnSet(Weight(w), PJobs)
Expected(w) == SumFunctionOnSet(Wanted(w), PJobs)

\* The seconds that a thief or an operator has taken off a queue and not yet off its tail, ...
Taken(p, w) == IF placer[p].at = "debit" /\ placer[p].from = w THEN placer[p].sec ELSE 0
\* ... and those that a drain will debit although its row is no longer there.
Gone(w) == IF drain[w] # NoDrain /\ ~ Holds(w) THEN drain[w].sec ELSE 0

\* The tail covers the rows and what will come off it without a row leaving, and a drain
\* debits no more than its row weighs; ...
HoldsNoLess(w) == Holds(w) => drain[w].sec <= prow[drain[w].job].sec
Covered(w) ==
  estimate[w].at = "idle" =>
    /\ Planned(w) + Taken("loop", w) + Taken("operator", w) + Gone(w) <= tail[w].sec + Owed(w)
    /\ HoldsNoLess(w)
\* ... and what a walk will replace the tail with covers the rows.
Foreseen(w) == estimate[w].at = "write" => Expected(w) <= estimate[w].sum + Owed(w)

LedgerInv ==
  /\ LedgerOK /\ RowsSit /\ PlacersSit
  /\ \A w \in PWorkers \ skewed : Covered(w)
  /\ \A w \in PWorkers : Foreseen(w)

USE PlacementAssumption, PlacesAssumption

\* A sum is kept from going below zero.
LEMMA ClampAtZero ==
  ASSUME NEW x \in Int
  PROVE  Max({0, x}) = (IF x > 0 THEN x ELSE 0) /\ Max({0, x}) \in Nat
<1> DEFINE m == IF x > 0 THEN x ELSE 0
<1>1. m \in {0, x} /\ \A y \in {0, x} : m >= y
  OBVIOUS
<1>2. Max({0, x}) \in {0, x} /\ \A y \in {0, x} : Max({0, x}) >= y
  BY <1>1 DEF Max
<1> QED BY <1>2

\* What the seconds of a placement and of a prediction are.
LEMMA SecondsNat ==
  ASSUME NEW w, NEW m, NEW warm
  PROVE  QueuedSeconds(w, m) \in Nat /\ predictedQueuedSeconds(w, warm) \in Nat
<1>1. TaskSeconds(w) \in Nat /\ loadLatencyForCand(w, m) \in Nat
  BY DEF TaskSeconds, loadLatencyForCand
<1>2. TaskSeconds(w)' \in Nat
  BY DEF TaskSeconds
<1> QED BY <1>1, <1>2 DEF QueuedSeconds, predictedQueuedSeconds

\* Everything that is added up is a natural number, before a step ...
Numbers(w) ==
  /\ \A j \in PJobs : Weight(w)[j] \in Nat /\ Wanted(w)[j] \in Nat
  /\ Planned(w) \in Nat /\ Expected(w) \in Nat /\ Taken("loop", w) \in Nat /\ Taken("operator", w) \in Nat
  /\ Gone(w) \in Nat /\ Owed(w) \in Nat /\ tail[w].sec \in Nat /\ estimate[w].sum \in Nat

\* A ledger of the right shape adds up to numbers.
LEMMA NumbersNow == ASSUME LedgerOK, NEW w \in PWorkers PROVE Numbers(w)
<1>1. \A j \in PJobs : Weight(w)[j] \in Nat /\ Wanted(w)[j] \in Nat
  BY DEF LedgerOK, RowRec, IsWalk, Weight, Wanted
<1>2. Planned(w) \in Nat /\ Expected(w) \in Nat
  BY <1>1, SumNat DEF Planned, Expected
<1>3. \A p \in Placers : placer[p].sec \in Nat
  BY DEF LedgerOK, PlacerRec
<1>4. Taken("loop", w) \in Nat /\ Taken("operator", w) \in Nat /\ Owed(w) \in Nat
  BY <1>3 DEF Taken, Owed, Due, Placers
<1>5. Gone(w) \in Nat
  BY DEF LedgerOK, DrainRec, Gone
<1> QED BY <1>1, <1>2, <1>4, <1>5 DEF LedgerOK, TailRec, IsWalk, Numbers

\* ... and after it.
LEMMA NumbersThen == ASSUME LedgerOK', NEW w \in PWorkers PROVE Numbers(w)'
<1>1. \A j \in PJobs : Weight(w)'[j] \in Nat /\ Wanted(w)'[j] \in Nat
  BY DEF LedgerOK, RowRec, IsWalk, Weight, Wanted
<1>2. SumFunctionOnSet(Weight(w)', PJobs) \in Nat /\ SumFunctionOnSet(Wanted(w)', PJobs) \in Nat
  BY <1>1, SumNat
<1>3. \A p \in Placers : placer'[p].sec \in Nat
  BY DEF LedgerOK, PlacerRec
<1>4. Taken("loop", w)' \in Nat /\ Taken("operator", w)' \in Nat /\ Owed(w)' \in Nat
  BY <1>3 DEF Taken, Owed, Due, Placers
<1>5. Gone(w)' \in Nat
  BY DEF LedgerOK, DrainRec, Gone
<1> QED BY <1>1, <1>2, <1>4, <1>5 DEF LedgerOK, TailRec, IsWalk, Numbers, Planned, Expected

\* The sum that the property speaks of.
LEMMA AheadIsPlanned ==
  ASSUME LedgerOK, NEW w \in PWorkers
  PROVE  Ahead(w) = Planned(w)
<1> DEFINE W == [j \in PJobs |-> prow[j].sec]
           T == {j \in PJobs : Counts(w, j)}
<1>1. \A j \in PJobs : W[j] \in Nat
  BY DEF LedgerOK, RowRec
<1>2. Weight(w) = [j \in PJobs |-> IF j \in T THEN W[j] ELSE 0]
  BY DEF Weight
<1>3. Ahead(w) = SumFunctionOnSet(W, T)
  BY DEF Ahead, Seconds, Counts
<1> HIDE DEF W
<1> QED BY <1>1, <1>2, <1>3, SumFilter DEF Planned

-----------------------------------------------------------------------------
(* Walks.                                                                  *)

\* A step changes a walk only in whether it is late and in the row j it may forget.
WalkKeeps(j) ==
  /\ estimate' = [w \in PWorkers |-> estimate'[w]]
  /\ \A w \in PWorkers :
       /\ IsWalk(estimate'[w]) /\ estimate'[w].sum = estimate[w].sum
       /\ estimate'[w].at = "idle" <=> estimate[w].at = "idle"
       /\ estimate'[w].at = "write" => estimate[w].at = "write"
       /\ DOMAIN estimate'[w].new \subseteq DOMAIN estimate[w].new
       /\ \A i \in DOMAIN estimate[w].new \ {j} :
            i \in DOMAIN estimate'[w].new /\ estimate'[w].new[i] = estimate[w].new[i]

\* A step changes no row of a walk.
WalkSame ==
  /\ estimate' = [w \in PWorkers |-> estimate'[w]]
  /\ \A w \in PWorkers :
       /\ IsWalk(estimate'[w]) /\ estimate'[w].sum = estimate[w].sum
       /\ estimate'[w].at = "idle" <=> estimate[w].at = "idle"
       /\ estimate'[w].at = "write" => estimate[w].at = "write"
       /\ estimate'[w].new = estimate[w].new

\* A step that leaves the walks alone changes no row of one.
LEMMA WalkUnchanged == ASSUME LedgerOK, UNCHANGED estimate PROVE WalkSame
<1>1. estimate' = [w \in PWorkers |-> estimate'[w]]
  BY DEF LedgerOK
<1>2. ASSUME NEW w \in PWorkers PROVE estimate'[w] = estimate[w] /\ IsWalk(estimate'[w])
  BY DEF LedgerOK
<1> QED BY <1>1, <1>2 DEF WalkSame

\* A step that changes no row of a walk forgets none.
LEMMA SameKeeps == ASSUME WalkSame, NEW j PROVE WalkKeeps(j)
BY DEF WalkSame, WalkKeeps

\* A walk that forgets a row is a walk.
LEMMA KeepsLeaves ==
  ASSUME LedgerOK, NEW j \in PJobs, NEW late, Leaves(j, late)
  PROVE  /\ WalkKeeps(j)
         /\ \A w \in PWorkers : j \notin DOMAIN estimate'[w].new /\ (w \in late => estimate'[w].at # "write")
<1>1. ASSUME NEW w \in PWorkers
      PROVE  /\ IsWalk(estimate'[w]) /\ estimate'[w].sum = estimate[w].sum
             /\ estimate'[w].at = (IF estimate[w].at = "write" /\ w \in late THEN "late" ELSE estimate[w].at)
             /\ DOMAIN estimate'[w].new = DOMAIN estimate[w].new \ {j}
             /\ \A i \in DOMAIN estimate'[w].new : estimate'[w].new[i] = estimate[w].new[i]
  <2>1. PICK n : n = [i \in DOMAIN estimate[w].new \ {j} |-> estimate[w].new[i]]
    OBVIOUS
  <2>2. PICK a : a = IF estimate[w].at = "write" /\ w \in late THEN "late" ELSE estimate[w].at
    OBVIOUS
  <2>3. estimate'[w] = [[estimate[w] EXCEPT !.at = a] EXCEPT !.new = n]
    BY <2>1, <2>2 DEF Leaves
  <2>4. PICK e : e = [estimate[w] EXCEPT !.at = a]
    OBVIOUS
  <2>5. estimate[w] = [at |-> estimate[w].at, new |-> estimate[w].new, sum |-> estimate[w].sum]
        /\ estimate[w].at \in {"idle", "write", "late"} /\ estimate[w].sum \in Nat
        /\ \A i \in DOMAIN estimate[w].new : estimate[w].new[i] \in Nat
    BY DEF LedgerOK, IsWalk
  <2>6. e = [at |-> a, new |-> estimate[w].new, sum |-> estimate[w].sum]
    BY <2>4, <2>5
  <2>7. estimate'[w] = [at |-> a, new |-> n, sum |-> estimate[w].sum]
    BY <2>3, <2>4, <2>6
  <2>8. a \in {"idle", "write", "late"}
    BY <2>2, <2>5
  <2>9. estimate'[w].at = a /\ estimate'[w].new = n /\ estimate'[w].sum = estimate[w].sum
    BY <2>7
  <2>10. IsWalk(estimate'[w])
    BY <2>1, <2>5, <2>7, <2>8, <2>9 DEF IsWalk
  <2> QED BY <2>1, <2>2, <2>9, <2>10
<1>2. estimate' = [w \in PWorkers |-> estimate'[w]]
  BY DEF Leaves
<1> QED BY <1>1, <1>2 DEF WalkKeeps

\* A walk that comes too late is a walk.
LEMMA KeepsOverlaps ==
  ASSUME LedgerOK, NEW w \in PWorkers, Overlaps(w)
  PROVE  WalkSame /\ estimate'[w].at # "write"
<1>1. PICK a : a = IF estimate[w].at = "write" THEN "late" ELSE estimate[w].at
  OBVIOUS
<1>2. PICK e : e = [estimate[w] EXCEPT !.at = a]
  OBVIOUS
<1>3. estimate' = [estimate EXCEPT ![w] = e]
  BY <1>1, <1>2 DEF Overlaps
<1>4. estimate[w] = [at |-> estimate[w].at, new |-> estimate[w].new, sum |-> estimate[w].sum]
      /\ estimate[w].at \in {"idle", "write", "late"} /\ estimate[w].sum \in Nat
      /\ \A i \in DOMAIN estimate[w].new : estimate[w].new[i] \in Nat
  BY DEF LedgerOK, IsWalk
<1>5. e = [at |-> a, new |-> estimate[w].new, sum |-> estimate[w].sum]
  BY <1>2, <1>4
<1>6. e.at = a /\ e.new = estimate[w].new /\ e.sum = estimate[w].sum /\ IsWalk(e)
  BY <1>1, <1>4, <1>5 DEF IsWalk
<1>7. estimate'[w] = e /\ \A u \in PWorkers \ {w} : estimate'[u] = estimate[u]
  BY <1>3 DEF LedgerOK
<1>8. estimate' = [u \in PWorkers |-> estimate'[u]]
  BY <1>3 DEF LedgerOK
<1>9. ASSUME NEW u \in PWorkers
      PROVE  /\ IsWalk(estimate'[u]) /\ estimate'[u].sum = estimate[u].sum
             /\ estimate'[u].at = "idle" <=> estimate[u].at = "idle"
             /\ estimate'[u].at = "write" => estimate[u].at = "write"
             /\ estimate'[u].new = estimate[u].new
  <2>1. CASE u = w
    BY <1>1, <1>6, <1>7, <2>1
  <2>2. CASE u # w
    <3>1. estimate'[u] = estimate[u] /\ IsWalk(estimate[u])
      BY <1>7, <2>2 DEF LedgerOK
    <3> QED BY <3>1
  <2> QED BY <2>1, <2>2
<1> QED BY <1>1, <1>6, <1>7, <1>8, <1>9 DEF WalkSame

-----------------------------------------------------------------------------
(* The sums.                                                               *)

\* Where no row and no walk changes, the sums stay.
LEMMA SumsKept ==
  ASSUME UNCHANGED prow, WalkSame, NEW w \in PWorkers
  PROVE  Planned(w)' = Planned(w) /\ Expected(w)' = Expected(w)
BY DEF WalkSame, Planned, Expected, Weight, Wanted, Counts

\* Where one row changes, the sums change by what that row weighs.
Balanced(w, j) ==
  /\ Planned(w)' + Weight(w)[j] = Planned(w) + Weight(w)'[j]
  /\ Expected(w)' + Wanted(w)[j] = Expected(w) + Wanted(w)'[j]

\* The balance of a step that changes the row of j only.
LEMMA RowMoves ==
  ASSUME LedgerOK, LedgerOK', NEW j \in PJobs, NEW w \in PWorkers,
         \A i \in PJobs \ {j} : prow'[i] = prow[i], WalkKeeps(j)
  PROVE  Balanced(w, j)
<1>1. \A i \in PJobs : Weight(w)[i] \in Nat /\ Wanted(w)[i] \in Nat
  BY NumbersNow DEF Numbers
<1>2. \A i \in PJobs : Weight(w)'[i] \in Nat /\ Wanted(w)'[i] \in Nat
  BY DEF LedgerOK, RowRec, IsWalk, Weight, Wanted
<1>3. \A i \in PJobs \ {j} : Weight(w)'[i] = Weight(w)[i]
  BY DEF Weight, Counts
<1>4. \A i \in PJobs \ {j} : Wanted(w)'[i] = Wanted(w)[i]
  <2> SUFFICES ASSUME NEW i \in PJobs \ {j} PROVE Wanted(w)'[i] = Wanted(w)[i]
    OBVIOUS
  <2>1. /\ i \in DOMAIN estimate'[w].new <=> i \in DOMAIN estimate[w].new
        /\ i \in DOMAIN estimate[w].new => estimate'[w].new[i] = estimate[w].new[i]
    BY DEF WalkKeeps
  <2>2. prow'[i] = prow[i]
    OBVIOUS
  <2> QED BY <2>1, <2>2 DEF Wanted, Counts
<1>5. Planned(w)' = SumFunctionOnSet(Weight(w)', PJobs) /\ Expected(w)' = SumFunctionOnSet(Wanted(w)', PJobs)
  BY DEF Planned, Expected
<1>6. SumFunctionOnSet(Weight(w)', PJobs) + Weight(w)[j] = SumFunctionOnSet(Weight(w), PJobs) + Weight(w)'[j]
  BY <1>1, <1>2, <1>3, SumChange
<1>7. SumFunctionOnSet(Wanted(w)', PJobs) + Wanted(w)[j] = SumFunctionOnSet(Wanted(w), PJobs) + Wanted(w)'[j]
  BY <1>1, <1>2, <1>4, SumChange
<1> QED BY <1>5, <1>6, <1>7 DEF Balanced, Planned, Expected

\* What a row weighs.
LEMMA Weighs ==
  ASSUME NEW w, NEW j \in PJobs
  PROVE  /\ Weight(w)[j] = IF Counts(w, j) THEN prow[j].sec ELSE 0
         /\ Wanted(w)[j] = IF Counts(w, j)
                           THEN IF j \in DOMAIN estimate[w].new THEN estimate[w].new[j] ELSE prow[j].sec
                           ELSE 0
BY DEF Weight, Wanted

\* What it weighs after a step.
LEMMA WeighsThen ==
  ASSUME NEW w, NEW j \in PJobs
  PROVE  /\ Weight(w)'[j] = IF Counts(w, j)' THEN prow'[j].sec ELSE 0
         /\ Wanted(w)'[j] = IF Counts(w, j)'
                            THEN IF j \in DOMAIN estimate'[w].new THEN estimate'[w].new[j] ELSE prow'[j].sec
                            ELSE 0
BY DEF Weight, Wanted

-----------------------------------------------------------------------------
(* Types and positions.                                                    *)

\* A row that goes to another place, or changes its lease, keeps the shape of the ledger, ...
LEMMA RowTypes ==
  ASSUME LedgerOK, NEW j \in PJobs, NEW r \in RowRec, prow' = [prow EXCEPT ![j] = r], WalkKeeps(j),
         tail' \in [PWorkers -> TailRec], placer' \in [Placers -> PlacerRec],
         drain' \in [PWorkers -> DrainRec], skewed' \subseteq PWorkers
  PROVE  LedgerOK' /\ prow'[j] = r /\ \A i \in PJobs \ {j} : prow'[i] = prow[i]
<1>1. prow' \in [PJobs -> RowRec] /\ prow'[j] = r /\ \A i \in PJobs \ {j} : prow'[i] = prow[i]
  BY DEF LedgerOK
<1>2. estimate' = [w \in PWorkers |-> estimate'[w]] /\ \A w \in PWorkers : IsWalk(estimate'[w])
  BY DEF WalkKeeps
<1> QED BY <1>1, <1>2 DEF LedgerOK

\* ... and the positions, if no walk still knows it in its new place.
LEMMA RowSits ==
  ASSUME LedgerOK, RowsSit, NEW j \in PJobs, NEW r \in RowRec, prow' = [prow EXCEPT ![j] = r], WalkKeeps(j),
         r.st # "free" => r.at \in PWorkers,
         r.at = prow[j].at \/ \A w \in PWorkers : j \notin DOMAIN estimate'[w].new,
         \A w \in PWorkers : drain'[w] # NoDrain => drain'[w].job \in PJobs
  PROVE  RowsSit'
<1>1. prow'[j] = r /\ \A i \in PJobs \ {j} : prow'[i] = prow[i]
  BY DEF LedgerOK
<1>2. \A i \in PJobs : prow'[i].st # "free" => prow'[i].at \in PWorkers
  BY <1>1 DEF RowsSit
<1>3. ASSUME NEW w \in PWorkers, NEW i \in DOMAIN estimate'[w].new
      PROVE  i \in PJobs /\ prow'[i].at = w /\ estimate'[w].at # "idle"
  <2>1. i \in DOMAIN estimate[w].new /\ (estimate'[w].at = "idle" <=> estimate[w].at = "idle")
    BY <1>3 DEF WalkKeeps
  <2>2. i \in PJobs /\ prow[i].at = w /\ estimate[w].at # "idle"
    BY <2>1 DEF RowsSit
  <2>3. prow'[i].at = prow[i].at
    BY <1>1, <2>2
  <2> QED BY <2>1, <2>2, <2>3
<1> QED BY <1>2, <1>3 DEF RowsSit

\* Where no row and no drain changes, the positions stay.
LEMMA SitsStill ==
  ASSUME RowsSit, WalkSame, UNCHANGED <<prow, drain>>
  PROVE  RowsSit'
<1>1. ASSUME NEW w \in PWorkers, NEW i \in DOMAIN estimate'[w].new
      PROVE  i \in PJobs /\ prow'[i].at = w /\ estimate'[w].at # "idle"
  <2>1. i \in DOMAIN estimate[w].new /\ (estimate'[w].at = "idle" <=> estimate[w].at = "idle")
    BY <1>1 DEF WalkSame
  <2> QED BY <2>1 DEF RowsSit
<1> QED BY <1>1 DEF RowsSit

\* ... and what a drain holds.
LEMMA HoldsStill ==
  ASSUME UNCHANGED <<prow, drain>>, NEW w
  PROVE  Holds(w)' = Holds(w) /\ Gone(w)' = Gone(w) /\ HoldsNoLess(w)' = HoldsNoLess(w)
BY DEF Holds, Gone, HoldsNoLess

\* Where no placer moves, nothing is taken and nothing owed that was not before.
LEMMA PlacersStill ==
  ASSUME UNCHANGED placer
  PROVE  /\ PlacersSit => PlacersSit'
         /\ \A w : Taken("loop", w)' = Taken("loop", w) /\ Taken("operator", w)' = Taken("operator", w) /\ Owed(w)' = Owed(w)
BY DEF PlacersSit, Taken, Owed, Due

\* The row of a move and of a deletion.
LEMMA RowForms ==
  ASSUME LedgerOK, NEW j \in PJobs
  PROVE  /\ \A p \in {"global", "over"} :
              ToRow(j, p) \in RowRec /\ ToRow(j, p).at = p /\ ToRow(j, p).st = "free" /\ ToRow(j, p).sec = 0
         /\ \A w \in PWorkers :
              Onto(j, w) \in RowRec /\ Onto(j, w).at = w /\ Onto(j, w).st = prow[j].st /\ Onto(j, w).sec = prow[j].sec
<1>1. prow[j] \in RowRec
  BY DEF LedgerOK
<1>2. ASSUME NEW p \in Places
      PROVE  Onto(j, p) \in RowRec /\ Onto(j, p).at = p /\ Onto(j, p).st = prow[j].st /\ Onto(j, p).sec = prow[j].sec
  <2>1. PICK a : a = [prow[j] EXCEPT !.at = p]
    OBVIOUS
  <2>2. a \in RowRec /\ a.at = p /\ a.st = prow[j].st /\ a.sec = prow[j].sec /\ a.id = prow[j].id
    BY <1>1, <2>1 DEF RowRec
  <2>3. Onto(j, p) = [a EXCEPT !.id = prow[j].id + 1]
    BY <2>1 DEF Onto
  <2> QED BY <1>1, <2>2, <2>3 DEF RowRec
<1>3. ASSUME NEW p \in {"global", "over"}
      PROVE  ToRow(j, p) \in RowRec /\ ToRow(j, p).at = p /\ ToRow(j, p).st = "free" /\ ToRow(j, p).sec = 0
  <2>1. PICK a : a = Onto(j, p)
    OBVIOUS
  <2>2. PICK b : b = [a EXCEPT !.st = "free"]
    OBVIOUS
  <2>3. a \in RowRec /\ a.at = p
    BY <1>2, <2>1 DEF Places
  <2>4. b \in RowRec /\ b.at = p /\ b.st = "free"
    BY <2>2, <2>3 DEF RowRec
  <2>5. ToRow(j, p) = [b EXCEPT !.sec = 0]
    BY <2>1, <2>2 DEF ToRow
  <2> QED BY <2>4, <2>5 DEF RowRec
<1>4. \A w \in PWorkers : w \in Places
  BY DEF Places
<1> QED BY <1>2, <1>3, <1>4

\* The ledger after a debit.
LEMMA DebitTypes ==
  ASSUME LedgerOK, NEW w \in PWorkers, NEW n \in Nat, tail' = debitTail(w, n)
  PROVE  /\ tail' \in [PWorkers -> TailRec]
         /\ tail[w].sec <= tail'[w].sec + n
         /\ \A v \in PWorkers \ {w} : tail'[v] = tail[v]
<1> DEFINE m == Max({0, tail[w].sec + (0 - n)})
<1>1. tail[w].sec \in Nat /\ tail[w].sec + (0 - n) \in Int
  BY DEF LedgerOK, TailRec
<1>2. m \in Nat /\ m = IF tail[w].sec + (0 - n) > 0 THEN tail[w].sec + (0 - n) ELSE 0
  BY <1>1, ClampAtZero
<1>3. tail' = [tail EXCEPT ![w].sec = m]
  BY DEF debitTail, AddTail
<1> HIDE DEF m
<1>4. tail' \in [PWorkers -> TailRec] /\ tail'[w].sec = m
  BY <1>2, <1>3 DEF LedgerOK, TailRec
<1>5. \A v \in PWorkers \ {w} : tail'[v] = tail[v]
  BY <1>3 DEF LedgerOK
<1> QED BY <1>1, <1>2, <1>4, <1>5

-----------------------------------------------------------------------------
(* The actions, one by one.                                                *)

\* A row that nobody holds on u, before and after a step, changes nothing of what a
\* drain of u holds.
LEMMA HoldsKept ==
  ASSUME RowsSit, NEW j \in PJobs, NEW u \in PWorkers, \A i \in PJobs \ {j} : prow'[i] = prow[i],
         drain'[u] = drain[u], ~ (prow[j].at = u /\ prow[j].st = "leased"), ~ (prow'[j].at = u /\ prow'[j].st = "leased")
  PROVE  Gone(u)' = Gone(u) /\ (HoldsNoLess(u) => HoldsNoLess(u)')
<1>1. CASE drain[u] = NoDrain
  BY <1>1 DEF Gone, HoldsNoLess, Holds, NoDrain
<1>2. CASE drain[u] # NoDrain /\ drain[u].job = j
  BY <1>2 DEF Gone, HoldsNoLess, Holds, NoDrain
<1>3. CASE drain[u] # NoDrain /\ drain[u].job # j
  <2>1. prow'[drain[u].job] = prow[drain[u].job]
    BY <1>3 DEF RowsSit
  <2> QED BY <1>3, <2>1 DEF Gone, HoldsNoLess, Holds, NoDrain
<1> QED BY <1>1, <1>2, <1>3

\* A placer that has chosen, has read a row or gives up moves no seconds.
LEMMA PlacerTurns ==
  ASSUME LedgerOK, PlacersSit, NEW p \in Placers, NEW c \in PlacerRec, placer' = [placer EXCEPT ![p] = c],
         placer[p].at \in {"idle", "lease", "move"}, c.at \in {"idle", "lease", "move"},
         p \in {"submit", "loop"} /\ c.at # "idle" => c.job \in PJobs /\ c.to \in PWorkers,
         p = "submit" => c.at # "move",
         p = "loop" /\ c.at = "move" => c.from \in PWorkers,
         p = "operator" => c.at # "lease" /\ (c.at # "idle" => c.job \in PJobs /\ c.to = "none" /\ c.from \in PWorkers)
  PROVE  /\ placer' \in [Placers -> PlacerRec] /\ PlacersSit'
         /\ \A w : Taken("loop", w)' = Taken("loop", w) /\ Taken("operator", w)' = Taken("operator", w) /\ Owed(w)' = Owed(w)
<1>1. placer' \in [Placers -> PlacerRec] /\ placer'[p] = c /\ \A q \in Placers \ {p} : placer'[q] = placer[q]
  BY DEF LedgerOK
<1>2. PlacersSit'
  BY <1>1 DEF PlacersSit, Placers
<1>3. ASSUME NEW q \in Placers, NEW w PROVE Taken(q, w)' = Taken(q, w) /\ Due(q, w)' = Due(q, w)
  BY <1>1 DEF Taken, Due
<1> QED BY <1>1, <1>2, <1>3 DEF Owed, Placers

\* Nobody is a placer.
LEMMA NobodyOK == Nobody \in PlacerRec /\ Nobody.at = "idle"
BY DEF Nobody, PlacerRec

\* Steps of the placers only.
LEMMA PlacerOnly ==
  ASSUME LedgerInv, placer' \in [Placers -> PlacerRec], PlacersSit', UNCHANGED <<prow, tail, drain, estimate, skewed>>,
         \A w : Taken("loop", w)' = Taken("loop", w) /\ Taken("operator", w)' = Taken("operator", w) /\ Owed(w)' = Owed(w)
  PROVE  LedgerInv'
<1>1. LedgerOK /\ RowsSit /\ WalkSame
  BY WalkUnchanged DEF LedgerInv
<1>2. LedgerOK'
  BY <1>1 DEF LedgerOK, WalkSame
<1>3. RowsSit'
  BY <1>1, SitsStill
<1>4. \A w \in PWorkers : Planned(w)' = Planned(w) /\ Expected(w)' = Expected(w)
  BY <1>1, SumsKept
<1>5. \A w \in PWorkers : Gone(w)' = Gone(w) /\ HoldsNoLess(w)' = HoldsNoLess(w)
  BY HoldsStill
<1>6. ASSUME NEW w \in PWorkers \ skewed PROVE Covered(w)'
  <2>1. Covered(w)
    BY DEF LedgerInv
  <2> QED BY <1>4, <1>5, <2>1 DEF Covered
<1>7. ASSUME NEW w \in PWorkers PROVE Foreseen(w)'
  <2>1. Foreseen(w)
    BY DEF LedgerInv
  <2> QED BY <1>4, <2>1 DEF Foreseen
<1> QED BY <1>2, <1>3, <1>6, <1>7 DEF LedgerInv

\* A placement that has been chosen.
LEMMA ChosenOK ==
  ASSUME NEW j \in PJobs, NEW w \in PWorkers, NEW n \in Nat
  PROVE  Chosen(j, w, n) = [at |-> "lease", job |-> j, id |-> 0, to |-> w, from |-> "none", sec |-> n]
<1>1. PICK a : a = [Nobody EXCEPT !.at = "lease"]
  OBVIOUS
<1>2. PICK b : b = [a EXCEPT !.job = j]
  OBVIOUS
<1>3. PICK c : c = [b EXCEPT !.to = w]
  OBVIOUS
<1>4. a = [at |-> "lease", job |-> "none", id |-> 0, to |-> "none", from |-> "none", sec |-> 0]
  BY <1>1 DEF Nobody
<1>5. b = [at |-> "lease", job |-> j, id |-> 0, to |-> "none", from |-> "none", sec |-> 0]
  BY <1>2, <1>4
<1>6. c = [at |-> "lease", job |-> j, id |-> 0, to |-> w, from |-> "none", sec |-> 0]
  BY <1>3, <1>5
<1>7. Chosen(j, w, n) = [c EXCEPT !.sec = n]
  BY <1>1, <1>2, <1>3 DEF Chosen
<1> QED BY <1>6, <1>7

\* A caller of Submit: the row is new, and waits for its placement.
LEMMA RowSubmitted == ASSUME LedgerInv, NEW j \in PJobs, Submit(j) PROVE LedgerInv'
<1>0. LedgerOK /\ RowsSit /\ PlacersSit /\ WalkSame /\ WalkKeeps(j)
  BY WalkUnchanged, SameKeeps DEF LedgerInv, Submit
<1>1. PICK m \in PModels, w \in PWorkers :
        /\ prow' = [prow EXCEPT ![j].at = "global", ![j].model = m]
        /\ placer' = [placer EXCEPT !["submit"] = Chosen(j, w, QueuedSeconds(w, m))]
  BY DEF Submit, pickWorkerQueue
<1>2. prow[j].at = "new" /\ placer["submit"].at = "idle" /\ UNCHANGED <<tail, drain, estimate, skewed>>
  BY DEF Submit
<1>3. PICK c : c = Chosen(j, w, QueuedSeconds(w, m))
  OBVIOUS
<1>4. c \in PlacerRec /\ c.at = "lease" /\ c.job = j /\ c.to = w
  BY <1>3, SecondsNat, ChosenOK DEF PlacerRec
<1>5. placer' = [placer EXCEPT !["submit"] = c]
  BY <1>1, <1>3
<1>6. /\ placer' \in [Placers -> PlacerRec] /\ PlacersSit'
      /\ \A u : Taken("loop", u)' = Taken("loop", u) /\ Taken("operator", u)' = Taken("operator", u) /\ Owed(u)' = Owed(u)
  BY <1>0, <1>2, <1>4, <1>5, PlacerTurns DEF Placers
<1>7. PICK a : a = [prow[j] EXCEPT !.at = "global"]
  OBVIOUS
<1>8. PICK r : r = [a EXCEPT !.model = m]
  OBVIOUS
<1>9. prow' = [prow EXCEPT ![j] = r]
  BY <1>1, <1>7, <1>8
<1>10. prow[j].st = "free" /\ "new" \notin PWorkers /\ "global" \notin PWorkers
  BY <1>0, <1>2 DEF RowsSit, LedgerOK, RowRec
<1>11. r \in RowRec /\ r.at = "global" /\ r.st = "free"
  <2>1. prow[j] \in RowRec
    BY <1>0 DEF LedgerOK
  <2>2. a \in RowRec /\ a.at = "global" /\ a.st = prow[j].st
    BY <1>7, <2>1 DEF RowRec, Places
  <2> QED BY <1>8, <1>10, <2>2 DEF RowRec
<1>12. LedgerOK' /\ prow'[j] = r /\ \A i \in PJobs \ {j} : prow'[i] = prow[i]
  <2>1. tail' \in [PWorkers -> TailRec] /\ drain' \in [PWorkers -> DrainRec] /\ skewed' \subseteq PWorkers
    BY <1>0, <1>2 DEF LedgerOK
  <2> QED BY <1>0, <1>6, <1>9, <1>11, <2>1, RowTypes
<1>13. RowsSit'
  <2>1. \A u \in PWorkers : j \notin DOMAIN estimate'[u].new
    BY <1>0, <1>2, <1>10 DEF RowsSit
  <2>2. \A u \in PWorkers : drain'[u] # NoDrain => drain'[u].job \in PJobs
    BY <1>0, <1>2 DEF RowsSit
  <2> QED BY <1>0, <1>9, <1>11, <2>1, <2>2, RowSits
<1>14. ASSUME NEW u \in PWorkers PROVE Planned(u)' = Planned(u) /\ Expected(u)' = Expected(u)
  <2>1. Balanced(u, j) /\ Numbers(u) /\ Numbers(u)'
    BY <1>0, <1>12, RowMoves, NumbersNow, NumbersThen
  <2>2. ~ Counts(u, j) /\ ~ Counts(u, j)'
    BY <1>2, <1>10, <1>11, <1>12 DEF Counts
  <2>3. Weight(u)[j] = 0 /\ Wanted(u)[j] = 0 /\ Weight(u)'[j] = 0 /\ Wanted(u)'[j] = 0
    BY <2>2, Weighs, WeighsThen
  <2> QED BY <2>1, <2>3 DEF Balanced, Numbers
<1>15. ASSUME NEW u \in PWorkers PROVE Gone(u)' = Gone(u) /\ (HoldsNoLess(u) => HoldsNoLess(u)')
  <2>1. drain'[u] = drain[u]
    BY <1>2
  <2> QED BY <1>0, <1>10, <1>11, <1>12, <2>1, HoldsKept
<1>16. \A u \in PWorkers \ skewed' : Covered(u)'
  <2> SUFFICES ASSUME NEW u \in PWorkers \ skewed' PROVE Covered(u)'
    OBVIOUS
  <2>1. Covered(u) /\ tail' = tail /\ estimate' = estimate
    BY <1>2 DEF LedgerInv
  <2> QED BY <1>6, <1>14, <1>15, <2>1 DEF Covered
<1>17. \A u \in PWorkers : Foreseen(u)'
  <2> SUFFICES ASSUME NEW u \in PWorkers PROVE Foreseen(u)'
    OBVIOUS
  <2>1. Foreseen(u) /\ estimate' = estimate
    BY <1>2 DEF LedgerInv
  <2> QED BY <1>6, <1>14, <2>1 DEF Foreseen
<1> QED BY <1>6, <1>12, <1>13, <1>16, <1>17 DEF LedgerInv

\* The dispatcher chooses for a global row, or reads a row to steal; an operator reads a
\* row to evict.
LEMMA PlacerReads ==
  ASSUME LedgerInv, NEW j \in PJobs,
         drainGlobal(j) \/ (\E w \in PWorkers : stealWithinRuntime(j, w)) \/ EvictQueuedRowToGlobal(j)
  PROVE  LedgerInv'
<1>0. LedgerOK /\ PlacersSit
  BY DEF LedgerInv
<1>1. prow[j].id \in Nat /\ prow[j].sec \in Nat
  BY <1>0 DEF LedgerOK, RowRec
<1>2. CASE drainGlobal(j)
  <2>1. PICK w \in PWorkers : placer' = [placer EXCEPT !["loop"] = Chosen(j, w, QueuedSeconds(w, prow[j].model))]
    BY <1>2 DEF drainGlobal, pickWorkerQueue
  <2>2. placer["loop"].at = "idle" /\ UNCHANGED <<prow, tail, drain, estimate, skewed>>
    BY <1>2 DEF drainGlobal
  <2>3. PICK c : c = Chosen(j, w, QueuedSeconds(w, prow[j].model))
    OBVIOUS
  <2>4. c \in PlacerRec /\ c.at = "lease" /\ c.job = j /\ c.to = w
    BY <2>3, SecondsNat, ChosenOK DEF PlacerRec
  <2>5. placer' = [placer EXCEPT !["loop"] = c]
    BY <2>1, <2>3
  <2>6. /\ placer' \in [Placers -> PlacerRec] /\ PlacersSit'
        /\ \A u : Taken("loop", u)' = Taken("loop", u) /\ Taken("operator", u)' = Taken("operator", u) /\ Owed(u)' = Owed(u)
    BY <1>0, <2>2, <2>4, <2>5, PlacerTurns DEF Placers
  <2> QED BY <2>2, <2>6, PlacerOnly
<1>3. ASSUME NEW w \in PWorkers, stealWithinRuntime(j, w) PROVE LedgerInv'
  <2>1. PICK c : c = [at |-> "move", job |-> j, id |-> prow[j].id, to |-> w, from |-> prow[j].at, sec |-> prow[j].sec]
    OBVIOUS
  <2>2. /\ placer["loop"].at = "idle" /\ placer' = [placer EXCEPT !["loop"] = c] /\ prow[j].at \in PWorkers
        /\ UNCHANGED <<prow, tail, drain, estimate, skewed>>
    BY <1>3, <2>1 DEF stealWithinRuntime, Reads
  <2>3. c \in PlacerRec /\ c.at = "move" /\ c.job = j /\ c.to = w /\ c.from \in PWorkers
    BY <1>1, <2>1, <2>2 DEF PlacerRec
  <2>4. /\ placer' \in [Placers -> PlacerRec] /\ PlacersSit'
        /\ \A u : Taken("loop", u)' = Taken("loop", u) /\ Taken("operator", u)' = Taken("operator", u) /\ Owed(u)' = Owed(u)
    BY <1>0, <2>2, <2>3, PlacerTurns DEF Placers
  <2> QED BY <2>2, <2>4, PlacerOnly
<1>4. CASE EvictQueuedRowToGlobal(j)
  <2>1. PICK c : c = [at |-> "move", job |-> j, id |-> prow[j].id, to |-> "none", from |-> prow[j].at, sec |-> prow[j].sec]
    OBVIOUS
  <2>2. /\ placer["operator"].at = "idle" /\ placer' = [placer EXCEPT !["operator"] = c] /\ prow[j].at \in PWorkers
        /\ UNCHANGED <<prow, tail, drain, estimate, skewed>>
    BY <1>4, <2>1 DEF EvictQueuedRowToGlobal, Reads
  <2>3. c \in PlacerRec /\ c.at = "move" /\ c.job = j /\ c.to = "none" /\ c.from \in PWorkers
    BY <1>1, <2>1, <2>2 DEF PlacerRec
  <2>4. /\ placer' \in [Placers -> PlacerRec] /\ PlacersSit'
        /\ \A u : Taken("loop", u)' = Taken("loop", u) /\ Taken("operator", u)' = Taken("operator", u) /\ Owed(u)' = Owed(u)
    BY <1>0, <2>2, <2>3, PlacerTurns DEF Placers
  <2> QED BY <2>2, <2>4, PlacerOnly
<1> QED BY <1>2, <1>3, <1>4

\* A placement: the seconds of the new row are owed to its tail, unless another placer
\* was first.
LEMMA RowPlaced == ASSUME LedgerInv, NEW p \in {"submit", "loop"}, LeaseAndSubmit(p) PROVE LedgerInv'
<1>0. PICK j, t, n : j = placer[p].job /\ t = placer[p].to /\ n = placer[p].sec
  OBVIOUS
<1>1. LedgerOK /\ RowsSit /\ PlacersSit /\ WalkSame /\ WalkKeeps(j)
  BY WalkUnchanged, SameKeeps DEF LedgerInv, LeaseAndSubmit
<1>2. placer[p].at = "lease" /\ j \in PJobs /\ t \in PWorkers /\ n \in Nat /\ UNCHANGED <<tail, drain, estimate, skewed>>
  BY <1>0, <1>1 DEF LeaseAndSubmit, PlacersSit, LedgerOK, PlacerRec, Placers
<1>3. CASE prow[j].at = "global"
  <2>1. /\ prow' = [prow EXCEPT ![j].at = t, ![j].sec = n]
        /\ placer' = [placer EXCEPT ![p].at = "credit"]
    BY <1>0, <1>3 DEF LeaseAndSubmit
  <2>2. prow[j].st = "free" /\ "global" \notin PWorkers /\ \A w \in PWorkers : j \notin DOMAIN estimate[w].new
    BY <1>1, <1>2, <1>3 DEF RowsSit, LedgerOK, RowRec
  <2>3. PICK a : a = [prow[j] EXCEPT !.at = t]
    OBVIOUS
  <2>4. PICK r : r = [a EXCEPT !.sec = n]
    OBVIOUS
  <2>5. prow' = [prow EXCEPT ![j] = r]
    BY <2>1, <2>3, <2>4
  <2>6. r \in RowRec /\ r.at = t /\ r.st = "free" /\ r.sec = n
    <3>1. prow[j] \in RowRec
      BY <1>1, <1>2 DEF LedgerOK
    <3>2. a \in RowRec /\ a.at = t /\ a.st = prow[j].st
      BY <1>2, <2>3, <3>1 DEF RowRec, Places
    <3> QED BY <1>2, <2>2, <2>4, <3>2 DEF RowRec
  <2>7. PICK c : c = [placer[p] EXCEPT !.at = "credit"]
    OBVIOUS
  <2>8. c \in PlacerRec /\ c.at = "credit" /\ c.job = j /\ c.to = t /\ c.sec = n
    BY <1>0, <1>1, <2>7 DEF LedgerOK, PlacerRec, Placers
  <2>9. /\ placer' \in [Placers -> PlacerRec] /\ placer'[p] = c
        /\ \A q \in Placers \ {p} : placer'[q] = placer[q]
    <3>1. placer' = [placer EXCEPT ![p] = c]
      BY <2>1, <2>7
    <3> QED BY <1>1, <2>8, <3>1 DEF LedgerOK, Placers
  <2>10. PlacersSit'
    BY <1>1, <1>2, <2>8, <2>9 DEF PlacersSit, Placers
  <2>11. LedgerOK' /\ prow'[j] = r /\ \A i \in PJobs \ {j} : prow'[i] = prow[i]
    <3>1. tail' \in [PWorkers -> TailRec] /\ drain' \in [PWorkers -> DrainRec] /\ skewed' \subseteq PWorkers
      BY <1>1, <1>2 DEF LedgerOK
    <3> QED BY <1>1, <1>2, <2>5, <2>6, <2>9, <3>1, RowTypes
  <2>12. RowsSit'
    <3>1. \A u \in PWorkers : drain'[u] # NoDrain => drain'[u].job \in PJobs
      BY <1>1, <1>2 DEF RowsSit
    <3>2. \A u \in PWorkers : j \notin DOMAIN estimate'[u].new
      BY <1>2, <2>2
    <3> QED BY <1>1, <1>2, <2>5, <2>6, <3>1, <3>2, RowSits
  <2>13. ASSUME NEW w \in PWorkers
         PROVE  /\ Planned(w)' = Planned(w) + (IF w = t THEN n ELSE 0)
                /\ Expected(w)' = Expected(w) + (IF w = t THEN n ELSE 0)
                /\ Owed(w)' = Owed(w) + (IF w = t THEN n ELSE 0)
                /\ Taken("loop", w)' = Taken("loop", w) /\ Taken("operator", w)' = Taken("operator", w)
                /\ Gone(w)' = Gone(w) /\ (HoldsNoLess(w) => HoldsNoLess(w)')
                /\ Numbers(w)
    <3>1. Balanced(w, j) /\ Numbers(w) /\ Numbers(w)'
      BY <1>1, <1>2, <2>11, RowMoves, NumbersNow, NumbersThen
    <3>2. w # "global" /\ ~ Counts(w, j) /\ (Counts(w, j)' <=> w = t)
      BY <1>3, <2>2, <2>6, <2>11 DEF Counts
    <3>3. j \notin DOMAIN estimate'[w].new /\ prow'[j].sec = n
      BY <1>2, <2>2, <2>6, <2>11
    <3>4. Weight(w)[j] = 0 /\ Wanted(w)[j] = 0
      BY <1>2, <3>2, Weighs
    <3>5. Weight(w)'[j] = (IF w = t THEN n ELSE 0) /\ Wanted(w)'[j] = (IF w = t THEN n ELSE 0)
      BY <1>2, <3>2, <3>3, WeighsThen
    <3>6. Planned(w)' = Planned(w) + (IF w = t THEN n ELSE 0) /\ Expected(w)' = Expected(w) + (IF w = t THEN n ELSE 0)
      BY <1>2, <3>1, <3>4, <3>5 DEF Balanced, Numbers
    <3>7. Due(p, w) = 0 /\ Due(p, w)' = (IF w = t THEN n ELSE 0)
      BY <1>2, <2>8, <2>9 DEF Due
    <3>8. \A q \in Placers \ {p} : Due(q, w)' = Due(q, w) /\ Due(q, w) \in Nat
      BY <1>1, <2>9 DEF Due, LedgerOK, PlacerRec
    <3>9. Owed(w)' = Owed(w) + (IF w = t THEN n ELSE 0)
      BY <1>2, <3>7, <3>8 DEF Owed, Placers
    <3>10. Taken("loop", w)' = Taken("loop", w) /\ Taken("operator", w)' = Taken("operator", w)
      BY <1>2, <2>8, <2>9 DEF Taken, Placers
    <3>11. Gone(w)' = Gone(w) /\ (HoldsNoLess(w) => HoldsNoLess(w)')
      BY <1>1, <1>2, <2>2, <2>6, <2>11, HoldsKept
    <3> QED BY <3>1, <3>6, <3>9, <3>10, <3>11
  <2>14. ASSUME NEW w \in PWorkers \ skewed PROVE Covered(w)'
    <3>1. Covered(w) /\ tail' = tail /\ estimate' = estimate
      BY <1>2 DEF LedgerInv
    <3> QED BY <1>2, <2>13, <3>1 DEF Covered, Numbers
  <2>15. ASSUME NEW w \in PWorkers PROVE Foreseen(w)'
    <3>1. Foreseen(w) /\ estimate' = estimate
      BY <1>2 DEF LedgerInv
    <3> QED BY <1>2, <2>13, <3>1 DEF Foreseen, Numbers
  <2> QED BY <1>2, <2>10, <2>11, <2>12, <2>14, <2>15 DEF LedgerInv
<1>4. CASE prow[j].at # "global"
  <2>1. placer' = [placer EXCEPT ![p] = Nobody] /\ UNCHANGED <<prow, tail, drain, estimate, skewed>>
    BY <1>0, <1>2, <1>4 DEF LeaseAndSubmit
  <2>2. PICK c : c = Nobody
    OBVIOUS
  <2>3. c \in PlacerRec /\ c.at = "idle" /\ placer' = [placer EXCEPT ![p] = c]
    BY <2>1, <2>2, NobodyOK
  <2>4. /\ placer' \in [Placers -> PlacerRec] /\ PlacersSit'
        /\ \A u : Taken("loop", u)' = Taken("loop", u) /\ Taken("operator", u)' = Taken("operator", u) /\ Owed(u)' = Owed(u)
    BY <1>1, <1>2, <2>3, PlacerTurns DEF Placers
  <2> QED BY <2>1, <2>4, PlacerOnly
<1> QED BY <1>3, <1>4

\* The credit of a placement: what was owed to the tail is on it.
LEMMA TailCredited == ASSUME LedgerInv, NEW p \in {"submit", "loop"}, CreditPlacement(p) PROVE LedgerInv'
<1> DEFINE t == placer[p].to
           n == placer[p].sec
<1>1. LedgerOK /\ RowsSit /\ PlacersSit
  BY DEF LedgerInv
<1>2. /\ placer[p].at = "credit" /\ t \in PWorkers /\ n \in Nat /\ placer[p].job \in PJobs
      /\ UNCHANGED <<prow, drain, skewed>> /\ placer' = [placer EXCEPT ![p] = Nobody] /\ Overlaps(t)
  BY <1>1 DEF CreditPlacement, PlacersSit, LedgerOK, PlacerRec, Placers
<1>3. WalkSame
  BY <1>1, <1>2, KeepsOverlaps
<1>4. tail[t].sec \in Nat /\ Max({0, tail[t].sec + n}) = tail[t].sec + n
  <2>1. tail[t].sec \in Nat /\ tail[t].sec + n \in Int
    BY <1>1, <1>2 DEF LedgerOK, TailRec
  <2> QED BY <1>2, <2>1, ClampAtZero
<1>5. /\ tail' \in [PWorkers -> TailRec] /\ tail'[t].sec = tail[t].sec + n
      /\ \A w \in PWorkers \ {t} : tail'[w] = tail[w]
  <2>1. PICK m, k : tail' = [[tail EXCEPT ![t].sec = k] EXCEPT ![t].model = m] /\ k = tail[t].sec + n
                    /\ m = prow[placer[p].job].model
    BY <1>4 DEF CreditPlacement, creditTail, AddTail
  <2>2. k \in Nat /\ m \in PModels \cup {"none"}
    BY <1>1, <1>2, <1>4, <2>1 DEF LedgerOK, RowRec
  <2>3. PICK e : e = [tail[t] EXCEPT !.sec = k]
    OBVIOUS
  <2>4. e \in TailRec /\ e.sec = k
    <3>1. tail[t] \in TailRec
      BY <1>1, <1>2 DEF LedgerOK
    <3> QED BY <2>2, <2>3, <3>1 DEF TailRec
  <2>5. PICK f : f = [e EXCEPT !.model = m]
    OBVIOUS
  <2>6. f \in TailRec /\ f.sec = k
    BY <2>2, <2>4, <2>5 DEF TailRec
  <2>7. PICK x : x = [tail EXCEPT ![t] = e]
    OBVIOUS
  <2>8. tail' = [x EXCEPT ![t].model = m]
    BY <2>1, <2>3, <2>7
  <2>9. x[t] = e /\ x \in [PWorkers -> TailRec] /\ \A w \in PWorkers \ {t} : x[w] = tail[w]
    BY <1>1, <1>2, <2>4, <2>7 DEF LedgerOK
  <2>10. tail' = [x EXCEPT ![t] = f]
    BY <2>5, <2>8, <2>9
  <2>11. tail'[t] = f /\ tail' \in [PWorkers -> TailRec] /\ \A w \in PWorkers \ {t} : tail'[w] = x[w]
    BY <1>2, <2>6, <2>9, <2>10
  <2> QED BY <2>1, <2>6, <2>9, <2>11
<1>6. placer' \in [Placers -> PlacerRec] /\ placer'[p] = Nobody /\ \A q \in Placers \ {p} : placer'[q] = placer[q]
  BY <1>1, <1>2, NobodyOK DEF LedgerOK, Placers
<1>7. LedgerOK'
  BY <1>1, <1>2, <1>3, <1>5, <1>6 DEF LedgerOK, WalkSame
<1>8. RowsSit'
  BY <1>1, <1>2, <1>3, SitsStill
<1>9. PlacersSit'
  BY <1>1, <1>6, NobodyOK DEF PlacersSit, Placers
<1>10. ASSUME NEW w \in PWorkers
       PROVE  /\ Planned(w)' = Planned(w) /\ Expected(w)' = Expected(w) /\ Numbers(w)
              /\ Taken("loop", w)' = Taken("loop", w) /\ Taken("operator", w)' = Taken("operator", w)
              /\ Gone(w)' = Gone(w) /\ HoldsNoLess(w)' = HoldsNoLess(w)
              /\ Owed(w)' + (IF w = t THEN n ELSE 0) = Owed(w) /\ Owed(w)' \in Nat
  <2>1. Planned(w)' = Planned(w) /\ Expected(w)' = Expected(w)
    BY <1>2, <1>3, SumsKept
  <2>2. Taken("loop", w)' = Taken("loop", w) /\ Taken("operator", w)' = Taken("operator", w)
    BY <1>2, <1>6, NobodyOK DEF Taken, Placers
  <2>3. Gone(w)' = Gone(w) /\ HoldsNoLess(w)' = HoldsNoLess(w)
    BY <1>2, HoldsStill
  <2>4. Due(p, w) = (IF w = t THEN n ELSE 0) /\ Due(p, w)' = 0
    BY <1>2, <1>6, NobodyOK DEF Due
  <2>5. \A q \in Placers \ {p} : Due(q, w)' = Due(q, w) /\ Due(q, w) \in Nat
    BY <1>1, <1>6 DEF Due, LedgerOK, PlacerRec
  <2>6. Owed(w)' + (IF w = t THEN n ELSE 0) = Owed(w) /\ Owed(w)' \in Nat
    BY <1>2, <2>4, <2>5 DEF Owed, Placers
  <2> QED BY <1>1, <2>1, <2>2, <2>3, <2>6, NumbersNow
<1> HIDE DEF t, n
<1>11. ASSUME NEW w \in PWorkers \ skewed PROVE Covered(w)'
  <2>1. Covered(w) /\ (estimate'[w].at = "idle" <=> estimate[w].at = "idle")
    BY <1>3 DEF LedgerInv, WalkSame
  <2>2. tail'[w].sec = tail[w].sec + (IF w = t THEN n ELSE 0)
    BY <1>2, <1>5, <1>10 DEF Numbers
  <2> QED BY <1>2, <1>10, <2>1, <2>2 DEF Covered, Numbers
<1>12. ASSUME NEW w \in PWorkers PROVE Foreseen(w)'
  <2>1. /\ Foreseen(w) /\ (estimate'[w].at = "write" => estimate[w].at = "write") /\ estimate'[w].sum = estimate[w].sum
        /\ (w = t => estimate'[w].at # "write")
    BY <1>1, <1>2, <1>3, KeepsOverlaps DEF LedgerInv, WalkSame
  <2> QED BY <1>2, <1>10, <2>1 DEF Foreseen, Numbers
<1> QED BY <1>2, <1>7, <1>8, <1>9, <1>11, <1>12 DEF LedgerInv

\* The debit of a theft or an eviction: what was taken comes off the tail that it was on.
LEMMA TailDebited == ASSUME LedgerInv, NEW p \in {"loop", "operator"}, Debit(p) PROVE LedgerInv'
<1> DEFINE v == placer[p].from
           n == placer[p].sec
<1>1. LedgerOK /\ RowsSit /\ PlacersSit /\ WalkSame
  BY WalkUnchanged DEF LedgerInv, Debit
<1>2. /\ placer[p].at = "debit" /\ v \in PWorkers /\ n \in Nat
      /\ UNCHANGED <<prow, drain, estimate, skewed>> /\ tail' = debitTail(v, n)
  BY <1>1 DEF Debit, PlacersSit, LedgerOK, PlacerRec, Placers
<1>3. tail[v].sec <= tail'[v].sec + n /\ tail' \in [PWorkers -> TailRec] /\ \A w \in PWorkers \ {v} : tail'[w] = tail[w]
  BY <1>1, <1>2, DebitTypes
<1>4. PICK c : c = [placer[p] EXCEPT !.at = "credit"]
  OBVIOUS
<1>5. c \in PlacerRec /\ c.at = "credit" /\ c.job = placer[p].job /\ c.to = placer[p].to /\ c.sec = n
  BY <1>1, <1>4 DEF LedgerOK, PlacerRec, Placers
<1>6. PICK d : d = IF p = "loop" THEN c ELSE Nobody
  OBVIOUS
<1>7. placer' = [placer EXCEPT ![p] = d]
  <2>1. placer[p].to = "none" <=> p = "operator"
    BY <1>1, <1>2 DEF PlacersSit
  <2> QED BY <1>4, <1>6, <2>1 DEF Debit
<1>8. /\ placer' \in [Placers -> PlacerRec] /\ placer'[p] = d /\ \A q \in Placers \ {p} : placer'[q] = placer[q]
  BY <1>1, <1>5, <1>6, <1>7, NobodyOK DEF LedgerOK, Placers
<1>9. PlacersSit'
  BY <1>1, <1>2, <1>5, <1>6, <1>8, NobodyOK DEF PlacersSit, Placers
<1>10. LedgerOK'
  BY <1>1, <1>2, <1>3, <1>8 DEF LedgerOK, WalkSame
<1>11. RowsSit'
  BY <1>1, <1>2, SitsStill
<1>12. ASSUME NEW w \in PWorkers
       PROVE  /\ Planned(w)' = Planned(w) /\ Expected(w)' = Expected(w) /\ Numbers(w) /\ tail'[w].sec \in Nat
              /\ Taken(p, w)' = 0 /\ Taken(p, w) = (IF w = v THEN n ELSE 0)
              /\ \A q \in Placers \ {p} : Taken(q, w)' = Taken(q, w)
              /\ Gone(w)' = Gone(w) /\ HoldsNoLess(w)' = HoldsNoLess(w) /\ Owed(w)' = Owed(w)
  <2>1. Planned(w)' = Planned(w) /\ Expected(w)' = Expected(w)
    BY <1>1, <1>2, SumsKept
  <2>2. Taken(p, w)' = 0 /\ Taken(p, w) = (IF w = v THEN n ELSE 0)
    BY <1>2, <1>5, <1>6, <1>8, NobodyOK DEF Taken
  <2>3. \A q \in Placers \ {p} : Taken(q, w)' = Taken(q, w)
    BY <1>8 DEF Taken
  <2>4. Gone(w)' = Gone(w) /\ HoldsNoLess(w)' = HoldsNoLess(w)
    BY <1>2, HoldsStill
  <2>5. Owed(w)' = Owed(w)
    BY <1>2, <1>5, <1>6, <1>8, NobodyOK DEF Owed, Due, Placers
  <2> QED BY <1>1, <1>3, <2>1, <2>2, <2>3, <2>4, <2>5, NumbersNow DEF TailRec
<1> HIDE DEF v, n
<1>13. ASSUME NEW w \in PWorkers \ skewed PROVE Covered(w)'
  <2>1. Covered(w) /\ estimate' = estimate
    BY <1>2 DEF LedgerInv
  <2>2. tail[w].sec <= tail'[w].sec + (IF w = v THEN n ELSE 0)
    BY <1>2, <1>3, <1>12
  <2>3. Taken("loop", w)' + Taken("operator", w)' + (IF w = v THEN n ELSE 0) = Taken("loop", w) + Taken("operator", w)
    BY <1>2, <1>12 DEF Placers, Numbers
  <2>4. Taken("loop", w)' \in Nat /\ Taken("operator", w)' \in Nat
    BY <1>10, NumbersThen DEF Numbers
  <2> QED BY <1>2, <1>12, <2>1, <2>2, <2>3, <2>4 DEF Covered, Numbers
<1>14. ASSUME NEW w \in PWorkers PROVE Foreseen(w)'
  <2>1. Foreseen(w) /\ estimate' = estimate
    BY <1>2 DEF LedgerInv
  <2> QED BY <1>12, <2>1 DEF Foreseen
<1> QED BY <1>2, <1>9, <1>10, <1>11, <1>13, <1>14 DEF LedgerInv

\* A theft: the row has left its queue and its seconds not yet the tail, and the thief's
\* tail is owed them; the row weighs what was read, or one of the two queues is skewed.
LEMMA RowMoved == ASSUME LedgerInv, MoveTo PROVE LedgerInv'
<1>0. PICK j, v, t, n : j = placer["loop"].job /\ v = placer["loop"].from /\ t = placer["loop"].to /\ n = placer["loop"].sec
  OBVIOUS
<1>1. LedgerOK /\ RowsSit /\ PlacersSit
  BY DEF LedgerInv
<1>2. /\ placer["loop"].at = "move" /\ j \in PJobs /\ v \in PWorkers /\ t \in PWorkers /\ n \in Nat
      /\ prow[j].sec \in Nat /\ UNCHANGED <<tail, drain>>
  BY <1>0, <1>1 DEF MoveTo, PlacersSit, LedgerOK, PlacerRec, Placers, RowRec
<1>3. CASE StillThere(placer["loop"]) /\ prow[j].st = "free"
  <2>1. /\ prow' = [prow EXCEPT ![j] = Onto(j, t)]
        /\ placer' = [placer EXCEPT !["loop"].at = "debit"]
        /\ Leaves(j, IF prow[j].sec > n THEN {t} ELSE {})
        /\ skewed' = skewed \cup (IF prow[j].sec < n THEN {v} ELSE {}) \cup (IF prow[j].sec > n THEN {t} ELSE {})
    BY <1>0, <1>3 DEF MoveTo
  <2>2. prow[j].at = v
    BY <1>0, <1>3 DEF StillThere
  <2>3. /\ WalkKeeps(j)
        /\ \A w \in PWorkers : j \notin DOMAIN estimate'[w].new
                               /\ (w = t /\ prow[j].sec > n => estimate'[w].at # "write")
    BY <1>1, <1>2, <2>1, KeepsLeaves
  <2>4. PICK r : r = Onto(j, t)
    OBVIOUS
  <2>5. prow' = [prow EXCEPT ![j] = r] /\ r \in RowRec /\ r.at = t /\ r.st = "free" /\ r.sec = prow[j].sec
    <3>1. Onto(j, t) \in RowRec /\ Onto(j, t).at = t /\ Onto(j, t).st = prow[j].st /\ Onto(j, t).sec = prow[j].sec
      BY <1>1, <1>2, RowForms
    <3> QED BY <1>3, <2>1, <2>4, <3>1
  <2>6. PICK c : c = [placer["loop"] EXCEPT !.at = "debit"]
    OBVIOUS
  <2>7. c \in PlacerRec /\ c.at = "debit" /\ c.job = j /\ c.to = t /\ c.from = v /\ c.sec = n
    BY <1>0, <1>1, <2>6 DEF LedgerOK, PlacerRec, Placers
  <2>8. placer' \in [Placers -> PlacerRec] /\ placer'["loop"] = c /\ \A q \in Placers \ {"loop"} : placer'[q] = placer[q]
    <3>1. placer' = [placer EXCEPT !["loop"] = c]
      BY <2>1, <2>6
    <3> QED BY <1>1, <2>7, <3>1 DEF LedgerOK, Placers
  <2>9. PlacersSit'
    BY <1>1, <1>2, <2>7, <2>8 DEF PlacersSit, Placers
  <2>10. LedgerOK' /\ prow'[j] = r /\ \A i \in PJobs \ {j} : prow'[i] = prow[i]
    <3>1. tail' \in [PWorkers -> TailRec] /\ drain' \in [PWorkers -> DrainRec] /\ skewed' \subseteq PWorkers
      BY <1>1, <1>2, <2>1 DEF LedgerOK
    <3> QED BY <1>1, <1>2, <2>3, <2>5, <2>8, <3>1, RowTypes
  <2>11. RowsSit'
    <3>1. \A u \in PWorkers : drain'[u] # NoDrain => drain'[u].job \in PJobs
      BY <1>1, <1>2 DEF RowsSit
    <3> QED BY <1>1, <1>2, <2>3, <2>5, <3>1, RowSits
  <2>12. ASSUME NEW u \in PWorkers
         PROVE  /\ Planned(u)' + (IF u = v THEN prow[j].sec ELSE 0) = Planned(u) + (IF u = t THEN prow[j].sec ELSE 0)
                /\ Expected(u)' <= Expected(u) + (IF u = t THEN prow[j].sec ELSE 0)
                /\ Taken("loop", u)' = Taken("loop", u) + (IF u = v THEN n ELSE 0)
                /\ Taken("operator", u)' = Taken("operator", u)
                /\ Owed(u)' = Owed(u) + (IF u = t THEN n ELSE 0)
                /\ Gone(u)' = Gone(u) /\ (HoldsNoLess(u) => HoldsNoLess(u)')
                /\ Numbers(u) /\ Planned(u)' \in Nat /\ Expected(u)' \in Nat
    <3>1. Balanced(u, j) /\ Numbers(u) /\ Numbers(u)'
      BY <1>1, <1>2, <2>3, <2>10, RowMoves, NumbersNow, NumbersThen
    <3>2. (Counts(u, j) <=> u = v) /\ (Counts(u, j)' <=> u = t)
      BY <1>3, <2>2, <2>5, <2>10 DEF Counts
    <3>3. Weight(u)[j] = (IF u = v THEN prow[j].sec ELSE 0) /\ Wanted(u)[j] \in Nat
      BY <1>2, <3>1, <3>2, Weighs DEF Numbers
    <3>4. Weight(u)'[j] = (IF u = t THEN prow[j].sec ELSE 0) /\ Wanted(u)'[j] = (IF u = t THEN prow[j].sec ELSE 0)
      BY <1>2, <2>3, <2>5, <2>10, <3>2, WeighsThen
    <3>5. /\ Planned(u)' + (IF u = v THEN prow[j].sec ELSE 0) = Planned(u) + (IF u = t THEN prow[j].sec ELSE 0)
          /\ Expected(u)' + Wanted(u)[j] = Expected(u) + (IF u = t THEN prow[j].sec ELSE 0)
          /\ Planned(u)' \in Nat /\ Expected(u)' \in Nat
      BY <3>1, <3>3, <3>4 DEF Balanced, Numbers
    <3>6. Expected(u)' <= Expected(u) + (IF u = t THEN prow[j].sec ELSE 0)
      BY <1>2, <3>1, <3>3, <3>5 DEF Numbers
    <3>7. Taken("loop", u) = 0 /\ Taken("loop", u)' = (IF u = v THEN n ELSE 0) /\ Taken("operator", u)' = Taken("operator", u)
      BY <1>2, <2>7, <2>8 DEF Taken, Placers
    <3>8. Due("loop", u) = 0 /\ Due("loop", u)' = (IF u = t THEN n ELSE 0) /\ Due("submit", u)' = Due("submit", u)
          /\ Due("submit", u) \in Nat
      BY <1>1, <1>2, <2>7, <2>8 DEF Due, Placers, LedgerOK, PlacerRec
    <3>9. Owed(u)' = Owed(u) + (IF u = t THEN n ELSE 0)
      BY <1>2, <3>8 DEF Owed
    <3>10. Gone(u)' = Gone(u) /\ (HoldsNoLess(u) => HoldsNoLess(u)')
      BY <1>1, <1>2, <1>3, <2>5, <2>10, HoldsKept
    <3> QED BY <1>2, <3>1, <3>5, <3>6, <3>7, <3>9, <3>10
  <2>13. ASSUME NEW u \in PWorkers \ skewed' PROVE Covered(u)'
    <3>1. Covered(u) /\ tail' = tail /\ (estimate'[u].at = "idle" <=> estimate[u].at = "idle")
      BY <1>2, <2>1, <2>3 DEF LedgerInv, WalkKeeps
    <3>2. (u = v => prow[j].sec >= n) /\ (u = t => prow[j].sec <= n)
      BY <1>2, <2>1
    <3> QED BY <1>2, <2>12, <3>1, <3>2 DEF Covered, Numbers
  <2>14. ASSUME NEW u \in PWorkers PROVE Foreseen(u)'
    <3>1. /\ Foreseen(u) /\ (estimate'[u].at = "write" => estimate[u].at = "write") /\ estimate'[u].sum = estimate[u].sum
          /\ (u = t /\ prow[j].sec > n => estimate'[u].at # "write")
      BY <2>3 DEF LedgerInv, WalkKeeps
    <3> QED BY <1>2, <2>12, <3>1 DEF Foreseen, Numbers
  <2> QED BY <2>9, <2>10, <2>11, <2>13, <2>14 DEF LedgerInv
<1>4. CASE ~ (StillThere(placer["loop"]) /\ prow[j].st = "free")
  <2>1. placer' = [placer EXCEPT !["loop"] = Nobody] /\ UNCHANGED <<prow, tail, drain, estimate, skewed>>
    BY <1>0, <1>2, <1>4 DEF MoveTo
  <2>2. PICK c : c = Nobody
    OBVIOUS
  <2>3. c \in PlacerRec /\ c.at = "idle" /\ placer' = [placer EXCEPT !["loop"] = c]
    BY <2>1, <2>2, NobodyOK
  <2>4. /\ placer' \in [Placers -> PlacerRec] /\ PlacersSit'
        /\ \A u : Taken("loop", u)' = Taken("loop", u) /\ Taken("operator", u)' = Taken("operator", u) /\ Owed(u)' = Owed(u)
    BY <1>1, <1>2, <2>3, PlacerTurns DEF Placers
  <2> QED BY <2>1, <2>4, PlacerOnly
<1> QED BY <1>3, <1>4

\* An eviction: the row has left its queue and its seconds not yet the tail, unless there is
\* no row any more, or a lighter or a leased one, which leaves the queue skewed.
LEMMA RowDeleted == ASSUME LedgerInv, DeleteAndReleaseLease PROVE LedgerInv'
<1>0. PICK j, v, n : j = placer["operator"].job /\ v = placer["operator"].from /\ n = placer["operator"].sec
  OBVIOUS
<1>1. LedgerOK /\ RowsSit /\ PlacersSit
  BY DEF LedgerInv
<1>2. /\ placer["operator"].at = "move" /\ placer["operator"].to = "none" /\ j \in PJobs /\ v \in PWorkers /\ n \in Nat
      /\ prow[j].sec \in Nat /\ UNCHANGED <<tail, drain>>
      /\ placer' = [placer EXCEPT !["operator"].at = "debit"]
      /\ skewed' = IF StillThere(placer["operator"]) /\ prow[j].st = "free" /\ prow[j].sec >= n
                   THEN skewed ELSE skewed \cup {v}
  BY <1>0, <1>1 DEF DeleteAndReleaseLease, PlacersSit, LedgerOK, PlacerRec, Placers, RowRec
<1>3. PICK c : c = [placer["operator"] EXCEPT !.at = "debit"]
  OBVIOUS
<1>4. c \in PlacerRec /\ c.at = "debit" /\ c.job = j /\ c.to = "none" /\ c.from = v /\ c.sec = n
  BY <1>0, <1>1, <1>2, <1>3 DEF LedgerOK, PlacerRec, Placers
<1>5. placer' \in [Placers -> PlacerRec] /\ placer'["operator"] = c /\ \A q \in Placers \ {"operator"} : placer'[q] = placer[q]
  <2>1. placer' = [placer EXCEPT !["operator"] = c]
    BY <1>2, <1>3
  <2> QED BY <1>1, <1>4, <2>1 DEF LedgerOK, Placers
<1>6. PlacersSit'
  BY <1>1, <1>2, <1>4, <1>5 DEF PlacersSit, Placers
<1>7. ASSUME NEW u \in PWorkers
      PROVE  /\ Taken("operator", u) = 0 /\ Taken("operator", u)' = (IF u = v THEN n ELSE 0)
             /\ Taken("loop", u)' = Taken("loop", u) /\ Owed(u)' = Owed(u)
  <2>1. placer'["loop"] = placer["loop"] /\ placer'["submit"] = placer["submit"]
    BY <1>5 DEF Placers
  <2>2. Taken("operator", u) = 0
    BY <1>2 DEF Taken
  <2>3. Taken("operator", u)' = (IF u = v THEN n ELSE 0)
    BY <1>4, <1>5 DEF Taken
  <2>4. Taken("loop", u)' = Taken("loop", u) /\ Owed(u)' = Owed(u)
    BY <2>1 DEF Taken, Owed, Due
  <2> QED BY <2>2, <2>3, <2>4
<1>8. skewed \subseteq skewed' /\ skewed' \subseteq PWorkers
  BY <1>1, <1>2 DEF LedgerOK
<1>9. CASE StillThere(placer["operator"])
  <2>1. prow' = [prow EXCEPT ![j] = ToRow(j, "global")] /\ Leaves(j, {})
    BY <1>0, <1>9 DEF DeleteAndReleaseLease
  <2>2. prow[j].at = v
    BY <1>0, <1>9 DEF StillThere
  <2>3. WalkKeeps(j) /\ \A w \in PWorkers : j \notin DOMAIN estimate'[w].new
    BY <1>1, <1>2, <2>1, KeepsLeaves
  <2>4. PICK r : r = ToRow(j, "global")
    OBVIOUS
  <2>5. prow' = [prow EXCEPT ![j] = r] /\ r \in RowRec /\ r.at = "global" /\ r.st = "free" /\ "global" \notin PWorkers
    BY <1>1, <1>2, <2>1, <2>4, RowForms
  <2>6. LedgerOK' /\ prow'[j] = r /\ \A i \in PJobs \ {j} : prow'[i] = prow[i]
    <3>1. tail' \in [PWorkers -> TailRec] /\ drain' \in [PWorkers -> DrainRec]
      BY <1>1, <1>2 DEF LedgerOK
    <3> QED BY <1>1, <1>2, <1>5, <1>8, <2>3, <2>5, <3>1, RowTypes
  <2>7. RowsSit'
    <3>1. \A u \in PWorkers : drain'[u] # NoDrain => drain'[u].job \in PJobs
      BY <1>1, <1>2 DEF RowsSit
    <3> QED BY <1>1, <1>2, <2>3, <2>5, <3>1, RowSits
  <2>8. ASSUME NEW u \in PWorkers
        PROVE  /\ Planned(u)' + Weight(u)[j] = Planned(u) /\ Expected(u)' <= Expected(u)
               /\ Numbers(u) /\ Planned(u)' \in Nat /\ Expected(u)' \in Nat
    <3>1. Balanced(u, j) /\ Numbers(u) /\ Numbers(u)'
      BY <1>1, <1>2, <2>3, <2>6, RowMoves, NumbersNow, NumbersThen
    <3>2. ~ Counts(u, j)'
      BY <2>5, <2>6 DEF Counts
    <3>3. Weight(u)'[j] = 0 /\ Wanted(u)'[j] = 0
      BY <1>2, <3>2, WeighsThen
    <3>4. Planned(u)' \in Nat /\ Expected(u)' \in Nat
      BY <3>1 DEF Numbers
    <3> QED BY <1>2, <3>1, <3>3, <3>4 DEF Balanced, Numbers
  <2>9. ASSUME NEW u \in PWorkers \ skewed' PROVE Covered(u)'
    <3>1. Covered(u) /\ tail' = tail /\ (estimate'[u].at = "idle" <=> estimate[u].at = "idle")
      BY <1>2, <1>8, <2>3 DEF LedgerInv, WalkKeeps
    <3>2. u = v => prow[j].st = "free" /\ prow[j].sec >= n
      BY <1>2
    <3>3. ~ (prow[j].at = u /\ prow[j].st = "leased") /\ ~ (prow'[j].at = u /\ prow'[j].st = "leased")
      BY <2>2, <2>5, <2>6, <3>2
    <3>4. drain'[u] = drain[u]
      BY <1>2
    <3>5. Gone(u)' = Gone(u) /\ (HoldsNoLess(u) => HoldsNoLess(u)')
      BY <1>1, <1>2, <2>6, <3>3, <3>4, HoldsKept
    <3>6. Weight(u)[j] >= (IF u = v THEN n ELSE 0)
      <4>1. u = v => Counts(u, j)
        BY <2>2, <3>2 DEF Counts
      <4> QED BY <1>2, <2>8, <3>2, <4>1, Weighs DEF Numbers
    <3> QED BY <1>2, <1>7, <2>8, <3>1, <3>5, <3>6 DEF Covered, Numbers
  <2>10. ASSUME NEW u \in PWorkers PROVE Foreseen(u)'
    <3>1. Foreseen(u) /\ (estimate'[u].at = "write" => estimate[u].at = "write") /\ estimate'[u].sum = estimate[u].sum
      BY <2>3 DEF LedgerInv, WalkKeeps
    <3> QED BY <1>7, <2>8, <3>1 DEF Foreseen, Numbers
  <2> QED BY <1>6, <2>6, <2>7, <2>9, <2>10 DEF LedgerInv
<1>10. CASE ~ StillThere(placer["operator"])
  <2>1. UNCHANGED <<prow, estimate, tail, drain>> /\ v \in skewed'
    BY <1>0, <1>2, <1>10 DEF DeleteAndReleaseLease
  <2>2. WalkSame
    BY <1>1, <2>1, WalkUnchanged
  <2>3. LedgerOK'
    BY <1>1, <1>5, <1>8, <2>1, <2>2 DEF LedgerOK, WalkSame
  <2>4. RowsSit'
    BY <1>1, <2>1, <2>2, SitsStill
  <2>5. \A u \in PWorkers : Planned(u)' = Planned(u) /\ Expected(u)' = Expected(u)
    BY <2>1, <2>2, SumsKept
  <2>6. \A u \in PWorkers : Gone(u)' = Gone(u) /\ HoldsNoLess(u)' = HoldsNoLess(u)
    BY <2>1, HoldsStill
  <2>7. ASSUME NEW u \in PWorkers \ skewed' PROVE Covered(u)'
    <3>1. Covered(u) /\ u # v
      BY <1>8, <2>1 DEF LedgerInv
    <3> QED BY <1>7, <2>1, <2>5, <2>6, <3>1 DEF Covered
  <2>8. ASSUME NEW u \in PWorkers PROVE Foreseen(u)'
    <3>1. Foreseen(u)
      BY DEF LedgerInv
    <3> QED BY <1>7, <2>1, <2>5, <3>1 DEF Foreseen
  <2> QED BY <1>6, <2>3, <2>4, <2>7, <2>8 DEF LedgerInv
<1> QED BY <1>9, <1>10

\* A row that ends or goes back to the global queue takes its weight along; a drain that
\* held it still debits no more than that.
LEMMA RowAway ==
  ASSUME LedgerInv, NEW j \in PJobs, NEW p \in {"global", "over"},
         prow' = [prow EXCEPT ![j] = ToRow(j, p)], Leaves(j, {}), UNCHANGED <<tail, placer, skewed>>,
         drain' \in [PWorkers -> DrainRec], \A w \in PWorkers : drain'[w] = drain[w] \/ drain'[w] = NoDrain
  PROVE  LedgerInv'
<1>1. LedgerOK /\ RowsSit /\ PlacersSit
  BY DEF LedgerInv
<1>2. WalkKeeps(j) /\ \A w \in PWorkers : j \notin DOMAIN estimate'[w].new
  BY <1>1, KeepsLeaves
<1>3. PICK r : r = ToRow(j, p)
  OBVIOUS
<1>4. prow' = [prow EXCEPT ![j] = r] /\ r \in RowRec /\ r.at = p /\ r.st = "free" /\ p \notin PWorkers
  <2>1. ToRow(j, p) \in RowRec /\ ToRow(j, p).at = p /\ ToRow(j, p).st = "free"
    BY <1>1, RowForms
  <2> QED BY <1>3, <2>1
<1>5. LedgerOK' /\ prow'[j] = r /\ \A i \in PJobs \ {j} : prow'[i] = prow[i]
  <2>1. tail' \in [PWorkers -> TailRec] /\ placer' \in [Placers -> PlacerRec] /\ skewed' \subseteq PWorkers
    BY <1>1 DEF LedgerOK
  <2> QED BY <1>1, <1>2, <1>4, <2>1, RowTypes
<1>6. RowsSit'
  <2>1. \A u \in PWorkers : drain'[u] # NoDrain => drain'[u].job \in PJobs
    BY <1>1 DEF RowsSit
  <2> QED BY <1>1, <1>2, <1>4, <2>1, RowSits
<1>7. PlacersSit' /\ \A u : Taken("loop", u)' = Taken("loop", u) /\ Taken("operator", u)' = Taken("operator", u) /\ Owed(u)' = Owed(u)
  BY <1>1, PlacersStill
<1>8. ASSUME NEW u \in PWorkers
      PROVE  /\ Planned(u)' + Weight(u)[j] = Planned(u) /\ Expected(u)' <= Expected(u)
             /\ Numbers(u) /\ Planned(u)' \in Nat /\ Expected(u)' \in Nat /\ Gone(u)' \in Nat
  <2>1. Balanced(u, j) /\ Numbers(u) /\ Numbers(u)'
    BY <1>1, <1>2, <1>5, RowMoves, NumbersNow, NumbersThen
  <2>2. ~ Counts(u, j)'
    BY <1>4, <1>5 DEF Counts
  <2>3. Weight(u)'[j] = 0 /\ Wanted(u)'[j] = 0
    BY <2>2, WeighsThen
  <2>4. Planned(u)' \in Nat /\ Expected(u)' \in Nat /\ Gone(u)' \in Nat
    BY <2>1 DEF Numbers
  <2> QED BY <2>1, <2>3, <2>4 DEF Balanced, Numbers
<1>9. ASSUME NEW u \in PWorkers, HoldsNoLess(u)
      PROVE  Gone(u)' <= Gone(u) + Weight(u)[j] /\ HoldsNoLess(u)'
  <2>0. Gone(u) \in Nat /\ Weight(u)[j] \in Nat
    BY <1>8 DEF Numbers
  <2>1. CASE drain'[u] = NoDrain
    <3>1. Gone(u)' = 0 /\ HoldsNoLess(u)'
      BY <2>1 DEF Gone, HoldsNoLess, Holds, NoDrain
    <3> QED BY <2>0, <3>1
  <2>2. CASE drain'[u] = drain[u] /\ prow[j].at = u /\ prow[j].st = "leased"
    <3>1. Weight(u)[j] = prow[j].sec
      BY <2>2, Weighs DEF Counts
    <3>2. CASE drain[u] = NoDrain
      <4>1. Gone(u)' = 0 /\ HoldsNoLess(u)'
        BY <2>2, <3>2 DEF Gone, HoldsNoLess, Holds, NoDrain
      <4> QED BY <2>0, <4>1
    <3>3. CASE drain[u] # NoDrain /\ drain[u].job = j
      <4>1. Holds(u) /\ ~ Holds(u)'
        BY <1>4, <1>5, <2>2, <3>3 DEF Holds
      <4>2. drain[u].sec <= prow[j].sec /\ Gone(u)' = drain[u].sec /\ HoldsNoLess(u)'
        BY <1>9, <2>2, <3>3, <4>1 DEF HoldsNoLess, Gone
      <4>3. drain[u].sec \in Nat /\ prow[j].sec \in Nat
        BY <1>1 DEF LedgerOK, DrainRec, RowRec
      <4> QED BY <2>0, <3>1, <4>2, <4>3
    <3>4. CASE drain[u] # NoDrain /\ drain[u].job # j
      <4>1. prow'[drain[u].job] = prow[drain[u].job]
        BY <1>1, <1>5, <3>4 DEF RowsSit
      <4>2. Gone(u)' = Gone(u) /\ HoldsNoLess(u)'
        BY <1>9, <2>2, <4>1 DEF Gone, HoldsNoLess, Holds, NoDrain
      <4> QED BY <2>0, <4>2
    <3> QED BY <3>2, <3>3, <3>4
  <2>3. CASE drain'[u] = drain[u] /\ ~ (prow[j].at = u /\ prow[j].st = "leased")
    <3>1. Gone(u)' = Gone(u) /\ HoldsNoLess(u)'
      BY <1>1, <1>4, <1>5, <1>9, <2>3, HoldsKept
    <3> QED BY <2>0, <3>1
  <2> QED BY <2>1, <2>2, <2>3
<1>10. ASSUME NEW u \in PWorkers \ skewed' PROVE Covered(u)'
  <2>1. Covered(u) /\ tail' = tail /\ (estimate'[u].at = "idle" <=> estimate[u].at = "idle")
    BY <1>2 DEF LedgerInv, WalkKeeps
  <2> QED BY <1>7, <1>8, <1>9, <2>1 DEF Covered, Numbers
<1>11. ASSUME NEW u \in PWorkers PROVE Foreseen(u)'
  <2>1. Foreseen(u) /\ (estimate'[u].at = "write" => estimate[u].at = "write") /\ estimate'[u].sum = estimate[u].sum
    BY <1>2 DEF LedgerInv, WalkKeeps
  <2> QED BY <1>7, <1>8, <2>1 DEF Foreseen, Numbers
<1> QED BY <1>5, <1>6, <1>7, <1>10, <1>11 DEF LedgerInv

\* A drain lets go of its row: the job runs and the seconds leave the tail, or the row
\* waits on, or it was no longer there.
LEMMA LeaseEnds ==
  ASSUME LedgerInv, NEW w \in PWorkers, drain[w] # NoDrain, drain' = [drain EXCEPT ![w] = NoDrain],
         NEW t \in {"free", "running"},
         prow' = (IF Holds(w) THEN [prow EXCEPT ![drain[w].job].st = t] ELSE prow),
         (t = "free" /\ tail' = tail) \/ (t = "running" /\ tail' = debitTail(w, drain[w].sec)),
         UNCHANGED <<placer, estimate, skewed>>
  PROVE  LedgerInv'
<1>0. PICK j, n : j = drain[w].job /\ n = drain[w].sec
  OBVIOUS
<1>1. LedgerOK /\ RowsSit /\ PlacersSit /\ WalkSame /\ WalkKeeps(j)
  BY WalkUnchanged, SameKeeps DEF LedgerInv
<1>2. j \in PJobs /\ n \in Nat
  BY <1>0, <1>1 DEF LedgerOK, DrainRec, RowsSit
<1>3. /\ tail' \in [PWorkers -> TailRec] /\ \A u \in PWorkers \ {w} : tail'[u] = tail[u]
      /\ t = "free" => tail'[w] = tail[w]
      /\ t = "running" => tail[w].sec <= tail'[w].sec + n
  <2>1. CASE t = "free" /\ tail' = tail
    BY <1>1, <2>1 DEF LedgerOK
  <2>2. CASE t = "running" /\ tail' = debitTail(w, n)
    BY <1>1, <1>2, <2>2, DebitTypes
  <2> QED BY <1>0, <2>1, <2>2
<1>4. PICK r : r = IF Holds(w) THEN [prow[j] EXCEPT !.st = t] ELSE prow[j]
  OBVIOUS
<1>5. prow' = [prow EXCEPT ![j] = r]
  <2>1. CASE Holds(w)
    BY <1>0, <1>4, <2>1
  <2>2. CASE ~ Holds(w)
    BY <1>1, <1>2, <1>4, <2>2 DEF LedgerOK
  <2> QED BY <2>1, <2>2
<1>6. /\ r \in RowRec /\ r.at = prow[j].at /\ r.sec = prow[j].sec /\ r.st = (IF Holds(w) THEN t ELSE prow[j].st)
      /\ (Holds(w) => prow[j].at = w /\ prow[j].st = "leased")
  <2>1. CASE Holds(w)
    <3>1. r = [prow[j] EXCEPT !.st = t] /\ prow[j] \in RowRec
      BY <1>1, <1>2, <1>4, <2>1 DEF LedgerOK
    <3>2. r \in RowRec /\ r.at = prow[j].at /\ r.st = t /\ r.sec = prow[j].sec
      BY <3>1 DEF RowRec
    <3>3. prow[j].at = w /\ prow[j].st = "leased"
      BY <1>0, <2>1 DEF Holds
    <3> QED BY <2>1, <3>2, <3>3
  <2>2. CASE ~ Holds(w)
    BY <1>1, <1>2, <1>4, <2>2 DEF LedgerOK
  <2> QED BY <2>1, <2>2
<1>7. drain' \in [PWorkers -> DrainRec] /\ drain'[w] = NoDrain /\ \A u \in PWorkers \ {w} : drain'[u] = drain[u]
  <2>1. NoDrain \in DrainRec
    BY DEF NoDrain, DrainRec
  <2> QED BY <1>1, <2>1 DEF LedgerOK
<1>8. LedgerOK' /\ prow'[j] = r /\ \A i \in PJobs \ {j} : prow'[i] = prow[i]
  <2>1. placer' \in [Placers -> PlacerRec] /\ skewed' \subseteq PWorkers
    BY <1>1 DEF LedgerOK
  <2> QED BY <1>1, <1>2, <1>3, <1>5, <1>6, <1>7, <2>1, RowTypes
<1>9. RowsSit'
  <2>1. \A u \in PWorkers : drain'[u] # NoDrain => drain'[u].job \in PJobs
    BY <1>1, <1>7 DEF RowsSit
  <2>2. r.st # "free" => r.at \in PWorkers
    BY <1>1, <1>2, <1>6 DEF RowsSit
  <2> QED BY <1>1, <1>2, <1>5, <1>6, <2>1, <2>2, RowSits
<1>10. PlacersSit' /\ \A u : Taken("loop", u)' = Taken("loop", u) /\ Taken("operator", u)' = Taken("operator", u) /\ Owed(u)' = Owed(u)
  BY <1>1, PlacersStill
<1>11. ASSUME NEW u \in PWorkers
       PROVE  /\ Planned(u)' + (IF u = w /\ Holds(w) /\ t = "running" THEN prow[j].sec ELSE 0) = Planned(u)
              /\ Expected(u)' <= Expected(u)
              /\ Numbers(u) /\ Planned(u)' \in Nat /\ Expected(u)' \in Nat
  <2>1. Balanced(u, j) /\ Numbers(u) /\ Numbers(u)'
    BY <1>1, <1>2, <1>8, RowMoves, NumbersNow, NumbersThen
  <2>2. CASE u = w /\ Holds(w) /\ t = "running"
    <3>1. Counts(u, j) /\ ~ Counts(u, j)'
      BY <1>6, <1>8, <2>2 DEF Counts
    <3>2. Weight(u)[j] = prow[j].sec /\ Weight(u)'[j] = 0 /\ Wanted(u)'[j] = 0
      BY <1>2, <3>1, Weighs, WeighsThen
    <3>3. Wanted(u)[j] \in Nat
      BY <1>2, <2>1 DEF Numbers
    <3> QED BY <2>1, <2>2, <3>2, <3>3 DEF Balanced, Numbers
  <2>3. CASE ~ (u = w /\ Holds(w) /\ t = "running")
    <3>1. Counts(u, j)' <=> Counts(u, j)
      BY <1>6, <1>8, <2>3 DEF Counts
    <3>2. estimate' = estimate /\ prow'[j].sec = prow[j].sec
      BY <1>6, <1>8
    <3>3. Weight(u)'[j] = Weight(u)[j] /\ Wanted(u)'[j] = Wanted(u)[j]
      BY <1>2, <3>1, <3>2, Weighs, WeighsThen
    <3>4. Weight(u)[j] \in Nat /\ Wanted(u)[j] \in Nat
      BY <1>2, <2>1 DEF Numbers
    <3> QED BY <2>1, <2>3, <3>3, <3>4 DEF Balanced, Numbers
  <2> QED BY <2>2, <2>3
<1>12. ASSUME NEW u \in PWorkers \ skewed' PROVE Covered(u)'
  <2>1. Covered(u) /\ estimate' = estimate
    BY DEF LedgerInv
  <2>2. CASE u = w
    <3>1. Gone(w)' = 0 /\ HoldsNoLess(w)'
      BY <1>7 DEF Gone, HoldsNoLess, Holds, NoDrain
    <3>2. Gone(w) = (IF Holds(w) THEN 0 ELSE n)
      BY <1>0 DEF Gone
    <3>3. HoldsNoLess(w) /\ Holds(w) => n <= prow[j].sec
      BY <1>0 DEF HoldsNoLess
    <3>4. prow[j].sec \in Nat /\ tail'[w].sec \in Nat
      BY <1>1, <1>2, <1>3 DEF LedgerOK, RowRec, TailRec
    <3>5. Numbers(w) /\ Planned(w)' + (IF Holds(w) /\ t = "running" THEN prow[j].sec ELSE 0) = Planned(w) /\ Planned(w)' \in Nat
      BY <1>11, <2>2
    <3>6. estimate[w].at = "idle" =>
            Planned(w)' + Taken("loop", w) + Taken("operator", w) <= tail'[w].sec + Owed(w)
      <4>1. CASE t = "free"
        BY <1>2, <1>3, <2>1, <2>2, <3>2, <3>3, <3>4, <3>5, <4>1 DEF Covered, Numbers
      <4>2. CASE t = "running"
        BY <1>2, <1>3, <2>1, <2>2, <3>2, <3>3, <3>4, <3>5, <4>2 DEF Covered, Numbers
      <4> QED BY <4>1, <4>2
    <3>7. Taken("loop", w) \in Nat /\ Taken("operator", w) \in Nat
      BY <3>5 DEF Numbers
    <3>8. Planned(w)' + Taken("loop", w)' + Taken("operator", w)' + Gone(w)' = Planned(w)' + Taken("loop", w) + Taken("operator", w)
      BY <1>10, <3>1, <3>5, <3>7
    <3> QED BY <1>10, <2>1, <2>2, <3>1, <3>6, <3>8 DEF Covered
  <2>3. CASE u # w
    <3>1. ~ (prow[j].at = u /\ prow[j].st = "leased") \/ ~ Holds(w)
      BY <1>6, <2>3
    <3>2. Gone(u)' = Gone(u) /\ (HoldsNoLess(u) => HoldsNoLess(u)')
      <4>1. CASE ~ Holds(w)
        <5>1. prow' = prow
          BY <4>1
        <5>2. drain'[u] = drain[u]
          BY <1>7, <2>3
        <5>3. Holds(u)' = Holds(u)
          BY <5>1, <5>2 DEF Holds
        <5> QED BY <5>1, <5>2, <5>3 DEF Gone, HoldsNoLess
      <4>2. CASE Holds(w)
        <5>1. ~ (prow[j].at = u /\ prow[j].st = "leased") /\ ~ (prow'[j].at = u /\ prow'[j].st = "leased")
          BY <1>6, <1>8, <2>3, <4>2
        <5>2. drain'[u] = drain[u]
          BY <1>7, <2>3
        <5> QED BY <1>1, <1>2, <1>8, <5>1, <5>2, HoldsKept
      <4> QED BY <4>1, <4>2
    <3>3. Planned(u)' = Planned(u)
      BY <1>11, <2>3 DEF Numbers
    <3>4. tail'[u] = tail[u]
      BY <1>3, <2>3
    <3> QED BY <1>10, <2>1, <3>2, <3>3, <3>4 DEF Covered
  <2> QED BY <2>2, <2>3
<1>13. ASSUME NEW u \in PWorkers PROVE Foreseen(u)'
  <2>1. Foreseen(u) /\ estimate' = estimate
    BY DEF LedgerInv
  <2> QED BY <1>10, <1>11, <2>1 DEF Foreseen, Numbers
<1> QED BY <1>8, <1>9, <1>10, <1>12, <1>13 DEF LedgerInv

\* A drain leases a row and reads what it weighs.
LEMMA RowLeased == ASSUME LedgerInv, NEW j \in PJobs, LeaseWaiting(j) PROVE LedgerInv'
<1>0. PICK w : w = prow[j].at
  OBVIOUS
<1>1. LedgerOK /\ RowsSit /\ PlacersSit
  BY DEF LedgerInv
<1>2. /\ w \in PWorkers /\ prow[j].st = "free" /\ drain[w] = NoDrain /\ Overlaps(w)
      /\ prow' = [prow EXCEPT ![j].st = "leased"]
      /\ drain' = [drain EXCEPT ![w] = [job |-> j, sec |-> prow[j].sec]]
      /\ UNCHANGED <<tail, placer, skewed>>
  BY <1>0 DEF LeaseWaiting
<1>3. WalkSame /\ WalkKeeps(j)
  BY <1>1, <1>2, KeepsOverlaps, SameKeeps
<1>4. PICK r : r = [prow[j] EXCEPT !.st = "leased"]
  OBVIOUS
<1>5. prow' = [prow EXCEPT ![j] = r] /\ r \in RowRec /\ r.st = "leased" /\ r.at = w /\ r.sec = prow[j].sec
  <2>1. prow[j] \in RowRec
    BY <1>1 DEF LedgerOK
  <2>2. r \in RowRec /\ r.at = prow[j].at /\ r.st = "leased" /\ r.sec = prow[j].sec
    BY <1>4, <2>1 DEF RowRec
  <2> QED BY <1>0, <1>2, <1>4, <2>2
<1>6. /\ drain' \in [PWorkers -> DrainRec] /\ drain'[w].job = j /\ drain'[w].sec = prow[j].sec
      /\ \A u \in PWorkers \ {w} : drain'[u] = drain[u]
  <2>1. PICK d : d = [job |-> j, sec |-> prow[j].sec]
    OBVIOUS
  <2>2. d \in DrainRec /\ d.job = j /\ d.sec = prow[j].sec
    BY <1>1, <2>1 DEF DrainRec, LedgerOK, RowRec
  <2>3. drain' = [drain EXCEPT ![w] = d]
    BY <1>2, <2>1
  <2> QED BY <1>1, <1>2, <2>2, <2>3 DEF LedgerOK
<1>7. LedgerOK' /\ prow'[j] = r /\ \A i \in PJobs \ {j} : prow'[i] = prow[i]
  <2>1. tail' \in [PWorkers -> TailRec] /\ placer' \in [Placers -> PlacerRec] /\ skewed' \subseteq PWorkers
    BY <1>1, <1>2 DEF LedgerOK
  <2> QED BY <1>1, <1>3, <1>5, <1>6, <2>1, RowTypes
<1>8. RowsSit'
  <2>1. \A u \in PWorkers : drain'[u] # NoDrain => drain'[u].job \in PJobs
    BY <1>1, <1>6 DEF RowsSit
  <2> QED BY <1>0, <1>1, <1>2, <1>3, <1>5, <2>1, RowSits
<1>9. PlacersSit' /\ \A u : Taken("loop", u)' = Taken("loop", u) /\ Taken("operator", u)' = Taken("operator", u) /\ Owed(u)' = Owed(u)
  BY <1>1, <1>2, PlacersStill
<1>10. ASSUME NEW u \in PWorkers PROVE Planned(u)' = Planned(u) /\ Expected(u)' = Expected(u)
  <2>1. Balanced(u, j) /\ Numbers(u) /\ Numbers(u)'
    BY <1>1, <1>3, <1>7, RowMoves, NumbersNow, NumbersThen
  <2>2. Counts(u, j)' <=> Counts(u, j)
    BY <1>0, <1>2, <1>5, <1>7 DEF Counts
  <2>3. estimate'[u].new = estimate[u].new /\ prow'[j].sec = prow[j].sec
    BY <1>3, <1>5, <1>7 DEF WalkSame
  <2>4. Weight(u)'[j] = Weight(u)[j] /\ Wanted(u)'[j] = Wanted(u)[j]
    BY <2>2, <2>3, Weighs, WeighsThen
  <2>5. Weight(u)[j] \in Nat /\ Wanted(u)[j] \in Nat
    BY <2>1 DEF Numbers
  <2> QED BY <2>1, <2>4, <2>5 DEF Balanced, Numbers
<1>11. ASSUME NEW u \in PWorkers PROVE Gone(u)' = Gone(u) /\ (HoldsNoLess(u) => HoldsNoLess(u)')
  <2>1. CASE u = w
    <3>1. Gone(w) = 0
      BY <1>2 DEF Gone
    <3>2. drain'[w] # NoDrain => Holds(w)'
      BY <1>5, <1>6, <1>7 DEF Holds
    <3>3. Gone(w)' = 0
      BY <3>2 DEF Gone
    <3>4. drain'[w].sec = prow'[drain'[w].job].sec /\ drain'[w].sec \in Nat
      BY <1>1, <1>5, <1>6, <1>7 DEF LedgerOK, RowRec
    <3>5. HoldsNoLess(w)'
      BY <3>4 DEF HoldsNoLess
    <3> QED BY <2>1, <3>1, <3>3, <3>5
  <2>2. CASE u # w
    <3>1. drain'[u] = drain[u] /\ ~ (prow[j].at = u /\ prow[j].st = "leased") /\ ~ (prow'[j].at = u /\ prow'[j].st = "leased")
      BY <1>0, <1>5, <1>6, <1>7, <2>2
    <3> QED BY <1>1, <1>7, <3>1, HoldsKept
  <2> QED BY <2>1, <2>2
<1>12. ASSUME NEW u \in PWorkers \ skewed' PROVE Covered(u)'
  <2>1. Covered(u) /\ tail' = tail /\ (estimate'[u].at = "idle" <=> estimate[u].at = "idle")
    BY <1>2, <1>3 DEF LedgerInv, WalkSame
  <2> QED BY <1>9, <1>10, <1>11, <2>1 DEF Covered
<1>13. ASSUME NEW u \in PWorkers PROVE Foreseen(u)'
  <2>1. Foreseen(u) /\ (estimate'[u].at = "write" => estimate[u].at = "write") /\ estimate'[u].sum = estimate[u].sum
    BY <1>3 DEF LedgerInv, WalkSame
  <2> QED BY <1>9, <1>10, <2>1 DEF Foreseen
<1> QED BY <1>7, <1>8, <1>9, <1>12, <1>13 DEF LedgerInv

-----------------------------------------------------------------------------
(* A re-estimation.                                                        *)

\* At the start nothing waits and nothing is owed.
LEMMA LedgerInit == PlaceInit => LedgerInv
<1> SUFFICES ASSUME PlaceInit PROVE LedgerInv
  OBVIOUS
<1>1. LedgerOK
  BY DEF PlaceInit, LedgerOK, RowRec, TailRec, PlacerRec, DrainRec, Placers, Places, IsWalk, Nobody, NoDrain, NoWalk
<1>2. RowsSit /\ PlacersSit
  BY DEF PlaceInit, RowsSit, PlacersSit, Nobody, NoWalk
<1>3. ASSUME NEW w \in PWorkers PROVE Covered(w) /\ Foreseen(w)
  <2>1. estimate[w].at = "idle" /\ Taken("loop", w) = 0 /\ Taken("operator", w) = 0
    BY DEF PlaceInit, NoWalk, Taken, Nobody
  <2>2. Gone(w) = 0 /\ HoldsNoLess(w)
    BY DEF PlaceInit, Gone, HoldsNoLess, Holds
  <2>3. Planned(w) = 0
    <3>1. {j \in PJobs : Counts(w, j)} = {}
      BY DEF PlaceInit, Counts
    <3>2. Ahead(w) = SumFunctionOnSet([j \in PJobs |-> prow[j].sec], {})
      BY <3>1 DEF Ahead, Seconds, Counts
    <3>3. SumFunctionOnSet([j \in PJobs |-> prow[j].sec], {}) = 0
      BY FS_EmptySet, SumStep
    <3> QED BY <1>1, <3>2, <3>3, AheadIsPlanned
  <2>4. Numbers(w)
    BY <1>1, NumbersNow
  <2> QED BY <2>1, <2>2, <2>3, <2>4 DEF Covered, Foreseen, Numbers
<1> QED BY <1>1, <1>2, <1>3 DEF LedgerInv

\* What a walk read: new predictions of the rows that wait, and the old ones of the leased rows.
LEMMA WalkRead ==
  ASSUME LedgerInv, NEW w \in PWorkers, ReestimatePeek(w)
  PROVE  LedgerInv'
<1>0. LedgerOK /\ RowsSit /\ PlacersSit
  BY DEF LedgerInv
<1>1. PICK warm \in SUBSET Waiting(w) :
        estimate' = [estimate EXCEPT ![w] =
         [at |-> "write",
          new |-> [j \in Waiting(w) |-> predictedQueuedSeconds(w, j \in warm)],
          sum |-> SumFunction([j \in Waiting(w) |-> predictedQueuedSeconds(w, j \in warm)])
                  + Seconds({j \in PJobs : prow[j].at = w} \ Waiting(w))]]
  BY DEF ReestimatePeek
<1>2. PICK new, sum : /\ new = [j \in Waiting(w) |-> predictedQueuedSeconds(w, j \in warm)]
                      /\ sum = SumFunction(new) + Seconds({j \in PJobs : prow[j].at = w} \ Waiting(w))
  OBVIOUS
<1>3. estimate' = [estimate EXCEPT ![w] = [at |-> "write", new |-> new, sum |-> sum]]
  BY <1>1, <1>2
<1>4. UNCHANGED <<prow, tail, placer, drain, skewed>>
  BY DEF ReestimatePeek
<1>5. DOMAIN new = Waiting(w) /\ \A j \in Waiting(w) : new[j] \in Nat
  BY <1>2, SecondsNat
<1> DEFINE Held == {j \in PJobs : prow[j].at = w} \ Waiting(w)
           Sec == [j \in PJobs |-> prow[j].sec]
<1>6. IsFiniteSet(Waiting(w)) /\ IsFiniteSet(Held) /\ Waiting(w) \cap Held = {}
      /\ Waiting(w) \subseteq PJobs /\ Held \subseteq PJobs
  BY FS_Subset DEF Waiting
<1>7. \A j \in PJobs : Sec[j] \in Nat
  BY <1>0 DEF LedgerOK, RowRec
<1>8. sum = SumFunctionOnSet(new, Waiting(w)) + SumFunctionOnSet(Sec, Held)
  BY <1>2, <1>5 DEF Seconds, SumFunction
<1>9. SumFunctionOnSet(new, Waiting(w)) \in Nat /\ SumFunctionOnSet(Sec, Held) \in Nat
  BY <1>5, <1>6, <1>7, SumNat
<1>10. /\ IsWalk(estimate'[w]) /\ estimate'[w].at = "write" /\ estimate'[w].new = new /\ estimate'[w].sum = sum
       /\ \A u \in PWorkers \ {w} : estimate'[u] = estimate[u]
  <2>1. sum \in Nat
    BY <1>8, <1>9
  <2>2. PICK e : e = [at |-> "write", new |-> new, sum |-> sum]
    OBVIOUS
  <2>3. e.at = "write" /\ e.new = new /\ e.sum = sum /\ IsWalk(e)
    BY <1>5, <2>1, <2>2 DEF IsWalk
  <2>4. estimate'[w] = e /\ \A u \in PWorkers \ {w} : estimate'[u] = estimate[u]
    BY <1>0, <1>3, <2>2 DEF LedgerOK
  <2> QED BY <2>3, <2>4
<1>11. LedgerOK'
  <2>1. estimate' = [u \in PWorkers |-> estimate'[u]]
    BY <1>0, <1>3 DEF LedgerOK
  <2>2. \A u \in PWorkers : IsWalk(estimate'[u])
    BY <1>0, <1>10 DEF LedgerOK
  <2> QED BY <1>0, <1>4, <2>1, <2>2 DEF LedgerOK
<1>12. RowsSit' /\ PlacersSit'
  <2>1. ASSUME NEW u \in PWorkers, NEW i \in DOMAIN estimate'[u].new
        PROVE  i \in PJobs /\ prow'[i].at = u /\ estimate'[u].at # "idle"
    <3>1. CASE u = w
      BY <1>4, <1>5, <1>10, <2>1, <3>1 DEF Waiting
    <3>2. CASE u # w
      BY <1>0, <1>4, <1>10, <2>1, <3>2 DEF RowsSit
    <3> QED BY <3>1, <3>2
  <2> QED BY <1>0, <1>4, <2>1, PlacersStill DEF RowsSit
<1>13. \A u : Taken("loop", u)' = Taken("loop", u) /\ Taken("operator", u)' = Taken("operator", u) /\ Owed(u)' = Owed(u)
  BY <1>4, PlacersStill
<1>14. ASSUME NEW u \in PWorkers \ skewed' PROVE Covered(u)'
  <2>1. Planned(u)' = Planned(u)
    BY <1>4 DEF Planned, Weight, Counts
  <2>2. Gone(u)' = Gone(u) /\ HoldsNoLess(u)' = HoldsNoLess(u)
    BY <1>4, HoldsStill
  <2>3. Covered(u) /\ (u # w => estimate'[u] = estimate[u]) /\ (u = w => estimate'[u].at # "idle") /\ tail' = tail
    BY <1>4, <1>10 DEF LedgerInv
  <2> QED BY <1>13, <2>1, <2>2, <2>3 DEF Covered
<1>15. ASSUME NEW u \in PWorkers PROVE Foreseen(u)'
  <2>1. CASE u # w
    <3>1. Expected(u)' = Expected(u) /\ estimate'[u] = estimate[u]
      BY <1>4, <1>10, <2>1 DEF Expected, Wanted, Counts
    <3>2. Foreseen(u)
      BY DEF LedgerInv
    <3> QED BY <1>13, <3>1, <3>2 DEF Foreseen
  <2>2. CASE u = w
    <3>1. PICK W : W = [j \in PJobs |-> IF j \in Waiting(w) THEN new[j] ELSE Sec[j]]
      OBVIOUS
    <3>2. PICK T : T = {j \in PJobs : Counts(w, j)}
      OBVIOUS
    <3>3. \A j \in PJobs : W[j] \in Nat
      BY <1>5, <1>7, <3>1
    <3>4. Waiting(w) \subseteq T /\ T \subseteq Waiting(w) \cup Held /\ T \subseteq PJobs /\ IsFiniteSet(Waiting(w) \cup Held)
      <4>1. Waiting(w) \subseteq T /\ T \subseteq Waiting(w) \cup Held /\ T \subseteq PJobs
        BY <3>2 DEF Counts, Waiting
      <4>2. Waiting(w) \cup Held \subseteq PJobs
        BY <1>6
      <4> QED BY <4>1, <4>2, FS_Subset
    <3>5. Wanted(w)' = [j \in PJobs |-> IF j \in T THEN W[j] ELSE 0]
      BY <1>4, <1>5, <1>10, <3>1, <3>2 DEF Wanted, Counts
    <3>6. Expected(w)' = SumFunctionOnSet(W, T)
      BY <3>3, <3>4, <3>5, SumFilter DEF Expected
    <3> HIDE DEF Held, Sec
    <3>7. SumFunctionOnSet(W, T) <= SumFunctionOnSet(W, Waiting(w) \cup Held)
      BY <1>6, <3>3, <3>4, SumOfPart
    <3>8. SumFunctionOnSet(W, Waiting(w) \cup Held) = SumFunctionOnSet(W, Waiting(w)) + SumFunctionOnSet(W, Held)
      BY <1>6, <3>3, SumUnion
    <3>9. SumFunctionOnSet(W, Waiting(w)) = SumFunctionOnSet(new, Waiting(w))
      BY <1>6, <3>1, SumAgrees
    <3>10. SumFunctionOnSet(W, Held) = SumFunctionOnSet(Sec, Held)
      BY <1>6, <3>1, SumAgrees
    <3>11. Expected(w)' <= sum
      BY <1>8, <3>6, <3>7, <3>8, <3>9, <3>10
    <3>12. Expected(w)' \in Nat /\ sum \in Nat /\ Owed(w) \in Nat
      <4>1. SumFunctionOnSet(W, T) \in Nat
        BY <1>6, <3>3, <3>4, FS_Subset, SumNat
      <4>2. Numbers(w)
        BY <1>0, NumbersNow
      <4> QED BY <1>8, <1>9, <3>6, <4>1, <4>2 DEF Numbers
    <3>13. Expected(w)' <= sum + Owed(w)'
      BY <1>13, <3>11, <3>12
    <3> QED BY <1>10, <2>2, <3>13 DEF Foreseen
  <2> QED BY <2>1, <2>2
<1> QED BY <1>11, <1>12, <1>14, <1>15 DEF LedgerInv

\* A row that a walk rewrites gets what was foreseen.
LEMMA RowRewritten ==
  ASSUME LedgerInv, NEW w \in PWorkers, NEW j, UpdateBody(w, j)
  PROVE  LedgerInv'
<1>1. LedgerOK /\ RowsSit /\ PlacersSit
  BY DEF LedgerInv
<1>2. PICK n : n = estimate[w].new[j]
  OBVIOUS
<1>3. /\ j \in DOMAIN estimate[w].new /\ j \in PJobs /\ prow[j].at = w /\ estimate[w].at # "idle" /\ n \in Nat
      /\ prow' = [prow EXCEPT ![j].sec = n] /\ UNCHANGED <<tail, placer, drain, skewed>>
  BY <1>1, <1>2 DEF UpdateBody, RowsSit, LedgerOK, IsWalk
<1>4. PICK x : x = [i \in DOMAIN estimate[w].new \ {j} |-> estimate[w].new[i]]
  OBVIOUS
<1>5. PICK e : e = [estimate[w] EXCEPT !.new = x]
  OBVIOUS
<1>6. estimate' = [estimate EXCEPT ![w] = e]
  BY <1>4, <1>5 DEF UpdateBody
<1>7. estimate[w] = [at |-> estimate[w].at, new |-> estimate[w].new, sum |-> estimate[w].sum]
      /\ estimate[w].at \in {"idle", "write", "late"} /\ estimate[w].sum \in Nat
      /\ \A i \in DOMAIN estimate[w].new : estimate[w].new[i] \in Nat
  BY <1>1 DEF LedgerOK, IsWalk
<1>8. e = [at |-> estimate[w].at, new |-> x, sum |-> estimate[w].sum]
  BY <1>5, <1>7
<1>9. e.at = estimate[w].at /\ e.new = x /\ e.sum = estimate[w].sum /\ IsWalk(e)
  BY <1>4, <1>7, <1>8 DEF IsWalk
<1>10. estimate'[w] = e /\ \A u \in PWorkers \ {w} : estimate'[u] = estimate[u]
  BY <1>1, <1>6 DEF LedgerOK
<1>11. WalkKeeps(j)
  <2>1. estimate' = [u \in PWorkers |-> estimate'[u]]
    BY <1>1, <1>6 DEF LedgerOK
  <2>2. ASSUME NEW u \in PWorkers
        PROVE  /\ IsWalk(estimate'[u]) /\ estimate'[u].sum = estimate[u].sum /\ estimate'[u].at = estimate[u].at
               /\ DOMAIN estimate'[u].new \subseteq DOMAIN estimate[u].new
               /\ \A i \in DOMAIN estimate[u].new \ {j} :
                    i \in DOMAIN estimate'[u].new /\ estimate'[u].new[i] = estimate[u].new[i]
    <3>1. CASE u = w
      BY <1>4, <1>9, <1>10, <3>1
    <3>2. CASE u # w
      <4>1. estimate'[u] = estimate[u] /\ IsWalk(estimate[u])
        BY <1>1, <1>10, <3>2 DEF LedgerOK
      <4> QED BY <4>1
    <3> QED BY <3>1, <3>2
  <2> QED BY <2>1, <2>2 DEF WalkKeeps
<1>12. PICK r : r = [prow[j] EXCEPT !.sec = n]
  OBVIOUS
<1>13. prow' = [prow EXCEPT ![j] = r] /\ r \in RowRec /\ r.at = w /\ r.st = prow[j].st /\ r.sec = n
  <2>1. prow[j] \in RowRec
    BY <1>1, <1>3 DEF LedgerOK
  <2>2. r \in RowRec /\ r.at = prow[j].at /\ r.st = prow[j].st /\ r.sec = n
    BY <1>3, <1>12, <2>1 DEF RowRec
  <2> QED BY <1>3, <1>12, <2>2
<1>14. LedgerOK' /\ prow'[j] = r /\ \A i \in PJobs \ {j} : prow'[i] = prow[i]
  <2>1. /\ tail' \in [PWorkers -> TailRec] /\ placer' \in [Placers -> PlacerRec]
        /\ drain' \in [PWorkers -> DrainRec] /\ skewed' \subseteq PWorkers
    BY <1>1, <1>3 DEF LedgerOK
  <2> QED BY <1>1, <1>3, <1>11, <1>13, <2>1, RowTypes
<1>15. RowsSit'
  <2>1. \A u \in PWorkers : drain'[u] # NoDrain => drain'[u].job \in PJobs
    BY <1>1, <1>3 DEF RowsSit
  <2> QED BY <1>1, <1>3, <1>11, <1>13, <2>1, RowSits
<1>16. PlacersSit' /\ \A u : Taken("loop", u)' = Taken("loop", u) /\ Taken("operator", u)' = Taken("operator", u) /\ Owed(u)' = Owed(u)
  BY <1>1, <1>3, PlacersStill
<1>17. ASSUME NEW u \in PWorkers PROVE Expected(u)' = Expected(u) /\ (u # w => Planned(u)' = Planned(u))
  <2>1. Balanced(u, j) /\ Numbers(u) /\ Numbers(u)'
    BY <1>1, <1>3, <1>11, <1>14, RowMoves, NumbersNow, NumbersThen
  <2>2. Wanted(u)'[j] = Wanted(u)[j] /\ (u # w => Weight(u)'[j] = Weight(u)[j])
    <3>1. CASE u = w
      <4>1. Counts(w, j)' <=> Counts(w, j)
        BY <1>3, <1>13, <1>14 DEF Counts
      <4>2. Wanted(w)[j] = IF Counts(w, j) THEN n ELSE 0
        BY <1>2, <1>3, Weighs
      <4>3. j \notin DOMAIN estimate'[w].new
        BY <1>4, <1>9, <1>10
      <4>4. Wanted(w)'[j] = IF Counts(w, j)' THEN n ELSE 0
        BY <1>3, <1>13, <1>14, <4>3, WeighsThen
      <4> QED BY <3>1, <4>1, <4>2, <4>4
    <3>2. CASE u # w
      <4>1. ~ Counts(u, j) /\ ~ Counts(u, j)'
        BY <1>3, <1>13, <1>14, <3>2 DEF Counts
      <4>2. Wanted(u)[j] = 0 /\ Weight(u)[j] = 0 /\ Wanted(u)'[j] = 0 /\ Weight(u)'[j] = 0
        BY <1>3, <4>1, Weighs, WeighsThen
      <4> QED BY <4>2
    <3> QED BY <3>1, <3>2
  <2>3. Weight(u)[j] \in Nat /\ Wanted(u)[j] \in Nat
    BY <1>3, <2>1 DEF Numbers
  <2> QED BY <2>1, <2>2, <2>3 DEF Balanced, Numbers
<1>18. ASSUME NEW u \in PWorkers \ skewed' PROVE Covered(u)'
  <2>1. CASE u = w
    <3>1. estimate'[w].at # "idle"
      BY <1>3, <1>9, <1>10
    <3> QED BY <2>1, <3>1 DEF Covered
  <2>2. CASE u # w
    <3>1. Covered(u) /\ estimate'[u] = estimate[u] /\ tail' = tail /\ Planned(u)' = Planned(u)
      BY <1>3, <1>10, <1>17, <2>2 DEF LedgerInv
    <3>2. ~ (prow[j].at = u /\ prow[j].st = "leased") /\ ~ (prow'[j].at = u /\ prow'[j].st = "leased") /\ drain'[u] = drain[u]
      BY <1>3, <1>13, <1>14, <2>2
    <3>3. Gone(u)' = Gone(u) /\ (HoldsNoLess(u) => HoldsNoLess(u)')
      BY <1>1, <1>3, <1>14, <3>2, HoldsKept
    <3> QED BY <1>16, <3>1, <3>3 DEF Covered
  <2> QED BY <2>1, <2>2
<1>19. ASSUME NEW u \in PWorkers PROVE Foreseen(u)'
  <2>1. Foreseen(u) /\ (estimate'[u].at = "write" => estimate[u].at = "write") /\ estimate'[u].sum = estimate[u].sum
    BY <1>11 DEF LedgerInv, WalkKeeps
  <2> QED BY <1>16, <1>17, <2>1 DEF Foreseen
<1> QED BY <1>14, <1>15, <1>16, <1>18, <1>19 DEF LedgerInv

\* What a walk writes back: once the rows have got what was foreseen, their tail gets it.
LEMMA WalkWritten ==
  ASSUME LedgerInv, NEW w \in PWorkers, ReestimateWrite(w)
  PROVE  LedgerInv'
<1>0. LedgerOK /\ RowsSit /\ PlacersSit
  BY DEF LedgerInv
<1>1. /\ estimate[w].at # "idle" /\ DOMAIN estimate[w].new = {}
      /\ estimate' = [estimate EXCEPT ![w] = NoWalk]
      /\ skewed' = (IF estimate[w].at = "write" /\ Settled(w) THEN skewed \ {w} ELSE skewed \cup {w})
      /\ UNCHANGED <<prow, placer, drain>>
  BY DEF ReestimateWrite
<1>2. PICK m \in PModels \cup {"none"} : tail' = [tail EXCEPT ![w] = [sec |-> estimate[w].sum, model |-> m]]
  BY DEF ReestimateWrite
<1>3. estimate'[w] = NoWalk /\ \A u \in PWorkers \ {w} : estimate'[u] = estimate[u]
  BY <1>0, <1>1 DEF LedgerOK
<1>4. tail'[w].sec = estimate[w].sum /\ estimate[w].sum \in Nat /\ \A u \in PWorkers \ {w} : tail'[u] = tail[u]
  BY <1>0, <1>2 DEF LedgerOK, IsWalk
<1>5. LedgerOK'
  <2>1. tail' \in [PWorkers -> TailRec]
    BY <1>0, <1>2, <1>4 DEF LedgerOK, TailRec
  <2>2. estimate' = [u \in PWorkers |-> estimate'[u]]
    BY <1>0, <1>1 DEF LedgerOK
  <2>3. \A u \in PWorkers : IsWalk(estimate'[u])
    <3>1. IsWalk(NoWalk)
      BY DEF IsWalk, NoWalk
    <3> QED BY <1>0, <1>3, <3>1 DEF LedgerOK
  <2>4. skewed' \subseteq PWorkers
    BY <1>0, <1>1 DEF LedgerOK
  <2> QED BY <1>0, <1>1, <2>1, <2>2, <2>3, <2>4 DEF LedgerOK
<1>6. RowsSit'
  <2>1. DOMAIN NoWalk.new = {}
    BY DEF NoWalk
  <2> QED BY <1>0, <1>1, <1>3, <2>1 DEF RowsSit
<1>7. PlacersSit' /\ \A u : Taken("loop", u)' = Taken("loop", u) /\ Taken("operator", u)' = Taken("operator", u) /\ Owed(u)' = Owed(u)
  BY <1>0, <1>1, PlacersStill
<1>8. ASSUME NEW u \in PWorkers PROVE Planned(u)' = Planned(u) /\ Gone(u)' = Gone(u) /\ HoldsNoLess(u)' = HoldsNoLess(u)
  <2>1. Planned(u)' = Planned(u)
    BY <1>1 DEF Planned, Weight, Counts
  <2> QED BY <1>1, <2>1, HoldsStill
<1>9. ASSUME NEW u \in PWorkers \ skewed' PROVE Covered(u)'
  <2>1. CASE u = w
    <3>1. estimate[w].at = "write" /\ Settled(w)
      BY <1>1, <2>1
    <3>2. Weight(w) = Wanted(w)
      BY <1>1 DEF Weight, Wanted
    <3>3. Planned(w) = Expected(w) /\ Expected(w) <= estimate[w].sum + Owed(w)
      BY <3>1, <3>2 DEF Planned, Expected, LedgerInv, Foreseen
    <3>4. Taken("loop", w) = 0 /\ Taken("operator", w) = 0
      BY <3>1 DEF Settled, Taken
    <3>5. Gone(w) = 0 /\ HoldsNoLess(w)
      <4>1. CASE drain[w] = NoDrain
        BY <4>1 DEF Gone, HoldsNoLess, Holds
      <4>2. CASE Holds(w) /\ drain[w].sec <= prow[drain[w].job].sec
        BY <4>2 DEF Gone, HoldsNoLess
      <4> QED BY <3>1, <4>1, <4>2 DEF Settled
    <3>6. Numbers(w)
      BY <1>0, NumbersNow
    <3>7. Planned(w)' + Taken("loop", w)' + Taken("operator", w)' + Gone(w)' <= tail'[w].sec + Owed(w)'
      BY <1>4, <1>7, <1>8, <3>3, <3>4, <3>5, <3>6 DEF Numbers
    <3> QED BY <1>8, <2>1, <3>5, <3>7 DEF Covered
  <2>2. CASE u # w
    <3>1. Covered(u) /\ estimate'[u] = estimate[u] /\ tail'[u] = tail[u]
      BY <1>1, <1>3, <1>4, <2>2 DEF LedgerInv
    <3> QED BY <1>7, <1>8, <3>1 DEF Covered
  <2> QED BY <2>1, <2>2
<1>10. ASSUME NEW u \in PWorkers PROVE Foreseen(u)'
  <2>1. CASE u = w
    <3>1. estimate'[w].at = "idle"
      BY <1>3 DEF NoWalk
    <3> QED BY <2>1, <3>1 DEF Foreseen
  <2>2. CASE u # w
    <3>1. Foreseen(u) /\ estimate'[u] = estimate[u]
      BY <1>3, <2>2 DEF LedgerInv
    <3>2. Expected(u)' = Expected(u)
      BY <1>1, <3>1 DEF Expected, Wanted, Counts
    <3> QED BY <1>7, <3>1, <3>2 DEF Foreseen
  <2> QED BY <2>1, <2>2
<1> QED BY <1>5, <1>6, <1>7, <1>9, <1>10 DEF LedgerInv

-----------------------------------------------------------------------------
(* The theorem.                                                            *)

\* A step that touches neither rows nor figures.
LEMMA LedgerStill ==
  ASSUME LedgerInv, UNCHANGED <<prow, tail, placer, drain, estimate, skewed>>
  PROVE  LedgerInv'
<1>1. placer' \in [Placers -> PlacerRec]
  BY DEF LedgerInv, LedgerOK
<1>2. PlacersSit' /\ \A w : Taken("loop", w)' = Taken("loop", w) /\ Taken("operator", w)' = Taken("operator", w) /\ Owed(w)' = Owed(w)
  BY PlacersStill DEF LedgerInv
<1> QED BY <1>1, <1>2, PlacerOnly

\* The end of a job, by its answer or by a cancel.
LEMMA RowEnds ==
  ASSUME LedgerInv, NEW j \in PJobs, cancelWorkerQueue(j) \/ \E w \in PWorkers : FinishRow(w, j)
  PROVE  LedgerInv'
<1>1. drain \in [PWorkers -> DrainRec]
  BY DEF LedgerInv, LedgerOK
<1>2. CASE cancelWorkerQueue(j)
  <2>1. prow' = [prow EXCEPT ![j] = ToRow(j, "over")] /\ Leaves(j, {}) /\ UNCHANGED <<tail, placer, drain, skewed>>
    BY <1>2 DEF cancelWorkerQueue
  <2> QED BY <1>1, <2>1, RowAway
<1>3. ASSUME NEW w \in PWorkers, FinishRow(w, j) PROVE LedgerInv'
  <2>1. CASE prow[j].at = w /\ prow[j].st = "running"
    <3>1. prow' = [prow EXCEPT ![j] = ToRow(j, "over")] /\ Leaves(j, {}) /\ UNCHANGED <<tail, placer, drain, skewed>>
      BY <1>3, <2>1 DEF FinishRow
    <3> QED BY <1>1, <3>1, RowAway
  <2>2. CASE ~ (prow[j].at = w /\ prow[j].st = "running")
    <3>1. UNCHANGED <<prow, tail, placer, drain, estimate, skewed>>
      BY <1>3, <2>2 DEF FinishRow
    <3> QED BY <3>1, LedgerStill
  <2> QED BY <2>1, <2>2
<1> QED BY <1>2, <1>3

\* The three ways in which a drain lets go of its row.
LEMMA DrainTurns ==
  ASSUME LedgerInv, NEW w \in PWorkers, StartRow(w) \/ releaseLeaseForRetry(w) \/ retryAfterLoadFailure(w)
  PROVE  LedgerInv'
<1>1. CASE StartRow(w)
  <2>1. /\ drain[w] # NoDrain /\ drain' = [drain EXCEPT ![w] = NoDrain]
        /\ prow' = (IF Holds(w) THEN [prow EXCEPT ![drain[w].job].st = "running"] ELSE prow)
        /\ tail' = debitTail(w, drain[w].sec) /\ UNCHANGED <<placer, estimate, skewed>>
    BY <1>1 DEF StartRow
  <2>2. PICK t \in {"free", "running"} : t = "running"
    OBVIOUS
  <2> QED BY <2>1, <2>2, LeaseEnds
<1>2. CASE releaseLeaseForRetry(w)
  <2>1. /\ drain[w] # NoDrain /\ drain' = [drain EXCEPT ![w] = NoDrain]
        /\ prow' = (IF Holds(w) THEN [prow EXCEPT ![drain[w].job].st = "free"] ELSE prow)
        /\ tail' = tail /\ UNCHANGED <<placer, estimate, skewed>>
    BY <1>2 DEF releaseLeaseForRetry
  <2>2. PICK t \in {"free", "running"} : t = "free"
    OBVIOUS
  <2> QED BY <2>1, <2>2, LeaseEnds
<1>3. CASE retryAfterLoadFailure(w)
  <2>1. /\ drain[w] # NoDrain /\ drain' = [drain EXCEPT ![w] = NoDrain] /\ UNCHANGED <<tail, placer, skewed>>
    BY <1>3 DEF retryAfterLoadFailure
  <2>2. CASE Holds(w)
    <3>1. PICK p \in {"global", "over"} : prow' = [prow EXCEPT ![drain[w].job] = ToRow(drain[w].job, p)]
      BY <1>3, <2>2 DEF retryAfterLoadFailure
    <3>2. Leaves(drain[w].job, {})
      BY <1>3, <2>2 DEF retryAfterLoadFailure
    <3>3. drain[w].job \in PJobs
      BY <2>1 DEF LedgerInv, RowsSit
    <3>4. drain' \in [PWorkers -> DrainRec] /\ \A u \in PWorkers : drain'[u] = drain[u] \/ drain'[u] = NoDrain
      <4>1. NoDrain \in DrainRec
        BY DEF NoDrain, DrainRec
      <4>2. drain \in [PWorkers -> DrainRec]
        BY DEF LedgerInv, LedgerOK
      <4> QED BY <2>1, <4>1, <4>2
    <3> QED BY <2>1, <3>1, <3>2, <3>3, <3>4, RowAway
  <2>3. CASE ~ Holds(w)
    <3>1. prow' = prow /\ estimate' = estimate
      BY <1>3, <2>3 DEF retryAfterLoadFailure
    <3>2. PICK t \in {"free", "running"} : t = "free"
      OBVIOUS
    <3> QED BY <2>1, <2>3, <3>1, <3>2, LeaseEnds
  <2> QED BY <2>2, <2>3
<1> QED BY <1>1, <1>2, <1>3

\* Every step keeps the ledger.
LEMMA LedgerNext == LedgerInv /\ [PlaceNext]_placeVars => LedgerInv'
<1> SUFFICES ASSUME LedgerInv, [PlaceNext]_placeVars PROVE LedgerInv'
  OBVIOUS
<1>1. ASSUME NEW j \in PJobs, Submit(j) PROVE LedgerInv'
  BY <1>1, RowSubmitted
<1>2. ASSUME NEW j \in PJobs, LeaseWaiting(j) PROVE LedgerInv'
  BY <1>2, RowLeased
<1>3. ASSUME NEW j \in PJobs, drainGlobal(j) \/ (\E w \in PWorkers : stealWithinRuntime(j, w)) \/ EvictQueuedRowToGlobal(j)
      PROVE  LedgerInv'
  BY <1>3, PlacerReads
<1>4. ASSUME NEW j \in PJobs, cancelWorkerQueue(j) \/ \E w \in PWorkers : FinishRow(w, j) PROVE LedgerInv'
  BY <1>4, RowEnds
<1>5. ASSUME NEW j \in PJobs, NEW w \in PWorkers, UpdateBody(w, j) PROVE LedgerInv'
  BY <1>5, RowRewritten
<1>6. ASSUME NEW p \in {"submit", "loop"}, LeaseAndSubmit(p) \/ CreditPlacement(p) PROVE LedgerInv'
  BY <1>6, RowPlaced, TailCredited
<1>7. ASSUME NEW p \in {"loop", "operator"}, Debit(p) PROVE LedgerInv'
  BY <1>7, TailDebited
<1>8. CASE MoveTo \/ DeleteAndReleaseLease
  BY <1>8, RowMoved, RowDeleted
<1>9. ASSUME NEW w \in PWorkers, StartRow(w) \/ releaseLeaseForRetry(w) \/ retryAfterLoadFailure(w) PROVE LedgerInv'
  BY <1>9, DrainTurns
<1>10. ASSUME NEW w \in PWorkers, ReestimatePeek(w) \/ ReestimateWrite(w) PROVE LedgerInv'
  BY <1>10, WalkRead, WalkWritten
<1>11. CASE UNCHANGED placeVars
  BY <1>11, LedgerStill DEF placeVars
<1>12. ASSUME NEW j \in PJobs,
              \/ Submit(j) \/ drainGlobal(j) \/ LeaseWaiting(j) \/ cancelWorkerQueue(j) \/ EvictQueuedRowToGlobal(j)
              \/ \E w \in PWorkers : stealWithinRuntime(j, w) \/ FinishRow(w, j) \/ UpdateBody(w, j)
       PROVE  LedgerInv'
  BY <1>1, <1>2, <1>3, <1>4, <1>5, <1>12
<1> QED BY <1>6, <1>7, <1>8, <1>9, <1>10, <1>11, <1>12 DEF PlaceNext

\* Scoring never believes a queue shorter than it is: in every order of reads, moves,
\* credits and debits, of placements, drains, thefts, evictions, cancels and failed loads,
\* the tail of a worker and the credits still on their way cover the rows that wait there,
\* but while a re-estimation rewrites them, and where an outdated figure has come between.
THEOREM TailIsCovered == PlaceSpec => []TailCovers
<1>1. PlaceInit => LedgerInv
  BY LedgerInit
<1>2. LedgerInv /\ [PlaceNext]_placeVars => LedgerInv'
  BY LedgerNext
<1>3. LedgerInv => TailCovers
  <2> SUFFICES ASSUME LedgerInv, NEW w \in PWorkers \ skewed, estimate[w].at = "idle"
               PROVE  Ahead(w) <= tail[w].sec + Owed(w)
    BY DEF TailCovers
  <2>1. LedgerOK /\ Covered(w)
    BY DEF LedgerInv
  <2>2. Numbers(w)
    BY <2>1, NumbersNow
  <2>3. Ahead(w) = Planned(w)
    BY <2>1, AheadIsPlanned
  <2> QED BY <2>1, <2>2, <2>3 DEF Covered, Numbers
<1> QED BY <1>1, <1>2, <1>3, PTL DEF PlaceSpec
=============================================================================
