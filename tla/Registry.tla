------------------------------- MODULE Registry -------------------------------
(***************************************************************************)
(* The package registry as the server uses it: the cached index, which is  *)
(* the only authority on what pairs with what; the hub's compatibility     *)
(* check of a worker that registers (compat.go); the gate that prices a    *)
(* server update and the flag that prices a runtime upgrade against the    *)
(* connected fleet (update.go, routes_runtimes.go); and the installation   *)
(* of a worker or a runtime from the index through the artifact cache      *)
(* (registryops.go, artifactcache.go, installlocalworker.go,               *)
(* routes_setup.go).                                                       *)
(*                                                                         *)
(* One runtime.  A version is a number.  A row of the index is one version *)
(* of a worker package with the range of runtimes and of servers it pairs  *)
(* with and the backends it is built for on this platform; a range is a    *)
(* set of versions, AnyRange (no constraint) or BadRange (one that does    *)
(* not parse).                                                             *)
(***************************************************************************)
EXTENDS Integers, FiniteSets, FiniteSetsExt

CONSTANTS
  Rows,          \* the rows an index may hold: [pkg, ver, rt, mass, back]
  Indexes,       \* the sets of rows the registry may publish
  RegWorkers,    \* workers that may be installed or register
  Installs,      \* concurrent installations of a worker
  AnyRange, BadRange, NoIndex, NoRow,
  LastVer,       \* versions of the runtime and of the server are 1..LastVer
  MaxUpgrades    \* bound on updates of the server, the runtime and the index

Vers == 1..LastVer
Top  == LastVer + 1  \* the placeholder for a server whose version is not one

VARIABLES
  published,  \* the index at the registry
  idx,        \* the cached index, or NoIndex
  rtVer,      \* the installed runtime's version; 0 when it is not installed
  mass,       \* the running server: [v, kind], kind "release", "pre" or "dev"
  wver,       \* wver[w]: the version of worker w
  wst,        \* "none", "off", "on" or, once refused, "down"
  fresh,      \* history: w comes from this index, runtime and server
  inst,       \* inst[i]: [pc, row, kept] of installation i
  cache,      \* rows whose artifact the cache holds, whole and verified
  flight,     \* flight[r]: the installation that downloads row r, or 0
  staged,     \* the row of the runnable copy at the one path installers are run from
  updating,   \* the version an update is being applied to; 0 when none is
  upgrades

regVars == <<published, idx, rtVer, mass, wver, wst, fresh, inst, cache, flight, staged, updating, upgrades>>
\* What an installation, and what a change of version, leaves alone.
serverVars == <<published, rtVer, mass, updating, upgrades>>
installVars == <<cache, flight, staged>>

Idle == [pc |-> "idle", row |-> NoRow, kept |-> TRUE]

RegTypeOK ==
  /\ published \in Indexes
  /\ idx \in Indexes \cup {NoIndex}
  /\ rtVer \in 0..LastVer
  /\ mass \in [v : Vers, kind : {"release", "pre", "dev"}]
  /\ wver \in [RegWorkers -> Nat]
  /\ wst \in [RegWorkers -> {"none", "off", "on", "down"}]
  /\ fresh \in [RegWorkers -> BOOLEAN]
  /\ \A i \in Installs :
       /\ inst[i].pc \in {"idle", "stat", "claim", "get", "wait", "failed", "have", "staged"}
       /\ inst[i].row \in Rows \cup {NoRow}
  /\ cache \subseteq Rows
  /\ \A r \in Rows : flight[r] \in Installs \cup {0}
  /\ staged \in Rows \cup {NoRow}
  /\ updating \in 0..LastVer /\ upgrades \in 0..MaxUpgrades

RegInit ==
  /\ published \in Indexes /\ idx = NoIndex
  /\ rtVer \in 0..1
  /\ mass \in {[v |-> 1, kind |-> k] : k \in {"release", "pre", "dev"}}
  /\ wver = [w \in RegWorkers |-> 0] /\ wst = [w \in RegWorkers |-> "none"]
  /\ fresh = [w \in RegWorkers |-> FALSE]
  /\ inst = [i \in Installs |-> Idle]
  /\ cache = {} /\ flight = [r \in Rows |-> 0]
  /\ staged = NoRow /\ updating = 0 /\ upgrades = 0

-----------------------------------------------------------------------------
(* What the index says (compat.go).                                        *)

\* Whether range covers version: "yes", "no", or "open" when the range does not
\* parse or the version is a pre-release or development build.
admits(range, v, kind) ==
  CASE range = AnyRange -> "yes"
    [] range = BadRange \/ (range # AnyRange /\ kind # "release") -> "open"
    [] OTHER -> IF v \in range THEN "yes" ELSE "no"

workerVersionRows(ix, ver) == {r \in ix : r.ver = ver}

\* A row refuses on the first half that is conclusively excluded.
checkWorkerRow(r, rt, m) ==
  /\ admits(r.rt, rt, "release") # "no"
  /\ admits(r.mass, m.v, m.kind) # "no"

\* One row that does not refuse is enough, and no row is no verdict.
checkWorkerIndexCompat(ix, ver, rt, m) ==
  LET rows == workerVersionRows(ix, ver) IN
  rows = {} \/ \E r \in rows : checkWorkerRow(r, rt, m)

\* Mutant: every row must admit the worker.
AllRowsMustAdmit(ver, rt, m) ==
  \/ rt = 0 \/ idx = NoIndex
  \/ \A r \in workerVersionRows(idx, ver) : checkWorkerRow(r, rt, m)

\* The hub's check at Register, from the cache alone.
CheckWorkerCompat(ver, rt, m) == rt = 0 \/ idx = NoIndex \/ checkWorkerIndexCompat(idx, ver, rt, m)

fleetPairings == {w \in RegWorkers : wst[w] = "on"}

\* Connected workers a runtime upgrade to v would strand, as the registry tab flags.
countIncompatibleWorkers(v) ==
  {w \in fleetPairings :
     LET rows == workerVersionRows(idx, wver[w]) IN
     rows # {} /\ \A r \in rows : admits(r.rt, v, "release") = "no"}

workerRejectsMass(w, v) ==
  LET rows == workerVersionRows(idx, wver[w]) IN
  rows # {} /\ \A r \in rows : admits(r.mass, v, "release") = "no"

\* Connected workers a server update to v would strand.
fleetGate(v) == IF idx = NoIndex THEN {} ELSE {w \in fleetPairings : workerRejectsMass(w, v)}

-----------------------------------------------------------------------------
(* Resolving (registryops.go); the index's own search is the SDK's.        *)

massVersionForResolve == IF mass.kind = "dev" THEN Top ELSE mass.v

\* The SDK's range test: no notion of an inconclusive version.
InRange(range, v) == range = AnyRange \/ (range # BadRange /\ v \in range)
CompatibleWorkers(ix) == {r \in ix : InRange(r.rt, rtVer) /\ InRange(r.mass, massVersionForResolve)}

compatibleBackends(ix, p) == UNION {r.back : r \in {q \in CompatibleWorkers(ix) : q.pkg = p}}

\* The packages chooseWorkerPackage finds; it is used when it is alone.
chooseWorkerPackage(ix) == {p \in {r.pkg : r \in ix} : compatibleBackends(ix, p) # {}}

\* The row an installation gets: the only package, its only backend, the newest
\* version built for it.  Empty when something is ambiguous or missing.
resolveWorkerArtifact(ix) ==
  {r \in CompatibleWorkers(ix) :
     /\ chooseWorkerPackage(ix) = {r.pkg}
     /\ \E b \in r.back :
          /\ compatibleBackends(ix, r.pkg) = {b}
          /\ \A q \in CompatibleWorkers(ix) : q.pkg = r.pkg /\ b \in q.back => q.ver <= r.ver}

\* The index an operation works on: the network's, which refreshes the cache, or the
\* stale copy when the registry is unreachable.
FetchedIndexes == {published} \cup ({idx} \ {NoIndex})

-----------------------------------------------------------------------------
(* Actions.                                                                *)

\* What was resolved before a change of index, runtime or server is no longer fresh.
Unsettle ==
  /\ fresh' = [w \in RegWorkers |-> FALSE]
  /\ inst' = [i \in Installs |-> [inst[i] EXCEPT !.kept = FALSE]]

Refresh(ix) ==
  /\ idx' = ix
  /\ IF ix = idx THEN UNCHANGED <<fresh, inst>> ELSE Unsettle

\* The registry's maintainers publish another index.
Publish ==
  /\ upgrades < MaxUpgrades /\ upgrades' = upgrades + 1
  /\ \E ix \in Indexes \ {published} : published' = ix
  /\ UNCHANGED <<idx, rtVer, mass, wver, wst, fresh, inst, updating, installVars>>

\* The registry tab lists what can be installed: the fetch warms the cache.
searchPackages ==
  /\ \E ix \in FetchedIndexes : Refresh(ix)
  /\ UNCHANGED <<wver, wst, serverVars, installVars>>

\* A runtime is installed; one that is installed already is refused.
installRuntimeFromRegistry ==
  /\ rtVer = 0 /\ rtVer' \in Vers
  /\ upgrades < MaxUpgrades /\ upgrades' = upgrades + 1
  /\ \E ix \in FetchedIndexes : idx' = ix
  /\ Unsettle
  /\ UNCHANGED <<published, mass, wver, wst, updating, installVars>>

uninstallRuntime ==
  /\ rtVer > 0 /\ rtVer' = 0 /\ Unsettle
  /\ upgrades < MaxUpgrades /\ upgrades' = upgrades + 1
  /\ UNCHANGED <<published, idx, mass, wver, wst, updating, installVars>>

\* A worker registers: the verdict of a refusal is final for it.
Register(w) ==
  /\ wst[w] = "off"
  /\ wst' = [wst EXCEPT ![w] = IF CheckWorkerCompat(wver[w], rtVer, mass) THEN "on" ELSE "down"]
  /\ UNCHANGED <<idx, wver, fresh, inst, serverVars, installVars>>

\* An update is applied when the gate finds nobody stranded, or by force (an on-demand
\* server: one an operator runs refuses).  The installer is fetched within the request.
handleUpdateApply(v, force) ==
  /\ updating = 0 /\ v > mass.v /\ (force \/ fleetGate(v) = {})
  /\ upgrades < MaxUpgrades /\ upgrades' = upgrades + 1
  /\ updating' = v
  /\ UNCHANGED <<published, idx, rtVer, mass, wver, wst, fresh, inst, installVars>>

\* The server retires and comes back as the candidate; every worker registers again.
UpdateRestart ==
  /\ updating > 0 /\ updating' = 0
  /\ mass' = [v |-> updating, kind |-> "release"]
  /\ wst' = [w \in RegWorkers |-> IF wst[w] = "on" THEN "off" ELSE wst[w]]
  /\ inst' = [i \in Installs |-> Idle] /\ flight' = [r \in Rows |-> 0]
  /\ fresh' = [w \in RegWorkers |-> FALSE]
  /\ UNCHANGED <<published, idx, rtVer, wver, cache, staged, upgrades>>

InstGoto(i, pc) == inst' = [inst EXCEPT ![i].pc = pc]

\* installLocalWorker, or the installer a remote box downloads: what to install.
installLocalWorker(i) ==
  /\ inst[i].pc = "idle" /\ rtVer > 0
  /\ \E ix \in FetchedIndexes : \E r \in resolveWorkerArtifact(ix) :
       /\ idx' = ix
       /\ fresh' = [w \in RegWorkers |-> fresh[w] /\ ix = idx]
       /\ inst' = [j \in Installs |-> IF j = i THEN [pc |-> "stat", row |-> r, kept |-> TRUE]
                                      ELSE [inst[j] EXCEPT !.kept = @ /\ ix = idx]]
  /\ UNCHANGED <<wver, wst, serverVars, installVars>>

\* ensure: a cached file is served as it is.
EnsureStat(i) ==
  /\ inst[i].pc = "stat"
  /\ InstGoto(i, IF inst[i].row \in cache THEN "have" ELSE "claim")
  /\ UNCHANGED <<idx, wver, wst, fresh, serverVars, installVars>>

\* ensure, under its lock: join the download in flight or own one.
EnsureClaim(i) ==
  /\ inst[i].pc = "claim"
  /\ IF flight[inst[i].row] # 0
     THEN InstGoto(i, "wait") /\ UNCHANGED flight
     ELSE InstGoto(i, "get") /\ flight' = [flight EXCEPT ![inst[i].row] = i]
  /\ UNCHANGED <<idx, wver, wst, fresh, serverVars, cache, staged>>

\* The owner's download ends, well or not (an error, or its own caller going away);
\* everyone who waits on this download gets the same answer.
EnsureDone(i, ok) ==
  /\ inst[i].pc = "get"
  /\ cache' = IF ok THEN cache \cup {inst[i].row} ELSE cache
  /\ flight' = [flight EXCEPT ![inst[i].row] = 0]
  /\ inst' = [j \in Installs |->
                IF j = i \/ (inst[j].pc = "wait" /\ inst[j].row = inst[i].row)
                THEN [inst[j] EXCEPT !.pc = IF ok THEN "have" ELSE "failed"] ELSE inst[j]]
  /\ UNCHANGED <<idx, wver, wst, fresh, serverVars, staged>>

\* A caller that waits gives up alone; one that failed reports it.
EnsureQuit(i) ==
  /\ inst[i].pc \in {"wait", "failed"} /\ inst' = [inst EXCEPT ![i] = Idle]
  /\ UNCHANGED <<idx, wver, wst, fresh, serverVars, installVars>>

\* The cached file is copied to the one path a local installer is run from.
stageInstaller(i) ==
  /\ inst[i].pc = "have" /\ InstGoto(i, "staged") /\ staged' = inst[i].row
  /\ UNCHANGED <<idx, wver, wst, fresh, serverVars, cache, flight>>

\* A remote box runs the file it was served, this host the copy at that path, which
\* another installation may have replaced and the first to end removes.
RunInstaller(i, w) ==
  /\ wst[w] \in {"none", "down"}
  /\ \/ inst[i].pc = "have" /\ wver' = [wver EXCEPT ![w] = inst[i].row.ver] /\ UNCHANGED staged
     \/ /\ inst[i].pc = "staged" /\ staged # NoRow
        /\ wver' = [wver EXCEPT ![w] = staged.ver] /\ staged' = NoRow
  /\ wst' = [wst EXCEPT ![w] = "off"]
  /\ fresh' = [fresh EXCEPT ![w] = inst[i].kept /\ (inst[i].pc = "staged" => staged = inst[i].row)]
  /\ inst' = [inst EXCEPT ![i] = Idle]
  /\ UNCHANGED <<idx, serverVars, cache, flight>>

\* The copy is gone: the run fails.
RunFails(i) ==
  /\ inst[i].pc = "staged" /\ staged = NoRow /\ inst' = [inst EXCEPT ![i] = Idle]
  /\ UNCHANGED <<idx, wver, wst, fresh, serverVars, installVars>>

RegNext ==
  \/ Publish \/ searchPackages \/ installRuntimeFromRegistry \/ uninstallRuntime \/ UpdateRestart
  \/ \E w \in RegWorkers : Register(w)
  \/ \E v \in Vers, force \in BOOLEAN : handleUpdateApply(v, force)
  \/ \E i \in Installs :
       \/ installLocalWorker(i) \/ EnsureStat(i) \/ EnsureClaim(i) \/ EnsureQuit(i)
       \/ stageInstaller(i) \/ RunFails(i)
       \/ \E ok \in BOOLEAN : EnsureDone(i, ok)
       \/ \E w \in RegWorkers : RunInstaller(i, w)

RegSpec == RegInit /\ [][RegNext]_regVars

-----------------------------------------------------------------------------
(* Properties.                                                             *)

\* A worker the server itself offered is admitted when it registers, as long as the
\* cached index, the runtime and the server are those it was resolved for: the
\* resolver's range test and the hub's check of all rows of that version agree.
OfferedWorkerAdmitted == \A w \in RegWorkers : wst[w] = "down" => ~fresh[w]

\* The gate and the flag never claim a breakage the hub would not enforce: a worker they
\* count is refused by the server, or with the runtime, it was priced against.
GateHonest ==
  /\ \A v \in Vers : rtVer > 0 => \A w \in fleetGate(v) : ~CheckWorkerCompat(wver[w], rtVer, [v |-> v, kind |-> "release"])
  /\ \A v \in Vers : idx # NoIndex => \A w \in countIncompatibleWorkers(v) : ~CheckWorkerCompat(wver[w], v, mass)

\* The three readers of the index's worker rows, the resolver of an install, the check of
\* the hub at Register and the gates of the upgrades, never contradict each other.
VerdictsAgree == OfferedWorkerAdmitted /\ GateHonest

\* What update.go says of the gate: it predicts the hub's verdict.  A worker whose
\* version has one row for the candidate and another for the installed runtime is
\* stranded although the gate lets the update pass.
GatePredicts ==
  \A v \in Vers : rtVer > 0 =>
    \A w \in fleetPairings \ fleetGate(v) :
      CheckWorkerCompat(wver[w], rtVer, mass) => CheckWorkerCompat(wver[w], rtVer, [v |-> v, kind |-> "release"])
=============================================================================
