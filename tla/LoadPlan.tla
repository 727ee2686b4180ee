-------------------------------- MODULE LoadPlan --------------------------------
(***************************************************************************)
(* Where a model is loaded and how large its pool is made                  *)
(* (internal/scheduler/scheduler.go): the device set a load will occupy,   *)
(* the residents that have to go first, and the slots that fit in the      *)
(* memory the worker reports.  One worker, so one dispatch at a time; the  *)
(* operator toggles its devices at any moment, between the steps of a      *)
(* dispatch too.                                                           *)
(***************************************************************************)
EXTENDS Integers, FiniteSets, FiniteSetsExt

CONSTANTS
  GPUs, CPUs,      \* the worker's devices
  LModels,         \* the models dispatched to it
  MaxBytes,        \* bound: sizes and free memory, in some unit
  SlotsCap,        \* EffectiveBenchSlotsCap
  BudgetSecs,      \* EffectiveBenchBudgetSeconds
  Headrooms        \* the watermarks tried, in percent

ASSUME LoadPlanAssumption ==
  /\ GPUs \cap CPUs = {} /\ MaxBytes \in Nat /\ SlotsCap \in Nat \ {0} /\ BudgetSecs \in Nat
  /\ Headrooms \subseteq 1..100 /\ IsFiniteSet(GPUs) /\ IsFiniteSet(CPUs)

VARIABLES
  on,         \* the devices the operator has enabled
  residents,  \* the loaded models, and the devices each of them occupies
  serving,    \* the models with a job in flight
  reports,    \* whether the worker says where its models are (DeviceIDs)
  dispatch,   \* NoDispatch, or what the dispatch under way decided at the gate
  shifted,    \* history: the models whose load landed outside the set that was cleared
  sizing      \* the inputs of a load that is being sized, and what came out

loadVars == <<residents, serving, dispatch, shifted>>
planVars == <<on, reports, sizing, loadVars>>
Devices == GPUs \cup CPUs

\* model: the row's; set: the predicted device set; left: the blockers to evict;
\* load: whether a load follows.
NoDispatch == [set |-> {}, left |-> {}, load |-> FALSE]

PlanTypeOK ==
  /\ on \subseteq Devices /\ serving \subseteq LModels /\ reports \in BOOLEAN
  /\ sizing = <<>> \/ sizing.slots \in Nat
  /\ dispatch.set \subseteq Devices /\ dispatch.left \subseteq LModels /\ dispatch.load \in BOOLEAN
  /\ shifted \subseteq DOMAIN residents
  /\ DOMAIN residents \subseteq LModels /\ \A m \in DOMAIN residents : residents[m] \subseteq Devices

PlanInit ==
  /\ on = Devices /\ residents = <<>> /\ serving = {} /\ reports \in BOOLEAN /\ sizing = <<>>
  /\ dispatch = NoDispatch /\ shifted = {}

------------------------------------------------------------------------------
(* The device-set gate.                                                    *)

\* Every enabled GPU, or the CPUs when no GPU is enabled.
predictDeviceSet == IF GPUs \cap on # {} THEN GPUs \cap on ELSE CPUs \cap on

\* The placement the worker reports; a worker of an older version reports none.
DeviceIDs(m) == IF reports THEN residents[m] ELSE {}

\* Only the residents that would be covered entirely.
CoveredOnly(target) ==
  IF predictDeviceSet = {} THEN {}
  ELSE {m \in DOMAIN residents :
          IF m = target THEN ~ (DeviceIDs(m) \subseteq predictDeviceSet)
          ELSE DeviceIDs(m) \subseteq predictDeviceSet}

\* The target itself when it sits on a device it may no longer use, and every
\* other model that overlaps the set or whose placement is unknown.
residentsBlockingLoad(target) ==
  IF predictDeviceSet = {} THEN {}
  ELSE {m \in DOMAIN residents :
          IF m = target THEN ~ (DeviceIDs(m) \subseteq predictDeviceSet)
          ELSE DeviceIDs(m) = {} \/ DeviceIDs(m) \cap predictDeviceSet # {}}

needsLoad(m) == m \notin DOMAIN residents \/ m \in residentsBlockingLoad(m)
Drop(gone) == [m \in DOMAIN residents \ gone |-> residents[m]]

\* The gate is read once, and the row goes on unless a blocker is serving (it bounces
\* then, and nothing changes).
PlanDispatch(m) ==
  /\ dispatch = NoDispatch /\ residentsBlockingLoad(m) \cap serving = {}
  /\ dispatch' = [model |-> m, set |-> predictDeviceSet, left |-> residentsBlockingLoad(m), load |-> needsLoad(m)]
  /\ UNCHANGED <<residents, serving, shifted>>

Unloads(n) == residents' = Drop({n}) /\ shifted' = shifted \ {n}

\* The blockers go one by one, each in a round-trip to the worker.  One that is
\* refused, or finds nothing to evict, bounces the row: those before it are gone.
EvictBlocker(n) ==
  /\ n \in dispatch.left
  /\ \/ /\ n \in DOMAIN residents /\ Unloads(n)
        /\ dispatch' = [dispatch EXCEPT !.left = @ \ {n}]
     \/ dispatch' = NoDispatch /\ UNCHANGED <<residents, shifted>>
  /\ UNCHANGED serving

Starts == serving' = serving \cup {dispatch.model} /\ dispatch' = NoDispatch
Cleared == dispatch # NoDispatch /\ dispatch.left = {}

\* The request names no device: the worker loads onto what is enabled when it gets
\* there, and fails when nothing is.
LoadModel ==
  /\ Cleared /\ dispatch.load /\ predictDeviceSet # {}
  /\ LET m == dispatch.model IN
     /\ residents' = [n \in DOMAIN residents \cup {m} |-> IF n = m THEN predictDeviceSet ELSE residents[n]]
     /\ shifted' = IF predictDeviceSet \subseteq dispatch.set THEN shifted \ {m} ELSE shifted \cup {m}
  /\ Starts

LoadFails == Cleared /\ dispatch.load /\ dispatch' = NoDispatch /\ UNCHANGED <<residents, serving, shifted>>
StartWarm == Cleared /\ ~ dispatch.load /\ Starts /\ UNCHANGED <<residents, shifted>>

\* The idle evictor or the operator, on a goroutine of its own.
EvictIdle(n) == n \in DOMAIN residents \ serving /\ Unloads(n) /\ UNCHANGED <<serving, dispatch>>

JobEnds(m) == m \in serving /\ serving' = serving \ {m} /\ UNCHANGED <<residents, dispatch, shifted>>

GateNext ==
  \/ \E m \in LModels : PlanDispatch(m) \/ EvictBlocker(m) \/ EvictIdle(m) \/ JobEnds(m)
  \/ LoadModel \/ LoadFails \/ StartWarm

ToggleDevice(d) ==
  /\ on' = IF d \in on THEN on \ {d} ELSE on \cup {d}
  /\ UNCHANGED <<reports, sizing, loadVars>>

------------------------------------------------------------------------------
(* Sizing, over the bounded inputs.                                        *)

\* The devices a job computes on: the enabled GPUs, or one enabled CPU.
deviceSet ==
  IF GPUs \cap on # {} THEN GPUs \cap on
  ELSE IF CPUs \cap on # {} THEN {CHOOSE d \in CPUs \cap on : TRUE} ELSE {}

\* What is free on them: on each the total less what the heartbeat reports used (here
\* the same on every device), and from the sum the reservations of the loads in flight.
freeMemoryBytes(total, used, reserved) ==
  Max({0, Cardinality(deviceSet) * Max({0, total - used}) - reserved})

\* The load's own override, else what the worker registered with, else 75.
effectiveHeadroomPct(override, registered) ==
  IF override \in 1..100 THEN override ELSE IF registered \in 1..100 THEN registered ELSE 75

memoryEligible(free, base, resident) == base <= 0 \/ resident \/ free >= base

\* As many slots as answer a full round within the budget, up to the cap.
LatencySlots(graphSecs) ==
  Min({SlotsCap, Max({1, IF graphSecs > 0 THEN BudgetSecs \div graphSecs ELSE SlotsCap})})

plannedPoolSize(free, base, per, pct, graphSecs) ==
  LET slots == LatencySlots(graphSecs)
      headroom == ((free - base) * pct) \div 100
  IN  IF per <= 0 \/ base <= 0 THEN slots
      ELSE IF headroom <= 0 THEN 1
      ELSE Min({slots, 1 + headroom \div per})

projectedLoadBytes(free, base, per, pct, graphSecs) ==
  IF base <= 0 THEN 0
  ELSE IF per <= 0 THEN base
  ELSE base + (plannedPoolSize(free, base, per, pct, graphSecs) - 1) * per

\* The worker's memory as one reading finds it: what the heartbeat says is used and
\* what other loads have reserved may differ at the next.
Reading(total) == {freeMemoryBytes(total, used, reserved) : used \in {0, 1}, reserved \in {0, 1}}

\* Placement admits a row on the memory it finds, or because the model is resident (and
\* may be evicted before the dispatch); base, per and secs were measured of the model.
AdmitLoad ==
  /\ sizing = <<>> /\ residents = <<>> /\ dispatch = NoDispatch
  /\ \E base, per, total \in 0..MaxBytes, override \in Headrooms \cup {0}, secs \in 0..2, resident \in BOOLEAN :
       \E free \in Reading(total) :
         /\ memoryEligible(free, base, resident)
         /\ sizing' = [stage |-> "placed", base |-> base, per |-> per, total |-> total, secs |-> secs,
                       pct |-> effectiveHeadroomPct(override, 0), free |-> free, less |-> resident,
                       bytes |-> 0, slots |-> 0, more |-> FALSE]

\* The dispatch reserves what the load is projected to take; less: history, the memory
\* found is not what the row was admitted on, or it was not admitted on memory.
ReserveLoad ==
  /\ sizing # <<>> /\ sizing.stage = "placed"
  /\ \E free \in Reading(sizing.total) :
       sizing' = [sizing EXCEPT !.stage = "reserved", !.free = free, !.less = @ \/ free < sizing.free,
                    !.bytes = projectedLoadBytes(free, sizing.base, sizing.per, sizing.pct, sizing.secs)]

\* The pool is planned anew when the load is sent, after the evictions; more: history,
\* memory was freed since the reservation.
SizePool ==
  /\ sizing # <<>> /\ sizing.stage = "reserved"
  /\ \E free \in Reading(sizing.total) :
       sizing' = [sizing EXCEPT !.stage = "sized", !.free = free, !.more = free > sizing.free,
                    !.slots = plannedPoolSize(free, sizing.base, sizing.per, sizing.pct, sizing.secs)]

\* The device-set gate reads nothing of a sizing, which ends where it began.
PlanNext ==
  \/ AdmitLoad /\ UNCHANGED <<on, reports, loadVars>>
  \/ (ReserveLoad \/ SizePool) /\ UNCHANGED <<on, reports, loadVars>>
  \/ sizing = <<>> /\ GateNext /\ UNCHANGED <<on, reports, sizing>>
  \/ \E d \in Devices : ToggleDevice(d)

PlanSpec == PlanInit /\ [][PlanNext]_planVars

------------------------------------------------------------------------------
(* Properties.                                                             *)

\* Two models never share a device, over any sequence of toggles, evictions that
\* fail half-way and loads, unless the one loaded last (shifted) landed outside the set
\* its dispatch had cleared, because the operator enabled a device, or disabled the last
\* GPU, while the dispatch was evicting or the worker loading.
ResidentsDisjoint ==
  \A m, n \in DOMAIN residents : m # n /\ {m, n} \cap shifted = {} => residents[m] \cap residents[n] = {}

\* The stronger statement, for any toggle at any moment.  It does not hold: the load
\* request names no device and the gate is not read again.
NeverShared ==
  \A m, n \in DOMAIN residents : m # n => residents[m] \cap residents[n] = {}

\* What is projected fits the memory it was read from, when that is still what admitted
\* the row; and the pool that is loaded takes no more than was reserved for it, unless
\* memory was freed between the two readings.
ReservedEnough ==
  sizing # <<>> =>
    /\ sizing.stage = "reserved" /\ ~ sizing.less => sizing.bytes <= sizing.free
    /\ sizing.stage = "sized" /\ ~ sizing.more /\ sizing.base > 0 =>
         sizing.base + (sizing.slots - 1) * sizing.per <= sizing.bytes

\* The stronger statement, for any reading.  It does not hold: the reservation is made
\* before the evictions and the pool is planned after them, with the memory they freed.
ReservedAlways ==
  sizing # <<>> /\ sizing.stage = "sized" /\ sizing.base > 0 =>
    sizing.base + (sizing.slots - 1) * sizing.per <= sizing.bytes

\* A loaded pool wastes nothing and oversteps nothing: it has a slot, its slots after the
\* first stay within the watermark of the memory it was planned on, and one more slot
\* would pass the watermark or the latency budget.
PoolSized ==
  sizing # <<>> /\ sizing.stage = "sized" =>
    LET above == (sizing.slots - 1) * sizing.per
        watermark == (sizing.free - sizing.base) * sizing.pct
    IN  /\ sizing.slots \in 1..SlotsCap
        /\ sizing.base > 0 /\ above > 0 => 100 * above <= watermark
        /\ sizing.slots < LatencySlots(sizing.secs) => 100 * (above + sizing.per) > watermark

\* What a load leaves behind is sound: devices of their own for every model, a pool of
\* the size the measurements allow, and no more than was reserved for it
\* (residentsBlockingLoad, plannedPoolSize, projectedLoadBytes).
LoadFits == ResidentsDisjoint /\ PoolSized /\ ReservedEnough
=============================================================================
