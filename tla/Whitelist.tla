------------------------------- MODULE Whitelist -------------------------------
(***************************************************************************)
(* The operator's device toggles of one worker: the persisted rows of      *)
(* worker_device_enabled, the toggle handlers (workerops.go), which        *)
(* persist, recompute and push under the worker's re-estimation lock, and  *)
(* the resync of Hub.Connect, which recomputes and pushes under none.      *)
(* The worker keeps what it was told last on its current stream.           *)
(***************************************************************************)
EXTENDS Naturals, FiniteSets

CONSTANTS Devices,   \* what the worker advertises
          Togglers,  \* concurrent operator requests, one toggle each
          MaxStreams \* bound: connections over time

ASSUME WhitelistAssumption == MaxStreams \in Nat \ {0}

VARIABLES
  devRows,   \* device -> "absent", "on" or "off"
  held,      \* the whitelist the worker applies: [all, ids]
  streamNo,  \* the current stream's number; even while disconnected
  resync,    \* Connect's resync: [pc, set]
  toggler,   \* toggler[t]: [pc, to (the stream it looked up), set]
  reLock,    \* the re-estimation lock of the worker is taken
  raced      \* history: a toggle ran during this stream's resync

wlVars == <<devRows, held, streamNo, resync, toggler, reLock, raced>>

AllDevices == [all |-> TRUE, ids |-> {}]

WlInit ==
  /\ devRows = [d \in Devices |-> "absent"]
  /\ held = AllDevices /\ streamNo = 0
  /\ resync = [pc |-> "done", set |-> AllDevices]
  /\ toggler = [t \in Togglers |-> [pc |-> "idle", to |-> 0, set |-> AllDevices]]
  /\ reLock = FALSE /\ raced = FALSE

connected == streamNo % 2 = 1
toggling  == \E t \in Togglers : toggler[t].pc \in {"persist", "read", "push", "release"}

\* No rows: everything; otherwise the exact subset, a device without a row
\* being enabled.
ComputeEnabledDevices(rows) ==
  IF \A d \in Devices : rows[d] = "absent" THEN AllDevices
  ELSE [all |-> FALSE, ids |-> {d \in Devices : rows[d] # "off"}]

Effective(set) == IF set.all THEN Devices ELSE set.ids

-----------------------------------------------------------------------------
WlConnect ==
  /\ ~connected /\ streamNo < 2 * MaxStreams
  /\ streamNo' = streamNo + 1 /\ held' = AllDevices
  /\ resync' = [resync EXCEPT !.pc = "read"] /\ raced' = toggling
  /\ UNCHANGED <<devRows, toggler, reLock>>

ResyncRead ==
  /\ resync.pc = "read"
  /\ resync' = [pc |-> "push", set |-> ComputeEnabledDevices(devRows)]
  /\ UNCHANGED <<devRows, held, streamNo, toggler, reLock, raced>>

ResyncPush ==
  /\ resync.pc = "push" /\ resync' = [resync EXCEPT !.pc = "done"]
  /\ held' = IF connected THEN resync.set ELSE held
  /\ UNCHANGED <<devRows, streamNo, toggler, reLock, raced>>

WlDisconnect ==
  /\ connected /\ resync.pc = "done" /\ streamNo' = streamNo + 1
  /\ UNCHANGED <<devRows, held, resync, toggler, reLock, raced>>

\* Mutant of ToggleBegin: the lock is not asked for.
ToggleBeginUnlocked(t) ==
  /\ toggler[t].pc = "idle" /\ connected
  /\ reLock' = TRUE /\ raced' = (raced \/ resync.pc # "done")
  /\ toggler' = [toggler EXCEPT ![t] = [pc |-> "persist", to |-> streamNo, set |-> AllDevices]]
  /\ UNCHANGED <<devRows, held, streamNo, resync>>

TryReestimateLock == ~reLock /\ reLock' = TRUE

\* setWorkerDeviceEnabled, setWorkerEnabled: the worker must be in the fleet
\* and its lock free; otherwise the request is refused (idle again).
ToggleBegin(t) ==
  /\ toggler[t].pc = "idle" /\ connected
  /\ TryReestimateLock /\ raced' = (raced \/ resync.pc # "done")
  /\ toggler' = [toggler EXCEPT ![t] = [pc |-> "persist", to |-> streamNo, set |-> AllDevices]]
  /\ UNCHANGED <<devRows, held, streamNo, resync>>

\* The upsert of one device's row, and of every advertised device's in one
\* transaction.
SetWorkerDeviceEnabled(d, v) == devRows' = [devRows EXCEPT ![d] = v]
SetWorkerDevicesEnabledBulk(v) == devRows' = [d \in Devices |-> v]

TogglePersist(t) ==
  /\ toggler[t].pc = "persist"
  /\ \E v \in {"on", "off"} : \/ SetWorkerDevicesEnabledBulk(v)
                            \/ \E d \in Devices : SetWorkerDeviceEnabled(d, v)
  /\ toggler' = [toggler EXCEPT ![t].pc = "read"]
  /\ UNCHANGED <<held, streamNo, resync, reLock, raced>>

\* pushEnabledDevices: the rows are read back and the result sent to the
\* stream that was looked up at the start.
ToggleRead(t) ==
  /\ toggler[t].pc = "read"
  /\ toggler' = [toggler EXCEPT ![t].pc = "push", ![t].set = ComputeEnabledDevices(devRows)]
  /\ UNCHANGED <<devRows, held, streamNo, resync, reLock, raced>>

TogglePush(t) ==
  /\ toggler[t].pc = "push" /\ toggler' = [toggler EXCEPT ![t].pc = "release"]
  /\ held' = IF toggler[t].to = streamNo THEN toggler[t].set ELSE held
  /\ UNCHANGED <<devRows, streamNo, resync, reLock, raced>>

ToggleRelease(t) ==
  /\ toggler[t].pc = "release" /\ toggler' = [toggler EXCEPT ![t].pc = "done"]
  /\ reLock' = FALSE
  /\ UNCHANGED <<devRows, held, streamNo, resync, raced>>

WlNext ==
  \/ WlConnect \/ ResyncRead \/ ResyncPush \/ WlDisconnect
  \/ \E t \in Togglers : ToggleBegin(t) \/ TogglePersist(t) \/ ToggleRead(t) \/ TogglePush(t) \/ ToggleRelease(t)

WlSpec == WlInit /\ [][WlNext]_wlVars

-----------------------------------------------------------------------------
WlTypeOK ==
  /\ devRows \in [Devices -> {"absent", "on", "off"}]
  /\ held \in [all : BOOLEAN, ids : SUBSET Devices]
  /\ streamNo \in 0..2 * MaxStreams /\ reLock \in BOOLEAN

\* A worker ends up with the operator's persisted intent: once the resync of
\* its stream and the toggles are through, it applies exactly the devices that
\* no row disables, in whatever order the toggles and reconnects came, as long
\* as no toggle ran during the stream's own resync.
WhitelistSettles ==
  (connected /\ ~raced /\ resync.pc = "done" /\ ~toggling) =>
    Effective(held) = {d \in Devices : devRows[d] # "off"}

\* What hub.go says of the resync on connect: it "runs on every reconnect so the
\* worker's in-memory set matches MASS's persisted intent".
ResyncMatchesIntent ==
  (connected /\ resync.pc = "done" /\ ~toggling) => Effective(held) = {d \in Devices : devRows[d] # "off"}
=============================================================================
