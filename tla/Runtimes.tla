-------------------------------- MODULE Runtimes --------------------------------
(***************************************************************************)
(* Runtime gateways (internal/runtimes): packages an operator installs,    *)
(* starts, stops and uninstalls, the subprocess of each, and the watcher   *)
(* that notices a subprocess that died.  Every operation takes the         *)
(* manager's lock for moments only, so the operations of several requests  *)
(* and the boot's auto-start interleave at every store call, unpack and    *)
(* handshake.                                                              *)
(***************************************************************************)
EXTENDS Integers, FiniteSets

CONSTANTS
  Kinds,         \* runtime names
  Callers,       \* requests that run at once
  MaxGateways,   \* bound: subprocesses launched
  MaxExits,      \* bound: subprocesses that die by themselves
  MaxBoots       \* bound: restarts of MASS

ASSUME RuntimesAssumption == MaxGateways \in Nat /\ MaxExits \in Nat /\ MaxBoots \in Nat

VARIABLES
  rtRow,       \* the runtimes table: [Kinds -> "none" or the auto_start flag]
  unpacked,    \* the kinds whose artifacts are on disk
  installed,   \* Manager.installed: like rtRow
  running,     \* Manager.running: [Kinds -> a gateway, or 0]
  gateways,    \* LoadedGateways ever made: [kind, alive, watch] on an initial part of 1..MaxGateways
  caller,      \* [Callers -> the operation it is in]
  exits, boots

rtVars == <<rtRow, unpacked, installed, running, gateways, caller, exits, boots>>

Flags == {"none", "auto", "manual"}
Gateways == 1..MaxGateways
NoCall == [op |-> "none", kind |-> CHOOSE k \in Kinds : TRUE, at |-> "idle", gw |-> 0, rows |-> <<>>, flag |-> "none"]
Ops == {"none", "install", "start", "stop", "uninstall", "autostart"}

RtTypeOK ==
  /\ rtRow \in [Kinds -> Flags] /\ installed \in [Kinds -> Flags] /\ unpacked \subseteq Kinds
  /\ DOMAIN gateways \subseteq Gateways /\ running \in [Kinds -> DOMAIN gateways \cup {0}]
  /\ \A g \in DOMAIN gateways : /\ gateways[g].kind \in Kinds /\ gateways[g].alive \in BOOLEAN
                                /\ gateways[g].watch \in {"none", "poll", "seen", "off"}
  /\ \A c \in Callers : /\ caller[c].op \in Ops /\ caller[c].kind \in Kinds
                        /\ caller[c].at \in {"idle", "unpack", "save", "reload", "launch", "init", "close", "delete", "write"}
  /\ exits \in 0..MaxExits /\ boots \in 0..MaxBoots

RtInit ==
  /\ rtRow = [k \in Kinds |-> "none"] /\ unpacked = {}
  /\ installed = [k \in Kinds |-> "none"] /\ running = [k \in Kinds |-> 0]
  /\ gateways = <<>> /\ caller = [c \in Callers |-> NoCall] /\ exits = 0 /\ boots = 0

------------------------------------------------------------------------------

Returns(c) == caller' = [caller EXCEPT ![c] = NoCall]
Goto(c, at) == caller' = [caller EXCEPT ![c].at = at]
IsInstalled(k) == installed[k] # "none"

\* A request arrives.  Start, and SetAutoStart, read the manifest first and are
\* refused without one; Start of a running gateway returns it.
Begin(c, op, k) ==
  /\ caller[c].op = "none"
  /\ \/ /\ op = "install" /\ ~IsInstalled(k)
        /\ caller' = [caller EXCEPT ![c] = [NoCall EXCEPT !.op = op, !.kind = k, !.at = "unpack"]]
     \/ /\ op = "start" /\ IsInstalled(k) /\ running[k] = 0
        /\ caller' = [caller EXCEPT ![c] = [NoCall EXCEPT !.op = op, !.kind = k, !.at = "launch"]]
     \/ /\ op = "autostart" /\ IsInstalled(k)
        /\ \E flag \in {"auto", "manual"} :
             caller' = [caller EXCEPT ![c] = [NoCall EXCEPT !.op = op, !.kind = k, !.at = "write", !.flag = flag]]
  /\ UNCHANGED <<rtRow, unpacked, installed, running, gateways, exits, boots>>

\* Stop, and Uninstall which stops first: the entry goes under the lock and the
\* gateway is closed after it.  Uninstall goes on when nothing runs.
Stop(c, op, k) ==
  /\ caller[c].op = "none"
  /\ op = "stop" => running[k] # 0
  /\ op = "uninstall" => IsInstalled(k)
  /\ running' = [running EXCEPT ![k] = 0]
  /\ caller' = [caller EXCEPT ![c] = [NoCall EXCEPT !.op = op, !.kind = k, !.gw = running[k],
                                                    !.at = IF running[k] = 0 THEN "delete" ELSE "close"]]
  /\ UNCHANGED <<rtRow, unpacked, installed, gateways, exits, boots>>

\* extractPackage after its check: old artifacts are cleared and the archive is
\* unpacked, or fails half-way and is cleared again.
extractPackage(c) ==
  /\ caller[c].at = "unpack"
  /\ \/ unpacked' = unpacked \cup {caller[c].kind} /\ Goto(c, "save")
     \/ unpacked' = unpacked \ {caller[c].kind} /\ Returns(c)
  /\ UNCHANGED <<rtRow, installed, running, gateways, exits, boots>>

\* UpsertRuntime, and the rows reload reads after it.  A failed write clears the artifacts.
UpsertRuntime(c) ==
  /\ caller[c].at = "save"
  /\ \/ /\ rtRow' = [rtRow EXCEPT ![caller[c].kind] = "auto"]
        /\ caller' = [caller EXCEPT ![c].at = "reload", ![c].rows = rtRow']
        /\ UNCHANGED unpacked
     \/ unpacked' = unpacked \ {caller[c].kind} /\ Returns(c) /\ UNCHANGED rtRow
  /\ UNCHANGED <<installed, running, gateways, exits, boots>>

\* reload replaces the installed map by the rows it read.  An install goes on to start.
reload(c) ==
  /\ caller[c].at = "reload"
  /\ installed' = caller[c].rows
  /\ IF caller[c].op = "install" /\ installed'[caller[c].kind] # "none" /\ running[caller[c].kind] = 0
     THEN caller' = [caller EXCEPT ![c].at = "launch", ![c].rows = <<>>] ELSE Returns(c)
  /\ UNCHANGED <<rtRow, unpacked, running, gateways, exits, boots>>

\* startGateway spawns the subprocess, if its binary is there.
startGateway(c) ==
  /\ caller[c].at = "launch"
  /\ LET g == Cardinality(DOMAIN gateways) + 1 IN
     \/ /\ caller[c].kind \notin unpacked /\ Returns(c) /\ UNCHANGED gateways
     \/ /\ caller[c].kind \in unpacked /\ g \in Gateways
        /\ gateways' = [i \in 1..g |-> IF i < g THEN gateways[i]
                                       ELSE [kind |-> caller[c].kind, alive |-> TRUE, watch |-> "none"]]
        /\ caller' = [caller EXCEPT ![c].at = "init", ![c].gw = g]
  /\ UNCHANGED <<rtRow, unpacked, installed, running, exits, boots>>

\* The handshake fails (the subprocess is killed), or the gateway is registered
\* under its kind with a watcher, and its manifest too.
initGateway(c) ==
  LET k == caller[c].kind
      g == caller[c].gw
  IN  /\ caller[c].at = "init" /\ Returns(c)
      /\ \/ /\ gateways' = [gateways EXCEPT ![g].alive = FALSE, ![g].watch = "off"]
            /\ UNCHANGED <<running, installed>>
         \/ /\ gateways[g].alive
            /\ gateways' = [gateways EXCEPT ![g].watch = "poll"]
            /\ running' = [running EXCEPT ![k] = g]
            /\ installed' = [installed EXCEPT ![k] = IF @ = "none" THEN "manual" ELSE @]
      /\ UNCHANGED <<rtRow, unpacked, exits, boots>>

\* LoadedGateway.Close.
Close(c) ==
  /\ caller[c].at = "close"
  /\ gateways' = [gateways EXCEPT ![caller[c].gw].alive = FALSE]
  /\ IF caller[c].op = "uninstall" THEN Goto(c, "delete") ELSE Returns(c)
  /\ UNCHANGED <<rtRow, unpacked, installed, running, exits, boots>>

\* DeleteRuntime, the artifacts, and the rows reload reads.
DeleteRuntime(c) ==
  /\ caller[c].at = "delete"
  /\ rtRow' = [rtRow EXCEPT ![caller[c].kind] = "none"]
  /\ unpacked' = unpacked \ {caller[c].kind}
  /\ caller' = [caller EXCEPT ![c].at = "reload", ![c].rows = rtRow']
  /\ UNCHANGED <<installed, running, gateways, exits, boots>>

\* SetAutoStart: the row, then the manifest it read before, under the lock again.
SetAutoStart(c) ==
  /\ caller[c].at = "write"
  /\ rtRow' = [rtRow EXCEPT ![caller[c].kind] = IF @ = "none" THEN @ ELSE caller[c].flag]
  /\ installed' = [installed EXCEPT ![caller[c].kind] = caller[c].flag]
  /\ Returns(c)
  /\ UNCHANGED <<unpacked, running, gateways, exits, boots>>

------------------------------------------------------------------------------
(* Subprocesses and their watchers.                                        *)

GatewayExits(g) ==
  /\ exits < MaxExits /\ exits' = exits + 1
  /\ g \in DOMAIN gateways /\ gateways[g].alive
  /\ gateways' = [gateways EXCEPT ![g].alive = FALSE]
  /\ UNCHANGED <<rtRow, unpacked, installed, running, caller, boots>>

\* A poll of watchGatewayExit: done when the gateway was replaced or stopped.
watchGatewayExit(g) ==
  /\ g \in DOMAIN gateways /\ gateways[g].watch = "poll"
  /\ \/ running[gateways[g].kind] # g /\ gateways' = [gateways EXCEPT ![g].watch = "off"]
     \/ /\ running[gateways[g].kind] = g /\ ~gateways[g].alive
        /\ gateways' = [gateways EXCEPT ![g].watch = "seen"]
  /\ UNCHANGED <<rtRow, unpacked, installed, running, caller, exits, boots>>

RemoveUnchecked(g) == gateways[g].watch = "seen"

\* The lock again: still this gateway?
StillCurrent(g) == running[gateways[g].kind] = g

\* The entry of the dead gateway goes.
RemoveDead(g) ==
  /\ g \in DOMAIN gateways /\ gateways[g].watch = "seen"
  /\ gateways' = [gateways EXCEPT ![g].watch = "off"]
  /\ running' = IF StillCurrent(g) THEN [running EXCEPT ![gateways[g].kind] = 0] ELSE running
  /\ UNCHANGED <<rtRow, unpacked, installed, caller, exits, boots>>

\* MASS ends (Shutdown, or the guard of superviseChild, ends the gateways) and starts:
\* NewManager reloads, AutoStartAll starts what is flagged.
Reboot ==
  /\ boots < MaxBoots /\ boots' = boots + 1
  /\ gateways' = [g \in DOMAIN gateways |-> [gateways[g] EXCEPT !.alive = FALSE, !.watch = "off"]]
  /\ running' = [k \in Kinds |-> 0]
  /\ installed' = rtRow
  /\ \E c \in Callers : caller' = [d \in Callers |->
       LET flagged == {k \in Kinds : rtRow[k] = "auto"}
       IN  IF d = c /\ flagged # {}
           THEN [NoCall EXCEPT !.op = "start", !.kind = CHOOSE k \in flagged : TRUE, !.at = "launch"] ELSE NoCall]
  /\ UNCHANGED <<rtRow, unpacked, exits>>

RtNext ==
  \/ \E c \in Callers, k \in Kinds : \/ \E op \in {"install", "start", "autostart"} : Begin(c, op, k)
                                     \/ \E op \in {"stop", "uninstall"} : Stop(c, op, k)
  \/ \E c \in Callers : \/ extractPackage(c) \/ UpsertRuntime(c) \/ reload(c) \/ startGateway(c) \/ initGateway(c)
                        \/ Close(c) \/ DeleteRuntime(c) \/ SetAutoStart(c)
  \/ \E g \in Gateways : GatewayExits(g) \/ watchGatewayExit(g) \/ RemoveDead(g)
  \/ Reboot

RtSpec == RtInit /\ [][RtNext]_rtVars

------------------------------------------------------------------------------
(* Properties.                                                             *)

\* A watcher never takes a living gateway off the manager: not the one that replaced
\* its own between the moment it saw its own dead and the moment it got the lock.
WatcherSparesLiving ==
  [][ \A g \in DOMAIN gateways : gateways[g].watch = "seen" /\ gateways'[g].watch = "off" =>
        \A k \in Kinds : running[k] # 0 /\ running[k] # g /\ gateways[running[k]].alive /\ boots' = boots
                         => running'[k] = running[k] ]_rtVars

\* A living gateway is one the manager runs, or a request is at work on it: nothing
\* else would ever close it.
NoStrayGateway ==
  \A g \in DOMAIN gateways : gateways[g].alive =>
    running[gateways[g].kind] = g \/ \E c \in Callers : caller[c].gw = g
=============================================================================
