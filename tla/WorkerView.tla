------------------------------ MODULE WorkerView ------------------------------
(***************************************************************************)
(* What the scheduler believes about one worker's loaded models and cache: *)
(* StreamWorker.loaded (stream_worker.go), refreshed by heartbeats,        *)
(* stamped by LoadModel, and read by the idle evictor, by the cache        *)
(* reconciliation of the hub and by the dashboard.  The worker itself is   *)
(* external: it loads, unloads and runs jobs on its own and tells the hub  *)
(* through one ordered stream, which the Connect handler reads one message *)
(* at a time while the callers of LoadModel and UnloadModel run beside it. *)
(***************************************************************************)
EXTENDS Naturals, Sequences, FiniteSets, SequencesExt

CONSTANTS Models,     \* model ids
          Files,      \* Files[m]: the store-relative paths backing m, as component sequences
          CachePaths, \* the paths a worker may report as cached
          StoreSets,  \* the contents the models directory takes
          Ttl,        \* the idle-eviction TTL, in ticks
          MaxTick,    \* bound: ticks of the clock
          MaxUplink   \* bound: messages on the stream

ASSUME ViewAssumption ==
  /\ Ttl \in Nat \ {0} /\ MaxTick \in Nat /\ MaxUplink \in Nat \ {0}
  /\ Files \in [Models -> SUBSET CachePaths] /\ StoreSets \subseteq SUBSET CachePaths

Never == 0   \* the zero time.Time; clock readings start at 1

VARIABLES
  tick,      \* the clock
  truth,     \* truth[m]: "out", "idle" or "busy" on the worker (external)
  uplink,    \* the stream: heartbeats, load results and unload acks
  view,      \* StreamWorker.loaded: model -> [active, source, idle, files]
  loader,    \* the dispatch goroutine in LoadModel: [pc, model]
  evictor,   \* evictIdleOnce: [pc, cutoff, left, model], left being the victims of its copy still
             \* to unload; as history, readAt and busyAt: the clock and the victims'
             \* lastBusy at the copy
  shown,     \* the loaded set as of the last NotifyLoadedChanged
  store,     \* the files in the models directory
  memo,      \* modelscan: the memoized walk of it, or NoMemo
  lastBusy,  \* history: when a heartbeat last reported the model busy
  dropped    \* history: the last reconciliation, [paths, canon, backing]

viewVars == <<tick, truth, uplink, view, loader, evictor, shown, store, memo, lastBusy, dropped>>

Loaded == DOMAIN view
Rendered(v) == [m \in DOMAIN v |-> v[m].active]

NoDrop == [paths |-> {}, canon |-> {}, backing |-> {}]
NoMemo == {<<"no", "memo">>}
NoPass == [pc |-> "idle", cutoff |-> 0, left |-> {}, model |-> CHOOSE m \in Models : TRUE,
           readAt |-> 0, busyAt |-> [m \in Models |-> Never]]

ViewInit ==
  /\ tick = 1 /\ truth \in [Models -> {"out", "idle"}] /\ uplink = <<>>
  /\ view = [m \in {} |-> 0] /\ shown = [m \in {} |-> 0]
  /\ loader = [pc |-> "idle", model |-> CHOOSE m \in Models : TRUE]
  /\ evictor = NoPass
  /\ store \in StoreSets /\ memo = NoMemo
  /\ lastBusy = [m \in Models |-> Never]
  /\ dropped = NoDrop

-----------------------------------------------------------------------------
(* The worker, external.  It may drop a model of its own accord.            *)

WorkerWorks(m) ==
  /\ \/ truth[m] = "idle" /\ \E s \in {"busy", "out"} : truth' = [truth EXCEPT ![m] = s]
     \/ truth[m] = "busy" /\ truth' = [truth EXCEPT ![m] = "idle"]
  /\ UNCHANGED <<tick, uplink, view, loader, evictor, shown, store, memo, lastBusy, dropped>>

WorkerLoads(m) ==
  /\ loader.pc = "sent" /\ loader.model = m /\ Len(uplink) < MaxUplink
  /\ truth' = [truth EXCEPT ![m] = IF @ = "out" THEN "idle" ELSE @]
  /\ uplink' = Append(uplink, [kind |-> "loaded", models |-> {m}])
  /\ loader' = [loader EXCEPT !.pc = "wait"]
  /\ UNCHANGED <<tick, view, evictor, shown, store, memo, lastBusy, dropped>>

\* The worker unloads the model, or answers with an error and keeps it.
WorkerUnloads(m) ==
  /\ evictor.pc = "sent" /\ evictor.model = m /\ Len(uplink) < MaxUplink
  /\ \/ /\ truth' = [truth EXCEPT ![m] = "out"]
        /\ uplink' = Append(uplink, [kind |-> "unloaded", models |-> {m}])
     \/ truth' = truth /\ uplink' = Append(uplink, [kind |-> "refused", models |-> {m}])
  /\ evictor' = [evictor EXCEPT !.pc = "wait"]
  /\ UNCHANGED <<tick, view, loader, shown, store, memo, lastBusy, dropped>>

\* A heartbeat reports the loaded models, which of them are busy, and the cache.
WorkerBeats ==
  /\ Len(uplink) < MaxUplink
  /\ uplink' = Append(uplink, [kind |-> "beat", models |-> {m \in Models : truth[m] # "out"},
                               busy |-> {m \in Models : truth[m] = "busy"}, cache |-> CachePaths])
  /\ UNCHANGED <<tick, truth, view, loader, evictor, shown, store, memo, lastBusy, dropped>>

Tick ==
  /\ tick < MaxTick /\ tick' = tick + 1
  /\ UNCHANGED <<truth, uplink, view, loader, evictor, shown, store, memo, lastBusy, dropped>>

\* Models are installed and removed.  Nothing invalidates the memo.
StoreChanges ==
  /\ store' \in StoreSets \ {store}
  /\ UNCHANGED <<tick, truth, uplink, view, loader, evictor, shown, memo, lastBusy, dropped>>

\* walk: every file, or an error.
Walk(canon) == canon = store /\ memo' = store

\* Scanner.Set: the memo while it is fresh, else a walk; a walk that fails
\* yields the empty set and keeps the memo.
ScanSet(canon) ==
  \/ memo # NoMemo /\ canon = memo /\ memo' = memo
  \/ Walk(canon)
  \/ canon = {} /\ memo' = memo

-----------------------------------------------------------------------------
(* Heartbeat ingestion, one step of the Connect handler.                    *)

\* Mutant of MergeEntry: a busy heartbeat does not clear IdleSince.
MergeEntryKeepsIdle(m, beat) ==
  [active |-> IF m \in beat.busy THEN 1 ELSE 0,
   source |-> IF m \in Loaded THEN view[m].source ELSE "",
   idle   |-> IF m \in Loaded /\ view[m].idle # Never THEN view[m].idle ELSE tick,
   files  |-> Files[m]]

\* The heartbeat decides what is loaded and active; Source and the start of
\* an idle period are MASS-side and carried over.
MergeEntry(m, beat) ==
  [active |-> IF m \in beat.busy THEN 1 ELSE 0,
   source |-> IF m \in Loaded THEN view[m].source ELSE "",
   idle   |-> IF m \in beat.busy THEN Never
              ELSE IF m \in Loaded /\ view[m].idle # Never THEN view[m].idle ELSE tick,
   files  |-> Files[m]]

\* Mutant of sameLoadedSet: only the identities are compared.
sameLoadedSetById(v, w) == DOMAIN v = DOMAIN w

sameLoadedSet(v, w) == Rendered(v) = Rendered(w)

\* dir is a directory above path.
covers(dir, path) == IsStrictPrefix(dir, path)

isProtected(p, live) == \E q \in live : p = q \/ covers(q, p) \/ covers(p, q)

\* The paths behind every listed model.
loadedFiles(v) == UNION {v[m].files : m \in DOMAIN v}

\* maybeReconcile: the reported paths to drop; none while the store is unknown.
StalePaths(cache, canon, v) ==
  {p \in cache : canon # {} /\ p \notin canon /\ ~isProtected(p, loadedFiles(v))}

\* ApplyHeartbeat, NotifyLoadedChanged if the set changed, and maybeReconcile.
ReceiveBeat ==
  /\ uplink # <<>> /\ Head(uplink).kind = "beat"
  /\ \E canon \in {store, memo, {}} \ {NoMemo} :
     LET beat == Head(uplink)
         next == [m \in beat.models |-> MergeEntry(m, beat)]
     IN  /\ view' = next
         /\ shown' = IF sameLoadedSet(view, next) THEN shown ELSE Rendered(next)
         /\ lastBusy' = [m \in Models |-> IF m \in beat.busy THEN tick ELSE lastBusy[m]]
         /\ ScanSet(canon)
         /\ dropped' = [paths |-> StalePaths(beat.cache, canon, next), canon |-> canon,
                        backing |-> UNION {Files[m] : m \in beat.models}]
  /\ uplink' = Tail(uplink)
  /\ UNCHANGED <<tick, truth, loader, evictor, store>>

ReceiveLoaded ==
  /\ uplink # <<>> /\ Head(uplink).kind = "loaded"
  /\ loader' = [loader EXCEPT !.pc = "stamp"] /\ uplink' = Tail(uplink)
  /\ UNCHANGED <<tick, truth, view, evictor, shown, store, memo, lastBusy, dropped>>

\* An answer nobody waits for is dropped.  Only a successful unload is announced;
\* after a failed one the pass goes on.
ReceiveUnloaded ==
  /\ uplink # <<>> /\ Head(uplink).kind \in {"unloaded", "refused"}
  /\ evictor' = [evictor EXCEPT !.pc = IF @ # "wait" THEN @
                                       ELSE IF Head(uplink).kind = "unloaded" THEN "notify" ELSE "picking"]
  /\ uplink' = Tail(uplink)
  /\ UNCHANGED <<tick, truth, view, loader, shown, store, memo, lastBusy, dropped>>

-----------------------------------------------------------------------------
(* A dispatch that loads the model.                                         *)

LoadSend(m) ==
  /\ loader.pc \in {"idle", "done"} /\ m \notin Loaded
  /\ loader' = [pc |-> "sent", model |-> m]
  /\ UNCHANGED <<tick, truth, uplink, view, evictor, shown, store, memo, lastBusy, dropped>>

\* The caller stamps the entry as soon as it has its result, which may be
\* after later heartbeats; a new entry knows no files yet.
markLoaded ==
  LET m == loader.model IN
  view' = [k \in Loaded \cup {m} |->
             IF k # m THEN view[k]
             ELSE IF m \in Loaded THEN [view[m] EXCEPT !.source = "app"]
             ELSE [active |-> 0, source |-> "app", idle |-> tick, files |-> {}]]

LoadStamp ==
  /\ loader.pc = "stamp" /\ markLoaded
  /\ loader' = [loader EXCEPT !.pc = "notify"]
  /\ UNCHANGED <<tick, truth, uplink, evictor, shown, store, memo, lastBusy, dropped>>

\* NotifyLoadedChanged after the load: the subscribers read the set again.
LoadNotify ==
  /\ loader.pc = "notify" /\ shown' = Rendered(view)
  /\ loader' = [loader EXCEPT !.pc = "done"]
  /\ UNCHANGED <<tick, truth, uplink, view, evictor, store, memo, lastBusy, dropped>>

-----------------------------------------------------------------------------
(* Idle eviction, a pass of evictIdleOnce: one cutoff, one copy of the      *)
(* loaded list, then one unload after another, each waiting for the        *)
(* worker's answer while loads, heartbeats and the clock go on.            *)

\* The cutoff.  (Before tick Ttl + 1 no idle period is old enough.)
EvictStart ==
  /\ evictor.pc = "idle" /\ tick > Ttl
  /\ evictor' = [evictor EXCEPT !.pc = "started", !.cutoff = tick - Ttl]
  /\ UNCHANGED <<tick, truth, uplink, view, loader, shown, store, memo, lastBusy, dropped>>

\* The tests of the loop read the copy and the cutoff only.
IdleVictims(cutoff) ==
  {m \in Models : /\ m \in Loaded /\ view[m].active = 0
                  /\ view[m].idle # Never /\ view[m].idle <= cutoff}

EvictCopy ==
  /\ evictor.pc = "started"
  /\ LET victims == IdleVictims(evictor.cutoff) IN
     evictor' = [evictor EXCEPT !.pc = "picking", !.left = victims, !.readAt = tick,
                                !.busyAt = [m \in Models |-> IF m \in victims THEN lastBusy[m] ELSE Never]]
  /\ UNCHANGED <<tick, truth, uplink, view, loader, shown, store, memo, lastBusy, dropped>>

\* EvictModel sends the unload only to a worker whose list names the model now
\* (WorkersWithModel); it looks at nothing else of the entry.
EvictModel(m) ==
  /\ evictor.pc = "picking" /\ m \in evictor.left
  /\ evictor' = [evictor EXCEPT !.pc = IF m \in Loaded THEN "sent" ELSE "picking",
                                !.left = @ \ {m}, !.model = m]
  /\ UNCHANGED <<tick, truth, uplink, view, loader, shown, store, memo, lastBusy, dropped>>

EvictNotify ==
  /\ evictor.pc = "notify" /\ shown' = Rendered(view)
  /\ evictor' = [evictor EXCEPT !.pc = "picking"]
  /\ UNCHANGED <<tick, truth, uplink, view, loader, store, memo, lastBusy, dropped>>

EvictDone ==
  /\ evictor.pc = "picking" /\ evictor.left = {} /\ evictor' = NoPass
  /\ UNCHANGED <<tick, truth, uplink, view, loader, shown, store, memo, lastBusy, dropped>>

ViewNext ==
  \/ Tick \/ WorkerBeats \/ StoreChanges \/ ReceiveBeat \/ ReceiveLoaded \/ ReceiveUnloaded
  \/ LoadStamp \/ LoadNotify \/ EvictStart \/ EvictCopy \/ EvictNotify \/ EvictDone
  \/ \E m \in Models : WorkerWorks(m) \/ WorkerLoads(m) \/ WorkerUnloads(m) \/ LoadSend(m) \/ EvictModel(m)

ViewSpec == ViewInit /\ [][ViewNext]_viewVars

-----------------------------------------------------------------------------
ViewTypeOK ==
  /\ tick \in 1..MaxTick /\ truth \in [Models -> {"out", "idle", "busy"}]
  /\ Len(uplink) <= MaxUplink
  /\ Loaded \subseteq Models
  /\ \A m \in Loaded : view[m] \in [active : 0..1, source : {"", "app"}, idle : 0..MaxTick, files : SUBSET CachePaths]
  /\ loader.model \in Models /\ evictor.model \in Models /\ evictor.left \subseteq Models
  /\ store \in StoreSets /\ memo \in StoreSets \cup {NoMemo} /\ DOMAIN shown \subseteq Models

\* The Scheduler tab never shows a loaded set the worker's entry has moved away
\* from, apart from the moment between a load's stamp and its notification.
TabShowsLoaded == loader.pc = "notify" \/ shown = Rendered(view)

\* What the server takes from a worker was not in use when it looked.  A pass of
\* the idle evictor blocks in every unload and acts on a copy: each model it
\* unloads had, when the copy was made, not been reported busy for a whole TTL,
\* although heartbeats carry idle stamps over and loads stamp entries of their
\* own.  Reconciliation asks the worker to delete a path only if the store is
\* known and the path shares no file with a loaded model, whichever of the two
\* is the directory.
TakesOnlyUnused ==
  /\ evictor.pc \in {"sent", "wait", "notify"} => evictor.busyAt[evictor.model] + Ttl <= evictor.readAt
  /\ dropped.canon = {} => dropped.paths = {}
  /\ \A p \in dropped.paths : \A q \in dropped.backing : ~IsPrefix(p, q) /\ ~IsPrefix(q, p)

\* Too strong, and refuted by the same run: the model is still unused when its
\* unload is sent.  EvictModel checks again that the model is listed, not that it
\* is idle, so one that was used, or loaded anew, since the copy is unloaded.
EvictsOnlyIdle == evictor.pc = "sent" => lastBusy[evictor.model] + Ttl <= tick
=============================================================================
