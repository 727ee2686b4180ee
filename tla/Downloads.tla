------------------------------- MODULE Downloads -------------------------------
(***************************************************************************)
(* Model downloads (internal/downloads/manager.go over pkg/download): the  *)
(* jobs an operator starts, pauses, resumes, cancels and removes, the      *)
(* goroutine each start and resume spawns, the row that lets a transfer    *)
(* survive a restart, and the partial file both write to.                  *)
(*                                                                         *)
(* A file is counted in chunks.  Files have an identity (the runner that   *)
(* created them), since a runner goes on writing to the file it opened     *)
(* after another one has renamed or unlinked it.                           *)
(***************************************************************************)
EXTENDS Integers, FiniteSets

CONSTANTS
  Files,           \* destination paths under models_dir
  Chunks,          \* the length of a file
  MaxConcurrent,   \* transfers at once (maxConcurrent)
  MaxRetries,      \* attempts of pkg/download after the first
  MaxRunners,      \* bound: starts and resumes in all
  MaxDeaths        \* bound: deaths of the process

ASSUME DownloadAssumption ==
  /\ Chunks \in Nat \ {0} /\ MaxConcurrent \in Nat \ {0} /\ MaxRetries \in Nat
  /\ MaxRunners \in Nat /\ MaxDeaths \in Nat /\ IsFiniteSet(Files)

VARIABLES
  tracked,    \* Manager.jobs: [Files -> a job, or 0]
  jobs,       \* the runtimeJobs ever made: a function on an initial part of Runners
  runners,    \* the goroutines ever spawned: a function on an initial part of Runners
  dlRow,      \* the downloads table: [Files -> status, or "none"]
  temp,       \* the partial file: [Files -> identity, chunks, whether they are the file's]
  final,      \* the finished file, alike
  cancelling, \* [Files -> a Cancel or RemoveLocal waiting for a runner]
  deaths,
  raced       \* history: the files started or resumed while a runner or a Cancel of theirs
              \* was still at work, or whose runner outlived a Cancel

dlVars == <<tracked, jobs, runners, dlRow, temp, final, cancelling, deaths, raced>>

Runners == 1..MaxRunners
NoFile == [id |-> 0, size |-> 0, good |-> TRUE]
NoCancel == [on |-> FALSE, await |-> 0, remove |-> FALSE]
Noop == -1   \* the cancel func of a recovered job; 0 is nil
Moving == {"open", "sent", "copy", "xfer", "landed"}
Alive(r) == r \in DOMAIN runners /\ runners[r].pc # "gone"
FileOf(r) == jobs[runners[r].job].file
SlotsHeld == {r \in DOMAIN runners : runners[r].pc \in Moving \cup {"failing"}}

DlTypeOK ==
  /\ DOMAIN jobs \subseteq Runners /\ DOMAIN runners \subseteq Runners
  /\ tracked \in [Files -> 0..MaxRunners] /\ \A f \in Files : tracked[f] \in DOMAIN jobs \cup {0}
  /\ \A j \in DOMAIN jobs : /\ jobs[j].file \in Files /\ jobs[j].status \in {"active", "paused", "error"}
                            /\ jobs[j].handle \in -1..MaxRunners /\ jobs[j].local \in BOOLEAN /\ jobs[j].locked \in BOOLEAN
  /\ \A r \in DOMAIN runners : /\ runners[r].pc \in Moving \cup {"born", "wait", "failing", "gone"}
                               /\ runners[r].cancelled \in {"no", "asked", "seen"}
                               /\ runners[r].pos \in 0..Chunks /\ runners[r].tries \in 0..MaxRetries
  /\ dlRow \in [Files -> {"none", "active", "paused", "error"}]
  /\ \A f \in Files : temp[f].size \in Nat /\ final[f].size \in Nat
  /\ deaths \in 0..MaxDeaths /\ raced \subseteq Files

DlInit ==
  /\ tracked = [f \in Files |-> 0] /\ jobs = <<>> /\ runners = <<>>
  /\ dlRow = [f \in Files |-> "none"]
  /\ temp = [f \in Files |-> NoFile] /\ final = [f \in Files |-> NoFile]
  /\ cancelling = [f \in Files |-> NoCancel]
  /\ deaths = 0 /\ raced = {}

------------------------------------------------------------------------------
(* The operator's calls.                                                   *)

Append1(s, e) == [i \in DOMAIN s \cup {Cardinality(DOMAIN s) + 1} |-> IF i \in DOMAIN s THEN s[i] ELSE e]
NextId(s) == Cardinality(DOMAIN s) + 1

Races(f, cond) == raced' = IF cond THEN raced \cup {f} ELSE raced

\* go m.run / go m.copyLocal: the goroutine that has not run a line yet.
Spawn(j, f, kind) ==
  /\ NextId(runners) \in Runners
  /\ Races(f, cancelling[f].on \/ \E r \in DOMAIN runners : Alive(r) /\ FileOf(r) = f)
  /\ runners' = Append1(runners, [job |-> j, kind |-> kind, pc |-> "born", cancelled |-> "no",
                                  pos |-> 0, tries |-> 0, id |-> 0])

\* The store's UPDATE ... WHERE rel_path: nothing happens to a missing row.
SetDownloadStatus(f, s) == [dlRow EXCEPT ![f] = IF @ = "none" THEN @ ELSE s]

\* Start and ImportLocal: refused for a finished file and for a tracked one.
Track(f, local) ==
  /\ final[f] = NoFile /\ tracked[f] = 0
  /\ NextId(jobs) \in Runners
  /\ jobs' = Append1(jobs, [file |-> f, status |-> "active", handle |-> 0, local |-> local, locked |-> FALSE])
  /\ tracked' = [tracked EXCEPT ![f] = NextId(jobs)]
  /\ dlRow' = [dlRow EXCEPT ![f] = "active"]
  /\ UNCHANGED <<temp, final, cancelling, deaths>>

StartDownload(f) == Track(f, FALSE) /\ Spawn(NextId(jobs), f, "http")
ImportLocal(f) == Track(f, TRUE) /\ Spawn(NextId(jobs), f, "copy")

\* A cancel func: nothing for a runner that is gone.
CancelRunner(h, rs) ==
  [r \in DOMAIN rs |-> IF r = h /\ rs[r].pc # "gone" /\ rs[r].cancelled = "no"
                       THEN [rs[r] EXCEPT !.cancelled = "asked"] ELSE rs[r]]

\* Pause calls whatever cancel func the job has: none before its first runner has
\* stored one, which panics with the job's mutex held, and the previous runner's
\* when a resume's runner has not stored its own.
Pause(f) ==
  /\ tracked[f] # 0 /\ ~jobs[tracked[f]].locked /\ jobs[tracked[f]].status = "active"
  /\ IF jobs[tracked[f]].handle = 0
     THEN jobs' = [jobs EXCEPT ![tracked[f]].locked = TRUE] /\ UNCHANGED <<runners, dlRow>>
     ELSE /\ runners' = CancelRunner(jobs[tracked[f]].handle, runners)
          /\ jobs' = [jobs EXCEPT ![tracked[f]].status = "paused"]
          /\ dlRow' = SetDownloadStatus(f, "paused")
  /\ UNCHANGED <<tracked, temp, final, cancelling, deaths, raced>>

\* Resume runs m.run for every job, a local import included.
Resume(f) ==
  /\ tracked[f] # 0 /\ ~jobs[tracked[f]].locked /\ jobs[tracked[f]].status \in {"paused", "error"}
  /\ jobs' = [jobs EXCEPT ![tracked[f]].status = "active"]
  /\ dlRow' = SetDownloadStatus(f, "active")
  /\ Spawn(tracked[f], f, "http")
  /\ UNCHANGED <<tracked, temp, final, cancelling, deaths>>

\* Cancel untracks the job, cancels its runner and waits for it to end.
Cancel(f, remove) ==
  /\ tracked[f] # 0 /\ ~cancelling[f].on /\ ~jobs[tracked[f]].locked
  /\ tracked' = [tracked EXCEPT ![f] = 0]
  /\ runners' = CancelRunner(jobs[tracked[f]].handle, runners)
  /\ cancelling' = [cancelling EXCEPT ![f] = [on |-> TRUE, await |-> jobs[tracked[f]].handle, remove |-> remove]]
  /\ UNCHANGED <<jobs, dlRow, temp, final, deaths, raced>>

\* The runner ended, or five seconds passed: the partial file and the row go, and
\* for RemoveLocal the finished file.
CancelEnds(f) ==
  /\ cancelling[f].on
  /\ temp' = [temp EXCEPT ![f] = NoFile]
  /\ final' = [final EXCEPT ![f] = IF cancelling[f].remove THEN NoFile ELSE @]
  /\ dlRow' = [dlRow EXCEPT ![f] = "none"]
  /\ cancelling' = [cancelling EXCEPT ![f] = NoCancel]
  /\ Races(f, \E r \in DOMAIN runners : Alive(r) /\ FileOf(r) = f)
  /\ UNCHANGED <<tracked, jobs, runners, deaths>>

\* RemoveLocal of a file no job tracks.
RemoveFinished(f) ==
  /\ tracked[f] = 0 /\ ~cancelling[f].on /\ final[f] # NoFile
  /\ final' = [final EXCEPT ![f] = NoFile]
  /\ dlRow' = [dlRow EXCEPT ![f] = "none"]
  /\ UNCHANGED <<tracked, jobs, runners, temp, cancelling, deaths, raced>>

------------------------------------------------------------------------------
(* The runner.                                                             *)

Goes(r, pc) == runners' = [runners EXCEPT ![r].pc = pc]
Ended(j) == [job |-> j, kind |-> "http", pc |-> "gone", cancelled |-> "no", pos |-> 0, tries |-> 0, id |-> 0]
Ends(r) == runners' = [runners EXCEPT ![r] = Ended(@.job)]

\* The first lines of run and copyLocal: the job gets the runner's cancel and done.
StoreCancel(r) ==
  /\ Alive(r) /\ runners[r].pc = "born" /\ ~jobs[runners[r].job].locked
  /\ jobs' = [jobs EXCEPT ![runners[r].job].handle = r]
  /\ Goes(r, "wait")
  /\ UNCHANGED <<tracked, dlRow, temp, final, cancelling, deaths, raced>>

\* The select on the semaphore and the context.
TakeSlot(r) ==
  /\ Alive(r) /\ runners[r].pc = "wait" /\ Cardinality(SlotsHeld) < MaxConcurrent
  /\ Goes(r, IF runners[r].kind = "copy" THEN "copy" ELSE "open")
  /\ UNCHANGED <<tracked, jobs, dlRow, temp, final, cancelling, deaths, raced>>

\* A cancelled runner ends wherever it waits: for a slot, a response, a chunk or a
\* retry.  Whoever cancelled it has updated the job.
Interrupted(r) ==
  /\ Alive(r) /\ runners[r].pc \in {"wait", "open", "sent", "xfer"} /\ runners[r].cancelled # "no"
  /\ Ends(r)
  /\ UNCHANGED <<tracked, jobs, dlRow, temp, final, cancelling, deaths, raced>>


\* Download and the first half of doDownload: a finished file is success, else the
\* size of the partial file is the offset to ask for.
Request(r) ==
  /\ Alive(r) /\ runners[r].pc = "open"
  /\ runners' = [runners EXCEPT ![r].pc = IF final[FileOf(r)].size > 0 THEN "landed" ELSE "sent",
                                ![r].pos = IF temp[FileOf(r)].size > Chunks THEN Chunks ELSE temp[FileOf(r)].size]
  /\ UNCHANGED <<tracked, jobs, dlRow, temp, final, cancelling, deaths, raced>>

AppendsAlways(answer, offset) == [from |-> IF answer = "partial" THEN offset ELSE 0, append |-> offset > 0]

\* handleResumeResponse, and the flags doDownload opens the partial file with: a 206
\* continues at the offset and appends; a 200, or a 416 asked again without a range,
\* sends the file from its start into a truncated one.
handleResumeResponse(answer, offset) ==
  [from |-> IF answer = "partial" THEN offset ELSE 0, append |-> answer = "partial" /\ offset > 0]

\* Open or create the partial file by the answer.  Appending to a file that was
\* unlinked since fails.  A file:// URL has no answer.
OpenTemp(r) ==
  LET f == FileOf(r) IN
  /\ Alive(r) /\ runners[r].pc = "sent" /\ ~jobs[runners[r].job].local
  /\ \E answer \in {"partial", "full", "restart"} :
       LET opened == handleResumeResponse(answer, runners[r].pos)
           id == IF temp[f] = NoFile THEN r ELSE temp[f].id
       IN  /\ answer # "full" => runners[r].pos > 0
           /\ opened.append => temp[f] # NoFile
           /\ temp' = [temp EXCEPT ![f] = IF opened.append THEN @ ELSE [id |-> id, size |-> 0, good |-> TRUE]]
           /\ runners' = [runners EXCEPT ![r].pc = "xfer", ![r].pos = opened.from, ![r].id = id]
  /\ UNCHANGED <<tracked, jobs, dlRow, final, cancelling, deaths, raced>>

\* copyLocal creates the partial file anew.
CreateTemp(r) ==
  LET f == FileOf(r)
      id == IF temp[f] = NoFile THEN r ELSE temp[f].id
  IN  /\ Alive(r) /\ runners[r].pc = "copy"
      /\ temp' = [temp EXCEPT ![f] = [id |-> id, size |-> 0, good |-> TRUE]]
      /\ runners' = [runners EXCEPT ![r].pc = "xfer", ![r].id = id]
      /\ UNCHANGED <<tracked, jobs, dlRow, final, cancelling, deaths, raced>>

\* A chunk written at the end of the file: right when it is the one that is next.
Written(file, r) ==
  IF file.id # runners[r].id THEN file
  ELSE [file EXCEPT !.size = @ + 1, !.good = @ /\ file.size = runners[r].pos]

\* The loop checks the context before it reads, so one chunk may follow a cancel.
WriteChunk(r) ==
  /\ Alive(r) /\ runners[r].pc = "xfer" /\ runners[r].pos < Chunks /\ runners[r].cancelled # "seen"
  /\ temp' = [temp EXCEPT ![FileOf(r)] = Written(@, r)]
  /\ final' = [final EXCEPT ![FileOf(r)] = Written(@, r)]
  /\ runners' = [runners EXCEPT ![r].pos = @ + 1,
                                ![r].cancelled = IF @ = "asked" THEN "seen" ELSE @]
  /\ UNCHANGED <<tracked, jobs, dlRow, cancelling, deaths, raced>>

\* A connection or a server fails: Download tries again, up to its limit; a local
\* copy, a client error and the last attempt are failures.
TransferFails(r) ==
  /\ Alive(r) /\ runners[r].pc \in {"sent", "copy", "xfer"}
  /\ \/ /\ runners[r].kind = "http" /\ runners[r].tries < MaxRetries
        /\ runners' = [runners EXCEPT ![r].pc = "open", ![r].tries = @ + 1]
     \/ Goes(r, "failing")
  /\ UNCHANGED <<tracked, jobs, dlRow, temp, final, cancelling, deaths, raced>>

\* The error tail of run, and failJob: a cancelled HTTP transfer is not an error.
failJob(r) ==
  /\ Alive(r) /\ runners[r].pc = "failing"
  /\ Ends(r)
  /\ IF runners[r].kind = "http" /\ runners[r].cancelled # "no"
     THEN UNCHANGED <<jobs, dlRow>>
     ELSE /\ ~jobs[runners[r].job].locked
          /\ jobs' = [jobs EXCEPT ![runners[r].job].status = "error"]
          /\ dlRow' = SetDownloadStatus(FileOf(r), "error")
  /\ UNCHANGED <<tracked, temp, final, cancelling, deaths, raced>>

\* The end of the body: whatever carries the partial name is renamed, or nothing does.
RenameTemp(r) ==
  LET f == FileOf(r) IN
  /\ Alive(r) /\ runners[r].pc = "xfer" /\ runners[r].pos = Chunks /\ runners[r].cancelled # "seen"
  /\ IF temp[f] = NoFile
     THEN Goes(r, "failing") /\ UNCHANGED <<temp, final>>
     ELSE /\ Goes(r, "landed")
          /\ final' = [final EXCEPT ![f] = temp[f]]
          /\ temp' = [temp EXCEPT ![f] = NoFile]
  /\ UNCHANGED <<tracked, jobs, dlRow, cancelling, deaths, raced>>

\* Success: the entry under this path and its row go, whoever's they are by now.
Complete(r) ==
  /\ Alive(r) /\ runners[r].pc = "landed"
  /\ Ends(r)
  /\ tracked' = [tracked EXCEPT ![FileOf(r)] = 0]
  /\ dlRow' = [dlRow EXCEPT ![FileOf(r)] = "none"]
  /\ UNCHANGED <<jobs, temp, final, cancelling, deaths, raced>>

------------------------------------------------------------------------------
(* The process ends and starts again.                                      *)

RecoverDropsErrors(f) == dlRow[f] \in {"active", "paused"} /\ temp[f] # NoFile

\* A row is kept for the operator to resume when its partial file is there.
Recoverable(f) == dlRow[f] # "none" /\ temp[f] # NoFile

LastJob(f) == CHOOSE j \in DOMAIN jobs : jobs[j].file = f /\ \A k \in DOMAIN jobs : jobs[k].file = f => k <= j
RecoveredStatus(f) == IF dlRow[f] = "error" THEN "error" ELSE "paused"

\* Every goroutine is gone; Recover turns the rows into paused jobs.
DieAndRecover ==
  LET kept == {f \in Files : Recoverable(f)}
      base == Cardinality(DOMAIN jobs)
      order == CHOOSE o \in [kept -> 1..Cardinality(kept)] : \A f, g \in kept : f # g => o[f] # o[g]
  IN  /\ deaths < MaxDeaths /\ deaths' = deaths + 1
      /\ base + Cardinality(kept) <= MaxRunners
      /\ runners' = [r \in DOMAIN runners |-> Ended(runners[r].job)]
      /\ jobs' = [j \in 1..(base + Cardinality(kept)) |->
                    IF j <= base THEN jobs[j]
                    ELSE LET f == CHOOSE g \in kept : base + order[g] = j
                         IN  [file |-> f, status |-> RecoveredStatus(f), handle |-> Noop,
                              local |-> jobs[LastJob(f)].local, locked |-> FALSE]]
      /\ tracked' = [f \in Files |-> IF f \in kept THEN base + order[f] ELSE 0]
      /\ dlRow' = [f \in Files |-> IF f \in kept THEN RecoveredStatus(f) ELSE "none"]
      /\ cancelling' = [f \in Files |-> NoCancel]
      /\ UNCHANGED <<temp, final, raced>>

RunnerStep(r) ==
  \/ StoreCancel(r) \/ TakeSlot(r) \/ Interrupted(r) \/ Request(r) \/ OpenTemp(r) \/ CreateTemp(r)
  \/ WriteChunk(r) \/ TransferFails(r) \/ failJob(r) \/ RenameTemp(r) \/ Complete(r)

DlNext ==
  \/ \E f \in Files : StartDownload(f) \/ ImportLocal(f) \/ Pause(f) \/ Resume(f) \/ CancelEnds(f) \/ RemoveFinished(f)
  \/ \E f \in Files, remove \in BOOLEAN : Cancel(f, remove)
  \/ \E r \in Runners : RunnerStep(r)
  \/ DieAndRecover

DlSpec == DlInit /\ [][DlNext]_dlVars

------------------------------------------------------------------------------
(* Properties.                                                             *)

\* A file under its final name is the whole file, over pauses, retries, servers that
\* ignore the range and restarts; and a partial file has a row, so that a restart offers
\* it to the operator and Cancel finds it.  Files whose calls raced (raced) are excepted.
FilesAccounted ==
  \A f \in Files \ raced :
    /\ final[f] # NoFile => final[f].size = Chunks /\ final[f].good
    /\ temp[f] # NoFile => dlRow[f] # "none"

\* A download the manager tracks has a row: "persists each download to SQLite so
\* transfers survive restarts".
TrackedPersisted ==
  \A f \in Files : tracked[f] # 0 => dlRow[f] # "none"
=============================================================================
