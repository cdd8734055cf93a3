----------------------------- MODULE ReleaseSync -----------------------------
(***************************************************************************)
(* The cache of Windows installers: internal/releasesync/service.go, with  *)
(* the tables release_artifacts and release_jobs and the directory         *)
(* releases/ below the storage directory.                                  *)
(*                                                                         *)
(* Any number of requests may call Enqueue at one time; the one that is    *)
(* admitted starts run, which downloads into .staging-<job>, renames       *)
(* directories, replaces the rows in one transaction and removes what is   *)
(* left over.  The server may stop between any two steps; it starts with   *)
(* RetainLatest.  A release never changes once published (the workflow     *)
(* runs gh release create), so a directory is known by its version.        *)
(***************************************************************************)
EXTENDS Naturals, FiniteSets

CONSTANTS
  Jobs,        \* calls of Enqueue, named by the id of the job each creates
  MaxVersion,  \* versions 1..MaxVersion; compareVersions is their order
  FaultSets,   \* what may go wrong besides an ordinary error, see below
  None

\* crash       the server stops and is started again
\* dbDown      a statement whose error the code ignores changes nothing
\* badRead     recordFailure cannot read the current version but can write
\* lostInsert  the INSERT of a job takes effect but returns an error
\* lostCommit  the Commit of promote takes effect but returns an error
\* cleanup     removing an old directory fails
\* restore     a rename that undoes an earlier one fails
AllFaults == {"crash", "dbDown", "badRead", "lostInsert", "lostCommit", "cleanup",
              "restore"}

ASSUME FaultsAssumption == FaultSets \subseteq SUBSET AllFaults
ASSUME NoneAssumption == None \notin {"queued", "downloading", "ready", "failed"}
ASSUME VersionAssumption == MaxVersion \in Nat \ {0}

VARIABLES
  ready,    \* version of the ready rows of release_artifacts, 0 without rows
  job,      \* status of each row of release_jobs, or None
  version,  \* version each job was asked for, 0 before Enqueue
  active,   \* Service.active
  dirs,     \* releases/<version> directories
  staging,  \* jobs with a .staging-<job> directory
  backup,   \* jobs with a .backup-<job> directory
  pc,       \* next step of each job
  server,   \* "down", "retain" (RetainLatest has committed) or "up"
  faults    \* what may go wrong in this behaviour: never changes

vars == <<ready, job, version, active, dirs, staging, backup, pc, server>>

Versions == 1..MaxVersion
RunPcs == {"start", "download", "backup", "swap", "commit", "withdraw", "putBack",
           "clean", "discard", "record"}

TypeOK ==
  /\ ready \in Versions \cup {0}
  /\ job \in [Jobs -> {None, "queued", "downloading", "ready", "failed"}]
  /\ version \in [Jobs -> Versions \cup {0}]
  /\ active \subseteq Versions
  /\ dirs \subseteq Versions
  /\ staging \subseteq Jobs /\ backup \subseteq Jobs
  /\ pc \in [Jobs -> {"new", "reserve", "insert", "ended", "cut"} \cup RunPcs]
  /\ server \in {"down", "retain", "up"}
  /\ faults \in FaultSets

Init ==
  /\ ready = 0
  /\ job = [j \in Jobs |-> None]
  /\ version = [j \in Jobs |-> 0]
  /\ active = {} /\ dirs = {} /\ staging = {} /\ backup = {}
  /\ pc = [j \in Jobs |-> "new"]
  /\ server = "up"
  /\ faults \in FaultSets

At(j, label) == pc[j] = label
Goto(j, label) == pc' = [pc EXCEPT ![j] = label]

\* finish: the deferred call of run, and the call on Enqueue's error paths.
Finish(j) ==
  /\ active' = active \ {version[j]}
  /\ Goto(j, "ended")

SetJob(j, status) == job' = [job EXCEPT ![j] = status]

-----------------------------------------------------------------------------
\* Enqueue up to the lock: a version below the current one is refused.
Enqueue(j, v) ==
  /\ At(j, "new") /\ server = "up"
  /\ v >= ready
  /\ version' = [version EXCEPT ![j] = v]
  /\ Goto(j, "reserve")
  /\ UNCHANGED <<ready, job, active, dirs, staging, backup, server>>

\* Mutant of Reserve: only the same version is kept out.
ReserveOtherVersion(j) ==
  /\ At(j, "reserve")
  /\ version[j] \notin active
  /\ active' = active \cup {version[j]}
  /\ Goto(j, "insert")
  /\ UNCHANGED <<ready, job, version, dirs, staging, backup, server>>

\* Under s.mu: one synchronisation at a time.
Reserve(j) ==
  /\ At(j, "reserve")
  /\ \/ /\ active = {}
        /\ active' = {version[j]}
        /\ Goto(j, "insert")
     \/ /\ active # {}
        /\ Goto(j, "ended")
        /\ UNCHANGED active
  /\ UNCHANGED <<ready, job, version, dirs, staging, backup, server>>

InsertJob(j) ==
  /\ At(j, "insert")
  /\ SetJob(j, "queued")
  /\ Goto(j, "start")
  /\ UNCHANGED <<ready, version, active, dirs, staging, backup, server>>

InsertFails(j) ==
  /\ At(j, "insert")
  /\ \/ UNCHANGED job
     \/ "lostInsert" \in faults /\ SetJob(j, "queued")
  /\ Finish(j)
  /\ UNCHANGED <<ready, version, dirs, staging, backup, server>>

-----------------------------------------------------------------------------
\* run: mark the row (an error is ignored).
StartRun(j) ==
  /\ At(j, "start")
  /\ \/ SetJob(j, "downloading")
     \/ "dbDown" \in faults /\ UNCHANGED job
  /\ Goto(j, "download")
  /\ UNCHANGED <<ready, version, active, dirs, staging, backup, server>>

\* fetchManifest and downloadArtifacts: both files are verified, in staging.
Download(j) ==
  /\ At(j, "download")
  /\ staging' = staging \cup {j}
  /\ Goto(j, "backup")
  /\ UNCHANGED <<ready, job, version, active, dirs, backup, server>>

\* Mutant of DownloadFails: run returns without recordFailure.
DownloadFailsSilently(j) ==
  /\ At(j, "download")
  /\ Finish(j)
  /\ UNCHANGED <<ready, job, version, dirs, staging, backup, server>>

\* They fail, before or after the staging directory was made.
DownloadFails(j) ==
  /\ At(j, "download")
  /\ staging' \in {staging, staging \cup {j}}
  /\ Goto(j, "discard")
  /\ UNCHANGED <<ready, job, version, active, dirs, backup, server>>

\* promote: put aside a directory this version already has.
Backup(j) ==
  /\ At(j, "backup")
  /\ IF version[j] \in dirs
       THEN dirs' = dirs \ {version[j]} /\ backup' = backup \cup {j}
       ELSE UNCHANGED <<dirs, backup>>
  /\ Goto(j, "swap")
  /\ UNCHANGED <<ready, job, version, active, staging, server>>

BackupFails(j) ==
  /\ At(j, "backup")
  /\ Goto(j, "discard")
  /\ UNCHANGED <<ready, job, version, active, dirs, staging, backup, server>>

Swap(j) ==
  /\ At(j, "swap")
  /\ staging' = staging \ {j}
  /\ dirs' = dirs \cup {version[j]}
  /\ Goto(j, "commit")
  /\ UNCHANGED <<ready, job, version, active, backup, server>>

\* The directory set aside comes back, if nothing has taken its name.
PutBack(j) ==
  \/ IF j \in backup /\ version[j] \notin dirs
       THEN dirs' = dirs \cup {version[j]} /\ backup' = backup \ {j}
       ELSE UNCHANGED <<dirs, backup>>
  \/ "restore" \in faults /\ UNCHANGED <<dirs, backup>>

\* An error of the rename back is ignored.
SwapFails(j) ==
  /\ At(j, "swap")
  /\ PutBack(j)
  /\ Goto(j, "discard")
  /\ UNCHANGED <<ready, job, version, active, staging, server>>

\* The transaction of promote: new rows, and no job but this one.
ReplaceRows(j) ==
  /\ ready' = version[j]
  /\ job' = [k \in Jobs |-> IF k = j THEN "ready" ELSE None]

Commit(j) ==
  /\ At(j, "commit")
  /\ ReplaceRows(j)
  /\ Goto(j, "clean")
  /\ UNCHANGED <<version, active, dirs, staging, backup, server>>

CommitFails(j) ==
  /\ At(j, "commit")
  /\ \/ UNCHANGED <<ready, job>>
     \/ "lostCommit" \in faults /\ ReplaceRows(j)
  /\ Goto(j, "withdraw")
  /\ UNCHANGED <<version, active, dirs, staging, backup, server>>

\* Mutant of Withdraw: the directory is named by the version, not the job.
WithdrawToVersion(j) ==
  /\ At(j, "withdraw")
  /\ dirs' = dirs \ {version[j]}
  /\ staging' = staging \cup {version[j]}
  /\ Goto(j, "putBack")
  /\ UNCHANGED <<ready, job, version, active, backup, server>>

\* restoreReleaseCache: the new directory goes back to staging, then the one
\* set aside comes back; the first error does not keep it from the second.
Withdraw(j) ==
  /\ At(j, "withdraw")
  /\ \/ dirs' = dirs \ {version[j]} /\ staging' = staging \cup {j}
     \/ "restore" \in faults /\ UNCHANGED <<dirs, staging>>
  /\ Goto(j, "putBack")
  /\ UNCHANGED <<ready, job, version, active, backup, server>>

Restore(j) ==
  /\ At(j, "putBack")
  /\ PutBack(j)
  /\ Goto(j, "discard")
  /\ UNCHANGED <<ready, job, version, active, staging, server>>

\* cleanupOlderReleaseDirectories(releases, v): all of it, or, when removing a
\* directory fails, what came before it in the listing.
RemoveDirsBut(v) ==
  /\ dirs' = dirs \cap {v} /\ staging' = {} /\ backup' = {}

RemoveSomeDirsBut(v) ==
  /\ "cleanup" \in faults
  /\ dirs' \in SUBSET dirs /\ dirs \cap {v} \subseteq dirs'
  /\ staging' \in SUBSET staging /\ backup' \in SUBSET backup

\* The end of promote; run returns (a failed removal is only noted in the row).
Clean(j) ==
  /\ At(j, "clean")
  /\ RemoveDirsBut(version[j]) \/ RemoveSomeDirsBut(version[j])
  /\ Finish(j)
  /\ UNCHANGED <<ready, job, version, server>>

\* run on an error: remove the staging directory (an error is ignored).
Discard(j) ==
  /\ At(j, "discard")
  /\ \/ staging' = staging \ {j}
     \/ "cleanup" \in faults /\ UNCHANGED staging
  /\ Goto(j, "record")
  /\ UNCHANGED <<ready, job, version, active, dirs, backup, server>>

\* Ready rows of the jobs that synchronised the current version.
CurrentJobs == {k \in Jobs : ready # 0 /\ job[k] = "ready" /\ version[k] = ready}

\* The row that stays: the job of the current release, or else the failed one.
KeptBy(j) == IF CurrentJobs = {} THEN {j} ELSE CurrentJobs

Prune(j, kept) ==
  job' = [k \in Jobs |-> IF k # kept THEN None
                         ELSE IF k = j THEN "failed" ELSE job[k]]

\* Without a release, the DELETE of the other rows and the UPDATE of this one
\* are two statements: only one of them may take effect.
HalfPrune(j) ==
  \/ SetJob(j, "failed")
  \/ job' = [k \in Jobs |-> IF k = j THEN job[j] ELSE None]

\* recordFailure, whose errors are ignored.
RecordFailure(j) ==
  /\ At(j, "record")
  /\ \/ \E kept \in KeptBy(j) : Prune(j, kept)
     \/ "badRead" \in faults /\ Prune(j, j)
     \/ "dbDown" \in faults /\ UNCHANGED job
     \/ "dbDown" \in faults /\ ready = 0 /\ HalfPrune(j)
  /\ Finish(j)
  /\ UNCHANGED <<ready, version, dirs, staging, backup, server>>

-----------------------------------------------------------------------------
\* The process stops: goroutines and Service.active are gone.
Crash ==
  /\ "crash" \in faults
  /\ server' = "down"
  /\ active' = {}
  /\ pc' = [j \in Jobs |-> IF pc[j] \in {"new", "ended"} THEN pc[j] ELSE "cut"]
  /\ UNCHANGED <<ready, job, version, dirs, staging, backup>>

\* RetainLatest at start-up, its transaction; release_artifacts holds rows of
\* one version only, so no row of it goes.
RetainRows ==
  /\ server = "down"
  /\ \/ /\ CurrentJobs = {}
        /\ job' = [k \in Jobs |-> None]
     \/ \E kept \in CurrentJobs :
          job' = [k \in Jobs |-> IF k = kept THEN "ready" ELSE None]
  /\ server' = "retain"
  /\ UNCHANGED <<ready, version, active, dirs, staging, backup, pc>>

\* Its directories; when a removal fails the server does not start.
RetainDirs ==
  /\ server = "retain"
  /\ \/ RemoveDirsBut(ready) /\ server' = "up"
     \/ RemoveSomeDirsBut(ready) /\ server' = "down"
  /\ UNCHANGED <<ready, job, version, active, pc>>

JobStep(j) ==
  \/ Reserve(j) \/ InsertJob(j) \/ InsertFails(j)
  \/ StartRun(j) \/ Download(j) \/ DownloadFails(j)
  \/ Backup(j) \/ BackupFails(j) \/ Swap(j) \/ SwapFails(j)
  \/ Commit(j) \/ CommitFails(j) \/ Withdraw(j) \/ Restore(j)
  \/ Clean(j) \/ Discard(j) \/ RecordFailure(j)

Start == RetainRows \/ RetainDirs

Step ==
  \/ \E j \in Jobs : (\E v \in Versions : Enqueue(j, v)) \/ JobStep(j)
  \/ Crash
  \/ Start

Next == Step /\ UNCHANGED faults

Spec == Init /\ [][Next]_<<vars, faults>>

\* A job goes on: downloads and transactions have time limits.  A stopped
\* server is started again (Restart= of the systemd unit).
FairSpec == Spec /\ (\A j \in Jobs : WF_vars(JobStep(j))) /\ WF_vars(Start)

-----------------------------------------------------------------------------
\* The rows that are offered for download have a finished job of their version
\* in release_jobs, exactly one, and no other job looks finished.
ReadyReleaseHasItsJob ==
  /\ Cardinality(CurrentJobs) = IF ready = 0 THEN 0 ELSE 1
  /\ \A j \in Jobs : job[j] = "ready" => j \in CurrentJobs

\* The installers offered are on disk, except while a job for the same version
\* again has put them aside; they are lost for good only if the server stops
\* just then or the rename back fails.  A newer version never costs them.
ReadyReleaseHasFiles ==
  ready # 0 /\ ready \notin dirs =>
    \E j \in Jobs :
      /\ version[j] = ready /\ j \notin CurrentJobs
      /\ \/ pc[j] \in {"swap", "putBack", "cut"}
         \/ "restore" \in faults /\ pc[j] \in {"discard", "record", "ended"}

\* While nothing is synchronised, releases/ holds one version at most and no
\* remains of a failed, finished or interrupted job.
NothingLeftBehind ==
  server = "up" /\ (\A j \in Jobs : pc[j] \notin RunPcs) =>
    Cardinality(dirs) <= 1 /\ staging = {} /\ backup = {}

\* Invariant: rows, jobs and directories tell of one release, whatever stops
\* or fails on the way: recordFailure, promote, restoreReleaseCache and
\* RetainLatest agree on what to keep.  Four faults are beyond the code: a
\* commit whose answer is lost (files and jobs are undone under the new rows),
\* a version that cannot be read (recordFailure keeps the failed job), a
\* removal that fails (it stays until the next one) and a rename that should
\* undo another and fails (directories stay where they are; those of the
\* release that was synchronised again may be missing).
CacheIsWhole ==
  /\ faults \cap {"lostCommit", "badRead"} = {} => ReadyReleaseHasItsJob
  /\ "lostCommit" \notin faults => ReadyReleaseHasFiles
  /\ faults \cap {"cleanup", "restore"} = {} => NothingLeftBehind

\* Liveness: a job that is shown as queued or downloading is settled, and then
\* the next synchronisation can be admitted; only a statement whose error the
\* code ignores leaves the job as it is shown.
SyncEnds ==
  \A j \in Jobs :
    faults \cap {"dbDown", "lostInsert"} = {}
      /\ job[j] \in {"queued", "downloading"} ~>
      job[j] \notin {"queued", "downloading"} /\ active = {}

\* Enqueue: a release below the current version cannot be synchronised.
NeverDowngrades == [][ready' >= ready]_ready

=============================================================================
