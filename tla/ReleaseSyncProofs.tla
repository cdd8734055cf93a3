-------------------------- MODULE ReleaseSyncProofs --------------------------
(* Proofs about ReleaseSync, for any jobs and versions and whatever goes wrong. *)
EXTENDS ReleaseSync, FiniteSetTheorems, TLAPS

-----------------------------------------------------------------------------
(* The inductive invariant *)

\* Where a job holds the place in Service.active, and where it runs.
Admitted == {j \in Jobs : pc[j] \in RunPcs \cup {"insert"}}
Running == {j \in Jobs : pc[j] \in RunPcs}

\* One job at a time is admitted, by a server that is up.
OneJob ==
  /\ \A j \in Jobs : pc[j] \notin {"new", "ended", "cut"} => server = "up"
  /\ \A j \in Admitted : active = {version[j]}
  /\ \A j, k \in Admitted : j = k
  /\ \A j \in Jobs : pc[j] # "new" => version[j] # 0
  /\ \A j \in Jobs : pc[j] \in {"new", "reserve", "insert"} => job[j] = None

\* Unless the answer of a commit was lost, a job is done with its version when
\* it cleans up, and not before.
DoneAtEnd ==
  \A j \in Running :
    IF pc[j] = "clean" THEN ready = version[j] /\ job[j] = "ready" ELSE job[j] # "ready"

\* The rows tell of one release and of the one job that fetched it.
OneReady ==
  /\ ready = 0 => \A j \in Jobs : job[j] # "ready"
  /\ ready # 0 => \E k \in Jobs : \A j \in Jobs : job[j] = "ready" /\ version[j] = ready <=> j = k
  /\ \A j \in Jobs : job[j] = "ready" => version[j] = ready

\* A job for the current version was cut off with the files put aside, or
\* could not put them back.
Lost ==
  \E k \in Jobs :
    /\ version[k] = ready /\ job[k] # "ready"
    /\ \/ pc[k] = "cut"
       \/ "restore" \in faults /\ pc[k] \in {"discard", "record", "ended"}

\* Where the files of the current version are while a job replaces them.
FilesKept ==
  /\ \A j \in Running :
       /\ pc[j] \in {"commit", "withdraw", "clean"} => version[j] \in dirs
       /\ pc[j] \in {"swap", "commit", "withdraw", "putBack"} /\ version[j] = ready =>
            j \in backup \/ Lost
  /\ ready # 0 /\ ready \notin dirs =>
       Lost \/ \E j \in Running : version[j] = ready /\ pc[j] \in {"swap", "putBack"}

\* What is in releases/ belongs to the job that runs, but for one version.
Tidy ==
  server = "up" =>
    /\ \A j \in staging : pc[j] \in {"backup", "swap", "putBack", "discard"}
    /\ \A j \in backup :
         /\ pc[j] \in {"swap", "commit", "withdraw", "putBack", "clean"}
         /\ dirs \subseteq {version[j]}
         /\ pc[j] \in {"swap", "putBack"} => dirs = {}
    /\ \A c, d \in dirs :
         c = d \/ \E j \in Running :
                    pc[j] \in {"commit", "withdraw", "clean"} /\ version[j] \in {c, d}

Inv ==
  /\ TypeOK /\ OneJob
  /\ "lostCommit" \notin faults => DoneAtEnd /\ FilesKept
  /\ faults \cap {"lostCommit", "badRead"} = {} => OneReady
  /\ faults \cap {"cleanup", "restore"} = {} => Tidy

-----------------------------------------------------------------------------
(* The initial state and the steps *)

LEMMA InitInv == Init => Inv
<1> SUFFICES ASSUME Init
             PROVE  Inv
  OBVIOUS
<1> USE DEF Init, Admitted, Running, RunPcs
<1>1. TypeOK /\ OneJob
  BY VersionAssumption DEF TypeOK, OneJob, Versions
<1>2. DoneAtEnd /\ FilesKept /\ OneReady /\ Tidy
  BY NoneAssumption DEF DoneAtEnd, FilesKept, OneReady, Tidy
<1> QED
  BY <1>1, <1>2 DEF Inv

LEMMA StepType ==
  ASSUME TypeOK, OneJob, [Next]_<<vars, faults>>
  PROVE  TypeOK'
<1> USE NoneAssumption DEF vars, At, Goto, Finish, SetJob, PutBack, RunPcs, Admitted, Running,
            TypeOK, Versions
<1>1. ASSUME NEW j \in Jobs, NEW v \in Versions, Enqueue(j, v), UNCHANGED faults
      PROVE  TypeOK'
  BY <1>1 DEF Enqueue
<1>2. ASSUME NEW j \in Jobs, JobStep(j), UNCHANGED faults
      PROVE  TypeOK'
  <2>0. pc[j] # "new" => version[j] \in Versions
    BY DEF OneJob
  <2>1. CASE Reserve(j)
    BY <1>2, <2>0, <2>1 DEF Reserve
  <2>2. CASE InsertJob(j) \/ InsertFails(j)
    BY <1>2, <2>2 DEF InsertJob, InsertFails
  <2>3. CASE StartRun(j)
    BY <1>2, <2>3 DEF StartRun
  <2>4. CASE Download(j) \/ DownloadFails(j)
    BY <1>2, <2>4 DEF Download, DownloadFails
  <2>5. CASE Backup(j) \/ BackupFails(j)
    BY <1>2, <2>5, ZenonT(60) DEF Backup, BackupFails
  <2>6. CASE Swap(j) \/ SwapFails(j)
    BY <1>2, <2>0, <2>6, ZenonT(60) DEF Swap, SwapFails
  <2>7. CASE Commit(j) \/ CommitFails(j)
    BY <1>2, <2>0, <2>7 DEF Commit, CommitFails, ReplaceRows
  <2>8. CASE Withdraw(j) \/ Restore(j)
    BY <1>2, <2>0, <2>8, ZenonT(60) DEF Withdraw, Restore
  <2>9. CASE Clean(j)
    BY <1>2, <2>9 DEF Clean, RemoveDirsBut, RemoveSomeDirsBut
  <2>10. CASE Discard(j)
    BY <1>2, <2>10 DEF Discard
  <2>11. CASE RecordFailure(j)
    BY <1>2, <2>11 DEF RecordFailure, Prune, HalfPrune, KeptBy
  <2> QED
    BY <1>2, <2>1, <2>2, <2>3, <2>4, <2>5, <2>6, <2>7, <2>8, <2>9, <2>10, <2>11
       DEF JobStep
<1>3. ASSUME Crash, UNCHANGED faults
      PROVE  TypeOK'
  BY <1>3 DEF Crash
<1>4. ASSUME RetainRows, UNCHANGED faults
      PROVE  TypeOK'
  BY <1>4 DEF RetainRows, CurrentJobs
<1>5. ASSUME RetainDirs, UNCHANGED faults
      PROVE  TypeOK'
  BY <1>5 DEF RetainDirs, RemoveDirsBut, RemoveSomeDirsBut
<1>6. CASE UNCHANGED <<vars, faults>>
  BY <1>6
<1> QED
  BY <1>1, <1>2, <1>3, <1>4, <1>5, <1>6 DEF Next, Step, Start

LEMMA StepOneJob ==
  ASSUME TypeOK, OneJob, [Next]_<<vars, faults>>
  PROVE  OneJob'
<1> USE NoneAssumption DEF vars, At, Goto, Finish, SetJob, PutBack, RunPcs, Admitted, Running,
            TypeOK, Versions, OneJob
<1>1. ASSUME NEW j \in Jobs, NEW v \in Versions, Enqueue(j, v), UNCHANGED faults
      PROVE  OneJob'
  BY <1>1 DEF Enqueue
<1>2. ASSUME NEW j \in Jobs, JobStep(j), UNCHANGED faults
      PROVE  OneJob'
  <2>1. CASE Reserve(j)
    BY <1>2, <2>1 DEF Reserve
  <2>2. CASE InsertJob(j) \/ InsertFails(j)
    BY <1>2, <2>2 DEF InsertJob, InsertFails
  <2>3. CASE StartRun(j)
    BY <1>2, <2>3 DEF StartRun
  <2>4. CASE Download(j) \/ DownloadFails(j)
    BY <1>2, <2>4 DEF Download, DownloadFails
  <2>5. CASE Backup(j) \/ BackupFails(j)
    BY <1>2, <2>5 DEF Backup, BackupFails
  <2>6. CASE Swap(j) \/ SwapFails(j)
    BY <1>2, <2>6 DEF Swap, SwapFails
  <2>7. CASE Commit(j) \/ CommitFails(j)
    BY <1>2, <2>7 DEF Commit, CommitFails, ReplaceRows
  <2>8. CASE Withdraw(j) \/ Restore(j)
    BY <1>2, <2>8 DEF Withdraw, Restore
  <2>9. CASE Clean(j)
    BY <1>2, <2>9 DEF Clean, RemoveDirsBut, RemoveSomeDirsBut
  <2>10. CASE Discard(j)
    BY <1>2, <2>10 DEF Discard
  <2>11. CASE RecordFailure(j)
    BY <1>2, <2>11 DEF RecordFailure, Prune, HalfPrune, KeptBy
  <2> QED
    BY <1>2, <2>1, <2>2, <2>3, <2>4, <2>5, <2>6, <2>7, <2>8, <2>9, <2>10, <2>11
       DEF JobStep
<1>3. ASSUME Crash, UNCHANGED faults
      PROVE  OneJob'
  BY <1>3 DEF Crash
<1>4. ASSUME RetainRows, UNCHANGED faults
      PROVE  OneJob'
  BY <1>4 DEF RetainRows, CurrentJobs
<1>5. ASSUME RetainDirs, UNCHANGED faults
      PROVE  OneJob'
  BY <1>5 DEF RetainDirs, RemoveDirsBut, RemoveSomeDirsBut
<1>6. CASE UNCHANGED <<vars, faults>>
  BY <1>6
<1> QED
  BY <1>1, <1>2, <1>3, <1>4, <1>5, <1>6 DEF Next, Step, Start

LEMMA StepDoneAtEnd ==
  ASSUME TypeOK, OneJob, DoneAtEnd, "lostCommit" \notin faults, [Next]_<<vars, faults>>
  PROVE  DoneAtEnd'
<1> USE NoneAssumption DEF vars, At, Goto, Finish, SetJob, PutBack, RunPcs, Admitted, Running,
            TypeOK, Versions, OneJob, DoneAtEnd
<1>1. ASSUME NEW j \in Jobs, NEW v \in Versions, Enqueue(j, v), UNCHANGED faults
      PROVE  DoneAtEnd'
  BY <1>1 DEF Enqueue
<1>2. ASSUME NEW j \in Jobs, JobStep(j), UNCHANGED faults
      PROVE  DoneAtEnd'
  <2>1. CASE Reserve(j)
    BY <1>2, <2>1 DEF Reserve
  <2>2. CASE InsertJob(j) \/ InsertFails(j)
    BY <1>2, <2>2 DEF InsertJob, InsertFails
  <2>3. CASE StartRun(j)
    BY <1>2, <2>3 DEF StartRun
  <2>4. CASE Download(j) \/ DownloadFails(j)
    BY <1>2, <2>4 DEF Download, DownloadFails
  <2>5. CASE Backup(j) \/ BackupFails(j)
    BY <1>2, <2>5 DEF Backup, BackupFails
  <2>6. CASE Swap(j) \/ SwapFails(j)
    BY <1>2, <2>6 DEF Swap, SwapFails
  <2>7. CASE Commit(j) \/ CommitFails(j)
    BY <1>2, <2>7 DEF Commit, CommitFails, ReplaceRows
  <2>8. CASE Withdraw(j) \/ Restore(j)
    BY <1>2, <2>8 DEF Withdraw, Restore
  <2>9. CASE Clean(j)
    BY <1>2, <2>9 DEF Clean, RemoveDirsBut, RemoveSomeDirsBut
  <2>10. CASE Discard(j)
    BY <1>2, <2>10 DEF Discard
  <2>11. CASE RecordFailure(j)
    BY <1>2, <2>11 DEF RecordFailure, Prune, HalfPrune, KeptBy
  <2> QED
    BY <1>2, <2>1, <2>2, <2>3, <2>4, <2>5, <2>6, <2>7, <2>8, <2>9, <2>10, <2>11
       DEF JobStep
<1>3. ASSUME Crash, UNCHANGED faults
      PROVE  DoneAtEnd'
  BY <1>3 DEF Crash
<1>4. ASSUME RetainRows, UNCHANGED faults
      PROVE  DoneAtEnd'
  BY <1>4 DEF RetainRows, CurrentJobs
<1>5. ASSUME RetainDirs, UNCHANGED faults
      PROVE  DoneAtEnd'
  BY <1>5 DEF RetainDirs, RemoveDirsBut, RemoveSomeDirsBut
<1>6. CASE UNCHANGED <<vars, faults>>
  BY <1>6
<1> QED
  BY <1>1, <1>2, <1>3, <1>4, <1>5, <1>6 DEF Next, Step, Start

LEMMA StepOneReady ==
  ASSUME TypeOK, OneJob, DoneAtEnd, OneReady,
         faults \cap {"lostCommit", "badRead"} = {}, [Next]_<<vars, faults>>
  PROVE  OneReady'
<1> USE NoneAssumption DEF vars, At, Goto, Finish, SetJob, PutBack, RunPcs, Admitted, Running,
            TypeOK, Versions, OneJob, DoneAtEnd, OneReady
<1>1. ASSUME NEW j \in Jobs, NEW v \in Versions, Enqueue(j, v), UNCHANGED faults
      PROVE  OneReady'
  BY <1>1 DEF Enqueue
<1>2. ASSUME NEW j \in Jobs, JobStep(j), UNCHANGED faults
      PROVE  OneReady'
  <2>1. CASE Reserve(j)
    BY <1>2, <2>1 DEF Reserve
  <2>2. CASE InsertJob(j) \/ InsertFails(j)
    BY <1>2, <2>2 DEF InsertJob, InsertFails
  <2>3. CASE StartRun(j)
    BY <1>2, <2>3 DEF StartRun
  <2>4. CASE Download(j) \/ DownloadFails(j)
    BY <1>2, <2>4 DEF Download, DownloadFails
  <2>5. CASE Backup(j) \/ BackupFails(j)
    BY <1>2, <2>5 DEF Backup, BackupFails
  <2>6. CASE Swap(j) \/ SwapFails(j)
    BY <1>2, <2>6 DEF Swap, SwapFails
  <2>7. CASE Commit(j) \/ CommitFails(j)
    BY <1>2, <2>7 DEF Commit, CommitFails, ReplaceRows
  <2>8. CASE Withdraw(j) \/ Restore(j)
    BY <1>2, <2>8 DEF Withdraw, Restore
  <2>9. CASE Clean(j)
    BY <1>2, <2>9 DEF Clean, RemoveDirsBut, RemoveSomeDirsBut
  <2>10. CASE Discard(j)
    BY <1>2, <2>10 DEF Discard
  <2>11. CASE RecordFailure(j)
    <3>1. /\ UNCHANGED <<ready, version>> /\ job[j] # "ready"
          /\ job \in [Jobs -> {None, "queued", "downloading", "ready", "failed"}]
      BY <1>2, <2>11 DEF RecordFailure
    <3>2. CASE ready = 0
      <4>1. \A k \in Jobs : job'[k] # "ready"
        BY <1>2, <2>11, <3>1, <3>2 DEF RecordFailure, Prune, HalfPrune, KeptBy, CurrentJobs
      <4> QED
        BY <3>1, <3>2, <4>1
    <3>3. CASE ready # 0 /\ job' = job
      BY <3>1, <3>3
    <3>4. CASE ready # 0 /\ \E kept \in KeptBy(j) : Prune(j, kept)
      <4>1. PICK k \in Jobs : \A i \in Jobs : job[i] = "ready" /\ version[i] = ready <=> i = k
        BY <3>4
      <4>2. CurrentJobs = {k} /\ k # j
        BY <3>1, <3>4, <4>1 DEF CurrentJobs
      <4>3. Prune(j, k)
        BY <3>4, <4>2 DEF KeptBy
      <4>4. \A i \in Jobs : job'[i] = "ready" <=> i = k
        BY <4>1, <4>2, <4>3 DEF Prune
      <4> QED
        BY <3>1, <3>4, <4>1, <4>4
    <3> QED
      BY <1>2, <2>11, <3>2, <3>3, <3>4 DEF RecordFailure
  <2> QED
    BY <1>2, <2>1, <2>2, <2>3, <2>4, <2>5, <2>6, <2>7, <2>8, <2>9, <2>10, <2>11
       DEF JobStep
<1>3. ASSUME Crash, UNCHANGED faults
      PROVE  OneReady'
  BY <1>3 DEF Crash
<1>4. ASSUME RetainRows, UNCHANGED faults
      PROVE  OneReady'
  BY <1>4 DEF RetainRows, CurrentJobs
<1>5. ASSUME RetainDirs, UNCHANGED faults
      PROVE  OneReady'
  BY <1>5 DEF RetainDirs, RemoveDirsBut, RemoveSomeDirsBut
<1>6. CASE UNCHANGED <<vars, faults>>
  BY <1>6
<1> QED
  BY <1>1, <1>2, <1>3, <1>4, <1>5, <1>6 DEF Next, Step, Start

LEMMA StepFilesKept ==
  ASSUME TypeOK, OneJob, DoneAtEnd, FilesKept, "lostCommit" \notin faults, [Next]_<<vars, faults>>
  PROVE  FilesKept'
<1> USE NoneAssumption DEF vars, At, Goto, Finish, SetJob, PutBack, RunPcs, Admitted, Running,
            TypeOK, Versions, OneJob, DoneAtEnd, Lost, FilesKept
<1>1. ASSUME NEW j \in Jobs, NEW v \in Versions, Enqueue(j, v), UNCHANGED faults
      PROVE  FilesKept'
  BY <1>1 DEF Enqueue
<1>2. ASSUME NEW j \in Jobs, JobStep(j), UNCHANGED faults
      PROVE  FilesKept'
  <2>1. CASE Reserve(j)
    BY <1>2, <2>1 DEF Reserve
  <2>2. CASE InsertJob(j) \/ InsertFails(j)
    BY <1>2, <2>2 DEF InsertJob, InsertFails
  <2>3. CASE StartRun(j)
    BY <1>2, <2>3 DEF StartRun
  <2>4. CASE Download(j) \/ DownloadFails(j)
    BY <1>2, <2>4 DEF Download, DownloadFails
  <2>5. CASE Backup(j) \/ BackupFails(j)
    BY <1>2, <2>5 DEF Backup, BackupFails
  <2>6. CASE Swap(j) \/ SwapFails(j)
    BY <1>2, <2>6 DEF Swap, SwapFails
  <2>7. CASE Commit(j) \/ CommitFails(j)
    BY <1>2, <2>7 DEF Commit, CommitFails, ReplaceRows
  <2>8. CASE Withdraw(j) \/ Restore(j)
    BY <1>2, <2>8 DEF Withdraw, Restore
  <2>9. CASE Clean(j)
    BY <1>2, <2>9 DEF Clean, RemoveDirsBut, RemoveSomeDirsBut
  <2>10. CASE Discard(j)
    BY <1>2, <2>10 DEF Discard
  <2>11. CASE RecordFailure(j)
    BY <1>2, <2>11 DEF RecordFailure, Prune, HalfPrune, KeptBy
  <2> QED
    BY <1>2, <2>1, <2>2, <2>3, <2>4, <2>5, <2>6, <2>7, <2>8, <2>9, <2>10, <2>11
       DEF JobStep
<1>3. ASSUME Crash, UNCHANGED faults
      PROVE  FilesKept'
  BY <1>3 DEF Crash
<1>4. ASSUME RetainRows, UNCHANGED faults
      PROVE  FilesKept'
  BY <1>4 DEF RetainRows, CurrentJobs
<1>5. ASSUME RetainDirs, UNCHANGED faults
      PROVE  FilesKept'
  BY <1>5 DEF RetainDirs, RemoveDirsBut, RemoveSomeDirsBut
<1>6. CASE UNCHANGED <<vars, faults>>
  BY <1>6
<1> QED
  BY <1>1, <1>2, <1>3, <1>4, <1>5, <1>6 DEF Next, Step, Start

\* What Tidy says of the job that runs.
TidyFor(j) ==
  /\ staging \subseteq {j} /\ backup \subseteq {j}
  /\ j \in staging => pc[j] \in {"backup", "swap", "putBack", "discard"}
  /\ j \in backup =>
       /\ pc[j] \in {"swap", "commit", "withdraw", "putBack", "clean"}
       /\ dirs \subseteq {version[j]}
       /\ pc[j] \in {"swap", "putBack"} => dirs = {}
  /\ \A c, d \in dirs : c # d =>
       pc[j] \in {"commit", "withdraw", "clean"} /\ version[j] \in {c, d}

LEMMA RunningIsTidy ==
  ASSUME TypeOK, OneJob, Tidy, NEW j \in Jobs, pc[j] \in RunPcs
  PROVE  /\ server = "up" /\ \A k \in Jobs : pc[k] \in RunPcs => k = j
         /\ TidyFor(j)
<1>1. server = "up" /\ \A k \in Jobs : pc[k] \in RunPcs => k = j
  BY DEF OneJob, Admitted, RunPcs
<1>2. staging \subseteq {j} /\ backup \subseteq {j}
  BY <1>1 DEF Tidy, TypeOK, RunPcs
<1>3. /\ j \in staging => pc[j] \in {"backup", "swap", "putBack", "discard"}
      /\ j \in backup =>
           /\ pc[j] \in {"swap", "commit", "withdraw", "putBack", "clean"}
           /\ dirs \subseteq {version[j]}
           /\ pc[j] \in {"swap", "putBack"} => dirs = {}
  BY <1>1 DEF Tidy
<1>4. ASSUME NEW c \in dirs, NEW d \in dirs, c # d
      PROVE  pc[j] \in {"commit", "withdraw", "clean"} /\ version[j] \in {c, d}
  <2>1. PICK i \in Running :
          pc[i] \in {"commit", "withdraw", "clean"} /\ version[i] \in {c, d}
    BY <1>1, <1>4 DEF Tidy
  <2>2. i = j
    BY <1>1 DEF Running
  <2> QED
    BY <2>1, <2>2
<1>5. \A c, d \in dirs : c # d =>
        pc[j] \in {"commit", "withdraw", "clean"} /\ version[j] \in {c, d}
  BY <1>4, Zenon
<1>6. TidyFor(j)
  BY <1>2, <1>3, <1>5 DEF TidyFor
<1> QED
  BY <1>1, <1>6

LEMMA StepTidy ==
  ASSUME TypeOK, OneJob, Tidy, faults \cap {"cleanup", "restore"} = {}, [Next]_<<vars, faults>>
  PROVE  Tidy'
<1> USE NoneAssumption DEF vars, At, Goto, Finish, SetJob, PutBack, RunPcs, Admitted, Running,
            TypeOK, Versions, OneJob, Tidy
<1>1. ASSUME NEW j \in Jobs, NEW v \in Versions, Enqueue(j, v), UNCHANGED faults
      PROVE  Tidy'
  BY <1>1 DEF Enqueue
<1>2. ASSUME NEW j \in Jobs, JobStep(j), UNCHANGED faults
      PROVE  Tidy'
  <2>1. CASE Reserve(j)
    BY <1>2, <2>1 DEF Reserve
  <2>2. CASE InsertJob(j)
    BY <1>2, <2>2 DEF InsertJob
  <2>3. CASE InsertFails(j)
    BY <1>2, <2>3 DEF InsertFails
  <2>4. CASE StartRun(j)
    BY <1>2, <2>4 DEF StartRun
  <2>5. CASE Download(j)
    BY <1>2, <2>5 DEF Download
  <2>6. CASE DownloadFails(j)
    BY <1>2, <2>6 DEF DownloadFails
  <2>7. CASE Backup(j)
    <3>1. \A k \in Jobs : pc'[k] \in RunPcs => k = j
      BY <1>2, <2>7, RunningIsTidy DEF Backup
    <3>2. pc'[j] = "swap" /\ UNCHANGED version
      BY <1>2, <2>7 DEF Backup
    <3>3. TidyFor(j) /\ pc[j] = "backup"
      BY <1>2, <2>7, RunningIsTidy DEF Backup
    <3> HIDE DEF TypeOK, OneJob, Tidy
    <3>4. TidyFor(j)'
      BY <2>7, <3>2, <3>3 DEF Backup, TidyFor
    <3> QED
      BY <3>1, <3>4 DEF Tidy, TidyFor
  <2>8. CASE BackupFails(j)
    BY <1>2, <2>8 DEF BackupFails
  <2>9. CASE Swap(j)
    <3>1. \A k \in Jobs : pc'[k] \in RunPcs => k = j
      BY <1>2, <2>9, RunningIsTidy DEF Swap
    <3>2. pc'[j] = "commit" /\ UNCHANGED version
      BY <1>2, <2>9 DEF Swap
    <3>3. TidyFor(j) /\ pc[j] = "swap"
      BY <1>2, <2>9, RunningIsTidy DEF Swap
    <3> HIDE DEF TypeOK, OneJob, Tidy
    <3>4. TidyFor(j)'
      BY <2>9, <3>2, <3>3 DEF Swap, TidyFor
    <3> QED
      BY <3>1, <3>4 DEF Tidy, TidyFor
  <2>10. CASE SwapFails(j)
    <3>1. \A k \in Jobs : pc'[k] \in RunPcs => k = j
      BY <1>2, <2>10, RunningIsTidy DEF SwapFails
    <3>2. pc'[j] = "discard" /\ UNCHANGED version
      BY <1>2, <2>10 DEF SwapFails
    <3>3. TidyFor(j) /\ pc[j] = "swap"
      BY <1>2, <2>10, RunningIsTidy DEF SwapFails
    <3> HIDE DEF TypeOK, OneJob, Tidy
    <3>4. TidyFor(j)'
      BY <2>10, <3>2, <3>3 DEF SwapFails, TidyFor
    <3> QED
      BY <3>1, <3>4 DEF Tidy, TidyFor
  <2>11. CASE Commit(j)
    BY <1>2, <2>11 DEF Commit, ReplaceRows
  <2>12. CASE CommitFails(j)
    BY <1>2, <2>12 DEF CommitFails, ReplaceRows
  <2>13. CASE Withdraw(j)
    <3>1. \A k \in Jobs : pc'[k] \in RunPcs => k = j
      BY <1>2, <2>13, RunningIsTidy DEF Withdraw
    <3>2. pc'[j] = "putBack" /\ UNCHANGED version
      BY <1>2, <2>13 DEF Withdraw
    <3>3. TidyFor(j) /\ pc[j] = "withdraw"
      BY <1>2, <2>13, RunningIsTidy DEF Withdraw
    <3> HIDE DEF TypeOK, OneJob, Tidy
    <3>4. TidyFor(j)'
      BY <2>13, <3>2, <3>3 DEF Withdraw, TidyFor
    <3> QED
      BY <3>1, <3>4 DEF Tidy, TidyFor
  <2>14. CASE Restore(j)
    <3>1. \A k \in Jobs : pc'[k] \in RunPcs => k = j
      BY <1>2, <2>14, RunningIsTidy DEF Restore
    <3>2. pc'[j] = "discard" /\ UNCHANGED version
      BY <1>2, <2>14 DEF Restore
    <3>3. TidyFor(j) /\ pc[j] = "putBack"
      BY <1>2, <2>14, RunningIsTidy DEF Restore
    <3> HIDE DEF TypeOK, OneJob, Tidy
    <3>4. TidyFor(j)'
      BY <2>14, <3>2, <3>3 DEF Restore, TidyFor
    <3> QED
      BY <3>1, <3>4 DEF Tidy, TidyFor
  <2>15. CASE Clean(j)
    BY <1>2, <2>15 DEF Clean, RemoveDirsBut, RemoveSomeDirsBut
  <2>16. CASE Discard(j)
    BY <1>2, <2>16 DEF Discard
  <2>17. CASE RecordFailure(j)
    BY <1>2, <2>17 DEF RecordFailure, Prune, HalfPrune, KeptBy
  <2> QED
    BY <1>2, <2>1, <2>2, <2>3, <2>4, <2>5, <2>6, <2>7, <2>8, <2>9, <2>10, <2>11, <2>12,
       <2>13, <2>14, <2>15, <2>16, <2>17
    DEF JobStep
<1>3. ASSUME Crash, UNCHANGED faults
      PROVE  Tidy'
  BY <1>3 DEF Crash
<1>4. ASSUME RetainRows, UNCHANGED faults
      PROVE  Tidy'
  BY <1>4 DEF RetainRows, CurrentJobs
<1>5. ASSUME RetainDirs, UNCHANGED faults
      PROVE  Tidy'
  BY <1>5 DEF RetainDirs, RemoveDirsBut, RemoveSomeDirsBut
<1>6. CASE UNCHANGED <<vars, faults>>
  BY <1>6
<1> QED
  BY <1>1, <1>2, <1>3, <1>4, <1>5, <1>6 DEF Next, Step, Start

LEMMA StepKeepsInv == Inv /\ [Next]_<<vars, faults>> => Inv'
<1> SUFFICES ASSUME Inv, [Next]_<<vars, faults>>
             PROVE  Inv'
  OBVIOUS
<1>1. UNCHANGED faults
  BY DEF Next
<1>2. TypeOK' /\ OneJob'
  BY StepType, StepOneJob DEF Inv
<1>3. "lostCommit" \notin faults => DoneAtEnd' /\ FilesKept'
  BY StepDoneAtEnd, StepFilesKept DEF Inv
<1>4. faults \cap {"lostCommit", "badRead"} = {} => OneReady'
  BY StepOneReady DEF Inv
<1>5. faults \cap {"cleanup", "restore"} = {} => Tidy'
  BY StepTidy DEF Inv
<1> QED
  BY <1>1, <1>2, <1>3, <1>4, <1>5 DEF Inv

\* The invariant holds in every reachable state.
THEOREM Invariance == Spec => []Inv
  BY InitInv, StepKeepsInv, PTL DEF Spec

-----------------------------------------------------------------------------
(* The properties *)

\* Every variable stays within its type.
THEOREM TypeCorrect == Spec => []TypeOK
<1>1. Inv => TypeOK
  BY DEF Inv
<1> QED
  BY <1>1, Invariance, PTL

LEMMA RowsHaveTheirJob == TypeOK /\ OneReady => ReadyReleaseHasItsJob
<1> SUFFICES ASSUME TypeOK, OneReady
             PROVE  ReadyReleaseHasItsJob
  OBVIOUS
<1>1. CASE ready = 0
  <2>1. CurrentJobs = {}
    BY <1>1 DEF CurrentJobs
  <2> QED
    BY <1>1, <2>1, FS_EmptySet DEF OneReady, ReadyReleaseHasItsJob
<1>2. CASE ready # 0
  <2>1. PICK k \in Jobs : \A j \in Jobs : job[j] = "ready" /\ version[j] = ready <=> j = k
    BY <1>2 DEF OneReady
  <2>2. CurrentJobs = {k}
    BY <1>2, <2>1 DEF CurrentJobs
  <2>3. Cardinality(CurrentJobs) = 1
    BY <2>2, FS_Singleton
  <2> QED
    BY <1>2, <2>3 DEF OneReady, ReadyReleaseHasItsJob, CurrentJobs
<1> QED
  BY <1>1, <1>2

LEMMA RowsHaveFiles == TypeOK /\ DoneAtEnd /\ FilesKept => ReadyReleaseHasFiles
<1> SUFFICES ASSUME TypeOK, DoneAtEnd, FilesKept, ready # 0, ready \notin dirs
             PROVE  \E j \in Jobs : /\ version[j] = ready /\ j \notin CurrentJobs
                                   /\ \/ pc[j] \in {"swap", "putBack", "cut"}
                                      \/ /\ "restore" \in faults
                                         /\ pc[j] \in {"discard", "record", "ended"}
  BY DEF ReadyReleaseHasFiles
<1>1. CASE Lost
  BY <1>1 DEF Lost, CurrentJobs
<1>2. CASE \E j \in Running : version[j] = ready /\ pc[j] \in {"swap", "putBack"}
  BY <1>2 DEF DoneAtEnd, Running, CurrentJobs
<1> QED
  BY <1>1, <1>2 DEF FilesKept

LEMMA NothingIsLeft == TypeOK /\ Tidy => NothingLeftBehind
<1> SUFFICES ASSUME TypeOK, Tidy, server = "up", \A j \in Jobs : pc[j] \notin RunPcs
             PROVE  Cardinality(dirs) <= 1 /\ staging = {} /\ backup = {}
  BY DEF NothingLeftBehind
<1>1. staging = {} /\ backup = {}
  BY DEF Tidy, TypeOK, RunPcs
<1>2. CASE dirs = {}
  BY <1>1, <1>2, FS_EmptySet
<1>3. CASE dirs # {}
  <2>1. PICK d \in dirs : TRUE
    BY <1>3
  <2>2. dirs = {d}
    BY <2>1 DEF Tidy, Running
  <2>3. Cardinality(dirs) = 1
    BY <2>2, FS_Singleton
  <2> QED
    BY <1>1, <2>3
<1> QED
  BY <1>2, <1>3

\* Whatever stops or fails on the way, the rows, the jobs and the directories
\* tell of one release, but for the four faults that the code cannot mend.
THEOREM CacheStaysWhole == Spec => []CacheIsWhole
<1>1. Inv => CacheIsWhole
  BY RowsHaveTheirJob, RowsHaveFiles, NothingIsLeft DEF Inv, CacheIsWhole
<1> QED
  BY <1>1, Invariance, PTL

=============================================================================
