----------------------------- MODULE SetupProofs -----------------------------
(* Proofs about Setup, for any requests, names and number of crashes. *)
EXTENDS Setup, TLAPS

-----------------------------------------------------------------------------
(* The inductive invariant *)

Installing == {"prepare"} \cup Writing \cup Cleaning
Told == {"committed", "loading", "installed", "unloaded"}

\* installMu is held by the request that is inside Install; a request that may
\* write has a name; nothing runs in a server that has stopped.
Holder ==
  /\ \A r \in Requests : holder = r <=> pc[r] \in Installing \cup {"leaving", "committed"}
  /\ \A r \in Requests : pc[r] \in Installing => login[r] # None
  /\ ~up => \A r \in Requests : pc[r] \in Ended \cup {"idle"}
  /\ \A r \in Requests : pc[r] = "idle" => r \notin lost /\ config # r

\* What a request has written and removed of the files is still so: nobody
\* else writes while it holds installMu.
Written ==
  \A r \in Requests :
    /\ pc[r] \in {"meshConfig", "environment", "lock", "commit", "cleanConfig"} => config = r
    /\ pc[r] \in {"environment", "lock", "commit", "cleanConfig", "cleanLock",
                  "cleanMeshConfig"} => meshConfig = r
    /\ pc[r] \in {"lock", "commit"} \cup Cleaning => environment = r
    /\ pc[r] \in Told => config = r /\ meshConfig = r /\ environment = r

\* A request is admitted without a lock file and creates it itself; one that it
\* could not remove is known as such; once there is a request that was told of
\* its success, no other one is admitted.
Locked ==
  \A r \in Requests :
    /\ pc[r] \in {"prepare", "config", "meshConfig", "environment", "lock"} => ~lock
    /\ pc[r] \in {"cleanMeshConfig", "cleanEnvironment"} /\ lock => torn
    /\ pc[r] = "commit" => lock
    /\ pc[r] \in Told => lock
    /\ \A s \in Requests \ {r} : pc[r] \in Told => pc[s] \notin Told \cup Installing

Installed ==
  /\ config # None /\ meshConfig = config /\ environment = config
  /\ schema /\ login[config] \in administrators

\* Outside the window between lock file and commit, a lock file tells of an
\* installation that is complete.
Complete == lock /\ ~torn /\ (\A r \in Requests : ~InWindow(r)) => Installed

\* Nobody is entered as administrator unless the commit has succeeded or its
\* answer was lost.
Unnamed ==
  ~lock \/ (\E r \in Requests : pc[r] \in Installing) =>
    administrators \subseteq {login[r] : r \in lost}

\* What MeshCentral's files and MeshCentral itself have of a request that goes
\* on or has succeeded is of that request alone.
Matched ==
  /\ mesh.token = None => mesh.key = None
  /\ \A r \in Requests :
       /\ pc[r] \in {"idle", "waiting", "prepare", "config"} => config # r
       /\ pc[r] \in {"idle", "waiting", "prepare", "config", "meshConfig", "environment"} =>
            environment # r /\ mesh.token # r
       /\ pc[r] \notin {"refused", "cut"} =>
            /\ environment = r => meshConfig \in {r, None}
            /\ mesh.token = r => mesh.key \in {None, r}
            /\ mesh.token = r /\ mesh.key = None => meshConfig \in {r, None}

Inv == TypeOK /\ Holder /\ Written /\ Locked /\ Complete /\ Unnamed /\ Matched

-----------------------------------------------------------------------------
(* The initial state and the steps *)

LEMMA InitInv == Init => Inv
<1> SUFFICES ASSUME Init
             PROVE  Inv
  OBVIOUS
<1> USE NoneAssumption, CrashesAssumption DEF Init, NoMesh
<1>1. TypeOK
  <2>1. crashes \in 0..MaxCrashes /\ administrators \in SUBSET Logins /\ lost \in SUBSET Requests
    OBVIOUS
  <2>2. mesh \in [key : Requests \cup {None}, token : Requests \cup {None}]
    OBVIOUS
  <2> QED
    BY <2>1, <2>2 DEF TypeOK
<1>2. Holder /\ Written /\ Locked
  BY DEF Holder, Written, Locked, Installing, Told, Writing, Cleaning
<1>3. Complete /\ Unnamed /\ Matched
  BY DEF Complete, Unnamed, Matched, Installing, Writing, Cleaning
<1> QED
  BY <1>1, <1>2, <1>3 DEF Inv

LEMMA StepType == TypeOK /\ Holder /\ [Next]_vars => TypeOK'
<1> SUFFICES ASSUME TypeOK, Holder, [Next]_vars
             PROVE  TypeOK'
  OBVIOUS
<1> USE NoneAssumption, CrashesAssumption DEF files, database, process,
            Cleaning, Writing, Ended, Installing, Told, Goto, TypeOK, Holder
<1>1. ASSUME NEW r \in Requests, Begin(r)
      PROVE  TypeOK'
  BY <1>1 DEF Begin
<1>2. ASSUME NEW r \in Requests, RequestStep(r)
      PROVE  TypeOK'
  <2>1. CASE Enter(r)
    BY <2>1 DEF Enter, NeedsSetup, Valid
  <2>2. CASE Prepare(r)
    BY <2>2 DEF Prepare
  <2>3. CASE SaveConfig(r)
    BY <2>3 DEF SaveConfig
  <2>4. CASE SaveMeshConfig(r)
    BY <2>4 DEF SaveMeshConfig
  <2>5. CASE SaveEnvironment(r)
    BY <2>5 DEF SaveEnvironment
  <2>6. CASE SaveLock(r)
    BY <2>6, ZenonT(60) DEF SaveLock
  <2>7. CASE Commit(r)
    <3>1. login[r] \in Logins
      BY <2>7 DEF Commit
    <3>2. administrators \cup {login[r]} \in SUBSET Logins /\ lost \cup {r} \in SUBSET Requests
      BY <3>1
    <3> QED
      BY <2>7, <3>2, ZenonT(60) DEF Commit, Committed
  <2>8. CASE Leave(r)
    BY <2>8 DEF Leave
  <2>9. CASE Reload(r)
    BY <2>9 DEF Reload, Loadable
  <2>10. CASE CleanConfig(r)
    BY <2>10 DEF CleanConfig
  <2>11. CASE CleanLock(r)
    BY <2>11, ZenonT(60) DEF CleanLock
  <2>12. CASE CleanMeshConfig(r)
    BY <2>12 DEF CleanMeshConfig
  <2>13. CASE CleanEnvironment(r)
    BY <2>13 DEF CleanEnvironment
  <2> QED
    BY <1>2, <2>1, <2>2, <2>3, <2>4, <2>5, <2>6, <2>7, <2>8, <2>9, <2>10, <2>11, <2>12,
       <2>13
    DEF RequestStep
<1>3. CASE Crash
  <2>1. crashes' \in 0..MaxCrashes
    BY <1>3 DEF Crash
  <2>2. torn' \in BOOLEAN
    BY <1>3 DEF Crash
  <2> QED
    BY <1>3, <2>1, <2>2 DEF Crash
<1>4. CASE Start
  BY <1>4 DEF Start, NeedsSetup, Loadable
<1>5. CASE LaunchMesh \/ ReadMeshConfig \/ StopMesh
  <2>1. mesh' \in [key : Requests \cup {None}, token : Requests \cup {None}]
    BY <1>5 DEF LaunchMesh, ReadMeshConfig, StopMesh, NoMesh
  <2> QED
    BY <1>5, <2>1 DEF LaunchMesh, ReadMeshConfig, StopMesh
<1>6. CASE Migrate
  BY <1>6 DEF Migrate
<1>7. CASE UNCHANGED vars
  BY <1>7 DEF vars
<1> QED
  BY <1>1, <1>2, <1>3, <1>4, <1>5, <1>6, <1>7 DEF Next

LEMMA StepHolder == TypeOK /\ Holder /\ [Next]_vars => Holder'
<1> SUFFICES ASSUME TypeOK, Holder, [Next]_vars
             PROVE  Holder'
  OBVIOUS
<1> USE NoneAssumption, CrashesAssumption DEF files, database, process,
            Cleaning, Writing, Ended, Installing, Told, Goto, TypeOK, Holder
<1>1. ASSUME NEW r \in Requests, Begin(r)
      PROVE  Holder'
  BY <1>1 DEF Begin
<1>2. ASSUME NEW r \in Requests, RequestStep(r)
      PROVE  Holder'
  <2>1. CASE Enter(r)
    BY <2>1 DEF Enter, NeedsSetup, Valid
  <2>2. CASE Prepare(r)
    BY <2>2 DEF Prepare
  <2>3. CASE SaveConfig(r)
    BY <2>3 DEF SaveConfig
  <2>4. CASE SaveMeshConfig(r)
    BY <2>4 DEF SaveMeshConfig
  <2>5. CASE SaveEnvironment(r)
    BY <2>5 DEF SaveEnvironment
  <2>6. CASE SaveLock(r)
    BY <2>6 DEF SaveLock
  <2>7. CASE Commit(r)
    BY <2>7 DEF Commit, Committed
  <2>8. CASE Leave(r)
    BY <2>8 DEF Leave
  <2>9. CASE Reload(r)
    BY <2>9 DEF Reload, Loadable
  <2>10. CASE CleanConfig(r)
    BY <2>10 DEF CleanConfig
  <2>11. CASE CleanLock(r)
    BY <2>11 DEF CleanLock
  <2>12. CASE CleanMeshConfig(r)
    BY <2>12 DEF CleanMeshConfig
  <2>13. CASE CleanEnvironment(r)
    BY <2>13 DEF CleanEnvironment
  <2> QED
    BY <1>2, <2>1, <2>2, <2>3, <2>4, <2>5, <2>6, <2>7, <2>8, <2>9, <2>10, <2>11, <2>12,
       <2>13
    DEF RequestStep
<1>3. CASE Crash
  BY <1>3 DEF Crash, InWindow
<1>4. CASE Start
  BY <1>4 DEF Start, NeedsSetup, Loadable
<1>5. CASE LaunchMesh \/ ReadMeshConfig \/ StopMesh
  BY <1>5 DEF LaunchMesh, ReadMeshConfig, StopMesh
<1>6. CASE Migrate
  BY <1>6 DEF Migrate
<1>7. CASE UNCHANGED vars
  BY <1>7 DEF vars
<1> QED
  BY <1>1, <1>2, <1>3, <1>4, <1>5, <1>6, <1>7 DEF Next

LEMMA StepWritten == TypeOK /\ Holder /\ Written /\ Locked /\ [Next]_vars => Written'
<1> SUFFICES ASSUME TypeOK, Holder, Written, Locked, [Next]_vars
             PROVE  Written'
  OBVIOUS
<1> USE NoneAssumption, CrashesAssumption DEF files, database, process,
            Cleaning, Writing, Ended, Installing, Told, Goto, TypeOK, Holder, Written, Locked
<1>1. ASSUME NEW r \in Requests, Begin(r)
      PROVE  Written'
  BY <1>1 DEF Begin
<1>2. ASSUME NEW r \in Requests, RequestStep(r)
      PROVE  Written'
  <2>1. CASE Enter(r)
    BY <2>1 DEF Enter, NeedsSetup, Valid
  <2>2. CASE Prepare(r)
    BY <2>2 DEF Prepare
  <2>3. CASE SaveConfig(r)
    BY <2>3 DEF SaveConfig
  <2>4. CASE SaveMeshConfig(r)
    BY <2>4 DEF SaveMeshConfig
  <2>5. CASE SaveEnvironment(r)
    BY <2>5 DEF SaveEnvironment
  <2>6. CASE SaveLock(r)
    BY <2>6 DEF SaveLock
  <2>7. CASE Commit(r)
    BY <2>7 DEF Commit, Committed
  <2>8. CASE Leave(r)
    BY <2>8 DEF Leave
  <2>9. CASE Reload(r)
    BY <2>9 DEF Reload, Loadable
  <2>10. CASE CleanConfig(r)
    BY <2>10 DEF CleanConfig
  <2>11. CASE CleanLock(r)
    BY <2>11 DEF CleanLock
  <2>12. CASE CleanMeshConfig(r)
    BY <2>12 DEF CleanMeshConfig
  <2>13. CASE CleanEnvironment(r)
    BY <2>13 DEF CleanEnvironment
  <2> QED
    BY <1>2, <2>1, <2>2, <2>3, <2>4, <2>5, <2>6, <2>7, <2>8, <2>9, <2>10, <2>11, <2>12,
       <2>13
    DEF RequestStep
<1>3. CASE Crash
  BY <1>3 DEF Crash, InWindow
<1>4. CASE Start
  BY <1>4 DEF Start, NeedsSetup, Loadable
<1>5. CASE LaunchMesh \/ ReadMeshConfig \/ StopMesh
  BY <1>5 DEF LaunchMesh, ReadMeshConfig, StopMesh
<1>6. CASE Migrate
  BY <1>6 DEF Migrate
<1>7. CASE UNCHANGED vars
  BY <1>7 DEF vars
<1> QED
  BY <1>1, <1>2, <1>3, <1>4, <1>5, <1>6, <1>7 DEF Next

LEMMA StepLocked == TypeOK /\ Holder /\ Locked /\ [Next]_vars => Locked'
<1> SUFFICES ASSUME TypeOK, Holder, Locked, [Next]_vars
             PROVE  Locked'
  OBVIOUS
<1> USE NoneAssumption, CrashesAssumption DEF files, database, process,
            Cleaning, Writing, Ended, Installing, Told, Goto, TypeOK, Holder, Locked
<1>1. ASSUME NEW r \in Requests, Begin(r)
      PROVE  Locked'
  BY <1>1 DEF Begin
<1>2. ASSUME NEW r \in Requests, RequestStep(r)
      PROVE  Locked'
  <2>1. CASE Enter(r)
    BY <2>1 DEF Enter, NeedsSetup, Valid
  <2>2. CASE Prepare(r)
    BY <2>2 DEF Prepare
  <2>3. CASE SaveConfig(r)
    BY <2>3 DEF SaveConfig
  <2>4. CASE SaveMeshConfig(r)
    BY <2>4 DEF SaveMeshConfig
  <2>5. CASE SaveEnvironment(r)
    BY <2>5 DEF SaveEnvironment
  <2>6. CASE SaveLock(r)
    BY <2>6 DEF SaveLock
  <2>7. CASE Commit(r)
    BY <2>7 DEF Commit, Committed
  <2>8. CASE Leave(r)
    BY <2>8 DEF Leave
  <2>9. CASE Reload(r)
    BY <2>9 DEF Reload, Loadable
  <2>10. CASE CleanConfig(r)
    BY <2>10 DEF CleanConfig
  <2>11. CASE CleanLock(r)
    BY <2>11 DEF CleanLock
  <2>12. CASE CleanMeshConfig(r)
    BY <2>12 DEF CleanMeshConfig
  <2>13. CASE CleanEnvironment(r)
    BY <2>13 DEF CleanEnvironment
  <2> QED
    BY <1>2, <2>1, <2>2, <2>3, <2>4, <2>5, <2>6, <2>7, <2>8, <2>9, <2>10, <2>11, <2>12,
       <2>13
    DEF RequestStep
<1>3. CASE Crash
  BY <1>3 DEF Crash, InWindow
<1>4. CASE Start
  BY <1>4 DEF Start, NeedsSetup, Loadable
<1>5. CASE LaunchMesh \/ ReadMeshConfig \/ StopMesh
  BY <1>5 DEF LaunchMesh, ReadMeshConfig, StopMesh
<1>6. CASE Migrate
  BY <1>6 DEF Migrate
<1>7. CASE UNCHANGED vars
  BY <1>7 DEF vars
<1> QED
  BY <1>1, <1>2, <1>3, <1>4, <1>5, <1>6, <1>7 DEF Next

LEMMA StepComplete == TypeOK /\ Holder /\ Written /\ Locked /\ Complete /\ [Next]_vars => Complete'
<1> SUFFICES ASSUME TypeOK, Holder, Written, Locked, Complete, [Next]_vars
             PROVE  Complete'
  OBVIOUS
<1> USE NoneAssumption, CrashesAssumption
    DEF files, database, process, Cleaning, Writing, Ended, Installing, Told, Goto,
        TypeOK, Holder, Written, Locked, Complete, Installed, InWindow
<1>1. ASSUME NEW r \in Requests, Begin(r)
      PROVE  Complete'
  BY <1>1 DEF Begin
<1>2. ASSUME NEW r \in Requests, RequestStep(r)
      PROVE  Complete'
  <2>1. CASE Enter(r)
    BY <2>1 DEF Enter, NeedsSetup, Valid
  <2>2. CASE Prepare(r)
    BY <2>2 DEF Prepare
  <2>3. CASE SaveConfig(r)
    BY <2>3 DEF SaveConfig
  <2>4. CASE SaveMeshConfig(r)
    BY <2>4 DEF SaveMeshConfig
  <2>5. CASE SaveEnvironment(r)
    BY <2>5 DEF SaveEnvironment
  <2>6. CASE SaveLock(r)
    BY <2>6, ZenonT(60) DEF SaveLock
  <2>7. CASE Commit(r)
    BY <2>7 DEF Commit, Committed
  <2>8. CASE Leave(r)
    BY <2>8 DEF Leave
  <2>9. CASE Reload(r)
    BY <2>9 DEF Reload, Loadable
  <2>10. CASE CleanConfig(r)
    BY <2>10 DEF CleanConfig
  <2>11. CASE CleanLock(r)
    BY <2>11 DEF CleanLock
  <2>12. CASE CleanMeshConfig(r)
    BY <2>12 DEF CleanMeshConfig
  <2>13. CASE CleanEnvironment(r)
    BY <2>13 DEF CleanEnvironment
  <2> QED
    BY <1>2, <2>1, <2>2, <2>3, <2>4, <2>5, <2>6, <2>7, <2>8, <2>9, <2>10, <2>11, <2>12,
       <2>13
    DEF RequestStep
<1>3. CASE Crash
  BY <1>3 DEF Crash, InWindow
<1>4. CASE Start
  BY <1>4 DEF Start, NeedsSetup, Loadable
<1>5. CASE LaunchMesh \/ ReadMeshConfig \/ StopMesh
  <2>1. UNCHANGED <<files, database, process, pc, login>>
    BY <1>5 DEF LaunchMesh, ReadMeshConfig, StopMesh
  <2> QED
    BY <2>1
<1>6. CASE Migrate
  BY <1>6 DEF Migrate
<1>7. CASE UNCHANGED vars
  BY <1>7 DEF vars
<1> QED
  BY <1>1, <1>2, <1>3, <1>4, <1>5, <1>6, <1>7 DEF Next

LEMMA StepUnnamed == TypeOK /\ Holder /\ Locked /\ Unnamed /\ [Next]_vars => Unnamed'
<1> SUFFICES ASSUME TypeOK, Holder, Locked, Unnamed, [Next]_vars
             PROVE  Unnamed'
  OBVIOUS
<1> USE NoneAssumption, CrashesAssumption DEF files, database, process,
            Cleaning, Writing, Ended, Installing, Told, Goto, TypeOK, Holder, Locked, Unnamed
<1>1. ASSUME NEW r \in Requests, Begin(r)
      PROVE  Unnamed'
  BY <1>1 DEF Begin
<1>2. ASSUME NEW r \in Requests, RequestStep(r)
      PROVE  Unnamed'
  <2>1. CASE Enter(r)
    BY <2>1 DEF Enter, NeedsSetup, Valid
  <2>2. CASE Prepare(r)
    BY <2>2 DEF Prepare
  <2>3. CASE SaveConfig(r)
    BY <2>3 DEF SaveConfig
  <2>4. CASE SaveMeshConfig(r)
    BY <2>4 DEF SaveMeshConfig
  <2>5. CASE SaveEnvironment(r)
    BY <2>5 DEF SaveEnvironment
  <2>6. CASE SaveLock(r)
    BY <2>6 DEF SaveLock
  <2>7. CASE Commit(r)
    BY <2>7 DEF Commit, Committed
  <2>8. CASE Leave(r)
    BY <2>8 DEF Leave
  <2>9. CASE Reload(r)
    BY <2>9 DEF Reload, Loadable
  <2>10. CASE CleanConfig(r)
    BY <2>10 DEF CleanConfig
  <2>11. CASE CleanLock(r)
    BY <2>11 DEF CleanLock
  <2>12. CASE CleanMeshConfig(r)
    BY <2>12 DEF CleanMeshConfig
  <2>13. CASE CleanEnvironment(r)
    BY <2>13 DEF CleanEnvironment
  <2> QED
    BY <1>2, <2>1, <2>2, <2>3, <2>4, <2>5, <2>6, <2>7, <2>8, <2>9, <2>10, <2>11, <2>12,
       <2>13
    DEF RequestStep
<1>3. CASE Crash
  BY <1>3 DEF Crash, InWindow
<1>4. CASE Start
  BY <1>4 DEF Start, NeedsSetup, Loadable
<1>5. CASE LaunchMesh \/ ReadMeshConfig \/ StopMesh
  BY <1>5 DEF LaunchMesh, ReadMeshConfig, StopMesh
<1>6. CASE Migrate
  BY <1>6 DEF Migrate
<1>7. CASE UNCHANGED vars
  BY <1>7 DEF vars
<1> QED
  BY <1>1, <1>2, <1>3, <1>4, <1>5, <1>6, <1>7 DEF Next

LEMMA StepMatched ==
  TypeOK /\ Holder /\ Written /\ Locked /\ Complete /\ Matched /\ [Next]_vars => Matched'
<1> SUFFICES ASSUME TypeOK, Holder, Written, Locked, Complete, Matched, [Next]_vars
             PROVE  Matched'
  OBVIOUS
<1> USE NoneAssumption, CrashesAssumption DEF files, database, process,
            Cleaning, Writing, Ended, Installing, Told, Goto, TypeOK, Holder, Written, Locked,
            Complete, Matched, Installed, InWindow
<1>1. ASSUME NEW r \in Requests, Begin(r)
      PROVE  Matched'
  BY <1>1 DEF Begin
<1>2. ASSUME NEW r \in Requests, RequestStep(r)
      PROVE  Matched'
  <2>1. CASE Enter(r)
    BY <2>1 DEF Enter, NeedsSetup, Valid
  <2>2. CASE Prepare(r)
    BY <2>2 DEF Prepare
  <2>3. CASE SaveConfig(r)
    BY <2>3 DEF SaveConfig
  <2>4. CASE SaveMeshConfig(r)
    BY <2>4 DEF SaveMeshConfig
  <2>5. CASE SaveEnvironment(r)
    BY <2>5 DEF SaveEnvironment
  <2>6. CASE SaveLock(r)
    BY <2>6 DEF SaveLock
  <2>7. CASE Commit(r)
    BY <2>7 DEF Commit, Committed
  <2>8. CASE Leave(r)
    BY <2>8 DEF Leave
  <2>9. CASE Reload(r)
    BY <2>9 DEF Reload, Loadable
  <2>10. CASE CleanConfig(r)
    BY <2>10 DEF CleanConfig
  <2>11. CASE CleanLock(r)
    BY <2>11 DEF CleanLock
  <2>12. CASE CleanMeshConfig(r)
    BY <2>12 DEF CleanMeshConfig
  <2>13. CASE CleanEnvironment(r)
    BY <2>13 DEF CleanEnvironment
  <2> QED
    BY <1>2, <2>1, <2>2, <2>3, <2>4, <2>5, <2>6, <2>7, <2>8, <2>9, <2>10, <2>11, <2>12,
       <2>13
    DEF RequestStep
<1>3. CASE Crash
  BY <1>3 DEF Crash, InWindow
<1>4. CASE Start
  BY <1>4 DEF Start, NeedsSetup, Loadable
<1>5. CASE LaunchMesh \/ ReadMeshConfig \/ StopMesh
  <2>1. CASE StopMesh
    BY <2>1 DEF StopMesh, NoMesh
  <2>2. CASE LaunchMesh
    BY <2>2 DEF LaunchMesh
  <2>3. CASE ReadMeshConfig
    BY <2>3 DEF ReadMeshConfig, NoMesh
  <2> QED
    BY <1>5, <2>1, <2>2, <2>3
<1>6. CASE Migrate
  BY <1>6 DEF Migrate
<1>7. CASE UNCHANGED vars
  BY <1>7 DEF vars
<1> QED
  BY <1>1, <1>2, <1>3, <1>4, <1>5, <1>6, <1>7 DEF Next

-----------------------------------------------------------------------------
(* The theorems *)

LEMMA Invariance == Spec => []Inv
<1>1. Inv /\ [Next]_vars => Inv'
  BY StepType, StepHolder, StepWritten, StepLocked, StepComplete, StepUnnamed,
     StepMatched DEF Inv
<1> QED
  BY <1>1, InitInv, PTL DEF Spec

\* Every file, table and request is in a state the code knows.
THEOREM TypeCorrect == Spec => []TypeOK
  BY Invariance, PTL DEF Inv

\* Configuration, lock file, MeshCentral's files and administrator belong to one
\* installation, but for a server that is stopped between the lock file and the
\* commit, a lock file that cannot be removed and a commit without answer; and
\* MeshCentral runs with files of one, unless that one has failed since.
THEOREM SetupStaysWhole == Spec => []SetupIsWhole
<1>1. Inv => LockMeansInstalled
  BY NoneAssumption
  DEF Inv, Holder, Complete, Installed, LockMeansInstalled, InWindow, Installing,
      Writing, Cleaning
<1>2. Inv => NoLockNoAdministrator
  BY DEF Inv, Unnamed, NoLockNoAdministrator
<1>3. Inv => MeshCentralStartsWhole
  <2> SUFFICES ASSUME Inv, mesh.key \notin {None, mesh.token}
               PROVE  pc[mesh.token] \in {"refused", "cut"}
    BY DEF MeshCentralStartsWhole
  <2>1. mesh.token \in Requests
    BY DEF Inv, TypeOK, Matched
  <2> QED
    BY <2>1 DEF Inv, Matched
<1> QED
  BY <1>1, <1>2, <1>3, Invariance, PTL DEF SetupIsWhole

\* Of the requests that wait for installMu, one is told that it has installed.
THEOREM InstalledOnce == Spec => []OneInstallation
<1>1. Inv => OneInstallation
  BY DEF Inv, Locked, OneInstallation, Told
<1> QED
  BY <1>1, Invariance, PTL

=============================================================================
