------------------------------- MODULE Setup -------------------------------
(***************************************************************************)
(* The first installation: setupInstall in internal/server/app.go calls    *)
(* Install in internal/setup/service.go, which prepares a transaction      *)
(* (schema and administrator), writes three configuration files and the    *)
(* lock file, and commits; then the server loads what was written.         *)
(*                                                                         *)
(* The lock file alone says whether Setup is needed.  MeshCentral is       *)
(* started by systemd as soon as its two files are there, whatever Install *)
(* does next, and reads them one after the other; a file that Install takes *)
(* back may stay; the server may stop between any two steps; install.sh    *)
(* may migrate the database of a configuration it finds.                   *)
(***************************************************************************)
EXTENDS Naturals

CONSTANTS
  Requests,    \* calls of setupInstall
  Logins,      \* names an administrator may choose
  MaxCrashes,  \* bound on the number of times the server stops
  None

ASSUME NoneAssumption == None \notin Requests \cup Logins
ASSUME CrashesAssumption == MaxCrashes \in Nat

\* Every installation draws new tokens, so a file is the request whose
\* tokens it holds, or None when it does not exist.
VARIABLES
  config,          \* config.json
  meshConfig,      \* meshcentral-config.json
  environment,     \* meshcentral.env
  lock,            \* .installed exists
  schema, administrators,  \* committed contents of the database
  up, loaded,      \* the server runs; configuration in its memory (App.config)
  pc, login,       \* of a request: next step, administrator asked for
  holder,          \* the request that holds installMu
  mesh,            \* tokens of the running MeshCentral: of its environment
                   \* (token) and, once it has read it, of its file (key)
  crashes,
  lost,            \* history: requests whose COMMIT took effect unanswered
  torn             \* history: a lock file may tell of no installation, as the
                   \* server stopped in InWindow or it could not be removed

files == <<config, meshConfig, environment, lock>>
database == <<schema, administrators, lost>>
process == <<up, loaded, crashes, torn>>
vars == <<files, database, process, pc, login, holder, mesh>>

Cleaning == {"cleanConfig", "cleanLock", "cleanMeshConfig", "cleanEnvironment"}
Writing == {"config", "meshConfig", "environment", "lock", "commit"}
Ended == {"refused", "installed", "unloaded", "cut"}

TypeOK ==
  /\ config \in Requests \cup {None}
  /\ meshConfig \in Requests \cup {None}
  /\ environment \in Requests \cup {None}
  /\ lock \in BOOLEAN /\ schema \in BOOLEAN /\ up \in BOOLEAN
  /\ administrators \in SUBSET Logins
  /\ loaded \in Requests \cup {None}
  /\ pc \in [Requests -> {"idle", "waiting", "prepare", "leaving", "committed", "loading"}
                           \cup Writing \cup Cleaning \cup Ended]
  /\ login \in [Requests -> Logins \cup {None}]
  /\ holder \in Requests \cup {None}
  /\ mesh \in [key : Requests \cup {None}, token : Requests \cup {None}]
  /\ crashes \in 0..MaxCrashes
  /\ lost \in SUBSET Requests /\ torn \in BOOLEAN

NoMesh == [key |-> None, token |-> None]

Init ==
  /\ config = None /\ meshConfig = None /\ environment = None /\ lock = FALSE
  /\ schema = FALSE /\ administrators = {} /\ lost = {}
  /\ up = TRUE /\ loaded = None /\ crashes = 0 /\ torn = FALSE
  /\ pc = [r \in Requests |-> "idle"]
  /\ login = [r \in Requests |-> None]
  /\ holder = None /\ mesh = NoMesh

Goto(r, step) == pc' = [pc EXCEPT ![r] = step]

-----------------------------------------------------------------------------
(* Install, serialised by installMu                                        *)

\* A request arrives; it waits for installMu.  None stands for a form that
\* Validate refuses.
Begin(r) ==
  /\ up /\ pc[r] = "idle"
  /\ \E name \in Logins \cup {None} : login' = [login EXCEPT ![r] = name]
  /\ Goto(r, "waiting")
  /\ UNCHANGED <<files, database, process, holder, mesh>>

\* Mutant of NeedsSetup: the lock file is not looked at.
AlwaysNeedsSetup == TRUE

\* No lock file can be found.
NeedsSetup == ~lock

\* Validate accepts the form.
Valid(r) == login[r] # None

\* The request has installMu and is admitted or not.
Enter(r) ==
  /\ pc[r] = "waiting" /\ holder = None
  /\ holder' = r
  /\ Goto(r, IF NeedsSetup /\ Valid(r) THEN "prepare" ELSE "leaving")
  /\ UNCHANGED <<files, database, process, login, mesh>>

\* The transaction creates the schema and the administrator, whose name is
\* unique; none of it is visible before the commit.
Prepare(r) ==
  /\ pc[r] = "prepare"
  /\ \/ login[r] \notin administrators /\ Goto(r, "config")
     \/ Goto(r, "leaving")   \* name taken, or a statement fails
  /\ UNCHANGED <<files, database, process, login, holder, mesh>>

\* Mutant of SaveConfig: the lock file is written with the first file.
SaveConfigAndLock(r) ==
  /\ pc[r] = "config"
  /\ config' = r /\ lock' = TRUE /\ Goto(r, "meshConfig")
  /\ UNCHANGED <<meshConfig, environment, database, process, login, holder, mesh>>

\* WriteAtomic of config.json; a failure leaves the file there was.
SaveConfig(r) ==
  /\ pc[r] = "config"
  /\ \/ config' = r /\ Goto(r, "meshConfig")
     \/ Goto(r, "leaving") /\ UNCHANGED config
  /\ UNCHANGED <<meshConfig, environment, lock, database, process, login, holder, mesh>>

\* WriteDeploymentFiles, its two files: when one cannot be written, Install
\* removes config.json and nothing else.  No error of os.Remove is looked at.
SaveMeshConfig(r) ==
  /\ pc[r] = "meshConfig"
  /\ \/ meshConfig' = r /\ Goto(r, "environment") /\ UNCHANGED config
     \/ config' \in {config, None} /\ Goto(r, "leaving") /\ UNCHANGED meshConfig
  /\ UNCHANGED <<environment, lock, database, process, login, holder, mesh>>

SaveEnvironment(r) ==
  /\ pc[r] = "environment"
  /\ \/ environment' = r /\ Goto(r, "lock") /\ UNCHANGED config
     \/ config' \in {config, None} /\ Goto(r, "leaving") /\ UNCHANGED environment
  /\ UNCHANGED <<meshConfig, lock, database, process, login, holder, mesh>>

\* WriteLock creates the file exclusively, and may fail when it closes it; from
\* here on a failure removes all the files.
SaveLock(r) ==
  /\ pc[r] = "lock"
  /\ \/ ~lock /\ lock' = TRUE /\ Goto(r, "commit")
     \/ ~lock /\ lock' = TRUE /\ Goto(r, "cleanConfig")
     \/ Goto(r, "cleanConfig") /\ UNCHANGED lock
  /\ UNCHANGED <<config, meshConfig, environment, database, process, login, holder, mesh>>

Committed(r) == administrators' = administrators \cup {login[r]} /\ schema' = TRUE

\* Mutant of Commit: its error is dropped.
CommitIgnored(r) ==
  /\ pc[r] = "commit"
  /\ Goto(r, "committed")
  /\ \/ Committed(r) /\ UNCHANGED lost
     \/ UNCHANGED database
  /\ UNCHANGED <<files, process, login, holder, mesh>>

Commit(r) ==
  /\ pc[r] = "commit"
  /\ \/ Committed(r) /\ Goto(r, "committed")
        /\ UNCHANGED lost
     \/ Goto(r, "cleanConfig") /\ UNCHANGED database
     \/ Committed(r) /\ Goto(r, "cleanConfig") /\ lost' = lost \cup {r}
  /\ UNCHANGED <<files, process, login, holder, mesh>>

\* Mutant of CleanConfig: the file is emptied.
EmptyConfig(r) ==
  /\ pc[r] = "cleanConfig" /\ config' = "" /\ Goto(r, "cleanLock")
  /\ UNCHANGED <<meshConfig, environment, lock, database, process, login, holder, mesh>>

\* The deferred removal of the files, one after the other; each may stay.
CleanConfig(r) ==
  /\ pc[r] = "cleanConfig" /\ config' \in {config, None} /\ Goto(r, "cleanLock")
  /\ UNCHANGED <<meshConfig, environment, lock, database, process, login, holder, mesh>>

CleanLock(r) ==
  /\ pc[r] = "cleanLock" /\ Goto(r, "cleanMeshConfig")
  /\ lock' \in {lock, FALSE} /\ torn' = (torn \/ lock')
  /\ UNCHANGED <<config, meshConfig, environment, database, up, loaded, crashes,
                 login, holder, mesh>>

CleanMeshConfig(r) ==
  /\ pc[r] = "cleanMeshConfig" /\ meshConfig' \in {meshConfig, None}
  /\ Goto(r, "cleanEnvironment")
  /\ UNCHANGED <<config, environment, lock, database, process, login, holder, mesh>>

CleanEnvironment(r) ==
  /\ pc[r] = "cleanEnvironment" /\ environment' \in {environment, None}
  /\ Goto(r, "leaving")
  /\ UNCHANGED <<config, meshConfig, lock, database, process, login, holder, mesh>>

\* Install returns: rollback, then installMu is released.
Leave(r) ==
  /\ pc[r] \in {"leaving", "committed"}
  /\ Goto(r, IF pc[r] = "committed" THEN "loading" ELSE "refused")
  /\ holder' = None
  /\ UNCHANGED <<files, database, process, login, mesh>>

\* What reload needs to succeed: config.json, and tables for RetainLatest.
Loadable == config # None /\ schema

\* reload, called with the context of the request; it may fail before or
\* after it has set App.config.
Reload(r) ==
  /\ pc[r] = "loading"
  /\ \/ Loadable /\ loaded' = config /\ Goto(r, "installed")
     \/ loaded' \in {loaded, config} /\ Goto(r, "unloaded")
  /\ UNCHANGED <<files, database, up, crashes, torn, login, holder, mesh>>

RequestStep(r) ==
  \/ Enter(r) \/ Prepare(r) \/ SaveConfig(r) \/ SaveMeshConfig(r) \/ SaveEnvironment(r)
  \/ SaveLock(r) \/ Commit(r) \/ Leave(r) \/ Reload(r)
  \/ CleanConfig(r) \/ CleanLock(r) \/ CleanMeshConfig(r) \/ CleanEnvironment(r)

-----------------------------------------------------------------------------
(* The server, MeshCentral and install.sh                                  *)

\* Between the lock file and the end of the transaction (or of the cleaning).
InWindow(r) == pc[r] \in {"commit"} \cup Cleaning

\* The process ends: its requests end, its transaction is rolled back.
Crash ==
  /\ up /\ crashes < MaxCrashes
  /\ up' = FALSE /\ loaded' = None /\ holder' = None
  /\ crashes' = crashes + 1
  /\ torn' = (torn \/ \E r \in Requests : InWindow(r))
  /\ pc' = [r \in Requests |-> IF pc[r] \in Ended \cup {"idle"} THEN pc[r] ELSE "cut"]
  /\ UNCHANGED <<files, database, login, mesh>>

\* New: without a lock file the server offers Setup; with one it must load
\* the configuration, or the process exits and systemd tries again.
Start ==
  /\ ~up
  /\ \/ NeedsSetup /\ UNCHANGED loaded
     \/ ~NeedsSetup /\ Loadable /\ loaded' = config
  /\ up' = TRUE
  /\ UNCHANGED <<files, database, crashes, torn, pc, login, holder, mesh>>

\* The path unit sees meshcentral.env, the service asks for both files, and
\* systemd gives the program it starts the environment as it is now.
LaunchMesh ==
  /\ mesh = NoMesh /\ environment # None /\ meshConfig # None
  /\ mesh' = [key |-> None, token |-> environment]
  /\ UNCHANGED <<files, database, process, pc, login, holder>>

\* The program reads its configuration, or ends when there is none any more.
ReadMeshConfig ==
  /\ mesh.token # None /\ mesh.key = None
  /\ mesh' = IF meshConfig = None THEN NoMesh ELSE [mesh EXCEPT !.key = meshConfig]
  /\ UNCHANGED <<files, database, process, pc, login, holder>>

StopMesh ==
  /\ mesh # NoMesh /\ mesh' = NoMesh
  /\ UNCHANGED <<files, database, process, pc, login, holder>>

\* install.sh is run again while no Setup is under way: it migrates the
\* database of the configuration it finds and writes MeshCentral's files.
Migrate ==
  /\ holder = None /\ config # None
  /\ schema' = TRUE /\ meshConfig' = config /\ environment' = config
  /\ UNCHANGED <<config, lock, administrators, lost, process, pc, login, holder, mesh>>

Next ==
  \/ \E r \in Requests : Begin(r) \/ RequestStep(r)
  \/ Crash \/ Start \/ LaunchMesh \/ ReadMeshConfig \/ StopMesh \/ Migrate

Spec == Init /\ [][Next]_vars

\* A request that is served goes on; systemd starts the server again.
Fairness ==
  /\ \A r \in Requests : WF_vars(RequestStep(r))
  /\ WF_vars(Start)

-----------------------------------------------------------------------------
(* Properties                                                              *)

\* A lock file tells of a finished installation, unless one is under way, the
\* server stopped with the lock file written and the transaction open, or the
\* lock file of a failed installation could not be removed: the configuration,
\* MeshCentral's two files and an administrator all belong to one request
\* (Install, cleanupFiles).
LockMeansInstalled ==
  lock /\ holder = None /\ ~torn =>
    /\ config # None /\ meshConfig = config /\ environment = config
    /\ schema /\ login[config] \in administrators

\* While Setup is needed nobody has an administrator's account, so a failed
\* or interrupted Setup can be repeated with the same name (the transaction of
\* Install); the exception is a COMMIT whose answer was lost.
NoLockNoAdministrator ==
  ~lock /\ holder = None => administrators \subseteq {login[r] : r \in lost}

\* At most one request is ever told that it has installed the system, though
\* several wait for installMu and the server may stop (Install, NeedsSetup).
OneInstallation ==
  \A r, s \in Requests :
    {pc[r], pc[s]} \subseteq {"committed", "loading", "installed", "unloaded"} => r = s

\* MeshCentral mixes the files of two installations only when it was launched
\* with the environment of one that has failed or was cut off since: what an
\* installation that goes on or has succeeded wrote is read whole, as it writes
\* meshcentral.env last (WriteDeploymentFiles, deskpatrol-meshcentral.path).
MeshCentralStartsWhole ==
  mesh.key \in {None, mesh.token} \/ pc[mesh.token] \in {"refused", "cut"}

\* Invariant: Setup leaves everything or nothing behind.  Configuration, lock
\* file, MeshCentral's two files, the transaction and what MeshCentral was
\* started with tell of one installation, whatever step fails (Install); what
\* else may be left is named in each of the three parts.
SetupIsWhole == LockMeansInstalled /\ NoLockNoAdministrator /\ MeshCentralStartsWhole

\* A server that finds a lock file comes up with its configuration, unless it
\* was stopped with the transaction open or the lock file is one of a failed
\* installation that could not be removed (New, reload).
ServerStartsAfterSetup == (lock /\ ~up /\ ~torn) ~> (up /\ loaded # None)

=============================================================================
