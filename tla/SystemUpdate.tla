---------------------------- MODULE SystemUpdate ----------------------------
(***************************************************************************)
(* How the server replaces itself: postSystemUpdate in                     *)
(* internal/server/system_update.go leaves a request file, the systemd     *)
(* path unit starts the updater deploy/systemd/deskpatrol-update.sh as     *)
(* root, and the updater runs scripts/install.sh, which migrates the       *)
(* database, moves the link `current` and restarts the server.             *)
(*                                                                         *)
(* The server, its handlers and the updater share only files.  The updater *)
(* is a oneshot unit, so one of it runs at a time; it may be ended by a    *)
(* signal it can handle (its exit trap reports a failure) or without one.  *)
(***************************************************************************)
EXTENDS Naturals

CONSTANTS
  Handlers,   \* requests being served by postSystemUpdate
  MaxVersion  \* releases 1..MaxVersion, the first one installed

ASSUME ReleaseAssumption == MaxVersion \in Nat \ {0}

VARIABLES
  request,  \* version in update/request, 0 when there is no such file
  status,   \* STATE of the status file, "none" without one
  stale,    \* UPDATED_AT is more than staleUpdateAfter ago
  current,  \* release the link `current` leads to
  schema,   \* release whose migrations the database has
  server,   \* release of the running server (buildinfo.Version)
  pc, want, \* handlers: next step, version asked for
  upc, taken  \* updater: next step, version of the request it took

vars == <<request, status, stale, current, schema, server, pc, want, upc, taken>>
handlerVars == <<pc, want>>
installVars == <<current, schema, server>>

Releases == 1..MaxVersion

TypeOK ==
  /\ request \in Releases \cup {0}
  /\ status \in {"none", "running", "succeeded", "failed"}
  /\ stale \in BOOLEAN
  /\ current \in Releases /\ schema \in Releases /\ server \in Releases
  /\ pc \in [Handlers -> {"idle", "link", "accepted"}]
  /\ want \in [Handlers -> Releases \cup {0}]
  /\ upc \in {"idle", "check", "fetch", "migrate", "switch", "restart", "report"}
  /\ taken \in Releases \cup {0}

Init ==
  /\ request = 0 /\ status = "none" /\ stale = FALSE
  /\ current = 1 /\ schema = 1 /\ server = 1
  /\ pc = [h \in Handlers |-> "idle"]
  /\ want = [h \in Handlers |-> 0]
  /\ upc = "idle" /\ taken = 0

-----------------------------------------------------------------------------
\* updateRunning.
Running == status = "running" /\ ~stale

\* postSystemUpdate up to os.Link: a higher version, and no update running.
Post(h, v) ==
  /\ pc[h] = "idle"
  /\ v > server
  /\ ~Running
  /\ pc' = [pc EXCEPT ![h] = "link"]
  /\ want' = [want EXCEPT ![h] = v]
  /\ UNCHANGED <<request, status, stale, installVars, upc, taken>>

Answer(h) ==
  /\ pc' = [pc EXCEPT ![h] = "idle"]
  /\ want' = [want EXCEPT ![h] = 0]

\* os.Link creates the request; it fails when there is one.
Link(h) ==
  /\ pc[h] = "link"
  /\ \/ /\ request = 0
        /\ request' = want[h]
        /\ pc' = [pc EXCEPT ![h] = "accepted"]
        /\ UNCHANGED want
     \/ Answer(h) /\ UNCHANGED request
  /\ UNCHANGED <<status, stale, installVars, upc, taken>>

Accepted(h) ==
  /\ pc[h] = "accepted"
  /\ Answer(h)
  /\ UNCHANGED <<request, status, stale, installVars, upc, taken>>

\* Two hours pass since the status was written.
Age ==
  /\ status = "running" /\ ~stale
  /\ stale' = TRUE
  /\ UNCHANGED <<request, status, installVars, handlerVars, upc, taken>>

-----------------------------------------------------------------------------
WriteStatus(state) == status' = state /\ stale' = FALSE

\* The service ends with a status: fail, or the exit trap.
FailUpdate ==
  /\ WriteStatus("failed")
  /\ upc' = "idle" /\ taken' = 0

\* Mutant of Take: the request is read and left where it is.
TakeCopy ==
  /\ upc = "idle" /\ request # 0
  /\ taken' = request
  /\ upc' = "check"
  /\ UNCHANGED <<request, status, stale, installVars, handlerVars>>

\* The path unit starts the updater, which moves the request to its own place.
Take ==
  /\ upc = "idle" /\ request # 0
  /\ taken' = request
  /\ request' = 0
  /\ upc' = "check"
  /\ UNCHANGED <<status, stale, installVars, handlerVars>>

\* Mutant of Check: the version is compared by the server only.
CheckNothing ==
  /\ upc = "check"
  /\ WriteStatus("running")
  /\ upc' = "fetch"
  /\ UNCHANGED <<request, taken, installVars, handlerVars>>

\* The request must ask for more than the installed version.
Check ==
  /\ upc = "check"
  /\ taken > current
  /\ WriteStatus("running")
  /\ upc' = "fetch"
  /\ UNCHANGED <<request, taken, installVars, handlerVars>>

\* install.sh is downloaded and verified, and so is the archive.
Fetch ==
  /\ upc = "fetch"
  /\ upc' = "migrate"
  /\ UNCHANGED <<request, status, stale, installVars, handlerVars, taken>>

\* Mutant of Migrate: left to the restarted server.
MigrateLater ==
  /\ upc = "migrate"
  /\ upc' = "switch"
  /\ UNCHANGED <<request, status, stale, installVars, handlerVars, taken>>

\* The migrations of a release leave what later ones have added.
Migrate ==
  /\ upc = "migrate"
  /\ schema' = IF taken > schema THEN taken ELSE schema
  /\ upc' = "switch"
  /\ UNCHANGED <<request, status, stale, current, server, handlerVars, taken>>

\* ln -sfn.
Switch ==
  /\ upc = "switch"
  /\ current' = taken
  /\ upc' = "restart"
  /\ UNCHANGED <<request, status, stale, schema, server, handlerVars, taken>>

\* The server starts anew from `current`; the requests it was serving are gone.
StartServer ==
  /\ server' = current
  /\ pc' = [h \in Handlers |-> "idle"]
  /\ want' = [h \in Handlers |-> 0]

Restart ==
  /\ upc = "restart"
  /\ StartServer
  /\ upc' = "report"
  /\ UNCHANGED <<request, status, stale, current, schema, taken>>

\* Mutant of Report: a word the server does not know.
ReportSuccess ==
  /\ upc = "report"
  /\ WriteStatus("success")
  /\ upc' = "idle" /\ taken' = 0
  /\ UNCHANGED <<request, installVars, handlerVars>>

Report ==
  /\ upc = "report"
  /\ WriteStatus("succeeded")
  /\ upc' = "idle" /\ taken' = 0
  /\ UNCHANGED <<request, installVars, handlerVars>>

\* A check or command of the updater or of install.sh fails, or the unit is
\* stopped, at its time limit at the latest.
Stop ==
  /\ upc # "idle"
  /\ FailUpdate
  /\ UNCHANGED <<request, installVars, handlerVars>>

\* systemctl restart reports an error although the server has started.
RestartFails ==
  /\ upc = "restart"
  /\ StartServer
  /\ FailUpdate
  /\ UNCHANGED <<request, current, schema>>

\* The updater ends without its trap (SIGKILL, or the machine stops).
Kill ==
  /\ upc # "idle"
  /\ upc' = "idle" /\ taken' = 0
  /\ UNCHANGED <<request, status, stale, installVars, handlerVars>>

\* The server ends by itself and systemd starts it again.
Crash ==
  /\ StartServer
  /\ UNCHANGED <<request, status, stale, current, schema, upc, taken>>

Updater ==
  \/ Take \/ Check \/ Fetch \/ Migrate \/ Switch \/ Restart \/ Report
  \/ RestartFails \/ Stop

Handle(h) == (\E v \in Releases : Post(h, v)) \/ Link(h) \/ Accepted(h)

Next == (\E h \in Handlers : Handle(h)) \/ Updater \/ Kill \/ Crash \/ Age

Spec == Init /\ [][Next]_vars

\* systemd starts the updater and its commands have time limits; time passes.
FairSpec == Spec /\ WF_vars(Updater) /\ WF_vars(Age)

-----------------------------------------------------------------------------
\* Invariant: the server never runs on a database without its migrations, also
\* when an update ends halfway and the server is started by systemd instead.
ServerHasItsSchema == server <= schema /\ current <= schema

\* Action property: the installed release only goes up, whatever requests wait
\* while an update is under way.
UpgradesOnly == [][current' > current]_current

\* Liveness: a request does not stay for ever, and neither does an update that
\* has died keep the administrator from asking again.
UpdatesEnd == (request # 0 ~> request = 0) /\ (Running ~> ~Running)

\* The comment in postSystemUpdate: of concurrent requests only one succeeds.
OneRequestWins == \A g, h \in Handlers :
  pc[g] = "accepted" /\ pc[h] = "accepted" => g = h

=============================================================================
