---------------------------- MODULE AgentHelper ----------------------------
(***************************************************************************)
(* The elevated helper that installs and removes the MeshAgent             *)
(* (cmd/client-helper/main_windows.go), and runHelperElevated of the       *)
(* client (cmd/client/protected_windows.go), which starts it, hands it the *)
(* request through a named pipe made for this one call, and reads its      *)
(* answer.  A helper goes on when the client ends, so that, after a        *)
(* restart of the client, several may run; they share the directory        *)
(* %ProgramFiles%\DeskPatrol and the service "Mesh Agent".                 *)
(***************************************************************************)
EXTENDS Naturals, FiniteSets

CONSTANT Tasks  \* calls of runHelperElevated

VARIABLES
  operation, \* what each call is for: "install" or "uninstall"
  client,    \* how far the client is with each call
  helper,    \* how far the helper is with it
  download,  \* .MeshAgent.download: the calls whose bytes it has, {} if absent
  program,   \* MeshAgent.exe, likewise
  broken,    \* calls whose download was not whole, or not what was asked for
  mixed,     \* a helper opened the file while another one had yet to rename it
  service,   \* "absent", "running" or "stopped"
  acted      \* calls whose helper ran the program, or found nothing to do

callState == <<operation, client>>
agentVars == <<download, program, broken, mixed, service>>
helperVars == <<callState, helper, agentVars, acted>>

Ended == {"ok", "failed", "refused"}
Results == {"done", "error"}

HelperTypeOK ==
  /\ operation \in [Tasks -> {"install", "uninstall"}]
  /\ client \in [Tasks -> {"idle", "launching", "waiting", "asked"} \cup Ended]
  /\ helper \in [Tasks -> {"none", "started", "connected", "fetch", "writing", "verified",
                           "run", "verify", "stat", "remove", "check", "gone"} \cup Results]
  /\ download \subseteq Tasks /\ program \subseteq Tasks /\ broken \subseteq Tasks
  /\ mixed \in BOOLEAN
  /\ service \in {"absent", "running", "stopped"}
  /\ acted \subseteq Tasks

HelperInit ==
  /\ operation \in [Tasks -> {"install", "uninstall"}]
  /\ client = [t \in Tasks |-> "idle"]
  /\ helper = [t \in Tasks |-> "none"]
  /\ download = {} /\ program = {} /\ broken = {} /\ mixed = FALSE
  /\ service = "absent"
  /\ acted = {}

ClientGoes(t, from, to) == client[t] = from /\ client' = [client EXCEPT ![t] = to]
HelperGoes(t, from, to) == helper[t] = from /\ helper' = [helper EXCEPT ![t] = to]

\* The client has the pipe open.
Pipe(t) == client[t] \in {"launching", "waiting", "asked"}

-----------------------------------------------------------------------------
(* runHelperElevated *)

\* The agent worker installs, one call at a time; Reactivate removes.
Launch(t) ==
  /\ operation[t] = "install" =>
       \A u \in Tasks : Pipe(u) => operation[u] = "uninstall"
  /\ ClientGoes(t, "idle", "launching")
  /\ UNCHANGED <<operation, helper, agentVars, acted>>

\* ShellExecute returns when the user has answered the question of UAC.
Consent(t) ==
  /\ ClientGoes(t, "launching", "waiting")
  /\ HelperGoes(t, "none", "started")
  /\ UNCHANGED <<operation, agentVars, acted>>

Refuse(t) ==
  /\ ClientGoes(t, "launching", "refused")
  /\ HelperGoes(t, "none", "gone")
  /\ UNCHANGED <<operation, agentVars, acted>>

\* The question outlives a client that has ended.
ConsentLate(t) ==
  /\ client[t] = "refused" /\ HelperGoes(t, "none", "started")
  /\ UNCHANGED <<callState, agentVars, acted>>

SendRequest(t) ==
  /\ helper[t] = "connected" /\ ClientGoes(t, "waiting", "asked")
  /\ UNCHANGED <<operation, helper, agentVars, acted>>

\* After 90 seconds, or when writing fails; the pipe is closed.
ConnectTimesOut(t) ==
  /\ ClientGoes(t, "waiting", "refused")
  /\ UNCHANGED <<operation, helper, agentVars, acted>>

\* Without a time limit: the answer, or the end of the helper.
ReadResult(t) ==
  /\ \/ helper[t] = "done" /\ ClientGoes(t, "asked", "ok")
     \/ helper[t] \in {"error", "gone"} /\ ClientGoes(t, "asked", "failed")
  /\ UNCHANGED <<operation, helper, agentVars, acted>>

\* The client ends and may be started again.
ClientEnds ==
  /\ client' = [t \in Tasks |-> CASE client[t] \in {"launching", "waiting"} -> "refused"
                                  [] client[t] = "asked" -> "failed"
                                  [] OTHER -> client[t]]
  /\ UNCHANGED <<operation, helper, agentVars, acted>>

ClientStep(t) ==
  Consent(t) \/ Refuse(t) \/ SendRequest(t) \/ ConnectTimesOut(t) \/ ReadResult(t)

-----------------------------------------------------------------------------
(* main of the helper *)

ConnectPipe(t) ==
  /\ helper[t] = "started"
  /\ IF Pipe(t) THEN HelperGoes(t, "started", "connected")
                ELSE HelperGoes(t, "started", "gone")
  /\ UNCHANGED <<callState, agentVars, acted>>

Operate(t) ==
  HelperGoes(t, "connected", IF operation[t] = "install" THEN "fetch" ELSE "stat")

\* Mutant of ReadRequest: the operation is an argument of the program.
ReadArguments(t) ==
  /\ Operate(t)
  /\ UNCHANGED <<callState, agentVars, acted>>

\* The frame, or the end of the pipe; a frame may outlive its writer.
ReadRequest(t) ==
  /\ \/ client[t] \in {"asked", "failed"} /\ Operate(t)
     \/ ~Pipe(t) /\ HelperGoes(t, "connected", "gone")
  /\ UNCHANGED <<callState, agentVars, acted>>

-----------------------------------------------------------------------------
(* install *)

\* The server answers and the file is opened and emptied.
OpenDownload(t) ==
  LET others == {u \in Tasks : helper[u] = "writing"}
  IN /\ HelperGoes(t, "fetch", "writing")
     /\ download' = {t} \cup others
     /\ mixed' = (mixed \/ \E u \in Tasks : helper[u] \in {"writing", "verified"})
     /\ UNCHANGED <<callState, program, broken, service, acted>>

\* Nobody else has it open.
RemoveDownload(t) ==
  download' = IF \E u \in Tasks \ {t} : helper[u] = "writing" THEN download ELSE {}

\* Mutant of CloseDownload: the hash is not looked at.
CloseUnverified(t) ==
  /\ HelperGoes(t, "writing", "verified")
  /\ broken' \in {broken, broken \cup {t}}
  /\ UNCHANGED <<callState, download, program, mixed, service, acted>>

\* The file is complete and the bytes received have the hash of the request.
CloseDownload(t) ==
  /\ HelperGoes(t, "writing", "verified")
  /\ UNCHANGED <<callState, agentVars, acted>>

DownloadBreaks(t) ==
  /\ HelperGoes(t, "writing", "error")
  /\ broken' = broken \cup {t}
  /\ RemoveDownload(t) \/ UNCHANGED download
  /\ UNCHANGED <<callState, program, mixed, service, acted>>

\* Rename needs a file that nobody has open; it fails on a program that runs.
InstallFile(t) ==
  /\ helper[t] = "verified"
  /\ download # {}
  /\ \A u \in Tasks : helper[u] # "writing"
  /\ HelperGoes(t, "verified", "run")
  /\ program' = download /\ download' = {}
  /\ UNCHANGED <<callState, broken, mixed, service, acted>>

RenameFails(t) ==
  /\ HelperGoes(t, "verified", "error")
  /\ RemoveDownload(t)
  /\ UNCHANGED <<callState, program, broken, mixed, service, acted>>

\* MeshAgent.exe -fullinstall, stopped after five minutes.
RunInstall(t) ==
  /\ HelperGoes(t, "run", "verify") \/ HelperGoes(t, "run", "error")
  /\ service' \in {"absent", "running", "stopped"}
  /\ acted' = acted \cup {t}
  /\ UNCHANGED <<callState, download, program, broken, mixed>>

VerifyService(t) ==
  /\ HelperGoes(t, "verify", IF service = "running" THEN "done" ELSE "error")
  /\ UNCHANGED <<callState, agentVars, acted>>

-----------------------------------------------------------------------------
(* uninstall *)

StatProgram(t) ==
  /\ HelperGoes(t, "stat", IF program = {} THEN "check" ELSE "remove")
  /\ UNCHANGED <<callState, agentVars, acted>>

\* MeshAgent.exe -fulluninstall, stopped after 90 seconds.
RunUninstall(t) ==
  /\ HelperGoes(t, "remove", "check") \/ HelperGoes(t, "remove", "error")
  /\ service' \in IF service = "running" THEN {"running", "stopped", "absent"}
                                         ELSE {service, "absent"}
  /\ acted' = acted \cup {t}
  /\ UNCHANGED <<callState, download, program, broken, mixed>>

\* verifyServiceRemoved.
CheckRemoved(t) ==
  /\ \/ service = "absent" /\ HelperGoes(t, "check", "done") /\ acted' = acted \cup {t}
     \/ service # "absent" /\ HelperGoes(t, "check", "error") /\ UNCHANGED acted
  /\ UNCHANGED <<callState, agentVars>>

\* An error before anything was opened, or the process is ended.
HelperFails(t) ==
  /\ \/ HelperGoes(t, "fetch", "error")
     \/ helper[t] \notin {"none", "gone"} /\ helper' = [helper EXCEPT ![t] = "gone"]
  /\ broken' = IF helper[t] = "writing" THEN broken \cup {t} ELSE broken
  /\ UNCHANGED <<callState, download, program, mixed, service, acted>>

HelperStep(t) ==
  \/ ConnectPipe(t) \/ ReadRequest(t)
  \/ OpenDownload(t) \/ CloseDownload(t) \/ DownloadBreaks(t)
  \/ InstallFile(t) \/ RenameFails(t) \/ RunInstall(t) \/ VerifyService(t)
  \/ StatProgram(t) \/ RunUninstall(t) \/ CheckRemoved(t)

HelperNext ==
  \/ ClientEnds
  \/ \E t \in Tasks : Launch(t) \/ ClientStep(t) \/ ConsentLate(t) \/ HelperStep(t) \/ HelperFails(t)

HelperSpec == HelperInit /\ [][HelperNext]_helperVars

-----------------------------------------------------------------------------
(* Properties *)

\* Invariant: MeshAgent.exe is a whole download that had the hash of its
\* request, whatever helper was ended where, as long as no helper opened the
\* file while another one had yet to rename it: the hash is that of the bytes
\* received, not of the file (install).
ProgramIsVerified ==
  mixed \/ program = {} \/ \E t \in Tasks \ broken : program = {t}

Elevated == INSTANCE ElevatedCall WITH
  phase <- [t \in Tasks |-> CASE client[t] \in {"launching", "waiting"} -> "open"
                              [] OTHER -> client[t]],
  done <- acted

\* Refinement: a call that the client has given up before the helper had its
\* request is never carried out, success is reported of what was done, and
\* every call ends though the client reads without a time limit
\* (runHelperElevated, the request in the pipe instead of the command line).
ImplementsElevatedCall == Elevated!Spec

=============================================================================
