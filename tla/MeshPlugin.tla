----------------------------- MODULE MeshPlugin -----------------------------
(***************************************************************************)
(* Remote commands, from a diagnostic session in internal/server/app.go    *)
(* (createDebugSession, executeDebugCommand, closeDebugSession) through    *)
(* RunPowerShell of internal/meshcentral/controller.go and handleCommand   *)
(* of integrations/deskpatrol/deskpatrol.js to the agent and back.  It     *)
(* extends Presence, the plugin's other half, with which it shares the     *)
(* agent's connection and MeshCentral's restarts.                          *)
(*                                                                         *)
(* The answer of the agent, the plugin's timer, the server's deadline, the *)
(* end of the administrator's request and restarts of both programs race   *)
(* for one entry of the table `pending`.                                   *)
(***************************************************************************)
EXTENDS Presence

CONSTANT Commands  \* calls of executeDebugCommand

VARIABLES
  session,   \* debug_sessions: the session all commands use
  pc,        \* executeDebugCommand: next step
  outcome,   \* what RunPowerShell has returned
  audit,     \* debug_audits: "none" without a row, "open" while exit_code is NULL
  link,      \* the HTTP connection between server and plugin
  pending,   \* the plugin's table of commands
  armed,     \* commands whose timer in the plugin is running
  answer,    \* what the plugin has written to the response
  answers,   \* how often it has, 2 standing for more
  job        \* the command at the agent

serverVars == <<session, pc, outcome, audit>>
relayVars == <<link, pending, armed, answer, answers, job>>
commandVars == <<serverVars, relayVars>>
vars == <<presenceVars, commandVars>>

Outcomes == {"result", "error", "deadline"}

TypeOK ==
  /\ PresenceTypeOK
  /\ session \in {"none", "active", "over"}
  /\ pc \in [Commands -> {"idle", "insert", "call", "waiting", "record", "done"}]
  /\ outcome \in [Commands -> Outcomes \cup {"none"}]
  /\ audit \in [Commands -> Outcomes \cup {"none", "open"}]
  /\ link \in [Commands -> {"none", "requested", "handled", "closing", "closed"}]
  /\ pending \in SUBSET Commands /\ armed \in SUBSET Commands
  /\ answer \in [Commands -> {"none", "result", "error"}]
  /\ answers \in [Commands -> 0..2]
  /\ job \in [Commands -> {"none", "sent", "ran", "replied"}]

Init ==
  /\ PresenceInit
  /\ session = "none"
  /\ pc = [k \in Commands |-> "idle"]
  /\ outcome = [k \in Commands |-> "none"]
  /\ audit = [k \in Commands |-> "none"]
  /\ link = [k \in Commands |-> "none"]
  /\ pending = {} /\ armed = {}
  /\ answer = [k \in Commands |-> "none"]
  /\ answers = [k \in Commands |-> 0]
  /\ job = [k \in Commands |-> "none"]

-----------------------------------------------------------------------------
(* The server: executeDebugCommand and its session                         *)

\* createDebugSession.
OpenSession ==
  /\ session = "none" /\ session' = "active"
  /\ UNCHANGED <<presenceVars, pc, outcome, audit, relayVars>>

\* closeDebugSession, or fifteen minutes have passed.
EndSession ==
  /\ session = "active" /\ session' = "over"
  /\ UNCHANGED <<presenceVars, pc, outcome, audit, relayVars>>

\* runPowerShell and runDiagnosticInspection accept the request and the SELECT
\* finds the session active, or the answer is 400 or 410.
FindSession(k) ==
  /\ pc[k] = "idle" /\ session # "none"
  /\ \/ session = "active" /\ pc' = [pc EXCEPT ![k] = "insert"]
     \/ pc' = [pc EXCEPT ![k] = "done"]
  /\ UNCHANGED <<presenceVars, session, outcome, audit, relayVars>>

\* Mutant of InsertAudit: an error of the INSERT is ignored.
InsertAuditIgnored(k) ==
  /\ pc[k] = "insert"
  /\ pc' = [pc EXCEPT ![k] = "call"]
  /\ audit' \in {audit, [audit EXCEPT ![k] = "open"]}
  /\ UNCHANGED <<presenceVars, session, outcome, relayVars>>

\* The INSERT of the audit row; when it fails, or its answer is lost, the
\* command is not sent.
InsertAudit(k) ==
  /\ pc[k] = "insert"
  /\ \/ pc' = [pc EXCEPT ![k] = "call"] /\ audit' = [audit EXCEPT ![k] = "open"]
     \/ /\ pc' = [pc EXCEPT ![k] = "done"]
        /\ audit' \in {audit, [audit EXCEPT ![k] = "open"]}
  /\ UNCHANGED <<presenceVars, session, outcome, relayVars>>

\* RunPowerShell sends its request, or cannot reach MeshCentral.
Call(k) ==
  /\ pc[k] = "call"
  /\ \/ /\ pc' = [pc EXCEPT ![k] = "waiting"]
        /\ link' = [link EXCEPT ![k] = "requested"]
        /\ UNCHANGED outcome
     \/ /\ pc' = [pc EXCEPT ![k] = "record"]
        /\ outcome' = [outcome EXCEPT ![k] = "error"]
        /\ UNCHANGED link
  /\ UNCHANGED <<presenceVars, session, audit, pending, armed, answer, answers, job>>

\* RunPowerShell reads the answer; a result may be too long or not be JSON.
Receive(k) ==
  /\ pc[k] = "waiting" /\ link[k] = "handled" /\ answer[k] # "none"
  /\ outcome' \in {[outcome EXCEPT ![k] = o] : o \in {answer[k], "error"}}
  /\ pc' = [pc EXCEPT ![k] = "record"]
  /\ link' = [link EXCEPT ![k] = "closed"]
  /\ UNCHANGED <<presenceVars, session, audit, pending, armed, answer, answers, job>>

\* commandContext ends: the deadline has passed, or the administrator's
\* request has ended; or the connection breaks.
GiveUp(k) ==
  /\ pc[k] = "waiting"
  /\ outcome' \in {[outcome EXCEPT ![k] = o] : o \in {"deadline", "error"}}
  /\ pc' = [pc EXCEPT ![k] = "record"]
  /\ link' = [link EXCEPT ![k] = "closing"]
  /\ UNCHANGED <<presenceVars, session, audit, pending, armed, answer, answers, job>>

\* The UPDATE of the audit row, whose error is ignored, and the answer.
RecordOutcome(k) ==
  /\ pc[k] = "record"
  /\ audit' \in {audit, [audit EXCEPT ![k] = outcome[k]]}
  /\ pc' = [pc EXCEPT ![k] = "done"]
  /\ UNCHANGED <<presenceVars, session, outcome, relayVars>>

\* The server stops with commands under way; their connections close.
CrashServer ==
  /\ \E k \in Commands : pc[k] \notin {"idle", "done"}
  /\ pc' = [k \in Commands |-> IF pc[k] = "idle" THEN "idle" ELSE "done"]
  /\ link' = [k \in Commands |-> IF link[k] \in {"requested", "handled"} THEN "closing" ELSE link[k]]
  /\ UNCHANGED <<presenceVars, session, outcome, audit, pending, armed, answer, answers, job>>

-----------------------------------------------------------------------------
(* The plugin and the agent                                                *)

\* The plugin writes to the response of k.
Respond(k, value) ==
  /\ answer' = [answer EXCEPT ![k] = IF @ = "none" THEN value ELSE @]
  /\ answers' = [answers EXCEPT ![k] = IF @ = 2 THEN 2 ELSE @ + 1]

\* Mutant of Forget: only the timer is stopped.
ForgetTimer(k) == armed' = armed \ {k} /\ UNCHANGED pending

\* The entry of k is deleted and its timer stopped.
Forget(k) == pending' = pending \ {k} /\ armed' = armed \ {k}

\* handleCommand, up to agent.send.  The server may have given up the request
\* before its body was read: its "close" is not seen then.
Handle(k) ==
  /\ link[k] \in {"requested", "closing"} /\ answer[k] = "none"
  /\ k \notin pending /\ job[k] = "none"
  /\ link' = [link EXCEPT ![k] = IF @ = "requested" THEN "handled" ELSE "closed"]
  /\ \/ /\ conn = 0 /\ Respond(k, "error")   \* 409
        /\ UNCHANGED <<pending, armed, job>>
     \/ /\ conn # 0                          \* the command is sent
        /\ pending' = pending \cup {k} /\ armed' = armed \cup {k}
        /\ job' = [job EXCEPT ![k] = "sent"]
        /\ UNCHANGED <<answer, answers>>
     \/ /\ conn # 0 /\ Respond(k, "error")   \* agent.send throws, 502
        /\ UNCHANGED <<pending, armed, job>>
  /\ UNCHANGED <<presenceVars, serverVars>>

\* The agent runs the command.
RunJob(k) ==
  /\ job[k] = "sent" /\ job' = [job EXCEPT ![k] = "ran"]
  /\ UNCHANGED <<presenceVars, serverVars, link, pending, armed, answer, answers>>

\* parseCommandResult returns a result or throws.
Parsed == {"result", "error"}

\* hook_processAgentData: the first of answer, timer and close takes the
\* entry; what cannot be parsed is answered with 502.
ProcessAgentData(k) ==
  /\ job[k] = "ran" /\ job' = [job EXCEPT ![k] = "replied"]
  /\ \/ k \notin pending /\ UNCHANGED <<pending, armed, answer, answers>>
     \/ /\ k \in pending /\ Forget(k)
        /\ \E value \in Parsed : Respond(k, value)
  /\ UNCHANGED <<presenceVars, serverVars, link>>

\* Mutant of Expire: the entry stays in the table.
ExpireKept(k) ==
  /\ k \in armed /\ armed' = armed \ {k}
  /\ Respond(k, "error")
  /\ UNCHANGED <<presenceVars, serverVars, link, pending, job>>

\* The plugin's timer, timeoutMs and five seconds after the command was sent.
Expire(k) ==
  /\ k \in armed /\ Forget(k)
  /\ IF answer[k] = "none" THEN Respond(k, "error") ELSE UNCHANGED <<answer, answers>>
  /\ UNCHANGED <<presenceVars, serverVars, link, job>>

\* The event "close" of the response.
Close(k) ==
  /\ link[k] = "closing" /\ link' = [link EXCEPT ![k] = "closed"]
  /\ Forget(k)
  /\ UNCHANGED <<presenceVars, serverVars, answer, answers, job>>

\* MeshCentral restarts: Presence and the table are forgotten, and the
\* server's connections break.
RestartMesh ==
  /\ ForgetPresence
  /\ pending' = {} /\ armed' = {}
  /\ link' = [k \in Commands |-> IF link[k] = "none" THEN "none" ELSE "closed"]
  /\ UNCHANGED <<serverVars, answer, answers, job>>

ServerStep(k) ==
  InsertAudit(k) \/ Call(k) \/ Receive(k) \/ GiveUp(k) \/ RecordOutcome(k)

CommandNext ==
  \/ OpenSession \/ EndSession \/ CrashServer
  \/ \E k \in Commands :
       \/ FindSession(k) \/ ServerStep(k)
       \/ Handle(k) \/ RunJob(k) \/ ProcessAgentData(k) \/ Expire(k) \/ Close(k)

Next == CommandNext \/ RestartMesh \/ (PresenceNext /\ UNCHANGED commandVars)

Spec == Init /\ [][Next]_vars

\* Timeouts fire, requests end (the plugin's after five seconds, the server's
\* at the deadline of commandContext), the server answers, time passes; the
\* agent need not connect, stay or answer.
FairSpec ==
  /\ Spec
  /\ WF_vars(AgentCoreIsStable /\ UNCHANGED commandVars)
  /\ WF_vars(Age /\ UNCHANGED commandVars)
  /\ WF_vars(DeliverLate /\ UNCHANGED commandVars)
  /\ \A c \in Connections : WF_vars(PluginStep(c) /\ UNCHANGED commandVars)
  /\ \A k \in Commands : WF_vars(ServerStep(k)) /\ WF_vars(Expire(k))

-----------------------------------------------------------------------------
(* Properties                                                              *)

\* A command is answered once, and what is pending is not answered and has
\* its timer, whichever of answer, timer and close comes first (handleCommand,
\* hook_processAgentData).
AnsweredOnce ==
  /\ \A k \in Commands : answers[k] <= 1
  /\ \A k \in pending : answer[k] = "none"
  /\ armed = pending

\* Nothing runs on a device without a row in the audit log, and what the log
\* records as a result did run there (executeDebugCommand).
AuditTellsRuns ==
  \A k \in Commands :
    /\ job[k] \in {"ran", "replied"} => audit[k] # "none"
    /\ audit[k] = "result" => job[k] = "replied"

\* No entry stays in the plugin's table, and no command stays under way,
\* though the agent may never answer (handleCommand's timer, the deadline of
\* commandContext).
CommandsEnd ==
  \A k \in Commands :
    /\ (k \in pending) ~> (k \notin pending)
    /\ (pc[k] # "idle") ~> (pc[k] = "done")

=============================================================================
