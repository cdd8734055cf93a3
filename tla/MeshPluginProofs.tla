-------------------------- MODULE MeshPluginProofs --------------------------
(* Proofs about MeshPlugin and Presence, for any number of connections,     *)
(* attempts, failures and restarts, and any set of commands.  The runs      *)
(* exercise the two halves one at a time; here they run together.           *)
EXTENDS MeshPlugin, TLAPS

-----------------------------------------------------------------------------
(* The inductive invariant *)

\* A connection that is yet to come has not been reported.
NotYet == \A c \in Connections : c > opened => stable[c] = "none"

\* The response has been written to as often as it shows.
WrittenOnce ==
  /\ \A k \in Commands : answers[k] = IF answer[k] = "none" THEN 0 ELSE 1
  /\ \A k \in pending : answer[k] = "none"
  /\ armed = pending

\* A request goes out only under an audit row, the agent is sent what the
\* plugin was requested, and results come from the agent.
Traced ==
  \A k \in Commands :
    /\ pc[k] \in {"call", "waiting", "record"} => audit[k] # "none"
    /\ pc[k] = "record" => outcome[k] # "none"
    /\ link[k] # "none" => audit[k] # "none"
    /\ job[k] # "none" => link[k] # "none"
    /\ answer[k] = "result" \/ outcome[k] = "result" \/ audit[k] = "result" =>
         job[k] = "replied"

Inv == TypeOK /\ NotYet /\ HeartbeatRuns /\ WrittenOnce /\ Traced

-----------------------------------------------------------------------------
(* The initial state *)

LEMMA InitInv == Init => Inv
<1> SUFFICES ASSUME Init
             PROVE  Inv
  OBVIOUS
<1> USE DEF Init, PresenceInit
<1>1. PresenceTypeOK
  <2>1. 0 \in 0..(Attempts - 1) /\ 0 \in 0..MaxFailures /\ 0 \in 0..MaxRestarts
        /\ 0 \in 0..MaxConnections /\ 0 \in 0..0
    BY CountsAssumption
  <2>2. tried \in [{"stable", "tick"} -> [Connections -> 0..(Attempts - 1)]]
    BY <2>1
  <2> QED
    BY <2>1, <2>2 DEF PresenceTypeOK
<1>2. TypeOK
  BY <1>1 DEF TypeOK
<1>3. NotYet /\ HeartbeatRuns
  BY DEF NotYet, HeartbeatRuns
<1>4. WrittenOnce /\ Traced
  BY DEF WrittenOnce, Traced
<1> QED
  BY <1>2, <1>3, <1>4 DEF Inv

-----------------------------------------------------------------------------
(* Events and heartbeats *)

PresenceInv == PresenceTypeOK /\ NotYet /\ HeartbeatRuns

LEMMA RecordType ==
  ASSUME PresenceTypeOK, NEW type, Record(type)
  PROVE  status' \in {"online", "offline"} /\ fresh' \in BOOLEAN
  BY DEF PresenceTypeOK, Record

LEMMA LoseType ==
  ASSUME PresenceTypeOK, NEW type \in EventTypes, Lose(type)
  PROVE  failures' \in 0..MaxFailures /\ late' \in SUBSET EventTypes
  BY CountsAssumption DEF PresenceTypeOK, Lose

\* What is counted for a report or for a heartbeat stays below Attempts.
LEMMA TriedType ==
  ASSUME PresenceTypeOK, NEW s \in {"stable", "tick"}, NEW c \in Connections,
         \/ tried' = tried
         \/ tried' = [tried EXCEPT ![s][c] = 0]
         \/ tried[s][c] + 1 < Attempts /\ tried' = [tried EXCEPT ![s][c] = @ + 1]
  PROVE  tried' \in [{"stable", "tick"} -> [Connections -> 0..(Attempts - 1)]]
<1>1. /\ tried \in [{"stable", "tick"} -> [Connections -> 0..(Attempts - 1)]]
      /\ Attempts \in Nat \ {0}
  BY CountsAssumption DEF PresenceTypeOK
<1>2. ASSUME NEW n \in 0..(Attempts - 1), tried' = [tried EXCEPT ![s][c] = n]
      PROVE  tried' \in [{"stable", "tick"} -> [Connections -> 0..(Attempts - 1)]]
  BY <1>1, <1>2
<1>3. tried[s][c] \in 0..(Attempts - 1)
  BY <1>1
<1> QED
  BY <1>1, <1>2, <1>3

LEMMA ConnectionsKeepInv ==
  ASSUME PresenceInv, Connect \/ Disconnect \/ AgentCoreIsStable \/ Age \/ DeliverLate
  PROVE  PresenceInv'
<1> USE CountsAssumption
    DEF PresenceInv, PresenceTypeOK, NotYet, HeartbeatRuns, Connections, pluginVars, netVars,
        deviceVars
<1>1. CASE Connect
  BY <1>1, SMTT(60) DEF Connect
<1>2. CASE Disconnect
  BY <1>2 DEF Disconnect
<1>3. CASE AgentCoreIsStable
  BY <1>3 DEF AgentCoreIsStable
<1>4. CASE Age
  BY <1>4 DEF Age
<1>5. CASE DeliverLate
  BY <1>5, RecordType DEF DeliverLate
<1> QED
  BY <1>1, <1>2, <1>3, <1>4, <1>5

LEMMA SendStableKeepsInv ==
  ASSUME PresenceInv, NEW c \in Connections, SendStable(c)
  PROVE  PresenceInv'
<1>1. c \in 1..opened
  BY CountsAssumption DEF PresenceInv, PresenceTypeOK, NotYet, SendStable, Connections
<1>2. CASE /\ Record("agent_stable") /\ ScheduleHeartbeat(c)
           /\ stable' = [stable EXCEPT ![c] = "accepted"] /\ UNCHANGED <<tried, netVars>>
  <2>1. status' \in {"online", "offline"} /\ fresh' \in BOOLEAN
    BY <1>2, RecordType DEF PresenceInv
  <2>2. UNCHANGED <<conn, opened, restarts, tried, late, failures>>
    BY <1>2 DEF SendStable, netVars
  <2>3. PresenceTypeOK'
    <3>1. tick' \in [Connections -> {"off", "armed", "agent_heartbeat", "agent_offline"}]
      BY <1>2 DEF PresenceInv, PresenceTypeOK, ScheduleHeartbeat
    <3>2. timer' \in 0..opened
      BY <1>1, <1>2, CountsAssumption DEF PresenceInv, PresenceTypeOK, ScheduleHeartbeat
    <3> QED
      BY <1>2, <2>1, <2>2, <3>1, <3>2 DEF PresenceInv, PresenceTypeOK
  <2>4. NotYet' /\ HeartbeatRuns'
    BY <1>1, <1>2, <2>2, CountsAssumption
       DEF PresenceInv, PresenceTypeOK, NotYet, HeartbeatRuns, ScheduleHeartbeat, Connections
  <2> QED
    BY <2>3, <2>4 DEF PresenceInv
<1>3. CASE /\ Lose("agent_stable") /\ UNCHANGED <<timer, tick, deviceVars>>
           /\ stable' = stable \/ stable' = [stable EXCEPT ![c] = "failed"]
  <2>1. failures' \in 0..MaxFailures /\ late' \in SUBSET EventTypes
    BY <1>3, LoseType DEF PresenceInv, EventTypes
  <2>2. tried' \in [{"stable", "tick"} -> [Connections -> 0..(Attempts - 1)]]
    BY TriedType DEF PresenceInv, SendStable
  <2>3. UNCHANGED <<conn, opened, restarts, timer, tick, status, fresh>>
    BY <1>3 DEF SendStable, deviceVars
  <2>4. PresenceTypeOK'
    BY <1>3, <2>1, <2>2, <2>3 DEF PresenceInv, PresenceTypeOK
  <2>5. NotYet' /\ HeartbeatRuns'
    BY <1>1, <1>3, <2>3, CountsAssumption, SMTT(60)
       DEF PresenceInv, PresenceTypeOK, NotYet, HeartbeatRuns, Connections
  <2> QED
    BY <2>4, <2>5 DEF PresenceInv
<1> QED
  BY <1>2, <1>3 DEF SendStable

LEMMA FireTickKeepsInv ==
  ASSUME PresenceInv, NEW c \in Connections, FireTick(c)
  PROVE  PresenceInv'
<1>1. tried' \in [{"stable", "tick"} -> [Connections -> 0..(Attempts - 1)]]
  BY TriedType DEF PresenceInv, FireTick
<1>2. UNCHANGED <<conn, opened, restarts, stable, timer, late, failures, status, fresh>>
  BY DEF FireTick, netVars, deviceVars
<1>3. /\ timer = c
      /\ tick' = [tick EXCEPT ![c] = IF conn # 0 THEN "agent_heartbeat" ELSE "agent_offline"]
  BY DEF FireTick
<1>4. PresenceTypeOK'
  BY <1>1, <1>2, <1>3 DEF PresenceInv, PresenceTypeOK
<1>5. NotYet' /\ HeartbeatRuns'
  BY <1>2, <1>3 DEF PresenceInv, PresenceTypeOK, NotYet, HeartbeatRuns
<1> QED
  BY <1>4, <1>5 DEF PresenceInv

LEMMA SendTickKeepsInv ==
  ASSUME PresenceInv, NEW c \in Connections, SendTick(c)
  PROVE  PresenceInv'
<1>1. UNCHANGED <<conn, opened, restarts, stable>>
  BY DEF SendTick
<1>2. tried' \in [{"stable", "tick"} -> [Connections -> 0..(Attempts - 1)]]
  BY TriedType DEF PresenceInv, SendTick
<1>3. /\ status' \in {"online", "offline"} /\ fresh' \in BOOLEAN
      /\ failures' \in 0..MaxFailures /\ late' \in SUBSET EventTypes
  BY RecordType, LoseType DEF PresenceInv, PresenceTypeOK, SendTick, netVars, deviceVars
<1>4. AfterSend(c) \/ UNCHANGED <<timer, tick>>
  BY DEF SendTick
<1>5. PresenceTypeOK'
  <2>1. timer' \in 0..opened
    BY <1>4, CountsAssumption DEF PresenceInv, PresenceTypeOK, AfterSend
  <2>2. tick' \in [Connections -> {"off", "armed", "agent_heartbeat", "agent_offline"}]
    BY <1>4 DEF PresenceInv, PresenceTypeOK, AfterSend
  <2> QED
    BY <1>1, <1>2, <1>3, <2>1, <2>2 DEF PresenceInv, PresenceTypeOK
<1>6. NotYet' /\ HeartbeatRuns'
  BY <1>1, <1>4, CountsAssumption, SMTT(60)
     DEF PresenceInv, PresenceTypeOK, NotYet, HeartbeatRuns, AfterSend, Connections
<1> QED
  BY <1>5, <1>6 DEF PresenceInv

LEMMA PresenceKeepsInv == PresenceInv /\ PresenceNext => PresenceInv'
  BY ConnectionsKeepInv, SendStableKeepsInv, FireTickKeepsInv, SendTickKeepsInv
  DEF PresenceNext, PluginStep

LEMMA ForgetKeepsInv == PresenceInv /\ ForgetPresence => PresenceInv'
  BY CountsAssumption
  DEF PresenceInv, PresenceTypeOK, NotYet, HeartbeatRuns, ForgetPresence, netVars, deviceVars

-----------------------------------------------------------------------------
(* Remote commands *)

CommandTypeOK ==
  /\ session \in {"none", "active", "over"}
  /\ pc \in [Commands -> {"idle", "insert", "call", "waiting", "record", "done"}]
  /\ outcome \in [Commands -> Outcomes \cup {"none"}]
  /\ audit \in [Commands -> Outcomes \cup {"none", "open"}]
  /\ link \in [Commands -> {"none", "requested", "handled", "closing", "closed"}]
  /\ pending \in SUBSET Commands /\ armed \in SUBSET Commands
  /\ answer \in [Commands -> {"none", "result", "error"}]
  /\ answers \in [Commands -> 0..2]
  /\ job \in [Commands -> {"none", "sent", "ran", "replied"}]

CommandInv == CommandTypeOK /\ WrittenOnce /\ Traced

LEMMA InvInHalves == Inv <=> PresenceInv /\ CommandInv
  BY DEF Inv, TypeOK, PresenceInv, CommandInv, CommandTypeOK

LEMMA ServerKeepsInv ==
  ASSUME CommandInv,
         \/ OpenSession \/ EndSession \/ CrashServer
         \/ \E k \in Commands : FindSession(k) \/ ServerStep(k)
  PROVE  CommandInv'
<1> USE DEF CommandInv, CommandTypeOK, WrittenOnce, Traced, Outcomes, relayVars
<1>1. CASE OpenSession \/ EndSession
  BY <1>1 DEF OpenSession, EndSession
<1>2. CASE CrashServer
  BY <1>2 DEF CrashServer
<1>3. ASSUME NEW k \in Commands, FindSession(k)
      PROVE  CommandInv'
  BY <1>3 DEF FindSession
<1>4. ASSUME NEW k \in Commands, ServerStep(k)
      PROVE  CommandInv'
  <2>1. CASE InsertAudit(k)
    BY <2>1 DEF InsertAudit
  <2>2. CASE Call(k)
    BY <2>2 DEF Call
  <2>3. CASE Receive(k)
    BY <2>3 DEF Receive
  <2>4. CASE GiveUp(k)
    BY <2>4 DEF GiveUp
  <2>5. CASE RecordOutcome(k)
    BY <2>5 DEF RecordOutcome
  <2> QED
    BY <1>4, <2>1, <2>2, <2>3, <2>4, <2>5 DEF ServerStep
<1> QED
  BY <1>1, <1>2, <1>3, <1>4

\* The first answer is written.
LEMMA FirstAnswer ==
  ASSUME CommandInv, NEW k \in Commands, NEW value \in {"result", "error"},
         answer[k] = "none", Respond(k, value)
  PROVE  /\ answer' = [answer EXCEPT ![k] = value]
         /\ answers' = [answers EXCEPT ![k] = 1]
<1>1. /\ answer \in [Commands -> {"none", "result", "error"}]
      /\ answers \in [Commands -> 0..2] /\ answers[k] = 0
  BY DEF CommandInv, CommandTypeOK, WrittenOnce
<1> QED
  BY <1>1 DEF Respond

LEMMA RelayKeepsInv ==
  ASSUME CommandInv, NEW k \in Commands,
         Handle(k) \/ RunJob(k) \/ ProcessAgentData(k) \/ Expire(k) \/ Close(k)
  PROVE  CommandInv'
<1> USE DEF CommandInv, CommandTypeOK, WrittenOnce, Traced, Outcomes, serverVars
<1>1. CASE Handle(k)
  <2>1. CASE Respond(k, "error") /\ UNCHANGED <<pending, armed, job>>
    BY <1>1, <2>1, FirstAnswer DEF Handle
  <2>2. CASE /\ pending' = pending \cup {k} /\ armed' = armed \cup {k}
             /\ job' = [job EXCEPT ![k] = "sent"] /\ UNCHANGED <<answer, answers>>
    BY <1>1, <2>2 DEF Handle
  <2> QED
    BY <1>1, <2>1, <2>2 DEF Handle
<1>2. CASE RunJob(k)
  BY <1>2 DEF RunJob
<1>3. CASE ProcessAgentData(k)
  <2>1. CASE UNCHANGED <<pending, armed, answer, answers>>
    BY <1>3, <2>1 DEF ProcessAgentData
  <2>2. ASSUME NEW value \in Parsed, k \in pending, Forget(k), Respond(k, value)
        PROVE  CommandInv'
    BY <1>3, <2>2, FirstAnswer DEF ProcessAgentData, Forget, Parsed
  <2> QED
    BY <1>3, <2>1, <2>2 DEF ProcessAgentData
<1>4. CASE Expire(k)
  BY <1>4, FirstAnswer DEF Expire, Forget
<1>5. CASE Close(k)
  BY <1>5 DEF Close, Forget
<1> QED
  BY <1>1, <1>2, <1>3, <1>4, <1>5

LEMMA RestartKeepsInv == CommandInv /\ RestartMesh => CommandInv'
  BY DEF RestartMesh, CommandInv, CommandTypeOK, WrittenOnce, Traced, serverVars

-----------------------------------------------------------------------------
(* Both together *)

LEMMA StepKeepsInv == Inv /\ [Next]_vars => Inv'
<1>0. Inv' <=> PresenceInv' /\ CommandInv'
  BY DEF Inv, TypeOK, PresenceInv, CommandInv, CommandTypeOK
<1> SUFFICES ASSUME PresenceInv, CommandInv, [Next]_vars
             PROVE  PresenceInv' /\ CommandInv'
  BY <1>0, InvInHalves
<1>1. UNCHANGED presenceVars => PresenceInv'
  BY DEF PresenceInv, PresenceTypeOK, NotYet, HeartbeatRuns, presenceVars, pluginVars,
         netVars, deviceVars
<1>2. UNCHANGED commandVars => CommandInv'
  BY DEF CommandInv, CommandTypeOK, WrittenOnce, Traced, commandVars, serverVars, relayVars
<1>3. CASE CommandNext
  <2>1. UNCHANGED presenceVars
    BY <1>3 DEF CommandNext, OpenSession, EndSession, CrashServer, FindSession, ServerStep,
                InsertAudit, Call, Receive, GiveUp, RecordOutcome, Handle, RunJob,
                ProcessAgentData, Expire, Close
  <2> QED
    BY <1>1, <1>3, <2>1, ServerKeepsInv, RelayKeepsInv DEF CommandNext
<1>4. CASE RestartMesh
  BY <1>4, RestartKeepsInv, ForgetKeepsInv DEF RestartMesh
<1>5. CASE PresenceNext /\ UNCHANGED commandVars
  BY <1>2, <1>5, PresenceKeepsInv
<1>6. CASE UNCHANGED vars
  BY <1>1, <1>2, <1>6 DEF vars
<1> QED
  BY <1>3, <1>4, <1>5, <1>6 DEF Next

\* The invariant holds in every reachable state.
THEOREM Invariance == Spec => []Inv
  BY InitInv, StepKeepsInv, PTL DEF Spec

-----------------------------------------------------------------------------
(* The properties *)

\* Every variable stays within its type.
THEOREM TypeCorrect == Spec => []TypeOK
<1>1. Inv => TypeOK
  BY DEF Inv
<1> QED
  BY <1>1, Invariance, PTL

\* However often the agent reconnects and reports are repeated, a connection
\* that the server has accepted has a heartbeat that goes on.
THEOREM HeartbeatGoesOn == Spec => []HeartbeatRuns
<1>1. Inv => HeartbeatRuns
  BY DEF Inv
<1> QED
  BY <1>1, Invariance, PTL

\* Whichever of answer, timer, close and restart comes first, a response is
\* written to once at most, and what is pending has its timer.
THEOREM ResponsesAreWrittenOnce == Spec => []AnsweredOnce
<1>1. Inv => AnsweredOnce
  BY DEF Inv, WrittenOnce, AnsweredOnce
<1> QED
  BY <1>1, Invariance, PTL

\* Nothing runs on a device without its row in the audit log, and a result in
\* the log is one of the agent.
THEOREM RunsAreAudited == Spec => []AuditTellsRuns
<1>1. ASSUME Inv, NEW k \in Commands
      PROVE  /\ job[k] \in {"ran", "replied"} => audit[k] # "none"
             /\ audit[k] = "result" => job[k] = "replied"
  BY <1>1 DEF Inv, Traced
<1>2. Inv => AuditTellsRuns
  BY <1>1 DEF AuditTellsRuns
<1> QED
  BY <1>2, Invariance, PTL

=============================================================================
