------------------------------ MODULE Presence ------------------------------
(***************************************************************************)
(* How the server comes to know whether an agent is connected: the events  *)
(* and heartbeats of integrations/deskpatrol/deskpatrol.js, and what       *)
(* meshCentralEvent and listDevices in internal/server/app.go make of      *)
(* them, for one device that is bound to its agent.                        *)
(*                                                                         *)
(* A connection of the agent is a number.  The plugin reports it with      *)
(* agent_stable and then schedules a heartbeat; the state object that      *)
(* scheduleHeartbeat makes is named by the connection it was made for.     *)
(* Requests are tried several times, and one that was given up by the      *)
(* plugin may still be carried out by the server, later.                   *)
(***************************************************************************)
EXTENDS Naturals

CONSTANTS
  MaxConnections,  \* bound on how often the agent connects
  Attempts,        \* attempts of sendEventWithRetry, four in the code
  MaxFailures,     \* bound on the failing attempts
  MaxRestarts      \* bound on how often MeshCentral restarts

ASSUME CountsAssumption ==
  /\ MaxConnections \in Nat /\ Attempts \in Nat \ {0}
  /\ MaxFailures \in Nat /\ MaxRestarts \in Nat

VARIABLES
  conn,      \* webServer.wsagents[nodeId], 0 when the agent is not connected
  opened,    \* connections so far
  stable,    \* of a connection: what has become of its agent_stable
  timer,     \* heartbeatTimers.get(nodeId), 0 when there is none
  tick,      \* of a state object: its timeout, or the event it is sending
  tried,     \* failed attempts of what stable or tick is sending
  late,      \* events the plugin has given up and the server has not yet seen
  failures, restarts,
  status, fresh  \* devices.status; last_seen_at is at most 90 seconds ago

pluginVars == <<stable, timer, tick, tried>>
netVars == <<late, failures>>
deviceVars == <<status, fresh>>
presenceVars == <<conn, opened, restarts, pluginVars, netVars, deviceVars>>

Connections == 1..MaxConnections
EventTypes == {"agent_stable", "agent_heartbeat", "agent_offline"}

PresenceTypeOK ==
  /\ conn \in 0..opened /\ opened \in 0..MaxConnections
  /\ stable \in [Connections -> {"none", "sending", "accepted", "failed"}]
  /\ timer \in 0..opened
  /\ tick \in [Connections -> {"off", "armed", "agent_heartbeat", "agent_offline"}]
  /\ tried \in [{"stable", "tick"} -> [Connections -> 0..(Attempts - 1)]]
  /\ late \in SUBSET EventTypes
  /\ failures \in 0..MaxFailures /\ restarts \in 0..MaxRestarts
  /\ status \in {"online", "offline"} /\ fresh \in BOOLEAN

PresenceInit ==
  /\ conn = 0 /\ opened = 0 /\ failures = 0 /\ restarts = 0
  /\ stable = [c \in Connections |-> "none"]
  /\ timer = 0
  /\ tick = [c \in Connections |-> "off"]
  /\ tried = [s \in {"stable", "tick"} |-> [c \in Connections |-> 0]]
  /\ late = {}
  /\ status = "offline" /\ fresh = FALSE

-----------------------------------------------------------------------------
(* The server                                                              *)

\* meshCentralEvent for a bound device: agent_stable binds it again.
Record(type) ==
  /\ status' = IF type = "agent_offline" THEN "offline" ELSE "online"
  /\ fresh' = (fresh \/ type # "agent_offline")

\* The status that listDevices and clientStatus report.
Shown == IF fresh THEN status ELSE "offline"

\* Time passes: last_seen_at becomes older than 90 seconds.
Age ==
  /\ fresh /\ fresh' = FALSE
  /\ UNCHANGED <<conn, opened, restarts, pluginVars, netVars, status>>

\* An event the plugin has given up is carried out.
DeliverLate ==
  /\ \E type \in late : Record(type) /\ late' = late \ {type}
  /\ UNCHANGED <<conn, opened, restarts, pluginVars, failures>>

-----------------------------------------------------------------------------
(* The plugin                                                              *)

\* An attempt of sendEvent fails; it may reach the server later.
Lose(type) ==
  /\ failures < MaxFailures
  /\ failures' = failures + 1
  /\ late' \in {late, late \cup {type}}

\* The agent connects, perhaps before its last connection is seen to be gone.
Connect ==
  /\ opened < MaxConnections
  /\ opened' = opened + 1 /\ conn' = opened + 1
  /\ UNCHANGED <<restarts, pluginVars, netVars, deviceVars>>

Disconnect ==
  /\ conn # 0 /\ conn' = 0
  /\ UNCHANGED <<opened, restarts, pluginVars, netVars, deviceVars>>

\* hook_agentCoreIsStable.
AgentCoreIsStable ==
  /\ conn # 0 /\ stable[conn] = "none"
  /\ stable' = [stable EXCEPT ![conn] = "sending"]
  /\ UNCHANGED <<conn, opened, restarts, timer, tick, tried, netVars, deviceVars>>

\* Mutant of ScheduleHeartbeat: only one state object is ever made.
ScheduleOnce(c) ==
  IF timer = 0
  THEN timer' = c /\ tick' = [tick EXCEPT ![c] = "armed"]
  ELSE UNCHANGED <<timer, tick>>

\* scheduleHeartbeat stops the timeout of the state object it replaces; one
\* that is sending goes on.
ScheduleHeartbeat(c) ==
  /\ timer' = c
  /\ tick' = [d \in Connections |->
                CASE d = c -> "armed"
                  [] d # c /\ d = timer /\ tick[d] = "armed" -> "off"
                  [] OTHER -> tick[d]]

\* Mutant of SendStable: one attempt more than there are delays.
SendStableOnceMore(c) ==
  /\ stable[c] = "sending"
  /\ Lose("agent_stable")
  /\ IF tried["stable"][c] < Attempts
     THEN tried' = [tried EXCEPT !["stable"][c] = @ + 1] /\ UNCHANGED stable
     ELSE stable' = [stable EXCEPT ![c] = "failed"] /\ UNCHANGED tried
  /\ UNCHANGED <<conn, opened, restarts, timer, tick, deviceVars>>

\* An attempt of sendEventWithRetry to report a connection.
SendStable(c) ==
  /\ stable[c] = "sending"
  /\ \/ /\ Record("agent_stable") /\ ScheduleHeartbeat(c)
        /\ stable' = [stable EXCEPT ![c] = "accepted"]
        /\ UNCHANGED <<tried, netVars>>
     \/ /\ Lose("agent_stable")
        /\ IF tried["stable"][c] + 1 < Attempts
           THEN tried' = [tried EXCEPT !["stable"][c] = @ + 1] /\ UNCHANGED stable
           ELSE stable' = [stable EXCEPT ![c] = "failed"] /\ UNCHANGED tried
        /\ UNCHANGED <<timer, tick, deviceVars>>
  /\ UNCHANGED <<conn, opened, restarts>>

\* tick is called and chooses the event by the connection there is now.
FireTick(c) ==
  /\ tick[c] = "armed" /\ timer = c
  /\ tick' = [tick EXCEPT ![c] = IF conn # 0 THEN "agent_heartbeat" ELSE "agent_offline"]
  /\ tried' = [tried EXCEPT !["tick"][c] = 0]
  /\ UNCHANGED <<conn, opened, restarts, stable, timer, netVars, deviceVars>>

\* Mutant of AfterSend: the timer is not compared again.
AfterSendUnchecked(c) ==
  IF tick[c] = "agent_offline"
  THEN timer' = 0 /\ tick' = [tick EXCEPT ![c] = "off"]
  ELSE tick' = [tick EXCEPT ![c] = "armed"] /\ UNCHANGED timer

\* tick, after its await: a state object that was replaced ends; one that has
\* sent agent_offline is removed; another one waits for its next turn.
AfterSend(c) ==
  \/ timer # c /\ tick' = [tick EXCEPT ![c] = "off"] /\ UNCHANGED timer
  \/ /\ timer = c /\ tick[c] = "agent_offline"
     /\ timer' = 0 /\ tick' = [tick EXCEPT ![c] = "off"]
  \/ /\ timer = c /\ tick[c] = "agent_heartbeat"
     /\ tick' = [tick EXCEPT ![c] = "armed"] /\ UNCHANGED timer

\* An attempt of sendEventWithRetry from tick; the last failure is only logged.
SendTick(c) ==
  /\ tick[c] \in EventTypes
  /\ \/ Record(tick[c]) /\ AfterSend(c) /\ UNCHANGED <<tried, netVars>>
     \/ /\ Lose(tick[c])
        /\ IF tried["tick"][c] + 1 < Attempts
           THEN tried' = [tried EXCEPT !["tick"][c] = @ + 1] /\ UNCHANGED <<timer, tick>>
           ELSE AfterSend(c) /\ UNCHANGED tried
        /\ UNCHANGED deviceVars
  /\ UNCHANGED <<conn, opened, restarts, stable>>

\* MeshCentral restarts: connections and the plugin's memory are gone.
ForgetPresence ==
  /\ restarts < MaxRestarts /\ restarts' = restarts + 1
  /\ conn' = 0 /\ timer' = 0
  /\ stable' = [c \in Connections |-> IF c > opened THEN "none" ELSE "failed"]
  /\ tick' = [c \in Connections |-> "off"]
  /\ UNCHANGED <<opened, tried, netVars, deviceVars>>

PluginStep(c) == SendStable(c) \/ FireTick(c) \/ SendTick(c)

PresenceNext ==
  \/ Connect \/ Disconnect \/ AgentCoreIsStable \/ Age \/ DeliverLate
  \/ \E c \in Connections : PluginStep(c)

-----------------------------------------------------------------------------
(* Properties                                                              *)

\* A connection that the server has accepted has a running heartbeat, which
\* is not about to remove itself, whatever older heartbeats and reports are
\* still being sent (scheduleHeartbeatWithSender, the test of stale callbacks).
HeartbeatRuns ==
  conn # 0 /\ stable[conn] = "accepted" =>
    timer # 0 /\ tick[timer] \in {"armed", "agent_heartbeat"}

\* An agent that stays away is in the end shown offline for good.
GoneIsShownOffline == <>[](conn = 0) => <>[](Shown = "offline")

\* An agent that stays connected and was accepted is shown online again and
\* again.
ConnectedIsShownOnline ==
  <>[](conn # 0 /\ stable[conn] = "accepted") => []<>(Shown = "online")

\* Liveness: the list of devices becomes right.  Late heartbeats and lost
\* agent_offline events do no lasting harm, and a late agent_offline is
\* corrected (scheduleHeartbeatWithSender, listDevices).
ListBecomesRight == GoneIsShownOffline /\ ConnectedIsShownOnline

=============================================================================
