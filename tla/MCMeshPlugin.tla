---------------------------- MODULE MCMeshPlugin ----------------------------
(* MeshPlugin with two connections of the agent and one command.  Its two  *)
(* halves share only the connection and MeshCentral's restarts, so each    *)
(* behaviour exercises one of them.                                        *)
EXTENDS MeshPlugin

VARIABLE half

mcVars == <<vars, half>>

MCInit == Init /\ half \in {"events", "commands"}

Events(step) == half = "events" /\ step /\ UNCHANGED <<commandVars, half>>
RemoteCommands(step) == half = "commands" /\ step /\ UNCHANGED half

MCNext ==
  \/ Events(PresenceNext)
  \/ RemoteCommands(CommandNext)
  \/ RemoteCommands((Connect \/ Disconnect) /\ UNCHANGED commandVars)
  \/ RestartMesh /\ UNCHANGED half

MCSpec ==
  /\ MCInit /\ [][MCNext]_mcVars
  /\ WF_mcVars(Events(AgentCoreIsStable))
  /\ WF_mcVars(Events(Age))
  /\ WF_mcVars(Events(DeliverLate))
  /\ \A c \in Connections : WF_mcVars(Events(PluginStep(c)))
  /\ \A k \in Commands :
       WF_mcVars(RemoteCommands(ServerStep(k))) /\ WF_mcVars(RemoteCommands(Expire(k)))

=============================================================================
