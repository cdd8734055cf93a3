-------------------------- MODULE MCAgentEnrollment --------------------------
(* AgentEnrollment with a few devices, agents and groups. *)
EXTENDS AgentEnrollment, TLC

Symmetry == Permutations(Devices) \cup Permutations(Nodes)
              \cup Permutations(Groups) \cup Permutations(Handlers)

=============================================================================
