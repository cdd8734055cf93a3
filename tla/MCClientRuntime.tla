-------------------------- MODULE MCClientRuntime --------------------------
(* ClientRuntime with a few activations. *)
EXTENDS ClientRuntime, TLC

Symmetry == Permutations(Tokens) \cup Permutations(Workers)

=============================================================================
