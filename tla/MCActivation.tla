---------------------------- MODULE MCActivation ----------------------------
(* Activation on a small database. *)
EXTENDS Activation, TLC

Symmetry == Permutations(Codes) \cup Permutations(Installs)
              \cup Permutations(Requests)

=============================================================================
