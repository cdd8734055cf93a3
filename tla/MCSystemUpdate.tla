--------------------------- MODULE MCSystemUpdate ---------------------------
(* SystemUpdate with two requests served at a time. *)
EXTENDS SystemUpdate, TLC

Symmetry == Permutations(Handlers)

=============================================================================
