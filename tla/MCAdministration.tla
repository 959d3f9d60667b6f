-------------------------- MODULE MCAdministration --------------------------
(* Two commands of the manager at once: which slot a command runs in does  *)
(* not matter, for the free one is taken, or either of two empty ones.     *)
EXTENDS Administration, TLC

Symmetry == Permutations(Slots)
=============================================================================
