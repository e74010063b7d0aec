-------------------------- MODULE MCMoveController --------------------------
(* MoveController for TLC. *)
EXTENDS MoveController, TLC

(* Cells and drivers are interchangeable. *)
Symmetry == Permutations(Cells) \cup Permutations(Drivers)
=============================================================================
