-------------------------- MODULE MCAdmissionGate --------------------------
(* AdmissionGate for TLC. *)
EXTENDS AdmissionGate, TLC

(* Requests and drains are interchangeable, and so are the other cells. *)
Symmetry == Permutations(Requests) \cup Permutations(Drains)
              \cup Permutations(Cells \ {Here})
=============================================================================
