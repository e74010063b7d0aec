---------------------------- MODULE MCRouteCache ----------------------------
(* RouteCache for TLC. *)
EXTENDS RouteCache, TLC

(* Requests are interchangeable, and so are the cells with no role. *)
Symmetry == Permutations(Requests) \cup Permutations(Cells \ {Here, Default})
=============================================================================
