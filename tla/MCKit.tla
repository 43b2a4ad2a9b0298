--------------------------------- MODULE MCKit ---------------------------------
(* Instances of Kit for TLC. *)
EXTENDS Kit, TLC

CONSTANTS r1, r2, v1, v2, x1, x2, classic, modern, standard, direct

(* Requests and texts are interchangeable. *)
Symmetric == Permutations({r1, r2}) \cup Permutations({x1, x2})
=============================================================================
