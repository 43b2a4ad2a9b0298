----------------------------- MODULE MCMatching -----------------------------
(* Instances of Matching for TLC: the board belongs to the owner of s1, and *)
(* s2 is the search of a user who does not see it.                          *)
EXTENDS Matching, TLC

CONSTANTS b1, p1, c1, c2, s1, s2, w, api

Homes == p1 :> b1
OwnBoard == s1 :> {b1}
OwnAndForeign == (s1 :> {b1}) @@ (s2 :> {})

(* The second content scores higher than the first. *)
SecondFits(c, r) == IF c = c2 THEN 90 ELSE 60
=============================================================================
