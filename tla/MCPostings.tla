----------------------------- MODULE MCPostings -----------------------------
(* Instances of Postings for TLC: two boards with a posting each. *)
EXTENDS Postings, TLC

CONSTANTS b1, b2, p1, q1, c1, c2

TwoBoards == {b1, b2}
TwoPostings == {p1, q1}
TwoHomes == (p1 :> b1) @@ (q1 :> b2)

(* The titles agree when the contents do; the company is the same. *)
SameTitle(b, c, d, e) == IF c = e THEN 100 ELSE 50
=============================================================================
