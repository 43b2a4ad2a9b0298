------------------------------ MODULE Selections -------------------------------
(***************************************************************************)
(* Selections from a sequence that keep its order.  They are folds, and    *)
(* not SelectSeq, because proofs can take a fold apart.                    *)
(***************************************************************************)
EXTENDS Naturals, SequencesExt

(* What of s is in A, a list comprehension with a condition.               *)
Only(s, A) ==
    FoldLeft(LAMBDA kept, x : IF x \in A THEN Append(kept, x) ELSE kept, << >>, s)

(* Those in A before the others, as a stable sort by membership has it.    *)
StablePartition(s, A) == Only(s, A) \o Only(s, ToSet(s) \ A)
=============================================================================
