-------------------------------- MODULE Vetted ---------------------------------
(***************************************************************************)
(* What the product promises about everything a language model writes: a   *)
(* place (a bullet of a resume, a letter, an answer) holds what it held    *)
(* before, or a value that passed the check of that place.                 *)
(***************************************************************************)
CONSTANTS
    Places,
    Values,
    Original,         \* place -> what it holds at first
    Acceptable(_, _)  \* the check, of a place and a value

VARIABLE shown   \* place -> value

VettedInit == shown = Original

Rewrite(p) ==
    /\ shown'[p] \in Values
    /\ Acceptable(p, shown'[p])
    /\ shown' = [shown EXCEPT ![p] = shown'[p]]

VettedNext == \E p \in Places : Rewrite(p)

VettedSpec == VettedInit /\ [][VettedNext]_shown
=============================================================================
