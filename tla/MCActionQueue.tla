--------------------------- MODULE MCActionQueue ---------------------------
(* ActionQueue for TLC: three interchangeable actions.                      *)
EXTENDS ActionQueue, TLC

CONSTANTS a1, a2, a3

TagSymmetry == Permutations({a1, a2, a3})
=============================================================================
