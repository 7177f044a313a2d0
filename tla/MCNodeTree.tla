----------------------------- MODULE MCNodeTree -----------------------------
(* Positions with two listed moves and one that is not.                    *)
EXTENDS NodeTree, TLC

CONSTANTS m1, m2, m3
TwoMoves == <<m1, m2>>
Symmetry == Permutations(Keys)
=============================================================================
