--------------------------- MODULE MCBurstBuffer ---------------------------
(* Small instances of BurstBuffer for TLC. *)
EXTENDS BurstBuffer, TLC

CONSTANTS r0, r1

TwoRanks == {r0, r1}

(* No cell, one, two; the parts of a varn come in any order. *)
VarShapes  == {<<>>, <<1>>, <<1, 2>>}
SwapShapes == {<<>>, <<2, 1>>}

AnyOrder == Permutations(Rank)
=============================================================================
