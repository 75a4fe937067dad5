--------------------------- MODULE MCRecordCount ---------------------------
(* Small instances of RecordCount for TLC. *)
EXTENDS RecordCount, TLC

CONSTANTS r0, r1, r2

TwoRanks   == {r0, r1}
ThreeRanks == {r0, r1, r2}

(* All calls but fill_rec, which does not sync the file under NC_SHARE. *)
SyncedOps == AllOps \ {"fill_rec"}

(* The ranks other than the root are interchangeable. *)
OtherRanks == Permutations(Rank \ {Root})
=============================================================================
