---------------------------- MODULE MCFileTable ----------------------------
(* Instances of FileTable for TLC. *)
EXTENDS FileTable, TLC

(* The last reply decides nothing that follows. *)
ButReply == <<table, numfiles, disk>>

Paths == Permutations(Files)
=============================================================================
