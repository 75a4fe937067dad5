------------------------------ MODULE MCLayout ------------------------------
(* Instances of Layout for TLC. *)
EXTENDS Layout

\* All alignments come from the hints, the same at every open.
SameHints == {[h |-> 2, fx |-> 2, r |-> 2]}
\* The second open asks for larger alignment of variables.
NewHints == {[h |-> 2, fx |-> 2, r |-> 2], [h |-> 2, fx |-> 4, r |-> 2]}
PlainArgs == [h_minfree |-> 0, v_align |-> 0, v_minfree |-> 0, r_align |-> 0]
FreeArgs == [h_minfree |-> 1, v_align |-> 0, v_minfree |-> 2, r_align |-> 0]
AnyArgs == {PlainArgs, FreeArgs}
OnlyPlain == {PlainArgs}
=============================================================================
