--------------------------- MODULE MCRequestQueue ---------------------------
(* Small instances of RequestQueue for TLC. *)
EXTENDS RequestQueue

(* One fixed-size variable and one record variable, which begins after it. *)
Variables  == {"fixed", "record"}
Records    == {"record"}
Layout     == [v \in Variables |-> IF v = "fixed" THEN 1 ELSE 2]
=============================================================================
