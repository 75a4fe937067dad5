----------------------------- MODULE MCMetadata -----------------------------
(* Instances of Metadata for TLC: "a" and "b" share a key, and "a" takes   *)
(* less space in the header than the other names.                          *)
EXTENDS Metadata

NameWidth == [n \in Names |-> IF n = "a" THEN 1 ELSE 2]
NameKey == [n \in Names |-> IF n \in {"a", "b"} THEN 0 ELSE 1]
=============================================================================
