----------------------------- MODULE LogPromise -----------------------------
(***************************************************************************)
(* What the burst buffer promises an application: a put that has returned  *)
(* is pending; it reaches the file once, whole, after the earlier puts of  *)
(* its rank that do, and no later than the end of the next call of the     *)
(* rank that reads, synchronises, waits, redefines or closes.  Only a      *)
(* cancel, or the end of a call made in define mode, drops a put.          *)
(***************************************************************************)
EXTENDS Naturals, FiniteSets

CONSTANTS Rank, Cells

VARIABLES
    pending,   \* pending[r]: records [put, cells], the puts not yet written
    file,      \* file[c]: the put whose value cell c of the file holds
    busy,      \* busy[r]: r is in a call that flushes
    defining   \* the file is in define mode

vars == <<pending, file, busy, defining>>

Init ==
    /\ pending = [r \in Rank |-> {}]
    /\ file = [c \in 1 .. Cells |-> 0]
    /\ busy = [r \in Rank |-> FALSE]
    /\ defining = FALSE

(* Puts are numbered in the order they are made. *)
Post(r, p) ==
    /\ ~busy[r]
    /\ \A q \in Rank : \A o \in pending[q] : o.put < p.put
    /\ pending' = [pending EXCEPT ![r] = @ \cup {p}]
    /\ UNCHANGED <<file, busy, defining>>

Drop ==
    /\ \A r \in Rank : \/ pending'[r] = pending[r]
                       \/ pending'[r] \subseteq pending[r] /\ (~busy[r] \/ defining)
    /\ DOMAIN pending' = Rank
    /\ UNCHANGED <<file, busy, defining>>

(* A rank's puts are written in order; those of one step race for a cell. *)
Write(P) ==
    /\ \A r \in Rank : \A p \in pending[r] \cap P :
          /\ busy[r]
          /\ \A q \in pending[r] \ P : p.put < q.put
    /\ pending' = [r \in Rank |-> pending[r] \ P]
    /\ \A c \in 1 .. Cells :
          LET here == {p \in P : c \in p.cells}
          IN  file'[c] \in IF here = {} THEN {file[c]} ELSE {p.put : p \in here}
    /\ UNCHANGED <<busy, defining>>

WriteSome == \E P \in SUBSET UNION {pending[r] : r \in Rank} :
                DOMAIN file' = DOMAIN file /\ Write(P)

Begin(R) ==
    /\ \A r \in R : ~busy[r]
    /\ busy' = [r \in Rank |-> busy[r] \/ r \in R]
    /\ UNCHANGED <<pending, file, defining>>

End(R) ==
    /\ \A r \in R : busy[r] /\ (pending[r] = {} \/ defining)
    /\ busy' = [r \in Rank |-> busy[r] /\ r \notin R]
    /\ pending' = [r \in Rank |-> IF r \in R THEN {} ELSE pending[r]]
    /\ defining' \in BOOLEAN
    /\ UNCHANGED file

SwitchMode ==
    /\ \A r \in Rank : ~busy[r]
    /\ defining' \in BOOLEAN
    /\ UNCHANGED <<pending, file, busy>>

Next ==
    \/ \E r \in Rank : \E p \in pending'[r] : Post(r, p)
    \/ Drop
    \/ WriteSome
    \/ \E R \in SUBSET Rank : Begin(R) \/ End(R)
    \/ SwitchMode

Spec == Init /\ [][Next]_vars
=============================================================================
