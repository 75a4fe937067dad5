----------------------------- MODULE RequestSet -----------------------------
(***************************************************************************)
(* What the nonblocking API promises one process: a set of pending         *)
(* requests, each with an ID no other pending request has.  A wait         *)
(* transfers the whole of the requests it removes from the set, a cancel   *)
(* removes requests and transfers nothing, and no other call removes any.  *)
(***************************************************************************)
EXTENDS Naturals

VARIABLES
    pending,     \* set of records [id, num]: the pending requests
    transferred  \* the requests the last call moved to or from the file

Request == [id : Nat, num : Nat \ {0}]

Init == pending = {} /\ transferred = {}

Post(req) ==
    /\ \A p \in pending : p.id # req.id
    /\ pending' = pending \cup {req}
    /\ transferred' = {}

Wait == \E S \in SUBSET pending :
            /\ pending' = pending \ S
            /\ transferred' = S

Cancel == /\ pending' \subseteq pending
          /\ transferred' = {}

Next == \/ \E req \in pending' : req \in Request /\ Post(req)
        \/ Wait
        \/ Cancel

Spec == Init /\ [][Next]_<<pending, transferred>>
=============================================================================
