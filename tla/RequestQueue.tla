---------------------------- MODULE RequestQueue ----------------------------
(***************************************************************************)
(* The queues of pending nonblocking requests one process keeps for a file *)
(* (ncmpio driver), and the buffer attached for bput requests.             *)
(*                                                                         *)
(* A request is a lead in put.lead or get.lead and, one per record of a    *)
(* record variable, num non-lead entries in put.list or get.list: the      *)
(* entries off + 1 .. off + num, which point back at the lead.  Put leads  *)
(* are kept in the order of the file offsets of their variables.           *)
(*                                                                         *)
(* The calls are those of one process, so each is one action: iput, iget,  *)
(* bput (varm and varn), wait with NC_REQ_ALL and the like or with an      *)
(* array of IDs, cancel, buffer_attach and buffer_detach.  A request of    *)
(* zero size queues nothing and gets the ID NC_REQ_NULL.  One unit of the  *)
(* attached buffer holds one non-lead entry.                               *)
(***************************************************************************)
EXTENDS Integers, SequencesExt

CONSTANTS
    Var,         \* the variables of the file
    RecVar,      \* those that are record variables
    Begin,       \* Begin[v]: the file offset at which variable v begins
    MaxPending,  \* bound: pending requests of the process
    MaxId,       \* bound: the largest request ID in use
    MaxNum,      \* bound: records of one request
    MaxRecs,     \* bound: the number of records of the file
    MaxBuffer,   \* bound: the size of an attached buffer
    Habits,      \* what the application does with arrays of IDs and with varn
    IOErrors     \* the transfers of a wait may fail

ASSUME VarAssumption   == /\ RecVar \subseteq Var
                          /\ Begin \in [Var -> Nat]
ASSUME BoundAssumption == /\ MaxPending \in Nat /\ MaxId \in Nat
                          /\ MaxNum \in Nat \ {0} /\ MaxRecs \in Nat
                          /\ MaxBuffer \in Nat
ASSUME HabitAssumption == /\ Habits \subseteq {"subset", "null", "unknown", "varn"}
                          /\ IOErrors \in BOOLEAN

VARIABLES
    put,      \* ncp->put_lead_list, put_list and maxPutReqID
    get,      \* the same of the get requests
    abuf,     \* the attached buffer; its size is 0 when there is none
    numrecs,  \* ncp->numrecs
    last      \* history: what the last call was asked for and what it did

vars == <<put, get, abuf, numrecs, last>>

NullId == -1    \* NC_REQ_NULL

(***************************************************************************)
(* A lead: its ID, variable, non-lead entries, the last record it reaches  *)
(* (0: fixed-size), its entry in the buffer table (0: none), where in the  *)
(* buffer its data is, the flag NC_REQ_TO_FREE, and the element of the     *)
(* caller's array of statuses its status pointer points at (0: none).      *)
(***************************************************************************)
Lead == [id : 0 .. MaxId, var : Var, num : 1 .. MaxNum, off : Nat,
         max : 0 .. MaxRecs, buf : Nat, at : Nat, free : BOOLEAN, slot : Nat]

(***************************************************************************)
(* A non-lead entry: its lead's index, the request its data is of, and the *)
(* part of the request's data it transfers: recs records from record from. *)
(***************************************************************************)
Entry == [lead : Nat, owner : Int, from : Nat, recs : Nat]

(* Memory that was freed or never written. *)
Undefined == [lead |-> 0, owner |-> NullId, from |-> 0, recs |-> 0]

EmptyQueue == [lead |-> <<>>, list |-> <<>>, max |-> 0]

NoBuffer == [size |-> 0, used |-> 0, table |-> <<>>]

(***************************************************************************)
(* last.asked: the requests a wait was to complete; .moved: for each owner *)
(* of entries it transferred, how many; .misplaced: the requests whose     *)
(* status went to another request's place; .failed: the transfers that     *)
(* failed; .error: an error was returned; .refused: IDs it called invalid. *)
(***************************************************************************)
Quiet == [asked |-> {}, moved |-> {}, misplaced |-> {}, failed |-> {},
          error |-> FALSE, refused |-> {}]

Init == /\ put = EmptyQueue
        /\ get = EmptyQueue
        /\ abuf = NoBuffer
        /\ numrecs = 0
        /\ last = Quiet

-----------------------------------------------------------------------------
(* Posting a request. *)

Ids(q) == {q.lead[i].id : i \in DOMAIN q.lead}

(* Sums(f)[n] is the sum of the first n numbers of the sequence f. *)
Sums(f) ==
    LET sum[n \in 0 .. Len(f)] == IF n = 0 THEN 0 ELSE sum[n - 1] + f[n]
    IN  sum

(* Mutant of NextId: the two kinds of requests do not step over each other. *)
NextIdByOne(q, first) == IF q.lead = <<>> THEN first ELSE q.max + 1

(* IDs restart when the queue is empty. *)
NextId(q, first) == IF q.lead = <<>> THEN first ELSE q.max + 2

(* After the last lead whose variable does not begin later than v. *)
SortedPlace(q, v) ==
    1 + Max({0} \cup {i \in DOMAIN q.lead : Begin[q.lead[i].var] <= Begin[v]})

(***************************************************************************)
(* The new lead takes the offset of the lead it displaces; the later leads *)
(* and their entries make room.  Its entries are given recs records of its *)
(* data each.                                                              *)
(***************************************************************************)
Insert(q, place, new, recs) ==
    LET off == IF place <= Len(q.lead) THEN q.lead[place].off ELSE Len(q.list)
        entry(k) == [lead |-> place, owner |-> new.id,
                     from |-> (k - 1) * recs, recs |-> recs]
    IN  [lead |-> [i \in 1 .. Len(q.lead) + 1 |->
                     IF i < place THEN q.lead[i]
                     ELSE IF i = place THEN [new EXCEPT !.off = off]
                     ELSE [q.lead[i - 1] EXCEPT !.off = @ + new.num]],
         list |-> [k \in 1 .. Len(q.list) + new.num |->
                     IF k <= off THEN q.list[k]
                     ELSE IF k <= off + new.num THEN entry(k - off)
                     ELSE [q.list[k - new.num] EXCEPT !.lead = @ + 1]],
         max  |-> new.id]

(* The requests the application may post, with ID id. *)
NewLeads(id) ==
    {l \in [id : {id}, var : Var, num : 1 .. MaxNum, off : {0},
            max : 0 .. MaxRecs, buf : {0}, at : {0}, free : {FALSE}, slot : {0}] :
        IF l.var \in RecVar THEN l.max > 0 ELSE l.max = 0}

(***************************************************************************)
(* The varm APIs divide the size of a request by its number of records; a  *)
(* varn request leaves each subrequest of several records undivided.       *)
(***************************************************************************)
RecsPerEntry(l) ==
    IF "varn" \in Habits /\ l.var \in RecVar THEN {1, l.num} ELSE {1}

MayPost(id) == /\ Len(put.lead) + Len(get.lead) < MaxPending
               /\ id <= MaxId

IPut ==
    LET id == NextId(put, 0)
    IN  /\ MayPost(id)
        /\ \E l \in NewLeads(id) : \E recs \in RecsPerEntry(l) :
             put' = Insert(put, SortedPlace(put, l.var), l, recs)
        /\ last' = Quiet
        /\ UNCHANGED <<get, abuf, numrecs>>

(* The get requests of the varm APIs are appended, those of varn sorted in. *)
IGet ==
    LET id == NextId(get, 1)
    IN  /\ MayPost(id)
        /\ \E l \in NewLeads(id) : \E recs \in RecsPerEntry(l) :
             \E place \in {Len(get.lead) + 1, SortedPlace(get, l.var)} :
               get' = Insert(get, place, l, recs)
        /\ last' = Quiet
        /\ UNCHANGED <<put, abuf, numrecs>>

(* bput copies the data to the end of the used part of the attached buffer. *)
BPut ==
    LET id == NextId(put, 0)
    IN  /\ MayPost(id)
        /\ abuf.size > 0
        /\ \E l \in NewLeads(id) : \E recs \in RecsPerEntry(l) :
             /\ abuf.size - abuf.used >= l.num
             /\ put' = Insert(put, SortedPlace(put, l.var),
                              [l EXCEPT !.buf = Len(abuf.table) + 1,
                                        !.at = abuf.used], recs)
             /\ abuf' = [abuf EXCEPT
                           !.used = @ + l.num,
                           !.table = Append(@, [num |-> l.num, used |-> TRUE])]
        /\ last' = Quiet
        /\ UNCHANGED <<get, numrecs>>

BufferAttach ==
    /\ abuf.size = 0
    /\ \E size \in 1 .. MaxBuffer : abuf' = [NoBuffer EXCEPT !.size = size]
    /\ last' = Quiet
    /\ UNCHANGED <<put, get, numrecs>>

BufferDetach ==
    /\ abuf.size > 0
    /\ \A i \in DOMAIN put.lead : put.lead[i].buf = 0
    /\ abuf' = NoBuffer
    /\ last' = Quiet
    /\ UNCHANGED <<put, get, numrecs>>

-----------------------------------------------------------------------------
(* Giving back the space of bput requests. *)

FreeEntries(b, leads) ==
    LET freed == {l.buf : l \in leads}
    IN  [b EXCEPT !.table = [i \in DOMAIN @ |->
                               IF i \in freed THEN [@[i] EXCEPT !.used = FALSE]
                               ELSE @[i]]]

(* Mutant of Coalesce: the space of every unused entry is given back. *)
CoalesceAll(b) ==
    LET unused == {i \in DOMAIN b.table : ~b.table[i].used}
    IN  [b EXCEPT !.table = SelectSeq(@, LAMBDA e : e.used),
                  !.used  = @ - MapThenSumSet(LAMBDA i : b.table[i].num, unused)]

(* Room(table)[i]: the space of the first i entries of the buffer table. *)
Room(table) == Sums([i \in DOMAIN table |-> table[i].num])

(* abuf_coalesce: the unused entries at the tail are dropped, no others. *)
Coalesce(b) ==
    LET tail == Max({0} \cup {i \in DOMAIN b.table : b.table[i].used})
        room == Room(b.table)
    IN  [b EXCEPT !.table = SubSeq(@, 1, tail),
                  !.used  = @ - (room[Len(b.table)] - room[tail])]

(* Mutant of Reclaim: abuf_coalesce is not called. *)
ReclaimLater(b, leads) == IF b.size = 0 THEN b ELSE FreeEntries(b, leads)

Reclaim(b, leads) == IF b.size = 0 THEN b ELSE Coalesce(FreeEntries(b, leads))

-----------------------------------------------------------------------------
(* The parts of req_commit. *)

Leads(q) == {q.lead[i] : i \in DOMAIN q.lead}

Freed(q) == {l \in Leads(q) : l.free}

(* Mutant of Slice: the last entry of a lead is left out. *)
SliceShort(q, l) == SubSeq(q.list, l.off + 1, l.off + l.num - 1)

Slice(q, l) == SubSeq(q.list, l.off + 1, l.off + l.num)

(***************************************************************************)
(* Of the first i leads, how many stay, and the non-lead entries of those. *)
(***************************************************************************)
Rank(q)  == Sums([i \in DOMAIN q.lead |-> IF q.lead[i].free THEN 0 ELSE 1])
Place(q) == Sums([i \in DOMAIN q.lead |->
                    IF q.lead[i].free THEN 0 ELSE q.lead[i].num])

(* The leads that stay, in their order. *)
Kept(q) == LET rank == Rank(q)
               nth(j) == CHOOSE i \in DOMAIN q.lead : ~q.lead[i].free /\ rank[i] = j
           IN  [j \in 1 .. rank[Len(q.lead)] |-> q.lead[nth(j)]]

(* Mutant of TakeOut: the entries that stay are not moved up. *)
TakeOutNoMove(q, num) ==
    LET place == Place(q)
    IN  IF num = 0 THEN q
        ELSE [q EXCEPT
                !.lead = [i \in DOMAIN @ |->
                            IF @[i].free THEN @[i]
                            ELSE [@[i] EXCEPT !.off = place[i - 1]]],
                !.list = SubSeq(@, 1, Len(@) - num)]

(***************************************************************************)
(* Take num non-lead entries, those of the marked leads, out of the list:  *)
(* the others move up and their leads' offsets follow.  Entry k of the new *)
(* list is of the lead from(k).                                            *)
(***************************************************************************)
TakeOut(q, num) ==
    LET place == Place(q)
        from(k) == {i \in DOMAIN q.lead : place[i - 1] < k /\ k <= place[i]}
        entry(k, i) == q.list[q.lead[i].off + (k - place[i - 1])]
    IN  IF num = 0 THEN q
        ELSE [q EXCEPT
                !.lead = [i \in DOMAIN @ |->
                            IF @[i].free THEN @[i]
                            ELSE [@[i] EXCEPT !.off = place[i - 1]]],
                !.list = [k \in 1 .. Len(@) - num |->
                            IF from(k) = {} THEN @[k]
                            ELSE entry(k, CHOOSE i \in from(k) : TRUE)]]

(* Mutant of Release: the entries keep the old indices of their leads. *)
ReleaseKeepsIndices(q) == [q EXCEPT !.lead = Kept(q)]

(***************************************************************************)
(* After the transfer: drop the marked leads and renumber the leads of the *)
(* entries that stay.  The list is freed with the last lead.               *)
(***************************************************************************)
Release(q) ==
    LET rank == Rank(q)
        of(k) == {i \in DOMAIN q.lead : /\ ~q.lead[i].free
                                        /\ q.lead[i].off < k
                                        /\ k <= q.lead[i].off + q.lead[i].num}
    IN  [q EXCEPT
           !.lead = Kept(q),
           !.list = [k \in DOMAIN @ |->
                       IF rank[Len(q.lead)] = 0 THEN Undefined
                       ELSE IF of(k) = {} THEN @[k]
                       ELSE [@[k] EXCEPT !.lead = rank[Max(of(k))]]]]

(* Mutant of NewNumrecs: the scan stops one lead short. *)
NewNumrecsShort(p, num) ==
    Max({numrecs} \cup {p.lead[i].max : i \in {j \in 1 .. num - 1 : p.lead[j].free}})

(* The scan for the new number of records: num is num_w_lead_reqs. *)
NewNumrecs(p, num) ==
    Max({numrecs} \cup {p.lead[i].max : i \in {j \in 1 .. num : p.lead[j].free}})

Occurs(s, x) == Cardinality({k \in DOMAIN s : s[k] = x})

(***************************************************************************)
(* req_commit with the marked queues p and g, the entries w and r taken    *)
(* out of them, which nw and nr leads are of: the transfers, writes first, *)
(* the number of records, and the release of the requests.                 *)
(***************************************************************************)
Finish(p, g, w, r, nw, nr, asked, ids) ==
    LET gone == (IF nw > 0 THEN Freed(p) ELSE {})
                  \cup (IF nr > 0 THEN Freed(g) ELSE {})
        place == {<<i, ids[i]>> : i \in DOMAIN ids}
        owners == [k \in 1 .. Len(w) + Len(r) |-> (w \o r)[k].owner]
    IN  \E failed \in IF IOErrors THEN SUBSET {"put", "get"} ELSE {{}} :
          /\ "put" \in failed => w # <<>>
          /\ "get" \in failed => r # <<>>
          /\ put' = IF nw > 0 THEN Release(p) ELSE p
          /\ get' = IF nr > 0 THEN Release(g) ELSE g
          /\ abuf' = IF nw > 0 THEN Reclaim(abuf, Freed(p)) ELSE abuf
          /\ numrecs' = IF w # <<>> THEN NewNumrecs(p, nw) ELSE numrecs
          /\ last' = [asked     |-> asked,
                      moved     |-> {[id |-> i, num |-> Occurs(owners, i)] :
                                       i \in ToSet(owners)},
                      misplaced |-> {l.id : l \in {m \in gone :
                                       m.slot > 0 /\ <<m.slot, m.id>> \notin place}},
                      failed    |-> failed,
                      error     |-> IF r # <<>> THEN "get" \in failed
                                                ELSE "put" \in failed,
                      refused   |-> {}]

-----------------------------------------------------------------------------
(* Waiting. *)

(* Mark every lead of q; with statuses, lead i gets the i-th of them. *)
MarkAll(q, statuses) ==
    [lead |-> [i \in DOMAIN q.lead |->
                 [q.lead[i] EXCEPT !.free = TRUE,
                                   !.slot = IF statuses THEN i ELSE @]],
     list |-> <<>>,
     max  |-> q.max]

(* Commit all requests on the given sides. *)
TakeAll(sides, asked, ids, statuses) ==
    LET p == IF "put" \in sides THEN MarkAll(put, statuses) ELSE put
        g == IF "get" \in sides THEN MarkAll(get, statuses) ELSE get
    IN  Finish(p, g,
               IF "put" \in sides THEN put.list ELSE <<>>,
               IF "get" \in sides THEN get.list ELSE <<>>,
               IF "put" \in sides THEN Len(put.lead) ELSE 0,
               IF "get" \in sides THEN Len(get.lead) ELSE 0,
               asked, ids)

(* NC_REQ_ALL, NC_PUT_REQ_ALL or NC_GET_REQ_ALL: no IDs, no statuses. *)
WaitAll(sides) ==
    TakeAll(sides, (IF "put" \in sides THEN Ids(put) ELSE {})
                     \cup (IF "get" \in sides THEN Ids(get) ELSE {}),
            <<>>, FALSE)

(***************************************************************************)
(* An array of IDs that is as long as a queue, the other being empty, or   *)
(* as both, is not looked at: it is taken to name all requests.            *)
(***************************************************************************)
Shortcut(ids, statuses) ==
    CASE get.list = <<>> /\ Len(ids) = Len(put.lead)         -> {"put"}
      [] put.list = <<>> /\ Len(ids) = Len(get.lead)         -> {"get"}
      [] Len(ids) = Len(put.lead) + Len(get.lead) /\ ~statuses -> {"put", "get"}
      [] OTHER                                               -> {}

Asked(ids) == {ids[i] : i \in DOMAIN ids} \ {NullId}

WaitCounted(ids, statuses) ==
    /\ Shortcut(ids, statuses) # {}
    /\ TakeAll(Shortcut(ids, statuses), Asked(ids), ids, statuses)

(***************************************************************************)
(* An ID names the lead that has it and is not marked; statuses[k] is the  *)
(* status of ids[k].                                                       *)
(***************************************************************************)
Mark(q, ids, statuses) ==
    LET place(l) == CHOOSE k \in DOMAIN ids : ids[k] = l.id
        mark(l) == IF l.free \/ l.id \notin Asked(ids) THEN l
                   ELSE [l EXCEPT !.free = TRUE,
                                  !.slot = IF statuses THEN place(l) ELSE @]
    IN  [q EXCEPT !.lead = [k \in DOMAIN @ |-> mark(@[k])]]

(* The indices of the leads an array of IDs names. *)
Named(q, ids) ==
    {i \in DOMAIN q.lead : ~q.lead[i].free /\ q.lead[i].id \in Asked(ids)}

(* Their entries, in the order of the array. *)
EntriesOf(q, ids) ==
    LET of(id) == {i \in Named(q, ids) : q.lead[i].id = id}
        taken[n \in 0 .. Len(ids)] ==
            IF n = 0 THEN <<>>
            ELSE IF of(ids[n]) = {} THEN taken[n - 1]
            ELSE taken[n - 1] \o Slice(q, q.lead[CHOOSE i \in of(ids[n]) : TRUE])
    IN  taken[Len(ids)]

(***************************************************************************)
(* The requests are looked up one by one.  If an ID is not found the call  *)
(* returns an error, with the leads it did find still marked.              *)
(***************************************************************************)
WaitNamed(ids, statuses) ==
    LET found   == {put.lead[i].id : i \in Named(put, ids)}
                     \cup {get.lead[i].id : i \in Named(get, ids)}
        refused == Asked(ids) \ found
        w == EntriesOf(put, ids)
        r == EntriesOf(get, ids)
        p == Mark(put, ids, statuses)
        g == Mark(get, ids, statuses)
    IN  /\ Shortcut(ids, statuses) = {}
        /\ IF refused # {}
           THEN /\ put' = p
                /\ get' = g
                /\ last' = [Quiet EXCEPT !.refused = refused, !.error = TRUE]
                /\ UNCHANGED <<abuf, numrecs>>
           ELSE Finish(TakeOut(p, Len(w)), TakeOut(g, Len(r)), w, r,
                       Cardinality(Named(put, ids)),
                       Cardinality(Named(get, ids)), Asked(ids), ids)

-----------------------------------------------------------------------------
(* Cancelling. *)

(* Remove the lead with ID id and its entries; the later ones move up. *)
Remove1(q, id) ==
    LET place == CHOOSE i \in DOMAIN q.lead : q.lead[i].id = id
        gone  == q.lead[place]
    IN  IF id \notin Ids(q) THEN q
        ELSE [lead |-> [i \in 1 .. Len(q.lead) - 1 |->
                          IF i < place THEN q.lead[i]
                          ELSE [q.lead[i + 1] EXCEPT !.off = @ - gone.num]],
              list |-> [k \in 1 .. Len(q.list) - gone.num |->
                          IF k <= gone.off THEN q.list[k]
                          ELSE [q.list[k + gone.num] EXCEPT !.lead = @ - 1]],
              max  |-> q.max]

(* One after the other, the requests an array of IDs names. *)
RemoveEach(q, ids) ==
    LET left[n \in 0 .. Len(ids)] ==
            IF n = 0 THEN q ELSE Remove1(left[n - 1], ids[n])
    IN  left[Len(ids)]

(* ncmpi_cancel with an array of IDs: it goes on after an invalid one. *)
Cancel(ids) ==
    LET refused == Asked(ids) \ (Ids(put) \cup Ids(get))
        gone == {l \in Leads(put) : l.id \in Asked(ids)}
    IN  /\ put' = RemoveEach(put, ids)
        /\ get' = RemoveEach(get, ids)
        /\ abuf' = Reclaim(abuf, gone)
        /\ last' = [Quiet EXCEPT !.refused = refused, !.error = refused # {}]
        /\ UNCHANGED numrecs

(* A queue whose lists are freed; the largest ID stays. *)
Emptied(q) == [lead |-> <<>>, list |-> <<>>, max |-> q.max]

(* NC_REQ_ALL, NC_PUT_REQ_ALL or NC_GET_REQ_ALL. *)
CancelAll(sides) ==
    /\ put' = IF "put" \in sides THEN Emptied(put) ELSE put
    /\ get' = IF "get" \in sides THEN Emptied(get) ELSE get
    /\ abuf' = IF "put" \in sides /\ abuf.size > 0
               THEN [abuf EXCEPT !.used = 0, !.table = <<>>] ELSE abuf
    /\ last' = Quiet
    /\ UNCHANGED numrecs

-----------------------------------------------------------------------------
(***************************************************************************)
(* The arrays the application passes: IDs of pending requests in any       *)
(* order, each at most once.  Without the habit "subset" an array names    *)
(* all pending puts or none; with "null" NC_REQ_NULL, the ID of a request  *)
(* of zero size, may be among them, with "unknown" an ID that is not       *)
(* pending.  The habit "varn" is to post varn requests whose subrequests   *)
(* are of several records.                                                 *)
(***************************************************************************)
Unknown == (MaxId + 1) + ((MaxId + 1) % 2)

Pending == Ids(put) \cup Ids(get)

Orders == {ids \in SeqOf(Pending, MaxPending) :
             /\ IsInjective(ids)
             /\ \/ "subset" \in Habits
                \/ Ids(put) \subseteq ToSet(ids)
                \/ Ids(put) \cap ToSet(ids) = {}}

Extras == (IF "null" \in Habits THEN {NullId} ELSE {})
            \cup (IF "unknown" \in Habits THEN {Unknown} ELSE {})

Around(ids) == {<<x>> \o ids : x \in Extras} \cup {Append(ids, x) : x \in Extras}

Arrays == {ids \in Orders : ids # <<>>} \cup UNION {Around(ids) : ids \in Orders}

Sides == {{"put"}, {"get"}, {"put", "get"}}

Next == \/ IPut \/ IGet \/ BPut \/ BufferAttach \/ BufferDetach
        \/ \E sides \in Sides : WaitAll(sides) \/ CancelAll(sides)
        \/ \E ids \in Arrays : \/ Cancel(ids)
                               \/ \E statuses \in BOOLEAN :
                                    \/ WaitCounted(ids, statuses)
                                    \/ WaitNamed(ids, statuses)

Spec == Init /\ [][Next]_vars

-----------------------------------------------------------------------------
QueueType(q, parity) ==
    /\ q.lead \in Seq(Lead)
    /\ q.list \in Seq(Entry)
    /\ q.max \in 0 .. MaxId
    /\ \A i \in DOMAIN q.lead : q.lead[i].id % 2 = parity

(* Types of the variables; put IDs are even, get IDs odd. *)
TypeOK ==
    /\ QueueType(put, 0)
    /\ QueueType(get, 1)
    /\ abuf \in [size : 0 .. MaxBuffer, used : 0 .. MaxBuffer,
                 table : Seq([num : 1 .. MaxNum, used : BOOLEAN])]
    /\ numrecs \in 0 .. MaxRecs

(***************************************************************************)
(* The two lists of a queue fit: the entries of a lead are its own, they   *)
(* point back at it, and every entry is some lead's.                       *)
(***************************************************************************)
End(q, i) == IF i = 0 THEN 0 ELSE q.lead[i].off + q.lead[i].num

Fits(q) ==
    /\ \A i \in DOMAIN q.lead :
         /\ q.lead[i].off = End(q, i - 1)
         /\ \A k \in q.lead[i].off + 1 .. End(q, i) :
              /\ k \in DOMAIN q.list
              /\ q.list[k].lead = i
              /\ q.list[k].owner = q.lead[i].id
    /\ Len(q.list) = End(q, Len(q.lead))

(* After any sequence of calls both queues fit. *)
QueuesFit == Fits(put) /\ Fits(get)

(***************************************************************************)
(* "each non-lead request accesses one record only": the entries of a lead *)
(* transfer its data record by record, in order.                           *)
(***************************************************************************)
RecordPerEntry ==
    \A q \in {put, get} : \A i \in DOMAIN q.lead : \A k \in 1 .. q.lead[i].num :
        LET entry == q.list[q.lead[i].off + k]
        IN  entry.from = k - 1 /\ entry.recs = 1

Region(l) == l.at + 1 .. l.at + l.num

(***************************************************************************)
(* The data of pending bput requests is in the attached buffer, in the     *)
(* part in use, and no two requests share a byte of it.                    *)
(***************************************************************************)
BuffersDisjoint ==
    \A l \in Leads(put) : l.buf > 0 =>
        /\ Region(l) \subseteq 1 .. abuf.used
        /\ abuf.used <= abuf.size
        /\ \A m \in Leads(put) \ {l} : m.buf > 0 => Region(l) \cap Region(m) = {}

(* When no bput request is pending the whole attached buffer is free. *)
BufferReclaimed ==
    (\A l \in Leads(put) : l.buf = 0) => abuf.used = 0 /\ abuf.table = <<>>

Moved(done) == {m.id : m \in done.moved}

(* A wait transfers the requests it was asked to complete and no others. *)
ExactlyAsked == last.refused = {} => Moved(last) = last.asked

(***************************************************************************)
(* "scan all requests to find the maximum number of records": the count    *)
(* covers the records of every put request that left the queue in a wait.  *)
(***************************************************************************)
NumrecsCovers ==
    [][\A l \in Leads(put) : l.id \in Moved(last') => numrecs' >= l.max]_vars

(***************************************************************************)
(* The same of a wait that names every pending put: also when its transfer *)
(* fails, and whatever gets it names.                                      *)
(***************************************************************************)
WholeWaitCounted ==
    [][Ids(put) \subseteq last'.asked
         => \A l \in Leads(put) :
              l.id \in Moved(last') => numrecs' >= l.max]_vars

(* An ID refused as an "invalid nonblocking request ID" is not pending. *)
RefusedNotPending == last.refused \cap (Ids(put) \cup Ids(get)) = {}

(* "retain the first error status": a failed transfer is reported. *)
FailureReported == last.failed # {} => last.error

(* The status of a request is the element at the place of its ID. *)
StatusInPlace == last.misplaced = {}

(* The queues implement a set of requests. *)
Promise == INSTANCE RequestSet WITH
    pending     <- {[id |-> l.id, num |-> l.num] : l \in Leads(put) \cup Leads(get)},
    transferred <- last.moved

ImplementsRequestSet == Promise!Spec
=============================================================================
