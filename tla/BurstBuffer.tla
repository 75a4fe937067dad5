---------------------------- MODULE BurstBuffer ----------------------------
(***************************************************************************)
(* The ncbbio driver: every rank appends its puts to a log of its own and  *)
(* replays the log into the file, through nonblocking puts of the ncmpio   *)
(* driver, when a call needs the data there.  In collective mode the ranks *)
(* replay together, in a number of rounds they agree on; in independent    *)
(* mode each replays alone.  A nonblocking put has a request object that   *)
(* points to its log entries, and they to it.                              *)
(*                                                                         *)
(* A put writes a sequence of cells of the file; its data is its number,   *)
(* once for each cell, so that a misplaced read of the data log shows as a *)
(* wrong number in the file.  A collective call is begun by all ranks in   *)
(* one step; the steps before its first collective operation touch only    *)
(* their own rank.  What the ncmpio driver does after the flush is one     *)
(* collective step, "driver".                                              *)
(***************************************************************************)
EXTENDS Integers, FiniteSets, SequencesExt

CONSTANTS
    Rank,         \* the processes that have the file open
    Cells,        \* the file has cells 1 .. Cells
    MaxPuts,      \* bound: puts made by all ranks together
    PoolSize,     \* request objects allocated at first (128 in the code)
    FlushBuffer,  \* hint nc_burst_buf_flush_buffer_size; 0 is no limit
    Shapes,       \* the cells of a put_var: sequences
    VarnShapes,   \* the cells of a put_varn
    Ops,          \* the flushing calls the application makes
    RedefIndep,   \* redef may be called in independent mode
    MixedForms,   \* one rank may wait for NC_PUT_REQ_ALL, another for an array
    Faults        \* "range": a put may hold a value its variable cannot;
                  \* "read": reading the data log may fail

ASSUME BoundAssumption ==
    /\ Cells \in Nat \ {0} /\ MaxPuts \in Nat
    /\ PoolSize \in Nat \ {0} /\ FlushBuffer \in Nat
    /\ \A s \in Shapes \cup VarnShapes : s \in Seq(1 .. Cells)
ASSUME ChoiceAssumption ==
    /\ Ops \subseteq {"get", "sync", "flush", "wait", "redef", "close", "abort"}
    /\ RedefIndep \in BOOLEAN /\ MixedForms \in BOOLEAN
    /\ Faults \subseteq {"range", "read"}

VARIABLES
    mode,     \* "coll", "indep", "def" or "closed": that of the ncmpio driver
    indep,    \* NC_MODE_INDEP in the flag of the NC_bb objects
    log,      \* log[r]: the metadata log, its index and its data sizes
    data,     \* data[r]: cells of the data log, up to its descriptor
    biggest,  \* maxentrysize
    putlist,  \* putlist[r]: the request objects
    job,      \* job[r]: the call r is in, and where in it
    file,     \* the file: the put whose data each cell holds, 0 for none
    posted    \* the number of puts made so far

vars == <<mode, indep, log, data, biggest, putlist, job, file, posted>>

Entry == [put : 1 .. MaxPuts, cells : Shapes \cup VarnShapes, bad : BOOLEAN,
          valid : BOOLEAN, reqid : Int]

Size(e) == Len(e.cells)

Object == [valid : BOOLEAN, ready : BOOLEAN, first : Nat, last : Nat]

Unused == [valid |-> FALSE, ready |-> FALSE, first |-> 1, last |-> 0]

Steps == {"reduce", "rounds", "reset", "handle", "driver"}

Idle == [op |-> "none", steps |-> <<>>, left |-> 0, next |-> 1, ids |-> {},
         ok |-> TRUE]

InCall(r) == job[r].steps # <<>>

At(r, step) == InCall(r) /\ Head(job[r].steps) = step

Advance(j) == IF Len(j.steps) = 1 THEN Idle ELSE [j EXCEPT !.steps = Tail(@)]

-----------------------------------------------------------------------------
(* The request objects.  ids[1 .. nused] is in use, ids[nused + 1] is next. *)
EmptyList == [ids |-> [i \in 1 .. PoolSize |-> i - 1], nused |-> 0,
              reqs |-> [i \in 0 .. PoolSize - 1 |-> Unused]]

Nalloc(l) == Len(l.ids)

Issued(l) == {id \in 0 .. Nalloc(l) - 1 : l.reqs[id].valid}

(* Mutant of Resize: the new ids are numbered from 0 again. *)
ResizeFromZero(l) ==
    [l EXCEPT !.ids = @ \o [i \in 1 .. Nalloc(l) |-> i - 1],
              !.reqs = [id \in 0 .. 2 * Nalloc(l) - 1 |->
                          IF id < Nalloc(l) THEN l.reqs[id] ELSE Unused]]

Resize(l) ==
    [l EXCEPT !.ids = @ \o [i \in 1 .. Nalloc(l) |-> Nalloc(l) + i - 1],
              !.reqs = [id \in 0 .. 2 * Nalloc(l) - 1 |->
                          IF id < Nalloc(l) THEN l.reqs[id] ELSE Unused]]

(* ncbbio_put_list_add, with the entries first .. last of the log. *)
Add(l, id, first, last) ==
    LET room == IF l.nused = Nalloc(l) THEN Resize(l) ELSE l
    IN  [room EXCEPT !.nused = @ + 1,
                     !.reqs[id] = [valid |-> TRUE, ready |-> first > last,
                                   first |-> first, last |-> last]]

NextId(l) == (IF l.nused = Nalloc(l) THEN Resize(l) ELSE l).ids[l.nused + 1]

Recycle(l, id) ==
    [l EXCEPT !.reqs[id].valid = FALSE, !.nused = @ - 1, !.ids[l.nused] = id]

(* The requests of S are recycled in the order of the caller's array. *)
RecycleAll(l, order) ==
    LET left[i \in 0 .. Len(order)] ==
            IF i = 0 THEN l ELSE Recycle(left[i - 1], order[i])
    IN  left[Len(order)]

-----------------------------------------------------------------------------
(* Sums(s, F)[i] is the sum of F over the first i elements of s. *)
Sums(s, F(_)) ==
    LET to[i \in 0 .. Len(s)] == IF i = 0 THEN 0 ELSE to[i - 1] + F(s[i])
    IN  to

(* The log.  Sizes count in cells; a cancelled entry keeps its data. *)
BufferSize(r) ==
    LET total  == Len(data[r])
        wanted == IF FlushBuffer > 0 /\ total > FlushBuffer THEN FlushBuffer ELSE total
    IN  IF wanted < biggest[r] THEN biggest[r] ELSE wanted

CountFrom == [rounds |-> 1, used |-> 0]

(* The number of rounds r asks for, counted before the replay. *)
Rounds(r) ==
    LET count[i \in 0 .. Len(log[r])] ==
            IF i = 0 THEN CountFrom
            ELSE LET n == count[i - 1]
                     e == log[r][i]
                 IN  IF ~e.valid THEN n
                     ELSE IF Size(e) + n.used > BufferSize(r)
                     THEN [rounds |-> n.rounds + 1, used |-> Size(e)]
                     ELSE [n EXCEPT !.used = @ + Size(e)]
    IN  count[Len(log[r])].rounds

(***************************************************************************)
(* The last entry of the batch that begins with entry lb: the first valid  *)
(* one that does not fit ends it.                                          *)
(***************************************************************************)
BatchEnd(r, lb) ==
    LET used == Sums(log[r], LAMBDA e : IF e.valid THEN Size(e) ELSE 0)
    IN  Max({ub \in lb - 1 .. Len(log[r]) : used[ub] - used[lb - 1] <= BufferSize(r)})

(* The entries of the next batch; lb = ub + 1 when all are replayed. *)
Batch(r) == IF job[r].next > Len(log[r]) THEN {}
            ELSE job[r].next .. BatchEnd(r, job[r].next)

Valid(r) == {i \in Batch(r) : log[r][i].valid}

Unit(r, i) == IF i \in 1 .. Len(data[r]) THEN data[r][i] ELSE 0

(* Mutant of Passed: the data of a cancelled entry is not skipped. *)
PassedNoSeek(e) == IF e.valid THEN Size(e) ELSE 0

(* How far the descriptor of the data log moves over an entry. *)
Passed(e) == Size(e)

(***************************************************************************)
(* The data log is read from its start, entry after entry; what is read    *)
(* for a valid entry goes to its cells: pairs of a cell and its new value. *)
(***************************************************************************)
Replayed(r) ==
    LET before == Sums(log[r], Passed)
    IN  UNION {{<<log[r][i].cells[k], Unit(r, before[i - 1] + k)>> :
                   k \in 1 .. Size(log[r][i])} : i \in Valid(r)}

-----------------------------------------------------------------------------
Init ==
    /\ mode = "coll" /\ indep = FALSE
    /\ log = [r \in Rank |-> <<>>]
    /\ data = [r \in Rank |-> <<>>]
    /\ biggest = [r \in Rank |-> 0]
    /\ putlist = [r \in Rank |-> EmptyList]
    /\ job = [r \in Rank |-> Idle]
    /\ file = [c \in 1 .. Cells |-> 0]
    /\ posted = 0

(* The entry of a put goes to the end of the log, its data to the data log. *)
LogPut(r, cells, reqid) ==
    /\ posted < MaxPuts
    /\ posted' = posted + 1
    /\ \E bad \in IF "range" \in Faults THEN BOOLEAN ELSE {FALSE} :
          log' = [log EXCEPT ![r] = Append(@,
                    [put |-> posted + 1, cells |-> cells, bad |-> bad,
                     valid |-> TRUE, reqid |-> reqid])]
    /\ data' = [data EXCEPT ![r] = @ \o [k \in DOMAIN cells |-> posted + 1]]
    /\ biggest' = [biggest EXCEPT ![r] = IF @ < Len(cells) THEN Len(cells) ELSE @]

Blocking(r) == mode \in {"coll", "indep"} /\ ~InCall(r)

(* A blocking put; one of no cells is not logged and changes nothing. *)
PutVar(r, cells) ==
    /\ Blocking(r) /\ cells # <<>>
    /\ LogPut(r, cells, -1)
    /\ UNCHANGED <<mode, indep, putlist, job, file>>

(* put_varn logs one entry, of no cells too. *)
PutVarn(r, cells) ==
    /\ Blocking(r)
    /\ LogPut(r, cells, -1)
    /\ UNCHANGED <<mode, indep, putlist, job, file>>

NonBlocking(r) == mode # "closed" /\ ~InCall(r)

(* iput_varn, in define mode too: the request is linked to the new entry. *)
IPutVarn(r, cells) ==
    /\ NonBlocking(r)
    /\ LET id   == NextId(putlist[r])
           here == Len(log[r]) + 1
       IN  /\ putlist' = [putlist EXCEPT ![r] = Add(@, id, here, here)]
           /\ LogPut(r, cells, id)
    /\ UNCHANGED <<mode, indep, job, file>>

(* iput_var and bput_var; the request of a put of no cells is ready at once. *)
IPutVar(r, cells) ==
    \/ cells # <<>> /\ IPutVarn(r, cells)
    \/ /\ NonBlocking(r) /\ cells = <<>>
       /\ posted < MaxPuts
       /\ posted' = posted + 1
       /\ LET here == Len(log[r]) + 1
          IN  putlist' = [putlist EXCEPT ![r] = Add(@, NextId(@), here, here - 1)]
       /\ UNCHANGED <<mode, indep, log, data, biggest, job, file>>

Cancelled(r, req) ==
    [i \in 1 .. Len(log[r]) |->
        IF i \in req.first .. req.last
        THEN [log[r][i] EXCEPT !.valid = FALSE] ELSE log[r][i]]

(* The entries of a request are cancelled unless they have been replayed. *)
CancelPutReq(r, id) ==
    /\ mode # "closed" /\ ~InCall(r)
    /\ id \in Issued(putlist[r])
    /\ log' = IF putlist[r].reqs[id].ready THEN log
              ELSE [log EXCEPT ![r] = Cancelled(r, putlist[r].reqs[id])]
    /\ putlist' = [putlist EXCEPT ![r] = Recycle(@, id)]
    /\ UNCHANGED <<mode, indep, data, biggest, job, file, posted>>

-----------------------------------------------------------------------------
When(flag, steps) == IF flag THEN steps ELSE <<>>

(* Mutant of Replay: a rank with an empty log takes part in no replay. *)
ReplayOwnOnly(r) == When(log[r] # <<>>, <<"reduce", "rounds">>)

(* Nothing to replay: only in collective mode does a rank still take part. *)
Replay(r) == When(~indep \/ log[r] # <<>>, <<"reduce", "rounds">>)

Flush(r) == Replay(r) \o When(Replay(r) # <<>>, <<"reset">>)

GetSteps(r) == Flush(r) \o When(mode # "indep", <<"driver">>)

SyncSteps(r) == Flush(r) \o <<"driver">>

FlushSteps(r) == Flush(r)

RedefSteps(r) == Flush(r) \o <<"driver">>

CloseSteps(r) == Replay(r) \o <<"driver">>

(* Nothing is replayed in define mode. *)
AbortSteps(r) == When(mode # "def", Replay(r)) \o <<"driver">>

(* Mutant of WaitSteps: a rank whose array is empty skips the driver. *)
WaitStepsNoIds(r, w) == Flush(r) \o <<"handle">> \o When(w.ids # {}, <<"driver">>)

(***************************************************************************)
(* NC_PUT_REQ_ALL never reaches the driver's wait; an array of put IDs     *)
(* does in collective mode, with no get in it.                             *)
(***************************************************************************)
WaitSteps(r, w) ==
    Flush(r) \o <<"handle">> \o When(~w.putAll /\ ~indep, <<"driver">>)

CallSteps(r, op, w) ==
    CASE op = "get"   -> GetSteps(r)
      [] op = "sync"  -> SyncSteps(r)
      [] op = "flush" -> FlushSteps(r)
      [] op = "redef" -> RedefSteps(r)
      [] op = "wait"  -> WaitSteps(r, w)
      [] op = "close" -> CloseSteps(r)
      [] op = "abort" -> AbortSteps(r)

Call(r, op, w) ==
    LET steps == CallSteps(r, op, w)
    IN  IF steps = <<>> THEN Idle
        ELSE [Idle EXCEPT !.op = op, !.steps = steps, !.ids = w.ids]

(***************************************************************************)
(* The ways r may name put requests in a wait.  NC_REQ_ALL is like an      *)
(* array of all of them.                                                   *)
(***************************************************************************)
Waits(r) == {[putAll |-> FALSE, ids |-> S] : S \in SUBSET Issued(putlist[r])}
               \cup {[putAll |-> TRUE, ids |-> Issued(putlist[r])]}

Forms(op, r) == IF op = "wait" THEN Waits(r) ELSE {[putAll |-> FALSE, ids |-> {}]}

(* The calls a mode allows; in define mode the driver refuses the wait. *)
Legal(op) ==
    /\ op \in Ops
    /\ \/ mode = "coll"
       \/ mode = "indep" /\ op \in {"sync", "close", "abort"}
       \/ mode = "indep" /\ op = "redef" /\ RedefIndep
       \/ mode = "def" /\ op \in {"wait", "close", "abort"}

(* All ranks make a collective call, each with its own requests. *)
CollectiveCall(op) ==
    /\ Legal(op)
    /\ \A r \in Rank : ~InCall(r)
    /\ \E w \in [Rank -> UNION {Forms(op, r) : r \in Rank}] :
          /\ \A r \in Rank : w[r] \in Forms(op, r)
          /\ \/ MixedForms
             \/ \A q, r \in Rank : w[q].putAll = w[r].putAll
          /\ job' = [r \in Rank |-> Call(r, op, w[r])]
    /\ UNCHANGED <<mode, indep, log, data, biggest, putlist, file, posted>>

(* In independent mode a rank reads, flushes and waits by itself. *)
IndependentCall(r, op) ==
    /\ mode = "indep" /\ ~InCall(r)
    /\ op \in Ops \cap {"get", "flush", "wait"}
    /\ \E w \in Forms(op, r) : job' = [job EXCEPT ![r] = Call(r, op, w)]
    /\ UNCHANGED <<mode, indep, log, data, biggest, putlist, file, posted>>

(* The calls that change the mode and move no data of the log. *)
SwitchMode(from, to, flag) ==
    /\ mode = from /\ \A r \in Rank : ~InCall(r)
    /\ mode' = to /\ indep' = flag
    /\ UNCHANGED <<log, data, biggest, putlist, job, file, posted>>

BeginIndepData == SwitchMode("coll", "indep", TRUE)
EndIndepData   == SwitchMode("indep", "coll", FALSE)
EndDef         == SwitchMode("def", "coll", indep)

(* The file is opened again: the driver starts with empty logs. *)
Open ==
    /\ mode = "closed" /\ \A r \in Rank : ~InCall(r)
    /\ mode' = "coll" /\ indep' = FALSE
    /\ UNCHANGED <<log, data, biggest, putlist, job, file, posted>>

-----------------------------------------------------------------------------
(* The ranks that replay with r: all of them unless the flag is set. *)
Partners(r) == IF indep THEN {r} ELSE Rank

(***************************************************************************)
(* The ncmpio driver refuses a wait in define mode, and an independent one *)
(* outside independent mode: the requests of the round are not written.    *)
(***************************************************************************)
Refused == mode = "def" \/ (indep /\ mode # "indep")

Together(R, step) == \A q \in R : At(q, step)

(* MPI_Allreduce(MPI_MAX) of the numbers of rounds. *)
Reduce(r) ==
    LET R == Partners(r)
    IN  /\ Together(R, "reduce")
        /\ job' = [q \in Rank |->
                     IF q \notin R THEN job[q]
                     ELSE Advance([job[q] EXCEPT
                             !.left = Max({Rounds(p) : p \in R})])]
        /\ UNCHANGED <<mode, indep, log, data, biggest, putlist, file, posted>>

(* After a round: the next entry, and out of the loops when both are done. *)
AfterRound(q) ==
    LET next == job[q].next + Cardinality(Batch(q))
        left == job[q].left - 1
        good == ~Refused /\ \A i \in Valid(q) : ~log[q][i].bad
        j    == [job[q] EXCEPT !.next = next, !.left = left, !.ok = @ /\ good]
    IN  IF next > Len(log[q]) /\ left = 0 THEN Advance(j) ELSE j

(* Mutant of Replayers: only the first entry of a batch reports its status. *)
ReplayersFirst(q) == {log[q][i].reqid : i \in Valid(q) \cap {job[q].next}}

Replayers(q) == {log[q][i].reqid : i \in Valid(q)}

(* The requests whose entries have been replayed become ready. *)
Ready(q) ==
    LET ids == Replayers(q)
        l   == putlist[q]
    IN  [l EXCEPT !.reqs = [id \in DOMAIN l.reqs |->
                              [l.reqs[id] EXCEPT !.ready = @ \/ id \in ids]]]

(* Two values for one cell in one round: either may be left in the file. *)
WriteCells(R) ==
    LET cells == UNION {Replayed(q) : q \in R}
        Values(c) == {v \in 0 .. MaxPuts : <<c, v>> \in cells}
    IN  \E f \in [1 .. Cells -> 0 .. MaxPuts] :
          /\ \A c \in 1 .. Cells :
                f[c] \in IF Values(c) = {} THEN {file[c]} ELSE Values(c)
          /\ file' = f

(***************************************************************************)
(* One round: each rank reads a batch of its log, posts it to the ncmpio   *)
(* driver and waits; a rank whose entries are all replayed waits with      *)
(* none.  Entries of a refused wait are taken for replayed.  A rank that   *)
(* cannot read its data log returns before the wait.                       *)
(***************************************************************************)
Round(r) ==
    LET R == Partners(r)
    IN  /\ Together(R, "rounds")
        /\ \E failed \in IF "read" \in Faults THEN SUBSET R ELSE {{}} :
              IF failed = {}
              THEN /\ job' = [q \in Rank |-> IF q \in R THEN AfterRound(q) ELSE job[q]]
                   /\ putlist' = [q \in Rank |-> IF q \in R THEN Ready(q) ELSE putlist[q]]
                   /\ IF Refused THEN UNCHANGED file ELSE WriteCells(R)
              ELSE /\ job' = [q \in Rank |->
                                IF q \notin failed THEN job[q]
                                ELSE Advance([job[q] EXCEPT !.ok = FALSE])]
                   /\ UNCHANGED <<putlist, file>>
        /\ UNCHANGED <<mode, indep, log, data, biggest, posted>>

(***************************************************************************)
(* The end of ncbbio_log_flush: no entries, and the data log rewound.      *)
(* sync and redef then return if the replay gave this rank an error.       *)
(***************************************************************************)
Reset(r) ==
    /\ At(r, "reset")
    /\ log' = [log EXCEPT ![r] = <<>>]
    /\ data' = [data EXCEPT ![r] = <<>>]
    /\ job' = [job EXCEPT ![r] =
                 IF ~@.ok /\ @.op \in {"sync", "redef"} THEN Idle
                 ELSE Advance([@ EXCEPT !.next = 1])]
    /\ UNCHANGED <<mode, indep, biggest, putlist, file, posted>>

(* The put requests of a wait are recycled, in the order of its array. *)
Handle(r) ==
    /\ At(r, "handle")
    /\ \E order \in SetToSeqs(job[r].ids) :
          putlist' = [putlist EXCEPT ![r] = RecycleAll(@, order)]
    /\ job' = [job EXCEPT ![r] = Advance(@)]
    /\ UNCHANGED <<mode, indep, log, data, biggest, file, posted>>

(* What the ncmpio driver does, all ranks; closing the file drops the logs. *)
Driver(r) ==
    LET op == job[r].op
    IN  /\ Together(Rank, "driver")
        /\ job' = [q \in Rank |-> Advance(job[q])]
        /\ mode' = CASE op = "redef" -> "def"
                     [] op \in {"close", "abort"} -> "closed"
                     [] OTHER -> mode
        /\ IF op \in {"close", "abort"}
           THEN /\ log' = [q \in Rank |-> <<>>]
                /\ data' = [q \in Rank |-> <<>>]
                /\ biggest' = [q \in Rank |-> 0]
                /\ putlist' = [q \in Rank |-> EmptyList]
           ELSE UNCHANGED <<log, data, biggest, putlist>>
        /\ UNCHANGED <<indep, file, posted>>

Step(r) == Reduce(r) \/ Round(r) \/ Reset(r) \/ Handle(r) \/ Driver(r)

Next ==
    \/ \E r \in Rank :
          \/ \E s \in Shapes : PutVar(r, s) \/ IPutVar(r, s)
          \/ \E s \in VarnShapes : PutVarn(r, s) \/ IPutVarn(r, s)
          \/ \E id \in Issued(putlist[r]) : CancelPutReq(r, id)
          \/ \E op \in Ops : IndependentCall(r, op)
          \/ Step(r)
    \/ \E op \in Ops : CollectiveCall(op)
    \/ BeginIndepData \/ EndIndepData \/ EndDef
    \/ Open

Spec == Init /\ [][Next]_vars

(* MPI makes progress: a call that can go on does. *)
FairSpec == Spec /\ \A r \in Rank : WF_vars(Step(r))

-----------------------------------------------------------------------------
(***************************************************************************)
(* "Unique ids": an ID is in use or free, never both or twice, after any   *)
(* order of waits and cancels; and a request that is not ready owns the    *)
(* log entries that name it, none of them cancelled.                       *)
(***************************************************************************)
PutListConsistent ==
    \A r \in Rank :
       LET l == putlist[r]
       IN  /\ {l.ids[i] : i \in l.nused + 1 .. Nalloc(l)}
                = (0 .. Nalloc(l) - 1) \ Issued(l)
           /\ Cardinality(Issued(l)) = l.nused
           /\ \A id \in Issued(l) :
                 l.reqs[id].ready
                 \/ \A i \in l.reqs[id].first .. l.reqs[id].last :
                       /\ i \in job[r].next .. Len(log[r])
                       /\ log[r][i].valid /\ log[r][i].reqid = id

(* The variables keep their types, and the put list its two halves. *)
TypeOK ==
    /\ mode \in {"coll", "indep", "def", "closed"} /\ indep \in BOOLEAN
    /\ \A r \in Rank :
          /\ \A i \in DOMAIN log[r] : log[r][i] \in Entry
          /\ \A i \in DOMAIN data[r] : data[r][i] \in 1 .. MaxPuts
          /\ biggest[r] \in Nat
          /\ \A id \in DOMAIN putlist[r].reqs : putlist[r].reqs[id] \in Object
          /\ job[r].left \in 0 .. MaxPuts + 1
          /\ \A i \in DOMAIN job[r].steps : job[r].steps[i] \in Steps
    /\ file \in [1 .. Cells -> 0 .. MaxPuts]
    /\ posted \in 0 .. MaxPuts
    /\ PutListConsistent

(* "This should never happen": a wait finds a request not in the log file. *)
NeverAborts ==
    \A r \in Rank : At(r, "handle") =>
        \A id \in job[r].ids \cap Issued(putlist[r]) : putlist[r].reqs[id].ready

Meets(r) == \/ At(r, "driver")
            \/ ~indep /\ (At(r, "reduce") \/ At(r, "rounds"))

(***************************************************************************)
(* Collective operations match: no rank waits in one while another has     *)
(* returned from the call or waits in a different one.                     *)
(***************************************************************************)
CollectivesMatch ==
    \A q, r \in Rank :
        Meets(q) => /\ InCall(r)
                    /\ Meets(r) => Head(job[q].steps) = Head(job[r].steps)

(* The puts of log g from entry k on. *)
Item(e) == [put |-> e.put, cells |-> ToSet(e.cells)]

Items(g, k) == {Item(g[i]) : i \in {i \in k .. Len(g) : g[i].valid}}

Pending == [r \in Rank |-> Items(log[r], job[r].next)]

Busy == [r \in Rank |-> InCall(r)]

Promise == INSTANCE LogPromise WITH
    pending <- Pending, busy <- Busy, defining <- mode = "def"

(***************************************************************************)
(* The logs implement the promise: no put is lost, written twice, written  *)
(* with another put's data, or written before an earlier one of its rank,  *)
(* and none is pending when a call that flushes returns.                   *)
(***************************************************************************)
ImplementsLogPromise == Promise!Spec

(* Every call that flushes returns. *)
FlushEnds == \A r \in Rank : InCall(r) ~> ~InCall(r)
=============================================================================
