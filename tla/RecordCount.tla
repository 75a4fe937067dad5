---------------------------- MODULE RecordCount ----------------------------
(***************************************************************************)
(* The number of records of a file opened by several MPI processes, as the *)
(* ncmpio driver keeps it: numrecs in the memory of every rank, and the    *)
(* numrecs field of the file header, which only the root rank writes.      *)
(*                                                                         *)
(* Every API that can change either copy is here: the collective and the   *)
(* independent put and wait, fill_var_rec, begin/end_indep_data,           *)
(* sync_numrecs, sync, the calls that rewrite the header in data mode      *)
(* (rename, put_att), redef, enddef, close, abort and open.  A call is the *)
(* sequence of steps the source takes, in its order; the steps that are    *)
(* collective MPI operations are taken by all ranks together, the others   *)
(* by one rank at a time, so ranks may be in different calls.              *)
(*                                                                         *)
(* MPI I/O on the variable's data (set_view, write_at_all, File_sync) has  *)
(* no step of its own: MPI does not promise that it synchronises.          *)
(***************************************************************************)
EXTENDS Naturals, Sequences, FiniteSets

CONSTANTS
    Rank,         \* the processes of the communicator of the file
    Root,         \* rank 0 of that communicator
    MaxRecs,      \* bound: no call writes a record numbered MaxRecs or more
    MaxAhead,     \* bound: collective calls one rank may make before another
    Ops,          \* the collective APIs the application calls
    Share,        \* the file is open with NC_SHARE
    SafeMode,     \* PNETCDF_SAFE_MODE is on
    BadArgs,      \* a rank may call put_all or wait_all with a bad argument
    ZeroCount,    \* put_all may be called with count[0] = 0
    PartialWaits, \* a wait may name a part of the pending puts only
    WaitFails,    \* the data write of a wait may fail at some ranks
    FillFails,    \* the data write of fill_var_rec may fail at some ranks
    Faults,       \* how MPI_File_write_at of the header field may fail
    HeaderLimit   \* the largest count the header field of the format holds

ASSUME RankAssumption  == Root \in Rank
ASSUME BoundAssumption == /\ MaxRecs \in Nat
                          /\ MaxAhead \in Nat
                          /\ HeaderLimit \in Nat
ASSUME FlagAssumption  == /\ Share \in BOOLEAN
                          /\ SafeMode \in BOOLEAN
                          /\ BadArgs \in BOOLEAN
                          /\ ZeroCount \in BOOLEAN
                          /\ PartialWaits \in BOOLEAN
                          /\ WaitFails \in BOOLEAN
                          /\ FillFails \in BOOLEAN
                          /\ Faults \subseteq {"ewrite", "unreported"}

Count == 0 .. MaxRecs

AllOps == {"put_all", "fill_rec", "wait_all", "begin_indep", "end_indep",
           "sync_numrecs", "sync", "rename", "redef", "enddef", "close",
           "abort"}

ASSUME OpsAssumption == Ops \subseteq AllOps

(***************************************************************************)
(* The steps of a call.  agree, reduce, vote and barrier are collective.   *)
(***************************************************************************)
Meeting == {"agree", "reduce", "vote", "barrier"}

Step == Meeting \cup {"grow", "publish", "bcast", "adopt", "check", "header",
                      "leave", "define", "enddef", "discard", "close"}

VARIABLES
    mode,     \* mode[r]: "coll", "indep", "def" or "closed": r's NC flags
    numrecs,  \* numrecs[r]: ncp->numrecs of rank r
    dirty,    \* dirty[r]: r's NC_NDIRTY bit
    fileNum,  \* numrecs in the header of the file
    call,     \* call[r]: the collective call r is in
    todo,     \* todo[r]: the collective calls others have made and r has not
    mail,     \* mail[r]: status broadcasts of the root r has not received
    written,  \* history: one more than the last record anyone wrote
    told      \* history: the root got an error from the last header write

vars == <<mode, numrecs, dirty, fileNum, call, todo, mail, written, told>>

(***************************************************************************)
(* call[r].give is what r contributes to the reduction of the call, .got   *)
(* the result, .wrote the record count of r's own data, .status r's error. *)
(***************************************************************************)
Idle == [steps |-> <<>>, give |-> 0, got |-> 0, wrote |-> 0, status |-> "ok"]

Status == {"ok", "ewrite", "error"}

Call == [steps : Seq(Step), give : Count, got : Count, wrote : Count,
         status : Status]

Failed(r) == call[r].status # "ok"

InCall(r) == call[r].steps # <<>>

At(r, step) == InCall(r) /\ Head(call[r].steps) = step

Advance(c) == IF Len(c.steps) = 1 THEN Idle ELSE [c EXCEPT !.steps = Tail(@)]

-----------------------------------------------------------------------------
(***************************************************************************)
(* The steps of each API, from the mode it is called in.                   *)
(***************************************************************************)
When(flag, steps) == IF flag THEN steps ELSE <<>>

AfterSync == When(Share, <<"barrier">>)     \* MPI_File_sync and MPI_Barrier

(* Mutant of GrowSteps: no MPI_File_sync and barrier after the header write. *)
GrowStepsNoSync(first, grow) == <<first, grow>>

GrowSteps(first, grow) == <<first, grow>> \o AfterSync

(* Mutant of SyncNumrecs: only the ranks whose dirty bit is set take part. *)
SyncNumrecsIfDirty(r) ==
    When(dirty[r], <<"reduce">> \o When(r = Root, <<"publish">>)
                      \o When(SafeMode, <<"bcast">>) \o <<"adopt">> \o AfterSync)

SyncNumrecs(r) == <<"reduce">> \o When(r = Root, <<"publish">>)
                     \o When(SafeMode, <<"bcast">>) \o <<"adopt">> \o AfterSync

(* Mutant of EndIndep: the record count is not synchronised. *)
EndIndepNoSync(r) == AfterSync \o <<"leave">>

EndIndep(r) == SyncNumrecs(r) \o AfterSync \o <<"leave">>

WriteHeader(r) == When(SafeMode, <<"agree">>) \o When(r = Root, <<"header">>)
                     \o When(SafeMode, <<"bcast">>)

EndDef(r) == WriteHeader(r) \o <<"enddef">> \o AfterSync

-----------------------------------------------------------------------------
Init ==
    /\ \E n \in Count :
         /\ n <= HeaderLimit
         /\ fileNum = n
         /\ written = n
         /\ numrecs = [r \in Rank |-> n]
    /\ mode = [r \in Rank |-> "coll"]
    /\ dirty = [r \in Rank |-> FALSE]
    /\ call = [r \in Rank |-> Idle]
    /\ todo = [r \in Rank |-> <<>>]
    /\ mail = [r \in Rank |-> <<>>]
    /\ told = FALSE

(***************************************************************************)
(* The ranks run one program: a rank either makes the next collective call *)
(* some other rank has already made, or is the first to make a new one.    *)
(***************************************************************************)
Follows(r, op) ==
    /\ todo[r] # <<>>
    /\ Head(todo[r]) = op
    /\ todo' = [todo EXCEPT ![r] = Tail(@)]

Leads(r, op) ==
    /\ todo[r] = <<>>
    /\ \A q \in Rank \ {r} : Len(todo[q]) < MaxAhead
    /\ todo' = [q \in Rank |-> IF q = r THEN <<>> ELSE Append(todo[q], op)]

Enter(r, op, steps, give, wrote, status) ==
    /\ op \in Ops
    /\ ~InCall(r)
    /\ Follows(r, op) \/ Leads(r, op)
    /\ call' = [call EXCEPT ![r] =
                  IF steps = <<>> THEN Idle
                  ELSE [steps |-> steps, give |-> give, got |-> 0,
                        wrote |-> wrote, status |-> status]]
    /\ UNCHANGED <<fileNum, mail, written, told>>

(***************************************************************************)
(* A collective put of a record variable up to record n.  A rank with a    *)
(* bad argument shares its error in safe mode; otherwise it only takes     *)
(* part in the data I/O, with nothing to write, and returns.  A rank whose *)
(* write failed contributes its own count to the reduction.                *)
(***************************************************************************)
PutSteps == When(SafeMode, <<"agree">>) \o GrowSteps("reduce", "grow")

(* Mutant of PutAll: a rank whose write failed contributes its records too. *)
PutAllIgnoresStatus(r) ==
    /\ mode[r] = "coll"
    /\ \E n \in 1 .. MaxRecs : \/ Enter(r, "put_all", PutSteps, n, n, "ok")
                             \/ Enter(r, "put_all", PutSteps, n, 0, "ok")
    /\ UNCHANGED <<mode, numrecs, dirty>>

PutAll(r) ==
    /\ mode[r] = "coll"
    /\ \/ \E n \in 1 .. MaxRecs : Enter(r, "put_all", PutSteps, n, n, "ok")
       \/ Enter(r, "put_all", PutSteps, numrecs[r], 0, "ok")
       \/ /\ ZeroCount
          /\ \E n \in Count : Enter(r, "put_all", PutSteps, n, 0, "ok")
       \/ /\ BadArgs
          /\ Enter(r, "put_all", When(SafeMode, PutSteps), 0, 0, "error")
    /\ UNCHANGED <<mode, numrecs, dirty>>

(***************************************************************************)
(* ncmpi_fill_var_rec of record n - 1; no MPI_File_sync ends it.  A rank   *)
(* that fails before the reduction returns at once, also when it is its    *)
(* collective data write that failed.                                      *)
(***************************************************************************)
FillSteps == When(SafeMode, <<"agree">>) \o <<"reduce", "grow">>
FillStepsOf(fails) == IF fails THEN When(SafeMode, <<"agree">>) ELSE FillSteps

FillVarRec(r) ==
    /\ mode[r] = "coll"
    /\ \/ \E n \in 1 .. MaxRecs, fails \in {FALSE, FillFails} :
            Enter(r, "fill_rec", FillStepsOf(fails), n, n, "ok")
       \/ /\ BadArgs
          /\ Enter(r, "fill_rec", When(SafeMode, FillSteps), 0, 0, "error")
    /\ UNCHANGED <<mode, numrecs, dirty>>

(***************************************************************************)
(* A wait for put requests that reach record n; n = 0 when none does.  It  *)
(* counts the records of the marked ones among the first leads of the      *)
(* queue, as many leads as it named: all of them if it named every pending *)
(* put, else perhaps none.  A failed data write does not stop the count.   *)
(***************************************************************************)
Scanned(n) == IF PartialWaits THEN 0 .. n ELSE {n}
Stored(n)  == IF WaitFails THEN {0, n} ELSE {n}

WaitAll(r) ==
    /\ mode[r] = "coll"
    /\ \/ \E n \in Count : \E m \in Scanned(n), w \in Stored(n) :
            Enter(r, "wait_all", GrowSteps("vote", "grow"),
                  IF m > numrecs[r] THEN m ELSE numrecs[r], w, "ok")
       \/ /\ BadArgs
          /\ Enter(r, "wait_all", GrowSteps("vote", "grow"), numrecs[r], 0, "error")
    /\ UNCHANGED <<mode, numrecs, dirty>>

BeginIndepData(r) ==
    /\ mode[r] = "coll"
    /\ Enter(r, "begin_indep", <<>>, 0, 0, "ok")
    /\ mode' = [mode EXCEPT ![r] = "indep"]
    /\ UNCHANGED <<numrecs, dirty>>

(* The calls that leave independent mode or sync in it force the dirty bit. *)
EnterIndep(r, op, steps) ==
    /\ mode[r] = "indep"
    /\ Enter(r, op, steps, numrecs[r], 0, "ok")
    /\ dirty' = [dirty EXCEPT ![r] = TRUE]
    /\ UNCHANGED <<mode, numrecs>>

EndIndepData(r) == EnterIndep(r, "end_indep", EndIndep(r))

SyncNumrecsCall(r) == EnterIndep(r, "sync_numrecs", SyncNumrecs(r))

EnterFrom(m, r, op, steps) ==
    /\ mode[r] = m
    /\ Enter(r, op, steps, 0, 0, "ok")
    /\ UNCHANGED <<mode, numrecs, dirty>>

Sync(r) == \/ EnterFrom("coll", r, "sync", <<"barrier">>)
           \/ EnterIndep(r, "sync", SyncNumrecs(r) \o <<"check", "barrier">>)

Rename(r) == \E m \in {"coll", "indep"} :
                EnterFrom(m, r, "rename", WriteHeader(r) \o AfterSync)

Redef(r) == \/ EnterFrom("coll", r, "redef", <<"define">>)
            \/ EnterIndep(r, "redef", EndIndep(r) \o <<"define">>)

EndDefCall(r) == EnterFrom("def", r, "enddef", EndDef(r))

Close(r) ==
    LET last == AfterSync \o <<"close">>
    IN  \/ EnterFrom("coll", r, "close", last)
        \/ EnterFrom("def", r, "close", EndDef(r) \o last)
        \/ EnterIndep(r, "close", EndIndep(r) \o last)

Abort(r) ==
    LET last == AfterSync \o <<"close">>
    IN  \/ EnterFrom("coll", r, "abort", last)
        \/ EnterFrom("def", r, "abort", <<"discard">> \o last)
        \/ EnterIndep(r, "abort", EndIndep(r) \o last)

MakeCall(r) ==
    \/ PutAll(r) \/ FillVarRec(r) \/ WaitAll(r)
    \/ BeginIndepData(r) \/ EndIndepData(r)
    \/ SyncNumrecsCall(r) \/ Sync(r) \/ Rename(r)
    \/ Redef(r) \/ EndDefCall(r) \/ Close(r) \/ Abort(r)

(***************************************************************************)
(* An independent write of the records up to w that counts those up to m:  *)
(* only the memory of this rank changes.                                   *)
(***************************************************************************)
IndepWrite(r, m, w) ==
    /\ mode[r] = "indep"
    /\ ~InCall(r)
    /\ written' = IF w > written THEN w ELSE written
    /\ numrecs' = [numrecs EXCEPT ![r] = IF m > @ THEN m ELSE @]
    /\ dirty' = [dirty EXCEPT ![r] = @ \/ m > numrecs[r]]
    /\ UNCHANGED <<mode, fileNum, call, todo, mail, told>>

(* Mutant of IndepPut: start + count taken as the last record, not the count. *)
IndepPutOffByOne(r, n) ==
    /\ mode[r] = "indep"
    /\ ~InCall(r)
    /\ written' = IF n > written THEN n ELSE written
    /\ numrecs' = [numrecs EXCEPT ![r] = IF n >= @ THEN n + 1 ELSE @]
    /\ dirty' = [dirty EXCEPT ![r] = @ \/ n > numrecs[r]]
    /\ UNCHANGED <<mode, fileNum, call, todo, mail, told>>

(* An independent put; one whose data write fails counts no record. *)
IndepPut(r, n) == IndepWrite(r, n, n)

(* ncmpi_wait in independent mode; like wait_all, without the reduction. *)
IndepWait(r) == \E n \in Count : \E m \in Scanned(n), w \in Stored(n) :
                    IndepWrite(r, m, w)

-----------------------------------------------------------------------------
(***************************************************************************)
(* The collective steps: all ranks must have arrived.                      *)
(***************************************************************************)
AllAt(step) == \A r \in Rank : At(r, step)

MaxOf(S, m) == m \in S /\ \A x \in S : x <= m

(* Mutant of Agree: a rank returns on its own error only. *)
AgreeOwnError ==
    /\ AllAt("agree")
    /\ call' = [r \in Rank |-> IF Failed(r) THEN Idle ELSE Advance(call[r])]
    /\ UNCHANGED <<mode, numrecs, dirty, fileNum, todo, mail, written, told>>

(* Safe mode: MPI_Allreduce of the errors found by the argument checks. *)
Agree ==
    /\ AllAt("agree")
    /\ call' = IF \E r \in Rank : Failed(r)
               THEN [r \in Rank |-> Idle]
               ELSE [r \in Rank |-> Advance(call[r])]
    /\ UNCHANGED <<mode, numrecs, dirty, fileNum, todo, mail, written, told>>

TakeMax ==
    /\ \E m \in Count :
         /\ MaxOf({call[r].give : r \in Rank}, m)
         /\ call' = [r \in Rank |-> Advance([call[r] EXCEPT !.got = m])]
    /\ \E w \in Count :
         /\ MaxOf({written} \cup {call[r].wrote : r \in Rank}, w)
         /\ written' = w

(* MPI_Allreduce(MPI_MAX) of the new number of records. *)
Reduce ==
    /\ AllAt("reduce")
    /\ TakeMax
    /\ UNCHANGED <<mode, numrecs, dirty, fileNum, todo, mail, told>>

(***************************************************************************)
(* MPI_Allreduce of req_commit: {reads, writes, error, new numrecs}.  All  *)
(* ranks return when one has an error or when nobody has a put request.    *)
(***************************************************************************)
Vote ==
    /\ AllAt("vote")
    /\ \/ /\ \A r \in Rank : ~Failed(r)
          /\ TakeMax
       \/ /\ \/ \E r \in Rank : Failed(r)
             \/ \A r \in Rank : call[r].wrote = 0 /\ call[r].give = numrecs[r]
          /\ call' = [r \in Rank |-> Idle]
          /\ UNCHANGED written
    /\ UNCHANGED <<mode, numrecs, dirty, fileNum, todo, mail, told>>

Barrier ==
    /\ AllAt("barrier")
    /\ call' = [r \in Rank |-> Advance(call[r])]
    /\ UNCHANGED <<mode, numrecs, dirty, fileNum, todo, mail, written, told>>

-----------------------------------------------------------------------------
(***************************************************************************)
(* ncmpio_write_numrecs: the root writes count n into the header.  A failed*)
(* write is an error of the call only if MPI's error class is NC_EFILE.    *)
(***************************************************************************)
Results == {"stored", "overflow"} \cup Faults

Outcome(n, result) ==
    result \in IF n > HeaderLimit THEN {"overflow"} ELSE {"stored"} \cup Faults

(* Mutant of StatusOf: the failure of the header write is not passed on. *)
StatusSwallowed(result) == IF result = "overflow" THEN "error" ELSE "ok"

StatusOf(result) == CASE result = "ewrite"   -> "ewrite"
                      [] result = "overflow" -> "error"
                      [] OTHER               -> "ok"

WriteNumrecs(n, result) ==
    /\ Outcome(n, result)
    /\ numrecs' = [numrecs EXCEPT ![Root] = n]
    /\ fileNum' = IF result = "stored" THEN n ELSE fileNum
    /\ told' = IF result = "stored" THEN FALSE
               ELSE told \/ StatusOf(result) # "ok"

Done(r) == call' = [call EXCEPT ![r] = Advance(@)]

(* Mutant of Grow: only the root's memory takes over the new count. *)
GrowRootOnly(r) ==
    /\ At(r, "grow")
    /\ IF r = Root /\ call[r].got > numrecs[r]
       THEN \E result \in Results : WriteNumrecs(call[r].got, result)
       ELSE UNCHANGED <<numrecs, fileNum, told>>
    /\ Done(r)
    /\ UNCHANGED <<mode, dirty, todo, mail, written>>

(* Mutant of Grow: memory first, so that write_numrecs sees nothing to write. *)
GrowStoreFirst(r) ==
    /\ At(r, "grow")
    /\ numrecs' = [numrecs EXCEPT ![r] = IF call[r].got > @ THEN call[r].got ELSE @]
    /\ Done(r)
    /\ UNCHANGED <<mode, dirty, fileNum, todo, mail, written, told>>

(* Mutant of Grow: no test that the count grew. *)
GrowUnconditional(r) ==
    /\ At(r, "grow")
    /\ IF r = Root
       THEN \E result \in Results : WriteNumrecs(call[r].got, result)
       ELSE /\ numrecs' = [numrecs EXCEPT ![r] = call[r].got]
            /\ UNCHANGED <<fileNum, told>>
    /\ Done(r)
    /\ UNCHANGED <<mode, dirty, todo, mail, written>>

(***************************************************************************)
(* After the reduction of a put, a fill or a wait: if the count grew, the  *)
(* root writes it to the header and every rank raises its own.             *)
(***************************************************************************)
Grow(r) ==
    /\ At(r, "grow")
    /\ IF call[r].got <= numrecs[r]
       THEN UNCHANGED <<numrecs, fileNum, told>>
       ELSE IF r = Root
       THEN \E result \in Results : WriteNumrecs(call[r].got, result)
       ELSE /\ numrecs' = [numrecs EXCEPT ![r] = call[r].got]
            /\ UNCHANGED <<fileNum, told>>
    /\ Done(r)
    /\ UNCHANGED <<mode, dirty, todo, mail, written>>

(***************************************************************************)
(* ncmpio_sync_numrecs: the root writes even if the count did not grow, as *)
(* the dirty bit is set; safe mode broadcasts how that went; then every    *)
(* rank takes over the count and clears the bit.                           *)
(***************************************************************************)
Publish(r) ==
    /\ At(r, "publish")
    /\ \E result \in Results :
         /\ WriteNumrecs(IF call[r].got > numrecs[r] THEN call[r].got
                         ELSE numrecs[r], result)
         /\ call' = [call EXCEPT ![r] =
                       Advance([@ EXCEPT !.status = StatusOf(result)])]
    /\ UNCHANGED <<mode, dirty, todo, mail, written>>

(* Mutant of Bcast: the other ranks ignore the status of the root. *)
BcastIgnored(r) ==
    /\ At(r, "bcast")
    /\ \/ /\ r = Root
          /\ mail' = [q \in Rank |-> IF q = Root THEN <<>>
                                    ELSE Append(mail[q], call[r].status)]
       \/ /\ r # Root
          /\ mail[r] # <<>>
          /\ mail' = [mail EXCEPT ![r] = Tail(@)]
    /\ Done(r)
    /\ UNCHANGED <<mode, numrecs, dirty, fileNum, todo, written, told>>

Bcast(r) ==
    /\ At(r, "bcast")
    /\ \/ /\ r = Root
          /\ mail' = [q \in Rank |-> IF q = Root THEN <<>>
                                    ELSE Append(mail[q], call[r].status)]
          /\ Done(r)
       \/ /\ r # Root
          /\ mail[r] # <<>>
          /\ mail' = [mail EXCEPT ![r] = Tail(@)]
          /\ call' = [call EXCEPT ![r] = Advance(
                       IF Head(mail[r]) = "ewrite"
                       THEN [@ EXCEPT !.status = "ewrite"] ELSE @)]
    /\ UNCHANGED <<mode, numrecs, dirty, fileNum, todo, written, told>>

Adopt(r) ==
    /\ At(r, "adopt")
    /\ numrecs' = [numrecs EXCEPT ![r] = call[r].got]
    /\ dirty' = [dirty EXCEPT ![r] = FALSE]
    /\ Done(r)
    /\ UNCHANGED <<mode, fileNum, todo, mail, written, told>>

(* ncmpio_sync returns here if sync_numrecs gave this rank an error. *)
Check(r) ==
    /\ At(r, "check")
    /\ call' = [call EXCEPT ![r] = IF Failed(r) THEN Idle ELSE Advance(@)]
    /\ UNCHANGED <<mode, numrecs, dirty, fileNum, todo, mail, written, told>>

(***************************************************************************)
(* The root writes the whole header, its own count included: write_header  *)
(* after a rename or a put_att in data mode, where every failure is an     *)
(* error of the call, and write_NC in enddef, taken not to fail.           *)
(***************************************************************************)
Header(r) ==
    /\ At(r, "header")
    /\ \/ /\ fileNum' = numrecs[r]
          /\ told' = FALSE
          /\ Done(r)
       \/ /\ mode[r] # "def"
          /\ \E result \in Faults :
               call' = [call EXCEPT ![r] = Advance([@ EXCEPT !.status =
                          IF result = "ewrite" THEN "ewrite" ELSE "error"])]
          /\ told' = TRUE
          /\ UNCHANGED fileNum
    /\ UNCHANGED <<mode, numrecs, dirty, todo, mail, written>>

(* The steps that only change the flags of one rank. *)
SwitchMode(r, step, m) ==
    /\ At(r, step)
    /\ mode' = [mode EXCEPT ![r] = m]
    /\ Done(r)
    /\ UNCHANGED <<numrecs, fileNum, todo, mail, written, told>>

Leave(r)       == SwitchMode(r, "leave", "coll")     /\ UNCHANGED dirty
EnterDefine(r) == SwitchMode(r, "define", "def")     /\ UNCHANGED dirty
Discard(r)     == SwitchMode(r, "discard", "coll")   /\ UNCHANGED dirty
CloseFile(r)   == SwitchMode(r, "close", "closed")   /\ UNCHANGED dirty
ExitDefine(r)  == /\ SwitchMode(r, "enddef", "coll")
                  /\ dirty' = [dirty EXCEPT ![r] = FALSE]

LocalStep(r) == \/ Grow(r) \/ Publish(r) \/ Bcast(r) \/ Adopt(r) \/ Check(r)
                \/ Header(r) \/ Leave(r) \/ EnterDefine(r) \/ Discard(r)
                \/ CloseFile(r) \/ ExitDefine(r)

(* ncmpi_open by all ranks: every rank reads the header. *)
Open ==
    /\ \A r \in Rank : mode[r] = "closed" /\ ~InCall(r) /\ todo[r] = <<>>
    /\ mode' = [r \in Rank |-> "coll"]
    /\ numrecs' = [r \in Rank |-> fileNum]
    /\ dirty' = [r \in Rank |-> FALSE]
    /\ UNCHANGED <<fileNum, call, todo, mail, written, told>>

-----------------------------------------------------------------------------
Meet == Agree \/ Reduce \/ Vote \/ Barrier \/ Open

Next == \/ Meet
        \/ \E r \in Rank : \/ MakeCall(r)
                           \/ LocalStep(r)
                           \/ \E n \in 1 .. MaxRecs : IndepPut(r, n)
                           \/ IndepWait(r)

Spec == Init /\ [][Next]_vars

(***************************************************************************)
(* MPI makes progress, a call in progress goes on, and the application of  *)
(* every rank makes the collective calls the others have made.             *)
(***************************************************************************)
Fairness ==
    /\ WF_vars(Meet)
    /\ \A r \in Rank : /\ WF_vars(LocalStep(r))
                       /\ WF_vars(todo[r] # <<>> /\ MakeCall(r))

FairSpec == Spec /\ Fairness

-----------------------------------------------------------------------------
(* Types of the variables; mailboxes and to-do lists stay bounded. *)
TypeOK ==
    /\ mode \in [Rank -> {"coll", "indep", "def", "closed"}]
    /\ numrecs \in [Rank -> Count]
    /\ dirty \in [Rank -> BOOLEAN]
    /\ fileNum \in Count
    /\ call \in [Rank -> Call]
    /\ todo \in [Rank -> Seq(AllOps)]
    /\ mail \in [Rank -> Seq(Status)]
    /\ written \in Count
    /\ told \in BOOLEAN

(***************************************************************************)
(* "In collective data mode, header (including numrecs) is always sync-ed  *)
(* in memory": two ranks that have returned from the same collective call  *)
(* and are not in independent mode hold the same count.                    *)
(***************************************************************************)
CollectiveAgree ==
    \A q, r \in Rank :
        /\ ~InCall(q) /\ ~InCall(r)
        /\ Len(todo[q]) = Len(todo[r])
        /\ mode[q] # "indep" /\ mode[r] # "indep"
        => numrecs[q] = numrecs[r]

(* The root never returns outside independent mode with a stale header. *)
HeaderCurrent ==
    ~InCall(Root) /\ mode[Root] # "indep" => fileNum = numrecs[Root]

(***************************************************************************)
(* The record of every successful write is covered: by the header, by the  *)
(* memory of a rank, or by the result of a reduction a rank is to take     *)
(* over.  Closing the file or the independent mode loses none.  Not so if  *)
(* PartialWaits: the scan of a wait that names a part may miss its puts.   *)
(***************************************************************************)
NothingLost ==
    \/ written <= fileNum
    \/ \E r \in Rank : /\ mode[r] # "closed"
                       /\ \/ numrecs[r] >= written
                          \/ InCall(r) /\ call[r].got >= written

(***************************************************************************)
(* No count, in memory or in the file, includes a record nobody wrote.     *)
(* Not so if ZeroCount, or if WaitFails: a wait counts before it knows     *)
(* whether its data write succeeded.                                       *)
(***************************************************************************)
NoPhantom == fileNum <= written /\ \A r \in Rank : numrecs[r] <= written

(***************************************************************************)
(* "... and updated in file before the collective API returns": what a rank*)
(* knows after a call, its dirty bit clear, the header says too.           *)
(***************************************************************************)
ReturnedIsPublished ==
    \A r \in Rank : ~InCall(r) /\ ~dirty[r] => numrecs[r] <= fileNum

(***************************************************************************)
(* Collective MPI operations match: two ranks that wait in one are in the  *)
(* same collective call of the program and at the same operation of it.    *)
(***************************************************************************)
CollectivesMatch ==
    \A q, r \in Rank : \A m, n \in Meeting :
        At(q, m) /\ At(r, n) => m = n /\ Len(todo[q]) = Len(todo[r])

(* If the root has returned and the header is stale, the root was told. *)
StaleHeaderReported ==
    ~InCall(Root) /\ mode[Root] # "indep" /\ fileNum # numrecs[Root] => told

(* No step, open included, makes the count in the file or in memory drop. *)
CountsOnlyGrow ==
    [][fileNum' >= fileNum /\ \A r \in Rank : numrecs'[r] >= numrecs[r]]_vars

(* Every collective call a rank has entered returns. *)
CallReturns == \A r \in Rank : InCall(r) ~> ~InCall(r)
=============================================================================
