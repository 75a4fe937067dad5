------------------------------ MODULE FileTable ------------------------------
(***************************************************************************)
(* The dispatch layer of a process (src/dispatchers/file.c, variable.c,    *)
(* var_getput.m4): the table of open files, the mode flags it keeps of     *)
(* each file, and the driver's own flags under them.  The two layers keep  *)
(* define mode, independent mode and the variables apart, so every call    *)
(* that changes one must change the other.                                 *)
(***************************************************************************)
EXTENDS Naturals, Integers, Sequences, FiniteSets

CONSTANTS
    MaxFiles,    \* NC_MAX_NFILES, the slots of pnc_filelist
    Files,       \* the paths the application uses
    None, Absent, Empty,   \* no handle; no such path; a file without a header
    MaxVars,     \* bound: variables of a file
    SafeMode,    \* PNETCDF_SAFE_MODE
    StaleIds,    \* does the application use an ID it has closed?
    Faults       \* failures of the driver: subset of {"enddef", "begin", "end"}

ASSUME FileTableAssumption ==
    /\ MaxFiles \in Nat \ {0} /\ MaxVars \in Nat
    /\ SafeMode \in BOOLEAN /\ StaleIds \in BOOLEAN
    /\ Faults \subseteq {"enddef", "begin", "end"}

VARIABLES
    table,      \* pnc_filelist
    numfiles,   \* pnc_numfiles
    disk,       \* what each path holds: its definitions, Empty or Absent
    reply       \* the last call, the ID it was given and what it returned

vars == <<table, numfiles, disk, reply>>

Slots == 0 .. MaxFiles - 1
Unset == -1   \* a member that no assignment has reached
Kinds == {"fixed", "record"}

Handle == [file : Files, def : BOOLEAN, indep : BOOLEAN, rdonly : BOOLEAN,
           vars : Seq(Kinds), nrec : Int,
           d : [new : BOOLEAN, def : BOOLEAN, indep : BOOLEAN, ifh : BOOLEAN,
                vars : Seq(Kinds)]]

(* NULL is not a PNC object, nor a path's state the definitions of a file. *)
ASSUME NoneAssumption ==
    /\ None \notin Handle
    /\ Absent # Empty /\ Absent \notin Seq(Kinds) /\ Empty \notin Seq(Kinds)

(* A PNC object with the driver's NC object under it. *)
NewHandle(f, def, rdonly, vs, nrec) ==
    [file |-> f, def |-> def, indep |-> FALSE, rdonly |-> rdonly, vars |-> vs,
     nrec |-> nrec,
     d |-> [new |-> def, def |-> def, indep |-> FALSE, ifh |-> FALSE, vars |-> vs]]

NumRec(vs) == Cardinality({i \in DOMAIN vs : vs[i] = "record"})

Used == {s \in Slots : table[s] # None}

Init ==
    /\ table = [s \in Slots |-> None] /\ numfiles = 0
    /\ disk = [f \in Files |-> Absent] /\ reply = <<"none", 0, "ok">>

IsOpen(id) == id \in Slots /\ table[id] # None

(* new_id_PNCList: the first slot that is not used. *)
FreeSlot == CHOOSE s \in Slots : table[s] = None /\ \A t \in 0 .. s - 1 : table[t] # None

(* The application keeps one ID to a path at a time. *)
Closed(f) == \A s \in Slots : table[s] # None => table[s].file # f

Answers(call, id, r) == reply' = <<call, id, r>> /\ UNCHANGED <<table, numfiles, disk>>
Updates(call, id, h, r) ==
    /\ table' = [table EXCEPT ![id] = h] /\ reply' = <<call, id, r>>
    /\ UNCHANGED <<numfiles, disk>>

(* Mutant: the slot is counted and not given back when the driver fails. *)
EnterLeaks(call, made, h, put) ==
    IF numfiles = MaxFiles THEN Answers(call, -1, "toomany")
    ELSE /\ table' = IF made THEN [table EXCEPT ![FreeSlot] = h] ELSE table
         /\ numfiles' = numfiles + 1
         /\ disk' = IF made THEN put ELSE disk
         /\ reply' = IF made THEN <<call, FreeSlot, "ok">> ELSE <<call, -1, "failed">>

(* new_id_PNCList, then the driver; a driver that fails gives the slot back. *)
Enter(call, made, h, put) ==
    IF numfiles = MaxFiles THEN Answers(call, -1, "toomany")
    ELSE IF ~made THEN Answers(call, -1, "failed")
    ELSE /\ table' = [table EXCEPT ![FreeSlot] = h] /\ numfiles' = numfiles + 1
         /\ disk' = put /\ reply' = <<call, FreeSlot, "ok">>

(* NC_NOCLOBBER refuses a path that is there; otherwise it is removed first. *)
Create(f) ==
    /\ Closed(f)
    /\ \E noclobber \in BOOLEAN :
        Enter("create", ~(noclobber /\ disk[f] # Absent),
              NewHandle(f, TRUE, FALSE, << >>, 0), [disk EXCEPT ![f] = Empty])

(* ncmpi_open reads the signature before it takes a slot.  It copies the   *)
(* variables into the PNC object and never sets nrec_vars of it.           *)
Open(f) ==
    /\ Closed(f)
    /\ IF disk[f] \in {Absent, Empty} THEN Answers("open", -1, "failed")
       ELSE \E made, rdonly \in BOOLEAN :
            Enter("open", made, NewHandle(f, FALSE, rdonly, disk[f], Unset), disk)

(* PNC_check_id of a number that names no file: with a file open, the slot *)
(* of a closed one is NULL and is used all the same.                       *)
BadId ==
    \E id \in -1 .. MaxFiles :
        /\ ~IsOpen(id)
        /\ numfiles = 0 \/ id \notin Slots \/ StaleIds
        /\ Answers("any", id,
                   IF numfiles = 0 \/ id \notin Slots THEN "badid" ELSE "crash")

(* The NC object once the driver has left define mode. *)
Defined(d) == [d EXCEPT !.def = FALSE, !.new = FALSE]

(* ncmpio__enddef: it fails before anything is written, or writes the      *)
(* header, fills and leaves define mode with the status of those.          *)
DriverEndDefs(h) ==
    {[d |-> h.d, disk |-> disk, ans |-> "failed"],
     [d |-> Defined(h.d), disk |-> [disk EXCEPT ![h.file] = h.d.vars],
      ans |-> "ok"]}
    \cup (IF "enddef" \notin Faults THEN {} ELSE
          {[d |-> Defined(h.d), disk |-> w, ans |-> "failed"] :
            w \in {disk, [disk EXCEPT ![h.file] = h.d.vars]}})

(* Mutant: the dispatcher's independent flag stays as redef found it. *)
AfterEndDefKeepsIndep(h, e) ==
    IF e.ans = "ok" THEN [h EXCEPT !.def = FALSE, !.d = e.d] ELSE [h EXCEPT !.d = e.d]

(* The flags of the PNC object follow only if the driver reports no error. *)
AfterEndDef(h, e) ==
    IF e.ans = "ok" THEN [h EXCEPT !.def = FALSE, !.indep = FALSE, !.d = e.d]
    ELSE [h EXCEPT !.d = e.d]

(* ncmpi_enddef and ncmpi__enddef. *)
EndDef(id) ==
    /\ IsOpen(id)
    /\ LET h == table[id] IN
       IF ~h.def THEN Answers("enddef", id, "refused")
       ELSE \E e \in DriverEndDefs(h) :
            /\ table' = [table EXCEPT ![id] = AfterEndDef(h, e)]
            /\ disk' = e.disk
            /\ reply' = <<"enddef", id, e.ans>> /\ UNCHANGED numfiles

(* ncmpi_redef: the driver leaves independent mode and ignores its error;  *)
(* the dispatcher's independent flag stays until enddef clears it.         *)
AfterRedef(h) == [h EXCEPT !.def = TRUE, !.d.indep = FALSE, !.d.def = TRUE]
Redef(id) ==
    /\ IsOpen(id)
    /\ LET h == table[id] IN
       IF h.rdonly \/ h.def THEN Answers("redef", id, "refused")
       ELSE Updates("redef", id, AfterRedef(h), "ok")

(* ncmpi_begin_indep_data: the driver raises its flag before it opens the  *)
(* independent file handle, and returns at once if the flag is up.         *)
AfterBegin(h, opened) ==
    IF ~opened THEN [h EXCEPT !.d.indep = TRUE]
    ELSE [h EXCEPT !.indep = TRUE, !.d.indep = TRUE, !.d.ifh = h.d.indep => @]
BeginIndep(id) ==
    /\ IsOpen(id)
    /\ LET h == table[id] IN
       IF h.d.def THEN Answers("begin_indep", id, "refused")
       ELSE \E opened \in IF "begin" \in Faults /\ ~h.d.indep /\ ~h.d.ifh
                          THEN BOOLEAN ELSE {TRUE} :
            Updates("begin_indep", id, AfterBegin(h, opened),
                    IF opened THEN "ok" ELSE "failed")

(* ncmpi_end_indep_data: the driver clears its flag whatever the status of *)
(* writing the number of records.                                          *)
AfterEnd(h, ok) == [h EXCEPT !.d.indep = FALSE, !.indep = @ /\ ~ok]
EndIndep(id) ==
    /\ IsOpen(id)
    /\ LET h == table[id] IN
       IF h.d.def THEN Answers("end_indep", id, "refused")
       ELSE \E ok \in IF "end" \in Faults /\ h.d.indep /\ ~h.rdonly /\ NumRec(h.d.vars) > 0
                      THEN BOOLEAN ELSE {TRUE} :
            Updates("end_indep", id, AfterEnd(h, ok), IF ok THEN "ok" ELSE "failed")

(* ncmpi_def_var: a name or type the checks refuse, or a variable in both. *)
AfterDefVar(h, kind) ==
    [h EXCEPT !.vars = Append(@, kind), !.d.vars = Append(@, kind),
              !.nrec = IF kind = "record" /\ @ # Unset THEN @ + 1 ELSE @]
DefVar(id, kind) ==
    /\ IsOpen(id) /\ Len(table[id].vars) < MaxVars
    /\ LET h == table[id] IN
       IF ~h.def THEN Answers("def_var", id, "refused")
       ELSE \/ Answers("def_var", id, "failed")
            \/ Updates("def_var", id, AfterDefVar(h, kind), "ok")

SetFill(id) ==
    /\ IsOpen(id)
    /\ Answers("set_fill", id, IF table[id].rdonly \/ ~table[id].def THEN "refused" ELSE "ok")

(* Mutant: the mode is checked against define mode only. *)
ForbidsInDefine(h, call) ==
    \/ h.rdonly /\ call \in {"put", "put_all", "iput"}
    \/ h.def    /\ call \in {"put", "put_all", "get", "get_all"}

(* sanity_check of the put and get functions, on variable v. *)
Forbids(h, call) ==
    \/ h.rdonly /\ call \in {"put", "put_all", "iput"}
    \/ h.def    /\ call \in {"put", "put_all", "get", "get_all"}
    \/ h.indep  /\ call \in {"put_all", "get_all"}
    \/ ~h.indep /\ call \in {"put", "get"}
PutGet(id, call, v) ==
    /\ IsOpen(id)
    /\ Answers(call, id, IF Forbids(table[id], call) THEN "refused"
                         ELSE IF v \notin DOMAIN table[id].vars THEN "failed" ELSE "ok")

(* ncmpi_fill_var_rec: out of safe mode the outcome of the checks is not   *)
(* looked at and the driver is called; it checks the variable's kind only. *)
FillVarRec(id, v) ==
    /\ IsOpen(id) /\ v \in DOMAIN table[id].vars
    /\ LET h == table[id] IN
       Answers("fill_var_rec", id,
               IF h.d.vars[v] = "fixed" THEN "failed"
               ELSE IF SafeMode /\ (h.rdonly \/ h.def \/ h.indep) THEN "refused"
               ELSE "ok")

(* Calls only the driver checks. *)
Sync(id) ==
    IsOpen(id) /\ Answers("sync", id, IF table[id].d.def THEN "refused" ELSE "ok")
Wait(id, coll) ==
    /\ IsOpen(id)
    /\ Answers(IF coll THEN "wait_all" ELSE "wait", id,
               IF table[id].d.def \/ table[id].d.indep = coll THEN "refused" ELSE "ok")

(* The slot is given back even if the driver fails. *)
Leave(call, id, d, r) ==
    /\ table' = [table EXCEPT ![id] = None] /\ numfiles' = numfiles - 1
    /\ disk' = d /\ reply' = <<call, id, r>>

(* ncmpi_close: a file in define mode goes through the driver's enddef. *)
Close(id) ==
    /\ IsOpen(id)
    /\ IF table[id].d.def
       THEN \E e \in DriverEndDefs(table[id]) : Leave("close", id, e.disk, e.ans)
       ELSE Leave("close", id, disk, "ok")

(* ncmpi_abort: definitions since redef go; a file never left by enddef is *)
(* deleted.                                                                *)
Abort(id) ==
    /\ IsOpen(id)
    /\ LET h == table[id] IN
       Leave("abort", id, IF h.d.new THEN [disk EXCEPT ![h.file] = Absent] ELSE disk, "ok")

Next ==
    \/ \E f \in Files : Create(f) \/ Open(f)
    \/ BadId
    \/ \E id \in Slots :
         \/ EndDef(id) \/ Redef(id) \/ BeginIndep(id) \/ EndIndep(id)
         \/ \E kind \in Kinds : DefVar(id, kind)
         \/ SetFill(id) \/ Sync(id)
         \/ \E coll \in BOOLEAN : Wait(id, coll)
         \/ \E call \in {"put", "put_all", "get", "get_all", "iput", "iget"},
               v \in {1, MaxVars + 1} : PutGet(id, call, v)
         \/ \E v \in 1 .. MaxVars : FillVarRec(id, v)
         \/ Close(id) \/ Abort(id)

Spec == Init /\ [][Next]_vars

-----------------------------------------------------------------------------
(* Every slot is free or holds a handle, and pnc_numfiles counts the       *)
(* handles; no slot is lost by a create or open that fails.                *)
TypeOK ==
    /\ \A s \in Slots : table[s] = None \/ table[s].file \in Files
    /\ numfiles = Cardinality(Used)
    /\ \A f \in Files : disk[f] \in {Absent, Empty} \/ Len(disk[f]) <= MaxVars
    /\ reply[2] \in -1 .. MaxFiles
    /\ reply[3] \in {"ok", "failed", "refused", "badid", "toomany", "crash"}

(* The two layers agree: on define mode always, on independent mode when   *)
(* the file is not in define mode, on the variables; and an independent    *)
(* call that passes the dispatcher finds the independent handle open.      *)
LayersAgree ==
    \A s \in Slots : table[s] # None =>
        LET h == table[s] IN
        /\ h.def = h.d.def /\ h.vars = h.d.vars
        /\ ~h.def => h.indep = h.d.indep
        /\ ~h.def /\ h.indep => h.d.ifh

(* The number of record variables ncmpi_inq_num_rec_vars returns is the    *)
(* number of variables whose recdim is set.                                *)
RecVarsCounted ==
    \A s \in Slots : table[s] # None => table[s].nrec = NumRec(table[s].vars)

(* Seen from outside: the mode is the dispatcher's, the definitions the    *)
(* driver's.                                                               *)
Seen(h) ==
    [file |-> h.file, write |-> ~h.rdonly, vars |-> h.d.vars,
     mode |-> IF h.def THEN "define"
              ELSE IF h.indep THEN "independent" ELSE "collective"]

Opened == [s \in Used |-> Seen(table[s])]

Handles == INSTANCE FileHandles WITH open <- Opened, stored <- disk

(* The two layers together keep the promise of FileHandles: IDs are not    *)
(* mixed up, no call is carried out in a mode that forbids it or refused   *)
(* in one that allows it, no failing call changes the mode, and the        *)
(* definitions on disk are those of the last enddef or close.              *)
ImplementsHandles == Handles!Spec

=============================================================================
