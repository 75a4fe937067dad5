--------------------------- MODULE FileTableProofs ---------------------------
(***************************************************************************)
(* Theorems about FileTable, for any number of slots, paths and variables. *)
(***************************************************************************)
EXTENDS FileTable, FiniteSetTheorems, LoopLemmas, TLAPS

USE FileTableAssumption, NoneAssumption

-----------------------------------------------------------------------------
(***************************************************************************)
(* The inductive form of TypeOK: a PNC object and its NC object list the   *)
(* same variables whatever fails.                                          *)
(***************************************************************************)
Sound(h) == /\ h \in Handle
            /\ h.vars = h.d.vars
            /\ Len(h.vars) <= MaxVars

OnDisk == {Absent, Empty} \cup {vs \in Seq(Kinds) : Len(vs) <= MaxVars}

Answer == {"ok", "failed", "refused", "badid", "toomany", "crash"}

TypeInv ==
    /\ table \in [Slots -> {None} \cup Handle]
    /\ \A s \in Used : Sound(table[s])
    /\ numfiles = Cardinality(Used)
    /\ disk \in [Files -> OnDisk]
    /\ reply[2] \in -1 .. MaxFiles /\ reply[3] \in Answer

LEMMA SlotsFinite ==
  /\ IsFiniteSet(Slots)
  /\ Cardinality(Slots) = MaxFiles
  BY FS_Interval DEF Slots

LEMMA UsedFinite ==
  /\ IsFiniteSet(Used)
  /\ Cardinality(Used) \in Nat /\ Cardinality(Used) <= MaxFiles
  /\ Cardinality(Used) = MaxFiles => Used = Slots
  <1>1. Used \in SUBSET Slots
    BY DEF Used
  <1> QED
    BY <1>1, SlotsFinite, FS_Subset, FS_CardinalityType

(* The search for a free slot finds one as long as numfiles is not at its limit. *)
LEMMA FreeSlotFree ==
  ASSUME numfiles = Cardinality(Used), numfiles # MaxFiles
  PROVE  FreeSlot \in Slots /\ table[FreeSlot] = None
  <1> DEFINE Free == {s \in Slots : table[s] = None}
  <1>1. Free # {}
    <2> SUFFICES ASSUME Free = {} PROVE FALSE
      OBVIOUS
    <2>1. Used = Slots
      BY DEF Used
    <2> QED
      BY <2>1, SlotsFinite
  <1>2. PICK s \in Free : \A t \in Free : s <= t
    <2>1. Free \subseteq Nat
      BY DEF Slots
    <2> HIDE DEF Free
    <2> QED
      BY <1>1, <2>1, LeastNat
  <1>3. \A t \in 0 .. s - 1 : t \in Slots /\ ~(s <= t)
    BY DEF Slots
  <1>4. s \in Slots /\ table[s] = None /\ \A t \in 0 .. s - 1 : table[t] # None
    BY <1>2, <1>3
  <1> QED
    BY <1>4, Zenon DEF FreeSlot

-----------------------------------------------------------------------------
(* What the effects of the calls keep of the types. *)

LEMMA ReplyType ==
  ASSUME NEW call, NEW id \in -1 .. MaxFiles, NEW r \in Answer,
         reply' = <<call, id, r>>
  PROVE  reply'[2] \in -1 .. MaxFiles /\ reply'[3] \in Answer
  OBVIOUS

LEMMA AnswersType ==
  ASSUME TypeInv, NEW call, NEW id \in -1 .. MaxFiles, NEW r \in Answer,
         Answers(call, id, r)
  PROVE  TypeInv'
  <1>1. reply' = <<call, id, r>> /\ UNCHANGED <<table, numfiles, disk>>
    BY DEF Answers
  <1> QED
    BY <1>1, ReplyType DEF TypeInv, Used, Sound

LEMMA EnterSlotType ==
  ASSUME TypeInv, NEW call, NEW h, Sound(h), numfiles # MaxFiles,
         table' = [table EXCEPT ![FreeSlot] = h], numfiles' = numfiles + 1,
         disk' \in [Files -> OnDisk], reply' = <<call, FreeSlot, "ok">>
  PROVE  TypeInv'
  <1>1. FreeSlot \in Slots /\ table[FreeSlot] = None
    BY FreeSlotFree DEF TypeInv
  <1>2. FreeSlot \in -1 .. MaxFiles
    BY <1>1 DEF Slots
  <1>3. table' \in [Slots -> {None} \cup Handle]
    BY DEF TypeInv, Sound
  <1>4. Used' = Used \cup {FreeSlot}
    BY <1>1 DEF Used, TypeInv, Sound
  <1>5. numfiles' = Cardinality(Used')
    <2>1. FreeSlot \notin Used
      BY <1>1 DEF Used
    <2> QED
      BY <1>4, <2>1, UsedFinite, FS_AddElement DEF TypeInv
  <1>6. \A s \in Used' : Sound(table'[s])
    BY <1>1, <1>4 DEF TypeInv, Used
  <1>7. reply'[2] \in -1 .. MaxFiles /\ reply'[3] \in Answer
    BY <1>2, ReplyType DEF Answer
  <1> QED
    BY <1>3, <1>5, <1>6, <1>7 DEF TypeInv, Sound

LEMMA ChangeType ==
  ASSUME TypeInv, NEW call, NEW id \in Used, NEW h, Sound(h), NEW r \in Answer,
         table' = [table EXCEPT ![id] = h], UNCHANGED numfiles,
         disk' \in [Files -> OnDisk], reply' = <<call, id, r>>
  PROVE  TypeInv'
  <1>1. id \in Slots /\ id \in -1 .. MaxFiles
    BY DEF Used, Slots
  <1>2. table' \in [Slots -> {None} \cup Handle]
    BY DEF TypeInv, Sound
  <1>3. Used' = Used
    BY <1>1 DEF Used, TypeInv, Sound
  <1>4. \A s \in Used' : Sound(table'[s])
    BY <1>1, <1>3 DEF TypeInv, Used
  <1>5. reply'[2] \in -1 .. MaxFiles /\ reply'[3] \in Answer
    BY <1>1, ReplyType
  <1> QED
    BY <1>2, <1>3, <1>4, <1>5 DEF TypeInv, Sound

LEMMA LeaveType ==
  ASSUME TypeInv, NEW call, NEW id \in Used, NEW d \in [Files -> OnDisk],
         NEW r \in Answer, Leave(call, id, d, r)
  PROVE  TypeInv'
  <1>1. id \in Slots /\ id \in -1 .. MaxFiles
    BY DEF Used, Slots
  <1>2. table' \in [Slots -> {None} \cup Handle]
    BY DEF TypeInv, Leave
  <1>3. Used' = Used \ {id}
    BY <1>1 DEF Used, TypeInv, Leave
  <1>4. numfiles' = Cardinality(Used')
    BY <1>3, UsedFinite, FS_RemoveElement DEF TypeInv, Leave
  <1>5. \A s \in Used' : Sound(table'[s])
    BY <1>1, <1>3 DEF TypeInv, Used, Leave
  <1>6. reply'[2] \in -1 .. MaxFiles /\ reply'[3] \in Answer
    BY <1>1, ReplyType DEF Leave
  <1>7. disk' \in [Files -> OnDisk]
    BY DEF Leave
  <1> QED
    BY <1>2, <1>4, <1>5, <1>6, <1>7 DEF TypeInv, Sound

(* The handle a call stores is again a PNC object. *)
LEMMA NewHandleSound ==
  ASSUME NEW f \in Files, NEW def \in BOOLEAN, NEW rdonly \in BOOLEAN,
         NEW vs \in Seq(Kinds), Len(vs) <= MaxVars, NEW nrec \in Int
  PROVE  Sound(NewHandle(f, def, rdonly, vs, nrec))
  BY DEF Sound, Handle, NewHandle

LEMMA ChangeSound ==
  ASSUME NEW h \in Handle, Sound(h)
  PROVE  /\ Sound(AfterRedef(h))
         /\ \A opened \in BOOLEAN : Sound(AfterBegin(h, opened))
         /\ \A ok \in BOOLEAN : Sound(AfterEnd(h, ok))
         /\ \A kind \in Kinds : Len(h.vars) < MaxVars => Sound(AfterDefVar(h, kind))
         /\ \A e : e.d \in {h.d, Defined(h.d)} => Sound(AfterEndDef(h, e))
  <1>1. Sound(AfterRedef(h))
    BY DEF Sound, Handle, AfterRedef
  <1>2. ASSUME NEW opened \in BOOLEAN
        PROVE  Sound(AfterBegin(h, opened))
    BY DEF Sound, Handle, AfterBegin
  <1>3. ASSUME NEW ok \in BOOLEAN
        PROVE  Sound(AfterEnd(h, ok))
    BY DEF Sound, Handle, AfterEnd
  <1>4. ASSUME NEW kind \in Kinds, Len(h.vars) < MaxVars
        PROVE  Sound(AfterDefVar(h, kind))
    <2> DEFINE g == AfterDefVar(h, kind)
    <2>1. /\ Append(h.vars, kind) \in Seq(Kinds)
          /\ Append(h.d.vars, kind) \in Seq(Kinds)
          /\ (IF kind = "record" /\ h.nrec # Unset THEN h.nrec + 1 ELSE h.nrec) \in Int
      BY DEF Handle, Unset
    <2>2. Len(Append(h.vars, kind)) <= MaxVars
      BY <1>4 DEF Handle
    <2>3. g.vars = Append(h.vars, kind) /\ g.d.vars = Append(h.d.vars, kind)
      BY DEF Handle, AfterDefVar
    <2>4. g \in Handle
      BY <2>1 DEF Handle, AfterDefVar
    <2> QED
      BY <2>2, <2>3, <2>4 DEF Sound
  <1>5. ASSUME NEW e, e.d \in {h.d, Defined(h.d)}
        PROVE  Sound(AfterEndDef(h, e))
    BY <1>5 DEF Sound, Handle, AfterEndDef, Defined
  <1> QED
    BY <1>1, <1>2, <1>3, <1>4, <1>5

LEMMA EndDefOutcome ==
  ASSUME TypeInv, NEW s \in Used, NEW e \in DriverEndDefs(table[s])
  PROVE  /\ e.disk \in [Files -> OnDisk]
         /\ e.ans \in {"ok", "failed"}
         /\ e.d \in {table[s].d, Defined(table[s].d)}
  <1> DEFINE h == table[s]
             w == [disk EXCEPT ![h.file] = h.d.vars]
  <1>1. Sound(h)
    BY DEF TypeInv
  <1>2. w \in [Files -> OnDisk] /\ disk \in [Files -> OnDisk]
    BY <1>1 DEF Sound, Handle, OnDisk, TypeInv
  <1>3. \/ e = [d |-> h.d, disk |-> disk, ans |-> "failed"]
        \/ e = [d |-> Defined(h.d), disk |-> w, ans |-> "ok"]
        \/ \E x \in {disk, w} : e = [d |-> Defined(h.d), disk |-> x, ans |-> "failed"]
    BY Zenon DEF DriverEndDefs
  <1> HIDE DEF h, w
  <1>4. /\ e.disk \in {disk, w} /\ e.ans \in {"ok", "failed"}
        /\ e.d \in {h.d, Defined(h.d)}
    BY <1>3
  <1> QED
    BY <1>2, <1>4 DEF h

LEMMA EnterType ==
  ASSUME TypeInv, NEW call, NEW made \in BOOLEAN, NEW h, Sound(h),
         NEW put \in [Files -> OnDisk], Enter(call, made, h, put)
  PROVE  TypeInv'
  <1>1. -1 \in -1 .. MaxFiles /\ {"toomany", "failed"} \subseteq Answer
    BY DEF Answer
  <1>2. CASE numfiles = MaxFiles
    BY <1>1, <1>2, AnswersType DEF Enter
  <1>3. CASE numfiles # MaxFiles /\ ~made
    BY <1>1, <1>3, AnswersType DEF Enter
  <1>4. CASE numfiles # MaxFiles /\ made
    BY <1>4, EnterSlotType DEF Enter
  <1> QED
    BY <1>2, <1>3, <1>4

LEMMA NextType == TypeInv /\ [Next]_vars => TypeInv'
  <1> SUFFICES ASSUME TypeInv, [Next]_vars PROVE TypeInv'
    OBVIOUS
  <1>1. \A id \in Slots : IsOpen(id) => id \in Used /\ id \in -1 .. MaxFiles
                                        /\ Sound(table[id]) /\ table[id] \in Handle
    BY DEF IsOpen, Used, TypeInv, Slots, Sound
  <1>2. /\ disk \in [Files -> OnDisk]
        /\ Empty \in OnDisk /\ Absent \in OnDisk
        /\ Unset \in Int
    BY DEF TypeInv, OnDisk, Unset
  <1>3. ASSUME NEW f \in Files, Create(f) PROVE TypeInv'
    <2>1. /\ << >> \in Seq(Kinds) /\ Len(<< >>) <= MaxVars
          /\ TRUE \in BOOLEAN /\ FALSE \in BOOLEAN /\ 0 \in Int
      OBVIOUS
    <2>2. Sound(NewHandle(f, TRUE, FALSE, << >>, 0))
      BY <2>1, NewHandleSound, Zenon
    <2>3. [disk EXCEPT ![f] = Empty] \in [Files -> OnDisk]
      BY <1>2
    <2>4. PICK made \in BOOLEAN :
            Enter("create", made, NewHandle(f, TRUE, FALSE, << >>, 0),
                  [disk EXCEPT ![f] = Empty])
      BY <1>3 DEF Create
    <2> QED
      BY <2>2, <2>3, <2>4, EnterType
  <1>4. ASSUME NEW f \in Files, Open(f) PROVE TypeInv'
    <2>1. CASE disk[f] \in {Absent, Empty}
      BY <1>4, <2>1, AnswersType DEF Open, Answer
    <2>2. CASE disk[f] \notin {Absent, Empty}
      <3>1. disk[f] \in Seq(Kinds) /\ Len(disk[f]) <= MaxVars
        BY <1>2, <2>2 DEF OnDisk
      <3>2. PICK made, rdonly \in BOOLEAN :
              Enter("open", made, NewHandle(f, FALSE, rdonly, disk[f], Unset), disk)
        BY <1>4, <2>2 DEF Open
      <3>3. Sound(NewHandle(f, FALSE, rdonly, disk[f], Unset))
        BY <1>2, <3>1, NewHandleSound
      <3> QED
        BY <1>2, <3>2, <3>3, EnterType
    <2> QED
      BY <2>1, <2>2
  <1>5. CASE BadId
    BY <1>5, AnswersType DEF BadId, Answer
  <1>6. ASSUME NEW id \in Slots, EndDef(id) PROVE TypeInv'
    <2>1. CASE ~table[id].def
      BY <1>1, <1>6, <2>1, AnswersType DEF EndDef, Answer
    <2>2. CASE table[id].def
      <3>1. PICK e \in DriverEndDefs(table[id]) :
              /\ table' = [table EXCEPT ![id] = AfterEndDef(table[id], e)]
              /\ disk' = e.disk
              /\ reply' = <<"enddef", id, e.ans>> /\ UNCHANGED numfiles
        BY <1>6, <2>2 DEF EndDef
      <3>2. /\ disk' \in [Files -> OnDisk] /\ e.ans \in Answer
            /\ e.d \in {table[id].d, Defined(table[id].d)}
        BY <1>1, <1>6, <3>1, EndDefOutcome DEF EndDef, Answer
      <3>3. Sound(AfterEndDef(table[id], e))
        BY <1>1, <1>6, <3>2, ChangeSound DEF EndDef
      <3> QED
        BY <1>1, <1>6, <3>1, <3>2, <3>3, ChangeType DEF EndDef
    <2> QED
      BY <2>1, <2>2
  <1>7. ASSUME NEW id \in Slots, NEW call, NEW h, Sound(h), NEW r \in Answer,
               IsOpen(id), Updates(call, id, h, r)
        PROVE  TypeInv'
    BY <1>1, <1>2, <1>7, ChangeType DEF Updates
  <1>8. ASSUME NEW id \in Slots, Redef(id) PROVE TypeInv'
    BY <1>1, <1>7, <1>8, ChangeSound, AnswersType DEF Redef, Answer
  <1>9. ASSUME NEW id \in Slots, BeginIndep(id) PROVE TypeInv'
    BY <1>1, <1>7, <1>9, ChangeSound, AnswersType DEF BeginIndep, Answer
  <1>10. ASSUME NEW id \in Slots, EndIndep(id) PROVE TypeInv'
    BY <1>1, <1>7, <1>10, ChangeSound, AnswersType DEF EndIndep, Answer
  <1>11. ASSUME NEW id \in Slots, NEW kind \in Kinds, DefVar(id, kind) PROVE TypeInv'
    BY <1>1, <1>7, <1>11, ChangeSound, AnswersType DEF DefVar, Answer
  <1>12. ASSUME NEW id \in Slots,
                SetFill(id) \/ Sync(id) \/ \E coll \in BOOLEAN : Wait(id, coll)
         PROVE  TypeInv'
    BY <1>1, <1>12, AnswersType DEF SetFill, Sync, Wait, Answer
  <1>13. ASSUME NEW id \in Slots,
                NEW call \in {"put", "put_all", "get", "get_all", "iput", "iget"},
                NEW v \in {1, MaxVars + 1}, PutGet(id, call, v)
         PROVE  TypeInv'
    BY <1>1, <1>13, AnswersType DEF PutGet, Answer
  <1>14. ASSUME NEW id \in Slots, NEW v \in 1 .. MaxVars, FillVarRec(id, v)
         PROVE  TypeInv'
    BY <1>1, <1>14, AnswersType DEF FillVarRec, Answer
  <1>15. ASSUME NEW id \in Slots, Close(id) PROVE TypeInv'
    <2>1. CASE table[id].d.def
      <3>1. PICK e \in DriverEndDefs(table[id]) : Leave("close", id, e.disk, e.ans)
        BY <1>15, <2>1 DEF Close
      <3>2. e.disk \in [Files -> OnDisk] /\ e.ans \in Answer
        BY <1>1, <1>15, EndDefOutcome DEF Close, Answer
      <3> QED
        BY <1>1, <1>15, <3>1, <3>2, LeaveType DEF Close
    <2>2. CASE ~table[id].d.def
      BY <1>1, <1>2, <1>15, <2>2, LeaveType DEF Close, Answer
    <2> QED
      BY <2>1, <2>2
  <1>16. ASSUME NEW id \in Slots, Abort(id) PROVE TypeInv'
    <2> DEFINE d == IF table[id].d.new THEN [disk EXCEPT ![table[id].file] = Absent] ELSE disk
    <2>1. d \in [Files -> OnDisk]
      BY <1>2
    <2>2. Leave("abort", id, d, "ok")
      BY <1>16 DEF Abort
    <2> HIDE DEF d
    <2> QED
      BY <1>1, <1>16, <2>1, <2>2, LeaveType DEF Abort, Answer
  <1>17. CASE UNCHANGED vars
    BY <1>17 DEF vars, TypeInv, Used, Sound
  <1> QED
    BY <1>3, <1>4, <1>5, <1>6, <1>8, <1>9, <1>10, <1>11, <1>12, <1>13, <1>14, <1>15,
       <1>16, <1>17 DEF Next

LEMMA InitType == Init => TypeInv
  <1> SUFFICES ASSUME Init PROVE TypeInv
    OBVIOUS
  <1>1. Used = {}
    BY DEF Init, Used
  <1>2. table \in [Slots -> {None} \cup Handle] /\ disk \in [Files -> OnDisk]
    BY DEF Init, OnDisk
  <1>3. reply = <<"none", 0, "ok">> /\ 0 \in -1 .. MaxFiles
    BY DEF Init
  <1> QED
    BY <1>1, <1>2, <1>3, FS_EmptySet DEF TypeInv, Init, Answer

(***************************************************************************)
(* Whatever fails in the driver and whatever IDs the application uses,     *)
(* every slot holds NULL or a PNC object, pnc_numfiles is the number of    *)
(* slots in use, and no file gets more variables than it may have.         *)
(***************************************************************************)
THEOREM TypeCorrect == Spec => []TypeOK
  <1>1. TypeInv => TypeOK
    BY DEF TypeInv, TypeOK, Used, Sound, Handle, OnDisk, Answer
  <1> QED
    BY <1>1, InitType, NextType, PTL DEF Spec

-----------------------------------------------------------------------------
(***************************************************************************)
(* The two layers.  LayersAgree alone is not what the calls keep: close    *)
(* and abort also rely on what is on disk, so the inductive invariant says *)
(* of every open file what its path holds, and that no other ID names it.  *)
(* A file is new exactly as long as its path has no header.                *)
(***************************************************************************)
Agrees(h) == /\ h.def = h.d.def
             /\ h.def => ~h.d.indep
             /\ ~h.def => h.indep = h.d.indep
             /\ ~h.def /\ h.indep => h.d.ifh

Stands(h, held) == /\ held # Absent
                   /\ h.d.new <=> held = Empty
                   /\ h.d.new => h.d.def
                   /\ ~h.d.def => held = h.d.vars

OneIdEach == \A s, t \in Used : table[s].file = table[t].file => s = t

AgreeInv == /\ TypeInv
            /\ OneIdEach
            /\ \A s \in Used : Agrees(table[s]) /\ Stands(table[s], disk[table[s].file])

LEMMA AnswersAgree ==
  ASSUME AgreeInv, TypeInv', UNCHANGED <<table, disk>>
  PROVE  AgreeInv'
  BY DEF AgreeInv, OneIdEach, Used

(* Only the path of the handle that is entered or changed may change. *)
LEMMA StoreAgrees ==
  ASSUME AgreeInv, TypeInv', NEW id \in Slots, NEW h \in Handle,
         table[id] = None => Closed(h.file),
         table[id] # None => h.file = table[id].file,
         table' = [table EXCEPT ![id] = h],
         \A f \in Files \ {h.file} : disk'[f] = disk[f],
         Agrees(h), Stands(h, disk'[h.file])
  PROVE  AgreeInv'
  <1>1. h # None
    OBVIOUS
  <1>2. Used' = Used \cup {id}
    BY <1>1 DEF Used, AgreeInv, TypeInv
  <1>3. \A s \in Used : /\ s \in Slots /\ table[s] # None
                        /\ table[s] \in Handle /\ table[s].file \in Files
    BY DEF Used, AgreeInv, TypeInv, Sound, Handle
  <1>4. table'[id] = h /\ \A s \in Used : s # id => table'[s] = table[s]
    BY <1>3 DEF AgreeInv, TypeInv
  <1>5. \A s \in Used : s # id => table[s].file # h.file
    <2>1. CASE table[id] = None
      BY <1>3, <2>1 DEF Closed
    <2>2. CASE table[id] # None
      BY <2>2 DEF AgreeInv, OneIdEach, Used
    <2> QED
      BY <2>1, <2>2
  <1>6. OneIdEach'
    BY <1>2, <1>4, <1>5 DEF AgreeInv, OneIdEach
  <1>7. ASSUME NEW s \in Used'
        PROVE  Agrees(table'[s]) /\ Stands(table'[s], disk'[table'[s].file])
    <2>1. CASE s = id
      BY <1>4, <2>1
    <2>2. CASE s # id
      <3>1. s \in Used /\ table'[s] = table[s]
        BY <1>2, <1>4, <2>2
      <3>2. disk'[table[s].file] = disk[table[s].file]
        BY <1>3, <1>5, <2>2, <3>1
      <3> QED
        BY <3>1, <3>2 DEF AgreeInv
    <2> QED
      BY <2>1, <2>2
  <1> QED
    BY <1>6, <1>7 DEF AgreeInv

LEMMA LeaveAgrees ==
  ASSUME AgreeInv, TypeInv', NEW id \in Used, NEW call, NEW d, NEW r,
         Leave(call, id, d, r),
         \A f \in Files \ {table[id].file} : d[f] = disk[f]
  PROVE  AgreeInv'
  <1>1. /\ table' = [table EXCEPT ![id] = None] /\ disk' = d
        /\ id \in Slots
    BY DEF Leave, Used
  <1>2. Used' = Used \ {id} /\ \A s \in Used' : table'[s] = table[s]
    BY <1>1 DEF Used, AgreeInv, TypeInv
  <1>3. \A s \in Used' : s \in Used /\ table[s].file \in Files \ {table[id].file}
    BY <1>2 DEF AgreeInv, OneIdEach, TypeInv, Sound, Handle
  <1>4. OneIdEach'
    BY <1>2 DEF AgreeInv, OneIdEach
  <1> QED
    BY <1>1, <1>2, <1>3, <1>4 DEF AgreeInv

(* The driver's enddef, when nothing fails in the driver itself. *)
LEMMA CleanEndDef ==
  ASSUME Faults = {}, NEW h, NEW e \in DriverEndDefs(h)
  PROVE  \/ e.d = h.d /\ e.disk = disk /\ e.ans = "failed"
         \/ e.d = Defined(h.d) /\ e.disk = [disk EXCEPT ![h.file] = h.d.vars] /\ e.ans = "ok"
  <1> DEFINE w == [disk EXCEPT ![h.file] = h.d.vars]
             t == Defined(h.d)
  <1>1. \/ e = [d |-> h.d, disk |-> disk, ans |-> "failed"]
        \/ e = [d |-> t, disk |-> w, ans |-> "ok"]
    BY Zenon DEF DriverEndDefs
  <1> HIDE DEF w, t
  <1>2. \/ e.d = h.d /\ e.disk = disk /\ e.ans = "failed"
        \/ e.d = t /\ e.disk = w /\ e.ans = "ok"
    BY <1>1
  <1> QED
    BY <1>2 DEF w, t

(* What the handles the calls store have to do with one another and with   *)
(* the disk.                                                               *)
LEMMA NewHandleAgrees ==
  ASSUME NEW f \in Files, NEW rdonly \in BOOLEAN, NEW vs \in Seq(Kinds), NEW nrec \in Int
  PROVE  /\ NewHandle(f, TRUE, rdonly, vs, nrec).file = f
         /\ NewHandle(f, FALSE, rdonly, vs, nrec).file = f
         /\ Agrees(NewHandle(f, TRUE, rdonly, vs, nrec))
         /\ Agrees(NewHandle(f, FALSE, rdonly, vs, nrec))
         /\ Stands(NewHandle(f, TRUE, rdonly, vs, nrec), Empty)
         /\ Stands(NewHandle(f, FALSE, rdonly, vs, nrec), vs)
  BY DEF NewHandle, Agrees, Stands

LEMMA ChangeAgrees ==
  ASSUME NEW h \in Handle, Sound(h), Agrees(h), NEW held, Stands(h, held)
  PROVE  /\ ~h.def => /\ AfterRedef(h).file = h.file
                       /\ Agrees(AfterRedef(h)) /\ Stands(AfterRedef(h), held)
         /\ ~h.def => /\ AfterBegin(h, TRUE).file = h.file
                       /\ Agrees(AfterBegin(h, TRUE)) /\ Stands(AfterBegin(h, TRUE), held)
         /\ ~h.def => /\ AfterEnd(h, TRUE).file = h.file
                       /\ Agrees(AfterEnd(h, TRUE)) /\ Stands(AfterEnd(h, TRUE), held)
         /\ \A kind \in Kinds :
               h.def => /\ AfterDefVar(h, kind).file = h.file
                        /\ Agrees(AfterDefVar(h, kind))
                        /\ Stands(AfterDefVar(h, kind), held)
         /\ \A e : /\ e.d = h.d /\ e.ans = "failed"
                   => /\ AfterEndDef(h, e).file = h.file
                      /\ Agrees(AfterEndDef(h, e)) /\ Stands(AfterEndDef(h, e), held)
         /\ \A e : h.def /\ e.d = Defined(h.d) /\ e.ans = "ok"
                   => /\ AfterEndDef(h, e).file = h.file
                      /\ Agrees(AfterEndDef(h, e)) /\ Stands(AfterEndDef(h, e), h.d.vars)
  <1>1. ~h.def => /\ AfterRedef(h).file = h.file
                  /\ Agrees(AfterRedef(h)) /\ Stands(AfterRedef(h), held)
    BY DEF Handle, AfterRedef, Agrees, Stands
  <1>2. ~h.def => /\ AfterBegin(h, TRUE).file = h.file
                  /\ Agrees(AfterBegin(h, TRUE)) /\ Stands(AfterBegin(h, TRUE), held)
    BY DEF Handle, AfterBegin, Agrees, Stands
  <1>3. ~h.def => /\ AfterEnd(h, TRUE).file = h.file
                  /\ Agrees(AfterEnd(h, TRUE)) /\ Stands(AfterEnd(h, TRUE), held)
    BY DEF Handle, AfterEnd, Agrees, Stands
  <1>4. ASSUME NEW kind \in Kinds, h.def
        PROVE  /\ AfterDefVar(h, kind).file = h.file
               /\ Agrees(AfterDefVar(h, kind)) /\ Stands(AfterDefVar(h, kind), held)
    BY <1>4 DEF Handle, AfterDefVar, Agrees, Stands
  <1>5. ASSUME NEW e, e.d = h.d, e.ans = "failed"
        PROVE  /\ AfterEndDef(h, e).file = h.file
               /\ Agrees(AfterEndDef(h, e)) /\ Stands(AfterEndDef(h, e), held)
    BY <1>5 DEF Handle, AfterEndDef, Agrees, Stands
  <1>6. ASSUME NEW e, h.def, e.d = Defined(h.d), e.ans = "ok"
        PROVE  /\ AfterEndDef(h, e).file = h.file
               /\ Agrees(AfterEndDef(h, e)) /\ Stands(AfterEndDef(h, e), h.d.vars)
    <2>1. h.d.vars # Absent /\ h.d.vars # Empty
      BY DEF Handle
    <2> QED
      BY <1>6, <2>1 DEF Handle, AfterEndDef, Defined, Agrees, Stands
  <1> QED
    BY <1>1, <1>2, <1>3, <1>4, <1>5, <1>6

LEMMA NextAgree ==
  ASSUME Faults = {}
  PROVE  AgreeInv /\ [Next]_vars => AgreeInv'
  <1> SUFFICES ASSUME AgreeInv, [Next]_vars PROVE AgreeInv'
    OBVIOUS
  <1> TypeInv'
    BY NextType DEF AgreeInv
  <1>1. \A id \in Slots : IsOpen(id) =>
            /\ id \in Used /\ table[id] # None /\ table[id] \in Handle
            /\ Sound(table[id]) /\ Agrees(table[id])
            /\ table[id].file \in Files /\ Stands(table[id], disk[table[id].file])
    BY DEF IsOpen, Used, AgreeInv, TypeInv, Sound, Handle
  <1>2. disk \in [Files -> OnDisk]
    BY DEF AgreeInv, TypeInv
  <1>3. ASSUME UNCHANGED <<table, disk>> PROVE AgreeInv'
    BY <1>3, AnswersAgree
  <1>4. ASSUME NEW f \in Files, NEW call, NEW made \in BOOLEAN, NEW h \in Handle,
               h.file = f, Closed(f), Agrees(h), NEW put, Stands(h, put[f]),
               \A g \in Files \ {f} : put[g] = disk[g], Enter(call, made, h, put)
        PROVE  AgreeInv'
    <2>1. CASE numfiles = MaxFiles \/ ~made
      BY <1>3, <1>4, <2>1 DEF Enter, Answers
    <2>2. CASE numfiles # MaxFiles /\ made
      <3>1. FreeSlot \in Slots /\ table[FreeSlot] = None
        BY <2>2, FreeSlotFree DEF AgreeInv, TypeInv
      <3> QED
        BY <1>4, <2>2, <3>1, StoreAgrees DEF Enter
    <2> QED
      BY <2>1, <2>2
  <1>5. ASSUME NEW f \in Files, Create(f) PROVE AgreeInv'
    <2> DEFINE h == NewHandle(f, TRUE, FALSE, << >>, 0)
               put == [disk EXCEPT ![f] = Empty]
    <2>1. << >> \in Seq(Kinds) /\ Len(<< >>) <= MaxVars /\ 0 \in Int
          /\ TRUE \in BOOLEAN /\ FALSE \in BOOLEAN
      OBVIOUS
    <2>2. h \in Handle /\ h.file = f /\ Agrees(h) /\ Stands(h, Empty)
      BY <2>1, NewHandleSound, NewHandleAgrees, ZenonT(30) DEF Sound
    <2>3. PICK made \in BOOLEAN : Enter("create", made, h, put)
      BY <1>5 DEF Create
    <2>4. put[f] = Empty /\ \A g \in Files \ {f} : put[g] = disk[g]
      BY <1>2
    <2>5. Closed(f)
      BY <1>5 DEF Create
    <2> HIDE DEF h, put
    <2> QED
      BY <1>4, <2>2, <2>3, <2>4, <2>5
  <1>6. ASSUME NEW f \in Files, Open(f) PROVE AgreeInv'
    <2>1. CASE disk[f] \in {Absent, Empty}
      BY <1>3, <1>6, <2>1 DEF Open, Answers
    <2>2. CASE disk[f] \notin {Absent, Empty}
      <3>1. disk[f] \in Seq(Kinds) /\ Len(disk[f]) <= MaxVars /\ Unset \in Int
            /\ FALSE \in BOOLEAN
        BY <1>2, <2>2 DEF OnDisk, Unset
      <3>2. PICK made, rdonly \in BOOLEAN :
              Enter("open", made, NewHandle(f, FALSE, rdonly, disk[f], Unset), disk)
        BY <1>6, <2>2 DEF Open
      <3> DEFINE h == NewHandle(f, FALSE, rdonly, disk[f], Unset)
      <3>3. h \in Handle
        BY <3>1, NewHandleSound DEF Sound
      <3>4. h.file = f /\ Agrees(h) /\ Stands(h, disk[f])
        <4>1. h.file = f /\ Agrees(h)
          BY DEF NewHandle, Agrees
        <4>2. h.d.vars = disk[f] /\ ~h.d.new /\ ~h.d.def
          BY DEF NewHandle
        <4>3. disk[f] # Absent /\ disk[f] # Empty
          BY <2>2
        <4> QED
          BY <4>1, <4>2, <4>3 DEF Stands
      <3>5. Closed(f)
        BY <1>6 DEF Open
      <3>6. Enter("open", made, h, disk)
        BY <3>2
      <3> HIDE DEF h
      <3> QED
        BY <1>4, <3>3, <3>4, <3>5, <3>6
    <2> QED
      BY <2>1, <2>2
  <1>7. CASE BadId
    BY <1>3, <1>7 DEF BadId, Answers
  <1>8. ASSUME NEW id \in Slots, IsOpen(id), NEW call, NEW h, Sound(h), NEW r,
               Updates(call, id, h, r), h.file = table[id].file, Agrees(h), Stands(h, disk[table[id].file])
        PROVE  AgreeInv'
    <2>1. table' = [table EXCEPT ![id] = h] /\ disk' = disk /\ h \in Handle
      BY <1>8 DEF Updates, Sound
    <2> QED
      BY <1>1, <1>8, <2>1, StoreAgrees
  <1>9. ASSUME NEW id \in Slots, EndDef(id) PROVE AgreeInv'
    <2>1. CASE ~table[id].def
      BY <1>3, <1>9, <2>1 DEF EndDef, Answers
    <2>2. CASE table[id].def
      <3>0. IsOpen(id)
        BY <1>9 DEF EndDef
      <3>1. PICK e \in DriverEndDefs(table[id]) :
              /\ table' = [table EXCEPT ![id] = AfterEndDef(table[id], e)]
              /\ disk' = e.disk
        BY <1>9, <2>2 DEF EndDef
      <3> DEFINE h == table[id]
                 g == AfterEndDef(h, e)
      <3>2. \/ e.d = h.d /\ e.disk = disk /\ e.ans = "failed"
            \/ e.d = Defined(h.d) /\ e.disk = [disk EXCEPT ![h.file] = h.d.vars] /\ e.ans = "ok"
        BY <3>1, CleanEndDef
      <3>3. \A f \in Files \ {h.file} : disk'[f] = disk[f]
        BY <1>2, <3>1, <3>2
      <3>4. Sound(g)
        BY <1>1, <3>0, <3>2, ChangeSound
      <3>5. g.file = h.file /\ Agrees(g) /\ Stands(g, disk'[h.file])
        <4>1. CASE e.d = h.d /\ e.disk = disk /\ e.ans = "failed"
          BY <1>1, <3>0, <3>1, <4>1, ChangeAgrees, ZenonT(30)
        <4>2. CASE e.d = Defined(h.d) /\ e.disk = [disk EXCEPT ![h.file] = h.d.vars] /\ e.ans = "ok"
          <5>1. disk'[h.file] = h.d.vars
            BY <1>1, <1>2, <3>0, <3>1, <4>2
          <5> QED
            BY <1>1, <2>2, <3>0, <4>2, <5>1, ChangeAgrees
        <4> QED
          BY <3>2, <4>1, <4>2
      <3>6. g \in Handle /\ table' = [table EXCEPT ![id] = g]
        BY <3>1, <3>4 DEF Sound
      <3> HIDE DEF g
      <3> QED
        BY <1>1, <3>0, <3>3, <3>5, <3>6, StoreAgrees
    <2> QED
      BY <2>1, <2>2
  <1>10. ASSUME NEW id \in Slots, Redef(id) PROVE AgreeInv'
    <2>1. CASE table[id].rdonly \/ table[id].def
      BY <1>3, <1>10, <2>1 DEF Redef, Answers
    <2>2. CASE ~(table[id].rdonly \/ table[id].def)
      <3>1. IsOpen(id) /\ Updates("redef", id, AfterRedef(table[id]), "ok")
        BY <1>10, <2>2 DEF Redef
      <3>2. Sound(AfterRedef(table[id]))
        BY <1>1, <3>1, ChangeSound
      <3> QED
        BY <1>1, <1>8, <2>2, <3>1, <3>2, ChangeAgrees
    <2> QED
      BY <2>1, <2>2
  <1>11. ASSUME NEW id \in Slots, BeginIndep(id) PROVE AgreeInv'
    <2>1. CASE table[id].d.def
      BY <1>3, <1>11, <2>1 DEF BeginIndep, Answers
    <2>2. CASE ~(table[id].d.def)
      <3>1. IsOpen(id) /\ Updates("begin_indep", id, AfterBegin(table[id], TRUE), "ok")
        BY <1>11, <2>2 DEF BeginIndep
      <3>2. table[id].def = table[id].d.def
        BY <1>1, <3>1 DEF Agrees
      <3>3. Sound(AfterBegin(table[id], TRUE))
        BY <1>1, <3>1, ChangeSound
      <3> QED
        BY <1>1, <1>8, <2>2, <3>1, <3>2, <3>3, ChangeAgrees
    <2> QED
      BY <2>1, <2>2
  <1>12. ASSUME NEW id \in Slots, EndIndep(id) PROVE AgreeInv'
    <2>1. CASE table[id].d.def
      BY <1>3, <1>12, <2>1 DEF EndIndep, Answers
    <2>2. CASE ~(table[id].d.def)
      <3>1. IsOpen(id) /\ Updates("end_indep", id, AfterEnd(table[id], TRUE), "ok")
        BY <1>12, <2>2 DEF EndIndep
      <3>2. table[id].def = table[id].d.def
        BY <1>1, <3>1 DEF Agrees
      <3>3. Sound(AfterEnd(table[id], TRUE))
        BY <1>1, <3>1, ChangeSound
      <3> QED
        BY <1>1, <1>8, <2>2, <3>1, <3>2, <3>3, ChangeAgrees
    <2> QED
      BY <2>1, <2>2
  <1>13. ASSUME NEW id \in Slots, NEW kind \in Kinds, DefVar(id, kind) PROVE AgreeInv'
    <2>1. CASE \E r : Answers("def_var", id, r)
      BY <1>3, <2>1 DEF Answers
    <2>2. CASE ~\E r : Answers("def_var", id, r)
      <3>1. /\ IsOpen(id) /\ table[id].def /\ Len(table[id].vars) < MaxVars
            /\ Updates("def_var", id, AfterDefVar(table[id], kind), "ok")
        BY <1>13, <2>2 DEF DefVar
      <3>2. Sound(AfterDefVar(table[id], kind))
        BY <1>1, <3>1, ChangeSound
      <3> QED
        BY <1>1, <1>8, <3>1, <3>2, ChangeAgrees
    <2> QED
      BY <2>1, <2>2
  <1>14. ASSUME NEW id \in Slots,
                \/ SetFill(id) \/ Sync(id) \/ \E coll \in BOOLEAN : Wait(id, coll)
                \/ \E call, v : PutGet(id, call, v)
                \/ \E v : FillVarRec(id, v)
         PROVE  AgreeInv'
    BY <1>3, <1>14 DEF SetFill, Sync, Wait, PutGet, FillVarRec, Answers
  <1>15. ASSUME NEW id \in Slots, Close(id) PROVE AgreeInv'
    <2>1. CASE table[id].d.def
      <3>1. PICK e \in DriverEndDefs(table[id]) : Leave("close", id, e.disk, e.ans)
        BY <1>15, <2>1 DEF Close
      <3>2. e.disk \in {disk, [disk EXCEPT ![table[id].file] = table[id].d.vars]}
        BY <3>1, CleanEndDef
      <3>3. \A f \in Files \ {table[id].file} : e.disk[f] = disk[f]
        BY <1>2, <3>2
      <3> QED
        BY <1>1, <1>15, <3>1, <3>3, LeaveAgrees DEF Close
    <2>2. CASE ~table[id].d.def
      BY <1>1, <1>15, <2>2, LeaveAgrees DEF Close
    <2> QED
      BY <2>1, <2>2
  <1>16. ASSUME NEW id \in Slots, Abort(id) PROVE AgreeInv'
    <2> DEFINE d == IF table[id].d.new THEN [disk EXCEPT ![table[id].file] = Absent] ELSE disk
    <2>1. \A f \in Files \ {table[id].file} : d[f] = disk[f]
      BY <1>2
    <2>2. Leave("abort", id, d, "ok") /\ IsOpen(id)
      BY <1>16 DEF Abort
    <2> HIDE DEF d
    <2> QED
      BY <1>1, <2>1, <2>2, LeaveAgrees
  <1>17. CASE UNCHANGED vars
    BY <1>3, <1>17 DEF vars
  <1> QED
    BY <1>5, <1>6, <1>7, <1>9, <1>10, <1>11, <1>12, <1>13, <1>14, <1>15, <1>16, <1>17 DEF Next

LEMMA InitAgree == Init => AgreeInv
  BY InitType DEF Init, AgreeInv, OneIdEach, Used

(***************************************************************************)
(* While no call of the driver fails half-way, the dispatcher and the      *)
(* driver never disagree on the mode of a file or on its variables, and a  *)
(* file in independent mode has its independent handle open.               *)
(***************************************************************************)
THEOREM LayersStayAgreed ==
  ASSUME Faults = {}
  PROVE  Spec => []LayersAgree
  <1>1. AgreeInv => LayersAgree
    BY DEF AgreeInv, LayersAgree, Used, Agrees, TypeInv, Sound
  <1>2. AgreeInv /\ [Next]_vars => AgreeInv'
    BY NextAgree
  <1> QED
    BY <1>1, <1>2, InitAgree, PTL DEF Spec

-----------------------------------------------------------------------------
(***************************************************************************)
(* The refinement.  Seen of a handle is one record of FileHandles; what    *)
(* a call does to the table is what FileHandles does to its open files.    *)
(***************************************************************************)
SeenFile == [file : Files, write : BOOLEAN, vars : Seq(Kinds),
             mode : {"define", "independent", "collective"}]

LEMMA SeenType ==
  ASSUME NEW h \in Handle
  PROVE  Seen(h) \in SeenFile
  BY DEF Seen, SeenFile, Handle

LEMMA SeenChange ==
  ASSUME NEW h \in Handle, NEW g \in Handle, g.file = h.file, g.rdonly = h.rdonly
  PROVE  /\ g.d.vars = h.d.vars => Seen(g) = [Seen(h) EXCEPT !.mode = Seen(g).mode]
         /\ g.def /\ h.def => Seen(g) = [Seen(h) EXCEPT !.vars = g.d.vars]
  <1>1. ASSUME NEW r \in SeenFile, NEW m
        PROVE  /\ [r EXCEPT !.mode = m] =
                    [file |-> r.file, write |-> r.write, vars |-> r.vars, mode |-> m]
               /\ [r EXCEPT !.vars = m] =
                    [file |-> r.file, write |-> r.write, vars |-> m, mode |-> r.mode]
    BY DEF SeenFile
  <1>2. /\ [Seen(h) EXCEPT !.mode = Seen(g).mode] =
             [file |-> h.file, write |-> ~h.rdonly, vars |-> h.d.vars, mode |-> Seen(g).mode]
        /\ [Seen(h) EXCEPT !.vars = g.d.vars] =
             [file |-> h.file, write |-> ~h.rdonly, vars |-> g.d.vars, mode |-> Seen(h).mode]
    <2>1. Seen(h).file = h.file /\ Seen(h).write = ~h.rdonly /\ Seen(h).vars = h.d.vars
      BY DEF Seen
    <2> DEFINE r == Seen(h)
    <2>2. r \in SeenFile
      BY SeenType
    <2> HIDE DEF r
    <2>3. /\ [r EXCEPT !.mode = Seen(g).mode] =
               [file |-> r.file, write |-> r.write, vars |-> r.vars, mode |-> Seen(g).mode]
          /\ [r EXCEPT !.vars = g.d.vars] =
               [file |-> r.file, write |-> r.write, vars |-> g.d.vars, mode |-> r.mode]
      BY <1>1, <2>2
    <2> QED
      BY <2>1, <2>3, Zenon DEF r
  <1>3. g.def /\ h.def => Seen(g).mode = Seen(h).mode
    BY DEF Seen
  <1>4. Seen(g) = [file |-> g.file, write |-> ~g.rdonly, vars |-> g.d.vars,
                   mode |-> Seen(g).mode]
    BY DEF Seen
  <1> QED
    BY <1>2, <1>3, <1>4

LEMMA OpenedSame ==
  ASSUME UNCHANGED table
  PROVE  Opened' = Opened
  BY DEF Opened, Used

LEMMA OpenedEnter ==
  ASSUME TypeInv, NEW id \in Slots, table[id] = None, NEW h \in Handle,
         table' = [table EXCEPT ![id] = h]
  PROVE  Opened' = Handles!With(Opened, id, Seen(h))
  <1>1. h # None
    OBVIOUS
  <1>2. Used' = Used \cup {id} /\ id \notin Used
    BY <1>1 DEF Used, TypeInv
  <1>3. table'[id] = h /\ \A s \in Used : table'[s] = table[s] /\ s # id
    BY <1>2 DEF TypeInv, Used
  <1> QED
    BY <1>2, <1>3 DEF Opened, Handles!With

LEMMA OpenedUpdate ==
  ASSUME TypeInv, NEW id \in Used, NEW h \in Handle, table' = [table EXCEPT ![id] = h]
  PROVE  Opened' = [Opened EXCEPT ![id] = Seen(h)]
  <1>1. h # None
    OBVIOUS
  <1>2. Used' = Used
    BY <1>1 DEF Used, TypeInv
  <1>3. table'[id] = h /\ \A s \in Used : s # id => table'[s] = table[s]
    BY DEF TypeInv, Used
  <1>4. Opened' = [s \in Used |-> IF s = id THEN Seen(h) ELSE Seen(table[s])]
    BY <1>2, <1>3 DEF Opened
  <1>5. [Opened EXCEPT ![id] = Seen(h)] =
          [s \in Used |-> IF s = id THEN Seen(h) ELSE Seen(table[s])]
    BY DEF Opened
  <1> QED
    BY <1>4, <1>5

LEMMA OpenedLeave ==
  ASSUME TypeInv, NEW id \in Used, table' = [table EXCEPT ![id] = None]
  PROVE  Opened' = Handles!Without(Opened, id)
  <1>1. Used' = Used \ {id}
    BY DEF Used, TypeInv
  <1>2. \A s \in Used' : table'[s] = table[s]
    BY <1>1 DEF TypeInv, Used
  <1> QED
    BY <1>1, <1>2 DEF Opened, Handles!Without

AbstractStep == [Handles!Next]_<<Opened, disk, reply>>

(* The steps of FileHandles, one lemma for each kind.                      *)
LEMMA NotDoneStep ==
  ASSUME TypeInv, UNCHANGED <<table, disk>>,
         \/ reply'[3] = "failed"
         \/ Used = Slots /\ reply'[3] = "toomany"
         \/ reply'[2] \notin Used /\ reply'[3] = "badid"
  PROVE  AbstractStep
  <1>1. DOMAIN Opened = Used
    BY DEF Opened
  <1>2. Handles!NotDone
    BY <1>1, OpenedSame DEF Handles!NotDone, Slots
  <1> QED
    BY <1>2 DEF AbstractStep, Handles!Next

LEMMA PlainStep ==
  ASSUME NEW id \in Used, NEW call \in Handles!PlainCalls,
         Answers(call, id, IF Handles!Needs(call, Seen(table[id])) THEN "ok" ELSE "refused")
  PROVE  AbstractStep
  <1>1. id \in DOMAIN Opened /\ Opened[id] = Seen(table[id]) /\ Opened' = Opened
    BY OpenedSame DEF Opened, Answers
  <1>2. Handles!PlainCall(id, call)
    BY <1>1 DEF Handles!PlainCall, Answers
  <1> QED
    BY <1>1, <1>2 DEF AbstractStep, Handles!Next

LEMMA RefusedStep ==
  ASSUME NEW id \in Used, NEW call,
         Answers(call, id, "refused"),
         \/ call \in Handles!ModeCalls /\ ~Handles!MayChange(call, Seen(table[id]))
         \/ call = "def_var" /\ ~table[id].def
  PROVE  AbstractStep
  <1>1. id \in DOMAIN Opened /\ Opened[id] = Seen(table[id]) /\ Opened' = Opened
    BY OpenedSame DEF Opened, Answers
  <1>2. CASE call \in Handles!ModeCalls /\ ~Handles!MayChange(call, Seen(table[id]))
    <2>1. Handles!ModeCall(id, call)
      BY <1>1, <1>2 DEF Handles!ModeCall, Answers
    <2> QED
      BY <1>1, <1>2, <2>1 DEF AbstractStep, Handles!Next
  <1>3. CASE call = "def_var" /\ ~table[id].def
    <2>1. Seen(table[id]).mode # "define"
      BY <1>3 DEF Seen
    <2>2. Handles!DefVar(id)
      BY <1>1, <1>3, <2>1 DEF Handles!DefVar, Answers
    <2> QED
      BY <1>1, <2>2 DEF AbstractStep, Handles!Next
  <1> QED
    BY <1>2, <1>3

LEMMA ModeStep ==
  ASSUME TypeInv, NEW id \in Used, NEW call \in Handles!ModeCalls, NEW g \in Handle,
         Handles!MayChange(call, Seen(table[id])),
         g.file = table[id].file, g.rdonly = table[id].rdonly, g.d.vars = table[id].d.vars,
         Seen(g).mode = Handles!NextMode(call),
         table' = [table EXCEPT ![id] = g],
         disk' = IF call = "enddef"
                 THEN [disk EXCEPT ![table[id].file] = table[id].d.vars] ELSE disk,
         reply' = <<call, id, "ok">>
  PROVE  AbstractStep
  <1>1. id \in DOMAIN Opened /\ Opened[id] = Seen(table[id])
    BY DEF Opened
  <1>2. /\ Opened[id].file = table[id].file /\ Opened[id].vars = table[id].d.vars
    BY <1>1 DEF Seen
  <1>3. Opened' = [Opened EXCEPT ![id].mode = Handles!NextMode(call)]
    <2>1. table[id] \in Handle
      BY DEF TypeInv, Sound
    <2>2. Seen(g) = [Seen(table[id]) EXCEPT !.mode = Handles!NextMode(call)]
      BY <2>1, SeenChange
    <2>3. Opened' = [Opened EXCEPT ![id] = Seen(g)]
      BY OpenedUpdate
    <2> QED
      BY <1>1, <2>2, <2>3
  <1>4. Handles!ModeCall(id, call)
    BY <1>1, <1>2, <1>3 DEF Handles!ModeCall
  <1> QED
    BY <1>1, <1>4 DEF AbstractStep, Handles!Next

LEMMA LeaveStep ==
  ASSUME TypeInv, NEW id \in Used, NEW call, NEW d, NEW r, Leave(call, id, d, r),
         \/ /\ call = "close" /\ r = "ok"
            /\ d = [disk EXCEPT ![table[id].file] = table[id].d.vars]
         \/ /\ call = "close" /\ r = "failed"
            /\ table[id].def /\ d = disk
         \/ /\ call = "abort" /\ r = "ok"
            /\ d = [disk EXCEPT ![table[id].file] = IF @ = Empty THEN Absent ELSE @]
  PROVE  AbstractStep
  <1>1. id \in DOMAIN Opened /\ Opened[id] = Seen(table[id])
    BY DEF Opened
  <1>2. /\ Opened[id].file = table[id].file /\ Opened[id].vars = table[id].d.vars
        /\ table[id].def => Opened[id].mode = "define"
    BY <1>1 DEF Seen
  <1>3. /\ Opened' = Handles!Without(Opened, id)
        /\ disk' = d /\ reply' = <<call, id, r>>
    BY OpenedLeave DEF Leave
  <1>4. Handles!Close(id) \/ Handles!Abort(id)
    BY <1>2, <1>3 DEF Handles!Close, Handles!Abort
  <1> QED
    BY <1>1, <1>4 DEF AbstractStep, Handles!Next

LEMMA EnterStep ==
  ASSUME AgreeInv, NEW f \in Files, NEW call, NEW made \in BOOLEAN, NEW h \in Handle,
         h.file = f, NEW put, Enter(call, made, h, put),
         \/ /\ call = "create" /\ h.def /\ ~h.rdonly /\ h.d.vars = << >>
            /\ put = [disk EXCEPT ![f] = Empty]
         \/ /\ call = "open" /\ ~h.def /\ ~h.indep /\ h.d.vars = disk[f]
            /\ disk[f] \notin {Absent, Empty} /\ put = disk
  PROVE  AbstractStep
  <1>1. CASE numfiles = MaxFiles
    <2>1. Used = Slots
      BY <1>1, UsedFinite DEF AgreeInv, TypeInv
    <2>2. UNCHANGED <<table, disk>> /\ reply'[3] = "toomany"
      BY <1>1 DEF Enter, Answers
    <2> QED
      BY <2>1, <2>2, NotDoneStep DEF AgreeInv
  <1>2. CASE numfiles # MaxFiles /\ ~made
    <2>1. UNCHANGED <<table, disk>> /\ reply'[3] = "failed"
      BY <1>2 DEF Enter, Answers
    <2> QED
      BY <2>1, NotDoneStep DEF AgreeInv
  <1>3. CASE numfiles # MaxFiles /\ made
    <2>1. FreeSlot \in Slots /\ table[FreeSlot] = None
      BY <1>3, FreeSlotFree DEF AgreeInv, TypeInv
    <2>2. /\ table' = [table EXCEPT ![FreeSlot] = h]
          /\ disk' = put /\ reply' = <<call, FreeSlot, "ok">>
      BY <1>3 DEF Enter
    <2>3. Opened' = Handles!With(Opened, FreeSlot, Seen(h))
      BY <2>1, <2>2, OpenedEnter DEF AgreeInv
    <2>4. FreeSlot \in (0 .. MaxFiles - 1) \ DOMAIN Opened
      BY <2>1 DEF Slots, Opened, Used
    <2>5. CASE /\ call = "create" /\ h.def /\ ~h.rdonly /\ h.d.vars = << >>
               /\ put = [disk EXCEPT ![f] = Empty]
      <3>1. Seen(h) = [file |-> f, mode |-> "define", write |-> TRUE, vars |-> << >>]
        BY <2>5 DEF Seen
      <3>2. Handles!Create(f)
        BY <2>2, <2>3, <2>4, <2>5, <3>1 DEF Handles!Create
      <3> QED
        BY <3>2 DEF AbstractStep, Handles!Next
    <2>6. CASE /\ call = "open" /\ ~h.def /\ ~h.indep /\ h.d.vars = disk[f]
               /\ disk[f] \notin {Absent, Empty} /\ put = disk
      <3>1. Seen(h) = [file |-> f, mode |-> "collective", write |-> ~h.rdonly,
                       vars |-> disk[f]]
        BY <2>6 DEF Seen
      <3>2. (~h.rdonly) \in BOOLEAN
        OBVIOUS
      <3>3. Handles!Open(f)
        BY <2>2, <2>3, <2>4, <2>6, <3>1, <3>2 DEF Handles!Open
      <3> QED
        BY <3>3 DEF AbstractStep, Handles!Next
    <2> QED
      BY <2>5, <2>6
  <1> QED
    BY <1>1, <1>2, <1>3

LEMMA EndDefKeeps ==
  ASSUME NEW h \in Handle, NEW e, e.d = Defined(h.d), e.ans = "ok"
  PROVE  /\ AfterEndDef(h, e).file = h.file /\ AfterEndDef(h, e).rdonly = h.rdonly
         /\ AfterEndDef(h, e).d.vars = h.d.vars
         /\ ~AfterEndDef(h, e).def /\ ~AfterEndDef(h, e).indep
  BY DEF AfterEndDef, Defined, Handle

LEMMA NextRefines ==
  ASSUME Faults = {}, SafeMode, ~StaleIds, AgreeInv, [Next]_vars
  PROVE  AbstractStep
  <1>1. \A id \in Slots : IsOpen(id) =>
            /\ id \in Used /\ table[id] # None /\ table[id] \in Handle
            /\ Sound(table[id]) /\ Agrees(table[id])
            /\ table[id].file \in Files /\ Stands(table[id], disk[table[id].file])
    BY DEF IsOpen, Used, AgreeInv, TypeInv, Sound, Handle
  <1>2. TypeInv /\ disk \in [Files -> OnDisk]
    BY DEF AgreeInv, TypeInv
  <1>3. ASSUME NEW call, NEW id, Answers(call, id, "failed") PROVE AbstractStep
    BY <1>2, <1>3, NotDoneStep DEF Answers
  <1>4. ASSUME NEW f \in Files, Create(f) PROVE AbstractStep
    <2> DEFINE h == NewHandle(f, TRUE, FALSE, << >>, 0)
    <2>1. << >> \in Seq(Kinds) /\ Len(<< >>) <= MaxVars /\ 0 \in Int
          /\ TRUE \in BOOLEAN /\ FALSE \in BOOLEAN
      OBVIOUS
    <2>2. h \in Handle
      BY <2>1, NewHandleSound, Zenon DEF Sound
    <2>3. h.file = f /\ h.def /\ ~h.rdonly /\ h.d.vars = << >>
      BY DEF NewHandle
    <2>4. PICK made \in BOOLEAN : Enter("create", made, h, [disk EXCEPT ![f] = Empty])
      BY <1>4 DEF Create
    <2> HIDE DEF h
    <2> QED
      BY <2>2, <2>3, <2>4, EnterStep
  <1>5. ASSUME NEW f \in Files, Open(f) PROVE AbstractStep
    <2>1. CASE disk[f] \in {Absent, Empty}
      BY <1>3, <1>5, <2>1 DEF Open
    <2>2. CASE disk[f] \notin {Absent, Empty}
      <3>1. disk[f] \in Seq(Kinds) /\ Len(disk[f]) <= MaxVars /\ Unset \in Int
            /\ FALSE \in BOOLEAN
        BY <1>2, <2>2 DEF OnDisk, Unset
      <3>2. PICK made, rdonly \in BOOLEAN :
              Enter("open", made, NewHandle(f, FALSE, rdonly, disk[f], Unset), disk)
        BY <1>5, <2>2 DEF Open
      <3> DEFINE h == NewHandle(f, FALSE, rdonly, disk[f], Unset)
      <3>3. h \in Handle
        BY <3>1, NewHandleSound DEF Sound
      <3>4. h.file = f /\ ~h.def /\ ~h.indep /\ h.d.vars = disk[f]
        BY DEF NewHandle
      <3>5. Enter("open", made, h, disk)
        BY <3>2
      <3> HIDE DEF h
      <3> QED
        BY <2>2, <3>3, <3>4, <3>5, EnterStep
    <2> QED
      BY <2>1, <2>2
  <1>6. CASE BadId
    <2>1. PICK id \in -1 .. MaxFiles :
            /\ ~IsOpen(id)
            /\ Answers("any", id, "badid")
      BY <1>6 DEF BadId
    <2>2. id \notin Used
      BY <2>1 DEF IsOpen, Used
    <2> QED
      BY <1>2, <2>1, <2>2, NotDoneStep DEF Answers
  <1>7. ASSUME NEW id \in Slots, EndDef(id) PROVE AbstractStep
    <2> DEFINE h == table[id]
    <2>0. IsOpen(id)
      BY <1>7 DEF EndDef
    <2>1. CASE ~h.def
      <3>1. ~Handles!MayChange("enddef", Seen(h)) /\ "enddef" \in Handles!ModeCalls
        BY <2>1 DEF Seen, Handles!MayChange, Handles!ModeCalls
      <3> QED
        BY <1>1, <1>7, <2>0, <2>1, <3>1, RefusedStep DEF EndDef
    <2>2. CASE h.def
      <3>1. PICK e \in DriverEndDefs(h) :
              /\ table' = [table EXCEPT ![id] = AfterEndDef(h, e)]
              /\ disk' = e.disk
              /\ reply' = <<"enddef", id, e.ans>>
        BY <1>7, <2>2 DEF EndDef
      <3>2. CASE e.d = h.d /\ e.disk = disk /\ e.ans = "failed"
        <4>1. AfterEndDef(h, e) = h
          BY <1>1, <2>0, <3>2 DEF AfterEndDef, Handle
        <4>2. table' = table
          BY <1>2, <3>1, <4>1 DEF TypeInv
        <4> QED
          BY <1>2, <3>1, <3>2, <4>2, NotDoneStep
      <3>3. CASE /\ e.d = Defined(h.d) /\ e.ans = "ok"
                 /\ e.disk = [disk EXCEPT ![h.file] = h.d.vars]
        <4> DEFINE g == AfterEndDef(h, e)
        <4>1. g \in Handle
          BY <1>1, <2>0, <3>3, ChangeSound DEF Sound
        <4>2. /\ g.file = h.file /\ g.rdonly = h.rdonly /\ g.d.vars = h.d.vars
              /\ ~g.def /\ ~g.indep
          BY <1>1, <2>0, <3>3, EndDefKeeps
        <4>3. /\ Handles!MayChange("enddef", Seen(h)) /\ "enddef" \in Handles!ModeCalls
              /\ Seen(g).mode = Handles!NextMode("enddef")
          BY <2>2, <4>2 DEF Seen, Handles!MayChange, Handles!ModeCalls, Handles!NextMode
        <4> HIDE DEF g
        <4> QED
          BY <1>1, <1>2, <2>0, <3>1, <3>3, <4>1, <4>2, <4>3, ModeStep DEF g
      <3> QED
        BY <3>1, <3>2, <3>3, CleanEndDef
    <2> QED
      BY <2>1, <2>2
  <1>8. ASSUME NEW id \in Slots, Redef(id) PROVE AbstractStep
    <2> DEFINE h == table[id]
               g == AfterRedef(h)
    <2>0. IsOpen(id) /\ "redef" \in Handles!ModeCalls
      BY <1>8 DEF Redef, Handles!ModeCalls
    <2>1. CASE h.rdonly \/ h.def
      <3>1. ~Handles!MayChange("redef", Seen(h))
        BY <2>1 DEF Seen, Handles!MayChange
      <3> QED
        BY <1>1, <1>8, <2>0, <2>1, <3>1, RefusedStep DEF Redef
    <2>2. CASE ~(h.rdonly \/ h.def)
      <3>1. g \in Handle
        BY <1>1, <2>0, ChangeSound DEF Sound
      <3>2. /\ g.file = h.file /\ g.rdonly = h.rdonly /\ g.d.vars = h.d.vars
            /\ g.def
        BY <1>1, <2>0 DEF AfterRedef, Handle
      <3>3. /\ Handles!MayChange("redef", Seen(h))
            /\ Seen(g).mode = Handles!NextMode("redef")
        BY <2>2, <3>2 DEF Seen, Handles!MayChange, Handles!NextMode
      <3>4. /\ table' = [table EXCEPT ![id] = g] /\ disk' = disk
            /\ reply' = <<"redef", id, "ok">>
        BY <1>8, <2>2 DEF Redef, Updates
      <3> HIDE DEF g
      <3> QED
        BY <1>1, <1>2, <2>0, <3>1, <3>2, <3>3, <3>4, ModeStep
    <2> QED
      BY <2>1, <2>2
  <1>9. ASSUME NEW id \in Slots, BeginIndep(id) PROVE AbstractStep
    <2> DEFINE h == table[id]
               g == AfterBegin(h, TRUE)
    <2>0. IsOpen(id) /\ "begin_indep" \in Handles!ModeCalls /\ h.def = h.d.def
      BY <1>1, <1>9 DEF BeginIndep, Handles!ModeCalls, Agrees
    <2>1. CASE h.def
      <3>1. ~Handles!MayChange("begin_indep", Seen(h))
        BY <2>1 DEF Seen, Handles!MayChange
      <3> QED
        BY <1>1, <1>9, <2>0, <2>1, <3>1, RefusedStep DEF BeginIndep
    <2>2. CASE ~h.def
      <3>1. g \in Handle
        BY <1>1, <2>0, ChangeSound DEF Sound
      <3>2. /\ g.file = h.file /\ g.rdonly = h.rdonly /\ g.d.vars = h.d.vars
            /\ ~g.def /\ g.indep
        BY <1>1, <2>0, <2>2 DEF AfterBegin, Handle
      <3>3. /\ Handles!MayChange("begin_indep", Seen(h))
            /\ Seen(g).mode = Handles!NextMode("begin_indep")
        BY <2>2, <3>2 DEF Seen, Handles!MayChange, Handles!NextMode
      <3>4. /\ table' = [table EXCEPT ![id] = g] /\ disk' = disk
            /\ reply' = <<"begin_indep", id, "ok">>
        BY <1>9, <2>0, <2>2 DEF BeginIndep, Updates
      <3> HIDE DEF g
      <3> QED
        BY <1>1, <1>2, <2>0, <3>1, <3>2, <3>3, <3>4, ModeStep
    <2> QED
      BY <2>1, <2>2
  <1>10. ASSUME NEW id \in Slots, EndIndep(id) PROVE AbstractStep
    <2> DEFINE h == table[id]
               g == AfterEnd(h, TRUE)
    <2>0. IsOpen(id) /\ "end_indep" \in Handles!ModeCalls /\ h.def = h.d.def
      BY <1>1, <1>10 DEF EndIndep, Handles!ModeCalls, Agrees
    <2>1. CASE h.def
      <3>1. ~Handles!MayChange("end_indep", Seen(h))
        BY <2>1 DEF Seen, Handles!MayChange
      <3> QED
        BY <1>1, <1>10, <2>0, <2>1, <3>1, RefusedStep DEF EndIndep
    <2>2. CASE ~h.def
      <3>1. g \in Handle
        BY <1>1, <2>0, ChangeSound DEF Sound
      <3>2. /\ g.file = h.file /\ g.rdonly = h.rdonly /\ g.d.vars = h.d.vars
            /\ ~g.def /\ ~g.indep
        BY <1>1, <2>0, <2>2 DEF AfterEnd, Handle
      <3>3. /\ Handles!MayChange("end_indep", Seen(h))
            /\ Seen(g).mode = Handles!NextMode("end_indep")
        BY <2>2, <3>2 DEF Seen, Handles!MayChange, Handles!NextMode
      <3>4. /\ table' = [table EXCEPT ![id] = g] /\ disk' = disk
            /\ reply' = <<"end_indep", id, "ok">>
        BY <1>10, <2>0, <2>2 DEF EndIndep, Updates
      <3> HIDE DEF g
      <3> QED
        BY <1>1, <1>2, <2>0, <3>1, <3>2, <3>3, <3>4, ModeStep
    <2> QED
      BY <2>1, <2>2
  <1>11. ASSUME NEW id \in Slots, NEW kind \in Kinds, DefVar(id, kind) PROVE AbstractStep
    <2> DEFINE h == table[id]
               g == AfterDefVar(h, kind)
    <2>0. IsOpen(id) /\ Len(h.vars) < MaxVars
      BY <1>11 DEF DefVar
    <2>1. CASE ~h.def
      BY <1>1, <1>11, <2>0, <2>1, RefusedStep DEF DefVar
    <2>2. CASE h.def /\ Answers("def_var", id, "failed")
      BY <1>3, <2>2
    <2>3. CASE h.def /\ Updates("def_var", id, g, "ok")
      <3>1. g \in Handle
        BY <1>1, <2>0, ChangeSound DEF Sound
      <3>2. /\ g.file = h.file /\ g.rdonly = h.rdonly /\ g.def
            /\ g.d.vars = Append(h.d.vars, kind)
        BY <1>1, <2>0, <2>3 DEF AfterDefVar, Handle
      <3>3. /\ table' = [table EXCEPT ![id] = g] /\ disk' = disk
            /\ reply' = <<"def_var", id, "ok">>
        BY <2>3 DEF Updates
      <3>4. id \in DOMAIN Opened /\ Opened[id] = Seen(h)
            /\ Opened[id].vars = h.d.vars /\ Opened[id].mode = "define"
        BY <1>1, <2>0, <2>3 DEF Opened, Seen
      <3> HIDE DEF g
      <3>5. Opened' = [Opened EXCEPT ![id].vars = Append(@, kind)]
        <4>1. Opened' = [Opened EXCEPT ![id] = Seen(g)]
          BY <1>1, <1>2, <2>0, <3>1, <3>3, OpenedUpdate
        <4>2. Seen(g) = [Seen(h) EXCEPT !.vars = Append(h.d.vars, kind)]
          BY <1>1, <2>0, <2>3, <3>1, <3>2, SeenChange
        <4> QED
          BY <3>4, <4>1, <4>2
      <3>6. Handles!DefVar(id)
        BY <3>3, <3>4, <3>5 DEF Handles!DefVar, Kinds
      <3> QED
        BY <3>4, <3>6 DEF AbstractStep, Handles!Next
    <2> QED
      BY <1>11, <2>1, <2>2, <2>3 DEF DefVar
  <1>12. ASSUME NEW id \in Slots, SetFill(id) PROVE AbstractStep
    <2>1. Handles!Needs("set_fill", Seen(table[id])) <=> ~(table[id].rdonly \/ ~table[id].def)
      BY DEF Seen, Handles!Needs
    <2> QED
      BY <1>1, <1>12, <2>1, PlainStep DEF SetFill, Handles!PlainCalls
  <1>13. ASSUME NEW id \in Slots, Sync(id) PROVE AbstractStep
    <2>1. Handles!Needs("sync", Seen(table[id])) <=> ~table[id].def
      BY DEF Seen, Handles!Needs
    <2> QED
      BY <1>1, <1>13, <2>1, PlainStep DEF Sync, Handles!PlainCalls, Agrees
  <1>14. ASSUME NEW id \in Slots, NEW coll \in BOOLEAN, Wait(id, coll) PROVE AbstractStep
    <2> DEFINE call == IF coll THEN "wait_all" ELSE "wait"
    <2>1. IsOpen(id) =>
            (Handles!Needs(call, Seen(table[id])) <=>
             ~table[id].def /\ table[id].indep # coll)
      <3>1. IsOpen(id) => table[id].indep \in BOOLEAN
        BY <1>1 DEF Handle
      <3>2. CASE coll
        BY <3>1, <3>2 DEF Seen, Handles!Needs
      <3>3. CASE ~coll
        BY <3>1, <3>3 DEF Seen, Handles!Needs
      <3> QED
        BY <3>2, <3>3
    <2>2. call \in Handles!PlainCalls
      BY DEF Handles!PlainCalls
    <2>3. Answers(call, id, IF Handles!Needs(call, Seen(table[id])) THEN "ok" ELSE "refused")
      BY <1>1, <1>14, <2>1 DEF Wait, Agrees
    <2> HIDE DEF call
    <2> QED
      BY <1>1, <1>14, <2>2, <2>3, PlainStep DEF Wait
  <1>15. ASSUME NEW id \in Slots,
                NEW call \in {"put", "put_all", "get", "get_all", "iput", "iget"},
                NEW v, PutGet(id, call, v)
         PROVE  AbstractStep
    <2>1. Handles!Needs(call, Seen(table[id])) <=> ~Forbids(table[id], call)
      BY DEF Seen, Handles!Needs, Forbids
    <2>2. call \in Handles!PlainCalls
      BY DEF Handles!PlainCalls
    <2>3. CASE Forbids(table[id], call)
      BY <1>1, <1>15, <2>1, <2>2, <2>3, PlainStep DEF PutGet
    <2>4. CASE ~Forbids(table[id], call)
      BY <1>1, <1>3, <1>15, <2>1, <2>2, <2>4, PlainStep DEF PutGet
    <2> QED
      BY <2>3, <2>4
  <1>16. ASSUME NEW id \in Slots, NEW v, FillVarRec(id, v) PROVE AbstractStep
    <2> DEFINE h == table[id]
    <2>1. Handles!Needs("fill_var_rec", Seen(h)) <=> ~(h.rdonly \/ h.def \/ h.indep)
      BY DEF Seen, Handles!Needs
    <2>2. CASE h.d.vars[v] = "fixed"
      BY <1>3, <1>16, <2>2 DEF FillVarRec
    <2>3. CASE h.d.vars[v] # "fixed"
      BY <1>1, <1>16, <2>1, <2>3, PlainStep DEF FillVarRec, Handles!PlainCalls
    <2> QED
      BY <2>2, <2>3
  <1>17. ASSUME NEW id \in Slots, Close(id) PROVE AbstractStep
    <2> DEFINE h == table[id]
    <2>0. IsOpen(id) /\ h.def = h.d.def
      BY <1>1, <1>17 DEF Close, Agrees
    <2>1. CASE h.d.def
      <3>1. PICK e \in DriverEndDefs(h) : Leave("close", id, e.disk, e.ans)
        BY <1>17, <2>1 DEF Close
      <3>2. \/ e.disk = disk /\ e.ans = "failed"
            \/ e.disk = [disk EXCEPT ![h.file] = h.d.vars] /\ e.ans = "ok"
        BY <3>1, CleanEndDef
      <3> QED
        BY <1>1, <1>2, <2>0, <2>1, <3>1, <3>2, LeaveStep
    <2>2. CASE ~h.d.def
      <3>1. disk = [disk EXCEPT ![h.file] = h.d.vars]
        BY <1>1, <1>2, <2>0, <2>2 DEF Stands
      <3>2. Leave("close", id, disk, "ok")
        BY <1>17, <2>2 DEF Close
      <3> QED
        BY <1>1, <1>2, <2>0, <3>1, <3>2, LeaveStep
    <2> QED
      BY <2>1, <2>2
  <1>18. ASSUME NEW id \in Slots, Abort(id) PROVE AbstractStep
    <2> DEFINE h == table[id]
               d == IF h.d.new THEN [disk EXCEPT ![h.file] = Absent] ELSE disk
    <2>1. IsOpen(id) /\ Leave("abort", id, d, "ok")
      BY <1>18 DEF Abort
    <2>2. d = [disk EXCEPT ![h.file] = IF @ = Empty THEN Absent ELSE @]
      BY <1>1, <1>2, <2>1 DEF Stands
    <2> HIDE DEF d
    <2> QED
      BY <1>1, <1>2, <2>1, <2>2, LeaveStep
  <1>19. CASE UNCHANGED vars
    BY <1>19, OpenedSame DEF vars, AbstractStep
  <1> QED
    BY <1>4, <1>5, <1>6, <1>7, <1>8, <1>9, <1>10, <1>11, <1>12, <1>13, <1>14, <1>15,
       <1>16, <1>17, <1>18, <1>19 DEF Next

LEMMA InitRefines == Init => Handles!Init
  <1> SUFFICES ASSUME Init PROVE Handles!Init
    OBVIOUS
  <1>1. Used = {}
    BY DEF Init, Used
  <1>2. Opened = << >>
    BY <1>1 DEF Opened
  <1> QED
    BY <1>2 DEF Init, Handles!Init

(***************************************************************************)
(* The dispatcher and the driver under it implement FileHandles: with safe *)
(* mode on, an application that uses no ID it has closed and a driver none *)
(* of whose calls fails half-way, every call on any number of files does   *)
(* what the file's mode says, and the definitions on disk are those of the *)
(* last enddef or close.                                                   *)
(***************************************************************************)
THEOREM HandlesImplemented ==
  ASSUME Faults = {}, SafeMode, ~StaleIds
  PROVE  Spec => ImplementsHandles
  <1>1. AgreeInv /\ [Next]_vars => AgreeInv'
    BY NextAgree
  <1>2. AgreeInv /\ [Next]_vars => [Handles!Next]_<<Opened, disk, reply>>
    BY NextRefines DEF AbstractStep
  <1> QED
    BY <1>1, <1>2, InitAgree, InitRefines, PTL DEF Spec, ImplementsHandles, Handles!Spec
=============================================================================
