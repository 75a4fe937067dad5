------------------------- MODULE RecordCountProofs -------------------------
(***************************************************************************)
(* Theorems about RecordCount, for any set of ranks and any bounds.        *)
(***************************************************************************)
EXTENDS RecordCount, TLAPS

USE RankAssumption, BoundAssumption, FlagAssumption, OpsAssumption

-----------------------------------------------------------------------------
(* The calls in progress: their step lists and what a step leaves of them. *)

LEMMA IdleType == Idle \in Call
  BY DEF Idle, Call, Step, Status, Count

LEMMA WhenType ==
  ASSUME NEW flag, NEW s \in Seq(Step)
  PROVE  When(flag, s) \in Seq(Step)
  <1>1. <<>> \in Seq(Step)
    OBVIOUS
  <1> QED
    BY <1>1, Zenon DEF When

LEMMA OneStep == \A s \in Step : <<s>> \in Seq(Step)
  OBVIOUS

LEMMA ConcatType == \A s, t \in Seq(Step) : s \o t \in Seq(Step)
  OBVIOUS

LEMMA AfterSyncType == AfterSync \in Seq(Step)
  <1>1. <<"barrier">> \in Seq(Step)
    BY DEF Step, Meeting
  <1> QED
    BY <1>1, WhenType DEF AfterSync

LEMMA StepsType ==
  ASSUME NEW r \in Rank
  PROVE  /\ PutSteps \in Seq(Step)
         /\ FillSteps \in Seq(Step)
         /\ \A fails \in BOOLEAN : FillStepsOf(fails) \in Seq(Step)
         /\ GrowSteps("vote", "grow") \in Seq(Step)
         /\ SyncNumrecs(r) \in Seq(Step)
         /\ EndIndep(r) \in Seq(Step)
         /\ WriteHeader(r) \in Seq(Step)
         /\ EndDef(r) \in Seq(Step)
  <1>1. /\ When(SafeMode, <<"agree">>) \in Seq(Step)
        /\ When(SafeMode, <<"bcast">>) \in Seq(Step)
        /\ When(r = Root, <<"publish">>) \in Seq(Step)
        /\ When(r = Root, <<"header">>) \in Seq(Step)
    BY WhenType, OneStep DEF Step, Meeting
  <1>2. /\ <<"reduce", "grow">> \in Seq(Step)
        /\ <<"vote", "grow">> \in Seq(Step)
        /\ <<"reduce">> \in Seq(Step)
        /\ <<"adopt">> \in Seq(Step)
        /\ <<"leave">> \in Seq(Step)
        /\ <<"enddef">> \in Seq(Step)
    BY DEF Step, Meeting
  <1>3. GrowSteps("reduce", "grow") \in Seq(Step)
    BY <1>2, AfterSyncType, ConcatType DEF GrowSteps
  <1>4. GrowSteps("vote", "grow") \in Seq(Step)
    BY <1>2, AfterSyncType, ConcatType DEF GrowSteps
  <1>5. PutSteps \in Seq(Step)
    BY <1>1, <1>3, ConcatType DEF PutSteps
  <1>6. FillSteps \in Seq(Step)
    BY <1>1, <1>2, ConcatType DEF FillSteps
  <1>6a. \A fails \in BOOLEAN : FillStepsOf(fails) \in Seq(Step)
    BY <1>1, <1>6 DEF FillStepsOf
  <1>7. SyncNumrecs(r) \in Seq(Step)
    BY <1>1, <1>2, AfterSyncType, ConcatType DEF SyncNumrecs
  <1>8. EndIndep(r) \in Seq(Step)
    BY <1>2, <1>7, AfterSyncType, ConcatType DEF EndIndep
  <1>9. WriteHeader(r) \in Seq(Step)
    BY <1>1, ConcatType DEF WriteHeader
  <1>10. EndDef(r) \in Seq(Step)
    BY <1>2, <1>9, AfterSyncType, ConcatType DEF EndDef
  <1> QED
    BY <1>4, <1>5, <1>6, <1>6a, <1>7, <1>8, <1>9, <1>10

LEMMA AdvanceType ==
  ASSUME NEW c \in Call, c.steps # <<>>
  PROVE  Advance(c) \in Call
  <1>1. Tail(c.steps) \in Seq(Step)
    BY DEF Call
  <1>2. [c EXCEPT !.steps = Tail(@)] \in Call
    BY <1>1 DEF Call
  <1> QED
    BY <1>2, IdleType DEF Advance

(***************************************************************************)
(* Every collective call enters with a well-typed list of steps and leaves *)
(* well-typed to-do lists; it touches neither the file nor the mailboxes.  *)
(***************************************************************************)
LEMMA EnterType ==
  ASSUME TypeOK, NEW r \in Rank, NEW op \in AllOps, NEW steps \in Seq(Step),
         NEW give \in Count, NEW wrote \in Count, NEW status \in Status,
         Enter(r, op, steps, give, wrote, status)
  PROVE  /\ call' \in [Rank -> Call]
         /\ todo' \in [Rank -> Seq(AllOps)]
         /\ UNCHANGED <<fileNum, mail, written, told>>
  <1>1. [steps |-> steps, give |-> give, got |-> 0, wrote |-> wrote,
         status |-> status] \in Call
    BY DEF Call, Count
  <1>2. call' \in [Rank -> Call]
    BY <1>1, IdleType DEF Enter, TypeOK
  <1>3. ASSUME Follows(r, op)
        PROVE  todo' \in [Rank -> Seq(AllOps)]
    <2>1. todo[r] \in Seq(AllOps) /\ todo[r] # <<>>
      BY <1>3 DEF Follows, TypeOK
    <2>2. Tail(todo[r]) \in Seq(AllOps)
      BY <2>1
    <2> QED
      BY <1>3, <2>2 DEF Follows, TypeOK
  <1>4. ASSUME Leads(r, op)
        PROVE  todo' \in [Rank -> Seq(AllOps)]
    <2>1. \A q \in Rank : Append(todo[q], op) \in Seq(AllOps)
      BY DEF TypeOK
    <2>2. <<>> \in Seq(AllOps)
      OBVIOUS
    <2>3. \A q \in Rank : (IF q = r THEN <<>> ELSE Append(todo[q], op))
                             \in Seq(AllOps)
      BY <2>1, <2>2
    <2> QED
      BY <1>4, <2>3, Zenon DEF Leads
  <1> QED
    BY <1>2, <1>3, <1>4 DEF Enter

LEMMA EnterIndepType ==
  ASSUME TypeOK, NEW r \in Rank, NEW op \in AllOps, NEW steps \in Seq(Step),
         EnterIndep(r, op, steps)
  PROVE  TypeOK'
  <1>1. Enter(r, op, steps, numrecs[r], 0, "ok")
    BY DEF EnterIndep
  <1>2. numrecs[r] \in Count /\ 0 \in Count /\ "ok" \in Status
    BY DEF TypeOK, Count, Status
  <1>3. /\ call' \in [Rank -> Call]
        /\ todo' \in [Rank -> Seq(AllOps)]
        /\ UNCHANGED <<fileNum, mail, written, told>>
    BY <1>1, <1>2, EnterType
  <1>4. dirty' \in [Rank -> BOOLEAN] /\ UNCHANGED <<mode, numrecs>>
    BY DEF EnterIndep, TypeOK
  <1> QED
    BY <1>3, <1>4 DEF TypeOK

(* The same of a call that leaves the modes, counts and dirty bits alone. *)
LEMMA PlainEnterType ==
  ASSUME TypeOK, NEW r \in Rank, NEW op \in AllOps, NEW steps \in Seq(Step),
         NEW give \in Count, NEW wrote \in Count, NEW status \in Status,
         Enter(r, op, steps, give, wrote, status),
         UNCHANGED <<mode, numrecs, dirty>>
  PROVE  TypeOK'
  <1>1. /\ call' \in [Rank -> Call]
        /\ todo' \in [Rank -> Seq(AllOps)]
        /\ UNCHANGED <<fileNum, mail, written, told>>
    BY EnterType
  <1> QED
    BY <1>1 DEF TypeOK

LEMMA EnterFromType ==
  ASSUME TypeOK, NEW r \in Rank, NEW m, NEW op \in AllOps,
         NEW steps \in Seq(Step), EnterFrom(m, r, op, steps)
  PROVE  TypeOK'
  <1>1. 0 \in Count /\ "ok" \in Status
    BY DEF Count, Status
  <1> QED
    BY <1>1, PlainEnterType DEF EnterFrom

(* What a wait counts, and what it stores, of the records of its requests. *)
LEMMA WaitChoices ==
  ASSUME NEW n \in Count
  PROVE  /\ \A m \in Scanned(n) : m \in Count /\ m <= n
         /\ \A w \in Stored(n) : w \in Count /\ w <= n
  BY DEF Scanned, Stored, Count

LEMMA CallPreservesType ==
  ASSUME TypeOK, NEW r \in Rank, MakeCall(r)
  PROVE  TypeOK'
  <1> DEFINE Put == GrowSteps("vote", "grow")
             Last == AfterSync \o <<"close">>
  <1>1. /\ 0 \in Count
        /\ 1 .. MaxRecs \subseteq Count
        /\ numrecs[r] \in Count
        /\ "ok" \in Status /\ "error" \in Status
    BY DEF Count, Status, TypeOK
  <1>2. /\ <<>> \in Seq(Step)
        /\ <<"barrier">> \in Seq(Step)
        /\ <<"check", "barrier">> \in Seq(Step)
        /\ <<"define">> \in Seq(Step)
        /\ <<"discard">> \in Seq(Step)
        /\ <<"close">> \in Seq(Step)
    BY DEF Step, Meeting
  <1>3. Last \in Seq(Step)
    BY <1>2, AfterSyncType, ConcatType
  <1>4. CASE PutAll(r)
    <2>1. When(SafeMode, PutSteps) \in Seq(Step)
      BY StepsType, WhenType
    <2>2. "put_all" \in AllOps
      BY DEF AllOps
    <2>3. PICK steps \in Seq(Step), give \in Count, wrote \in Count,
               status \in Status : Enter(r, "put_all", steps, give, wrote, status)
      BY <1>4, <1>1, <2>1, StepsType DEF PutAll
    <2> QED
      BY <1>4, <2>2, <2>3, PlainEnterType DEF PutAll
  <1>5. CASE FillVarRec(r)
    <2>1. /\ When(SafeMode, FillSteps) \in Seq(Step)
          /\ \A fails \in {FALSE, FillFails} : FillStepsOf(fails) \in Seq(Step)
      BY StepsType, WhenType, FlagAssumption
    <2>2. "fill_rec" \in AllOps
      BY DEF AllOps
    <2>3. PICK steps \in Seq(Step), give \in Count, wrote \in Count,
               status \in Status : Enter(r, "fill_rec", steps, give, wrote, status)
      BY <1>5, <1>1, <2>1, StepsType DEF FillVarRec
    <2> QED
      BY <1>5, <2>2, <2>3, PlainEnterType DEF FillVarRec
  <1>6. CASE WaitAll(r)
    <2>1. "wait_all" \in AllOps /\ Put \in Seq(Step)
      BY StepsType DEF AllOps
    <2>2. PICK give \in Count, wrote \in Count, status \in Status :
               Enter(r, "wait_all", Put, give, wrote, status)
      BY <1>6, <1>1, WaitChoices DEF WaitAll
    <2> QED
      BY <1>6, <2>1, <2>2, PlainEnterType DEF WaitAll
  <1>7. CASE BeginIndepData(r)
    <2>1. "begin_indep" \in AllOps
      BY DEF AllOps
    <2>2. Enter(r, "begin_indep", <<>>, 0, 0, "ok")
      BY <1>7 DEF BeginIndepData
    <2>3. /\ call' \in [Rank -> Call]
          /\ todo' \in [Rank -> Seq(AllOps)]
          /\ UNCHANGED <<fileNum, mail, written, told>>
      BY <1>1, <1>2, <2>1, <2>2, EnterType
    <2>4. /\ mode' \in [Rank -> {"coll", "indep", "def", "closed"}]
          /\ UNCHANGED <<numrecs, dirty>>
      BY <1>7 DEF BeginIndepData, TypeOK
    <2> QED
      BY <2>3, <2>4 DEF TypeOK
  <1>8. CASE EndIndepData(r)
    BY <1>8, StepsType, EnterIndepType DEF EndIndepData, AllOps
  <1>9. CASE SyncNumrecsCall(r)
    BY <1>9, StepsType, EnterIndepType DEF SyncNumrecsCall, AllOps
  <1>10. CASE Sync(r)
    <2>1. "sync" \in AllOps
      BY DEF AllOps
    <2>2. SyncNumrecs(r) \o <<"check", "barrier">> \in Seq(Step)
      BY <1>2, StepsType, ConcatType
    <2> QED
      BY <1>10, <1>2, <2>1, <2>2, EnterFromType, EnterIndepType DEF Sync
  <1>11. CASE Rename(r)
    <2>1. "rename" \in AllOps
      BY DEF AllOps
    <2>2. WriteHeader(r) \o AfterSync \in Seq(Step)
      BY StepsType, AfterSyncType, ConcatType
    <2> QED
      BY <1>11, <2>1, <2>2, EnterFromType DEF Rename
  <1>12. CASE Redef(r)
    <2>1. "redef" \in AllOps
      BY DEF AllOps
    <2>2. EndIndep(r) \o <<"define">> \in Seq(Step)
      BY <1>2, StepsType, ConcatType
    <2> QED
      BY <1>12, <1>2, <2>1, <2>2, EnterFromType, EnterIndepType DEF Redef
  <1>13. CASE EndDefCall(r)
    BY <1>13, StepsType, EnterFromType DEF EndDefCall, AllOps
  <1>14. CASE Close(r)
    <2>1. "close" \in AllOps
      BY DEF AllOps
    <2>2. EndDef(r) \o Last \in Seq(Step) /\ EndIndep(r) \o Last \in Seq(Step)
      BY <1>3, StepsType, ConcatType
    <2> QED
      BY <1>14, <1>3, <2>1, <2>2, EnterFromType, EnterIndepType DEF Close
  <1>15. CASE Abort(r)
    <2>1. "abort" \in AllOps
      BY DEF AllOps
    <2>2. <<"discard">> \o Last \in Seq(Step) /\ EndIndep(r) \o Last \in Seq(Step)
      BY <1>2, <1>3, StepsType, ConcatType
    <2> QED
      BY <1>15, <1>3, <2>1, <2>2, EnterFromType, EnterIndepType DEF Abort
  <1> QED
    BY <1>4, <1>5, <1>6, <1>7, <1>8, <1>9, <1>10, <1>11, <1>12, <1>13, <1>14,
       <1>15 DEF MakeCall

-----------------------------------------------------------------------------
(* The steps of calls in progress. *)

LEMMA AdvanceAll ==
  ASSUME TypeOK, NEW r \in Rank, InCall(r)
  PROVE  /\ Advance(call[r]) \in Call
         /\ \A m \in Count : Advance([call[r] EXCEPT !.got = m]) \in Call
         /\ \A s \in Status : Advance([call[r] EXCEPT !.status = s]) \in Call
  <1>1. call[r] \in Call /\ call[r].steps # <<>>
    BY DEF TypeOK, InCall
  <1>2. ASSUME NEW m \in Count
        PROVE  Advance([call[r] EXCEPT !.got = m]) \in Call
    <2>1. [call[r] EXCEPT !.got = m] \in Call
      BY <1>1 DEF Call
    <2>2. [call[r] EXCEPT !.got = m].steps = call[r].steps
      BY <1>1 DEF Call
    <2> QED
      BY <1>1, <2>1, <2>2, AdvanceType
  <1>3. ASSUME NEW s \in Status
        PROVE  Advance([call[r] EXCEPT !.status = s]) \in Call
    <2>1. [call[r] EXCEPT !.status = s] \in Call
      BY <1>1 DEF Call
    <2>2. [call[r] EXCEPT !.status = s].steps = call[r].steps
      BY <1>1 DEF Call
    <2> QED
      BY <1>1, <2>1, <2>2, AdvanceType
  <1> QED
    BY <1>1, <1>2, <1>3, AdvanceType

LEMMA DoneType ==
  ASSUME TypeOK, NEW r \in Rank, InCall(r), Done(r)
  PROVE  call' \in [Rank -> Call]
  BY AdvanceAll DEF TypeOK, Done

LEMMA TakeMaxType ==
  ASSUME TypeOK, \A r \in Rank : InCall(r), TakeMax
  PROVE  call' \in [Rank -> Call] /\ written' \in Count
  <1>1. written' \in Count
    BY DEF TakeMax
  <1>2. PICK m \in Count :
          call' = [r \in Rank |-> Advance([call[r] EXCEPT !.got = m])]
    BY DEF TakeMax
  <1>3. \A r \in Rank : Advance([call[r] EXCEPT !.got = m]) \in Call
    BY AdvanceAll
  <1> QED
    BY <1>1, <1>2, <1>3

LEMMA MeetPreservesType ==
  ASSUME TypeOK, Meet
  PROVE  TypeOK'
  <1>1. CASE Agree
    <2>1. \A r \in Rank : Advance(call[r]) \in Call
      BY <1>1, AdvanceAll DEF Agree, AllAt, At
    <2>2. call' \in [Rank -> Call]
      BY <1>1, <2>1, IdleType DEF Agree
    <2> QED
      BY <1>1, <2>2 DEF Agree, TypeOK
  <1>2. CASE Reduce
    <2>1. call' \in [Rank -> Call] /\ written' \in Count
      BY <1>2, TakeMaxType DEF Reduce, AllAt, At
    <2> QED
      BY <1>2, <2>1 DEF Reduce, TypeOK
  <1>3. CASE Vote
    <2>1. call' \in [Rank -> Call] /\ written' \in Count
      <3>1. CASE TakeMax
        BY <1>3, <3>1, TakeMaxType DEF Vote, AllAt, At
      <3>2. CASE call' = [r \in Rank |-> Idle] /\ UNCHANGED written
        BY <3>2, IdleType DEF TypeOK
      <3> QED
        BY <1>3, <3>1, <3>2 DEF Vote
    <2> QED
      BY <1>3, <2>1 DEF Vote, TypeOK
  <1>4. CASE Barrier
    <2>1. \A r \in Rank : Advance(call[r]) \in Call
      BY <1>4, AdvanceAll DEF Barrier, AllAt, At
    <2>2. call' \in [Rank -> Call]
      BY <1>4, <2>1 DEF Barrier
    <2> QED
      BY <1>4, <2>2 DEF Barrier, TypeOK
  <1>5. CASE Open
    BY <1>5 DEF Open, TypeOK
  <1> QED
    BY <1>1, <1>2, <1>3, <1>4, <1>5 DEF Meet

LEMMA WriteNumrecsType ==
  ASSUME TypeOK, NEW n \in Count, NEW result, WriteNumrecs(n, result)
  PROVE  /\ numrecs' \in [Rank -> Count]
         /\ fileNum' \in Count
         /\ told' \in BOOLEAN
         /\ StatusOf(result) \in Status
  BY RankAssumption DEF WriteNumrecs, StatusOf, Status, TypeOK

LEMMA SwitchModeType ==
  ASSUME TypeOK, NEW r \in Rank, NEW step,
         NEW m \in {"coll", "indep", "def", "closed"}, SwitchMode(r, step, m),
         dirty' \in [Rank -> BOOLEAN]
  PROVE  TypeOK'
  <1>1. call' \in [Rank -> Call]
    BY DoneType DEF SwitchMode, At
  <1> QED
    BY <1>1 DEF SwitchMode, TypeOK

LEMMA LocalStepPreservesType ==
  ASSUME TypeOK, NEW r \in Rank, LocalStep(r)
  PROVE  TypeOK'
  <1>1. call[r] \in Call /\ numrecs[r] \in Count /\ call[r].got \in Count
    BY DEF TypeOK, Call
  <1>2. CASE Grow(r)
    <2>1. call' \in [Rank -> Call]
      BY <1>2, DoneType DEF Grow, At
    <2>2. numrecs' \in [Rank -> Count] /\ fileNum' \in Count /\ told' \in BOOLEAN
      <3>1. CASE UNCHANGED <<numrecs, fileNum, told>>
        BY <3>1 DEF TypeOK
      <3>2. CASE \E result \in Results : WriteNumrecs(call[r].got, result)
        BY <1>1, <3>2, WriteNumrecsType
      <3>3. CASE /\ numrecs' = [numrecs EXCEPT ![r] = call[r].got]
                 /\ UNCHANGED <<fileNum, told>>
        BY <1>1, <3>3 DEF TypeOK
      <3> QED
        BY <1>2, <3>1, <3>2, <3>3 DEF Grow
    <2> QED
      BY <1>2, <2>1, <2>2 DEF Grow, TypeOK
  <1>3. CASE Publish(r)
    <2> DEFINE n == IF call[r].got > numrecs[r] THEN call[r].got ELSE numrecs[r]
    <2>1. n \in Count
      BY <1>1
    <2>2. PICK result \in Results :
            /\ WriteNumrecs(n, result)
            /\ call' = [call EXCEPT ![r] =
                          Advance([@ EXCEPT !.status = StatusOf(result)])]
      BY <1>3 DEF Publish
    <2>3. /\ numrecs' \in [Rank -> Count]
          /\ fileNum' \in Count
          /\ told' \in BOOLEAN
          /\ StatusOf(result) \in Status
      BY <2>1, <2>2, WriteNumrecsType
    <2>4. call' \in [Rank -> Call]
      <3>1. Advance([call[r] EXCEPT !.status = StatusOf(result)]) \in Call
        BY <1>3, <2>3, AdvanceAll DEF Publish, At
      <3> QED
        BY <2>2, <3>1 DEF TypeOK
    <2> QED
      BY <1>3, <2>3, <2>4 DEF Publish, TypeOK
  <1>4. CASE Bcast(r)
    <2>1. call' \in [Rank -> Call]
      <3>1. /\ Advance(call[r]) \in Call
            /\ Advance([call[r] EXCEPT !.status = "ewrite"]) \in Call
        BY <1>4, AdvanceAll DEF Bcast, At, Status
      <3>2. CASE Done(r)
        BY <1>4, <3>2, DoneType DEF Bcast, At
      <3>3. CASE call' = [call EXCEPT ![r] = Advance(
                            IF Head(mail[r]) = "ewrite"
                            THEN [@ EXCEPT !.status = "ewrite"] ELSE @)]
        BY <3>1, <3>3 DEF TypeOK
      <3> QED
        BY <1>4, <3>2, <3>3 DEF Bcast
    <2>2. mail' \in [Rank -> Seq(Status)]
      <3>1. CASE mail' = [q \in Rank |-> IF q = Root THEN <<>>
                                        ELSE Append(mail[q], call[r].status)]
        <4>1. call[r].status \in Status
          BY <1>1 DEF Call
        <4>2. \A q \in Rank : Append(mail[q], call[r].status) \in Seq(Status)
          BY <4>1 DEF TypeOK
        <4>3. <<>> \in Seq(Status)
          OBVIOUS
        <4> QED
          BY <3>1, <4>2, <4>3, Zenon
      <3>2. CASE mail[r] # <<>> /\ mail' = [mail EXCEPT ![r] = Tail(@)]
        <4>1. Tail(mail[r]) \in Seq(Status)
          BY <3>2 DEF TypeOK
        <4> QED
          BY <3>2, <4>1 DEF TypeOK
      <3> QED
        BY <1>4, <3>1, <3>2 DEF Bcast
    <2> QED
      BY <1>4, <2>1, <2>2 DEF Bcast, TypeOK
  <1>5. CASE Adopt(r)
    <2>1. call' \in [Rank -> Call]
      BY <1>5, DoneType DEF Adopt, At
    <2> QED
      BY <1>1, <1>5, <2>1 DEF Adopt, TypeOK
  <1>6. CASE Check(r)
    <2>1. Advance(call[r]) \in Call
      BY <1>6, AdvanceAll DEF Check, At
    <2>2. call' \in [Rank -> Call]
      BY <1>6, <2>1, IdleType DEF Check, TypeOK
    <2> QED
      BY <1>6, <2>2 DEF Check, TypeOK
  <1>7. CASE Header(r)
    <2>1. call' \in [Rank -> Call]
      <3>1. CASE Done(r)
        BY <1>7, <3>1, DoneType DEF Header, At
      <3>2. CASE \E s \in Status :
                   call' = [call EXCEPT ![r] = Advance([@ EXCEPT !.status = s])]
        BY <1>7, <3>2, AdvanceAll DEF Header, At, TypeOK
      <3> QED
        BY <1>7, <3>1, <3>2 DEF Header, Status
    <2>2. fileNum' \in Count /\ told' \in BOOLEAN
      BY <1>1, <1>7 DEF Header, TypeOK
    <2> QED
      BY <1>7, <2>1, <2>2 DEF Header, TypeOK
  <1>8. CASE Leave(r) \/ EnterDefine(r) \/ Discard(r) \/ CloseFile(r)
    <2>1. dirty' \in [Rank -> BOOLEAN]
      BY <1>8 DEF Leave, EnterDefine, Discard, CloseFile, TypeOK
    <2> QED
      BY <1>8, <2>1, SwitchModeType DEF Leave, EnterDefine, Discard, CloseFile
  <1>9. CASE ExitDefine(r)
    <2>1. dirty' \in [Rank -> BOOLEAN]
      BY <1>9 DEF ExitDefine, TypeOK
    <2> QED
      BY <1>9, <2>1, SwitchModeType DEF ExitDefine
  <1> QED
    BY <1>2, <1>3, <1>4, <1>5, <1>6, <1>7, <1>8, <1>9 DEF LocalStep

LEMMA InitType == Init => TypeOK
  <1> SUFFICES ASSUME Init PROVE TypeOK
    OBVIOUS
  <1>1. call \in [Rank -> Call]
    BY IdleType DEF Init
  <1>2. todo \in [Rank -> Seq(AllOps)] /\ mail \in [Rank -> Seq(Status)]
    <2>1. <<>> \in Seq(AllOps) /\ <<>> \in Seq(Status)
      OBVIOUS
    <2> QED
      BY <2>1, Zenon DEF Init
  <1>3. mode \in [Rank -> {"coll", "indep", "def", "closed"}]
    BY DEF Init
  <1>4. /\ numrecs \in [Rank -> Count]
        /\ dirty \in [Rank -> BOOLEAN]
        /\ fileNum \in Count
        /\ written \in Count
        /\ told \in BOOLEAN
    BY DEF Init
  <1> QED
    BY <1>1, <1>2, <1>3, <1>4 DEF TypeOK

LEMMA NextPreservesType == TypeOK /\ [Next]_vars => TypeOK'
  <1> SUFFICES ASSUME TypeOK, [Next]_vars PROVE TypeOK'
    OBVIOUS
  <1>1. CASE Meet
    BY <1>1, MeetPreservesType
  <1>2. ASSUME NEW r \in Rank, MakeCall(r) PROVE TypeOK'
    BY <1>2, CallPreservesType
  <1>3. ASSUME NEW r \in Rank, LocalStep(r) PROVE TypeOK'
    BY <1>3, LocalStepPreservesType
  <1>4. ASSUME NEW r \in Rank, NEW m \in Count, NEW w \in Count,
               IndepWrite(r, m, w)
        PROVE  TypeOK'
    BY <1>4 DEF IndepWrite, TypeOK
  <1>5. CASE UNCHANGED vars
    BY <1>5 DEF vars, TypeOK
  <1>6. ASSUME NEW r \in Rank, NEW n \in 1 .. MaxRecs, IndepPut(r, n)
        PROVE  TypeOK'
    BY <1>4, <1>6 DEF IndepPut, Count
  <1>7. ASSUME NEW r \in Rank, IndepWait(r) PROVE TypeOK'
    BY <1>4, <1>7, WaitChoices DEF IndepWait
  <1> QED
    BY <1>1, <1>2, <1>3, <1>5, <1>6, <1>7 DEF Next

(* The variables of every reachable state have the types TypeOK gives them. *)
THEOREM TypeCorrect == Spec => []TypeOK
  BY InitType, NextPreservesType, PTL DEF Spec

-----------------------------------------------------------------------------
(***************************************************************************)
(* No phantom records.  NoPhantom is not inductive: the counts in memory   *)
(* and in the file come from the reductions of calls in progress, so the   *)
(* strengthening bounds those too.  A rank contributes either a count that *)
(* was covered already or the count of the data it wrote itself, which     *)
(* the reduction adds to written.                                          *)
(***************************************************************************)
CallsCovered ==
    \A r \in Rank : /\ call[r].got <= written
                    /\ \/ call[r].give <= call[r].wrote
                       \/ call[r].give <= written

NoPhantomInv == TypeOK /\ NoPhantom /\ CallsCovered

(* What a step leaves of a call in progress contributes no more than before. *)
LEMMA AdvanceShrinks ==
  ASSUME NEW c \in Call
  PROVE  \/ /\ Advance(c).give = c.give
            /\ Advance(c).got = c.got
            /\ Advance(c).wrote = c.wrote
         \/ /\ Advance(c).give = 0
            /\ Advance(c).got = 0
            /\ Advance(c).wrote = 0
  BY DEF Advance, Idle, Call

Covered(c, w) == c.got <= w /\ (c.give <= c.wrote \/ c.give <= w)

LEMMA CoveredAdvance ==
  ASSUME NEW c \in Call, NEW w \in Nat, Covered(c, w)
  PROVE  Covered(Advance(c), w)
  BY AdvanceShrinks DEF Covered

LEMMA CoveredIdle == \A w \in Nat : Covered(Idle, w)
  BY DEF Covered, Idle

(* A call entered with a covered count keeps the invariant. *)
LEMMA EnterCovered ==
  ASSUME NoPhantomInv, NEW r \in Rank, NEW op, NEW steps,
         NEW give \in Count, NEW wrote \in Count, NEW status,
         give <= wrote \/ give <= written,
         Enter(r, op, steps, give, wrote, status)
  PROVE  CallsCovered' /\ UNCHANGED <<fileNum, written>>
  <1>1. UNCHANGED <<fileNum, written>>
    BY DEF Enter
  <1>2. \A q \in Rank : Covered(call[q], written)
    BY DEF NoPhantomInv, CallsCovered, Covered
  <1>3. written \in Nat
    BY DEF NoPhantomInv, TypeOK, Count
  <1>4. Covered([steps |-> steps, give |-> give, got |-> 0, wrote |-> wrote,
                 status |-> status], written)
    BY <1>3 DEF Covered
  <1>5. \A q \in Rank : Covered(call'[q], written)
    BY <1>2, <1>3, <1>4, CoveredIdle DEF Enter, NoPhantomInv, TypeOK
  <1> QED
    BY <1>1, <1>5 DEF CallsCovered, Covered

LEMMA CallNoPhantom ==
  ASSUME ~ZeroCount, ~WaitFails, NoPhantomInv, NEW r \in Rank, MakeCall(r)
  PROVE  NoPhantom' /\ CallsCovered'
  <1>1. /\ 0 \in Count /\ 0 <= written
        /\ numrecs[r] \in Count /\ numrecs[r] <= written
        /\ \A n \in 1 .. MaxRecs : n \in Count /\ n <= n
    BY DEF Count, NoPhantomInv, NoPhantom, TypeOK
  <1> DEFINE Kept == CallsCovered' /\ UNCHANGED <<fileNum, written>>
  <1>2. UNCHANGED numrecs
    BY DEF MakeCall, PutAll, FillVarRec, WaitAll, BeginIndepData, EnterIndep,
           EnterFrom, EndIndepData, SyncNumrecsCall, Sync, Rename, Redef,
           EndDefCall, Close, Abort
  <1>3. SUFFICES Kept
    BY <1>2 DEF NoPhantomInv, NoPhantom
  <1>4. ASSUME NEW op, NEW steps, NEW n \in Count, NEW status,
               Enter(r, op, steps, n, n, status)
        PROVE  Kept
    <2>1. n <= n
      BY DEF Count
    <2> QED
      BY <1>4, <2>1, EnterCovered
  <1>5. ASSUME NEW op, NEW steps, NEW status,
               \/ Enter(r, op, steps, numrecs[r], 0, status)
               \/ Enter(r, op, steps, 0, 0, status)
        PROVE  Kept
    BY <1>1, <1>5, EnterCovered
  <1>6. ASSUME NEW op, NEW steps, EnterIndep(r, op, steps)
        PROVE  Kept
    BY <1>5, <1>6 DEF EnterIndep
  <1>7. ASSUME NEW m, NEW op, NEW steps, EnterFrom(m, r, op, steps)
        PROVE  Kept
    BY <1>5, <1>7 DEF EnterFrom
  <1>8. CASE PutAll(r)
    BY <1>1, <1>4, <1>5, <1>8 DEF PutAll
  <1>9. CASE FillVarRec(r)
    BY <1>1, <1>4, <1>5, <1>9 DEF FillVarRec
  <1>10. CASE WaitAll(r)
    <2>1. ASSUME NEW m \in Count, NEW n \in Count, m <= n,
                 Enter(r, "wait_all", GrowSteps("vote", "grow"), m, n, "ok")
          PROVE  Kept
      BY <2>1, EnterCovered
    <2>2. ASSUME NEW n \in Count,
                 Enter(r, "wait_all", GrowSteps("vote", "grow"), numrecs[r], n, "ok")
          PROVE  Kept
      BY <1>1, <2>2, EnterCovered
    <2>3. CASE Enter(r, "wait_all", GrowSteps("vote", "grow"), numrecs[r], 0,
                     "error")
      BY <1>5, <2>3
    <2>4. ASSUME NEW n \in Count, NEW m \in Scanned(n),
                 Enter(r, "wait_all", GrowSteps("vote", "grow"),
                       IF m > numrecs[r] THEN m ELSE numrecs[r], n, "ok")
          PROVE  Kept
      <3>1. m \in Count /\ m <= n
        BY WaitChoices
      <3>2. CASE m > numrecs[r]
        BY <2>1, <2>4, <3>1, <3>2
      <3>3. CASE ~(m > numrecs[r])
        BY <2>2, <2>4, <3>3
      <3> QED
        BY <3>2, <3>3
    <2>5. \A n \in Count : Stored(n) = {n}
      BY DEF Stored
    <2> QED
      BY <1>10, <2>3, <2>4, <2>5 DEF WaitAll
  <1>11. CASE BeginIndepData(r)
    BY <1>5, <1>11 DEF BeginIndepData
  <1>12. CASE \/ EndIndepData(r) \/ SyncNumrecsCall(r) \/ Sync(r) \/ Rename(r)
              \/ Redef(r) \/ EndDefCall(r)
    BY <1>6, <1>7, <1>12, Zenon
       DEF EndIndepData, SyncNumrecsCall, Sync, Rename, Redef, EndDefCall
  <1>13. CASE Close(r) \/ Abort(r)
    BY <1>6, <1>7, <1>13, Zenon DEF Close, Abort
  <1>14. Kept
    BY <1>8, <1>9, <1>10, <1>11, <1>12, <1>13 DEF MakeCall
  <1> QED
    BY <1>14

LEMMA MeetNoPhantom ==
  ASSUME NoPhantomInv, Meet
  PROVE  NoPhantom' /\ CallsCovered'
  <1>1. /\ written \in Nat
        /\ \A r \in Rank : call[r] \in Call /\ Covered(call[r], written)
    BY DEF NoPhantomInv, TypeOK, Count, CallsCovered, Covered
  <1>2. ASSUME TakeMax, UNCHANGED <<numrecs, fileNum>>
        PROVE  NoPhantom' /\ CallsCovered'
    <2>1. PICK m \in Count :
            /\ MaxOf({call[r].give : r \in Rank}, m)
            /\ call' = [r \in Rank |-> Advance([call[r] EXCEPT !.got = m])]
      BY <1>2 DEF TakeMax
    <2>2. /\ written' \in Count
          /\ written <= written'
          /\ \A r \in Rank : call[r].wrote <= written'
      BY <1>2 DEF TakeMax, MaxOf
    <2>3. m <= written'
      <3>1. PICK q \in Rank : m = call[q].give
        BY <2>1 DEF MaxOf
      <3>2. call[q].give \in Nat /\ call[q].wrote \in Nat /\ written' \in Nat
        BY <1>1, <2>2 DEF Call, Count
      <3> QED
        BY <1>1, <2>2, <3>1, <3>2 DEF Covered
    <2>4. ASSUME NEW r \in Rank
          PROVE  Covered(call'[r], written')
      <3> DEFINE c == [call[r] EXCEPT !.got = m]
      <3>1. /\ c \in Call /\ c.got = m /\ c.give = call[r].give
            /\ c.wrote = call[r].wrote
        BY <1>1 DEF Call
      <3>2. call[r].give \in Nat /\ call[r].wrote \in Nat /\ written' \in Nat
        BY <1>1, <2>2 DEF Call, Count
      <3>3. Covered(c, written')
        BY <1>1, <2>2, <2>3, <3>1, <3>2 DEF Covered
      <3>4. Covered(Advance(c), written')
        BY <3>1, <3>2, <3>3, CoveredAdvance
      <3> QED
        BY <2>1, <3>4
    <2>5. NoPhantom'
      BY <1>1, <1>2, <2>2 DEF NoPhantomInv, NoPhantom, TypeOK, Count
    <2> QED
      BY <2>4, <2>5 DEF CallsCovered, Covered
  <1>3. ASSUME \A r \in Rank : call'[r] \in {Idle, Advance(call[r])},
               UNCHANGED <<numrecs, fileNum, written>>
        PROVE  NoPhantom' /\ CallsCovered'
    <2>1. \A r \in Rank : Covered(call'[r], written)
      BY <1>1, <1>3, CoveredAdvance, CoveredIdle
    <2> QED
      BY <1>3, <2>1 DEF NoPhantomInv, NoPhantom, CallsCovered, Covered
  <1>4. CASE Agree
    BY <1>3, <1>4 DEF Agree
  <1>5. CASE Reduce
    BY <1>2, <1>5 DEF Reduce
  <1>6. CASE Vote
    BY <1>2, <1>3, <1>6 DEF Vote
  <1>7. CASE Barrier
    BY <1>3, <1>7 DEF Barrier
  <1>8. CASE Open
    BY <1>8 DEF Open, NoPhantomInv, NoPhantom, CallsCovered
  <1> QED
    BY <1>4, <1>5, <1>6, <1>7, <1>8 DEF Meet

LEMMA LocalStepNoPhantom ==
  ASSUME NoPhantomInv, NEW r \in Rank, LocalStep(r)
  PROVE  NoPhantom' /\ CallsCovered'
  <1>1. /\ written \in Nat
        /\ call[r] \in Call
        /\ numrecs[r] \in Nat /\ numrecs[r] <= written
        /\ call[r].got \in Nat /\ call[r].got <= written
        /\ \A q \in Rank : Covered(call[q], written)
    BY DEF NoPhantomInv, NoPhantom, TypeOK, Call, Count, CallsCovered, Covered
  <1>2. UNCHANGED written
    BY DEF LocalStep, Grow, Publish, Bcast, Adopt, Check, Header, Leave,
           EnterDefine, Discard, CloseFile, ExitDefine, SwitchMode
  <1>3. NoPhantom'
    <2>1. ASSUME NEW n \in Nat, n <= written, NEW result,
                 WriteNumrecs(n, result)
          PROVE  NoPhantom'
      BY <1>1, <1>2, <2>1 DEF WriteNumrecs, NoPhantomInv, NoPhantom, TypeOK, Count
    <2>2. ASSUME NEW n \in Nat, n <= written, UNCHANGED fileNum,
                 numrecs' = [numrecs EXCEPT ![r] = n]
          PROVE  NoPhantom'
      BY <1>1, <1>2, <2>2 DEF NoPhantomInv, NoPhantom, TypeOK, Count
    <2>3. CASE Grow(r)
      <3>1. CASE UNCHANGED <<numrecs, fileNum>>
        BY <1>2, <3>1 DEF NoPhantomInv, NoPhantom
      <3>2. CASE \E result \in Results : WriteNumrecs(call[r].got, result)
        BY <1>1, <2>1, <3>2
      <3>3. CASE numrecs' = [numrecs EXCEPT ![r] = call[r].got] /\ UNCHANGED fileNum
        BY <1>1, <2>2, <3>3
      <3> QED
        BY <2>3, <3>1, <3>2, <3>3 DEF Grow
    <2>4. CASE Publish(r)
      <3> DEFINE n == IF call[r].got > numrecs[r] THEN call[r].got ELSE numrecs[r]
      <3>1. n \in Nat /\ n <= written
        BY <1>1
      <3>2. \E result \in Results : WriteNumrecs(n, result)
        BY <2>4 DEF Publish
      <3> QED
        BY <2>1, <3>1, <3>2
    <2>5. CASE Adopt(r)
      BY <1>1, <2>2, <2>5 DEF Adopt
    <2>6. CASE Header(r)
      BY <1>1, <1>2, <2>6 DEF Header, NoPhantomInv, NoPhantom
    <2>7. CASE \/ Bcast(r) \/ Check(r) \/ Leave(r) \/ EnterDefine(r) \/ Discard(r)
               \/ CloseFile(r) \/ ExitDefine(r)
      <3>1. UNCHANGED <<numrecs, fileNum>>
        BY <2>7 DEF Bcast, Check, Leave, EnterDefine, Discard, CloseFile,
                    ExitDefine, SwitchMode
      <3> QED
        BY <1>2, <3>1 DEF NoPhantomInv, NoPhantom
    <2> QED
      BY <2>3, <2>4, <2>5, <2>6, <2>7 DEF LocalStep
  <1>4. PICK status \in Status :
          call' = [call EXCEPT ![r] = Idle]
          \/ call' = [call EXCEPT ![r] = Advance(@)]
          \/ call' = [call EXCEPT ![r] = Advance([@ EXCEPT !.status = status])]
    <2>1. CASE Done(r)
      BY <2>1 DEF Done, Status
    <2>2. CASE Publish(r)
      BY <2>2 DEF Publish, StatusOf, Status
    <2>3. CASE Bcast(r)
      BY <2>3 DEF Bcast, Done, Status
    <2>4. CASE Check(r)
      BY <2>4 DEF Check, Status
    <2>5. CASE Header(r)
      BY <2>5 DEF Header, Done, Status
    <2> QED
      BY <2>1, <2>2, <2>3, <2>4, <2>5
         DEF LocalStep, Grow, Adopt, Leave, EnterDefine, Discard, CloseFile,
             ExitDefine, SwitchMode
  <1>5. Covered(Advance(call[r]), written)
    BY <1>1, CoveredAdvance
  <1>6. Covered(Advance([call[r] EXCEPT !.status = status]), written)
    <2> DEFINE c == [call[r] EXCEPT !.status = status]
    <2>1. /\ c \in Call /\ c.got = call[r].got /\ c.give = call[r].give
          /\ c.wrote = call[r].wrote
      BY <1>1 DEF Call
    <2>2. Covered(c, written)
      BY <1>1, <2>1 DEF Covered
    <2> QED
      BY <1>1, <2>1, <2>2, CoveredAdvance
  <1>7. \A q \in Rank : Covered(call'[q], written)
    BY <1>1, <1>4, <1>5, <1>6, CoveredIdle DEF NoPhantomInv, TypeOK
  <1> QED
    BY <1>2, <1>3, <1>7 DEF CallsCovered, Covered

LEMMA IndepWriteNoPhantom ==
  ASSUME NoPhantomInv, NEW r \in Rank, NEW m \in Count, NEW w \in Count,
         m <= w, IndepWrite(r, m, w)
  PROVE  NoPhantom' /\ CallsCovered'
  <1>1. /\ m \in Nat /\ w \in Nat /\ written \in Nat /\ fileNum \in Nat
        /\ \A q \in Rank : /\ numrecs[q] \in Nat
                           /\ call[q].got \in Nat
                           /\ call[q].give \in Nat
                           /\ call[q].wrote \in Nat
    <2>1. m \in Nat /\ w \in Nat /\ written \in Nat /\ fileNum \in Nat
      BY DEF NoPhantomInv, TypeOK, Count
    <2>2. \A q \in Rank : call[q] \in Call /\ numrecs[q] \in Nat
      BY DEF NoPhantomInv, TypeOK, Count
    <2> QED
      BY <2>1, <2>2 DEF Call, Count
  <1>2. /\ written' \in Nat /\ written <= written' /\ m <= written'
        /\ UNCHANGED <<fileNum, call>>
    BY <1>1 DEF IndepWrite
  <1>3. \A q \in Rank : numrecs'[q] <= written'
    BY <1>1, <1>2 DEF IndepWrite, NoPhantomInv, NoPhantom, TypeOK
  <1> QED
    BY <1>1, <1>2, <1>3 DEF NoPhantomInv, NoPhantom, CallsCovered

(* An independent put or wait; the wait stores what it was asked to. *)
LEMMA IndepNoPhantom ==
  ASSUME ~WaitFails, NoPhantomInv, NEW r \in Rank,
         IndepWait(r) \/ \E n \in 1 .. MaxRecs : IndepPut(r, n)
  PROVE  NoPhantom' /\ CallsCovered'
  <1>1. CASE IndepWait(r)
    <2>1. \A n \in Count : Stored(n) = {n}
      BY DEF Stored
    <2>2. PICK n \in Count : \E m \in Scanned(n) : IndepWrite(r, m, n)
      BY <1>1, <2>1 DEF IndepWait
    <2> QED
      BY <2>2, WaitChoices, IndepWriteNoPhantom
  <1>2. ASSUME NEW n \in 1 .. MaxRecs, IndepPut(r, n)
        PROVE  NoPhantom' /\ CallsCovered'
    <2>1. n \in Count /\ n <= n
      BY DEF Count
    <2> QED
      BY <1>2, <2>1, IndepWriteNoPhantom DEF IndepPut
  <1> QED
    BY <1>1, <1>2

LEMMA InitNoPhantom == Init => NoPhantomInv
  <1> SUFFICES ASSUME Init PROVE NoPhantomInv
    OBVIOUS
  <1>1. NoPhantom
    BY DEF Init, NoPhantom, Count
  <1>2. CallsCovered
    BY DEF Init, CallsCovered, Idle, Count
  <1> QED
    BY <1>1, <1>2, InitType DEF NoPhantomInv

LEMMA NextNoPhantom ==
  ASSUME ~ZeroCount, ~WaitFails
  PROVE  NoPhantomInv /\ [Next]_vars => NoPhantomInv'
  <1> SUFFICES ASSUME NoPhantomInv, [Next]_vars PROVE NoPhantomInv'
    OBVIOUS
  <1>1. TypeOK'
    BY NextPreservesType DEF NoPhantomInv
  <1>2. CASE UNCHANGED vars
    BY <1>1, <1>2 DEF vars, NoPhantomInv, NoPhantom, CallsCovered
  <1>3. CASE Next
    BY <1>1, <1>3, MeetNoPhantom, CallNoPhantom, LocalStepNoPhantom,
       IndepNoPhantom DEF Next, NoPhantomInv
  <1> QED
    BY <1>2, <1>3

(***************************************************************************)
(* If no collective put is made with a zero record count, and no data      *)
(* write of a wait fails, no count in the memory of a rank or in the file  *)
(* header ever includes a record that no rank wrote: whatever data writes  *)
(* of puts and header writes fail, whichever of the pending requests the   *)
(* waits name, in every mode and with every sharing flag.                  *)
(***************************************************************************)
THEOREM NoPhantomRecords ==
  ASSUME ~ZeroCount, ~WaitFails
  PROVE  Spec => []NoPhantom
  <1>1. NoPhantomInv => NoPhantom
    BY DEF NoPhantomInv
  <1> QED
    BY <1>1, InitNoPhantom, NextNoPhantom, PTL DEF Spec
=============================================================================
