------------------------------ MODULE Metadata ------------------------------
(***************************************************************************)
(* The metadata of an open file: the arrays of dimensions, variables and   *)
(* attributes, in which an object's place is its ID, the hash tables that  *)
(* find an ID by name (ncmpio_dim.c, ncmpio_var.c, ncmpio_attr.m4,         *)
(* ncmpio_hash_func.c), and the header the root writes.  Every rank keeps  *)
(* a copy of its own.  The calls that change it are collective and are one *)
(* step here: what a rank does before the reduction of the errors, in      *)
(* which safe mode lets any rank's error refuse the call, and after it.    *)
(* IDs count from 1 and NC_GLOBAL is 0.                                    *)
(***************************************************************************)
EXTENDS Naturals, Integers, SequencesExt, FiniteSetsExt

CONSTANTS
    Ranks,       \* the processes, 0 the root
    Names,       \* the names the application uses
    Width,       \* the padded length of a name in the header
    Keys, Hash,  \* HASH_TABLE_SIZE keys and HASH_FUNC
    FillName,    \* the name _FillValue
    Sizes,       \* the padded sizes of attribute values
    SafeMode,    \* PNETCDF_SAFE_MODE
    MaxDims, MaxVars, MaxAtts,   \* bounds on the objects
    MaxCalls,    \* bound on the calls that change them
    Disagree,    \* may ranks in safe mode pass different arguments?
    BadIds,      \* may a call name a variable that is not there?
    Faults       \* failures of a rank of its own: subset of {"memory"}

ASSUME MetadataAssumption ==
    /\ 0 \in Ranks /\ IsFiniteSet(Ranks)
    /\ Hash \in [Names -> Keys] /\ Width \in [Names -> Nat \ {0}]
    /\ FillName \in Names /\ Sizes \subseteq Nat \ {0}
    /\ {MaxDims, MaxVars, MaxAtts, MaxCalls} \subseteq Nat /\ SafeMode \in BOOLEAN
    /\ Disagree \in BOOLEAN /\ BadIds \in BOOLEAN /\ Faults \subseteq {"memory"}

VARIABLES
    mode,    \* "define" or "data"
    nc,      \* of each rank: the arrays of objects and their name tables
    old,     \* the variables the file had at redef (ncp->old), -1 without
    disk,    \* the objects in the header on disk
    room,    \* the header space before the first variable's data
    stuck,   \* a rank waits in a reduction that another has left
    calls    \* the calls that changed something, up to MaxCalls

vars == <<mode, nc, old, disk, room, stuck, calls>>

Dims == -2        \* ncp->dims
Vars == -1        \* ncp->vars
NC_GLOBAL == 0    \* ncp->attrs; the attributes of variable v are list v
Spaces == Dims .. MaxVars
Root == 0

Empty == [s \in Spaces |-> <<>>]
Listed(l) == [s \in Spaces |-> [k \in Keys |-> l]]

(* The name tables: ncmpio_hash_insert, _replace and _delete. *)
Inserted(t, n, id) == [t EXCEPT ![Hash[n]] = Append(@, id)]
Replaced(t, o, n, id) == Inserted([t EXCEPT ![Hash[o]] = RemoveFirst(@, id)], n, id)

(* Mutant: only the deleted name's list is renumbered. *)
DeletedOneList(t, n, id) ==
    [t EXCEPT ![Hash[n]] =
        LET l == RemoveFirst(@, id)
        IN [i \in DOMAIN l |-> IF l[i] > id THEN l[i] - 1 ELSE l[i]]]

(* The IDs behind the deleted one move down by one, in every list. *)
Deleted(t, n, id) ==
    LET out == [t EXCEPT ![Hash[n]] = RemoveFirst(@, id)]
    IN [k \in Keys |->
          [i \in DOMAIN out[k] |->
             IF out[k][i] > id THEN out[k][i] - 1 ELSE out[k][i]]]

(* ncmpio_hash_table_populate_NC_dim, _var and _attr, at open: a loop over *)
(* the objects, of which the first i are in the table after i rounds.      *)
TableOf(objs) ==
    LET t[i \in 0 .. Len(objs)] ==
          IF i = 0 THEN [k \in Keys |-> <<>>] ELSE Inserted(t[i - 1], objs[i].name, i)
    IN t[Len(objs)]
Populated(defs) == [s \in Spaces |-> TableOf(defs[s])]

(* NC_finddim, NC_findvar and ncmpio_NC_findattr: the first ID in the list *)
(* of the name's key whose object has the name, here 0 if none has.        *)
Find(m, s, n) ==
    LET list == m.nameT[s][Hash[n]]
        hits == {i \in DOMAIN list : /\ list[i] \in DOMAIN m.defs[s]
                                     /\ m.defs[s][list[i]].name = n}
    IN IF hits = {} THEN 0 ELSE list[Min(hits)]

IsVar(m, v) == v \in 1 .. Len(m.defs[Vars])
HasAtts(m, s) == s = NC_GLOBAL \/ IsVar(m, s)   \* NC_attrarray0

(* A loop that adds up w[1], ..., w[n]. *)
Total(w, n) ==
    LET sum[i \in 0 .. n] == IF i = 0 THEN 0 ELSE sum[i - 1] + w[i]
    IN sum[n]

(* ncmpio_hdr_len_NC, counting what the objects take. *)
Bytes(objs) == Total([i \in DOMAIN objs |-> Width[objs[i].name] + objs[i].xsz], Len(objs))
HdrLen(defs) == Total([i \in 1 .. MaxVars + 3 |-> Bytes(defs[Dims + i - 1])], MaxVars + 3)

Object(n, xsz) == [name |-> n, xsz |-> xsz]

Init ==
    /\ mode = "define" /\ old = -1
    /\ nc = [r \in Ranks |-> [defs |-> Empty, nameT |-> Listed(<<>>)]]
    /\ disk = Empty /\ room = 0 /\ stuck = FALSE /\ calls = 0

(***************************************************************************)
(* A collective call.                                                      *)
(***************************************************************************)

(* What the ranks pass.  In safe mode one of them may differ from the root *)
(* in one argument, another value of it standing for all the others;       *)
(* without safe mode the caller answers for the arguments.                 *)
ArgsOf(S) ==
    LET fields == DOMAIN (CHOOSE a \in S : TRUE)
        Values == [f \in fields |-> {a[f] : a \in S}]
        Other(a, f) == IF Values[f] = {a[f]} THEN a[f]
                       ELSE CHOOSE x \in Values[f] : x # a[f]
        Given(odd, a, b) == [r \in Ranks |-> IF r = odd THEN b ELSE a]
        alike == {Given(Root, a, a) : a \in S}
    IN IF S = {} \/ ~Disagree \/ ~SafeMode THEN alike
       ELSE alike \cup {Given(t[1], t[2], [t[2] EXCEPT ![t[3]] = Other(t[2], t[3])]) :
                          t \in (Ranks \ {Root}) \X S \X fields}

(* Mutant: the dispatcher broadcasts the name and no other argument. *)
ConsistentNames(args) == \A r \in Ranks : args[r].name = args[Root].name

(* Each argument is compared with the root's (NC_EMULTIDEFINE_...). *)
Consistent(args) == \A r \in Ranks : args[r] = args[Root]

(* Mutant: the header is rewritten only when its length has changed. *)
WrittenIfResized(defs) == IF HdrLen(defs) = HdrLen(disk) THEN disk ELSE defs

(* ncmpio_write_header: the root writes all of the header. *)
Written(defs) == defs

(* What the verdicts of the ranks lead to: a rank that leaves before the   *)
(* reduction is missed in it, an error of any rank refuses or vetoes the   *)
(* call for all, and a rank's objects are as they were, as they are before *)
(* the driver's reduction (early) or as they are after it (late).          *)
Settle(args, voted, check, drive, early, late) ==
    LET left == {r \in Ranks : check[r] = "leave"}
        refused == SafeMode /\ (~Consistent(args) \/ \E r \in Ranks : check[r] = "no")
        going == {r \in Ranks : drive[r] = "go"}
        vetoed == SafeMode /\ voted /\ \E r \in Ranks : drive[r] = "no"
        done == IF vetoed THEN {} ELSE going
    IN IF left # {} /\ SafeMode
       THEN stuck' = (left # Ranks) /\ UNCHANGED <<nc, disk>>
       ELSE /\ stuck' = FALSE
            /\ nc' = IF refused THEN nc
                     ELSE [r \in Ranks |-> IF r \in done THEN late[r]
                                           ELSE IF r \in going THEN early[r] ELSE nc[r]]
            /\ disk' = IF ~refused /\ Root \in done /\ mode = "data"
                       THEN Written(late[Root].defs) ELSE disk

(* Check is the dispatcher's verdict and Drive the driver's: to go on, to  *)
(* return an error ("no"), to return without doing anything ("skip"), or   *)
(* to return before the reduction ("leave").  Early and Late are what the  *)
(* driver does to a rank's objects before and after its reduction.         *)
Collective(S, Check(_, _), Drive(_, _), Early(_, _), Late(_, _), voted) ==
    /\ ~stuck /\ calls < MaxCalls
    /\ \E args \in ArgsOf(S), lost \in IF "memory" \in Faults THEN SUBSET Ranks ELSE {{}} :
       LET Verdict(r) == IF Check(nc[r], args[r]) # "go" THEN Check(nc[r], args[r])
                         ELSE IF r \in lost THEN "no"
                         ELSE Drive(nc[r], args[r])
       IN Settle(args, voted,
                 [r \in Ranks |-> Check(nc[r], args[r])],
                 [r \in Ranks |-> Verdict(r)],
                 [r \in Ranks |-> Early(nc[r], args[r])],
                 [r \in Ranks |-> Late(Early(nc[r], args[r]), args[r])])
    /\ calls' = IF nc' = nc THEN calls ELSE calls + 1
    /\ UNCHANGED <<mode, old, room>>

Nothing(m, a) == m

(***************************************************************************)
(* Dimensions and variables: s is Dims or Vars.                            *)
(***************************************************************************)
Append1(m, s, obj) == [m EXCEPT !.defs[s] = Append(@, obj)]
List(m, s, n) == [m EXCEPT !.nameT[s] = Inserted(@, n, Len(m.defs[s]))]

CheckNew(m, a) ==
    IF mode # "define" \/ Find(m, a.s, a.name) # 0 THEN "no" ELSE "go"

Always(m, a) == "go"

NewObjects(s) == {[s |-> s, name |-> n] : n \in Names}

DefDim ==   \* ncmpio_def_dim has no reduction
    /\ \A r \in Ranks : Len(nc[r].defs[Dims]) < MaxDims
    /\ LET Late(m, a) == List(Append1(m, Dims, Object(a.name, 0)), Dims, a.name)
       IN Collective(NewObjects(Dims), CheckNew, Always, Nothing, Late, FALSE)

DefVar ==   \* the array grows before the reduction, the table after it
    /\ \A r \in Ranks : Len(nc[r].defs[Vars]) < MaxVars
    /\ LET Early(m, a) == Append1(m, Vars, Object(a.name, 0))
           Late(m, a) == List(m, Vars, a.name)
       IN Collective(NewObjects(Vars), CheckNew, Always, Early, Late, TRUE)

(* A longer name needs define mode. *)
Grows(m, s, id, n) == mode = "data" /\ Width[n] > Width[m.defs[s][id].name]

(* Mutant: the length of the new name is not looked at. *)
DriveRenameAnyLength(m, a) == "go"

DriveRename(m, a) == IF Grows(m, a.s, a.id, a.name) THEN "no" ELSE "go"

(* Mutant: the name table keeps the ID under the old name. *)
EarlyRenameNone(m, a) == m

(* ncmpio_update_name_lookup_table comes before the reduction. *)
EarlyRename(m, a) ==
    [m EXCEPT !.nameT[a.s] = Replaced(@, m.defs[a.s][a.id].name, a.name, a.id)]
LateRename(m, a) == [m EXCEPT !.defs[a.s][a.id].name = a.name]

Renames(s, max) == [s : {s}, id : 1 .. max, name : Names]

(* A dimension may be given its own name again; a variable may not. *)
CheckRenameDim(m, a) ==
    IF a.id > Len(m.defs[Dims]) THEN "no"
    ELSE IF Find(m, Dims, a.name) = a.id THEN "skip"
    ELSE IF Find(m, Dims, a.name) # 0 THEN "no" ELSE "go"
RenameDim ==
    Collective(Renames(Dims, MaxDims), CheckRenameDim, DriveRename, EarlyRename, LateRename, TRUE)

CheckRenameVar(m, a) ==
    IF a.id > Len(m.defs[Vars]) \/ Find(m, Vars, a.name) # 0 THEN "no" ELSE "go"
RenameVar ==
    Collective(Renames(Vars, MaxVars), CheckRenameVar, DriveRename, EarlyRename, LateRename, TRUE)

(***************************************************************************)
(* Attributes: s is NC_GLOBAL or a variable.                               *)
(***************************************************************************)
Holders == IF BadIds THEN 0 .. MaxVars
           ELSE {s \in 0 .. MaxVars : \A r \in Ranks : HasAtts(nc[r], s)}

CheckAtt(m, a) == IF HasAtts(m, a.s) THEN "go" ELSE "no"

(* A new attribute, or an overwritten one that keeps its place. *)
Stored(m, s, n, xsz) ==
    IF Find(m, s, n) # 0 THEN [m EXCEPT !.defs[s][Find(m, s, n)].xsz = xsz]
    ELSE List(Append1(m, s, Object(n, xsz)), s, n)

(* In data mode a value may replace one that is not smaller; no value may  *)
(* be added.                                                               *)
Fits(m, s, n, xsz) ==
    mode = "data" => Find(m, s, n) # 0 /\ xsz <= m.defs[s][Find(m, s, n)].xsz

Full(m, s, n) == Find(m, s, n) = 0 /\ Len(m.defs[s]) = MaxAtts

DrivePut(m, a) ==
    IF \/ a.s # NC_GLOBAL /\ a.name = FillName /\ a.s <= old   \* NC_ELATEFILL
       \/ ~Fits(m, a.s, a.name, a.xsz)
    THEN "no" ELSE "go"
LatePut(m, a) == Stored(m, a.s, a.name, a.xsz)
PutAtt ==
    LET Puts == {a \in [s : Holders, name : Names, xsz : Sizes] :
                   \A r \in Ranks : HasAtts(nc[r], a.s) => ~Full(nc[r], a.s, a.name)}
    IN Collective(Puts, CheckAtt, DrivePut, Nothing, LatePut, TRUE)

CheckCopy(m, a) == IF HasAtts(m, a.from) /\ HasAtts(m, a.to) THEN "go" ELSE "no"
Source(m, a) == m.defs[a.from][Find(m, a.from, a.name)]
DriveCopy(m, a) ==
    IF Find(m, a.from, a.name) = 0 THEN "no"
    ELSE IF a.from = a.to THEN "skip"   \* a self copy is no error
    ELSE IF ~Fits(m, a.to, a.name, Source(m, a).xsz) THEN "no" ELSE "go"
LateCopy(m, a) == Stored(m, a.to, a.name, Source(m, a).xsz)
CopyAtt ==
    LET Copies == {a \in [from : Holders, to : Holders, name : Names] :
                     \A r \in Ranks : HasAtts(nc[r], a.to) => ~Full(nc[r], a.to, a.name)}
    IN Collective(Copies, CheckCopy, DriveCopy, Nothing, LateCopy, TRUE)

DriveRenameAtt(m, a) ==
    LET id == Find(m, a.s, a.name)
    IN IF \/ id = 0 \/ Find(m, a.s, a.new) # 0
          \/ Grows(m, a.s, id, a.new)
       THEN "no" ELSE "go"
LateRenameAtt(m, a) ==   \* here the table changes after the reduction
    LET id == Find(m, a.s, a.name)
    IN [m EXCEPT !.nameT[a.s] = Replaced(@, a.name, a.new, id),
                 !.defs[a.s][id].name = a.new]
RenameAtt ==
    Collective([s : Holders, name : Names, new : Names],
               CheckAtt, DriveRenameAtt, Nothing, LateRenameAtt, TRUE)

CheckDel(m, a) ==   \* NC_ENOTVAR returns before the dispatcher's reduction
    IF mode # "define" THEN "no" ELSE IF ~HasAtts(m, a.s) THEN "leave" ELSE "go"
DriveDel(m, a) == IF Find(m, a.s, a.name) = 0 THEN "no" ELSE "go"
EarlyDel(m, a) == [m EXCEPT !.nameT[a.s] = Deleted(@, a.name, Find(m, a.s, a.name))]
LateDel(m, a) ==
    LET id == CHOOSE i \in DOMAIN m.defs[a.s] : m.defs[a.s][i].name = a.name
    IN [m EXCEPT !.defs[a.s] = RemoveAt(@, id)]
DelAtt ==
    Collective([s : Holders, name : Names], CheckDel, DriveDel, EarlyDel, LateDel, TRUE)

(***************************************************************************)
(* The modes, and the file closed and opened again.                        *)
(***************************************************************************)
Redef ==
    /\ mode = "data" /\ mode' = "define"
    /\ old' = Len(nc[Root].defs[Vars])
    /\ UNCHANGED <<nc, disk, room, stuck, calls>>

EndDef ==   \* the data never move up: begin_var does not shrink
    /\ mode = "define" /\ ~stuck /\ mode' = "data" /\ old' = -1
    /\ disk' = nc[Root].defs
    /\ room' = Max({room, HdrLen(nc[Root].defs)})
    /\ UNCHANGED <<nc, stuck, calls>>

(* Close (or, in define mode after redef, abort) and open: every rank has  *)
(* the objects of the header and builds its tables anew.                   *)
Reopen ==
    /\ mode = "data" \/ old # -1
    /\ ~stuck /\ mode' = "data" /\ old' = -1
    /\ nc' = [r \in Ranks |-> [defs |-> disk, nameT |-> Populated(disk)]]
    /\ UNCHANGED <<disk, room, stuck, calls>>

Next == \/ DefDim \/ DefVar \/ RenameDim \/ RenameVar
        \/ PutAtt \/ CopyAtt \/ RenameAtt \/ DelAtt
        \/ Redef \/ EndDef \/ Reopen

Spec == Init /\ [][Next]_vars

(***************************************************************************)
(* Properties.                                                             *)
(***************************************************************************)

(* The state is well formed, and no table holds an ID past its array. *)
TypeOK ==
    /\ stuck \in BOOLEAN /\ calls \in 0 .. MaxCalls /\ mode \in {"define", "data"}
    /\ old \in -1 .. MaxVars /\ room \in Nat
    /\ \A r \in Ranks, s \in Spaces :
         /\ \A i \in DOMAIN nc[r].defs[s] :
              nc[r].defs[s][i] \in [name : Names, xsz : Sizes \cup {0}]
         /\ \A k \in Keys : ToSet(nc[r].nameT[s][k]) \subseteq DOMAIN nc[r].defs[s]

(* Whatever was defined, renamed, deleted or copied before, looking a name *)
(* up finds the one object that bears it, and no object if none does: the  *)
(* tables, changed in place by every call, never part from the arrays      *)
(* (ncmpio_hash_func.c), and no two objects of a kind share a name.        *)
LookupAgrees ==
    \A r \in Ranks, s \in Spaces, n \in Names :
        {i \in DOMAIN nc[r].defs[s] : nc[r].defs[s][i].name = n}
            = {Find(nc[r], s, n)} \ {0}

(* The ranks' copies stay alike, also when in safe mode they pass          *)
(* different names, IDs or sizes: a call some rank refuses changes nothing *)
(* on any of them (the reductions of the dispatcher and of the driver).    *)
RanksAgree == \A r \in Ranks : nc[r] = nc[Root]

(* In data mode the header on disk is the root's metadata, so a file that  *)
(* is closed or lost now reopens with it (ncmpio_write_header).            *)
DiskCurrent == mode = "data" => disk = nc[Root].defs

(* In data mode no sequence of renames, overwritten and copied attributes  *)
(* makes the header longer than the space it was given before the first    *)
(* variable, although each call compares only the one object it changes.   *)
HeaderFits == mode = "data" => HdrLen(nc[Root].defs) <= room

(* No rank waits in a reduction another has left. *)
NoRankLeft == ~stuck

(* A variable the file had at redef neither gets nor loses a _FillValue. *)
FillKept ==
    [][\A v \in 1 .. old : mode' = "define" =>
          (Find(nc[Root], v, FillName) = 0) = (Find(nc'[Root], v, FillName) = 0)]_vars
=============================================================================
