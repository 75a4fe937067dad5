------------------------------- MODULE Layout -------------------------------
(***************************************************************************)
(* The layout of a file and the moves of its data when define mode ends:   *)
(* ncmpio_enddef.c, the fill of new variables in ncmpio_fill.c, the layout *)
(* an opener computes from the header (compute_var_shape in                *)
(* ncmpio_header_get.c) and the ways into and out of define mode           *)
(* (ncmpio_redef, ncmpio_close, ncmpio_abort).                             *)
(*                                                                         *)
(* A file is a sequence of cells.  Offsets, sizes and alignments are       *)
(* counted in cells; Pad cells make the 4 bytes every CDF format aligns    *)
(* to.  The content of a cell is a token that says which element of which  *)
(* record of which variable was put there.                                 *)
(*                                                                         *)
(* ncmpi_enddef is collective.  Ranks compute the same offsets from the    *)
(* same metadata (one step), then move the data block by block: in every   *)
(* round each rank reads its chunk, all meet in an MPI_Allreduce, each     *)
(* rank writes its chunk, all meet again.  Reads and writes of different   *)
(* ranks interleave freely between the reductions.  Rank 0 writes the      *)
(* header while the others may already fill new variables.                 *)
(***************************************************************************)
EXTENDS Integers, Sequences, FiniteSets

CONSTANTS
    NProcs,       \* processes of the file's communicator
    Chunk,        \* cells a rank moves in one round (1 MB or striping_unit)
    Pad,          \* cells of the 4-byte unit (X_ALIGN)
    DefaultAlign, \* FILE_ALIGNMENT_DEFAULT
    Sizes,        \* cells of a fixed-size variable or of one record
    Hints,        \* what nc_*_align_size may say: records [h, fx, r], 0 = not set
    EndDefArgs,   \* arguments of ncmpi__enddef: [h_minfree, v_align, v_minfree, r_align]
    MaxVars,      \* bound: variables of the file
    MaxAtts,      \* bound: attributes, each grows the header by one cell
    MaxRecs,      \* bound: records
    MaxRedefs,    \* bound: times the file re-enters define mode
    Faults        \* subset of {"read"}: MPI-IO errors that may happen in a move

ASSUME LayoutAssumption ==
    /\ NProcs \in Nat \ {0} /\ Chunk \in Nat \ {0} /\ Pad \in Nat \ {0}
    /\ DefaultAlign \in Nat \ {0} /\ Sizes \subseteq Nat \ {0}
    /\ Hints \subseteq [h : Nat, fx : Nat, r : Nat]
    /\ EndDefArgs \subseteq
          [h_minfree : Nat, v_align : Nat, v_minfree : Nat, r_align : Nat]
    /\ {MaxVars, MaxAtts, MaxRecs, MaxRedefs} \subseteq Nat
    /\ Faults \subseteq {"read"}

VARIABLES
    ncp,      \* metadata in memory: [vars, atts, begin_var, begin_rec, recsize]
    old,      \* ncp->old: the metadata when redef was called, None before
    align,    \* ncp->h_align, fx_v_align, r_align
    fill,     \* the fill mode of the file and its variables
    numrecs,  \* ncp->numrecs
    disk,     \* the file: cells 0 .. size-1
    saved,    \* the metadata in the file's header, None before the first enddef
    mode,     \* "define", "enddef" (inside the call), "data", "closed", "deleted"
    moves,    \* blocks still to move: [to, from, n, fixed]
    failed,   \* a block of a fixed-size variable could not be moved
    at,       \* where each rank is inside enddef
    buf,      \* the cells each rank has read
    redefs,   \* times redef was called
    known     \* history: what the elements of the variables should read

vars == <<ncp, old, align, fill, numrecs, disk, saved, mode, moves, failed, at,
          buf, redefs, known>>

Ranks == 0 .. NProcs - 1
None == [none |-> TRUE]
Larger(a, b) == IF a > b THEN a ELSE b
RndUp(x, a) == ((x + a - 1) \div a) * a

(***************************************************************************)
(* Metadata                                                                *)
(***************************************************************************)
VLen(v) == RndUp(v.size, Pad)                       \* NC_var.len
HdrLen(n) == n.atts + Len(n.vars)                   \* ncmpio_hdr_len_NC
OfKind(n, rec) == {i \in DOMAIN n.vars : n.vars[i].rec = rec}
First(S) == CHOOSE i \in S : \A j \in S : i <= j
EmptyMeta == [vars |-> <<>>, atts |-> 0, begin_var |-> 0, begin_rec |-> 0,
              recsize |-> 0]

\* The cells of the variables in S when the file has recs records: an element
\* is <<variable, record, cell of the record>>.
Elements(n, S, recs) ==
    UNION {{i} \X (0 .. (IF n.vars[i].rec THEN recs ELSE 1) - 1)
               \X (0 .. n.vars[i].size - 1) : i \in S}

\* Where the header n says an element is.
Offset(n, e) ==
    LET v == n.vars[e[1]] IN
    v.begin + e[3] + (IF v.rec THEN e[2] * n.recsize ELSE 0)

(***************************************************************************)
(* The file                                                                *)
(***************************************************************************)
\* What a cell holds that is no element; an element stands for its own data.
Hole == <<"hole">>
Fill == <<"fill">>
HeaderCell == <<"header">>

FileSize(d) == Cardinality(DOMAIN d)

\* MPI_File_read_at: what is there, cut off at the end of the file.
ReadCells(d, off, n) ==
    LET got == IF off >= FileSize(d) THEN 0
               ELSE IF off + n <= FileSize(d) THEN n ELSE FileSize(d) - off
    IN [k \in 1 .. got |-> d[off + k - 1]]

\* Writing the cells of f, a function from offsets; a gap reads as a hole.
WriteCells(d, f) ==
    LET end == IF DOMAIN f = {} THEN 0
               ELSE 1 + CHOOSE m \in DOMAIN f : \A c \in DOMAIN f : c <= m
    IN [c \in 0 .. Larger(FileSize(d), end) - 1 |->
           IF c \in DOMAIN f THEN f[c]
           ELSE IF c \in DOMAIN d THEN d[c] ELSE Hole]

Block(off, s) == [c \in off .. off + Len(s) - 1 |-> s[c - off + 1]]

(***************************************************************************)
(* NC_begins: the offsets of the variables                                 *)
(***************************************************************************)

\* The alignments of the call, a * giving the value kept from the open or the
\* first enddef.  v_align goes to h_align and to a field nothing reads: fixed
\* variables are aligned to fx_v_align, which only the hint sets.
Aligned(a, args, n) ==
    LET fixsize == {i \in OfKind(n, FALSE) : VLen(n.vars[i]) > 0}
        h == IF a.h # 0 THEN a.h
             ELSE IF args.v_align > 0 THEN args.v_align
             ELSE IF fixsize # {} /\ args.r_align > 0 THEN args.r_align
             ELSE DefaultAlign
        r == IF a.r # 0 THEN a.r ELSE args.r_align
        Unit(x) == IF x = 0 THEN Pad ELSE RndUp(x, Pad)
    IN [h |-> Unit(h), fx |-> Unit(a.fx), r |-> Unit(r)]

\* The begin variable i had before redef: old variables are a prefix.
OldBegin(o, i) == IF o # None /\ i \in DOMAIN o.vars THEN o.vars[i].begin ELSE 0

\* The first pass over the variables places the fixed-size ones from offset
\* start: the begin of the last one placed and where it ends.
Place(n, o, start, unit) ==
    LET p[i \in 0 .. Len(n.vars)] ==
          IF i = 0 THEN [begin |-> start, end |-> start]
          ELSE IF n.vars[i].rec THEN p[i - 1]
          ELSE LET b == Larger(RndUp(p[i - 1].end, unit), OldBegin(o, i))
               IN [begin |-> b, end |-> b + VLen(n.vars[i])]
    IN p

\* The lengths of the record variables among the first i, added up.
RecLens(n) ==
    LET s[i \in 0 .. Len(n.vars)] ==
          IF i = 0 THEN 0
          ELSE s[i - 1] + IF n.vars[i].rec THEN VLen(n.vars[i]) ELSE 0
    IN s

\* The start of the record section: kept if it still fits and is aligned.
BeginRec(n, o, a, vfree, end) ==
    LET kept    == IF n.begin_rec < end \/ n.begin_rec # RndUp(n.begin_rec, a.fx)
                   THEN RndUp(end, a.fx) ELSE n.begin_rec
        free    == IF kept < end + vfree THEN RndUp(end + vfree, a.fx) ELSE kept
        aligned == IF a.r > 1 THEN RndUp(free, a.r) ELSE free
    IN Larger(aligned, IF o = None THEN 0 ELSE o.begin_rec)

\* Mutant: the first record variable is taken for the only one.
RecSizeOfFirst(n) ==
    LET R == OfKind(n, TRUE) IN IF R = {} THEN 0 ELSE n.vars[First(R)].size

\* The size of a record: a lone record variable is not padded.
RecSize(n) ==
    LET R == OfKind(n, TRUE)
        total == RecLens(n)[Len(n.vars)]
    IN  IF R # {} /\ total = VLen(n.vars[First(R)]) THEN n.vars[First(R)].size
        ELSE total

\* Mutant: the header extent may shrink.
ExtentShrinks(n, o, a, args) ==
    IF n.vars = <<>> THEN HdrLen(n) ELSE RndUp(HdrLen(n) + args.h_minfree, a.h)

\* The header extent: the aligned header with its free space, never smaller
\* than before redef.
Extent(n, o, a, args) ==
    LET wanted == IF n.vars = <<>> THEN HdrLen(n)
                  ELSE RndUp(HdrLen(n) + args.h_minfree, a.h)
    IN Larger(wanted, IF o = None THEN 0 ELSE o.begin_var)

NC_begins(n, o, a, args) ==
    LET fixed  == Place(n, o, Extent(n, o, a, args), a.fx)
        rec0   == BeginRec(n, o, a, args.v_minfree, fixed[Len(n.vars)].end)
        begin(i) == IF n.vars[i].rec
                    THEN Larger(rec0 + RecLens(n)[i - 1], OldBegin(o, i))
                    ELSE fixed[i].begin
        placed == [i \in DOMAIN n.vars |-> [n.vars[i] EXCEPT !.begin = begin(i)]]
        F      == OfKind(n, FALSE)
    IN [n EXCEPT !.vars = placed, !.begin_rec = rec0, !.recsize = RecSize(n),
                 !.begin_var = IF F = {} THEN rec0 ELSE placed[First(F)].begin]

\* ncmpio_NC_check_voffs: the code's own check of a layout, made in safe mode
\* and by every open.
Ordered(n, rec, start) ==
    \A i \in OfKind(n, rec) :
        LET before == {j \in OfKind(n, rec) : j < i}
            last == CHOOSE j \in before : \A k \in before : k <= j
        IN n.vars[i].begin >= IF before = {} THEN start
                              ELSE n.vars[last].begin + VLen(n.vars[last])
CheckVoffs(n) ==
    n.vars # <<>> =>
      /\ Ordered(n, FALSE, n.begin_var)
      /\ \A i \in OfKind(n, FALSE) : n.begin_rec >= n.vars[i].begin + VLen(n.vars[i])
      /\ Ordered(n, TRUE, n.begin_rec)

Shape(h, recsize) ==
    LET F == OfKind(h, FALSE)
        R == OfKind(h, TRUE)
        lastFixed == CHOOSE i \in F : \A j \in F : j <= i
        rec0 == CASE R # {} -> h.vars[First(R)].begin
                  [] R = {} /\ F # {} -> h.vars[lastFixed].begin + VLen(h.vars[lastFixed])
                  [] OTHER -> 0
    IN [h EXCEPT !.begin_rec = rec0, !.recsize = recsize,
                 !.begin_var = IF F = {} THEN rec0 ELSE h.vars[First(F)].begin]

\* Mutant: the records of a lone record variable are taken to be padded.
PaddedShape(h) == Shape(h, RecLens(h)[Len(h.vars)])

\* compute_var_shape: the section offsets an opener derives from the header.
OpenShape(h) == Shape(h, RecSize(h))

(***************************************************************************)
(* The moves                                                               *)
(***************************************************************************)
Move(to, from, n, isFixed) == [to |-> to, from |-> from, n |-> n, fixed |-> isFixed]

\* move_fixed_vars: one at a time, from the last, when the new begin is larger.
FixedMoves(n, o) ==
    LET s[i \in 0 .. Len(o.vars)] ==
          IF i = 0 THEN <<>>
          ELSE IF o.vars[i].rec \/ n.vars[i].begin <= o.vars[i].begin THEN s[i - 1]
          ELSE <<Move(n.vars[i].begin, o.vars[i].begin, VLen(n.vars[i]), TRUE)>> \o s[i - 1]
    IN s[Len(o.vars)]

\* move_record_vars: the whole section, or record by record from the last when
\* records have grown.
RecordMoves(n, o, recs) ==
    IF n.recsize = o.recsize
    THEN IF n.recsize * recs = 0 THEN <<>>
         ELSE <<Move(n.begin_rec, o.begin_rec, n.recsize * recs, FALSE)>>
    ELSE [k \in 1 .. (IF o.recsize = 0 THEN 0 ELSE recs) |->
            Move(n.begin_rec + (recs - k) * n.recsize,
                 o.begin_rec + (recs - k) * o.recsize, o.recsize, FALSE)]

\* Mutant: nothing is moved unless the first variable is.
MovesIfHeaderGrew(n, o, recs) ==
    IF o = None \/ n.vars = <<>> \/ n.begin_var = o.begin_var THEN <<>>
    ELSE RecordMoves(n, o, recs) \o FixedMoves(n, o)

Moves(n, o, recs) ==
    IF o = None \/ n.vars = <<>> THEN <<>>
    ELSE IF n.begin_var > o.begin_var THEN RecordMoves(n, o, recs) \o FixedMoves(n, o)
    ELSE IF n.begin_rec > o.begin_rec \/ n.recsize > o.recsize
    THEN RecordMoves(n, o, recs)
    ELSE <<>>

\* One round of move_file_block moves the last NProcs chunks, or what is left.
LastRound(m) == m.n < NProcs * Chunk

\* Mutant: no special case for the last group of chunks.
BaseAlways(m) == m.n - NProcs * Chunk

Base(m) == IF LastRound(m) THEN 0 ELSE m.n - NProcs * Chunk
Count(m, r) ==
    IF ~LastRound(m) \/ r < m.n \div Chunk THEN Chunk
    ELSE IF r = m.n \div Chunk THEN m.n % Chunk ELSE 0

(***************************************************************************)
(* The fill of new variables                                               *)
(***************************************************************************)

\* fillerup_aggregate divides the cells of every new variable and record evenly.
ShareStart(n, r) == (n \div NProcs) * r + (IF r < n % NProcs THEN r ELSE n % NProcs)
ShareOf(n, r) ==
    ShareStart(n, r) .. ShareStart(n, r) + (n \div NProcs) - (IF r < n % NProcs THEN 0 ELSE 1)

NewVars(n, o) == IF o = None THEN DOMAIN n.vars ELSE DOMAIN n.vars \ DOMAIN o.vars
FillRecs(o, recs) == IF o = None THEN 0 ELSE recs
FillShare(n, o, recs, r) ==
    {e \in Elements(n, NewVars(n, o), FillRecs(o, recs)) :
        e[3] \in ShareOf(n.vars[e[1]].size, r)}
FillBlock(n, o, recs, r) ==
    [c \in {Offset(n, e) : e \in FillShare(n, o, recs, r)} |-> Fill]

(***************************************************************************)
(* Actions                                                                 *)
(***************************************************************************)
Everywhere(phase) == [r \in Ranks |-> phase]
NoCells == [r \in Ranks |-> <<>>]

\* The phase that follows the moves: rank 0 writes the header first.
Finish == [r \in Ranks |-> IF r = 0 THEN "header" ELSE "fill"]

Init ==
    /\ ncp = EmptyMeta /\ old = None /\ align \in Hints /\ fill = FALSE
    /\ numrecs = 0 /\ disk = <<>> /\ saved = None
    /\ mode = "define" /\ moves = <<>> /\ failed = FALSE
    /\ at = Everywhere("idle") /\ buf = NoCells /\ redefs = 0
    /\ known = <<>>

\* ncmpi_def_var: the new variable goes to the end of the list.
DefVar(rec, size) ==
    /\ mode = "define" /\ Len(ncp.vars) < MaxVars
    /\ ncp' = [ncp EXCEPT !.vars = Append(@, [rec |-> rec, size |-> size, begin |-> 0])]
    /\ UNCHANGED <<old, align, fill, numrecs, disk, saved, mode, moves, failed, at,
                   buf, redefs, known>>

\* ncmpi_set_fill: it holds for the variables defined before and after it.
SetFill ==
    /\ mode = "define" /\ fill' = ~fill
    /\ UNCHANGED <<ncp, old, align, numrecs, disk, saved, mode, moves, failed, at,
                   buf, redefs, known>>

\* ncmpi_put_att in define mode: the header grows.
PutAtt ==
    /\ mode = "define" /\ ncp.atts < MaxAtts
    /\ ncp' = [ncp EXCEPT !.atts = @ + 1]
    /\ UNCHANGED <<old, align, fill, numrecs, disk, saved, mode, moves, failed, at,
                   buf, redefs, known>>

\* ncmpio__enddef up to the first collective transfer.
EndDef(args) ==
    /\ mode = "define"
    /\ LET a    == Aligned(align, args, ncp)
           n    == NC_begins(ncp, old, a, args)
           recs == IF old = None THEN 0 ELSE numrecs
       IN /\ align' = a /\ ncp' = n /\ numrecs' = recs
          /\ moves' = Moves(n, old, recs)
          /\ at' = IF moves' = <<>> THEN Finish ELSE Everywhere("read")
    /\ mode' = "enddef" /\ failed' = FALSE
    /\ UNCHANGED <<old, fill, disk, saved, buf, redefs, known>>

\* A rank reads its chunk of the block being moved.
ReadChunk(r) ==
    /\ at[r] = "read"
    /\ LET m == Head(moves) IN
       buf' = [buf EXCEPT ![r] =
                 ReadCells(disk, m.from + Base(m) + r * Chunk, Count(m, r))]
    /\ at' = [at EXCEPT ![r] = "readsum"]
    /\ UNCHANGED <<ncp, old, align, fill, numrecs, disk, saved, mode, moves, failed,
                   redefs, known>>

\* The block is given up: a record move ends the call, a fixed one does not.
GiveUp ==
    /\ LET rest == IF Head(moves).fixed THEN Tail(moves) ELSE <<>> IN
       /\ moves' = rest
       /\ IF rest = <<>>
          THEN mode' = "define" /\ at' = Everywhere("idle") /\ failed' = FALSE
          ELSE mode' = mode /\ at' = Everywhere("read") /\ failed' = TRUE
    /\ buf' = NoCells

\* The reduction after the reads.
ReadsDone ==
    /\ at = Everywhere("readsum")
    /\ \E ok \in IF "read" \in Faults THEN BOOLEAN ELSE {TRUE} :
         IF ok THEN at' = Everywhere("write") /\ UNCHANGED <<mode, moves, failed, buf>>
         ELSE GiveUp
    /\ UNCHANGED <<ncp, old, align, fill, numrecs, disk, saved, redefs, known>>

\* A rank writes what it has read.
WriteChunk(r) ==
    /\ at[r] = "write"
    /\ LET m == Head(moves) IN
       disk' = WriteCells(disk, Block(m.to + Base(m) + r * Chunk, buf[r]))
    /\ buf' = [buf EXCEPT ![r] = <<>>]
    /\ at' = [at EXCEPT ![r] = "writesum"]
    /\ UNCHANGED <<ncp, old, align, fill, numrecs, saved, mode, moves, failed, redefs,
                   known>>

\* The blocks left after a round of the first one.
AfterRound(ms) ==
    LET m == Head(ms) IN
    IF Base(m) = 0 THEN Tail(ms) ELSE <<[m EXCEPT !.n = Base(m)]>> \o Tail(ms)

\* The reduction after the writes; after the last block a failed move of a
\* fixed variable makes the call return its error, still in define mode.
WritesDone ==
    /\ at = Everywhere("writesum")
    /\ moves' = AfterRound(moves)
    /\ IF moves' # <<>>
       THEN at' = Everywhere("read") /\ UNCHANGED <<mode, failed>>
       ELSE /\ failed' = FALSE
            /\ IF failed THEN mode' = "define" /\ at' = Everywhere("idle")
               ELSE mode' = mode /\ at' = Finish
    /\ UNCHANGED <<ncp, old, align, fill, numrecs, disk, saved, buf, redefs, known>>

\* write_NC: rank 0 writes the header, xsz cells of it.
WriteHeader ==
    /\ at[0] = "header"
    /\ disk' = WriteCells(disk, [c \in 0 .. HdrLen(ncp) - 1 |-> HeaderCell])
    /\ saved' = ncp
    /\ at' = [at EXCEPT ![0] = "fill"]
    /\ UNCHANGED <<ncp, old, align, fill, numrecs, mode, moves, failed, buf, redefs,
                   known>>

\* fillerup_aggregate: a rank writes its share of the new variables.
FillVars(r) ==
    /\ at[r] = "fill"
    /\ disk' = IF fill THEN WriteCells(disk, FillBlock(ncp, old, numrecs, r)) ELSE disk
    /\ at' = [at EXCEPT ![r] = "done"]
    /\ UNCHANGED <<ncp, old, align, fill, numrecs, saved, mode, moves, failed, buf,
                   redefs, known>>

\* Leaving define mode; the elements of new variables now read as filled.
Leave ==
    /\ at = Everywhere("done")
    /\ known' = IF ~fill THEN known
                ELSE [e \in DOMAIN known \cup
                            Elements(ncp, NewVars(ncp, old), FillRecs(old, numrecs)) |->
                        IF e \in DOMAIN known THEN known[e] ELSE Fill]
    /\ old' = None /\ mode' = "data" /\ at' = Everywhere("idle")
    /\ UNCHANGED <<ncp, align, fill, numrecs, disk, saved, moves, failed, buf, redefs>>

\* A put of a whole variable in data mode, for a record variable of its first
\* recs records.
Put(v, recs) ==
    /\ mode = "data"
    /\ LET E == Elements(ncp, {v}, recs) IN
       /\ disk' = WriteCells(disk, [c \in {Offset(ncp, e) : e \in E} |->
                                      CHOOSE e \in E : Offset(ncp, e) = c])
       /\ known' = [e \in DOMAIN known \cup E |-> IF e \in E THEN e ELSE known[e]]
       /\ numrecs' = IF ncp.vars[v].rec THEN Larger(numrecs, recs) ELSE numrecs
    /\ UNCHANGED <<ncp, old, align, fill, saved, mode, moves, failed, at, buf, redefs>>

\* ncmpio_redef
Redef ==
    /\ mode = "data" /\ redefs < MaxRedefs
    /\ old' = ncp /\ mode' = "define" /\ redefs' = redefs + 1
    /\ UNCHANGED <<ncp, align, fill, numrecs, disk, saved, moves, failed, at, buf, known>>

\* ncmpi_close in data mode.
Close ==
    /\ mode = "data" /\ mode' = "closed"
    /\ UNCHANGED <<ncp, old, align, fill, numrecs, disk, saved, moves, failed, at, buf,
                   redefs, known>>

\* ncmpi_abort in define mode: new definitions are dropped and the file is
\* closed; a file being created is deleted.
Abort ==
    /\ mode = "define"
    /\ old' = None
    /\ IF old = None
       THEN /\ mode' = "deleted" /\ ncp' = EmptyMeta /\ disk' = <<>> /\ known' = <<>>
       ELSE mode' = "closed" /\ UNCHANGED <<ncp, disk, known>>
    /\ UNCHANGED <<align, fill, numrecs, saved, moves, failed, at, buf, redefs>>

\* ncmpi_open with hints a.
Open(a) ==
    /\ mode = "closed"
    /\ ncp' = OpenShape(saved) /\ align' = a /\ fill' = FALSE /\ mode' = "data"
    /\ UNCHANGED <<old, numrecs, disk, saved, moves, failed, at, buf, redefs, known>>

\* ncmpi_create after the file was deleted.
Create(a) ==
    /\ mode = "deleted" /\ align' = a /\ fill' = FALSE /\ mode' = "define"
    /\ UNCHANGED <<ncp, old, numrecs, disk, saved, moves, failed, at, buf, redefs, known>>

Next ==
    \/ \E rec \in BOOLEAN, size \in Sizes : DefVar(rec, size)
    \/ PutAtt \/ SetFill
    \/ \E args \in EndDefArgs : EndDef(args)
    \/ \E r \in Ranks : ReadChunk(r) \/ WriteChunk(r) \/ FillVars(r)
    \/ ReadsDone \/ WritesDone \/ WriteHeader \/ Leave
    \/ \E v \in DOMAIN ncp.vars :
         \E recs \in IF ncp.vars[v].rec THEN 1 .. MaxRecs ELSE {1} : Put(v, recs)
    \/ Redef \/ Close \/ Abort
    \/ \E a \in Hints : Open(a) \/ Create(a)

Spec == Init /\ [][Next]_vars

(***************************************************************************)
(* Properties                                                              *)
(***************************************************************************)

\* Type invariant.
TypeOK ==
    /\ ncp.vars \in Seq([rec : BOOLEAN, size : Sizes, begin : Nat])
    /\ {ncp.atts, ncp.begin_var, ncp.begin_rec, ncp.recsize, numrecs} \subseteq Nat
    /\ mode \in {"define", "enddef", "data", "closed", "deleted"}
    /\ at \in [Ranks -> {"idle", "read", "readsum", "write", "writesum", "header",
                         "fill", "done"}]
    /\ DOMAIN disk = 0 .. FileSize(disk) - 1
    /\ \A m \in 1 .. Len(moves) : moves[m].n > 0

\* A file that is not inside enddef reads, through the header it has on disk,
\* exactly what was put: no redef, header growth, new variable or alignment
\* loses or misplaces an element, and new variables read as filled.
DataKept ==
    mode # "enddef" =>
        \A e \in DOMAIN known :
            /\ Offset(saved, e) \in DOMAIN disk
            /\ disk[Offset(saved, e)] = known[e]

\* No two elements share a cell and none lies in the header, with as many
\* records as the file may get.
LayoutSound ==
    mode = "data" =>
        LET E == Elements(ncp, DOMAIN ncp.vars, MaxRecs) IN
        /\ \A e \in E : Offset(ncp, e) >= HdrLen(ncp)
        /\ Cardinality({Offset(ncp, e) : e \in E}) = Cardinality(E)

\* What a process that opens the file derives from the header is the layout
\* the writer has: the same record size, every record section no later, and
\* a layout its own check (ncmpio_NC_check_voffs) accepts.
OpenAgrees ==
    mode = "data" /\ ncp.vars # <<>> =>
        LET o == OpenShape(saved) IN
        /\ o.recsize = ncp.recsize /\ o.begin_var <= ncp.begin_var
        /\ o.begin_var >= HdrLen(saved) /\ CheckVoffs(ncp) /\ CheckVoffs(o)

\* The assertions of ncmpio__enddef and move_record_vars.
AssertsHold ==
    mode = "enddef" /\ old # None =>
        /\ ncp.begin_rec >= old.begin_rec /\ ncp.begin_var >= old.begin_var
        /\ Len(ncp.vars) >= Len(old.vars) /\ ncp.recsize >= old.recsize
=============================================================================
