----------------------------- MODULE Aggregation -----------------------------
(***************************************************************************)
(* From requests to file views: how one subarray request becomes an MPI    *)
(* file type (ncmpio_filetype.c), and how the pending requests of a wait   *)
(* are sorted, grouped, flattened, merged and concatenated into the one    *)
(* file type and the one buffer type of the transfer (ncmpio_wait.c).      *)
(*                                                                         *)
(* A type is its type map, the sequence of the byte positions it selects:  *)
(* a transfer pairs the k-th byte of the file view with the k-th byte of   *)
(* the buffer type.  A variable is [begin, xsz, shape, rec], the record    *)
(* dimension first; a request is [var, start, count, stride, buf], stride  *)
(* of 1s where the code has NULL, buf the address of its I/O buffer.  No   *)
(* count is 0: such requests are never queued.                             *)
(***************************************************************************)
EXTENDS Naturals, Integers, SequencesExt, FiniteSetsExt

CONSTANTS
    RecSize,      \* ncp->recsize
    NumRecVars,   \* ncp->vars.num_rec_vars
    BeginVar      \* ncp->begin_var, the extent of the header

ASSUME AggregationAssumption == RecSize \in Nat /\ NumRecVars \in Nat /\ BeginVar \in Nat

Prod(s) == FoldLeft(LAMBDA a, b : a * b, 1, s)
DSize(v, i) == Prod(SubSeq(v.shape, i, Len(v.shape)))    \* varp->dsizes[i]
Nelems(r) == Prod(r.count)

Bytes(off, len) == [k \in 1 .. len |-> off + k - 1]
Shift(map, disp) == [k \in DOMAIN map |-> map[k] + disp]

(* The elements of a box of the given counts, in row-major order. *)
RowMajor(count) ==
    [k \in 1 .. Prod(count) |->
        [i \in DOMAIN count |-> ((k - 1) \div Prod(SubSeq(count, i + 1, Len(count)))) % count[i]]]

(* Sum of Term(i) over the dimensions from lo on. *)
OverDims(lo, hi, Term(_)) == MapThenSumSet(Term, lo .. hi)

(***************************************************************************)
(* The type of one request.                                                *)
(***************************************************************************)
(* ncmpio_first_offset *)
FirstOffset(v, start) ==
    LET n == Len(v.shape)
        Within(lo) == OverDims(lo, n, LAMBDA i : start[i] * DSize(v, i + 1)) * v.xsz
    IN v.begin + (IF v.rec THEN Within(2) + start[1] * RecSize ELSE Within(1))

(* Mutant: only the dimension next to the partial one must have count 1. *)
IsContiguousNext(r) ==
    LET v == r.var
        top == IF v.rec /\ NumRecVars > 1 THEN 2 ELSE 1
        partial == {i \in top + 1 .. Len(v.shape) : r.count[i] < v.shape[i]}
    IN /\ v.rec /\ NumRecVars > 1 => r.count[1] = 1
       /\ partial # {} /\ Max(partial) > top => r.count[Max(partial) - 1] = 1

(* is_request_contiguous: outside the innermost dimension that is not      *)
(* taken whole every count is 1; several record variables interleave their *)
(* records.                                                                *)
IsContiguous(r) ==
    LET v == r.var
        top == IF v.rec /\ NumRecVars > 1 THEN 2 ELSE 1
        partial == {i \in top + 1 .. Len(v.shape) : r.count[i] < v.shape[i]}
    IN /\ v.rec /\ NumRecVars > 1 => r.count[1] = 1
       /\ partial # {} => \A j \in top .. Max(partial) - 1 : r.count[j] = 1

(* MPI_Type_create_subarray of elements of el bytes. *)
Subarray(sizes, counts, starts, el) ==
    LET n == Len(sizes)
        At(x) == OverDims(1, n, LAMBDA i : (starts[i] + x[i]) * Prod(SubSeq(sizes, i + 1, n)))
    IN FlattenSeq([k \in 1 .. Prod(counts) |-> Bytes(At(RowMajor(counts)[k]) * el, el)])

(* filetype_create_vara *)
Vara(r) ==
    LET v == r.var
        record == IF Len(v.shape) = 1 THEN Bytes(0, v.xsz)
                  ELSE Subarray(Tail(v.shape), Tail(r.count), Tail(r.start), v.xsz)
    IN IF IsContiguous(r)
       THEN [contig |-> TRUE, disp |-> FirstOffset(v, r.start), map |-> Bytes(0, Nelems(r) * v.xsz)]
       ELSE IF v.rec
       THEN [contig |-> FALSE, disp |-> v.begin + r.start[1] * RecSize,
             map |-> FlattenSeq([k \in 1 .. r.count[1] |-> Shift(record, (k - 1) * RecSize)])]
       ELSE [contig |-> FALSE, disp |-> v.begin,
             map |-> Subarray(v.shape, r.count, r.start, v.xsz)]

(* The offsets of stride_flatten and vars_flatten, dimension by dimension  *)
(* from the lowest on, and the length all their segments have.             *)
SegLen(r, n, el) == (IF r.stride[n] = 1 THEN r.count[n] ELSE 1) * el
Offsets(isRecVar, dimlen, el, start, count, stride) ==
    LET n == Len(dimlen)
        nstride == IF stride[n] = 1 THEN 1 ELSE count[n]
        Size(d) == IF d = 1 /\ isRecVar THEN dimlen[1]
                   ELSE el * Prod(SubSeq(dimlen, d + 1, n))
        From[d \in 1 .. n] ==
            IF d = n THEN [k \in 1 .. nstride |-> (start[n] + (k - 1) * stride[n]) * el]
            ELSE FlattenSeq([i \in 1 .. count[d] |->
                               Shift(From[d + 1], (start[d] + (i - 1) * stride[d]) * Size(d))])
    IN From[1]

(* ncmpio_filetype_create_vars; the first dimension of a record variable   *)
(* is given the size of a record.                                          *)
FileType(r) ==
    LET v == r.var
        dimlen == IF v.rec THEN [v.shape EXCEPT ![1] = RecSize] ELSE v.shape
        offs == Offsets(v.rec, dimlen, v.xsz, r.start, r.count, r.stride)
        len == SegLen(r, Len(v.shape), v.xsz)
    IN IF \A d \in DOMAIN v.shape : r.count[d] = 1 \/ r.stride[d] = 1 THEN Vara(r)
       ELSE [contig |-> FALSE, disp |-> v.begin,
             map |-> FlattenSeq([k \in DOMAIN offs |-> Bytes(offs[k], len)])]

(* ncmpio_file_set_view, and the n bytes an access at the offset it gives  *)
(* back touches: the view of the root starts with the whole header.        *)
Touched(isRoot, contig, disp, map) ==
    LET view == IF isRoot THEN Bytes(0, BeginVar) \o Shift(map, disp) ELSE Shift(map, disp)
        offset == IF isRoot THEN BeginVar ELSE 0
    IN IF contig THEN Bytes(disp, Len(map))
       ELSE SubSeq(view, offset + 1, offset + Len(map))

(* calculate_access_range: the first byte, and the byte after the last. *)
AccessRange(r) ==
    LET v == r.var
        n == Len(v.shape)
        last == [i \in DOMAIN r.start |-> r.start[i] + (r.count[i] - 1) * r.stride[i]]
        End(lo) == OverDims(lo, n, LAMBDA i : last[i] * DSize(v, i + 1)) * v.xsz
        end == IF v.rec THEN End(2) + last[1] * RecSize ELSE End(1)
    IN [start |-> FirstOffset(v, r.start), end |-> v.begin + end + v.xsz]
Start(r) == AccessRange(r).start
End(r) == AccessRange(r).end

(***************************************************************************)
(* Requests that do not interleave are concatenated.                       *)
(***************************************************************************)
(* A block that starts where the last one ends is made part of it. *)
Extend(blocks, b) ==
    IF blocks # <<>> /\ b.pos = Last(blocks).pos + Last(blocks).len
    THEN Append(Front(blocks), [Last(blocks) EXCEPT !.len = @ + b.len])
    ELSE Append(blocks, b)
BytesOf(blocks) == FlattenSeq([k \in DOMAIN blocks |-> Bytes(blocks[k].pos, blocks[k].len)])

(* construct_filetypes: blocks are only joined between two contiguous      *)
(* requests; done is the part before the last request that is not.         *)
ConcatFile(reqs) ==
    LET Add(acc, r) ==
          LET t == FileType(r)
          IN IF t.contig
             THEN [acc EXCEPT !.blocks = Extend(@, [pos |-> t.disp, len |-> Len(t.map)])]
             ELSE [done |-> acc.done \o BytesOf(acc.blocks) \o Shift(t.map, t.disp), blocks |-> <<>>]
        all == FoldLeft(Add, [done |-> <<>>, blocks |-> <<>>], reqs)
    IN all.done \o BytesOf(all.blocks)

BufBlock(r) == [pos |-> r.buf, len |-> Nelems(r) * r.var.xsz]

(* construct_buffertypes *)
ConcatBuffers(reqs) == BytesOf([k \in DOMAIN reqs |-> BufBlock(reqs[k])])

(* mgetput joins adjacent buffers. *)
Mgetput(reqs) ==
    [file |-> ConcatFile(reqs),
     buf |-> BytesOf(FoldLeft(LAMBDA bs, r : Extend(bs, BufBlock(r)), <<>>, reqs))]

(***************************************************************************)
(* Requests that interleave are flattened to segments, sorted and merged.  *)
(***************************************************************************)
(* vars_flatten, as merge_requests calls it: a request of a record         *)
(* variable is within one record, whose dimension is dropped.              *)
VarsFlatten(r) ==
    LET v == r.var
        n == Len(v.shape)
        lo == IF v.rec THEN 2 ELSE 1
        Low(s) == SubSeq(s, lo, n)
        base == v.begin + (IF v.rec THEN r.start[1] * RecSize ELSE 0)
        offs == IF lo > n THEN <<0>>
                ELSE Offsets(FALSE, Low(v.shape), v.xsz, Low(r.start), Low(r.count), Low(r.stride))
        len == IF lo > n THEN v.xsz ELSE SegLen(r, n, v.xsz)
    IN [k \in DOMAIN offs |-> [off |-> base + offs[k], len |-> len, buf |-> r.buf + (k - 1) * len]]

(* qsort by Key; the order it leaves equal keys in is not defined, so both *)
(* orders are taken: first says which.                                     *)
Sorted(s, Key(_), first) ==
    LET indexed == [k \in DOMAIN s |-> [k |-> k, e |-> s[k]]]
        Before(a, b) == \/ Key(a.e) < Key(b.e)
                        \/ Key(a.e) = Key(b.e) /\ (IF first THEN a.k < b.k ELSE a.k > b.k)
        sorted == SortSeq(indexed, Before)
    IN [k \in DOMAIN s |-> sorted[k].e]
InOrder(s, Key(_)) == \A k \in 1 .. Len(s) - 1 : Key(s[k]) <= Key(s[k + 1])

(* Mutant: a segment that ends inside the last one is not skipped. *)
MergeKeepsCovered(segs) ==
    LET Add(out, s) ==
          LET gap == Last(out).off + Last(out).len - s.off
          IN IF gap >= 0 /\ Last(out).buf + Last(out).len = s.buf + gap
             THEN Append(Front(out), [Last(out) EXCEPT !.len = @ + s.len - gap])
             ELSE IF gap >= 0 /\ gap < s.len
             THEN Append(out, [off |-> s.off + gap, len |-> s.len - gap, buf |-> s.buf + gap])
             ELSE Append(out, s)
    IN FoldLeft(Add, <<Head(segs)>>, Tail(segs))

(* The last loop of merge_requests: earlier segments win the overlaps. *)
Merge(segs) ==
    LET Add(out, s) ==
          LET i == Last(out)
              gap == i.off + i.len - s.off
          IN IF i.off + i.len >= s.off + s.len THEN out
             ELSE IF gap < 0 THEN Append(out, s)
             ELSE IF i.buf + i.len = s.buf + gap
             THEN Append(Front(out), [i EXCEPT !.len = @ + s.len - gap])
             ELSE Append(out, [off |-> s.off + gap, len |-> s.len - gap, buf |-> s.buf + gap])
    IN FoldLeft(Add, <<Head(segs)>>, Tail(segs))

MergeRequests(reqs, first) ==
    LET segs == FlattenSeq([k \in DOMAIN reqs |-> VarsFlatten(reqs[k])])
        Off(s) == s.off
    IN Merge(IF InOrder(segs, Off) THEN segs ELSE Sorted(segs, Off, first))

(* type_create_off_len *)
OffLenTypes(segs) ==
    LET Joined(Pos(_)) ==
          BytesOf(FoldLeft(LAMBDA bs, s : Extend(bs, [pos |-> Pos(s), len |-> s.len]),
                           <<>>, segs))
    IN [file |-> Joined(LAMBDA s : s.off), buf |-> Joined(LAMBDA s : s.buf)]

(***************************************************************************)
(* Groups of consecutive requests that do, or do not, interleave.          *)
(***************************************************************************)
Overlaps(reqs, i) == i < Len(reqs) /\ End(reqs[i]) > Start(reqs[i + 1])

(* The loop of req_aggregation that divides the requests into groups. *)
Groups(reqs) ==
    LET MaxEnd(a, i) == Max({a, End(reqs[i])})
        Scan(g, i) ==
          IF ~Last(g.list).inter /\ Overlaps(reqs, i)
          THEN [list |-> Append(g.list, [first |-> i, inter |-> TRUE]),
                max |-> MaxEnd(End(reqs[i]), i + 1)]
          ELSE IF Last(g.list).inter /\ g.max <= Start(reqs[i + 1])
          THEN [list |-> Append(g.list, [first |-> i + 1, inter |-> Overlaps(reqs, i + 1)]),
                max |-> End(reqs[i + 1])]
          ELSE IF Last(g.list).inter THEN [g EXCEPT !.max = MaxEnd(@, i + 1)]
          ELSE g
        start == [list |-> <<[first |-> 1, inter |-> Overlaps(reqs, 1)]>>,
                  max |-> MaxEnd(End(reqs[1]), 2)]
    IN FoldLeft(Scan, start, [i \in 1 .. Len(reqs) - 2 |-> i + 1]).list

(* req_aggregation of requests sorted by their first byte. *)
ReqAggregation(reqs, interleaved, first) ==
    LET groups == Groups(reqs)
        Members(g) == SubSeq(reqs, groups[g].first,
                             IF g = Len(groups) THEN Len(reqs) ELSE groups[g + 1].first - 1)
        Types(g) == IF groups[g].inter THEN OffLenTypes(MergeRequests(Members(g), first))
                    ELSE [file |-> ConcatFile(Members(g)), buf |-> ConcatBuffers(Members(g))]
        all == [g \in DOMAIN groups |-> Types(g)]
    IN IF ~interleaved THEN Mgetput(reqs)
       ELSE [file |-> FlattenSeq([g \in DOMAIN all |-> all[g].file]),
             buf |-> FlattenSeq([g \in DOMAIN all |-> all[g].buf])]

(* wait_getput: sort the requests if they are not in order, and look for   *)
(* two neighbours that interleave.                                         *)
WaitGetput(queue, first) ==
    LET reqs == IF InOrder(queue, Start) THEN queue ELSE Sorted(queue, Start, first)
        interleaved == \E k \in 1 .. Len(reqs) - 1 : Start(reqs[k + 1]) < End(reqs[k])
    IN ReqAggregation(reqs, interleaved, first)
=============================================================================
