---------------------------- MODULE MCAlgorithms ----------------------------
(***************************************************************************)
(* The pure algorithms on every input of small families: each initial      *)
(* state holds one input, and the properties say what the algorithms must  *)
(* make of it before the step Check may be taken.                          *)
(***************************************************************************)
EXTENDS Header, Aggregation, TLC

CONSTANT StridedRecords   \* one-dimensional record variables may be accessed with strides

VARIABLES input, checked

vars == <<input, checked>>

(***************************************************************************)
(* Headers: every format, empty and filled lists, names and values of      *)
(* every padding, read through windows of three sizes, whole or cut short. *)
(***************************************************************************)
Name(n) == [i \in 1 .. n |-> 96 + i]
Att(n, t, k) == [name |-> Name(n), xtype |-> t, nelems |-> k,
                 value |-> [i \in 1 .. k * Xlen(t) |-> i]]
Dim(n, s) == [name |-> Name(n), size |-> s]
AttLists == {<<>>, <<Att(1, 2, 7)>>, <<Att(5, 3, 1), Att(4, 6, 2)>>}
DimLists == {<<>>, <<Dim(3, 0)>>, <<Dim(6, 4), Dim(1, 0)>>}
Var(n, rank, atts) == [name |-> Name(n), dimids |-> [i \in 1 .. rank |-> i - 1], atts |-> atts,
                       xtype |-> 6, len |-> 8, begin |-> 99]
VarLists == {<<>>} \cup {<<Var(n, k, a)>> : n \in {2, 8}, k \in {0, 1}, a \in AttLists}
Headers == {h \in [format : {1, 2, 5}, numrecs : {2}, dims : DimLists, atts : AttLists,
                   vars : VarLists] :
              \A i \in DOMAIN h.vars : Len(h.vars[i].dimids) <= Len(h.dims)}
HeaderInputs == [kind : {"header"}, header : Headers, chunk : {0, 40, 52}, cut : {0, 4, 20, 60}]
Limit == 50     \* stands for NC_MAX_DIMS and the other limits

(***************************************************************************)
(* Requests: fixed-size and record variables of none to three dimensions.  *)
(***************************************************************************)
V(begin, xsz, shape, rec) == [begin |-> begin, xsz |-> xsz, shape |-> shape, rec |-> rec]
Scalar == V(4, 4, <<>>, FALSE)
Line   == V(8, 2, <<4>>, FALSE)
Grid   == V(16, 1, <<2, 3>>, FALSE)
Cube   == V(24, 2, <<2, 2, 3>>, FALSE)
Series == V(48, 1, <<0>>, TRUE)
Table  == V(52, 1, <<0, 3>>, TRUE)
Movie  == V(52, 1, <<0, 2, 2>>, TRUE)

Slices(len) == {s \in [start : 0 .. len - 1, count : 1 .. len, stride : 1 .. 2] :
                  s.start + (s.count - 1) * s.stride < len}
Extent(v, d) == IF v.rec /\ d = 1 THEN 3 ELSE v.shape[d]
RequestOf(v, slices, buf) ==
    [var |-> v, buf |-> buf,
     start |-> [d \in DOMAIN slices |-> slices[d].start],
     count |-> [d \in DOMAIN slices |-> slices[d].count],
     stride |-> [d \in DOMAIN slices |-> slices[d].stride]]
Boxes(v) == CASE v.shape = <<>> -> {<<>>}
              [] Len(v.shape) = 1 -> {<<a>> : a \in Slices(Extent(v, 1))}
              [] Len(v.shape) = 2 -> {<<a, b>> : a \in Slices(Extent(v, 1)), b \in Slices(Extent(v, 2))}
              [] OTHER -> {<<a, b, c>> : a \in Slices(Extent(v, 1)), b \in Slices(Extent(v, 2)),
                                         c \in Slices(Extent(v, 3))}
OfVar(v) == {RequestOf(v, b, 0) : b \in Boxes(v)}
Requests == {r \in UNION {OfVar(v) : v \in {Scalar, Line, Grid, Cube, Series, Table, Movie}} :
               r.var = Series => StridedRecords \/ r.count[1] = 1 \/ r.stride[1] = 1}
RequestInputs == [kind : {"request"}, request : Requests, root : BOOLEAN]

(* Pending requests of a wait, in the order of the queue, with buffers     *)
(* that follow each other, the other way round, or with gaps.              *)
Slice(start, count, stride) == [start |-> start, count |-> count, stride |-> stride]
Pending == {<<Grid, <<Slice(0, 2, 1), Slice(0, 1, 1)>>>>, <<Grid, <<Slice(0, 2, 1), Slice(1, 2, 1)>>>>,
            <<Grid, <<Slice(0, 2, 1), Slice(0, 2, 2)>>>>, <<Grid, <<Slice(1, 1, 1), Slice(0, 3, 1)>>>>,
            <<Grid, <<Slice(0, 1, 1), Slice(1, 1, 1)>>>>, <<Line, <<Slice(0, 2, 1)>>>>,
            <<Line, <<Slice(1, 3, 1)>>>>, <<Line, <<Slice(0, 2, 2)>>>>, <<Scalar, <<>>>>,
            <<Series, <<Slice(0, 1, 1)>>>>, <<Series, <<Slice(1, 1, 1)>>>>,
            <<Table, <<Slice(0, 1, 1), Slice(0, 3, 1)>>>>, <<Table, <<Slice(1, 1, 1), Slice(0, 2, 2)>>>>,
            <<Table, <<Slice(0, 1, 1), Slice(1, 2, 1)>>>>}
Queues == {q \in UNION {[1 .. n -> Pending] : n \in 1 .. 3} :
             \A k \in 1 .. Len(q) - 1 : q[k][1].begin <= q[k + 1][1].begin}
Size(p) == Prod([d \in DOMAIN p[2] |-> p[2][d].count]) * p[1].xsz
Posted(q, order) ==
    [k \in DOMAIN q |->
        RequestOf(q[k][1], q[k][2],
                  CASE order = "up" -> MapThenSumSet(LAMBDA j : Size(q[j]), 1 .. k - 1)
                    [] order = "down" -> MapThenSumSet(LAMBDA j : Size(q[j]), k + 1 .. Len(q))
                    [] order = "apart" -> 100 * k)]
WaitInputs == [kind : {"wait"}, queue : Queues, order : {"up", "down", "apart"}, first : BOOLEAN]

Init == input \in HeaderInputs \cup RequestInputs \cup WaitInputs /\ checked = FALSE
Check == ~checked /\ checked' = TRUE /\ UNCHANGED input
Spec == Init /\ [][Check]_vars

Is(kind) == input.kind = kind

(* What a reader keeps of a header: vsize is computed again. *)
Kept(h) == [h EXCEPT !.vars = [i \in DOMAIN @ |->
              [name |-> @[i].name, dimids |-> @[i].dimids, atts |-> @[i].atts,
               xtype |-> @[i].xtype, begin |-> @[i].begin]]]
File == LET all == Put(input.header) IN SubSeq(all, 1, Len(all) - input.cut)

(* A header that was written whole is as long as ncmpio_hdr_len_NC says,   *)
(* which is where the file layout lets the data begin, and is read back as *)
(* it was, wherever the window of the reader ends within it.               *)
RoundTrip ==
    [][ Is("header") /\ input.cut = 0 =>
            LET got == Get(File, input.chunk, Limit)
            IN /\ Len(File) = HdrLen(input.header)
               /\ got.b.err = "ok" /\ got.v = Kept(input.header) ]_vars

(* Whatever the file holds, also a header cut short, what is read from it  *)
(* and the error that refuses it do not depend on the size of the window,  *)
(* and the reader never looks at bytes outside the window.                 *)
WindowIrrelevant ==
    [][ Is("header") =>
            LET got == Get(File, input.chunk, Limit)
                whole == Get(File, 400, Limit)
            IN ~got.b.over /\ got.b.err = whole.b.err /\ got.v = whole.v ]_vars

(* The bytes a request is for, by the definition of the format, in the     *)
(* order of its buffer.                                                    *)
Wanted(r) ==
    LET v == r.var
        n == Len(v.shape)
        box == RowMajor(r.count)
        Index(x, d) == r.start[d] + x[d] * r.stride[d]
        Linear[d \in 0 .. n, k \in DOMAIN box] ==
            IF d = 0 \/ (d = 1 /\ v.rec) THEN 0
            ELSE Linear[d - 1, k] * v.shape[d] + Index(box[k], d)
        At(k) == v.begin + Linear[n, k] * v.xsz + (IF v.rec THEN Index(box[k], 1) * RecSize ELSE 0)
    IN FlattenSeq([k \in DOMAIN box |-> Bytes(At(k), v.xsz)])

(* The file type of a request, set as the view of the root or of another   *)
(* rank, selects exactly the bytes of the request in the order of its      *)
(* buffer, and calculate_access_range gives the first and the last.        *)
TypeExact ==
    [][ Is("request") =>
            LET r == input.request
                t == FileType(r)
                wanted == Wanted(r)
            IN /\ Touched(input.root, t.contig, t.disp, t.map) = wanted
               /\ AccessRange(r) = [start |-> wanted[1], end |-> Last(wanted) + 1] ]_vars

(* The view of a wait is increasing, as MPI-IO demands, covers the bytes   *)
(* of all its requests and no other, each once, and pairs each with the    *)
(* byte of the buffer of a request that asked for it.                      *)
AggregateExact ==
    [][ Is("wait") =>
            LET reqs == Posted(input.queue, input.order)
                io == WaitGetput(reqs, input.first)
                Pairs(r) == LET w == Wanted(r) IN {<<w[k], r.buf + k - 1>> : k \in DOMAIN w}
                asked == UNION {Pairs(reqs[k]) : k \in DOMAIN reqs}
            IN /\ \A k \in 1 .. Len(io.file) - 1 : io.file[k] < io.file[k + 1]
               /\ Len(io.buf) = Len(io.file)
               /\ {<<io.file[k], io.buf[k]>> : k \in DOMAIN io.file} \subseteq asked
               /\ {io.file[k] : k \in DOMAIN io.file} = {p[1] : p \in asked} ]_vars

(* Every byte of the buffers of pending gets is filled. *)
BuffersFilled ==
    [][ Is("wait") =>
            LET reqs == Posted(input.queue, input.order)
                io == WaitGetput(reqs, input.first)
            IN {io.buf[k] : k \in DOMAIN io.buf}
                 = UNION {reqs[k].buf .. reqs[k].buf + Size(input.queue[k]) - 1 : k \in DOMAIN reqs} ]_vars
=============================================================================
