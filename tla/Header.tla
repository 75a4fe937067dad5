------------------------------- MODULE Header -------------------------------
(***************************************************************************)
(* The file header as bytes: what the root writes (ncmpio_header_put.c),   *)
(* the length everything else computes for it, and how it is read back     *)
(* through a window of chunk bytes that the root fills and broadcasts      *)
(* (ncmpio_header_get.c).  Bytes are numbers, integers big-endian; the     *)
(* values of the instances are small, so only their low bytes are not 0.   *)
(***************************************************************************)
EXTENDS Naturals, Integers, SequencesExt, FiniteSetsExt

CONSTANTS
    MaxVSize,    \* 2^32 - 4, the largest vsize of CDF-1 and CDF-2
    MaxName      \* NC_MAX_NAME

ASSUME HeaderAssumption == MaxVSize \in Nat /\ MaxName \in Nat \ {0}

NC_UNSPECIFIED == 0
NC_DIMENSION == 10
NC_VARIABLE == 11
NC_ATTRIBUTE == 12
MIN_NC_XSZ == 32

Xlen(xtype) == CASE xtype = 2 -> 1 [] xtype = 3 -> 2 [] xtype = 4 -> 4 [] xtype = 6 -> 8
XTypes == {2, 3, 4, 6}   \* NC_CHAR, NC_SHORT, NC_INT, NC_DOUBLE

Rndup(x, unit) == ((x + unit - 1) \div unit) * unit
NonNeg(format) == IF format < 5 THEN 4 ELSE 8      \* sizeof_NON_NEG
OffT(format) == IF format = 1 THEN 4 ELSE 8        \* sizeof_off_t

IntBytes(w, v) == [k \in 1 .. w |-> IF w - k > 3 THEN 0 ELSE (v \div 256 ^ (w - k)) % 256]
Zeros(n) == [k \in 1 .. n |-> 0]

(***************************************************************************)
(* The length (ncmpio_hdr_len_NC).                                         *)
(***************************************************************************)
SumOver(s, Size(_)) == MapThenSumSet(LAMBDA i : Size(s[i]), DOMAIN s)

LenName(f, o) == NonNeg(f) + Rndup(Len(o.name), 4)
LenDim(f, d) == LenName(f, d) + NonNeg(f)
AttXsz(a) == Rndup(a.nelems * Xlen(a.xtype), 4)   \* x_len_NC_attrV
LenAtt(f, a) == LenName(f, a) + 4 + NonNeg(f) + AttXsz(a)
LenAtts(f, atts) == 4 + NonNeg(f) + SumOver(atts, LAMBDA a : LenAtt(f, a))

(* Mutant: begin is counted as a NON_NEG, which is short in CDF-2. *)
LenVarShortBegin(f, v) ==
    LenName(f, v) + NonNeg(f) + NonNeg(f) * Len(v.dimids) + LenAtts(f, v.atts)
        + 4 + NonNeg(f) + NonNeg(f)

LenVar(f, v) ==
    LenName(f, v) + NonNeg(f) + NonNeg(f) * Len(v.dimids) + LenAtts(f, v.atts)
        + 4 + NonNeg(f) + OffT(f)

HdrLen(h) ==
    4 + NonNeg(h.format)
      + 4 + NonNeg(h.format) + SumOver(h.dims, LAMBDA d : LenDim(h.format, d))
      + LenAtts(h.format, h.atts)
      + 4 + NonNeg(h.format) + SumOver(h.vars, LAMBDA v : LenVar(h.format, v))

(***************************************************************************)
(* Writing (ncmpio_hdr_put_NC).                                            *)
(***************************************************************************)
PutNonNeg(f, n) == IntBytes(NonNeg(f), n)
PutName(f, o) ==
    PutNonNeg(f, Len(o.name)) \o o.name \o Zeros(Rndup(Len(o.name), 4) - Len(o.name))

PutDim(f, d) == PutName(f, d) \o PutNonNeg(f, d.size)

(* An empty list is ABSENT: ZERO ZERO, or ZERO ZERO64 in CDF-5. *)
PutList(f, tag, s, Put(_)) ==
    IF s = <<>> THEN IntBytes(4, NC_UNSPECIFIED) \o PutNonNeg(f, 0)
    ELSE IntBytes(4, tag) \o PutNonNeg(f, Len(s)) \o FlattenSeq([i \in DOMAIN s |-> Put(s[i])])

PutAtt(f, a) ==
    PutName(f, a) \o IntBytes(4, a.xtype) \o PutNonNeg(f, a.nelems) \o a.value
        \o Zeros(AttXsz(a) - a.nelems * Xlen(a.xtype))
PutAtts(f, atts) == PutList(f, NC_ATTRIBUTE, atts, LAMBDA a : PutAtt(f, a))

PutVar(f, v) ==
    LET vsize == IF f < 5 /\ v.len > MaxVSize THEN MaxVSize + 3 ELSE v.len
    IN PutName(f, v) \o PutNonNeg(f, Len(v.dimids))
         \o FlattenSeq([i \in DOMAIN v.dimids |-> PutNonNeg(f, v.dimids[i])])
         \o PutAtts(f, v.atts) \o IntBytes(4, v.xtype) \o PutNonNeg(f, vsize)
         \o IntBytes(OffT(f), v.begin)

Put(h) ==
    LET f == h.format
    IN <<67, 68, 70, f>> \o PutNonNeg(f, h.numrecs)
         \o PutList(f, NC_DIMENSION, h.dims, LAMBDA d : PutDim(f, d))
         \o PutAtts(f, h.atts)
         \o PutList(f, NC_VARIABLE, h.vars, LAMBDA v : PutVar(f, v))

(***************************************************************************)
(* The window (bufferinfo): base holds size bytes, pos of them consumed,   *)
(* offset is where the root reads next; err is the first error, and over   *)
(* is set if the parser ever looks past the window.                        *)
(***************************************************************************)
Open(file, chunk) ==
    [file |-> file, size |-> Rndup(Max({MIN_NC_XSZ + 4, chunk}), 4),
     base |-> <<>>, pos |-> 0, offset |-> 0, format |-> 0, err |-> "ok", over |-> FALSE]

(* Mutant: the bytes left in the window are dropped. *)
FetchAnew(b) ==
    LET At(i) == IF b.offset + i <= Len(b.file) THEN b.file[b.offset + i] ELSE 0
    IN [b EXCEPT !.base = [i \in 1 .. b.size |-> At(i)],
                 !.offset = @ + b.size, !.pos = 0]

(* hdr_fetch: the bytes left move to the front and the rest is read, zero  *)
(* past the end of the file.                                               *)
Fetch(b) ==
    LET left == b.size - b.pos
        slack == IF left = b.size THEN 0 ELSE left
        At(i) == IF b.offset + i <= Len(b.file) THEN b.file[b.offset + i] ELSE 0
    IN [b EXCEPT !.base = [i \in 1 .. b.size |->
                             IF i <= slack THEN b.base[b.pos + i] ELSE At(i - slack)],
                 !.offset = @ + (b.size - slack), !.pos = 0]

Need(b, n) == IF b.pos + n > b.size THEN Fetch(b) ELSE b
Consumed(b, n) == [b EXCEPT !.pos = @ + n, !.over = @ \/ b.pos + n > b.size]
Failed(b, e) == [b EXCEPT !.err = e]
Ok(b) == b.err = "ok"

(* What a reader returns: the window after it and the value. *)
Got(b, v) == [b |-> b, v |-> v]
Huge == 256 ^ 3

(* ncmpix_get_uint32 and ncmpix_get_uint64; Huge stands for every value    *)
(* beyond the instance's.                                                  *)
Decode(bytes) ==
    LET w == Len(bytes)
    IN IF \E k \in 1 .. w - 3 : bytes[k] # 0 THEN Huge
       ELSE bytes[w] + 256 * bytes[w - 1] + 256 * 256 * bytes[w - 2]

(* hdr_get_uint32, hdr_get_uint64, hdr_get_NC_tag. *)
GetInt(b, w) ==
    IF ~Ok(b) THEN Got(b, 0)
    ELSE LET c == Need(b, w)
         IN Got(Consumed(c, w), Decode(SubSeq(c.base, c.pos + 1, c.pos + w)))

GetNonNeg(b) == GetInt(b, NonNeg(b.format))

(* A count beyond its limit is refused. *)
GetCount(b, max, e) ==
    LET n == GetNonNeg(b)
    IN IF Ok(n.b) /\ n.v \notin 0 .. max THEN Got(Failed(n.b, e), 0) ELSE n

(* The loops of hdr_get_NC_name and hdr_get_NC_attrV: n bytes, as many at  *)
(* a time as the window holds.                                             *)
RECURSIVE GetBytes(_, _)
GetBytes(b, n) ==
    IF n = 0 \/ ~Ok(b) THEN Got(b, <<>>)
    ELSE IF b.pos = b.size THEN GetBytes(Fetch(b), n)
    ELSE LET m == Min({b.size - b.pos, n})
             part == [k \in 1 .. m |-> b.base[b.pos + k]]
             rest == GetBytes(Consumed(b, m), n - m)
         IN Got(rest.b, part \o rest.v)

Skip(b, n) == IF n = 0 \/ ~Ok(b) THEN b ELSE Consumed(Need(b, n), n)

GetName(b) ==
    LET n == GetCount(b, MaxName, "NC_EMAXNAME")
        s == GetBytes(n.b, n.v)
    IN Got(Skip(s.b, Rndup(n.v, 4) - n.v), s.v)

(* n elements, each read after, and knowing, those before it. *)
GetSeq(b, n, GetElem(_, _)) ==
    LET Next(acc, i) ==
          IF ~Ok(acc.b) THEN acc
          ELSE LET e == GetElem(acc.b, acc.v)
               IN Got(e.b, IF Ok(e.b) THEN Append(acc.v, e.v) ELSE acc.v)
    IN FoldLeft(Next, Got(b, <<>>), [i \in 1 .. n |-> i])

(* The tag is looked at only if there are elements. *)
GetList(b, tag, max, e, GetElem(_, _)) ==
    LET t == GetInt(b, 4)
        n == GetCount(t.b, max, e)
    IN IF ~Ok(n.b) \/ n.v = 0 THEN Got(n.b, <<>>)
       ELSE IF t.v # tag THEN Got(Failed(n.b, "NC_ENOTNC"), <<>>)
       ELSE GetSeq(n.b, n.v, GetElem)

(* A second unlimited dimension is refused. *)
GetDim(b, dims) ==
    LET name == GetName(b)
        size == GetNonNeg(name.b)
        second == size.v = 0 /\ \E i \in DOMAIN dims : dims[i].size = 0
    IN Got(IF Ok(size.b) /\ second THEN Failed(size.b, "NC_EUNLIMIT") ELSE size.b,
           [name |-> name.v, size |-> size.v])
GetDims(b, max) == GetList(b, NC_DIMENSION, max, "NC_EMAXDIMS", GetDim)

GetType(b) ==
    LET t == GetInt(b, 4)
    IN IF ~Ok(t.b) THEN Got(t.b, 2)
       ELSE IF t.v \notin XTypes THEN Got(Failed(t.b, "NC_EBADTYPE"), 2) ELSE t

(* An attribute that does not fit in memory is refused. *)
GetAtt(b, max) ==
    LET name == GetName(b)
        xtype == GetType(name.b)
        nelems == GetCount(xtype.b, max, "NC_ENOMEM")
        nbytes == nelems.v * Xlen(xtype.v)
        value == GetBytes(nelems.b, nbytes)
    IN Got(Skip(value.b, Rndup(nbytes, 4) - nbytes),
           [name |-> name.v, xtype |-> xtype.v, nelems |-> nelems.v, value |-> value.v])
GetAtts(b, max) ==
    GetList(b, NC_ATTRIBUTE, max, "NC_EMAXATTS", LAMBDA c, atts : GetAtt(c, max))

(* Every dimension ID must be that of a dimension of the file. *)
GetVar(b, ndims, max) ==
    LET name == GetName(b)
        n == GetCount(name.b, max, "NC_EMAXDIMS")
        dimids == GetSeq(n.b, n.v, LAMBDA c, ids : GetCount(c, ndims - 1, "NC_EBADDIM"))
        atts == GetAtts(dimids.b, max)
        xtype == GetType(atts.b)
        vsize == GetNonNeg(xtype.b)   \* recomputed from the dimensions
        begin == GetInt(vsize.b, OffT(b.format))
    IN Got(begin.b, [name |-> name.v, dimids |-> dimids.v, atts |-> atts.v,
                     xtype |-> xtype.v, begin |-> begin.v])

(* ncmpio_hdr_get_NC; max stands for the limits on the counts. *)
Get(file, chunk, max) ==
    LET b0 == Fetch(Open(file, chunk))
        magic == GetBytes(b0, 4)
        known == magic.v \in {<<67, 68, 70, f>> : f \in {1, 2, 5}}
        b1 == IF known THEN [magic.b EXCEPT !.format = magic.v[4]]
              ELSE Failed(magic.b, "NC_ENOTNC")
        numrecs == GetNonNeg(b1)
        dims == GetDims(numrecs.b, max)
        atts == GetAtts(dims.b, max)
        vars == GetList(atts.b, NC_VARIABLE, max, "NC_EMAXVARS",
                        LAMBDA c, v : GetVar(c, Len(dims.v), max))
    IN Got(vars.b, [format |-> b1.format, numrecs |-> numrecs.v, dims |-> dims.v,
                    atts |-> atts.v, vars |-> vars.v])
=============================================================================
