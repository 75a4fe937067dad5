---------------------------- MODULE LayoutProofs ----------------------------
(***************************************************************************)
(* Theorems about Layout: the types, the layout NC_begins computes, what   *)
(* an opener derives from it, the assertions of ncmpio__enddef, and the    *)
(* data of the file, which no move, fill or redefinition loses.            *)
(***************************************************************************)
EXTENDS Layout, LoopLemmas, FiniteSetTheorems, SequenceTheorems

-----------------------------------------------------------------------------
(* Types and arithmetic. *)

VarType == [rec : BOOLEAN, size : Sizes, begin : Nat]

MetaType == [vars : Seq(VarType), atts : Nat, begin_var : Nat, begin_rec : Nat,
             recsize : Nat]

OldType == MetaType \cup {None}

Units == [h : Nat \ {0}, fx : Nat \ {0}, r : Nat \ {0}]

(* Rounding up does not go down, and by 1 changes nothing. *)
LEMMA RoundUp ==
  ASSUME NEW x \in Nat, NEW a \in Nat \ {0}
  PROVE  RndUp(x, a) \in Nat /\ RndUp(x, a) >= x
  <1> DEFINE y == x + a - 1
             q == y \div a
             z == y % a
  <1>1. y \in Nat /\ y = x + a - 1
    OBVIOUS
  <1> HIDE DEF y
  <1>2. q \in Nat /\ z \in 0 .. a - 1 /\ y = a * q + z
    BY <1>1
  <1> HIDE DEF q, z
  <1>3. q * a = a * q /\ a * q \in Nat
    BY <1>2
  <1>4. q * a >= x
    BY <1>1, <1>2, <1>3
  <1>5. RndUp(x, a) = q * a
    BY DEF RndUp, q, y
  <1> QED
    BY <1>2, <1>3, <1>4, <1>5

LEMMA RoundByOne ==
  ASSUME NEW x \in Nat
  PROVE  RndUp(x, 1) = x
  BY DEF RndUp

LEMMA LargerOf ==
  ASSUME NEW a \in Nat, NEW b \in Nat
  PROVE  Larger(a, b) \in Nat /\ Larger(a, b) >= a /\ Larger(a, b) >= b
  BY DEF Larger

LEMMA Lengths ==
  ASSUME NEW v \in VarType
  PROVE  /\ VLen(v) \in Nat \ {0} /\ v.size \in Nat \ {0} /\ VLen(v) >= v.size
         /\ v.rec \in BOOLEAN /\ v.begin \in Nat
  <1>1. v.size \in Nat \ {0} /\ Pad \in Nat \ {0} /\ v.rec \in BOOLEAN /\ v.begin \in Nat
    BY LayoutAssumption DEF VarType
  <1>2. VLen(v) \in Nat /\ VLen(v) >= v.size
    BY <1>1, RoundUp DEF VLen
  <1> QED
    BY <1>1, <1>2

LEMMA Kinds ==
  ASSUME NEW n \in MetaType
  PROVE  /\ Len(n.vars) \in Nat /\ DOMAIN n.vars = 1 .. Len(n.vars)
         /\ n.vars \in Seq(VarType)
         /\ \A i \in 1 .. Len(n.vars) : n.vars[i] \in VarType
         /\ \A i \in 1 .. Len(n.vars) : i \in OfKind(n, n.vars[i].rec)
         /\ \A rec : OfKind(n, rec) \subseteq 1 .. Len(n.vars)
         /\ \A rec : \A i \in OfKind(n, rec) : n.vars[i].rec = rec
         /\ n.atts \in Nat /\ n.begin_var \in Nat /\ n.begin_rec \in Nat
         /\ n.recsize \in Nat
  <1>1. n.vars \in Seq(VarType) /\ n.atts \in Nat /\ n.begin_var \in Nat
        /\ n.begin_rec \in Nat /\ n.recsize \in Nat
    BY DEF MetaType
  <1>2. Len(n.vars) \in Nat /\ DOMAIN n.vars = 1 .. Len(n.vars)
        /\ \A i \in 1 .. Len(n.vars) : n.vars[i] \in VarType
    BY <1>1
  <1> QED
    BY <1>1, <1>2 DEF OfKind

(* The least of a set of indices. *)
LEMMA FirstOf ==
  ASSUME NEW S, S \subseteq Nat, S # {}
  PROVE  First(S) \in S /\ \A j \in S : First(S) <= j
  BY LeastNat DEF First

LEMMA FirstIndex ==
  ASSUME NEW n \in MetaType, NEW rec, OfKind(n, rec) # {}
  PROVE  /\ First(OfKind(n, rec)) \in OfKind(n, rec)
         /\ First(OfKind(n, rec)) \in 1 .. Len(n.vars)
         /\ \A j \in OfKind(n, rec) : First(OfKind(n, rec)) <= j
  <1> DEFINE R == OfKind(n, rec)
  <1>1. R \subseteq 1 .. Len(n.vars) /\ R # {}
    BY Kinds
  <1> HIDE DEF R
  <1>2. R \subseteq Nat
    BY <1>1
  <1>3. First(R) \in R /\ \A j \in R : First(R) <= j
    BY <1>1, <1>2, FirstOf
  <1> QED
    BY <1>1, <1>3 DEF R

-----------------------------------------------------------------------------
(* The loops over the variables. *)

LEMMA LensLoop ==
  ASSUME NEW n \in MetaType
  PROVE  /\ RecLens(n) \in [0 .. Len(n.vars) -> Nat]
         /\ RecLens(n)[0] = 0
         /\ \A i \in 1 .. Len(n.vars) :
              RecLens(n)[i] = RecLens(n)[i - 1]
                                + IF n.vars[i].rec THEN VLen(n.vars[i]) ELSE 0
  <1> DEFINE k == Len(n.vars)
             W(i) == IF n.vars[i].rec THEN VLen(n.vars[i]) ELSE 0
             G == [i \in 1 .. k |-> [s \in Nat |-> s + W(i)]]
             Loop(t) == [i \in 0 .. k |-> IF i = 0 THEN 0 ELSE t[i - 1] + W(i)]
             T == CHOOSE t : t = Loop(t)
  <1>1. k \in Nat /\ \A i \in 1 .. k : W(i) \in Nat
    BY Kinds, Lengths
  <1>2. RecLens(n) = T
    BY DEF RecLens
  <1> HIDE DEF k, W
  <1>3. G \in [1 .. k -> [Nat -> Nat]]
    BY <1>1
  <1>4. \E t \in [0 .. k -> Nat] : t = Loop(t)
    <2> HIDE DEF G
    <2>1. PICK t \in [0 .. k -> Nat] : /\ t[0] = 0
                                       /\ \A i \in 1 .. k : t[i] = G[i][t[i - 1]]
      <3> DEFINE S == Nat
                 a == 0
      <3>1. k \in Nat /\ a \in S /\ G \in [1 .. k -> [S -> S]]
        BY <1>1, <1>3
      <3> HIDE LayoutAssumption DEF Loop, T, S, a
      <3>2. \E t \in [0 .. k -> S] : t[0] = a /\ \A i \in 1 .. k : t[i] = G[i][t[i - 1]]
        BY <3>1, Iterate
      <3> QED
        BY <3>2 DEF S, a
    <2>2. ASSUME NEW i \in 0 .. k, i # 0
          PROVE  G[i][t[i - 1]] = t[i - 1] + W(i)
      <3>1. i \in 1 .. k /\ t[i - 1] \in Nat
        BY <1>1, <2>2
      <3> QED
        BY <3>1 DEF G
    <2>3. \A i \in 0 .. k : t[i] = IF i = 0 THEN 0 ELSE t[i - 1] + W(i)
      <3>1. \A i \in 0 .. k : i = 0 \/ i \in 1 .. k
        BY <1>1
      <3> QED
        BY <2>1, <2>2, <3>1
    <2>4. t = Loop(t)
      BY <2>3
    <2> QED
      BY <2>4
  <1>5. T = Loop(T)
    <2> HIDE DEF Loop
    <2> QED
      BY <1>4, Zenon
  <1>6. T[0] = 0 /\ \A i \in 1 .. k : T[i] = T[i - 1] + W(i)
    <2> HIDE DEF T
    <2>1. \A i \in 0 .. k : T[i] = IF i = 0 THEN 0 ELSE T[i - 1] + W(i)
      BY <1>5, Zenon
    <2>2. 0 \in 0 .. k /\ \A i \in 1 .. k : i \in 0 .. k /\ i # 0
      BY <1>1
    <2> QED
      BY <2>1, <2>2
  <1>7. T \in [0 .. k -> Nat]
    <2> HIDE DEF T
    <2> DEFINE P == {i \in 0 .. k : T[i] \in Nat}
    <2>1. 0 \in P
      BY <1>1, <1>6
    <2>2. \A i \in 1 .. k : i - 1 \in P => i \in P
      BY <1>1, <1>6
    <2>3. \A i \in 0 .. k : i \in P
      <3> HIDE DEF P
      <3> QED
        BY <1>1, <2>1, <2>2, LoopInduction
    <2>4. T = [i \in 0 .. k |-> T[i]]
      BY <1>5
    <2> QED
      BY <2>3, <2>4
  <1> HIDE DEF T
  <1> QED
    BY <1>2, <1>6, <1>7 DEF k, W

(* The sums grow, are the same for a prefix, and 0 without record variables. *)
LEMMA LensGrow ==
  ASSUME NEW n \in MetaType, NEW i \in 0 .. Len(n.vars), NEW j \in 0 .. Len(n.vars),
         i <= j
  PROVE  RecLens(n)[i] <= RecLens(n)[j]
  <1> DEFINE k == Len(n.vars)
             S == RecLens(n)
             P == {m \in 0 .. k : m >= i => S[i] <= S[m]}
  <1>1. k \in Nat /\ S \in [0 .. k -> Nat]
    BY Kinds, LensLoop
  <1>2. \A m \in 1 .. k : S[m] >= S[m - 1]
    <2> SUFFICES ASSUME NEW m \in 1 .. k PROVE S[m] >= S[m - 1]
      OBVIOUS
    <2>1. S[m] = S[m - 1] + IF n.vars[m].rec THEN VLen(n.vars[m]) ELSE 0
      BY LensLoop
    <2>2. VLen(n.vars[m]) \in Nat
      BY Kinds, Lengths
    <2>3. S[m - 1] \in Nat
      BY <1>1
    <2> HIDE DEF S, k
    <2> QED
      BY <2>1, <2>2, <2>3
  <1>3. i \in 0 .. k /\ j \in 0 .. k
    OBVIOUS
  <1> HIDE DEF S, k
  <1>4. 0 \in P
    BY <1>1, <1>3
  <1>5. \A m \in 1 .. k : m - 1 \in P => m \in P
    <2> SUFFICES ASSUME NEW m \in 1 .. k, m - 1 \in P PROVE m \in P
      OBVIOUS
    <2>1. S[m] >= S[m - 1] /\ S[m] \in Nat /\ S[m - 1] \in Nat /\ S[i] \in Nat
      BY <1>1, <1>2, <1>3
    <2>2. m - 1 >= i => S[i] <= S[m - 1]
      OBVIOUS
    <2>3. m >= i => S[i] <= S[m]
      BY <1>1, <1>3, <2>1, <2>2
    <2> QED
      BY <1>1, <2>3
  <1>6. \A m \in 0 .. k : m \in P
    <2> HIDE DEF P
    <2> QED
      BY <1>1, <1>4, <1>5, LoopInduction
  <1> QED
    BY <1>3, <1>6 DEF S

LEMMA LensNone ==
  ASSUME NEW n \in MetaType, NEW i \in 0 .. Len(n.vars),
         \A j \in 1 .. i : ~n.vars[j].rec
  PROVE  RecLens(n)[i] = 0
  <1> DEFINE P == {m \in 0 .. i : RecLens(n)[m] = 0}
  <1>1. Len(n.vars) \in Nat
    BY Kinds
  <1>2. 0 \in P
    BY <1>1, LensLoop
  <1>3. \A m \in 1 .. i : m - 1 \in P => m \in P
    <2> SUFFICES ASSUME NEW m \in 1 .. i, m - 1 \in P PROVE m \in P
      OBVIOUS
    <2>1. m \in 1 .. Len(n.vars) /\ ~n.vars[m].rec
      BY <1>1
    <2>2. RecLens(n)[m] = RecLens(n)[m - 1] + 0
      BY <2>1, LensLoop
    <2> QED
      BY <2>2
  <1>4. \A m \in 0 .. i : m \in P
    <2>1. i \in Nat
      BY <1>1
    <2> HIDE DEF P
    <2> QED
      BY <2>1, <1>2, <1>3, LoopInduction
  <1> QED
    BY <1>4

(* Variables are added at the end; only their begins change. *)
Extends(n, o) ==
    /\ Len(o.vars) <= Len(n.vars)
    /\ \A i \in 1 .. Len(o.vars) : /\ n.vars[i].rec = o.vars[i].rec
                                   /\ n.vars[i].size = o.vars[i].size

LEMMA LensPrefix ==
  ASSUME NEW n \in MetaType, NEW o \in MetaType, Extends(n, o),
         NEW i \in 0 .. Len(o.vars)
  PROVE  RecLens(n)[i] = RecLens(o)[i]
  <1> DEFINE P == {m \in 0 .. Len(o.vars) : RecLens(n)[m] = RecLens(o)[m]}
             S == RecLens(n)
             Q == RecLens(o)
  <1>1. Len(o.vars) \in Nat /\ Len(n.vars) \in Nat /\ Len(o.vars) <= Len(n.vars)
    BY Kinds DEF Extends
  <1>2. 0 \in P
    BY <1>1, LensLoop
  <1>3. \A m \in 1 .. Len(o.vars) : m - 1 \in P => m \in P
    <2> SUFFICES ASSUME NEW m \in 1 .. Len(o.vars), m - 1 \in P PROVE m \in P
      OBVIOUS
    <2>1. m \in 1 .. Len(n.vars) /\ S[m - 1] = Q[m - 1]
      BY <1>1
    <2>2. S[m] = S[m - 1] + IF n.vars[m].rec THEN VLen(n.vars[m]) ELSE 0
      BY <2>1, LensLoop
    <2>3. Q[m] = Q[m - 1] + IF o.vars[m].rec THEN VLen(o.vars[m]) ELSE 0
      BY LensLoop
    <2>4. n.vars[m].rec = o.vars[m].rec /\ VLen(n.vars[m]) = VLen(o.vars[m])
      BY DEF Extends, VLen
    <2>5. S[m] = Q[m]
      <3> HIDE DEF S, Q
      <3> QED
        BY <2>1, <2>2, <2>3, <2>4
    <2> QED
      BY <2>5
  <1>4. \A m \in 0 .. Len(o.vars) : m \in P
    <2> HIDE DEF P
    <2> QED
      BY <1>1, <1>2, <1>3, LoopInduction
  <1> QED
    BY <1>4

LEMMA SizeType ==
  ASSUME NEW n \in MetaType
  PROVE  RecSize(n) \in Nat
  <1>1. RecLens(n)[Len(n.vars)] \in Nat
    BY LensLoop, Kinds
  <1>2. ASSUME OfKind(n, TRUE) # {}
        PROVE  n.vars[First(OfKind(n, TRUE))].size \in Nat
    <2>1. First(OfKind(n, TRUE)) \in 1 .. Len(n.vars)
      BY <1>2, FirstIndex
    <2> QED
      BY <2>1, Kinds, Lengths
  <1> QED
    BY <1>1, <1>2 DEF RecSize

(* Within a record every record variable has room for its data. *)
LEMMA SizeFits ==
  ASSUME NEW n \in MetaType, NEW i \in 1 .. Len(n.vars), n.vars[i].rec
  PROVE  RecLens(n)[i - 1] + n.vars[i].size <= RecSize(n)
  <1> DEFINE k == Len(n.vars)
             S == RecLens(n)
             R == OfKind(n, TRUE)
             f == First(R)
  <1>1. k \in Nat /\ S \in [0 .. k -> Nat] /\ i \in R /\ R \subseteq 1 .. k
    BY Kinds, LensLoop
  <1>2. f \in R /\ f <= i /\ f \in 1 .. k
    BY <1>1, FirstIndex
  <1>3. \A j \in R : S[j] = S[j - 1] + VLen(n.vars[j])
    <2> SUFFICES ASSUME NEW j \in R PROVE S[j] = S[j - 1] + VLen(n.vars[j])
      OBVIOUS
    <2>1. j \in 1 .. k /\ n.vars[j].rec
      BY <1>1, Kinds
    <2> QED
      BY <2>1, LensLoop
  <1>4. \A j \in R : S[j] <= S[k] /\ S[j] \in Nat /\ S[j - 1] \in Nat
    <2> SUFFICES ASSUME NEW j \in R PROVE S[j] <= S[k] /\ S[j] \in Nat /\ S[j - 1] \in Nat
      OBVIOUS
    <2>1. j \in 0 .. k /\ j - 1 \in 0 .. k /\ k \in 0 .. k /\ j <= k
      <3>1. j \in 1 .. k /\ k \in Nat
        BY <1>1
      <3> HIDE DEF k
      <3> QED
        BY <3>1
    <2>2. S[j] <= S[k]
      BY <2>1, LensGrow
    <2> HIDE DEF S, k
    <2> QED
      BY <1>1, <2>1, <2>2
  <1>5. \A j \in R : /\ VLen(n.vars[j]) \in Nat \ {0} /\ n.vars[j].size \in Nat
                     /\ VLen(n.vars[j]) >= n.vars[j].size
    BY <1>1, Kinds, Lengths
  <1>6. CASE S[k] = VLen(n.vars[f])
    <2>1. RecSize(n) = n.vars[f].size
      BY <1>1, <1>6 DEF RecSize
    <2>2. f = i
      <3> SUFFICES ASSUME f # i PROVE FALSE
        OBVIOUS
      <3>1. f <= i - 1 /\ i - 1 \in 0 .. k /\ f \in 0 .. k
        <4> HIDE DEF f
        <4> QED
          BY <1>1, <1>2
      <3>2. S[f] <= S[i - 1]
        BY <3>1, LensGrow
      <3> HIDE DEF S, f, k, R
      <3>3. S[f] = S[f - 1] + VLen(n.vars[f]) /\ S[i] = S[i - 1] + VLen(n.vars[i])
        BY <1>1, <1>2, <1>3
      <3>4. S[i] <= S[k] /\ S[i] \in Nat /\ S[i - 1] \in Nat /\ S[f] \in Nat
            /\ S[f - 1] \in Nat /\ S[k] \in Nat
            /\ VLen(n.vars[f]) \in Nat \ {0} /\ VLen(n.vars[i]) \in Nat \ {0}
        BY <1>1, <1>2, <1>4, <1>5
      <3> QED
        BY <3>2, <3>3, <3>4, <1>6, SMTT(60)
    <2> HIDE DEF S, f, k, R
    <2>3. S[i] = S[i - 1] + VLen(n.vars[i]) /\ S[i] <= S[k] /\ S[i] \in Nat
          /\ S[i - 1] \in Nat /\ VLen(n.vars[i]) \in Nat
      BY <1>1, <1>3, <1>4, <1>5
    <2>4. S[i - 1] = 0
      BY <2>2, <2>3, <1>6
    <2>5. n.vars[i].size \in Nat
      BY <1>1, <1>5
    <2>6. S[i - 1] + n.vars[i].size <= RecSize(n)
      BY <2>1, <2>2, <2>4, <2>5
    <2> QED
      BY <2>6 DEF S
  <1>7. CASE S[k] # VLen(n.vars[f])
    <2>1. RecSize(n) = S[k]
      BY <1>1, <1>7 DEF RecSize
    <2> HIDE DEF S, f, k, R
    <2>2. S[i] = S[i - 1] + VLen(n.vars[i]) /\ S[i] <= S[k] /\ S[i] \in Nat
          /\ S[i - 1] \in Nat /\ VLen(n.vars[i]) \in Nat
          /\ n.vars[i].size \in Nat /\ VLen(n.vars[i]) >= n.vars[i].size
      BY <1>1, <1>3, <1>4, <1>5
    <2>3. S[i - 1] + n.vars[i].size <= RecSize(n)
      BY <2>1, <2>2, <1>1
    <2> QED
      BY <2>3 DEF S
  <1> QED
    BY <1>6, <1>7

(* Records do not become shorter when variables are added. *)
LEMMA SizeGrows ==
  ASSUME NEW n \in MetaType, NEW o \in MetaType, Extends(n, o)
  PROVE  RecSize(o) <= RecSize(n)
  <1> DEFINE k == Len(o.vars)
             R == OfKind(o, TRUE)
             f == First(R)
             t == RecLens(o)[k]
             u == RecLens(n)[Len(n.vars)]
  <1>1. k \in Nat /\ Len(n.vars) \in Nat /\ k <= Len(n.vars) /\ R \subseteq 1 .. k
    BY Kinds DEF Extends
  <1>2. t \in Nat /\ u \in Nat /\ RecSize(o) \in Nat /\ RecSize(n) \in Nat
    <2>1. RecLens(o) \in [0 .. k -> Nat] /\ RecLens(n) \in [0 .. Len(n.vars) -> Nat]
      BY LensLoop
    <2>2. RecSize(o) \in Nat /\ RecSize(n) \in Nat
      BY SizeType
    <2> QED
      BY <1>1, <2>1, <2>2
  <1>3. t <= u
    <2>1. RecLens(n)[k] = t
      BY <1>1, LensPrefix
    <2> QED
      BY <1>1, <2>1, LensGrow
  <1>4. CASE R = {}
    <2>1. \A j \in 1 .. k : ~o.vars[j].rec
      BY <1>4, Kinds DEF OfKind
    <2>2. t = 0
      BY <1>1, <2>1, LensNone
    <2>3. RecSize(o) = t
      BY <1>4 DEF RecSize
    <2> QED
      BY <1>2, <2>2, <2>3
  <1>5. CASE R # {}
    <2>1. f \in R /\ f \in 1 .. k /\ \A j \in R : f <= j
      BY <1>1, <1>5, FirstIndex
    <2>2. /\ n.vars[f].size = o.vars[f].size /\ VLen(n.vars[f]) = VLen(o.vars[f])
          /\ VLen(o.vars[f]) \in Nat /\ o.vars[f].size \in Nat
          /\ VLen(o.vars[f]) >= o.vars[f].size
      <3>1. o.vars[f] \in VarType
        BY <2>1, Kinds
      <3> QED
        BY <2>1, <3>1, Lengths DEF Extends, VLen
    <2>3. First(OfKind(n, TRUE)) = f /\ OfKind(n, TRUE) # {}
      <3>1. f \in OfKind(n, TRUE)
        <4>1. f \in 1 .. Len(n.vars) /\ f \in 1 .. k
          <5> HIDE DEF f, k
          <5> QED
            BY <1>1, <2>1
        <4>2. o.vars[f].rec = TRUE
          BY <2>1, Kinds
        <4>3. n.vars[f].rec = TRUE
          BY <4>1, <4>2 DEF Extends
        <4> QED
          BY <4>1, <4>3, Kinds
      <3>2. First(OfKind(n, TRUE)) \in OfKind(n, TRUE)
            /\ \A j \in OfKind(n, TRUE) : First(OfKind(n, TRUE)) <= j
        BY <3>1, FirstIndex
      <3> DEFINE g == First(OfKind(n, TRUE))
      <3>3. g \in 1 .. Len(n.vars) /\ g <= f /\ n.vars[g].rec
        BY <3>1, <3>2, Kinds
      <3>4. g \in 1 .. k
        <4> HIDE DEF g, f
        <4> QED
          BY <1>1, <2>1, <3>3
      <3>5. o.vars[g].rec
        BY <3>3, <3>4 DEF Extends
      <3>6. g \in R
        BY <3>4, <3>5, Kinds DEF OfKind
      <3>7. g = f
        <4>1. f <= g
          BY <2>1, <3>6
        <4> HIDE DEF g, f
        <4> QED
          BY <4>1, <3>3, <3>4, <2>1
      <3> QED
        BY <3>1, <3>7
    <2>4. VLen(o.vars[f]) <= t
      <3>1. RecLens(o)[f] = RecLens(o)[f - 1] + VLen(o.vars[f])
        BY <2>1, LensLoop, Kinds
      <3>2. f \in 0 .. k /\ f - 1 \in 0 .. k /\ k \in 0 .. k /\ f <= k
        <4> HIDE DEF f, k
        <4> QED
          BY <1>1, <2>1
      <3>3. RecLens(o)[f] <= t
        BY <3>2, LensGrow
      <3>4. RecLens(o)[f - 1] \in Nat /\ RecLens(o)[f] \in Nat
        BY <3>2, LensLoop
      <3> HIDE DEF t, f
      <3> QED
        BY <1>2, <2>2, <3>1, <3>3, <3>4
    <2>5. RecSize(n) = IF u = VLen(o.vars[f]) THEN o.vars[f].size ELSE u
      BY <2>2, <2>3 DEF RecSize
    <2>6. RecSize(o) = IF t = VLen(o.vars[f]) THEN o.vars[f].size ELSE t
      BY <1>5 DEF RecSize
    <2> HIDE DEF t, u, f
    <2> QED
      BY <1>2, <1>3, <2>2, <2>4, <2>5, <2>6
  <1> QED
    BY <1>4, <1>5

(* One turn of the loop of Place: q before, the result after variable i. *)
Spot == [begin : Nat, end : Nat]

StartAt(x) == [begin |-> x, end |-> x]

PlaceNext(n, o, grain, i, q) ==
    LET b == Larger(RndUp(q.end, grain), OldBegin(o, i))
    IN  IF n.vars[i].rec THEN q ELSE [begin |-> b, end |-> b + VLen(n.vars[i])]

LEMMA OldBegins ==
  ASSUME NEW o \in OldType, NEW i
  PROVE  OldBegin(o, i) \in Nat
  <1>1. CASE o # None /\ i \in DOMAIN o.vars
    <2>1. o \in MetaType
      BY <1>1 DEF OldType
    <2>2. o.vars[i] \in VarType
      BY <1>1, <2>1, Kinds
    <2> QED
      BY <1>1, <2>2, Lengths DEF OldBegin
  <1>2. CASE ~(o # None /\ i \in DOMAIN o.vars)
    BY <1>2 DEF OldBegin
  <1> QED
    BY <1>1, <1>2

LEMMA PlaceType ==
  ASSUME NEW n \in MetaType, NEW o \in OldType,
         NEW grain \in Nat \ {0}, NEW i \in 1 .. Len(n.vars), NEW q \in Spot
  PROVE  PlaceNext(n, o, grain, i, q) \in Spot
  <1> DEFINE b == Larger(RndUp(q.end, grain), OldBegin(o, i))
  <1>1. q.end \in Nat /\ q.begin \in Nat
    BY DEF Spot
  <1>2. b \in Nat
    BY <1>1, RoundUp, OldBegins, LargerOf
  <1>3. VLen(n.vars[i]) \in Nat
    BY Kinds, Lengths
  <1> HIDE DEF b
  <1>4. [begin |-> b, end |-> b + VLen(n.vars[i])] \in Spot
    BY <1>1, <1>2, <1>3 DEF Spot
  <1> QED
    BY <1>4 DEF PlaceNext, b

LEMMA PlaceLoop ==
  ASSUME NEW n \in MetaType, NEW o \in OldType,
         NEW start \in Nat, NEW grain \in Nat \ {0},
         NEW p, p = Place(n, o, start, grain)
  PROVE  /\ p \in [0 .. Len(n.vars) -> Spot]
         /\ p[0] = StartAt(start)
         /\ \A i \in 1 .. Len(n.vars) : p[i] = PlaceNext(n, o, grain, i, p[i - 1])
  <1> DEFINE k == Len(n.vars)
             first == StartAt(start)
             G == [i \in 1 .. k |-> [q \in Spot |-> PlaceNext(n, o, grain, i, q)]]
             Loop(t) == [i \in 0 .. k |->
                           IF i = 0 THEN first ELSE PlaceNext(n, o, grain, i, t[i - 1])]
             T == CHOOSE t : t = Loop(t)
  <1>1. k \in Nat /\ first \in Spot
        /\ \A i \in 1 .. k : \A q \in Spot : PlaceNext(n, o, grain, i, q) \in Spot
    BY Kinds, PlaceType DEF Spot, StartAt
  <1>2. p = T
    BY DEF Place, PlaceNext, StartAt
  <1> HIDE DEF k, first
  <1>3. G \in [1 .. k -> [Spot -> Spot]]
    BY <1>1
  <1>4. \E t \in [0 .. k -> Spot] : t = Loop(t)
    <2> HIDE DEF G
    <2>1. PICK t \in [0 .. k -> Spot] : /\ t[0] = first
                                        /\ \A i \in 1 .. k : t[i] = G[i][t[i - 1]]
      <3> DEFINE S == Spot
                 a == first
      <3>1. k \in Nat /\ a \in S /\ G \in [1 .. k -> [S -> S]]
        BY <1>1, <1>3
      <3> HIDE LayoutAssumption DEF Loop, T, S, a
      <3>2. \E t \in [0 .. k -> S] : t[0] = a /\ \A i \in 1 .. k : t[i] = G[i][t[i - 1]]
        BY <3>1, Iterate
      <3> QED
        BY <3>2 DEF S, a
    <2>2. ASSUME NEW i \in 0 .. k, i # 0
          PROVE  G[i][t[i - 1]] = PlaceNext(n, o, grain, i, t[i - 1])
      <3>1. i \in 1 .. k /\ t[i - 1] \in Spot
        BY <1>1, <2>2
      <3> QED
        BY <3>1 DEF G
    <2>3. \A i \in 0 .. k : t[i] = IF i = 0 THEN first
                                   ELSE PlaceNext(n, o, grain, i, t[i - 1])
      <3>1. \A i \in 0 .. k : i = 0 \/ i \in 1 .. k
        BY <1>1
      <3> QED
        BY <2>1, <2>2, <3>1
    <2>4. t = Loop(t)
      BY <2>3
    <2> QED
      BY <2>4
  <1>5. T = Loop(T)
    <2> HIDE DEF Loop
    <2> QED
      BY <1>4, Zenon
  <1>6. T[0] = first /\ \A i \in 1 .. k : T[i] = PlaceNext(n, o, grain, i, T[i - 1])
    <2> HIDE DEF T
    <2>1. \A i \in 0 .. k : T[i] = IF i = 0 THEN first
                                   ELSE PlaceNext(n, o, grain, i, T[i - 1])
      BY <1>5, Zenon
    <2>2. 0 \in 0 .. k /\ \A i \in 1 .. k : i \in 0 .. k /\ i # 0
      BY <1>1
    <2> QED
      BY <2>1, <2>2
  <1>7. T \in [0 .. k -> Spot]
    <2> HIDE DEF T
    <2> DEFINE P == {i \in 0 .. k : T[i] \in Spot}
    <2>1. 0 \in P
      BY <1>1, <1>6
    <2>2. \A i \in 1 .. k : i - 1 \in P => i \in P
      BY <1>1, <1>6
    <2>3. \A i \in 0 .. k : i \in P
      <3> HIDE DEF P
      <3> QED
        BY <1>1, <2>1, <2>2, LoopInduction
    <2>4. T = [i \in 0 .. k |-> T[i]]
      BY <1>5
    <2> QED
      BY <2>3, <2>4
  <1> HIDE DEF T
  <1> QED
    BY <1>2, <1>6, <1>7 DEF k, first

(* Fixed-size variables follow one another, none before its old begin. *)
LEMMA FixedPlaces ==
  ASSUME NEW n \in MetaType, NEW o \in OldType, NEW start \in Nat,
         NEW grain \in Nat \ {0},
         NEW p, p = Place(n, o, start, grain)
  PROVE  /\ p \in [0 .. Len(n.vars) -> Spot] /\ p[0].end = start
         /\ \A i \in 0 .. Len(n.vars) : p[i].begin \in Nat /\ p[i].end \in Nat
         /\ \A i, j \in 0 .. Len(n.vars) : i <= j => p[i].end <= p[j].end
         /\ \A i \in 1 .. Len(n.vars) : ~n.vars[i].rec =>
              /\ p[i].begin >= p[i - 1].end /\ p[i].begin >= OldBegin(o, i)
              /\ p[i].end = p[i].begin + VLen(n.vars[i])
         /\ \A i \in 1 .. Len(n.vars) : n.vars[i].rec => p[i] = p[i - 1]
  <1> DEFINE k == Len(n.vars)
  <1>1. /\ k \in Nat /\ p \in [0 .. k -> Spot] /\ p[0] = StartAt(start)
        /\ \A i \in 1 .. k : p[i] = PlaceNext(n, o, grain, i, p[i - 1])
    <2>1. k \in Nat
      BY Kinds
    <2> QED
      BY <2>1, PlaceLoop
  <1>2. \A i \in 0 .. k : p[i].begin \in Nat /\ p[i].end \in Nat
    BY <1>1 DEF Spot
  <1>3. \A i \in 1 .. k : i - 1 \in 0 .. k /\ i \in 0 .. k
    BY <1>1
  <1>4. ASSUME NEW i \in 1 .. k, ~n.vars[i].rec
        PROVE  /\ p[i].begin >= p[i - 1].end /\ p[i].begin >= OldBegin(o, i)
               /\ p[i].end = p[i].begin + VLen(n.vars[i])
    <2> DEFINE b == Larger(RndUp(p[i - 1].end, grain), OldBegin(o, i))
    <2>1. p[i - 1].end \in Nat
      BY <1>2, <1>3
    <2>2. OldBegin(o, i) \in Nat
      BY OldBegins
    <2>3. b \in Nat /\ b >= p[i - 1].end /\ b >= OldBegin(o, i)
      <3>1. RndUp(p[i - 1].end, grain) \in Nat /\ RndUp(p[i - 1].end, grain) >= p[i - 1].end
        BY <2>1, RoundUp
      <3>2. b \in Nat /\ b >= RndUp(p[i - 1].end, grain) /\ b >= OldBegin(o, i)
        BY <3>1, <2>2, LargerOf
      <3> HIDE DEF b
      <3> QED
        BY <2>1, <3>1, <3>2
    <2>4. ~n.vars[i].rec
      BY <1>4
    <2>5. p[i] = [begin |-> b, end |-> b + VLen(n.vars[i])]
      BY <1>1, <2>4 DEF PlaceNext
    <2>6. VLen(n.vars[i]) \in Nat
      BY Kinds, Lengths
    <2> HIDE DEF b
    <2> QED
      BY <2>3, <2>5, <2>6
  <1>5. ASSUME NEW i \in 1 .. k, n.vars[i].rec PROVE p[i] = p[i - 1]
    BY <1>1, <1>5 DEF PlaceNext
  <1>6. \A i \in 1 .. k : p[i - 1].end <= p[i].end
    <2> SUFFICES ASSUME NEW i \in 1 .. k PROVE p[i - 1].end <= p[i].end
      OBVIOUS
    <2>1. p[i - 1].end \in Nat /\ p[i].begin \in Nat /\ VLen(n.vars[i]) \in Nat
      BY <1>2, <1>3, Kinds, Lengths
    <2>2. CASE n.vars[i].rec
      BY <1>5, <2>1, <2>2
    <2>3. CASE ~n.vars[i].rec
      <3>1. p[i].begin >= p[i - 1].end /\ p[i].end = p[i].begin + VLen(n.vars[i])
        BY <1>4, <2>3
      <3> QED
        BY <2>1, <3>1
    <2> QED
      BY <2>2, <2>3
  <1>8. p[0].end = start
    BY <1>1 DEF StartAt
  <1>7. ASSUME NEW i \in 0 .. k, NEW j \in 0 .. k, i <= j PROVE p[i].end <= p[j].end
    <2> DEFINE P == {m \in 0 .. k : m >= i => p[i].end <= p[m].end}
    <2>1. 0 \in P
      BY <1>1, <1>2, <1>7
    <2>2. \A m \in 1 .. k : m - 1 \in P => m \in P
      <3> SUFFICES ASSUME NEW m \in 1 .. k, m - 1 \in P PROVE m \in P
        OBVIOUS
      <3>1. p[m - 1].end <= p[m].end /\ p[m].end \in Nat /\ p[m - 1].end \in Nat
            /\ p[i].end \in Nat
        BY <1>2, <1>3, <1>6, <1>7
      <3>2. m - 1 >= i => p[i].end <= p[m - 1].end
        OBVIOUS
      <3>3. m >= i => p[i].end <= p[m].end
        BY <1>1, <1>7, <3>1, <3>2
      <3> QED
        BY <1>1, <3>3
    <2>3. \A m \in 0 .. k : m \in P
      <3> HIDE DEF P, k
      <3> QED
        BY <1>1, <2>1, <2>2, LoopInduction
    <2> QED
      BY <1>7, <2>3
  <1> QED
    BY <1>1, <1>2, <1>4, <1>5, <1>7, <1>8

-----------------------------------------------------------------------------
(***************************************************************************)
(* A layout: fixed-size variables after the header, one after the other,   *)
(* then the records, in each of which the record variables follow one      *)
(* another without a gap.                                                  *)
(***************************************************************************)
FixedLaid(n) ==
    /\ \A i \in 1 .. Len(n.vars) : ~n.vars[i].rec =>
          /\ n.vars[i].begin >= n.begin_var
          /\ n.vars[i].begin + VLen(n.vars[i]) <= n.begin_rec
    /\ \A i, j \in 1 .. Len(n.vars) : i < j /\ ~n.vars[i].rec /\ ~n.vars[j].rec
          => n.vars[i].begin + VLen(n.vars[i]) <= n.vars[j].begin

RecordsLaid(n) ==
    /\ \A i \in 1 .. Len(n.vars) : n.vars[i].rec =>
          n.vars[i].begin = n.begin_rec + RecLens(n)[i - 1]
    /\ n.recsize = RecSize(n)

HeaderLaid(n) ==
    /\ n.begin_var = IF OfKind(n, FALSE) = {} THEN n.begin_rec
                     ELSE n.vars[First(OfKind(n, FALSE))].begin
    /\ n.vars # <<>> => n.begin_var >= HdrLen(n)

LaidOut(n) == FixedLaid(n) /\ RecordsLaid(n) /\ HeaderLaid(n)

(* What define mode may have done since the layout o was computed. *)
Grown(n, o) == o # None => LaidOut(o) /\ Extends(n, o)

ArgType == [h_minfree : Nat, v_align : Nat, v_minfree : Nat, r_align : Nat]

LEMMA HeaderLength ==
  ASSUME NEW n \in MetaType
  PROVE  HdrLen(n) \in Nat
  BY Kinds DEF HdrLen

(* The header and the fixed-size variables fit in front of the new extent, *)
(* and it is not in front of the old one.                                  *)
LEMMA ExtentFits ==
  ASSUME NEW n \in MetaType, NEW o \in OldType, NEW a \in Units, NEW args \in ArgType
  PROVE  /\ Extent(n, o, a, args) \in Nat
         /\ Extent(n, o, a, args) >= HdrLen(n)
         /\ o # None => Extent(n, o, a, args) >= o.begin_var
  <1> DEFINE x == HdrLen(n) + args.h_minfree
             wanted == IF n.vars = <<>> THEN HdrLen(n) ELSE RndUp(x, a.h)
             before == IF o = None THEN 0 ELSE o.begin_var
  <1>1. HdrLen(n) \in Nat /\ x \in Nat /\ x >= HdrLen(n) /\ a.h \in Nat \ {0}
    BY HeaderLength DEF ArgType, Units
  <1>2. RndUp(x, a.h) \in Nat /\ RndUp(x, a.h) >= x
    <2> HIDE DEF x
    <2> QED
      BY <1>1, RoundUp
  <1>3. wanted \in Nat /\ wanted >= HdrLen(n)
    <2> HIDE DEF x
    <2> QED
      BY <1>1, <1>2
  <1>4. before \in Nat /\ (o # None => before = o.begin_var)
    BY Kinds DEF OldType
  <1>5. Extent(n, o, a, args) = Larger(wanted, before)
    BY DEF Extent
  <1> HIDE DEF x, wanted, before
  <1>6. Larger(wanted, before) \in Nat /\ Larger(wanted, before) >= wanted
        /\ Larger(wanted, before) >= before
    BY <1>3, <1>4, LargerOf
  <1> QED
    BY <1>1, <1>3, <1>4, <1>5, <1>6

LEMMA BeginRecFits ==
  ASSUME NEW n \in MetaType, NEW o \in OldType, NEW a \in Units, NEW vfree \in Nat,
         NEW end \in Nat
  PROVE  /\ BeginRec(n, o, a, vfree, end) \in Nat
         /\ BeginRec(n, o, a, vfree, end) >= end
         /\ o # None => BeginRec(n, o, a, vfree, end) >= o.begin_rec
  <1> DEFINE up == RndUp(end, a.fx)
             kept == IF n.begin_rec < end \/ n.begin_rec # RndUp(n.begin_rec, a.fx)
                     THEN up ELSE n.begin_rec
             more == RndUp(end + vfree, a.fx)
             room == IF kept < end + vfree THEN more ELSE kept
             aligned == IF a.r > 1 THEN RndUp(room, a.r) ELSE room
             before == IF o = None THEN 0 ELSE o.begin_rec
  <1>1. a.fx \in Nat \ {0} /\ a.r \in Nat \ {0} /\ n.begin_rec \in Nat
    BY Kinds DEF Units
  <1>2. up \in Nat /\ up >= end /\ end + vfree \in Nat
    BY <1>1, RoundUp
  <1>3. kept \in Nat /\ kept >= end
    <2> HIDE DEF up
    <2> QED
      BY <1>1, <1>2
  <1>4. more \in Nat /\ more >= end + vfree
    BY <1>1, <1>2, RoundUp
  <1>5. room \in Nat /\ room >= end
    <2> HIDE DEF kept, more
    <2> QED
      BY <1>3, <1>4
  <1>6. aligned \in Nat /\ aligned >= end
    <2> HIDE DEF room
    <2>1. RndUp(room, a.r) \in Nat /\ RndUp(room, a.r) >= room
      BY <1>1, <1>5, RoundUp
    <2> QED
      BY <1>5, <2>1
  <1>7. before \in Nat /\ (o # None => before = o.begin_rec)
    BY Kinds DEF OldType
  <1>8. BeginRec(n, o, a, vfree, end) = Larger(aligned, before)
    BY DEF BeginRec
  <1> HIDE DEF aligned, before
  <1>9. Larger(aligned, before) \in Nat /\ Larger(aligned, before) >= aligned
        /\ Larger(aligned, before) >= before
    BY <1>6, <1>7, LargerOf
  <1> QED
    BY <1>6, <1>7, <1>8, <1>9

(* No record variable is held back by its old begin. *)
LEMMA RecordPlaces ==
  ASSUME NEW n \in MetaType, NEW o \in OldType, Grown(n, o),
         NEW rec0 \in Nat, o # None => rec0 >= o.begin_rec,
         NEW i \in 1 .. Len(n.vars), n.vars[i].rec
  PROVE  Larger(rec0 + RecLens(n)[i - 1], OldBegin(o, i)) = rec0 + RecLens(n)[i - 1]
  <1> DEFINE x == RecLens(n)[i - 1]
             y == OldBegin(o, i)
  <1>1. x \in Nat /\ y \in Nat
    <2>1. i - 1 \in 0 .. Len(n.vars)
      BY Kinds
    <2> QED
      BY <2>1, LensLoop, OldBegins
  <1>2. y <= rec0 + x
    <2>1. CASE o # None /\ i \in DOMAIN o.vars
      <3>1. o \in MetaType /\ LaidOut(o) /\ Extends(n, o)
        BY <2>1 DEF OldType, Grown
      <3>2. i \in 1 .. Len(o.vars) /\ i - 1 \in 0 .. Len(o.vars)
        BY <2>1, <3>1, Kinds
      <3>3. o.vars[i].rec
        BY <3>1, <3>2 DEF Extends
      <3>4. y = o.vars[i].begin
        BY <2>1 DEF OldBegin
      <3>5. y = o.begin_rec + RecLens(o)[i - 1]
        BY <3>1, <3>2, <3>3, <3>4 DEF LaidOut, RecordsLaid
      <3>6. RecLens(o)[i - 1] = x
        BY <3>1, <3>2, LensPrefix
      <3>7. o.begin_rec \in Nat /\ rec0 >= o.begin_rec
        BY <2>1, <3>1, Kinds
      <3> HIDE DEF x, y
      <3> QED
        BY <1>1, <3>5, <3>6, <3>7
    <2>2. CASE ~(o # None /\ i \in DOMAIN o.vars)
      <3>1. y = 0
        BY <2>2 DEF OldBegin
      <3> HIDE DEF x, y
      <3> QED
        BY <1>1, <3>1
    <2> QED
      BY <2>1, <2>2
  <1> HIDE DEF x, y
  <1>3. Larger(rec0 + x, y) = rec0 + x
    BY <1>1, <1>2 DEF Larger
  <1> QED
    BY <1>3 DEF x, y

(* Layouts with the same variables have the same records. *)
LEMMA SameRecords ==
  ASSUME NEW n \in MetaType, NEW m \in MetaType, Extends(m, n),
         Len(m.vars) = Len(n.vars)
  PROVE  /\ RecSize(m) = RecSize(n)
         /\ \A i \in 0 .. Len(n.vars) : RecLens(m)[i] = RecLens(n)[i]
         /\ \A rec : OfKind(m, rec) = OfKind(n, rec)
         /\ m.atts = n.atts => HdrLen(m) = HdrLen(n)
  <1>1. Len(n.vars) \in Nat /\ DOMAIN n.vars = 1 .. Len(n.vars)
        /\ DOMAIN m.vars = 1 .. Len(n.vars) /\ n.atts \in Nat /\ m.atts \in Nat
    BY Kinds
  <1>2. Extends(n, m)
    BY <1>1 DEF Extends
  <1>3. RecSize(m) <= RecSize(n) /\ RecSize(n) <= RecSize(m)
    BY <1>2, SizeGrows
  <1>4. RecSize(m) \in Nat /\ RecSize(n) \in Nat
    BY SizeType
  <1>5. \A rec : OfKind(m, rec) = OfKind(n, rec)
    BY <1>1 DEF OfKind, Extends
  <1>6. \A i \in 0 .. Len(n.vars) : RecLens(m)[i] = RecLens(n)[i]
    BY LensPrefix
  <1>7. m.atts = n.atts => HdrLen(m) = HdrLen(n)
    BY <1>1 DEF HdrLen
  <1> QED
    BY <1>3, <1>4, <1>5, <1>6, <1>7

(***************************************************************************)
(* NC_begins lays the variables out, and no section begins earlier than    *)
(* before redef.                                                           *)
(***************************************************************************)
LEMMA NcBegins ==
  ASSUME NEW n \in MetaType, NEW o \in OldType, Grown(n, o), NEW a \in Units,
         NEW args \in ArgType, NEW m, m = NC_begins(n, o, a, args)
  PROVE  /\ m \in MetaType /\ LaidOut(m) /\ Extends(m, n)
         /\ Len(m.vars) = Len(n.vars) /\ m.atts = n.atts
         /\ o # None => /\ m.begin_rec >= o.begin_rec /\ m.begin_var >= o.begin_var
                        /\ m.recsize >= o.recsize /\ Len(m.vars) >= Len(o.vars)
  <1> DEFINE k == Len(n.vars)
             start == Extent(n, o, a, args)
             p == Place(n, o, start, a.fx)
             rec0 == BeginRec(n, o, a, args.v_minfree, p[k].end)
             begin(i) == IF n.vars[i].rec
                         THEN Larger(rec0 + RecLens(n)[i - 1], OldBegin(o, i))
                         ELSE p[i].begin
             placed == [i \in DOMAIN n.vars |-> [n.vars[i] EXCEPT !.begin = begin(i)]]
             F == OfKind(n, FALSE)
             head == IF F = {} THEN rec0 ELSE placed[First(F)].begin
  <1>1. m = [n EXCEPT !.vars = placed, !.begin_rec = rec0, !.recsize = RecSize(n),
                      !.begin_var = head]
    BY DEF NC_begins
  <1>2. /\ k \in Nat /\ DOMAIN n.vars = 1 .. k /\ a.fx \in Nat \ {0}
        /\ args.v_minfree \in Nat
    BY Kinds DEF Units, ArgType
  <1>3. start \in Nat /\ start >= HdrLen(n) /\ (o # None => start >= o.begin_var)
    BY ExtentFits
  <1>4. /\ p[0].end = start
        /\ \A i \in 0 .. k : p[i].begin \in Nat /\ p[i].end \in Nat
        /\ \A i, j \in 0 .. k : i <= j => p[i].end <= p[j].end
        /\ \A i \in 1 .. k : ~n.vars[i].rec =>
              /\ p[i].begin >= p[i - 1].end
              /\ p[i].end = p[i].begin + VLen(n.vars[i])
    <2> HIDE DEF start, p, rec0, begin, placed, F, head
    <2> DEFINE u == a.fx
    <2>1. p = Place(n, o, start, u)
      BY DEF p
    <2>2. u \in Nat \ {0} /\ start \in Nat
      BY <1>2, <1>3
    <2> HIDE DEF u
    <2>3. /\ p[0].end = start
          /\ \A i \in 0 .. Len(n.vars) : p[i].begin \in Nat /\ p[i].end \in Nat
          /\ \A i, j \in 0 .. Len(n.vars) : i <= j => p[i].end <= p[j].end
      BY <2>1, <2>2, FixedPlaces, SMTT(60)
    <2>4. \A i \in 1 .. Len(n.vars) : ~n.vars[i].rec =>
              /\ p[i].begin >= p[i - 1].end
              /\ p[i].end = p[i].begin + VLen(n.vars[i])
      BY <2>1, <2>2, FixedPlaces, SMTT(60)
    <2> QED
      BY <2>3, <2>4
  <1> HIDE DEF start, p
  <1>5. /\ rec0 \in Nat /\ rec0 >= p[k].end /\ (o # None => rec0 >= o.begin_rec)
    <2>1. p[k].end \in Nat
      BY <1>2, <1>4
    <2> QED
      BY <1>2, <2>1, BeginRecFits
  <1> HIDE DEF rec0
  <1>6. \A i \in 1 .. k : n.vars[i].rec => begin(i) = rec0 + RecLens(n)[i - 1]
    BY <1>5, RecordPlaces
  <1>7. \A i \in 1 .. k : ~n.vars[i].rec => begin(i) = p[i].begin
    OBVIOUS
  <1> HIDE DEF begin
  <1>8. \A i \in 1 .. k : begin(i) \in Nat
    <2> SUFFICES ASSUME NEW i \in 1 .. k PROVE begin(i) \in Nat
      OBVIOUS
    <2>1. i \in 0 .. k /\ i - 1 \in 0 .. k
      BY <1>2
    <2>2. RecLens(n)[i - 1] \in Nat /\ p[i].begin \in Nat
      BY <2>1, <1>4, LensLoop
    <2> QED
      BY <2>2, <1>5, <1>6, <1>7
  <1>9. /\ placed \in Seq(VarType) /\ Len(placed) = k
        /\ \A i \in 1 .. k : /\ placed[i].rec = n.vars[i].rec
                             /\ placed[i].size = n.vars[i].size
                             /\ placed[i].begin = begin(i)
    <2>1. ASSUME NEW i \in 1 .. k
          PROVE  /\ placed[i] \in VarType /\ placed[i].rec = n.vars[i].rec
                 /\ placed[i].size = n.vars[i].size /\ placed[i].begin = begin(i)
      <3>1. n.vars[i] \in VarType /\ begin(i) \in Nat /\ i \in DOMAIN n.vars
        BY Kinds, <1>2, <1>8
      <3>2. placed[i] = [n.vars[i] EXCEPT !.begin = begin(i)]
        BY <3>1
      <3> HIDE DEF placed
      <3> QED
        BY <3>1, <3>2 DEF VarType
    <2>2. DOMAIN placed = 1 .. k
      BY <1>2
    <2>3. placed = [i \in 1 .. k |-> placed[i]]
      BY <1>2
    <2> HIDE DEF placed
    <2>4. placed \in Seq(VarType) /\ Len(placed) = k
      BY <1>2, <2>1, <2>2, <2>3
    <2> QED
      BY <2>1, <2>4
  <1> HIDE DEF placed
  <1>10. head \in Nat
    <2>1. CASE F = {}
      BY <1>5, <2>1
    <2>2. CASE F # {}
      <3>1. First(F) \in 1 .. k
        BY <2>2, FirstIndex
      <3> QED
        BY <2>2, <3>1, <1>8, <1>9
    <2> QED
      BY <2>1, <2>2
  <1> HIDE DEF head
  <1>11. /\ m \in MetaType /\ m.vars = placed /\ m.begin_rec = rec0
         /\ m.recsize = RecSize(n) /\ m.begin_var = head /\ m.atts = n.atts
    <2>1. RecSize(n) \in Nat
      BY SizeType
    <2> QED
      BY <1>1, <1>5, <1>9, <1>10, <2>1 DEF MetaType
  <1>12. Extends(m, n) /\ Len(m.vars) = k
    BY <1>9, <1>11, <1>2 DEF Extends
  <1>13. /\ RecSize(m) = RecSize(n) /\ OfKind(m, FALSE) = F
         /\ \A i \in 0 .. k : RecLens(m)[i] = RecLens(n)[i]
         /\ HdrLen(m) = HdrLen(n)
    BY <1>11, <1>12, SameRecords
  <1>14. RecordsLaid(m)
    <2> SUFFICES ASSUME NEW i \in 1 .. k, m.vars[i].rec
                 PROVE  m.vars[i].begin = m.begin_rec + RecLens(m)[i - 1]
      BY <1>11, <1>12, <1>13 DEF RecordsLaid
    <2>1. i - 1 \in 0 .. k
      BY <1>2
    <2> QED
      BY <2>1, <1>6, <1>9, <1>11, <1>13
  <1>15. head >= start
    <2>1. CASE F = {}
      <3>1. p[0].end <= p[k].end /\ p[k].end \in Nat
        BY <1>2, <1>4
      <3> QED
        BY <2>1, <3>1, <1>3, <1>4, <1>5 DEF head
    <2>2. CASE F # {}
      <3> DEFINE f == First(F)
      <3>1. f \in 1 .. k /\ ~n.vars[f].rec
        BY <2>2, FirstIndex, Kinds
      <3> HIDE DEF f
      <3>2. head = p[f].begin
        BY <2>2, <3>1, <1>7, <1>9 DEF head, f
      <3>3. p[f].begin >= p[f - 1].end /\ f - 1 \in 0 .. k /\ f \in 0 .. k
        BY <1>2, <1>4, <3>1
      <3>4. p[0].end <= p[f - 1].end /\ p[f - 1].end \in Nat /\ p[f].begin \in Nat
        BY <1>2, <1>4, <3>3
      <3> QED
        BY <3>2, <3>3, <3>4, <1>3, <1>4
    <2> QED
      BY <2>1, <2>2
  <1>16. HeaderLaid(m)
    <2>1. m.begin_var = IF OfKind(m, FALSE) = {} THEN m.begin_rec
                        ELSE m.vars[First(OfKind(m, FALSE))].begin
      BY <1>11, <1>13 DEF head
    <2>2. HdrLen(n) \in Nat
      BY HeaderLength
    <2>3. m.begin_var >= HdrLen(m)
      BY <1>3, <1>10, <1>11, <1>13, <1>15, <2>2
    <2> QED
      BY <2>1, <2>3 DEF HeaderLaid
  <1>17. ASSUME NEW i \in 1 .. k, ~n.vars[i].rec
         PROVE  /\ begin(i) = p[i].begin /\ p[i].begin + VLen(m.vars[i]) = p[i].end
                /\ p[i].begin >= p[i - 1].end
    <2>1. VLen(m.vars[i]) = VLen(n.vars[i])
      BY <1>9, <1>11 DEF VLen
    <2> QED
      BY <1>4, <1>7, <1>17, <2>1
  <1>18. ASSUME NEW i \in 1 .. k, ~n.vars[i].rec
         PROVE  begin(i) >= head /\ begin(i) + VLen(m.vars[i]) <= rec0
    <2>1. i \in F /\ F # {}
      BY <1>18, Kinds DEF OfKind
    <2> DEFINE f == First(F)
    <2>2. f \in 1 .. k /\ ~n.vars[f].rec /\ f <= i
      BY <2>1, FirstIndex, Kinds
    <2>3. head = begin(f)
      BY <2>1, <2>2, <1>9 DEF head
    <2> HIDE DEF f
    <2>4. begin(f) <= begin(i)
      <3>1. CASE f = i
        BY <3>1, <1>8
      <3>2. CASE f # i
        <4>1. f <= i - 1 /\ f \in 0 .. k /\ i - 1 \in 0 .. k
          BY <1>2, <2>2, <3>2
        <4>2. p[f].end <= p[i - 1].end
          BY <4>1, <1>4
        <4>3. begin(f) = p[f].begin /\ p[f].begin + VLen(m.vars[f]) = p[f].end
          BY <1>17, <2>2
        <4>4. begin(i) = p[i].begin /\ p[i].begin >= p[i - 1].end
          BY <1>17, <1>18
        <4>5. VLen(m.vars[f]) \in Nat
          BY <1>11, <1>12, <2>2, Kinds, Lengths
        <4>6. p[f].begin \in Nat /\ p[f].end \in Nat /\ p[i - 1].end \in Nat
              /\ p[i].begin \in Nat
          <5>1. i \in 0 .. k
            BY <1>2, <2>2
          <5> QED
            BY <1>4, <4>1, <5>1
        <4> QED
          BY <4>2, <4>3, <4>4, <4>5, <4>6
      <3> QED
        BY <3>1, <3>2
    <2>5. p[i].end <= p[k].end /\ p[i].end \in Nat /\ p[k].end \in Nat
      BY <1>2, <1>4
    <2>6. begin(i) + VLen(m.vars[i]) = p[i].end
      BY <1>17, <1>18
    <2> QED
      BY <2>3, <2>4, <2>5, <2>6, <1>5, <1>8
  <1>19. FixedLaid(m)
    <2>1. ASSUME NEW i \in 1 .. k, ~m.vars[i].rec
          PROVE  /\ m.vars[i].begin >= m.begin_var
                 /\ m.vars[i].begin + VLen(m.vars[i]) <= m.begin_rec
      BY <1>9, <1>11, <1>18, <2>1
    <2>2. ASSUME NEW i \in 1 .. k, NEW j \in 1 .. k, i < j, ~m.vars[i].rec, ~m.vars[j].rec
          PROVE  m.vars[i].begin + VLen(m.vars[i]) <= m.vars[j].begin
      <3>1. ~n.vars[i].rec /\ ~n.vars[j].rec
        BY <1>9, <1>11, <2>2
      <3>2. i <= j - 1 /\ i \in 0 .. k /\ j - 1 \in 0 .. k
        BY <1>2, <2>2
      <3>3. p[i].end <= p[j - 1].end /\ p[i].end \in Nat /\ p[j - 1].end \in Nat
            /\ p[j].begin \in Nat
        BY <1>2, <1>4, <3>2
      <3>4. p[i].begin + VLen(m.vars[i]) = p[i].end /\ begin(i) = p[i].begin
        BY <1>17, <3>1
      <3>5. p[j].begin >= p[j - 1].end /\ begin(j) = p[j].begin
        BY <1>17, <3>1
      <3>6. m.vars[i].begin = begin(i) /\ m.vars[j].begin = begin(j)
        BY <1>9, <1>11
      <3> QED
        BY <3>3, <3>4, <3>5, <3>6
    <2> QED
      BY <1>12, <2>1, <2>2 DEF FixedLaid
  <1>20. ASSUME o # None
         PROVE  /\ m.begin_rec >= o.begin_rec /\ m.begin_var >= o.begin_var
                /\ m.recsize >= o.recsize /\ Len(m.vars) >= Len(o.vars)
    <2>1. o \in MetaType /\ LaidOut(o) /\ Extends(n, o)
      BY <1>20 DEF OldType, Grown
    <2>2. o.begin_var \in Nat /\ o.begin_rec \in Nat /\ o.recsize = RecSize(o)
      BY <2>1, Kinds DEF LaidOut, RecordsLaid
    <2>3. RecSize(o) <= RecSize(n)
      BY <2>1, SizeGrows
    <2>4. Len(o.vars) <= Len(n.vars) /\ Len(o.vars) \in Nat
      BY <2>1, Kinds DEF Extends
    <2>5. RecSize(o) \in Nat /\ RecSize(n) \in Nat
      BY <2>1, SizeType
    <2> QED
      BY <1>2, <1>3, <1>5, <1>10, <1>11, <1>12, <1>15, <1>20, <2>2, <2>3, <2>4, <2>5
  <1> QED
    BY <1>11, <1>12, <1>14, <1>16, <1>19, <1>20 DEF LaidOut

LEMMA NotNone ==
  ASSUME NEW n \in MetaType
  PROVE  n # None
  <1>1. "vars" \in DOMAIN n
    BY DEF MetaType
  <1>2. DOMAIN None = {"none"}
    BY DEF None
  <1> QED
    BY <1>1, <1>2

LEMMA LastOfKind ==
  ASSUME NEW n \in MetaType, NEW rec, OfKind(n, rec) # {},
         NEW l, l = CHOOSE i \in OfKind(n, rec) : \A j \in OfKind(n, rec) : j <= i
  PROVE  l \in OfKind(n, rec) /\ \A j \in OfKind(n, rec) : j <= l
  <1> DEFINE F == OfKind(n, rec)
             b == Len(n.vars)
  <1>1. F \subseteq 1 .. b /\ F # {} /\ b \in Nat
    BY Kinds
  <1> HIDE DEF F, b
  <1>2. F \subseteq Nat /\ \A x \in F : x <= b
    BY <1>1
  <1>3. \E m \in F : \A x \in F : x <= m
    BY <1>1, <1>2, LargestNat
  <1>4. l = CHOOSE i \in F : \A j \in F : j <= i
    BY DEF F
  <1>5. l \in F /\ \A j \in F : j <= l
    BY <1>3, <1>4
  <1> QED
    BY <1>5 DEF F

(* What an opener derives from the header is a layout of the same variables. *)
LEMMA Opened ==
  ASSUME NEW h \in MetaType, LaidOut(h), NEW s, s = OpenShape(h)
  PROVE  s \in MetaType /\ LaidOut(s) /\ s.vars = h.vars /\ s.atts = h.atts
  <1> DEFINE F == OfKind(h, FALSE)
             R == OfKind(h, TRUE)
             last == CHOOSE i \in F : \A j \in F : j <= i
             rec0 == CASE R # {} -> h.vars[First(R)].begin
                       [] R = {} /\ F # {} -> h.vars[last].begin + VLen(h.vars[last])
                       [] OTHER -> 0
             head == IF F = {} THEN rec0 ELSE h.vars[First(F)].begin
             k == Len(h.vars)
  <1>1. s = [h EXCEPT !.begin_rec = rec0, !.recsize = RecSize(h), !.begin_var = head]
    BY DEF OpenShape, Shape
  <1>2. k \in Nat /\ \A i \in 1 .. k : /\ h.vars[i].begin \in Nat
                                       /\ VLen(h.vars[i]) \in Nat \ {0}
                                       /\ h.vars[i].rec \in BOOLEAN
    BY Kinds, Lengths
  <1>3. /\ \A i \in 1 .. k : ~h.vars[i].rec => h.vars[i].begin + VLen(h.vars[i]) <= h.begin_rec
        /\ \A i, j \in 1 .. k : i < j /\ ~h.vars[i].rec /\ ~h.vars[j].rec
             => h.vars[i].begin + VLen(h.vars[i]) <= h.vars[j].begin
        /\ \A i \in 1 .. k : h.vars[i].rec =>
             h.vars[i].begin = h.begin_rec + RecLens(h)[i - 1]
        /\ h.begin_var = IF F = {} THEN h.begin_rec ELSE h.vars[First(F)].begin
        /\ h.vars # <<>> => h.begin_var >= HdrLen(h)
    BY DEF LaidOut, FixedLaid, RecordsLaid, HeaderLaid
  <1>4. \A i \in 1 .. k : IF h.vars[i].rec THEN i \in R ELSE i \in F
    BY <1>2, Kinds DEF OfKind
  <1>5. R # {} => rec0 = h.begin_rec
    <2> SUFFICES ASSUME R # {} PROVE rec0 = h.begin_rec
      OBVIOUS
    <2> DEFINE f == First(R)
    <2>1. f \in R /\ f \in 1 .. k /\ \A j \in R : f <= j
      BY FirstIndex
    <2>2. h.vars[f].rec
      BY <2>1, Kinds
    <2>3. rec0 = h.vars[f].begin
      OBVIOUS
    <2> HIDE DEF f, rec0
    <2>4. ASSUME NEW j \in 1 .. f - 1 PROVE ~h.vars[j].rec
      <3>1. j \in 1 .. k /\ ~(f <= j)
        BY <1>2, <2>1
      <3>2. j \notin R
        BY <2>1, <3>1
      <3> QED
        BY <1>4, <3>1, <3>2
    <2>5. RecLens(h)[f - 1] = 0
      <3>1. f - 1 \in 0 .. k
        BY <1>2, <2>1
      <3> QED
        BY <2>4, <3>1, LensNone
    <2>6. h.begin_rec \in Nat
      BY Kinds
    <2> QED
      BY <1>3, <2>1, <2>2, <2>3, <2>5, <2>6
  <1>6. F # {} => First(F) \in 1 .. k /\ \A j \in F : First(F) <= j
    BY FirstIndex
  <1>7. R = {} /\ F # {} => /\ last \in 1 .. k /\ ~h.vars[last].rec
                            /\ \A j \in F : j <= last
                            /\ rec0 = h.vars[last].begin + VLen(h.vars[last])
    <2> SUFFICES ASSUME R = {}, F # {}
                 PROVE  /\ last \in 1 .. k /\ ~h.vars[last].rec
                        /\ \A j \in F : j <= last
                        /\ rec0 = h.vars[last].begin + VLen(h.vars[last])
      OBVIOUS
    <2>1. last \in F /\ \A j \in F : j <= last
      BY LastOfKind
    <2>2. last \in 1 .. k /\ ~h.vars[last].rec
      BY <2>1, Kinds
    <2>3. rec0 = h.vars[last].begin + VLen(h.vars[last])
      OBVIOUS
    <2> QED
      BY <2>1, <2>2, <2>3
  <1>8. rec0 \in Nat
    <2>1. CASE R # {}
      BY <2>1, <1>5, Kinds
    <2>2. CASE R = {} /\ F # {}
      <3>1. last \in 1 .. k /\ rec0 = h.vars[last].begin + VLen(h.vars[last])
        BY <2>2, <1>7
      <3> HIDE DEF last, rec0, k
      <3>2. h.vars[last].begin \in Nat /\ VLen(h.vars[last]) \in Nat \ {0}
        BY <1>2, <3>1
      <3> DEFINE x == h.vars[last].begin
                 y == VLen(h.vars[last])
      <3>3. x \in Nat /\ y \in Nat /\ rec0 = x + y
        BY <3>1, <3>2
      <3> HIDE DEF x, y
      <3> QED
        BY <3>3
    <2>3. CASE R = {} /\ F = {}
      BY <2>3
    <2> QED
      BY <2>1, <2>2, <2>3
  <1>9. head \in Nat
    BY <1>2, <1>6, <1>8
  <1>10. /\ s \in MetaType /\ s.vars = h.vars /\ s.atts = h.atts
         /\ s.begin_rec = rec0 /\ s.recsize = RecSize(h) /\ s.begin_var = head
    <2>1. RecSize(h) \in Nat
      BY SizeType
    <2> HIDE DEF rec0, head
    <2> QED
      BY <1>1, <1>8, <1>9, <2>1 DEF MetaType
  <1>11. /\ RecLens(s) = RecLens(h) /\ RecSize(s) = RecSize(h) /\ HdrLen(s) = HdrLen(h)
         /\ OfKind(s, FALSE) = F
    <2>1. RecLens(s) = RecLens(h)
      BY <1>10, Zenon DEF RecLens
    <2>2. OfKind(s, FALSE) = F /\ OfKind(s, TRUE) = R
      BY <1>10, Zenon DEF OfKind
    <2>3. RecSize(s) = RecSize(h)
      BY <1>10, <2>1, <2>2, Zenon DEF RecSize
    <2>4. HdrLen(s) = HdrLen(h)
      BY <1>10, Zenon DEF HdrLen
    <2> QED
      BY <2>1, <2>2, <2>3, <2>4
  <1>12. RecordsLaid(s)
    <2> SUFFICES ASSUME NEW i \in 1 .. k, h.vars[i].rec
                 PROVE  h.vars[i].begin = rec0 + RecLens(h)[i - 1]
      BY <1>10, <1>11 DEF RecordsLaid
    <2>1. R # {}
      BY <1>4
    <2> QED
      BY <1>3, <1>5, <2>1
  <1>13. HeaderLaid(s)
    <2>1. ASSUME h.vars # <<>> PROVE head >= HdrLen(h)
      <3>1. CASE F # {}
        BY <1>3, <2>1, <3>1
      <3>2. CASE F = {}
        <4>1. k # 0
          BY <2>1, Kinds, EmptySeq
        <4>2. R # {}
          <5>1. 1 \in 1 .. k
            BY <1>2, <4>1
          <5> QED
            BY <1>4, <3>2, <5>1
        <4> QED
          BY <1>3, <1>5, <2>1, <3>2, <4>2
      <3> QED
        BY <3>1, <3>2
    <2> HIDE DEF rec0
    <2> QED
      BY <1>10, <1>11, <2>1 DEF HeaderLaid
  <1>14. FixedLaid(s)
    <2>1. ASSUME NEW i \in 1 .. k, ~h.vars[i].rec
          PROVE  h.vars[i].begin >= head /\ h.vars[i].begin + VLen(h.vars[i]) <= rec0
      <3>1. i \in F /\ F # {}
        BY <1>4, <2>1
      <3> DEFINE f == First(F)
      <3>2. f \in 1 .. k /\ f <= i /\ f \in F /\ ~h.vars[f].rec
        BY <3>1, <1>6, FirstIndex, Kinds
      <3>3. head = h.vars[f].begin
        BY <3>1
      <3>4. R # {} => rec0 = h.begin_rec
        BY <1>5
      <3> HIDE DEF f, rec0, head, last
      <3>5. h.vars[i].begin >= h.vars[f].begin
        <4>1. CASE f = i
          BY <4>1, <1>2
        <4>2. CASE f # i
          <5>1. f < i
            BY <3>2, <4>2
          <5>2. h.vars[f].begin + VLen(h.vars[f]) <= h.vars[i].begin
            BY <1>3, <2>1, <3>2, <5>1
          <5>3. h.vars[f].begin \in Nat /\ h.vars[i].begin \in Nat /\ VLen(h.vars[f]) \in Nat
            BY <1>2, <3>2
          <5> QED
            BY <5>2, <5>3
        <4> QED
          BY <4>1, <4>2
      <3>6. CASE R # {}
        BY <1>3, <2>1, <3>3, <3>4, <3>5, <3>6
      <3>7. CASE R = {}
        <4>1. /\ last \in 1 .. k /\ ~h.vars[last].rec /\ i <= last
              /\ rec0 = h.vars[last].begin + VLen(h.vars[last])
          BY <1>7, <3>1, <3>7
        <4>2. CASE i = last
          BY <1>2, <3>3, <3>5, <4>1, <4>2
        <4>3. CASE i # last
          <5>1. i < last
            BY <4>1, <4>3
          <5>2. h.vars[i].begin + VLen(h.vars[i]) <= h.vars[last].begin
            BY <1>3, <2>1, <4>1, <5>1
          <5>3. /\ h.vars[i].begin \in Nat /\ h.vars[last].begin \in Nat
                /\ VLen(h.vars[i]) \in Nat /\ VLen(h.vars[last]) \in Nat
            BY <1>2, <4>1
          <5> QED
            BY <3>3, <3>5, <4>1, <5>2, <5>3
        <4> QED
          BY <4>2, <4>3
      <3> QED
        BY <3>6, <3>7
    <2> HIDE DEF rec0, head
    <2> QED
      BY <1>3, <1>10, <2>1 DEF FixedLaid
  <1> QED
    BY <1>10, <1>12, <1>13, <1>14 DEF LaidOut

-----------------------------------------------------------------------------
(***************************************************************************)
(* The inductive invariant.  Outside define mode the header on disk names  *)
(* the variables in memory and both are laid out; in define mode the       *)
(* layout before redef is kept in old, and the variables since then extend *)
(* it; inside enddef the new layout is computed and no section of it       *)
(* begins before the old one.                                              *)
(***************************************************************************)
AlignType == [h : Nat, fx : Nat, r : Nat]

Modes == {"define", "enddef", "data", "closed", "deleted"}

Moving == {"read", "readsum", "write", "writesum"}

Phases == Moving \cup {"idle", "header", "fill", "done"}

Typed ==
    /\ ncp \in MetaType /\ old \in OldType /\ saved \in OldType
    /\ align \in AlignType /\ numrecs \in Nat
    /\ mode \in Modes /\ at \in [Ranks -> Phases]

OldLaid ==
    old # None => /\ mode \in {"define", "enddef"} /\ saved # None
                  /\ LaidOut(old) /\ Extends(ncp, old)

SavedLaid == saved # None => LaidOut(saved)

NotEarlier(n, o) ==
    o # None => /\ n.begin_rec >= o.begin_rec /\ n.begin_var >= o.begin_var
                /\ n.recsize >= o.recsize /\ Len(n.vars) >= Len(o.vars)

Computed == mode = "enddef" => LaidOut(ncp) /\ NotEarlier(ncp, old)

Inside == IF mode = "enddef" THEN \A r \in Ranks : at[r] # "idle"
          ELSE at = Everywhere("idle")

Written ==
    mode = "data" \/ at[0] \in {"fill", "done"} =>
        /\ saved # None /\ saved.vars = ncp.vars /\ saved.atts = ncp.atts
        /\ LaidOut(ncp)

Kept == mode = "closed" => saved # None

MetaInv == /\ Typed /\ OldLaid /\ SavedLaid /\ Computed /\ Inside /\ Written /\ Kept

(* The file has no holes in its addresses and the blocks to move have      *)
(* cells; there is such a block while any rank reads or writes.            *)
MoveType == [to : Nat, from : Nat, n : Nat \ {0}, fixed : BOOLEAN]

Contiguous(d) == \E k \in Nat : DOMAIN d = 0 .. k - 1

IsCells(s) == \E S : s \in Seq(S)

Busy == \A r \in Ranks : at[r] \in Moving => moves # <<>>

MoveInv == /\ Contiguous(disk) /\ moves \in Seq(MoveType)
           /\ DOMAIN buf = Ranks /\ \A r \in Ranks : IsCells(buf[r])
           /\ Busy

LayoutInv == MetaInv /\ MoveInv

LEMMA ExtendsAll ==
  ASSUME NEW m \in MetaType, NEW n \in MetaType, NEW o \in MetaType
  PROVE  /\ Extends(n, n)
         /\ Extends(m, n) /\ Extends(n, o) => Extends(m, o)
  <1>1. Len(m.vars) \in Nat /\ Len(n.vars) \in Nat /\ Len(o.vars) \in Nat
    BY Kinds
  <1> QED
    BY <1>1 DEF Extends

LEMMA AlignedUnits ==
  ASSUME NEW a \in AlignType, NEW args \in ArgType, NEW n
  PROVE  Aligned(a, args, n) \in Units /\ Aligned(a, args, n) \in AlignType
  <1> DEFINE Unit(x) == IF x = 0 THEN Pad ELSE RndUp(x, Pad)
             fixsize == {i \in OfKind(n, FALSE) : VLen(n.vars[i]) > 0}
             h == IF a.h # 0 THEN a.h
                  ELSE IF args.v_align > 0 THEN args.v_align
                  ELSE IF fixsize # {} /\ args.r_align > 0 THEN args.r_align
                  ELSE DefaultAlign
             r == IF a.r # 0 THEN a.r ELSE args.r_align
             u == a.fx
  <1>1. h \in Nat /\ r \in Nat /\ u \in Nat
    BY LayoutAssumption DEF AlignType, ArgType
  <1>2. \A x \in Nat : Unit(x) \in Nat \ {0}
    <2> SUFFICES ASSUME NEW x \in Nat PROVE Unit(x) \in Nat \ {0}
      OBVIOUS
    <2>1. Pad \in Nat \ {0}
      BY LayoutAssumption
    <2>2. RndUp(x, Pad) \in Nat /\ RndUp(x, Pad) >= x
      BY <2>1, RoundUp
    <2> QED
      BY <2>1, <2>2
  <1>3. Aligned(a, args, n) = [h |-> Unit(h), fx |-> Unit(u), r |-> Unit(r)]
    BY DEF Aligned
  <1> HIDE DEF Unit, h, r, u
  <1>4. Unit(h) \in Nat \ {0} /\ Unit(u) \in Nat \ {0} /\ Unit(r) \in Nat \ {0}
    BY <1>1, <1>2
  <1> QED
    BY <1>3, <1>4 DEF Units, AlignType

LEMMA RootRank == 0 \in Ranks
  BY LayoutAssumption DEF Ranks

(* A rank that is not idle is inside enddef. *)
LEMMA InCall ==
  ASSUME MetaInv, NEW r \in Ranks, at[r] # "idle"
  PROVE  mode = "enddef"
  BY DEF MetaInv, Inside, Everywhere

LEMMA MetaInit ==
  ASSUME Init
  PROVE  MetaInv
  <1>1. ncp \in MetaType
    <2>1. <<>> \in Seq(VarType)
      OBVIOUS
    <2> QED
      BY <2>1 DEF Init, EmptyMeta, MetaType
  <1>2. old = None /\ saved = None /\ mode = "define" /\ numrecs = 0
        /\ at = Everywhere("idle") /\ align \in AlignType
    BY LayoutAssumption DEF Init, AlignType
  <1>3. at \in [Ranks -> Phases]
    BY <1>2 DEF Everywhere, Phases
  <1>4. Typed
    BY <1>1, <1>2, <1>3 DEF Typed, OldType, Modes
  <1>5. at[0] = "idle"
    BY <1>2, RootRank DEF Everywhere
  <1> QED
    BY <1>2, <1>4, <1>5 DEF MetaInv, OldLaid, SavedLaid, Computed, Inside, Written, Kept

(* A step inside enddef that only moves ranks on, and the return with an   *)
(* error.                                                                  *)
LEMMA StaysInside ==
  ASSUME MetaInv, mode = "enddef", mode' = mode,
         UNCHANGED <<ncp, old, saved, align, numrecs>>,
         at' \in [Ranks -> Phases], \A r \in Ranks : at'[r] # "idle",
         at'[0] \in {"fill", "done"} => at[0] \in {"fill", "done"}
  PROVE  MetaInv'
  <1>1. Typed'
    BY DEF MetaInv, Typed
  <1>2. OldLaid' /\ SavedLaid' /\ Computed' /\ Kept'
    BY DEF MetaInv, OldLaid, SavedLaid, Computed, Kept
  <1>3. Inside'
    BY DEF Inside
  <1>4. Written'
    BY DEF MetaInv, Written
  <1> QED
    BY <1>1, <1>2, <1>3, <1>4 DEF MetaInv

LEMMA ReturnsError ==
  ASSUME MetaInv, mode = "enddef", mode' = "define", at' = Everywhere("idle"),
         UNCHANGED <<ncp, old, saved, align, numrecs>>
  PROVE  MetaInv'
  <1>1. at' \in [Ranks -> Phases] /\ at'[0] = "idle"
    BY RootRank DEF Everywhere, Phases
  <1>2. Typed'
    BY <1>1 DEF MetaInv, Typed, Modes
  <1>3. OldLaid' /\ SavedLaid' /\ Computed' /\ Kept' /\ Inside'
    BY DEF MetaInv, OldLaid, SavedLaid, Computed, Kept, Inside
  <1>4. Written'
    BY <1>1 DEF Written
  <1> QED
    BY <1>2, <1>3, <1>4 DEF MetaInv

(* A step in define mode that adds to the metadata or changes other state. *)
LEMMA StaysDefining ==
  ASSUME MetaInv, mode = "define", mode' = mode, ncp' \in MetaType,
         Extends(ncp', ncp), UNCHANGED <<old, saved, align, numrecs, at>>
  PROVE  MetaInv'
  <1>1. Typed'
    BY DEF MetaInv, Typed
  <1>2. SavedLaid' /\ Computed' /\ Kept' /\ Inside'
    BY DEF MetaInv, SavedLaid, Computed, Kept, Inside
  <1>3. OldLaid'
    <2> SUFFICES ASSUME old # None
                 PROVE  mode = "define" /\ saved # None /\ LaidOut(old)
                        /\ Extends(ncp', old)
      BY DEF OldLaid
    <2>1. saved # None /\ LaidOut(old) /\ Extends(ncp, old)
      BY DEF MetaInv, OldLaid
    <2>2. old \in MetaType /\ ncp \in MetaType
      BY DEF MetaInv, Typed, OldType
    <2>3. Extends(ncp', old)
      BY <2>1, <2>2, ExtendsAll
    <2> QED
      BY <2>1, <2>3
  <1>4. Written'
    <2>1. at[0] = "idle"
      BY RootRank DEF MetaInv, Inside, Everywhere
    <2> QED
      BY <2>1 DEF Written
  <1> QED
    BY <1>1, <1>2, <1>3, <1>4 DEF MetaInv

(* Every step keeps the metadata part of the invariant. *)
LEMMA MetaDefVar ==
  ASSUME MetaInv, NEW rec \in BOOLEAN, NEW size \in Sizes, DefVar(rec, size)
  PROVE  MetaInv'
  <1> DEFINE v == [rec |-> rec, size |-> size, begin |-> 0]
             w == Append(ncp.vars, v)
  <1>1. mode = "define" /\ mode' = mode /\ UNCHANGED <<old, saved, align, numrecs, at>>
        /\ ncp' = [ncp EXCEPT !.vars = w]
    BY DEF DefVar
  <1>2. ncp \in MetaType
    BY DEF MetaInv, Typed
  <1>3. v \in VarType
    BY DEF VarType
  <1> HIDE DEF v
  <1>4. /\ w \in Seq(VarType) /\ Len(w) = Len(ncp.vars) + 1
        /\ \A i \in 1 .. Len(ncp.vars) : w[i] = ncp.vars[i]
    BY <1>2, <1>3, Kinds
  <1> HIDE DEF w
  <1>5. ncp' \in MetaType /\ ncp'.vars = w
    BY <1>1, <1>2, <1>4 DEF MetaType
  <1>6. Extends(ncp', ncp)
    BY <1>2, <1>4, <1>5, Kinds DEF Extends
  <1> QED
    BY <1>1, <1>5, <1>6, StaysDefining

LEMMA MetaPutAtt ==
  ASSUME MetaInv, PutAtt
  PROVE  MetaInv'
  <1>1. mode = "define" /\ mode' = mode /\ UNCHANGED <<old, saved, align, numrecs, at>>
        /\ ncp' = [ncp EXCEPT !.atts = @ + 1]
    BY DEF PutAtt
  <1>2. ncp \in MetaType
    BY DEF MetaInv, Typed
  <1>3. ncp' \in MetaType /\ ncp'.vars = ncp.vars
    BY <1>1, <1>2 DEF MetaType
  <1>4. Extends(ncp', ncp)
    BY <1>2, <1>3, Kinds DEF Extends
  <1> QED
    BY <1>1, <1>3, <1>4, StaysDefining

LEMMA MetaEndDef ==
  ASSUME MetaInv, NEW args \in EndDefArgs, EndDef(args)
  PROVE  MetaInv'
  <1> DEFINE a == Aligned(align, args, ncp)
             n == NC_begins(ncp, old, a, args)
  <1>1. /\ mode = "define" /\ mode' = "enddef" /\ align' = a /\ ncp' = n
        /\ numrecs' \in {0, numrecs} /\ UNCHANGED <<old, saved>>
        /\ at' = Finish \/ at' = Everywhere("read")
    BY DEF EndDef
  <1>2. /\ ncp \in MetaType /\ old \in OldType /\ saved \in OldType
        /\ align \in AlignType /\ numrecs \in Nat
    BY DEF MetaInv, Typed
  <1>3. args \in ArgType
    BY LayoutAssumption DEF ArgType
  <1>4. a \in Units /\ a \in AlignType
    BY <1>2, <1>3, AlignedUnits
  <1>5. Grown(ncp, old)
    BY DEF MetaInv, OldLaid, Grown
  <1> HIDE DEF a
  <1>6. n \in MetaType /\ LaidOut(n) /\ Extends(n, ncp)
    BY <1>2, <1>3, <1>4, <1>5, NcBegins
  <1>7. NotEarlier(n, old)
    <2>1. n = NC_begins(ncp, old, a, args)
      OBVIOUS
    <2> HIDE DEF n
    <2>2. old # None => /\ n.begin_rec >= old.begin_rec /\ n.begin_var >= old.begin_var
                        /\ n.recsize >= old.recsize /\ Len(n.vars) >= Len(old.vars)
      BY <2>1, <1>2, <1>3, <1>4, <1>5, NcBegins
    <2> QED
      BY <2>2 DEF NotEarlier
  <1> HIDE DEF n
  <1>8. at' \in [Ranks -> Phases] /\ \A r \in Ranks : at'[r] # "idle"
    BY <1>1 DEF Finish, Everywhere, Phases, Moving
  <1>9. at'[0] \notin {"fill", "done"}
    BY <1>1, RootRank DEF Finish, Everywhere
  <1>10. Typed'
    BY <1>1, <1>2, <1>4, <1>6, <1>8 DEF Typed, Modes
  <1>11. OldLaid'
    <2> SUFFICES ASSUME old # None
                 PROVE  saved # None /\ LaidOut(old) /\ Extends(n, old)
      BY <1>1 DEF OldLaid
    <2>1. saved # None /\ LaidOut(old) /\ Extends(ncp, old)
      BY DEF MetaInv, OldLaid
    <2>2. old \in MetaType
      BY <1>2 DEF OldType
    <2> QED
      BY <1>2, <1>6, <2>1, <2>2, ExtendsAll
  <1>12. SavedLaid' /\ Computed' /\ Inside' /\ Kept' /\ Written'
    BY <1>1, <1>6, <1>7, <1>8, <1>9
       DEF MetaInv, SavedLaid, Computed, Inside, Kept, Written
  <1> QED
    BY <1>10, <1>11, <1>12 DEF MetaInv

LEMMA MetaRead ==
  ASSUME MetaInv, NEW r \in Ranks, ReadChunk(r)
  PROVE  MetaInv'
  <1>1. at[r] = "read" /\ at' = [at EXCEPT ![r] = "readsum"]
        /\ UNCHANGED <<ncp, old, saved, mode, align, numrecs>>
    BY DEF ReadChunk
  <1>2. mode = "enddef"
    BY <1>1, InCall
  <1>3. at \in [Ranks -> Phases] /\ \A s \in Ranks : at[s] # "idle"
    BY <1>2 DEF MetaInv, Typed, Inside
  <1>4. at' \in [Ranks -> Phases] /\ \A s \in Ranks : at'[s] # "idle"
    BY <1>1, <1>3 DEF Phases, Moving
  <1>5. at'[0] \in {"fill", "done"} => at[0] \in {"fill", "done"}
    BY <1>1, <1>3, RootRank
  <1> QED
    BY <1>1, <1>2, <1>4, <1>5, StaysInside

LEMMA MetaWrite ==
  ASSUME MetaInv, NEW r \in Ranks, WriteChunk(r)
  PROVE  MetaInv'
  <1>1. at[r] = "write" /\ at' = [at EXCEPT ![r] = "writesum"]
        /\ UNCHANGED <<ncp, old, saved, mode, align, numrecs>>
    BY DEF WriteChunk
  <1>2. mode = "enddef"
    BY <1>1, InCall
  <1>3. at \in [Ranks -> Phases] /\ \A s \in Ranks : at[s] # "idle"
    BY <1>2 DEF MetaInv, Typed, Inside
  <1>4. at' \in [Ranks -> Phases] /\ \A s \in Ranks : at'[s] # "idle"
    BY <1>1, <1>3 DEF Phases, Moving
  <1>5. at'[0] \in {"fill", "done"} => at[0] \in {"fill", "done"}
    BY <1>1, <1>3, RootRank
  <1> QED
    BY <1>1, <1>2, <1>4, <1>5, StaysInside

LEMMA MetaFill ==
  ASSUME MetaInv, NEW r \in Ranks, FillVars(r)
  PROVE  MetaInv'
  <1>1. at[r] = "fill" /\ at' = [at EXCEPT ![r] = "done"]
        /\ UNCHANGED <<ncp, old, saved, mode, align, numrecs>>
    BY DEF FillVars
  <1>2. mode = "enddef"
    BY <1>1, InCall
  <1>3. at \in [Ranks -> Phases] /\ \A s \in Ranks : at[s] # "idle"
    BY <1>2 DEF MetaInv, Typed, Inside
  <1>4. at' \in [Ranks -> Phases] /\ \A s \in Ranks : at'[s] # "idle"
    BY <1>1, <1>3 DEF Phases, Moving
  <1>5. at'[0] \in {"fill", "done"} => at[0] \in {"fill", "done"}
    BY <1>1, <1>3, RootRank
  <1> QED
    BY <1>1, <1>2, <1>4, <1>5, StaysInside

LEMMA MetaReadsDone ==
  ASSUME MetaInv, ReadsDone
  PROVE  MetaInv'
  <1>1. at[0] = "readsum" /\ UNCHANGED <<ncp, old, saved, align, numrecs>>
    BY RootRank DEF ReadsDone, Everywhere
  <1>2. mode = "enddef"
    BY <1>1, RootRank, InCall
  <1>3. ASSUME mode' = mode, at' = Everywhere("write") \/ at' = Everywhere("read")
        PROVE  MetaInv'
    <2>1. at' \in [Ranks -> Phases] /\ \A s \in Ranks : at'[s] # "idle"
      BY <1>3 DEF Everywhere, Phases, Moving
    <2>2. at'[0] \notin {"fill", "done"}
      BY <1>3, RootRank DEF Everywhere
    <2> QED
      BY <1>1, <1>2, <1>3, <2>1, <2>2, StaysInside
  <1>4. CASE at' = Everywhere("write") /\ UNCHANGED <<mode, moves, failed, buf>>
    BY <1>3, <1>4
  <1>5. CASE GiveUp
    <2>1. \/ mode' = "define" /\ at' = Everywhere("idle")
          \/ mode' = mode /\ at' = Everywhere("read")
      BY <1>5, Zenon DEF GiveUp
    <2> QED
      BY <1>1, <1>2, <1>3, <2>1, ReturnsError
  <1> QED
    BY <1>4, <1>5 DEF ReadsDone

LEMMA MetaWritesDone ==
  ASSUME MetaInv, WritesDone
  PROVE  MetaInv'
  <1>1. at[0] = "writesum" /\ UNCHANGED <<ncp, old, saved, align, numrecs>>
    BY RootRank DEF WritesDone, Everywhere
  <1>2. mode = "enddef"
    BY <1>1, RootRank, InCall
  <1>3. \/ mode' = "define" /\ at' = Everywhere("idle")
        \/ mode' = mode /\ (at' = Everywhere("read") \/ at' = Finish)
    BY DEF WritesDone
  <1>4. ASSUME mode' = mode, at' = Everywhere("read") \/ at' = Finish
        PROVE  MetaInv'
    <2>1. at' \in [Ranks -> Phases] /\ \A s \in Ranks : at'[s] # "idle"
      BY <1>4 DEF Everywhere, Finish, Phases, Moving
    <2>2. at'[0] \notin {"fill", "done"}
      BY <1>4, RootRank DEF Everywhere, Finish
    <2> QED
      BY <1>1, <1>2, <1>4, <2>1, <2>2, StaysInside
  <1> QED
    BY <1>1, <1>2, <1>3, <1>4, ReturnsError

LEMMA MetaWriteHeader ==
  ASSUME MetaInv, WriteHeader
  PROVE  MetaInv'
  <1>1. /\ at[0] = "header" /\ at' = [at EXCEPT ![0] = "fill"] /\ saved' = ncp
        /\ UNCHANGED <<ncp, old, mode, align, numrecs>>
    BY DEF WriteHeader
  <1>2. mode = "enddef"
    BY <1>1, RootRank, InCall
  <1>3. /\ at \in [Ranks -> Phases] /\ \A s \in Ranks : at[s] # "idle"
        /\ ncp \in MetaType /\ LaidOut(ncp)
    BY <1>2 DEF MetaInv, Typed, Inside, Computed
  <1>4. ncp # None
    BY <1>3, NotNone
  <1>5. at' \in [Ranks -> Phases] /\ \A s \in Ranks : at'[s] # "idle"
    BY <1>1, <1>3 DEF Phases
  <1>6. Typed'
    BY <1>1, <1>3, <1>5 DEF MetaInv, Typed, OldType
  <1>7. OldLaid' /\ SavedLaid' /\ Computed' /\ Inside' /\ Kept'
    BY <1>1, <1>2, <1>3, <1>4, <1>5
       DEF MetaInv, OldLaid, SavedLaid, Computed, Inside, Kept
  <1>8. Written'
    BY <1>1, <1>3, <1>4 DEF Written
  <1> QED
    BY <1>6, <1>7, <1>8 DEF MetaInv

LEMMA MetaLeave ==
  ASSUME MetaInv, Leave
  PROVE  MetaInv'
  <1>1. /\ at[0] = "done" /\ old' = None /\ mode' = "data" /\ at' = Everywhere("idle")
        /\ UNCHANGED <<ncp, saved, align, numrecs>>
    BY RootRank DEF Leave, Everywhere
  <1>2. at' \in [Ranks -> Phases] /\ at'[0] = "idle"
    BY <1>1, RootRank DEF Everywhere, Phases
  <1>3. Typed'
    BY <1>1, <1>2 DEF MetaInv, Typed, OldType, Modes
  <1>4. OldLaid' /\ SavedLaid' /\ Computed' /\ Inside' /\ Kept'
    BY <1>1 DEF MetaInv, OldLaid, SavedLaid, Computed, Inside, Kept
  <1>5. Written'
    BY <1>1 DEF MetaInv, Written
  <1> QED
    BY <1>3, <1>4, <1>5 DEF MetaInv

LEMMA MetaPut ==
  ASSUME MetaInv, NEW v, NEW recs \in Nat, Put(v, recs)
  PROVE  MetaInv'
  <1>1. /\ mode = "data" /\ mode' = mode /\ UNCHANGED <<ncp, old, saved, align, at>>
        /\ numrecs' = IF ncp.vars[v].rec THEN Larger(numrecs, recs) ELSE numrecs
    BY DEF Put
  <1>2. numrecs' \in Nat
    BY <1>1, LargerOf DEF MetaInv, Typed
  <1>3. Typed'
    BY <1>1, <1>2 DEF MetaInv, Typed
  <1>4. OldLaid' /\ SavedLaid' /\ Computed' /\ Inside' /\ Kept' /\ Written'
    BY <1>1 DEF MetaInv, OldLaid, SavedLaid, Computed, Inside, Kept, Written
  <1> QED
    BY <1>3, <1>4 DEF MetaInv

LEMMA MetaModes ==
  ASSUME MetaInv, Redef \/ Close \/ Abort
  PROVE  MetaInv'
  <1>1. UNCHANGED <<saved, align, numrecs, at>> /\ mode \in {"data", "define"}
    BY DEF Redef, Close, Abort
  <1>2. at = Everywhere("idle") /\ at[0] = "idle"
    BY <1>1, RootRank DEF MetaInv, Inside, Everywhere
  <1>3. CASE Redef
    <2>1. /\ mode = "data" /\ old' = ncp /\ mode' = "define" /\ ncp' = ncp
          /\ saved # None /\ LaidOut(ncp) /\ ncp \in MetaType
      BY <1>3 DEF Redef, MetaInv, Written, Typed
    <2>2. Typed'
      BY <1>1, <2>1 DEF MetaInv, Typed, OldType, Modes
    <2>3. OldLaid'
      BY <1>1, <2>1, ExtendsAll DEF OldLaid
    <2>4. SavedLaid' /\ Computed' /\ Inside' /\ Kept' /\ Written'
      BY <1>1, <1>2, <2>1 DEF MetaInv, SavedLaid, Computed, Inside, Kept, Written
    <2> QED
      BY <2>2, <2>3, <2>4 DEF MetaInv
  <1>4. CASE Close
    <2>1. mode = "data" /\ mode' = "closed" /\ UNCHANGED <<old, ncp>> /\ saved # None
      BY <1>4 DEF Close, MetaInv, Written
    <2>2. Typed'
      BY <1>1, <2>1 DEF MetaInv, Typed, Modes
    <2>3. OldLaid' /\ SavedLaid' /\ Computed' /\ Inside' /\ Kept' /\ Written'
      BY <1>1, <1>2, <2>1 DEF MetaInv, OldLaid, SavedLaid, Computed, Inside, Kept, Written
    <2> QED
      BY <2>2, <2>3 DEF MetaInv
  <1>5. CASE Abort
    <2>1. /\ mode = "define" /\ old' = None /\ ncp' \in {ncp, EmptyMeta}
          /\ IF old = None THEN mode' = "deleted" ELSE mode' = "closed"
      BY <1>5 DEF Abort
    <2>2. ncp' \in MetaType
      <3>1. <<>> \in Seq(VarType)
        OBVIOUS
      <3>2. EmptyMeta \in MetaType
        BY <3>1 DEF EmptyMeta, MetaType
      <3> QED
        BY <2>1, <3>2 DEF MetaInv, Typed
    <2>3. Typed'
      BY <1>1, <2>1, <2>2 DEF MetaInv, Typed, OldType, Modes
    <2>4. OldLaid' /\ SavedLaid' /\ Computed' /\ Inside' /\ Kept' /\ Written'
      BY <1>1, <1>2, <2>1 DEF MetaInv, OldLaid, SavedLaid, Computed, Inside, Kept, Written
    <2> QED
      BY <2>3, <2>4 DEF MetaInv
  <1> QED
    BY <1>3, <1>4, <1>5

LEMMA MetaOpen ==
  ASSUME MetaInv, NEW a \in Hints, Open(a)
  PROVE  MetaInv'
  <1>1. /\ mode = "closed" /\ ncp' = OpenShape(saved) /\ align' = a /\ mode' = "data"
        /\ UNCHANGED <<old, numrecs, saved, at>>
    BY DEF Open
  <1>2. saved # None /\ LaidOut(saved) /\ saved \in MetaType
    BY <1>1 DEF MetaInv, Kept, SavedLaid, Typed, OldType
  <1> DEFINE s == OpenShape(saved)
  <1>3. s \in MetaType /\ LaidOut(s) /\ s.vars = saved.vars /\ s.atts = saved.atts
    BY <1>2, Opened
  <1> HIDE DEF s
  <1>4. ncp' = s
    BY <1>1 DEF s
  <1>5. align' \in AlignType
    BY <1>1, LayoutAssumption DEF AlignType
  <1>6. Typed'
    BY <1>1, <1>3, <1>4, <1>5 DEF MetaInv, Typed, Modes
  <1>7. OldLaid' /\ SavedLaid' /\ Computed' /\ Inside' /\ Kept' /\ Written'
    BY <1>1, <1>2, <1>3, <1>4
       DEF MetaInv, OldLaid, SavedLaid, Computed, Inside, Kept, Written
  <1> QED
    BY <1>6, <1>7 DEF MetaInv

LEMMA MetaCreate ==
  ASSUME MetaInv, NEW a \in Hints, Create(a)
  PROVE  MetaInv'
  <1>1. /\ mode = "deleted" /\ align' = a /\ mode' = "define"
        /\ UNCHANGED <<ncp, old, numrecs, saved, at>>
    BY DEF Create
  <1>2. align' \in AlignType
    BY <1>1, LayoutAssumption DEF AlignType
  <1>3. at = Everywhere("idle") /\ at[0] = "idle"
    BY <1>1, RootRank DEF MetaInv, Inside, Everywhere
  <1>4. Typed'
    BY <1>1, <1>2 DEF MetaInv, Typed, Modes
  <1>5. OldLaid' /\ SavedLaid' /\ Computed' /\ Inside' /\ Kept' /\ Written'
    BY <1>1, <1>3 DEF MetaInv, OldLaid, SavedLaid, Computed, Inside, Kept, Written
  <1> QED
    BY <1>4, <1>5 DEF MetaInv

LEMMA MetaNext ==
  ASSUME MetaInv, [Next]_vars
  PROVE  MetaInv'
  <1>1. ASSUME SetFill \/ UNCHANGED vars PROVE MetaInv'
    <2>1. UNCHANGED <<ncp, old, align, numrecs, saved, mode, at>>
      BY <1>1 DEF SetFill, vars
    <2> QED
      BY <2>1 DEF MetaInv, Typed, OldLaid, SavedLaid, Computed, Inside, Kept, Written
  <1>2. ASSUME NEW v \in DOMAIN ncp.vars,
               NEW recs \in IF ncp.vars[v].rec THEN 1 .. MaxRecs ELSE {1}, Put(v, recs)
        PROVE  MetaInv'
    <2>1. recs \in Nat
      BY LayoutAssumption
    <2> QED
      BY <1>2, <2>1, MetaPut
  <1> QED
    BY <1>1, <1>2, MetaDefVar, MetaPutAtt, MetaEndDef, MetaRead, MetaWrite, MetaFill,
       MetaReadsDone, MetaWritesDone, MetaWriteHeader, MetaLeave, MetaModes, MetaOpen,
       MetaCreate DEF Next

-----------------------------------------------------------------------------
(* The cells of the file. *)

LEMMA SizeOfFile ==
  ASSUME NEW d, NEW k \in Nat, DOMAIN d = 0 .. k - 1
  PROVE  FileSize(d) = k
  <1>1. Cardinality(0 .. k - 1) = IF 0 > k - 1 THEN 0 ELSE k - 1 - 0 + 1
    BY FS_Interval
  <1> QED
    BY <1>1 DEF FileSize

LEMMA ReadIsCells ==
  ASSUME NEW d, Contiguous(d), NEW off \in Nat, NEW n \in Nat
  PROVE  IsCells(ReadCells(d, off, n))
  <1> DEFINE got == IF off >= FileSize(d) THEN 0
                    ELSE IF off + n <= FileSize(d) THEN n ELSE FileSize(d) - off
             s == [k \in 1 .. got |-> d[off + k - 1]]
             S == {d[off + k - 1] : k \in 1 .. got}
  <1>1. FileSize(d) \in Nat
    BY SizeOfFile DEF Contiguous
  <1>2. got \in Nat
    BY <1>1
  <1>3. s = ReadCells(d, off, n)
    BY DEF ReadCells
  <1> HIDE DEF got
  <1>4. s \in [1 .. got -> S]
    OBVIOUS
  <1> HIDE DEF s, S
  <1>5. s \in Seq(S)
    BY <1>2, <1>4
  <1> QED
    BY <1>3, <1>5 DEF IsCells

LEMMA WriteIsContiguous ==
  ASSUME NEW d, Contiguous(d), NEW f, DOMAIN f \subseteq Nat, NEW b \in Nat,
         \A c \in DOMAIN f : c <= b
  PROVE  Contiguous(WriteCells(d, f))
  <1> DEFINE D == DOMAIN f
             top == CHOOSE m \in D : \A c \in D : c <= m
             end == IF D = {} THEN 0 ELSE 1 + top
             size == Larger(FileSize(d), end)
  <1>1. FileSize(d) \in Nat
    BY SizeOfFile DEF Contiguous
  <1>2. end \in Nat
    <2>1. ASSUME D # {} PROVE top \in D
      <3>1. \E m \in D : \A c \in D : c <= m
        <4> HIDE DEF D
        <4>1. D \subseteq Nat /\ \A c \in D : c <= b
          BY DEF D
        <4> QED
          BY <2>1, <4>1, LargestNat
      <3> HIDE DEF D
      <3> QED
        BY <3>1
    <2>2. D \subseteq Nat
      OBVIOUS
    <2> HIDE DEF top, D
    <2>3. CASE D = {}
      BY <2>3
    <2>4. CASE D # {}
      <3>1. top \in Nat
        BY <2>1, <2>2, <2>4
      <3>2. end = 1 + top
        BY <2>4
      <3> HIDE DEF end
      <3> QED
        BY <3>1, <3>2
    <2> QED
      BY <2>3, <2>4
  <1>3. size \in Nat
    <2> HIDE DEF end
    <2> QED
      BY <1>1, <1>2, LargerOf
  <1>4. DOMAIN WriteCells(d, f) = 0 .. size - 1
    BY DEF WriteCells
  <1> HIDE DEF size
  <1> QED
    BY <1>3, <1>4 DEF Contiguous

(* An element's cell is behind the header, and in front of the end of the  *)
(* last record.                                                            *)
LEMMA TimesLess ==
  ASSUME NEW a \in Nat, NEW b \in Nat, a < b, NEW k \in Nat
  PROVE  a * k \in Nat /\ b * k \in Nat /\ a * k + k <= b * k
  <1> DEFINE c == b - (a + 1)
  <1>1. c \in Nat /\ b = a + 1 + c
    OBVIOUS
  <1> HIDE DEF c
  <1>2. b * k = a * k + k + c * k /\ c * k \in Nat /\ a * k \in Nat /\ b * k \in Nat
    BY <1>1
  <1> QED
    BY <1>2

LEMMA ElementParts ==
  ASSUME NEW n \in MetaType, NEW S, S \subseteq DOMAIN n.vars, NEW recs \in Nat,
         NEW e \in Elements(n, S, recs)
  PROVE  /\ e = <<e[1], e[2], e[3]>> /\ e[1] \in 1 .. Len(n.vars)
         /\ e[2] \in Nat /\ e[3] \in Nat /\ e[3] < n.vars[e[1]].size
         /\ IF n.vars[e[1]].rec THEN e[2] < recs ELSE e[2] = 0
  <1>1. PICK i \in S : e \in {i} \X (0 .. (IF n.vars[i].rec THEN recs ELSE 1) - 1)
                                 \X (0 .. n.vars[i].size - 1)
    BY DEF Elements
  <1>2. i \in 1 .. Len(n.vars) /\ n.vars[i].rec \in BOOLEAN /\ n.vars[i].size \in Nat
    BY <1>1, Kinds, Lengths
  <1>3. e = <<e[1], e[2], e[3]>> /\ e[1] = i
        /\ e[2] \in 0 .. (IF n.vars[i].rec THEN recs ELSE 1) - 1
        /\ e[3] \in 0 .. n.vars[i].size - 1
    BY <1>1
  <1> QED
    BY <1>2, <1>3

LEMMA OffsetFixed ==
  ASSUME NEW n \in MetaType, LaidOut(n), NEW e, e[1] \in 1 .. Len(n.vars),
         e[3] \in Nat, e[3] < n.vars[e[1]].size, ~n.vars[e[1]].rec
  PROVE  /\ Offset(n, e) = n.vars[e[1]].begin + e[3] /\ Offset(n, e) \in Nat
         /\ Offset(n, e) < n.vars[e[1]].begin + VLen(n.vars[e[1]])
         /\ Offset(n, e) >= n.begin_var /\ Offset(n, e) < n.begin_rec
  <1> DEFINE v == n.vars[e[1]]
  <1>1. /\ v.begin \in Nat /\ v.size \in Nat /\ VLen(v) \in Nat /\ VLen(v) >= v.size
        /\ n.begin_var \in Nat /\ n.begin_rec \in Nat
    BY Kinds, Lengths
  <1>2. Offset(n, e) = v.begin + e[3] + 0
    BY DEF Offset
  <1>3. v.begin >= n.begin_var /\ v.begin + VLen(v) <= n.begin_rec
    BY DEF LaidOut, FixedLaid
  <1>4. e[3] \in Nat /\ e[3] < v.size
    OBVIOUS
  <1> DEFINE b == v.begin
             c == e[3]
             s == v.size
             l == VLen(v)
             o == Offset(n, e)
  <1>5. /\ b \in Nat /\ s \in Nat /\ l \in Nat /\ l >= s /\ o = b + c + 0
        /\ b >= n.begin_var /\ b + l <= n.begin_rec /\ c \in Nat /\ c < s
        /\ n.begin_var \in Nat /\ n.begin_rec \in Nat
    BY <1>1, <1>2, <1>3, <1>4
  <1> HIDE DEF v, b, c, s, l, o
  <1>6. o = b + c /\ o \in Nat /\ o < b + l /\ o >= n.begin_var /\ o < n.begin_rec
    BY <1>5
  <1> QED
    BY <1>6 DEF v, b, c, l, o

(* The cell of a record variable's element, counted within its record. *)
InRecord(n, e) == RecLens(n)[e[1] - 1] + e[3]

LEMMA OffsetRecord ==
  ASSUME NEW n \in MetaType, LaidOut(n), NEW e, e[1] \in 1 .. Len(n.vars),
         e[2] \in Nat, e[3] \in Nat, e[3] < n.vars[e[1]].size, n.vars[e[1]].rec
  PROVE  /\ InRecord(n, e) \in Nat /\ InRecord(n, e) < n.recsize
         /\ Offset(n, e) = n.begin_rec + InRecord(n, e) + e[2] * n.recsize
         /\ Offset(n, e) \in Nat /\ Offset(n, e) >= n.begin_rec
         /\ Offset(n, e) < n.begin_rec + (e[2] + 1) * n.recsize
  <1> DEFINE v == n.vars[e[1]]
             x == RecLens(n)[e[1] - 1]
             k == n.recsize
             q == e[2] * k
  <1>1. /\ v.begin \in Nat /\ v.size \in Nat /\ n.begin_rec \in Nat /\ k \in Nat
    BY Kinds, Lengths
  <1>2. Offset(n, e) = v.begin + e[3] + q
    BY DEF Offset
  <1>3. v.begin = n.begin_rec + x /\ k = RecSize(n)
    BY DEF LaidOut, RecordsLaid
  <1>4. x + v.size <= RecSize(n)
    BY SizeFits
  <1>5. x \in Nat
    <2>1. e[1] - 1 \in 0 .. Len(n.vars)
      BY Kinds
    <2> QED
      BY <2>1, LensLoop
  <1>6. q \in Nat /\ (e[2] + 1) * k = q + k
    <2> HIDE DEF k
    <2> QED
      BY <1>1
  <1>7. e[3] \in Nat /\ e[3] < v.size
    OBVIOUS
  <1>8. InRecord(n, e) = x + e[3]
    BY DEF InRecord
  <1> DEFINE b == n.begin_rec
             c == e[3]
             s == v.size
             y == InRecord(n, e)
             o == Offset(n, e)
             w == (e[2] + 1) * k
  <1>9. /\ b \in Nat /\ s \in Nat /\ k \in Nat /\ o = b + x + c + q /\ x + s <= k
        /\ x \in Nat /\ q \in Nat /\ w = q + k /\ c \in Nat /\ c < s /\ y = x + c
    BY <1>1, <1>2, <1>3, <1>4, <1>5, <1>6, <1>7, <1>8
  <1> HIDE DEF v, x, q, k, b, c, s, y, o, w
  <1>10. y \in Nat /\ y < k /\ o = b + y + q /\ o \in Nat /\ o >= b /\ o < b + w
    BY <1>9
  <1> QED
    BY <1>10 DEF k, q, b, y, o, w

LEMMA OffsetBound ==
  ASSUME NEW n \in MetaType, LaidOut(n), NEW S, S \subseteq DOMAIN n.vars,
         NEW recs \in Nat, NEW e \in Elements(n, S, recs)
  PROVE  /\ Offset(n, e) \in Nat /\ Offset(n, e) <= n.begin_rec + recs * n.recsize
         /\ n.begin_rec + recs * n.recsize \in Nat
  <1> DEFINE k == n.recsize
             q == recs * k
             o == Offset(n, e)
  <1>1. /\ e[1] \in 1 .. Len(n.vars)
        /\ e[2] \in Nat /\ e[3] \in Nat /\ e[3] < n.vars[e[1]].size
        /\ IF n.vars[e[1]].rec THEN e[2] < recs ELSE e[2] = 0
    BY ElementParts
  <1>2. k \in Nat /\ n.begin_rec \in Nat
    BY Kinds
  <1>3. q \in Nat
    <2> HIDE DEF k
    <2> QED
      BY <1>2
  <1>4. CASE n.vars[e[1]].rec
    <2>1. o \in Nat /\ o < n.begin_rec + (e[2] + 1) * k
      BY <1>1, <1>4, OffsetRecord
    <2>2. (e[2] + 1) * k <= q /\ (e[2] + 1) * k \in Nat
      <3>1. e[2] \in Nat /\ e[2] < recs
        BY <1>1, <1>4
      <3> HIDE DEF k
      <3>2. e[2] * k \in Nat /\ e[2] * k + k <= recs * k
        BY <1>2, <3>1, TimesLess
      <3>3. (e[2] + 1) * k = e[2] * k + k
        BY <1>2, <3>1
      <3> QED
        BY <1>2, <3>2, <3>3
    <2> DEFINE z == (e[2] + 1) * k
    <2>3. o < n.begin_rec + z /\ z <= q /\ z \in Nat /\ o \in Nat
      BY <2>1, <2>2
    <2> HIDE DEF z, q, o
    <2>4. o <= n.begin_rec + q /\ n.begin_rec + q \in Nat
      BY <2>3, <1>2, <1>3
    <2> QED
      BY <2>3, <2>4 DEF q, o
  <1>5. CASE ~n.vars[e[1]].rec
    <2>1. o \in Nat /\ o < n.begin_rec
      BY <1>1, <1>5, OffsetFixed
    <2> HIDE DEF q, o
    <2>2. o <= n.begin_rec + q /\ n.begin_rec + q \in Nat
      BY <2>1, <1>2, <1>3
    <2> QED
      BY <2>1, <2>2 DEF q, o
  <1> QED
    BY <1>4, <1>5

-----------------------------------------------------------------------------
(* The blocks to move. *)

(* A variable that move_fixed_vars leaves where it is, and the block of one *)
(* it moves.                                                                *)
StaysPut(n, o, i) == o.vars[i].rec \/ n.vars[i].begin <= o.vars[i].begin

BlockOf(n, o, i) == Move(n.vars[i].begin, o.vars[i].begin, VLen(n.vars[i]), TRUE)

LEMMA FixedMovesLoop ==
  ASSUME NEW n \in MetaType, NEW o \in MetaType, Len(n.vars) >= Len(o.vars)
  PROVE  \E s : /\ FixedMoves(n, o) = s[Len(o.vars)] /\ s[0] = <<>>
                /\ \A i \in 0 .. Len(o.vars) : s[i] \in Seq(MoveType)
                /\ \A i \in 1 .. Len(o.vars) :
                      s[i] = IF StaysPut(n, o, i) THEN s[i - 1]
                             ELSE <<BlockOf(n, o, i)>> \o s[i - 1]
  <1> DEFINE k == Len(o.vars)
             Stays(i) == o.vars[i].rec \/ n.vars[i].begin <= o.vars[i].begin
             M(i) == Move(n.vars[i].begin, o.vars[i].begin, VLen(n.vars[i]), TRUE)
             G == [i \in 1 .. k |-> [s \in Seq(MoveType) |->
                      IF Stays(i) THEN s ELSE <<M(i)>> \o s]]
             Loop(t) == [i \in 0 .. k |->
                           IF i = 0 THEN <<>>
                           ELSE IF Stays(i) THEN t[i - 1] ELSE <<M(i)>> \o t[i - 1]]
             T == CHOOSE t : t = Loop(t)
  <1>1. k \in Nat /\ \A i \in 1 .. k : M(i) \in MoveType
    <2>1. k \in Nat
      BY Kinds
    <2>2. ASSUME NEW i \in 1 .. k PROVE M(i) \in MoveType
      <3>1. i \in 1 .. Len(n.vars)
        BY Kinds
      <3>2. /\ n.vars[i].begin \in Nat /\ o.vars[i].begin \in Nat
            /\ VLen(n.vars[i]) \in Nat \ {0}
        BY <3>1, Kinds, Lengths
      <3> QED
        BY <3>2 DEF Move, MoveType
    <2> QED
      BY <2>1, <2>2
  <1>2. FixedMoves(n, o) = T[k]
    BY DEF FixedMoves
  <1> HIDE DEF k, Stays, M
  <1>3. G \in [1 .. k -> [Seq(MoveType) -> Seq(MoveType)]]
    BY <1>1
  <1>4. \E t \in [0 .. k -> Seq(MoveType)] : t = Loop(t)
    <2> HIDE DEF G
    <2>1. PICK t \in [0 .. k -> Seq(MoveType)] :
            /\ t[0] = <<>>
            /\ \A i \in 1 .. k : t[i] = G[i][t[i - 1]]
      <3> DEFINE S == Seq(MoveType)
                 a == <<>>
      <3>1. k \in Nat /\ a \in S /\ G \in [1 .. k -> [S -> S]]
        BY <1>1, <1>3
      <3> HIDE LayoutAssumption DEF Loop, T, S, a
      <3>2. \E t \in [0 .. k -> S] : t[0] = a /\ \A i \in 1 .. k : t[i] = G[i][t[i - 1]]
        BY <3>1, Iterate
      <3> QED
        BY <3>2 DEF S, a
    <2>2. ASSUME NEW i \in 0 .. k, i # 0
          PROVE  G[i][t[i - 1]] = IF Stays(i) THEN t[i - 1] ELSE <<M(i)>> \o t[i - 1]
      <3>1. i \in 1 .. k /\ t[i - 1] \in Seq(MoveType)
        BY <1>1, <2>2
      <3> QED
        BY <3>1 DEF G
    <2>3. \A i \in 0 .. k : t[i] = IF i = 0 THEN <<>>
                                   ELSE IF Stays(i) THEN t[i - 1] ELSE <<M(i)>> \o t[i - 1]
      <3>1. \A i \in 0 .. k : i = 0 \/ i \in 1 .. k
        BY <1>1
      <3> QED
        BY <2>1, <2>2, <3>1
    <2>4. t = Loop(t)
      BY <2>3
    <2> QED
      BY <2>4
  <1>5. T = Loop(T)
    <2> HIDE DEF Loop
    <2> QED
      BY <1>4, Zenon
  <1>6. /\ T[0] = <<>>
        /\ \A i \in 1 .. k : T[i] = IF Stays(i) THEN T[i - 1] ELSE <<M(i)>> \o T[i - 1]
    <2> HIDE DEF T
    <2>1. \A i \in 0 .. k : T[i] = IF i = 0 THEN <<>>
                                   ELSE IF Stays(i) THEN T[i - 1] ELSE <<M(i)>> \o T[i - 1]
      BY <1>5, Zenon
    <2>2. 0 \in 0 .. k /\ \A i \in 1 .. k : i \in 0 .. k /\ i # 0
      BY <1>1
    <2> QED
      BY <2>1, <2>2
  <1>7. \A i \in 0 .. k : T[i] \in Seq(MoveType)
    <2> HIDE DEF T
    <2> DEFINE S == Seq(MoveType)
               P == {i \in 0 .. k : T[i] \in S}
               Longer(i, s) == <<M(i)>> \o s
    <2>4. <<>> \in S /\ \A i \in 1 .. k : \A s \in S : Longer(i, s) \in S
      BY <1>1
    <2>5. /\ T[0] = <<>>
          /\ \A i \in 1 .. k : T[i] = IF Stays(i) THEN T[i - 1] ELSE Longer(i, T[i - 1])
      BY <1>6, Zenon
    <2> HIDE DEF S, Longer
    <2>1. 0 \in P
      BY <1>1, <2>4, <2>5
    <2>2. \A i \in 1 .. k : i - 1 \in P => i \in P
      BY <1>1, <2>4, <2>5
    <2>3. \A i \in 0 .. k : i \in P
      <3> HIDE DEF P
      <3> QED
        BY <1>1, <2>1, <2>2, LoopInduction
    <2> QED
      BY <2>3 DEF S
  <1>8. \A i \in 1 .. k : Stays(i) = StaysPut(n, o, i) /\ M(i) = BlockOf(n, o, i)
    BY DEF Stays, M, StaysPut, BlockOf
  <1> HIDE DEF T
  <1>9. \A i \in 1 .. k : T[i] = IF StaysPut(n, o, i) THEN T[i - 1]
                                 ELSE <<BlockOf(n, o, i)>> \o T[i - 1]
    BY <1>6, <1>8, Zenon
  <1> QED
    BY <1>2, <1>6, <1>7, <1>9, Zenon DEF k

LEMMA FixedMovesType ==
  ASSUME NEW n \in MetaType, NEW o \in MetaType, Len(n.vars) >= Len(o.vars)
  PROVE  FixedMoves(n, o) \in Seq(MoveType)
  <1>1. Len(o.vars) \in 0 .. Len(o.vars)
    BY Kinds
  <1> QED
    BY <1>1, FixedMovesLoop

LEMMA RecordMovesType ==
  ASSUME NEW n \in MetaType, NEW o \in MetaType, NEW recs \in Nat
  PROVE  RecordMoves(n, o, recs) \in Seq(MoveType)
  <1> DEFINE a == n.begin_rec
             b == o.begin_rec
             x == n.recsize
             y == o.recsize
             k == IF y = 0 THEN 0 ELSE recs
             all == <<Move(a, b, x * recs, FALSE)>>
             M(i) == Move(a + (recs - i) * x, b + (recs - i) * y, y, FALSE)
             each == [i \in 1 .. k |-> M(i)]
  <1>1. a \in Nat /\ b \in Nat /\ x \in Nat /\ y \in Nat
    BY Kinds
  <1>2. RecordMoves(n, o, recs) =
          IF x = y THEN IF x * recs = 0 THEN <<>> ELSE all ELSE each
    BY DEF RecordMoves
  <1> HIDE DEF a, b, x, y
  <1>3. ASSUME x * recs # 0 PROVE all \in Seq(MoveType)
    <2>1. x * recs \in Nat \ {0}
      BY <1>1, <1>3
    <2> DEFINE c == x * recs
    <2>2. c \in Nat \ {0}
      BY <2>1
    <2> HIDE DEF c
    <2>3. Move(a, b, c, FALSE) \in MoveType
      BY <1>1, <2>2 DEF Move, MoveType
    <2> DEFINE m == Move(a, b, c, FALSE)
    <2>4. all = <<m>> /\ m \in MoveType
      BY <2>3 DEF c
    <2> HIDE DEF m, all
    <2> QED
      BY <2>4
  <1>4. each \in Seq(MoveType)
    <2>1. k \in Nat
      BY <1>1
    <2>2. ASSUME NEW i \in 1 .. k PROVE M(i) \in MoveType
      <3> DEFINE q == (recs - i) * x
                 w == (recs - i) * y
      <3>1. y \in Nat \ {0} /\ recs - i \in Nat
        BY <1>1, <2>2
      <3>2. q \in Nat /\ w \in Nat
        BY <1>1, <3>1
      <3>3. M(i) = Move(a + q, b + w, y, FALSE)
        OBVIOUS
      <3> HIDE DEF q, w, M
      <3>4. a + q \in Nat /\ b + w \in Nat
        BY <1>1, <3>2
      <3> QED
        BY <3>1, <3>3, <3>4 DEF Move, MoveType
    <2> HIDE DEF M, k
    <2> QED
      BY <2>1, <2>2
  <1>5. <<>> \in Seq(MoveType)
    OBVIOUS
  <1> HIDE DEF all, each
  <1> QED
    BY <1>2, <1>3, <1>4, <1>5

LEMMA MovesType ==
  ASSUME NEW n \in MetaType, NEW o \in OldType, o # None => Len(n.vars) >= Len(o.vars),
         NEW recs \in Nat
  PROVE  Moves(n, o, recs) \in Seq(MoveType)
  <1>1. <<>> \in Seq(MoveType)
    OBVIOUS
  <1>2. CASE o # None
    <2>1. o \in MetaType
      BY <1>2 DEF OldType
    <2>2. FixedMoves(n, o) \in Seq(MoveType)
      BY <1>2, <2>1, FixedMovesType
    <2>3. RecordMoves(n, o, recs) \in Seq(MoveType)
      BY <2>1, RecordMovesType
    <2>4. RecordMoves(n, o, recs) \o FixedMoves(n, o) \in Seq(MoveType)
      BY <2>2, <2>3
    <2> QED
      BY <1>1, <1>2, <2>3, <2>4 DEF Moves
  <1>3. CASE o = None
    BY <1>1, <1>3 DEF Moves
  <1> QED
    BY <1>2, <1>3

LEMMA RoundTypes ==
  ASSUME NEW m \in MoveType, NEW r \in Ranks
  PROVE  /\ Base(m) \in Nat /\ Count(m, r) \in Nat /\ r * Chunk \in Nat
         /\ m.from + Base(m) + r * Chunk \in Nat /\ m.to + Base(m) + r * Chunk \in Nat
  <1> DEFINE g == NProcs * Chunk
             c == r * Chunk
             b == Base(m)
             x == m.n
  <1>1. /\ NProcs \in Nat \ {0} /\ Chunk \in Nat \ {0} /\ r \in Nat
        /\ x \in Nat \ {0} /\ m.from \in Nat /\ m.to \in Nat
    BY LayoutAssumption DEF Ranks, MoveType
  <1>2. g \in Nat /\ c \in Nat
    BY <1>1
  <1>3. b = IF x < g THEN 0 ELSE x - g
    BY DEF Base, LastRound
  <1>4. x % Chunk \in Nat
    <2> HIDE DEF x
    <2> QED
      BY <1>1
  <1>5. Count(m, r) \in Nat
    BY <1>1, <1>4 DEF Count
  <1> HIDE DEF g, c, b, x
  <1>6. b \in Nat
    BY <1>1, <1>2, <1>3
  <1>7. m.from + b + c \in Nat /\ m.to + b + c \in Nat
    BY <1>1, <1>2, <1>6
  <1> QED
    BY <1>2, <1>5, <1>6, <1>7 DEF b, c

LEMMA AfterRoundType ==
  ASSUME NEW ms \in Seq(MoveType), ms # <<>>
  PROVE  AfterRound(ms) \in Seq(MoveType)
  <1> DEFINE m == Head(ms)
             b == Base(m)
             left == [m EXCEPT !.n = b]
  <1>1. m \in MoveType /\ Tail(ms) \in Seq(MoveType)
    OBVIOUS
  <1>2. b \in Nat
    BY <1>1, RootRank, RoundTypes
  <1>3. AfterRound(ms) = IF b = 0 THEN Tail(ms) ELSE <<left>> \o Tail(ms)
    BY DEF AfterRound
  <1> HIDE DEF m, b
  <1>4. b # 0 => left \in MoveType
    BY <1>1, <1>2 DEF MoveType
  <1> HIDE DEF left
  <1> QED
    BY <1>1, <1>3, <1>4

-----------------------------------------------------------------------------
(* Every step keeps the part of the invariant about the moves. *)

LEMMA EmptyIsCells == IsCells(<<>>)
  <1>1. <<>> \in Seq({})
    OBVIOUS
  <1> QED
    BY <1>1 DEF IsCells

LEMMA MoveInit ==
  ASSUME Init
  PROVE  MoveInv
  <1>1. disk = <<>> /\ moves = <<>> /\ buf = NoCells /\ at = Everywhere("idle")
    BY DEF Init
  <1>2. Contiguous(disk)
    <2>1. DOMAIN disk = 0 .. 0 - 1
      BY <1>1
    <2> QED
      BY <2>1 DEF Contiguous
  <1>3. DOMAIN buf = Ranks /\ \A r \in Ranks : buf[r] = <<>>
    BY <1>1 DEF NoCells
  <1>4. IsCells(<<>>)
    BY EmptyIsCells
  <1>5. Busy
    BY <1>1 DEF Busy, Everywhere, Moving
  <1>6. moves \in Seq(MoveType)
    BY <1>1
  <1> QED
    BY <1>2, <1>3, <1>4, <1>5, <1>6 DEF MoveInv

(* The block that is moved while a rank reads or writes. *)
LEMMA HeadMove ==
  ASSUME MoveInv, NEW r \in Ranks, at[r] \in Moving
  PROVE  moves # <<>> /\ Head(moves) \in MoveType /\ Tail(moves) \in Seq(MoveType)
  <1>1. moves # <<>> /\ moves \in Seq(MoveType)
    BY DEF MoveInv, Busy
  <1> QED
    BY <1>1

LEMMA MovesEndDef ==
  ASSUME MetaInv, MoveInv, NEW args \in EndDefArgs, EndDef(args)
  PROVE  MoveInv'
  <1> DEFINE n == ncp'
             recs == IF old = None THEN 0 ELSE numrecs
  <1>1. /\ moves' = Moves(n, old, recs) /\ UNCHANGED <<disk, buf, old>>
        /\ at' = IF moves' = <<>> THEN Finish ELSE Everywhere("read")
        /\ mode' = "enddef"
    BY DEF EndDef
  <1>2. MetaInv'
    BY MetaEndDef
  <1>3. n \in MetaType /\ old \in OldType /\ recs \in Nat
        /\ (old # None => Len(n.vars) >= Len(old.vars))
    BY <1>1, <1>2 DEF MetaInv, Typed, Computed, NotEarlier
  <1> HIDE DEF n, recs
  <1>4. moves' \in Seq(MoveType)
    BY <1>1, <1>3, MovesType
  <1>5. Busy'
    BY <1>1 DEF Busy, Finish, Moving
  <1> QED
    BY <1>1, <1>4, <1>5 DEF MoveInv

LEMMA MovesRead ==
  ASSUME MetaInv, MoveInv, NEW r \in Ranks, ReadChunk(r)
  PROVE  MoveInv'
  <1> DEFINE m == Head(moves)
             off == m.from + Base(m) + r * Chunk
             cells == ReadCells(disk, off, Count(m, r))
  <1>1. /\ at[r] = "read" /\ at' = [at EXCEPT ![r] = "readsum"]
        /\ buf' = [buf EXCEPT ![r] = cells] /\ UNCHANGED <<disk, moves>>
    BY DEF ReadChunk
  <1>2. moves # <<>> /\ m \in MoveType
    BY <1>1, HeadMove DEF Moving
  <1>3. off \in Nat /\ Count(m, r) \in Nat
    BY <1>2, RoundTypes
  <1> HIDE DEF off, m
  <1>4. IsCells(cells)
    BY <1>3, ReadIsCells DEF MoveInv
  <1> HIDE DEF cells
  <1>5. DOMAIN buf' = Ranks /\ \A s \in Ranks : IsCells(buf'[s])
    BY <1>1, <1>4 DEF MoveInv
  <1>6. Busy'
    BY <1>1, <1>2 DEF Busy
  <1> QED
    BY <1>1, <1>5, <1>6 DEF MoveInv

LEMMA MovesWrite ==
  ASSUME MetaInv, MoveInv, NEW r \in Ranks, WriteChunk(r)
  PROVE  MoveInv'
  <1> DEFINE m == Head(moves)
             off == m.to + Base(m) + r * Chunk
             f == Block(off, buf[r])
             b == off + Len(buf[r])
  <1>1. /\ at[r] = "write" /\ at' = [at EXCEPT ![r] = "writesum"]
        /\ disk' = WriteCells(disk, f)
        /\ buf' = [buf EXCEPT ![r] = <<>>] /\ UNCHANGED moves
    BY DEF WriteChunk
  <1>2. moves # <<>> /\ m \in MoveType
    BY <1>1, HeadMove DEF Moving
  <1>3. off \in Nat
    BY <1>2, RoundTypes
  <1>4. Len(buf[r]) \in Nat
    BY DEF MoveInv, IsCells
  <1> HIDE DEF off, m
  <1>5. DOMAIN f \subseteq Nat /\ b \in Nat /\ \A c \in DOMAIN f : c <= b
    BY <1>3, <1>4 DEF Block
  <1> HIDE DEF f, b
  <1>6. Contiguous(disk')
    BY <1>1, <1>5, WriteIsContiguous DEF MoveInv
  <1>7. DOMAIN buf' = Ranks /\ \A s \in Ranks : IsCells(buf'[s])
    BY <1>1, EmptyIsCells DEF MoveInv
  <1>8. Busy'
    BY <1>1, <1>2 DEF Busy
  <1> QED
    BY <1>1, <1>6, <1>7, <1>8 DEF MoveInv

LEMMA MovesReadsDone ==
  ASSUME MetaInv, MoveInv, ReadsDone
  PROVE  MoveInv'
  <1>1. at[0] = "readsum" /\ UNCHANGED disk
    BY RootRank DEF ReadsDone, Everywhere
  <1>2. moves # <<>> /\ moves \in Seq(MoveType) /\ Tail(moves) \in Seq(MoveType)
    BY <1>1, RootRank, HeadMove DEF Moving, MoveInv
  <1>3. CASE at' = Everywhere("write") /\ UNCHANGED <<mode, moves, failed, buf>>
    BY <1>1, <1>2, <1>3 DEF MoveInv, Busy
  <1>4. CASE GiveUp
    <2> DEFINE rest == IF Head(moves).fixed THEN Tail(moves) ELSE <<>>
    <2>1. moves' = rest /\ buf' = NoCells
      BY <1>4 DEF GiveUp
    <2>2. rest = <<>> => at' = Everywhere("idle")
      BY <1>4, <2>1, Zenon DEF GiveUp
    <2>3. rest \in Seq(MoveType)
      BY <1>2
    <2> HIDE DEF rest
    <2>4. Busy'
      BY <2>1, <2>2 DEF Busy, Everywhere, Moving
    <2>5. DOMAIN buf' = Ranks /\ \A s \in Ranks : IsCells(buf'[s])
      BY <2>1, EmptyIsCells DEF NoCells
    <2> QED
      BY <1>1, <2>1, <2>3, <2>4, <2>5 DEF MoveInv
  <1> QED
    BY <1>3, <1>4 DEF ReadsDone

LEMMA MovesWritesDone ==
  ASSUME MetaInv, MoveInv, WritesDone
  PROVE  MoveInv'
  <1>1. /\ at[0] = "writesum" /\ UNCHANGED <<disk, buf>> /\ moves' = AfterRound(moves)
    BY RootRank DEF WritesDone, Everywhere
  <1>2. moves # <<>> /\ moves \in Seq(MoveType)
    BY <1>1, RootRank, HeadMove DEF Moving, MoveInv
  <1>3. moves' \in Seq(MoveType)
    BY <1>1, <1>2, AfterRoundType
  <1>4. moves' = <<>> => at' = Everywhere("idle") \/ at' = Finish
    BY DEF WritesDone
  <1>5. Busy'
    BY <1>4 DEF Busy, Everywhere, Finish, Moving
  <1> QED
    BY <1>1, <1>3, <1>5 DEF MoveInv

LEMMA MovesWriteHeader ==
  ASSUME MetaInv, MoveInv, WriteHeader
  PROVE  MoveInv'
  <1> DEFINE f == [c \in 0 .. HdrLen(ncp) - 1 |-> HeaderCell]
  <1>1. /\ disk' = WriteCells(disk, f) /\ at' = [at EXCEPT ![0] = "fill"]
        /\ UNCHANGED <<moves, buf>>
    BY DEF WriteHeader
  <1>2. HdrLen(ncp) \in Nat
    BY HeaderLength DEF MetaInv, Typed
  <1>3. DOMAIN f \subseteq Nat /\ \A c \in DOMAIN f : c <= HdrLen(ncp)
    BY <1>2
  <1> HIDE DEF f
  <1>4. Contiguous(disk')
    BY <1>1, <1>2, <1>3, WriteIsContiguous DEF MoveInv
  <1>5. Busy'
    BY <1>1 DEF MetaInv, Typed, MoveInv, Busy, Moving
  <1> QED
    BY <1>1, <1>4, <1>5 DEF MoveInv

LEMMA MovesFill ==
  ASSUME MetaInv, MoveInv, NEW r \in Ranks, FillVars(r)
  PROVE  MoveInv'
  <1> DEFINE f == FillBlock(ncp, old, numrecs, r)
             S == NewVars(ncp, old)
             recs == FillRecs(old, numrecs)
             E == Elements(ncp, S, recs)
             b == ncp.begin_rec + recs * ncp.recsize
  <1>1. /\ disk' = IF fill THEN WriteCells(disk, f) ELSE disk
        /\ at[r] = "fill" /\ at' = [at EXCEPT ![r] = "done"] /\ UNCHANGED <<moves, buf>>
    BY DEF FillVars
  <1>2. mode = "enddef"
    BY <1>1, InCall
  <1>3. ncp \in MetaType /\ LaidOut(ncp) /\ recs \in Nat
    BY <1>2 DEF MetaInv, Typed, Computed, FillRecs
  <1>4. S \subseteq DOMAIN ncp.vars
    BY DEF NewVars
  <1>5. DOMAIN f \subseteq {Offset(ncp, e) : e \in E}
    BY DEF FillBlock, FillShare
  <1> HIDE DEF f, S, recs
  <1>6. b \in Nat
    <2>1. ncp.begin_rec \in Nat /\ ncp.recsize \in Nat
      BY <1>3, Kinds
    <2> QED
      BY <1>3, <2>1
  <1>7. \A e \in E : Offset(ncp, e) \in Nat /\ Offset(ncp, e) <= b
    BY <1>3, <1>4, OffsetBound
  <1> HIDE DEF E, b
  <1>8. DOMAIN f \subseteq Nat /\ \A c \in DOMAIN f : c <= b
    BY <1>5, <1>7
  <1>9. Contiguous(disk')
    BY <1>1, <1>6, <1>8, WriteIsContiguous DEF MoveInv
  <1>10. Busy'
    BY <1>1 DEF MetaInv, Typed, MoveInv, Busy, Moving
  <1> QED
    BY <1>1, <1>9, <1>10 DEF MoveInv

LEMMA MovesPut ==
  ASSUME MetaInv, MoveInv, NEW v \in DOMAIN ncp.vars, NEW recs \in Nat, Put(v, recs)
  PROVE  MoveInv'
  <1> DEFINE S == {v}
             E == Elements(ncp, S, recs)
             f == [c \in {Offset(ncp, e) : e \in E} |-> CHOOSE e \in E : Offset(ncp, e) = c]
             b == ncp.begin_rec + recs * ncp.recsize
  <1>1. mode = "data" /\ disk' = WriteCells(disk, f) /\ UNCHANGED <<at, moves, buf>>
    BY DEF Put
  <1>2. ncp \in MetaType /\ LaidOut(ncp)
    BY <1>1 DEF MetaInv, Typed, Written
  <1>3. S \subseteq DOMAIN ncp.vars
    OBVIOUS
  <1>4. DOMAIN f = {Offset(ncp, e) : e \in E}
    OBVIOUS
  <1> HIDE DEF f, S
  <1>5. b \in Nat
    <2>1. ncp.begin_rec \in Nat /\ ncp.recsize \in Nat
      BY <1>2, Kinds
    <2> QED
      BY <2>1
  <1>6. \A e \in E : Offset(ncp, e) \in Nat /\ Offset(ncp, e) <= b
    BY <1>2, <1>3, OffsetBound
  <1> HIDE DEF E, b
  <1>7. DOMAIN f \subseteq Nat /\ \A c \in DOMAIN f : c <= b
    BY <1>4, <1>6
  <1>8. Contiguous(disk')
    BY <1>1, <1>5, <1>7, WriteIsContiguous DEF MoveInv
  <1> QED
    BY <1>1, <1>8 DEF MoveInv, Busy

LEMMA MovesNext ==
  ASSUME MetaInv, MoveInv, [Next]_vars
  PROVE  MoveInv'
  <1>1. ASSUME UNCHANGED <<disk, moves, buf, at>> PROVE MoveInv'
    BY <1>1 DEF MoveInv, Busy
  <1>2. ASSUME NEW rec \in BOOLEAN, NEW size \in Sizes, DefVar(rec, size) PROVE MoveInv'
    BY <1>1, <1>2 DEF DefVar
  <1>3. ASSUME PutAtt \/ SetFill \/ Redef \/ Close PROVE MoveInv'
    BY <1>1, <1>3 DEF PutAtt, SetFill, Redef, Close
  <1>4. ASSUME NEW a \in Hints, Open(a) \/ Create(a) PROVE MoveInv'
    BY <1>1, <1>4 DEF Open, Create
  <1>5. ASSUME Leave PROVE MoveInv'
    <2>1. UNCHANGED <<disk, moves, buf>> /\ at' = Everywhere("idle")
      BY <1>5 DEF Leave
    <2> QED
      BY <2>1 DEF MoveInv, Busy, Everywhere, Moving
  <1>6. ASSUME Abort PROVE MoveInv'
    <2>1. UNCHANGED <<moves, buf, at>> /\ disk' \in {disk, <<>>}
      BY <1>6 DEF Abort
    <2>2. Contiguous(<<>>)
      <3>1. DOMAIN <<>> = 0 .. 0 - 1
        OBVIOUS
      <3> QED
        BY <3>1 DEF Contiguous
    <2> QED
      BY <2>1, <2>2 DEF MoveInv, Busy
  <1>7. ASSUME NEW v \in DOMAIN ncp.vars,
               NEW recs \in IF ncp.vars[v].rec THEN 1 .. MaxRecs ELSE {1}, Put(v, recs)
        PROVE  MoveInv'
    <2>1. recs \in Nat
      BY LayoutAssumption
    <2> QED
      BY <1>7, <2>1, MovesPut
  <1>8. ASSUME UNCHANGED vars PROVE MoveInv'
    BY <1>1, <1>8 DEF vars
  <1> QED
    BY <1>2, <1>3, <1>4, <1>5, <1>6, <1>7, <1>8, MovesEndDef, MovesRead, MovesWrite,
       MovesFill, MovesReadsDone, MovesWritesDone, MovesWriteHeader DEF Next

-----------------------------------------------------------------------------
(* The invariant holds in every reachable state. *)
THEOREM Invariant == Spec => []LayoutInv
  <1>1. Init => LayoutInv
    BY MetaInit, MoveInit DEF LayoutInv
  <1>2. LayoutInv /\ [Next]_vars => LayoutInv'
    BY MetaNext, MovesNext DEF LayoutInv
  <1> QED
    BY <1>1, <1>2, PTL DEF Spec

(* Every variable has its type, the cells of the file are addressed from 0 *)
(* without a gap, whatever was moved, filled or put, and no move is empty, *)
(* so that each round of move_file_block leaves less to do.                *)
THEOREM TypeCorrect == Spec => []TypeOK
  <1>1. ASSUME LayoutInv PROVE TypeOK
    <2>1. /\ ncp.vars \in Seq(VarType) /\ ncp.atts \in Nat /\ ncp.begin_var \in Nat
          /\ ncp.begin_rec \in Nat /\ ncp.recsize \in Nat
      BY <1>1, Kinds DEF LayoutInv, MetaInv, Typed
    <2>2. numrecs \in Nat /\ mode \in Modes /\ at \in [Ranks -> Phases]
      BY <1>1 DEF LayoutInv, MetaInv, Typed
    <2>3. DOMAIN disk = 0 .. FileSize(disk) - 1
      BY <1>1, SizeOfFile DEF LayoutInv, MoveInv, Contiguous
    <2>4. \A m \in 1 .. Len(moves) : moves[m].n > 0
      <3> SUFFICES ASSUME NEW m \in 1 .. Len(moves) PROVE moves[m].n > 0
        OBVIOUS
      <3>1. moves[m] \in MoveType
        BY <1>1 DEF LayoutInv, MoveInv
      <3> QED
        BY <3>1 DEF MoveType
    <2>5. Phases = {"idle", "read", "readsum", "write", "writesum", "header", "fill",
                    "done"}
      BY DEF Phases, Moving
    <2> QED
      BY <2>1, <2>2, <2>3, <2>4, <2>5 DEF TypeOK, VarType, Modes
  <1> QED
    BY <1>1, Invariant, PTL

(* Inside enddef no section of the file begins before the place it had     *)
(* when define mode was entered, and no record is shorter: the assertions  *)
(* of ncmpio__enddef and move_record_vars cannot fail, for any alignment,  *)
(* free space and history of definitions.                                  *)
THEOREM AssertionsHold == Spec => []AssertsHold
  <1>1. ASSUME LayoutInv PROVE AssertsHold
    BY <1>1 DEF LayoutInv, MetaInv, Computed, NotEarlier, AssertsHold
  <1> QED
    BY <1>1, Invariant, PTL

-----------------------------------------------------------------------------
(* What an opener derives from the header. *)

(* Two layouts of the same variables have the same record size and begin   *)
(* their data at the same cell.                                            *)
LEMMA SameLayout ==
  ASSUME NEW n \in MetaType, NEW m \in MetaType, LaidOut(n), LaidOut(m),
         n.vars = m.vars, n.vars # <<>>
  PROVE  n.recsize = m.recsize /\ n.begin_var = m.begin_var
  <1>1. RecLens(n) = RecLens(m) /\ RecSize(n) = RecSize(m)
        /\ \A rec : OfKind(n, rec) = OfKind(m, rec)
    BY DEF RecLens, RecSize, OfKind
  <1>2. n.recsize = m.recsize
    BY <1>1 DEF LaidOut, RecordsLaid
  <1> DEFINE F == OfKind(n, FALSE)
             R == OfKind(n, TRUE)
  <1>3. CASE F # {}
    BY <1>1, <1>2, <1>3 DEF LaidOut, HeaderLaid
  <1>4. CASE F = {}
    <2>1. n.begin_var = n.begin_rec /\ m.begin_var = m.begin_rec
      BY <1>1, <1>4 DEF LaidOut, HeaderLaid
    <2>2. Len(n.vars) \in Nat /\ Len(n.vars) # 0
      BY Kinds, EmptySeq
    <2>3. n.vars[1].rec
      <3>1. 1 \in 1 .. Len(n.vars)
        BY <2>2
      <3>2. 1 \in OfKind(n, n.vars[1].rec) /\ n.vars[1].rec \in BOOLEAN
        BY <3>1, Kinds, Lengths
      <3> QED
        BY <1>4, <3>2
    <2>4. n.vars[1].begin = n.begin_rec + RecLens(n)[0]
      BY <2>2, <2>3 DEF LaidOut, RecordsLaid
    <2>5. n.vars[1].begin = m.begin_rec + RecLens(n)[0]
      BY <1>1, <2>2, <2>3 DEF LaidOut, RecordsLaid
    <2>6. RecLens(n)[0] = 0 /\ n.begin_rec \in Nat /\ m.begin_rec \in Nat
      BY LensLoop, Kinds
    <2> QED
      BY <1>2, <2>1, <2>4, <2>5, <2>6
  <1> QED
    BY <1>3, <1>4

LEMMA LastBefore ==
  ASSUME NEW S, S \subseteq Nat, NEW i \in Nat, {j \in S : j < i} # {}, NEW l,
         l = CHOOSE m \in {j \in S : j < i} : \A k \in {j \in S : j < i} : k <= m
  PROVE  l \in S /\ l < i
  <1> DEFINE T == {j \in S : j < i}
  <1>1. T \subseteq Nat /\ T # {} /\ \A x \in T : x <= i
    <2>1. T # {}
      OBVIOUS
    <2>2. \A x \in T : x \in S /\ x \in Nat /\ x < i
      OBVIOUS
    <2> HIDE DEF T
    <2>3. \A x \in T : x <= i
      BY <2>2
    <2> QED
      BY <2>1, <2>2, <2>3
  <1> HIDE DEF T
  <1>2. \E m \in T : \A x \in T : x <= m
    BY <1>1, LargestNat
  <1>3. l = CHOOSE m \in T : \A k \in T : k <= m
    BY DEF T
  <1>4. l \in T
    BY <1>2, <1>3
  <1> QED
    BY <1>4 DEF T

(* The code's own check accepts every such layout. *)
LEMMA VoffsAccepted ==
  ASSUME NEW n \in MetaType, LaidOut(n)
  PROVE  CheckVoffs(n)
  <1>1. /\ Len(n.vars) \in Nat
        /\ \A i \in 1 .. Len(n.vars) : n.vars[i].begin \in Nat /\ VLen(n.vars[i]) \in Nat
        /\ \A rec : OfKind(n, rec) \subseteq 1 .. Len(n.vars)
        /\ n.begin_var \in Nat /\ n.begin_rec \in Nat
    BY Kinds, Lengths
  <1>2. \A i \in OfKind(n, FALSE) : i \in 1 .. Len(n.vars) /\ ~n.vars[i].rec
    BY Kinds
  <1>3. \A i \in OfKind(n, TRUE) : i \in 1 .. Len(n.vars) /\ n.vars[i].rec
    BY Kinds
  <1>indices. \A i \in 1 .. Len(n.vars) : /\ i \in Nat /\ i \in 0 .. Len(n.vars)
                                     /\ i - 1 \in 0 .. Len(n.vars)
    <2> DEFINE k == Len(n.vars)
    <2>1. k \in Nat
      BY <1>1
    <2> HIDE DEF k
    <2>2. \A i \in 1 .. k : i \in Nat /\ i \in 0 .. k /\ i - 1 \in 0 .. k
      BY <2>1
    <2> QED
      BY <2>2 DEF k
  <1>4. \A i \in OfKind(n, FALSE) : n.begin_rec >= n.vars[i].begin + VLen(n.vars[i])
    BY <1>1, <1>2 DEF LaidOut, FixedLaid
  <1>5. Ordered(n, FALSE, n.begin_var)
    <2> DEFINE F == OfKind(n, FALSE)
               before(i) == {j \in F : j < i}
               l(i) == CHOOSE j \in before(i) : \A k \in before(i) : k <= j
    <2> SUFFICES ASSUME NEW i \in F
                 PROVE  n.vars[i].begin >= IF before(i) = {} THEN n.begin_var
                                           ELSE n.vars[l(i)].begin + VLen(n.vars[l(i)])
      BY DEF Ordered
    <2>1. CASE before(i) = {}
      BY <1>1, <1>2, <2>1 DEF LaidOut, FixedLaid
    <2>2. CASE before(i) # {}
      <3>1. F \subseteq Nat /\ i \in Nat
        BY <1>2, <1>indices
      <3> DEFINE last == l(i)
      <3>2. last \in F /\ last < i
        BY <2>2, <3>1, LastBefore
      <3> HIDE DEF last
      <3>3. last \in 1 .. Len(n.vars) /\ ~n.vars[last].rec /\ i \in 1 .. Len(n.vars)
            /\ ~n.vars[i].rec
        BY <1>2, <3>2
      <3>4. n.vars[last].begin + VLen(n.vars[last]) <= n.vars[i].begin
        BY <3>2, <3>3 DEF LaidOut, FixedLaid
      <3>5. /\ n.vars[last].begin \in Nat /\ VLen(n.vars[last]) \in Nat
            /\ n.vars[i].begin \in Nat
        BY <1>1, <3>3
      <3>6. n.vars[i].begin >= n.vars[last].begin + VLen(n.vars[last])
        BY <3>4, <3>5
      <3> QED
        BY <2>2, <3>6 DEF last
    <2> QED
      BY <2>1, <2>2
  <1>6. Ordered(n, TRUE, n.begin_rec)
    <2> DEFINE R == OfKind(n, TRUE)
               before(i) == {j \in R : j < i}
               l(i) == CHOOSE j \in before(i) : \A k \in before(i) : k <= j
               S == RecLens(n)
    <2> SUFFICES ASSUME NEW i \in R
                 PROVE  n.vars[i].begin >= IF before(i) = {} THEN n.begin_rec
                                           ELSE n.vars[l(i)].begin + VLen(n.vars[l(i)])
      BY DEF Ordered
    <2>1. i \in 1 .. Len(n.vars) /\ n.vars[i].rec /\ i - 1 \in 0 .. Len(n.vars)
      BY <1>3, <1>indices
    <2>2. n.vars[i].begin = n.begin_rec + S[i - 1]
      BY <2>1 DEF LaidOut, RecordsLaid
    <2>3. S[i - 1] \in Nat
      BY <2>1, LensLoop
    <2>4. CASE before(i) = {}
      BY <1>1, <2>2, <2>3, <2>4
    <2>5. CASE before(i) # {}
      <3>1. R \subseteq Nat /\ i \in Nat
        BY <1>3, <1>indices
      <3> DEFINE last == l(i)
      <3>2. last \in R /\ last < i
        BY <2>5, <3>1, LastBefore
      <3> HIDE DEF last
      <3>3. /\ last \in 1 .. Len(n.vars) /\ n.vars[last].rec
            /\ last \in 0 .. Len(n.vars) /\ last - 1 \in 0 .. Len(n.vars) /\ last <= i - 1
        <4>1. last \in 1 .. Len(n.vars) /\ n.vars[last].rec
          BY <1>3, <3>2
        <4>2. last \in Nat /\ i \in Nat /\ last < i
          BY <1>indices, <2>1, <3>2, <4>1
        <4>3. last <= i - 1
          BY <4>2
        <4> QED
          BY <1>indices, <4>1, <4>3
      <3>4. n.vars[last].begin = n.begin_rec + S[last - 1]
        BY <3>3 DEF LaidOut, RecordsLaid
      <3>5. S[last] = S[last - 1] + VLen(n.vars[last])
        BY <3>3, LensLoop
      <3>6. S[last] <= S[i - 1]
        BY <2>1, <3>3, LensGrow
      <3>7. S[last] \in Nat /\ S[last - 1] \in Nat
        BY <3>3, LensLoop
      <3> HIDE DEF S
      <3>8. /\ n.vars[i].begin \in Nat /\ n.vars[last].begin \in Nat
            /\ VLen(n.vars[last]) \in Nat /\ n.begin_rec \in Nat
        BY <1>1, <2>1, <3>3
      <3>9. n.vars[i].begin >= n.vars[last].begin + VLen(n.vars[last])
        BY <2>2, <2>3, <3>4, <3>5, <3>6, <3>7, <3>8
      <3> QED
        BY <2>5, <3>9 DEF last
    <2> QED
      BY <2>4, <2>5
  <1> QED
    BY <1>4, <1>5, <1>6 DEF CheckVoffs

(* A process that opens the file computes from the header the record size  *)
(* and the start of the data the writer has, and the check of the offsets  *)
(* accepts the layout of both.                                             *)
THEOREM OpenersAgree == Spec => []OpenAgrees
  <1>1. ASSUME LayoutInv PROVE OpenAgrees
    <2> SUFFICES ASSUME mode = "data", ncp.vars # <<>>
                 PROVE  LET o == OpenShape(saved) IN
                        /\ o.recsize = ncp.recsize /\ o.begin_var <= ncp.begin_var
                        /\ o.begin_var >= HdrLen(saved) /\ CheckVoffs(ncp) /\ CheckVoffs(o)
      BY DEF OpenAgrees
    <2> DEFINE o == OpenShape(saved)
    <2>1. /\ ncp \in MetaType /\ saved # None /\ saved \in OldType
          /\ saved.vars = ncp.vars /\ saved.atts = ncp.atts /\ LaidOut(ncp)
          /\ LaidOut(saved)
      BY <1>1 DEF LayoutInv, MetaInv, Typed, Written, SavedLaid
    <2>2. saved \in MetaType
      BY <2>1 DEF OldType
    <2>3. o \in MetaType /\ LaidOut(o) /\ o.vars = ncp.vars /\ o.atts = ncp.atts
      BY <2>1, <2>2, Opened
    <2> HIDE DEF o
    <2>4. o.recsize = ncp.recsize /\ o.begin_var = ncp.begin_var
      BY <2>1, <2>3, SameLayout
    <2>5. o.begin_var >= HdrLen(o) /\ HdrLen(o) = HdrLen(saved)
      BY <2>1, <2>3 DEF LaidOut, HeaderLaid, HdrLen
    <2>6. CheckVoffs(ncp) /\ CheckVoffs(o)
      BY <2>1, <2>3, VoffsAccepted
    <2>7. ncp.begin_var \in Nat
      BY <2>1, Kinds
    <2> QED
      BY <2>4, <2>5, <2>6, <2>7 DEF o
  <1> QED
    BY <1>1, Invariant, PTL

-----------------------------------------------------------------------------
(* No two elements share a cell. *)

LEMMA SameRecord ==
  ASSUME NEW k \in Nat, NEW a \in Nat, NEW b \in Nat, NEW x \in Nat, NEW y \in Nat,
         x < k, y < k, NEW s \in Nat, s + x + a * k = s + y + b * k
  PROVE  a = b /\ x = y
  <1>1. a * k \in Nat /\ b * k \in Nat
    OBVIOUS
  <1>2. ~(a < b)
    <2> SUFFICES ASSUME a < b PROVE FALSE
      OBVIOUS
    <2>1. a * k + k <= b * k
      BY TimesLess
    <2> QED
      BY <1>1, <2>1
  <1>3. ~(b < a)
    <2> SUFFICES ASSUME b < a PROVE FALSE
      OBVIOUS
    <2>1. b * k + k <= a * k
      BY TimesLess
    <2> QED
      BY <1>1, <2>1
  <1>4. a = b
    BY <1>2, <1>3
  <1> QED
    BY <1>1, <1>4

(* Fixed-size variables do not overlap, and neither do the variables of a  *)
(* record; both say it for i before j.                                     *)
LEMMA FixedApart ==
  ASSUME NEW n \in MetaType, LaidOut(n), NEW i \in 1 .. Len(n.vars),
         NEW j \in 1 .. Len(n.vars), ~n.vars[i].rec, ~n.vars[j].rec, i < j,
         NEW c \in Nat, c < n.vars[i].size, NEW d \in Nat
  PROVE  n.vars[i].begin + c < n.vars[j].begin + d
  <1> DEFINE a == n.vars[i].begin
             b == n.vars[j].begin
             l == VLen(n.vars[i])
             s == n.vars[i].size
  <1>1. a \in Nat /\ b \in Nat /\ l \in Nat /\ s \in Nat /\ l >= s /\ c < s
    BY Kinds, Lengths
  <1>2. a + l <= b
    BY DEF LaidOut, FixedLaid
  <1> HIDE DEF a, b, l, s
  <1>3. a + c < b + d
    BY <1>1, <1>2
  <1> QED
    BY <1>3 DEF a, b

LEMMA RecordApart ==
  ASSUME NEW n \in MetaType, LaidOut(n), NEW i \in 1 .. Len(n.vars),
         NEW j \in 1 .. Len(n.vars), n.vars[i].rec, n.vars[j].rec, i < j,
         NEW c \in Nat, c < n.vars[i].size, NEW d \in Nat
  PROVE  RecLens(n)[i - 1] + c < RecLens(n)[j - 1] + d
  <1> DEFINE S == RecLens(n)
             k == Len(n.vars)
             l == VLen(n.vars[i])
             s == n.vars[i].size
  <1>1. k \in Nat /\ l \in Nat /\ s \in Nat /\ l >= s /\ c < s /\ S \in [0 .. k -> Nat]
    BY Kinds, Lengths, LensLoop
  <1>2. i \in 1 .. k /\ j \in 1 .. k /\ i < j
    OBVIOUS
  <1>3. S[i] = S[i - 1] + l
    BY LensLoop
  <1>4. i \in 0 .. k /\ j - 1 \in 0 .. k /\ i - 1 \in 0 .. k /\ i <= j - 1
    <2> HIDE DEF k
    <2> QED
      BY <1>1, <1>2
  <1>5. S[i] <= S[j - 1]
    BY <1>4, LensGrow
  <1> HIDE DEF S, k, l, s
  <1>6. S[i] \in Nat /\ S[i - 1] \in Nat /\ S[j - 1] \in Nat
    BY <1>1, <1>4
  <1>7. S[i - 1] + c < S[j - 1] + d
    <2> DEFINE u == S[i]
               v == S[i - 1]
               w == S[j - 1]
    <2>1. /\ u \in Nat /\ v \in Nat /\ w \in Nat /\ u = v + l /\ u <= w
          /\ l \in Nat /\ s \in Nat /\ l >= s /\ c < s
      BY <1>1, <1>3, <1>5, <1>6
    <2> HIDE DEF u, v, w
    <2>2. v + c < w + d
      BY <2>1
    <2> QED
      BY <2>2 DEF v, w
  <1> QED
    BY <1>7 DEF S

LEMMA OffsetsDiffer ==
  ASSUME NEW n \in MetaType, LaidOut(n), NEW recs \in Nat,
         NEW e \in Elements(n, DOMAIN n.vars, recs),
         NEW f \in Elements(n, DOMAIN n.vars, recs), Offset(n, e) = Offset(n, f)
  PROVE  e = f
  <1> DEFINE i == e[1]
             j == f[1]
             c == e[3]
             d == f[3]
  <1>1. /\ e = <<i, e[2], c>> /\ i \in 1 .. Len(n.vars)
        /\ e[2] \in Nat /\ c \in Nat /\ c < n.vars[i].size
        /\ IF n.vars[i].rec THEN e[2] < recs ELSE e[2] = 0
    BY ElementParts
  <1>2. /\ f = <<j, f[2], d>> /\ j \in 1 .. Len(n.vars)
        /\ f[2] \in Nat /\ d \in Nat /\ d < n.vars[j].size
        /\ IF n.vars[j].rec THEN f[2] < recs ELSE f[2] = 0
    BY ElementParts
  <1>3. /\ n.vars[i].begin \in Nat /\ n.vars[j].begin \in Nat
        /\ n.begin_rec \in Nat /\ n.recsize \in Nat
    BY <1>1, <1>2, Kinds, Lengths
  <1>4. i \in Nat /\ j \in Nat /\ (i = j \/ i < j \/ j < i)
    BY <1>1, <1>2
  <1>5. CASE ~n.vars[i].rec /\ ~n.vars[j].rec
    <2>1. n.vars[i].begin + c = n.vars[j].begin + d
      BY <1>1, <1>2, <1>5, OffsetFixed
    <2> HIDE DEF i, j, c, d
    <2>2. ~(i < j)
      <3> SUFFICES ASSUME i < j PROVE FALSE
        OBVIOUS
      <3>1. n.vars[i].begin + c < n.vars[j].begin + d
        BY <1>1, <1>2, <1>5, FixedApart
      <3> QED
        BY <1>1, <1>2, <1>3, <2>1, <3>1
    <2>3. ~(j < i)
      <3> SUFFICES ASSUME j < i PROVE FALSE
        OBVIOUS
      <3>1. n.vars[j].begin + d < n.vars[i].begin + c
        BY <1>1, <1>2, <1>5, FixedApart
      <3> QED
        BY <1>1, <1>2, <1>3, <2>1, <3>1
    <2>4. i = j
      BY <1>4, <2>2, <2>3
    <2>5. c = d
      BY <1>1, <1>2, <1>3, <2>1, <2>4, SMTT(60)
    <2> QED
      BY <1>1, <1>2, <1>5, <2>4, <2>5
  <1>6. CASE n.vars[i].rec /\ n.vars[j].rec
    <2> DEFINE k == n.recsize
               x == InRecord(n, e)
               y == InRecord(n, f)
               s == n.begin_rec
               a == e[2]
               b == f[2]
    <2>1. /\ x \in Nat /\ x < k /\ y \in Nat /\ y < k
          /\ s + x + a * k = s + y + b * k
      BY <1>1, <1>2, <1>6, OffsetRecord
    <2>2. k \in Nat /\ s \in Nat /\ a \in Nat /\ b \in Nat
      BY <1>1, <1>2, <1>3
    <2> HIDE DEF i, j, c, d
    <2>3. x = RecLens(n)[i - 1] + c /\ y = RecLens(n)[j - 1] + d
      BY DEF InRecord, i, j, c, d
    <2> HIDE DEF k, x, y, s, a, b
    <2>4. a = b /\ x = y
      BY <2>1, <2>2, SameRecord
    <2>5. ~(i < j)
      <3> SUFFICES ASSUME i < j PROVE FALSE
        OBVIOUS
      <3>1. RecLens(n)[i - 1] + c < RecLens(n)[j - 1] + d
        BY <1>1, <1>2, <1>6, RecordApart
      <3> QED
        BY <2>1, <2>3, <2>4, <3>1
    <2>6. ~(j < i)
      <3> SUFFICES ASSUME j < i PROVE FALSE
        OBVIOUS
      <3>1. RecLens(n)[j - 1] + d < RecLens(n)[i - 1] + c
        BY <1>1, <1>2, <1>6, RecordApart
      <3> QED
        BY <2>1, <2>3, <2>4, <3>1
    <2>7. i = j
      BY <1>4, <2>5, <2>6
    <2>8. c = d
      <3>1. RecLens(n)[i - 1] \in Nat
        <4>1. i - 1 \in 0 .. Len(n.vars)
          BY <1>1, Kinds
        <4> QED
          BY <4>1, LensLoop
      <3> QED
        BY <1>1, <1>2, <2>3, <2>4, <2>7, <3>1
    <2> QED
      BY <1>1, <1>2, <2>4, <2>7, <2>8 DEF a, b
  <1>7. CASE ~n.vars[i].rec /\ n.vars[j].rec
    <2>1. Offset(n, e) \in Nat /\ Offset(n, e) < n.begin_rec
      BY <1>1, <1>7, OffsetFixed
    <2>2. Offset(n, f) \in Nat /\ Offset(n, f) >= n.begin_rec
      BY <1>2, <1>7, OffsetRecord
    <2> QED
      BY <1>3, <2>1, <2>2
  <1>8. CASE n.vars[i].rec /\ ~n.vars[j].rec
    <2>1. Offset(n, f) \in Nat /\ Offset(n, f) < n.begin_rec
      BY <1>2, <1>8, OffsetFixed
    <2>2. Offset(n, e) \in Nat /\ Offset(n, e) >= n.begin_rec
      BY <1>1, <1>8, OffsetRecord
    <2> QED
      BY <1>3, <2>1, <2>2
  <1> QED
    BY <1>5, <1>6, <1>7, <1>8

(* As many cells as elements. *)
LEMMA OneCellEach ==
  ASSUME NEW n \in MetaType, LaidOut(n), NEW recs \in Nat, NEW E,
         E = Elements(n, DOMAIN n.vars, recs)
  PROVE  Cardinality({Offset(n, e) : e \in E}) = Cardinality(E)
  <1> DEFINE C == {Offset(n, e) : e \in E}
             f == [e \in E |-> Offset(n, e)]
             b == n.begin_rec + recs * n.recsize
  <1>1. b \in Nat
    <2>1. n.begin_rec \in Nat /\ n.recsize \in Nat
      BY Kinds
    <2> QED
      BY <2>1
  <1>2. \A e \in E : Offset(n, e) \in Nat /\ Offset(n, e) <= b
    BY OffsetBound
  <1>3. \A e, g \in E : Offset(n, e) = Offset(n, g) => e = g
    BY OffsetsDiffer
  <1> HIDE DEF b
  <1>4. IsFiniteSet(C)
    <2>1. C \subseteq Nat /\ \A c \in C : c <= b
      BY <1>2
    <2> HIDE DEF C
    <2> QED
      BY <1>1, <2>1, FS_BoundedSetOfNaturals
  <1>5. f \in [E -> C] /\ \A e \in E : f[e] = Offset(n, e)
    OBVIOUS
  <1>6. \A c \in C : \E e \in E : f[e] = c
    OBVIOUS
  <1> HIDE DEF f, C
  <1>7. f \in Injection(E, C)
    BY <1>3, <1>5 DEF Injection, IsInjective
  <1>8. f \in Surjection(E, C)
    BY <1>5, <1>6 DEF Surjection
  <1>9. Cardinality(E) = Cardinality(C)
    BY <1>4, <1>7, <1>8, FS_Injection
  <1> QED
    BY <1>9 DEF C

(* Every element lies behind the header. *)
LEMMA BehindHeader ==
  ASSUME NEW n \in MetaType, LaidOut(n), NEW recs \in Nat,
         NEW e \in Elements(n, DOMAIN n.vars, recs)
  PROVE  Offset(n, e) \in Nat /\ HdrLen(n) \in Nat /\ Offset(n, e) >= HdrLen(n)
  <1>1. /\ e[1] \in 1 .. Len(n.vars)
        /\ e[2] \in Nat /\ e[3] \in Nat /\ e[3] < n.vars[e[1]].size
    BY ElementParts
  <1>2. n.begin_var \in Nat /\ n.begin_rec \in Nat /\ HdrLen(n) \in Nat
    BY Kinds, HeaderLength
  <1>3. n.begin_var >= HdrLen(n)
    <2>1. n.vars # <<>>
      BY <1>1, Kinds
    <2> QED
      BY <2>1 DEF LaidOut, HeaderLaid
  <1>4. n.begin_rec >= n.begin_var
    <2>1. CASE OfKind(n, FALSE) = {}
      BY <1>2, <2>1 DEF LaidOut, HeaderLaid
    <2>2. CASE OfKind(n, FALSE) # {}
      <3> DEFINE i == First(OfKind(n, FALSE))
      <3>1. i \in 1 .. Len(n.vars) /\ ~n.vars[i].rec
        BY <2>2, FirstIndex, Kinds
      <3>2. n.vars[i].begin + VLen(n.vars[i]) <= n.begin_rec
        BY <3>1 DEF LaidOut, FixedLaid
      <3>3. n.begin_var = n.vars[i].begin
        BY <2>2 DEF LaidOut, HeaderLaid
      <3>4. VLen(n.vars[i]) \in Nat /\ n.vars[i].begin \in Nat
        BY <3>1, Kinds, Lengths
      <3> DEFINE x == n.vars[i].begin
                 y == VLen(n.vars[i])
      <3>5. x \in Nat /\ y \in Nat /\ x + y <= n.begin_rec /\ n.begin_var = x
        BY <3>2, <3>3, <3>4
      <3> HIDE DEF x, y
      <3> QED
        BY <1>2, <3>5
    <2> QED
      BY <2>1, <2>2
  <1>5. CASE n.vars[e[1]].rec
    <2>1. Offset(n, e) \in Nat /\ Offset(n, e) >= n.begin_rec
      BY <1>1, <1>5, OffsetRecord
    <2> QED
      BY <1>2, <1>3, <1>4, <2>1
  <1>6. CASE ~n.vars[e[1]].rec
    <2>1. Offset(n, e) \in Nat /\ Offset(n, e) >= n.begin_var
      BY <1>1, <1>6, OffsetFixed
    <2> QED
      BY <1>2, <1>3, <2>1
  <1> QED
    BY <1>5, <1>6

(* Outside define mode no two elements of the file share a cell and none   *)
(* lies in the header, however many variables were added, headers grown    *)
(* and alignments asked for.                                               *)
THEOREM ElementsApart == Spec => []LayoutSound
  <1>1. ASSUME LayoutInv PROVE LayoutSound
    <2> DEFINE E == Elements(ncp, DOMAIN ncp.vars, MaxRecs)
    <2> SUFFICES ASSUME mode = "data"
                 PROVE  /\ \A e \in E : Offset(ncp, e) >= HdrLen(ncp)
                        /\ Cardinality({Offset(ncp, e) : e \in E}) = Cardinality(E)
      BY DEF LayoutSound
    <2>1. ncp \in MetaType /\ LaidOut(ncp) /\ MaxRecs \in Nat
      BY <1>1, LayoutAssumption DEF LayoutInv, MetaInv, Typed, Written
    <2>2. \A e \in E : Offset(ncp, e) >= HdrLen(ncp)
      BY <2>1, BehindHeader
    <2>3. Cardinality({Offset(ncp, e) : e \in E}) = Cardinality(E)
      BY <2>1, OneCellEach
    <2> QED
      BY <2>2, <2>3
  <1> QED
    BY <1>1, Invariant, PTL

-----------------------------------------------------------------------------
(***************************************************************************)
(* The data.  A block is moved from its old place to a new one no earlier; *)
(* the blocks of a list lie one before the other, in the old layout as in  *)
(* the new one.                                                            *)
(***************************************************************************)
InSource(m, x) == m.from <= x /\ x < m.from + m.n

InTarget(m, y) == m.to <= y /\ y < m.to + m.n

(* Only rank r changes its entry, to v. *)
Turns(p, p2, r, v) == p2[r] = v /\ \A s \in Ranks : s # r => p2[s] = p[s]

Descending(ms) ==
    /\ \A i \in 1 .. Len(ms) : ms[i].from <= ms[i].to
    /\ \A i, j \in 1 .. Len(ms) : i < j =>
          /\ ms[j].from + ms[j].n <= ms[i].from
          /\ ms[j].to + ms[j].n <= ms[i].to

Has(d, c, v) == c \in DOMAIN d /\ d[c] = v

Moved(ms, y) == \A i \in 1 .. Len(ms) : ~InTarget(ms[i], y)

Carries(m, x, y) == InSource(m, x) /\ y + m.from = x + m.to

(* In the round of the first block: cell k of the chunk of rank r. *)
Turn(ms, i, x) == i = 1 /\ x >= ms[1].from + Base(ms[1])

ChunkCell(m, r, k) == m.from + Base(m) + r * Chunk + k

Held(phase, d, b, x, y, k, v) ==
    CASE phase = "read" -> Has(d, x, v)
      [] phase \in {"readsum", "write"} -> Has(b, k + 1, v)
      [] OTHER -> Has(d, y, v)

(* The value v on its way from x to y in block i. *)
OnWay(ms, i, x, y, v, d, phases, b) ==
    /\ Carries(ms[i], x, y)
    /\ IF Turn(ms, i, x)
       THEN \A r \in Ranks, k \in 0 .. Chunk - 1 :
               x = ChunkCell(ms[1], r, k) => Held(phases[r], d, b[r], x, y, k, v)
       ELSE Has(d, x, v)

Waiting(ms, x, y, v, d, phases, b) ==
    \E i \in 1 .. Len(ms) : OnWay(ms, i, x, y, v, d, phases, b)

Safe(ms, x, y, v, d, phases, b) ==
    \/ Moved(ms, y) /\ Has(d, y, v)
    \/ Waiting(ms, x, y, v, d, phases, b)

(* How fixed-size variables are aligned; their places in a layout. *)
Grain(x) == IF x = 0 THEN Pad ELSE RndUp(x, Pad)

Tight(n, grain) ==
    \A i, j \in 1 .. Len(n.vars) : i < j /\ ~n.vars[i].rec /\ ~n.vars[j].rec
       => RndUp(n.vars[i].begin + VLen(n.vars[i]), grain) <= n.vars[j].begin

Aligning ==
    /\ saved # None => Tight(saved, Grain(align.fx))
    /\ old # None => Tight(old, Grain(align.fx))
    /\ mode = "enddef" => Tight(ncp, Grain(align.fx))
    /\ \A a \in Hints : Grain(a.fx) = Grain(align.fx)

(* The elements with a known content are those of the layout in force. *)
Of(n) == DOMAIN known \subseteq Elements(n, DOMAIN n.vars, numrecs)

Owned ==
    /\ old # None => Of(old)
    /\ mode \in {"data", "closed"} => saved # None /\ Of(saved)
    /\ old = None /\ mode \in {"define", "enddef", "deleted"} => DOMAIN known = {}
    /\ old # None /\ mode = "define" => saved.vars = old.vars

(* The ranks read together, write together and finish together. *)
InStep ==
    /\ ~failed
    /\ mode = "enddef" =>
         \/ at \in [Ranks -> {"read", "readsum"}]
         \/ at \in [Ranks -> {"write", "writesum"}]
         \/ at \in [Ranks -> {"header", "fill", "done"}] /\ moves = <<>>

Buffered ==
    \A r \in Ranks : at[r] \in {"readsum", "write"}
                        => Len(buf[r]) <= Count(Head(moves), r)

Carried ==
    mode = "enddef" =>
       /\ Descending(moves)
       /\ \A e \in DOMAIN known :
             Safe(moves, Offset(old, e), Offset(ncp, e), known[e], disk, at, buf)

Filled ==
    fill => \A r \in Ranks : at[r] = "done" =>
               \A e \in FillShare(ncp, old, numrecs, r) : Has(disk, Offset(ncp, e), Fill)

DataInv == Aligning /\ Owned /\ InStep /\ Buffered /\ Carried /\ Filled /\ DataKept
(* A cell written reads as written, any other as before. *)
LEMMA WriteHas ==
  ASSUME NEW d, Contiguous(d), NEW f, DOMAIN f \subseteq Nat, NEW b \in Nat,
         \A c \in DOMAIN f : c <= b
  PROVE  /\ \A c \in DOMAIN f : Has(WriteCells(d, f), c, f[c])
         /\ \A c, v : Has(d, c, v) /\ c \notin DOMAIN f => Has(WriteCells(d, f), c, v)
  <1> DEFINE D == DOMAIN f
             top == CHOOSE m \in D : \A c \in D : c <= m
             end == IF D = {} THEN 0 ELSE 1 + top
             k == FileSize(d)
             w == WriteCells(d, f)
  <1>1. k \in Nat /\ DOMAIN d = 0 .. k - 1
    BY SizeOfFile DEF Contiguous
  <1>2. D # {} => top \in D /\ \A c \in D : c <= top
    <2>1. D \subseteq Nat /\ \A c \in D : c <= b
      OBVIOUS
    <2> HIDE DEF D
    <2>2. D # {} => \E m \in D : \A c \in D : c <= m
      BY <2>1, LargestNat
    <2> QED
      BY <2>2
  <1>3. end \in Nat /\ \A c \in D : c \in Nat /\ c < end
    <2>1. D \subseteq Nat
      OBVIOUS
    <2>2. end = IF D = {} THEN 0 ELSE 1 + top
      OBVIOUS
    <2> HIDE DEF D, top, end
    <2>3. CASE D = {}
      BY <2>2, <2>3
    <2>4. CASE D # {}
      <3>1. top \in Nat /\ end = 1 + top
        BY <1>2, <2>1, <2>2, <2>4
      <3> QED
        BY <1>2, <2>1, <2>4, <3>1
    <2> QED
      BY <2>3, <2>4
  <1> DEFINE size == Larger(k, end)
  <1>4. size \in Nat /\ size >= k /\ size >= end
    <2> HIDE DEF end, k
    <2> QED
      BY <1>1, <1>3, LargerOf
  <1>5. DOMAIN w = 0 .. size - 1
        /\ \A c \in 0 .. size - 1 :
             w[c] = IF c \in D THEN f[c] ELSE IF c \in DOMAIN d THEN d[c] ELSE Hole
    BY DEF WriteCells
  <1> HIDE DEF D, end, k, w, size
  <1>6. \A c \in D : c \in 0 .. size - 1
    BY <1>3, <1>4
  <1>7. \A c \in DOMAIN d : c \in 0 .. size - 1
    BY <1>1, <1>4
  <1>8. \A c \in D : Has(w, c, f[c])
    BY <1>5, <1>6 DEF Has
  <1>9. \A c, v : Has(d, c, v) /\ c \notin D => Has(w, c, v)
    BY <1>5, <1>7 DEF Has
  <1> QED
    BY <1>8, <1>9 DEF D, w

(* What a read of n cells at off returns. *)
LEMMA ReadHas ==
  ASSUME NEW d, Contiguous(d), NEW off \in Nat, NEW n \in Nat
  PROVE  /\ Len(ReadCells(d, off, n)) <= n
         /\ \A k \in 0 .. n - 1 : \A v :
               Has(d, off + k, v) => Has(ReadCells(d, off, n), k + 1, v)
  <1> DEFINE z == FileSize(d)
             got == IF off >= z THEN 0 ELSE IF off + n <= z THEN n ELSE z - off
             s == ReadCells(d, off, n)
  <1>1. z \in Nat /\ DOMAIN d = 0 .. z - 1
    BY SizeOfFile DEF Contiguous
  <1>2. s = [k \in 1 .. got |-> d[off + k - 1]]
    BY DEF ReadCells
  <1> HIDE DEF z, s
  <1>3. got \in Nat /\ got <= n /\ \A k \in 0 .. n - 1 : off + k < z => k + 1 <= got
    BY <1>1
  <1> HIDE DEF got
  <1>4. Len(s) = got
    BY <1>2, <1>3
  <1>5. ASSUME NEW k \in 0 .. n - 1, NEW v, Has(d, off + k, v)
        PROVE  Has(s, k + 1, v)
    <2>1. off + k < z /\ d[off + k] = v
      BY <1>1, <1>5 DEF Has
    <2>2. k + 1 \in 1 .. got /\ off + (k + 1) - 1 = off + k
      BY <1>3, <2>1
    <2> QED
      BY <1>2, <2>1, <2>2 DEF Has
  <1> QED
    BY <1>3, <1>4, <1>5 DEF s

-----------------------------------------------------------------------------
(* A round of the first block. *)

(* The chunk of a rank lies inside the block. *)
LEMMA ChunkInBlock ==
  ASSUME NEW m \in MoveType, NEW r \in Ranks
  PROVE  /\ Count(m, r) <= Chunk /\ Base(m) < m.n
         /\ Count(m, r) > 0 => Base(m) + r * Chunk + Count(m, r) <= m.n
  <1> DEFINE g == NProcs * Chunk
             c == r * Chunk
             x == m.n
             q == x \div Chunk
             z == x % Chunk
  <1>1. /\ NProcs \in Nat \ {0} /\ Chunk \in Nat \ {0} /\ r \in Nat /\ r < NProcs
        /\ x \in Nat \ {0}
    BY LayoutAssumption DEF Ranks, MoveType
  <1>2. g \in Nat \ {0} /\ c \in Nat /\ c + Chunk <= g
    <2>1. c + Chunk <= g
      BY <1>1, TimesLess
    <2> QED
      BY <1>1, <2>1
  <1>3. q \in Nat /\ z \in 0 .. Chunk - 1 /\ x = Chunk * q + z
    <2> HIDE DEF x
    <2> QED
      BY <1>1
  <1>4. Base(m) = (IF x < g THEN 0 ELSE x - g)
        /\ Count(m, r) = (IF ~(x < g) \/ r < q THEN Chunk ELSE IF r = q THEN z ELSE 0)
    BY DEF Base, Count, LastRound
  <1>5. r < q => c + Chunk <= Chunk * q
    <2> HIDE DEF q
    <2>1. r < q => r * Chunk + Chunk <= q * Chunk
      BY <1>1, <1>3, TimesLess
    <2>2. q * Chunk = Chunk * q
      BY <1>1, <1>3
    <2> QED
      BY <2>1, <2>2
  <1>6. r = q => c = Chunk * q
    <2> HIDE DEF q
    <2> QED
      BY <1>1, <1>3
  <1>7. Chunk * q \in Nat
    <2> HIDE DEF q
    <2> QED
      BY <1>1, <1>3
  <1> DEFINE t == Chunk * q
             b == Base(m)
             k == Count(m, r)
  <1>8. /\ t \in Nat /\ x = t + z /\ (r < q => c + Chunk <= t) /\ (r = q => c = t)
        /\ b = (IF x < g THEN 0 ELSE x - g)
        /\ k = (IF ~(x < g) \/ r < q THEN Chunk ELSE IF r = q THEN z ELSE 0)
    BY <1>3, <1>4, <1>5, <1>6, <1>7
  <1> HIDE DEF g, c, x, q, z, t, b, k
  <1>9. k <= Chunk /\ b < x
    BY <1>1, <1>2, <1>3, <1>8
  <1>10. k > 0 => b + c + k <= x
    BY <1>1, <1>2, <1>3, <1>8
  <1> QED
    BY <1>9, <1>10 DEF b, c, k, x

(* Every cell of the round belongs to a chunk, and within the count of it. *)
LEMMA CellOfChunk ==
  ASSUME NEW m \in MoveType, NEW x \in Nat, InSource(m, x), x >= m.from + Base(m)
  PROVE  \E r \in Ranks, k \in 0 .. Chunk - 1 : x = ChunkCell(m, r, k)
  <1> DEFINE b == m.from + Base(m)
             y == x - b
             r == y \div Chunk
             k == y % Chunk
             g == NProcs * Chunk
  <1>1. /\ NProcs \in Nat \ {0} /\ Chunk \in Nat \ {0} /\ m.n \in Nat \ {0}
        /\ m.from \in Nat /\ Base(m) \in Nat
    BY LayoutAssumption, RootRank, RoundTypes DEF MoveType
  <1>2. g \in Nat
    BY <1>1
  <1>3. Base(m) = IF m.n < g THEN 0 ELSE m.n - g
    BY DEF Base, LastRound
  <1>4. b \in Nat /\ y \in Nat /\ x = b + y /\ y < g
    <2> DEFINE w == m.n
               f == m.from
               e == Base(m)
    <2>1. /\ w \in Nat /\ f \in Nat /\ e \in Nat /\ e = (IF w < g THEN 0 ELSE w - g)
          /\ x < f + w /\ x >= f + e /\ b = f + e
      BY <1>1, <1>3 DEF InSource
    <2> HIDE DEF w, f, e, g, b
    <2> QED
      BY <1>2, <2>1
  <1> HIDE DEF b, y, g
  <1>5. r \in Nat /\ k \in 0 .. Chunk - 1 /\ y = Chunk * r + k
    BY <1>1, <1>4
  <1> HIDE DEF r, k
  <1>6. r < NProcs
    <2> SUFFICES ASSUME NProcs <= r PROVE FALSE
      BY <1>1, <1>5
    <2>1. g <= r * Chunk
      <3>1. CASE NProcs = r
        BY <1>2, <3>1 DEF g
      <3>2. CASE NProcs < r
        <4>1. NProcs * Chunk + Chunk <= r * Chunk /\ NProcs * Chunk \in Nat
              /\ r * Chunk \in Nat
          BY <1>1, <1>5, <3>2, TimesLess
        <4> QED
          BY <1>1, <4>1 DEF g
      <3> QED
        BY <1>1, <1>5, <3>1, <3>2
    <2>2. r * Chunk = Chunk * r /\ r * Chunk \in Nat
      BY <1>1, <1>5
    <2> QED
      BY <1>2, <1>4, <1>5, <2>1, <2>2
  <1>7. x = m.from + Base(m) + r * Chunk + k
    <2>1. r * Chunk = Chunk * r /\ r * Chunk \in Nat
      BY <1>1, <1>5
    <2> QED
      BY <1>1, <1>4, <1>5, <2>1 DEF b
  <1>8. r \in Ranks
    BY <1>1, <1>5, <1>6 DEF Ranks
  <1> QED
    BY <1>5, <1>7, <1>8 DEF ChunkCell

LEMMA CellInCount ==
  ASSUME NEW m \in MoveType, NEW r \in Ranks, NEW k \in 0 .. Chunk - 1,
         InSource(m, ChunkCell(m, r, k))
  PROVE  k < Count(m, r)
  <1> DEFINE g == NProcs * Chunk
             c == r * Chunk
             x == m.n
             f == m.from
             q == x \div Chunk
             z == x % Chunk
             b == Base(m)
             n == Count(m, r)
  <1>1. /\ NProcs \in Nat \ {0} /\ Chunk \in Nat \ {0} /\ r \in Nat /\ r < NProcs
        /\ x \in Nat \ {0} /\ f \in Nat /\ k \in Nat /\ k < Chunk
    BY LayoutAssumption DEF Ranks, MoveType
  <1>2. g \in Nat /\ c \in Nat
    BY <1>1
  <1>3. q \in Nat /\ z \in 0 .. Chunk - 1 /\ x = Chunk * q + z /\ Chunk * q \in Nat
    <2> HIDE DEF x
    <2> QED
      BY <1>1
  <1>4. /\ b = (IF x < g THEN 0 ELSE x - g)
        /\ n = (IF ~(x < g) \/ r < q THEN Chunk ELSE IF r = q THEN z ELSE 0)
    BY DEF Base, Count, LastRound
  <1>5. r = q => c = Chunk * q
    <2> HIDE DEF q
    <2> QED
      BY <1>1, <1>3
  <1>6. r > q => Chunk * q + Chunk <= c
    <2> HIDE DEF q
    <2>1. r > q => q * Chunk + Chunk <= r * Chunk
      BY <1>1, <1>3, TimesLess
    <2>2. q * Chunk = Chunk * q
      BY <1>1, <1>3
    <2> QED
      BY <2>1, <2>2
  <1>7. f + b + c + k < f + x
    BY DEF InSource, ChunkCell
  <1> DEFINE t == Chunk * q
  <1>8. /\ t \in Nat /\ x = t + z /\ (r = q => c = t) /\ (r > q => t + Chunk <= c)
    BY <1>3, <1>5, <1>6
  <1> HIDE DEF g, c, x, f, q, z, b, n, t
  <1>9. k < n
    BY <1>1, <1>2, <1>3, <1>4, <1>7, <1>8
  <1> QED
    BY <1>9 DEF n

(* Chunks do not overlap. *)
LEMMA OneChunk ==
  ASSUME NEW m \in MoveType, NEW r \in Ranks, NEW s \in Ranks, NEW k \in 0 .. Chunk - 1,
         NEW l \in 0 .. Chunk - 1, r * Chunk + k = s * Chunk + l
  PROVE  r = s /\ k = l
  <1>1. Chunk \in Nat /\ r \in Nat /\ s \in Nat /\ k \in Nat /\ l \in Nat
        /\ k < Chunk /\ l < Chunk
    BY LayoutAssumption DEF Ranks
  <1>2. r * Chunk \in Nat /\ s * Chunk \in Nat
    BY <1>1
  <1>3. 0 + k + r * Chunk = 0 + l + s * Chunk
    BY <1>1, <1>2
  <1> QED
    BY <1>1, <1>3, SameRecord

(* A value stays safe: while a rank reads its chunk, *)
LEMMA SafeRead ==
  ASSUME NEW ms \in Seq(MoveType), ms # <<>>, NEW m, m = Head(ms), NEW d, Contiguous(d),
         NEW p \in [Ranks -> Phases], NEW b,
         NEW r \in Ranks, p[r] = "read", NEW p2, Turns(p, p2, r, "readsum"),
         NEW b2,
         Turns(b, b2, r, ReadCells(d, m.from + Base(m) + r * Chunk, Count(m, r))),
         NEW x \in Nat, NEW y, NEW v, Safe(ms, x, y, v, d, p, b)
  PROVE  Safe(ms, x, y, v, d, p2, b2)
  <1> DEFINE off == m.from + Base(m) + r * Chunk
             n == Count(m, r)
             got == ReadCells(d, off, n)
  <1>1. m \in MoveType /\ ms[1] = m
    OBVIOUS
  <1>2. off \in Nat /\ n \in Nat
    BY <1>1, RoundTypes
  <1>3. /\ b2[r] = got /\ p2[r] = "readsum"
        /\ \A s \in Ranks : s # r => b2[s] = b[s] /\ p2[s] = p[s]
    BY DEF Turns
  <1>4. \A k \in 0 .. n - 1 : \A u : Has(d, off + k, u) => Has(got, k + 1, u)
    <2> HIDE DEF off, n
    <2> QED
      BY <1>2, ReadHas
  <1> HIDE DEF got
  <1>5. ASSUME NEW i \in 1 .. Len(ms), OnWay(ms, i, x, y, v, d, p, b)
        PROVE  OnWay(ms, i, x, y, v, d, p2, b2)
    <2>1. CASE ~Turn(ms, i, x)
      BY <1>5, <2>1 DEF OnWay
    <2>2. CASE Turn(ms, i, x)
      <3>1. i = 1 /\ Carries(m, x, y)
        BY <1>1, <1>5, <2>2 DEF OnWay, Turn
      <3>2. ASSUME NEW s \in Ranks, NEW k \in 0 .. Chunk - 1, x = ChunkCell(m, s, k)
            PROVE  Held(p2[s], d, b2[s], x, y, k, v)
        <4>1. Held(p[s], d, b[s], x, y, k, v)
          BY <1>1, <1>5, <2>2, <3>2 DEF OnWay
        <4>2. CASE s # r
          BY <4>1, <4>2, <1>3
        <4>3. CASE s = r
          <5>1. Has(d, x, v)
            BY <4>1, <4>3 DEF Held
          <5>2. k < n
            BY <1>1, <3>1, <3>2, <4>3, CellInCount DEF Carries
          <5>3. k \in 0 .. n - 1 /\ x = off + k
            BY <1>2, <3>2, <4>3, <5>2 DEF ChunkCell
          <5>4. Has(got, k + 1, v)
            BY <1>4, <5>1, <5>3
          <5>5. b2[s] = got /\ p2[s] = "readsum"
            BY <1>3, <4>3
          <5> QED
            BY <5>4, <5>5 DEF Held
        <4> QED
          BY <4>2, <4>3
      <3> QED
        BY <1>1, <1>5, <2>2, <3>2 DEF OnWay
    <2> QED
      BY <2>1, <2>2
  <1> QED
    BY <1>5 DEF Safe, Waiting

(* The cells a rank writes lie in the new place of the block. *)
LEMMA WrittenCells ==
  ASSUME NEW m \in MoveType, NEW r \in Ranks, NEW s, IsCells(s), Len(s) <= Count(m, r),
         NEW f, f = Block(m.to + Base(m) + r * Chunk, s)
  PROVE  /\ DOMAIN f \subseteq Nat
         /\ \A c \in DOMAIN f : /\ c >= m.to + Base(m) /\ c < m.to + m.n
                                /\ \E k \in 0 .. Chunk - 1 :
                                      c = m.to + Base(m) + r * Chunk + k
         /\ \A k \in 0 .. Chunk - 1 : \A v : Has(s, k + 1, v) =>
               Has(f, m.to + Base(m) + r * Chunk + k, v)
  <1> DEFINE off == m.to + Base(m) + r * Chunk
             n == Count(m, r)
             len == Len(s)
             bm == Base(m)
             g == r * Chunk
             to == m.to
             mn == m.n
  <1>1. /\ off \in Nat /\ n \in Nat /\ bm \in Nat /\ g \in Nat /\ n <= Chunk
        /\ (n > 0 => bm + g + n <= mn) /\ to \in Nat /\ mn \in Nat /\ off = to + bm + g
        /\ Chunk \in Nat
    BY RoundTypes, ChunkInBlock, LayoutAssumption DEF MoveType
  <1>2. len \in Nat /\ DOMAIN s = 1 .. len /\ len <= n
    BY DEF IsCells
  <1>3. f = [c \in off .. off + len - 1 |-> s[c - off + 1]]
    BY DEF Block
  <1> HIDE DEF off, n, len, bm, g, to, mn
  <1>4. ASSUME NEW c \in DOMAIN f
        PROVE  c \in Nat /\ c >= to + bm /\ c < to + mn
               /\ \E k \in 0 .. Chunk - 1 : c = off + k
    <2>1. c \in off .. off + len - 1
      BY <1>3
    <2>2. c \in Nat /\ c >= off /\ c < off + len /\ c - off \in 0 .. Chunk - 1
          /\ c = off + (c - off)
      BY <1>1, <1>2, <2>1
    <2>3. c >= to + bm /\ c < to + mn
      BY <1>1, <1>2, <2>2
    <2> QED
      BY <2>2, <2>3
  <1>5. ASSUME NEW k \in 0 .. Chunk - 1, NEW v, Has(s, k + 1, v)
        PROVE  Has(f, off + k, v)
    <2>1. k + 1 \in 1 .. len /\ s[k + 1] = v
      BY <1>2, <1>5 DEF Has
    <2>2. off + k \in off .. off + len - 1 /\ (off + k) - off + 1 = k + 1
      BY <1>1, <1>2, <2>1
    <2> QED
      BY <1>3, <2>1, <2>2 DEF Has
  <1> QED
    BY <1>4, <1>5 DEF off, bm, g, to, mn

(* The old places of the blocks after the first one, and of the cells of   *)
(* the first one still to come, lie before the cells of the round.         *)
LEMMA BeforeRound ==
  ASSUME NEW ms \in Seq(MoveType), ms # <<>>, NEW m, m = Head(ms), Descending(ms),
         NEW i \in 1 .. Len(ms), NEW x \in Nat, InSource(ms[i], x), ~Turn(ms, i, x)
  PROVE  x < m.to + Base(m)
  <1>1. m \in MoveType /\ ms[1] = m /\ ms[i] \in MoveType /\ 1 \in 1 .. Len(ms)
    OBVIOUS
  <1>2. m.from \in Nat /\ m.to \in Nat /\ Base(m) \in Nat /\ ms[i].from \in Nat
        /\ ms[i].n \in Nat
    BY <1>1, RootRank, RoundTypes DEF MoveType
  <1>3. m.from <= m.to
    BY <1>1 DEF Descending
  <1>4. CASE i = 1
    BY <1>1, <1>2, <1>3, <1>4 DEF Turn
  <1>5. CASE i # 1
    <2>1. ms[i].from + ms[i].n <= m.from
      BY <1>1, <1>5 DEF Descending
    <2> QED
      BY <1>2, <1>3, <2>1 DEF InSource
  <1> QED
    BY <1>4, <1>5

(* ... while a rank writes its chunk, *)
LEMMA SafeWrite ==
  ASSUME NEW ms \in Seq(MoveType), ms # <<>>, NEW m, m = Head(ms), Descending(ms),
         NEW d, Contiguous(d),
         NEW p \in [Ranks -> {"write", "writesum"}], NEW b,
         NEW r \in Ranks, p[r] = "write", NEW p2, Turns(p, p2, r, "writesum"),
         IsCells(b[r]), Len(b[r]) <= Count(m, r),
         NEW b2, Turns(b, b2, r, <<>>),
         NEW d2, d2 = WriteCells(d, Block(m.to + Base(m) + r * Chunk, b[r])),
         NEW x \in Nat, NEW y \in Nat, NEW v, Safe(ms, x, y, v, d, p, b)
  PROVE  Safe(ms, x, y, v, d2, p2, b2)
  <1> DEFINE off == m.to + Base(m) + r * Chunk
             f == Block(off, b[r])
             c0 == m.to + Base(m)
             end == m.to + m.n
  <1>1. m \in MoveType /\ ms[1] = m /\ 1 \in 1 .. Len(ms)
    OBVIOUS
  <1>2. /\ DOMAIN f \subseteq Nat
        /\ \A c \in DOMAIN f : /\ c >= c0 /\ c < end
                               /\ \E k \in 0 .. Chunk - 1 : c = off + k
        /\ \A k \in 0 .. Chunk - 1 : \A u : Has(b[r], k + 1, u) => Has(f, off + k, u)
    BY <1>1, WrittenCells
  <1>3. c0 \in Nat /\ end \in Nat /\ off \in Nat /\ m.to \in Nat /\ m.from \in Nat
        /\ m.n \in Nat /\ Base(m) \in Nat /\ r * Chunk \in Nat
    <2>1. m.to \in Nat /\ m.from \in Nat /\ m.n \in Nat
      BY <1>1 DEF MoveType
    <2>2. Base(m) \in Nat /\ off \in Nat /\ r * Chunk \in Nat
      BY <1>1, RoundTypes
    <2> QED
      BY <2>1, <2>2, SMTT(60)
  <1>4. d2 = WriteCells(d, f)
    OBVIOUS
  <1> HIDE DEF f
  <1>5. /\ \A c \in DOMAIN f : Has(d2, c, f[c])
        /\ \A c, u : Has(d, c, u) /\ c \notin DOMAIN f => Has(d2, c, u)
    <2>1. DOMAIN f \subseteq Nat /\ end \in Nat /\ \A c \in DOMAIN f : c <= end
      <3> HIDE DEF end
      <3> QED
        BY <1>2, <1>3, SMTT(60)
    <2> HIDE DEF end
    <2> QED
      BY <1>4, <2>1, WriteHas
  <1>6. ASSUME Moved(ms, y), Has(d, y, v) PROVE Moved(ms, y) /\ Has(d2, y, v)
    <2>1. y \notin DOMAIN f
      <3> SUFFICES ASSUME y \in DOMAIN f PROVE FALSE
        OBVIOUS
      <3>1. y >= c0 /\ y < end
        BY <1>2
      <3>2. InTarget(m, y)
        BY <1>3, <3>1 DEF InTarget
      <3> QED
        BY <1>1, <1>6, <3>2 DEF Moved
    <2> QED
      BY <1>5, <1>6, <2>1
  <1>7. ASSUME NEW i \in 1 .. Len(ms), OnWay(ms, i, x, y, v, d, p, b)
        PROVE  OnWay(ms, i, x, y, v, d2, p2, b2)
    <2>1. CASE ~Turn(ms, i, x)
      <3>1. x < c0
        BY <1>1, <1>7, <2>1, BeforeRound DEF OnWay, Carries
      <3>2. x \notin DOMAIN f
        <4> HIDE DEF c0
        <4> QED
          BY <1>2, <1>3, <3>1
      <3> QED
        BY <1>5, <1>7, <2>1, <3>2 DEF OnWay
    <2>2. CASE Turn(ms, i, x)
      <3>1. i = 1 /\ Carries(m, x, y)
        BY <1>1, <1>7, <2>2 DEF OnWay, Turn
      <3>2. ASSUME NEW s \in Ranks, NEW k \in 0 .. Chunk - 1, x = ChunkCell(m, s, k)
            PROVE  Held(p2[s], d2, b2[s], x, y, k, v)
        <4>1. Held(p[s], d, b[s], x, y, k, v)
          BY <1>1, <1>7, <2>2, <3>2 DEF OnWay
        <4>2. y = c0 + s * Chunk + k /\ s * Chunk \in Nat /\ k \in Nat
          <5>1. s * Chunk \in Nat /\ k \in Nat
            BY <1>1, RoundTypes
          <5> DEFINE q == s * Chunk
                     bm == Base(m)
                     from == m.from
                     to == m.to
          <5>2. x = from + bm + q + k /\ y + from = x + to
            BY <3>1, <3>2 DEF ChunkCell, Carries
          <5>3. c0 = to + bm /\ q \in Nat /\ bm \in Nat /\ from \in Nat /\ to \in Nat
            BY <1>3, <5>1
          <5> HIDE DEF q, bm, c0, from, to
          <5>4. y = c0 + q + k
            BY <5>1, <5>2, <5>3
          <5> QED
            BY <5>1, <5>4 DEF q
        <4>3. CASE s # r
          <5>1. y \notin DOMAIN f
            <6> SUFFICES ASSUME y \in DOMAIN f PROVE FALSE
              OBVIOUS
            <6>1. PICK l \in 0 .. Chunk - 1 : y = off + l
              BY <1>2
            <6> DEFINE q == s * Chunk
                       g == r * Chunk
            <6>2. off = c0 + g /\ g \in Nat /\ q \in Nat /\ l \in Nat
              BY <1>3, <4>2
            <6> HIDE DEF q, g, c0, off
            <6>3. y = c0 + q + k
              BY <4>2 DEF q
            <6>4. q + k = g + l
              BY <1>3, <4>2, <6>1, <6>2, <6>3, SMTT(60)
            <6>5. s = r
              BY <6>4, OneChunk DEF q, g
            <6> QED
              BY <4>3, <6>5
          <5>2. p2[s] = p[s] /\ b2[s] = b[s] /\ p[s] \in {"write", "writesum"}
            BY <4>3 DEF Turns
          <5>3. CASE p[s] = "write"
            BY <4>1, <5>2, <5>3 DEF Held
          <5>4. CASE p[s] = "writesum"
            <6>1. Has(d, y, v)
              BY <4>1, <5>4 DEF Held
            <6>2. Has(d2, y, v)
              BY <1>5, <5>1, <6>1
            <6> QED
              BY <5>2, <5>4, <6>2 DEF Held
          <5> QED
            BY <5>2, <5>3, <5>4
        <4>4. CASE s = r
          <5>1. Has(b[r], k + 1, v)
            BY <4>1, <4>4 DEF Held
          <5>2. Has(f, off + k, v)
            BY <1>2, <5>1
          <5>3. y = off + k
            BY <4>2, <4>4
          <5>4. Has(d2, y, v)
            <6> HIDE DEF off
            <6> QED
              BY <1>5, <5>2, <5>3 DEF Has
          <5>5. p2[s] = "writesum"
            BY <4>4 DEF Turns
          <5> QED
            BY <5>4, <5>5 DEF Held
        <4> QED
          BY <4>3, <4>4
      <3> QED
        BY <1>1, <1>7, <2>2, <3>2 DEF OnWay
    <2> QED
      BY <2>1, <2>2
  <1> QED
    BY <1>6, <1>7 DEF Safe, Waiting

(* The blocks left after a round. *)
LEMMA Left ==
  ASSUME NEW ms \in Seq(MoveType), ms # <<>>, NEW m, m = Head(ms),
         NEW ns, ns = AfterRound(ms)
  PROVE  IF Base(m) = 0
         THEN Len(ns) = Len(ms) - 1 /\ \A j \in 1 .. Len(ns) : ns[j] = ms[j + 1]
         ELSE /\ Len(ns) = Len(ms) /\ ns[1].to = m.to /\ ns[1].from = m.from
              /\ ns[1].n = Base(m)
              /\ \A j \in 2 .. Len(ns) : ns[j] = ms[j]
  <1> DEFINE t == Tail(ms)
             h == [m EXCEPT !.n = Base(m)]
  <1>1. /\ m \in MoveType /\ t \in Seq(MoveType) /\ Len(t) = Len(ms) - 1
        /\ Len(ms) \in Nat /\ \A j \in 1 .. Len(t) : t[j] = ms[j + 1]
    OBVIOUS
  <1>2. ns = IF Base(m) = 0 THEN t ELSE <<h>> \o t
    BY DEF AfterRound
  <1>3. h.to = m.to /\ h.from = m.from /\ h.n = Base(m)
    BY <1>1 DEF MoveType
  <1> HIDE DEF t, h
  <1>4. CASE Base(m) = 0
    BY <1>1, <1>2, <1>4
  <1>5. CASE Base(m) # 0
    <2>1. ns = <<h>> \o t
      BY <1>2, <1>5
    <2>2. Len(ns) = Len(ms) /\ ns[1] = h /\ \A j \in 2 .. Len(ns) : ns[j] = t[j - 1]
      BY <1>1, <2>1
    <2>3. \A j \in 2 .. Len(ns) : t[j - 1] = ms[j]
      <3> SUFFICES ASSUME NEW j \in 2 .. Len(ns) PROVE t[j - 1] = ms[j]
        OBVIOUS
      <3>1. j - 1 \in 1 .. Len(t) /\ (j - 1) + 1 = j
        BY <1>1, <2>2
      <3> QED
        BY <1>1, <3>1
    <2> QED
      BY <1>3, <1>5, <2>2, <2>3
  <1> QED
    BY <1>4, <1>5

LEMMA LeftDescending ==
  ASSUME NEW ms \in Seq(MoveType), ms # <<>>, Descending(ms), NEW ns, ns = AfterRound(ms)
  PROVE  Descending(ns)
  <1> DEFINE m == Head(ms)
             k == Len(ms)
  <1>1. m \in MoveType /\ ms[1] = m /\ k \in Nat /\ k >= 1
        /\ \A i \in 1 .. k : ms[i] \in MoveType
    OBVIOUS
  <1>2. /\ \A i \in 1 .. k : ms[i].from <= ms[i].to
        /\ \A i, j \in 1 .. k : i < j => /\ ms[j].from + ms[j].n <= ms[i].from
                                         /\ ms[j].to + ms[j].n <= ms[i].to
    BY DEF Descending
  <1>3. IF Base(m) = 0
         THEN Len(ns) = k - 1 /\ \A j \in 1 .. Len(ns) : ns[j] = ms[j + 1]
         ELSE /\ Len(ns) = k /\ ns[1].to = m.to /\ ns[1].from = m.from
              /\ ns[1].n = Base(m)
              /\ \A j \in 2 .. Len(ns) : ns[j] = ms[j]
    BY Left
  <1> HIDE DEF m, k
  <1>4. CASE Base(m) = 0
    <2>1. Len(ns) = k - 1 /\ \A j \in 1 .. Len(ns) : ns[j] = ms[j + 1] /\ j + 1 \in 1 .. k
      BY <1>1, <1>3, <1>4
    <2>2. \A i, j \in 1 .. Len(ns) : i < j => i + 1 < j + 1
      BY <1>1, <2>1
    <2> QED
      BY <1>2, <2>1, <2>2 DEF Descending
  <1>5. CASE Base(m) # 0
    <2>1. /\ Len(ns) = k /\ ns[1].to = ms[1].to /\ ns[1].from = ms[1].from
          /\ \A j \in 2 .. Len(ns) : ns[j] = ms[j]
      BY <1>1, <1>3, <1>5
    <2>2. \A j \in 1 .. k : ns[j].to = ms[j].to /\ ns[j].from = ms[j].from
      <3>1. \A j \in 1 .. k : j = 1 \/ j \in 2 .. k
        BY <1>1
      <3> QED
        BY <2>1, <3>1
    <2>3. \A i, j \in 1 .. k : i < j => ns[j] = ms[j]
      <3>1. \A i, j \in 1 .. k : i < j => j \in 2 .. k
        BY <1>1
      <3> QED
        BY <2>1, <3>1
    <2> QED
      BY <1>2, <2>1, <2>2, <2>3, SMTT(60) DEF Descending
  <1> QED
    BY <1>4, <1>5

(* ... and from one round to the next. *)
LEMMA SafeRound ==
  ASSUME NEW ms \in Seq(MoveType), ms # <<>>, Descending(ms), NEW ns, ns = AfterRound(ms),
         NEW d, NEW b, NEW p2, NEW b2, ns # <<>> => p2 = Everywhere("read"),
         NEW x \in Nat, NEW y \in Nat, NEW v,
         Safe(ms, x, y, v, d, Everywhere("writesum"), b)
  PROVE  Safe(ns, x, y, v, d, p2, b2)
  <1> DEFINE m == Head(ms)
             k == Len(ms)
             p == Everywhere("writesum")
  <1>1. m \in MoveType /\ ms[1] = m /\ k \in Nat /\ k >= 1 /\ 1 \in 1 .. k
        /\ \A i \in 1 .. k : ms[i] \in MoveType
    OBVIOUS
  <1>2. /\ m.to \in Nat /\ m.from \in Nat /\ m.n \in Nat /\ Base(m) \in Nat
        /\ Base(m) < m.n
    <2>1. m.to \in Nat /\ m.from \in Nat /\ m.n \in Nat
      BY <1>1 DEF MoveType
    <2> QED
      BY <1>1, <2>1, RootRank, RoundTypes, ChunkInBlock
  <1>3. IF Base(m) = 0
         THEN Len(ns) = k - 1 /\ \A j \in 1 .. Len(ns) : ns[j] = ms[j + 1]
         ELSE /\ Len(ns) = k /\ ns[1].to = m.to /\ ns[1].from = m.from
              /\ ns[1].n = Base(m)
              /\ \A j \in 2 .. Len(ns) : ns[j] = ms[j]
    BY Left
  <1>4. /\ ms[1].from <= ms[1].to
        /\ \A j \in 1 .. k : 1 < j => /\ ms[j].from + ms[j].n <= ms[1].from
                                      /\ ms[j].to + ms[j].n <= ms[1].to
    BY <1>1 DEF Descending
  <1> HIDE DEF m, k
  <1>5. ASSUME NEW j \in 1 .. Len(ns)
        PROVE  \/ Base(m) # 0 /\ j = 1 /\ ns[1].to = m.to /\ ns[1].from = m.from
                  /\ ns[1].n = Base(m)
               \/ \E i \in 2 .. k : ns[j] = ms[i]
    <2>1. CASE Base(m) = 0
      <3>1. j + 1 \in 2 .. k /\ ns[j] = ms[j + 1]
        BY <1>1, <1>3, <2>1
      <3> QED
        BY <3>1
    <2>2. CASE Base(m) # 0
      <3>1. j = 1 \/ j \in 2 .. k
        BY <1>1, <1>3, <2>2
      <3> QED
        BY <1>3, <2>2, <3>1
    <2> QED
      BY <2>1, <2>2
  <1>6. ASSUME Moved(ms, y) PROVE Moved(ns, y)
    <2> SUFFICES ASSUME NEW j \in 1 .. Len(ns), InTarget(ns[j], y) PROVE FALSE
      BY DEF Moved
    <2>1. \A i \in 1 .. k : ~InTarget(ms[i], y)
      BY <1>6 DEF Moved, k
    <2>2. CASE Base(m) # 0 /\ j = 1 /\ ns[1].to = m.to /\ ns[1].from = m.from
                  /\ ns[1].n = Base(m)
      <3>1. InTarget(m, y)
        BY <1>2, <2>2 DEF InTarget
      <3> QED
        BY <1>1, <2>1, <3>1
    <2>3. CASE \E i \in 2 .. k : ns[j] = ms[i]
      BY <2>1, <2>3
    <2> QED
      BY <1>5, <2>2, <2>3
  <1>7. ASSUME NEW j \in 1 .. Len(ns), Carries(ns[j], x, y), Has(d, x, v)
        PROVE  OnWay(ns, j, x, y, v, d, p2, b2)
    <2>1. ns # <<>>
      BY <1>7
    <2>2. \A r \in Ranks : p2[r] = "read"
      BY <2>1 DEF Everywhere
    <2>3. \A r \in Ranks : \A c : Held(p2[r], d, b2[r], x, y, c, v)
      BY <1>7, <2>2 DEF Held
    <2> QED
      BY <1>7, <2>3 DEF OnWay
  <1>8. ASSUME NEW i \in 1 .. k, OnWay(ms, i, x, y, v, d, p, b)
        PROVE  Safe(ns, x, y, v, d, p2, b2)
    <2>1. Carries(ms[i], x, y)
      BY <1>8 DEF OnWay
    <2>2. CASE Turn(ms, i, x)
      <3>1. i = 1 /\ Carries(m, x, y) /\ x >= m.from + Base(m)
        BY <1>1, <2>1, <2>2 DEF Turn
      <3>2. PICK r \in Ranks, c \in 0 .. Chunk - 1 : x = ChunkCell(m, r, c)
        BY <1>1, <3>1, CellOfChunk DEF Carries
      <3>3. Held(p[r], d, b[r], x, y, c, v)
        BY <1>1, <1>8, <2>2, <3>2 DEF OnWay
      <3>4. Has(d, y, v)
        BY <3>3 DEF Held, Everywhere
      <3>5. y >= m.to + Base(m) /\ y < m.to + m.n
        BY <1>2, <3>1, SMTT(60) DEF Carries, InSource
      <3>6. Moved(ns, y)
        <4> SUFFICES ASSUME NEW j \in 1 .. Len(ns), InTarget(ns[j], y) PROVE FALSE
          BY DEF Moved
        <4>1. CASE Base(m) # 0 /\ j = 1 /\ ns[1].to = m.to /\ ns[1].from = m.from
                  /\ ns[1].n = Base(m)
          BY <1>2, <3>5, <4>1 DEF InTarget
        <4>2. ASSUME NEW l \in 2 .. k, ns[j] = ms[l] PROVE FALSE
          <5>1. l \in 1 .. k /\ 1 < l
            BY <1>1
          <5>2. ms[l].to + ms[l].n <= m.to /\ ms[l].to \in Nat /\ ms[l].n \in Nat
            BY <1>1, <1>4, <5>1 DEF MoveType
          <5>3. y < ms[l].to + ms[l].n
            BY <4>2 DEF InTarget
          <5> DEFINE e == ms[l].to + ms[l].n
          <5>4. y < e /\ e <= m.to /\ e \in Nat
            BY <5>2, <5>3, SMTT(60)
          <5> HIDE DEF e
          <5> QED
            BY <1>2, <3>5, <5>4
        <4> QED
          BY <1>5, <4>1, <4>2
      <3> QED
        BY <3>4, <3>6 DEF Safe
    <2>3. CASE ~Turn(ms, i, x)
      <3>1. Has(d, x, v)
        BY <1>8, <2>3 DEF OnWay
      <3>2. \E j \in 1 .. Len(ns) : Carries(ns[j], x, y)
        <4>1. CASE i = 1
          <5>1. x < m.from + Base(m) /\ InSource(m, x) /\ y + m.from = x + m.to
            BY <1>1, <1>2, <2>1, <2>3, <4>1 DEF Turn, Carries
          <5>2. Base(m) # 0
            BY <1>2, <5>1 DEF InSource
          <5>3. 1 \in 1 .. Len(ns) /\ ns[1].from = m.from /\ ns[1].to = m.to
                /\ ns[1].n = Base(m)
            BY <1>1, <1>3, <5>2
          <5>4. Carries(ns[1], x, y)
            BY <5>1, <5>3 DEF Carries, InSource
          <5> QED
            BY <5>3, <5>4
        <4>2. CASE i # 1
          <5>1. i \in 2 .. k
            BY <1>1, <4>2
          <5>2. CASE Base(m) = 0
            <6>1. i - 1 \in 1 .. Len(ns) /\ (i - 1) + 1 = i
              BY <1>1, <1>3, <5>1, <5>2
            <6>2. ns[i - 1] = ms[i]
              BY <1>3, <5>2, <6>1
            <6> QED
              BY <2>1, <6>1, <6>2
          <5>3. CASE Base(m) # 0
            <6>1. i \in 2 .. Len(ns) /\ i \in 1 .. Len(ns)
              BY <1>1, <1>3, <5>1, <5>3
            <6>2. ns[i] = ms[i]
              BY <1>3, <5>3, <6>1
            <6> QED
              BY <2>1, <6>1, <6>2
          <5> QED
            BY <5>2, <5>3
        <4> QED
          BY <4>1, <4>2
      <3>3. PICK j \in 1 .. Len(ns) : Carries(ns[j], x, y)
        BY <3>2
      <3>4. OnWay(ns, j, x, y, v, d, p2, b2)
        BY <1>7, <3>1, <3>3
      <3> QED
        BY <3>4 DEF Safe, Waiting
    <2> QED
      BY <2>2, <2>3
  <1> QED
    BY <1>6, <1>8 DEF Safe, Waiting, k

-----------------------------------------------------------------------------
(* Where NC_begins puts the fixed-size variables. *)

LEMMA RoundMore ==
  ASSUME NEW x \in Nat, NEW y \in Nat, x <= y, NEW a \in Nat \ {0}
  PROVE  RndUp(x, a) <= RndUp(y, a)
  <1> DEFINE xx == x + a - 1
             yy == y + a - 1
             q == xx \div a
             z == yy \div a
             r == xx % a
             w == yy % a
  <1>1. xx \in Nat /\ yy \in Nat /\ xx <= yy
    OBVIOUS
  <1> HIDE DEF xx, yy
  <1>2. /\ q \in Nat /\ r \in 0 .. a - 1 /\ xx = a * q + r
        /\ z \in Nat /\ w \in 0 .. a - 1 /\ yy = a * z + w
    BY <1>1
  <1> HIDE DEF q, z, r, w
  <1>3. /\ q * a = a * q /\ z * a = a * z /\ q * a \in Nat /\ z * a \in Nat
    BY <1>2
  <1>4. ~(z < q)
    <2> SUFFICES ASSUME z < q PROVE FALSE
      OBVIOUS
    <2>1. z * a + a <= q * a
      BY <1>2, TimesLess
    <2> DEFINE s == q * a
               t == z * a
    <2>2. t + a <= s /\ xx = s + r /\ yy = t + w /\ s \in Nat /\ t \in Nat
      BY <2>1, <1>2, <1>3
    <2> HIDE DEF s, t
    <2> QED
      BY <1>1, <1>2, <2>2
  <1>5. q * a <= z * a
    <2>1. CASE q = z
      BY <1>3, <2>1
    <2>2. CASE q < z
      <3>1. q * a + a <= z * a
        BY <1>2, <2>2, TimesLess
      <3> QED
        BY <1>3, <3>1
    <2> QED
      BY <1>2, <1>4, <2>1, <2>2
  <1>6. RndUp(x, a) = q * a /\ RndUp(y, a) = z * a
    BY DEF RndUp, q, z, xx, yy
  <1> QED
    BY <1>5, <1>6

LEMMA RoundMultiple ==
  ASSUME NEW q \in Nat, NEW a \in Nat \ {0}
  PROVE  RndUp(q * a, a) = q * a
  <1> DEFINE s == q * a
             y == s + a - 1
             z == y \div a
             r == y % a
  <1>1. s \in Nat /\ y \in Nat /\ y = s + (a - 1)
    OBVIOUS
  <1> HIDE DEF y
  <1>2. z \in Nat /\ r \in 0 .. a - 1 /\ y = a * z + r /\ a * z = z * a /\ z * a \in Nat
    BY <1>1
  <1> HIDE DEF z, r
  <1>3. 0 + r + z * a = 0 + (a - 1) + q * a
    BY <1>1, <1>2
  <1>4. r \in Nat /\ r < a /\ a - 1 \in Nat /\ a - 1 < a
    BY <1>2
  <1> DEFINE c == a - 1
  <1>5. c \in Nat /\ c < a /\ 0 + r + z * a = 0 + c + q * a
    BY <1>3, <1>4
  <1> HIDE DEF c
  <1>6. z = q
    BY <1>2, <1>4, <1>5, SameRecord
  <1> QED
    BY <1>6 DEF RndUp, y, z

(* An alignment that was rounded once stays. *)
LEMMA GrainStays ==
  ASSUME NEW x \in Nat
  PROVE  Grain(x) \in Nat \ {0} /\ Grain(Grain(x)) = Grain(x)
  <1>1. Pad \in Nat \ {0}
    BY LayoutAssumption
  <1>2. CASE x = 0
    <2>1. Grain(x) = Pad
      BY <1>2 DEF Grain
    <2>2. RndUp(1 * Pad, Pad) = 1 * Pad /\ 1 * Pad = Pad
      BY <1>1, RoundMultiple
    <2> QED
      BY <1>1, <2>1, <2>2 DEF Grain
  <1>3. CASE x # 0
    <2> DEFINE q == (x + Pad - 1) \div Pad
               y == RndUp(x, Pad)
    <2>1. y \in Nat /\ y >= x
      BY <1>1, RoundUp
    <2>2. y = q * Pad
      BY DEF RndUp
    <2>3. q \in Nat
      <3> DEFINE w == x + Pad - 1
      <3>1. w \in Nat
        BY <1>1
      <3> HIDE DEF w
      <3>2. w \div Pad \in Nat
        BY <1>1, <3>1
      <3> QED
        BY <3>2 DEF w
    <2> HIDE DEF q, y
    <2>4. RndUp(y, Pad) = y
      BY <1>1, <2>2, <2>3, RoundMultiple
    <2>5. Grain(x) = y
      BY <1>3 DEF Grain, y
    <2>6. y # 0
      BY <1>3, <2>1
    <2> QED
      BY <2>1, <2>4, <2>5, <2>6 DEF Grain
  <1> QED
    BY <1>2, <1>3

LEMMA AlignedGrain ==
  ASSUME NEW a, NEW args, NEW n
  PROVE  Aligned(a, args, n).fx = Grain(a.fx)
  BY DEF Aligned, Grain

(* A fixed-size variable is the first, stays where it was, or follows one  *)
(* of those before it.                                                     *)
Packed(n, o, grain) ==
    \A i \in 1 .. Len(n.vars) : ~n.vars[i].rec =>
       /\ n.vars[i].begin >= OldBegin(o, i)
       /\ \/ \A j \in 1 .. i - 1 : n.vars[j].rec
          \/ n.vars[i].begin = OldBegin(o, i)
          \/ \E j \in 1 .. i - 1 :
                /\ ~n.vars[j].rec
                /\ n.vars[i].begin = RndUp(n.vars[j].begin + VLen(n.vars[j]), grain)

(* The places of the first pass over the variables: after variable i it is *)
(* where the last fixed-size one so far ends.                              *)
EndsThere(n, p, i, j) == ~n.vars[j].rec /\ p[i].end = p[j].begin + VLen(n.vars[j])

LEMMA PlaceEnds ==
  ASSUME NEW n \in MetaType, NEW o \in OldType, NEW start \in Nat,
         NEW grain \in Nat \ {0}, NEW p, p = Place(n, o, start, grain),
         NEW i \in 0 .. Len(n.vars)
  PROVE  \/ \A j \in 1 .. i : n.vars[j].rec
         \/ \E j \in 1 .. i : EndsThere(n, p, i, j)
  <1> DEFINE k == Len(n.vars)
             Some(m) == \E j \in 1 .. m : EndsThere(n, p, m, j)
             P == {m \in 0 .. k : (\A j \in 1 .. m : n.vars[j].rec) \/ Some(m)}
  <1>1. k \in Nat
    BY Kinds
  <1>2. \A m \in 1 .. k : IF n.vars[m].rec THEN p[m] = p[m - 1]
                          ELSE p[m].end = p[m].begin + VLen(n.vars[m])
    BY FixedPlaces, SMTT(60)
  <1>3. 0 \in P
    BY <1>1
  <1>4. \A m \in 1 .. k : m - 1 \in P => m \in P
    <2> SUFFICES ASSUME NEW m \in 1 .. k, m - 1 \in P PROVE m \in P
      OBVIOUS
    <2>1. m \in 0 .. k /\ m \in 1 .. m /\ \A j \in 1 .. m : j = m \/ j \in 1 .. m - 1
      BY <1>1
    <2>2. \A j \in 1 .. m - 1 : j \in 1 .. m
      BY <1>1
    <2>3. CASE ~n.vars[m].rec
      <3>1. Some(m)
        BY <1>2, <2>1, <2>3 DEF EndsThere
      <3> HIDE DEF Some
      <3> QED
        BY <2>1, <3>1
    <2>4. CASE n.vars[m].rec /\ \A j \in 1 .. m - 1 : n.vars[j].rec
      <3>1. \A j \in 1 .. m : n.vars[j].rec
        BY <2>1, <2>4
      <3> HIDE DEF Some
      <3> QED
        BY <2>1, <3>1
    <2>5. CASE n.vars[m].rec /\ Some(m - 1)
      <3>1. p[m] = p[m - 1]
        BY <1>2, <2>5
      <3>2. Some(m)
        BY <2>2, <2>5, <3>1 DEF EndsThere
      <3> HIDE DEF Some
      <3> QED
        BY <2>1, <3>2
    <2> HIDE DEF Some
    <2> QED
      BY <2>3, <2>4, <2>5
  <1>5. \A m \in 0 .. k : m \in P
    <2> HIDE DEF P
    <2> QED
      BY <1>1, <1>3, <1>4, LoopInduction
  <1> QED
    BY <1>5

LEMMA NcFixed ==
  ASSUME NEW n \in MetaType, NEW o \in OldType, Grown(n, o), NEW a \in Units,
         NEW args \in ArgType, NEW m, m = NC_begins(n, o, a, args)
  PROVE  Tight(m, a.fx) /\ Packed(m, o, a.fx)
  <1> DEFINE k == Len(n.vars)
             g == a.fx
             start == Extent(n, o, a, args)
             p == Place(n, o, start, g)
             rec0 == BeginRec(n, o, a, args.v_minfree, p[k].end)
             begin(i) == IF n.vars[i].rec
                         THEN Larger(rec0 + RecLens(n)[i - 1], OldBegin(o, i))
                         ELSE p[i].begin
             placed == [i \in DOMAIN n.vars |-> [n.vars[i] EXCEPT !.begin = begin(i)]]
             F == OfKind(n, FALSE)
             head == IF F = {} THEN rec0 ELSE placed[First(F)].begin
  <1>1. m = [n EXCEPT !.vars = placed, !.begin_rec = rec0, !.recsize = RecSize(n),
                      !.begin_var = head]
    BY DEF NC_begins
  <1> HIDE DEF start, p, rec0, head, begin
  <1>2. /\ k \in Nat /\ DOMAIN n.vars = 1 .. k /\ g \in Nat \ {0}
    BY Kinds DEF Units
  <1>3. start \in Nat
    BY ExtentFits DEF start
  <1>4. m.vars = placed
    <2> HIDE DEF placed
    <2> QED
      BY <1>1 DEF MetaType
  <1>5. Len(m.vars) = k /\ \A i \in 1 .. k : /\ m.vars[i].rec = n.vars[i].rec
                                             /\ VLen(m.vars[i]) = VLen(n.vars[i])
    <2>1. Len(m.vars) = k /\ Extends(m, n)
      BY NcBegins
    <2> QED
      BY <2>1 DEF Extends, VLen
  <1>6. \A i \in 1 .. k : ~n.vars[i].rec => m.vars[i].begin = p[i].begin
    <2> SUFFICES ASSUME NEW i \in 1 .. k, ~n.vars[i].rec
                 PROVE  m.vars[i].begin = p[i].begin
      OBVIOUS
    <2>1. begin(i) = p[i].begin
      BY DEF begin
    <2>2. n.vars[i] \in VarType
      BY Kinds
    <2>3. m.vars[i] = [n.vars[i] EXCEPT !.begin = begin(i)]
      BY <1>2, <1>4
    <2> QED
      BY <2>1, <2>2, <2>3 DEF VarType
  <1> HIDE DEF placed
  <1>7. /\ \A i \in 0 .. k : p[i].begin \in Nat /\ p[i].end \in Nat
        /\ \A i, j \in 0 .. k : i <= j => p[i].end <= p[j].end
        /\ \A i \in 1 .. k : ~n.vars[i].rec =>
              /\ p[i].begin >= OldBegin(o, i)
              /\ p[i].end = p[i].begin + VLen(n.vars[i])
    <2>1. p = Place(n, o, start, g)
      BY DEF p
    <2> HIDE DEF g
    <2>2. /\ \A i \in 0 .. Len(n.vars) : p[i].begin \in Nat /\ p[i].end \in Nat
          /\ \A i, j \in 0 .. Len(n.vars) : i <= j => p[i].end <= p[j].end
      BY <2>1, <1>2, <1>3, FixedPlaces, SMTT(60)
    <2>3. \A i \in 1 .. Len(n.vars) : ~n.vars[i].rec =>
              /\ p[i].begin >= OldBegin(o, i)
              /\ p[i].end = p[i].begin + VLen(n.vars[i])
      BY <2>1, <1>2, <1>3, FixedPlaces, SMTT(60)
    <2> QED
      BY <2>2, <2>3
  <1>8. \A i \in 1 .. k : ~n.vars[i].rec =>
            p[i].begin = Larger(RndUp(p[i - 1].end, g), OldBegin(o, i))
    <2> SUFFICES ASSUME NEW i \in 1 .. k, ~n.vars[i].rec
                 PROVE  p[i].begin = Larger(RndUp(p[i - 1].end, g), OldBegin(o, i))
      OBVIOUS
    <2>1. p = Place(n, o, start, g)
      BY DEF p
    <2>2. p[i] = PlaceNext(n, o, g, i, p[i - 1])
      <3> HIDE DEF g
      <3> QED
        BY <2>1, <1>2, <1>3, PlaceLoop
    <2> QED
      BY <2>2 DEF PlaceNext
  <1>9. \A i \in 0 .. k : \/ \A j \in 1 .. i : n.vars[j].rec
                          \/ \E j \in 1 .. i : EndsThere(n, p, i, j)
    <2>1. p = Place(n, o, start, g)
      BY DEF p
    <2> SUFFICES ASSUME NEW i \in 0 .. k
                 PROVE  \/ \A j \in 1 .. i : n.vars[j].rec
                        \/ \E j \in 1 .. i : EndsThere(n, p, i, j)
      OBVIOUS
    <2>2. i \in 0 .. Len(n.vars) /\ g \in Nat \ {0} /\ start \in Nat
      BY <1>2, <1>3
    <2> HIDE DEF g, k
    <2> QED
      BY <2>1, <2>2, PlaceEnds
  <1> HIDE DEF g, k
  <1>10. ASSUME NEW i \in 1 .. k, ~n.vars[i].rec
         PROVE  /\ p[i].begin >= RndUp(p[i - 1].end, g)
                /\ RndUp(p[i - 1].end, g) \in Nat
                /\ p[i].begin = RndUp(p[i - 1].end, g) \/ p[i].begin = OldBegin(o, i)
    <2>1. i - 1 \in 0 .. k
      BY <1>2
    <2>2. RndUp(p[i - 1].end, g) \in Nat
      BY <1>2, <1>7, <2>1, RoundUp
    <2>3. OldBegin(o, i) \in Nat
      BY OldBegins
    <2> DEFINE u == RndUp(p[i - 1].end, g)
               w == OldBegin(o, i)
    <2>4. u \in Nat /\ w \in Nat /\ p[i].begin = Larger(u, w)
      BY <1>8, <1>10, <2>2, <2>3
    <2> HIDE DEF u, w
    <2>5. p[i].begin >= u /\ (p[i].begin = u \/ p[i].begin = w)
      BY <2>4 DEF Larger
    <2> QED
      BY <2>2, <2>5 DEF u, w
  <1>11. Tight(m, g)
    <2> SUFFICES ASSUME NEW i \in 1 .. k, NEW j \in 1 .. k, i < j, ~n.vars[i].rec,
                        ~n.vars[j].rec
                 PROVE  RndUp(p[i].begin + VLen(n.vars[i]), g) <= p[j].begin
      BY <1>5, <1>6 DEF Tight
    <2>1. i \in 0 .. k /\ j - 1 \in 0 .. k /\ j \in 0 .. k /\ i <= j - 1
      BY <1>2
    <2>2. p[i].end <= p[j - 1].end /\ p[i].end \in Nat /\ p[j - 1].end \in Nat
          /\ p[j].begin \in Nat
      BY <1>7, <2>1
    <2>3. RndUp(p[i].end, g) <= RndUp(p[j - 1].end, g)
      BY <1>2, <2>2, RoundMore
    <2>4. p[j].begin >= RndUp(p[j - 1].end, g) /\ RndUp(p[j - 1].end, g) \in Nat
      BY <1>10
    <2>5. RndUp(p[i].end, g) \in Nat
      BY <1>2, <2>2, RoundUp
    <2>6. RndUp(p[i].end, g) <= p[j].begin
      BY <2>2, <2>3, <2>4, <2>5
    <2> QED
      BY <1>7, <2>6
  <1>12. Packed(m, o, g)
    <2> SUFFICES ASSUME NEW i \in 1 .. k, ~n.vars[i].rec
                 PROVE  /\ p[i].begin >= OldBegin(o, i)
                        /\ \/ \A j \in 1 .. i - 1 : m.vars[j].rec
                           \/ p[i].begin = OldBegin(o, i)
                           \/ \E j \in 1 .. i - 1 :
                                 /\ ~m.vars[j].rec
                                 /\ p[i].begin = RndUp(m.vars[j].begin + VLen(m.vars[j]), g)
      BY <1>5, <1>6 DEF Packed
    <2>1. i - 1 \in 0 .. k /\ \A j \in 1 .. i - 1 : j \in 1 .. k
      BY <1>2
    <2>2. p[i].begin >= OldBegin(o, i)
      BY <1>7
    <2>3. CASE \A j \in 1 .. i - 1 : n.vars[j].rec
      BY <1>5, <2>1, <2>2, <2>3
    <2>4. ASSUME NEW j \in 1 .. i - 1, EndsThere(n, p, i - 1, j)
          PROVE  \/ p[i].begin = OldBegin(o, i)
                 \/ /\ ~m.vars[j].rec
                    /\ p[i].begin = RndUp(m.vars[j].begin + VLen(m.vars[j]), g)
      BY <1>5, <1>6, <1>10, <2>1, <2>4 DEF EndsThere
    <2> QED
      BY <1>9, <2>1, <2>2, <2>3, <2>4
  <1> QED
    BY <1>11, <1>12 DEF g

LEMMA FirstIs ==
  ASSUME NEW S, S \subseteq Nat, NEW b \in S, \A j \in S : b <= j
  PROVE  First(S) = b
  <1>1. First(S) \in S /\ \A j \in S : First(S) <= j
    BY FirstOf
  <1>2. First(S) \in Nat /\ b \in Nat /\ First(S) <= b /\ b <= First(S)
    BY <1>1
  <1> QED
    BY <1>2

(* Variables before the header's growth stay when none of them is pushed:  *)
(* if the first fixed-size variable keeps its place, so do the others.     *)
LEMMA Unmoved ==
  ASSUME NEW n \in MetaType, NEW o \in MetaType, LaidOut(n), LaidOut(o), Extends(n, o),
         NEW g \in Nat \ {0}, Packed(n, o, g), Tight(o, g), n.begin_var = o.begin_var,
         NEW i \in 1 .. Len(o.vars), ~o.vars[i].rec
  PROVE  n.vars[i].begin = o.vars[i].begin
  <1> DEFINE k == Len(o.vars)
             Bad == {j \in 1 .. k : ~o.vars[j].rec /\ n.vars[j].begin # o.vars[j].begin}
  <1>1. k \in Nat /\ DOMAIN o.vars = 1 .. k /\ k <= Len(n.vars) /\ Len(n.vars) \in Nat
        /\ \A j \in 1 .. k : /\ j \in 1 .. Len(n.vars) /\ n.vars[j].rec = o.vars[j].rec
                             /\ VLen(n.vars[j]) = VLen(o.vars[j])
                             /\ OldBegin(o, j) = o.vars[j].begin
    <2>1. k \in Nat /\ DOMAIN o.vars = 1 .. k /\ k <= Len(n.vars) /\ Len(n.vars) \in Nat
      BY Kinds DEF Extends
    <2>2. \A j \in 1 .. k : n.vars[j].rec = o.vars[j].rec
                            /\ VLen(n.vars[j]) = VLen(o.vars[j])
      BY DEF Extends, VLen
    <2>3. o # None
      BY NotNone
    <2> QED
      BY <2>1, <2>2, <2>3 DEF OldBegin
  <1>2. SUFFICES ASSUME Bad # {} PROVE FALSE
    OBVIOUS
  <1>3. PICK b \in Bad : \A j \in Bad : b <= j
    <2>1. Bad \subseteq Nat
      OBVIOUS
    <2> HIDE DEF Bad
    <2> QED
      BY <1>2, <2>1, LeastNat
  <1>4. b \in 1 .. k /\ ~o.vars[b].rec /\ n.vars[b].begin # o.vars[b].begin
        /\ b \in 1 .. Len(n.vars) /\ ~n.vars[b].rec
    BY <1>1
  <1>5. \A j \in 1 .. b - 1 : j \in 1 .. k /\ j < b /\
           (~o.vars[j].rec => n.vars[j].begin = o.vars[j].begin)
    BY <1>1, <1>3
  <1>6. n.vars[b].begin \in Nat /\ o.vars[b].begin \in Nat
    BY <1>4, Kinds, Lengths
  <1> HIDE DEF Bad
  <1>7. CASE \A j \in 1 .. b - 1 : n.vars[j].rec
    <2>1. /\ b \in OfKind(n, FALSE) /\ \A j \in OfKind(n, FALSE) : b <= j
          /\ b \in OfKind(o, FALSE) /\ \A j \in OfKind(o, FALSE) : b <= j
      <3>1. b \in OfKind(n, FALSE) /\ b \in OfKind(o, FALSE)
        BY <1>1, <1>4, Kinds DEF OfKind
      <3>2. ASSUME NEW j \in OfKind(n, FALSE) PROVE b <= j
        <4>1. j \in 1 .. Len(n.vars) /\ ~n.vars[j].rec
          BY Kinds
        <4>2. j \notin 1 .. b - 1
          BY <1>7, <4>1
        <4> QED
          BY <1>4, <4>1, <4>2
      <3>3. ASSUME NEW j \in OfKind(o, FALSE) PROVE b <= j
        <4>1. j \in 1 .. k /\ ~o.vars[j].rec
          BY Kinds
        <4>2. j \notin 1 .. b - 1
          BY <1>1, <1>7, <4>1
        <4> QED
          BY <1>1, <1>4, <4>1, <4>2
      <3> QED
        BY <3>1, <3>2, <3>3
    <2>2. First(OfKind(n, FALSE)) = b
      <3> DEFINE S == OfKind(n, FALSE)
      <3>0. S \subseteq 1 .. Len(n.vars) /\ Len(n.vars) \in Nat
        BY Kinds
      <3>1. b \in S /\ \A j \in S : b <= j
        BY <2>1
      <3> HIDE DEF S
      <3>2. S \subseteq Nat
        BY <3>0
      <3>3. First(S) = b
        BY <3>1, <3>2, FirstIs
      <3> QED
        BY <3>3 DEF S
    <2>3. First(OfKind(o, FALSE)) = b
      <3> DEFINE S == OfKind(o, FALSE)
      <3>0. S \subseteq 1 .. Len(o.vars) /\ Len(o.vars) \in Nat
        BY Kinds
      <3>1. b \in S /\ \A j \in S : b <= j
        BY <2>1
      <3> HIDE DEF S
      <3>2. S \subseteq Nat
        BY <3>0
      <3>3. First(S) = b
        BY <3>1, <3>2, FirstIs
      <3> QED
        BY <3>3 DEF S
    <2>4. n.begin_var = n.vars[b].begin
      BY <2>1, <2>2 DEF LaidOut, HeaderLaid
    <2>5. o.begin_var = o.vars[b].begin
      BY <2>1, <2>3 DEF LaidOut, HeaderLaid
    <2> QED
      BY <1>4, <2>4, <2>5
  <1>8. CASE n.vars[b].begin = OldBegin(o, b)
    BY <1>1, <1>4, <1>8
  <1>9. ASSUME NEW j \in 1 .. b - 1, ~n.vars[j].rec,
               n.vars[b].begin = RndUp(n.vars[j].begin + VLen(n.vars[j]), g)
        PROVE  FALSE
    <2>1. j \in 1 .. k /\ j < b /\ ~o.vars[j].rec /\ n.vars[j].begin = o.vars[j].begin
          /\ VLen(n.vars[j]) = VLen(o.vars[j])
      BY <1>1, <1>5, <1>9
    <2>2. RndUp(o.vars[j].begin + VLen(o.vars[j]), g) <= o.vars[b].begin
      BY <1>4, <2>1 DEF Tight
    <2>3. n.vars[b].begin <= o.vars[b].begin
      BY <1>9, <2>1, <2>2
    <2>4. n.vars[b].begin >= o.vars[b].begin
      BY <1>1, <1>4 DEF Packed
    <2> QED
      BY <1>4, <1>6, <2>3, <2>4, SMTT(60)
  <1> QED
    BY <1>4, <1>7, <1>8, <1>9 DEF Packed

-----------------------------------------------------------------------------
(* The blocks that are moved. *)

(* Two lists of blocks one after the other. *)
LEMMA Places ==
  ASSUME NEW s \in Seq(MoveType), NEW t \in Seq(MoveType), NEW u, u = s \o t
  PROVE  /\ u \in Seq(MoveType) /\ Len(u) = Len(s) + Len(t)
         /\ Len(s) \in Nat /\ Len(t) \in Nat
         /\ \A a \in 1 .. Len(s) : a \in 1 .. Len(u) /\ u[a] = s[a]
         /\ \A b \in 1 .. Len(t) : Len(s) + b \in 1 .. Len(u) /\ u[Len(s) + b] = t[b]
         /\ \A a \in 1 .. Len(u) : a \in 1 .. Len(s) \/ a - Len(s) \in 1 .. Len(t)
  <1>1. u \in Seq(MoveType) /\ Len(u) = Len(s) + Len(t) /\ Len(s) \in Nat /\ Len(t) \in Nat
    OBVIOUS
  <1>2. \A a \in 1 .. Len(u) : u[a] = IF a <= Len(s) THEN s[a] ELSE t[a - Len(s)]
    OBVIOUS
  <1>3. ASSUME NEW b \in 1 .. Len(t) PROVE Len(s) + b \in 1 .. Len(u) /\ u[Len(s) + b] = t[b]
    <2>1. Len(s) + b \in 1 .. Len(u) /\ ~(Len(s) + b <= Len(s)) /\ (Len(s) + b) - Len(s) = b
      BY <1>1
    <2> QED
      BY <1>2, <2>1
  <1>4. ASSUME NEW a \in 1 .. Len(s) PROVE a \in 1 .. Len(u) /\ u[a] = s[a]
    BY <1>1, <1>2
  <1>5. \A a \in 1 .. Len(u) : a \in 1 .. Len(s) \/ a - Len(s) \in 1 .. Len(t)
    BY <1>1
  <1> QED
    BY <1>1, <1>3, <1>4, <1>5

(* All blocks of t lie before those of s. *)
Before(s, t) ==
    \A a \in 1 .. Len(s), b \in 1 .. Len(t) : /\ t[b].from + t[b].n <= s[a].from
                                              /\ t[b].to + t[b].n <= s[a].to

LEMMA Joined ==
  ASSUME NEW s \in Seq(MoveType), NEW t \in Seq(MoveType), Descending(s), Descending(t),
         Before(s, t), NEW u, u = s \o t
  PROVE  Descending(u)
  <1>1. /\ Len(u) = Len(s) + Len(t) /\ Len(s) \in Nat /\ Len(t) \in Nat
        /\ \A a \in 1 .. Len(s) : u[a] = s[a]
        /\ \A b \in 1 .. Len(t) : u[Len(s) + b] = t[b]
        /\ \A a \in 1 .. Len(u) : a \in 1 .. Len(s) \/ a - Len(s) \in 1 .. Len(t)
    BY Places
  <1>2. \A a \in 1 .. Len(u) : a - Len(s) \in 1 .. Len(t) => u[a] = t[a - Len(s)]
    BY <1>1
  <1>3. ASSUME NEW a \in 1 .. Len(u) PROVE u[a].from <= u[a].to
    BY <1>1, <1>2 DEF Descending
  <1>4. ASSUME NEW a \in 1 .. Len(u), NEW b \in 1 .. Len(u), a < b
        PROVE  u[b].from + u[b].n <= u[a].from /\ u[b].to + u[b].n <= u[a].to
    <2>1. CASE b \in 1 .. Len(s)
      <3>1. a \in 1 .. Len(s)
        BY <1>1, <1>4, <2>1
      <3> QED
        BY <1>1, <1>4, <2>1, <3>1 DEF Descending
    <2>2. CASE a \in 1 .. Len(s) /\ b - Len(s) \in 1 .. Len(t)
      BY <1>1, <1>2, <2>2 DEF Before
    <2>3. CASE a - Len(s) \in 1 .. Len(t) /\ b - Len(s) \in 1 .. Len(t)
      <3>1. a - Len(s) < b - Len(s)
        BY <1>1, <1>4
      <3> QED
        BY <1>2, <2>3, <3>1 DEF Descending
    <2> QED
      BY <1>1, <2>1, <2>2, <2>3
  <1> QED
    BY <1>3, <1>4 DEF Descending

(* The list has the blocks of the moved variables among the first i. *)
Lists(s, n, o, i) ==
    /\ \A a \in 1 .. Len(s) : \E v \in 1 .. i : ~StaysPut(n, o, v) /\ s[a] = BlockOf(n, o, v)
    /\ \A v \in 1 .. i : ~StaysPut(n, o, v) =>
          \E a \in 1 .. Len(s) : s[a] = BlockOf(n, o, v)
    /\ Descending(s)

(* What the block of a fixed-size variable that is moved is. *)
LEMMA FixedBlock ==
  ASSUME NEW n \in MetaType, NEW o \in MetaType, LaidOut(n), LaidOut(o), Extends(n, o),
         NEW v \in 1 .. Len(o.vars), ~StaysPut(n, o, v), NEW m, m = BlockOf(n, o, v)
  PROVE  /\ m.to = n.vars[v].begin /\ m.from = o.vars[v].begin /\ m.n = VLen(n.vars[v])
         /\ m.n = VLen(o.vars[v]) /\ m.from < m.to /\ m \in MoveType
         /\ ~o.vars[v].rec /\ ~n.vars[v].rec /\ v \in 1 .. Len(n.vars)
         /\ m.from + m.n <= o.begin_rec /\ m.to + m.n <= n.begin_rec
  <1>1. v \in 1 .. Len(n.vars)
    BY Kinds DEF Extends
  <1>2. /\ n.vars[v].begin \in Nat /\ o.vars[v].begin \in Nat
        /\ VLen(n.vars[v]) \in Nat \ {0}
    BY <1>1, Kinds, Lengths
  <1>3. m.to = n.vars[v].begin /\ m.from = o.vars[v].begin /\ m.n = VLen(n.vars[v])
        /\ m \in MoveType
    BY <1>2 DEF BlockOf, Move, MoveType
  <1>4. VLen(n.vars[v]) = VLen(o.vars[v]) /\ n.vars[v].rec = o.vars[v].rec
    BY DEF Extends, VLen
  <1>5. ~o.vars[v].rec /\ ~(n.vars[v].begin <= o.vars[v].begin)
    BY DEF StaysPut
  <1>6. m.from + m.n <= o.begin_rec
    BY <1>3, <1>4, <1>5 DEF LaidOut, FixedLaid
  <1>7. m.to + m.n <= n.begin_rec
    BY <1>1, <1>3, <1>4, <1>5 DEF LaidOut, FixedLaid
  <1>8. m.from < m.to
    BY <1>2, <1>3, <1>5
  <1> QED
    BY <1>1, <1>3, <1>4, <1>5, <1>6, <1>7, <1>8

LEMMA FixedMovesListed ==
  ASSUME NEW n \in MetaType, NEW o \in MetaType, LaidOut(n), LaidOut(o), Extends(n, o)
  PROVE  Lists(FixedMoves(n, o), n, o, Len(o.vars))
  <1> DEFINE k == Len(o.vars)
  <1>1. k \in Nat /\ Len(n.vars) >= k
    BY Kinds DEF Extends
  <1>2. PICK s : /\ FixedMoves(n, o) = s[k] /\ s[0] = <<>>
                 /\ \A i \in 0 .. k : s[i] \in Seq(MoveType)
                 /\ \A i \in 1 .. k :
                      s[i] = IF StaysPut(n, o, i) THEN s[i - 1]
                             ELSE <<BlockOf(n, o, i)>> \o s[i - 1]
    BY <1>1, FixedMovesLoop
  <1> DEFINE P == {i \in 0 .. k : Lists(s[i], n, o, i)}
  <1>3. 0 \in P
    <2>1. Lists(<<>>, n, o, 0)
      BY DEF Lists, Descending
    <2> QED
      BY <1>1, <1>2, <2>1
  <1>4. \A i \in 1 .. k : i - 1 \in P => i \in P
    <2> SUFFICES ASSUME NEW i \in 1 .. k, i - 1 \in P PROVE i \in P
      OBVIOUS
    <2> DEFINE t == s[i - 1]
               m == BlockOf(n, o, i)
    <2>1. /\ i \in 0 .. k /\ i - 1 \in 0 .. k /\ \A v \in 1 .. i - 1 : v \in 1 .. i /\ v < i
          /\ i \in 1 .. i /\ \A v \in 1 .. i : v = i \/ v \in 1 .. i - 1
      BY <1>1
    <2>2. t \in Seq(MoveType) /\ Lists(t, n, o, i - 1)
      BY <1>2, <2>1
    <2>3. s[i] = IF StaysPut(n, o, i) THEN t ELSE <<m>> \o t
      BY <1>2
    <2> HIDE DEF t, P
    <2>4. CASE StaysPut(n, o, i)
      <3>1. Lists(t, n, o, i)
        BY <2>1, <2>2, <2>4 DEF Lists
      <3> QED
        BY <2>1, <2>3, <2>4, <3>1 DEF P
    <2>5. CASE ~StaysPut(n, o, i)
      <3> DEFINE u == <<m>> \o t
      <3>1. /\ m.to = n.vars[i].begin /\ m.from = o.vars[i].begin /\ m.from < m.to
            /\ m \in MoveType /\ ~o.vars[i].rec /\ ~n.vars[i].rec /\ i \in 1 .. Len(n.vars)
        BY <2>5, FixedBlock
      <3> HIDE DEF m
      <3> DEFINE h == <<m>>
      <3>2. h \in Seq(MoveType) /\ Len(h) = 1 /\ h[1] = m
        BY <3>1
      <3>3. u = h \o t
        OBVIOUS
      <3> HIDE DEF h
      <3>4. Descending(h)
        <4>1. m.from <= m.to
          BY <3>1 DEF MoveType
        <4> QED
          BY <3>2, <4>1 DEF Descending
      <3>5. Before(h, t)
        <4> SUFFICES ASSUME NEW b \in 1 .. Len(t)
                     PROVE  /\ t[b].from + t[b].n <= m.from
                            /\ t[b].to + t[b].n <= m.to
          BY <3>2 DEF Before
        <4>1. PICK v \in 1 .. i - 1 : ~StaysPut(n, o, v) /\ t[b] = BlockOf(n, o, v)
          BY <2>2 DEF Lists
        <4>2. v \in 1 .. k /\ v < i
          BY <2>1
        <4>3. /\ t[b].to = n.vars[v].begin /\ t[b].from = o.vars[v].begin
              /\ t[b].n = VLen(n.vars[v]) /\ t[b].n = VLen(o.vars[v])
              /\ ~o.vars[v].rec /\ ~n.vars[v].rec /\ v \in 1 .. Len(n.vars)
          BY <4>1, <4>2, FixedBlock
        <4>4. o.vars[v].begin + VLen(o.vars[v]) <= o.vars[i].begin
          BY <3>1, <4>2, <4>3 DEF LaidOut, FixedLaid
        <4>5. n.vars[v].begin + VLen(n.vars[v]) <= n.vars[i].begin
          BY <3>1, <4>2, <4>3 DEF LaidOut, FixedLaid
        <4> QED
          BY <3>1, <4>3, <4>4, <4>5
      <3>6. /\ Len(u) = Len(h) + Len(t) /\ Len(t) \in Nat
            /\ \A a \in 1 .. Len(h) : a \in 1 .. Len(u) /\ u[a] = h[a]
            /\ \A b \in 1 .. Len(t) : Len(h) + b \in 1 .. Len(u) /\ u[Len(h) + b] = t[b]
            /\ \A a \in 1 .. Len(u) : a \in 1 .. Len(h) \/ a - Len(h) \in 1 .. Len(t)
        BY <2>2, <3>2, <3>3, Places
      <3>7. Descending(u)
        BY <2>2, <3>2, <3>3, <3>4, <3>5, Joined DEF Lists
      <3> HIDE DEF u
      <3>8. 1 \in 1 .. Len(u) /\ u[1] = m
        BY <3>2, <3>6
      <3>9. ASSUME NEW a \in 1 .. Len(u)
            PROVE  \E v \in 1 .. i : ~StaysPut(n, o, v) /\ u[a] = BlockOf(n, o, v)
        <4>1. CASE a = 1
          BY <2>1, <2>5, <3>8, <4>1 DEF m
        <4>2. CASE a # 1
          <5>1. a - 1 \in 1 .. Len(t) /\ 1 + (a - 1) = a
            BY <3>2, <3>6, <4>2
          <5>2. u[a] = t[a - 1]
            BY <3>2, <3>6, <5>1
          <5>3. PICK v \in 1 .. i - 1 : ~StaysPut(n, o, v) /\ t[a - 1] = BlockOf(n, o, v)
            BY <2>2, <5>1 DEF Lists
          <5> QED
            BY <2>1, <5>2, <5>3
        <4> QED
          BY <4>1, <4>2
      <3>10. ASSUME NEW v \in 1 .. i, ~StaysPut(n, o, v)
             PROVE  \E a \in 1 .. Len(u) : u[a] = BlockOf(n, o, v)
        <4>1. CASE v = i
          BY <3>8, <4>1 DEF m
        <4>2. CASE v \in 1 .. i - 1
          <5>1. PICK b \in 1 .. Len(t) : t[b] = BlockOf(n, o, v)
            BY <2>2, <3>10, <4>2 DEF Lists
          <5> QED
            BY <3>6, <5>1
        <4> QED
          BY <2>1, <4>1, <4>2
      <3>11. Lists(u, n, o, i)
        BY <3>7, <3>9, <3>10 DEF Lists
      <3> QED
        BY <2>1, <2>3, <2>5, <3>11 DEF P, u
    <2> QED
      BY <2>4, <2>5
  <1>5. \A i \in 0 .. k : i \in P
    <2> HIDE DEF P, k
    <2> QED
      BY <1>1, <1>3, <1>4, LoopInduction
  <1>6. k \in P
    BY <1>1, <1>5
  <1> QED
    BY <1>2, <1>6

LEMMA TimesMore ==
  ASSUME NEW a \in Nat, NEW b \in Nat, a <= b, NEW k \in Nat
  PROVE  k * a \in Nat /\ k * b \in Nat /\ k * a <= k * b /\ k * a = a * k
  <1>1. k * a \in Nat /\ k * b \in Nat /\ k * a = a * k /\ k * b = b * k
    OBVIOUS
  <1>2. CASE a = b
    BY <1>1, <1>2
  <1>3. CASE a < b
    <2>1. a * k + k <= b * k
      BY <1>3, TimesLess
    <2> QED
      BY <1>1, <2>1
  <1> QED
    BY <1>1, <1>2, <1>3

(* The block of record c, counted from 0, when records have grown. *)
RecordBlocks(s, recs, to, newsize, from, oldsize) ==
    /\ Len(s) = IF oldsize = 0 THEN 0 ELSE recs
    /\ \A k \in 1 .. Len(s) : /\ recs - k \in Nat
                              /\ s[k].to = to + (recs - k) * newsize
                              /\ s[k].from = from + (recs - k) * oldsize
                              /\ s[k].n = oldsize

LEMMA RecordBlock ==
  ASSUME NEW n \in MetaType, NEW o \in MetaType, NotEarlier(n, o), NEW recs \in Nat,
         n.recsize # o.recsize, NEW s, s = RecordMoves(n, o, recs)
  PROVE  RecordBlocks(s, recs, n.begin_rec, n.recsize, o.begin_rec, o.recsize)
  <1> DEFINE l == IF o.recsize = 0 THEN 0 ELSE recs
             M(k) == Move(n.begin_rec + (recs - k) * n.recsize,
                          o.begin_rec + (recs - k) * o.recsize, o.recsize, FALSE)
  <1>1. s = [k \in 1 .. l |-> M(k)]
    BY DEF RecordMoves
  <1>2. l \in Nat /\ l <= recs
    OBVIOUS
  <1> HIDE DEF l, M
  <1>3. Len(s) = l /\ \A k \in 1 .. l : s[k] = M(k)
    BY <1>1, <1>2
  <1>4. \A k \in 1 .. l : recs - k \in Nat
    BY <1>2
  <1>5. \A k : /\ M(k).to = n.begin_rec + (recs - k) * n.recsize
               /\ M(k).from = o.begin_rec + (recs - k) * o.recsize
               /\ M(k).n = o.recsize
    BY DEF M, Move
  <1>6. Len(s) = IF o.recsize = 0 THEN 0 ELSE recs
    BY <1>3 DEF l
  <1>7. \A k \in 1 .. Len(s) : k \in 1 .. l
    BY <1>3
  <1>8. \A k \in 1 .. Len(s) :
           /\ recs - k \in Nat
           /\ s[k].to = n.begin_rec + (recs - k) * n.recsize
           /\ s[k].from = o.begin_rec + (recs - k) * o.recsize
           /\ s[k].n = o.recsize
    BY <1>3, <1>4, <1>5, <1>7
  <1> QED
    BY <1>6, <1>8, Zenon DEF RecordBlocks

LEMMA RecordMovesListed ==
  ASSUME NEW n \in MetaType, NEW o \in MetaType, NotEarlier(n, o), NEW recs \in Nat,
         NEW s, s = RecordMoves(n, o, recs)
  PROVE  /\ Descending(s)
         /\ \A k \in 1 .. Len(s) : s[k].to >= n.begin_rec /\ s[k].from >= o.begin_rec
  <1> DEFINE a == n.begin_rec
             b == o.begin_rec
             x == n.recsize
             y == o.recsize
  <1>1. a \in Nat /\ b \in Nat /\ x \in Nat /\ y \in Nat /\ b <= a /\ y <= x
    <2>1. o # None
      BY NotNone
    <2> QED
      BY <2>1, Kinds DEF NotEarlier
  <1>2. CASE x = y
    <2> DEFINE m == Move(a, b, x * recs, FALSE)
    <2>1. s = <<>> \/ s = <<m>>
      BY <1>2 DEF RecordMoves
    <2>2. m.to = a /\ m.from = b
      BY DEF Move
    <2> HIDE DEF m, a, b, x, y
    <2>3. CASE s = <<>>
      BY <2>3 DEF Descending
    <2>4. CASE s = <<m>>
      <3>1. Len(s) = 1 /\ s[1] = m
        BY <2>4
      <3>2. \A i \in 1 .. Len(s) : i = 1
        BY <3>1
      <3> QED
        BY <1>1, <2>2, <3>1, <3>2 DEF Descending, a, b
    <2> QED
      BY <2>1, <2>3, <2>4
  <1>3. CASE x # y
    <2>0. RecordBlocks(s, recs, a, x, b, y)
      BY <1>3, RecordBlock
    <2> HIDE DEF a, b, x, y
    <2>1. \A k \in 1 .. Len(s) :
             /\ recs - k \in Nat /\ s[k].to = a + (recs - k) * x
             /\ s[k].from = b + (recs - k) * y /\ s[k].n = y
      BY <2>0 DEF RecordBlocks
    <2>2. Len(s) \in Nat
      BY <2>0 DEF RecordBlocks
    <2>3. ASSUME NEW k \in 1 .. Len(s)
          PROVE  s[k].from <= s[k].to /\ s[k].to >= a /\ s[k].from >= b
      <3> DEFINE c == recs - k
                 q == c * x
                 w == c * y
      <3>1. c \in Nat /\ s[k].to = a + q /\ s[k].from = b + w
        BY <2>1
      <3> HIDE DEF c
      <3>2. q \in Nat /\ w \in Nat /\ w <= q
        BY <1>1, <3>1, TimesMore
      <3> HIDE DEF q, w
      <3> QED
        BY <1>1, <3>1, <3>2
    <2>4. ASSUME NEW i \in 1 .. Len(s), NEW j \in 1 .. Len(s), i < j
          PROVE  s[j].from + s[j].n <= s[i].from /\ s[j].to + s[j].n <= s[i].to
      <3> DEFINE c == recs - j
                 e == recs - i
      <3>1. /\ c \in Nat /\ e \in Nat /\ s[j].to = a + c * x /\ s[j].from = b + c * y
            /\ s[i].to = a + e * x /\ s[i].from = b + e * y /\ s[j].n = y
        BY <2>1
      <3>2. c < e
        BY <2>2, <2>4
      <3> HIDE DEF c, e
      <3>3. c * x \in Nat /\ e * x \in Nat /\ c * x + x <= e * x
        BY <1>1, <3>1, <3>2, TimesLess
      <3>4. c * y \in Nat /\ e * y \in Nat /\ c * y + y <= e * y
        BY <1>1, <3>1, <3>2, TimesLess
      <3> DEFINE q == c * x
                 w == c * y
                 u == e * x
                 v == e * y
      <3>5. /\ s[j].to = a + q /\ s[j].from = b + w /\ s[i].to = a + u
            /\ s[i].from = b + v /\ q + x <= u /\ w + y <= v
            /\ q \in Nat /\ w \in Nat /\ u \in Nat /\ v \in Nat
        BY <3>1, <3>3, <3>4
      <3> HIDE DEF q, w, u, v
      <3> QED
        BY <1>1, <3>1, <3>5
    <2> QED
      BY <2>3, <2>4 DEF Descending, a, b
  <1> QED
    BY <1>2, <1>3

(* Every element of a record variable is carried to its new place. *)
LEMMA RecordCarried ==
  ASSUME NEW n \in MetaType, NEW o \in MetaType, LaidOut(n), LaidOut(o), Extends(n, o),
         NotEarlier(n, o), NEW recs \in Nat,
         NEW s, s = RecordMoves(n, o, recs), NEW e,
         e[1] \in 1 .. Len(o.vars), e[2] \in Nat, e[3] \in Nat,
         e[3] < o.vars[e[1]].size, o.vars[e[1]].rec, e[2] < recs
  PROVE  /\ \E k \in 1 .. Len(s) : Carries(s[k], Offset(o, e), Offset(n, e))
         /\ n.begin_rec = o.begin_rec /\ n.recsize = o.recsize => Offset(o, e) = Offset(n, e)
  <1> DEFINE a == n.begin_rec
             b == o.begin_rec
             x == n.recsize
             y == o.recsize
             c == e[2]
             z == InRecord(o, e)
             from == Offset(o, e)
             to == Offset(n, e)
             f == c * y
             t == c * x
  <1>1. a \in Nat /\ b \in Nat /\ x \in Nat /\ y \in Nat /\ c \in Nat /\ c < recs
    BY Kinds
  <1>2. z \in Nat /\ z < y /\ from = b + z + f
    BY OffsetRecord
  <1>3. to = a + z + t
    <2>1. e[1] \in 1 .. Len(n.vars) /\ n.vars[e[1]].rec
          /\ n.vars[e[1]].size = o.vars[e[1]].size
      BY Kinds, SMTT(60) DEF Extends
    <2>2. to = a + InRecord(n, e) + t
      BY <2>1, OffsetRecord
    <2>3. e[1] - 1 \in 0 .. Len(o.vars)
      BY Kinds
    <2>4. RecLens(n)[e[1] - 1] = RecLens(o)[e[1] - 1]
      BY <2>3, LensPrefix
    <2>5. InRecord(n, e) = z
      BY <2>4 DEF InRecord
    <2> QED
      BY <2>2, <2>5
  <1>4. f \in Nat /\ t \in Nat
    <2> HIDE DEF x, y, c
    <2> QED
      BY <1>1
  <1>5. CASE x = y
    <2> DEFINE all == x * recs
               m == Move(a, b, all, FALSE)
    <2>1. c * y + y <= recs * y /\ recs * y \in Nat /\ all = recs * y
      <3> HIDE DEF y, c
      <3> QED
        BY <1>1, <1>5, TimesLess
    <2>2. f + y <= all /\ all \in Nat
      BY <2>1
    <2>3. all # 0
      <3> HIDE DEF all, f, y, z
      <3> QED
        BY <1>1, <1>2, <1>4, <2>2
    <2>4. s = <<m>>
      BY <1>5, <2>3 DEF RecordMoves
    <2>5. m.to = a /\ m.from = b /\ m.n = all
      BY DEF Move
    <2>6. f = t
      BY <1>5
    <2> HIDE DEF m, all, a, b, x, y, c, z, from, to, f, t
    <2>7. Carries(m, from, to)
      BY <1>1, <1>2, <1>3, <1>4, <2>2, <2>5, <2>6 DEF Carries, InSource
    <2>8. 1 \in 1 .. Len(s) /\ s[1] = m
      BY <2>4
    <2>9. a = b => from = to
      BY <1>2, <1>3, <2>6
    <2> QED
      BY <2>7, <2>8, <2>9 DEF from, to, a, b
  <1>6. CASE x # y
    <2> DEFINE k == recs - c
    <2>1. RecordBlocks(s, recs, a, x, b, y)
      BY <1>6, RecordBlock
    <2> HIDE DEF a, b, x, y, c, z, from, to
    <2>2. Len(s) = recs
      BY <1>1, <1>2, <2>1 DEF RecordBlocks
    <2>3. k \in 1 .. Len(s) /\ recs - k = c
      BY <1>1, <2>2
    <2>4. s[k].to = a + t /\ s[k].from = b + f /\ s[k].n = y
      BY <2>1, <2>3 DEF RecordBlocks
    <2> HIDE DEF k, f, t
    <2>5. Carries(s[k], from, to)
      BY <1>1, <1>2, <1>3, <1>4, <2>4 DEF Carries, InSource
    <2> QED
      BY <1>6, <2>3, <2>5 DEF from, to, x, y
  <1> QED
    BY <1>5, <1>6

(* The blocks of a call of enddef. *)
LEMMA MovesDescend ==
  ASSUME NEW n \in MetaType, NEW o \in OldType, LaidOut(n), NEW recs \in Nat,
         o # None => LaidOut(o) /\ Extends(n, o), NotEarlier(n, o)
  PROVE  Descending(Moves(n, o, recs))
  <1>1. Descending(<<>>)
    BY DEF Descending
  <1>2. CASE o = None
    BY <1>1, <1>2 DEF Moves
  <1>3. CASE o # None
    <2> DEFINE s == RecordMoves(n, o, recs)
               t == FixedMoves(n, o)
               u == s \o t
    <2>1. o \in MetaType /\ LaidOut(o) /\ Extends(n, o) /\ Len(n.vars) >= Len(o.vars)
      BY <1>3 DEF OldType, Extends
    <2>2. s \in Seq(MoveType) /\ t \in Seq(MoveType)
      BY <2>1, FixedMovesType, RecordMovesType
    <2>3. Descending(s) /\ \A k \in 1 .. Len(s) : /\ s[k].to >= n.begin_rec
                                                  /\ s[k].from >= o.begin_rec
      BY <2>1, RecordMovesListed
    <2>4. Lists(t, n, o, Len(o.vars))
      BY <2>1, FixedMovesListed
    <2>5. Moves(n, o, recs) \in {<<>>, s, u}
      BY DEF Moves
    <2> HIDE DEF s, t
    <2>6. Before(s, t)
      <3> SUFFICES ASSUME NEW a \in 1 .. Len(s), NEW b \in 1 .. Len(t)
                   PROVE  /\ t[b].from + t[b].n <= s[a].from
                          /\ t[b].to + t[b].n <= s[a].to
        BY DEF Before
      <3>1. PICK v \in 1 .. Len(o.vars) : ~StaysPut(n, o, v) /\ t[b] = BlockOf(n, o, v)
        BY <2>4 DEF Lists
      <3>2. t[b].from + t[b].n <= o.begin_rec /\ t[b].to + t[b].n <= n.begin_rec
            /\ t[b] \in MoveType
        BY <2>1, <3>1, FixedBlock
      <3>3. s[a] \in MoveType /\ s[a].to >= n.begin_rec /\ s[a].from >= o.begin_rec
        BY <2>2, <2>3
      <3>4. n.begin_rec \in Nat /\ o.begin_rec \in Nat
        BY <2>1, Kinds
      <3> DEFINE p == t[b].from + t[b].n
                 q == t[b].to + t[b].n
      <3>5. p \in Nat /\ q \in Nat /\ p <= o.begin_rec /\ q <= n.begin_rec
            /\ s[a].to \in Nat /\ s[a].from \in Nat
        BY <3>2, <3>3 DEF MoveType
      <3> HIDE DEF p, q
      <3>6. p <= s[a].from /\ q <= s[a].to
        BY <3>3, <3>4, <3>5
      <3> QED
        BY <3>6 DEF p, q
    <2>7. Descending(u)
      BY <2>2, <2>3, <2>4, <2>6, Joined DEF Lists
    <2> QED
      BY <1>1, <2>3, <2>5, <2>7
  <1> QED
    BY <1>2, <1>3

(* They carry every element that gets a new place, and write over none     *)
(* that stays.                                                             *)
LEMMA MovesCarry ==
  ASSUME NEW n \in MetaType, NEW o \in MetaType, LaidOut(n), LaidOut(o), Extends(n, o),
         NotEarlier(n, o), NEW g \in Nat \ {0}, Packed(n, o, g), Tight(o, g),
         NEW recs \in Nat, NEW e \in Elements(o, DOMAIN o.vars, recs),
         NEW ms, ms = Moves(n, o, recs)
  PROVE  \/ Moved(ms, Offset(n, e)) /\ Offset(o, e) = Offset(n, e)
         \/ \E i \in 1 .. Len(ms) : Carries(ms[i], Offset(o, e), Offset(n, e))
  <1> DEFINE s == RecordMoves(n, o, recs)
             t == FixedMoves(n, o)
             u == s \o t
             i == e[1]
             x == Offset(o, e)
             y == Offset(n, e)
  <1>1. /\ i \in 1 .. Len(o.vars) /\ e[2] \in Nat /\ e[3] \in Nat /\ e[3] < o.vars[i].size
        /\ IF o.vars[i].rec THEN e[2] < recs ELSE e[2] = 0
    BY ElementParts
  <1>2. /\ i \in 1 .. Len(n.vars) /\ n.vars[i].rec = o.vars[i].rec
        /\ n.vars[i].size = o.vars[i].size /\ n.vars # <<>>
        /\ VLen(n.vars[i]) = VLen(o.vars[i]) /\ o.vars[i].rec \in BOOLEAN
    <2>1. i \in 1 .. Len(n.vars)
      BY <1>1, Kinds DEF Extends
    <2>2. n.vars # <<>>
      BY <2>1, Kinds
    <2> QED
      BY <1>1, <2>1, <2>2, Kinds, Lengths DEF Extends, VLen
  <1>3. s \in Seq(MoveType) /\ t \in Seq(MoveType)
    <2>1. Len(n.vars) >= Len(o.vars)
      BY DEF Extends
    <2> QED
      BY <2>1, FixedMovesType, RecordMovesType
  <1>4. \A k \in 1 .. Len(s) : s[k].to >= n.begin_rec
    BY RecordMovesListed
  <1>5. Lists(t, n, o, Len(o.vars))
    BY FixedMovesListed
  <1>6. /\ \A a \in 1 .. Len(s) : a \in 1 .. Len(u) /\ u[a] = s[a]
        /\ \A b \in 1 .. Len(t) : Len(s) + b \in 1 .. Len(u) /\ u[Len(s) + b] = t[b]
        /\ \A a \in 1 .. Len(u) : a \in 1 .. Len(s) \/ a - Len(s) \in 1 .. Len(t)
        /\ Len(s) \in Nat
    <2> HIDE DEF s, t
    <2> QED
      BY <1>3, Places
  <1>7. /\ n.begin_var > o.begin_var => ms = u
        /\ ~(n.begin_var > o.begin_var) =>
              /\ n.begin_var = o.begin_var
              /\ \/ ms = s
                 \/ ms = <<>> /\ n.begin_rec = o.begin_rec /\ n.recsize = o.recsize
    <2>1. o # None
      BY NotNone
    <2>2. /\ n.begin_var \in Nat /\ o.begin_var \in Nat /\ n.begin_rec \in Nat
          /\ o.begin_rec \in Nat /\ n.recsize \in Nat /\ o.recsize \in Nat
      BY Kinds
    <2>3. n.begin_var >= o.begin_var /\ n.begin_rec >= o.begin_rec
          /\ n.recsize >= o.recsize
      BY <2>1 DEF NotEarlier
    <2>4. ms = IF n.begin_var > o.begin_var THEN u
               ELSE IF n.begin_rec > o.begin_rec \/ n.recsize > o.recsize THEN s ELSE <<>>
      BY <1>2, <2>1 DEF Moves
    <2> HIDE DEF s, u
    <2> QED
      BY <2>2, <2>3, <2>4
  <1>8. CASE o.vars[i].rec
    <2>1. /\ \E k \in 1 .. Len(s) : Carries(s[k], x, y)
          /\ n.begin_rec = o.begin_rec /\ n.recsize = o.recsize => x = y
      BY <1>1, <1>8, RecordCarried
    <2> HIDE DEF s, t, u, x, y
    <2>2. CASE ms = u
      BY <1>6, <2>1, <2>2 DEF x, y
    <2>3. CASE ms = s
      BY <2>1, <2>3 DEF x, y
    <2>4. CASE ms = <<>> /\ n.begin_rec = o.begin_rec /\ n.recsize = o.recsize
      BY <2>1, <2>4 DEF x, y, Moved
    <2> QED
      BY <1>7, <2>2, <2>3, <2>4
  <1>9. CASE ~o.vars[i].rec
    <2> DEFINE c == e[3]
               p == n.vars[i].begin
               q == o.vars[i].begin
               l == VLen(o.vars[i])
    <2>1. x = q + c /\ x \in Nat /\ x < q + l
      BY <1>1, <1>9, OffsetFixed
    <2>2. y = p + c /\ y \in Nat /\ y < p + l /\ y < n.begin_rec
      BY <1>1, <1>2, <1>9, OffsetFixed
    <2>3. c \in Nat /\ p \in Nat /\ q \in Nat /\ l \in Nat /\ n.begin_rec \in Nat
      BY <1>1, <1>2, Kinds, Lengths
    <2>4. p >= q
      <3>1. OldBegin(o, i) = q
        BY <1>1, Kinds, NotNone DEF OldBegin
      <3> QED
        BY <1>2, <1>9, <3>1 DEF Packed
    <2>5. ASSUME p > q
          PROVE  \E k \in 1 .. Len(t) : Carries(t[k], x, y)
      <3>1. ~StaysPut(n, o, i)
        BY <1>9, <2>3, <2>5 DEF StaysPut
      <3>2. PICK k \in 1 .. Len(t) : t[k] = BlockOf(n, o, i)
        BY <1>1, <1>5, <3>1 DEF Lists
      <3>3. t[k].to = p /\ t[k].from = q /\ t[k].n = l
        BY <1>1, <3>1, <3>2, FixedBlock, SMTT(60)
      <3>4. Carries(t[k], x, y)
        <4> HIDE DEF x, y, p, q, l, c, t
        <4> QED
          BY <2>1, <2>2, <2>3, <3>3 DEF Carries, InSource
      <3> QED
        BY <3>4
    <2>6. \A k \in 1 .. Len(s) : ~InTarget(s[k], y)
      <3> SUFFICES ASSUME NEW k \in 1 .. Len(s), InTarget(s[k], y) PROVE FALSE
        OBVIOUS
      <3>1. s[k].to >= n.begin_rec /\ s[k].to <= y /\ s[k] \in MoveType
        BY <1>3, <1>4 DEF InTarget
      <3>2. s[k].to \in Nat
        BY <3>1 DEF MoveType
      <3> QED
        BY <2>2, <2>3, <3>1, <3>2
    <2>7. ASSUME p = q, NEW k \in 1 .. Len(t), InTarget(t[k], y)
          PROVE  FALSE
      <3>1. PICK v \in 1 .. Len(o.vars) : ~StaysPut(n, o, v) /\ t[k] = BlockOf(n, o, v)
        BY <1>5 DEF Lists
      <3>2. /\ t[k].to = n.vars[v].begin /\ t[k].n = VLen(n.vars[v])
            /\ ~n.vars[v].rec /\ v \in 1 .. Len(n.vars) /\ ~o.vars[v].rec
        BY <3>1, FixedBlock
      <3>3. v # i
        BY <2>3, <2>7, <3>1 DEF StaysPut
      <3>4. n.vars[v].begin \in Nat /\ VLen(n.vars[v]) \in Nat
        BY <3>2, Kinds, Lengths
      <3> DEFINE b == n.vars[v].begin
                 w == VLen(n.vars[v])
      <3>5. b \in Nat /\ w \in Nat /\ b <= y /\ y < b + w
        BY <3>2, <3>4, <2>7 DEF InTarget
      <3>6. v < i \/ i < v
        BY <1>1, <3>1, <3>3
      <3>7. CASE v < i
        <4>1. b + w <= p
          BY <1>2, <1>9, <3>2, <3>7 DEF LaidOut, FixedLaid
        <4> HIDE DEF b, w, p, y
        <4> QED
          BY <2>2, <2>3, <3>5, <4>1
      <3>8. CASE i < v
        <4>1. p + l <= b
          BY <1>2, <1>9, <3>2, <3>8 DEF LaidOut, FixedLaid
        <4> HIDE DEF b, w, p, l, y
        <4> QED
          BY <2>2, <2>3, <3>5, <4>1
      <3> QED
        BY <3>6, <3>7, <3>8
    <2>8. p = q => x = y
      BY <2>1, <2>2
    <2>9. CASE n.begin_var > o.begin_var
      <3>1. ms = u
        BY <1>7, <2>9
      <3>2. CASE p = q
        <4>1. Moved(u, y)
          <5> SUFFICES ASSUME NEW a \in 1 .. Len(u), InTarget(u[a], y) PROVE FALSE
            BY DEF Moved
          <5>1. CASE a \in 1 .. Len(s)
            BY <1>6, <2>6, <5>1
          <5>2. CASE a - Len(s) \in 1 .. Len(t)
            <6>1. Len(s) + (a - Len(s)) = a
              BY <1>6
            <6>2. u[a] = t[a - Len(s)]
              BY <1>6, <5>2, <6>1
            <6> QED
              BY <2>7, <3>2, <5>2, <6>2
          <5> QED
            BY <1>6, <5>1, <5>2
        <4> QED
          BY <2>8, <3>1, <3>2, <4>1
      <3>3. CASE p > q
        <4>1. PICK k \in 1 .. Len(t) : Carries(t[k], x, y)
          BY <2>5, <3>3
        <4>2. Len(s) + k \in 1 .. Len(u) /\ u[Len(s) + k] = t[k]
          BY <1>6
        <4> QED
          BY <3>1, <4>1, <4>2
      <3> QED
        BY <2>3, <2>4, <3>2, <3>3
    <2>10. CASE ~(n.begin_var > o.begin_var)
      <3>1. n.begin_var = o.begin_var /\ (ms = s \/ ms = <<>>)
        BY <1>7, <2>10
      <3>2. p = q
        BY <1>1, <1>9, <3>1, Unmoved
      <3>3. Moved(ms, y)
        <4> HIDE DEF s, y
        <4> QED
          BY <2>6, <3>1 DEF Moved
      <3> QED
        BY <2>8, <3>2, <3>3
    <2> QED
      BY <2>9, <2>10
  <1> QED
    BY <1>2, <1>8, <1>9

-----------------------------------------------------------------------------
(* The elements. *)

LEMMA IsElement ==
  ASSUME NEW n \in MetaType, NEW S, NEW recs \in Nat, NEW e, NEW i \in S,
         NEW j \in 0 .. (IF n.vars[i].rec THEN recs ELSE 1) - 1,
         NEW k \in 0 .. n.vars[i].size - 1, e = <<i, j, k>>
  PROVE  e \in Elements(n, S, recs)
  BY DEF Elements

(* A layout with more variables and more records has the elements too. *)
LEMMA ElementsGrow ==
  ASSUME NEW n \in MetaType, NEW o \in MetaType, Extends(n, o), NEW S,
         S \subseteq DOMAIN o.vars, NEW T, S \subseteq T,
         NEW recs \in Nat, NEW more \in Nat, recs <= more, NEW e \in Elements(o, S, recs)
  PROVE  e \in Elements(n, T, more)
  <1>1. PICK i \in S : e \in {i} \X (0 .. (IF o.vars[i].rec THEN recs ELSE 1) - 1)
                                 \X (0 .. o.vars[i].size - 1)
    BY DEF Elements
  <1>2. /\ e = <<i, e[2], e[3]>> /\ e[2] \in 0 .. (IF o.vars[i].rec THEN recs ELSE 1) - 1
        /\ e[3] \in 0 .. o.vars[i].size - 1
    BY <1>1
  <1>3. i \in 1 .. Len(o.vars)
    BY Kinds
  <1>4. n.vars[i].rec = o.vars[i].rec /\ n.vars[i].size = o.vars[i].size
    BY <1>3 DEF Extends
  <1>5. e[2] \in 0 .. (IF n.vars[i].rec THEN more ELSE 1) - 1
    BY <1>2, <1>4
  <1>6. e[3] \in 0 .. n.vars[i].size - 1
    BY <1>2, <1>4
  <1>7. i \in T
    OBVIOUS
  <1> QED
    BY <1>2, <1>5, <1>6, <1>7, IsElement

(* Layouts of the same variables have the same elements in the same cells. *)
LEMMA SameElements ==
  ASSUME NEW n, NEW m, n.vars = m.vars
  PROVE  /\ \A S, recs : Elements(n, S, recs) = Elements(m, S, recs)
         /\ \A g : Tight(n, g) <=> Tight(m, g)
  <1>1. \A S, recs : Elements(n, S, recs) = Elements(m, S, recs)
    BY DEF Elements
  <1>2. \A g : Tight(n, g) <=> Tight(m, g)
    BY DEF Tight
  <1> QED
    BY <1>1, <1>2

LEMMA SameOffset ==
  ASSUME NEW n \in MetaType, NEW m \in MetaType, LaidOut(n), LaidOut(m),
         n.vars = m.vars, NEW e, e[1] \in 1 .. Len(n.vars)
  PROVE  Offset(n, e) = Offset(m, e)
  <1>1. n.vars # <<>>
    BY Kinds
  <1>2. n.recsize = m.recsize
    BY <1>1, SameLayout
  <1> QED
    BY <1>2 DEF Offset

(* Every cell of a variable is in the share of some rank. *)
LEMMA ShareCovers ==
  ASSUME NEW n \in Nat, NEW c \in Nat, c < n
  PROVE  \E r \in Ranks : c \in ShareOf(n, r)
  <1> DEFINE p == NProcs
             q == n \div p
             t == n % p
             Up(r) == q * r + (IF r < t THEN r ELSE t)
             S == {r \in 0 .. p - 1 : c < Up(r + 1)}
  <1>1. p \in Nat \ {0}
    BY LayoutAssumption
  <1> HIDE DEF p
  <1>2. q \in Nat /\ t \in 0 .. p - 1 /\ n = p * q + t
    BY <1>1
  <1>3. \A r : ShareStart(n, r) = Up(r)
    BY DEF ShareStart, p
  <1> HIDE DEF q, t
  <1>4. p - 1 \in S
    <2>1. (p - 1) + 1 = p /\ p - 1 \in 0 .. p - 1
      BY <1>1
    <2>2. Up(p) = q * p + t
      BY <1>1, <1>2
    <2>3. q * p = p * q
      BY <1>1, <1>2
    <2>4. c < Up(p)
      <3> HIDE DEF Up
      <3> QED
        BY <1>2, <2>2, <2>3
    <2> QED
      BY <2>1, <2>4
  <1>5. PICK r \in S : \A s \in S : r <= s
    <2>1. S \subseteq Nat /\ S # {}
      BY <1>4
    <2> HIDE DEF S
    <2> QED
      BY <2>1, LeastNat
  <1>6. r \in 0 .. p - 1 /\ c < Up(r + 1)
    OBVIOUS
  <1>7. Up(0) = 0 /\ \A s \in Nat : /\ Up(s) \in Nat
                                    /\ Up(s + 1) = Up(s) + q + (IF s < t THEN 1 ELSE 0)
    <2>1. Up(0) = 0
      BY <1>2
    <2>2. ASSUME NEW s \in Nat
          PROVE  Up(s) \in Nat /\ Up(s + 1) = Up(s) + q + (IF s < t THEN 1 ELSE 0)
      <3> DEFINE u == q * s
      <3>1. u \in Nat /\ q * (s + 1) = u + q
        BY <1>2
      <3>2. Up(s) = u + (IF s < t THEN s ELSE t)
            /\ Up(s + 1) = u + q + (IF s + 1 < t THEN s + 1 ELSE t)
        BY <3>1
      <3> HIDE DEF u, Up
      <3> QED
        BY <1>2, <3>1, <3>2
    <2> QED
      BY <2>1, <2>2
  <1>8. Up(r) <= c
    <2>1. CASE r = 0
      BY <1>7, <2>1
    <2>2. CASE r # 0
      <3>1. r - 1 \in 0 .. p - 1 /\ (r - 1) + 1 = r /\ ~(r <= r - 1)
        BY <1>1, <1>6, <2>2
      <3>2. r - 1 \notin S
        BY <1>5, <3>1
      <3>3. ~(c < Up(r))
        BY <3>1, <3>2
      <3> HIDE DEF Up, S
      <3> QED
        BY <1>6, <1>7, <3>3
    <2> QED
      BY <2>1, <2>2
  <1> HIDE DEF S, Up
  <1>9. ShareOf(n, r) = Up(r) .. Up(r) + q - (IF r < t THEN 0 ELSE 1)
    BY <1>3 DEF ShareOf, q, t, p
  <1>10. c \in Up(r) .. Up(r) + q - (IF r < t THEN 0 ELSE 1)
    BY <1>2, <1>6, <1>7, <1>8
  <1>11. r \in Ranks
    BY <1>6 DEF Ranks, p
  <1> QED
    BY <1>9, <1>10, <1>11

(* What a rank writes when it fills. *)
LEMMA FillCells ==
  ASSUME NEW n \in MetaType, LaidOut(n), NEW o, NEW recs \in Nat, NEW r,
         NEW f, f = FillBlock(n, o, recs, r)
  PROVE  /\ DOMAIN f \subseteq Nat
         /\ n.begin_rec + recs * n.recsize \in Nat
         /\ \A c \in DOMAIN f : /\ c <= n.begin_rec + recs * n.recsize
                                /\ f[c] = Fill
                                /\ \E e \in FillShare(n, o, recs, r) : c = Offset(n, e)
         /\ \A e \in FillShare(n, o, recs, r) : Offset(n, e) \in DOMAIN f
         /\ FillShare(n, o, recs, r) \subseteq Elements(n, DOMAIN n.vars, recs)
         /\ \A e \in FillShare(n, o, recs, r) : e[1] \in NewVars(n, o)
  <1> DEFINE F == FillShare(n, o, recs, r)
             b == n.begin_rec + recs * n.recsize
             N == NewVars(n, o)
             k == FillRecs(o, recs)
  <1>1. f = [c \in {Offset(n, e) : e \in F} |-> Fill]
    BY DEF FillBlock
  <1>2. k \in Nat /\ k <= recs
    BY DEF FillRecs
  <1>3. N \subseteq DOMAIN n.vars
    BY DEF NewVars
  <1>4. F \subseteq Elements(n, N, k)
    BY DEF FillShare
  <1> HIDE DEF F, N, k
  <1>5. \A e \in F : e[1] \in N
    <2> SUFFICES ASSUME NEW e \in F PROVE e[1] \in N
      OBVIOUS
    <2>1. PICK i \in N : e \in {i} \X (0 .. (IF n.vars[i].rec THEN k ELSE 1) - 1)
                                   \X (0 .. n.vars[i].size - 1)
      BY <1>4 DEF Elements
    <2> QED
      BY <2>1
  <1>6. F \subseteq Elements(n, DOMAIN n.vars, recs)
    <2>1. Extends(n, n)
      BY ExtendsAll
    <2>2. ASSUME NEW e \in F PROVE e \in Elements(n, DOMAIN n.vars, recs)
      <3>1. e \in Elements(n, N, k)
        BY <1>4
      <3> QED
        BY <1>2, <1>3, <2>1, <3>1, ElementsGrow
    <2> QED
      BY <2>2
  <1>7. b \in Nat
    <2>1. n.begin_rec \in Nat /\ n.recsize \in Nat
      BY Kinds
    <2> QED
      BY <2>1
  <1>8. \A e \in F : Offset(n, e) \in Nat /\ Offset(n, e) <= b
    BY <1>6, OffsetBound
  <1> HIDE DEF b
  <1> QED
    BY <1>1, <1>5, <1>6, <1>7, <1>8 DEF F, b, N

-----------------------------------------------------------------------------
(* Out of enddef only the alignment, the elements and the data matter;     *)
(* within it a step that keeps the layouts keeps the first two.            *)

LEMMA OutsideCall ==
  ASSUME LayoutInv', mode' # "enddef", ~failed'
  PROVE  InStep' /\ Buffered' /\ Carried' /\ Filled'
  <1>1. \A r \in Ranks : at'[r] = "idle"
    BY DEF LayoutInv, MetaInv, Inside, Everywhere
  <1>2. InStep'
    BY DEF InStep
  <1>3. Buffered'
    BY <1>1 DEF Buffered
  <1>4. Carried'
    BY DEF Carried
  <1>5. Filled'
    BY <1>1 DEF Filled
  <1> QED
    BY <1>2, <1>3, <1>4, <1>5

LEMMA WithinCall ==
  ASSUME Aligning, Owned, mode = "enddef", mode' = mode,
         UNCHANGED <<ncp, old, align, numrecs, known>>, saved' = saved \/ saved' = ncp
  PROVE  Aligning' /\ Owned' /\ DataKept'
  <1>1. Aligning'
    BY DEF Aligning
  <1>2. Owned'
    <2>1. old # None => Of(old)'
      BY DEF Owned, Of
    <2>2. old = None => DOMAIN known = {}
      BY DEF Owned
    <2> QED
      BY <2>1, <2>2 DEF Owned
  <1>3. DataKept'
    BY DEF DataKept
  <1> QED
    BY <1>1, <1>2, <1>3

(* While no rank is done with the fill, nothing is said of it. *)
LEMMA NotFilled ==
  ASSUME \A r \in Ranks : at'[r] # "done"
  PROVE  Filled'
  BY DEF Filled

LEMMA NotBuffered ==
  ASSUME \A r \in Ranks : at'[r] \notin {"readsum", "write"}
  PROVE  Buffered'
  BY DEF Buffered

(* The elements whose content is known, inside enddef. *)
LEMMA KnownPlaces ==
  ASSUME LayoutInv, Owned, mode = "enddef", NEW e \in DOMAIN known
  PROVE  /\ old \in MetaType /\ LaidOut(old) /\ ncp \in MetaType /\ LaidOut(ncp)
         /\ numrecs \in Nat
         /\ e \in Elements(old, DOMAIN old.vars, numrecs)
         /\ e \in Elements(ncp, DOMAIN ncp.vars, numrecs)
         /\ e[1] \in DOMAIN old.vars /\ old # None
         /\ Offset(old, e) \in Nat /\ Offset(ncp, e) \in Nat
  <1>1. old # None /\ Of(old)
    BY DEF Owned
  <1>2. old \in MetaType /\ ncp \in MetaType /\ numrecs \in Nat
    BY <1>1 DEF LayoutInv, MetaInv, Typed, OldType
  <1>3. LaidOut(old) /\ Extends(ncp, old) /\ LaidOut(ncp)
    BY <1>1 DEF LayoutInv, MetaInv, OldLaid, Computed
  <1>4. e \in Elements(old, DOMAIN old.vars, numrecs)
    BY <1>1 DEF Of
  <1>5. DOMAIN old.vars \subseteq DOMAIN ncp.vars
    <2>1. /\ DOMAIN old.vars = 1 .. Len(old.vars) /\ DOMAIN ncp.vars = 1 .. Len(ncp.vars)
          /\ Len(old.vars) \in Nat /\ Len(ncp.vars) \in Nat
      BY <1>2, Kinds
    <2>2. Len(old.vars) <= Len(ncp.vars)
      BY <1>3 DEF Extends
    <2> QED
      BY <2>1, <2>2
  <1>6. e \in Elements(ncp, DOMAIN ncp.vars, numrecs)
    <2>1. numrecs <= numrecs
      BY <1>2
    <2> QED
      BY <1>2, <1>3, <1>4, <1>5, <2>1, ElementsGrow
  <1>7. e[1] \in DOMAIN old.vars
    BY <1>2, <1>4, ElementParts, Kinds
  <1>8. Offset(old, e) \in Nat
    BY <1>2, <1>3, <1>4, BehindHeader
  <1>9. Offset(ncp, e) \in Nat
    BY <1>2, <1>3, <1>6, BehindHeader
  <1> QED
    BY <1>1, <1>2, <1>3, <1>4, <1>6, <1>7, <1>8, <1>9

-----------------------------------------------------------------------------
(* The end of define mode: every element is in place or on its way. *)
LEMMA DataEndDef ==
  ASSUME LayoutInv, DataInv, NEW args \in EndDefArgs, EndDef(args)
  PROVE  DataInv'
  <1> DEFINE a == Aligned(align, args, ncp)
             n == NC_begins(ncp, old, a, args)
             recs == IF old = None THEN 0 ELSE numrecs
             g == Grain(align.fx)
  <1>1. /\ mode = "define" /\ mode' = "enddef" /\ align' = a /\ ncp' = n
        /\ numrecs' = recs /\ moves' = Moves(n, old, recs) /\ ~failed'
        /\ at' = (IF moves' = <<>> THEN Finish ELSE Everywhere("read"))
        /\ UNCHANGED <<old, fill, disk, saved, buf, known>>
    BY DEF EndDef
  <1>2. LayoutInv'
    BY MetaEndDef, MovesEndDef DEF LayoutInv
  <1>3. /\ ncp \in MetaType /\ old \in OldType /\ saved \in OldType
        /\ align \in AlignType /\ numrecs \in Nat
    BY DEF LayoutInv, MetaInv, Typed
  <1>4. args \in ArgType
    BY LayoutAssumption DEF ArgType
  <1>5. a \in Units /\ a.fx = g
    <2>1. a \in Units
      BY <1>3, <1>4, AlignedUnits
    <2> QED
      BY <2>1, AlignedGrain
  <1>6. g \in Nat \ {0} /\ Grain(a.fx) = g
    <2>1. align.fx \in Nat
      BY <1>3 DEF AlignType
    <2> QED
      BY <1>5, <2>1, GrainStays
  <1>7. Grown(ncp, old)
    BY DEF LayoutInv, MetaInv, OldLaid, Grown
  <1> HIDE DEF a, g
  <1>8. Tight(n, g) /\ Packed(n, old, g)
    BY <1>3, <1>4, <1>5, <1>7, NcFixed
  <1>9. n \in MetaType /\ LaidOut(n) /\ NotEarlier(n, old)
        /\ (old # None => old \in MetaType /\ LaidOut(old) /\ Extends(n, old))
    BY <1>1, <1>2 DEF LayoutInv, MetaInv, Typed, Computed, OldLaid, OldType
  <1> HIDE DEF n
  <1>10. Aligning'
    <2>1. /\ saved # None => Tight(saved, g)
          /\ old # None => Tight(old, g)
          /\ \A h \in Hints : Grain(h.fx) = g
      BY DEF DataInv, Aligning, g
    <2> QED
      BY <1>1, <1>6, <1>8, <2>1 DEF Aligning
  <1>11. Owned'
    <2>1. old # None => Of(old)'
      BY <1>1 DEF DataInv, Owned, Of
    <2>2. old = None => DOMAIN known = {}
      BY <1>1 DEF DataInv, Owned
    <2> QED
      BY <1>1, <2>1, <2>2 DEF Owned
  <1>12. \/ at' = Everywhere("read")
         \/ at' = Finish /\ moves' = <<>>
    BY <1>1
  <1>13. \A r \in Ranks : at'[r] \in {"read", "header", "fill"}
    BY <1>12 DEF Everywhere, Finish
  <1>14. InStep'
    <2>1. \/ at' \in [Ranks -> {"read", "readsum"}]
          \/ at' \in [Ranks -> {"header", "fill", "done"}] /\ moves' = <<>>
      BY <1>12 DEF Everywhere, Finish
    <2> QED
      BY <1>1, <2>1 DEF InStep
  <1>15. Buffered' /\ Filled'
    BY <1>13, NotFilled, NotBuffered
  <1>16. Carried'
    <2> DEFINE ms == Moves(n, old, recs)
    <2>1. recs \in Nat
      BY <1>3
    <2>2. Descending(ms)
      <3> HIDE DEF recs
      <3> QED
        BY <1>3, <1>9, <2>1, MovesDescend
    <2>3. moves' = ms
      BY <1>1
    <2> HIDE DEF ms
    <2>4. ASSUME NEW e \in DOMAIN known
          PROVE  Safe(ms, Offset(old, e), Offset(n, e), known[e], disk, at', buf)
      <3>1. /\ old # None /\ Of(old) /\ saved.vars = old.vars /\ saved # None
            /\ LaidOut(saved)
        BY <1>1 DEF DataInv, Owned, LayoutInv, MetaInv, OldLaid, SavedLaid
      <3>2. old \in MetaType /\ saved \in MetaType /\ LaidOut(old) /\ Extends(n, old)
        BY <1>3, <1>9, <3>1 DEF OldType
      <3>3. recs = numrecs /\ e \in Elements(old, DOMAIN old.vars, numrecs)
        BY <3>1 DEF Of
      <3>4. e[1] \in 1 .. Len(old.vars)
        BY <1>3, <3>2, <3>3, ElementParts
      <3> DEFINE x == Offset(old, e)
                 y == Offset(n, e)
                 v == known[e]
      <3>5. Has(disk, x, v)
        <4>1. Offset(saved, e) = x
          BY <3>1, <3>2, <3>4, SameOffset
        <4>2. Offset(saved, e) \in DOMAIN disk /\ disk[Offset(saved, e)] = v
          BY <1>1 DEF DataInv, DataKept
        <4> QED
          BY <4>1, <4>2 DEF Has
      <3>6. \/ Moved(ms, y) /\ x = y
            \/ \E i \in 1 .. Len(ms) : Carries(ms[i], x, y)
        <4>1. Tight(old, g)
          BY <3>1 DEF DataInv, Aligning, g
        <4>2. ms = Moves(n, old, recs)
          BY DEF ms
        <4> HIDE DEF recs
        <4> QED
          BY <1>6, <1>8, <1>9, <2>1, <3>2, <3>3, <4>1, <4>2, MovesCarry
      <3> HIDE DEF x, y, v, recs
      <3>7. ASSUME Moved(ms, y) /\ x = y PROVE Safe(ms, x, y, v, disk, at', buf)
        BY <3>5, <3>7 DEF Safe
      <3>8. ASSUME \E i \in 1 .. Len(ms) : Carries(ms[i], x, y)
            PROVE  Safe(ms, x, y, v, disk, at', buf)
        <4>1. PICK i \in 1 .. Len(ms) : Carries(ms[i], x, y)
          BY <3>8
        <4>2. ms # <<>>
          BY <4>1
        <4>3. at' = Everywhere("read")
          BY <1>12, <2>3, <4>2
        <4>4. \A r \in Ranks, k \in 0 .. Chunk - 1 : Held(at'[r], disk, buf[r], x, y, k, v)
          BY <3>5, <4>3 DEF Held, Everywhere
        <4>5. OnWay(ms, i, x, y, v, disk, at', buf)
          BY <3>5, <4>1, <4>4 DEF OnWay
        <4> QED
          BY <4>1, <4>5 DEF Safe, Waiting
      <3> QED
        BY <3>6, <3>7, <3>8 DEF x, y, v
    <2> QED
      BY <1>1, <2>2, <2>3, <2>4 DEF Carried
  <1>17. DataKept'
    BY <1>1 DEF DataKept
  <1> QED
    BY <1>10, <1>11, <1>14, <1>15, <1>16, <1>17 DEF DataInv

-----------------------------------------------------------------------------
(* The rounds of the moves. *)

LEMMA PhaseTogether ==
  ASSUME LayoutInv, DataInv, NEW r \in Ranks, at[r] # "idle"
  PROVE  /\ mode = "enddef" /\ ~failed
         /\ at[r] \in {"read", "readsum"} => at \in [Ranks -> {"read", "readsum"}]
         /\ at[r] \in {"write", "writesum"} => at \in [Ranks -> {"write", "writesum"}]
         /\ at[r] \in {"header", "fill", "done"}
               => at \in [Ranks -> {"header", "fill", "done"}] /\ moves = <<>>
  <1>1. mode = "enddef"
    BY InCall DEF LayoutInv
  <1>2. /\ ~failed
        /\ \/ at \in [Ranks -> {"read", "readsum"}]
           \/ at \in [Ranks -> {"write", "writesum"}]
           \/ at \in [Ranks -> {"header", "fill", "done"}] /\ moves = <<>>
    BY <1>1 DEF DataInv, InStep
  <1>3. CASE at \in [Ranks -> {"read", "readsum"}]
    <2>1. at[r] \in {"read", "readsum"}
      BY <1>3
    <2> QED
      BY <1>1, <1>2, <1>3, <2>1
  <1>4. CASE at \in [Ranks -> {"write", "writesum"}]
    <2>1. at[r] \in {"write", "writesum"}
      BY <1>4
    <2> QED
      BY <1>1, <1>2, <1>4, <2>1
  <1>5. CASE at \in [Ranks -> {"header", "fill", "done"}] /\ moves = <<>>
    <2>1. at[r] \in {"header", "fill", "done"}
      BY <1>5
    <2> QED
      BY <1>1, <1>2, <1>5, <2>1
  <1> QED
    BY <1>2, <1>3, <1>4, <1>5

LEMMA DataRead ==
  ASSUME LayoutInv, DataInv, NEW r \in Ranks, ReadChunk(r)
  PROVE  DataInv'
  <1> DEFINE m == Head(moves)
             off == m.from + Base(m) + r * Chunk
             cells == ReadCells(disk, off, Count(m, r))
  <1>1. /\ at[r] = "read" /\ at' = [at EXCEPT ![r] = "readsum"]
        /\ buf' = [buf EXCEPT ![r] = cells]
        /\ UNCHANGED <<ncp, old, align, fill, numrecs, disk, saved, mode, moves, failed,
                       known>>
    BY DEF ReadChunk
  <1>2. at \in [Ranks -> {"read", "readsum"}] /\ mode = "enddef" /\ ~failed
    BY <1>1, PhaseTogether
  <1>3. at' \in [Ranks -> {"read", "readsum"}]
    BY <1>1, <1>2
  <1>4. moves # <<>> /\ moves \in Seq(MoveType) /\ m \in MoveType /\ Contiguous(disk)
        /\ DOMAIN buf = Ranks /\ at \in [Ranks -> Phases]
    <2>1. moves # <<>> /\ m \in MoveType
      BY <1>1, HeadMove DEF Moving, LayoutInv
    <2> QED
      BY <2>1 DEF LayoutInv, MoveInv, MetaInv, Typed
  <1>5. off \in Nat /\ Count(m, r) \in Nat
    BY <1>4, RoundTypes
  <1>6. Aligning' /\ Owned' /\ DataKept'
    BY <1>1, <1>2, WithinCall DEF DataInv
  <1>7. InStep'
    BY <1>1, <1>2, <1>3 DEF InStep
  <1>8. Filled'
    <2>1. \A s \in Ranks : at'[s] # "done"
      BY <1>3
    <2> QED
      BY <2>1, NotFilled
  <1>9. Buffered'
    <2>1. Len(cells) <= Count(m, r)
      <3> HIDE DEF off, m
      <3> QED
        BY <1>4, <1>5, ReadHas
    <2> HIDE DEF cells
    <2>2. ASSUME NEW s \in Ranks, at'[s] \in {"readsum", "write"}
          PROVE  Len(buf'[s]) <= Count(m, s)
      <3>1. CASE s = r
        BY <1>1, <1>4, <2>1, <3>1
      <3>2. CASE s # r
        <4>1. at'[s] = at[s] /\ buf'[s] = buf[s]
          BY <1>1, <1>2, <1>4, <3>2
        <4> QED
          BY <2>2, <4>1 DEF DataInv, Buffered
      <3> QED
        BY <3>1, <3>2
    <2> QED
      BY <1>1, <2>2 DEF Buffered
  <1>10. Carried'
    <2>1. Descending(moves)
      BY <1>2 DEF DataInv, Carried
    <2>2. ASSUME NEW e \in DOMAIN known
          PROVE  Safe(moves, Offset(old, e), Offset(ncp, e), known[e], disk, at', buf')
      <3> DEFINE x == Offset(old, e)
                 y == Offset(ncp, e)
                 v == known[e]
      <3>1. x \in Nat
        BY <1>2, KnownPlaces DEF DataInv
      <3>2. Safe(moves, x, y, v, disk, at, buf)
        BY <1>2 DEF DataInv, Carried
      <3> HIDE DEF x, y, v
      <3> DEFINE p == at'
                 b == buf'
      <3>3. Turns(buf, b, r, ReadCells(disk, m.from + Base(m) + r * Chunk, Count(m, r)))
        <4> HIDE DEF m
        <4> QED
          BY <1>1, <1>4 DEF Turns
      <3>4. Turns(at, p, r, "readsum")
        BY <1>1, <1>2 DEF Turns
      <3> HIDE DEF m, cells, off, p, b
      <3>5. m = Head(moves)
        BY DEF m
      <3>6. Safe(moves, x, y, v, disk, p, b)
        BY <1>1, <1>4, <3>1, <3>2, <3>3, <3>4, <3>5, SafeRead
      <3> QED
        BY <3>6 DEF x, y, v, p, b
    <2> QED
      BY <1>1, <2>1, <2>2 DEF Carried
  <1> QED
    BY <1>6, <1>7, <1>8, <1>9, <1>10 DEF DataInv

(* What is in the buffers stays there when all ranks have read. *)
LEMMA SafeReduction ==
  ASSUME NEW ms, NEW x, NEW y, NEW v, NEW d, NEW b,
         Safe(ms, x, y, v, d, Everywhere("readsum"), b)
  PROVE  Safe(ms, x, y, v, d, Everywhere("write"), b)
  <1> DEFINE p == Everywhere("readsum")
             q == Everywhere("write")
  <1>1. ASSUME NEW i \in 1 .. Len(ms), OnWay(ms, i, x, y, v, d, p, b)
        PROVE  OnWay(ms, i, x, y, v, d, q, b)
    <2>1. \A r \in Ranks : p[r] = "readsum" /\ q[r] = "write"
      BY DEF Everywhere
    <2> HIDE DEF p, q
    <2>2. \A r \in Ranks, k \in 0 .. Chunk - 1 :
             Held(q[r], d, b[r], x, y, k, v) <=> Held(p[r], d, b[r], x, y, k, v)
      BY <2>1 DEF Held
    <2> QED
      BY <1>1, <2>2, Zenon DEF OnWay
  <1> HIDE DEF p, q
  <1>2. Safe(ms, x, y, v, d, p, b)
    BY DEF p
  <1>3. Safe(ms, x, y, v, d, q, b)
    BY <1>1, <1>2, Zenon DEF Safe, Waiting
  <1> QED
    BY <1>3 DEF q

LEMMA DataReadsDone ==
  ASSUME "read" \notin Faults, LayoutInv, DataInv, ReadsDone
  PROVE  DataInv'
  <1>1. /\ at = Everywhere("readsum") /\ at' = Everywhere("write")
        /\ UNCHANGED <<ncp, old, align, fill, numrecs, disk, saved, mode, moves, failed,
                       buf, known>>
    BY DEF ReadsDone
  <1>2. at[0] = "readsum" /\ \A s \in Ranks : at[s] = "readsum" /\ at'[s] = "write"
    BY <1>1, RootRank DEF Everywhere
  <1>3. mode = "enddef" /\ ~failed
    BY <1>2, RootRank, PhaseTogether
  <1>4. Aligning' /\ Owned' /\ DataKept'
    BY <1>1, <1>3, WithinCall DEF DataInv
  <1>5. InStep'
    <2>1. at' \in [Ranks -> {"write", "writesum"}]
      BY <1>1 DEF Everywhere
    <2> QED
      BY <1>1, <1>3, <2>1 DEF InStep
  <1>6. Filled'
    BY <1>2, NotFilled
  <1>7. Buffered'
    BY <1>1, <1>2 DEF DataInv, Buffered
  <1>8. Carried'
    <2>1. Descending(moves)
      BY <1>3 DEF DataInv, Carried
    <2>2. ASSUME NEW e \in DOMAIN known
          PROVE  Safe(moves, Offset(old, e), Offset(ncp, e), known[e], disk, at', buf)
      <3> DEFINE x == Offset(old, e)
                 y == Offset(ncp, e)
                 v == known[e]
      <3>1. Safe(moves, x, y, v, disk, at, buf)
        BY <1>3 DEF DataInv, Carried
      <3> HIDE DEF x, y, v
      <3>2. Safe(moves, x, y, v, disk, at', buf)
        BY <1>1, <3>1, SafeReduction
      <3> QED
        BY <3>2 DEF x, y, v
    <2> QED
      BY <1>1, <2>1, <2>2 DEF Carried
  <1> QED
    BY <1>4, <1>5, <1>6, <1>7, <1>8 DEF DataInv

LEMMA DataWrite ==
  ASSUME LayoutInv, DataInv, NEW r \in Ranks, WriteChunk(r)
  PROVE  DataInv'
  <1> DEFINE m == Head(moves)
  <1>1. /\ at[r] = "write" /\ at' = [at EXCEPT ![r] = "writesum"]
        /\ disk' = WriteCells(disk, Block(m.to + Base(m) + r * Chunk, buf[r]))
        /\ buf' = [buf EXCEPT ![r] = <<>>]
        /\ UNCHANGED <<ncp, old, align, fill, numrecs, saved, mode, moves, failed, known>>
    BY DEF WriteChunk
  <1>2. at \in [Ranks -> {"write", "writesum"}] /\ mode = "enddef" /\ ~failed
    BY <1>1, PhaseTogether
  <1>3. at' \in [Ranks -> {"write", "writesum"}]
    BY <1>1, <1>2
  <1>4. moves # <<>> /\ moves \in Seq(MoveType) /\ Contiguous(disk)
        /\ DOMAIN buf = Ranks /\ IsCells(buf[r])
    <2>1. moves # <<>>
      BY <1>1, HeadMove DEF Moving, LayoutInv
    <2> QED
      BY <2>1 DEF LayoutInv, MoveInv
  <1> HIDE DEF m
  <1>5. m = Head(moves)
    BY DEF m
  <1>6. Len(buf[r]) <= Count(m, r)
    BY <1>1, <1>5 DEF DataInv, Buffered
  <1>7. Aligning' /\ Owned' /\ DataKept'
    BY <1>1, <1>2, WithinCall DEF DataInv
  <1>8. InStep'
    BY <1>1, <1>2, <1>3 DEF InStep
  <1>9. Filled'
    <2>1. \A s \in Ranks : at'[s] # "done"
      BY <1>3
    <2> QED
      BY <2>1, NotFilled
  <1>10. Buffered'
    <2>1. ASSUME NEW s \in Ranks, at'[s] \in {"readsum", "write"}
          PROVE  Len(buf'[s]) <= Count(m, s)
      <3>1. s # r
        BY <1>1, <1>2, <2>1
      <3>2. at'[s] = at[s] /\ buf'[s] = buf[s]
        BY <1>1, <1>2, <1>4, <3>1
      <3> QED
        BY <1>5, <2>1, <3>2 DEF DataInv, Buffered
    <2> QED
      BY <1>1, <1>5, <2>1 DEF Buffered
  <1>11. Carried'
    <2>1. Descending(moves)
      BY <1>2 DEF DataInv, Carried
    <2>2. ASSUME NEW e \in DOMAIN known
          PROVE  Safe(moves, Offset(old, e), Offset(ncp, e), known[e], disk', at', buf')
      <3> DEFINE x == Offset(old, e)
                 y == Offset(ncp, e)
                 v == known[e]
      <3>1. x \in Nat /\ y \in Nat
        BY <1>2, KnownPlaces DEF DataInv
      <3>2. Safe(moves, x, y, v, disk, at, buf)
        BY <1>2 DEF DataInv, Carried
      <3> HIDE DEF x, y, v
      <3> DEFINE p == at'
                 b == buf'
                 d == disk'
      <3>3. d = WriteCells(disk, Block(m.to + Base(m) + r * Chunk, buf[r]))
        BY <1>1
      <3>4. Turns(at, p, r, "writesum") /\ Turns(buf, b, r, <<>>)
        BY <1>1, <1>2, <1>4 DEF Turns
      <3> HIDE DEF p, b, d
      <3>5. Safe(moves, x, y, v, d, p, b)
        BY <1>1, <1>2, <1>4, <1>5, <1>6, <2>1, <3>1, <3>2, <3>3, <3>4, SafeWrite
      <3> QED
        BY <3>5 DEF x, y, v, p, b, d
    <2> QED
      BY <1>1, <2>1, <2>2 DEF Carried
  <1> QED
    BY <1>7, <1>8, <1>9, <1>10, <1>11 DEF DataInv

LEMMA DataWritesDone ==
  ASSUME LayoutInv, DataInv, WritesDone
  PROVE  DataInv'
  <1>1. /\ at = Everywhere("writesum") /\ moves' = AfterRound(moves)
        /\ UNCHANGED <<ncp, old, align, fill, numrecs, disk, saved, buf, known>>
    BY DEF WritesDone
  <1>2. at[0] = "writesum"
    BY <1>1, RootRank DEF Everywhere
  <1>3. mode = "enddef" /\ ~failed
    BY <1>2, RootRank, PhaseTogether
  <1>4. /\ ~failed' /\ mode' = mode
        /\ at' = (IF moves' # <<>> THEN Everywhere("read") ELSE Finish)
    BY <1>3 DEF WritesDone
  <1>5. moves # <<>> /\ moves \in Seq(MoveType)
    <2>1. moves # <<>>
      BY <1>2, RootRank, HeadMove DEF Moving, LayoutInv
    <2> QED
      BY <2>1 DEF LayoutInv, MoveInv
  <1>6. Aligning' /\ Owned' /\ DataKept'
    BY <1>1, <1>3, <1>4, WithinCall DEF DataInv
  <1>7. InStep'
    <2>1. \/ at' \in [Ranks -> {"read", "readsum"}]
          \/ at' \in [Ranks -> {"header", "fill", "done"}] /\ moves' = <<>>
      BY <1>4 DEF Everywhere, Finish
    <2> QED
      BY <1>4, <2>1 DEF InStep
  <1>8. Buffered' /\ Filled'
    <2>1. \A r \in Ranks : at'[r] \in {"read", "header", "fill"}
      BY <1>4 DEF Everywhere, Finish
    <2> QED
      BY <2>1, NotFilled, NotBuffered
  <1>9. Carried'
    <2>1. Descending(moves)
      BY <1>3 DEF DataInv, Carried
    <2>2. Descending(moves')
      BY <1>1, <1>5, <2>1, LeftDescending
    <2>3. ASSUME NEW e \in DOMAIN known
          PROVE  Safe(moves', Offset(old, e), Offset(ncp, e), known[e], disk, at', buf)
      <3> DEFINE x == Offset(old, e)
                 y == Offset(ncp, e)
                 v == known[e]
      <3>1. x \in Nat /\ y \in Nat
        BY <1>3, KnownPlaces DEF DataInv
      <3>2. Safe(moves, x, y, v, disk, at, buf)
        BY <1>3 DEF DataInv, Carried
      <3> HIDE DEF x, y, v
      <3>3. Safe(moves, x, y, v, disk, Everywhere("writesum"), buf)
        BY <1>1, <3>2
      <3>4. moves' # <<>> => at' = Everywhere("read")
        BY <1>4
      <3>5. Safe(moves', x, y, v, disk, at', buf)
        BY <1>1, <1>5, <2>1, <3>1, <3>3, <3>4, SafeRound
      <3> QED
        BY <3>5 DEF x, y, v
    <2> QED
      BY <1>1, <2>2, <2>3 DEF Carried
  <1> QED
    BY <1>6, <1>7, <1>8, <1>9 DEF DataInv

-----------------------------------------------------------------------------
(* The header and the fill. *)

LEMMA SafeAtEnd ==
  ASSUME NEW x, NEW y, NEW v, NEW d, NEW p, NEW b
  PROVE  Safe(<<>>, x, y, v, d, p, b) <=> Has(d, y, v)
  <1>1. 1 .. Len(<<>>) = {}
    OBVIOUS
  <1>2. Moved(<<>>, y)
    BY <1>1 DEF Moved
  <1>3. ~Waiting(<<>>, x, y, v, d, p, b)
    BY <1>1 DEF Waiting
  <1> QED
    BY <1>2, <1>3 DEF Safe

LEMMA DataWriteHeader ==
  ASSUME LayoutInv, DataInv, WriteHeader
  PROVE  DataInv'
  <1> DEFINE h == HdrLen(ncp)
             f == [c \in 0 .. h - 1 |-> HeaderCell]
  <1>1. /\ at[0] = "header" /\ at' = [at EXCEPT ![0] = "fill"]
        /\ disk' = WriteCells(disk, f) /\ saved' = ncp
        /\ UNCHANGED <<ncp, old, align, fill, numrecs, mode, moves, failed, buf, known>>
    BY DEF WriteHeader
  <1>2. /\ at \in [Ranks -> {"header", "fill", "done"}] /\ moves = <<>>
        /\ mode = "enddef" /\ ~failed
    BY <1>1, RootRank, PhaseTogether
  <1>3. at' \in [Ranks -> {"header", "fill", "done"}]
    BY <1>1, <1>2
  <1>4. ncp \in MetaType /\ LaidOut(ncp) /\ numrecs \in Nat /\ Contiguous(disk)
    BY <1>2 DEF LayoutInv, MetaInv, MoveInv, Typed, Computed
  <1>5. h \in Nat
    BY <1>4, HeaderLength
  <1>6. \A c, v : Has(disk, c, v) /\ c \in Nat /\ c >= h => Has(disk', c, v)
    <2>1. DOMAIN f = 0 .. h - 1
      OBVIOUS
    <2> HIDE DEF f, h
    <2>2. DOMAIN f \subseteq Nat /\ \A c \in DOMAIN f : c <= h
      BY <1>5, <2>1
    <2>3. \A c, v : Has(disk, c, v) /\ c \notin DOMAIN f => Has(WriteCells(disk, f), c, v)
      BY <1>4, <1>5, <2>2, WriteHas
    <2>4. \A c : c \in Nat /\ c >= h => c \notin DOMAIN f
      BY <1>5, <2>1
    <2> QED
      BY <1>1, <2>3, <2>4
  <1>7. \A e \in Elements(ncp, DOMAIN ncp.vars, numrecs) : \A v :
           Has(disk, Offset(ncp, e), v) => Has(disk', Offset(ncp, e), v)
    <2> SUFFICES ASSUME NEW e \in Elements(ncp, DOMAIN ncp.vars, numrecs)
                 PROVE  \A v : Has(disk, Offset(ncp, e), v) => Has(disk', Offset(ncp, e), v)
      OBVIOUS
    <2>1. Offset(ncp, e) \in Nat /\ Offset(ncp, e) >= h
      BY <1>4, BehindHeader
    <2> HIDE DEF h
    <2> QED
      BY <1>6, <2>1
  <1> HIDE DEF f, h
  <1>8. Aligning' /\ Owned' /\ DataKept'
    BY <1>1, <1>2, WithinCall DEF DataInv
  <1>9. InStep'
    BY <1>1, <1>2, <1>3 DEF InStep
  <1>10. Buffered'
    <2>1. \A r \in Ranks : at'[r] \notin {"readsum", "write"}
      BY <1>3
    <2> QED
      BY <2>1, NotBuffered
  <1>11. Carried'
    <2>1. Descending(moves)
      BY <1>2 DEF DataInv, Carried
    <2>2. ASSUME NEW e \in DOMAIN known
          PROVE  Safe(moves, Offset(old, e), Offset(ncp, e), known[e], disk', at', buf)
      <3>1. e \in Elements(ncp, DOMAIN ncp.vars, numrecs)
        BY <1>2, KnownPlaces DEF DataInv
      <3>2. Safe(moves, Offset(old, e), Offset(ncp, e), known[e], disk, at, buf)
        BY <1>2 DEF DataInv, Carried
      <3>3. Has(disk, Offset(ncp, e), known[e])
        BY <1>2, <3>2, SafeAtEnd
      <3>4. Has(disk', Offset(ncp, e), known[e])
        BY <1>7, <3>1, <3>3
      <3> QED
        BY <1>2, <3>4, SafeAtEnd
    <2> QED
      BY <1>1, <2>1, <2>2 DEF Carried
  <1>12. Filled'
    <2> SUFFICES ASSUME fill, NEW r \in Ranks, at'[r] = "done",
                        NEW e \in FillShare(ncp, old, numrecs, r)
                 PROVE  Has(disk', Offset(ncp, e), Fill)
      BY <1>1 DEF Filled
    <2>1. at[r] = "done"
      BY <1>1, <1>2
    <2>2. Has(disk, Offset(ncp, e), Fill)
      BY <2>1 DEF DataInv, Filled
    <2>3. e \in Elements(ncp, DOMAIN ncp.vars, numrecs)
      BY <1>4, FillCells
    <2> QED
      BY <1>7, <2>2, <2>3
  <1> QED
    BY <1>8, <1>9, <1>10, <1>11, <1>12 DEF DataInv

LEMMA DataFill ==
  ASSUME LayoutInv, DataInv, NEW r \in Ranks, FillVars(r)
  PROVE  DataInv'
  <1> DEFINE f == FillBlock(ncp, old, numrecs, r)
             E == Elements(ncp, DOMAIN ncp.vars, numrecs)
             b == ncp.begin_rec + numrecs * ncp.recsize
             F == FillShare(ncp, old, numrecs, r)
  <1>1. /\ at[r] = "fill" /\ at' = [at EXCEPT ![r] = "done"]
        /\ disk' = (IF fill THEN WriteCells(disk, f) ELSE disk)
        /\ UNCHANGED <<ncp, old, align, fill, numrecs, saved, mode, moves, failed, buf,
                       known>>
    BY DEF FillVars
  <1>2. /\ at \in [Ranks -> {"header", "fill", "done"}] /\ moves = <<>>
        /\ mode = "enddef" /\ ~failed
    BY <1>1, PhaseTogether
  <1>3. at' \in [Ranks -> {"header", "fill", "done"}]
    BY <1>1, <1>2
  <1>4. ncp \in MetaType /\ LaidOut(ncp) /\ numrecs \in Nat /\ Contiguous(disk)
    BY <1>2 DEF LayoutInv, MetaInv, MoveInv, Typed, Computed
  <1>5. /\ DOMAIN f \subseteq Nat /\ b \in Nat
        /\ \A c \in DOMAIN f : c <= b /\ f[c] = Fill /\ \E e \in F : c = Offset(ncp, e)
        /\ \A e \in F : Offset(ncp, e) \in DOMAIN f
        /\ F \subseteq E
        /\ \A e \in F : e[1] \in NewVars(ncp, old)
    <2>1. f = FillBlock(ncp, old, numrecs, r)
      OBVIOUS
    <2> HIDE DEF f
    <2> QED
      BY <1>4, <2>1, FillCells, SMTT(60)
  <1> HIDE DEF f, b, F
  <1>6. fill => /\ \A c \in DOMAIN f : Has(disk', c, f[c])
                /\ \A c, v : Has(disk, c, v) /\ c \notin DOMAIN f => Has(disk', c, v)
    <2>1. \A c \in DOMAIN f : c <= b
      BY <1>5
    <2>2. /\ \A c \in DOMAIN f : Has(WriteCells(disk, f), c, f[c])
          /\ \A c, v : Has(disk, c, v) /\ c \notin DOMAIN f
                          => Has(WriteCells(disk, f), c, v)
      BY <1>4, <1>5, <2>1, WriteHas
    <2> QED
      BY <1>1, <2>2
  <1>7. Aligning' /\ Owned' /\ DataKept'
    BY <1>1, <1>2, WithinCall DEF DataInv
  <1>8. InStep'
    BY <1>1, <1>2, <1>3 DEF InStep
  <1>9. Buffered'
    <2>1. \A s \in Ranks : at'[s] \notin {"readsum", "write"}
      BY <1>3
    <2> QED
      BY <2>1, NotBuffered
  <1>10. Carried'
    <2>1. Descending(moves)
      BY <1>2 DEF DataInv, Carried
    <2>2. ASSUME NEW e \in DOMAIN known
          PROVE  Safe(moves, Offset(old, e), Offset(ncp, e), known[e], disk', at', buf)
      <3>1. e \in E /\ e[1] \in DOMAIN old.vars /\ old # None
        BY <1>2, KnownPlaces DEF DataInv
      <3>2. Safe(moves, Offset(old, e), Offset(ncp, e), known[e], disk, at, buf)
        BY <1>2 DEF DataInv, Carried
      <3>3. Has(disk, Offset(ncp, e), known[e])
        BY <1>2, <3>2, SafeAtEnd
      <3>4. Offset(ncp, e) \notin DOMAIN f
        <4> SUFFICES ASSUME Offset(ncp, e) \in DOMAIN f PROVE FALSE
          OBVIOUS
        <4>1. PICK g \in F : Offset(ncp, e) = Offset(ncp, g)
          BY <1>5
        <4>2. g \in E /\ g[1] \in NewVars(ncp, old)
          BY <1>5
        <4>3. e = g
          BY <1>4, <3>1, <4>1, <4>2, OffsetsDiffer
        <4> QED
          BY <3>1, <4>2, <4>3 DEF NewVars
      <3>5. Has(disk', Offset(ncp, e), known[e])
        <4>1. CASE fill
          BY <1>6, <3>3, <3>4, <4>1
        <4>2. CASE ~fill
          BY <1>1, <3>3, <4>2
        <4> QED
          BY <4>1, <4>2
      <3> QED
        BY <1>2, <3>5, SafeAtEnd
    <2> QED
      BY <1>1, <2>1, <2>2 DEF Carried
  <1>11. Filled'
    <2> SUFFICES ASSUME fill, NEW s \in Ranks, at'[s] = "done",
                        NEW e \in FillShare(ncp, old, numrecs, s)
                 PROVE  Has(disk', Offset(ncp, e), Fill)
      BY <1>1 DEF Filled
    <2>1. ASSUME Offset(ncp, e) \in DOMAIN f
          PROVE  Has(disk', Offset(ncp, e), Fill)
      <3>1. f[Offset(ncp, e)] = Fill
        BY <1>5, <2>1
      <3> QED
        BY <1>6, <2>1, <3>1
    <2>2. CASE s = r
      <3>1. Offset(ncp, e) \in DOMAIN f
        BY <1>5, <2>2 DEF F
      <3> QED
        BY <2>1, <3>1
    <2>3. CASE s # r
      <3>1. at[s] = "done"
        BY <1>1, <1>2, <2>3
      <3>2. Has(disk, Offset(ncp, e), Fill)
        BY <3>1 DEF DataInv, Filled
      <3> QED
        BY <1>6, <2>1, <3>2
    <2> QED
      BY <2>2, <2>3
  <1> QED
    BY <1>7, <1>8, <1>9, <1>10, <1>11 DEF DataInv

(* Every cell of a new variable is filled by some rank. *)
LEMMA NewElement ==
  ASSUME NEW n \in MetaType, NEW o \in OldType, NEW recs \in Nat,
         NEW e \in Elements(n, NewVars(n, o), FillRecs(o, recs))
  PROVE  /\ e \in Elements(n, DOMAIN n.vars, recs)
         /\ \E r \in Ranks : e \in FillShare(n, o, recs, r)
  <1> DEFINE N == NewVars(n, o)
             k == FillRecs(o, recs)
  <1>1. N \subseteq DOMAIN n.vars /\ k \in Nat /\ k <= recs
    BY DEF NewVars, FillRecs
  <1> HIDE DEF N, k
  <1>2. e \in Elements(n, N, k)
    BY DEF N, k
  <1>3. e \in Elements(n, DOMAIN n.vars, recs)
    BY <1>1, <1>2, ExtendsAll, ElementsGrow
  <1>4. e[1] \in 1 .. Len(n.vars) /\ e[3] \in Nat /\ e[3] < n.vars[e[1]].size
    BY <1>3, ElementParts
  <1>5. n.vars[e[1]].size \in Nat
    BY <1>4, Kinds, Lengths
  <1>6. PICK r \in Ranks : e[3] \in ShareOf(n.vars[e[1]].size, r)
    BY <1>4, <1>5, ShareCovers
  <1>7. e \in FillShare(n, o, recs, r)
    BY <1>6 DEF FillShare
  <1> QED
    BY <1>3, <1>7

LEMMA DataLeave ==
  ASSUME LayoutInv, DataInv, Leave
  PROVE  DataInv'
  <1> DEFINE N == Elements(ncp, NewVars(ncp, old), FillRecs(old, numrecs))
             E == Elements(ncp, DOMAIN ncp.vars, numrecs)
  <1>1. /\ at = Everywhere("done") /\ old' = None /\ mode' = "data"
        /\ known' = (IF ~fill THEN known
                     ELSE [e \in DOMAIN known \cup N |->
                             IF e \in DOMAIN known THEN known[e] ELSE Fill])
        /\ UNCHANGED <<ncp, align, fill, numrecs, disk, saved, failed>>
    BY DEF Leave
  <1>2. at[0] = "done" /\ \A r \in Ranks : at[r] = "done"
    BY <1>1, RootRank DEF Everywhere
  <1>3. moves = <<>> /\ mode = "enddef" /\ ~failed
    BY <1>2, RootRank, PhaseTogether
  <1>4. LayoutInv'
    <2>1. MetaInv'
      BY MetaLeave DEF LayoutInv
    <2>2. MoveInv'
      <3>1. [Next]_vars
        BY DEF Next
      <3> QED
        BY <3>1, MovesNext DEF LayoutInv
    <2> QED
      BY <2>1, <2>2 DEF LayoutInv
  <1>5. /\ ncp \in MetaType /\ LaidOut(ncp) /\ numrecs \in Nat /\ old \in OldType
        /\ saved # None /\ saved \in MetaType /\ LaidOut(saved) /\ saved.vars = ncp.vars
    BY <1>2, <1>3 DEF LayoutInv, MetaInv, Typed, Computed, Written, SavedLaid, OldType
  <1>6. \A e \in DOMAIN known : e \in E /\ Has(disk, Offset(ncp, e), known[e])
    <2> SUFFICES ASSUME NEW e \in DOMAIN known
                 PROVE  e \in E /\ Has(disk, Offset(ncp, e), known[e])
      OBVIOUS
    <2>1. e \in E
      BY <1>3, KnownPlaces DEF DataInv
    <2>2. Safe(moves, Offset(old, e), Offset(ncp, e), known[e], disk, at, buf)
      BY <1>3 DEF DataInv, Carried
    <2> QED
      BY <1>3, <2>1, <2>2, SafeAtEnd
  <1>7. fill => \A e \in N : e \in E /\ Has(disk, Offset(ncp, e), Fill)
    <2> SUFFICES ASSUME fill, NEW e \in N
                 PROVE  e \in E /\ Has(disk, Offset(ncp, e), Fill)
      OBVIOUS
    <2>1. e \in E /\ \E r \in Ranks : e \in FillShare(ncp, old, numrecs, r)
      BY <1>5, NewElement
    <2>2. PICK r \in Ranks : e \in FillShare(ncp, old, numrecs, r)
      BY <2>1
    <2>3. Has(disk, Offset(ncp, e), Fill)
      BY <1>2, <2>2 DEF DataInv, Filled
    <2> QED
      BY <2>1, <2>3
  <1> HIDE DEF N
  <1>8. \A e \in DOMAIN known' : e \in E /\ Has(disk, Offset(ncp, e), known'[e])
    <2>1. CASE ~fill
      BY <1>1, <1>6, <2>1
    <2>2. CASE fill
      <3>1. /\ DOMAIN known' = DOMAIN known \cup N
            /\ \A e \in DOMAIN known \cup N :
                  known'[e] = IF e \in DOMAIN known THEN known[e] ELSE Fill
        BY <1>1, <2>2
      <3> HIDE DEF E
      <3> QED
        BY <1>6, <1>7, <2>2, <3>1
    <2> QED
      BY <2>1, <2>2
  <1>9. \A e \in E : Offset(saved, e) = Offset(ncp, e)
    <2> SUFFICES ASSUME NEW e \in E PROVE Offset(saved, e) = Offset(ncp, e)
      OBVIOUS
    <2>1. e[1] \in 1 .. Len(ncp.vars)
      BY <1>5, ElementParts
    <2> QED
      BY <1>5, <2>1, SameOffset
  <1>10. Aligning'
    BY <1>1 DEF DataInv, Aligning
  <1>11. Owned'
    <2>1. Elements(saved, DOMAIN saved.vars, numrecs) = E
      BY <1>5, SameElements
    <2> HIDE DEF E
    <2>2. Of(saved)'
      BY <1>1, <1>8, <2>1 DEF Of
    <2> QED
      BY <1>1, <1>5, <2>2 DEF Owned
  <1>12. DataKept'
    <2> HIDE DEF E
    <2> QED
      BY <1>1, <1>8, <1>9 DEF DataKept, Has
  <1>13. InStep' /\ Buffered' /\ Carried' /\ Filled'
    <2>1. mode' # "enddef" /\ ~failed'
      BY <1>1, <1>3
    <2> QED
      BY <1>4, <2>1, OutsideCall
  <1> QED
    BY <1>10, <1>11, <1>12, <1>13 DEF DataInv

-----------------------------------------------------------------------------
(* The steps outside enddef. *)

LEMMA DataPut ==
  ASSUME LayoutInv, DataInv, NEW v \in DOMAIN ncp.vars,
         NEW recs \in IF ncp.vars[v].rec THEN 1 .. MaxRecs ELSE {1}, Put(v, recs)
  PROVE  DataInv'
  <1> DEFINE P == Elements(ncp, {v}, recs)
             f == [c \in {Offset(ncp, e) : e \in P} |->
                     CHOOSE e \in P : Offset(ncp, e) = c]
             E == Elements(ncp, DOMAIN ncp.vars, numrecs')
             b == ncp.begin_rec + numrecs' * ncp.recsize
  <1>1. /\ mode = "data" /\ mode' = mode /\ disk' = WriteCells(disk, f)
        /\ known' = [e \in DOMAIN known \cup P |-> IF e \in P THEN e ELSE known[e]]
        /\ numrecs' = (IF ncp.vars[v].rec THEN Larger(numrecs, recs) ELSE numrecs)
        /\ UNCHANGED <<ncp, old, align, fill, saved, failed>>
    BY DEF Put
  <1>2. LayoutInv'
    <2>1. recs \in Nat
      BY LayoutAssumption
    <2> QED
      BY <2>1, MetaPut, MovesPut DEF LayoutInv
  <1>3. /\ ncp \in MetaType /\ LaidOut(ncp) /\ numrecs \in Nat /\ Contiguous(disk)
        /\ saved # None /\ saved \in MetaType /\ LaidOut(saved) /\ saved.vars = ncp.vars
        /\ numrecs' \in Nat /\ ~failed /\ old = None
    <2>1. /\ saved # None /\ saved.vars = ncp.vars /\ LaidOut(ncp) /\ old = None
      BY <1>1 DEF LayoutInv, MetaInv, Written, OldLaid
    <2>2. saved \in MetaType /\ LaidOut(saved)
      BY <2>1 DEF LayoutInv, MetaInv, Typed, OldType, SavedLaid
    <2>3. ncp \in MetaType /\ numrecs \in Nat /\ Contiguous(disk) /\ ~failed
      BY DEF LayoutInv, MetaInv, MoveInv, Typed, DataInv, InStep
    <2>4. numrecs' \in Nat
      BY <1>2 DEF LayoutInv, MetaInv, Typed
    <2> QED
      BY <2>1, <2>2, <2>3, <2>4
  <1>4. numrecs <= numrecs' /\ (ncp.vars[v].rec => recs <= numrecs')
    <2>1. recs \in Nat
      BY LayoutAssumption
    <2>2. Larger(numrecs, recs) >= numrecs /\ Larger(numrecs, recs) >= recs
      BY <1>3, <2>1, LargerOf
    <2>3. CASE ncp.vars[v].rec
      BY <1>1, <1>3, <2>1, <2>2, <2>3
    <2>4. CASE ~ncp.vars[v].rec
      <3>1. numrecs' = numrecs
        BY <1>1, <2>4
      <3> QED
        BY <1>3, <2>4, <3>1
    <2> QED
      BY <2>3, <2>4
  <1>5. P \subseteq E
    <2> SUFFICES ASSUME NEW e \in P PROVE e \in E
      OBVIOUS
    <2>1. recs \in Nat
      BY LayoutAssumption
    <2>2. e \in {v} \X (0 .. (IF ncp.vars[v].rec THEN recs ELSE 1) - 1)
                    \X (0 .. ncp.vars[v].size - 1)
      BY DEF Elements
    <2>3. /\ e = <<v, e[2], e[3]>>
          /\ e[2] \in 0 .. (IF ncp.vars[v].rec THEN recs ELSE 1) - 1
          /\ e[3] \in 0 .. ncp.vars[v].size - 1
      BY <2>2
    <2>4. e[2] \in 0 .. (IF ncp.vars[v].rec THEN numrecs' ELSE 1) - 1
      BY <1>3, <1>4, <2>1, <2>3
    <2> QED
      BY <1>3, <2>3, <2>4, IsElement
  <1> HIDE DEF P, E
  <1>6. DOMAIN known \subseteq E
    <2>1. DOMAIN known \subseteq Elements(saved, DOMAIN saved.vars, numrecs)
      BY <1>1 DEF DataInv, Owned, Of
    <2>2. Elements(saved, DOMAIN saved.vars, numrecs)
             = Elements(ncp, DOMAIN ncp.vars, numrecs)
      BY <1>3, SameElements
    <2>3. \A e \in Elements(ncp, DOMAIN ncp.vars, numrecs) : e \in E
      BY <1>3, <1>4, ExtendsAll, ElementsGrow DEF E
    <2> QED
      BY <2>1, <2>2, <2>3
  <1>7. \A e \in E : Offset(ncp, e) \in Nat /\ b \in Nat /\ Offset(ncp, e) <= b
    BY <1>3, OffsetBound DEF E
  <1>8. \A e, g \in E : Offset(ncp, e) = Offset(ncp, g) => e = g
    BY <1>3, OffsetsDiffer DEF E
  <1>9. \A e \in P : f[Offset(ncp, e)] = e /\ Offset(ncp, e) \in DOMAIN f
    BY <1>5, <1>8
  <1>10. DOMAIN f = {Offset(ncp, e) : e \in P}
    OBVIOUS
  <1> HIDE DEF f, b
  <1>11. /\ \A c \in DOMAIN f : Has(disk', c, f[c])
         /\ \A c, u : Has(disk, c, u) /\ c \notin DOMAIN f => Has(disk', c, u)
    <2>1. CASE P = {}
      <3>1. DOMAIN f \subseteq Nat /\ 0 \in Nat /\ \A c \in DOMAIN f : c <= 0
        BY <1>10, <2>1
      <3> QED
        BY <1>1, <1>3, <3>1, WriteHas
    <2>2. CASE P # {}
      <3>1. DOMAIN f \subseteq Nat /\ b \in Nat /\ \A c \in DOMAIN f : c <= b
        BY <1>5, <1>7, <1>10, <2>2
      <3> QED
        BY <1>1, <1>3, <3>1, WriteHas
    <2> QED
      BY <2>1, <2>2
  <1>12. \A e \in E : Offset(saved, e) = Offset(ncp, e)
    <2> SUFFICES ASSUME NEW e \in E PROVE Offset(saved, e) = Offset(ncp, e)
      OBVIOUS
    <2>1. e[1] \in 1 .. Len(ncp.vars)
      BY <1>3, ElementParts DEF E
    <2> QED
      BY <1>3, <2>1, SameOffset
  <1>13. DOMAIN known' = DOMAIN known \cup P
         /\ \A e \in DOMAIN known' : known'[e] = IF e \in P THEN e ELSE known[e]
    BY <1>1
  <1>14. \A e \in DOMAIN known' : Has(disk', Offset(saved, e), known'[e])
    <2> SUFFICES ASSUME NEW e \in DOMAIN known'
                 PROVE  Has(disk', Offset(saved, e), known'[e])
      OBVIOUS
    <2>1. CASE e \in P
      BY <1>5, <1>9, <1>11, <1>12, <1>13, <2>1
    <2>2. CASE e \notin P
      <3>1. e \in DOMAIN known /\ known'[e] = known[e] /\ e \in E
        BY <1>6, <1>13, <2>2
      <3>2. Has(disk, Offset(saved, e), known[e])
        BY <1>1, <3>1 DEF DataInv, DataKept, Has
      <3>3. Offset(saved, e) \notin DOMAIN f
        <4> SUFFICES ASSUME Offset(saved, e) \in DOMAIN f PROVE FALSE
          OBVIOUS
        <4>1. PICK g \in P : Offset(ncp, e) = Offset(ncp, g)
          BY <1>10, <1>12, <3>1
        <4>2. e = g
          BY <1>5, <1>8, <3>1, <4>1
        <4> QED
          BY <2>2, <4>2
      <3> QED
        BY <1>11, <3>1, <3>2, <3>3
    <2> QED
      BY <2>1, <2>2
  <1>15. Aligning'
    BY <1>1 DEF DataInv, Aligning
  <1>16. Owned'
    <2>1. Elements(saved, DOMAIN saved.vars, numrecs') = E
      BY <1>3, SameElements DEF E
    <2>2. DOMAIN known' \subseteq E
      BY <1>5, <1>6, <1>13
    <2>3. Of(saved)'
      BY <1>1, <2>1, <2>2 DEF Of
    <2> QED
      BY <1>1, <1>3, <2>3 DEF Owned
  <1>17. DataKept'
    BY <1>1, <1>14 DEF DataKept, Has
  <1>18. InStep' /\ Buffered' /\ Carried' /\ Filled'
    <2>1. mode' # "enddef" /\ ~failed'
      BY <1>1, <1>3
    <2> QED
      BY <1>2, <2>1, OutsideCall
  <1> QED
    BY <1>15, <1>16, <1>17, <1>18 DEF DataInv

(* A step outside enddef that keeps the file and what is known of it. *)
LEMMA DataOutside ==
  ASSUME LayoutInv, LayoutInv', DataInv, mode # "enddef", mode' # "enddef",
         UNCHANGED <<disk, known, saved, numrecs, failed>>, Aligning', Owned'
  PROVE  DataInv'
  <1>1. ~failed'
    BY DEF DataInv, InStep
  <1>2. InStep' /\ Buffered' /\ Carried' /\ Filled'
    BY <1>1, OutsideCall
  <1>3. DataKept'
    BY DEF DataInv, DataKept
  <1> QED
    BY <1>2, <1>3 DEF DataInv

(* Definitions, hints of the fill and steps that change nothing. *)
LEMMA DataStays ==
  ASSUME LayoutInv, LayoutInv', DataInv, mode # "enddef", mode' = mode,
         UNCHANGED <<disk, known, saved, numrecs, failed, old, align>>
  PROVE  DataInv'
  <1>1. Aligning'
    BY DEF DataInv, Aligning
  <1>2. Owned'
    BY DEF DataInv, Owned, Of
  <1> QED
    BY <1>1, <1>2, DataOutside

LEMMA DataRedef ==
  ASSUME LayoutInv, LayoutInv', DataInv, Redef
  PROVE  DataInv'
  <1>1. /\ mode = "data" /\ mode' = "define" /\ old' = ncp
        /\ UNCHANGED <<disk, known, saved, numrecs, failed, align>>
    BY DEF Redef
  <1>2. saved # None /\ saved.vars = ncp.vars /\ ncp \in MetaType
    BY <1>1 DEF LayoutInv, MetaInv, Written, Typed
  <1>3. ncp # None
    BY <1>2, NotNone
  <1>4. \A g : Tight(saved, g) => Tight(ncp, g)
    BY <1>2, SameElements
  <1>5. Aligning'
    BY <1>1, <1>2, <1>4 DEF DataInv, Aligning
  <1>6. Owned'
    <2>1. DOMAIN known \subseteq Elements(saved, DOMAIN saved.vars, numrecs)
      BY <1>1 DEF DataInv, Owned, Of
    <2>2. Elements(saved, DOMAIN saved.vars, numrecs)
             = Elements(ncp, DOMAIN ncp.vars, numrecs)
      BY <1>2, SameElements
    <2>3. Of(old)'
      BY <1>1, <2>1, <2>2 DEF Of
    <2> QED
      BY <1>1, <1>2, <1>3, <2>3 DEF Owned
  <1> QED
    BY <1>1, <1>5, <1>6, DataOutside

LEMMA DataClose ==
  ASSUME LayoutInv, LayoutInv', DataInv, Close
  PROVE  DataInv'
  <1>1. /\ mode = "data" /\ mode' = "closed"
        /\ UNCHANGED <<disk, known, saved, numrecs, failed, align, old>>
    BY DEF Close
  <1>2. old = None
    BY <1>1 DEF LayoutInv, MetaInv, OldLaid
  <1>3. Aligning'
    BY <1>1 DEF DataInv, Aligning
  <1>4. Owned'
    BY <1>1, <1>2 DEF DataInv, Owned, Of
  <1> QED
    BY <1>1, <1>3, <1>4, DataOutside

LEMMA DataAbort ==
  ASSUME LayoutInv, LayoutInv', DataInv, Abort
  PROVE  DataInv'
  <1>1. /\ mode = "define" /\ old' = None
        /\ UNCHANGED <<saved, numrecs, failed, align>>
    BY DEF Abort
  <1>2. CASE old = None
    <2>1. mode' = "deleted" /\ known' = <<>>
      BY <1>2 DEF Abort
    <2>2. DOMAIN known' = {}
      BY <2>1
    <2>3. Aligning'
      BY <1>1, <2>1 DEF DataInv, Aligning
    <2>4. Owned'
      BY <1>1, <2>1, <2>2 DEF Owned
    <2>5. DataKept'
      BY <2>2 DEF DataKept
    <2>6. ~failed' /\ mode' # "enddef"
      BY <1>1, <2>1 DEF DataInv, InStep
    <2>7. InStep' /\ Buffered' /\ Carried' /\ Filled'
      BY <2>6, OutsideCall
    <2> QED
      BY <2>3, <2>4, <2>5, <2>7 DEF DataInv
  <1>3. CASE old # None
    <2>1. mode' = "closed" /\ UNCHANGED <<disk, known>>
      BY <1>3 DEF Abort
    <2>2. saved # None /\ saved.vars = old.vars
      BY <1>1, <1>3 DEF DataInv, Owned, LayoutInv, MetaInv, OldLaid
    <2>3. Aligning'
      BY <1>1, <2>1 DEF DataInv, Aligning
    <2>4. Owned'
      <3>1. DOMAIN known \subseteq Elements(old, DOMAIN old.vars, numrecs)
        BY <1>3 DEF DataInv, Owned, Of
      <3>2. Elements(saved, DOMAIN saved.vars, numrecs)
               = Elements(old, DOMAIN old.vars, numrecs)
        BY <2>2, SameElements
      <3>3. Of(saved)'
        BY <1>1, <2>1, <3>1, <3>2 DEF Of
      <3> QED
        BY <1>1, <2>1, <2>2, <3>3 DEF Owned
    <2> QED
      BY <1>1, <2>1, <2>3, <2>4, DataOutside
  <1> QED
    BY <1>2, <1>3

LEMMA DataOpen ==
  ASSUME LayoutInv, LayoutInv', DataInv, NEW a \in Hints, Open(a) \/ Create(a)
  PROVE  DataInv'
  <1>1. /\ mode \in {"closed", "deleted"} /\ mode' \in {"data", "define"} /\ align' = a
        /\ mode = "closed" <=> mode' = "data"
        /\ UNCHANGED <<disk, known, saved, numrecs, failed, old>>
    BY DEF Open, Create
  <1>2. old = None
    BY <1>1 DEF LayoutInv, MetaInv, OldLaid
  <1>3. Grain(a.fx) = Grain(align.fx)
    BY DEF DataInv, Aligning
  <1>4. Aligning'
    BY <1>1, <1>2, <1>3 DEF DataInv, Aligning
  <1>5. Owned'
    <2>1. mode' = "data" => saved # None /\ Of(saved)
      BY <1>1 DEF DataInv, Owned
    <2>2. mode' = "define" => DOMAIN known = {}
      BY <1>1, <1>2 DEF DataInv, Owned
    <2>3. Of(saved)' <=> Of(saved)
      BY <1>1 DEF Of
    <2> QED
      BY <1>1, <1>2, <2>1, <2>2, <2>3 DEF Owned
  <1> QED
    BY <1>1, <1>4, <1>5, DataOutside

LEMMA DataNext ==
  ASSUME "read" \notin Faults, LayoutInv, DataInv, [Next]_vars
  PROVE  DataInv'
  <1>1. LayoutInv'
    BY MetaNext, MovesNext DEF LayoutInv
  <1>2. ASSUME NEW rec \in BOOLEAN, NEW size \in Sizes, DefVar(rec, size) PROVE DataInv'
    <2>1. mode = "define" /\ mode' = mode
          /\ UNCHANGED <<disk, known, saved, numrecs, failed, old, align>>
      BY <1>2 DEF DefVar
    <2> QED
      BY <1>1, <2>1, DataStays
  <1>3. ASSUME PutAtt \/ SetFill PROVE DataInv'
    <2>1. mode = "define" /\ mode' = mode
          /\ UNCHANGED <<disk, known, saved, numrecs, failed, old, align>>
      BY <1>3 DEF PutAtt, SetFill
    <2> QED
      BY <1>1, <2>1, DataStays
  <1>4. ASSUME UNCHANGED vars PROVE DataInv'
    <2>1. UNCHANGED <<ncp, old, align, fill, numrecs, disk, saved, mode, moves, failed,
                      at, buf, known>>
      BY <1>4 DEF vars
    <2>2. Aligning' /\ Owned'
      BY <2>1 DEF DataInv, Aligning, Owned, Of
    <2>3. InStep' /\ Buffered'
      BY <2>1 DEF DataInv, InStep, Buffered
    <2>4. Carried' /\ Filled' /\ DataKept'
      BY <2>1 DEF DataInv, Carried, Filled, DataKept
    <2> QED
      BY <2>2, <2>3, <2>4 DEF DataInv
  <1>5. ASSUME NEW args \in EndDefArgs, EndDef(args) PROVE DataInv'
    BY <1>5, DataEndDef
  <1>6. ASSUME NEW r \in Ranks, ReadChunk(r) \/ WriteChunk(r) \/ FillVars(r) PROVE DataInv'
    BY <1>6, DataRead, DataWrite, DataFill
  <1>7. ASSUME ReadsDone \/ WritesDone \/ WriteHeader \/ Leave PROVE DataInv'
    BY <1>7, DataReadsDone, DataWritesDone, DataWriteHeader, DataLeave
  <1>8. ASSUME NEW v \in DOMAIN ncp.vars,
               NEW recs \in IF ncp.vars[v].rec THEN 1 .. MaxRecs ELSE {1}, Put(v, recs)
        PROVE  DataInv'
    BY <1>8, DataPut
  <1>9. ASSUME Redef \/ Close \/ Abort PROVE DataInv'
    BY <1>1, <1>9, DataRedef, DataClose, DataAbort
  <1>10. ASSUME NEW a \in Hints, Open(a) \/ Create(a) PROVE DataInv'
    BY <1>1, <1>10, DataOpen
  <1> QED
    BY <1>2, <1>3, <1>4, <1>5, <1>6, <1>7, <1>8, <1>9, <1>10 DEF Next

LEMMA DataInit ==
  ASSUME Init, \A a, b \in Hints : Grain(a.fx) = Grain(b.fx)
  PROVE  DataInv
  <1>1. /\ old = None /\ saved = None /\ mode = "define" /\ failed = FALSE
        /\ at = Everywhere("idle") /\ DOMAIN known = {} /\ align \in Hints
    BY DEF Init
  <1>2. \A r \in Ranks : at[r] = "idle"
    BY <1>1 DEF Everywhere
  <1>3. Aligning
    BY <1>1 DEF Aligning
  <1>4. Owned
    BY <1>1 DEF Owned
  <1>5. InStep
    BY <1>1 DEF InStep
  <1>6. Buffered
    BY <1>2 DEF Buffered
  <1>7. Carried
    BY <1>1 DEF Carried
  <1>8. Filled
    BY <1>2 DEF Filled
  <1>9. DataKept
    BY <1>1 DEF DataKept
  <1> QED
    BY <1>3, <1>4, <1>5, <1>6, <1>7, <1>8, <1>9 DEF DataInv

(* No redef, growth of the header, new variable, alignment or free space    *)
(* loses or misplaces an element: out of enddef the file reads, through     *)
(* the header it has on disk, what was put, whatever the order in which     *)
(* the ranks read and write the chunks of a move.  Two things are assumed:  *)
(* that no read of a move fails, and that fixed-size variables are aligned  *)
(* the same at every open, for move_fixed_vars is not called when only      *)
(* later ones have to go further up.                                        *)
THEOREM DataIsKept ==
  ASSUME "read" \notin Faults, \A a, b \in Hints : Grain(a.fx) = Grain(b.fx)
  PROVE  Spec => []DataKept
  <1>1. Init => LayoutInv /\ DataInv
    BY MetaInit, MoveInit, DataInit DEF LayoutInv
  <1>2. LayoutInv /\ DataInv /\ [Next]_vars => (LayoutInv /\ DataInv)'
    BY MetaNext, MovesNext, DataNext DEF LayoutInv
  <1>3. DataInv => DataKept
    BY DEF DataInv
  <1> QED
    BY <1>1, <1>2, <1>3, PTL DEF Spec
=============================================================================
