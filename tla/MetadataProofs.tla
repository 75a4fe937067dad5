--------------------------- MODULE MetadataProofs ---------------------------
(***************************************************************************)
(* Theorems about Metadata, for any number of ranks, objects, calls, names *)
(* and hash keys.                                                          *)
(***************************************************************************)
EXTENDS Metadata, LoopLemmas, SequenceTheorems, TLAPS

USE MetadataAssumption

-----------------------------------------------------------------------------
(* An entry taken out of a list: those behind it move down by one place.   *)
LEMMA RemoveAtSeq ==
  ASSUME NEW S, NEW s \in Seq(S), NEW p \in 1 .. Len(s)
  PROVE  /\ RemoveAt(s, p) \in Seq(S)
         /\ Len(RemoveAt(s, p)) = Len(s) - 1
         /\ \A j \in 1 .. Len(s) - 1 :
               RemoveAt(s, p)[j] = IF j < p THEN s[j] ELSE s[j + 1]
  <1> DEFINE a == SubSeq(s, 1, p - 1)
             b == SubSeq(s, p + 1, Len(s))
  <1>1. /\ a \in Seq(S) /\ Len(a) = p - 1
        /\ \A j \in 1 .. p - 1 : a[j] = s[j]
    <2>1. \A i \in 1 .. p - 1 : s[i] \in S
      BY ElementOfSeq
    <2> QED
      BY <2>1, SubSeqProperties
  <1>2. /\ b \in Seq(S) /\ Len(b) = Len(s) - p
        /\ \A j \in 1 .. Len(s) - p : b[j] = s[p + j]
    <2>1. \A i \in p + 1 .. Len(s) : s[i] \in S
      BY ElementOfSeq
    <2>2. Len(s) \in Int /\ p + 1 \in Int
      OBVIOUS
    <2>3. /\ b \in Seq(S) /\ Len(b) = IF p + 1 <= Len(s) THEN Len(s) - (p + 1) + 1 ELSE 0
          /\ \A j \in 1 .. Len(s) - (p + 1) + 1 : b[j] = s[p + 1 + j - 1]
      BY <2>1, <2>2, SubSeqProperties
    <2> QED
      BY <2>3
  <1>3. RemoveAt(s, p) = a \o b
    BY DEF RemoveAt
  <1> HIDE DEF a, b
  <1>4. /\ a \o b \in Seq(S) /\ Len(a \o b) = Len(a) + Len(b)
        /\ \A i \in 1 .. Len(a) + Len(b) :
              (a \o b)[i] = IF i <= Len(a) THEN a[i] ELSE b[i - Len(a)]
    <2>1. a \in Seq(S) /\ b \in Seq(S)
      BY <1>1, <1>2
    <2> QED
      BY <2>1, ConcatProperties, ZenonT(60)
  <1> QED
    BY <1>1, <1>2, <1>3, <1>4, SMTT(30)

LEMMA RemoveFirstSeq ==
  ASSUME NEW S, NEW s \in Seq(S), NEW p \in 1 .. Len(s),
         \A i \in 1 .. Len(s) : s[i] = s[p] => i = p
  PROVE  RemoveFirst(s, s[p]) = RemoveAt(s, p)
  <1> DEFINE e == s[p]
             I == {i \in 1 .. Len(s) : s[i] = e}
  <1>1. I = {p}
    OBVIOUS
  <1>2. SelectInSeq(s, LAMBDA v : v = e) = p
    <2>1. SelectInSeq(s, LAMBDA v : v = e) = IF I # {} THEN Min(I) ELSE 0
      BY DEF SelectInSeq
    <2>2. Min({p}) = p
      BY DEF Min
    <2> QED
      BY <1>1, <2>1, <2>2
  <1> QED
    BY <1>2 DEF RemoveFirst

-----------------------------------------------------------------------------
(***************************************************************************)
(* The lists of a name table.  l lists ids: each of them once and no other.*)
(***************************************************************************)
Lists(l, ids) ==
    /\ l \in Seq(Nat)
    /\ \A i, j \in 1 .. Len(l) : l[i] = l[j] => i = j
    /\ \A i \in 1 .. Len(l) : l[i] \in ids
    /\ \A x \in ids : \E i \in 1 .. Len(l) : l[i] = x

LEMMA AppendLists ==
  ASSUME NEW l, NEW ids, Lists(l, ids), NEW x \in Nat, x \notin ids
  PROVE  Lists(Append(l, x), ids \cup {x})
  <1> DEFINE g == Append(l, x)
  <1>1. /\ g \in Seq(Nat) /\ Len(g) = Len(l) + 1 /\ Len(l) \in Nat
        /\ \A i \in 1 .. Len(l) : g[i] = l[i]
        /\ g[Len(l) + 1] = x
    BY AppendProperties DEF Lists
  <1> HIDE DEF g
  <1>2. \A i \in 1 .. Len(g) : i \in 1 .. Len(l) \/ i = Len(l) + 1
    BY <1>1
  <1>3. \A i \in 1 .. Len(l) : i \in 1 .. Len(g)
    BY <1>1
  <1>4. Len(l) + 1 \in 1 .. Len(g)
    BY <1>1
  <1>5. \A i, j \in 1 .. Len(g) : g[i] = g[j] => i = j
    BY <1>1, <1>2 DEF Lists
  <1>6. \A i \in 1 .. Len(g) : g[i] \in ids \cup {x}
    BY <1>1, <1>2 DEF Lists
  <1>7. \A y \in ids \cup {x} : \E i \in 1 .. Len(g) : g[i] = y
    BY <1>1, <1>3, <1>4 DEF Lists
  <1> QED
    BY <1>1, <1>5, <1>6, <1>7 DEF Lists, g

LEMMA RemoveLists ==
  ASSUME NEW l, NEW ids, Lists(l, ids), NEW x \in ids
  PROVE  Lists(RemoveFirst(l, x), ids \ {x})
  <1> DEFINE g == RemoveFirst(l, x)
  <1>1. PICK p \in 1 .. Len(l) : l[p] = x
    BY DEF Lists
  <1>2. /\ g \in Seq(Nat) /\ Len(g) = Len(l) - 1 /\ Len(l) \in Nat
        /\ \A j \in 1 .. Len(l) - 1 : g[j] = IF j < p THEN l[j] ELSE l[j + 1]
    <2>1. l \in Seq(Nat) /\ \A i \in 1 .. Len(l) : l[i] = l[p] => i = p
      BY <1>1 DEF Lists
    <2>2. g = RemoveAt(l, p)
      BY <1>1, <2>1, RemoveFirstSeq
    <2>3. /\ RemoveAt(l, p) \in Seq(Nat) /\ Len(RemoveAt(l, p)) = Len(l) - 1
          /\ \A j \in 1 .. Len(l) - 1 :
                RemoveAt(l, p)[j] = IF j < p THEN l[j] ELSE l[j + 1]
      BY <2>1, RemoveAtSeq, Zenon
    <2> HIDE DEF g
    <2> QED
      BY <2>1, <2>2, <2>3
  <1> HIDE DEF g
  <1>3. ASSUME NEW j \in 1 .. Len(g)
        PROVE  \E i \in (1 .. Len(l)) \ {p} : g[j] = l[i] /\ i = IF j < p THEN j ELSE j + 1
    <2>1. CASE j < p
      <3>1. j \in (1 .. Len(l)) \ {p} /\ g[j] = l[j]
        BY <1>2, <2>1
      <3> QED
        BY <2>1, <3>1
    <2>2. CASE ~(j < p)
      <3>1. j + 1 \in (1 .. Len(l)) \ {p} /\ g[j] = l[j + 1]
        BY <1>2, <2>2
      <3> QED
        BY <2>2, <3>1
    <2> QED
      BY <2>1, <2>2
  <1>4. \A i, j \in 1 .. Len(g) : g[i] = g[j] => i = j
    <2> SUFFICES ASSUME NEW i \in 1 .. Len(g), NEW j \in 1 .. Len(g), g[i] = g[j]
                 PROVE  i = j
      OBVIOUS
    <2>1. PICK a \in (1 .. Len(l)) \ {p} : g[i] = l[a] /\ a = IF i < p THEN i ELSE i + 1
      BY <1>3
    <2>2. PICK b \in (1 .. Len(l)) \ {p} : g[j] = l[b] /\ b = IF j < p THEN j ELSE j + 1
      BY <1>3
    <2>3. a = b
      BY <2>1, <2>2 DEF Lists
    <2> QED
      BY <2>1, <2>2, <2>3, <1>2, SMTT(30)
  <1>5. ASSUME NEW j \in 1 .. Len(g) PROVE g[j] \in ids \ {x}
    <2>1. PICK i \in (1 .. Len(l)) \ {p} : g[j] = l[i]
      BY <1>3
    <2> QED
      BY <1>1, <2>1 DEF Lists
  <1>6. ASSUME NEW y \in ids \ {x}
        PROVE  \E i \in 1 .. Len(g) : g[i] = y
    <2>1. PICK i \in 1 .. Len(l) : l[i] = y /\ i # p
      BY <1>1 DEF Lists
    <2>2. CASE i < p
      <3>1. i \in 1 .. Len(g) /\ g[i] = l[i]
        BY <1>2, <2>1, <2>2
      <3> QED
        BY <2>1, <3>1
    <2>3. CASE i > p
      <3>1. i - 1 \in 1 .. Len(g) /\ g[i - 1] = l[i - 1 + 1] /\ i - 1 + 1 = i
        BY <1>2, <2>1, <2>3
      <3> QED
        BY <2>1, <3>1
    <2> QED
      BY <1>2, <2>1, <2>2, <2>3
  <1> QED
    BY <1>2, <1>4, <1>5, <1>6 DEF Lists, g

(* Renumbering: the IDs above x move down by one. *)
Down(x, y) == IF y > x THEN y - 1 ELSE y

LEMMA ShiftLists ==
  ASSUME NEW l, NEW ids, Lists(l, ids), NEW x \in Nat, x \notin ids
  PROVE  Lists([i \in DOMAIN l |-> IF l[i] > x THEN l[i] - 1 ELSE l[i]],
               {Down(x, y) : y \in ids})
  <1> DEFINE g == [i \in DOMAIN l |-> IF l[i] > x THEN l[i] - 1 ELSE l[i]]
  <1>1. \A i \in 1 .. Len(l) : l[i] \in Nat /\ l[i] \in ids /\ l[i] # x
    BY DEF Lists
  <1>2. /\ DOMAIN l = 1 .. Len(l) /\ Len(l) \in Nat
        /\ \A i \in 1 .. Len(l) : g[i] = Down(x, l[i]) /\ g[i] \in Nat
    BY <1>1, SMTT(60) DEF Lists, Down
  <1>3. g \in Seq(Nat) /\ Len(g) = Len(l)
    BY <1>2, IsASeq
  <1> HIDE DEF g
  <1>4. \A i, j \in 1 .. Len(g) : g[i] = g[j] => i = j
    <2>1. \A y, z \in Nat : y # x /\ z # x /\ Down(x, y) = Down(x, z) => y = z
      BY DEF Down
    <2>2. \A i, j \in 1 .. Len(g) : g[i] = g[j] => l[i] = l[j]
      BY <1>1, <1>2, <1>3, <2>1
    <2> QED
      BY <1>3, <2>2 DEF Lists
  <1>5. \A i \in 1 .. Len(g) : g[i] \in {Down(x, y) : y \in ids}
    BY <1>1, <1>2, <1>3
  <1>6. ASSUME NEW y \in ids PROVE \E i \in 1 .. Len(g) : g[i] = Down(x, y)
    <2>1. PICK i \in 1 .. Len(l) : l[i] = y
      BY DEF Lists
    <2>2. g[i] = Down(x, y) /\ i \in 1 .. Len(g)
      BY <1>2, <1>3, <2>1
    <2> QED
      BY <2>2
  <1>7. \A z \in {Down(x, y) : y \in ids} : \E i \in 1 .. Len(g) : g[i] = z
    BY <1>6
  <1> QED
    BY <1>3, <1>4, <1>5, <1>7 DEF Lists, g

-----------------------------------------------------------------------------
(***************************************************************************)
(* A name table and the array it is about: the list of a key has the IDs   *)
(* of the objects whose name has that key, of the first n objects.         *)
(***************************************************************************)
Obj == [name : Names, xsz : Sizes \cup {0}]

OfKey(objs, n, k) == {i \in 1 .. n : Hash[objs[i].name] = k}

Indexed(t, objs, n) ==
    /\ t \in [Keys -> Seq(Nat)]
    /\ \A k \in Keys : Lists(t[k], OfKey(objs, n, k))

(* ncmpio_hash_insert of the next object. *)
LEMMA InsertedIndexed ==
  ASSUME NEW objs, NEW n \in Nat, NEW t, Indexed(t, objs, n),
         NEW nm \in Names, objs[n + 1].name = nm
  PROVE  Indexed(Inserted(t, nm, n + 1), objs, n + 1)
  <1> DEFINE u == Inserted(t, nm, n + 1)
             h == Hash[nm]
  <1>1. h \in Keys /\ t \in [Keys -> Seq(Nat)]
    BY DEF Indexed
  <1>2. u = [t EXCEPT ![h] = Append(t[h], n + 1)]
    BY DEF Inserted
  <1> HIDE DEF u
  <1>3. \A k \in Keys : u[k] = IF k = h THEN Append(t[h], n + 1) ELSE t[k]
    BY <1>1, <1>2
  <1>4. ASSUME NEW k \in Keys PROVE Lists(u[k], OfKey(objs, n + 1, k))
    <2>1. Lists(t[k], OfKey(objs, n, k))
      BY DEF Indexed
    <2>2. CASE k = h
      <3>1. OfKey(objs, n + 1, k) = OfKey(objs, n, k) \cup {n + 1}
        BY <2>2 DEF OfKey
      <3>2. n + 1 \in Nat /\ n + 1 \notin OfKey(objs, n, k)
        BY DEF OfKey
      <3> HIDE DEF h
      <3> QED
        BY <1>3, <2>1, <2>2, <3>1, <3>2, AppendLists
    <2>3. CASE k # h
      <3>1. OfKey(objs, n + 1, k) = OfKey(objs, n, k)
        BY <2>3 DEF OfKey
      <3> QED
        BY <1>3, <2>1, <2>3, <3>1
    <2> QED
      BY <2>2, <2>3
  <1>5. u \in [Keys -> Seq(Nat)]
    BY <1>2, <1>1, AppendProperties
  <1> QED
    BY <1>4, <1>5 DEF Indexed, u

(* The entry of an object taken out of the list of its key. *)
Without(t, k, id) == [t EXCEPT ![k] = RemoveFirst(@, id)]

LEMMA WithoutLists ==
  ASSUME NEW objs, NEW n \in Nat, NEW t, Indexed(t, objs, n),
         NEW id \in 1 .. n, objs[id].name \in Names
  PROVE  /\ Without(t, Hash[objs[id].name], id) \in [Keys -> Seq(Nat)]
         /\ \A k \in Keys : Lists(Without(t, Hash[objs[id].name], id)[k],
                                  OfKey(objs, n, k) \ {id})
  <1> DEFINE h == Hash[objs[id].name]
             u == Without(t, h, id)
  <1>1. h \in Keys /\ t \in [Keys -> Seq(Nat)]
    BY DEF Indexed
  <1>2. u = [t EXCEPT ![h] = RemoveFirst(t[h], id)]
    BY DEF Without
  <1>3. id \in OfKey(objs, n, h)
    BY DEF OfKey
  <1>4. \A k \in Keys : k # h => id \notin OfKey(objs, n, k)
    BY DEF OfKey
  <1> HIDE DEF u, h
  <1>5. Lists(u[h], OfKey(objs, n, h) \ {id})
    BY <1>1, <1>2, <1>3, RemoveLists DEF Indexed
  <1>6. ASSUME NEW k \in Keys, k # h PROVE Lists(u[k], OfKey(objs, n, k) \ {id})
    <2>1. u[k] = t[k] /\ OfKey(objs, n, k) \ {id} = OfKey(objs, n, k)
      BY <1>1, <1>2, <1>4, <1>6
    <2> QED
      BY <2>1 DEF Indexed
  <1>7. u \in [Keys -> Seq(Nat)]
    <2>1. RemoveFirst(t[h], id) \in Seq(Nat)
      BY <1>1, <1>2, <1>5 DEF Lists
    <2> QED
      BY <1>1, <1>2, <2>1
  <1> QED
    BY <1>5, <1>6, <1>7 DEF u, h

(* ncmpio_hash_replace, then the new name in the array. *)
LEMMA ReplacedIndexed ==
  ASSUME NEW objs \in Seq(Obj), NEW t, Indexed(t, objs, Len(objs)),
         NEW id \in 1 .. Len(objs), NEW nm \in Names,
         NEW to, to \in Seq(Obj), Len(to) = Len(objs), to[id].name = nm,
         \A i \in 1 .. Len(objs) : i # id => to[i].name = objs[i].name
  PROVE  Indexed(Replaced(t, objs[id].name, nm, id), to, Len(to))
  <1> DEFINE o == Hash[objs[id].name]
             h == Hash[nm]
             u == Without(t, o, id)
             w == Replaced(t, objs[id].name, nm, id)
             n == Len(objs)
  <1>1. n \in Nat /\ objs[id].name \in Names /\ h \in Keys /\ id \in Nat
    <2>1. objs[id] \in Obj
      OBVIOUS
    <2> QED
      BY <2>1 DEF Obj
  <1>2. u \in [Keys -> Seq(Nat)] /\ \A k \in Keys : Lists(u[k], OfKey(objs, n, k) \ {id})
    BY <1>1, WithoutLists
  <1>3. w = [u EXCEPT ![h] = Append(u[h], id)]
    BY DEF Replaced, Inserted, Without
  <1>4. \A k \in Keys : OfKey(to, n, k) =
          IF k = h THEN (OfKey(objs, n, k) \ {id}) \cup {id} ELSE OfKey(objs, n, k) \ {id}
    BY DEF OfKey
  <1> HIDE DEF w, u, h, n
  <1>5. ASSUME NEW k \in Keys PROVE Lists(w[k], OfKey(to, n, k))
    <2>1. CASE k = h
      <3>1. w[k] = Append(u[k], id)
        BY <1>1, <1>2, <1>3, <2>1
      <3>2. Lists(u[k], OfKey(objs, n, k) \ {id}) /\ id \notin OfKey(objs, n, k) \ {id}
        BY <1>2
      <3>3. Lists(Append(u[k], id), (OfKey(objs, n, k) \ {id}) \cup {id})
        BY <1>1, <3>2, AppendLists
      <3> QED
        BY <1>4, <2>1, <3>1, <3>3
    <2>2. CASE k # h
      BY <1>1, <1>2, <1>3, <1>4, <2>2
    <2> QED
      BY <2>1, <2>2
  <1>6. w \in [Keys -> Seq(Nat)]
    BY <1>1, <1>2, <1>3, AppendProperties
  <1> QED
    BY <1>5, <1>6 DEF Indexed, w, n

(* ncmpio_hash_delete, then the array closed up. *)
LEMMA DeletedIndexed ==
  ASSUME NEW objs \in Seq(Obj), NEW t, Indexed(t, objs, Len(objs)),
         NEW id \in 1 .. Len(objs)
  PROVE  Indexed(Deleted(t, objs[id].name, id), RemoveAt(objs, id), Len(RemoveAt(objs, id)))
  <1> DEFINE o == Hash[objs[id].name]
             u == Without(t, o, id)
             n == Len(objs)
             to == RemoveAt(objs, id)
             Shift(l) == [i \in DOMAIN l |-> IF l[i] > id THEN l[i] - 1 ELSE l[i]]
             w == Deleted(t, objs[id].name, id)
  <1>1. n \in Nat /\ id \in 1 .. n /\ objs[id].name \in Names /\ id \in Nat
    <2>1. objs[id] \in Obj
      OBVIOUS
    <2> QED
      BY <2>1 DEF Obj
  <1>2. u \in [Keys -> Seq(Nat)] /\ \A k \in Keys : Lists(u[k], OfKey(objs, n, k) \ {id})
    BY <1>1, WithoutLists
  <1>3. w = [k \in Keys |-> Shift(u[k])]
    BY DEF Deleted, Without
  <1>4. /\ Len(to) = n - 1
        /\ \A j \in 1 .. n - 1 : to[j] = IF j < id THEN objs[j] ELSE objs[j + 1]
    BY RemoveAtSeq
  <1> HIDE DEF w, u, n, to
  <1>5. ASSUME NEW k \in Keys
        PROVE  OfKey(to, n - 1, k) = {Down(id, y) : y \in OfKey(objs, n, k) \ {id}}
    <2>1. ASSUME NEW y \in OfKey(objs, n, k) \ {id} PROVE Down(id, y) \in OfKey(to, n - 1, k)
      <3>1. y \in 1 .. n /\ y # id /\ Hash[objs[y].name] = k
        BY DEF OfKey
      <3>2. CASE y > id
        <4>1. y - 1 \in 1 .. n - 1 /\ to[y - 1] = objs[y - 1 + 1] /\ y - 1 + 1 = y
          BY <1>1, <1>4, <3>1, <3>2
        <4>2. Hash[to[y - 1].name] = k
          BY <3>1, <4>1
        <4> QED
          BY <3>2, <4>1, <4>2 DEF OfKey, Down
      <3>3. CASE ~(y > id)
        <4>1. y \in 1 .. n - 1 /\ to[y] = objs[y]
          BY <1>1, <1>4, <3>1, <3>3
        <4> QED
          BY <3>1, <3>3, <4>1 DEF OfKey, Down
      <3> QED
        BY <3>2, <3>3
    <2>2. ASSUME NEW j \in OfKey(to, n - 1, k)
          PROVE  \E y \in OfKey(objs, n, k) \ {id} : j = Down(id, y)
      <3>1. j \in 1 .. n - 1 /\ Hash[to[j].name] = k
        BY DEF OfKey
      <3>2. CASE j < id
        <4>1. j \in OfKey(objs, n, k) \ {id} /\ j = Down(id, j)
          BY <1>1, <1>4, <3>1, <3>2 DEF OfKey, Down
        <4> QED
          BY <4>1
      <3>3. CASE ~(j < id)
        <4>1. j + 1 \in OfKey(objs, n, k) \ {id} /\ j = Down(id, j + 1)
          BY <1>1, <1>4, <3>1, <3>3 DEF OfKey, Down
        <4> QED
          BY <4>1
      <3> QED
        BY <3>2, <3>3
    <2> QED
      BY <2>1, <2>2
  <1>6. ASSUME NEW k \in Keys PROVE Lists(w[k], OfKey(to, n - 1, k))
    <2>1. w[k] = Shift(u[k])
      BY <1>3
    <2>2. Lists(Shift(u[k]), {Down(id, y) : y \in OfKey(objs, n, k) \ {id}})
      <3>1. Lists(u[k], OfKey(objs, n, k) \ {id}) /\ id \notin OfKey(objs, n, k) \ {id}
        BY <1>2
      <3> QED
        BY <1>1, <3>1, ShiftLists, SMTT(60)
    <2> QED
      BY <1>5, <2>1, <2>2
  <1>7. w \in [Keys -> Seq(Nat)]
    BY <1>3, <1>6 DEF Lists
  <1> QED
    BY <1>4, <1>6, <1>7 DEF Indexed, w, to

(* ncmpio_hash_table_populate: after i rounds the first i objects are in.  *)
LEMMA TableOfIndexed ==
  ASSUME NEW objs \in Seq(Obj)
  PROVE  Indexed(TableOf(objs), objs, Len(objs))
  <1> DEFINE n == Len(objs)
             S == [Keys -> Seq(Nat)]
             a == [k \in Keys |-> <<>>]
             G == [i \in 1 .. n |-> [t \in S |-> Inserted(t, objs[i].name, i)]]
             Loop(t) == [i \in 0 .. n |-> IF i = 0 THEN a
                                          ELSE Inserted(t[i - 1], objs[i].name, i)]
             T == CHOOSE t : t = Loop(t)
  <1>1. n \in Nat /\ a \in S /\ \A i \in 1 .. n : objs[i].name \in Names
    <2>1. \A i \in 1 .. n : objs[i] \in Obj
      OBVIOUS
    <2> QED
      BY <2>1 DEF Obj
  <1>2. \A t \in S, i \in 1 .. n : Inserted(t, objs[i].name, i) \in S
    <2> SUFFICES ASSUME NEW t \in S, NEW i \in 1 .. n
                 PROVE  Inserted(t, objs[i].name, i) \in S
      OBVIOUS
    <2>1. Hash[objs[i].name] \in Keys
      BY <1>1
    <2>2. Append(t[Hash[objs[i].name]], i) \in Seq(Nat)
      BY <2>1, AppendProperties
    <2> QED
      BY <2>1, <2>2 DEF Inserted
  <1>3. G \in [1 .. n -> [S -> S]]
    BY <1>2
  <1>4. \E t \in [0 .. n -> S] : t = Loop(t)
    <2> HIDE DEF G, a, S, n
    <2>1. PICK t \in [0 .. n -> S] :
                /\ t[0] = a
                /\ \A i \in 1 .. n : t[i] = G[i][t[i - 1]]
      <3> HIDE MetadataAssumption DEF Loop, T
      <3>1. n \in Nat /\ a \in S /\ G \in [1 .. n -> [S -> S]]
        BY <1>1, <1>3
      <3> QED
        BY <3>1, Iterate
    <2>2. ASSUME NEW i \in 0 .. n, i # 0
          PROVE  G[i][t[i - 1]] = Inserted(t[i - 1], objs[i].name, i)
      <3>1. i \in 1 .. n /\ t[i - 1] \in S
        BY <1>1, <2>2
      <3> QED
        BY <3>1 DEF G
    <2>3. \A i \in 0 .. n : t[i] = IF i = 0 THEN a ELSE Inserted(t[i - 1], objs[i].name, i)
      <3>1. \A i \in 0 .. n : i = 0 \/ i \in 1 .. n
        BY <1>1
      <3> QED
        BY <2>1, <2>2, <3>1
    <2>4. t = Loop(t)
      BY <2>3
    <2> QED
      BY <2>4
  <1>5. T = Loop(T)
    <2> HIDE DEF Loop
    <2> QED
      BY <1>4, Zenon
  <1>6. T[0] = a /\ \A i \in 1 .. n : T[i] = Inserted(T[i - 1], objs[i].name, i)
    <2> HIDE DEF T, a
    <2>1. \A i \in 0 .. n : T[i] = IF i = 0 THEN a ELSE Inserted(T[i - 1], objs[i].name, i)
      BY <1>5, Zenon
    <2> HIDE DEF n
    <2>2. 0 \in 0 .. n /\ \A i \in 1 .. n : i \in 0 .. n /\ i # 0
      BY <1>1
    <2> QED
      BY <2>1, <2>2
  <1>7. TableOf(objs) = T[n]
    BY DEF TableOf
  <1> DEFINE P == {i \in 0 .. n : Indexed(T[i], objs, i)}
  <1>8. 0 \in P
    <2>1. \A k \in Keys : Lists(<<>>, OfKey(objs, 0, k))
      BY DEF Lists, OfKey
    <2>2. Indexed(a, objs, 0)
      BY <1>1, <2>1 DEF Indexed
    <2> HIDE DEF T, a
    <2> QED
      BY <1>1, <1>6, <2>2
  <1>9. ASSUME NEW i \in 1 .. n, i - 1 \in P PROVE i \in P
    <2> HIDE DEF T, a
    <2>1. Indexed(T[i - 1], objs, i - 1) /\ i - 1 \in Nat /\ i - 1 + 1 = i
      BY <1>1, <1>9
    <2>2. Indexed(Inserted(T[i - 1], objs[i].name, i), objs, i)
      BY <1>1, <2>1, InsertedIndexed, SMTT(60)
    <2> QED
      BY <1>1, <1>6, <2>2
  <1>10. n \in P
    <2> HIDE DEF P, n
    <2>1. \A i \in 0 .. n : i \in P
      BY <1>1, <1>8, <1>9, LoopInduction
    <2> QED
      BY <1>1, <2>1
  <1> HIDE DEF T
  <1> QED
    BY <1>7, <1>10

-----------------------------------------------------------------------------
(* The length of the header: a sum, and no larger if no summand is.        *)
LEMMA TotalLoop ==
  ASSUME NEW n \in Nat, NEW w, \A i \in 1 .. n : w[i] \in Nat
  PROVE  \E t \in [0 .. n -> Nat] : /\ t[0] = 0
                                    /\ \A i \in 1 .. n : t[i] = t[i - 1] + w[i]
                                    /\ Total(w, n) = t[n]
  <1> DEFINE G == [i \in 1 .. n |-> [x \in Nat |-> x + w[i]]]
             Loop(t) == [i \in 0 .. n |-> IF i = 0 THEN 0 ELSE t[i - 1] + w[i]]
             T == CHOOSE t : t = Loop(t)
  <1>1. \E t \in [0 .. n -> Nat] : t = Loop(t)
    <2>1. PICK t \in [0 .. n -> Nat] : /\ t[0] = 0
                                       /\ \A i \in 1 .. n : t[i] = G[i][t[i - 1]]
      <3> DEFINE S == Nat
                 a == 0
      <3>1. n \in Nat /\ a \in S /\ G \in [1 .. n -> [S -> S]]
        OBVIOUS
      <3> HIDE MetadataAssumption DEF Loop, T, G, S, a
      <3>2. \E t \in [0 .. n -> S] : t[0] = a /\ \A i \in 1 .. n : t[i] = G[i][t[i - 1]]
        BY <3>1, Iterate
      <3> QED
        BY <3>2 DEF S, a
    <2>2. ASSUME NEW i \in 0 .. n
          PROVE  t[i] = IF i = 0 THEN 0 ELSE t[i - 1] + w[i]
      <3>1. CASE i = 0
        BY <2>1, <3>1
      <3>2. CASE i # 0
        <4>1. i \in 1 .. n /\ t[i - 1] \in Nat
          BY <3>2
        <4>2. G[i][t[i - 1]] = t[i - 1] + w[i]
          BY <4>1
        <4> HIDE DEF G
        <4> QED
          BY <2>1, <3>2, <4>1, <4>2
      <3> QED
        BY <3>1, <3>2
    <2>3. t = Loop(t)
      BY <2>2
    <2> QED
      BY <2>3
  <1>2. T = Loop(T)
    <2> HIDE DEF Loop
    <2> QED
      BY <1>1, Zenon
  <1>3. Total(w, n) = T[n]
    BY DEF Total
  <1> HIDE DEF T
  <1>4. \A i \in 0 .. n : T[i] = IF i = 0 THEN 0 ELSE T[i - 1] + w[i]
    BY <1>2, Zenon
  <1>5. T[0] = 0 /\ \A i \in 1 .. n : T[i] = T[i - 1] + w[i]
    BY <1>4
  <1> DEFINE P == {i \in 0 .. n : T[i] \in Nat}
  <1>6. \A i \in 0 .. n : i \in P
    <2>1. 0 \in P
      BY <1>5
    <2>2. \A i \in 1 .. n : i - 1 \in P => i \in P
      BY <1>5
    <2> HIDE DEF P
    <2> QED
      BY <2>1, <2>2, LoopInduction
  <1>7. T \in [0 .. n -> Nat]
    BY <1>2, <1>6
  <1> QED
    BY <1>3, <1>5, <1>7

LEMMA TotalMonotonic ==
  ASSUME NEW n \in Nat, NEW v, NEW w,
         \A i \in 1 .. n : v[i] \in Nat /\ w[i] \in Nat /\ v[i] <= w[i]
  PROVE  Total(v, n) \in Nat /\ Total(w, n) \in Nat /\ Total(v, n) <= Total(w, n)
  <1>1. PICK t \in [0 .. n -> Nat] : /\ t[0] = 0
                                     /\ \A i \in 1 .. n : t[i] = t[i - 1] + v[i]
                                     /\ Total(v, n) = t[n]
    BY TotalLoop
  <1>2. PICK u \in [0 .. n -> Nat] : /\ u[0] = 0
                                     /\ \A i \in 1 .. n : u[i] = u[i - 1] + w[i]
                                     /\ Total(w, n) = u[n]
    BY TotalLoop
  <1> DEFINE P == {i \in 0 .. n : t[i] <= u[i]}
  <1>3. 0 \in P
    BY <1>1, <1>2
  <1>4. ASSUME NEW i \in 1 .. n, i - 1 \in P PROVE i \in P
    <2>1. i - 1 \in 0 .. n /\ i \in 0 .. n /\ t[i - 1] <= u[i - 1]
      BY <1>4
    <2>2. t[i - 1] \in Nat /\ u[i - 1] \in Nat
      BY <2>1
    <2>3. t[i] = t[i - 1] + v[i] /\ u[i] = u[i - 1] + w[i]
      BY <1>1, <1>2
    <2>4. v[i] \in Nat /\ w[i] \in Nat /\ v[i] <= w[i]
      OBVIOUS
    <2>5. t[i] <= u[i]
      BY <2>1, <2>2, <2>3, <2>4, SMTT(30)
    <2> QED
      BY <2>1, <2>5
  <1>5. n \in P
    <2> HIDE DEF P
    <2>1. \A i \in 0 .. n : i \in P
      BY <1>3, <1>4, LoopInduction
    <2> QED
      BY <2>1
  <1> QED
    BY <1>1, <1>2, <1>5

DefsType == [Spaces -> Seq(Obj)]

Size(o) == Width[o.name] + o.xsz

LEMMA ObjNat ==
  ASSUME NEW o \in Obj
  PROVE  Width[o.name] \in Nat /\ o.xsz \in Nat
  <1>1. o.name \in Names /\ o.xsz \in Sizes \cup {0}
    BY DEF Obj
  <1>2. Width[o.name] \in Nat
    <2>1. Width \in [Names -> Nat \ {0}]
      OBVIOUS
    <2> QED
      BY <1>1, <2>1
  <1>3. o.xsz \in Nat
    <2>1. Sizes \subseteq Nat
      OBVIOUS
    <2>2. o.xsz \in Sizes \/ o.xsz = 0
      BY <1>1
    <2>3. CASE o.xsz \in Sizes
      BY <2>1, <2>3, Zenon
    <2>4. CASE o.xsz = 0
      BY <2>4
    <2> QED
      BY <2>2, <2>3, <2>4
  <1> QED
    BY <1>2, <1>3

LEMMA SizeType ==
  ASSUME NEW o \in Obj
  PROVE  Size(o) \in Nat
  BY ObjNat DEF Size

(* The same objects, none of which takes more space.                       *)
NoLarger(to, defs) ==
    \A s \in Spaces : /\ Len(to[s]) = Len(defs[s])
                      /\ \A i \in 1 .. Len(defs[s]) : Size(to[s][i]) <= Size(defs[s][i])

LEMMA HdrLenMonotonic ==
  ASSUME NEW defs \in DefsType, NEW to \in DefsType, NoLarger(to, defs)
  PROVE  HdrLen(to) \in Nat /\ HdrLen(defs) \in Nat /\ HdrLen(to) <= HdrLen(defs)
  <1>1. ASSUME NEW s \in Spaces
        PROVE  Bytes(to[s]) \in Nat /\ Bytes(defs[s]) \in Nat
               /\ Bytes(to[s]) <= Bytes(defs[s])
    <2> DEFINE n == Len(defs[s])
               v == [i \in DOMAIN to[s] |-> Width[to[s][i].name] + to[s][i].xsz]
               w == [i \in DOMAIN defs[s] |-> Width[defs[s][i].name] + defs[s][i].xsz]
    <2>1. /\ n \in Nat /\ Len(to[s]) = n
          /\ DOMAIN to[s] = 1 .. n /\ DOMAIN defs[s] = 1 .. n
          /\ \A i \in 1 .. n : to[s][i] \in Obj /\ defs[s][i] \in Obj
      BY DEF DefsType, NoLarger
    <2>2. \A i \in 1 .. n : v[i] = Size(to[s][i]) /\ w[i] = Size(defs[s][i])
      BY <2>1 DEF Size
    <2>3. \A i \in 1 .. n : v[i] \in Nat /\ w[i] \in Nat /\ v[i] <= w[i]
      <3> HIDE DEF v, w
      <3> QED
        BY <2>1, <2>2, SizeType DEF NoLarger
    <2>4. Bytes(to[s]) = Total(v, n) /\ Bytes(defs[s]) = Total(w, n)
      BY <2>1 DEF Bytes
    <2> HIDE DEF v, w, n
    <2> QED
      BY <2>1, <2>3, <2>4, TotalMonotonic
  <1> DEFINE n == MaxVars + 3
             v == [i \in 1 .. n |-> Bytes(to[Dims + i - 1])]
             w == [i \in 1 .. n |-> Bytes(defs[Dims + i - 1])]
  <1>2. n \in Nat /\ \A i \in 1 .. n : Dims + i - 1 \in Spaces
    BY DEF Dims, Spaces
  <1>3. \A i \in 1 .. n : v[i] \in Nat /\ w[i] \in Nat /\ v[i] <= w[i]
    BY <1>1, <1>2
  <1>4. HdrLen(to) = Total(v, n) /\ HdrLen(defs) = Total(w, n)
    BY DEF HdrLen
  <1> HIDE DEF v, w, n
  <1> QED
    BY <1>2, <1>3, <1>4, TotalMonotonic

-----------------------------------------------------------------------------
(***************************************************************************)
(* The objects of one rank: in every space no two objects share a name and *)
(* the name table indexes the array.                                       *)
(***************************************************************************)
Distinct(objs) == \A i, j \in 1 .. Len(objs) : objs[i].name = objs[j].name => i = j

Meta == [defs : DefsType, nameT : [Spaces -> [Keys -> Seq(Nat)]]]

Sound(m) ==
    /\ m \in Meta
    /\ \A s \in Spaces : /\ Distinct(m.defs[s])
                         /\ Indexed(m.nameT[s], m.defs[s], Len(m.defs[s]))

(* NC_finddim, NC_findvar and ncmpio_NC_findattr find the object with the  *)
(* name, if there is one.                                                  *)
LEMMA FindSound ==
  ASSUME NEW m, Sound(m), NEW s \in Spaces, NEW n \in Names
  PROVE  /\ Find(m, s, n) \in 0 .. Len(m.defs[s])
         /\ Find(m, s, n) # 0 => m.defs[s][Find(m, s, n)].name = n
         /\ \A i \in 1 .. Len(m.defs[s]) : m.defs[s][i].name = n => i = Find(m, s, n)
  <1> DEFINE objs == m.defs[s]
             list == m.nameT[s][Hash[n]]
             ids == OfKey(objs, Len(objs), Hash[n])
             hits == {i \in DOMAIN list : list[i] \in DOMAIN objs /\ objs[list[i]].name = n}
  <1>1. Hash[n] \in Keys /\ objs \in Seq(Obj) /\ Distinct(objs) /\ Lists(list, ids)
    BY DEF Sound, Meta, DefsType, Indexed
  <1>2. /\ DOMAIN list = 1 .. Len(list) /\ Len(list) \in Nat
        /\ DOMAIN objs = 1 .. Len(objs) /\ Len(objs) \in Nat
    BY <1>1 DEF Lists
  <1>3. Find(m, s, n) = IF hits = {} THEN 0 ELSE list[Min(hits)]
    BY DEF Find
  <1> HIDE DEF list, objs
  <1>4. CASE hits = {}
    <2>1. ASSUME NEW i \in 1 .. Len(objs), objs[i].name = n PROVE FALSE
      <3>1. i \in ids
        BY <2>1 DEF OfKey
      <3>2. PICK j \in 1 .. Len(list) : list[j] = i
        BY <1>1, <3>1 DEF Lists
      <3>3. j \in hits
        BY <1>2, <2>1, <3>2
      <3> QED
        BY <1>4, <3>3
    <2>2. Find(m, s, n) = 0
      BY <1>3, <1>4
    <2> QED
      BY <1>2, <2>1, <2>2 DEF objs
  <1>5. CASE hits # {}
    <2>1. Min(hits) \in hits
      <3>1. hits \subseteq Nat
        BY <1>2
      <3> HIDE DEF hits
      <3>2. \E x \in hits : \A y \in hits : x <= y
        BY <1>5, <3>1, LeastNat
      <3> QED
        BY <3>2, Zenon DEF Min
    <2>2. /\ Find(m, s, n) \in 1 .. Len(objs)
          /\ objs[Find(m, s, n)].name = n
      BY <1>2, <1>3, <1>5, <2>1
    <2>3. \A i \in 1 .. Len(objs) : objs[i].name = n => i = Find(m, s, n)
      BY <1>1, <2>2 DEF Distinct
    <2> QED
      BY <1>2, <2>2, <2>3 DEF objs
  <1> QED
    BY <1>4, <1>5

(* A call changes the objects of one space and their table.                *)
LEMMA SpaceChange ==
  ASSUME NEW m \in Meta, Sound(m), NEW s \in Spaces,
         NEW objs \in Seq(Obj), Distinct(objs),
         NEW t, Indexed(t, objs, Len(objs)), NEW g \in Meta,
         g.defs[s] = objs, g.nameT[s] = t,
         \A x \in Spaces \ {s} : g.defs[x] = m.defs[x] /\ g.nameT[x] = m.nameT[x]
  PROVE  Sound(g)
  BY DEF Sound

(* Define, put or copy: an object of a new name joins its array and table. *)
LEMMA AppendSound ==
  ASSUME NEW m \in Meta, Sound(m), NEW s \in Spaces, NEW o \in Obj,
         Find(m, s, o.name) = 0
  PROVE  /\ Sound(List(Append1(m, s, o), s, o.name))
         /\ List(Append1(m, s, o), s, o.name).defs = [m.defs EXCEPT ![s] = Append(m.defs[s], o)]
  <1> DEFINE g == List(Append1(m, s, o), s, o.name)
             n == Len(m.defs[s])
             objs == Append(m.defs[s], o)
             t == Inserted(m.nameT[s], o.name, n + 1)
  <1>0. o.name \in Names
    BY DEF Obj
  <1>1. /\ m.defs \in DefsType
        /\ m.nameT \in [Spaces -> [Keys -> Seq(Nat)]]
        /\ m.defs[s] \in Seq(Obj) /\ n \in Nat
        /\ Distinct(m.defs[s]) /\ Indexed(m.nameT[s], m.defs[s], n)
    BY DEF Sound, Meta, DefsType
  <1>2. /\ objs \in Seq(Obj) /\ Len(objs) = n + 1 /\ objs[n + 1] = o
        /\ \A i \in 1 .. n : objs[i] = m.defs[s][i]
    BY <1>1, AppendProperties
  <1>3. \A i \in 1 .. n : m.defs[s][i].name # o.name
    BY <1>0, <1>1, FindSound
  <1>4. /\ g.defs = [m.defs EXCEPT ![s] = objs] /\ g.nameT = [m.nameT EXCEPT ![s] = t]
        /\ g \in Meta
    <2> DEFINE m1 == Append1(m, s, o)
    <2>1. /\ m1 \in Meta /\ m1.nameT = m.nameT
          /\ m1.defs = [m.defs EXCEPT ![s] = objs]
      BY <1>1, <1>2 DEF Append1, Meta, DefsType
    <2>2. Len(m1.defs[s]) = n + 1
      BY <1>1, <1>2, <2>1 DEF DefsType
    <2>3. t \in [Keys -> Seq(Nat)]
      <3>1. Hash[o.name] \in Keys /\ m.nameT[s] \in [Keys -> Seq(Nat)] /\ n + 1 \in Nat
        BY <1>0, <1>1
      <3>2. Append(m.nameT[s][Hash[o.name]], n + 1) \in Seq(Nat)
        BY <3>1, AppendProperties
      <3> QED
        BY <3>1, <3>2 DEF Inserted
    <2>4. g = [m1 EXCEPT !.nameT[s] = Inserted(@, o.name, n + 1)]
      BY <2>2 DEF List
    <2> HIDE DEF m1
    <2>5. g.defs = m1.defs /\ g.nameT = [m1.nameT EXCEPT ![s] = Inserted(m1.nameT[s], o.name, n + 1)]
      BY <2>1, <2>4 DEF Meta
    <2>6. g \in Meta
      <3>1. [m1.nameT EXCEPT ![s] = t] \in [Spaces -> [Keys -> Seq(Nat)]]
        BY <1>1, <2>1, <2>3
      <3>2. g = [m1 EXCEPT !.nameT = [m1.nameT EXCEPT ![s] = t]]
        BY <2>1, <2>4
      <3> QED
        BY <2>1, <3>1, <3>2 DEF Meta
    <2> QED
      BY <2>1, <2>5, <2>6
  <1>5. Distinct(objs)
    <2> SUFFICES ASSUME NEW i \in 1 .. n + 1, NEW j \in 1 .. n + 1,
                        objs[i].name = objs[j].name
                 PROVE  i = j
      BY <1>2 DEF Distinct
    <2> HIDE DEF objs, n
    <2>1. (i \in 1 .. n \/ i = n + 1) /\ (j \in 1 .. n \/ j = n + 1)
      BY <1>1
    <2>2. CASE i = n + 1 /\ j \in 1 .. n
      BY <1>2, <1>3, <2>2
    <2>3. CASE i \in 1 .. n /\ j = n + 1
      BY <1>2, <1>3, <2>3
    <2>4. CASE i \in 1 .. n /\ j \in 1 .. n
      BY <1>1, <1>2, <2>4 DEF Distinct, n
    <2> QED
      BY <2>1, <2>2, <2>3, <2>4
  <1>6. Indexed(t, objs, n + 1)
    <2>1. \A k \in Keys : OfKey(objs, n, k) = OfKey(m.defs[s], n, k)
      BY <1>2 DEF OfKey
    <2>2. Indexed(m.nameT[s], objs, n)
      BY <1>1, <2>1 DEF Indexed
    <2> HIDE DEF objs, n
    <2> QED
      BY <1>0, <1>1, <1>2, <2>2, InsertedIndexed
  <1> HIDE DEF g, t, objs
  <1>7. Sound(g)
    <2>1. /\ g.defs[s] = objs /\ g.nameT[s] = t
          /\ \A x \in Spaces \ {s} : g.defs[x] = m.defs[x] /\ g.nameT[x] = m.nameT[x]
      BY <1>1, <1>4 DEF DefsType
    <2>2. objs \in Seq(Obj) /\ Indexed(t, objs, Len(objs)) /\ g \in Meta
      BY <1>2, <1>4, <1>6
    <2> HIDE MetadataAssumption
    <2> QED
      BY <1>5, <2>1, <2>2, SpaceChange
  <1> QED
    BY <1>4, <1>7 DEF g, objs

(* Rename: the object keeps its place and the table moves its ID.          *)
LEMMA RenameSound ==
  ASSUME NEW m \in Meta, Sound(m), NEW s \in Spaces, NEW id \in 1 .. Len(m.defs[s]),
         NEW nm \in Names, Find(m, s, nm) = 0, NEW g,
         g \in Meta, g.defs = [m.defs EXCEPT ![s][id].name = nm],
         g.nameT = [m.nameT EXCEPT ![s] = Replaced(m.nameT[s], m.defs[s][id].name, nm, id)]
  PROVE  Sound(g)
  <1> DEFINE old0 == m.defs[s]
             o == old0[id]
             objs == [old0 EXCEPT ![id] = [o EXCEPT !.name = nm]]
             t == Replaced(m.nameT[s], o.name, nm, id)
  <1>1. /\ m.defs \in DefsType /\ old0 \in Seq(Obj) /\ o \in Obj
        /\ Distinct(old0) /\ Indexed(m.nameT[s], old0, Len(old0))
    BY DEF Sound, Meta, DefsType
  <1>2. /\ g.defs = [m.defs EXCEPT ![s] = objs]
        /\ g.nameT = [m.nameT EXCEPT ![s] = t]
    BY <1>1 DEF DefsType
  <1>3. [o EXCEPT !.name = nm] \in Obj /\ [o EXCEPT !.name = nm].name = nm
    <2> HIDE DEF o
    <2> QED
      BY <1>1 DEF Obj
  <1>4. /\ objs \in Seq(Obj) /\ Len(objs) = Len(old0)
        /\ objs[id].name = nm
        /\ \A i \in 1 .. Len(old0) : i # id => objs[i] = old0[i]
    <2> HIDE DEF o, old0
    <2> QED
      BY <1>1, <1>3, ExceptSeq DEF old0
  <1>5. \A i \in 1 .. Len(old0) : old0[i].name # nm
    BY FindSound
  <1>6. Distinct(objs)
    <2> HIDE DEF objs, old0
    <2> SUFFICES ASSUME NEW i \in 1 .. Len(old0), NEW j \in 1 .. Len(old0),
                        objs[i].name = objs[j].name
                 PROVE  i = j
      BY <1>4 DEF Distinct
    <2>1. CASE i = id \/ j = id
      BY <1>4, <1>5, <2>1
    <2>2. CASE i # id /\ j # id
      BY <1>1, <1>4, <2>2 DEF Distinct
    <2> QED
      BY <2>1, <2>2
  <1>7. Indexed(t, objs, Len(objs))
    <2> HIDE DEF objs, old0
    <2> QED
      BY <1>1, <1>4, ReplacedIndexed DEF old0
  <1> HIDE DEF objs, t
  <1>8. /\ g.defs[s] = objs /\ g.nameT[s] = t
        /\ \A x \in Spaces \ {s} : g.defs[x] = m.defs[x] /\ g.nameT[x] = m.nameT[x]
    BY <1>1, <1>2 DEF DefsType, Meta
  <1> QED
    BY <1>4, <1>6, <1>7, <1>8, SpaceChange, ZenonT(30)

(* An attribute's value replaced by another.                               *)
LEMMA ResizeSound ==
  ASSUME NEW m \in Meta, Sound(m), NEW s \in Spaces, NEW id \in 1 .. Len(m.defs[s]),
         NEW xsz \in Sizes \cup {0}
  PROVE  LET g == [m EXCEPT !.defs[s][id].xsz = xsz]
         IN /\ Sound(g)
            /\ \A x \in Spaces : Len(g.defs[x]) = Len(m.defs[x])
            /\ xsz <= m.defs[s][id].xsz => NoLarger(g.defs, m.defs)
  <1> DEFINE g == [m EXCEPT !.defs[s][id].xsz = xsz]
             objs0 == m.defs[s]
             o == objs0[id]
             objs == [objs0 EXCEPT ![id] = [o EXCEPT !.xsz = xsz]]
  <1>1. /\ m.defs \in DefsType /\ m.nameT \in [Spaces -> [Keys -> Seq(Nat)]]
        /\ objs0 \in Seq(Obj) /\ o \in Obj
        /\ Distinct(objs0) /\ Indexed(m.nameT[s], objs0, Len(objs0))
    BY DEF Sound, Meta, DefsType
  <1>2. g.defs = [m.defs EXCEPT ![s] = objs] /\ g.nameT = m.nameT
    BY <1>1 DEF Meta, DefsType
  <1>3. /\ [o EXCEPT !.xsz = xsz] \in Obj
        /\ [o EXCEPT !.xsz = xsz].name = o.name /\ [o EXCEPT !.xsz = xsz].xsz = xsz
    <2> HIDE DEF o
    <2> QED
      BY <1>1 DEF Obj
  <1>4. /\ objs \in Seq(Obj) /\ Len(objs) = Len(objs0)
        /\ objs[id] = [o EXCEPT !.xsz = xsz]
        /\ \A i \in 1 .. Len(objs0) : i # id => objs[i] = objs0[i]
    <2> HIDE DEF o, objs0
    <2> QED
      BY <1>1, <1>3, ExceptSeq DEF objs0
  <1>5. \A i \in 1 .. Len(objs0) : objs[i].name = objs0[i].name
    <2> HIDE DEF objs
    <2> QED
      BY <1>3, <1>4
  <1>6. Distinct(objs)
    <2> HIDE DEF objs, objs0
    <2> QED
      BY <1>1, <1>4, <1>5 DEF Distinct
  <1>7. Indexed(m.nameT[s], objs, Len(objs))
    <2>1. \A k \in Keys : OfKey(objs, Len(objs0), k) = OfKey(objs0, Len(objs0), k)
      <3> HIDE DEF objs, objs0
      <3> QED
        BY <1>5 DEF OfKey
    <2> HIDE DEF objs, objs0
    <2> QED
      BY <1>1, <1>4, <2>1 DEF Indexed
  <1>8. g \in Meta
    <2>1. [m.defs EXCEPT ![s] = objs] \in DefsType
      <3> HIDE DEF objs
      <3> QED
        BY <1>1, <1>4 DEF DefsType
    <2>2. g = [m EXCEPT !.defs = [m.defs EXCEPT ![s] = objs]]
      BY <1>1
    <2> QED
      BY <2>1, <2>2 DEF Meta
  <1> HIDE DEF g, objs
  <1>9. /\ g.defs[s] = objs /\ g.nameT[s] = m.nameT[s]
        /\ \A x \in Spaces \ {s} : g.defs[x] = m.defs[x] /\ g.nameT[x] = m.nameT[x]
    BY <1>1, <1>2 DEF DefsType
  <1>10. Sound(g)
    BY <1>4, <1>6, <1>7, <1>8, <1>9, SpaceChange
  <1>11. \A x \in Spaces : Len(g.defs[x]) = Len(m.defs[x])
    BY <1>4, <1>9
  <1>12. ASSUME xsz <= o.xsz, NEW x \in Spaces, NEW i \in 1 .. Len(m.defs[x])
         PROVE  Size(g.defs[x][i]) <= Size(m.defs[x][i])
    <2>1. m.defs[x][i] \in Obj
      BY <1>1 DEF DefsType
    <2>2. CASE x = s /\ i = id
      <3>1. g.defs[x][i] = [o EXCEPT !.xsz = xsz] /\ m.defs[x][i] = o
        BY <1>4, <1>9, <2>2
      <3>2. Size(g.defs[x][i]) = Width[o.name] + xsz /\ Size(m.defs[x][i]) = Width[o.name] + o.xsz
        BY <1>3, <3>1 DEF Size
      <3>3. Width[o.name] \in Nat /\ o.xsz \in Nat /\ xsz \in Nat
        BY <1>1, <1>3, ObjNat DEF o
      <3> QED
        BY <1>12, <3>2, <3>3, SMTT(30)
    <2>3. CASE ~(x = s /\ i = id)
      <3>1. g.defs[x][i] = m.defs[x][i]
        BY <1>4, <1>9, <2>3
      <3> QED
        BY <2>1, <3>1, SizeType
    <2> QED
      BY <2>2, <2>3
  <1> QED
    BY <1>10, <1>11, <1>12 DEF NoLarger, g, o

-----------------------------------------------------------------------------
(***************************************************************************)
(* A collective call: what the ranks decide alike.                         *)
(***************************************************************************)

(* The root passes one of the arguments and, without safe mode, so does    *)
(* every other rank.                                                       *)
LEMMA ArgsRoot ==
  ASSUME NEW S, NEW args \in ArgsOf(S)
  PROVE  /\ args[Root] \in S
         /\ SafeMode \/ Consistent(args)
  <1> DEFINE fields == DOMAIN (CHOOSE a \in S : TRUE)
             Values == [f \in fields |-> {a[f] : a \in S}]
             Other(a, f) == IF Values[f] = {a[f]} THEN a[f]
                            ELSE CHOOSE x \in Values[f] : x # a[f]
             Given(odd, a, b) == [r \in Ranks |-> IF r = odd THEN b ELSE a]
             Odd(t) == Given(t[1], t[2], [t[2] EXCEPT ![t[3]] = Other(t[2], t[3])])
             alike == {Given(Root, a, a) : a \in S}
             odds == {Odd(t) : t \in (Ranks \ {Root}) \X S \X fields}
  <1>1. ArgsOf(S) = IF S = {} \/ ~Disagree \/ ~SafeMode THEN alike ELSE alike \cup odds
    BY DEF ArgsOf
  <1>2. Root \in Ranks
    BY DEF Root
  <1>3. CASE args \in alike
    <2>1. PICK a \in S : args = [r \in Ranks |-> IF r = Root THEN a ELSE a]
      BY <1>3
    <2> QED
      BY <1>2, <2>1 DEF Consistent
  <1>4. CASE SafeMode /\ args \in odds
    <2>1. PICK t \in (Ranks \ {Root}) \X S \X fields : args = Odd(t)
      BY <1>4
    <2>2. t[1] # Root /\ t[2] \in S
      BY <2>1
    <2>3. args = Given(t[1], t[2], [t[2] EXCEPT ![t[3]] = Other(t[2], t[3])])
      BY <2>1
    <2> HIDE DEF Values, Other
    <2> DEFINE b == [t[2] EXCEPT ![t[3]] = Other(t[2], t[3])]
    <2>4. args = [r \in Ranks |-> IF r = t[1] THEN b ELSE t[2]]
      BY <2>3
    <2> HIDE DEF b
    <2> QED
      BY <1>2, <1>4, <2>2, <2>4
  <1> HIDE DEF alike, odds, fields
  <1>5. args \in alike \/ (SafeMode /\ args \in odds)
    BY <1>1
  <1> QED
    BY <1>3, <1>4, <1>5

(* All ranks have these objects.                                           *)
AllHave(m) == [r \in Ranks |-> m]

(* The reductions: when alike ranks decide alike where they are asked      *)
(* alike, the call either changes nothing or brings all of them to what    *)
(* the root has become.                                                    *)
LEMMA SettleEffect ==
  ASSUME RanksAgree, nc \in [Ranks -> Meta],
         NEW args, NEW voted, NEW check, NEW drive, NEW early, NEW late,
         SafeMode \/ Consistent(args),
         Consistent(args) => \A r \in Ranks : /\ check[r] = check[Root]
                                              /\ drive[r] = drive[Root]
                                              /\ late[r] = late[Root],
         Settle(args, voted, check, drive, early, late)
  PROVE  /\ stuck' \in BOOLEAN
         /\ \/ UNCHANGED <<nc, disk>>
            \/ /\ Consistent(args) /\ drive[Root] = "go"
               /\ nc' = AllHave(late[Root])
               /\ disk' = IF mode = "data" THEN late[Root].defs ELSE disk
  <1> DEFINE left == {r \in Ranks : check[r] = "leave"}
             refused == SafeMode /\ (~Consistent(args) \/ \E r \in Ranks : check[r] = "no")
             going == {r \in Ranks : drive[r] = "go"}
             vetoed == SafeMode /\ voted /\ \E r \in Ranks : drive[r] = "no"
             done == IF vetoed THEN {} ELSE going
             now == [r \in Ranks |-> IF r \in done THEN late[r]
                                     ELSE IF r \in going THEN early[r] ELSE nc[r]]
  <1>1. IF left # {} /\ SafeMode
        THEN stuck' = (left # Ranks) /\ UNCHANGED <<nc, disk>>
        ELSE /\ stuck' = FALSE
             /\ nc' = IF refused THEN nc ELSE now
             /\ disk' = IF ~refused /\ Root \in done /\ mode = "data"
                        THEN late[Root].defs ELSE disk
    BY DEF Settle, Written
  <1>2. Root \in Ranks
    BY DEF Root
  <1>3. CASE left # {} /\ SafeMode
    BY <1>1, <1>3
  <1>4. CASE ~(left # {} /\ SafeMode) /\ refused
    BY <1>1, <1>4
  <1>5. CASE ~(left # {} /\ SafeMode) /\ ~refused
    <2>1. Consistent(args)
      BY <1>5
    <2>2. CASE drive[Root] = "go"
      <3>1. \A r \in Ranks : drive[r] = "go" /\ late[r] = late[Root]
        BY <2>1, <2>2
      <3>2. ~vetoed /\ done = Ranks
        BY <3>1
      <3>3. now = [r \in Ranks |-> late[Root]]
        BY <3>1, <3>2
      <3> HIDE DEF now, left, refused, done
      <3> QED
        BY <1>1, <1>2, <1>5, <2>1, <2>2, <3>2, <3>3 DEF AllHave
    <2>3. CASE drive[Root] # "go"
      <3>1. going = {} /\ done = {}
        BY <2>1, <2>3
      <3>2. now = nc
        BY <3>1
      <3> HIDE DEF now, left, refused, done
      <3> QED
        BY <1>1, <1>5, <3>1, <3>2
    <2> QED
      BY <2>2, <2>3
  <1> QED
    BY <1>3, <1>4, <1>5

-----------------------------------------------------------------------------
(***************************************************************************)
(* The inductive invariant.  The ranks are alike and sound; the header on  *)
(* disk is a possible one and, once the file has been through enddef, fits *)
(* its space: also between redef and enddef, when it is what an abort or a *)
(* close returns to.                                                       *)
(***************************************************************************)
Alike == nc \in [Ranks -> Meta] /\ Sound(nc[Root]) /\ RanksAgree

GoodDisk == disk \in DefsType /\ (\A s \in Spaces : Distinct(disk[s])) /\ DiskCurrent

FewVars == Len(nc[Root].defs[Vars]) <= MaxVars /\ Len(disk[Vars]) <= MaxVars

DiskFits == (mode = "data" \/ old # -1) => HdrLen(disk) <= room

Counters ==
    /\ stuck \in BOOLEAN /\ calls \in 0 .. MaxCalls /\ mode \in {"define", "data"}
    /\ old \in -1 .. MaxVars /\ room \in Nat

MetaInv == Alike /\ GoodDisk /\ FewVars /\ DiskFits /\ Counters

(* What a collective call may make of the root's objects.                  *)
Becomes(g) ==
    /\ Sound(g)
    /\ Len(g.defs[Vars]) <= MaxVars
    /\ mode = "data" => NoLarger(g.defs, nc[Root].defs)

(* What a collective call does to all of the state.                        *)
CollectiveStep ==
    /\ UNCHANGED <<mode, old, room>>
    /\ stuck' \in BOOLEAN /\ calls' \in 0 .. MaxCalls
    /\ \/ UNCHANGED <<nc, disk>>
       \/ \E g : /\ Becomes(g)
                 /\ nc' = AllHave(g)
                 /\ disk' = IF mode = "data" THEN g.defs ELSE disk

LEMMA RootRank == Root \in Ranks
  BY DEF Root

LEMMA VarsSpace == Vars \in Spaces /\ Dims \in Spaces /\ NC_GLOBAL \in Spaces
  BY DEF Vars, Dims, NC_GLOBAL, Spaces

LEMMA CollectiveKeeps ==
  ASSUME MetaInv, CollectiveStep
  PROVE  MetaInv'
  <1>1. CASE UNCHANGED <<nc, disk>>
    BY <1>1 DEF MetaInv, CollectiveStep, Alike, GoodDisk, FewVars, DiskFits, Counters,
                RanksAgree, DiskCurrent
  <1>2. ASSUME NEW g, Becomes(g), nc' = AllHave(g),
               disk' = IF mode = "data" THEN g.defs ELSE disk
        PROVE  MetaInv'
    <2>1. nc'[Root] = g /\ \A r \in Ranks : nc'[r] = g
      BY <1>2, RootRank DEF AllHave
    <2>2. Sound(g) /\ g \in Meta /\ g.defs \in DefsType /\ \A s \in Spaces : Distinct(g.defs[s])
      BY <1>2 DEF Becomes, Sound, Meta
    <2>3. Alike'
      BY <1>2, <2>1, <2>2 DEF Alike, RanksAgree, AllHave
    <2>4. mode' = mode /\ old' = old /\ room' = room
      BY DEF CollectiveStep
    <2>5. GoodDisk'
      <3>1. CASE mode = "data"
        BY <1>2, <2>1, <2>2, <2>4, <3>1 DEF GoodDisk, DiskCurrent
      <3>2. CASE mode # "data"
        BY <1>2, <2>1, <2>4, <3>2 DEF GoodDisk, DiskCurrent, MetaInv
      <3> QED
        BY <3>1, <3>2
    <2>6. FewVars'
      BY <1>2, <2>1 DEF FewVars, Becomes, MetaInv
    <2>7. DiskFits'
      <3>1. CASE mode = "data"
        <4>1. nc[Root].defs \in DefsType /\ disk = nc[Root].defs /\ HdrLen(disk) <= room
          BY <3>1 DEF MetaInv, Alike, Sound, Meta, GoodDisk, DiskCurrent, DiskFits
        <4>2. NoLarger(g.defs, nc[Root].defs)
          BY <1>2, <3>1 DEF Becomes
        <4>3. /\ HdrLen(g.defs) \in Nat /\ HdrLen(nc[Root].defs) \in Nat
              /\ HdrLen(g.defs) <= HdrLen(nc[Root].defs)
          BY <2>2, <4>1, <4>2, HdrLenMonotonic
        <4>4. disk' = g.defs /\ room \in Nat
          BY <1>2, <3>1 DEF MetaInv, Counters
        <4> QED
          BY <2>4, <4>1, <4>3, <4>4 DEF DiskFits
      <3>2. CASE mode # "data"
        <4>1. disk' = disk
          BY <1>2, <3>2
        <4> QED
          BY <2>4, <3>2, <4>1 DEF MetaInv, DiskFits
      <3> QED
        BY <3>1, <3>2
    <2>8. Counters'
      BY DEF CollectiveStep, Counters, MetaInv
    <2> QED
      BY <2>3, <2>5, <2>6, <2>7, <2>8 DEF MetaInv
  <1> QED
    BY <1>1, <1>2 DEF CollectiveStep

(* What is left to show of a collective call: that the root may become     *)
(* what the call makes of it.                                              *)
LEMMA CollectiveEffect ==
  ASSUME MetaInv, NEW S, NEW args \in ArgsOf(S),
         NEW voted, NEW check, NEW drive, NEW early, NEW late,
         Consistent(args) => \A r \in Ranks : /\ check[r] = check[Root]
                                              /\ drive[r] = drive[Root]
                                              /\ late[r] = late[Root],
         Settle(args, voted, check, drive, early, late),
         calls < MaxCalls, calls' = IF nc' = nc THEN calls ELSE calls + 1,
         UNCHANGED <<mode, old, room>>,
         args[Root] \in S /\ drive[Root] = "go" => Becomes(late[Root])
  PROVE  CollectiveStep
  <1>1. args[Root] \in S /\ (SafeMode \/ Consistent(args))
    BY ArgsRoot
  <1>2. RanksAgree /\ nc \in [Ranks -> Meta]
    BY DEF MetaInv, Alike
  <1>3. /\ stuck' \in BOOLEAN
        /\ \/ UNCHANGED <<nc, disk>>
           \/ /\ Consistent(args) /\ drive[Root] = "go"
              /\ nc' = AllHave(late[Root])
              /\ disk' = IF mode = "data" THEN late[Root].defs ELSE disk
    <2> HIDE MetadataAssumption
    <2> QED
      BY <1>1, <1>2, SettleEffect
  <1>4. calls' \in 0 .. MaxCalls
    BY DEF MetaInv, Counters
  <1> QED
    BY <1>1, <1>3, <1>4 DEF CollectiveStep

(* ncmpi_def_dim.                                                          *)
LEMMA DefDimStep ==
  ASSUME Faults = {}, MetaInv, DefDim
  PROVE  CollectiveStep
  <1> DEFINE S == NewObjects(Dims)
             Late(m, a) == List(Append1(m, Dims, Object(a.name, 0)), Dims, a.name)
             Verdict(r, args, lost) ==
               IF CheckNew(nc[r], args[r]) # "go" THEN CheckNew(nc[r], args[r])
               ELSE IF r \in lost THEN "no"
               ELSE Always(nc[r], args[r])
  <1>1. /\ calls < MaxCalls /\ calls' = IF nc' = nc THEN calls ELSE calls + 1
        /\ UNCHANGED <<mode, old, room>>
        /\ \E args \in ArgsOf(S), lost \in {{}} :
               Settle(args, FALSE, [r \in Ranks |-> CheckNew(nc[r], args[r])],
                      [r \in Ranks |-> Verdict(r, args, lost)],
                      [r \in Ranks |-> Nothing(nc[r], args[r])],
                      [r \in Ranks |-> Late(Nothing(nc[r], args[r]), args[r])])
    BY DEF DefDim, Collective
  <1>2. PICK args \in ArgsOf(S), lost \in {{}} :
               Settle(args, FALSE, [r \in Ranks |-> CheckNew(nc[r], args[r])],
                      [r \in Ranks |-> Verdict(r, args, lost)],
                      [r \in Ranks |-> Nothing(nc[r], args[r])],
                      [r \in Ranks |-> Late(Nothing(nc[r], args[r]), args[r])])
    BY <1>1
  <1> DEFINE check == [r \in Ranks |-> CheckNew(nc[r], args[r])]
             drive == [r \in Ranks |-> Verdict(r, args, lost)]
             early == [r \in Ranks |-> Nothing(nc[r], args[r])]
             late == [r \in Ranks |-> Late(Nothing(nc[r], args[r]), args[r])]
             voted == FALSE
  <1>3. Settle(args, voted, check, drive, early, late)
    BY <1>2
  <1>4. Consistent(args) => \A r \in Ranks : /\ check[r] = check[Root]
                                             /\ drive[r] = drive[Root]
                                             /\ late[r] = late[Root]
    BY <1>2, RootRank DEF Consistent, MetaInv, Alike, RanksAgree
  <1>5. ASSUME args[Root] \in S, drive[Root] = "go" PROVE Becomes(late[Root])
    <2> DEFINE m == nc[Root]
               a == args[Root]
               o == Object(a.name, 0)
    <2>1. CheckNew(m, a) = "go"
      BY <1>5, RootRank
    <2>2. a.s = Dims /\ a.name \in Names
      BY <1>5 DEF NewObjects
    <2>3. mode = "define" /\ Find(m, Dims, o.name) = 0
      BY <2>1, <2>2 DEF CheckNew, Object
    <2>4. o \in Obj /\ o.name = a.name
      BY <2>2 DEF Object, Obj
    <2>5. m \in Meta /\ Sound(m)
      BY RootRank DEF MetaInv, Alike
    <2> DEFINE g == List(Append1(m, Dims, o), Dims, o.name)
    <2>6. late[Root] = g
      BY <2>4, RootRank DEF Nothing
    <2>7. Sound(g) /\ g.defs = [m.defs EXCEPT ![Dims] = Append(m.defs[Dims], o)]
      <3> HIDE DEF m, o
      <3> HIDE MetadataAssumption
      <3> QED
        BY <2>3, <2>4, <2>5, AppendSound, VarsSpace
    <2> HIDE DEF g, late
    <2>8. g.defs[Vars] = m.defs[Vars]
      BY <2>5, <2>7, VarsSpace DEF Meta, DefsType, Vars, Dims
    <2> QED
      BY <2>3, <2>6, <2>7, <2>8 DEF Becomes, MetaInv, FewVars
  <1> HIDE DEF S, check, drive, early, late, voted
  <1> HIDE MetadataAssumption
  <1> QED
    BY <1>1, <1>2, <1>3, <1>4, <1>5, CollectiveEffect

(* ncmpi_def_var.                                                          *)
LEMMA DefVarStep ==
  ASSUME Faults = {}, MetaInv, DefVar
  PROVE  CollectiveStep
  <1> DEFINE S == NewObjects(Vars)
             Early(m, a) == Append1(m, Vars, Object(a.name, 0))
             Late(m, a) == List(m, Vars, a.name)
             Verdict(r, args, lost) ==
               IF CheckNew(nc[r], args[r]) # "go" THEN CheckNew(nc[r], args[r])
               ELSE IF r \in lost THEN "no"
               ELSE Always(nc[r], args[r])
  <1>1. /\ calls < MaxCalls /\ calls' = IF nc' = nc THEN calls ELSE calls + 1
        /\ UNCHANGED <<mode, old, room>>
        /\ \E args \in ArgsOf(S), lost \in {{}} :
               Settle(args, TRUE, [r \in Ranks |-> CheckNew(nc[r], args[r])],
                      [r \in Ranks |-> Verdict(r, args, lost)],
                      [r \in Ranks |-> Early(nc[r], args[r])],
                      [r \in Ranks |-> Late(Early(nc[r], args[r]), args[r])])
        /\ \A r \in Ranks : Len(nc[r].defs[Vars]) < MaxVars
    BY DEF DefVar, Collective
  <1>2. PICK args \in ArgsOf(S), lost \in {{}} :
               Settle(args, TRUE, [r \in Ranks |-> CheckNew(nc[r], args[r])],
                      [r \in Ranks |-> Verdict(r, args, lost)],
                      [r \in Ranks |-> Early(nc[r], args[r])],
                      [r \in Ranks |-> Late(Early(nc[r], args[r]), args[r])])
    BY <1>1
  <1> DEFINE check == [r \in Ranks |-> CheckNew(nc[r], args[r])]
             drive == [r \in Ranks |-> Verdict(r, args, lost)]
             early == [r \in Ranks |-> Early(nc[r], args[r])]
             late == [r \in Ranks |-> Late(Early(nc[r], args[r]), args[r])]
             voted == TRUE
  <1>3. Settle(args, voted, check, drive, early, late)
    BY <1>2
  <1>4. Consistent(args) => \A r \in Ranks : /\ check[r] = check[Root]
                                             /\ drive[r] = drive[Root]
                                             /\ late[r] = late[Root]
    BY <1>2, RootRank DEF Consistent, MetaInv, Alike, RanksAgree
  <1>5. ASSUME args[Root] \in S, drive[Root] = "go" PROVE Becomes(late[Root])
    <2> DEFINE m == nc[Root]
               a == args[Root]
               o == Object(a.name, 0)
    <2>1. CheckNew(m, a) = "go"
      BY <1>5, RootRank
    <2>2. a.s = Vars /\ a.name \in Names
      BY <1>5 DEF NewObjects
    <2>3. mode = "define" /\ Find(m, Vars, o.name) = 0
      BY <2>1, <2>2 DEF CheckNew, Object
    <2>4. o \in Obj /\ o.name = a.name
      BY <2>2 DEF Object, Obj
    <2>5. m \in Meta /\ Sound(m)
      BY RootRank DEF MetaInv, Alike
    <2> DEFINE g == List(Append1(m, Vars, o), Vars, o.name)
    <2>6. late[Root] = g
      BY <2>4, RootRank
    <2>7. Sound(g) /\ g.defs = [m.defs EXCEPT ![Vars] = Append(m.defs[Vars], o)]
      <3> HIDE DEF m, o
      <3> HIDE MetadataAssumption
      <3> QED
        BY <2>3, <2>4, <2>5, AppendSound, VarsSpace
    <2>8. Len(m.defs[Vars]) < MaxVars
      BY <1>1, RootRank
    <2>9. m.defs \in DefsType /\ m.defs[Vars] \in Seq(Obj)
      BY <2>5, VarsSpace DEF Meta, DefsType
    <2> HIDE DEF g, late, m, o
    <2>10. Len(g.defs[Vars]) = Len(m.defs[Vars]) + 1 /\ Len(m.defs[Vars]) \in Nat
      <3>1. g.defs[Vars] = Append(m.defs[Vars], o)
        BY <2>7, <2>9, VarsSpace DEF DefsType
      <3> QED
        BY <2>4, <2>9, <3>1, AppendProperties
    <2> QED
      BY <2>3, <2>6, <2>7, <2>8, <2>10 DEF Becomes
  <1> HIDE DEF S, check, drive, early, late, voted
  <1> HIDE MetadataAssumption
  <1> QED
    BY <1>1, <1>2, <1>3, <1>4, <1>5, CollectiveEffect

(***************************************************************************)
(* A rename of any kind of object.                                         *)
(***************************************************************************)
Renamed(m, s, id, nm) == [m.defs EXCEPT ![s][id].name = nm]
Moved(m, s, id, nm) ==
    [m.nameT EXCEPT ![s] = Replaced(m.nameT[s], m.defs[s][id].name, nm, id)]

(* A rename that does not lengthen a name in data mode.                    *)
LEMMA RenamedType ==
  ASSUME NEW m \in Meta, Sound(m), NEW s \in Spaces, NEW id \in 1 .. Len(m.defs[s]),
         NEW nm \in Names
  PROVE  /\ Renamed(m, s, id, nm) \in DefsType
         /\ Moved(m, s, id, nm) \in [Spaces -> [Keys -> Seq(Nat)]]
         /\ \A x \in Spaces : Len(Renamed(m, s, id, nm)[x]) = Len(m.defs[x])
         /\ ~(Width[nm] > Width[m.defs[s][id].name])
              => NoLarger(Renamed(m, s, id, nm), m.defs)
  <1> DEFINE objs0 == m.defs[s]
             o == objs0[id]
             p == [o EXCEPT !.name = nm]
             objs == [objs0 EXCEPT ![id] = p]
             to == Renamed(m, s, id, nm)
  <1>1. /\ m.defs \in DefsType /\ m.nameT \in [Spaces -> [Keys -> Seq(Nat)]]
        /\ objs0 \in Seq(Obj) /\ o \in Obj
        /\ Indexed(m.nameT[s], objs0, Len(objs0))
    BY DEF Sound, Meta, DefsType
  <1>2. to = [m.defs EXCEPT ![s] = objs]
    BY <1>1 DEF Renamed, DefsType
  <1>3. p \in Obj /\ p.name = nm /\ p.xsz = o.xsz
    <2> HIDE DEF o
    <2> QED
      BY <1>1 DEF Obj
  <1> HIDE DEF p
  <1>4. /\ objs \in Seq(Obj) /\ Len(objs) = Len(objs0) /\ objs[id] = p
        /\ \A i \in 1 .. Len(objs0) : i # id => objs[i] = objs0[i]
    <2> HIDE DEF o, objs0
    <2> QED
      BY <1>1, <1>3, ExceptSeq DEF objs0
  <1>5. Replaced(m.nameT[s], o.name, nm, id) \in [Keys -> Seq(Nat)]
    <2>1. Indexed(Replaced(m.nameT[s], objs0[id].name, nm, id), objs, Len(objs))
      <3> HIDE DEF objs, objs0
      <3> QED
        BY <1>1, <1>3, <1>4, ReplacedIndexed DEF objs0
    <2> QED
      BY <2>1 DEF Indexed
  <1>6. Moved(m, s, id, nm) \in [Spaces -> [Keys -> Seq(Nat)]]
    BY <1>1, <1>5 DEF Moved
  <1> HIDE DEF to, objs
  <1>7. to[s] = objs /\ \A x \in Spaces \ {s} : to[x] = m.defs[x]
    BY <1>1, <1>2 DEF DefsType
  <1>8. to \in DefsType
    BY <1>1, <1>2, <1>4 DEF DefsType
  <1>9. \A x \in Spaces : Len(to[x]) = Len(m.defs[x])
    BY <1>4, <1>7
  <1>10. ASSUME ~(Width[nm] > Width[o.name]), NEW x \in Spaces, NEW i \in 1 .. Len(m.defs[x])
         PROVE  Size(to[x][i]) <= Size(m.defs[x][i])
    <2>1. m.defs[x][i] \in Obj
      BY <1>1 DEF DefsType
    <2>2. CASE x = s /\ i = id
      <3>1. to[x][i] = p /\ m.defs[x][i] = o
        BY <1>4, <1>7, <2>2
      <3>2. Size(to[x][i]) = Width[nm] + o.xsz /\ Size(m.defs[x][i]) = Width[o.name] + o.xsz
        BY <1>3, <3>1 DEF Size
      <3>3. Width[o.name] \in Nat /\ o.xsz \in Nat /\ Width[nm] \in Nat
        <4>1. Width[p.name] \in Nat
          BY <1>3, ObjNat
        <4> QED
          BY <1>1, <1>3, <4>1, ObjNat DEF o
      <3> HIDE DEF o
      <3> QED
        BY <1>10, <3>2, <3>3
    <2>3. CASE ~(x = s /\ i = id)
      <3>1. to[x][i] = m.defs[x][i]
        BY <1>4, <1>7, <2>3
      <3> QED
        BY <2>1, <3>1, SizeType
    <2> QED
      BY <2>2, <2>3
  <1> QED
    BY <1>6, <1>8, <1>9, <1>10 DEF NoLarger, to, o

(* Dimensions and variables: the table first, then the array.              *)
LEMMA RenameForm ==
  ASSUME NEW m \in Meta, Sound(m), NEW a, a.s \in Spaces,
         a.id \in 1 .. Len(m.defs[a.s]), a.name \in Names
  PROVE  LateRename(EarlyRename(m, a), a)
           = [defs |-> Renamed(m, a.s, a.id, a.name), nameT |-> Moved(m, a.s, a.id, a.name)]
  <1> DEFINE e == EarlyRename(m, a)
             g == LateRename(e, a)
  <1>1. /\ Renamed(m, a.s, a.id, a.name) \in DefsType
        /\ Moved(m, a.s, a.id, a.name) \in [Spaces -> [Keys -> Seq(Nat)]]
    BY RenamedType
  <1>2. e = [m EXCEPT !.nameT = Moved(m, a.s, a.id, a.name)]
    BY DEF EarlyRename, Moved, Meta
  <1>3. e \in Meta /\ e.defs = m.defs /\ e.nameT = Moved(m, a.s, a.id, a.name)
    BY <1>1, <1>2 DEF Meta
  <1> HIDE DEF e
  <1>4. g = [e EXCEPT !.defs = Renamed(m, a.s, a.id, a.name)]
    BY <1>3 DEF LateRename, Renamed, Meta
  <1> QED
    BY <1>1, <1>3, <1>4 DEF e, Meta

LEMMA RenameBecomes ==
  ASSUME MetaInv, NEW s \in Spaces, NEW id \in 1 .. Len(nc[Root].defs[s]),
         NEW nm \in Names, Find(nc[Root], s, nm) = 0, ~Grows(nc[Root], s, id, nm),
         NEW g, g = [defs |-> Renamed(nc[Root], s, id, nm), nameT |-> Moved(nc[Root], s, id, nm)]
  PROVE  Becomes(g)
  <1> DEFINE m == nc[Root]
  <1>1. m \in Meta /\ Sound(m) /\ Len(m.defs[Vars]) <= MaxVars
    BY RootRank DEF MetaInv, Alike, FewVars
  <1>2. mode = "data" => ~(Width[nm] > Width[m.defs[s][id].name])
    BY DEF Grows
  <1> HIDE DEF m
  <1>3. /\ Renamed(m, s, id, nm) \in DefsType
        /\ Moved(m, s, id, nm) \in [Spaces -> [Keys -> Seq(Nat)]]
        /\ \A x \in Spaces : Len(Renamed(m, s, id, nm)[x]) = Len(m.defs[x])
        /\ ~(Width[nm] > Width[m.defs[s][id].name])
             => NoLarger(Renamed(m, s, id, nm), m.defs)
    <2>1. id \in 1 .. Len(m.defs[s])
      BY DEF m
    <2> HIDE MetadataAssumption
    <2> QED
      BY <1>1, <2>1, RenamedType
  <1>4. g.defs = Renamed(m, s, id, nm) /\ g.nameT = Moved(m, s, id, nm) /\ g \in Meta
    BY <1>3 DEF m, Meta
  <1>5. Sound(g)
    <2>1. id \in 1 .. Len(m.defs[s]) /\ Find(m, s, nm) = 0
      BY DEF m
    <2> QED
      BY <1>1, <1>4, <2>1, RenameSound DEF Renamed, Moved
  <1> QED
    BY <1>1, <1>2, <1>3, <1>4, <1>5, VarsSpace DEF Becomes, m

(* ncmpi_rename_dim.                                                       *)
LEMMA RenameDimStep ==
  ASSUME Faults = {}, MetaInv, RenameDim
  PROVE  CollectiveStep
  <1> DEFINE S == Renames(Dims, MaxDims)
             Verdict(r, args, lost) ==
               IF CheckRenameDim(nc[r], args[r]) # "go" THEN CheckRenameDim(nc[r], args[r])
               ELSE IF r \in lost THEN "no"
               ELSE DriveRename(nc[r], args[r])
  <1>1. /\ calls < MaxCalls /\ calls' = IF nc' = nc THEN calls ELSE calls + 1
        /\ UNCHANGED <<mode, old, room>>
        /\ \E args \in ArgsOf(S), lost \in {{}} :
               Settle(args, TRUE, [r \in Ranks |-> CheckRenameDim(nc[r], args[r])],
                      [r \in Ranks |-> Verdict(r, args, lost)],
                      [r \in Ranks |-> EarlyRename(nc[r], args[r])],
                      [r \in Ranks |-> LateRename(EarlyRename(nc[r], args[r]), args[r])])
    BY DEF RenameDim, Collective
  <1>2. PICK args \in ArgsOf(S), lost \in {{}} :
               Settle(args, TRUE, [r \in Ranks |-> CheckRenameDim(nc[r], args[r])],
                      [r \in Ranks |-> Verdict(r, args, lost)],
                      [r \in Ranks |-> EarlyRename(nc[r], args[r])],
                      [r \in Ranks |-> LateRename(EarlyRename(nc[r], args[r]), args[r])])
    BY <1>1
  <1> DEFINE check == [r \in Ranks |-> CheckRenameDim(nc[r], args[r])]
             drive == [r \in Ranks |-> Verdict(r, args, lost)]
             early == [r \in Ranks |-> EarlyRename(nc[r], args[r])]
             late == [r \in Ranks |-> LateRename(EarlyRename(nc[r], args[r]), args[r])]
             voted == TRUE
  <1>3. Settle(args, voted, check, drive, early, late)
    BY <1>2
  <1>4. Consistent(args) => \A r \in Ranks : /\ check[r] = check[Root]
                                             /\ drive[r] = drive[Root]
                                             /\ late[r] = late[Root]
    BY <1>2, RootRank DEF Consistent, MetaInv, Alike, RanksAgree
  <1>5. ASSUME args[Root] \in S, drive[Root] = "go" PROVE Becomes(late[Root])
    <2> DEFINE m == nc[Root]
               a == args[Root]
               g == LateRename(EarlyRename(m, a), a)
    <2>1. CheckRenameDim(m, a) = "go" /\ DriveRename(m, a) = "go"
      BY <1>5, RootRank
    <2>2. a.s = Dims /\ a.id \in 1 .. MaxDims /\ a.name \in Names
      BY <1>5 DEF Renames
    <2>3. m \in Meta /\ Sound(m) /\ m.defs[Dims] \in Seq(Obj)
      BY RootRank, VarsSpace, SMTT(60) DEF MetaInv, Alike, Meta, DefsType
    <2>4. a.id \in 1 .. Len(m.defs[Dims])
      BY <2>1, <2>2, <2>3 DEF CheckRenameDim
    <2>5. Find(m, Dims, a.name) = 0
      BY <2>1 DEF CheckRenameDim
    <2>6. ~Grows(m, Dims, a.id, a.name)
      BY <2>1, <2>2 DEF DriveRename
    <2>7. late[Root] = g
      BY RootRank
    <2> HIDE DEF late, g, m, a
    <2> HIDE MetadataAssumption
    <2>8. g = [defs |-> Renamed(m, Dims, a.id, a.name), nameT |-> Moved(m, Dims, a.id, a.name)]
      BY <2>2, <2>3, <2>4, RenameForm, VarsSpace DEF g
    <2> QED
      BY <2>2, <2>4, <2>5, <2>6, <2>7, <2>8, RenameBecomes, VarsSpace DEF m
  <1> HIDE DEF S, check, drive, early, late, voted
  <1> HIDE MetadataAssumption
  <1> QED
    BY <1>1, <1>2, <1>3, <1>4, <1>5, CollectiveEffect

(* ncmpi_rename_var.                                                       *)
LEMMA RenameVarStep ==
  ASSUME Faults = {}, MetaInv, RenameVar
  PROVE  CollectiveStep
  <1> DEFINE S == Renames(Vars, MaxVars)
             Verdict(r, args, lost) ==
               IF CheckRenameVar(nc[r], args[r]) # "go" THEN CheckRenameVar(nc[r], args[r])
               ELSE IF r \in lost THEN "no"
               ELSE DriveRename(nc[r], args[r])
  <1>1. /\ calls < MaxCalls /\ calls' = IF nc' = nc THEN calls ELSE calls + 1
        /\ UNCHANGED <<mode, old, room>>
        /\ \E args \in ArgsOf(S), lost \in {{}} :
               Settle(args, TRUE, [r \in Ranks |-> CheckRenameVar(nc[r], args[r])],
                      [r \in Ranks |-> Verdict(r, args, lost)],
                      [r \in Ranks |-> EarlyRename(nc[r], args[r])],
                      [r \in Ranks |-> LateRename(EarlyRename(nc[r], args[r]), args[r])])
    BY DEF RenameVar, Collective
  <1>2. PICK args \in ArgsOf(S), lost \in {{}} :
               Settle(args, TRUE, [r \in Ranks |-> CheckRenameVar(nc[r], args[r])],
                      [r \in Ranks |-> Verdict(r, args, lost)],
                      [r \in Ranks |-> EarlyRename(nc[r], args[r])],
                      [r \in Ranks |-> LateRename(EarlyRename(nc[r], args[r]), args[r])])
    BY <1>1
  <1> DEFINE check == [r \in Ranks |-> CheckRenameVar(nc[r], args[r])]
             drive == [r \in Ranks |-> Verdict(r, args, lost)]
             early == [r \in Ranks |-> EarlyRename(nc[r], args[r])]
             late == [r \in Ranks |-> LateRename(EarlyRename(nc[r], args[r]), args[r])]
             voted == TRUE
  <1>3. Settle(args, voted, check, drive, early, late)
    BY <1>2
  <1>4. Consistent(args) => \A r \in Ranks : /\ check[r] = check[Root]
                                             /\ drive[r] = drive[Root]
                                             /\ late[r] = late[Root]
    BY <1>2, RootRank DEF Consistent, MetaInv, Alike, RanksAgree
  <1>5. ASSUME args[Root] \in S, drive[Root] = "go" PROVE Becomes(late[Root])
    <2> DEFINE m == nc[Root]
               a == args[Root]
               g == LateRename(EarlyRename(m, a), a)
    <2>1. CheckRenameVar(m, a) = "go" /\ DriveRename(m, a) = "go"
      BY <1>5, RootRank
    <2>2. a.s = Vars /\ a.id \in 1 .. MaxVars /\ a.name \in Names
      BY <1>5 DEF Renames
    <2>3. m \in Meta /\ Sound(m) /\ m.defs[Vars] \in Seq(Obj)
      BY RootRank, VarsSpace, SMTT(60) DEF MetaInv, Alike, Meta, DefsType
    <2>4. a.id \in 1 .. Len(m.defs[Vars])
      BY <2>1, <2>2, <2>3 DEF CheckRenameVar
    <2>5. Find(m, Vars, a.name) = 0
      BY <2>1 DEF CheckRenameVar
    <2>6. ~Grows(m, Vars, a.id, a.name)
      BY <2>1, <2>2 DEF DriveRename
    <2>7. late[Root] = g
      BY RootRank
    <2> HIDE DEF late, g, m, a
    <2> HIDE MetadataAssumption
    <2>8. g = [defs |-> Renamed(m, Vars, a.id, a.name), nameT |-> Moved(m, Vars, a.id, a.name)]
      BY <2>2, <2>3, <2>4, RenameForm, VarsSpace DEF g
    <2> QED
      BY <2>2, <2>4, <2>5, <2>6, <2>7, <2>8, RenameBecomes, VarsSpace DEF m
  <1> HIDE DEF S, check, drive, early, late, voted
  <1> HIDE MetadataAssumption
  <1> QED
    BY <1>1, <1>2, <1>3, <1>4, <1>5, CollectiveEffect

(* Put and copy: an attribute's value is replaced or a new one is added.   *)
LEMMA StoredBecomes ==
  ASSUME MetaInv, NEW s \in 0 .. MaxVars, NEW n \in Names, NEW xsz \in Sizes \cup {0},
         Fits(nc[Root], s, n, xsz)
  PROVE  Becomes(Stored(nc[Root], s, n, xsz))
  <1> DEFINE m == nc[Root]
             id == Find(m, s, n)
             o == Object(n, xsz)
             g == Stored(m, s, n, xsz)
  <1>1. m \in Meta /\ Sound(m) /\ Len(m.defs[Vars]) <= MaxVars /\ m.defs \in DefsType
    BY RootRank DEF MetaInv, Alike, FewVars, Meta
  <1>2. s \in Spaces /\ s # Vars
    BY DEF Spaces, Dims, Vars
  <1>3. mode = "data" => id # 0 /\ xsz <= m.defs[s][id].xsz
    BY DEF Fits
  <1>4. g = IF id # 0 THEN [m EXCEPT !.defs[s][id].xsz = xsz]
            ELSE List(Append1(m, s, o), s, n)
    BY DEF Stored
  <1>5. CASE id # 0
    <2> HIDE DEF m
    <2>1. id \in 1 .. Len(m.defs[s])
      <3>1. id \in 0 .. Len(m.defs[s]) /\ Len(m.defs[s]) \in Nat
        BY <1>1, <1>2, FindSound DEF DefsType
      <3> HIDE DEF id
      <3> QED
        BY <1>5, <3>1
    <2> DEFINE h == [m EXCEPT !.defs[s][id].xsz = xsz]
    <2>2. g = h
      BY <1>4, <1>5
    <2> HIDE DEF id
    <2>3. /\ Sound(h)
          /\ \A x \in Spaces : Len(h.defs[x]) = Len(m.defs[x])
          /\ xsz <= m.defs[s][id].xsz => NoLarger(h.defs, m.defs)
      BY <1>1, <1>2, <2>1, ResizeSound
    <2> HIDE DEF g, h
    <2> QED
      BY <1>1, <1>3, <2>2, <2>3, VarsSpace DEF Becomes, m, g
  <1>6. CASE id = 0
    <2> HIDE DEF m
    <2>1. o \in Obj /\ o.name = n
      BY DEF Object, Obj
    <2> DEFINE h == List(Append1(m, s, o), s, o.name)
    <2>2. g = h
      BY <1>4, <1>6, <2>1
    <2> HIDE DEF o, g
    <2>3. Find(m, s, o.name) = 0
      BY <1>6, <2>1
    <2>4. Sound(h) /\ h.defs = [m.defs EXCEPT ![s] = Append(m.defs[s], o)]
      <3> HIDE DEF id
      <3> HIDE MetadataAssumption
      <3>1. m \in Meta /\ Sound(m) /\ s \in Spaces /\ o \in Obj /\ Find(m, s, o.name) = 0
        BY <1>1, <1>2, <2>1, <2>3
      <3>2. /\ Sound(List(Append1(m, s, o), s, o.name))
            /\ List(Append1(m, s, o), s, o.name).defs = [m.defs EXCEPT ![s] = Append(m.defs[s], o)]
        BY <3>1, AppendSound
      <3> QED
        BY <3>2
    <2> HIDE DEF h
    <2>5. h.defs[Vars] = m.defs[Vars]
      BY <1>1, <1>2, <2>4, VarsSpace DEF DefsType
    <2> QED
      BY <1>1, <1>3, <1>6, <2>2, <2>4, <2>5 DEF Becomes, m, g
  <1> QED
    BY <1>5, <1>6

(* ncmpi_put_att.                                                          *)
LEMMA PutAttStep ==
  ASSUME Faults = {}, MetaInv, PutAtt
  PROVE  CollectiveStep
  <1> DEFINE S == {a \in [s : Holders, name : Names, xsz : Sizes] :
                     \A r \in Ranks : HasAtts(nc[r], a.s) => ~Full(nc[r], a.s, a.name)}
             Verdict(r, args, lost) ==
               IF CheckAtt(nc[r], args[r]) # "go" THEN CheckAtt(nc[r], args[r])
               ELSE IF r \in lost THEN "no"
               ELSE DrivePut(nc[r], args[r])
  <1>1. /\ calls < MaxCalls /\ calls' = IF nc' = nc THEN calls ELSE calls + 1
        /\ UNCHANGED <<mode, old, room>>
        /\ \E args \in ArgsOf(S), lost \in {{}} :
               Settle(args, TRUE, [r \in Ranks |-> CheckAtt(nc[r], args[r])],
                      [r \in Ranks |-> Verdict(r, args, lost)],
                      [r \in Ranks |-> Nothing(nc[r], args[r])],
                      [r \in Ranks |-> LatePut(Nothing(nc[r], args[r]), args[r])])
    BY DEF PutAtt, Collective
  <1>2. PICK args \in ArgsOf(S), lost \in {{}} :
               Settle(args, TRUE, [r \in Ranks |-> CheckAtt(nc[r], args[r])],
                      [r \in Ranks |-> Verdict(r, args, lost)],
                      [r \in Ranks |-> Nothing(nc[r], args[r])],
                      [r \in Ranks |-> LatePut(Nothing(nc[r], args[r]), args[r])])
    BY <1>1
  <1> DEFINE check == [r \in Ranks |-> CheckAtt(nc[r], args[r])]
             drive == [r \in Ranks |-> Verdict(r, args, lost)]
             early == [r \in Ranks |-> Nothing(nc[r], args[r])]
             late == [r \in Ranks |-> LatePut(Nothing(nc[r], args[r]), args[r])]
             voted == TRUE
  <1>3. Settle(args, voted, check, drive, early, late)
    BY <1>2
  <1>4. Consistent(args) => \A r \in Ranks : /\ check[r] = check[Root]
                                             /\ drive[r] = drive[Root]
                                             /\ late[r] = late[Root]
    BY <1>2, RootRank DEF Consistent, MetaInv, Alike, RanksAgree
  <1>5. ASSUME args[Root] \in S, drive[Root] = "go" PROVE Becomes(late[Root])
    <2> DEFINE m == nc[Root]
               a == args[Root]
    <2>1. DrivePut(m, a) = "go"
      BY <1>5, RootRank
    <2>2. a.s \in 0 .. MaxVars /\ a.name \in Names /\ a.xsz \in Sizes
      BY <1>5 DEF Holders
    <2>3. Fits(m, a.s, a.name, a.xsz)
      BY <2>1 DEF DrivePut
    <2>4. late[Root] = Stored(m, a.s, a.name, a.xsz)
      BY RootRank DEF Nothing, LatePut
    <2> HIDE DEF a
    <2> HIDE MetadataAssumption
    <2> QED
      BY <2>2, <2>3, <2>4, StoredBecomes
  <1> HIDE DEF S, check, drive, early, late, voted
  <1> HIDE MetadataAssumption
  <1> QED
    BY <1>1, <1>2, <1>3, <1>4, <1>5, CollectiveEffect

(* ncmpi_copy_att.                                                         *)
LEMMA CopyAttStep ==
  ASSUME Faults = {}, MetaInv, CopyAtt
  PROVE  CollectiveStep
  <1> DEFINE S == {a \in [from : Holders, to : Holders, name : Names] :
                     \A r \in Ranks : HasAtts(nc[r], a.to) => ~Full(nc[r], a.to, a.name)}
             Verdict(r, args, lost) ==
               IF CheckCopy(nc[r], args[r]) # "go" THEN CheckCopy(nc[r], args[r])
               ELSE IF r \in lost THEN "no"
               ELSE DriveCopy(nc[r], args[r])
  <1>1. /\ calls < MaxCalls /\ calls' = IF nc' = nc THEN calls ELSE calls + 1
        /\ UNCHANGED <<mode, old, room>>
        /\ \E args \in ArgsOf(S), lost \in {{}} :
               Settle(args, TRUE, [r \in Ranks |-> CheckCopy(nc[r], args[r])],
                      [r \in Ranks |-> Verdict(r, args, lost)],
                      [r \in Ranks |-> Nothing(nc[r], args[r])],
                      [r \in Ranks |-> LateCopy(Nothing(nc[r], args[r]), args[r])])
    BY DEF CopyAtt, Collective
  <1>2. PICK args \in ArgsOf(S), lost \in {{}} :
               Settle(args, TRUE, [r \in Ranks |-> CheckCopy(nc[r], args[r])],
                      [r \in Ranks |-> Verdict(r, args, lost)],
                      [r \in Ranks |-> Nothing(nc[r], args[r])],
                      [r \in Ranks |-> LateCopy(Nothing(nc[r], args[r]), args[r])])
    BY <1>1
  <1> DEFINE check == [r \in Ranks |-> CheckCopy(nc[r], args[r])]
             drive == [r \in Ranks |-> Verdict(r, args, lost)]
             early == [r \in Ranks |-> Nothing(nc[r], args[r])]
             late == [r \in Ranks |-> LateCopy(Nothing(nc[r], args[r]), args[r])]
             voted == TRUE
  <1>3. Settle(args, voted, check, drive, early, late)
    BY <1>2
  <1>4. Consistent(args) => \A r \in Ranks : /\ check[r] = check[Root]
                                             /\ drive[r] = drive[Root]
                                             /\ late[r] = late[Root]
    BY <1>2, RootRank DEF Consistent, MetaInv, Alike, RanksAgree
  <1>5. ASSUME args[Root] \in S, drive[Root] = "go" PROVE Becomes(late[Root])
    <2> DEFINE m == nc[Root]
               a == args[Root]
               id == Find(m, a.from, a.name)
    <2>1. DriveCopy(m, a) = "go"
      BY <1>5, RootRank
    <2>2. a.from \in 0 .. MaxVars /\ a.to \in 0 .. MaxVars /\ a.name \in Names
      BY <1>5 DEF Holders
    <2>3. id # 0 /\ Fits(m, a.to, a.name, Source(m, a).xsz)
      BY <2>1 DEF DriveCopy
    <2>4. late[Root] = Stored(m, a.to, a.name, Source(m, a).xsz)
      BY RootRank DEF Nothing, LateCopy
    <2> HIDE DEF a, late
    <2>5. Source(m, a).xsz \in Sizes \cup {0}
      <3>1. m \in Meta /\ Sound(m)
        BY RootRank DEF MetaInv, Alike
      <3>2. a.from \in Spaces
        BY <2>2 DEF Spaces, Dims
      <3> HIDE DEF m
      <3>3. id \in 0 .. Len(m.defs[a.from])
        BY <2>2, <3>1, <3>2, FindSound
      <3>4. m.defs[a.from] \in Seq(Obj) /\ Len(m.defs[a.from]) \in Nat
        BY <3>1, <3>2 DEF Meta, DefsType
      <3> HIDE DEF id
      <3>5. id \in 1 .. Len(m.defs[a.from])
        BY <2>3, <3>3, <3>4
      <3>6. m.defs[a.from][id] \in Obj
        BY <3>4, <3>5
      <3> QED
        BY <3>6 DEF Source, Obj, id
    <2> HIDE MetadataAssumption
    <2> QED
      BY <2>2, <2>3, <2>4, <2>5, StoredBecomes
  <1> HIDE DEF S, check, drive, early, late, voted
  <1> HIDE MetadataAssumption
  <1> QED
    BY <1>1, <1>2, <1>3, <1>4, <1>5, CollectiveEffect

(* ncmpi_rename_att: the table after the reduction, with the array.        *)
LEMMA RenameAttStep ==
  ASSUME Faults = {}, MetaInv, RenameAtt
  PROVE  CollectiveStep
  <1> DEFINE S == [s : Holders, name : Names, new : Names]
             Verdict(r, args, lost) ==
               IF CheckAtt(nc[r], args[r]) # "go" THEN CheckAtt(nc[r], args[r])
               ELSE IF r \in lost THEN "no"
               ELSE DriveRenameAtt(nc[r], args[r])
  <1>1. /\ calls < MaxCalls /\ calls' = IF nc' = nc THEN calls ELSE calls + 1
        /\ UNCHANGED <<mode, old, room>>
        /\ \E args \in ArgsOf(S), lost \in {{}} :
               Settle(args, TRUE, [r \in Ranks |-> CheckAtt(nc[r], args[r])],
                      [r \in Ranks |-> Verdict(r, args, lost)],
                      [r \in Ranks |-> Nothing(nc[r], args[r])],
                      [r \in Ranks |-> LateRenameAtt(Nothing(nc[r], args[r]), args[r])])
    BY DEF RenameAtt, Collective
  <1>2. PICK args \in ArgsOf(S), lost \in {{}} :
               Settle(args, TRUE, [r \in Ranks |-> CheckAtt(nc[r], args[r])],
                      [r \in Ranks |-> Verdict(r, args, lost)],
                      [r \in Ranks |-> Nothing(nc[r], args[r])],
                      [r \in Ranks |-> LateRenameAtt(Nothing(nc[r], args[r]), args[r])])
    BY <1>1
  <1> DEFINE check == [r \in Ranks |-> CheckAtt(nc[r], args[r])]
             drive == [r \in Ranks |-> Verdict(r, args, lost)]
             early == [r \in Ranks |-> Nothing(nc[r], args[r])]
             late == [r \in Ranks |-> LateRenameAtt(Nothing(nc[r], args[r]), args[r])]
             voted == TRUE
  <1>3. Settle(args, voted, check, drive, early, late)
    BY <1>2
  <1>4. Consistent(args) => \A r \in Ranks : /\ check[r] = check[Root]
                                             /\ drive[r] = drive[Root]
                                             /\ late[r] = late[Root]
    BY <1>2, RootRank DEF Consistent, MetaInv, Alike, RanksAgree
  <1>5. ASSUME args[Root] \in S, drive[Root] = "go" PROVE Becomes(late[Root])
    <2> DEFINE m == nc[Root]
               a == args[Root]
               id == Find(m, a.s, a.name)
               g == LateRenameAtt(m, a)
    <2>1. DriveRenameAtt(m, a) = "go"
      BY <1>5, RootRank
    <2>2. a.s \in 0 .. MaxVars /\ a.name \in Names /\ a.new \in Names
      BY <1>5 DEF Holders
    <2>3. id # 0 /\ Find(m, a.s, a.new) = 0 /\ ~Grows(m, a.s, id, a.new)
      BY <2>1 DEF DriveRenameAtt
    <2>4. late[Root] = g
      BY RootRank DEF Nothing
    <2>5. m \in Meta /\ Sound(m) /\ a.s \in Spaces
      BY <2>2, RootRank DEF MetaInv, Alike, Spaces, Dims
    <2> HIDE DEF a, late, m
    <2>6. id \in 1 .. Len(m.defs[a.s]) /\ m.defs[a.s][id].name = a.name
      <3>1. id \in 0 .. Len(m.defs[a.s]) /\ (id # 0 => m.defs[a.s][id].name = a.name)
        BY <2>2, <2>5, FindSound
      <3>2. Len(m.defs[a.s]) \in Nat
        BY <2>5 DEF Meta, DefsType
      <3> HIDE DEF id
      <3> QED
        BY <2>3, <3>1, <3>2
    <2>7. /\ Renamed(m, a.s, id, a.new) \in DefsType
          /\ Moved(m, a.s, id, a.new) \in [Spaces -> [Keys -> Seq(Nat)]]
      <3> HIDE DEF id
      <3> HIDE MetadataAssumption
      <3> QED
        BY <2>2, <2>5, <2>6, RenamedType
    <2>8. g = [defs |-> Renamed(m, a.s, id, a.new), nameT |-> Moved(m, a.s, id, a.new)]
      <3> DEFINE D == Renamed(m, a.s, id, a.new)
                 T == Moved(m, a.s, id, a.new)
      <3>1. D = [m.defs EXCEPT ![a.s][id].name = a.new]
        BY DEF Renamed
      <3>2. T = [m.nameT EXCEPT ![a.s] = Replaced(m.nameT[a.s], a.name, a.new, id)]
        BY <2>6 DEF Moved
      <3>3. g = [m EXCEPT !.nameT = [m.nameT EXCEPT ![a.s] = Replaced(m.nameT[a.s], a.name, a.new, id)],
                          !.defs = [m.defs EXCEPT ![a.s][id].name = a.new]]
        BY DEF LateRenameAtt
      <3>4. g = [m EXCEPT !.nameT = T, !.defs = D]
        BY <3>1, <3>2, <3>3
      <3> HIDE DEF D, T, g
      <3> QED
        BY <2>5, <2>7, <3>4 DEF D, T, Meta
    <2> HIDE DEF g, id
    <2> HIDE MetadataAssumption
    <2> QED
      BY <2>2, <2>3, <2>4, <2>5, <2>6, <2>8, RenameBecomes DEF m
  <1> HIDE DEF S, check, drive, early, late, voted
  <1> HIDE MetadataAssumption
  <1> QED
    BY <1>1, <1>2, <1>3, <1>4, <1>5, CollectiveEffect

(* ncmpio_del_att: the table first, then the array.                        *)
LEMMA DeleteSound ==
  ASSUME NEW m \in Meta, Sound(m), NEW a, a.s \in Spaces, a.name \in Names,
         Find(m, a.s, a.name) # 0
  PROVE  /\ Sound(LateDel(EarlyDel(m, a), a))
         /\ \A x \in Spaces \ {a.s} : LateDel(EarlyDel(m, a), a).defs[x] = m.defs[x]
  <1> DEFINE s == a.s
             objs0 == m.defs[s]
             id == Find(m, s, a.name)
             objs == RemoveAt(objs0, id)
             t == Deleted(m.nameT[s], a.name, id)
             e == EarlyDel(m, a)
             g == LateDel(e, a)
             at == CHOOSE i \in DOMAIN objs0 : objs0[i].name = a.name
  <1>1. /\ m.defs \in DefsType /\ m.nameT \in [Spaces -> [Keys -> Seq(Nat)]]
        /\ objs0 \in Seq(Obj) /\ Len(objs0) \in Nat /\ DOMAIN objs0 = 1 .. Len(objs0)
        /\ Distinct(objs0) /\ Indexed(m.nameT[s], objs0, Len(objs0))
    BY DEF Sound, Meta, DefsType
  <1>2. id \in 1 .. Len(objs0) /\ objs0[id].name = a.name
    <2>1. id \in 0 .. Len(objs0) /\ (id # 0 => objs0[id].name = a.name)
      BY FindSound
    <2> HIDE DEF id, objs0
    <2> QED
      BY <1>1, <2>1 DEF id
  <1>3. at = id
    <2> HIDE DEF objs0, id
    <2>1. \A i \in DOMAIN objs0 : objs0[i].name = a.name <=> i = id
      BY <1>1, <1>2 DEF Distinct
    <2>2. at \in DOMAIN objs0 /\ objs0[at].name = a.name
      BY <1>1, <1>2
    <2> QED
      BY <2>1, <2>2
  <1> HIDE DEF id, at
  <1>4. /\ objs \in Seq(Obj) /\ Len(objs) = Len(objs0) - 1
        /\ \A j \in 1 .. Len(objs0) - 1 : objs[j] = IF j < id THEN objs0[j] ELSE objs0[j + 1]
    <2> HIDE DEF objs0
    <2> QED
      BY <1>1, <1>2, RemoveAtSeq
  <1>5. Indexed(t, objs, Len(objs))
    <2>1. t = Deleted(m.nameT[s], objs0[id].name, id)
      BY <1>2
    <2> HIDE DEF t, objs0
    <2> QED
      BY <1>1, <1>2, <2>1, DeletedIndexed
  <1> HIDE DEF objs, t
  <1>6. Distinct(objs)
    <2> HIDE DEF objs0
    <2> SUFFICES ASSUME NEW i \in 1 .. Len(objs), NEW j \in 1 .. Len(objs),
                        objs[i].name = objs[j].name
                 PROVE  i = j
      BY DEF Distinct
    <2> DEFINE p == IF i < id THEN i ELSE i + 1
               q == IF j < id THEN j ELSE j + 1
    <2>1. objs[i] = objs0[p] /\ objs[j] = objs0[q]
      BY <1>1, <1>4
    <2>2. p \in 1 .. Len(objs0) /\ q \in 1 .. Len(objs0)
      BY <1>1, <1>2, <1>4, SMTT(30)
    <2>3. objs0[p].name = objs0[q].name
      BY <2>1
    <2>4. p = q
      <3> HIDE DEF p, q
      <3> QED
        BY <1>1, <2>2, <2>3 DEF Distinct
    <2> QED
      BY <1>1, <1>2, <1>4, <2>4
  <1>7. e \in Meta /\ e.defs = m.defs /\ e.nameT = [m.nameT EXCEPT ![s] = t]
    <2>1. e = [m EXCEPT !.nameT = [m.nameT EXCEPT ![s] = t]]
      BY DEF EarlyDel, t, id
    <2>2. [m.nameT EXCEPT ![s] = t] \in [Spaces -> [Keys -> Seq(Nat)]]
      BY <1>1, <1>5 DEF Indexed
    <2> HIDE DEF e
    <2> QED
      BY <2>1, <2>2 DEF Meta
  <1>8. g = [e EXCEPT !.defs = [m.defs EXCEPT ![s] = objs]]
    <2>1. LateDel(e, a) = [e EXCEPT !.defs[a.s] = RemoveAt(@,
             CHOOSE i \in DOMAIN e.defs[a.s] : e.defs[a.s][i].name = a.name)]
      BY DEF LateDel
    <2>2. (CHOOSE i \in DOMAIN e.defs[a.s] : e.defs[a.s][i].name = a.name) = at
      BY <1>7 DEF at
    <2> HIDE DEF e
    <2> QED
      BY <1>3, <1>7, <2>1, <2>2 DEF objs
  <1> HIDE DEF e, objs0
  <1>9. g.nameT = e.nameT /\ g.defs = [m.defs EXCEPT ![s] = objs] /\ g \in Meta
    <2>1. [m.defs EXCEPT ![s] = objs] \in DefsType
      BY <1>1, <1>4 DEF DefsType
    <2> HIDE DEF g
    <2> QED
      BY <1>7, <1>8, <2>1 DEF Meta
  <1> HIDE DEF g
  <1>10. /\ g.defs[s] = objs /\ g.nameT[s] = t
         /\ \A x \in Spaces \ {s} : g.defs[x] = m.defs[x] /\ g.nameT[x] = m.nameT[x]
    BY <1>1, <1>7, <1>9 DEF DefsType
  <1>11. Sound(g)
    BY <1>4, <1>5, <1>6, <1>9, <1>10, SpaceChange
  <1> QED
    BY <1>10, <1>11 DEF g, e

(* ncmpi_del_att.                                                          *)
LEMMA DelAttStep ==
  ASSUME Faults = {}, MetaInv, DelAtt
  PROVE  CollectiveStep
  <1> DEFINE S == [s : Holders, name : Names]
             Verdict(r, args, lost) ==
               IF CheckDel(nc[r], args[r]) # "go" THEN CheckDel(nc[r], args[r])
               ELSE IF r \in lost THEN "no"
               ELSE DriveDel(nc[r], args[r])
  <1>1. /\ calls < MaxCalls /\ calls' = IF nc' = nc THEN calls ELSE calls + 1
        /\ UNCHANGED <<mode, old, room>>
        /\ \E args \in ArgsOf(S), lost \in {{}} :
               Settle(args, TRUE, [r \in Ranks |-> CheckDel(nc[r], args[r])],
                      [r \in Ranks |-> Verdict(r, args, lost)],
                      [r \in Ranks |-> EarlyDel(nc[r], args[r])],
                      [r \in Ranks |-> LateDel(EarlyDel(nc[r], args[r]), args[r])])
    BY DEF DelAtt, Collective
  <1>2. PICK args \in ArgsOf(S), lost \in {{}} :
               Settle(args, TRUE, [r \in Ranks |-> CheckDel(nc[r], args[r])],
                      [r \in Ranks |-> Verdict(r, args, lost)],
                      [r \in Ranks |-> EarlyDel(nc[r], args[r])],
                      [r \in Ranks |-> LateDel(EarlyDel(nc[r], args[r]), args[r])])
    BY <1>1
  <1> DEFINE check == [r \in Ranks |-> CheckDel(nc[r], args[r])]
             drive == [r \in Ranks |-> Verdict(r, args, lost)]
             early == [r \in Ranks |-> EarlyDel(nc[r], args[r])]
             late == [r \in Ranks |-> LateDel(EarlyDel(nc[r], args[r]), args[r])]
             voted == TRUE
  <1>3. Settle(args, voted, check, drive, early, late)
    BY <1>2
  <1>4. Consistent(args) => \A r \in Ranks : /\ check[r] = check[Root]
                                             /\ drive[r] = drive[Root]
                                             /\ late[r] = late[Root]
    BY <1>2, RootRank DEF Consistent, MetaInv, Alike, RanksAgree
  <1>5. ASSUME args[Root] \in S, drive[Root] = "go" PROVE Becomes(late[Root])
    <2> DEFINE m == nc[Root]
               a == args[Root]
    <2>1. CheckDel(m, a) = "go" /\ DriveDel(m, a) = "go"
      BY <1>5, RootRank
    <2>2. a.s \in 0 .. MaxVars /\ a.name \in Names
      BY <1>5 DEF Holders
    <2>3. mode = "define" /\ Find(m, a.s, a.name) # 0
      BY <2>1 DEF CheckDel, DriveDel
    <2>4. late[Root] = LateDel(EarlyDel(m, a), a)
      BY RootRank
    <2>5. m \in Meta /\ Sound(m) /\ a.s \in Spaces /\ a.s # Vars
      BY <2>2, RootRank DEF MetaInv, Alike, Spaces, Dims, Vars
    <2> HIDE DEF a, late, m
    <2>6. /\ Sound(late[Root])
          /\ \A x \in Spaces \ {a.s} : late[Root].defs[x] = m.defs[x]
      <3> HIDE MetadataAssumption
      <3> QED
        BY <2>2, <2>3, <2>4, <2>5, DeleteSound
    <2> QED
      BY <2>3, <2>5, <2>6, VarsSpace DEF Becomes, MetaInv, FewVars, m
  <1> HIDE DEF S, check, drive, early, late, voted
  <1> HIDE MetadataAssumption
  <1> QED
    BY <1>1, <1>2, <1>3, <1>4, <1>5, CollectiveEffect

-----------------------------------------------------------------------------
(***************************************************************************)
(* The modes, and the file closed and opened again.                        *)
(***************************************************************************)
LEMMA HdrLenNat ==
  ASSUME NEW defs \in DefsType
  PROVE  HdrLen(defs) \in Nat
  <1>1. ASSUME NEW s \in Spaces, NEW i \in 1 .. Len(defs[s])
        PROVE  Size(defs[s][i]) <= Size(defs[s][i])
    <2>1. defs[s][i] \in Obj
      BY DEF DefsType
    <2>2. Size(defs[s][i]) \in Nat
      BY <2>1, SizeType
    <2> QED
      BY <2>2
  <1>2. NoLarger(defs, defs)
    BY <1>1 DEF NoLarger
  <1> QED
    BY <1>2, HdrLenMonotonic

LEMMA InitKeeps ==
  ASSUME Init
  PROVE  MetaInv
  <1> DEFINE m == [defs |-> Empty, nameT |-> Listed(<<>>)]
  <1>1. /\ nc = [r \in Ranks |-> m] /\ disk = Empty /\ mode = "define" /\ old = -1
        /\ room = 0 /\ stuck = FALSE /\ calls = 0
    BY DEF Init
  <1>2. Empty \in DefsType /\ \A s \in Spaces : Empty[s] = <<>> /\ Len(Empty[s]) = 0
    BY DEF Empty, DefsType
  <1>3. /\ m.defs = Empty /\ m.nameT = Listed(<<>>) /\ m \in Meta
        /\ \A s \in Spaces : m.nameT[s] = [k \in Keys |-> <<>>]
    <2>1. Listed(<<>>) \in [Spaces -> [Keys -> Seq(Nat)]]
      BY DEF Listed
    <2> QED
      BY <1>2, <2>1 DEF Meta, Listed
  <1>4. ASSUME NEW s \in Spaces PROVE Indexed([k \in Keys |-> <<>>], Empty[s], 0)
    BY DEF Indexed, Lists, OfKey
  <1>5. Sound(m)
    BY <1>2, <1>3, <1>4 DEF Sound, Distinct
  <1> HIDE DEF m
  <1>6. \A r \in Ranks : nc[r] = m
    BY <1>1
  <1>7. Alike
    BY <1>1, <1>3, <1>5, <1>6, RootRank DEF Alike, RanksAgree
  <1>8. GoodDisk
    BY <1>1, <1>2 DEF GoodDisk, DiskCurrent, Distinct
  <1>9. FewVars
    BY <1>1, <1>2, <1>3, <1>6, RootRank, VarsSpace DEF FewVars
  <1>10. DiskFits /\ Counters
    <2>1. MaxCalls \in Nat /\ MaxVars \in Nat
      OBVIOUS
    <2>2. DiskFits
      BY <1>1 DEF DiskFits
    <2>3. stuck \in BOOLEAN /\ mode \in {"define", "data"}
      BY <1>1
    <2>4. calls \in 0 .. MaxCalls /\ room \in Nat
      BY <1>1, <2>1
    <2>5. old \in -1 .. MaxVars
      BY <1>1, <2>1
    <2> QED
      BY <2>2, <2>3, <2>4, <2>5 DEF Counters
  <1> QED
    BY <1>7, <1>8, <1>9, <1>10 DEF MetaInv

LEMMA RedefKeeps ==
  ASSUME MetaInv, Redef
  PROVE  MetaInv'
  <1>1. Len(nc[Root].defs[Vars]) \in Nat /\ Len(nc[Root].defs[Vars]) <= MaxVars
    BY RootRank, VarsSpace DEF MetaInv, Alike, FewVars, Meta, DefsType
  <1>2. /\ mode = "data" /\ mode' = "define" /\ old' = Len(nc[Root].defs[Vars])
        /\ UNCHANGED <<nc, disk, room, stuck, calls>>
    BY DEF Redef
  <1>3. Alike' /\ GoodDisk' /\ FewVars'
    BY <1>2 DEF MetaInv, Alike, GoodDisk, FewVars, RanksAgree, DiskCurrent
  <1>4. DiskFits'
    BY <1>2 DEF MetaInv, DiskFits
  <1>5. Counters'
    BY <1>1, <1>2, SMTT(30) DEF MetaInv, Counters
  <1> QED
    BY <1>3, <1>4, <1>5 DEF MetaInv

LEMMA EndDefKeeps ==
  ASSUME MetaInv, EndDef
  PROVE  MetaInv'
  <1> DEFINE m == nc[Root]
             h == HdrLen(m.defs)
  <1>1. /\ m.defs \in DefsType /\ Sound(m) /\ room \in Nat
    BY RootRank DEF MetaInv, Alike, Meta, Counters
  <1>2. /\ mode' = "data" /\ old' = -1 /\ disk' = m.defs /\ room' = Max({room, h})
        /\ UNCHANGED <<nc, stuck, calls>>
    BY DEF EndDef
  <1>3. h \in Nat
    BY <1>1, HdrLenNat
  <1> HIDE DEF h
  <1>4. Max({room, h}) \in Nat /\ h <= Max({room, h})
    <2>1. \E x \in {room, h} : \A y \in {room, h} : x >= y
      BY <1>1, <1>3
    <2>2. Max({room, h}) \in {room, h} /\ \A y \in {room, h} : Max({room, h}) >= y
      BY <2>1, Zenon DEF Max
    <2> QED
      BY <1>1, <1>3, <2>2
  <1>5. Alike' /\ GoodDisk' /\ FewVars'
    BY <1>1, <1>2 DEF MetaInv, Alike, GoodDisk, FewVars, RanksAgree, DiskCurrent, Sound
  <1>6. DiskFits'
    BY <1>2, <1>4 DEF DiskFits, h
  <1>7. Counters'
    BY <1>2, <1>4 DEF MetaInv, Counters
  <1> QED
    BY <1>5, <1>6, <1>7 DEF MetaInv

LEMMA ReopenKeeps ==
  ASSUME MetaInv, Reopen
  PROVE  MetaInv'
  <1> DEFINE m == [defs |-> disk, nameT |-> Populated(disk)]
  <1>1. /\ mode = "data" \/ old # -1
        /\ mode' = "data" /\ old' = -1 /\ nc' = [r \in Ranks |-> m]
        /\ UNCHANGED <<disk, room, stuck, calls>>
    BY DEF Reopen
  <1>2. disk \in DefsType /\ (\A s \in Spaces : Distinct(disk[s]))
    BY DEF MetaInv, GoodDisk
  <1>3. \A s \in Spaces : Indexed(TableOf(disk[s]), disk[s], Len(disk[s]))
    BY <1>2, TableOfIndexed DEF DefsType
  <1>4. /\ Populated(disk) \in [Spaces -> [Keys -> Seq(Nat)]]
        /\ \A s \in Spaces : Populated(disk)[s] = TableOf(disk[s])
    BY <1>3 DEF Populated, Indexed
  <1>5. m.defs = disk /\ m.nameT = Populated(disk) /\ m \in Meta
    BY <1>2, <1>4 DEF Meta
  <1>6. Sound(m)
    BY <1>2, <1>3, <1>4, <1>5 DEF Sound
  <1> HIDE DEF m
  <1>7. \A r \in Ranks : nc'[r] = m
    BY <1>1
  <1>8. Alike'
    BY <1>1, <1>5, <1>6, <1>7, RootRank DEF Alike, RanksAgree
  <1>9. GoodDisk' /\ FewVars'
    BY <1>1, <1>2, <1>5, <1>7, RootRank DEF GoodDisk, FewVars, DiskCurrent, MetaInv
  <1>10. DiskFits' /\ Counters'
    BY <1>1 DEF DiskFits, Counters, MetaInv
  <1> QED
    BY <1>8, <1>9, <1>10 DEF MetaInv

(* The invariant holds throughout when no rank fails on its own: in safe   *)
(* mode whatever the ranks pass, and without it when they pass the same.   *)
LEMMA MetaInvariant ==
  ASSUME Faults = {}
  PROVE  Spec => []MetaInv
  <1>1. Init => MetaInv
    BY InitKeeps
  <1>2. MetaInv /\ [Next]_vars => MetaInv'
    <2> SUFFICES ASSUME MetaInv, [Next]_vars PROVE MetaInv'
      OBVIOUS
    <2>1. CASE DefDim
      BY <2>1, DefDimStep, CollectiveKeeps
    <2>2. CASE DefVar
      BY <2>2, DefVarStep, CollectiveKeeps
    <2>3. CASE RenameDim
      BY <2>3, RenameDimStep, CollectiveKeeps
    <2>4. CASE RenameVar
      BY <2>4, RenameVarStep, CollectiveKeeps
    <2>5. CASE PutAtt
      BY <2>5, PutAttStep, CollectiveKeeps
    <2>6. CASE CopyAtt
      BY <2>6, CopyAttStep, CollectiveKeeps
    <2>7. CASE RenameAtt
      BY <2>7, RenameAttStep, CollectiveKeeps
    <2>8. CASE DelAtt
      BY <2>8, DelAttStep, CollectiveKeeps
    <2>9. CASE Redef
      BY <2>9, RedefKeeps
    <2>10. CASE EndDef
      BY <2>10, EndDefKeeps
    <2>11. CASE Reopen
      BY <2>11, ReopenKeeps
    <2>12. CASE UNCHANGED vars
      BY <2>12 DEF vars, MetaInv, Alike, GoodDisk, FewVars, DiskFits, Counters,
                   RanksAgree, DiskCurrent
    <2> QED
      BY <2>1, <2>2, <2>3, <2>4, <2>5, <2>6, <2>7, <2>8, <2>9, <2>10, <2>11, <2>12 DEF Next
  <1> QED
    BY <1>1, <1>2, PTL DEF Spec

-----------------------------------------------------------------------------
(***************************************************************************)
(* The theorems.  They leave out Faults = {"memory"}: a rank that fails in *)
(* malloc parts from the others for good.                                  *)
(***************************************************************************)

(* The state is well formed: every object is a named one, and no list of a *)
(* name table holds an ID past the end of its array.                       *)
THEOREM TypeCorrect ==
  ASSUME Faults = {}
  PROVE  Spec => []TypeOK
  <1>1. MetaInv => TypeOK
    <2> SUFFICES ASSUME MetaInv PROVE TypeOK
      OBVIOUS
    <2>1. Counters
      BY DEF MetaInv
    <2>2. ASSUME NEW r \in Ranks, NEW s \in Spaces
          PROVE  /\ \A i \in DOMAIN nc[r].defs[s] :
                       nc[r].defs[s][i] \in [name : Names, xsz : Sizes \cup {0}]
                 /\ \A k \in Keys : ToSet(nc[r].nameT[s][k]) \subseteq DOMAIN nc[r].defs[s]
      <3> DEFINE objs == nc[r].defs[s]
                 t == nc[r].nameT[s]
      <3>1. objs \in Seq(Obj) /\ Indexed(t, objs, Len(objs))
        BY DEF MetaInv, Alike, RanksAgree, Sound, Meta, DefsType
      <3> HIDE DEF objs, t
      <3>2. \A i \in DOMAIN objs : objs[i] \in Obj
        BY <3>1
      <3>3. ASSUME NEW k \in Keys PROVE ToSet(t[k]) \subseteq DOMAIN objs
        <4>1. t[k] \in Seq(Nat) /\ \A i \in 1 .. Len(t[k]) : t[k][i] \in OfKey(objs, Len(objs), k)
          BY <3>1 DEF Indexed, Lists
        <4>2. ToSet(t[k]) \subseteq OfKey(objs, Len(objs), k)
          BY <4>1 DEF ToSet
        <4>3. OfKey(objs, Len(objs), k) \subseteq DOMAIN objs
          BY <3>1 DEF OfKey
        <4> QED
          BY <4>2, <4>3
      <3> QED
        BY <3>2, <3>3 DEF Obj, objs, t
    <2> QED
      BY <2>1, <2>2 DEF TypeOK, Counters
  <1> QED
    BY <1>1, MetaInvariant, PTL

(* Looking a name up finds the one object that bears it, or none, whatever *)
(* was defined, renamed, copied, deleted and reopened before.              *)
THEOREM LookupsFindTheObject ==
  ASSUME Faults = {}
  PROVE  Spec => []LookupAgrees
  <1>1. MetaInv => LookupAgrees
    <2> SUFFICES ASSUME MetaInv, NEW r \in Ranks, NEW s \in Spaces, NEW n \in Names
                 PROVE  {i \in DOMAIN nc[r].defs[s] : nc[r].defs[s][i].name = n}
                          = {Find(nc[r], s, n)} \ {0}
      BY DEF LookupAgrees
    <2> DEFINE m == nc[r]
               id == Find(m, s, n)
    <2>1. Sound(m) /\ m.defs[s] \in Seq(Obj)
      BY DEF MetaInv, Alike, RanksAgree, Sound, Meta, DefsType
    <2> HIDE DEF m
    <2>2. /\ id \in 0 .. Len(m.defs[s])
          /\ id # 0 => m.defs[s][id].name = n
          /\ \A i \in 1 .. Len(m.defs[s]) : m.defs[s][i].name = n => i = id
      BY <2>1, FindSound
    <2>3. DOMAIN m.defs[s] = 1 .. Len(m.defs[s]) /\ Len(m.defs[s]) \in Nat
      BY <2>1
    <2> HIDE DEF id
    <2>4. {i \in DOMAIN m.defs[s] : m.defs[s][i].name = n} = {id} \ {0}
      BY <2>2, <2>3
    <2> QED
      BY <2>4 DEF m, id
  <1> QED
    BY <1>1, MetaInvariant, PTL

(* The ranks' copies of the metadata stay alike.                           *)
THEOREM RanksStayAlike ==
  ASSUME Faults = {}
  PROVE  Spec => []RanksAgree
  <1>1. MetaInv => RanksAgree
    BY DEF MetaInv, Alike
  <1> QED
    BY <1>1, MetaInvariant, PTL

(* In data mode the header on disk is the metadata in memory.              *)
THEOREM HeaderOnDisk ==
  ASSUME Faults = {}
  PROVE  Spec => []DiskCurrent
  <1>1. MetaInv => DiskCurrent
    BY DEF MetaInv, GoodDisk
  <1> QED
    BY <1>1, MetaInvariant, PTL

(* The header never outgrows the space before the first variable's data.   *)
THEOREM HeaderStaysInItsSpace ==
  ASSUME Faults = {}
  PROVE  Spec => []HeaderFits
  <1>1. MetaInv => HeaderFits
    BY DEF MetaInv, DiskFits, GoodDisk, DiskCurrent, HeaderFits
  <1> QED
    BY <1>1, MetaInvariant, PTL
=============================================================================
