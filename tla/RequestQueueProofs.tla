------------------------- MODULE RequestQueueProofs -------------------------
(***************************************************************************)
(* Proofs about the queues of nonblocking requests, for every number of    *)
(* variables, requests and records and every size of the attached buffer.  *)
(***************************************************************************)
EXTENDS RequestQueue, LoopLemmas, FiniteSetTheorems

QueueSet == [lead : Seq(Lead), list : Seq(Entry), max : 0 .. MaxId]

TableEntry == [num : 1 .. MaxNum, used : BOOLEAN]

BufferSet == [size : 0 .. MaxBuffer, used : 0 .. MaxBuffer, table : Seq(TableEntry)]

(***************************************************************************)
(* What a queue is between two calls: its two lists fit, no lead is        *)
(* marked, and its IDs are distinct, of its parity and not above max.      *)
(***************************************************************************)
GoodQueue(q, parity) ==
    /\ q \in QueueSet
    /\ Fits(q)
    /\ \A i \in DOMAIN q.lead : /\ ~q.lead[i].free
                                /\ q.lead[i].id % 2 = parity
                                /\ q.lead[i].id <= q.max
    /\ \A i, j \in DOMAIN q.lead : q.lead[i].id = q.lead[j].id => i = j
    /\ q.lead = <<>> \/ q.max % 2 = parity

(***************************************************************************)
(* The attached buffer and the put requests: an entry of the table that is *)
(* in use is of one pending request, whose data is where the entries       *)
(* before it end.                                                          *)
(***************************************************************************)
LooseBuffer(q, b) ==
    /\ b \in BufferSet
    /\ b.size = 0 => b = NoBuffer
    /\ b.used = Room(b.table)[Len(b.table)]
    /\ b.used <= b.size
    /\ \A i \in DOMAIN q.lead : q.lead[i].buf > 0 =>
         /\ q.lead[i].buf \in DOMAIN b.table
         /\ b.table[q.lead[i].buf].used
         /\ b.table[q.lead[i].buf].num = q.lead[i].num
         /\ q.lead[i].at = Room(b.table)[q.lead[i].buf - 1]
    /\ \A i, j \in DOMAIN q.lead :
         q.lead[i].buf > 0 /\ q.lead[i].buf = q.lead[j].buf => i = j
    /\ \A t \in DOMAIN b.table :
         b.table[t].used => \E i \in DOMAIN q.lead : q.lead[i].buf = t

(* Between two calls the last entry of the table is in use. *)
GoodBuffer(q, b) ==
    /\ LooseBuffer(q, b)
    /\ b.table # <<>> => b.table[Len(b.table)].used

(* Two leads that differ at most in where their entries are. *)
Same(l, m) == /\ l.id = m.id /\ l.var = m.var /\ l.num = m.num /\ l.max = m.max
              /\ l.buf = m.buf /\ l.at = m.at /\ l.free = m.free /\ l.slot = m.slot

(***************************************************************************)
(* The leads of q2 are those of q without the ones at the indices in gone: *)
(* m says where each was in q.                                             *)
(***************************************************************************)
Remains(q, q2, gone, m) ==
    /\ m \in [DOMAIN q2.lead -> DOMAIN q.lead]
    /\ \A j \in DOMAIN q2.lead : m[j] \notin gone /\ Same(q2.lead[j], q.lead[m[j]])
    /\ \A i, j \in DOMAIN q2.lead : m[i] = m[j] => i = j
    /\ \A i \in DOMAIN q.lead : i \in gone \/ \E j \in DOMAIN q2.lead : m[j] = i

(* The inductive invariant. *)
QueueInv == /\ GoodQueue(put, 0)
            /\ GoodQueue(get, 1)
            /\ GoodBuffer(put, abuf)
            /\ numrecs \in 0 .. MaxRecs

-----------------------------------------------------------------------------
(* Sums of sequences of numbers. *)

LEMMA SumsLoop ==
  ASSUME NEW f \in Seq(Nat)
  PROVE  /\ Sums(f) \in [0 .. Len(f) -> Nat]
         /\ Sums(f)[0] = 0
         /\ \A i \in 1 .. Len(f) : Sums(f)[i] = Sums(f)[i - 1] + f[i]
  <1>1. Len(f) \in Nat /\ \A i \in 1 .. Len(f) : f[i] \in Nat
    OBVIOUS
  <1> QED
    BY <1>1, RunningSum DEF Sums

LEMMA SumsGrow ==
  ASSUME NEW f \in Seq(Nat), NEW i \in 0 .. Len(f), NEW j \in 0 .. Len(f), i <= j
  PROVE  Sums(f)[i] <= Sums(f)[j]
  <1> DEFINE k == Len(f)
             S == Sums(f)
             P == {m \in 0 .. k : m >= i => S[i] <= S[m]}
  <1>1. /\ k \in Nat /\ S \in [0 .. k -> Nat]
        /\ \A m \in 1 .. k : S[m] = S[m - 1] + f[m]
        /\ \A m \in 1 .. k : f[m] \in Nat
    BY SumsLoop
  <1> HIDE DEF k, S
  <1>2. i \in 0 .. k /\ j \in 0 .. k
    BY DEF k
  <1>3. 0 \in P
    BY <1>1, <1>2
  <1>4. ASSUME NEW m \in 1 .. k, m - 1 \in P PROVE m \in P
    <2> DEFINE a == S[i]
               b == S[m - 1]
               c == S[m]
               d == f[m]
    <2>1. /\ a \in Nat /\ b \in Nat /\ c \in Nat /\ d \in Nat /\ c = b + d
          /\ m \in 0 .. k /\ m - 1 \in 0 .. k
      BY <1>1, <1>2, <1>4
    <2>2. m - 1 >= i => a <= b
      BY <1>4
    <2>3. m = i \/ m - 1 >= i \/ ~(m >= i)
      BY <1>2, <2>1
    <2>4. m = i => a = c
      OBVIOUS
    <2> HIDE DEF a, b, c, d
    <2>5. m >= i => a <= c
      BY <2>1, <2>2, <2>3, <2>4
    <2> QED
      BY <2>1, <2>5 DEF a, c
  <1>5. \A m \in 0 .. k : m \in P
    <2> HIDE DEF P
    <2> QED
      BY <1>1, <1>3, <1>4, LoopInduction
  <1> QED
    BY <1>2, <1>5 DEF S

LEMMA SumsPrefix ==
  ASSUME NEW f \in Seq(Nat), NEW g \in Seq(Nat), NEW n \in Nat,
         n <= Len(f), n <= Len(g), \A i \in 1 .. n : f[i] = g[i]
  PROVE  \A i \in 0 .. n : Sums(f)[i] = Sums(g)[i]
  <1> DEFINE S == Sums(f)
             T == Sums(g)
             P == {m \in 0 .. n : S[m] = T[m]}
  <1>1. /\ S[0] = 0 /\ T[0] = 0
        /\ \A m \in 1 .. n : S[m] = S[m - 1] + f[m]
        /\ \A m \in 1 .. n : T[m] = T[m - 1] + g[m]
    BY SumsLoop
  <1> HIDE DEF S, T
  <1>2. 0 \in P /\ \A m \in 1 .. n : m - 1 \in P => m \in P
    BY <1>1
  <1>3. \A m \in 0 .. n : m \in P
    <2> HIDE DEF P
    <2> QED
      BY <1>2, LoopInduction
  <1> QED
    BY <1>3 DEF S, T

(* Where the sums of one sequence stand still, so do those of another that *)
(* is zero in the same places.                                             *)
LEMMA SumsStill ==
  ASSUME NEW f \in Seq(Nat), NEW g \in Seq(Nat), Len(f) = Len(g),
         \A i \in 1 .. Len(f) : f[i] = 0 => g[i] = 0,
         NEW a \in 0 .. Len(f)
  PROVE  \A b \in 0 .. Len(f) :
            b >= a /\ Sums(f)[b] = Sums(f)[a] => Sums(g)[b] = Sums(g)[a]
  <1> DEFINE k == Len(f)
             S == Sums(f)
             T == Sums(g)
             P == {m \in 0 .. k : m >= a /\ S[m] = S[a] => T[m] = T[a]}
  <1>1. /\ S \in [0 .. k -> Nat] /\ T \in [0 .. k -> Nat] /\ k \in Nat
        /\ \A m \in 1 .. k : S[m] = S[m - 1] + f[m]
        /\ \A m \in 1 .. k : T[m] = T[m - 1] + g[m]
        /\ \A m \in 1 .. k : f[m] \in Nat
        /\ \A m \in 1 .. k : f[m] = 0 => g[m] = 0
    <2>1. /\ T \in [0 .. Len(g) -> Nat]
          /\ \A m \in 1 .. Len(g) : T[m] = T[m - 1] + g[m]
      BY SumsLoop
    <2>2. /\ S \in [0 .. k -> Nat] /\ k \in Nat
          /\ \A m \in 1 .. k : S[m] = S[m - 1] + f[m]
          /\ \A m \in 1 .. k : f[m] \in Nat
      BY SumsLoop
    <2> HIDE DEF S, T
    <2> QED
      BY <2>1, <2>2
  <1>2. \A m \in 0 .. k : m >= a => S[a] <= S[m]
    BY SumsGrow
  <1>3. a \in 0 .. k
    OBVIOUS
  <1> HIDE DEF k, S, T
  <1>4. 0 \in P
    BY <1>1, <1>3
  <1>5. ASSUME NEW m \in 1 .. k, m - 1 \in P PROVE m \in P
    <2> DEFINE s == S[m]
               t == S[m - 1]
               u == S[a]
               x == T[m]
               y == T[m - 1]
               z == T[a]
               d == f[m]
    <2>1. /\ s \in Nat /\ t \in Nat /\ u \in Nat /\ d \in Nat /\ s = t + d
          /\ x \in Nat /\ y \in Nat /\ z \in Nat
          /\ d = 0 => x = y
          /\ m \in 0 .. k /\ m - 1 \in 0 .. k
      BY <1>1, <1>3
    <2>2. m - 1 >= a => u <= t
      BY <1>2, <2>1
    <2>3. m - 1 >= a /\ t = u => y = z
      BY <1>5
    <2>4. m = a => x = z
      OBVIOUS
    <2>5. m = a \/ m - 1 >= a \/ ~(m >= a)
      BY <1>3, <2>1
    <2> HIDE DEF s, t, u, x, y, z, d
    <2>6. m >= a /\ s = u => x = z
      BY <2>1, <2>2, <2>3, <2>4, <2>5
    <2> QED
      BY <2>1, <2>6 DEF s, u, x, z
  <1>6. \A m \in 0 .. k : m \in P
    <2> HIDE DEF P
    <2> QED
      BY <1>1, <1>4, <1>5, LoopInduction
  <1> QED
    BY <1>6 DEF k, S, T

(* A number set to zero is missing from the sums that reach it. *)
LEMMA SumsWithout ==
  ASSUME NEW f \in Seq(Nat), NEW g \in Seq(Nat), Len(f) = Len(g),
         NEW x \in 1 .. Len(f), g[x] = 0,
         \A i \in 1 .. Len(f) : i # x => g[i] = f[i]
  PROVE  Sums(f)[Len(f)] = Sums(g)[Len(f)] + f[x]
  <1> DEFINE k == Len(f)
             S == Sums(f)
             T == Sums(g)
             P == {m \in 0 .. k : S[m] = T[m] + IF m < x THEN 0 ELSE f[x]}
  <1>1. /\ S \in [0 .. k -> Nat] /\ T \in [0 .. k -> Nat] /\ k \in Nat
        /\ S[0] = 0 /\ T[0] = 0 /\ x \in 1 .. k
        /\ \A m \in 1 .. k : S[m] = S[m - 1] + f[m]
        /\ \A m \in 1 .. k : T[m] = T[m - 1] + g[m]
        /\ \A m \in 1 .. k : f[m] \in Nat
        /\ \A m \in 1 .. k : m # x => g[m] = f[m]
    <2>1. /\ T \in [0 .. Len(g) -> Nat] /\ T[0] = 0
          /\ \A m \in 1 .. Len(g) : T[m] = T[m - 1] + g[m]
      BY SumsLoop
    <2>2. /\ S \in [0 .. k -> Nat] /\ k \in Nat /\ S[0] = 0
          /\ \A m \in 1 .. k : S[m] = S[m - 1] + f[m]
          /\ \A m \in 1 .. k : f[m] \in Nat
      BY SumsLoop
    <2> HIDE DEF S, T
    <2> QED
      BY <2>1, <2>2
  <1> HIDE DEF k, S, T
  <1>2. 0 \in P
    BY <1>1
  <1>3. ASSUME NEW m \in 1 .. k, m - 1 \in P PROVE m \in P
    <2> DEFINE s == S[m]
               t == S[m - 1]
               y == T[m]
               z == T[m - 1]
               d == f[m]
               e == g[m]
               c == f[x]
    <2>1. /\ s \in Nat /\ t \in Nat /\ y \in Nat /\ z \in Nat /\ d \in Nat
          /\ c \in Nat /\ s = t + d /\ y = z + e
          /\ m # x => e = d
          /\ m = x => e = 0 /\ d = c
          /\ m \in 0 .. k /\ m - 1 \in 0 .. k
      <3>1. m \in 0 .. k /\ m - 1 \in 0 .. k
        BY <1>1
      <3>2. s \in Nat /\ t \in Nat /\ y \in Nat /\ z \in Nat
        BY <1>1, <3>1
      <3>3. d \in Nat /\ c \in Nat /\ s = t + d /\ y = z + e
        BY <1>1
      <3>4. m # x => e = d
        BY <1>1
      <3>5. m = x => e = 0 /\ d = c
        OBVIOUS
      <3> QED
        BY <3>1, <3>2, <3>3, <3>4, <3>5
    <2>2. t = z + IF m - 1 < x THEN 0 ELSE c
      BY <1>3
    <2> HIDE DEF s, t, y, z, d, e, c
    <2>3. s = y + IF m < x THEN 0 ELSE c
      <3>1. CASE m < x
        BY <1>1, <2>1, <2>2, <3>1
      <3>2. CASE m = x
        BY <1>1, <2>1, <2>2, <3>2
      <3>3. CASE m > x
        BY <1>1, <2>1, <2>2, <3>3
      <3> QED
        BY <1>1, <2>1, <3>1, <3>2, <3>3
    <2> QED
      BY <2>1, <2>3 DEF s, y, c
  <1>4. \A m \in 0 .. k : m \in P
    <2> HIDE DEF P
    <2> QED
      BY <1>1, <1>2, <1>3, LoopInduction
  <1>5. k \in 0 .. k /\ ~(k < x)
    BY <1>1
  <1> QED
    BY <1>4, <1>5 DEF k, S, T

-----------------------------------------------------------------------------
(* Leads, entries and the chain of a queue's leads. *)

LEMMA LeadFields ==
  ASSUME NEW l \in Lead
  PROVE  /\ l.id \in 0 .. MaxId /\ l.id \in Nat /\ l.var \in Var
         /\ l.num \in 1 .. MaxNum /\ l.num \in Nat /\ l.num > 0
         /\ l.off \in Nat /\ l.max \in 0 .. MaxRecs /\ l.buf \in Nat
         /\ l.at \in Nat /\ l.free \in BOOLEAN /\ l.slot \in Nat
  BY BoundAssumption DEF Lead

LEMMA LeadMoved ==
  ASSUME NEW l \in Lead, NEW o \in Nat
  PROVE  /\ [l EXCEPT !.off = o] \in Lead
         /\ [l EXCEPT !.off = o].off = o
         /\ [l EXCEPT !.off = o].id = l.id
         /\ [l EXCEPT !.off = o].num = l.num
         /\ [l EXCEPT !.off = o].free = l.free
         /\ Same([l EXCEPT !.off = o], l)
  BY DEF Lead, Same

LEMMA EntryFields ==
  ASSUME NEW e \in Entry
  PROVE  e.lead \in Nat /\ e.owner \in Int /\ e.from \in Nat /\ e.recs \in Nat
  BY DEF Entry

LEMMA EntryMoved ==
  ASSUME NEW e \in Entry, NEW i \in Nat
  PROVE  /\ [e EXCEPT !.lead = i] \in Entry
         /\ [e EXCEPT !.lead = i].lead = i
         /\ [e EXCEPT !.lead = i].owner = e.owner
  BY DEF Entry

LEMMA SameLeads ==
  ASSUME NEW l, NEW m, NEW n, Same(l, m), Same(m, n)
  PROVE  Same(l, n) /\ Same(m, l) /\ Same(l, l)
  BY DEF Same

LEMMA QueueFields ==
  ASSUME NEW q \in QueueSet
  PROVE  /\ q.lead \in Seq(Lead) /\ q.list \in Seq(Entry) /\ q.max \in 0 .. MaxId
         /\ Len(q.lead) \in Nat /\ DOMAIN q.lead = 1 .. Len(q.lead)
         /\ Len(q.list) \in Nat /\ DOMAIN q.list = 1 .. Len(q.list)
         /\ \A i \in DOMAIN q.lead : q.lead[i] \in Lead
         /\ \A k \in DOMAIN q.list : q.list[k] \in Entry
         /\ q = [lead |-> q.lead, list |-> q.list, max |-> q.max]
  BY DEF QueueSet

(* The leads' entries follow one another without a gap. *)
LEMMA Chain ==
  ASSUME NEW q \in QueueSet, Fits(q)
  PROVE  /\ End(q, 0) = 0 /\ End(q, Len(q.lead)) = Len(q.list)
         /\ \A i \in 0 .. Len(q.lead) : End(q, i) \in Nat
         /\ \A i \in 1 .. Len(q.lead) : /\ q.lead[i].off = End(q, i - 1)
                                        /\ End(q, i) = End(q, i - 1) + q.lead[i].num
         /\ \A i, j \in 0 .. Len(q.lead) : i <= j => End(q, i) <= End(q, j)
  <1> DEFINE n == Len(q.lead)
             L == q.lead
  <1>1. /\ n \in Nat /\ DOMAIN L = 1 .. n /\ \A i \in 1 .. n : L[i] \in Lead
    BY QueueFields
  <1>2. \A i \in 1 .. n : L[i].off \in Nat /\ L[i].num \in Nat
    BY <1>1, LeadFields
  <1>3. /\ \A i \in 1 .. n : L[i].off = End(q, i - 1)
        /\ Len(q.list) = End(q, n)
    BY <1>1 DEF Fits
  <1>4. End(q, 0) = 0 /\ \A i \in 1 .. n : End(q, i) = L[i].off + L[i].num
    BY <1>1 DEF End
  <1> HIDE DEF n, L
  <1>5. \A i \in 0 .. n : End(q, i) \in Nat
    <2>1. \A i \in 0 .. n : i = 0 \/ i \in 1 .. n
      BY <1>1
    <2> QED
      BY <1>2, <1>4, <2>1
  <1>6. \A i \in 1 .. n : End(q, i) = End(q, i - 1) + L[i].num
    BY <1>3, <1>4
  <1>7. ASSUME NEW i \in 0 .. n PROVE \A j \in 0 .. n : i <= j => End(q, i) <= End(q, j)
    <2> DEFINE P == {j \in 0 .. n : i <= j => End(q, i) <= End(q, j)}
    <2>1. 0 \in P
      BY <1>1, <1>5
    <2>2. ASSUME NEW j \in 1 .. n, j - 1 \in P PROVE j \in P
      <3> DEFINE a == End(q, i)
                 b == End(q, j - 1)
                 c == End(q, j)
                 d == L[j].num
      <3>1. /\ a \in Nat /\ b \in Nat /\ c \in Nat /\ d \in Nat /\ c = b + d
            /\ j \in 0 .. n /\ i <= j - 1 => a <= b
        <4>1. j \in 0 .. n /\ j - 1 \in 0 .. n
          BY <1>1
        <4>2. c = b + d /\ d \in Nat
          BY <1>2, <1>6
        <4>3. a \in Nat /\ b \in Nat /\ c \in Nat
          BY <1>5, <4>1
        <4> QED
          BY <2>2, <4>1, <4>2, <4>3
      <3>2. i = j => a = c
        OBVIOUS
      <3>3. i <= j => i = j \/ i <= j - 1
        BY <1>1
      <3> HIDE DEF a, b, c, d
      <3>4. i <= j => a <= c
        BY <3>1, <3>2, <3>3
      <3> QED
        BY <3>1, <3>4 DEF a, c
    <2>3. \A j \in 0 .. n : j \in P
      <3> HIDE DEF P
      <3> QED
        BY <1>1, <2>1, <2>2, LoopInduction
    <2> QED
      BY <2>3
  <1> QED
    BY <1>3, <1>4, <1>5, <1>6, <1>7 DEF n, L

(* Every entry is some lead's. *)
LEMMA LeadOfEntry ==
  ASSUME NEW q \in QueueSet, Fits(q), NEW k \in 1 .. Len(q.list)
  PROVE  \E i \in 1 .. Len(q.lead) : /\ End(q, i - 1) < k /\ k <= End(q, i)
                                     /\ q.list[k].lead = i
                                     /\ q.list[k].owner = q.lead[i].id
  <1> DEFINE n == Len(q.lead)
             P == {i \in 0 .. n : k <= End(q, i)}
  <1>1. /\ n \in Nat /\ k \in Nat /\ k > 0
        /\ End(q, 0) = 0 /\ End(q, n) = Len(q.list)
        /\ \A i \in 0 .. n : End(q, i) \in Nat
    BY QueueFields, Chain
  <1>2. PICK i \in P : \A j \in P : i <= j
    <2>1. n \in P
      BY <1>1
    <2>2. P \subseteq Nat
      OBVIOUS
    <2> HIDE DEF P
    <2> QED
      BY <2>1, <2>2, LeastNat
  <1>3. i # 0
    BY <1>1
  <1>4. i \in 1 .. n /\ i - 1 \in 0 .. n /\ ~(i <= i - 1)
    BY <1>1, <1>3
  <1>5. i - 1 \notin P
    <2> HIDE DEF P
    <2> QED
      BY <1>2, <1>4
  <1>6. End(q, i - 1) < k /\ k <= End(q, i)
    BY <1>1, <1>4, <1>5
  <1>7. q.lead[i].off = End(q, i - 1) /\ i \in DOMAIN q.lead
    BY <1>4, Chain, QueueFields
  <1>8. k \in q.lead[i].off + 1 .. End(q, i)
    <2>1. i \in 0 .. n
      BY <1>4
    <2> QED
      BY <1>1, <1>4, <1>6, <1>7, <2>1
  <1>9. q.list[k].lead = i /\ q.list[k].owner = q.lead[i].id
    BY <1>7, <1>8 DEF Fits
  <1> QED
    BY <1>4, <1>6, <1>9

-----------------------------------------------------------------------------
(* Posting a request. *)

LEMMA InsertGood ==
  ASSUME NEW q, NEW parity, GoodQueue(q, parity),
         NEW new \in Lead, NEW place \in 1 .. Len(q.lead) + 1, NEW recs \in Nat,
         ~new.free, new.id % 2 = parity,
         \A i \in DOMAIN q.lead : q.lead[i].id < new.id
  PROVE  LET r == Insert(q, place, new, recs)
         IN  /\ GoodQueue(r, parity)
             /\ Len(r.lead) = Len(q.lead) + 1
             /\ \A i \in 1 .. Len(q.lead) + 1 :
                  /\ i < place => r.lead[i] = q.lead[i]
                  /\ i = place => Same(r.lead[i], new)
                  /\ i > place => Same(r.lead[i], q.lead[i - 1])
  <1> DEFINE n == Len(q.lead)
             m == Len(q.list)
             c == new.num
             off == End(q, place - 1)
             r == Insert(q, place, new, recs)
             entry(k) == [lead |-> place, owner |-> new.id,
                          from |-> (k - 1) * recs, recs |-> recs]
  <1>1. /\ q \in QueueSet /\ Fits(q)
        /\ n \in Nat /\ m \in Nat /\ DOMAIN q.lead = 1 .. n /\ DOMAIN q.list = 1 .. m
        /\ \A i \in 1 .. n : q.lead[i] \in Lead
        /\ \A k \in 1 .. m : q.list[k] \in Entry
    BY QueueFields DEF GoodQueue
  <1>2. /\ End(q, 0) = 0 /\ End(q, n) = m
        /\ \A i \in 0 .. n : End(q, i) \in Nat
        /\ \A i \in 1 .. n : /\ q.lead[i].off = End(q, i - 1)
                             /\ End(q, i) = End(q, i - 1) + q.lead[i].num
        /\ \A i, j \in 0 .. n : i <= j => End(q, i) <= End(q, j)
    BY <1>1, Chain
  <1>3. c \in Nat /\ c > 0 /\ new.id \in 0 .. MaxId /\ new.id \in Nat
    BY LeadFields
  <1>4. place \in Nat /\ place >= 1 /\ place <= n + 1 /\ place - 1 \in 0 .. n /\ off \in Nat /\ off <= m
    <2>1. place \in Nat /\ place >= 1 /\ place <= n + 1 /\ place - 1 \in 0 .. n /\ n \in 0 .. n
          /\ place - 1 <= n
      BY <1>1
    <2> QED
      BY <2>1, <1>2
  <1>5. off = IF place <= Len(q.lead) THEN q.lead[place].off ELSE Len(q.list)
    <2>1. CASE place <= n
      <3>1. place \in 1 .. n
        BY <1>4, <2>1
      <3> QED
        BY <1>2, <2>1, <3>1
    <2>2. CASE ~(place <= n)
      <3>1. place - 1 = n
        BY <1>1, <1>4, <2>2
      <3> QED
        BY <1>2, <2>2, <3>1
    <2> QED
      BY <2>1, <2>2
  <1>6. /\ r.lead = [i \in 1 .. n + 1 |->
                     IF i < place THEN q.lead[i]
                     ELSE IF i = place THEN [new EXCEPT !.off = off]
                     ELSE [q.lead[i - 1] EXCEPT !.off = @ + c]]
        /\ r.list = [k \in 1 .. m + c |->
                     IF k <= off THEN q.list[k]
                     ELSE IF k <= off + c THEN entry(k - off)
                     ELSE [q.list[k - c] EXCEPT !.lead = @ + 1]]
        /\ r.max = new.id
        /\ r = [lead |-> r.lead, list |-> r.list, max |-> r.max]
    <2> HIDE DEF n, m, c
    <2> QED
      BY <1>5 DEF Insert, n, m, c
  <1> HIDE DEF n, m, c, off, r
  <1>7. ASSUME NEW i \in 1 .. n + 1
        PROVE  /\ r.lead[i] \in Lead
               /\ i < place => r.lead[i] = q.lead[i] /\ i \in 1 .. n
               /\ i = place => /\ Same(r.lead[i], new)
                               /\ r.lead[i].off = off
               /\ i > place => /\ Same(r.lead[i], q.lead[i - 1])
                               /\ i - 1 \in 1 .. n
                               /\ r.lead[i].off = q.lead[i - 1].off + c
    <2>1. CASE i < place
      <3>1. i \in 1 .. n /\ r.lead[i] = q.lead[i] /\ ~(i = place) /\ ~(i > place)
        BY <1>1, <1>4, <1>6, <2>1
      <3> QED
        BY <1>1, <2>1, <3>1
    <2>2. CASE i = place
      <3>1. r.lead[i] = [new EXCEPT !.off = off] /\ ~(i < place) /\ ~(i > place)
        BY <1>4, <1>6, <2>2
      <3> QED
        BY <1>4, <3>1, <2>2, LeadMoved
    <2>3. CASE i > place
      <3>1. i - 1 \in 1 .. n /\ ~(i < place) /\ ~(i = place)
        BY <1>1, <1>4, <2>3
      <3> DEFINE l == q.lead[i - 1]
      <3>2. l \in Lead /\ l.off \in Nat
        BY <1>1, <3>1, LeadFields
      <3>3. r.lead[i] = [l EXCEPT !.off = l.off + c]
        BY <1>6, <3>1
      <3>4. l.off + c \in Nat
        BY <1>3, <3>2
      <3> HIDE DEF l
      <3>5. r.lead[i] \in Lead /\ r.lead[i].off = l.off + c /\ Same(r.lead[i], l)
        BY <3>2, <3>3, <3>4, LeadMoved
      <3> QED
        BY <3>1, <3>5 DEF l
    <2> QED
      BY <1>4, <2>1, <2>2, <2>3
  <1>8. Len(r.lead) = n + 1 /\ r.lead \in Seq(Lead) /\ DOMAIN r.lead = 1 .. n + 1
    <2>1. n + 1 \in Nat
      BY <1>1
    <2>2. DOMAIN r.lead = 1 .. n + 1 /\ r.lead = [i \in 1 .. n + 1 |-> r.lead[i]]
      BY <1>6
    <2> QED
      BY <1>7, <2>1, <2>2
  <1>9. ASSUME NEW k \in 1 .. m + c
        PROVE  /\ r.list[k] \in Entry
               /\ k <= off => r.list[k] = q.list[k]
               /\ k > off /\ k <= off + c => /\ r.list[k].lead = place
                                             /\ r.list[k].owner = new.id
               /\ k > off + c => /\ r.list[k].lead = q.list[k - c].lead + 1
                                 /\ r.list[k].owner = q.list[k - c].owner
    <2>0. k \in Nat /\ k >= 1 /\ k <= m + c
      BY <1>1, <1>3
    <2>1. CASE k <= off
      <3>1. r.list[k] = q.list[k] /\ k \in 1 .. m /\ ~(k > off) /\ ~(k > off + c)
        BY <1>1, <1>3, <1>4, <1>6, <2>0, <2>1
      <3> QED
        BY <1>1, <2>1, <3>1
    <2>2. CASE k > off /\ k <= off + c
      <3>1. r.list[k] = entry(k - off) /\ ~(k <= off) /\ ~(k > off + c)
        BY <1>3, <1>4, <1>6, <2>0, <2>2
      <3>2. k - off - 1 \in Nat
        BY <1>4, <2>0, <2>2
      <3>3. (k - off - 1) * recs \in Nat
        BY <3>2
      <3>4. new.id \in Int
        BY <1>3
      <3>5. entry(k - off) \in Entry
        BY <1>4, <3>3, <3>4 DEF Entry
      <3>6. entry(k - off).lead = place /\ entry(k - off).owner = new.id
        OBVIOUS
      <3> HIDE DEF entry
      <3> QED
        BY <2>2, <3>1, <3>5, <3>6
    <2>3. CASE k > off + c
      <3> DEFINE e == q.list[k - c]
      <3>1. k - c \in 1 .. m /\ ~(k <= off) /\ ~(k <= off + c)
        BY <1>1, <1>3, <1>4, <2>0, <2>3
      <3>2. e \in Entry /\ e.lead \in Nat /\ e.lead + 1 \in Nat
        BY <1>1, <3>1, EntryFields
      <3>3. r.list[k] = [e EXCEPT !.lead = e.lead + 1]
        BY <1>6, <3>1
      <3> HIDE DEF e
      <3>4. r.list[k] \in Entry /\ r.list[k].lead = e.lead + 1 /\ r.list[k].owner = e.owner
        BY <3>2, <3>3, EntryMoved
      <3> QED
        BY <3>1, <3>4 DEF e
    <2> QED
      BY <1>3, <1>4, <2>0, <2>1, <2>2, <2>3
  <1>10. Len(r.list) = m + c /\ r.list \in Seq(Entry) /\ DOMAIN r.list = 1 .. m + c
    <2>1. m + c \in Nat
      BY <1>1, <1>3
    <2>2. DOMAIN r.list = 1 .. m + c /\ r.list = [k \in 1 .. m + c |-> r.list[k]]
      BY <1>6
    <2> QED
      BY <1>9, <2>1, <2>2
  <1>11. r \in QueueSet
    BY <1>3, <1>6, <1>8, <1>10 DEF QueueSet
  <1>12. ASSUME NEW i \in 0 .. n + 1
         PROVE  /\ i < place => i \in 0 .. n /\ End(r, i) = End(q, i)
                /\ i >= place => i - 1 \in 0 .. n /\ End(r, i) = End(q, i - 1) + c
    <2>1. CASE i = 0
      <3>1. End(r, i) = 0 /\ i < place /\ ~(i >= place) /\ i \in 0 .. n
        BY <1>1, <1>4, <2>1 DEF End
      <3> QED
        BY <1>2, <2>1, <3>1
    <2>2. CASE i # 0
      <3>1. i \in 1 .. n + 1 /\ i \in Nat /\ i - 1 \in 0 .. n /\ End(r, i) = r.lead[i].off + r.lead[i].num
        BY <1>1, <2>2 DEF End
      <3>2. CASE i < place
        <4>1. r.lead[i] = q.lead[i] /\ i \in 1 .. n /\ i \in 0 .. n /\ ~(i >= place)
          BY <1>1, <1>7, <3>1, <3>2, <1>4
        <4>2. End(q, i) = q.lead[i].off + q.lead[i].num
          BY <4>1, <2>2 DEF End
        <4> QED
          BY <3>1, <3>2, <4>1, <4>2
      <3>3. CASE i = place
        <4>1. r.lead[i].off = off /\ r.lead[i].num = c /\ ~(i < place)
          BY <1>7, <3>1, <3>3, <1>4 DEF Same, c
        <4> QED
          BY <3>1, <3>3, <4>1 DEF off
      <3>4. CASE i > place
        <4>1. /\ r.lead[i].off = q.lead[i - 1].off + c /\ r.lead[i].num = q.lead[i - 1].num
              /\ i - 1 \in 1 .. n /\ ~(i < place)
          BY <1>7, <3>1, <3>4, <1>4 DEF Same
        <4>2. End(q, i - 1) = q.lead[i - 1].off + q.lead[i - 1].num
          BY <4>1 DEF End
        <4>3. q.lead[i - 1].off \in Nat /\ q.lead[i - 1].num \in Nat
          BY <1>1, <4>1, LeadFields
        <4>4. End(r, i) = End(q, i - 1) + c
          <5> DEFINE a == q.lead[i - 1].off
                     b == q.lead[i - 1].num
                     x == r.lead[i].off
                     y == r.lead[i].num
                     u == End(r, i)
                     v == End(q, i - 1)
          <5>1. a \in Nat /\ b \in Nat /\ x = a + c /\ y = b /\ u = x + y /\ v = a + b
            BY <3>1, <4>1, <4>2, <4>3
          <5> HIDE DEF a, b, x, y, u, v
          <5>2. u = v + c
            BY <1>3, <5>1
          <5> QED
            BY <5>2 DEF u, v
        <4> QED
          BY <3>1, <4>1, <4>4
      <3> QED
        BY <1>4, <3>1, <3>2, <3>3, <3>4
    <2> QED
      BY <2>1, <2>2
  <1>13. ASSUME NEW i \in 1 .. n + 1 PROVE r.lead[i].off = End(r, i - 1)
    <2>0. i \in Nat /\ i - 1 \in 0 .. n + 1 /\ i >= 1 /\ i <= n + 1
      BY <1>1
    <2>1. CASE i < place
      <3>1. r.lead[i] = q.lead[i] /\ i \in 1 .. n /\ i - 1 < place
        BY <1>4, <1>7, <2>0, <2>1
      <3> QED
        BY <1>2, <1>12, <2>0, <3>1
    <2>2. CASE i = place
      <3>1. i - 1 < place /\ r.lead[i].off = off
        BY <1>4, <1>7, <2>2
      <3> QED
        BY <1>12, <2>0, <2>2, <3>1 DEF off
    <2>3. CASE i > place
      <3>1. i - 1 >= place /\ r.lead[i].off = q.lead[i - 1].off + c /\ i - 1 \in 1 .. n
        BY <1>4, <1>7, <2>0, <2>3
      <3>2. q.lead[i - 1].off = End(q, i - 1 - 1)
        BY <1>2, <3>1
      <3>3. End(r, i - 1) = End(q, i - 1 - 1) + c
        BY <1>12, <2>0, <3>1
      <3> QED
        BY <3>1, <3>2, <3>3
    <2> QED
      BY <1>4, <2>0, <2>1, <2>2, <2>3
  <1>14. ASSUME NEW i \in 1 .. n + 1, NEW k \in r.lead[i].off + 1 .. End(r, i)
         PROVE  /\ k \in 1 .. m + c
                /\ r.list[k].lead = i
                /\ r.list[k].owner = r.lead[i].id
    <2>0. /\ i \in Nat /\ i >= 1 /\ i <= n + 1 /\ i \in 0 .. n + 1 /\ i - 1 \in 0 .. n
          /\ r.lead[i].off \in Nat
      BY <1>1, <1>7, LeadFields
    <2>1. CASE i < place
      <3>1. /\ r.lead[i] = q.lead[i] /\ i \in 1 .. n /\ i \in 0 .. n /\ End(r, i) = End(q, i)
            /\ i <= place - 1
        <4>1. i \in 1 .. n /\ i \in 0 .. n /\ i <= place - 1
          BY <1>1, <1>4, <2>0, <2>1
        <4>2. r.lead[i] = q.lead[i]
          BY <1>7, <2>0, <2>1
        <4>3. End(r, i) = End(q, i)
          BY <1>12, <2>0, <2>1
        <4> QED
          BY <4>1, <4>2, <4>3
      <3>2. End(q, i) <= off /\ End(q, i) \in Nat
        BY <1>2, <1>4, <3>1 DEF off
      <3>3. k \in Nat /\ k >= 1 /\ k <= off /\ k \in q.lead[i].off + 1 .. End(q, i)
        <4> DEFINE x == q.lead[i].off
                   y == End(q, i)
        <4>1. k \in x + 1 .. y /\ x \in Nat /\ y \in Nat /\ y <= off /\ off \in Nat
          BY <1>4, <2>0, <3>1, <3>2
        <4> HIDE DEF off, x, y
        <4>2. k \in Nat /\ k >= 1 /\ k <= off
          BY <4>1
        <4> QED
          BY <4>1, <4>2 DEF x, y
      <3>4. k \in 1 .. m + c
        <4>1. off \in Nat /\ off <= m /\ m \in Nat /\ c \in Nat
          BY <1>1, <1>3, <1>4
        <4> HIDE DEF off, m, c
        <4> QED
          BY <3>3, <4>1
      <3>5. q.list[k].lead = i /\ q.list[k].owner = q.lead[i].id
        BY <1>1, <3>1, <3>3 DEF Fits
      <3> QED
        BY <1>9, <3>1, <3>3, <3>4, <3>5
    <2>2. CASE i = place
      <3>1. Same(r.lead[i], new) /\ r.lead[i].off = off /\ End(r, i) = off + c
        BY <1>4, <1>7, <1>12, <2>0, <2>2 DEF off
      <3>2. k \in 1 .. m + c /\ k > off /\ k <= off + c
        <4>1. k \in off + 1 .. off + c
          BY <3>1
        <4>2. off \in Nat /\ off <= m /\ m \in Nat /\ c \in Nat
          BY <1>1, <1>3, <1>4
        <4> HIDE DEF off, m, c
        <4> QED
          BY <4>1, <4>2
      <3>3. r.list[k].lead = place /\ r.list[k].owner = new.id
        BY <1>9, <3>2
      <3> QED
        BY <2>2, <3>1, <3>2, <3>3 DEF Same
    <2>3. CASE i > place
      <3>1. /\ Same(r.lead[i], q.lead[i - 1]) /\ i - 1 \in 1 .. n
            /\ r.lead[i].off = q.lead[i - 1].off + c
            /\ End(r, i) = End(q, i - 1) + c /\ place - 1 <= i - 1 - 1
            /\ i - 1 - 1 \in 0 .. n
        <4>1. i >= place /\ ~(i < place) /\ ~(i = place)
          BY <1>4, <2>0, <2>3
        <4>2. /\ Same(r.lead[i], q.lead[i - 1]) /\ i - 1 \in 1 .. n
              /\ r.lead[i].off = q.lead[i - 1].off + c
          BY <1>7, <2>3
        <4>3. End(r, i) = End(q, i - 1) + c
          BY <1>12, <2>0, <4>1
        <4>4. place - 1 <= i - 1 - 1 /\ i - 1 - 1 \in 0 .. n
          BY <1>1, <1>4, <2>0, <2>3
        <4> QED
          BY <4>2, <4>3, <4>4
      <3> DEFINE o == q.lead[i - 1].off
                 e == End(q, i - 1)
      <3>2. o \in Nat /\ e \in Nat /\ off <= o /\ e <= m
        <4>1. o = End(q, i - 1 - 1) /\ i - 1 <= n /\ n \in 0 .. n
          BY <1>1, <1>2, <2>0, <3>1
        <4> QED
          BY <1>2, <1>4, <2>0, <3>1, <4>1 DEF off
      <3>3. k \in o + c + 1 .. e + c
        BY <3>1
      <3> HIDE DEF o, e
      <3>4. k - c \in o + 1 .. e /\ k \in 1 .. m + c /\ k > off + c
        BY <1>1, <1>3, <1>4, <3>2, <3>3
      <3>5. q.list[k - c].lead = i - 1 /\ q.list[k - c].owner = q.lead[i - 1].id
        BY <1>1, <3>1, <3>4 DEF Fits, o, e
      <3>6. r.list[k].lead = q.list[k - c].lead + 1 /\ r.list[k].owner = q.list[k - c].owner
        BY <1>9, <3>4
      <3>7. r.list[k].lead = i
        BY <2>0, <3>5, <3>6
      <3> QED
        BY <3>1, <3>4, <3>5, <3>6, <3>7 DEF Same
    <2> QED
      BY <1>4, <2>0, <2>1, <2>2, <2>3
  <1>15. Fits(r)
    <2>1. End(r, n + 1) = m + c
      <3>1. n + 1 \in 0 .. n + 1 /\ n + 1 >= place /\ n + 1 - 1 = n
        BY <1>1, <1>4
      <3> DEFINE e == n + 1
      <3>2. e \in 0 .. n + 1 /\ e >= place /\ e - 1 = n
        BY <1>1, <1>4
      <3> HIDE DEF e
      <3>3. End(r, e) = End(q, e - 1) + c
        BY <1>12, <3>2
      <3> QED
        BY <1>2, <3>2, <3>3 DEF e
    <2> QED
      BY <1>8, <1>10, <1>13, <1>14, <2>1 DEF Fits
  <1>16. ASSUME NEW i \in 1 .. n + 1
         PROVE  /\ ~r.lead[i].free /\ r.lead[i].id % 2 = parity
                /\ r.lead[i].id <= r.max /\ r.lead[i].id \in Nat
                /\ i = place <=> r.lead[i].id = new.id
    <2>0. r.lead[i].id \in Nat /\ r.max = new.id
      BY <1>6, <1>7, LeadFields
    <2>1. CASE i < place
      <3>1. r.lead[i] = q.lead[i] /\ i \in 1 .. n
        BY <1>7, <2>1
      <3>2. ~q.lead[i].free /\ q.lead[i].id % 2 = parity /\ q.lead[i].id < new.id
        BY <1>1, <3>1 DEF GoodQueue
      <3> QED
        BY <1>3, <1>4, <2>0, <2>1, <3>1, <3>2
    <2>2. CASE i = place
      BY <1>3, <1>7, <2>0, <2>2 DEF Same
    <2>3. CASE i > place
      <3>1. Same(r.lead[i], q.lead[i - 1]) /\ i - 1 \in 1 .. n
        BY <1>7, <2>3
      <3>2. ~q.lead[i - 1].free /\ q.lead[i - 1].id % 2 = parity /\ q.lead[i - 1].id < new.id
        BY <1>1, <3>1 DEF GoodQueue
      <3>3. ~r.lead[i].free /\ r.lead[i].id % 2 = parity /\ r.lead[i].id < new.id
        BY <3>1, <3>2 DEF Same
      <3> QED
        BY <1>3, <1>4, <2>0, <2>3, <3>3
    <2> QED
      BY <1>4, <2>1, <2>2, <2>3
  <1>17. ASSUME NEW i \in 1 .. n + 1, NEW j \in 1 .. n + 1, r.lead[i].id = r.lead[j].id
         PROVE  i = j
    <2> DEFINE was(x) == IF x < place THEN x ELSE x - 1
    <2>1. ASSUME NEW x \in 1 .. n + 1, x # place
          PROVE  was(x) \in 1 .. n /\ r.lead[x].id = q.lead[was(x)].id
      <3>1. CASE x < place
        BY <1>7, <3>1
      <3>2. CASE x > place
        <4>1. was(x) = x - 1
          BY <1>4, <3>2
        <4> QED
          BY <1>7, <3>2, <4>1 DEF Same
      <3> QED
        BY <1>4, <2>1, <3>1, <3>2
    <2>2. CASE i = place
      BY <1>16, <1>17, <2>2
    <2>3. CASE j = place
      BY <1>16, <1>17, <2>3
    <2>4. CASE i # place /\ j # place
      <3>1. was(i) \in 1 .. n /\ was(j) \in 1 .. n /\ q.lead[was(i)].id = q.lead[was(j)].id
        BY <1>17, <2>1, <2>4
      <3>2. was(i) = was(j)
        <4> HIDE DEF was
        <4> QED
          BY <1>1, <3>1 DEF GoodQueue
      <3> QED
        BY <1>1, <1>4, <2>4, <3>2
    <2> QED
      BY <2>2, <2>3, <2>4
  <1>18. GoodQueue(r, parity)
    <2>1. r.max % 2 = parity
      BY <1>6
    <2> QED
      BY <1>8, <1>11, <1>15, <1>16, <1>17, <2>1 DEF GoodQueue
  <1> QED
    BY <1>7, <1>8, <1>18 DEF r, n

-----------------------------------------------------------------------------
(* Removing requests. *)

(* The indices of the leads with an ID in I. *)
With(q, I) == {i \in DOMAIN q.lead : q.lead[i].id \in I}

LEMMA RemainsGood ==
  ASSUME NEW q, NEW parity, GoodQueue(q, parity), NEW r \in QueueSet, Fits(r),
         r.max = q.max, NEW gone, NEW m, Remains(q, r, gone, m)
  PROVE  GoodQueue(r, parity)
  <1>1. ASSUME NEW j \in DOMAIN r.lead
        PROVE  m[j] \in DOMAIN q.lead /\ Same(r.lead[j], q.lead[m[j]])
    BY <1>1 DEF Remains
  <1>2. \A i, j \in DOMAIN r.lead : m[i] = m[j] => i = j
    BY DEF Remains
  <1>3. ASSUME NEW j \in DOMAIN r.lead
        PROVE  ~r.lead[j].free /\ r.lead[j].id % 2 = parity /\ r.lead[j].id <= r.max
    <2>1. ~q.lead[m[j]].free /\ q.lead[m[j]].id % 2 = parity /\ q.lead[m[j]].id <= q.max
      BY <1>1 DEF GoodQueue
    <2> QED
      BY <1>1, <2>1 DEF Same
  <1>4. ASSUME NEW i \in DOMAIN r.lead, NEW j \in DOMAIN r.lead, r.lead[i].id = r.lead[j].id
        PROVE  i = j
    <2>1. q.lead[m[i]].id = q.lead[m[j]].id
      BY <1>1, <1>4 DEF Same
    <2>2. m[i] = m[j]
      BY <1>1, <2>1 DEF GoodQueue
    <2> QED
      BY <1>2, <2>2
  <1>5. r.lead = <<>> \/ r.max % 2 = parity
    <2>1. ASSUME q.lead = <<>> PROVE r.lead = <<>>
      <3>1. DOMAIN q.lead = {}
        BY <2>1
      <3>2. Len(r.lead) \in Nat /\ DOMAIN r.lead = 1 .. Len(r.lead) /\ r.lead \in Seq(Lead)
        BY QueueFields
      <3>3. DOMAIN r.lead = {}
        BY <1>1, <3>1
      <3>4. Len(r.lead) = 0
        <4> DEFINE k == Len(r.lead)
        <4>1. k \in Nat /\ 1 .. k = {}
          BY <3>2, <3>3
        <4> HIDE DEF k
        <4>2. k # 0 => 1 \in 1 .. k
          BY <4>1
        <4>3. k = 0
          BY <4>1, <4>2
        <4> QED
          BY <4>3 DEF k
      <3> QED
        BY <3>2, <3>4
    <2> QED
      BY <2>1 DEF GoodQueue
  <1> QED
    BY <1>3, <1>4, <1>5 DEF GoodQueue

LEMMA RemainsTwice ==
  ASSUME NEW q, NEW r, NEW s, NEW I, NEW J, NEW m, NEW k,
         Remains(q, r, With(q, I), m), Remains(r, s, With(r, J), k)
  PROVE  Remains(q, s, With(q, I \cup J), [j \in DOMAIN s.lead |-> m[k[j]]])
  <1> DEFINE l == [j \in DOMAIN s.lead |-> m[k[j]]]
  <1>1. /\ \A j \in DOMAIN r.lead : /\ m[j] \in DOMAIN q.lead /\ m[j] \notin With(q, I)
                                    /\ Same(r.lead[j], q.lead[m[j]])
        /\ \A i, j \in DOMAIN r.lead : m[i] = m[j] => i = j
        /\ \A i \in DOMAIN q.lead : i \in With(q, I) \/ \E j \in DOMAIN r.lead : m[j] = i
    BY DEF Remains
  <1>2. /\ \A j \in DOMAIN s.lead : /\ k[j] \in DOMAIN r.lead /\ k[j] \notin With(r, J)
                                    /\ Same(s.lead[j], r.lead[k[j]])
        /\ \A i, j \in DOMAIN s.lead : k[i] = k[j] => i = j
        /\ \A i \in DOMAIN r.lead : i \in With(r, J) \/ \E j \in DOMAIN s.lead : k[j] = i
    BY DEF Remains
  <1>3. l \in [DOMAIN s.lead -> DOMAIN q.lead]
    BY <1>1, <1>2
  <1>4. ASSUME NEW j \in DOMAIN s.lead
        PROVE  l[j] \notin With(q, I \cup J) /\ Same(s.lead[j], q.lead[l[j]])
    <2>1. /\ l[j] = m[k[j]] /\ k[j] \in DOMAIN r.lead /\ l[j] \in DOMAIN q.lead
          /\ Same(s.lead[j], r.lead[k[j]]) /\ Same(r.lead[k[j]], q.lead[l[j]])
          /\ k[j] \notin With(r, J) /\ l[j] \notin With(q, I)
      BY <1>1, <1>2
    <2>2. r.lead[k[j]].id = q.lead[l[j]].id
      BY <2>1 DEF Same
    <2>3. l[j] \notin With(q, I \cup J)
      BY <2>1, <2>2 DEF With
    <2> QED
      BY <2>1, <2>3, SameLeads
  <1>5. \A i, j \in DOMAIN s.lead : l[i] = l[j] => i = j
    BY <1>1, <1>2
  <1>6. ASSUME NEW i \in DOMAIN q.lead, i \notin With(q, I \cup J)
        PROVE  \E j \in DOMAIN s.lead : l[j] = i
    <2>1. i \notin With(q, I) /\ q.lead[i].id \notin J
      BY <1>6 DEF With
    <2>2. PICK a \in DOMAIN r.lead : m[a] = i
      BY <1>1, <2>1
    <2>3. r.lead[a].id = q.lead[i].id
      BY <1>1, <2>2 DEF Same
    <2>4. a \notin With(r, J)
      BY <2>1, <2>3 DEF With
    <2>5. PICK j \in DOMAIN s.lead : k[j] = a
      BY <1>2, <2>4
    <2> QED
      BY <2>2, <2>5
  <1> HIDE DEF l
  <1>7. Remains(q, s, With(q, I \cup J), l)
    BY <1>3, <1>4, <1>5, <1>6 DEF Remains
  <1> QED
    BY <1>7 DEF l

LEMMA RemainsSame ==
  ASSUME NEW q, NEW I, I \cap Ids(q) = {}
  PROVE  Remains(q, q, With(q, I), [j \in DOMAIN q.lead |-> j])
  <1>1. \A j \in DOMAIN q.lead : j \notin With(q, I)
    BY DEF With, Ids
  <1>2. \A j \in DOMAIN q.lead : Same(q.lead[j], q.lead[j])
    BY DEF Same
  <1> QED
    BY <1>1, <1>2 DEF Remains

LEMMA RemoveGood ==
  ASSUME NEW q, NEW parity, GoodQueue(q, parity), NEW id
  PROVE  /\ GoodQueue(Remove1(q, id), parity) /\ Remove1(q, id).max = q.max
         /\ \E m : Remains(q, Remove1(q, id), With(q, {id}), m)
  <1>0. CASE id \notin Ids(q)
    <2>1. Remove1(q, id) = q
      BY <1>0 DEF Remove1
    <2>2. {id} \cap Ids(q) = {}
      BY <1>0
    <2> QED
      BY <2>1, <2>2, RemainsSame
  <1>a. CASE id \in Ids(q)
   <2> DEFINE n == Len(q.lead)
              m == Len(q.list)
              place == CHOOSE i \in DOMAIN q.lead : q.lead[i].id = id
              c == q.lead[place].num
              off == End(q, place - 1)
              r == Remove1(q, id)
   <2>1. /\ q \in QueueSet /\ Fits(q)
         /\ n \in Nat /\ m \in Nat /\ DOMAIN q.lead = 1 .. n /\ DOMAIN q.list = 1 .. m
         /\ \A i \in 1 .. n : q.lead[i] \in Lead
         /\ \A k \in 1 .. m : q.list[k] \in Entry
     BY QueueFields DEF GoodQueue
   <2>2. /\ End(q, 0) = 0 /\ End(q, n) = m
         /\ \A i \in 0 .. n : End(q, i) \in Nat
         /\ \A i \in 1 .. n : /\ q.lead[i].off = End(q, i - 1)
                              /\ End(q, i) = End(q, i - 1) + q.lead[i].num
         /\ \A i, j \in 0 .. n : i <= j => End(q, i) <= End(q, j)
     BY <2>1, Chain
   <2>3. place \in DOMAIN q.lead /\ q.lead[place].id = id
     BY <1>a DEF Ids
   <2>4. q.lead[place].off = off
     BY <2>1, <2>2, <2>3
   <2> HIDE DEF place
   <2>5. /\ place \in 1 .. n /\ place \in Nat /\ place >= 1 /\ place <= n /\ place \in 0 .. n
         /\ place - 1 \in 0 .. n /\ n \in 0 .. n
         /\ c \in Nat /\ c > 0
     BY <2>1, <2>3, LeadFields
   <2>6. off \in Nat /\ End(q, place) = off + c /\ off + c <= m
     <3>1. off \in Nat /\ End(q, place) = off + c
       BY <2>2, <2>5
     <3>2. End(q, place) <= End(q, n)
       BY <2>2, <2>5
     <3> QED
       BY <2>2, <3>1, <3>2
   <2>7. /\ r.lead = [i \in 1 .. n - 1 |->
                      IF i < place THEN q.lead[i]
                      ELSE [q.lead[i + 1] EXCEPT !.off = @ - c]]
         /\ r.list = [k \in 1 .. m - c |->
                      IF k <= off THEN q.list[k]
                      ELSE [q.list[k + c] EXCEPT !.lead = @ - 1]]
         /\ r.max = q.max
         /\ r = [lead |-> r.lead, list |-> r.list, max |-> r.max]
     <3> DEFINE o == q.lead[place].off
                lead == [i \in 1 .. n - 1 |->
                          IF i < place THEN q.lead[i]
                          ELSE [q.lead[i + 1] EXCEPT !.off = @ - c]]
                list(x) == [k \in 1 .. m - c |->
                          IF k <= x THEN q.list[k]
                          ELSE [q.list[k + c] EXCEPT !.lead = @ - 1]]
     <3>1. r = [lead |-> lead, list |-> list(o), max |-> q.max]
       BY <1>a DEF Remove1, place
     <3>2. o = off
       BY <2>4
     <3> HIDE DEF r, o, off, lead, list
     <3>3. r = [lead |-> lead, list |-> list(off), max |-> q.max]
       BY <3>1, <3>2
     <3>4. r.lead = lead /\ r.list = list(off) /\ r.max = q.max /\ r = [lead |-> r.lead, list |-> r.list, max |-> r.max]
       BY <3>3
     <3> QED
       BY <3>4 DEF lead, list
   <2> HIDE DEF n, m, c, off, r
   <2>8. ASSUME NEW i \in 0 .. n, i + 1 >= place, i + 1 <= n
         PROVE  i + 1 \in 1 .. n /\ End(q, i + 1) >= off + c /\ End(q, i + 1) \in Nat
     <3> DEFINE j == i + 1
     <3>1. j \in 1 .. n /\ j \in 0 .. n /\ place <= j
       BY <2>1, <2>5, <2>8
     <3> HIDE DEF j
     <3>2. End(q, place) <= End(q, j) /\ End(q, j) \in Nat
       BY <2>2, <2>5, <3>1
     <3>3. End(q, j) >= off + c
       BY <2>5, <2>6, <3>2
     <3> QED
       BY <3>1, <3>2, <3>3 DEF j
   <2>9. ASSUME NEW i \in 1 .. n - 1
         PROVE  /\ r.lead[i] \in Lead
                /\ i < place => r.lead[i] = q.lead[i]
                /\ i >= place => /\ Same(r.lead[i], q.lead[i + 1])
                                 /\ r.lead[i].off = q.lead[i + 1].off - c
     <3>0. i \in Nat /\ i >= 1 /\ i <= n - 1 /\ i \in 1 .. n /\ i + 1 \in 1 .. n /\ i \in 0 .. n
           /\ i + 1 - 1 = i
       BY <2>1
     <3>1. CASE i < place
       <4>1. r.lead[i] = q.lead[i] /\ ~(i >= place)
         BY <2>5, <2>7, <3>0, <3>1
       <4> QED
         BY <2>1, <3>0, <3>1, <4>1
     <3>2. CASE i >= place
       <4> DEFINE l == q.lead[i + 1]
       <4>1. r.lead[i] = [l EXCEPT !.off = l.off - c]
         BY <2>5, <2>7, <3>0, <3>2
       <4>2. l \in Lead /\ l.off = End(q, i)
         <5>1. l.off = End(q, i + 1 - 1)
           BY <2>2, <3>0
         <5> QED
           BY <2>1, <3>0, <5>1
       <4>3. End(q, i) >= off + c /\ End(q, i) \in Nat
         <5>1. End(q, place) <= End(q, i) /\ End(q, i) \in Nat
           BY <2>2, <2>5, <3>0, <3>2
         <5> QED
           BY <2>5, <2>6, <5>1
       <4>4. l.off - c \in Nat
         BY <2>5, <2>6, <4>2, <4>3
       <4> HIDE DEF l
       <4>5. r.lead[i] \in Lead /\ r.lead[i].off = l.off - c /\ Same(r.lead[i], l)
         BY <4>1, <4>2, <4>4, LeadMoved
       <4> QED
         BY <2>5, <3>0, <3>2, <4>5 DEF l
     <3> QED
       BY <2>5, <3>0, <3>1, <3>2
   <2>10. n - 1 \in Nat /\ Len(r.lead) = n - 1 /\ r.lead \in Seq(Lead) /\ DOMAIN r.lead = 1 .. n - 1
     <3>1. n - 1 \in Nat
       BY <2>1, <2>5
     <3>2. DOMAIN r.lead = 1 .. n - 1 /\ r.lead = [i \in 1 .. n - 1 |-> r.lead[i]]
       BY <2>7
     <3> QED
       BY <2>9, <3>1, <3>2
   <2>11. ASSUME NEW k \in 1 .. m - c
          PROVE  /\ r.list[k] \in Entry
                 /\ k <= off => r.list[k] = q.list[k]
                 /\ k > off => /\ r.list[k].lead = q.list[k + c].lead - 1
                               /\ r.list[k].owner = q.list[k + c].owner
     <3>0. k \in Nat /\ k >= 1 /\ k <= m - c /\ k \in 1 .. m /\ k + c \in 1 .. m
       BY <2>1, <2>5
     <3>1. CASE k <= off
       <4>1. r.list[k] = q.list[k] /\ ~(k > off)
         BY <2>6, <2>7, <3>0, <3>1
       <4> QED
         BY <2>1, <3>0, <3>1, <4>1
     <3>2. CASE k > off
       <4> DEFINE e == q.list[k + c]
       <4>1. r.list[k] = [e EXCEPT !.lead = e.lead - 1] /\ ~(k <= off)
         BY <2>6, <2>7, <3>0, <3>2
       <4>2. e \in Entry /\ e.lead - 1 \in Nat
         <5>1. k + c \in 1 .. Len(q.list)
           BY <3>0 DEF m
         <5>2. \E i \in 1 .. Len(q.lead) : e.lead = i
           BY <2>1, <5>1, LeadOfEntry
         <5>3. e.lead \in 1 .. n
           BY <5>2 DEF n
         <5> QED
           BY <2>1, <3>0, <5>3
       <4> HIDE DEF e
       <4>3. r.list[k] \in Entry /\ r.list[k].lead = e.lead - 1 /\ r.list[k].owner = e.owner
         BY <4>1, <4>2, EntryMoved
       <4> QED
         BY <4>1, <4>3 DEF e
     <3> QED
       BY <2>6, <3>0, <3>1, <3>2
   <2>12. m - c \in Nat /\ Len(r.list) = m - c /\ r.list \in Seq(Entry) /\ DOMAIN r.list = 1 .. m - c
     <3>1. m - c \in Nat
       BY <2>1, <2>5, <2>6
     <3>2. DOMAIN r.list = 1 .. m - c /\ r.list = [k \in 1 .. m - c |-> r.list[k]]
       BY <2>7
     <3> QED
       BY <2>11, <3>1, <3>2
   <2>13. r \in QueueSet
     <3>1. q.max \in 0 .. MaxId
       BY <2>1, QueueFields
     <3> QED
       BY <2>7, <2>10, <2>12, <3>1 DEF QueueSet
   <2>14. ASSUME NEW i \in 0 .. n - 1
          PROVE  /\ i < place => End(r, i) = End(q, i)
                 /\ i >= place - 1 => End(r, i) = End(q, i + 1) - c
     <3>0. i \in Nat /\ i <= n - 1 /\ i \in 0 .. n
       BY <2>1, <2>5
     <3>1. CASE i < place
       <4>1. End(r, i) = End(q, i)
         <5>1. CASE i = 0
           BY <5>1 DEF End
         <5>2. CASE i # 0
           <6>1. i \in 1 .. n - 1
             BY <3>0, <5>2
           <6>2. r.lead[i] = q.lead[i]
             BY <2>9, <3>1, <6>1
           <6> QED
             BY <5>2, <6>2 DEF End
         <5> QED
           BY <5>1, <5>2
       <4>2. i >= place - 1 => End(q, i) = End(q, i + 1) - c
         <5>1. i >= place - 1 => i = place - 1 /\ i + 1 = place
           BY <2>5, <3>0, <3>1
         <5>2. End(q, place - 1) = End(q, place) - c
           BY <2>5, <2>6 DEF off
         <5> QED
           BY <5>1, <5>2
       <4> QED
         BY <4>1, <4>2
     <3>2. CASE i >= place
       <4>1. i \in 1 .. n - 1 /\ i + 1 \in 1 .. n /\ i # 0 /\ i + 1 # 0
         BY <2>5, <3>0, <3>2
       <4> DEFINE a == q.lead[i + 1].off
                  b == q.lead[i + 1].num
                  x == r.lead[i].off
                  y == r.lead[i].num
                  u == End(r, i)
                  v == End(q, i + 1)
       <4>2. a \in Nat /\ b \in Nat
         BY <2>1, <4>1, LeadFields
       <4>3. x = a - c /\ y = b
         BY <2>9, <3>2, <4>1 DEF Same
       <4>4. u = x + y
         BY <4>1 DEF End
       <4>5. v = a + b
         BY <4>1 DEF End
       <4> HIDE DEF a, b, x, y, u, v
       <4>6. u = v - c
         BY <2>5, <4>2, <4>3, <4>4, <4>5
       <4>7. ~(i < place)
         BY <2>5, <3>0, <3>2
       <4> QED
         BY <4>6, <4>7 DEF u, v
     <3> QED
       BY <2>5, <3>0, <3>1, <3>2
   <2>15. ASSUME NEW i \in 1 .. n - 1 PROVE r.lead[i].off = End(r, i - 1)
     <3>0. i \in Nat /\ i >= 1 /\ i - 1 \in 0 .. n - 1 /\ i \in 1 .. n /\ i + 1 \in 1 .. n
           /\ i + 1 - 1 = i /\ i - 1 + 1 = i
       BY <2>1
     <3>1. CASE i < place
       <4>1. r.lead[i] = q.lead[i] /\ i - 1 < place
         BY <2>5, <2>9, <3>0, <3>1
       <4> QED
         BY <2>2, <2>14, <3>0, <4>1
     <3>2. CASE i >= place
       <4>1. r.lead[i].off = q.lead[i + 1].off - c
         BY <2>9, <3>2
       <4>2. q.lead[i + 1].off = End(q, i + 1 - 1)
         BY <2>2, <3>0
       <4>3. End(r, i - 1) = End(q, i - 1 + 1) - c
         <5>1. i - 1 >= place - 1
           BY <2>5, <3>0, <3>2
         <5> QED
           BY <2>14, <3>0, <5>1
       <4> QED
         BY <3>0, <4>1, <4>2, <4>3
     <3> QED
       BY <2>5, <3>0, <3>1, <3>2
   <2>16. ASSUME NEW i \in 1 .. n - 1, NEW k \in r.lead[i].off + 1 .. End(r, i)
          PROVE  /\ k \in 1 .. m - c
                 /\ r.list[k].lead = i
                 /\ r.list[k].owner = r.lead[i].id
     <3>0. /\ i \in Nat /\ i >= 1 /\ i <= n - 1 /\ i \in 1 .. n /\ i \in 0 .. n /\ i \in 0 .. n - 1
           /\ i + 1 \in 1 .. n /\ i + 1 \in 0 .. n /\ i + 1 - 1 = i
       BY <2>1
     <3>a. r.lead[i].off \in Nat
       BY <2>9, LeadFields
     <3>1. CASE i < place
       <4>1. r.lead[i] = q.lead[i] /\ End(r, i) = End(q, i) /\ i <= place - 1
         BY <2>5, <2>9, <2>14, <3>0, <3>1
       <4>2. End(q, i) <= off /\ End(q, i) \in Nat
         BY <2>2, <2>5, <3>0, <4>1 DEF off
       <4>3. k \in Nat /\ k >= 1 /\ k <= off /\ k \in q.lead[i].off + 1 .. End(q, i)
         BY <2>6, <3>a, <4>1, <4>2
       <4>4. k \in 1 .. m - c
         BY <2>1, <2>5, <2>6, <4>3
       <4>5. q.list[k].lead = i /\ q.list[k].owner = q.lead[i].id
         BY <2>1, <3>0, <4>3 DEF Fits
       <4> QED
         BY <2>11, <4>1, <4>3, <4>4, <4>5
     <3>2. CASE i >= place
       <4> DEFINE o == q.lead[i + 1].off
                  e == End(q, i + 1)
       <4>1. /\ Same(r.lead[i], q.lead[i + 1])
             /\ r.lead[i].off = o - c /\ End(r, i) = e - c
         <5>1. i >= place - 1
           BY <2>5, <3>0, <3>2
         <5> QED
           BY <2>9, <2>14, <3>0, <3>2, <5>1
       <4>2. o \in Nat /\ e \in Nat /\ o >= off + c /\ e <= m
         <5>1. o = End(q, i + 1 - 1)
           BY <2>2, <3>0
         <5>2. o = End(q, i)
           BY <3>0, <5>1
         <5>3. End(q, place) <= End(q, i) /\ End(q, i) \in Nat
           BY <2>2, <2>5, <3>0, <3>2
         <5>4. e \in Nat /\ e <= m
           <6>1. i + 1 <= n
             BY <2>1, <3>0
           <6> QED
             BY <2>2, <2>5, <3>0, <6>1
         <5> QED
           BY <2>5, <2>6, <5>2, <5>3, <5>4
       <4>3. k \in o - c + 1 .. e - c
         BY <4>1
       <4> HIDE DEF o, e
       <4>4. k + c \in o + 1 .. e /\ k \in 1 .. m - c /\ k > off
         BY <2>1, <2>5, <2>6, <4>2, <4>3
       <4>5. q.list[k + c].lead = i + 1 /\ q.list[k + c].owner = q.lead[i + 1].id
         BY <2>1, <3>0, <4>4 DEF Fits, o, e
       <4>6. r.list[k].lead = q.list[k + c].lead - 1 /\ r.list[k].owner = q.list[k + c].owner
         BY <2>11, <4>4
       <4>7. r.list[k].lead = i
         BY <3>0, <4>5, <4>6
       <4> QED
         BY <4>1, <4>4, <4>5, <4>6, <4>7 DEF Same
     <3> QED
       BY <2>5, <3>0, <3>1, <3>2
   <2>17. Fits(r)
     <3>1. End(r, n - 1) = m - c
       <4> DEFINE e == n - 1
       <4>1. e \in 0 .. n - 1 /\ e >= place - 1 /\ e + 1 = n
         BY <2>1, <2>5
       <4> HIDE DEF e
       <4>2. End(r, e) = End(q, e + 1) - c
         BY <2>14, <4>1
       <4> QED
         BY <2>2, <4>1, <4>2 DEF e
     <3> QED
       BY <2>10, <2>12, <2>15, <2>16, <3>1 DEF Fits
   <2> DEFINE k == [j \in 1 .. n - 1 |-> IF j < place THEN j ELSE j + 1]
   <2>18. Remains(q, r, With(q, {id}), k)
     <3>1. \A j \in 1 .. n - 1 : k[j] \in 1 .. n /\ k[j] # place
       BY <2>1, <2>5
     <3>2. ASSUME NEW j \in 1 .. n - 1 PROVE k[j] \notin With(q, {id}) /\ Same(r.lead[j], q.lead[k[j]])
       <4>1. q.lead[k[j]].id # id
         BY <2>1, <2>3, <2>5, <3>1 DEF GoodQueue
       <4>2. Same(r.lead[j], q.lead[k[j]])
         <5>1. CASE j < place
           BY <2>9, <5>1 DEF Same
         <5>2. CASE ~(j < place)
           <6>1. j >= place /\ k[j] = j + 1
             BY <2>5, <5>2
           <6> QED
             BY <2>9, <6>1
         <5> QED
           BY <5>1, <5>2
       <4> QED
         BY <4>1, <4>2 DEF With
     <3>3. \A i, j \in 1 .. n - 1 : k[i] = k[j] => i = j
       BY <2>1, <2>5
     <3>4. ASSUME NEW i \in 1 .. n, i \notin With(q, {id}) PROVE \E j \in 1 .. n - 1 : k[j] = i
       <4>1. i # place
         BY <2>1, <2>3, <3>4 DEF With
       <4>2. CASE i < place
         <5>1. i \in 1 .. n - 1 /\ k[i] = i
           BY <2>1, <2>5, <4>2
         <5> QED
           BY <5>1
       <4>3. CASE i > place
         <5>1. i - 1 \in 1 .. n - 1 /\ ~(i - 1 < place) /\ i - 1 + 1 = i
           BY <2>1, <2>5, <4>3
         <5>2. k[i - 1] = i
           BY <5>1
         <5> QED
           BY <5>1, <5>2
       <4> QED
         BY <2>1, <2>5, <4>1, <4>2, <4>3
     <3>5. k \in [1 .. n - 1 -> 1 .. n]
       BY <3>1
     <3> HIDE DEF k
     <3> QED
       BY <2>1, <2>10, <3>2, <3>3, <3>4, <3>5 DEF Remains
   <2> HIDE DEF k
   <2>19. GoodQueue(r, parity) /\ r.max = q.max
     BY <2>7, <2>13, <2>17, <2>18, RemainsGood
   <2> QED
     BY <2>18, <2>19 DEF r
  <1> QED
    BY <1>0, <1>a

LEMMA RemoveEachGood ==
  ASSUME NEW q, NEW parity, GoodQueue(q, parity), NEW ids, Len(ids) \in Nat
  PROVE  /\ GoodQueue(RemoveEach(q, ids), parity) /\ RemoveEach(q, ids).max = q.max
         /\ \E m : Remains(q, RemoveEach(q, ids),
                           With(q, {ids[j] : j \in 1 .. Len(ids)}), m)
  <1> DEFINE n == Len(ids)
             S == {s \in QueueSet : GoodQueue(s, parity)}
             G == [i \in 1 .. n |-> [s \in S |-> Remove1(s, ids[i])]]
             Loop(t) == [i \in 0 .. n |-> IF i = 0 THEN q ELSE Remove1(t[i - 1], ids[i])]
             T == CHOOSE t : t = Loop(t)
             Ends(i) == {ids[j] : j \in 1 .. i}
  <1>1. q \in S /\ n \in Nat
    BY DEF GoodQueue
  <1>2. RemoveEach(q, ids) = T[n]
    BY DEF RemoveEach
  <1>3. ASSUME NEW s \in S, NEW id
        PROVE  /\ Remove1(s, id) \in S /\ Remove1(s, id).max = s.max
               /\ \E m : Remains(s, Remove1(s, id), With(s, {id}), m)
    <2>1. GoodQueue(s, parity)
      OBVIOUS
    <2>2. GoodQueue(Remove1(s, id), parity) /\ Remove1(s, id).max = s.max
          /\ \E m : Remains(s, Remove1(s, id), With(s, {id}), m)
      BY <2>1, RemoveGood
    <2>3. Remove1(s, id) \in QueueSet
      BY <2>2 DEF GoodQueue
    <2> QED
      BY <2>2, <2>3
  <1> HIDE DEF n, S
  <1>4. G \in [1 .. n -> [S -> S]]
    BY <1>3
  <1>5. \E t \in [0 .. n -> S] : t = Loop(t)
    <2> HIDE DEF G
    <2>1. PICK t \in [0 .. n -> S] : /\ t[0] = q
                                     /\ \A i \in 1 .. n : t[i] = G[i][t[i - 1]]
      <3> HIDE DEF Loop, T
      <3> QED
        BY <1>1, <1>4, Iterate
    <2>2. ASSUME NEW i \in 0 .. n, i # 0
          PROVE  G[i][t[i - 1]] = Remove1(t[i - 1], ids[i])
      <3>1. i \in 1 .. n /\ t[i - 1] \in S
        BY <1>1, <2>2
      <3> QED
        BY <3>1 DEF G
    <2>3. \A i \in 0 .. n : t[i] = IF i = 0 THEN q ELSE Remove1(t[i - 1], ids[i])
      <3>1. \A i \in 0 .. n : i = 0 \/ i \in 1 .. n
        BY <1>1
      <3> QED
        BY <2>1, <2>2, <3>1
    <2>4. t = Loop(t)
      BY <2>3
    <2> QED
      BY <2>4
  <1>6. T = Loop(T)
    <2> HIDE DEF Loop
    <2> QED
      BY <1>5, Zenon
  <1>7. T[0] = q /\ \A i \in 1 .. n : T[i] = Remove1(T[i - 1], ids[i])
    <2> HIDE DEF T
    <2>1. \A i \in 0 .. n : T[i] = IF i = 0 THEN q ELSE Remove1(T[i - 1], ids[i])
      BY <1>6, Zenon
    <2>2. 0 \in 0 .. n /\ \A i \in 1 .. n : i \in 0 .. n /\ i # 0
      BY <1>1
    <2> QED
      BY <2>1, <2>2
  <1> HIDE DEF T, G, Ends
  <1> DEFINE Good(i) == /\ T[i] \in S /\ T[i].max = q.max
                        /\ \E m : Remains(q, T[i], With(q, Ends(i)), m)
             P == {i \in 0 .. n : Good(i)}
  <1>8. 0 \in P
    <2>1. 0 \in 0 .. n
      BY <1>1
    <2>2. Ends(0) = {}
      BY DEF Ends
    <2>3. Remains(q, T[0], With(q, Ends(0)), [j \in DOMAIN q.lead |-> j])
      BY <1>7, <2>2, RemainsSame
    <2>4. Good(0)
      BY <1>1, <1>7, <2>3
    <2> QED
      BY <2>1, <2>4
  <1>9. ASSUME NEW i \in 1 .. n, i - 1 \in P PROVE i \in P
    <2>1. i \in 0 .. n
      BY <1>1
    <2>2. Good(i - 1)
      BY <1>9
    <2> DEFINE s == T[i - 1]
    <2>3. s \in S /\ s.max = q.max /\ T[i] = Remove1(s, ids[i])
      BY <1>7, <2>2
    <2>4. PICK m : Remains(q, s, With(q, Ends(i - 1)), m)
      BY <2>2
    <2> HIDE DEF s
    <2>5. /\ T[i] \in S /\ T[i].max = q.max
      BY <1>3, <2>3
    <2>6. PICK k : Remains(s, T[i], With(s, {ids[i]}), k)
      BY <1>3, <2>3
    <2>7. Ends(i - 1) \cup {ids[i]} = Ends(i)
      <3>1. \A j \in 1 .. i : j = i \/ j \in 1 .. i - 1
        BY <1>1
      <3>2. \A j \in 1 .. i - 1 : j \in 1 .. i
        BY <1>1
      <3>3. i \in 1 .. i
        BY <1>1
      <3> QED
        BY <3>1, <3>2, <3>3 DEF Ends
    <2>8. Remains(q, T[i], With(q, Ends(i - 1) \cup {ids[i]}), [j \in DOMAIN T[i].lead |-> m[k[j]]])
      <3> DEFINE r == T[i]
                 I == Ends(i - 1)
                 J == {ids[i]}
      <3>1. Remains(q, s, With(q, I), m) /\ Remains(s, r, With(s, J), k)
        BY <2>4, <2>6
      <3> HIDE DEF r, I, J
      <3>2. Remains(q, r, With(q, I \cup J), [j \in DOMAIN r.lead |-> m[k[j]]])
        BY <3>1, RemainsTwice
      <3> QED
        BY <3>2 DEF r, I, J
    <2>9. Good(i)
      BY <2>5, <2>7, <2>8
    <2> QED
      BY <2>1, <2>9
  <1>10. \A i \in 0 .. n : i \in P
    <2> HIDE DEF P
    <2> QED
      BY <1>1, <1>8, <1>9, LoopInduction
  <1>11. Good(n)
    <2>1. n \in 0 .. n
      BY <1>1
    <2> QED
      BY <1>10, <2>1
  <1> QED
    BY <1>2, <1>11 DEF n, S, Ends

-----------------------------------------------------------------------------
(* Taking the marked requests out of a queue. *)

(* The place of the number k in a sequence of numbers laid end to end. *)
LEMMA SumsSpan ==
  ASSUME NEW f \in Seq(Nat), NEW k \in 1 .. Sums(f)[Len(f)]
  PROVE  \E x \in 1 .. Len(f) :
           /\ Sums(f)[x - 1] < k /\ k <= Sums(f)[x]
           /\ \A y \in 1 .. Len(f) : Sums(f)[y - 1] < k /\ k <= Sums(f)[y] => y = x
  <1> DEFINE n == Len(f)
             S == Sums(f)
             P == {i \in 0 .. n : k <= S[i]}
  <1>1. /\ n \in Nat /\ S \in [0 .. n -> Nat] /\ S[0] = 0
        /\ \A i, j \in 0 .. n : i <= j => S[i] <= S[j]
    BY SumsLoop, SumsGrow
  <1>2. k \in 1 .. S[n]
    OBVIOUS
  <1> HIDE DEF n, S
  <1>3. k \in Nat /\ k > 0 /\ n \in 0 .. n /\ k <= S[n]
    BY <1>1, <1>2
  <1>4. PICK x \in P : \A j \in P : x <= j
    <2>1. n \in P
      BY <1>3
    <2>2. P \subseteq Nat
      OBVIOUS
    <2> HIDE DEF P
    <2> QED
      BY <2>1, <2>2, LeastNat
  <1>5. x # 0
    BY <1>1, <1>3
  <1>6. x \in 1 .. n /\ x - 1 \in 0 .. n /\ ~(x <= x - 1)
    BY <1>1, <1>5
  <1>7. x - 1 \notin P
    <2> HIDE DEF P
    <2> QED
      BY <1>4, <1>6
  <1>8. S[x - 1] < k /\ k <= S[x]
    <2>1. S[x - 1] \in Nat
      BY <1>1, <1>6
    <2> QED
      BY <1>3, <1>6, <1>7, <2>1
  <1>9. ASSUME NEW y \in 1 .. n, S[y - 1] < k, k <= S[y] PROVE y = x
    <2>1. y \in 0 .. n /\ y - 1 \in 0 .. n /\ y \in Nat /\ x \in Nat /\ x \in 0 .. n
      BY <1>1, <1>6
    <2>2. ~(x <= y - 1)
      <3>1. SUFFICES ASSUME x <= y - 1 PROVE FALSE
        OBVIOUS
      <3>2. S[x] <= S[y - 1] /\ S[x] \in Nat /\ S[y - 1] \in Nat
        BY <1>1, <2>1, <3>1
      <3> QED
        BY <1>3, <1>8, <1>9, <3>2
    <2>3. ~(y <= x - 1)
      <3>1. SUFFICES ASSUME y <= x - 1 PROVE FALSE
        OBVIOUS
      <3>2. S[y] <= S[x - 1] /\ S[y] \in Nat /\ S[x - 1] \in Nat
        BY <1>1, <1>6, <2>1, <3>1
      <3> QED
        BY <1>3, <1>8, <1>9, <3>2
    <2> QED
      BY <2>1, <2>2, <2>3
  <1> QED
    BY <1>6, <1>8, <1>9 DEF n, S

(***************************************************************************)
(* p is the queue q with the leads at the indices in N marked.             *)
(***************************************************************************)
Marked(q, p, N) ==
    /\ p.list = q.list /\ p.max = q.max
    /\ DOMAIN p.lead = DOMAIN q.lead /\ Len(p.lead) = Len(q.lead)
    /\ p = [lead |-> p.lead, list |-> p.list, max |-> p.max]
    /\ \A i \in DOMAIN q.lead :
         /\ p.lead[i] \in Lead
         /\ i \notin N => p.lead[i] = q.lead[i]
         /\ i \in N => /\ p.lead[i].free
                       /\ p.lead[i].id = q.lead[i].id
                       /\ p.lead[i].num = q.lead[i].num
                       /\ p.lead[i].off = q.lead[i].off
                       /\ p.lead[i].max = q.lead[i].max
                       /\ p.lead[i].buf = q.lead[i].buf

(* How the leads that stay are counted, and where their entries go. *)
LEMMA RankAndPlace ==
  ASSUME NEW q, NEW parity, GoodQueue(q, parity), NEW p, NEW N, Marked(q, p, N)
  PROVE  /\ Rank(p) \in [0 .. Len(q.lead) -> Nat] /\ Rank(p)[0] = 0
         /\ Place(p) \in [0 .. Len(q.lead) -> Nat] /\ Place(p)[0] = 0
         /\ \A i \in 1 .. Len(q.lead) :
              /\ Rank(p)[i] = Rank(p)[i - 1] + IF i \in N THEN 0 ELSE 1
              /\ Place(p)[i] = Place(p)[i - 1] + IF i \in N THEN 0 ELSE q.lead[i].num
         /\ \A a, b \in 0 .. Len(q.lead) :
              a <= b => /\ Rank(p)[a] <= Rank(p)[b]
                        /\ Place(p)[a] <= Place(p)[b]
                        /\ Rank(p)[a] = Rank(p)[b] => Place(p)[a] = Place(p)[b]
         /\ \A j \in 1 .. Rank(p)[Len(q.lead)] :
              \E x \in 1 .. Len(q.lead) :
                /\ x \notin N /\ Rank(p)[x] = j /\ Rank(p)[x - 1] = j - 1
                /\ \A y \in 1 .. Len(q.lead) : y \notin N /\ Rank(p)[y] = j => y = x
         /\ \A k \in 1 .. Place(p)[Len(q.lead)] :
              \E x \in 1 .. Len(q.lead) :
                /\ x \notin N /\ Place(p)[x - 1] < k /\ k <= Place(p)[x]
                /\ \A y \in 1 .. Len(q.lead) :
                     Place(p)[y - 1] < k /\ k <= Place(p)[y] => y = x
  <1> DEFINE n == Len(q.lead)
             f == [i \in DOMAIN p.lead |-> IF p.lead[i].free THEN 0 ELSE 1]
             g == [i \in DOMAIN p.lead |-> IF p.lead[i].free THEN 0 ELSE p.lead[i].num]
             R == Rank(p)
             S == Place(p)
  <1>1. /\ n \in Nat /\ DOMAIN q.lead = 1 .. n /\ DOMAIN p.lead = 1 .. n
        /\ \A i \in 1 .. n : /\ q.lead[i] \in Lead /\ p.lead[i] \in Lead
                             /\ ~q.lead[i].free
                             /\ i \notin N => p.lead[i] = q.lead[i]
                             /\ i \in N => p.lead[i].free
    BY QueueFields DEF GoodQueue, Marked
  <1>2. \A i \in 1 .. n : /\ f[i] = IF i \in N THEN 0 ELSE 1
                          /\ g[i] = IF i \in N THEN 0 ELSE q.lead[i].num
                          /\ q.lead[i].num \in Nat /\ q.lead[i].num > 0
                          /\ f[i] \in Nat /\ g[i] \in Nat
    BY <1>1, LeadFields
  <1>3. f \in Seq(Nat) /\ Len(f) = n /\ g \in Seq(Nat) /\ Len(g) = n
    <2>1. f = [i \in 1 .. n |-> f[i]] /\ g = [i \in 1 .. n |-> g[i]]
      BY <1>1
    <2>2. n \in Nat /\ \A i \in 1 .. n : f[i] \in Nat /\ g[i] \in Nat
      BY <1>1, <1>2
    <2> HIDE DEF f, g, n
    <2>3. f \in Seq(Nat) /\ Len(f) = n
      BY <2>1, <2>2
    <2>4. g \in Seq(Nat) /\ Len(g) = n
      BY <2>1, <2>2
    <2> QED
      BY <2>3, <2>4
  <1>4. R = Sums(f) /\ S = Sums(g)
    BY DEF Rank, Place
  <1> HIDE DEF n, f, g, R, S
  <1>5. /\ R \in [0 .. n -> Nat] /\ R[0] = 0
        /\ \A i \in 1 .. n : R[i] = R[i - 1] + f[i]
        /\ \A a, b \in 0 .. n : a <= b => R[a] <= R[b]
    BY <1>3, <1>4, SumsLoop, SumsGrow
  <1>6. /\ S \in [0 .. n -> Nat] /\ S[0] = 0
        /\ \A i \in 1 .. n : S[i] = S[i - 1] + g[i]
        /\ \A a, b \in 0 .. n : a <= b => S[a] <= S[b]
    BY <1>3, <1>4, SumsLoop, SumsGrow
  <1>7. ASSUME NEW a \in 0 .. n, NEW b \in 0 .. n, a <= b, R[a] = R[b] PROVE S[a] = S[b]
    <2>1. \A i \in 1 .. Len(f) : f[i] = 0 => g[i] = 0
      BY <1>2, <1>3
    <2>2. \A c \in 0 .. Len(f) : c >= a /\ Sums(f)[c] = Sums(f)[a] => Sums(g)[c] = Sums(g)[a]
      BY <1>3, <2>1, SumsStill
    <2> QED
      BY <1>3, <1>4, <1>7, <2>2
  <1>8. ASSUME NEW j \in 1 .. R[n]
        PROVE  \E x \in 1 .. n : /\ x \notin N /\ R[x] = j /\ R[x - 1] = j - 1
                                 /\ \A y \in 1 .. n : y \notin N /\ R[y] = j => y = x
    <2>1. PICK x \in 1 .. n : /\ R[x - 1] < j /\ j <= R[x]
                              /\ \A y \in 1 .. n : R[y - 1] < j /\ j <= R[y] => y = x
      <3>1. j \in 1 .. Sums(f)[Len(f)]
        BY <1>3, <1>4
      <3> QED
        BY <1>3, <1>4, <3>1, SumsSpan
    <2>2. /\ j \in Nat
          /\ \A y \in 1 .. n : y - 1 \in 0 .. n /\ R[y] \in Nat /\ R[y - 1] \in Nat
                               /\ R[y] = R[y - 1] + f[y]
      <3>1. \A y \in 1 .. n : y - 1 \in 0 .. n /\ y \in 0 .. n
        BY <1>1
      <3> QED
        BY <1>5, <3>1
    <2>3. x \notin N /\ R[x] = j /\ R[x - 1] = j - 1
      <3> DEFINE a == R[x]
                 b == R[x - 1]
                 c == f[x]
      <3>1. a \in Nat /\ b \in Nat /\ a = b + c /\ b < j /\ j <= a
        BY <2>1, <2>2
      <3>2. c = IF x \in N THEN 0 ELSE 1
        BY <1>2
      <3> HIDE DEF a, b, c
      <3>3. x \notin N /\ a = j /\ b = j - 1
        BY <2>2, <3>1, <3>2
      <3> QED
        BY <3>3 DEF a, b
    <2>4. ASSUME NEW y \in 1 .. n, y \notin N, R[y] = j PROVE y = x
      <3>1. f[y] = 1
        BY <1>2, <2>4
      <3>2. R[y - 1] < j /\ j <= R[y]
        BY <2>2, <2>4, <3>1
      <3> QED
        BY <2>1, <3>2
    <2> QED
      BY <2>3, <2>4
  <1>9. ASSUME NEW k \in 1 .. S[n]
        PROVE  \E x \in 1 .. n : /\ x \notin N /\ S[x - 1] < k /\ k <= S[x]
                                 /\ \A y \in 1 .. n : S[y - 1] < k /\ k <= S[y] => y = x
    <2>1. PICK x \in 1 .. n : /\ S[x - 1] < k /\ k <= S[x]
                              /\ \A y \in 1 .. n : S[y - 1] < k /\ k <= S[y] => y = x
      <3>1. k \in 1 .. Sums(g)[Len(g)]
        BY <1>3, <1>4
      <3> QED
        BY <1>3, <1>4, <3>1, SumsSpan
    <2>2. x \notin N
      <3>1. SUFFICES ASSUME x \in N PROVE FALSE
        OBVIOUS
      <3>2. g[x] = 0
        BY <1>2, <3>1
      <3>3. x \in 0 .. n /\ x - 1 \in 0 .. n
        BY <1>1
      <3>4. S[x] = S[x - 1] + 0 /\ S[x] \in Nat /\ S[x - 1] \in Nat
        BY <1>6, <3>2, <3>3
      <3>5. k \in Nat
        OBVIOUS
      <3> QED
        BY <2>1, <3>4, <3>5
    <2> QED
      BY <2>1, <2>2
  <1>10. \A i \in 1 .. n :
              /\ R[i] = R[i - 1] + IF i \in N THEN 0 ELSE 1
              /\ S[i] = S[i - 1] + IF i \in N THEN 0 ELSE q.lead[i].num
    BY <1>2, <1>5, <1>6
  <1> QED
    BY <1>5, <1>6, <1>7, <1>8, <1>9, <1>10 DEF n, R, S

(* After the transfer of the marked leads' entries the others are a queue. *)
LEMMA ReleaseGood ==
  ASSUME NEW q, NEW parity, GoodQueue(q, parity), NEW p, NEW N, Marked(q, p, N),
         NEW num \in Nat, num > 0, num + Place(p)[Len(q.lead)] = Len(q.list)
  PROVE  /\ GoodQueue(Release(TakeOut(p, num)), parity)
         /\ Release(TakeOut(p, num)).max = q.max
         /\ \E m : Remains(q, Release(TakeOut(p, num)), N, m)
         /\ Freed(TakeOut(p, num)) = {p.lead[i] : i \in DOMAIN q.lead \cap N}
         /\ DOMAIN TakeOut(p, num).lead = DOMAIN q.lead
         /\ \A i \in DOMAIN q.lead : Same(TakeOut(p, num).lead[i], p.lead[i])
  <1> DEFINE n == Len(q.lead)
             l == Len(q.list)
             R == Rank(p)
             S == Place(p)
             t == TakeOut(p, num)
             r == Release(t)
             from(k) == {i \in DOMAIN p.lead : S[i - 1] < k /\ k <= S[i]}
             entry(k, i) == p.list[p.lead[i].off + (k - S[i - 1])]
  <1>1. /\ q \in QueueSet /\ Fits(q)
        /\ n \in Nat /\ l \in Nat /\ DOMAIN q.lead = 1 .. n /\ DOMAIN q.list = 1 .. l
        /\ \A k \in 1 .. l : q.list[k] \in Entry
        /\ q.max \in 0 .. MaxId
    BY QueueFields DEF GoodQueue
  <1>2. /\ DOMAIN p.lead = 1 .. n /\ Len(p.lead) = n /\ p.list = q.list /\ p.max = q.max
        /\ p = [lead |-> p.lead, list |-> p.list, max |-> p.max]
        /\ \A i \in 1 .. n : /\ q.lead[i] \in Lead /\ p.lead[i] \in Lead
                             /\ ~q.lead[i].free
                             /\ i \notin N => p.lead[i] = q.lead[i]
                             /\ i \in N => p.lead[i].free
    BY <1>1, QueueFields DEF GoodQueue, Marked
  <1>3. /\ R \in [0 .. n -> Nat] /\ R[0] = 0
        /\ S \in [0 .. n -> Nat] /\ S[0] = 0
        /\ \A i \in 1 .. n :
              /\ R[i] = R[i - 1] + IF i \in N THEN 0 ELSE 1
              /\ S[i] = S[i - 1] + IF i \in N THEN 0 ELSE q.lead[i].num
        /\ \A a, b \in 0 .. n : a <= b => /\ R[a] <= R[b]
                                          /\ S[a] <= S[b]
                                          /\ R[a] = R[b] => S[a] = S[b]
        /\ \A j \in 1 .. R[n] :
              \E x \in 1 .. n :
                /\ x \notin N /\ R[x] = j /\ R[x - 1] = j - 1
                /\ \A y \in 1 .. n : y \notin N /\ R[y] = j => y = x
        /\ \A k \in 1 .. S[n] :
              \E x \in 1 .. n :
                /\ x \notin N /\ S[x - 1] < k /\ k <= S[x]
                /\ \A y \in 1 .. n : S[y - 1] < k /\ k <= S[y] => y = x
    BY RankAndPlace
  <1>4. l - num = S[n] /\ S[n] \in Nat /\ R[n] \in Nat
    <2>1. n \in 0 .. n /\ num + S[n] = l
      BY <1>1
    <2>2. S[n] \in Nat /\ R[n] \in Nat
      BY <1>3, <2>1
    <2> HIDE DEF l, n, R, S
    <2> QED
      BY <1>1, <2>1, <2>2
  <1>5. /\ t.lead = [i \in 1 .. n |-> IF p.lead[i].free THEN p.lead[i]
                                      ELSE [p.lead[i] EXCEPT !.off = S[i - 1]]]
        /\ t.list = [k \in 1 .. l - num |->
                       IF from(k) = {} THEN p.list[k]
                       ELSE entry(k, CHOOSE i \in from(k) : TRUE)]
        /\ t.max = q.max
        /\ t = [lead |-> t.lead, list |-> t.list, max |-> t.max]
    <2> DEFINE A == [i \in DOMAIN p.lead |-> IF p.lead[i].free THEN p.lead[i]
                                      ELSE [p.lead[i] EXCEPT !.off = S[i - 1]]]
               B == [k \in 1 .. Len(p.list) - num |->
                       IF from(k) = {} THEN p.list[k]
                       ELSE entry(k, CHOOSE i \in from(k) : TRUE)]
    <2>0. num # 0
      OBVIOUS
    <2>1. t = [p EXCEPT !.lead = A, !.list = B]
      BY <2>0, Zenon DEF TakeOut
    <2> HIDE DEF A, B
    <2>2. t.lead = A /\ t.list = B /\ t.max = p.max /\ t = [lead |-> t.lead, list |-> t.list, max |-> t.max]
      <3> HIDE DEF t
      <3> QED
        BY <1>2, <2>1
    <2>3. A = [i \in 1 .. n |-> IF p.lead[i].free THEN p.lead[i]
                                      ELSE [p.lead[i] EXCEPT !.off = S[i - 1]]]
      BY <1>2 DEF A
    <2>4. B = [k \in 1 .. l - num |->
                       IF from(k) = {} THEN p.list[k]
                       ELSE entry(k, CHOOSE i \in from(k) : TRUE)]
      BY <1>2 DEF B
    <2> HIDE DEF t, from, entry, n, l
    <2> QED
      BY <1>2, <2>2, <2>3, <2>4
  <1>6. ASSUME NEW i \in 1 .. n
        PROVE  /\ t.lead[i] \in Lead /\ t.lead[i].free = p.lead[i].free
               /\ t.lead[i].free <=> i \in N
               /\ Same(t.lead[i], p.lead[i])
               /\ i \in N => t.lead[i] = p.lead[i]
               /\ i \notin N => /\ t.lead[i].off = S[i - 1]
                                /\ Same(t.lead[i], q.lead[i])
                                /\ t.lead[i].num = q.lead[i].num
    <2>1. i - 1 \in 0 .. n /\ S[i - 1] \in Nat
      <3>1. i - 1 \in 0 .. n
        BY <1>1
      <3> QED
        BY <1>3, <3>1
    <2>2. CASE i \in N
      <3>1. p.lead[i].free /\ t.lead[i] = p.lead[i]
        BY <1>2, <1>5, <2>2
      <3> QED
        BY <1>2, <2>2, <3>1 DEF Same
    <2>3. CASE i \notin N
      <3>1. p.lead[i] = q.lead[i] /\ ~p.lead[i].free /\ p.lead[i] \in Lead
        BY <1>2, <2>3
      <3>2. t.lead[i] = [p.lead[i] EXCEPT !.off = S[i - 1]]
        BY <1>5, <3>1
      <3> DEFINE x == p.lead[i]
                 y == t.lead[i]
      <3>3. x \in Lead /\ y = [x EXCEPT !.off = S[i - 1]]
        BY <3>1, <3>2
      <3> HIDE DEF x, y
      <3>4. y \in Lead /\ y.off = S[i - 1] /\ y.num = x.num /\ y.free = x.free /\ Same(y, x)
        BY <2>1, <3>3, LeadMoved
      <3> QED
        BY <2>3, <3>1, <3>4 DEF x, y
    <2> QED
      BY <2>2, <2>3
  <1>7. Len(t.lead) = n /\ DOMAIN t.lead = 1 .. n
    <2>1. DOMAIN t.lead = 1 .. n /\ t.lead = [i \in 1 .. n |-> t.lead[i]]
      BY <1>5
    <2> HIDE DEF t, n
    <2>2. t.lead \in Seq(Lead)
      BY <1>1, <1>6, <2>1
    <2> QED
      BY <1>1, <2>1, <2>2
  <1>8. Rank(t) = R
    <2> DEFINE f == [i \in DOMAIN t.lead |-> IF t.lead[i].free THEN 0 ELSE 1]
               g == [i \in DOMAIN p.lead |-> IF p.lead[i].free THEN 0 ELSE 1]
    <2>1. f = g
      <3> HIDE DEF t
      <3> QED
        BY <1>2, <1>6, <1>7
    <2>2. Rank(t) = Sums(f) /\ R = Sums(g)
      BY DEF Rank
    <2> QED
      BY <2>1, <2>2
  <1> DEFINE nth(j) == CHOOSE i \in DOMAIN t.lead : ~t.lead[i].free /\ R[i] = j
             of(k) == {i \in DOMAIN t.lead : /\ ~t.lead[i].free
                                        /\ t.lead[i].off < k
                                        /\ k <= t.lead[i].off + t.lead[i].num}
  <1>9. /\ r.lead = [j \in 1 .. R[n] |-> t.lead[nth(j)]]
        /\ r.list = [k \in DOMAIN t.list |->
                       IF R[n] = 0 THEN Undefined
                       ELSE IF of(k) = {} THEN t.list[k]
                       ELSE [t.list[k] EXCEPT !.lead = R[Max(of(k))]]]
        /\ r.max = q.max
        /\ r = [lead |-> r.lead, list |-> r.list, max |-> r.max]
    <2> DEFINE A == Kept(t)
               B == [k \in DOMAIN t.list |->
                       IF R[n] = 0 THEN Undefined
                       ELSE IF of(k) = {} THEN t.list[k]
                       ELSE [t.list[k] EXCEPT !.lead = R[Max(of(k))]]]
    <2> HIDE DEF t, R, n
    <2>1. r = [t EXCEPT !.lead = A, !.list = B]
      BY <1>7, <1>8 DEF Release
    <2>2. A = [j \in 1 .. R[n] |-> t.lead[nth(j)]]
      BY <1>7, <1>8 DEF Kept
    <2> HIDE DEF A, B, r, of, nth
    <2>3. r.lead = A /\ r.list = B /\ r.max = t.max /\ r = [lead |-> r.lead, list |-> r.list, max |-> r.max]
      BY <1>5, <2>1
    <2> QED
      BY <1>5, <2>2, <2>3 DEF B
  <1>10. ASSUME NEW j \in 1 .. R[n]
         PROVE  /\ nth(j) \in 1 .. n /\ nth(j) \notin N /\ R[nth(j)] = j
                /\ R[nth(j) - 1] = j - 1
                /\ \A y \in 1 .. n : y \notin N /\ R[y] = j => y = nth(j)
    <2> HIDE DEF t, R, n, S
    <2>1. PICK x \in 1 .. n : /\ x \notin N /\ R[x] = j /\ R[x - 1] = j - 1
                              /\ \A y \in 1 .. n : y \notin N /\ R[y] = j => y = x
      BY <1>3
    <2>2. x \in DOMAIN t.lead /\ ~t.lead[x].free
      BY <1>6, <1>7, <2>1
    <2>3. nth(j) \in DOMAIN t.lead /\ ~t.lead[nth(j)].free /\ R[nth(j)] = j
      BY <2>1, <2>2
    <2>4. nth(j) = x
      <3> HIDE DEF nth
      <3> QED
        BY <1>6, <1>7, <2>1, <2>3
    <2> HIDE DEF nth
    <2> QED
      BY <2>1, <2>4
  <1> HIDE DEF t, r, R, S, n, l, nth
  <1>11. /\ r.lead \in Seq(Lead) /\ DOMAIN r.lead = 1 .. R[n] /\ Len(r.lead) = R[n]
         /\ \A j \in 1 .. R[n] : r.lead[j] = t.lead[nth(j)] /\ r.lead[j] \in Lead
    <2>1. DOMAIN r.lead = 1 .. R[n] /\ \A j \in 1 .. R[n] : r.lead[j] = t.lead[nth(j)]
      BY <1>9
    <2>2. \A j \in 1 .. R[n] : r.lead[j] \in Lead
      BY <1>6, <1>10, <2>1
    <2>3. r.lead = [j \in 1 .. R[n] |-> r.lead[j]]
      BY <1>9
    <2> DEFINE z == R[n]
               f == r.lead
    <2>4. z \in Nat /\ (\A j \in 1 .. z : f[j] \in Lead) /\ f = [j \in 1 .. z |-> f[j]]
      BY <1>4, <2>2, <2>3
    <2> HIDE DEF z, f
    <2>5. f \in Seq(Lead) /\ Len(f) = z
      BY <2>4
    <2> QED
      BY <2>1, <2>2, <2>5 DEF z, f
  (* The lead that ends at j, and where its entries end. *)
  <1> DEFINE pos(j) == IF j = 0 THEN 0 ELSE nth(j)
  <1>12. ASSUME NEW j \in 0 .. R[n] PROVE pos(j) \in 0 .. n /\ R[pos(j)] = j
    <2>1. CASE j = 0
      BY <1>1, <1>3, <2>1
    <2>2. CASE j # 0
      <3>1. j \in 1 .. R[n]
        BY <1>4, <2>2
      <3>2. nth(j) \in 1 .. n /\ R[nth(j)] = j
        BY <1>10, <3>1
      <3> QED
        BY <1>1, <2>2, <3>2
    <2> QED
      BY <2>1, <2>2
  <1>13. ASSUME NEW j \in 1 .. R[n]
         PROVE  /\ r.lead[j].off = S[nth(j) - 1]
                /\ r.lead[j].num = q.lead[nth(j)].num
                /\ Same(r.lead[j], q.lead[nth(j)])
                /\ S[nth(j)] = S[nth(j) - 1] + r.lead[j].num
                /\ S[nth(j) - 1] = S[pos(j - 1)]
    <2> DEFINE x == nth(j)
    <2>1. x \in 1 .. n /\ x \notin N /\ R[x] = j /\ R[x - 1] = j - 1
      BY <1>10
    <2> HIDE DEF x
    <2>2. /\ t.lead[x].off = S[x - 1] /\ Same(t.lead[x], q.lead[x])
          /\ t.lead[x].num = q.lead[x].num
      BY <1>6, <2>1
    <2>3. r.lead[j] = t.lead[x]
      BY <1>11 DEF x
    <2>4. S[x] = S[x - 1] + q.lead[x].num
      BY <1>3, <2>1
    <2>5. S[x - 1] = S[pos(j - 1)]
      <3> DEFINE y == pos(j - 1)
      <3>1. j - 1 \in 0 .. R[n] /\ j \in Nat
        BY <1>4
      <3>2. y \in 0 .. n /\ R[y] = j - 1
        BY <1>12, <3>1
      <3> HIDE DEF y
      <3>3. x - 1 \in 0 .. n /\ x \in 0 .. n
        BY <1>1, <2>1
      <3>4. y <= x - 1
        <4>1. SUFFICES ASSUME x <= y PROVE FALSE
          BY <1>1, <2>1, <3>2
        <4>2. R[x] <= R[y]
          BY <1>3, <3>2, <3>3, <4>1
        <4> QED
          BY <2>1, <3>1, <3>2, <4>2
      <3>5. S[y] = S[x - 1]
        BY <1>3, <2>1, <3>2, <3>3, <3>4
      <3> QED
        BY <3>5 DEF y
    <2> HIDE DEF pos
    <2>6. Same(r.lead[j], q.lead[x]) /\ r.lead[j].off = S[x - 1] /\ r.lead[j].num = q.lead[x].num
      BY <2>2, <2>3
    <2> QED
      BY <2>4, <2>5, <2>6 DEF x
  <1>14. \A j \in 0 .. R[n] : End(r, j) = S[pos(j)]
    <2> SUFFICES ASSUME NEW j \in 0 .. R[n] PROVE End(r, j) = S[pos(j)]
      OBVIOUS
    <2>1. CASE j = 0
      BY <1>3, <2>1 DEF End
    <2>2. CASE j # 0
      <3>1. j \in 1 .. R[n] /\ pos(j) = nth(j)
        BY <1>4, <2>2
      <3>2. End(r, j) = r.lead[j].off + r.lead[j].num
        BY <2>2 DEF End
      <3> QED
        BY <1>13, <3>1, <3>2
    <2> QED
      BY <2>1, <2>2
  <1>15. ASSUME NEW k \in 1 .. S[n]
         PROVE  \E x \in 1 .. n :
                  /\ x \notin N /\ S[x - 1] < k /\ k <= S[x]
                  /\ of(k) = {x} /\ \A y \in 1 .. n : S[y - 1] < k /\ k <= S[y] => y = x
                  /\ t.list[k] \in Entry /\ t.list[k].owner = q.lead[x].id
    <2>1. PICK x \in 1 .. n :
                  /\ x \notin N /\ S[x - 1] < k /\ k <= S[x]
                  /\ \A y \in 1 .. n : S[y - 1] < k /\ k <= S[y] => y = x
      BY <1>3
    <2>2. k \in Nat /\ k \in 1 .. l - num
      BY <1>4
    <2>3. from(k) = {x}
      BY <1>2, <2>1
    <2>4. t.list[k] = entry(k, x)
      <3>1. (CHOOSE i \in from(k) : TRUE) = x
        <4> HIDE DEF from
        <4> QED
          BY <2>3
      <3>2. t.list[k] = IF from(k) = {} THEN p.list[k]
                        ELSE entry(k, CHOOSE i \in from(k) : TRUE)
        BY <1>5, <2>2
      <3> HIDE DEF from, entry
      <3> QED
        BY <2>3, <3>1, <3>2
    <2> DEFINE o == q.lead[x].off
               c == q.lead[x].num
               a == S[x - 1]
               e == o + (k - a)
    <2>5. o \in Nat /\ c \in Nat /\ a \in Nat /\ S[x] = a + c /\ End(q, x) = o + c
      <3>1. x - 1 \in 0 .. n /\ x # 0
        BY <1>1
      <3>2. a \in Nat /\ S[x] = a + c
        BY <1>3, <2>1, <3>1
      <3>3. q.lead[x] \in Lead
        BY <1>2
      <3> QED
        BY <3>1, <3>2, <3>3, LeadFields DEF End
    <2>6. e \in o + 1 .. o + c
      <3> DEFINE b == S[x]
      <3>1. a < k /\ k <= b /\ b = a + c
        BY <2>1, <2>5
      <3> HIDE DEF o, c, a, b
      <3> QED
        BY <2>2, <2>5, <3>1
    <2>7. e \in DOMAIN q.list /\ q.list[e].lead = x /\ q.list[e].owner = q.lead[x].id
      <3>1. e \in q.lead[x].off + 1 .. End(q, x)
        BY <2>5, <2>6
      <3> HIDE DEF e
      <3> QED
        BY <1>1, <3>1 DEF Fits
    <2>8. t.list[k] = q.list[e]
      BY <1>2, <2>1, <2>4
    <2>9. of(k) = {x}
      <3>1. ASSUME NEW y \in 1 .. n
            PROVE  y \in of(k) <=> y \notin N /\ S[y - 1] < k /\ k <= S[y]
        <4>1. CASE y \in N
          BY <1>6, <4>1
        <4>2. CASE y \notin N
          <5>1. ~t.lead[y].free /\ t.lead[y].off = S[y - 1] /\ t.lead[y].num = q.lead[y].num
            BY <1>6, <4>2
          <5>2. S[y] = S[y - 1] + q.lead[y].num
            BY <1>3, <4>2
          <5> QED
            BY <1>7, <4>2, <5>1, <5>2
        <4> QED
          BY <4>1, <4>2
      <3>2. \A y \in of(k) : y \in 1 .. n
        BY <1>7
      <3> HIDE DEF of
      <3> QED
        BY <2>1, <3>1, <3>2
    <2> HIDE DEF e, of
    <2> QED
      BY <1>1, <2>1, <2>7, <2>8, <2>9
  <1>16. ASSUME NEW k \in 1 .. S[n]
         PROVE  /\ r.list[k] \in Entry
                /\ \A x \in 1 .. n : S[x - 1] < k /\ k <= S[x]
                      => r.list[k].lead = R[x] /\ r.list[k].owner = q.lead[x].id
    <2>1. PICK x \in 1 .. n :
                  /\ x \notin N /\ S[x - 1] < k /\ k <= S[x]
                  /\ of(k) = {x} /\ \A y \in 1 .. n : S[y - 1] < k /\ k <= S[y] => y = x
                  /\ t.list[k] \in Entry /\ t.list[k].owner = q.lead[x].id
      BY <1>15
    <2> HIDE DEF of
    <2>2. R[n] # 0
      <3>1. x \in 0 .. n /\ n \in 0 .. n /\ x <= n /\ x - 1 \in 0 .. n
        BY <1>1
      <3>2. R[x] = R[x - 1] + 1 /\ R[x - 1] \in Nat
        BY <1>3, <2>1, <3>1
      <3>3. R[x] <= R[n] /\ R[x] \in Nat
        BY <1>3, <3>1
      <3> QED
        BY <1>4, <3>2, <3>3
    <2>3. Max(of(k)) = x
      BY <2>1 DEF Max
    <2>4. R[x] \in Nat
      <3>1. x \in 0 .. n
        BY <1>1
      <3> QED
        BY <1>3, <3>1
    <2>5. k \in DOMAIN t.list
      <3>1. DOMAIN t.list = 1 .. l - num
        BY <1>5
      <3> QED
        BY <1>4, <3>1
    <2>6. r.list[k] = [t.list[k] EXCEPT !.lead = R[x]]
      BY <1>9, <2>1, <2>2, <2>3, <2>5
    <2>7. r.list[k] \in Entry /\ r.list[k].lead = R[x] /\ r.list[k].owner = t.list[k].owner
      BY <2>1, <2>4, <2>6, EntryMoved
    <2> QED
      BY <2>1, <2>7
  <1>17. r.list \in Seq(Entry) /\ DOMAIN r.list = 1 .. S[n] /\ Len(r.list) = S[n]
    <2>1. DOMAIN t.list = 1 .. S[n]
      BY <1>4, <1>5
    <2>2. DOMAIN r.list = 1 .. S[n]
      BY <1>9, <2>1
    <2>3. r.list = [k \in 1 .. S[n] |-> r.list[k]]
      <3> HIDE DEF of
      <3> QED
        BY <1>9, <2>1
    <2> DEFINE z == S[n]
               f == r.list
    <2>4. z \in Nat /\ (\A k \in 1 .. z : f[k] \in Entry) /\ f = [k \in 1 .. z |-> f[k]]
      BY <1>4, <1>16, <2>3
    <2> HIDE DEF z, f
    <2>5. f \in Seq(Entry) /\ Len(f) = z
      BY <2>4
    <2> QED
      BY <2>2, <2>5 DEF z, f
  <1>18. r \in QueueSet
    BY <1>1, <1>9, <1>11, <1>17 DEF QueueSet
  <1>19. Fits(r)
    <2>1. ASSUME NEW j \in 1 .. R[n] PROVE r.lead[j].off = End(r, j - 1)
      <3>1. j - 1 \in 0 .. R[n]
        BY <1>4
      <3> HIDE DEF pos
      <3> QED
        BY <1>13, <1>14, <3>1
    <2>2. ASSUME NEW j \in 1 .. R[n], NEW k \in r.lead[j].off + 1 .. End(r, j)
          PROVE  k \in DOMAIN r.list /\ r.list[k].lead = j /\ r.list[k].owner = r.lead[j].id
      <3> DEFINE x == nth(j)
                 a == S[x - 1]
                 b == S[x]
      <3>1. x \in 1 .. n /\ R[x] = j
        BY <1>10
      <3>2. End(r, j) = b
        <4>1. j \in 0 .. R[n] /\ j # 0
          BY <1>4
        <4> QED
          BY <1>14, <4>1
      <3>3. r.lead[j].off = a /\ Same(r.lead[j], q.lead[x])
        BY <1>13
      <3>4. a \in Nat /\ b \in Nat /\ b <= S[n]
        <4> HIDE DEF x
        <4>1. x \in 0 .. n /\ x - 1 \in 0 .. n /\ n \in 0 .. n /\ x <= n
          BY <1>1, <3>1
        <4> QED
          BY <1>3, <4>1
      <3>5. k \in a + 1 .. b
        BY <3>2, <3>3
      <3>6. k \in 1 .. S[n] /\ a < k /\ k <= b
        <4> HIDE DEF a, b
        <4> QED
          BY <1>4, <3>4, <3>5
      <3> HIDE DEF x
      <3>7. r.list[k].lead = R[x] /\ r.list[k].owner = q.lead[x].id
        BY <1>16, <3>1, <3>6
      <3> QED
        BY <1>17, <3>1, <3>3, <3>6, <3>7 DEF Same
    <2>3. End(r, R[n]) = S[n]
      <3> DEFINE x == pos(R[n])
      <3>1. R[n] \in 0 .. R[n]
        BY <1>4
      <3>2. x \in 0 .. n /\ R[x] = R[n] /\ End(r, R[n]) = S[x]
        BY <1>12, <1>14, <3>1
      <3> HIDE DEF x
      <3>3. n \in 0 .. n /\ x <= n
        BY <1>1, <3>2
      <3> QED
        BY <1>3, <3>2, <3>3
    <2> QED
      BY <1>11, <1>17, <2>1, <2>2, <2>3 DEF Fits
  <1> DEFINE m == [j \in 1 .. R[n] |-> nth(j)]
  <1>20. Remains(q, r, N, m)
    <2>1. \A j \in 1 .. R[n] : m[j] \in 1 .. n /\ m[j] \notin N /\ R[m[j]] = j /\ Same(r.lead[j], q.lead[m[j]])
      BY <1>10, <1>13
    <2>2. m \in [1 .. R[n] -> 1 .. n]
      BY <1>10
    <2>3. ASSUME NEW i \in 1 .. n, i \notin N PROVE \E j \in 1 .. R[n] : m[j] = i
      <3>1. i \in 0 .. n /\ n \in 0 .. n /\ i <= n /\ i - 1 \in 0 .. n
        BY <1>1
      <3>2. R[i] = R[i - 1] + 1 /\ R[i - 1] \in Nat /\ R[i] <= R[n] /\ R[i] \in Nat
        BY <1>3, <2>3, <3>1
      <3>3. R[i] \in 1 .. R[n]
        BY <1>4, <3>2
      <3>4. i = nth(R[i])
        BY <1>10, <2>3, <3>3
      <3> QED
        BY <3>3, <3>4
    <2> HIDE DEF m
    <2>4. \A i, j \in 1 .. R[n] : m[i] = m[j] => i = j
      BY <2>1
    <2> QED
      BY <1>1, <1>11, <2>1, <2>2, <2>3, <2>4 DEF Remains
  <1>21. GoodQueue(r, parity) /\ r.max = q.max
    BY <1>9, <1>18, <1>19, <1>20, RemainsGood
  <1>22. Freed(t) = {p.lead[i] : i \in DOMAIN q.lead \cap N}
    <2>1. ASSUME NEW i \in 1 .. n PROVE t.lead[i].free <=> i \in N
      BY <1>6
    <2>2. ASSUME NEW i \in 1 .. n, i \in N PROVE t.lead[i] = p.lead[i]
      BY <1>6, <2>2
    <2> QED
      BY <1>1, <1>7, <2>1, <2>2 DEF Freed, Leads
  <1> QED
    BY <1>1, <1>6, <1>7, <1>20, <1>21, <1>22 DEF r, t, n

-----------------------------------------------------------------------------
(* The entries an array of IDs names. *)

(* The numbers of entries of the leads that are not in D. *)
Nums(q, D) == [i \in 1 .. Len(q.lead) |-> IF i \in D THEN 0 ELSE q.lead[i].num]

LEMMA NumsType ==
  ASSUME NEW q \in QueueSet, NEW D
  PROVE  /\ Nums(q, D) \in Seq(Nat) /\ Len(Nums(q, D)) = Len(q.lead)
         /\ \A i \in 1 .. Len(q.lead) :
              Nums(q, D)[i] = IF i \in D THEN 0 ELSE q.lead[i].num
  <1> DEFINE n == Len(q.lead)
             f == Nums(q, D)
  <1>1. n \in Nat /\ \A i \in 1 .. n : q.lead[i].num \in Nat
    BY QueueFields, LeadFields
  <1>2. f = [i \in 1 .. n |-> f[i]] /\ \A i \in 1 .. n : f[i] = IF i \in D THEN 0 ELSE q.lead[i].num
    BY DEF Nums
  <1>3. ASSUME NEW i \in 1 .. n PROVE f[i] \in Nat
    <2> HIDE DEF n, f
    <2>1. f[i] = 0 \/ f[i] = q.lead[i].num
      BY <1>2
    <2>2. q.lead[i].num \in Nat
      BY <1>1
    <2> QED
      BY <2>1, <2>2
  <1> HIDE DEF n, f
  <1>4. f \in Seq(Nat) /\ Len(f) = n
    BY <1>1, <1>2, <1>3
  <1> QED
    BY <1>2, <1>4 DEF n, f

LEMMA PlaceOfMarked ==
  ASSUME NEW q, NEW parity, GoodQueue(q, parity), NEW p, NEW N, Marked(q, p, N)
  PROVE  Place(p) = Sums(Nums(q, N))
  <1>1. /\ DOMAIN q.lead = 1 .. Len(q.lead) /\ DOMAIN p.lead = DOMAIN q.lead
        /\ \A i \in 1 .. Len(q.lead) : /\ i \notin N => p.lead[i] = q.lead[i] /\ ~p.lead[i].free
                                       /\ i \in N => p.lead[i].free
    BY QueueFields DEF GoodQueue, Marked
  <1>2. [i \in DOMAIN p.lead |-> IF p.lead[i].free THEN 0 ELSE p.lead[i].num] = Nums(q, N)
    BY <1>1 DEF Nums
  <1> QED
    BY <1>2 DEF Place

LEMMA AllEntries ==
  ASSUME NEW q \in QueueSet, Fits(q)
  PROVE  Sums(Nums(q, {}))[Len(q.lead)] = Len(q.list)
  <1> DEFINE n == Len(q.lead)
             f == Nums(q, {})
             S == Sums(f)
             P == {i \in 0 .. n : S[i] = End(q, i)}
  <1>1. /\ n \in Nat /\ S[0] = 0 /\ \A i \in 1 .. n : S[i] = S[i - 1] + q.lead[i].num
    <2>1. f \in Seq(Nat) /\ Len(f) = n /\ \A i \in 1 .. n : f[i] = q.lead[i].num
      BY NumsType
    <2>2. n \in Nat
      BY QueueFields
    <2> HIDE DEF f, n
    <2> QED
      BY <2>1, <2>2, SumsLoop
  <1>2. /\ End(q, 0) = 0 /\ End(q, n) = Len(q.list)
        /\ \A i \in 1 .. n : End(q, i) = End(q, i - 1) + q.lead[i].num
    BY Chain
  <1> HIDE DEF n, f, S
  <1>3. 0 \in P /\ \A i \in 1 .. n : i - 1 \in P => i \in P
    BY <1>1, <1>2
  <1>4. \A i \in 0 .. n : i \in P
    <2> HIDE DEF P
    <2> QED
      BY <1>1, <1>3, LoopInduction
  <1>5. n \in 0 .. n
    BY <1>1
  <1> QED
    BY <1>2, <1>4, <1>5 DEF n, f, S

LEMMA SliceOf ==
  ASSUME NEW q \in QueueSet, Fits(q), NEW x \in DOMAIN q.lead
  PROVE  /\ Slice(q, q.lead[x]) \in Seq(Entry)
         /\ Len(Slice(q, q.lead[x])) = q.lead[x].num
         /\ \A k \in 1 .. q.lead[x].num : Slice(q, q.lead[x])[k].owner = q.lead[x].id
  <1> DEFINE l == Len(q.list)
             L == q.list
             o == q.lead[x].off
             c == q.lead[x].num
             i == q.lead[x].id
  <1>1. /\ l \in Nat /\ L \in Seq(Entry) /\ x \in 1 .. Len(q.lead) /\ Len(q.lead) \in Nat
        /\ o \in Nat /\ c \in Nat /\ c > 0
    BY QueueFields, LeadFields
  <1>2. o + c <= l
    <2>1. x \in 0 .. Len(q.lead) /\ Len(q.lead) \in 0 .. Len(q.lead) /\ x <= Len(q.lead) /\ x # 0
      BY <1>1
    <2>2. End(q, x) <= End(q, Len(q.lead)) /\ End(q, Len(q.lead)) = l
      BY <2>1, Chain
    <2> QED
      BY <2>1, <2>2 DEF End
  <1>3. \A k \in o + 1 .. o + c : L[k].owner = i
    <2>1. x # 0
      BY <1>1
    <2>2. End(q, x) = o + c
      BY <2>1 DEF End
    <2> QED
      BY <2>2 DEF Fits
  <1>4. Slice(q, q.lead[x]) = SubSeq(L, o + 1, o + c) /\ l = Len(L)
    BY DEF Slice
  <1> HIDE DEF l, L, o, c, i
  <1>5. /\ SubSeq(L, o + 1, o + c) \in Seq(Entry)
        /\ Len(SubSeq(L, o + 1, o + c)) = c
        /\ \A k \in 1 .. c : SubSeq(L, o + 1, o + c)[k] = L[o + k]
    BY <1>1, <1>2, <1>4
  <1>6. ASSUME NEW k \in 1 .. c PROVE SubSeq(L, o + 1, o + c)[k].owner = i
    <2>1. o + k \in o + 1 .. o + c
      BY <1>1
    <2>2. L[o + k].owner = i
      BY <1>3, <2>1
    <2> QED
      BY <1>5, <2>2
  <1> QED
    BY <1>4, <1>5, <1>6 DEF c, i

(* The entries of w are those of the leads in D, each lead's together. *)
Holds(q, w, D) ==
    /\ w \in Seq(Entry)
    /\ Len(w) + Sums(Nums(q, D))[Len(q.lead)] = Len(q.list)
    /\ \A k \in 1 .. Len(w) : \E i \in D : w[k].owner = q.lead[i].id
    /\ \A i \in D : \E s \in Nat :
         /\ s + q.lead[i].num <= Len(w)
         /\ \A k \in 1 .. Len(w) : w[k].owner = q.lead[i].id
                                     <=> s < k /\ k <= s + q.lead[i].num

LEMMA HoldsMore ==
  ASSUME NEW q, NEW parity, GoodQueue(q, parity), NEW w, NEW D, D \subseteq DOMAIN q.lead,
         Holds(q, w, D), NEW x \in DOMAIN q.lead, x \notin D, NEW E, E = D \cup {x}
  PROVE  Holds(q, w \o Slice(q, q.lead[x]), E)
  <1> DEFINE n == Len(q.lead)
             l == Len(w)
             c == q.lead[x].num
             v == Slice(q, q.lead[x])
             u == w \o v
             f == Nums(q, D)
             g == Nums(q, E)
             ID(i) == q.lead[i].id
  <1>1. /\ q \in QueueSet /\ Fits(q) /\ n \in Nat /\ DOMAIN q.lead = 1 .. n
        /\ \A i, j \in 1 .. n : ID(i) = ID(j) => i = j
    BY QueueFields DEF GoodQueue
  <1>2. v \in Seq(Entry) /\ Len(v) = c /\ (\A k \in 1 .. c : v[k].owner = ID(x))
    BY <1>1, SliceOf
  <1>3. w \in Seq(Entry) /\ l \in Nat /\ c \in Nat /\ c > 0
    BY <1>1, QueueFields, LeadFields DEF Holds
  <1>4. x \in 1 .. n /\ \A i \in D : i \in 1 .. n /\ i # x
    BY <1>1
  <1>5. \A i \in D : ID(i) # ID(x)
    <2> HIDE DEF ID, n
    <2> QED
      BY <1>1, <1>4
  <1>6. \A k \in 1 .. l : \E i \in D : w[k].owner = ID(i)
    BY DEF Holds
  <1>7. \A i \in D : \E s \in Nat :
          /\ s + q.lead[i].num <= l
          /\ \A k \in 1 .. l : w[k].owner = ID(i) <=> s < k /\ k <= s + q.lead[i].num
    BY DEF Holds
  <1>8. Sums(f)[n] = Sums(g)[n] + c
    <2>1. /\ f \in Seq(Nat) /\ Len(f) = n /\ g \in Seq(Nat) /\ Len(g) = n
          /\ \A i \in 1 .. n : f[i] = IF i \in D THEN 0 ELSE q.lead[i].num
          /\ \A i \in 1 .. n : g[i] = IF i \in E THEN 0 ELSE q.lead[i].num
      BY <1>1, NumsType
    <2>2. g[x] = 0 /\ f[x] = c /\ \A i \in 1 .. n : i # x => g[i] = f[i]
      BY <1>4, <2>1
    <2> HIDE DEF f, g, n, c
    <2>3. /\ x \in 1 .. Len(f) /\ Len(f) = Len(g) /\ g[x] = 0
          /\ \A i \in 1 .. Len(f) : i # x => g[i] = f[i]
      BY <1>4, <2>1, <2>2
    <2>4. Sums(f)[Len(f)] = Sums(g)[Len(f)] + f[x]
      BY <2>1, <2>3, SumsWithout
    <2> QED
      BY <2>1, <2>2, <2>4
  <1>9. l + Sums(f)[n] = Len(q.list)
    BY DEF Holds
  <1>10. Sums(g)[n] \in Nat
    <2>1. g \in Seq(Nat) /\ Len(g) = n /\ n \in 0 .. n
      BY <1>1, NumsType
    <2> HIDE DEF g, n
    <2>2. Sums(g) \in [0 .. n -> Nat]
      BY <2>1, SumsLoop
    <2> QED
      BY <2>1, <2>2
  <1> HIDE DEF v, c, l, f, g, n, ID
  <1>11. /\ u \in Seq(Entry) /\ Len(u) = l + c
         /\ \A k \in 1 .. l : u[k] = w[k]
         /\ \A k \in l + 1 .. l + c : u[k] = v[k - l]
    BY <1>2, <1>3 DEF l
  <1> HIDE DEF u
  <1>12. ASSUME NEW k \in l + 1 .. l + c PROVE u[k].owner = ID(x)
    <2>1. k - l \in 1 .. c
      BY <1>3
    <2> QED
      BY <1>2, <1>11, <2>1
  <1>13. \A k \in 1 .. l + c : k \in 1 .. l \/ k \in l + 1 .. l + c
    BY <1>3
  <1>14. ASSUME NEW k \in 1 .. l + c PROVE \E i \in E : u[k].owner = ID(i)
    <2>1. CASE k \in 1 .. l
      BY <1>6, <1>11, <2>1
    <2>2. CASE k \in l + 1 .. l + c
      BY <1>12, <2>2
    <2> QED
      BY <1>13, <2>1, <2>2
  <1>15. ASSUME NEW i \in E
         PROVE  \E s \in Nat :
                  /\ s + q.lead[i].num <= l + c
                  /\ \A k \in 1 .. l + c : u[k].owner = ID(i) <=> s < k /\ k <= s + q.lead[i].num
    <2>1. CASE i = x
      <3>1. \A k \in 1 .. l : u[k].owner # ID(x)
        BY <1>5, <1>6, <1>11
      <3>2. ASSUME NEW k \in 1 .. l + c PROVE u[k].owner = ID(x) <=> l < k /\ k <= l + c
        <4>1. CASE k \in 1 .. l
          BY <1>3, <3>1, <4>1
        <4>2. CASE k \in l + 1 .. l + c
          BY <1>3, <1>12, <4>2
        <4> QED
          BY <1>13, <4>1, <4>2
      <3>3. l + c <= l + c
        BY <1>3
      <3> QED
        BY <1>3, <2>1, <3>2, <3>3 DEF c
    <2>2. CASE i \in D
      <3> DEFINE b == q.lead[i].num
      <3>1. PICK s \in Nat :
                  /\ s + b <= l
                  /\ \A k \in 1 .. l : w[k].owner = ID(i) <=> s < k /\ k <= s + b
        BY <1>7, <2>2
      <3>2. b \in Nat
        BY <1>1, <1>4, <2>2, QueueFields, LeadFields
      <3> HIDE DEF b
      <3>3. ASSUME NEW k \in 1 .. l + c PROVE u[k].owner = ID(i) <=> s < k /\ k <= s + b
        <4>1. CASE k \in 1 .. l
          BY <1>11, <3>1, <4>1
        <4>2. CASE k \in l + 1 .. l + c
          <5>1. u[k].owner # ID(i)
            BY <1>5, <1>12, <2>2, <4>2
          <5>2. ~(k <= s + b)
            BY <1>3, <3>1, <3>2, <4>2
          <5> QED
            BY <5>1, <5>2
        <4> QED
          BY <1>13, <4>1, <4>2
      <3>4. s + b <= l + c
        BY <1>3, <3>1, <3>2
      <3> QED
        BY <3>3, <3>4 DEF b
    <2> QED
      BY <2>1, <2>2
  <1>16. l + c + Sums(g)[n] = Len(q.list)
    <2> DEFINE y == Sums(f)[n]
               z == Sums(g)[n]
    <2>1. z \in Nat /\ y = z + c /\ l + y = Len(q.list)
      BY <1>8, <1>9, <1>10
    <2> HIDE DEF y, z
    <2>2. l + c + z = l + y
      BY <1>3, <2>1
    <2> QED
      BY <2>1, <2>2 DEF z
  <1>17. Holds(q, u, E)
    BY <1>11, <1>14, <1>15, <1>16 DEF Holds, n, g, ID
  <1> QED
    BY <1>17 DEF u, v

LEMMA HoldsNone ==
  ASSUME NEW q \in QueueSet, Fits(q)
  PROVE  Holds(q, <<>>, {})
  <1> DEFINE w == <<>>
  <1>1. w \in Seq(Entry) /\ Len(w) = 0
    OBVIOUS
  <1>2. Sums(Nums(q, {}))[Len(q.lead)] = Len(q.list) /\ Len(q.list) \in Nat
    BY AllEntries, QueueFields
  <1> HIDE DEF w
  <1>3. Len(w) + Sums(Nums(q, {}))[Len(q.lead)] = Len(q.list)
    BY <1>1, <1>2
  <1>4. Holds(q, w, {})
    BY <1>1, <1>3 DEF Holds
  <1> QED
    BY <1>4 DEF w

LEMMA HoldsAll ==
  ASSUME NEW q, NEW parity, GoodQueue(q, parity)
  PROVE  Holds(q, q.list, DOMAIN q.lead)
  <1> DEFINE n == Len(q.lead)
             l == Len(q.list)
             D == DOMAIN q.lead
             f == Nums(q, D)
             S == Sums(f)
             P == {i \in 0 .. n : S[i] = 0}
  <1>1. /\ q \in QueueSet /\ Fits(q) /\ n \in Nat /\ l \in Nat /\ D = 1 .. n
        /\ q.list \in Seq(Entry)
        /\ \A i, j \in 1 .. n : q.lead[i].id = q.lead[j].id => i = j
        /\ \A i \in 1 .. n : q.lead[i].num \in Nat
    BY QueueFields, LeadFields DEF GoodQueue
  <1>2. f \in Seq(Nat) /\ Len(f) = n /\ \A i \in 1 .. n : f[i] = 0
    BY <1>1, NumsType
  <1>3. \A i \in 1 .. n : /\ q.lead[i].off \in Nat /\ q.lead[i].off = End(q, i - 1)
                          /\ End(q, i) = q.lead[i].off + q.lead[i].num
                          /\ End(q, i) <= l
    <2> SUFFICES ASSUME NEW i \in 1 .. n
                 PROVE  /\ q.lead[i].off \in Nat /\ q.lead[i].off = End(q, i - 1)
                        /\ End(q, i) = q.lead[i].off + q.lead[i].num
                        /\ End(q, i) <= l
      OBVIOUS
    <2>1. i \in 0 .. n /\ n \in 0 .. n /\ i <= n /\ i # 0
      BY <1>1
    <2>2. End(q, i) <= End(q, n) /\ End(q, n) = l /\ q.lead[i].off = End(q, i - 1)
      BY <1>1, <2>1, Chain
    <2>3. q.lead[i].off \in Nat
      BY <1>1, QueueFields, LeadFields
    <2>4. End(q, i) = q.lead[i].off + q.lead[i].num
      BY <2>1 DEF End
    <2> QED
      BY <2>2, <2>3, <2>4
  <1> HIDE DEF f, n
  <1>4. S[0] = 0 /\ \A i \in 1 .. n : S[i] = S[i - 1] + 0
    BY <1>2, SumsLoop
  <1> HIDE DEF S, l, D
  <1>5. 0 \in P /\ \A i \in 1 .. n : i - 1 \in P => i \in P
    BY <1>1, <1>4
  <1>6. \A i \in 0 .. n : i \in P
    <2> HIDE DEF P
    <2> QED
      BY <1>1, <1>5, LoopInduction
  <1>7. l + S[n] = l
    <2>1. n \in 0 .. n
      BY <1>1
    <2>2. S[n] = 0
      BY <1>6, <2>1
    <2> QED
      BY <1>1, <2>2
  <1>8. ASSUME NEW k \in 1 .. l
        PROVE  \E i \in 1 .. n : /\ End(q, i - 1) < k /\ k <= End(q, i)
                                 /\ q.list[k].owner = q.lead[i].id
    BY <1>1, LeadOfEntry DEF l, n
  <1>9. ASSUME NEW i \in 1 .. n
        PROVE  \E s \in Nat :
                 /\ s + q.lead[i].num <= l
                 /\ \A k \in 1 .. l : q.list[k].owner = q.lead[i].id
                                         <=> s < k /\ k <= s + q.lead[i].num
    <2> DEFINE s == q.lead[i].off
               c == q.lead[i].num
    <2>1. /\ s \in Nat /\ c \in Nat /\ s = End(q, i - 1) /\ End(q, i) = s + c
          /\ s + c <= l
      BY <1>1, <1>3
    <2>2. \A k \in s + 1 .. s + c : q.list[k].owner = q.lead[i].id
      <3>1. i \in DOMAIN q.lead
        BY <1>1 DEF D
      <3>2. \A k \in s + 1 .. End(q, i) : q.list[k].owner = q.lead[i].id
        BY <1>1, <3>1 DEF Fits
      <3> QED
        BY <2>1, <3>2
    <2> HIDE DEF s, c
    <2>3. ASSUME NEW k \in 1 .. l
          PROVE  q.list[k].owner = q.lead[i].id <=> s < k /\ k <= s + c
      <3>1. ASSUME s < k, k <= s + c PROVE q.list[k].owner = q.lead[i].id
        <4>1. k \in s + 1 .. s + c
          BY <1>1, <2>1, <3>1
        <4> QED
          BY <2>2, <4>1
      <3>2. ASSUME q.list[k].owner = q.lead[i].id PROVE s < k /\ k <= s + c
        <4>1. PICK j \in 1 .. n : /\ End(q, j - 1) < k /\ k <= End(q, j)
                                  /\ q.list[k].owner = q.lead[j].id
          BY <1>8
        <4>2. j = i
          BY <1>1, <3>2, <4>1
        <4> QED
          BY <2>1, <4>1, <4>2
      <3> QED
        BY <3>1, <3>2
    <2>4. \E x \in Nat : /\ x + c <= l
                         /\ \A k \in 1 .. l : q.list[k].owner = q.lead[i].id
                                                 <=> x < k /\ k <= x + c
      BY <2>1, <2>3
    <2> QED
      BY <2>4 DEF c
  <1>10. \A k \in 1 .. l : \E i \in D : q.list[k].owner = q.lead[i].id
    BY <1>1, <1>8
  <1>11. \A i \in D : i \in 1 .. n
    BY <1>1
  <1>12. Holds(q, q.list, D)
    BY <1>1, <1>7, <1>9, <1>10, <1>11 DEF Holds, l, S, f, n
  <1> QED
    BY <1>12 DEF D

LEMMA EntriesTaken ==
  ASSUME NEW q, NEW parity, GoodQueue(q, parity),
         NEW ids, Len(ids) \in Nat, DOMAIN ids = 1 .. Len(ids),
         \A a, b \in 1 .. Len(ids) : ids[a] = ids[b] => a = b
  PROVE  Holds(q, EntriesOf(q, ids), Named(q, ids))
  <1> DEFINE n == Len(ids)
             N == Named(q, ids)
             of(id) == {i \in N : q.lead[i].id = id}
             Step(w, id) == IF of(id) = {} THEN w
                            ELSE w \o Slice(q, q.lead[CHOOSE i \in of(id) : TRUE])
             S == Seq(Entry)
             a0 == <<>>
             G == [j \in 1 .. n |-> [w \in S |-> Step(w, ids[j])]]
             Loop(t) == [j \in 0 .. n |-> IF j = 0 THEN <<>> ELSE Step(t[j - 1], ids[j])]
             T == CHOOSE t : t = Loop(t)
             D(j) == {i \in N : \E a \in 1 .. j : q.lead[i].id = ids[a]}
  <1>1. /\ q \in QueueSet /\ Fits(q) /\ n \in Nat
        /\ \A i, j \in DOMAIN q.lead : q.lead[i].id = q.lead[j].id => i = j
        /\ N \subseteq DOMAIN q.lead
    BY DEF GoodQueue, Named
  <1>2. EntriesOf(q, ids) = T[n]
    BY DEF EntriesOf
  <1>3. \A i \in N : \E a \in 1 .. n : q.lead[i].id = ids[a]
    BY DEF Named, Asked
  <1>4. ASSUME NEW w \in S, NEW id PROVE Step(w, id) \in S
    <2>1. CASE of(id) = {}
      BY <2>1
    <2>2. CASE of(id) # {}
      <3> DEFINE x == CHOOSE i \in of(id) : TRUE
                 v == Slice(q, q.lead[x])
      <3>1. x \in of(id)
        BY <2>2
      <3>2. x \in DOMAIN q.lead
        BY <1>1, <3>1
      <3> HIDE DEF x
      <3>3. v \in Seq(Entry)
        BY <1>1, <3>2, SliceOf
      <3> HIDE DEF v
      <3>4. w \o v \in Seq(Entry)
        BY <3>3
      <3> QED
        BY <2>2, <3>4 DEF v, x
    <2> QED
      BY <2>1, <2>2
  <1>5. a0 \in S
    OBVIOUS
  <1> HIDE DEF n, N, S, Step, a0
  <1>6. G \in [1 .. n -> [S -> S]]
    BY <1>4
  <1>7. \E t \in [0 .. n -> S] : t = Loop(t)
    <2> HIDE DEF G
    <2>1. PICK t \in [0 .. n -> S] : /\ t[0] = a0
                                     /\ \A i \in 1 .. n : t[i] = G[i][t[i - 1]]
      <3>1. n \in Nat /\ a0 \in S /\ G \in [1 .. n -> [S -> S]]
        BY <1>1, <1>5, <1>6
      <3> HIDE DEF Loop, T, D, of
      <3> QED
        BY ONLY <3>1, Iterate
    <2>2. ASSUME NEW i \in 0 .. n, i # 0
          PROVE  G[i][t[i - 1]] = Step(t[i - 1], ids[i])
      <3>1. i \in 1 .. n /\ t[i - 1] \in S
        BY <1>1, <2>2
      <3> QED
        BY <3>1 DEF G
    <2>3. \A i \in 0 .. n : t[i] = IF i = 0 THEN <<>> ELSE Step(t[i - 1], ids[i])
      <3>1. \A i \in 0 .. n : i = 0 \/ i \in 1 .. n
        BY <1>1
      <3>2. a0 = <<>>
        BY DEF a0
      <3> QED
        BY <2>1, <2>2, <3>1, <3>2
    <2>4. t = Loop(t)
      BY <2>3
    <2> QED
      BY <2>4
  <1>8. T = Loop(T)
    <2> HIDE DEF Loop
    <2> QED
      BY <1>7, Zenon
  <1>9. T[0] = <<>> /\ \A i \in 1 .. n : T[i] = Step(T[i - 1], ids[i])
    <2> HIDE DEF T
    <2>1. \A i \in 0 .. n : T[i] = IF i = 0 THEN <<>> ELSE Step(T[i - 1], ids[i])
      BY <1>8, Zenon
    <2>2. 0 \in 0 .. n /\ \A i \in 1 .. n : i \in 0 .. n /\ i # 0
      BY <1>1
    <2> QED
      BY <2>1, <2>2
  <1> HIDE DEF T, G
  <1> DEFINE P == {j \in 0 .. n : Holds(q, T[j], D(j))}
  <1>10. 0 \in P
    <2>1. D(0) = {} /\ 0 \in 0 .. n
      BY <1>1
    <2>2. Holds(q, T[0], {})
      BY <1>1, <1>9, HoldsNone
    <2> QED
      BY <2>1, <2>2
  <1>11. ASSUME NEW j \in 1 .. n, j - 1 \in P PROVE j \in P
    <2> DEFINE w == T[j - 1]
               d == D(j - 1)
               e == D(j)
    <2>1. Holds(q, w, d) /\ j \in 0 .. n
      BY <1>1, <1>11
    <2>2. T[j] = Step(w, ids[j])
      BY <1>9
    <2>3. (\A a \in 1 .. j : a = j \/ a \in 1 .. j - 1) /\ (\A a \in 1 .. j - 1 : a \in 1 .. j) /\ j \in 1 .. j
      BY <1>1
    <2>4. \A i \in N : i \in e <=> i \in d \/ i \in of(ids[j])
      BY <2>3
    <2>5. CASE of(ids[j]) = {}
      <3>1. e = d
        BY <2>4, <2>5
      <3>2. T[j] = w
        BY <2>2, <2>5 DEF Step
      <3> HIDE DEF w, d, e
      <3>3. Holds(q, T[j], e)
        BY <2>1, <3>1, <3>2
      <3> QED
        BY <2>1, <3>3 DEF e
    <2>6. CASE of(ids[j]) # {}
      <3> DEFINE x == CHOOSE i \in of(ids[j]) : TRUE
      <3>1. x \in of(ids[j])
        BY <2>6
      <3>2. T[j] = w \o Slice(q, q.lead[x])
        BY <2>2, <2>6 DEF Step
      <3> HIDE DEF x
      <3>3. x \in N /\ x \in DOMAIN q.lead /\ q.lead[x].id = ids[j]
        BY <1>1, <3>1
      <3>4. \A i \in of(ids[j]) : i = x
        BY <1>1, <3>3
      <3>5. x \notin d
        <4>1. SUFFICES ASSUME x \in d PROVE FALSE
          OBVIOUS
        <4>2. PICK a \in 1 .. j - 1 : ids[j] = ids[a]
          BY <3>3, <4>1
        <4>3. a \in 1 .. n /\ j \in 1 .. n /\ a # j
          BY <1>1
        <4> QED
          BY <4>2, <4>3 DEF n
      <3>6. e = d \cup {x}
        <4>1. \A i \in e : i \in N
          OBVIOUS
        <4>2. \A i \in d : i \in N
          OBVIOUS
        <4> HIDE DEF e, d
        <4>3. \A i \in e : i \in d \cup {x}
          BY <2>4, <3>4, <4>1
        <4>4. \A i \in d : i \in e
          BY <2>4, <4>2
        <4>5. x \in e
          BY <2>4, <3>1, <3>3
        <4> QED
          BY <4>3, <4>4, <4>5
      <3>7. d \subseteq DOMAIN q.lead
        BY <1>1
      <3> DEFINE u == w \o Slice(q, q.lead[x])
      <3> HIDE DEF w, d, e
      <3>8. Holds(q, u, e)
        BY <2>1, <3>3, <3>5, <3>6, <3>7, HoldsMore
      <3>9. T[j] = u
        BY <3>2 DEF w
      <3> HIDE DEF u
      <3>10. Holds(q, T[j], e)
        BY <3>8, <3>9
      <3> QED
        BY <2>1, <3>10 DEF e
    <2> QED
      BY <2>5, <2>6
  <1>12. \A j \in 0 .. n : j \in P
    <2> HIDE DEF P
    <2> QED
      BY <1>1, <1>10, <1>11, LoopInduction
  <1>13. Holds(q, T[n], D(n))
    <2>1. n \in 0 .. n
      BY <1>1
    <2> QED
      BY <1>12, <2>1
  <1>14. D(n) = N
    BY <1>3
  <1> QED
    BY <1>2, <1>13, <1>14 DEF N

-----------------------------------------------------------------------------
(* What a wait leaves of a queue. *)

LEMMA MarkGood ==
  ASSUME NEW q, NEW parity, GoodQueue(q, parity), NEW ids, Len(ids) \in Nat,
         DOMAIN ids = 1 .. Len(ids), NEW statuses \in BOOLEAN
  PROVE  /\ Marked(q, Mark(q, ids, statuses), Named(q, ids))
         /\ Named(q, ids) = {} => Mark(q, ids, statuses) = q
  <1> DEFINE n == Len(q.lead)
             place(l) == CHOOSE k \in DOMAIN ids : ids[k] = l.id
             mark(l) == IF l.free \/ l.id \notin Asked(ids) THEN l
                        ELSE [l EXCEPT !.free = TRUE,
                                       !.slot = IF statuses THEN place(l) ELSE @]
             p == Mark(q, ids, statuses)
             N == Named(q, ids)
             A == p.lead
  <1>1. /\ q = [lead |-> q.lead, list |-> q.list, max |-> q.max]
        /\ n \in Nat /\ DOMAIN q.lead = 1 .. n /\ q.lead \in Seq(Lead)
        /\ \A i \in 1 .. n : q.lead[i] \in Lead /\ ~q.lead[i].free
    BY QueueFields DEF GoodQueue
  <1>2. /\ p = [lead |-> A, list |-> q.list, max |-> q.max]
        /\ A = [i \in 1 .. n |-> mark(q.lead[i])]
    <2> DEFINE X == [i \in DOMAIN q.lead |-> mark(q.lead[i])]
    <2>1. p = [q EXCEPT !.lead = X]
      BY DEF Mark
    <2>2. X = [i \in 1 .. n |-> mark(q.lead[i])]
      BY <1>1
    <2> HIDE DEF X, mark, p
    <2>3. p = [lead |-> X, list |-> q.list, max |-> q.max]
      BY <1>1, <2>1
    <2> QED
      BY <2>2, <2>3
  <1>3. ASSUME NEW l \in Lead, l.id \in Asked(ids) PROVE place(l) \in Nat
    <2>1. \E k \in DOMAIN ids : ids[k] = l.id
      BY <1>3 DEF Asked
    <2> QED
      BY <2>1
  <1>4. ASSUME NEW i \in 1 .. n
        PROVE  /\ i \notin N => mark(q.lead[i]) = q.lead[i]
               /\ i \in N => q.lead[i].id \in Asked(ids)
    BY <1>1 DEF Named
  <1>5. ASSUME NEW l \in Lead, NEW s \in Nat
        PROVE  LET f == [l EXCEPT !.free = TRUE, !.slot = s]
               IN  /\ f \in Lead /\ f.free /\ f.id = l.id /\ f.num = l.num
                   /\ f.off = l.off /\ f.max = l.max /\ f.buf = l.buf
    BY DEF Lead
  <1>6. ASSUME NEW i \in 1 .. n, i \in N
        PROVE  \E s \in Nat : mark(q.lead[i]) = [q.lead[i] EXCEPT !.free = TRUE, !.slot = s]
    <2> DEFINE l == q.lead[i]
               s == IF statuses THEN place(l) ELSE l.slot
    <2>1. l \in Lead /\ ~l.free /\ l.id \in Asked(ids)
      BY <1>1, <1>4, <1>6
    <2>2. mark(l) = [l EXCEPT !.free = TRUE, !.slot = s]
      BY <2>1
    <2>3. s \in Nat
      BY <1>3, <2>1, LeadFields
    <2> QED
      BY <2>2, <2>3
  <1> HIDE DEF A, mark, N, n, p
  <1>7. DOMAIN A = 1 .. n /\ Len(A) = n
    BY <1>1, <1>2
  <1>8. ASSUME NEW i \in 1 .. n
        PROVE  /\ A[i] \in Lead
               /\ i \notin N => A[i] = q.lead[i]
               /\ i \in N => /\ A[i].free
                             /\ A[i].id = q.lead[i].id
                             /\ A[i].num = q.lead[i].num
                             /\ A[i].off = q.lead[i].off
                             /\ A[i].max = q.lead[i].max
                             /\ A[i].buf = q.lead[i].buf
    <2> DEFINE l == q.lead[i]
    <2>1. A[i] = mark(l) /\ l \in Lead
      BY <1>1, <1>2
    <2>2. CASE i \notin N
      BY <1>4, <2>1, <2>2
    <2>3. CASE i \in N
      <3>1. PICK s \in Nat : mark(l) = [l EXCEPT !.free = TRUE, !.slot = s]
        BY <1>6, <2>3
      <3> DEFINE f == [l EXCEPT !.free = TRUE, !.slot = s]
      <3> HIDE DEF l
      <3>2. /\ f \in Lead /\ f.free /\ f.id = l.id /\ f.num = l.num
            /\ f.off = l.off /\ f.max = l.max /\ f.buf = l.buf
        BY <1>5, <2>1, <3>1
      <3>3. A[i] = f
        BY <2>1, <3>1
      <3> HIDE DEF f
      <3> QED
        BY <2>3, <3>2, <3>3 DEF l
    <2> QED
      BY <2>2, <2>3
  <1>9. p.list = q.list /\ p.max = q.max /\ p.lead = A
    BY <1>2
  <1>10. Marked(q, p, N)
    BY <1>1, <1>2, <1>7, <1>8, <1>9 DEF Marked, n
  <1>11. ASSUME N = {} PROVE p = q
    <2>1. \A i \in 1 .. n : A[i] = q.lead[i]
      BY <1>8, <1>11
    <2>2. A = q.lead
      BY <1>1, <1>2, <2>1
    <2> QED
      BY <1>1, <1>2, <2>2
  <1> QED
    BY <1>10, <1>11 DEF N, p

LEMMA EmptiedGood ==
  ASSUME NEW q, NEW parity, GoodQueue(q, parity)
  PROVE  GoodQueue(Emptied(q), parity) /\ Remains(q, Emptied(q), DOMAIN q.lead, <<>>)
  <1> DEFINE e == Emptied(q)
  <1>1. e.lead = <<>> /\ e.list = <<>> /\ e.max = q.max
    BY DEF Emptied
  <1>2. q.max \in 0 .. MaxId
    BY QueueFields DEF GoodQueue
  <1>3. e \in QueueSet
    BY <1>2 DEF Emptied, QueueSet
  <1> HIDE DEF e
  <1>4. DOMAIN e.lead = {} /\ Len(e.lead) = 0 /\ Len(e.list) = 0
    BY <1>1
  <1>5. Fits(e)
    BY <1>4 DEF Fits, End
  <1>6. GoodQueue(e, parity)
    BY <1>1, <1>3, <1>4, <1>5 DEF GoodQueue
  <1>7. Remains(q, e, DOMAIN q.lead, <<>>)
    BY <1>4 DEF Remains
  <1> QED
    BY <1>6, <1>7 DEF e

(* The buffer entries of the leads in L are those of q's at the indices N. *)
Frees(q, L, N) == {l.buf : l \in L} = {q.lead[i].buf : i \in N}

(***************************************************************************)
(* t is the queue q, with the entries of the leads at the indices in N     *)
(* taken out for the transfer, and r the queue the wait leaves.            *)
(***************************************************************************)
Leaves(q, t, r, N, parity) ==
    /\ GoodQueue(r, parity)
    /\ r.max = q.max
    /\ \E m : Remains(q, r, N, m)
    /\ DOMAIN t.lead = DOMAIN q.lead
    /\ \A i \in DOMAIN q.lead : t.lead[i].max = q.lead[i].max
    /\ \A i \in N : t.lead[i].free
    /\ N # {} => Frees(q, Freed(t), N)

(* w are the entries that are taken out, num is the number of their leads. *)
Side(q, t, N, num, w, parity) ==
    /\ N \subseteq DOMAIN q.lead
    /\ num \in 0 .. Len(q.lead)
    /\ num > 0 <=> N # {}
    /\ N = DOMAIN q.lead => num = Len(q.lead)
    /\ Holds(q, w, N)
    /\ w # <<>> <=> N # {}
    /\ Leaves(q, t, IF num > 0 THEN Release(t) ELSE t, N, parity)

LEMMA SideNone ==
  ASSUME NEW q, NEW parity, GoodQueue(q, parity)
  PROVE  Side(q, q, {}, 0, <<>>, parity)
  <1>1. q \in QueueSet /\ Fits(q) /\ Len(q.lead) \in Nat /\ DOMAIN q.lead = 1 .. Len(q.lead)
    BY QueueFields DEF GoodQueue
  <1>2. Remains(q, q, {}, [j \in DOMAIN q.lead |-> j])
    BY DEF Remains, Same
  <1>3. Leaves(q, q, q, {}, parity)
    BY <1>2 DEF Leaves
  <1>4. Holds(q, <<>>, {})
    BY <1>1, HoldsNone
  <1>5. DOMAIN q.lead = {} => Len(q.lead) = 0
    <2> DEFINE n == Len(q.lead)
    <2>1. n \in Nat /\ DOMAIN q.lead = 1 .. n
      BY <1>1
    <2> HIDE DEF n
    <2>2. n # 0 => 1 \in 1 .. n
      BY <2>1
    <2>3. DOMAIN q.lead = {} => n = 0
      BY <2>1, <2>2
    <2> QED
      BY <2>3 DEF n
  <1> QED
    BY <1>1, <1>3, <1>4, <1>5 DEF Side

LEMMA SideAll ==
  ASSUME NEW q, NEW parity, GoodQueue(q, parity), NEW statuses \in BOOLEAN
  PROVE  Side(q, MarkAll(q, statuses), DOMAIN q.lead, Len(q.lead), q.list, parity)
  <1> DEFINE n == Len(q.lead)
             p == MarkAll(q, statuses)
             r == IF n > 0 THEN Release(p) ELSE p
             mark(i) == [q.lead[i] EXCEPT !.free = TRUE,
                                          !.slot = IF statuses THEN i ELSE @]
             A == p.lead
  <1>1. /\ q \in QueueSet /\ Fits(q)
        /\ q = [lead |-> q.lead, list |-> q.list, max |-> q.max]
        /\ n \in Nat /\ DOMAIN q.lead = 1 .. n /\ q.lead \in Seq(Lead)
        /\ \A i \in 1 .. n : q.lead[i] \in Lead
        /\ q.list \in Seq(Entry) /\ Len(q.list) \in Nat
    BY QueueFields DEF GoodQueue
  <1>2. p = [lead |-> A, list |-> <<>>, max |-> q.max] /\ A = [i \in 1 .. n |-> mark(i)]
    <2> DEFINE X == [i \in DOMAIN q.lead |-> mark(i)]
    <2>1. p = [lead |-> X, list |-> <<>>, max |-> q.max]
      BY DEF MarkAll
    <2>2. X = [i \in 1 .. n |-> mark(i)]
      BY <1>1
    <2> HIDE DEF X, mark, p
    <2> QED
      BY <2>1, <2>2
  <1>3. ASSUME NEW i \in 1 .. n
        PROVE  /\ mark(i).free /\ mark(i).max = q.lead[i].max
               /\ mark(i).buf = q.lead[i].buf
    <2> DEFINE l == q.lead[i]
               s == IF statuses THEN i ELSE l.slot
    <2>1. l \in Lead
      BY <1>1
    <2> HIDE DEF l, s
    <2>2. LET f == [l EXCEPT !.free = TRUE, !.slot = s]
          IN  f.free /\ f.max = l.max /\ f.buf = l.buf
      BY <2>1 DEF Lead
    <2> QED
      BY <2>2 DEF l, s
  <1> HIDE DEF mark, A, p
  <1>4. DOMAIN A = 1 .. n /\ p.lead = A /\ p.list = <<>> /\ p.max = q.max /\ Len(A) = n
    BY <1>1, <1>2
  <1>5. \A i \in 1 .. n : A[i].free /\ A[i].max = q.lead[i].max /\ A[i].buf = q.lead[i].buf
    BY <1>2, <1>3
  <1>6. q.list # <<>> <=> q.lead # <<>>
    <2>1. End(q, 0) = 0 /\ End(q, n) = Len(q.list)
      BY <1>1, Chain
    <2>2. ASSUME n > 0 PROVE Len(q.list) > 0
      <3> DEFINE e == End(q, n)
                 d == End(q, n - 1)
                 c == q.lead[n].num
      <3>1. n \in 1 .. n /\ n - 1 \in 0 .. n
        BY <1>1, <2>2
      <3>2. e = d + c /\ d \in Nat
        BY <1>1, <3>1, Chain
      <3>3. c \in Nat /\ c > 0
        BY <1>1, <3>1, LeadFields
      <3> HIDE DEF e, d, c
      <3>4. e > 0
        BY <3>2, <3>3
      <3> QED
        BY <2>1, <3>4 DEF e
    <2>3. (q.lead = <<>> <=> n = 0) /\ (q.list = <<>> <=> Len(q.list) = 0)
      BY <1>1
    <2>4. n = 0 => Len(q.list) = 0
      BY <2>1
    <2> QED
      BY <1>1, <2>2, <2>3, <2>4
  <1>7. r = Emptied(q)
    <2>1. CASE n = 0
      <3>1. A = <<>>
        BY <1>2, <2>1
      <3>2. r = p
        BY <2>1
      <3> QED
        BY <1>2, <3>1, <3>2 DEF Emptied
    <2>2. CASE n # 0
      <3> DEFINE f == [i \in DOMAIN p.lead |-> IF p.lead[i].free THEN 0 ELSE 1]
                 R == Rank(p)
                 P == {i \in 0 .. n : R[i] = 0}
      <3>1. f \in Seq(Nat) /\ Len(f) = n /\ \A i \in 1 .. n : f[i] = 0
        <4>1. f = [i \in 1 .. n |-> 0]
          BY <1>4, <1>5
        <4> HIDE DEF f
        <4> QED
          BY <1>1, <4>1
      <3>2. R = Sums(f)
        BY DEF Rank
      <3> HIDE DEF f, R
      <3>3. R[0] = 0 /\ \A i \in 1 .. n : R[i] = R[i - 1] + 0
        BY <3>1, <3>2, SumsLoop
      <3>4. 0 \in P /\ \A i \in 1 .. n : i - 1 \in P => i \in P
        BY <1>1, <3>3
      <3>5. \A i \in 0 .. n : i \in P
        <4> HIDE DEF P
        <4> QED
          BY <1>1, <3>4, LoopInduction
      <3>6. R[n] = 0 /\ Len(p.lead) = n
        BY <1>1, <1>4, <3>5
      <3>7. Kept(p) = <<>>
        <4>1. Rank(p)[Len(p.lead)] = 0
          BY <3>6 DEF R
        <4>2. 1 .. Rank(p)[Len(p.lead)] = {}
          BY <4>1
        <4> QED
          BY <4>2 DEF Kept
      <3> DEFINE rank == Rank(p)
                 of(k) == {i \in DOMAIN p.lead : /\ ~p.lead[i].free
                                                 /\ p.lead[i].off < k
                                                 /\ k <= p.lead[i].off + p.lead[i].num}
                 Y == [k \in DOMAIN p.list |->
                         IF rank[Len(p.lead)] = 0 THEN Undefined
                         ELSE IF of(k) = {} THEN p.list[k]
                         ELSE [p.list[k] EXCEPT !.lead = rank[Max(of(k))]]]
      <3>8. Release(p) = [p EXCEPT !.lead = Kept(p), !.list = Y]
        BY DEF Release
      <3>9. Y = <<>>
        <4>1. DOMAIN p.list = {}
          BY <1>4
        <4> QED
          BY <4>1
      <3> HIDE DEF Y
      <3>10. Release(p) = [lead |-> <<>>, list |-> <<>>, max |-> q.max]
        BY <1>2, <3>7, <3>8, <3>9
      <3> QED
        BY <1>1, <2>2, <3>10 DEF Emptied
    <2> QED
      BY <2>1, <2>2
  <1>8. Frees(q, Freed(p), DOMAIN q.lead)
    <2>1. Freed(p) = {A[i] : i \in 1 .. n}
      BY <1>4, <1>5 DEF Freed, Leads
    <2> QED
      BY <1>1, <1>5, <2>1 DEF Frees
  <1>9. Leaves(q, p, r, DOMAIN q.lead, parity)
    <2>1. GoodQueue(r, parity) /\ Remains(q, r, DOMAIN q.lead, <<>>)
      BY <1>7, EmptiedGood
    <2>2. r.max = q.max
      BY <1>7 DEF Emptied
    <2> HIDE DEF r
    <2> QED
      BY <1>1, <1>4, <1>5, <1>8, <2>1, <2>2 DEF Leaves
  <1>10. Holds(q, q.list, DOMAIN q.lead)
    BY HoldsAll
  <1>11. (n > 0 <=> DOMAIN q.lead # {}) /\ (q.lead # <<>> <=> DOMAIN q.lead # {}) /\ n \in 0 .. n
    <2>1. q.lead = <<>> <=> n = 0
      BY <1>1
    <2> HIDE DEF n
    <2>2. n # 0 => 1 \in 1 .. n
      BY <1>1
    <2>3. n = 0 => 1 .. n = {}
      OBVIOUS
    <2> QED
      BY <1>1, <2>1, <2>2, <2>3
  <1> HIDE DEF r
  <1> QED
    BY <1>6, <1>9, <1>10, <1>11 DEF p, r, n, Side

LEMMA SideNamed ==
  ASSUME NEW q, NEW parity, GoodQueue(q, parity), NEW ids, Len(ids) \in Nat,
         DOMAIN ids = 1 .. Len(ids),
         \A a, b \in 1 .. Len(ids) : ids[a] = ids[b] => a = b,
         NEW statuses \in BOOLEAN
  PROVE  LET N == Named(q, ids)
             w == EntriesOf(q, ids)
             t == TakeOut(Mark(q, ids, statuses), Len(w))
         IN  Side(q, t, N, Cardinality(N), w, parity)
  <1> DEFINE n == Len(q.lead)
             N == Named(q, ids)
             w == EntriesOf(q, ids)
             p == Mark(q, ids, statuses)
             t == TakeOut(p, Len(w))
             c == Cardinality(N)
             r == IF c > 0 THEN Release(t) ELSE t
  <1>1. /\ q \in QueueSet /\ n \in Nat /\ DOMAIN q.lead = 1 .. n
        /\ \A i \in 1 .. n : q.lead[i] \in Lead
    BY QueueFields DEF GoodQueue
  <1>2. Holds(q, w, N)
    BY EntriesTaken
  <1>3. Marked(q, p, N) /\ (N = {} => p = q)
    BY MarkGood
  <1>4. N \subseteq DOMAIN q.lead
    BY DEF Named
  <1> HIDE DEF N, w, p, n
  <1>5. c \in 0 .. n /\ (c > 0 <=> N # {}) /\ (N = DOMAIN q.lead => c = n)
    <2>1. IsFiniteSet(1 .. n) /\ Cardinality(1 .. n) = n
      <3>1. 1 \in Int /\ n \in Int /\ (1 > n <=> n = 0) /\ n - 1 + 1 = n
        BY <1>1
      <3> QED
        BY <1>1, <3>1, FS_Interval
    <2>2. N \subseteq 1 .. n
      BY <1>1, <1>4
    <2>3. IsFiniteSet(N) /\ c <= Cardinality(1 .. n)
      BY <2>1, <2>2, FS_Subset
    <2>4. c \in Nat /\ (c = 0 <=> N = {})
      BY <2>3, FS_CardinalityType, FS_EmptySet
    <2>5. N = DOMAIN q.lead => c = n
      BY <1>1, <2>1
    <2> HIDE DEF c
    <2> QED
      BY <1>1, <2>1, <2>3, <2>4, <2>5
  <1>6. w \in Seq(Entry) /\ Len(w) \in Nat /\ (w = <<>> <=> Len(w) = 0)
    BY <1>2 DEF Holds
  <1>7. w # <<>> <=> N # {}
    <2>1. ASSUME N # {} PROVE Len(w) # 0
      <3>1. PICK i \in N : TRUE
        BY <2>1
      <3>2. PICK s \in Nat : s + q.lead[i].num <= Len(w)
        BY <1>2, <3>1 DEF Holds
      <3>3. q.lead[i].num \in Nat /\ q.lead[i].num > 0
        BY <1>1, <1>4, <3>1, LeadFields
      <3> QED
        BY <1>6, <3>2, <3>3
    <2>2. ASSUME Len(w) # 0 PROVE N # {}
      <3>1. 1 \in 1 .. Len(w)
        BY <1>6, <2>2
      <3> QED
        BY <1>2, <3>1 DEF Holds
    <2> QED
      BY <1>6, <2>1, <2>2
  <1>8. Leaves(q, t, r, N, parity)
    <2>1. CASE N = {}
      <3>1. Len(w) = 0 /\ ~(c > 0)
        BY <1>5, <1>6, <1>7, <2>1
      <3>2. t = q /\ r = q
        BY <1>3, <2>1, <3>1 DEF TakeOut
      <3>3. Remains(q, q, {}, [j \in DOMAIN q.lead |-> j])
        BY DEF Remains, Same
      <3> HIDE DEF t, r
      <3> QED
        BY <2>1, <3>2, <3>3 DEF Leaves
    <2>2. CASE N # {}
      <3> DEFINE k == Len(w)
                 S == Place(p)
                 u == TakeOut(p, k)
                 z == Release(u)
      <3>1. k \in Nat /\ k > 0 /\ c > 0
        BY <1>5, <1>6, <1>7, <2>2
      <3>2. k + S[n] = Len(q.list)
        <4>1. S = Sums(Nums(q, N))
          BY <1>3, PlaceOfMarked
        <4> HIDE DEF S
        <4> QED
          BY <1>2, <4>1 DEF Holds, n
      <3> HIDE DEF k, S
      <3>3. /\ GoodQueue(z, parity) /\ z.max = q.max
            /\ \E m : Remains(q, z, N, m)
            /\ Freed(u) = {p.lead[i] : i \in DOMAIN q.lead \cap N}
            /\ DOMAIN u.lead = DOMAIN q.lead
            /\ \A i \in DOMAIN q.lead : Same(u.lead[i], p.lead[i])
        BY <1>3, <3>1, <3>2, ReleaseGood DEF n, S
      <3>4. t = u /\ r = z
        BY <3>1 DEF k
      <3>5. \A i \in DOMAIN q.lead : p.lead[i].max = q.lead[i].max
                                     /\ p.lead[i].buf = q.lead[i].buf
        BY <1>3 DEF Marked
      <3>6. \A i \in DOMAIN q.lead : u.lead[i].max = q.lead[i].max
        BY <3>3, <3>5 DEF Same
      <3>7. Frees(q, Freed(u), N)
        BY <1>4, <3>3, <3>5 DEF Frees
      <3> HIDE DEF t, r, u, z
      <3>8. \A i \in N : u.lead[i].free
        BY <1>3, <1>4, <3>3 DEF Marked, Same
      <3>9. Leaves(q, u, z, N, parity)
        BY <3>3, <3>6, <3>7, <3>8 DEF Leaves
      <3> QED
        BY <3>4, <3>9
    <2> QED
      BY <2>1, <2>2
  <1> HIDE DEF t
  <1> QED
    BY <1>2, <1>4, <1>5, <1>7, <1>8 DEF t, r, N, w, p, n, c, Side

-----------------------------------------------------------------------------
(* The attached buffer. *)

LEMMA BufferFields ==
  ASSUME NEW b \in BufferSet
  PROVE  /\ b.size \in 0 .. MaxBuffer /\ b.used \in 0 .. MaxBuffer
         /\ b.size \in Nat /\ b.used \in Nat
         /\ b.table \in Seq(TableEntry)
         /\ Len(b.table) \in Nat /\ DOMAIN b.table = 1 .. Len(b.table)
         /\ \A i \in 1 .. Len(b.table) : b.table[i] \in TableEntry
         /\ b = [size |-> b.size, used |-> b.used, table |-> b.table]
  BY BoundAssumption DEF BufferSet

LEMMA TableFields ==
  ASSUME NEW e \in TableEntry
  PROVE  e.num \in Nat /\ e.num \in 1 .. MaxNum /\ e.used \in BOOLEAN /\ e.num > 0
  BY BoundAssumption DEF TableEntry

LEMMA RoomLoop ==
  ASSUME NEW t \in Seq(TableEntry)
  PROVE  /\ Room(t) \in [0 .. Len(t) -> Nat]
         /\ Room(t)[0] = 0
         /\ \A i \in 1 .. Len(t) : Room(t)[i] = Room(t)[i - 1] + t[i].num
         /\ \A i, j \in 0 .. Len(t) : i <= j => Room(t)[i] <= Room(t)[j]
  <1> DEFINE n == Len(t)
             f == [i \in DOMAIN t |-> t[i].num]
  <1>1. n \in Nat /\ DOMAIN t = 1 .. n /\ \A i \in 1 .. n : t[i].num \in Nat
    BY TableFields
  <1>2. f = [i \in 1 .. n |-> f[i]] /\ \A i \in 1 .. n : f[i] = t[i].num
    BY <1>1
  <1>3. Room(t) = Sums(f)
    BY DEF Room
  <1> HIDE DEF n, f
  <1>4. f \in Seq(Nat) /\ Len(f) = n
    BY <1>1, <1>2
  <1>5. /\ Sums(f) \in [0 .. n -> Nat] /\ Sums(f)[0] = 0
        /\ \A i \in 1 .. n : Sums(f)[i] = Sums(f)[i - 1] + f[i]
        /\ \A i, j \in 0 .. n : i <= j => Sums(f)[i] <= Sums(f)[j]
    BY <1>4, SumsLoop, SumsGrow
  <1> QED
    BY <1>2, <1>3, <1>5 DEF n

LEMMA RoomPrefix ==
  ASSUME NEW t \in Seq(TableEntry), NEW u \in Seq(TableEntry), NEW n \in Nat,
         n <= Len(t), n <= Len(u), \A i \in 1 .. n : t[i].num = u[i].num
  PROVE  \A i \in 0 .. n : Room(t)[i] = Room(u)[i]
  <1> DEFINE f == [i \in DOMAIN t |-> t[i].num]
             g == [i \in DOMAIN u |-> u[i].num]
             k == Len(t)
             l == Len(u)
  <1>1. /\ k \in Nat /\ DOMAIN t = 1 .. k /\ \A i \in 1 .. k : t[i].num \in Nat
        /\ l \in Nat /\ DOMAIN u = 1 .. l /\ \A i \in 1 .. l : u[i].num \in Nat
    BY TableFields
  <1>2. f = [i \in 1 .. k |-> f[i]] /\ \A i \in 1 .. k : f[i] = t[i].num
    BY <1>1
  <1>3. g = [i \in 1 .. l |-> g[i]] /\ \A i \in 1 .. l : g[i] = u[i].num
    BY <1>1
  <1>4. Room(t) = Sums(f) /\ Room(u) = Sums(g)
    BY DEF Room
  <1>5. n <= k /\ n <= l
    OBVIOUS
  <1> HIDE DEF f, g, k, l
  <1>6. f \in Seq(Nat) /\ Len(f) = k
    BY <1>1, <1>2
  <1>7. g \in Seq(Nat) /\ Len(g) = l
    BY <1>1, <1>3
  <1>8. \A i \in 1 .. n : f[i] = g[i]
    <2> SUFFICES ASSUME NEW i \in 1 .. n PROVE f[i] = g[i]
      OBVIOUS
    <2>1. i \in 1 .. k /\ i \in 1 .. l
      BY <1>1, <1>5
    <2> QED
      BY <1>2, <1>3, <2>1
  <1>9. \A i \in 0 .. n : Sums(f)[i] = Sums(g)[i]
    BY <1>5, <1>6, <1>7, <1>8, SumsPrefix
  <1> QED
    BY <1>4, <1>9

(* An attached buffer of which nothing is in use. *)
LEMMA EmptyBuffer ==
  ASSUME NEW q, \A i \in DOMAIN q.lead : ~(q.lead[i].buf > 0), NEW s \in 0 .. MaxBuffer
  PROVE  GoodBuffer(q, [size |-> s, used |-> 0, table |-> <<>>])
  <1> DEFINE b == [size |-> s, used |-> 0, table |-> <<>>]
  <1>1. b.size = s /\ b.used = 0 /\ b.table = <<>>
    OBVIOUS
  <1>2. b \in BufferSet
    BY BoundAssumption DEF BufferSet
  <1>3. s = 0 => b = NoBuffer
    BY DEF NoBuffer
  <1> HIDE DEF b
  <1>4. b.table \in Seq(TableEntry) /\ Len(b.table) = 0 /\ DOMAIN b.table = {}
    BY <1>1
  <1>5. Room(b.table)[0] = 0
    BY <1>4, RoomLoop
  <1>6. s \in Nat
    BY BoundAssumption
  <1>7. GoodBuffer(q, b)
    BY <1>1, <1>2, <1>3, <1>4, <1>5, <1>6 DEF GoodBuffer, LooseBuffer
  <1> QED
    BY <1>7 DEF b

LEMMA NoBufferNoBput ==
  ASSUME NEW q, NEW b, GoodBuffer(q, b), b.size = 0
  PROVE  b = NoBuffer /\ \A i \in DOMAIN q.lead : ~(q.lead[i].buf > 0)
  <1>1. b = NoBuffer
    BY DEF GoodBuffer, LooseBuffer
  <1>2. DOMAIN b.table = {}
    BY <1>1 DEF NoBuffer
  <1> QED
    BY <1>1, <1>2 DEF GoodBuffer, LooseBuffer

LEMMA FreeLoose ==
  ASSUME NEW q, NEW b, LooseBuffer(q, b), b.size # 0,
         NEW q2, NEW gone, NEW m, Remains(q, q2, gone, m), gone \subseteq DOMAIN q.lead,
         NEW leads, Frees(q, leads, gone)
  PROVE  LooseBuffer(q2, FreeEntries(b, leads)) /\ FreeEntries(b, leads).size = b.size
  <1> DEFINE freed == {l.buf : l \in leads}
             t == b.table
             n == Len(t)
             X == [i \in DOMAIN t |-> IF i \in freed THEN [t[i] EXCEPT !.used = FALSE]
                                      ELSE t[i]]
             c == FreeEntries(b, leads)
  <1>1. /\ b \in BufferSet
        /\ b = [size |-> b.size, used |-> b.used, table |-> t]
        /\ t \in Seq(TableEntry) /\ n \in Nat /\ DOMAIN t = 1 .. n
        /\ \A i \in 1 .. n : t[i] \in TableEntry
        /\ b.size \in 0 .. MaxBuffer /\ b.used \in 0 .. MaxBuffer
    BY BufferFields DEF LooseBuffer
  <1>2. c = [b EXCEPT !.table = X]
    BY DEF FreeEntries
  <1>3. ASSUME NEW i \in 1 .. n
        PROVE  /\ X[i] \in TableEntry /\ X[i].num = t[i].num
               /\ X[i].used <=> t[i].used /\ i \notin freed
    <2>1. t[i] \in TableEntry
      BY <1>1
    <2>2. CASE i \in freed
      <3>1. X[i] = [t[i] EXCEPT !.used = FALSE]
        BY <1>1, <2>2
      <3> QED
        BY <2>1, <2>2, <3>1 DEF TableEntry
    <2>3. CASE i \notin freed
      <3>1. X[i] = t[i]
        BY <1>1, <2>3
      <3> QED
        BY <2>1, <2>3, <3>1
    <2> QED
      BY <2>2, <2>3
  <1>4. X = [i \in 1 .. n |-> X[i]]
    BY <1>1
  <1> HIDE DEF X, n, c
  <1>5. X \in Seq(TableEntry) /\ Len(X) = n /\ DOMAIN X = 1 .. n
    BY <1>1, <1>3, <1>4
  <1>6. c.size = b.size /\ c.used = b.used /\ c.table = X
        /\ c = [size |-> b.size, used |-> b.used, table |-> X]
    BY <1>1, <1>2
  <1>7. c \in BufferSet
    BY <1>1, <1>5, <1>6 DEF BufferSet
  <1>8. \A i \in 0 .. n : Room(X)[i] = Room(t)[i]
    <2>1. n <= n /\ n = Len(t)
      BY <1>1 DEF n
    <2> QED
      BY <1>1, <1>3, <1>5, <2>1, RoomPrefix
  <1>9. /\ \A j \in DOMAIN q2.lead : /\ m[j] \in DOMAIN q.lead /\ m[j] \notin gone
                                     /\ Same(q2.lead[j], q.lead[m[j]])
        /\ \A i, j \in DOMAIN q2.lead : m[i] = m[j] => i = j
        /\ \A i \in DOMAIN q.lead : i \in gone \/ \E j \in DOMAIN q2.lead : m[j] = i
    BY DEF Remains
  <1>10. ASSUME NEW j \in DOMAIN q2.lead
         PROVE  /\ q2.lead[j].buf = q.lead[m[j]].buf
                /\ q2.lead[j].num = q.lead[m[j]].num
                /\ q2.lead[j].at = q.lead[m[j]].at
    BY <1>9 DEF Same
  <1>11. ASSUME NEW i \in DOMAIN q.lead, q.lead[i].buf > 0
         PROVE  /\ q.lead[i].buf \in 1 .. n
                /\ t[q.lead[i].buf].used
                /\ t[q.lead[i].buf].num = q.lead[i].num
                /\ q.lead[i].at = Room(t)[q.lead[i].buf - 1]
    BY <1>1, <1>11 DEF LooseBuffer
  <1>12. \A i, j \in DOMAIN q.lead :
            q.lead[i].buf > 0 /\ q.lead[i].buf = q.lead[j].buf => i = j
    BY DEF LooseBuffer
  <1>13. ASSUME NEW j \in DOMAIN q2.lead, q2.lead[j].buf > 0
         PROVE  /\ q2.lead[j].buf \in DOMAIN X
                /\ X[q2.lead[j].buf].used
                /\ X[q2.lead[j].buf].num = q2.lead[j].num
                /\ q2.lead[j].at = Room(X)[q2.lead[j].buf - 1]
    <2> DEFINE i == m[j]
               u == q.lead[i].buf
    <2>1. /\ i \in DOMAIN q.lead /\ i \notin gone /\ q2.lead[j].buf = u
          /\ q2.lead[j].num = q.lead[i].num /\ q2.lead[j].at = q.lead[i].at /\ u > 0
      BY <1>9, <1>10, <1>13
    <2> HIDE DEF i
    <2>2. u \in 1 .. n /\ t[u].used /\ t[u].num = q.lead[i].num /\ q.lead[i].at = Room(t)[u - 1]
      BY <1>11, <2>1
    <2>3. u \notin freed
      <3>1. SUFFICES ASSUME NEW k \in gone, q.lead[k].buf = u PROVE FALSE
        BY DEF Frees
      <3>2. k \in DOMAIN q.lead
        OBVIOUS
      <3>3. k = i
        BY <1>12, <2>1, <3>1, <3>2
      <3> QED
        BY <2>1, <3>3
    <2>4. u - 1 \in 0 .. n
      BY <1>1, <2>2
    <2> HIDE DEF u, freed
    <2> QED
      BY <1>3, <1>5, <1>8, <2>1, <2>2, <2>3, <2>4
  <1>14. ASSUME NEW i \in DOMAIN q2.lead, NEW j \in DOMAIN q2.lead,
                q2.lead[i].buf > 0, q2.lead[i].buf = q2.lead[j].buf
         PROVE  i = j
    <2>1. m[i] = m[j]
      BY <1>9, <1>10, <1>12, <1>14
    <2> QED
      BY <1>9, <2>1
  <1>15. ASSUME NEW x \in DOMAIN X, X[x].used PROVE \E j \in DOMAIN q2.lead : q2.lead[j].buf = x
    <2>1. x \in 1 .. n /\ t[x].used /\ x \notin freed
      <3> HIDE DEF freed
      <3> QED
        BY <1>3, <1>5, <1>15
    <2>2. PICK i \in DOMAIN q.lead : q.lead[i].buf = x
      BY <1>1, <2>1 DEF LooseBuffer
    <2>3. i \notin gone
      BY <2>1, <2>2 DEF Frees
    <2> QED
      BY <1>9, <1>10, <2>2, <2>3
  <1>16. b.used = Room(X)[n] /\ b.used <= b.size
    <2>1. n \in 0 .. n
      BY <1>1
    <2>2. b.used = Room(t)[n] /\ b.used <= b.size
      BY DEF LooseBuffer, n
    <2> QED
      BY <1>8, <2>1, <2>2
  <1>17. LooseBuffer(q2, c)
    BY <1>5, <1>6, <1>7, <1>13, <1>14, <1>15, <1>16 DEF LooseBuffer
  <1> QED
    BY <1>6, <1>17 DEF c

LEMMA CoalesceGood ==
  ASSUME NEW q, NEW b, LooseBuffer(q, b), b.size # 0
  PROVE  GoodBuffer(q, Coalesce(b))
  <1> DEFINE t == b.table
             n == Len(t)
             R == Room(t)
             K == {0} \cup {i \in DOMAIN t : t[i].used}
             x == Max(K)
             X == SubSeq(t, 1, x)
             c == Coalesce(b)
             u == b.used - (R[n] - R[x])
  <1>1. /\ b \in BufferSet
        /\ b = [size |-> b.size, used |-> b.used, table |-> t]
        /\ t \in Seq(TableEntry) /\ n \in Nat /\ DOMAIN t = 1 .. n
        /\ b.size \in 0 .. MaxBuffer /\ b.size \in Nat
        /\ b.used = R[n] /\ b.used <= b.size
    BY BufferFields DEF LooseBuffer
  <1>2. x \in K /\ \A i \in K : i <= x
    <2>1. K \subseteq Nat /\ K # {} /\ \A i \in K : i <= n
      BY <1>1
    <2>2. \E y \in K : \A i \in K : i <= y
      <3> HIDE DEF K, n
      <3> QED
        BY <1>1, <2>1, LargestNat
    <2>3. PICK y \in K : \A i \in K : i <= y
      BY <2>2
    <2>4. \A i \in K : y >= i
      BY <2>1, <2>3
    <2>5. x \in K /\ \A i \in K : x >= i
      <3> HIDE DEF K
      <3> QED
        BY <2>4 DEF Max
    <2> HIDE DEF x
    <2> QED
      BY <2>1, <2>5
  <1>3. c = [b EXCEPT !.table = X, !.used = u]
    BY DEF Coalesce
  <1>4. /\ R \in [0 .. n -> Nat] /\ \A i, j \in 0 .. n : i <= j => R[i] <= R[j]
    BY <1>1, RoomLoop
  <1>5. /\ x \in 0 .. n /\ x \in Nat /\ x <= n
        /\ x # 0 => t[x].used
        /\ \A i \in 1 .. n : t[i].used => i \in 1 .. x
    <2> HIDE DEF x
    <2>1. x = 0 \/ (x \in 1 .. n /\ t[x].used)
      BY <1>1, <1>2
    <2>2. \A i \in 1 .. n : t[i].used => i <= x
      BY <1>1, <1>2
    <2> HIDE DEF K, n
    <2> QED
      BY <1>1, <2>1, <2>2
  <1> HIDE DEF K, x, R, c
  <1>6. X \in Seq(TableEntry) /\ Len(X) = x /\ \A i \in 1 .. x : X[i] = t[i]
    BY <1>1, <1>5
  <1> HIDE DEF X
  <1>7. DOMAIN X = 1 .. x
    BY <1>6
  <1>8. u = R[x] /\ u \in Nat /\ u <= b.size /\ u \in 0 .. MaxBuffer
    <2> DEFINE y == R[n]
               z == R[x]
    <2>1. n \in 0 .. n
      BY <1>1
    <2>2. y \in Nat /\ z \in Nat /\ z <= y
      BY <1>4, <1>5, <2>1
    <2>3. b.used = y /\ u = b.used - (y - z)
      BY <1>1
    <2> HIDE DEF y, z, u
    <2>4. u = z
      BY <2>2, <2>3
    <2>5. z <= b.size /\ z \in 0 .. MaxBuffer
      BY <1>1, <2>2, <2>3, BoundAssumption
    <2> QED
      BY <2>2, <2>4, <2>5 DEF z
  <1> HIDE DEF u
  <1>9. c = [size |-> b.size, used |-> u, table |-> X]
    <2> HIDE DEF t, n
    <2> QED
      BY <1>1, <1>3
  <1>10. c.size = b.size /\ c.used = u /\ c.table = X
    BY <1>9
  <1>11. c \in BufferSet
    BY <1>1, <1>6, <1>8, <1>9 DEF BufferSet
  <1>12. \A i \in 0 .. x : Room(X)[i] = R[i]
    <2>1. x <= Len(X) /\ x <= Len(t) /\ \A i \in 1 .. x : X[i].num = t[i].num
      BY <1>5, <1>6
    <2> QED
      BY <1>1, <1>5, <1>6, <2>1, RoomPrefix DEF R
  <1>13. u = Room(X)[x]
    <2>1. x \in 0 .. x
      BY <1>5
    <2> QED
      BY <1>8, <1>12, <2>1
  <1>14. ASSUME NEW i \in DOMAIN q.lead, q.lead[i].buf > 0
         PROVE  /\ q.lead[i].buf \in 1 .. x
                /\ X[q.lead[i].buf].used
                /\ X[q.lead[i].buf].num = q.lead[i].num
                /\ q.lead[i].at = Room(X)[q.lead[i].buf - 1]
    <2> DEFINE y == q.lead[i].buf
    <2>1. y \in 1 .. n /\ t[y].used /\ t[y].num = q.lead[i].num /\ q.lead[i].at = R[y - 1]
      BY <1>1, <1>14 DEF LooseBuffer, R
    <2> HIDE DEF y
    <2>2. y \in 1 .. x /\ y - 1 \in 0 .. x
      BY <1>5, <2>1
    <2>3. X[y] = t[y] /\ Room(X)[y - 1] = R[y - 1]
      BY <1>6, <1>12, <2>2
    <2>4. y \in 1 .. x /\ X[y].used /\ X[y].num = q.lead[i].num /\ q.lead[i].at = Room(X)[y - 1]
      BY <2>1, <2>2, <2>3
    <2> QED
      BY <2>4 DEF y
  <1>15. ASSUME NEW y \in 1 .. x, X[y].used PROVE \E i \in DOMAIN q.lead : q.lead[i].buf = y
    <2>1. y \in DOMAIN t
      BY <1>1, <1>5
    <2>2. t[y].used
      BY <1>6, <1>15
    <2> QED
      BY <2>1, <2>2 DEF LooseBuffer
  <1>16. \A i, j \in DOMAIN q.lead :
            q.lead[i].buf > 0 /\ q.lead[i].buf = q.lead[j].buf => i = j
    BY DEF LooseBuffer
  <1>17. X # <<>> => X[x].used
    <2>1. CASE x = 0
      BY <1>6, <2>1
    <2>2. CASE x # 0
      <3>1. x \in 1 .. x
        BY <1>5, <2>2
      <3> QED
        BY <1>5, <1>6, <2>2, <3>1
    <2> QED
      BY <2>1, <2>2
  <1>18. LooseBuffer(q, c)
    BY <1>6, <1>7, <1>8, <1>10, <1>11, <1>13, <1>14, <1>15, <1>16 DEF LooseBuffer
  <1>19. GoodBuffer(q, c)
    BY <1>6, <1>10, <1>17, <1>18 DEF GoodBuffer
  <1> QED
    BY <1>19 DEF c

LEMMA ReclaimGood ==
  ASSUME NEW q, NEW b, GoodBuffer(q, b),
         NEW q2, NEW gone, NEW m, Remains(q, q2, gone, m), gone \subseteq DOMAIN q.lead,
         NEW leads, Frees(q, leads, gone)
  PROVE  GoodBuffer(q2, Reclaim(b, leads))
  <1>1. CASE b.size = 0
    <2>1. b = NoBuffer /\ \A i \in DOMAIN q.lead : ~(q.lead[i].buf > 0)
      BY <1>1, NoBufferNoBput
    <2>2. \A j \in DOMAIN q2.lead : ~(q2.lead[j].buf > 0)
      BY <2>1 DEF Remains, Same
    <2>3. 0 \in 0 .. MaxBuffer
      BY BoundAssumption
    <2>4. GoodBuffer(q2, NoBuffer)
      BY <2>2, <2>3, EmptyBuffer DEF NoBuffer
    <2> QED
      BY <1>1, <2>1, <2>4 DEF Reclaim
  <1>2. CASE b.size # 0
    <2> DEFINE c == FreeEntries(b, leads)
    <2>0. LooseBuffer(q, b)
      BY DEF GoodBuffer
    <2>1. LooseBuffer(q2, c) /\ c.size = b.size
      BY <1>2, <2>0, FreeLoose
    <2>2. Reclaim(b, leads) = Coalesce(c)
      BY <1>2 DEF Reclaim
    <2> HIDE DEF c
    <2>3. GoodBuffer(q2, Coalesce(c))
      BY <1>2, <2>1, CoalesceGood
    <2> QED
      BY <2>2, <2>3
  <1> QED
    BY <1>1, <1>2

(***************************************************************************)
(* r is q with a new lead at a place; h says where the others were.        *)
(***************************************************************************)
Joins(q, r, place, new, h) ==
    /\ place \in DOMAIN r.lead /\ Same(r.lead[place], new)
    /\ \A i \in DOMAIN r.lead : i # place => /\ h[i] \in DOMAIN q.lead
                                             /\ Same(r.lead[i], q.lead[h[i]])
    /\ \A i, j \in DOMAIN r.lead : i # place /\ j # place /\ h[i] = h[j] => i = j
    /\ \A j \in DOMAIN q.lead : \E i \in DOMAIN r.lead : i # place /\ h[i] = j

LEMMA InsertJoins ==
  ASSUME NEW q, NEW parity, GoodQueue(q, parity),
         NEW new \in Lead, NEW place \in 1 .. Len(q.lead) + 1, NEW recs \in Nat,
         ~new.free, new.id % 2 = parity,
         \A i \in DOMAIN q.lead : q.lead[i].id < new.id
  PROVE  /\ GoodQueue(Insert(q, place, new, recs), parity)
         /\ \E h : Joins(q, Insert(q, place, new, recs), place, new, h)
  <1> DEFINE r == Insert(q, place, new, recs)
             n == Len(q.lead)
             h == [i \in 1 .. n + 1 |-> IF i < place THEN i ELSE i - 1]
  <1>1. /\ GoodQueue(r, parity)
        /\ Len(r.lead) = n + 1
        /\ \A i \in 1 .. n + 1 :
             /\ i < place => r.lead[i] = q.lead[i]
             /\ i = place => Same(r.lead[i], new)
             /\ i > place => Same(r.lead[i], q.lead[i - 1])
    BY InsertGood
  <1>2. n \in Nat /\ DOMAIN q.lead = 1 .. n /\ place \in 1 .. n + 1
    BY QueueFields DEF GoodQueue
  <1>3. DOMAIN r.lead = 1 .. Len(r.lead)
    BY <1>1, QueueFields DEF GoodQueue
  <1> HIDE DEF r, n
  <1>4. ASSUME NEW i \in 1 .. n + 1, i # place
        PROVE  /\ h[i] \in 1 .. n /\ (i < place => h[i] = i) /\ (i > place => h[i] = i - 1)
               /\ i < place \/ i > place
    BY <1>2, <1>4
  <1>5. ASSUME NEW i \in 1 .. n + 1, i # place
        PROVE  Same(r.lead[i], q.lead[h[i]])
    <2>1. CASE i < place
      <3>1. h[i] = i /\ r.lead[i] = q.lead[i]
        BY <1>1, <1>4, <1>5, <2>1
      <3> QED
        BY <3>1 DEF Same
    <2>2. CASE i > place
      BY <1>1, <1>4, <1>5, <2>2
    <2> QED
      BY <1>4, <1>5, <2>1, <2>2
  <1>6. ASSUME NEW i \in 1 .. n + 1, NEW j \in 1 .. n + 1, i # place, j # place, h[i] = h[j]
        PROVE  i = j
    BY <1>2, <1>6
  <1>7. ASSUME NEW j \in 1 .. n PROVE \E i \in 1 .. n + 1 : i # place /\ h[i] = j
    <2>1. CASE j < place
      <3>1. j \in 1 .. n + 1 /\ j # place /\ h[j] = j
        BY <1>2, <2>1
      <3> QED
        BY <3>1
    <2>2. CASE ~(j < place)
      <3>1. j + 1 \in 1 .. n + 1 /\ j + 1 # place /\ h[j + 1] = j
        BY <1>2, <2>2
      <3> QED
        BY <3>1
    <2> QED
      BY <2>1, <2>2
  <1> HIDE DEF h
  <1>8. Joins(q, r, place, new, h)
    BY <1>1, <1>2, <1>3, <1>4, <1>5, <1>6, <1>7 DEF Joins
  <1> QED
    BY <1>1, <1>8 DEF r

(* A request that does not use the attached buffer. *)
LEMMA JoinPlain ==
  ASSUME NEW q, NEW r, NEW place, NEW new, NEW h, Joins(q, r, place, new, h),
         new.buf = 0, NEW b, GoodBuffer(q, b)
  PROVE  GoodBuffer(r, b)
  <1>1. /\ place \in DOMAIN r.lead /\ r.lead[place].buf = 0
        /\ \A i \in DOMAIN r.lead : i # place =>
             /\ h[i] \in DOMAIN q.lead
             /\ r.lead[i].buf = q.lead[h[i]].buf
             /\ r.lead[i].num = q.lead[h[i]].num
             /\ r.lead[i].at = q.lead[h[i]].at
        /\ \A i, j \in DOMAIN r.lead : i # place /\ j # place /\ h[i] = h[j] => i = j
        /\ \A j \in DOMAIN q.lead : \E i \in DOMAIN r.lead : i # place /\ h[i] = j
    BY DEF Joins, Same
  <1>2. /\ b \in BufferSet
        /\ b.size = 0 => b = NoBuffer
        /\ b.used = Room(b.table)[Len(b.table)]
        /\ b.used <= b.size
        /\ \A i \in DOMAIN q.lead : q.lead[i].buf > 0 =>
             /\ q.lead[i].buf \in DOMAIN b.table
             /\ b.table[q.lead[i].buf].used
             /\ b.table[q.lead[i].buf].num = q.lead[i].num
             /\ q.lead[i].at = Room(b.table)[q.lead[i].buf - 1]
        /\ \A i, j \in DOMAIN q.lead :
             q.lead[i].buf > 0 /\ q.lead[i].buf = q.lead[j].buf => i = j
        /\ \A t \in DOMAIN b.table :
             b.table[t].used => \E i \in DOMAIN q.lead : q.lead[i].buf = t
    BY DEF GoodBuffer, LooseBuffer
  <1>3. ASSUME NEW i \in DOMAIN r.lead, r.lead[i].buf > 0
        PROVE  /\ i # place
               /\ r.lead[i].buf \in DOMAIN b.table
               /\ b.table[r.lead[i].buf].used
               /\ b.table[r.lead[i].buf].num = r.lead[i].num
               /\ r.lead[i].at = Room(b.table)[r.lead[i].buf - 1]
    <2>1. i # place
      BY <1>1, <1>3
    <2> QED
      BY <1>1, <1>2, <1>3, <2>1
  <1>4. ASSUME NEW i \in DOMAIN r.lead, NEW j \in DOMAIN r.lead,
               r.lead[i].buf > 0, r.lead[i].buf = r.lead[j].buf
        PROVE  i = j
    <2>1. i # place /\ j # place
      BY <1>3, <1>4
    <2>2. h[i] = h[j]
      BY <1>1, <1>2, <1>4, <2>1
    <2> QED
      BY <1>1, <2>1, <2>2
  <1>5. ASSUME NEW t \in DOMAIN b.table, b.table[t].used
        PROVE  \E i \in DOMAIN r.lead : r.lead[i].buf = t
    <2>1. PICK j \in DOMAIN q.lead : q.lead[j].buf = t
      BY <1>2, <1>5
    <2>2. PICK i \in DOMAIN r.lead : i # place /\ h[i] = j
      BY <1>1
    <2>3. r.lead[i].buf = t
      BY <1>1, <2>1, <2>2
    <2> QED
      BY <2>3
  <1>6. LooseBuffer(r, b)
    BY <1>2, <1>3, <1>4, <1>5 DEF LooseBuffer
  <1> QED
    BY <1>6 DEF GoodBuffer

(* A bput request: its data is appended to the attached buffer. *)
LEMMA JoinBuffered ==
  ASSUME NEW q, NEW r, NEW place, NEW new \in Lead, NEW h, Joins(q, r, place, new, h),
         NEW b, GoodBuffer(q, b), b.size # 0, new.buf = Len(b.table) + 1,
         new.at = b.used, b.size - b.used >= new.num, NEW num, num = new.num
  PROVE  GoodBuffer(r, [b EXCEPT !.used = @ + num,
                                 !.table = Append(@, [num |-> num, used |-> TRUE])])
  <1> DEFINE t == b.table
             n == Len(t)
             e == [num |-> num, used |-> TRUE]
             X == Append(t, e)
             u == b.used + num
             c == [b EXCEPT !.used = u, !.table = X]
             k == n + 1
  <1>1. /\ b = [size |-> b.size, used |-> b.used, table |-> t]
        /\ t \in Seq(TableEntry) /\ n \in Nat /\ DOMAIN t = 1 .. n
        /\ \A i \in 1 .. n : t[i] \in TableEntry
        /\ b.size \in 0 .. MaxBuffer /\ b.size \in Nat /\ b.used \in Nat
        /\ b.used = Room(t)[n]
    BY BufferFields DEF GoodBuffer, LooseBuffer
  <1>2. num \in Nat /\ num > 0 /\ num \in 1 .. MaxNum
    BY LeadFields
  <1>3. e \in TableEntry /\ e.num = num /\ e.used
    BY <1>2 DEF TableEntry
  <1> HIDE DEF e, n
  <1>4. X \in Seq(TableEntry) /\ Len(X) = k /\ X[k] = e /\ \A i \in 1 .. n : X[i] = t[i]
    BY <1>1, <1>3 DEF n
  <1> HIDE DEF X
  <1>5. k \in Nat /\ k \in 1 .. k /\ k - 1 = n /\ k # 0 /\ DOMAIN X = 1 .. k
        /\ (\A i \in 1 .. k : i = k \/ i \in 1 .. n) /\ (\A i \in 1 .. n : i \in 1 .. k /\ i # k)
    BY <1>1, <1>4
  <1>6. u \in 0 .. MaxBuffer /\ u <= b.size
    BY <1>1, <1>2, BoundAssumption
  <1>7. \A i \in 0 .. n : Room(X)[i] = Room(t)[i]
    <2>1. n <= Len(X) /\ n <= Len(t) /\ \A i \in 1 .. n : X[i].num = t[i].num
      <3>1. n <= n /\ n <= k /\ n = Len(t)
        BY <1>1 DEF n
      <3> QED
        BY <1>4, <3>1
    <2> QED
      BY <1>1, <1>4, <2>1, RoomPrefix
  <1>8. Room(X)[k] = u
    <2>1. Room(X)[k] = Room(X)[k - 1] + X[k].num
      <3> HIDE DEF k
      <3> QED
        BY <1>4, <1>5, RoomLoop
    <2>2. n \in 0 .. n
      BY <1>1
    <2> HIDE DEF k
    <2> QED
      BY <1>1, <1>3, <1>4, <1>5, <1>7, <2>1, <2>2
  <1> HIDE DEF u, k, c
  <1>9. c = [size |-> b.size, used |-> u, table |-> X]
    <2>1. b = [size |-> b.size, used |-> b.used, table |-> t]
      BY <1>1
    <2>2. c = [b EXCEPT !.used = u, !.table = X]
      BY DEF c
    <2> HIDE DEF t
    <2> QED
      BY <2>1, <2>2
  <1>10. c.size = b.size /\ c.used = u /\ c.table = X
    BY <1>9
  <1>11. c \in BufferSet
    BY <1>1, <1>4, <1>6, <1>9 DEF BufferSet
  <1>12. /\ place \in DOMAIN r.lead /\ r.lead[place].buf = k
         /\ r.lead[place].num = num /\ r.lead[place].at = b.used
         /\ \A i \in DOMAIN r.lead : i # place =>
             /\ h[i] \in DOMAIN q.lead
             /\ r.lead[i].buf = q.lead[h[i]].buf
             /\ r.lead[i].num = q.lead[h[i]].num
             /\ r.lead[i].at = q.lead[h[i]].at
         /\ \A i, j \in DOMAIN r.lead : i # place /\ j # place /\ h[i] = h[j] => i = j
         /\ \A j \in DOMAIN q.lead : \E i \in DOMAIN r.lead : i # place /\ h[i] = j
    BY DEF Joins, Same, k, n
  <1>13. /\ \A i \in DOMAIN q.lead : q.lead[i].buf > 0 =>
             /\ q.lead[i].buf \in 1 .. n
             /\ t[q.lead[i].buf].used
             /\ t[q.lead[i].buf].num = q.lead[i].num
             /\ q.lead[i].at = Room(t)[q.lead[i].buf - 1]
         /\ \A i, j \in DOMAIN q.lead :
             q.lead[i].buf > 0 /\ q.lead[i].buf = q.lead[j].buf => i = j
         /\ \A x \in 1 .. n :
             t[x].used => \E i \in DOMAIN q.lead : q.lead[i].buf = x
    BY <1>1 DEF GoodBuffer, LooseBuffer
  <1>14. ASSUME NEW i \in DOMAIN r.lead, i # place, r.lead[i].buf > 0
         PROVE  /\ r.lead[i].buf \in 1 .. n /\ r.lead[i].buf \in 1 .. k
                /\ r.lead[i].buf # k
                /\ X[r.lead[i].buf].used
                /\ X[r.lead[i].buf].num = r.lead[i].num
                /\ r.lead[i].at = Room(X)[r.lead[i].buf - 1]
    <2> DEFINE y == r.lead[i].buf
    <2>1. /\ y \in 1 .. n /\ t[y].used /\ t[y].num = r.lead[i].num
          /\ r.lead[i].at = Room(t)[y - 1]
      BY <1>12, <1>13, <1>14
    <2> HIDE DEF y
    <2>2. y - 1 \in 0 .. n /\ y \in 1 .. k /\ y # k
      BY <1>1, <1>5, <2>1
    <2>3. y \in 1 .. n /\ y \in 1 .. k /\ y # k /\ X[y].used /\ X[y].num = r.lead[i].num
          /\ r.lead[i].at = Room(X)[y - 1]
      BY <1>4, <1>7, <2>1, <2>2
    <2> QED
      BY <2>3 DEF y
  <1>15. /\ r.lead[place].buf \in 1 .. k /\ X[r.lead[place].buf].used
         /\ X[r.lead[place].buf].num = r.lead[place].num
         /\ r.lead[place].at = Room(X)[r.lead[place].buf - 1]
    <2>1. n \in 0 .. n
      BY <1>1
    <2> QED
      BY <1>1, <1>3, <1>4, <1>5, <1>7, <1>12, <2>1
  <1>16. ASSUME NEW i \in DOMAIN r.lead, r.lead[i].buf > 0
         PROVE  /\ r.lead[i].buf \in 1 .. k
                /\ X[r.lead[i].buf].used
                /\ X[r.lead[i].buf].num = r.lead[i].num
                /\ r.lead[i].at = Room(X)[r.lead[i].buf - 1]
    <2>1. CASE i = place
      BY <1>15, <2>1
    <2>2. CASE i # place
      BY <1>14, <1>16, <2>2
    <2> QED
      BY <2>1, <2>2
  <1>17. ASSUME NEW i \in DOMAIN r.lead, NEW j \in DOMAIN r.lead,
                r.lead[i].buf > 0, r.lead[i].buf = r.lead[j].buf
         PROVE  i = j
    <2>1. CASE i = place
      <3>1. r.lead[j].buf = k /\ r.lead[j].buf > 0
        BY <1>12, <1>17, <2>1
      <3>2. j = place
        BY <1>14, <3>1
      <3> QED
        BY <2>1, <3>2
    <2>2. CASE i # place
      <3>1. j # place
        BY <1>12, <1>14, <1>17, <2>2
      <3>2. h[i] = h[j]
        BY <1>12, <1>13, <1>17, <2>2, <3>1
      <3> QED
        BY <1>12, <2>2, <3>1, <3>2
    <2> QED
      BY <2>1, <2>2
  <1>18. ASSUME NEW x \in 1 .. k, X[x].used
         PROVE  \E i \in DOMAIN r.lead : r.lead[i].buf = x
    <2>1. CASE x = k
      BY <1>12, <2>1
    <2>2. CASE x \in 1 .. n
      <3>1. PICK j \in DOMAIN q.lead : q.lead[j].buf = x
        BY <1>4, <1>13, <1>18, <2>2
      <3>2. PICK i \in DOMAIN r.lead : i # place /\ h[i] = j
        BY <1>12
      <3>3. r.lead[i].buf = x
        BY <1>12, <3>1, <3>2
      <3> QED
        BY <3>3
    <2> QED
      BY <1>5, <2>1, <2>2
  <1>19. LooseBuffer(r, c)
    BY <1>4, <1>5, <1>6, <1>8, <1>10, <1>11, <1>16, <1>17, <1>18 DEF LooseBuffer
  <1>20. GoodBuffer(r, c)
    BY <1>3, <1>4, <1>10, <1>19 DEF GoodBuffer
  <1> QED
    BY <1>20 DEF c, u, X, e, t

-----------------------------------------------------------------------------
(* Posting a request keeps the invariant. *)

(* The place of a new lead: any of the places there are. *)
LEMMA PlaceInQueue ==
  ASSUME NEW q \in QueueSet, NEW v
  PROVE  SortedPlace(q, v) \in 1 .. Len(q.lead) + 1
  <1> DEFINE n == Len(q.lead)
             K == {0} \cup {i \in DOMAIN q.lead : Begin[q.lead[i].var] <= Begin[v]}
             x == Max(K)
  <1>1. n \in Nat /\ DOMAIN q.lead = 1 .. n
    BY QueueFields
  <1>2. K \subseteq Nat /\ K # {} /\ \A i \in K : i <= n
    BY <1>1
  <1>3. x \in K
    <2> HIDE DEF K, n
    <2>1. PICK y \in K : \A i \in K : i <= y
      BY <1>1, <1>2, LargestNat
    <2>2. \A i \in K : y >= i
      BY <1>2, <2>1
    <2> QED
      BY <2>2 DEF Max
  <1>4. SortedPlace(q, v) = 1 + x
    BY DEF SortedPlace
  <1> HIDE DEF x, K, n
  <1>5. 1 + x \in 1 .. n + 1
    BY <1>1, <1>2, <1>3
  <1> QED
    BY <1>4, <1>5 DEF n

(* A new ID: larger than those in the queue, of the same parity. *)
LEMMA NextIdGood ==
  ASSUME NEW q, NEW parity \in {0, 1}, GoodQueue(q, parity), NextId(q, parity) <= MaxId
  PROVE  /\ NextId(q, parity) \in 0 .. MaxId /\ NextId(q, parity) % 2 = parity
         /\ \A i \in DOMAIN q.lead : q.lead[i].id < NextId(q, parity)
  <1> DEFINE d == NextId(q, parity)
  <1>1. q.max \in Nat /\ MaxId \in Nat /\ d <= MaxId
        /\ \A i \in DOMAIN q.lead : q.lead[i].id <= q.max /\ q.lead[i].id \in Nat
    BY QueueFields, LeadFields, BoundAssumption DEF GoodQueue
  <1>2. CASE q.lead = <<>>
    <2>1. d = parity /\ DOMAIN q.lead = {}
      BY <1>2 DEF NextId
    <2> HIDE DEF d
    <2>2. d \in 0 .. MaxId /\ d % 2 = parity
      BY <1>1, <2>1
    <2> QED
      BY <2>1, <2>2 DEF d
  <1>3. CASE q.lead # <<>>
    <2>1. d = q.max + 2 /\ q.max % 2 = parity
      BY <1>3 DEF NextId, GoodQueue
    <2> HIDE DEF d
    <2>2. d \in 0 .. MaxId /\ d % 2 = parity
      BY <1>1, <2>1
    <2>3. \A i \in DOMAIN q.lead : q.lead[i].id < d
      BY <1>1, <2>1
    <2> QED
      BY <2>2, <2>3 DEF d
  <1> QED
    BY <1>2, <1>3

LEMMA NewLeadsType ==
  ASSUME NEW id \in 0 .. MaxId, NEW l \in NewLeads(id), NEW recs \in RecsPerEntry(l)
  PROVE  l \in Lead /\ l.id = id /\ ~l.free /\ l.buf = 0 /\ recs \in Nat
  <1>1. l \in Lead /\ l.id = id /\ ~l.free /\ l.buf = 0 /\ l.num \in Nat
    <2>1. l \in [id : {id}, var : Var, num : 1 .. MaxNum, off : {0}, max : 0 .. MaxRecs,
                 buf : {0}, at : {0}, free : {FALSE}, slot : {0}]
      BY DEF NewLeads
    <2>2. /\ l.id = id /\ l.var \in Var /\ l.num \in 1 .. MaxNum /\ l.off = 0
          /\ l.max \in 0 .. MaxRecs /\ l.buf = 0 /\ l.at = 0 /\ ~l.free
          /\ l.free \in BOOLEAN /\ l.slot = 0
      BY <2>1
    <2>6. l = [id |-> l.id, var |-> l.var, num |-> l.num, off |-> l.off, max |-> l.max,
               buf |-> l.buf, at |-> l.at, free |-> l.free, slot |-> l.slot]
      BY <2>1
    <2> DEFINE z == l.num
    <2>3. z \in Nat
      BY <2>2, BoundAssumption
    <2>4. /\ l.id \in 0 .. MaxId /\ l.off \in Nat /\ l.buf \in Nat /\ l.at \in Nat
          /\ l.slot \in Nat
      BY <2>2
    <2>5. l \in Lead
      <3> DEFINE A == l.id
                 B == l.var
                 C == l.num
                 D == l.off
                 E == l.max
                 F == l.buf
                 G == l.at
                 H == l.free
                 I == l.slot
      <3>1. /\ A \in 0 .. MaxId /\ B \in Var /\ C \in 1 .. MaxNum /\ D \in Nat
            /\ E \in 0 .. MaxRecs /\ F \in Nat /\ G \in Nat /\ H \in BOOLEAN /\ I \in Nat
        BY <2>2, <2>4
      <3>2. l = [id |-> A, var |-> B, num |-> C, off |-> D, max |-> E,
                 buf |-> F, at |-> G, free |-> H, slot |-> I]
        BY <2>6
      <3> HIDE DEF A, B, C, D, E, F, G, H, I
      <3>3. [id |-> A, var |-> B, num |-> C, off |-> D, max |-> E,
             buf |-> F, at |-> G, free |-> H, slot |-> I] \in Lead
        BY <3>1 DEF Lead
      <3> QED
        BY <3>2, <3>3
    <2> QED
      BY <2>2, <2>3, <2>4, <2>5
  <1>2. recs = 1 \/ recs = l.num
    BY DEF RecsPerEntry
  <1> QED
    BY <1>1, <1>2

(* A request with an ID of its own, larger than the others', was posted. *)
Posts(q, r, parity) ==
    \E place, new, h :
        /\ Joins(q, r, place, new, h)
        /\ new \in Lead /\ new.id % 2 = parity
        /\ \A i \in DOMAIN q.lead : q.lead[i].id < new.id

LEMMA IPutStep ==
  ASSUME QueueInv, IPut PROVE QueueInv' /\ Posts(put, put', 0)
  <1> DEFINE id == NextId(put, 0)
  <1>1. GoodQueue(put, 0) /\ GoodQueue(get, 1) /\ GoodBuffer(put, abuf) /\ numrecs \in 0 .. MaxRecs
    BY DEF QueueInv
  <1>2. id <= MaxId
    BY DEF IPut, MayPost
  <1>3. PICK l \in NewLeads(id) : \E recs \in RecsPerEntry(l) :
              put' = Insert(put, SortedPlace(put, l.var), l, recs)
    BY DEF IPut
  <1>4. PICK recs \in RecsPerEntry(l) : put' = Insert(put, SortedPlace(put, l.var), l, recs)
    BY <1>3
  <1>5. /\ id \in 0 .. MaxId /\ id % 2 = 0
        /\ \A i \in DOMAIN put.lead : put.lead[i].id < id
    BY <1>1, <1>2, NextIdGood
  <1> HIDE DEF id
  <1>6. l \in Lead /\ l.id = id /\ ~l.free /\ l.buf = 0 /\ recs \in Nat
    BY <1>5, NewLeadsType
  <1> DEFINE place == SortedPlace(put, l.var)
             r == Insert(put, place, l, recs)
  <1>7. place \in 1 .. Len(put.lead) + 1
    BY <1>1, PlaceInQueue DEF GoodQueue
  <1> HIDE DEF place
  <1>8. GoodQueue(r, 0) /\ \E h : Joins(put, r, place, l, h)
    BY <1>1, <1>5, <1>6, <1>7, InsertJoins
  <1>9. put' = r
    BY <1>4 DEF place
  <1> HIDE DEF r
  <1>10. GoodBuffer(r, abuf)
    BY <1>1, <1>6, <1>8, JoinPlain
  <1>11. get' = get /\ abuf' = abuf /\ numrecs' = numrecs
    BY DEF IPut
  <1>12. Posts(put, put', 0)
    BY <1>5, <1>6, <1>8, <1>9 DEF Posts
  <1> QED
    BY <1>1, <1>8, <1>9, <1>10, <1>11, <1>12 DEF QueueInv

LEMMA IGetStep ==
  ASSUME QueueInv, IGet PROVE QueueInv' /\ Posts(get, get', 1)
  <1> DEFINE id == NextId(get, 1)
  <1>1. GoodQueue(put, 0) /\ GoodQueue(get, 1) /\ GoodBuffer(put, abuf) /\ numrecs \in 0 .. MaxRecs
    BY DEF QueueInv
  <1>2. id <= MaxId
    BY DEF IGet, MayPost
  <1>3. PICK l \in NewLeads(id) : \E recs \in RecsPerEntry(l) :
              \E place \in {Len(get.lead) + 1, SortedPlace(get, l.var)} :
                get' = Insert(get, place, l, recs)
    BY DEF IGet
  <1>4. PICK recs \in RecsPerEntry(l) :
              \E place \in {Len(get.lead) + 1, SortedPlace(get, l.var)} :
                get' = Insert(get, place, l, recs)
    BY <1>3
  <1>5. PICK place \in {Len(get.lead) + 1, SortedPlace(get, l.var)} :
              get' = Insert(get, place, l, recs)
    BY <1>4
  <1>6. /\ id \in 0 .. MaxId /\ id % 2 = 1
        /\ \A i \in DOMAIN get.lead : get.lead[i].id < id
    BY <1>1, <1>2, NextIdGood
  <1> HIDE DEF id
  <1>7. l \in Lead /\ l.id = id /\ ~l.free /\ l.buf = 0 /\ recs \in Nat
    BY <1>6, NewLeadsType
  <1>8. place \in 1 .. Len(get.lead) + 1
    <2>1. SortedPlace(get, l.var) \in 1 .. Len(get.lead) + 1 /\ Len(get.lead) \in Nat
      BY <1>1, PlaceInQueue, QueueFields DEF GoodQueue
    <2> QED
      BY <2>1
  <1> DEFINE r == Insert(get, place, l, recs)
  <1>9. GoodQueue(r, 1) /\ \E h : Joins(get, r, place, l, h)
    BY <1>1, <1>6, <1>7, <1>8, InsertJoins
  <1>10. get' = r
    BY <1>5
  <1> HIDE DEF r
  <1>11. put' = put /\ abuf' = abuf /\ numrecs' = numrecs
    BY DEF IGet
  <1>12. Posts(get, get', 1)
    BY <1>6, <1>7, <1>9, <1>10 DEF Posts
  <1> QED
    BY <1>1, <1>9, <1>10, <1>11, <1>12 DEF QueueInv

LEMMA BPutStep ==
  ASSUME QueueInv, BPut PROVE QueueInv' /\ Posts(put, put', 0)
  <1> DEFINE id == NextId(put, 0)
             new(l) == [l EXCEPT !.buf = Len(abuf.table) + 1, !.at = abuf.used]
             more(num) == [abuf EXCEPT !.used = @ + num,
                                       !.table = Append(@, [num |-> num, used |-> TRUE])]
  <1>1. GoodQueue(put, 0) /\ GoodQueue(get, 1) /\ GoodBuffer(put, abuf) /\ numrecs \in 0 .. MaxRecs
    BY DEF QueueInv
  <1>2. id <= MaxId /\ abuf.size > 0
    BY DEF BPut, MayPost
  <1>3. PICK l \in NewLeads(id) : \E recs \in RecsPerEntry(l) :
             /\ abuf.size - abuf.used >= l.num
             /\ put' = Insert(put, SortedPlace(put, l.var), new(l), recs)
             /\ abuf' = more(l.num)
    BY DEF BPut
  <1>4. PICK recs \in RecsPerEntry(l) :
             /\ abuf.size - abuf.used >= l.num
             /\ put' = Insert(put, SortedPlace(put, l.var), new(l), recs)
             /\ abuf' = more(l.num)
    BY <1>3
  <1>5. /\ id \in 0 .. MaxId /\ id % 2 = 0
        /\ \A i \in DOMAIN put.lead : put.lead[i].id < id
    BY <1>1, <1>2, NextIdGood
  <1> HIDE DEF id, more
  <1>6. l \in Lead /\ l.id = id /\ ~l.free /\ recs \in Nat
    BY <1>5, NewLeadsType
  <1>7. Len(abuf.table) \in Nat /\ abuf.used \in Nat /\ abuf.size # 0
    BY <1>1, <1>2, BufferFields DEF GoodBuffer, LooseBuffer
  <1> DEFINE k == new(l)
             num == l.num
  <1>8. /\ k \in Lead /\ k.id = id /\ ~k.free /\ k.num = l.num
        /\ k.buf = Len(abuf.table) + 1 /\ k.at = abuf.used
    <2> DEFINE x == Len(abuf.table) + 1
               y == abuf.used
    <2>1. x \in Nat /\ y \in Nat
      BY <1>7
    <2> HIDE DEF x, y
    <2>2. LET f == [l EXCEPT !.buf = x, !.at = y]
          IN  /\ f \in Lead /\ f.id = l.id /\ f.free = l.free /\ f.num = l.num
              /\ f.buf = x /\ f.at = y
      BY <1>6, <2>1 DEF Lead
    <2> QED
      BY <1>6, <2>2 DEF x, y
  <1> DEFINE place == SortedPlace(put, l.var)
             r == Insert(put, place, k, recs)
  <1>9. place \in 1 .. Len(put.lead) + 1
    BY <1>1, PlaceInQueue DEF GoodQueue
  <1>10. put' = r /\ abuf' = more(num) /\ abuf.size - abuf.used >= num
    BY <1>4
  <1> HIDE DEF place, k, num
  <1>11. GoodQueue(r, 0) /\ \E h : Joins(put, r, place, k, h)
    BY <1>1, <1>5, <1>6, <1>8, <1>9, InsertJoins
  <1>12. num = k.num /\ abuf.size - abuf.used >= k.num
    BY <1>8, <1>10 DEF num
  <1> HIDE DEF r
  <1>13. PICK h : Joins(put, r, place, k, h)
    BY <1>11
  <1>14. GoodBuffer(r, [abuf EXCEPT !.used = @ + num,
                                    !.table = Append(@, [num |-> num, used |-> TRUE])])
    BY <1>1, <1>7, <1>8, <1>12, <1>13, JoinBuffered
  <1>15. GoodBuffer(r, more(num))
    BY <1>14 DEF more
  <1>16. get' = get /\ numrecs' = numrecs
    BY DEF BPut
  <1>17. Posts(put, put', 0)
    BY <1>5, <1>8, <1>10, <1>13 DEF Posts
  <1> QED
    BY <1>1, <1>10, <1>11, <1>15, <1>16, <1>17 DEF QueueInv

LEMMA AttachStep ==
  ASSUME QueueInv, BufferAttach \/ BufferDetach PROVE QueueInv'
  <1>1. /\ GoodQueue(put, 0) /\ GoodQueue(get, 1) /\ GoodBuffer(put, abuf)
        /\ numrecs \in 0 .. MaxRecs
    BY DEF QueueInv
  <1>2. put' = put /\ get' = get /\ numrecs' = numrecs
    BY DEF BufferAttach, BufferDetach
  <1>3. GoodBuffer(put, abuf')
    <2>1. CASE BufferAttach
      <3>1. \A i \in DOMAIN put.lead : ~(put.lead[i].buf > 0)
        BY <1>1, <2>1, NoBufferNoBput DEF BufferAttach
      <3>2. PICK s \in 1 .. MaxBuffer : abuf' = [NoBuffer EXCEPT !.size = s]
        BY <2>1 DEF BufferAttach
      <3>3. s \in 0 .. MaxBuffer
        BY <3>2, BoundAssumption
      <3>4. abuf' = [size |-> s, used |-> 0, table |-> <<>>]
        BY <3>2 DEF NoBuffer
      <3>5. GoodBuffer(put, [size |-> s, used |-> 0, table |-> <<>>])
        BY <3>1, <3>3, EmptyBuffer
      <3> QED
        BY <3>4, <3>5
    <2>2. CASE BufferDetach
      <3>1. \A i \in DOMAIN put.lead : ~(put.lead[i].buf > 0)
        BY <2>2 DEF BufferDetach
      <3>2. abuf' = [size |-> 0, used |-> 0, table |-> <<>>]
        BY <2>2 DEF BufferDetach, NoBuffer
      <3>3. 0 \in 0 .. MaxBuffer
        BY BoundAssumption
      <3>4. GoodBuffer(put, [size |-> 0, used |-> 0, table |-> <<>>])
        BY <3>1, <3>3, EmptyBuffer
      <3> QED
        BY <3>2, <3>4
    <2> QED
      BY <2>1, <2>2
  <1> QED
    BY <1>1, <1>2, <1>3 DEF QueueInv

-----------------------------------------------------------------------------
(* Waiting and cancelling keep the invariant. *)

(* An array is the IDs of some pending requests, or these and one other ID. *)
LEMMA ArrayShapes ==
  ASSUME NEW w \in Arrays
  PROVE  \/ w \in Orders
         \/ \E o \in Orders : \E x \in Extras : w = <<x>> \o o
         \/ \E o \in Orders : \E x \in Extras : w = Append(o, x)
  <1> SUFFICES ASSUME w \notin Orders
               PROVE  \E o \in Orders : \E x \in Extras : w = <<x>> \o o \/ w = Append(o, x)
    BY Zenon
  <1>1. PICK o \in Orders : w \in Around(o)
    BY Zenon DEF Arrays
  <1>2. \E x \in Extras : w = <<x>> \o o \/ w = Append(o, x)
    BY <1>1, Zenon DEF Around
  <1> QED
    BY <1>2, Zenon

(***************************************************************************)
(* An application that passes the IDs of pending requests only, or         *)
(* NC_REQ_NULL: each of them at most once.                                 *)
(***************************************************************************)
LEMMA ArraysGood ==
  ASSUME "unknown" \notin Habits,
         GoodQueue(put, 0), GoodQueue(get, 1), NEW ids \in Arrays
  PROVE  /\ Len(ids) \in Nat /\ DOMAIN ids = 1 .. Len(ids)
         /\ \A a, b \in 1 .. Len(ids) : ids[a] = ids[b] => a = b
         /\ Asked(ids) \subseteq Pending
         /\ "null" \notin Habits => \A a \in 1 .. Len(ids) : ids[a] \in Asked(ids)
  <1>1. NullId \notin Pending
    <2>1. \A i \in DOMAIN put.lead : put.lead[i].id # NullId
      BY QueueFields, LeadFields DEF GoodQueue, NullId
    <2>2. \A i \in DOMAIN get.lead : get.lead[i].id # NullId
      BY QueueFields, LeadFields DEF GoodQueue, NullId
    <2> QED
      BY <2>1, <2>2 DEF Pending, Ids
  <1>2. \A x \in Extras : x = NullId
    BY DEF Extras
  <1>3. ASSUME NEW o \in Orders
        PROVE  /\ o \in Seq(Pending) /\ Len(o) \in Nat /\ DOMAIN o = 1 .. Len(o)
               /\ \A a, b \in 1 .. Len(o) : o[a] = o[b] => a = b
               /\ \A a \in 1 .. Len(o) : o[a] \in Pending
    <2>1. PICK k \in 0 .. MaxPending : o \in [1 .. k -> Pending]
      BY DEF Orders, SeqOf
    <2>2. k \in Nat
      BY BoundAssumption
    <2>3. o \in Seq(Pending) /\ Len(o) = k /\ DOMAIN o = 1 .. k
      BY <2>1, <2>2
    <2>4. \A a, b \in 1 .. k : o[a] = o[b] => a = b
      BY <2>3 DEF Orders, IsInjective
    <2> QED
      BY <2>1, <2>2, <2>3, <2>4
  <1> DEFINE Q == Pending \cup {NullId}
             Plain(s) == /\ Len(s) \in Nat /\ DOMAIN s = 1 .. Len(s)
                         /\ \A a, b \in 1 .. Len(s) : s[a] = s[b] => a = b
                         /\ \A a \in 1 .. Len(s) : s[a] \in Q
  <1>4. Plain(ids)
    <2>1. CASE ids \in Orders
      BY <1>3, <2>1
    <2>2. ASSUME NEW o \in Orders, NEW x \in Extras, ids = <<x>> \o o PROVE Plain(ids)
      <3> DEFINE n == Len(o)
                 s == <<NullId>> \o o
      <3>1. /\ o \in Seq(Q) /\ n \in Nat
            /\ \A a, b \in 1 .. n : o[a] = o[b] => a = b
            /\ \A a \in 1 .. n : o[a] \in Pending
        BY <1>3
      <3>2. ids = s /\ NullId \in Q
        BY <1>2, <2>2
      <3> HIDE DEF Q
      <3>3. /\ s \in Seq(Q) /\ Len(s) = n + 1 /\ s[1] = NullId
            /\ \A a \in 2 .. n + 1 : s[a] = o[a - 1]
        BY <3>1, <3>2
      <3> HIDE DEF s, n
      <3>4. /\ \A a \in 2 .. n + 1 : a - 1 \in 1 .. n
            /\ \A a \in 1 .. n + 1 : a = 1 \/ a \in 2 .. n + 1
        BY <3>1
      <3>5. ASSUME NEW a \in 1 .. n + 1, NEW b \in 1 .. n + 1, s[a] = s[b] PROVE a = b
        <4>1. \A c \in 2 .. n + 1 : s[c] \in Pending
          BY <3>1, <3>3, <3>4
        <4>2. CASE a = 1
          BY <1>1, <3>3, <3>4, <3>5, <4>1, <4>2
        <4>3. CASE b = 1
          BY <1>1, <3>3, <3>4, <3>5, <4>1, <4>3
        <4>4. CASE a \in 2 .. n + 1 /\ b \in 2 .. n + 1
          <5>1. a - 1 \in 1 .. n /\ b - 1 \in 1 .. n /\ o[a - 1] = o[b - 1]
            BY <3>3, <3>4, <3>5, <4>4
          <5>2. a - 1 = b - 1
            BY <3>1, <5>1
          <5> QED
            BY <3>1, <5>2
        <4> QED
          BY <3>4, <4>2, <4>3, <4>4
      <3>6. Len(s) \in Nat /\ DOMAIN s = 1 .. Len(s) /\ \A a \in 1 .. Len(s) : s[a] \in Q
        BY <3>1, <3>3
      <3>7. \A a, b \in 1 .. Len(s) : s[a] = s[b] => a = b
        BY <3>3, <3>5
      <3> QED
        BY <3>2, <3>6, <3>7
    <2>3. ASSUME NEW o \in Orders, NEW x \in Extras, ids = Append(o, x) PROVE Plain(ids)
      <3> DEFINE n == Len(o)
                 s == Append(o, NullId)
      <3>1. /\ o \in Seq(Q) /\ n \in Nat
            /\ \A a, b \in 1 .. n : o[a] = o[b] => a = b
            /\ \A a \in 1 .. n : o[a] \in Pending
        BY <1>3
      <3>2. ids = s /\ NullId \in Q
        BY <1>2, <2>3
      <3> HIDE DEF Q
      <3>3. /\ s \in Seq(Q) /\ Len(s) = n + 1 /\ s[n + 1] = NullId
            /\ \A a \in 1 .. n : s[a] = o[a]
        BY <3>1, <3>2
      <3> HIDE DEF s, n
      <3>4. \A a \in 1 .. n + 1 : a = n + 1 \/ a \in 1 .. n
        BY <3>1
      <3>5. ASSUME NEW a \in 1 .. n + 1, NEW b \in 1 .. n + 1, s[a] = s[b] PROVE a = b
        <4>1. \A c \in 1 .. n : s[c] \in Pending
          BY <3>1, <3>3
        <4> QED
          BY <1>1, <3>1, <3>3, <3>4, <3>5, <4>1
      <3>6. Len(s) \in Nat /\ DOMAIN s = 1 .. Len(s) /\ \A a \in 1 .. Len(s) : s[a] \in Q
        BY <3>1, <3>3
      <3>7. \A a, b \in 1 .. Len(s) : s[a] = s[b] => a = b
        BY <3>3, <3>5
      <3> QED
        BY <3>2, <3>6, <3>7
    <2> HIDE DEF Plain
    <2>4. \/ ids \in Orders
          \/ \E o \in Orders : \E x \in Extras : ids = <<x>> \o o
          \/ \E o \in Orders : \E x \in Extras : ids = Append(o, x)
      BY ArrayShapes
    <2> QED
      BY <2>1, <2>2, <2>3, <2>4
  <1>5. Asked(ids) \subseteq Pending
    BY <1>4 DEF Asked
  <1>6. ASSUME "null" \notin Habits, NEW a \in 1 .. Len(ids) PROVE ids[a] \in Asked(ids)
    <2>1. Extras = {}
      BY <1>6 DEF Extras
    <2>2. ids \in Orders
      BY <2>1, ArrayShapes
    <2>3. ids[a] \in Pending /\ a \in DOMAIN ids
      BY <1>3, <1>6, <2>2
    <2> QED
      BY <1>1, <2>3 DEF Asked
  <1> QED
    BY <1>4, <1>5, <1>6

(* Nothing is refused: every ID asked for is the ID of a lead. *)
LEMMA AllFound ==
  ASSUME GoodQueue(put, 0), GoodQueue(get, 1), NEW ids, Asked(ids) \subseteq Pending
  PROVE  Asked(ids) \ ({put.lead[i].id : i \in Named(put, ids)}
                         \cup {get.lead[i].id : i \in Named(get, ids)}) = {}
  <1>1. ASSUME NEW x \in Asked(ids)
        PROVE  \/ \E i \in Named(put, ids) : put.lead[i].id = x
               \/ \E i \in Named(get, ids) : get.lead[i].id = x
    <2>1. x \in Ids(put) \/ x \in Ids(get)
      BY DEF Pending
    <2>2. CASE x \in Ids(put)
      BY <2>2 DEF Ids, Named, GoodQueue
    <2>3. CASE x \in Ids(get)
      BY <2>3 DEF Ids, Named, GoodQueue
    <2> QED
      BY <2>1, <2>2, <2>3
  <1> QED
    BY <1>1

LEMMA NewNumrecsType ==
  ASSUME numrecs \in 0 .. MaxRecs, NEW q \in QueueSet, NEW t,
         \A i \in DOMAIN q.lead : t.lead[i].max = q.lead[i].max,
         NEW num \in 0 .. Len(q.lead)
  PROVE  /\ NewNumrecs(t, num) \in 0 .. MaxRecs
         /\ numrecs <= NewNumrecs(t, num)
         /\ \A i \in 1 .. num : t.lead[i].free => q.lead[i].max <= NewNumrecs(t, num)
  <1> DEFINE K == {numrecs} \cup {t.lead[i].max : i \in {j \in 1 .. num : t.lead[j].free}}
             x == Max(K)
  <1>1. MaxRecs \in Nat /\ num \in Nat /\ Len(q.lead) \in Nat /\ DOMAIN q.lead = 1 .. Len(q.lead)
    BY BoundAssumption, QueueFields
  <1>2. \A i \in 1 .. num : i \in DOMAIN q.lead
    <2> DEFINE n == Len(q.lead)
    <2> HIDE DEF n
    <2> QED
      BY <1>1 DEF n
  <1>3. \A i \in 1 .. num : t.lead[i].max = q.lead[i].max /\ t.lead[i].max \in 0 .. MaxRecs
    BY <1>2, QueueFields, LeadFields
  <1>4. K \subseteq 0 .. MaxRecs /\ numrecs \in K
    BY <1>3
  <1>5. \A i \in 1 .. num : t.lead[i].free => q.lead[i].max \in K
    BY <1>3
  <1>6. x \in K /\ \A y \in K : y <= x
    <2> HIDE DEF K, x
    <2>1. K \subseteq Nat /\ K # {} /\ \A y \in K : y <= MaxRecs
      BY <1>1, <1>4
    <2>2. PICK z \in K : \A y \in K : y <= z
      BY <1>1, <2>1, LargestNat
    <2>3. \A y \in K : z >= y
      BY <2>1, <2>2
    <2>4. x \in K /\ \A y \in K : x >= y
      BY <2>3 DEF Max, x
    <2> QED
      BY <2>1, <2>4
  <1>7. NewNumrecs(t, num) = x
    BY DEF NewNumrecs
  <1> HIDE DEF x, K
  <1> QED
    BY <1>4, <1>5, <1>6, <1>7

(* Nothing changes for the attached buffer if no put request leaves. *)
LEMMA NoneLeft ==
  ASSUME NEW q, NEW b, GoodBuffer(q, b), NEW q2, NEW m, Remains(q, q2, {}, m)
  PROVE  GoodBuffer(q2, b)
  <1> DEFINE none == {}
  <1>1. Remains(q, q2, none, m) /\ none \subseteq DOMAIN q.lead /\ Frees(q, none, none)
    BY DEF Frees
  <1>2. GoodBuffer(q2, Reclaim(b, none))
    <2> HIDE DEF none
    <2> QED
      BY <1>1, ReclaimGood
  <1>3. CASE b.size = 0
    BY <1>2, <1>3 DEF Reclaim
  <1>4. CASE b.size # 0
    <2>1. LooseBuffer(q, b)
      BY DEF GoodBuffer
    <2>2. LooseBuffer(q2, FreeEntries(b, none))
      <3> HIDE DEF none
      <3> QED
        BY <1>1, <1>4, <2>1, FreeLoose
    <2>3. FreeEntries(b, none) = b
      <3> DEFINE t == b.table
                 X == [i \in DOMAIN t |-> IF i \in {l.buf : l \in none}
                                          THEN [t[i] EXCEPT !.used = FALSE] ELSE t[i]]
      <3>1. b = [size |-> b.size, used |-> b.used, table |-> t] /\ t \in Seq(TableEntry)
        BY <2>1, BufferFields DEF LooseBuffer
      <3>2. X = t
        BY <3>1
      <3>3. FreeEntries(b, none) = [b EXCEPT !.table = X]
        BY DEF FreeEntries
      <3> HIDE DEF X, none, t
      <3>4. [b EXCEPT !.table = X] = [size |-> b.size, used |-> b.used, table |-> t]
        BY <3>1, <3>2
      <3> QED
        BY <3>1, <3>3, <3>4
    <2>4. LooseBuffer(q2, b)
      BY <2>2, <2>3
    <2> QED
      BY <2>4 DEF GoodBuffer
  <1> QED
    BY <1>3, <1>4

(* The end of a wait. *)
LEMMA FinishStep ==
  ASSUME QueueInv,
         NEW p, NEW P, NEW nw, NEW w, Side(put, p, P, nw, w, 0),
         NEW g, NEW G, NEW nr, NEW r, Side(get, g, G, nr, r, 1),
         NEW asked, NEW ids, Finish(p, g, w, r, nw, nr, asked, ids)
  PROVE  QueueInv'
  <1> DEFINE p2 == IF nw > 0 THEN Release(p) ELSE p
             g2 == IF nr > 0 THEN Release(g) ELSE g
  <1>1. /\ GoodQueue(put, 0) /\ GoodQueue(get, 1) /\ GoodBuffer(put, abuf)
        /\ numrecs \in 0 .. MaxRecs
    BY DEF QueueInv
  <1>2. /\ put' = p2 /\ get' = g2
        /\ abuf' = (IF nw > 0 THEN Reclaim(abuf, Freed(p)) ELSE abuf)
        /\ numrecs' = (IF w # <<>> THEN NewNumrecs(p, nw) ELSE numrecs)
    BY DEF Finish
  <1>3. /\ GoodQueue(p2, 0) /\ (\E m : Remains(put, p2, P, m))
        /\ \A i \in DOMAIN put.lead : p.lead[i].max = put.lead[i].max
        /\ P # {} => Frees(put, Freed(p), P)
        /\ nw \in 0 .. Len(put.lead) /\ (nw > 0 <=> P # {}) /\ P \subseteq DOMAIN put.lead
    BY DEF Leaves, Side
  <1>4. GoodQueue(g2, 1)
    BY DEF Leaves, Side
  <1>5. NewNumrecs(p, nw) \in 0 .. MaxRecs
    BY <1>1, <1>3, NewNumrecsType DEF GoodQueue
  <1>6. numrecs' \in 0 .. MaxRecs
    BY <1>1, <1>2, <1>5
  <1> HIDE DEF p2, g2
  <1>7. GoodBuffer(p2, abuf')
    <2>1. PICK m : Remains(put, p2, P, m)
      BY <1>3
    <2>2. CASE nw > 0
      <3> DEFINE L == Freed(p)
      <3>1. Frees(put, L, P)
        BY <1>3, <2>2
      <3> HIDE DEF L
      <3>2. GoodBuffer(p2, Reclaim(abuf, L))
        BY <1>1, <1>3, <2>1, <3>1, ReclaimGood
      <3> QED
        BY <1>2, <2>2, <3>2 DEF L
    <2>3. CASE ~(nw > 0)
      <3>1. P = {}
        BY <1>3, <2>3
      <3>2. Remains(put, p2, {}, m)
        BY <2>1, <3>1
      <3>3. GoodBuffer(p2, abuf)
        BY <1>1, <3>2, NoneLeft
      <3> QED
        BY <1>2, <2>3, <3>3
    <2> QED
      BY <2>2, <2>3
  <1> QED
    BY <1>2, <1>3, <1>4, <1>6, <1>7 DEF QueueInv

(***************************************************************************)
(* A wait that completes the leads at the indices in P and G.              *)
(***************************************************************************)
WaitOf(P, G, asked, ids) ==
    \E p, g, w, r, nw, nr :
        /\ Side(put, p, P, nw, w, 0)
        /\ Side(get, g, G, nr, r, 1)
        /\ Finish(p, g, w, r, nw, nr, asked, ids)

LEMMA TakeAllSides ==
  ASSUME QueueInv, NEW sides, NEW asked, NEW ids,
         NEW statuses \in BOOLEAN, TakeAll(sides, asked, ids, statuses)
  PROVE  WaitOf(IF "put" \in sides THEN DOMAIN put.lead ELSE {},
                IF "get" \in sides THEN DOMAIN get.lead ELSE {}, asked, ids)
  <1> DEFINE p == IF "put" \in sides THEN MarkAll(put, statuses) ELSE put
             g == IF "get" \in sides THEN MarkAll(get, statuses) ELSE get
             w == IF "put" \in sides THEN put.list ELSE <<>>
             r == IF "get" \in sides THEN get.list ELSE <<>>
             nw == IF "put" \in sides THEN Len(put.lead) ELSE 0
             nr == IF "get" \in sides THEN Len(get.lead) ELSE 0
             P == IF "put" \in sides THEN DOMAIN put.lead ELSE {}
             G == IF "get" \in sides THEN DOMAIN get.lead ELSE {}
  <1>1. GoodQueue(put, 0) /\ GoodQueue(get, 1)
    BY DEF QueueInv
  <1>2. Finish(p, g, w, r, nw, nr, asked, ids)
    BY DEF TakeAll
  <1>3. Side(put, p, P, nw, w, 0)
    <2>1. CASE "put" \in sides
      <3>1. Side(put, MarkAll(put, statuses), DOMAIN put.lead, Len(put.lead), put.list, 0)
        BY <1>1, SideAll
      <3> QED
        BY <2>1, <3>1
    <2>2. CASE "put" \notin sides
      <3>1. Side(put, put, {}, 0, <<>>, 0)
        BY <1>1, SideNone
      <3> QED
        BY <2>2, <3>1
    <2> QED
      BY <2>1, <2>2
  <1>4. Side(get, g, G, nr, r, 1)
    <2>1. CASE "get" \in sides
      <3>1. Side(get, MarkAll(get, statuses), DOMAIN get.lead, Len(get.lead), get.list, 1)
        BY <1>1, SideAll
      <3> QED
        BY <2>1, <3>1
    <2>2. CASE "get" \notin sides
      <3>1. Side(get, get, {}, 0, <<>>, 1)
        BY <1>1, SideNone
      <3> QED
        BY <2>2, <3>1
    <2> QED
      BY <2>1, <2>2
  <1> HIDE DEF p, g, w, r, nw, nr, P, G
  <1>5. WaitOf(P, G, asked, ids)
    BY <1>2, <1>3, <1>4 DEF WaitOf
  <1> QED
    BY <1>5 DEF P, G

LEMMA WaitNamedSides ==
  ASSUME "unknown" \notin Habits, QueueInv, NEW ids \in Arrays, NEW statuses \in BOOLEAN,
         WaitNamed(ids, statuses)
  PROVE  WaitOf(Named(put, ids), Named(get, ids), Asked(ids), ids)
  <1> DEFINE found == {put.lead[i].id : i \in Named(put, ids)}
                        \cup {get.lead[i].id : i \in Named(get, ids)}
             w == EntriesOf(put, ids)
             r == EntriesOf(get, ids)
             p == TakeOut(Mark(put, ids, statuses), Len(w))
             g == TakeOut(Mark(get, ids, statuses), Len(r))
             P == Named(put, ids)
             G == Named(get, ids)
             nw == Cardinality(P)
             nr == Cardinality(G)
  <1>1. GoodQueue(put, 0) /\ GoodQueue(get, 1)
    BY DEF QueueInv
  <1>2. /\ Len(ids) \in Nat /\ DOMAIN ids = 1 .. Len(ids)
        /\ \A a, b \in 1 .. Len(ids) : ids[a] = ids[b] => a = b
        /\ Asked(ids) \subseteq Pending
    BY <1>1, ArraysGood
  <1>3. Asked(ids) \ found = {}
    BY <1>1, <1>2, AllFound
  <1>4. Finish(p, g, w, r, nw, nr, Asked(ids), ids)
    <2> HIDE DEF w, r, p, g, P, G, nw, nr, found
    <2> QED
      BY <1>3 DEF WaitNamed, w, r, p, g, P, G, nw, nr, found
  <1>5. Side(put, p, P, nw, w, 0)
    BY <1>1, <1>2, SideNamed
  <1>6. Side(get, g, G, nr, r, 1)
    BY <1>1, <1>2, SideNamed
  <1> HIDE DEF p, g, w, r, nw, nr, P, G
  <1>7. WaitOf(P, G, Asked(ids), ids)
    BY <1>4, <1>5, <1>6 DEF WaitOf
  <1> QED
    BY <1>7 DEF P, G

LEMMA WaitStep ==
  ASSUME QueueInv, NEW P, NEW G, NEW asked, NEW ids, WaitOf(P, G, asked, ids)
  PROVE  QueueInv'
  <1>1. PICK p, g, w, r, nw, nr :
               /\ Side(put, p, P, nw, w, 0)
               /\ Side(get, g, G, nr, r, 1)
               /\ Finish(p, g, w, r, nw, nr, asked, ids)
    BY DEF WaitOf
  <1> QED
    BY <1>1, FinishStep

LEMMA CancelStep ==
  ASSUME "unknown" \notin Habits, QueueInv, NEW ids \in Arrays, Cancel(ids)
  PROVE  QueueInv'
  <1> DEFINE I == {ids[j] : j \in 1 .. Len(ids)}
             gone == {l \in Leads(put) : l.id \in Asked(ids)}
             p == RemoveEach(put, ids)
             g == RemoveEach(get, ids)
             N == With(put, I)
  <1>1. /\ GoodQueue(put, 0) /\ GoodQueue(get, 1) /\ GoodBuffer(put, abuf)
        /\ numrecs \in 0 .. MaxRecs
    BY DEF QueueInv
  <1>2. Len(ids) \in Nat /\ DOMAIN ids = 1 .. Len(ids)
    BY <1>1, ArraysGood
  <1>3. /\ GoodQueue(p, 0) /\ \E m : Remains(put, p, N, m)
    BY <1>1, <1>2, RemoveEachGood
  <1>4. GoodQueue(g, 1)
    BY <1>1, <1>2, RemoveEachGood
  <1>5. Frees(put, gone, N) /\ N \subseteq DOMAIN put.lead
    <2>1. \A i \in DOMAIN put.lead : put.lead[i].id # NullId
      BY <1>1, QueueFields, LeadFields DEF GoodQueue, NullId
    <2>2. Asked(ids) = I \ {NullId}
      BY <1>2 DEF Asked
    <2> HIDE DEF I
    <2>3. \A i \in DOMAIN put.lead : put.lead[i].id \in Asked(ids) <=> put.lead[i].id \in I
      BY <2>1, <2>2
    <2>4. \A i \in DOMAIN put.lead : i \in N <=> put.lead[i].id \in I
      BY DEF With
    <2>5. N \subseteq DOMAIN put.lead
      BY DEF With
    <2> HIDE DEF N
    <2>6. \A l \in gone : \E i \in N : l.buf = put.lead[i].buf
      BY <2>3, <2>4 DEF Leads
    <2>7. \A i \in N : \E l \in gone : l.buf = put.lead[i].buf
      <3> SUFFICES ASSUME NEW i \in N PROVE \E l \in gone : l.buf = put.lead[i].buf
        OBVIOUS
      <3>1. i \in DOMAIN put.lead /\ put.lead[i].id \in Asked(ids)
        BY <2>3, <2>4, <2>5
      <3>2. put.lead[i] \in gone
        BY <3>1 DEF Leads
      <3> HIDE DEF gone
      <3> QED
        BY <3>2
    <2> HIDE DEF gone
    <2>8. Frees(put, gone, N)
      BY <2>6, <2>7 DEF Frees
    <2> QED
      BY <2>5, <2>8
  <1>6. /\ put' = p /\ get' = g /\ numrecs' = numrecs
        /\ abuf' = Reclaim(abuf, gone)
    BY DEF Cancel
  <1> HIDE DEF p, g, gone, N
  <1>7. PICK m : Remains(put, p, N, m)
    BY <1>3
  <1>8. GoodBuffer(p, Reclaim(abuf, gone))
    BY <1>1, <1>5, <1>7, ReclaimGood
  <1> QED
    BY <1>1, <1>3, <1>4, <1>6, <1>8 DEF QueueInv

LEMMA CancelAllStep ==
  ASSUME QueueInv, NEW sides \in Sides, CancelAll(sides)
  PROVE  QueueInv'
  <1>1. /\ GoodQueue(put, 0) /\ GoodQueue(get, 1) /\ GoodBuffer(put, abuf)
        /\ numrecs \in 0 .. MaxRecs
    BY DEF QueueInv
  <1>3. put' = (IF "put" \in sides THEN Emptied(put) ELSE put)
    BY DEF CancelAll
  <1>4. get' = (IF "get" \in sides THEN Emptied(get) ELSE get)
    BY DEF CancelAll
  <1>5. numrecs' = numrecs
    BY DEF CancelAll
  <1>6. GoodQueue(put', 0) /\ GoodQueue(get', 1)
    BY <1>1, <1>3, <1>4, EmptiedGood
  <1>7. GoodBuffer(put', abuf')
    <2>1. CASE "put" \notin sides
      <3>1. put' = put /\ abuf' = abuf
        BY <1>3, <2>1 DEF CancelAll
      <3> QED
        BY <1>1, <3>1
    <2>2. CASE "put" \in sides
      <3>1. \A i \in DOMAIN put'.lead : ~(put'.lead[i].buf > 0)
        <4>1. put'.lead = <<>>
          BY <1>3, <2>2 DEF Emptied
        <4>2. DOMAIN put'.lead = {}
          BY <4>1
        <4> QED
          BY <4>2
      <3>2. abuf \in BufferSet
        BY <1>1 DEF GoodBuffer, LooseBuffer
      <3>3. abuf' = [size |-> abuf.size, used |-> 0, table |-> <<>>]
        <4>1. abuf = [size |-> abuf.size, used |-> abuf.used, table |-> abuf.table]
              /\ abuf.size \in Nat
          BY <3>2, BufferFields
        <4>2. CASE abuf.size > 0
          <5>1. abuf' = [abuf EXCEPT !.used = 0, !.table = <<>>]
            BY <2>2, <4>2 DEF CancelAll
          <5> QED
            BY <4>1, <5>1
        <4>3. CASE ~(abuf.size > 0)
          <5>1. abuf' = abuf
            BY <2>2, <4>3 DEF CancelAll
          <5>2. abuf = NoBuffer
            BY <1>1, <4>1, <4>3, NoBufferNoBput
          <5>3. abuf = [size |-> abuf.size, used |-> 0, table |-> <<>>]
            BY <5>2 DEF NoBuffer
          <5> QED
            BY <5>1, <5>3
        <4> QED
          BY <4>2, <4>3
      <3>4. abuf.size \in 0 .. MaxBuffer
        BY <3>2, BufferFields
      <3> DEFINE q == put'
                 s == abuf.size
      <3>5. (\A i \in DOMAIN q.lead : ~(q.lead[i].buf > 0)) /\ s \in 0 .. MaxBuffer
        BY <3>1, <3>4
      <3> HIDE DEF q, s
      <3>6. GoodBuffer(q, [size |-> s, used |-> 0, table |-> <<>>])
        BY <3>5, EmptyBuffer
      <3> QED
        BY <3>3, <3>6 DEF q, s
    <2> QED
      BY <2>1, <2>2
  <1> QED
    BY <1>1, <1>5, <1>6, <1>7 DEF QueueInv

LEMMA QueueInit ==
  ASSUME Init PROVE QueueInv
  <1>1. /\ put = [lead |-> <<>>, list |-> <<>>, max |-> 0] /\ get = put
        /\ abuf = [size |-> 0, used |-> 0, table |-> <<>>] /\ numrecs = 0
    BY DEF Init, EmptyQueue, NoBuffer
  <1> DEFINE e == [lead |-> <<>>, list |-> <<>>, max |-> 0]
  <1>2. e.lead = <<>> /\ e.list = <<>> /\ e.max = 0
    OBVIOUS
  <1>3. e \in QueueSet
    BY BoundAssumption DEF QueueSet
  <1> HIDE DEF e
  <1>4. DOMAIN e.lead = {} /\ Len(e.lead) = 0 /\ Len(e.list) = 0
    BY <1>2
  <1>5. Fits(e)
    BY <1>4 DEF Fits, End
  <1>6. GoodQueue(e, 0) /\ GoodQueue(e, 1)
    BY <1>2, <1>3, <1>4, <1>5 DEF GoodQueue
  <1>7. 0 \in 0 .. MaxBuffer /\ 0 \in 0 .. MaxRecs
    BY BoundAssumption
  <1>8. GoodBuffer(e, [size |-> 0, used |-> 0, table |-> <<>>])
    BY <1>4, <1>7, EmptyBuffer
  <1>9. put = e /\ get = e
    BY <1>1 DEF e
  <1> QED
    BY <1>1, <1>6, <1>7, <1>8, <1>9 DEF QueueInv

LEMMA QueueStep ==
  ASSUME "unknown" \notin Habits, QueueInv, [Next]_vars PROVE QueueInv'
  <1>1. CASE IPut
    BY <1>1, IPutStep
  <1>2. CASE IGet
    BY <1>2, IGetStep
  <1>3. CASE BPut
    BY <1>3, BPutStep
  <1>4. CASE BufferAttach \/ BufferDetach
    BY <1>4, AttachStep
  <1>5. ASSUME NEW sides \in Sides, WaitAll(sides) PROVE QueueInv'
    <2> DEFINE asked == (IF "put" \in sides THEN Ids(put) ELSE {})
                          \cup (IF "get" \in sides THEN Ids(get) ELSE {})
               none == <<>>
               no == FALSE
    <2>1. TakeAll(sides, asked, none, no) /\ no \in BOOLEAN
      BY <1>5 DEF WaitAll
    <2> HIDE DEF asked, none, no
    <2> QED
      BY <2>1, TakeAllSides, WaitStep
  <1>6. ASSUME NEW sides \in Sides, CancelAll(sides) PROVE QueueInv'
    BY <1>6, CancelAllStep
  <1>7. ASSUME NEW ids \in Arrays, Cancel(ids) PROVE QueueInv'
    BY <1>7, CancelStep
  <1>8. ASSUME NEW ids \in Arrays, NEW statuses \in BOOLEAN, WaitCounted(ids, statuses)
        PROVE  QueueInv'
    <2> DEFINE sides == Shortcut(ids, statuses)
               asked == Asked(ids)
    <2>1. TakeAll(sides, asked, ids, statuses)
      BY <1>8 DEF WaitCounted
    <2> HIDE DEF sides, asked
    <2> QED
      BY <2>1, TakeAllSides, WaitStep
  <1>9. ASSUME NEW ids \in Arrays, NEW statuses \in BOOLEAN, WaitNamed(ids, statuses)
        PROVE  QueueInv'
    BY <1>9, WaitNamedSides, WaitStep
  <1>10. CASE UNCHANGED vars
    <2>1. put' = put /\ get' = get /\ abuf' = abuf /\ numrecs' = numrecs
      BY <1>10 DEF vars
    <2> QED
      BY <2>1 DEF QueueInv
  <1> QED
    BY <1>1, <1>2, <1>3, <1>4, <1>5, <1>6, <1>7, <1>8, <1>9, <1>10 DEF Next

-----------------------------------------------------------------------------
(***************************************************************************)
(* The inductive invariant: after any sequence of calls of an application  *)
(* that waits for pending requests only, the two lists of each queue fit,  *)
(* no lead is left marked, and the buffer table is that of the leads.      *)
(***************************************************************************)
THEOREM Invariant ==
  ASSUME "unknown" \notin Habits PROVE Spec => []QueueInv
  <1>1. Init => QueueInv
    BY QueueInit
  <1>2. QueueInv /\ [Next]_vars => QueueInv'
    BY QueueStep
  <1> QED
    BY <1>1, <1>2, PTL DEF Spec

(* The types, and the parity of the IDs that tells puts from gets. *)
THEOREM TypesCorrect ==
  ASSUME "unknown" \notin Habits PROVE Spec => []TypeOK
  <1>1. QueueInv => TypeOK
    <2> SUFFICES ASSUME QueueInv PROVE TypeOK
      OBVIOUS
    <2>1. GoodQueue(put, 0) /\ GoodQueue(get, 1) /\ abuf \in BufferSet /\ numrecs \in 0 .. MaxRecs
      BY DEF QueueInv, GoodBuffer, LooseBuffer
    <2>2. QueueType(put, 0)
      BY <2>1, QueueFields DEF GoodQueue, QueueType
    <2>3. QueueType(get, 1)
      BY <2>1, QueueFields DEF GoodQueue, QueueType
    <2> QED
      BY <2>1, <2>2, <2>3 DEF TypeOK, BufferSet, TableEntry
  <1> QED
    BY <1>1, Invariant, PTL

(* The entries of every pending request are its own, and no entry is left. *)
THEOREM QueuesAlwaysFit ==
  ASSUME "unknown" \notin Habits PROVE Spec => []QueuesFit
  <1>1. QueueInv => QueuesFit
    BY DEF QueueInv, GoodQueue, QueuesFit
  <1> QED
    BY <1>1, Invariant, PTL

(***************************************************************************)
(* No two pending bput requests share a byte of the attached buffer, and   *)
(* none has its data outside the part in use.                              *)
(***************************************************************************)
THEOREM BufferedDataApart ==
  ASSUME "unknown" \notin Habits PROVE Spec => []BuffersDisjoint
  <1>1. QueueInv => BuffersDisjoint
    <2> SUFFICES ASSUME QueueInv,
                        NEW i \in DOMAIN put.lead, put.lead[i].buf > 0
                 PROVE  /\ Region(put.lead[i]) \subseteq 1 .. abuf.used
                        /\ abuf.used <= abuf.size
                        /\ \A j \in DOMAIN put.lead :
                             put.lead[j] # put.lead[i] /\ put.lead[j].buf > 0
                               => Region(put.lead[i]) \cap Region(put.lead[j]) = {}
      BY DEF BuffersDisjoint, Leads
    <2> DEFINE t == abuf.table
               n == Len(t)
               R == Room(t)
               at(j) == put.lead[j].at
               num(j) == put.lead[j].num
               buf(j) == put.lead[j].buf
    <2>1. /\ abuf \in BufferSet /\ put \in QueueSet /\ abuf.used <= abuf.size
          /\ abuf.used = R[n]
          /\ \A j \in DOMAIN put.lead : buf(j) > 0 =>
               /\ buf(j) \in DOMAIN t /\ t[buf(j)].num = num(j)
               /\ at(j) = R[buf(j) - 1]
          /\ \A j, k \in DOMAIN put.lead : buf(j) > 0 /\ buf(j) = buf(k) => j = k
      BY DEF QueueInv, GoodQueue, GoodBuffer, LooseBuffer
    <2>2. /\ n \in Nat /\ DOMAIN t = 1 .. n /\ R \in [0 .. n -> Nat]
          /\ \A x \in 1 .. n : R[x] = R[x - 1] + t[x].num
          /\ \A x, y \in 0 .. n : x <= y => R[x] <= R[y]
      BY <2>1, BufferFields, RoomLoop
    <2>3. \A j \in DOMAIN put.lead : num(j) \in Nat
      BY <2>1, QueueFields, LeadFields
    <2>4. i \in DOMAIN put.lead /\ buf(i) > 0
      OBVIOUS
    <2>5. \A j \in DOMAIN put.lead : Region(put.lead[j]) = at(j) + 1 .. at(j) + num(j)
      BY DEF Region
    <2> HIDE DEF n, R, at, num, buf
    <2>6. ASSUME NEW j \in DOMAIN put.lead, buf(j) > 0
          PROVE  /\ buf(j) \in 1 .. n /\ at(j) = R[buf(j) - 1] /\ at(j) \in Nat
                 /\ at(j) + num(j) = R[buf(j)] /\ R[buf(j)] <= R[n] /\ R[buf(j)] \in Nat
      <3> DEFINE x == buf(j)
      <3>1. x \in 1 .. n /\ t[x].num = num(j) /\ at(j) = R[x - 1]
        BY <2>1, <2>2, <2>6
      <3> HIDE DEF x
      <3>2. x \in 0 .. n /\ x - 1 \in 0 .. n /\ n \in 0 .. n /\ x <= n
        BY <2>2, <3>1
      <3> QED
        BY <2>2, <3>1, <3>2 DEF x
    <2>7. ASSUME NEW j \in DOMAIN put.lead, put.lead[j] # put.lead[i], buf(j) > 0
          PROVE  Region(put.lead[i]) \cap Region(put.lead[j]) = {}
      <3> DEFINE x == buf(i)
                 y == buf(j)
      <3>1. x # y
        BY <2>1, <2>4, <2>7
      <3>2. /\ x \in 1 .. n /\ y \in 1 .. n
            /\ at(i) = R[x - 1] /\ at(i) + num(i) = R[x] /\ R[x] \in Nat /\ at(i) \in Nat
            /\ at(j) = R[y - 1] /\ at(j) + num(j) = R[y] /\ R[y] \in Nat /\ at(j) \in Nat
        BY <2>4, <2>6, <2>7
      <3> HIDE DEF x, y
      <3>3. x - 1 \in 0 .. n /\ y - 1 \in 0 .. n /\ x \in 0 .. n /\ y \in 0 .. n
            /\ (x <= y - 1 \/ y <= x - 1)
        BY <2>2, <3>1, <3>2
      <3>4. at(i) + num(i) <= at(j) \/ at(j) + num(j) <= at(i)
        BY <2>2, <3>2, <3>3
      <3>5. ASSUME NEW k \in Region(put.lead[i]), k \in Region(put.lead[j]) PROVE FALSE
        <4>1. /\ k \in at(i) + 1 .. at(i) + num(i) /\ k \in at(j) + 1 .. at(j) + num(j)
              /\ num(i) \in Nat /\ num(j) \in Nat
          BY <2>3, <2>4, <2>5, <3>5
        <4> QED
          BY <3>2, <3>4, <4>1
      <3> QED
        BY <3>5
    <2>8. Region(put.lead[i]) \subseteq 1 .. abuf.used
      <3>1. /\ at(i) \in Nat /\ num(i) \in Nat /\ at(i) + num(i) <= abuf.used
            /\ abuf.used \in Nat
        <4>1. n \in 0 .. n
          BY <2>2
        <4> QED
          BY <2>1, <2>2, <2>3, <2>4, <2>6, <4>1
      <3>2. Region(put.lead[i]) = at(i) + 1 .. at(i) + num(i)
        BY <2>4, <2>5
      <3> QED
        BY <3>1, <3>2
    <2> QED
      BY <2>1, <2>7, <2>8 DEF buf
  <1> QED
    BY <1>1, Invariant, PTL

(* The attached buffer is all free when no bput request is pending. *)
THEOREM BufferGivenBack ==
  ASSUME "unknown" \notin Habits PROVE Spec => []BufferReclaimed
  <1>1. QueueInv => BufferReclaimed
    <2> SUFFICES ASSUME QueueInv, \A i \in DOMAIN put.lead : put.lead[i].buf = 0
                 PROVE  abuf.used = 0 /\ abuf.table = <<>>
      BY DEF BufferReclaimed, Leads
    <2> DEFINE t == abuf.table
               n == Len(t)
    <2>1. /\ abuf \in BufferSet /\ abuf.used = Room(t)[n]
          /\ \A x \in DOMAIN t : t[x].used => \E i \in DOMAIN put.lead : put.lead[i].buf = x
          /\ t # <<>> => t[n].used
      BY DEF QueueInv, GoodBuffer, LooseBuffer
    <2>2. t \in Seq(TableEntry) /\ n \in Nat /\ DOMAIN t = 1 .. n
      BY <2>1, BufferFields
    <2>3. t = <<>>
      <3> SUFFICES ASSUME t # <<>> PROVE FALSE
        OBVIOUS
      <3>1. n # 0
        BY <2>2
      <3> HIDE DEF n
      <3>2. n \in DOMAIN t /\ n > 0
        BY <2>2, <3>1
      <3>3. \E i \in DOMAIN put.lead : put.lead[i].buf = n
        BY <2>1, <3>2
      <3> QED
        BY <3>2, <3>3
    <2>4. n = 0
      BY <2>3
    <2>5. Room(t)[0] = 0
      BY <2>2, RoomLoop
    <2> QED
      BY <2>1, <2>3, <2>4, <2>5
  <1> QED
    BY <1>1, Invariant, PTL

-----------------------------------------------------------------------------
(* What is pending, as the API sees it. *)

Requests(p, g) == {[id |-> l.id, num |-> l.num] : l \in Leads(p) \cup Leads(g)}

(* The requests of the leads of q at the indices in N. *)
RequestsAt(q, N) == {[id |-> q.lead[i].id, num |-> q.lead[i].num] : i \in N}

LEMMA RequestsIn ==
  ASSUME NEW p, NEW g, NEW x
  PROVE  x \in Requests(p, g) <=> \/ x \in RequestsAt(p, DOMAIN p.lead)
                                  \/ x \in RequestsAt(g, DOMAIN g.lead)
  BY DEF Requests, RequestsAt, Leads

(* Requests that differ in their ID differ. *)
LEMMA RequestsApart ==
  ASSUME NEW q, NEW r, NEW N, NEW M, \A i \in N, j \in M : q.lead[i].id # r.lead[j].id,
         NEW x \in RequestsAt(q, N)
  PROVE  x \notin RequestsAt(r, M)
  <1>1. PICK i \in N : x = [id |-> q.lead[i].id, num |-> q.lead[i].num]
    BY DEF RequestsAt
  <1>2. x.id = q.lead[i].id
    BY <1>1
  <1>3. \A y \in RequestsAt(r, M) : \E j \in M : y.id = r.lead[j].id
    BY DEF RequestsAt
  <1> QED
    BY <1>2, <1>3

(* What a queue keeps when the leads at the indices in N are gone. *)
LEMMA RequestsLeft ==
  ASSUME NEW q, NEW r, NEW N, NEW m, Remains(q, r, N, m), NEW x
  PROVE  x \in RequestsAt(r, DOMAIN r.lead) <=> x \in RequestsAt(q, DOMAIN q.lead \ N)
  <1>1. ASSUME NEW j \in DOMAIN r.lead
        PROVE  \E i \in DOMAIN q.lead \ N : /\ r.lead[j].id = q.lead[i].id
                                            /\ r.lead[j].num = q.lead[i].num
    BY DEF Remains, Same
  <1>2. ASSUME NEW i \in DOMAIN q.lead \ N
        PROVE  \E j \in DOMAIN r.lead : /\ r.lead[j].id = q.lead[i].id
                                        /\ r.lead[j].num = q.lead[i].num
    BY DEF Remains, Same
  <1> QED
    BY <1>1, <1>2 DEF RequestsAt

(* Puts and gets never share an ID. *)
LEMMA SidesApart ==
  ASSUME GoodQueue(put, 0), GoodQueue(get, 1)
  PROVE  /\ \A i \in DOMAIN put.lead, j \in DOMAIN get.lead : put.lead[i].id # get.lead[j].id
         /\ \A i, j \in DOMAIN put.lead : put.lead[i].id = put.lead[j].id => i = j
         /\ \A i, j \in DOMAIN get.lead : get.lead[i].id = get.lead[j].id => i = j
  <1>1. /\ \A i \in DOMAIN put.lead : put.lead[i].id % 2 = 0
        /\ \A j \in DOMAIN get.lead : get.lead[j].id % 2 = 1
    BY DEF GoodQueue
  <1> QED
    BY <1>1 DEF GoodQueue

(* What a wait leaves of the pending requests. *)
LEMMA PendingLeft ==
  ASSUME GoodQueue(put, 0), GoodQueue(get, 1), NEW p2, NEW g2,
         NEW P, P \subseteq DOMAIN put.lead, NEW m, Remains(put, p2, P, m),
         NEW G, G \subseteq DOMAIN get.lead, NEW h, Remains(get, g2, G, h)
  PROVE  /\ Requests(p2, g2) = Requests(put, get) \ (RequestsAt(put, P) \cup RequestsAt(get, G))
         /\ RequestsAt(put, P) \cup RequestsAt(get, G) \subseteq Requests(put, get)
  <1> DEFINE PP == DOMAIN put.lead
             GG == DOMAIN get.lead
             A == RequestsAt(put, P)
             B == RequestsAt(get, G)
             A0 == RequestsAt(put, PP)
             B0 == RequestsAt(get, GG)
             A1 == RequestsAt(put, PP \ P)
             B1 == RequestsAt(get, GG \ G)
  <1>1. \A x : x \in Requests(p2, g2) <=> x \in A1 \/ x \in B1
    BY RequestsIn, RequestsLeft
  <1>2. \A x : x \in Requests(put, get) <=> x \in A0 \/ x \in B0
    BY RequestsIn
  <1>3. \A x : (x \in A0 <=> x \in A \/ x \in A1) /\ (x \in B0 <=> x \in B \/ x \in B1)
    BY DEF RequestsAt
  <1>4. /\ \A x \in A : x \notin A1 /\ x \notin B1
        /\ \A x \in B : x \notin A1 /\ x \notin B1
    BY SidesApart, RequestsApart
  <1> HIDE DEF A, B, A0, B0, A1, B1
  <1>5. A \cup B \subseteq Requests(put, get)
    BY <1>2, <1>3
  <1>6. Requests(p2, g2) = Requests(put, get) \ (A \cup B)
    BY <1>1, <1>2, <1>3, <1>4
  <1> QED
    BY <1>5, <1>6 DEF A, B

-----------------------------------------------------------------------------
(* What a wait transfers. *)

LEMMA OccursSpan ==
  ASSUME NEW O, NEW n \in Nat, DOMAIN O = 1 .. n, NEW x,
         NEW s \in Nat, NEW c \in Nat, c > 0, s + c <= n,
         \A k \in 1 .. n : O[k] = x <=> s < k /\ k <= s + c
  PROVE  Occurs(O, x) = c /\ x \in ToSet(O)
  <1>1. {k \in DOMAIN O : O[k] = x} = s + 1 .. s + c
    OBVIOUS
  <1>2. Cardinality(s + 1 .. s + c) = c
    <2>1. s + 1 \in Int /\ s + c \in Int /\ ~(s + 1 > s + c) /\ (s + c) - (s + 1) + 1 = c
      OBVIOUS
    <2> DEFINE a == s + 1
               b == s + c
    <2>2. a \in Int /\ b \in Int /\ ~(a > b) /\ b - a + 1 = c
      BY <2>1
    <2> HIDE DEF a, b
    <2>3. Cardinality(a .. b) = c
      BY <2>2, FS_Interval
    <2> QED
      BY <2>3 DEF a, b
  <1>3. s + 1 \in DOMAIN O /\ O[s + 1] = x
    OBVIOUS
  <1> QED
    BY <1>1, <1>2, <1>3 DEF Occurs, ToSet

(* The owners of the entries a wait transfers. *)
Owners(w, r) == [k \in 1 .. Len(w) + Len(r) |-> (w \o r)[k].owner]

(* What they are of each owner. *)
Transferred(w, r) ==
    {[id |-> i, num |-> Occurs(Owners(w, r), i)] : i \in ToSet(Owners(w, r))}

LEMMA OwnersOf ==
  ASSUME NEW w \in Seq(Entry), NEW r \in Seq(Entry)
  PROVE  /\ Len(w) \in Nat /\ Len(r) \in Nat
         /\ DOMAIN Owners(w, r) = 1 .. Len(w) + Len(r)
         /\ \A k \in 1 .. Len(w) : Owners(w, r)[k] = w[k].owner
         /\ \A k \in 1 .. Len(r) : Owners(w, r)[Len(w) + k] = r[k].owner
  <1> DEFINE a == Len(w)
             b == Len(r)
             c == w \o r
  <1>1. a \in Nat /\ b \in Nat
    OBVIOUS
  <1>2. /\ \A k \in 1 .. a : c[k] = w[k]
        /\ \A k \in 1 .. b : c[a + k] = r[k]
    OBVIOUS
  <1>3. Owners(w, r) = [k \in 1 .. a + b |-> c[k].owner]
    BY DEF Owners
  <1> HIDE DEF a, b, c
  <1>4. /\ \A k \in 1 .. a : Owners(w, r)[k] = w[k].owner
        /\ \A k \in 1 .. b : Owners(w, r)[a + k] = r[k].owner
        /\ DOMAIN Owners(w, r) = 1 .. a + b
    BY <1>1, <1>2, <1>3
  <1> QED
    BY <1>1, <1>4 DEF a, b

LEMMA AllTransferred ==
  ASSUME GoodQueue(put, 0), GoodQueue(get, 1),
         NEW P, P \subseteq DOMAIN put.lead, NEW w, Holds(put, w, P),
         NEW G, G \subseteq DOMAIN get.lead, NEW r, Holds(get, r, G)
  PROVE  Transferred(w, r) = RequestsAt(put, P) \cup RequestsAt(get, G)
  <1> DEFINE a == Len(w)
             b == Len(r)
             O == Owners(w, r)
  <1>1. w \in Seq(Entry) /\ r \in Seq(Entry)
    BY DEF Holds
  <1>2. /\ a \in Nat /\ b \in Nat /\ DOMAIN O = 1 .. a + b
        /\ \A k \in 1 .. a : O[k] = w[k].owner
        /\ \A k \in 1 .. b : O[a + k] = r[k].owner
    BY <1>1, OwnersOf
  <1>3. /\ \A k \in 1 .. a : \E i \in P : O[k] = put.lead[i].id
        /\ \A k \in 1 .. b : \E i \in G : O[a + k] = get.lead[i].id
    BY <1>2 DEF Holds
  <1>4. /\ \A i \in P, j \in G : put.lead[i].id # get.lead[j].id
    BY SidesApart
  <1>5. \A k \in 1 .. a + b : k \in 1 .. a \/ \E j \in 1 .. b : k = a + j
    <2> SUFFICES ASSUME NEW k \in 1 .. a + b, ~(k \in 1 .. a)
                 PROVE  \E j \in 1 .. b : k = a + j
      OBVIOUS
    <2>1. k - a \in 1 .. b /\ k = a + (k - a)
      BY <1>2
    <2> QED
      BY <2>1
  <1>6. ASSUME NEW i \in P
        PROVE  Occurs(O, put.lead[i].id) = put.lead[i].num /\ put.lead[i].id \in ToSet(O)
    <2> DEFINE c == put.lead[i].num
               x == put.lead[i].id
               n == a + b
    <2>1. c \in Nat /\ c > 0 /\ n \in Nat /\ a <= n
      BY <1>2, QueueFields, LeadFields DEF GoodQueue
    <2>2. PICK s \in Nat : /\ s + c <= a
                           /\ \A k \in 1 .. a : w[k].owner = x <=> s < k /\ k <= s + c
      BY DEF Holds
    <2>3. \A k \in 1 .. a : O[k] = x <=> s < k /\ k <= s + c
      BY <1>2, <2>2
    <2>4. \A j \in 1 .. b : O[a + j] # x
      BY <1>3, <1>4
    <2>5. \A k \in 1 .. n : k \in 1 .. a \/ \E j \in 1 .. b : k = a + j
      BY <1>5
    <2>6. DOMAIN O = 1 .. n
      BY <1>2
    <2> HIDE DEF c, x, n, O, a, b
    <2>7. ASSUME NEW k \in 1 .. n PROVE O[k] = x <=> s < k /\ k <= s + c
      <3>1. CASE k \in 1 .. a
        BY <2>3, <3>1
      <3>2. CASE k \notin 1 .. a
        <4>1. O[k] # x
          BY <2>4, <2>5, <3>2
        <4>2. ~(k <= s + c)
          BY <1>2, <2>1, <2>2, <3>2
        <4> QED
          BY <4>1, <4>2
      <3> QED
        BY <3>1, <3>2
    <2>8. s + c <= n
      BY <1>2, <2>1, <2>2
    <2>9. Occurs(O, x) = c /\ x \in ToSet(O)
      BY <2>1, <2>2, <2>6, <2>7, <2>8, OccursSpan
    <2> QED
      BY <2>9 DEF c, x
  <1>7. ASSUME NEW i \in G
        PROVE  Occurs(O, get.lead[i].id) = get.lead[i].num /\ get.lead[i].id \in ToSet(O)
    <2> DEFINE c == get.lead[i].num
               x == get.lead[i].id
               n == a + b
    <2>1. c \in Nat /\ c > 0 /\ n \in Nat
      BY <1>2, QueueFields, LeadFields DEF GoodQueue
    <2>2. PICK t \in Nat : /\ t + c <= b
                           /\ \A k \in 1 .. b : r[k].owner = x <=> t < k /\ k <= t + c
      BY DEF Holds
    <2>3. \A k \in 1 .. b : O[a + k] = x <=> t < k /\ k <= t + c
      BY <1>2, <2>2
    <2>4. \A k \in 1 .. a : O[k] # x
      BY <1>3, <1>4
    <2>5. \A k \in 1 .. n : k \in 1 .. a \/ \E j \in 1 .. b : k = a + j
      BY <1>5
    <2>6. DOMAIN O = 1 .. n
      BY <1>2
    <2> DEFINE s == a + t
    <2>7. s \in Nat /\ s + c <= n
      BY <1>2, <2>1, <2>2
    <2> HIDE DEF c, x, n, O, a, b
    <2>8. ASSUME NEW k \in 1 .. n PROVE O[k] = x <=> s < k /\ k <= s + c
      <3>1. CASE k \in 1 .. a
        <4>1. O[k] # x
          BY <2>4, <3>1
        <4>2. ~(s < k)
          BY <1>2, <2>2, <3>1
        <4> QED
          BY <4>1, <4>2
      <3>2. ASSUME NEW j \in 1 .. b, k = a + j PROVE O[k] = x <=> s < k /\ k <= s + c
        <4>1. O[k] = x <=> t < j /\ j <= t + c
          BY <2>3, <3>2
        <4>2. (t < j <=> s < k) /\ (j <= t + c <=> k <= s + c)
          BY <1>2, <2>1, <2>2, <3>2
        <4> QED
          BY <4>1, <4>2
      <3> QED
        BY <2>5, <3>1, <3>2
    <2> HIDE DEF s
    <2>9. Occurs(O, x) = c /\ x \in ToSet(O)
      BY <2>1, <2>6, <2>7, <2>8, OccursSpan
    <2> QED
      BY <2>9 DEF c, x
  <1>8. \A y \in ToSet(O) : \/ \E i \in P : y = put.lead[i].id
                            \/ \E i \in G : y = get.lead[i].id
    <2>1. \A y \in ToSet(O) : \E k \in 1 .. a + b : y = O[k]
      BY <1>2 DEF ToSet
    <2> HIDE DEF O, a, b
    <2> QED
      BY <1>3, <1>5, <2>1
  <1> DEFINE M == {[id |-> i, num |-> Occurs(O, i)] : i \in ToSet(O)}
             S == RequestsAt(put, P) \cup RequestsAt(get, G)
  <1> HIDE DEF O, a, b
  <1>9. ASSUME NEW y \in M PROVE y \in S
    <2>1. PICK i \in ToSet(O) : y = [id |-> i, num |-> Occurs(O, i)]
      OBVIOUS
    <2>2. CASE \E j \in P : i = put.lead[j].id
      BY <1>6, <2>1, <2>2 DEF RequestsAt
    <2>3. CASE \E j \in G : i = get.lead[j].id
      BY <1>7, <2>1, <2>3 DEF RequestsAt
    <2> QED
      BY <1>8, <2>2, <2>3
  <1>10. ASSUME NEW y \in S PROVE y \in M
    <2>1. CASE y \in RequestsAt(put, P)
      BY <1>6, <2>1 DEF RequestsAt
    <2>2. CASE y \in RequestsAt(get, G)
      BY <1>7, <2>2 DEF RequestsAt
    <2> QED
      BY <2>1, <2>2
  <1>11. M = S
    BY <1>9, <1>10
  <1> QED
    BY <1>11 DEF O, Transferred

(***************************************************************************)
(* What a wait that completes the leads at P and G transfers and leaves;   *)
(* if it completes all puts, the number of records covers them.            *)
(***************************************************************************)
LEMMA WaitEffect ==
  ASSUME QueueInv, NEW P, NEW G, NEW asked, NEW ids, WaitOf(P, G, asked, ids)
  PROVE  /\ P \subseteq DOMAIN put.lead /\ G \subseteq DOMAIN get.lead
         /\ last'.moved = RequestsAt(put, P) \cup RequestsAt(get, G)
         /\ last'.asked = asked
         /\ last'.moved \subseteq Requests(put, get)
         /\ Requests(put', get') = Requests(put, get) \ last'.moved
         /\ P = DOMAIN put.lead => \A i \in P : put.lead[i].max <= numrecs'
  <1>1. PICK p, g, w, r, nw, nr :
               /\ Side(put, p, P, nw, w, 0)
               /\ Side(get, g, G, nr, r, 1)
               /\ Finish(p, g, w, r, nw, nr, asked, ids)
    BY DEF WaitOf
  <1>2. GoodQueue(put, 0) /\ GoodQueue(get, 1) /\ numrecs \in 0 .. MaxRecs
    BY DEF QueueInv
  <1>3. /\ P \subseteq DOMAIN put.lead /\ Holds(put, w, P) /\ nw \in 0 .. Len(put.lead)
        /\ (w # <<>> <=> P # {}) /\ (P = DOMAIN put.lead => nw = Len(put.lead))
        /\ G \subseteq DOMAIN get.lead /\ Holds(get, r, G)
    BY <1>1 DEF Side
  <1> DEFINE p2 == IF nw > 0 THEN Release(p) ELSE p
             g2 == IF nr > 0 THEN Release(g) ELSE g
             moved == Transferred(w, r)
  <1>4. /\ put' = p2 /\ get' = g2
        /\ numrecs' = (IF w # <<>> THEN NewNumrecs(p, nw) ELSE numrecs)
        /\ last'.moved = moved /\ last'.asked = asked
    <2>1. /\ put' = p2 /\ get' = g2
          /\ numrecs' = (IF w # <<>> THEN NewNumrecs(p, nw) ELSE numrecs)
      BY <1>1 DEF Finish
    <2>2. \E lost, failed, error :
            last' = [asked |-> asked, moved |-> Transferred(w, r), misplaced |-> lost,
                     failed |-> failed, error |-> error, refused |-> {}]
      BY <1>1, Zenon DEF Finish, Transferred, Owners
    <2>3. PICK lost, failed, error :
            last' = [asked |-> asked, moved |-> moved, misplaced |-> lost,
                     failed |-> failed, error |-> error, refused |-> {}]
      BY <2>2
    <2> HIDE DEF moved
    <2>4. last'.moved = moved /\ last'.asked = asked
      BY <2>3
    <2> QED
      BY <2>1, <2>4
  <1>5. /\ \E m : Remains(put, p2, P, m)
        /\ \E m : Remains(get, g2, G, m)
        /\ \A i \in DOMAIN put.lead : p.lead[i].max = put.lead[i].max
        /\ \A i \in P : p.lead[i].free
    BY <1>1 DEF Side, Leaves
  <1>6. moved = RequestsAt(put, P) \cup RequestsAt(get, G)
    BY <1>2, <1>3, AllTransferred
  <1> HIDE DEF p2, g2, moved
  <1>7. /\ Requests(p2, g2) = Requests(put, get) \ (RequestsAt(put, P) \cup RequestsAt(get, G))
        /\ RequestsAt(put, P) \cup RequestsAt(get, G) \subseteq Requests(put, get)
    BY <1>2, <1>3, <1>5, PendingLeft
  <1>8. ASSUME P = DOMAIN put.lead, NEW i \in P PROVE put.lead[i].max <= numrecs'
    <2>1. i \in 1 .. nw
      BY <1>2, <1>3, <1>8, QueueFields DEF GoodQueue
    <2>2. numrecs' = NewNumrecs(p, nw)
      BY <1>3, <1>4
    <2>3. p.lead[i].free
      BY <1>5
    <2>4. put \in QueueSet
      BY <1>2 DEF GoodQueue
    <2>5. p.lead[i].free => put.lead[i].max <= NewNumrecs(p, nw)
      BY <1>2, <1>3, <1>5, <2>1, <2>4, NewNumrecsType
    <2> QED
      BY <2>2, <2>3, <2>5
  <1> QED
    BY <1>3, <1>4, <1>6, <1>7, <1>8

-----------------------------------------------------------------------------
(* The queues implement the set of requests that the API promises. *)

(* What a call does to the set of pending requests. *)
LEMMA PostRefines ==
  ASSUME GoodQueue(put, 0), GoodQueue(get, 1), last' = Quiet,
         \/ Posts(put, put', 0) /\ get' = get
         \/ Posts(get, get', 1) /\ put' = put
  PROVE  Promise!Next
  <1> DEFINE Joined(req) == /\ req.id \in Nat /\ req.num \in Nat \ {0}
                            /\ req = [id |-> req.id, num |-> req.num]
                            /\ \A x \in Requests(put, get) : x.id # req.id
                            /\ Requests(put', get') = Requests(put, get) \cup {req}
  <1>1. ASSUME NEW q, NEW r, NEW parity, GoodQueue(q, parity), Posts(q, r, parity)
        PROVE  \E l \in Lead :
                 /\ l.id % 2 = parity
                 /\ \A i \in DOMAIN q.lead : q.lead[i].id # l.id
                 /\ \A x : x \in RequestsAt(r, DOMAIN r.lead)
                             <=> \/ x \in RequestsAt(q, DOMAIN q.lead)
                                 \/ x = [id |-> l.id, num |-> l.num]
    <2>1. PICK place, l, h : /\ Joins(q, r, place, l, h)
                             /\ l \in Lead /\ l.id % 2 = parity
                             /\ \A i \in DOMAIN q.lead : q.lead[i].id < l.id
      BY <1>1 DEF Posts
    <2>2. \A i \in DOMAIN q.lead : q.lead[i].id # l.id
      BY <1>1, <2>1, QueueFields, LeadFields DEF GoodQueue
    <2>3. ASSUME NEW x
          PROVE  x \in RequestsAt(r, DOMAIN r.lead)
                   <=> \/ x \in RequestsAt(q, DOMAIN q.lead)
                       \/ x = [id |-> l.id, num |-> l.num]
      <3>1. ASSUME NEW i \in DOMAIN r.lead
            PROVE  \/ r.lead[i].id = l.id /\ r.lead[i].num = l.num
                   \/ \E j \in DOMAIN q.lead : /\ r.lead[i].id = q.lead[j].id
                                               /\ r.lead[i].num = q.lead[j].num
        BY <2>1 DEF Joins, Same
      <3>2. \E i \in DOMAIN r.lead : r.lead[i].id = l.id /\ r.lead[i].num = l.num
        BY <2>1 DEF Joins, Same
      <3>3. ASSUME NEW j \in DOMAIN q.lead
            PROVE  \E i \in DOMAIN r.lead : /\ r.lead[i].id = q.lead[j].id
                                            /\ r.lead[i].num = q.lead[j].num
        BY <2>1 DEF Joins, Same
      <3> QED
        BY <3>1, <3>2, <3>3 DEF RequestsAt
    <2> QED
      BY <2>1, <2>2, <2>3
  <1>2. ASSUME NEW l \in Lead,
               \A i \in DOMAIN put.lead : put.lead[i].id # l.id,
               \A i \in DOMAIN get.lead : get.lead[i].id # l.id,
               \A x : x \in Requests(put', get') <=> \/ x \in Requests(put, get)
                                                     \/ x = [id |-> l.id, num |-> l.num]
        PROVE  \E req : Joined(req)
    <2> DEFINE req == [id |-> l.id, num |-> l.num]
    <2>1. l.id \in Nat /\ l.num \in Nat \ {0} /\ req.id = l.id /\ req.num = l.num
      BY LeadFields
    <2>2. \A x \in Requests(put, get) : x.id # l.id
      BY <1>2 DEF Requests, Leads
    <2>3. Requests(put', get') = Requests(put, get) \cup {req}
      BY <1>2
    <2>4. req = [id |-> req.id, num |-> req.num]
      BY <2>1
    <2> HIDE DEF req
    <2>5. Joined(req)
      BY <2>1, <2>2, <2>3, <2>4
    <2> QED
      BY <2>5
  <1>3. \E req : Joined(req)
    <2> HIDE DEF Joined
    <2>1. CASE Posts(put, put', 0) /\ get' = get
      <3>1. PICK l \in Lead :
                 /\ l.id % 2 = 0
                 /\ \A i \in DOMAIN put.lead : put.lead[i].id # l.id
                 /\ \A x : x \in RequestsAt(put', DOMAIN put'.lead)
                             <=> \/ x \in RequestsAt(put, DOMAIN put.lead)
                                 \/ x = [id |-> l.id, num |-> l.num]
        BY <1>1, <2>1
      <3>2. \A i \in DOMAIN get.lead : get.lead[i].id # l.id
        BY <3>1 DEF GoodQueue
      <3>3. \A x : x \in Requests(put', get') <=> \/ x \in Requests(put, get)
                                                  \/ x = [id |-> l.id, num |-> l.num]
        BY <2>1, <3>1, RequestsIn
      <3> QED
        BY <1>2, <3>1, <3>2, <3>3
    <2>2. CASE Posts(get, get', 1) /\ put' = put
      <3>1. PICK l \in Lead :
                 /\ l.id % 2 = 1
                 /\ \A i \in DOMAIN get.lead : get.lead[i].id # l.id
                 /\ \A x : x \in RequestsAt(get', DOMAIN get'.lead)
                             <=> \/ x \in RequestsAt(get, DOMAIN get.lead)
                                 \/ x = [id |-> l.id, num |-> l.num]
        BY <1>1, <2>2
      <3>2. \A i \in DOMAIN put.lead : put.lead[i].id # l.id
        BY <3>1 DEF GoodQueue
      <3>3. \A x : x \in Requests(put', get') <=> \/ x \in Requests(put, get)
                                                  \/ x = [id |-> l.id, num |-> l.num]
        BY <2>2, <3>1, RequestsIn
      <3> QED
        BY <1>2, <3>1, <3>2, <3>3
    <2> QED
      BY <2>1, <2>2
  <1>4. PICK req : Joined(req)
    BY <1>3
  <1>5. req \in Promise!Request
    BY <1>4 DEF Promise!Request
  <1>6. last'.moved = {}
    BY DEF Quiet
  <1>7. Promise!Post(req)
    BY <1>4, <1>6 DEF Promise!Post, Requests
  <1>8. req \in Requests(put', get')
    BY <1>4
  <1> QED
    BY <1>5, <1>7, <1>8 DEF Promise!Next, Requests

LEMMA WaitRefines ==
  ASSUME QueueInv, NEW P, NEW G, NEW asked, NEW ids, WaitOf(P, G, asked, ids)
  PROVE  Promise!Next
  <1> DEFINE S == last'.moved
  <1>1. S \subseteq Requests(put, get) /\ Requests(put', get') = Requests(put, get) \ S
    BY WaitEffect
  <1>2. Promise!Wait
    BY <1>1 DEF Promise!Wait, Requests
  <1> QED
    BY <1>2 DEF Promise!Next

LEMMA CancelRefines ==
  ASSUME "unknown" \notin Habits, QueueInv,
         \/ \E ids \in Arrays : Cancel(ids)
         \/ \E sides \in Sides : CancelAll(sides)
         \/ BufferAttach \/ BufferDetach
  PROVE  Promise!Next
  <1>1. GoodQueue(put, 0) /\ GoodQueue(get, 1)
    BY DEF QueueInv
  <1>2. \E P, G, m, h : /\ P \subseteq DOMAIN put.lead /\ Remains(put, put', P, m)
                        /\ G \subseteq DOMAIN get.lead /\ Remains(get, get', G, h)
    <2>1. ASSUME NEW q
          PROVE  \E N, m : N \subseteq DOMAIN q.lead /\ Remains(q, q, N, m)
      <3>1. Remains(q, q, {}, [j \in DOMAIN q.lead |-> j])
        BY DEF Remains, Same
      <3> DEFINE m == [j \in DOMAIN q.lead |-> j]
      <3> HIDE DEF m
      <3> QED
        BY <3>1 DEF m
    <2>2. ASSUME NEW q, NEW parity, GoodQueue(q, parity)
          PROVE  \E N, m : N \subseteq DOMAIN q.lead /\ Remains(q, Emptied(q), N, m)
      BY <2>2, EmptiedGood
    <2>3. ASSUME NEW ids \in Arrays, Cancel(ids),
                 NEW q, NEW parity, GoodQueue(q, parity)
          PROVE  \E N, m : N \subseteq DOMAIN q.lead /\ Remains(q, RemoveEach(q, ids), N, m)
      <3> DEFINE I == {ids[j] : j \in 1 .. Len(ids)}
                 N == With(q, I)
      <3>1. Len(ids) \in Nat
        BY <1>1, ArraysGood
      <3>2. \E m : Remains(q, RemoveEach(q, ids), N, m)
        BY <2>3, <3>1, RemoveEachGood
      <3>3. N \subseteq DOMAIN q.lead
        BY DEF With
      <3> HIDE DEF N
      <3> QED
        BY <3>2, <3>3
    <2>4. CASE \E ids \in Arrays : Cancel(ids)
      <3>1. PICK ids \in Arrays : Cancel(ids)
        BY <2>4
      <3>2. put' = RemoveEach(put, ids) /\ get' = RemoveEach(get, ids)
        BY <3>1 DEF Cancel
      <3> QED
        BY <1>1, <2>3, <3>1, <3>2
    <2>5. CASE \E sides \in Sides : CancelAll(sides)
      <3>1. (put' = put \/ put' = Emptied(put)) /\ (get' = get \/ get' = Emptied(get))
        BY <2>5 DEF CancelAll
      <3> QED
        BY <1>1, <2>1, <2>2, <3>1
    <2>6. CASE BufferAttach \/ BufferDetach
      <3>1. put' = put /\ get' = get
        BY <2>6 DEF BufferAttach, BufferDetach
      <3> QED
        BY <2>1, <3>1
    <2> QED
      BY <2>4, <2>5, <2>6
  <1>3. Requests(put', get') \subseteq Requests(put, get)
    BY <1>1, <1>2, PendingLeft
  <1>4. last'.moved = {}
    <2>1. CASE last' = Quiet
      BY <2>1 DEF Quiet
    <2>2. CASE \E ids \in Arrays : Cancel(ids)
      <3>1. PICK refused, error : last' = [Quiet EXCEPT !.refused = refused, !.error = error]
        BY <2>2, Zenon DEF Cancel
      <3> QED
        BY <3>1 DEF Quiet
    <2> QED
      BY <2>1, <2>2 DEF CancelAll, BufferAttach, BufferDetach
  <1>5. Promise!Cancel
    BY <1>3, <1>4 DEF Promise!Cancel, Requests
  <1> QED
    BY <1>5 DEF Promise!Next

-----------------------------------------------------------------------------
(* The array of a wait that is counted but not looked at. *)

Values(f, n) == {f[a] : a \in 1 .. n}

(* Different values are as many as there are places. *)
LEMMA Counting ==
  ASSUME NEW n \in Nat, NEW f, \A a, b \in 1 .. n : f[a] = f[b] => a = b
  PROVE  IsFiniteSet(Values(f, n)) /\ Cardinality(Values(f, n)) = n
  <1> DEFINE D == 1 .. n
             T == {f[a] : a \in D}
             g == [a \in D |-> f[a]]
  <1>1. IsFiniteSet(D) /\ Cardinality(D) = n
    <2>1. 1 \in Int /\ n \in Int /\ n - 1 + 1 = n /\ (1 > n => n = 0)
      OBVIOUS
    <2> QED
      BY <2>1, FS_Interval
  <1>2. g \in Surjection(D, T)
    BY DEF Surjection
  <1>3. g \in Injection(D, T)
    BY DEF Injection, IsInjective
  <1> HIDE DEF D, T, g
  <1>4. IsFiniteSet(T) /\ Cardinality(T) = n
    BY <1>1, <1>2, <1>3, FS_Surjection
  <1> QED
    BY <1>4 DEF T, D, Values

IdsAt(q, N) == {q.lead[i].id : i \in N}

LEMMA IdsCounted ==
  ASSUME NEW q, NEW parity, GoodQueue(q, parity)
  PROVE  /\ Len(q.lead) \in Nat /\ IsFiniteSet(Ids(q)) /\ Cardinality(Ids(q)) = Len(q.lead)
         /\ q.list = <<>> => Ids(q) = {}
         /\ Ids(q) = IdsAt(q, DOMAIN q.lead)
  <1> DEFINE n == Len(q.lead)
             f == [i \in 1 .. n |-> q.lead[i].id]
  <1>1. n \in Nat /\ DOMAIN q.lead = 1 .. n
    BY QueueFields DEF GoodQueue
  <1>2. \A a, b \in 1 .. n : f[a] = f[b] => a = b
    BY <1>1 DEF GoodQueue
  <1>3. Ids(q) = Values(f, n)
    BY <1>1 DEF Ids, Values
  <1>4. IsFiniteSet(Ids(q)) /\ Cardinality(Ids(q)) = n
    <2> HIDE DEF f, n
    <2> QED
      BY <1>1, <1>2, <1>3, Counting
  <1>5. q.list = <<>> => DOMAIN q.lead = {}
    <2> DEFINE no == FALSE
    <2>1. no \in BOOLEAN
      OBVIOUS
    <2> HIDE DEF no
    <2>2. Side(q, MarkAll(q, no), DOMAIN q.lead, Len(q.lead), q.list, parity)
      BY <2>1, SideAll
    <2> QED
      BY <2>2 DEF Side
  <1> QED
    BY <1>1, <1>4, <1>5 DEF Ids, IdsAt

(* As many different members of a set as it has are all of them. *)
LEMMA Pigeons ==
  ASSUME NEW n \in Nat, NEW f, \A a, b \in 1 .. n : f[a] = f[b] => a = b,
         NEW S, IsFiniteSet(S), Cardinality(S) = n, \A a \in 1 .. n : f[a] \in S
  PROVE  \A x \in S : \E a \in 1 .. n : x = f[a]
  <1>1. IsFiniteSet(Values(f, n)) /\ Cardinality(Values(f, n)) = n
    BY Counting
  <1>2. Values(f, n) \in SUBSET S
    BY DEF Values
  <1>3. S = Values(f, n)
    BY <1>1, <1>2, FS_Subset
  <1> QED
    BY <1>3 DEF Values

LEMMA CountedAsked ==
  ASSUME "unknown" \notin Habits, "null" \notin Habits,
         GoodQueue(put, 0), GoodQueue(get, 1), NEW ids \in Arrays, NEW statuses \in BOOLEAN,
         Shortcut(ids, statuses) # {}
  PROVE  Asked(ids) = IdsAt(put, IF "put" \in Shortcut(ids, statuses)
                                 THEN DOMAIN put.lead ELSE {})
                        \cup IdsAt(get, IF "get" \in Shortcut(ids, statuses)
                                        THEN DOMAIN get.lead ELSE {})
  <1> DEFINE n == Len(ids)
             A == Asked(ids)
             P == Ids(put)
             G == Ids(get)
             sides == Shortcut(ids, statuses)
  <1>1. /\ n \in Nat /\ \A a, b \in 1 .. n : ids[a] = ids[b] => a = b
        /\ \A a \in 1 .. n : ids[a] \in A
        /\ A \subseteq P \cup G
        /\ \A x \in A : \E a \in 1 .. n : x = ids[a]
    <2>1. DOMAIN ids = 1 .. n
      BY ArraysGood
    <2> QED
      BY <2>1, ArraysGood DEF Pending, Asked
  <1>2. /\ Len(put.lead) \in Nat /\ IsFiniteSet(P) /\ Cardinality(P) = Len(put.lead)
        /\ Len(get.lead) \in Nat /\ IsFiniteSet(G) /\ Cardinality(G) = Len(get.lead)
        /\ (put.list = <<>> => P = {}) /\ (get.list = <<>> => G = {})
        /\ P = IdsAt(put, DOMAIN put.lead) /\ G = IdsAt(get, DOMAIN get.lead)
    BY IdsCounted
  <1>3. \A x \in P : x \notin G
    BY SidesApart DEF Ids
  <1>4. IdsAt(put, {}) = {} /\ IdsAt(get, {}) = {}
    BY DEF IdsAt
  <1>5. \/ sides = {"put"} /\ get.list = <<>> /\ n = Len(put.lead)
        \/ sides = {"get"} /\ put.list = <<>> /\ n = Len(get.lead)
        \/ sides = {"put", "get"} /\ n = Len(put.lead) + Len(get.lead)
    <2> DEFINE c1 == get.list = <<>> /\ n = Len(put.lead)
               c2 == put.list = <<>> /\ n = Len(get.lead)
               c3 == n = Len(put.lead) + Len(get.lead) /\ ~statuses
    <2>1. sides = CASE c1 -> {"put"} [] c2 -> {"get"} [] c3 -> {"put", "get"} [] OTHER -> {}
      BY DEF Shortcut
    <2> HIDE DEF c1, c2, c3, sides
    <2>2. \/ c1 /\ sides = {"put"}
          \/ c2 /\ sides = {"get"}
          \/ c3 /\ sides = {"put", "get"}
      BY <2>1 DEF sides
    <2> QED
      BY <2>2 DEF c1, c2, c3
  <1> HIDE DEF n, A, P, G
  <1>6. CASE sides = {"put"} /\ get.list = <<>> /\ n = Len(put.lead)
    <2>1. G = {} /\ \A a \in 1 .. n : ids[a] \in P
      BY <1>1, <1>2, <1>6
    <2>2. IsFiniteSet(P) /\ Cardinality(P) = n
      BY <1>2, <1>6
    <2>3. \A x \in P : \E a \in 1 .. n : x = ids[a]
      BY <1>1, <2>1, <2>2, Pigeons
    <2>4. A = P
      BY <1>1, <2>1, <2>3
    <2>5. "put" \in sides /\ "get" \notin sides
      BY <1>6
    <2> QED
      BY <1>2, <1>4, <2>4, <2>5 DEF A
  <1>7. CASE sides = {"get"} /\ put.list = <<>> /\ n = Len(get.lead)
    <2>1. P = {} /\ \A a \in 1 .. n : ids[a] \in G
      BY <1>1, <1>2, <1>7
    <2>2. IsFiniteSet(G) /\ Cardinality(G) = n
      BY <1>2, <1>7
    <2>3. \A x \in G : \E a \in 1 .. n : x = ids[a]
      BY <1>1, <2>1, <2>2, Pigeons
    <2>4. A = G
      BY <1>1, <2>1, <2>3
    <2>5. "put" \notin sides /\ "get" \in sides
      BY <1>7
    <2> QED
      BY <1>2, <1>4, <2>4, <2>5 DEF A
  <1>8. CASE sides = {"put", "get"} /\ n = Len(put.lead) + Len(get.lead)
    <2> DEFINE S == P \cup G
    <2>1. IsFiniteSet(S) /\ Cardinality(S) = n
      <3> DEFINE both == P \cap G
      <3>1. both = {}
        BY <1>3
      <3>3. /\ IsFiniteSet(S)
            /\ Cardinality(S) = Cardinality(P) + Cardinality(G) - Cardinality(both)
        BY <1>2, FS_Union
      <3> HIDE DEF S, both
      <3>2. Cardinality(both) = 0
        BY <3>1, FS_EmptySet
      <3> DEFINE x == Cardinality(P)
                 y == Cardinality(G)
                 z == Cardinality(both)
      <3>4. /\ x \in Nat /\ y \in Nat /\ z = 0 /\ Cardinality(S) = x + y - z
            /\ n = x + y
        BY <1>2, <1>8, <3>2, <3>3
      <3> HIDE DEF x, y, z
      <3> QED
        BY <3>3, <3>4
    <2>2. \A a \in 1 .. n : ids[a] \in S
      BY <1>1
    <2> HIDE DEF S
    <2>3. \A x \in S : \E a \in 1 .. n : x = ids[a]
      BY <1>1, <2>1, <2>2, Pigeons
    <2>4. A = P \cup G
      BY <1>1, <2>3 DEF S
    <2>5. "put" \in sides /\ "get" \in sides
      BY <1>8
    <2> QED
      BY <1>2, <2>4, <2>5 DEF A
  <1> QED
    BY <1>5, <1>6, <1>7, <1>8

-----------------------------------------------------------------------------
(* The kinds of steps. *)

(* A wait that completes no put, all puts, or what its array names. *)
Waits == \E P, G, asked, ids :
            /\ WaitOf(P, G, asked, ids)
            /\ Ids(put) \subseteq asked => P = {} \/ P = DOMAIN put.lead
            /\ "null" \notin Habits => asked = IdsAt(put, P) \cup IdsAt(get, G)

Adds == /\ last' = Quiet
        /\ \/ Posts(put, put', 0) /\ get' = get
           \/ Posts(get, get', 1) /\ put' = put

Cancels == \/ \E ids \in Arrays : Cancel(ids)
           \/ \E sides \in Sides : CancelAll(sides)
           \/ BufferAttach \/ BufferDetach

LEMMA StepKinds ==
  ASSUME "unknown" \notin Habits, QueueInv, Next PROVE Waits \/ Adds \/ Cancels
  <1>1. CASE IPut \/ IGet \/ BPut
    <2>1. QueueInv' /\ (\/ Posts(put, put', 0) /\ get' = get
                        \/ Posts(get, get', 1) /\ put' = put)
      <3>1. CASE IPut
        BY <3>1, IPutStep DEF IPut
      <3>2. CASE IGet
        BY <3>2, IGetStep DEF IGet
      <3>3. CASE BPut
        BY <3>3, BPutStep DEF BPut
      <3> QED
        BY <1>1, <3>1, <3>2, <3>3
    <2>2. last' = Quiet
      BY <1>1 DEF IPut, IGet, BPut
    <2> QED
      BY <2>1, <2>2 DEF Adds
  <1>2. CASE Cancels
    BY <1>2
  <1>3. GoodQueue(put, 0) /\ GoodQueue(get, 1)
    BY DEF QueueInv
  <1>4. ASSUME NEW sides \in Sides, WaitAll(sides) PROVE Waits
    <2> DEFINE asked == (IF "put" \in sides THEN Ids(put) ELSE {})
                          \cup (IF "get" \in sides THEN Ids(get) ELSE {})
               none == <<>>
               no == FALSE
               P == IF "put" \in sides THEN DOMAIN put.lead ELSE {}
               G == IF "get" \in sides THEN DOMAIN get.lead ELSE {}
    <2>1. TakeAll(sides, asked, none, no) /\ no \in BOOLEAN
      BY <1>4 DEF WaitAll
    <2>2. asked = IdsAt(put, P) \cup IdsAt(get, G)
      BY DEF Ids, IdsAt
    <2>3. P = {} \/ P = DOMAIN put.lead
      OBVIOUS
    <2> HIDE DEF asked, none, no
    <2>4. WaitOf(P, G, asked, none)
      BY <2>1, TakeAllSides
    <2> HIDE DEF P, G
    <2> QED
      BY <2>2, <2>3, <2>4 DEF Waits
  <1>5. ASSUME NEW ids \in Arrays, NEW statuses \in BOOLEAN, WaitCounted(ids, statuses)
        PROVE  Waits
    <2> DEFINE sides == Shortcut(ids, statuses)
               asked == Asked(ids)
               P == IF "put" \in sides THEN DOMAIN put.lead ELSE {}
               G == IF "get" \in sides THEN DOMAIN get.lead ELSE {}
    <2>1. TakeAll(sides, asked, ids, statuses) /\ sides # {}
      BY <1>5 DEF WaitCounted
    <2>2. "null" \notin Habits => asked = IdsAt(put, P) \cup IdsAt(get, G)
      BY <1>3, <2>1, CountedAsked
    <2>3. P = {} \/ P = DOMAIN put.lead
      OBVIOUS
    <2> HIDE DEF asked, sides
    <2>4. WaitOf(P, G, asked, ids)
      BY <2>1, TakeAllSides
    <2> HIDE DEF P, G
    <2> QED
      BY <2>2, <2>3, <2>4 DEF Waits
  <1>6. ASSUME NEW ids \in Arrays, NEW statuses \in BOOLEAN, WaitNamed(ids, statuses)
        PROVE  Waits
    <2> DEFINE P == Named(put, ids)
               G == Named(get, ids)
               asked == Asked(ids)
    <2>1. WaitOf(P, G, asked, ids)
      BY <1>6, WaitNamedSides
    <2>2. asked \subseteq Pending
      BY <1>3, ArraysGood
    <2>3. asked = IdsAt(put, P) \cup IdsAt(get, G)
      <3>1. \A x \in asked : \/ \E i \in DOMAIN put.lead : x = put.lead[i].id
                             \/ \E i \in DOMAIN get.lead : x = get.lead[i].id
        BY <2>2 DEF Pending, Ids
      <3>2. /\ \A i \in DOMAIN put.lead : i \in P <=> put.lead[i].id \in asked
            /\ \A i \in DOMAIN get.lead : i \in G <=> get.lead[i].id \in asked
            /\ P \subseteq DOMAIN put.lead /\ G \subseteq DOMAIN get.lead
        BY <1>3 DEF GoodQueue, Named
      <3> HIDE DEF asked, P, G
      <3>3. \A x : x \in asked <=> \/ \E i \in P : x = put.lead[i].id
                                   \/ \E i \in G : x = get.lead[i].id
        BY <3>1, <3>2
      <3> QED
        BY <3>3 DEF IdsAt
    <2>4. Ids(put) \subseteq asked => P = DOMAIN put.lead
      BY <1>3 DEF Named, GoodQueue, Ids
    <2> HIDE DEF asked, P, G
    <2> QED
      BY <2>1, <2>3, <2>4 DEF Waits
  <1> QED
    BY <1>1, <1>2, <1>4, <1>5, <1>6 DEF Next, Cancels

LEMMA StepRefines ==
  ASSUME "unknown" \notin Habits, QueueInv, Next PROVE Promise!Next
  <1>1. GoodQueue(put, 0) /\ GoodQueue(get, 1)
    BY DEF QueueInv
  <1>2. CASE Waits
    BY <1>2, WaitRefines DEF Waits
  <1>3. CASE Adds
    BY <1>1, <1>3, PostRefines DEF Adds
  <1>4. CASE Cancels
    BY <1>4, CancelRefines DEF Cancels
  <1> QED
    BY <1>2, <1>3, <1>4, StepKinds

(* The requests a step transfers are those of a wait. *)
LEMMA NoneMoved ==
  ASSUME Adds \/ Cancels
  PROVE  last'.moved = {} /\ last'.asked = {}
  <1>1. CASE last' = Quiet
    BY <1>1 DEF Quiet
  <1>2. CASE \E ids \in Arrays : Cancel(ids)
    <2>1. PICK refused, error : last' = [Quiet EXCEPT !.refused = refused, !.error = error]
      BY <1>2, Zenon DEF Cancel
    <2> QED
      BY <2>1 DEF Quiet
  <1> QED
    BY <1>1, <1>2 DEF Adds, Cancels, CancelAll, BufferAttach, BufferDetach

(***************************************************************************)
(* The queues implement the set of requests: whatever part of the pending  *)
(* requests a wait names, in any order, it transfers every entry of each   *)
(* request it removes, exactly once, and nothing of another; a cancel      *)
(* transfers nothing; and a new ID is not that of a pending request.       *)
(***************************************************************************)
THEOREM RequestsImplemented ==
  ASSUME "unknown" \notin Habits PROVE Spec => ImplementsRequestSet
  <1>1. Init => Promise!Init
    <2> SUFFICES ASSUME Init PROVE Promise!Init
      OBVIOUS
    <2>1. put.lead = <<>> /\ get.lead = <<>> /\ last.moved = {}
      BY DEF Init, EmptyQueue, Quiet
    <2>2. Leads(put) = {} /\ Leads(get) = {}
      BY <2>1 DEF Leads
    <2> QED
      BY <2>1, <2>2 DEF Promise!Init
  <1>2. QueueInv /\ [Next]_vars => [Promise!Next]_<<Requests(put, get), last.moved>>
    <2> SUFFICES ASSUME QueueInv, [Next]_vars
                 PROVE  [Promise!Next]_<<Requests(put, get), last.moved>>
      OBVIOUS
    <2>1. CASE Next
      BY <2>1, StepRefines
    <2>2. CASE UNCHANGED vars
      BY <2>2 DEF vars, Requests, Leads
    <2> QED
      BY <2>1, <2>2
  <1> QED
    BY <1>1, <1>2, Invariant, PTL DEF Spec, ImplementsRequestSet, Promise!Spec, Requests

(***************************************************************************)
(* A wait completes the requests it was asked to complete and no others:   *)
(* also when its array is only counted, because it is as long as a queue.  *)
(***************************************************************************)
THEOREM AskedIsMoved ==
  ASSUME "unknown" \notin Habits, "null" \notin Habits PROVE Spec => []ExactlyAsked
  <1>1. Init => ExactlyAsked
    BY DEF Init, Quiet, ExactlyAsked, Moved
  <1>2. QueueInv /\ ExactlyAsked /\ [Next]_vars => ExactlyAsked'
    <2> SUFFICES ASSUME QueueInv, ExactlyAsked, [Next]_vars PROVE ExactlyAsked'
      OBVIOUS
    <2>1. CASE Waits
      <3>1. PICK P, G, asked, ids : /\ WaitOf(P, G, asked, ids)
                                    /\ asked = IdsAt(put, P) \cup IdsAt(get, G)
        BY <2>1 DEF Waits
      <3>2. /\ last'.moved = RequestsAt(put, P) \cup RequestsAt(get, G)
            /\ last'.asked = asked
        BY <3>1, WaitEffect
      <3>3. ASSUME NEW q, NEW N
            PROVE  /\ \A x \in RequestsAt(q, N) : x.id \in IdsAt(q, N)
                   /\ \A y \in IdsAt(q, N) : \E x \in RequestsAt(q, N) : y = x.id
        <4>1. ASSUME NEW x \in RequestsAt(q, N) PROVE x.id \in IdsAt(q, N)
          <5>1. PICK i \in N : x = [id |-> q.lead[i].id, num |-> q.lead[i].num]
            BY DEF RequestsAt
          <5>2. x.id = q.lead[i].id
            BY <5>1
          <5> QED
            BY <5>2 DEF IdsAt
        <4>2. ASSUME NEW y \in IdsAt(q, N) PROVE \E x \in RequestsAt(q, N) : y = x.id
          <5>1. PICK i \in N : y = q.lead[i].id
            BY DEF IdsAt
          <5> DEFINE x == [id |-> q.lead[i].id, num |-> q.lead[i].num]
          <5>2. x \in RequestsAt(q, N) /\ x.id = y
            BY <5>1 DEF RequestsAt
          <5> QED
            BY <5>2
        <4> QED
          BY <4>1, <4>2
      <3>4. {x.id : x \in last'.moved} = asked
        <4>1. \A x \in last'.moved : x.id \in asked
          BY <3>1, <3>2, <3>3
        <4>2. \A y \in asked : \E x \in last'.moved : y = x.id
          BY <3>1, <3>2, <3>3
        <4> QED
          BY <4>1, <4>2
      <3> QED
        BY <3>2, <3>4 DEF ExactlyAsked, Moved
    <2>2. CASE Adds \/ Cancels
      BY <2>2, NoneMoved DEF ExactlyAsked, Moved
    <2>3. CASE UNCHANGED vars
      BY <2>3 DEF vars, ExactlyAsked, Moved
    <2> QED
      BY <2>1, <2>2, <2>3, StepKinds
  <1> QED
    BY <1>1, <1>2, Invariant, PTL DEF Spec

(***************************************************************************)
(* A wait that names every pending put, whatever gets it names and whether *)
(* its transfers succeed, raises the number of records to those of every   *)
(* request it completes: the scan of the leads misses none of them.        *)
(***************************************************************************)
THEOREM WholeWaitsCounted ==
  ASSUME "unknown" \notin Habits PROVE Spec => WholeWaitCounted
  <1> DEFINE Counted == Ids(put) \subseteq last'.asked
                          => \A l \in Leads(put) : l.id \in Moved(last') => numrecs' >= l.max
  <1>1. QueueInv /\ [Next]_vars => [Counted]_vars
    <2> SUFFICES ASSUME QueueInv, Next, Ids(put) \subseteq last'.asked,
                        NEW l \in Leads(put), l.id \in Moved(last')
                 PROVE  numrecs' >= l.max
      BY Zenon
    <2>1. GoodQueue(put, 0) /\ GoodQueue(get, 1)
      BY DEF QueueInv
    <2>2. CASE Waits
      <3>1. PICK P, G, asked, ids :
                 /\ WaitOf(P, G, asked, ids)
                 /\ Ids(put) \subseteq asked => P = {} \/ P = DOMAIN put.lead
        BY <2>2 DEF Waits
      <3>2. /\ P \subseteq DOMAIN put.lead /\ G \subseteq DOMAIN get.lead
            /\ last'.moved = RequestsAt(put, P) \cup RequestsAt(get, G)
            /\ last'.asked = asked
            /\ P = DOMAIN put.lead => \A i \in P : put.lead[i].max <= numrecs'
        BY <3>1, WaitEffect
      <3>3. PICK i \in DOMAIN put.lead : l = put.lead[i]
        BY DEF Leads
      <3>4. PICK x \in last'.moved : l.id = x.id
        BY DEF Moved
      <3>5. x \in RequestsAt(put, P) \/ x \in RequestsAt(get, G)
        BY <3>2, <3>4
      <3>6. \A y \in RequestsAt(get, G) : \E j \in G : y.id = get.lead[j].id
        BY DEF RequestsAt
      <3>7. \A y \in RequestsAt(put, P) : \E j \in P : y.id = put.lead[j].id
        BY DEF RequestsAt
      <3>8. P # {}
        BY <2>1, <3>2, <3>3, <3>4, <3>5, <3>6, <3>7, SidesApart
      <3>9. P = DOMAIN put.lead
        BY <3>1, <3>2, <3>8
      <3>10. put.lead[i].max <= numrecs' /\ put.lead[i].max \in Nat
        BY <2>1, <3>2, <3>3, <3>9, QueueFields, LeadFields DEF GoodQueue
      <3>11. numrecs' \in Nat
        <4>1. QueueInv'
          BY <3>1, WaitStep
        <4> QED
          BY <4>1, BoundAssumption DEF QueueInv
      <3> QED
        BY <3>3, <3>10, <3>11
    <2>3. CASE Adds \/ Cancels
      BY <2>3, NoneMoved DEF Moved
    <2> QED
      BY <2>2, <2>3, StepKinds
  <1> QED
    BY <1>1, Invariant, PTL DEF Spec, WholeWaitCounted
=============================================================================
