------------------------- MODULE BurstBufferProofs -------------------------
(***************************************************************************)
(* Theorems about BurstBuffer: the types and the put list, no wait that    *)
(* aborts, collective operations that match, and the promise of the log.   *)
(***************************************************************************)
EXTENDS BurstBuffer, LoopLemmas, FiniteSetTheorems, SequenceTheorems

-----------------------------------------------------------------------------
(***************************************************************************)
(* The steps left of a call: of one that flushes, with a wait or the       *)
(* driver's part at its end, or of one that closes the file.               *)
(***************************************************************************)
Flushing ==
    {<<>>, <<"driver">>, <<"handle">>, <<"handle", "driver">>,
     <<"reset">>, <<"reset", "driver">>, <<"reset", "handle">>,
     <<"reset", "handle", "driver">>,
     <<"rounds", "reset">>, <<"rounds", "reset", "driver">>,
     <<"rounds", "reset", "handle">>, <<"rounds", "reset", "handle", "driver">>,
     <<"reduce", "rounds", "reset">>, <<"reduce", "rounds", "reset", "driver">>,
     <<"reduce", "rounds", "reset", "handle">>,
     <<"reduce", "rounds", "reset", "handle", "driver">>}

Closing == {<<>>, <<"driver">>, <<"rounds", "driver">>, <<"reduce", "rounds", "driver">>}

Has(s, x) == \E i \in 1 .. Len(s) : s[i] = x

LEMMA Joined ==
  /\ \A a, b : <<a>> \o <<b>> = <<a, b>>
  /\ \A a, b, c : <<a, b>> \o <<c>> = <<a, b, c>>
  /\ \A a, b, c, d : <<a, b, c>> \o <<d>> = <<a, b, c, d>>
  /\ \A a, b, c, d, e : <<a, b, c, d>> \o <<e>> = <<a, b, c, d, e>>
  <1>1. ASSUME NEW a, NEW b PROVE <<a>> \o <<b>> = <<a, b>>
    <2> DEFINE S == {a, b}
               s == <<a>> \o <<b>>
               t == <<a, b>>
    <2>1. s \in Seq(S) /\ t \in Seq(S) /\ Len(s) = 2 /\ Len(t) = 2
      OBVIOUS
    <2>2. s[1] = a /\ s[2] = b /\ t[1] = a /\ t[2] = b
      OBVIOUS
    <2> HIDE DEF s, t, S
    <2>3. \A i \in 1 .. Len(s) : s[i] = t[i]
      BY <2>1, <2>2
    <2>4. s = t
      BY <2>1, <2>3, SeqEqual
    <2> QED
      BY <2>4 DEF s, t
  <1>2. ASSUME NEW a, NEW b, NEW c PROVE <<a, b>> \o <<c>> = <<a, b, c>>
    <2> DEFINE S == {a, b, c}
               s == <<a, b>> \o <<c>>
               t == <<a, b, c>>
    <2>1. s \in Seq(S) /\ t \in Seq(S) /\ Len(s) = 3 /\ Len(t) = 3
      OBVIOUS
    <2>2. s[1] = a /\ s[2] = b /\ s[3] = c /\ t[1] = a /\ t[2] = b /\ t[3] = c
      OBVIOUS
    <2> HIDE DEF s, t, S
    <2>3. \A i \in 1 .. Len(s) : s[i] = t[i]
      BY <2>1, <2>2
    <2>4. s = t
      BY <2>1, <2>3, SeqEqual
    <2> QED
      BY <2>4 DEF s, t
  <1>3. ASSUME NEW a, NEW b, NEW c, NEW d PROVE <<a, b, c>> \o <<d>> = <<a, b, c, d>>
    <2> DEFINE S == {a, b, c, d}
               s == <<a, b, c>> \o <<d>>
               t == <<a, b, c, d>>
    <2>1. s \in Seq(S) /\ t \in Seq(S) /\ Len(s) = 4 /\ Len(t) = 4
      OBVIOUS
    <2>2. /\ s[1] = a /\ s[2] = b /\ s[3] = c /\ s[4] = d
          /\ t[1] = a /\ t[2] = b /\ t[3] = c /\ t[4] = d
      OBVIOUS
    <2> HIDE DEF s, t, S
    <2>3. \A i \in 1 .. Len(s) : s[i] = t[i]
      BY <2>1, <2>2
    <2>4. s = t
      BY <2>1, <2>3, SeqEqual
    <2> QED
      BY <2>4 DEF s, t
  <1>4. ASSUME NEW a, NEW b, NEW c, NEW d, NEW e
        PROVE  <<a, b, c, d>> \o <<e>> = <<a, b, c, d, e>>
    <2> DEFINE S == {a, b, c, d, e}
               s == <<a, b, c, d>> \o <<e>>
               t == <<a, b, c, d, e>>
    <2>1. s \in Seq(S) /\ t \in Seq(S) /\ Len(s) = 5 /\ Len(t) = 5
      OBVIOUS
    <2>2. /\ s[1] = a /\ s[2] = b /\ s[3] = c /\ s[4] = d /\ s[5] = e
          /\ t[1] = a /\ t[2] = b /\ t[3] = c /\ t[4] = d /\ t[5] = e
      OBVIOUS
    <2> HIDE DEF s, t, S
    <2>3. \A i \in 1 .. Len(s) : s[i] = t[i]
      BY <2>1, <2>2
    <2>4. s = t
      BY <2>1, <2>3, SeqEqual
    <2> QED
      BY <2>4 DEF s, t
  <1> QED
    BY <1>1, <1>2, <1>3, <1>4, Zenon

(* One step taken of each list of steps.                                   *)
Chained(s) ==
    LET h == Head(s)
        t == Tail(s)
    IN  /\ s \in Seq(Steps) /\ h \in Steps
        /\ s \in Flushing => t \in Flushing
        /\ s \in Closing => t \in Closing
        /\ Len(s) = 1 <=> t = <<>>
        /\ \A x : Has(s, x) <=> x = h \/ Has(t, x)
        /\ h = "reduce" => t # <<>> /\ Head(t) = "rounds"
        /\ h = "rounds" => /\ t # <<>> /\ ~Has(t, "reduce") /\ ~Has(t, "rounds")
                           /\ s \in Flushing => Head(t) = "reset"
                           /\ s \in Closing => Head(t) = "driver"
        /\ h = "reset" => /\ \A x : Has(t, x) => x \in {"handle", "driver"}
                          /\ t # <<>> => Head(t) \in {"handle", "driver"}
        /\ h = "handle" => /\ \A x : Has(t, x) => x = "driver"
                           /\ t # <<>> => Head(t) = "driver"
        /\ h = "driver" => t = <<>>

LEMMA Chain ==
  ASSUME NEW s \in Flushing \cup Closing, s # <<>>
  PROVE  Chained(s)
  <1>1. CASE s = <<"driver">>
    BY <1>1 DEF Chained, Has, Steps, Flushing, Closing
  <1>2. CASE s = <<"handle">>
    BY <1>2 DEF Chained, Has, Steps, Flushing, Closing
  <1>3. CASE s = <<"handle", "driver">>
    BY <1>3 DEF Chained, Has, Steps, Flushing, Closing
  <1>4. CASE s = <<"reset">>
    BY <1>4 DEF Chained, Has, Steps, Flushing, Closing
  <1>5. CASE s = <<"reset", "driver">>
    BY <1>5 DEF Chained, Has, Steps, Flushing, Closing
  <1>6. CASE s = <<"reset", "handle">>
    BY <1>6 DEF Chained, Has, Steps, Flushing, Closing
  <1>7. CASE s = <<"reset", "handle", "driver">>
    BY <1>7 DEF Chained, Has, Steps, Flushing, Closing
  <1>8. CASE s = <<"rounds", "reset">>
    BY <1>8 DEF Chained, Has, Steps, Flushing, Closing
  <1>9. CASE s = <<"rounds", "reset", "driver">>
    BY <1>9 DEF Chained, Has, Steps, Flushing, Closing
  <1>10. CASE s = <<"rounds", "reset", "handle">>
    BY <1>10 DEF Chained, Has, Steps, Flushing, Closing
  <1>11. CASE s = <<"rounds", "reset", "handle", "driver">>
    BY <1>11 DEF Chained, Has, Steps, Flushing, Closing
  <1>12. CASE s = <<"reduce", "rounds", "reset">>
    BY <1>12 DEF Chained, Has, Steps, Flushing, Closing
  <1>13. CASE s = <<"reduce", "rounds", "reset", "driver">>
    BY <1>13 DEF Chained, Has, Steps, Flushing, Closing
  <1>14. CASE s = <<"reduce", "rounds", "reset", "handle">>
    BY <1>14 DEF Chained, Has, Steps, Flushing, Closing
  <1>15. CASE s = <<"reduce", "rounds", "reset", "handle", "driver">>
    BY <1>15 DEF Chained, Has, Steps, Flushing, Closing
  <1>16. CASE s = <<"rounds", "driver">>
    BY <1>16 DEF Chained, Has, Steps, Flushing, Closing
  <1>17. CASE s = <<"reduce", "rounds", "driver">>
    BY <1>17 DEF Chained, Has, Steps, Flushing, Closing
  <1> QED
    BY <1>1, <1>2, <1>3, <1>4, <1>5, <1>6, <1>7, <1>8, <1>9, <1>10, <1>11, <1>12, <1>13, <1>14, <1>15, <1>16, <1>17 DEF Flushing, Closing

-----------------------------------------------------------------------------
Closes(op) == op \in {"close", "abort"}

CallOps == {"get", "sync", "flush", "wait", "redef", "close", "abort"}

Jobs == [op : CallOps \cup {"none"}, steps : Flushing \cup Closing,
         left : 0 .. MaxPuts + 1, next : Nat \ {0}, ids : SUBSET Nat, ok : BOOLEAN]

On(j, x) == j.steps # <<>> /\ Head(j.steps) = x

LEMMA IdleJob == Idle \in Jobs /\ Idle.steps = <<>> /\ Idle.next = 1
  BY BoundAssumption DEF Idle, Jobs, Flushing

(* A step of a job: its call goes on, or it is over and leaves nothing.    *)
LEMMA Advanced ==
  ASSUME NEW j \in Jobs, j.steps # <<>>
  PROVE  /\ Advance(j) \in Jobs
         /\ Advance(j).steps = Tail(j.steps)
         /\ \/ Advance(j) = Idle /\ Tail(j.steps) = <<>>
            \/ /\ Advance(j) = [j EXCEPT !.steps = Tail(@)] /\ Tail(j.steps) # <<>>
               /\ Advance(j).op = j.op /\ Advance(j).left = j.left
               /\ Advance(j).next = j.next /\ Advance(j).ids = j.ids
               /\ Advance(j).ok = j.ok
  <1>1. Chained(j.steps) /\ j.steps \in Flushing \cup Closing
    BY Chain DEF Jobs
  <1>2. Tail(j.steps) \in Flushing \cup Closing
    BY <1>1 DEF Chained
  <1>3. CASE Len(j.steps) = 1
    <2>1. Advance(j) = Idle /\ Tail(j.steps) = <<>>
      BY <1>1, <1>3 DEF Advance, Chained
    <2> QED
      BY <2>1, IdleJob
  <1>4. CASE Len(j.steps) # 1
    <2>1. Tail(j.steps) # <<>>
      BY <1>1, <1>4 DEF Chained
    <2>2. Advance(j) = [j EXCEPT !.steps = Tail(@)]
      BY <1>4 DEF Advance
    <2> QED
      BY <1>2, <2>1, <2>2 DEF Jobs
  <1> QED
    BY <1>3, <1>4

-----------------------------------------------------------------------------
(***************************************************************************)
(* The request objects of a rank: ids[1 .. nused] are used, the others are *)
(* the free ones, each once.                                               *)
(***************************************************************************)
Lists == [ids : Seq(Nat), nused : Int,
          reqs : UNION {[0 .. n - 1 -> Object] : n \in Nat}]

FreeIds(l) == {l.ids[i] : i \in l.nused + 1 .. Nalloc(l)}

GoodList(l) ==
    /\ Nalloc(l) > 0 /\ l.nused \in 0 .. Nalloc(l)
    /\ l.reqs \in [0 .. Nalloc(l) - 1 -> Object]
    /\ FreeIds(l) = (0 .. Nalloc(l) - 1) \ Issued(l)
    /\ \A i, j \in l.nused + 1 .. Nalloc(l) : l.ids[i] = l.ids[j] => i = j
    /\ Cardinality(Issued(l)) = l.nused

LEMMA IssuedFinite ==
  ASSUME NEW l \in Lists
  PROVE  IsFiniteSet(Issued(l)) /\ Nalloc(l) \in Nat
  <1>1. Nalloc(l) \in Nat
    BY DEF Nalloc, Lists
  <1>2. IsFiniteSet(0 .. Nalloc(l) - 1)
    BY <1>1, FS_Interval
  <1>3. Issued(l) \in SUBSET (0 .. Nalloc(l) - 1)
    BY DEF Issued
  <1> QED
    BY <1>1, <1>2, <1>3, FS_Subset

LEMMA EmptyListGood == EmptyList \in Lists /\ GoodList(EmptyList)
  <1> DEFINE ids == [i \in 1 .. PoolSize |-> i - 1]
             reqs == [i \in 0 .. PoolSize - 1 |-> Unused]
  <1>1. PoolSize \in Nat /\ PoolSize > 0
    BY BoundAssumption
  <1>2. ids \in Seq(Nat) /\ Len(ids) = PoolSize
    BY <1>1
  <1>3. Unused \in Object /\ ~Unused.valid
    BY DEF Unused, Object
  <1>4. reqs \in [0 .. PoolSize - 1 -> Object]
    BY <1>3
  <1>5. EmptyList.ids = ids /\ EmptyList.nused = 0 /\ EmptyList.reqs = reqs
    BY DEF EmptyList
  <1>6. EmptyList \in Lists
    BY <1>1, <1>2, <1>4 DEF EmptyList, Lists
  <1>7. Nalloc(EmptyList) = PoolSize
    BY <1>2, <1>5 DEF Nalloc
  <1>8. Issued(EmptyList) = {}
    BY <1>3, <1>5, <1>7 DEF Issued
  <1>9. FreeIds(EmptyList) = 0 .. PoolSize - 1
    <2>1. FreeIds(EmptyList) = {i - 1 : i \in 1 .. PoolSize}
      BY <1>1, <1>5, <1>7 DEF FreeIds
    <2>2. \A k \in 0 .. PoolSize - 1 : k + 1 \in 1 .. PoolSize /\ k = (k + 1) - 1
      BY <1>1
    <2>3. \A i \in 1 .. PoolSize : i - 1 \in 0 .. PoolSize - 1
      BY <1>1
    <2> QED
      BY <2>1, <2>2, <2>3
  <1>10. \A i, j \in 1 .. PoolSize : ids[i] = ids[j] => i = j
    BY <1>1
  <1> QED
    BY <1>1, <1>4, <1>5, <1>6, <1>7, <1>8, <1>9, <1>10, FS_EmptySet DEF GoodList

LEMMA ResizedGood ==
  ASSUME NEW l \in Lists, GoodList(l), l.nused = Nalloc(l)
  PROVE  /\ Resize(l) \in Lists /\ GoodList(Resize(l))
         /\ Nalloc(Resize(l)) = 2 * Nalloc(l) /\ Resize(l).nused = l.nused
         /\ Issued(Resize(l)) = Issued(l)
         /\ \A id \in Issued(l) : Resize(l).reqs[id] = l.reqs[id]
  <1> DEFINE n == Nalloc(l)
             more == [i \in 1 .. n |-> n + i - 1]
             ids == l.ids \o more
             reqs == [id \in 0 .. 2 * n - 1 |-> IF id < n THEN l.reqs[id] ELSE Unused]
             g == Resize(l)
  <1>1. n \in Nat /\ n > 0 /\ l.ids \in Seq(Nat) /\ Len(l.ids) = n /\ l.nused = n
        /\ l.reqs \in [0 .. n - 1 -> Object] /\ l.nused \in Int
    BY DEF Lists, Nalloc, GoodList
  <1>2. more \in Seq(Nat) /\ Len(more) = n /\ \A i \in 1 .. n : more[i] = n + i - 1
    BY <1>1
  <1>3. Unused \in Object /\ ~Unused.valid
    BY DEF Unused, Object
  <1>4. reqs \in [0 .. 2 * n - 1 -> Object]
    BY <1>1, <1>3
  <1>5. g.ids = ids /\ g.nused = n /\ g.reqs = reqs /\ g = [ids |-> ids, nused |-> n, reqs |-> reqs]
    <2>1. g = [l EXCEPT !.ids = ids, !.reqs = reqs]
      BY DEF Resize
    <2> HIDE DEF ids, reqs, n, g
    <2> QED
      BY <1>1, <2>1 DEF Lists
  <1> HIDE DEF more, g
  <1>6. /\ ids \in Seq(Nat) /\ Len(ids) = n + n
        /\ \A i \in n + 1 .. n + n : ids[i] = i - 1
    <2> HIDE DEF n
    <2>1. /\ ids \in Seq(Nat) /\ Len(ids) = n + n
          /\ \A i \in 1 .. n + n : ids[i] = IF i <= n THEN l.ids[i] ELSE more[i - n]
      <3> DEFINE old == l.ids
      <3>1. old \in Seq(Nat) /\ Len(old) = n
        BY <1>1
      <3> HIDE DEF old
      <3>2. /\ old \o more \in Seq(Nat) /\ Len(old \o more) = n + n
            /\ \A i \in 1 .. n + n : (old \o more)[i] = IF i <= n THEN old[i] ELSE more[i - n]
        <4>1. /\ old \o more \in Seq(Nat) /\ Len(old \o more) = Len(old) + Len(more)
              /\ \A i \in 1 .. Len(old) + Len(more) :
                    (old \o more)[i] = IF i <= Len(old) THEN old[i] ELSE more[i - Len(old)]
          BY <1>2, <3>1, ConcatProperties, Zenon
        <4> QED
          BY <1>2, <3>1, <4>1
      <3> QED
        BY <3>2 DEF old
    <2>2. ASSUME NEW i \in n + 1 .. n + n PROVE ids[i] = i - 1
      <3>1. i \in 1 .. n + n /\ ~(i <= n) /\ i - n \in 1 .. n /\ n + (i - n) - 1 = i - 1
        BY <1>1
      <3> QED
        BY <1>2, <2>1, <3>1
    <2> QED
      BY <2>1, <2>2
  <1> HIDE DEF ids
  <1>7. Nalloc(g) = 2 * n
    BY <1>1, <1>5, <1>6 DEF Nalloc
  <1>8. g \in Lists
    <2>1. 2 * n \in Nat
      BY <1>1
    <2> HIDE DEF reqs, n
    <2>2. reqs \in UNION {[0 .. i - 1 -> Object] : i \in Nat}
      BY <1>4, <2>1
    <2> QED
      BY <1>1, <1>5, <1>6, <2>2 DEF Lists
  <1>9. \A id \in 0 .. 2 * n - 1 : reqs[id] = IF id < n THEN l.reqs[id] ELSE Unused
    OBVIOUS
  <1> HIDE DEF reqs
  <1>10. Issued(g) = Issued(l)
    BY <1>1, <1>3, <1>5, <1>7, <1>9, SMTT(30) DEF Issued
  <1>11. FreeIds(g) = n .. 2 * n - 1
    <2>1. FreeIds(g) = {i - 1 : i \in n + 1 .. n + n}
      BY <1>1, <1>5, <1>6, <1>7, SMTT(60) DEF FreeIds
    <2>2. \A k \in n .. 2 * n - 1 : k + 1 \in n + 1 .. n + n /\ k = (k + 1) - 1
      BY <1>1
    <2>3. \A i \in n + 1 .. n + n : i - 1 \in n .. 2 * n - 1
      BY <1>1
    <2> QED
      BY <2>1, <2>2, <2>3
  <1>12. Issued(l) = 0 .. n - 1
    <2>1. FreeIds(l) = {}
      BY <1>1 DEF FreeIds
    <2>2. Issued(l) \subseteq 0 .. n - 1
      BY DEF Issued
    <2> QED
      BY <2>1, <2>2 DEF GoodList
  <1>13. FreeIds(g) = (0 .. Nalloc(g) - 1) \ Issued(g)
    BY <1>1, <1>7, <1>10, <1>11, <1>12
  <1>14. \A i, j \in n + 1 .. 2 * n : ids[i] = ids[j] => i = j
    BY <1>1, <1>6, SMTT(60)
  <1>15. Cardinality(Issued(g)) = n
    BY <1>1, <1>10 DEF GoodList
  <1>16. GoodList(g)
    BY <1>1, <1>4, <1>5, <1>7, <1>13, <1>14, <1>15 DEF GoodList
  <1>17. \A id \in Issued(l) : g.reqs[id] = l.reqs[id]
    BY <1>1, <1>5, <1>9, <1>12
  <1> QED
    BY <1>5, <1>7, <1>8, <1>10, <1>16, <1>17 DEF g

(* A request object taken from the free ones.                              *)
LEMMA AddedGood ==
  ASSUME NEW l \in Lists, GoodList(l), NEW first \in Nat, NEW last \in Nat
  PROVE  LET id == NextId(l)
             g == Add(l, id, first, last)
         IN  /\ g \in Lists /\ GoodList(g)
             /\ id \in Nat /\ id \notin Issued(l) /\ Issued(g) = Issued(l) \cup {id}
             /\ g.reqs[id] = [valid |-> TRUE, ready |-> first > last,
                              first |-> first, last |-> last]
             /\ \A x \in Issued(l) : g.reqs[x] = l.reqs[x]
  <1> DEFINE room == IF l.nused = Nalloc(l) THEN Resize(l) ELSE l
             n == Nalloc(room)
             k == room.nused + 1
             id == room.ids[k]
             o == [valid |-> TRUE, ready |-> first > last, first |-> first, last |-> last]
             g == Add(l, id, first, last)
  <1>1. /\ room \in Lists /\ GoodList(room) /\ Issued(room) = Issued(l)
        /\ \A x \in Issued(l) : room.reqs[x] = l.reqs[x]
        /\ room.nused < Nalloc(room)
    <2>1. CASE l.nused = Nalloc(l)
      <3>1. Nalloc(l) \in Nat /\ Nalloc(l) > 0
        BY IssuedFinite DEF GoodList
      <3> QED
        BY <2>1, <3>1, ResizedGood
    <2>2. CASE l.nused # Nalloc(l)
      <3>1. l.nused < Nalloc(l)
        BY <2>2, IssuedFinite DEF GoodList
      <3> QED
        BY <2>2, <3>1
    <2> QED
      BY <2>1, <2>2
  <1>2. NextId(l) = id
    <2>1. room.nused = l.nused
      BY ResizedGood
    <2> QED
      BY <2>1 DEF NextId
  <1>3. g = [room EXCEPT !.nused = @ + 1, !.reqs[id] = o]
    BY DEF Add
  <1> HIDE DEF room
  <1>4. n \in Nat /\ k \in 1 .. n /\ k = room.nused + 1 /\ room.ids \in Seq(Nat) /\ Len(room.ids) = n
        /\ room.reqs \in [0 .. n - 1 -> Object] /\ room.nused \in Int /\ k \in Int
    BY <1>1, IssuedFinite DEF GoodList, Lists, Nalloc
  <1> HIDE DEF n, k
  <1>5. id \in FreeIds(room)
    BY <1>4 DEF FreeIds, n
  <1>6. id \in 0 .. n - 1 /\ id \notin Issued(room) /\ id \in Nat
    BY <1>1, <1>4, <1>5 DEF GoodList, n
  <1>7. o \in Object
    BY DEF Object
  <1> HIDE DEF id, o, g
  <1>8. /\ g.ids = room.ids /\ g.nused = k /\ g.reqs = [room.reqs EXCEPT ![id] = o]
        /\ g = [ids |-> room.ids, nused |-> k, reqs |-> [room.reqs EXCEPT ![id] = o]]
    BY <1>1, <1>3, <1>4 DEF Lists
  <1>9. [room.reqs EXCEPT ![id] = o] \in [0 .. n - 1 -> Object]
    BY <1>4, <1>7
  <1>10. g \in Lists
    <2>1. g.reqs \in UNION {[0 .. i - 1 -> Object] : i \in Nat}
      BY <1>4, <1>8, <1>9
    <2> QED
      BY <1>4, <1>8, <2>1 DEF Lists
  <1>11. Nalloc(g) = n
    BY <1>4, <1>8 DEF Nalloc
  <1>12. Issued(g) = Issued(room) \cup {id}
    <2>1. o.valid
      BY DEF o
    <2> QED
      BY <1>4, <1>6, <1>8, <1>11, <2>1 DEF Issued, n
  <1>13. FreeIds(g) = FreeIds(room) \ {id}
    <2>1. FreeIds(room) = {room.ids[i] : i \in k .. n}
      BY <1>4 DEF FreeIds, n
    <2>2. FreeIds(g) = {room.ids[i] : i \in k + 1 .. n}
      BY <1>8, <1>11 DEF FreeIds
    <2>3. \A i \in k + 1 .. n : i \in k .. n /\ i # k /\ k \in k .. n
      BY <1>4
    <2>4. \A i, j \in k .. n : room.ids[i] = room.ids[j] => i = j
      BY <1>1, <1>4 DEF GoodList, n
    <2>5. \A i \in k .. n : i = k \/ i \in k + 1 .. n
      BY <1>4
    <2> QED
      BY <1>4, <2>1, <2>2, <2>3, <2>4, <2>5 DEF id
  <1>14. FreeIds(g) = (0 .. Nalloc(g) - 1) \ Issued(g)
    BY <1>1, <1>11, <1>12, <1>13 DEF GoodList, n
  <1>15. \A i, j \in k + 1 .. n : g.ids[i] = g.ids[j] => i = j
    <2>1. \A i \in k + 1 .. n : i \in room.nused + 1 .. Nalloc(room)
      BY <1>4 DEF n
    <2> QED
      BY <1>1, <1>8, <2>1 DEF GoodList
  <1>16. Cardinality(Issued(g)) = k
    <2>1. Cardinality(Issued(g)) = Cardinality(Issued(room)) + 1
      BY <1>1, <1>6, <1>12, IssuedFinite, FS_AddElement
    <2> QED
      BY <1>1, <1>4, <2>1 DEF GoodList
  <1>17. GoodList(g)
    <2>1. Nalloc(g) > 0 /\ g.nused \in 0 .. Nalloc(g) /\ g.reqs \in [0 .. Nalloc(g) - 1 -> Object]
      <3>1. n > 0 /\ k \in 0 .. n
        BY <1>4
      <3>2. g.reqs \in [0 .. n - 1 -> Object]
        BY <1>8, <1>9
      <3> QED
        BY <1>8, <1>11, <3>1, <3>2, Zenon
    <2>2. \A i, j \in g.nused + 1 .. Nalloc(g) : g.ids[i] = g.ids[j] => i = j
      BY <1>8, <1>11, <1>15
    <2> QED
      BY <1>8, <1>14, <1>16, <2>1, <2>2 DEF GoodList
  <1>18. g.reqs[id] = o /\ \A x \in Issued(l) : g.reqs[x] = l.reqs[x]
    <2>1. \A x \in Issued(room) : x \in 0 .. n - 1 /\ x # id
      BY <1>6 DEF Issued, n
    <2> QED
      BY <1>1, <1>4, <1>6, <1>8, <2>1
  <1> QED
    BY <1>1, <1>2, <1>6, <1>10, <1>12, <1>17, <1>18 DEF g, o

(* A request object given back.                                            *)
LEMMA RecycledType ==
  ASSUME NEW l \in Lists, NEW id \in Nat
  PROVE  Recycle(l, id) \in Lists
  <1>1. PICK n \in Nat : l.reqs \in [0 .. n - 1 -> Object]
    BY DEF Lists
  <1> DEFINE reqs == [l.reqs EXCEPT ![id].valid = FALSE]
             ids == [l.ids EXCEPT ![l.nused] = id]
  <1>2. Recycle(l, id) = [ids |-> ids, nused |-> l.nused - 1, reqs |-> reqs]
    <2>1. Recycle(l, id) = [l EXCEPT !.ids = ids, !.nused = l.nused - 1, !.reqs = reqs]
      BY DEF Recycle, Lists
    <2> HIDE DEF ids, reqs
    <2> QED
      BY <2>1 DEF Lists
  <1>3. reqs \in [0 .. n - 1 -> Object]
    BY <1>1 DEF Object
  <1>4. reqs \in UNION {[0 .. i - 1 -> Object] : i \in Nat}
    BY <1>3
  <1>5. ids \in Seq(Nat)
    <2> DEFINE old == l.ids
               k == l.nused
               n0 == Len(old)
    <2>1. old \in Seq(Nat)
      BY DEF Lists
    <2> HIDE DEF old, k
    <2>2. n0 \in Nat /\ old \in [1 .. n0 -> Nat]
      BY <2>1
    <2> HIDE DEF n0
    <2>3. [old EXCEPT ![k] = id] \in [1 .. n0 -> Nat]
      BY <2>2
    <2>4. [old EXCEPT ![k] = id] \in Seq(Nat)
      BY <2>2, <2>3
    <2> QED
      BY <2>4 DEF old, k
  <1>6. l.nused - 1 \in Int
    BY DEF Lists
  <1> HIDE DEF reqs, ids
  <1> QED
    BY <1>2, <1>4, <1>5, <1>6 DEF Lists

LEMMA RecycledGood ==
  ASSUME NEW l \in Lists, GoodList(l), NEW id \in Issued(l)
  PROVE  LET g == Recycle(l, id)
         IN  /\ g \in Lists /\ GoodList(g) /\ Issued(g) = Issued(l) \ {id}
             /\ \A x \in Issued(g) : g.reqs[x] = l.reqs[x]
  <1> DEFINE g == Recycle(l, id)
             n == Nalloc(l)
             k == l.nused
             old == l.reqs
             reqs == [old EXCEPT ![id].valid = FALSE]
             ids == [l.ids EXCEPT ![k] = id]
  <1>1. n \in Nat /\ n > 0 /\ k \in 0 .. n /\ l.ids \in Seq(Nat) /\ Len(l.ids) = n
        /\ old \in [0 .. n - 1 -> Object] /\ k \in Int
    BY IssuedFinite DEF GoodList, Lists, Nalloc
  <1>2. id \in 0 .. n - 1 /\ id \in Nat
    BY DEF Issued
  <1>3. k >= 1
    <2>1. k # 0
      BY IssuedFinite, FS_EmptySet DEF GoodList
    <2> QED
      BY <1>1, <2>1
  <1>4. g.ids = ids /\ g.nused = k - 1 /\ g.reqs = reqs
    <2>1. g = [l EXCEPT !.ids = ids, !.nused = k - 1, !.reqs = reqs]
      BY DEF Recycle, Lists
    <2> HIDE DEF ids, k, reqs, g
    <2> QED
      BY <2>1 DEF Lists
  <1>5. g \in Lists
    BY <1>2, RecycledType
  <1> HIDE DEF g, n, k, old
  <1>6. /\ reqs \in [0 .. n - 1 -> Object] /\ ~reqs[id].valid
        /\ \A x \in 0 .. n - 1 : x # id => reqs[x] = old[x]
    BY <1>1, <1>2 DEF Object
  <1>7. /\ ids \in Seq(Nat) /\ Len(ids) = n /\ ids[k] = id
        /\ \A i \in k + 1 .. n : ids[i] = l.ids[i]
    BY <1>1, <1>2, <1>3
  <1> HIDE DEF ids, reqs
  <1>8. Nalloc(g) = n
    BY <1>4, <1>7 DEF Nalloc
  <1>9. Issued(g) = Issued(l) \ {id}
    BY <1>1, <1>2, <1>4, <1>6, <1>8 DEF Issued, n, old
  <1>10. FreeIds(g) = FreeIds(l) \cup {id}
    <2>1. FreeIds(g) = {ids[i] : i \in k .. n}
      BY <1>1, <1>4, <1>8 DEF FreeIds
    <2>2. FreeIds(l) = {l.ids[i] : i \in k + 1 .. n}
      BY DEF FreeIds, n, k
    <2>3. \A i \in k .. n : i = k \/ i \in k + 1 .. n
      BY <1>1
    <2>4. k \in k .. n /\ \A i \in k + 1 .. n : i \in k .. n
      BY <1>1
    <2> QED
      BY <1>7, <2>1, <2>2, <2>3, <2>4
  <1>11. FreeIds(g) = (0 .. Nalloc(g) - 1) \ Issued(g)
    BY <1>2, <1>8, <1>9, <1>10 DEF GoodList, n
  <1>12. \A i, j \in k .. n : ids[i] = ids[j] => i = j
    <2>1. \A i, j \in k + 1 .. n : l.ids[i] = l.ids[j] => i = j
      BY DEF GoodList, n, k
    <2>2. \A i \in k + 1 .. n : l.ids[i] # id
      <3>1. \A i \in k + 1 .. n : l.ids[i] \in FreeIds(l)
        BY DEF FreeIds, n, k
      <3> QED
        BY <3>1 DEF GoodList
    <2>3. \A i \in k .. n : i = k \/ i \in k + 1 .. n
      BY <1>1
    <2> QED
      BY <1>7, <2>1, <2>2, <2>3
  <1>13. Cardinality(Issued(g)) = k - 1
    <2>1. Cardinality(Issued(l) \ {id}) = Cardinality(Issued(l)) - 1
      BY IssuedFinite, FS_RemoveElement
    <2> QED
      BY <1>9, <2>1 DEF GoodList, k
  <1>14. GoodList(g)
    <2>1. Nalloc(g) > 0 /\ g.nused \in 0 .. Nalloc(g)
      BY <1>1, <1>3, <1>4, <1>8
    <2>2. g.reqs \in [0 .. Nalloc(g) - 1 -> Object]
      BY <1>4, <1>6, <1>8, Zenon
    <2>3. \A i, j \in g.nused + 1 .. Nalloc(g) : g.ids[i] = g.ids[j] => i = j
      BY <1>1, <1>4, <1>8, <1>12
    <2> QED
      BY <1>4, <1>11, <1>13, <2>1, <2>2, <2>3 DEF GoodList
  <1>15. \A x \in Issued(g) : g.reqs[x] = l.reqs[x]
    <2>1. \A x \in Issued(g) : x \in 0 .. n - 1 /\ x # id
      BY <1>8, <1>9 DEF Issued
    <2> QED
      BY <1>4, <1>6, <2>1 DEF old
  <1> QED
    BY <1>5, <1>9, <1>14, <1>15 DEF g

(* All request objects of a wait are given back, one after the other.      *)
LEMMA AllRecycled ==
  ASSUME NEW l \in Lists, GoodList(l), NEW S \in SUBSET Issued(l), NEW order \in SetToSeqs(S)
  PROVE  LET g == RecycleAll(l, order)
         IN  /\ g \in Lists /\ GoodList(g) /\ Issued(g) \subseteq Issued(l)
             /\ \A x \in Issued(g) : g.reqs[x] = l.reqs[x]
  <1> DEFINE n == Len(order)
             G == [i \in 1 .. n |-> [g \in Lists |-> Recycle(g, order[i])]]
             Loop(t) == [i \in 0 .. n |-> IF i = 0 THEN l ELSE Recycle(t[i - 1], order[i])]
             T == CHOOSE t : t = Loop(t)
  <1>1. /\ n \in Nat
        /\ \A i \in 1 .. n : order[i] \in Issued(l) /\ order[i] \in Nat
        /\ \A i, j \in 1 .. n : i # j => order[i] # order[j]
    <2>1. Cardinality(S) \in Nat
      BY IssuedFinite, FS_Subset, FS_CardinalityType
    <2>2. order \in [1 .. Cardinality(S) -> S]
          /\ \A i, j \in 1 .. Cardinality(S) : i # j => order[i] # order[j]
      BY DEF SetToSeqs
    <2>3. n = Cardinality(S)
      BY <2>1, <2>2
    <2> HIDE DEF n
    <2>4. \A x \in Issued(l) : x \in Nat
      BY IssuedFinite DEF Issued
    <2> QED
      BY <2>1, <2>2, <2>3, <2>4
  <1>2. RecycleAll(l, order) = T[n]
    BY DEF RecycleAll
  <1> HIDE DEF n
  <1>3. G \in [1 .. n -> [Lists -> Lists]]
    BY <1>1, RecycledType
  <1>4. \E t : t = Loop(t)
    <2> HIDE DEF G
    <2>1. PICK t \in [0 .. n -> Lists] : /\ t[0] = l
                                         /\ \A i \in 1 .. n : t[i] = G[i][t[i - 1]]
      BY <1>1, <1>3, Iterate
    <2>2. ASSUME NEW i \in 0 .. n, i # 0
          PROVE  G[i][t[i - 1]] = Recycle(t[i - 1], order[i])
      <3>1. i \in 1 .. n /\ t[i - 1] \in Lists
        BY <1>1, <2>2
      <3> QED
        BY <3>1 DEF G
    <2>3. \A i \in 0 .. n : t[i] = IF i = 0 THEN l ELSE Recycle(t[i - 1], order[i])
      <3>1. \A i \in 0 .. n : i = 0 \/ i \in 1 .. n
        BY <1>1
      <3> QED
        BY <2>1, <2>2, <3>1
    <2>4. t = Loop(t)
      BY <2>3
    <2> QED
      BY <2>4
  <1>5. T = Loop(T)
    <2> HIDE DEF Loop
    <2> QED
      BY <1>4, Zenon
  <1>6. T[0] = l /\ \A i \in 1 .. n : T[i] = Recycle(T[i - 1], order[i])
    <2> HIDE DEF T
    <2>1. \A i \in 0 .. n : T[i] = IF i = 0 THEN l ELSE Recycle(T[i - 1], order[i])
      BY <1>5, Zenon
    <2>2. 0 \in 0 .. n /\ \A i \in 1 .. n : i \in 0 .. n /\ i # 0
      BY <1>1
    <2> QED
      BY <2>1, <2>2
  <1> HIDE DEF T, G, Loop
  <1> DEFINE Fine(i) == /\ T[i] \in Lists /\ GoodList(T[i]) /\ Issued(T[i]) \subseteq Issued(l)
                        /\ \A x \in Issued(T[i]) : T[i].reqs[x] = l.reqs[x]
                        /\ \A j \in i + 1 .. n : order[j] \in Issued(T[i])
             P == {i \in 0 .. n : Fine(i)}
  <1>7. 0 \in P
    BY <1>1, <1>6
  <1>8. ASSUME NEW i \in 1 .. n, i - 1 \in P PROVE i \in P
    <2>1. Fine(i - 1) /\ i \in 0 .. n /\ i \in (i - 1) + 1 .. n
      BY <1>1, <1>8
    <2> DEFINE u == T[i - 1]
               id == order[i]
    <2>2. /\ u \in Lists /\ GoodList(u) /\ Issued(u) \subseteq Issued(l)
          /\ \A x \in Issued(u) : u.reqs[x] = l.reqs[x] /\ id \in Issued(u)
      BY <2>1
    <2>3. T[i] = Recycle(u, id)
      BY <1>6
    <2>4. \A j \in i + 1 .. n : order[j] \in Issued(u) /\ order[j] # id
      <3>1. \A j \in i + 1 .. n : j \in (i - 1) + 1 .. n /\ j \in 1 .. n /\ i # j
        BY <1>1
      <3> QED
        BY <1>1, <2>1, <3>1
    <2> HIDE DEF u, id
    <2>5. /\ T[i] \in Lists /\ GoodList(T[i]) /\ Issued(T[i]) = Issued(u) \ {id}
          /\ \A x \in Issued(T[i]) : T[i].reqs[x] = u.reqs[x]
      <3>1. id \in Issued(u)
        BY <2>1 DEF u, id
      <3> QED
        BY <2>2, <2>3, <3>1, RecycledGood
    <2>6. Fine(i)
      BY <2>2, <2>4, <2>5
    <2> QED
      BY <2>1, <2>6
  <1>9. Fine(n)
    <2>1. \A i \in 0 .. n : i \in P
      <3> HIDE DEF P
      <3> QED
        BY <1>1, <1>7, <1>8, LoopInduction
    <2>2. n \in 0 .. n
      BY <1>1
    <2> QED
      BY <2>1, <2>2
  <1> QED
    BY <1>2, <1>9

-----------------------------------------------------------------------------
(***************************************************************************)
(* The rounds of a replay.  Counted(g, b)[i] is what the loop over log g   *)
(* with a buffer of b cells has counted after i entries; Used(g)[i] is the *)
(* number of cells of the valid ones among these.                          *)
(***************************************************************************)
Counted(g, b) ==
    LET count[i \in 0 .. Len(g)] ==
            IF i = 0 THEN CountFrom
            ELSE LET n == count[i - 1]
                     e == g[i]
                 IN  IF ~e.valid THEN n
                     ELSE IF Size(e) + n.used > b
                     THEN [rounds |-> n.rounds + 1, used |-> Size(e)]
                     ELSE [n EXCEPT !.used = @ + Size(e)]
    IN  count

Weight(e) == IF e.valid THEN Size(e) ELSE 0

Used(g) == Sums(g, LAMBDA e : IF e.valid THEN Size(e) ELSE 0)

LEMMA Entries ==
  ASSUME NEW e \in Entry
  PROVE  Size(e) \in Nat /\ Weight(e) \in Nat /\ e.valid \in BOOLEAN
  <1>1. e.cells \in Shapes \cup VarnShapes /\ e.valid \in BOOLEAN
    BY DEF Entry
  <1>2. e.cells \in Seq(1 .. Cells)
    BY <1>1, BoundAssumption
  <1> QED
    BY <1>1, <1>2 DEF Size, Weight

LEMMA RoundsCounted ==
  \A r \in Rank : Rounds(r) = Counted(log[r], BufferSize(r))[Len(log[r])].rounds
  BY DEF Rounds, Counted

Totals == [rounds : Nat, used : Nat]

Count(n, e, b) ==
    IF ~e.valid THEN n
    ELSE IF Size(e) + n.used > b THEN [rounds |-> n.rounds + 1, used |-> Size(e)]
    ELSE [n EXCEPT !.used = @ + Size(e)]

LEMMA CountType ==
  ASSUME NEW n \in Totals, NEW e \in Entry, NEW b \in Nat
  PROVE  Count(n, e, b) \in Totals
  BY Entries DEF Count, Totals

LEMMA CountLoop ==
  ASSUME NEW g \in Seq(Entry), NEW b \in Nat
  PROVE  /\ Counted(g, b) \in [0 .. Len(g) -> Totals]
         /\ Counted(g, b)[0] = CountFrom
         /\ \A i \in 1 .. Len(g) : Counted(g, b)[i] = Count(Counted(g, b)[i - 1], g[i], b)
  <1> DEFINE n == Len(g)
             G == [i \in 1 .. n |-> [s \in Totals |-> Count(s, g[i], b)]]
             Loop(t) == [i \in 0 .. n |-> IF i = 0 THEN CountFrom ELSE Count(t[i - 1], g[i], b)]
             T == CHOOSE t : t = Loop(t)
  <1>1. n \in Nat /\ CountFrom \in Totals /\ \A i \in 1 .. n : g[i] \in Entry
    BY DEF CountFrom, Totals
  <1>2. Counted(g, b) = T
    BY DEF Counted, Count
  <1> HIDE DEF n
  <1>3. G \in [1 .. n -> [Totals -> Totals]]
    BY <1>1, CountType
  <1>4. \E t \in [0 .. n -> Totals] : t = Loop(t)
    <2> HIDE DEF G
    <2>1. PICK t \in [0 .. n -> Totals] : /\ t[0] = CountFrom
                                          /\ \A i \in 1 .. n : t[i] = G[i][t[i - 1]]
      <3> DEFINE S == Totals
                 a == CountFrom
      <3>1. n \in Nat /\ a \in S /\ G \in [1 .. n -> [S -> S]]
        BY <1>1, <1>3
      <3> HIDE BoundAssumption, ChoiceAssumption DEF Loop, T, S, a
      <3>2. \E t \in [0 .. n -> S] : t[0] = a /\ \A i \in 1 .. n : t[i] = G[i][t[i - 1]]
        BY <3>1, Iterate
      <3> QED
        BY <3>2 DEF S, a
    <2>2. ASSUME NEW i \in 0 .. n, i # 0
          PROVE  G[i][t[i - 1]] = Count(t[i - 1], g[i], b)
      <3>1. i \in 1 .. n /\ t[i - 1] \in Totals
        BY <1>1, <2>2
      <3> QED
        BY <3>1 DEF G
    <2>3. \A i \in 0 .. n : t[i] = IF i = 0 THEN CountFrom ELSE Count(t[i - 1], g[i], b)
      <3>1. \A i \in 0 .. n : i = 0 \/ i \in 1 .. n
        BY <1>1
      <3> QED
        BY <2>1, <2>2, <3>1
    <2>4. t = Loop(t)
      BY <2>3
    <2> QED
      BY <2>4
  <1>5. T = Loop(T)
    <2> HIDE DEF Loop
    <2> QED
      BY <1>4, Zenon
  <1>6. T[0] = CountFrom /\ \A i \in 1 .. n : T[i] = Count(T[i - 1], g[i], b)
    <2> HIDE DEF T
    <2>1. \A i \in 0 .. n : T[i] = IF i = 0 THEN CountFrom ELSE Count(T[i - 1], g[i], b)
      BY <1>5, Zenon
    <2>2. 0 \in 0 .. n /\ \A i \in 1 .. n : i \in 0 .. n /\ i # 0
      BY <1>1
    <2> QED
      BY <2>1, <2>2
  <1>7. T \in [0 .. n -> Totals]
    <2> HIDE DEF T
    <2> DEFINE P == {i \in 0 .. n : T[i] \in Totals}
    <2>1. 0 \in P
      BY <1>1, <1>6
    <2>2. \A i \in 1 .. n : i - 1 \in P => i \in P
      BY <1>1, <1>6, CountType, SMTT(30)
    <2>3. \A i \in 0 .. n : i \in P
      <3> HIDE DEF P
      <3> QED
        BY <1>1, <2>1, <2>2, LoopInduction
    <2>4. T = [i \in 0 .. n |-> T[i]]
      BY <1>5
    <2> QED
      BY <2>3, <2>4
  <1> QED
    BY <1>2, <1>6, <1>7 DEF n

LEMMA UsedLoop ==
  ASSUME NEW g \in Seq(Entry)
  PROVE  /\ Used(g) \in [0 .. Len(g) -> Nat]
         /\ Used(g)[0] = 0
         /\ \A i \in 1 .. Len(g) : Used(g)[i] = Used(g)[i - 1] + Weight(g[i])
  <1> DEFINE n == Len(g)
             G == [i \in 1 .. n |-> [s \in Nat |-> s + Weight(g[i])]]
             Loop(t) == [i \in 0 .. n |-> IF i = 0 THEN 0 ELSE t[i - 1] + Weight(g[i])]
             T == CHOOSE t : t = Loop(t)
  <1>1. n \in Nat /\ \A i \in 1 .. n : Weight(g[i]) \in Nat
    BY Entries
  <1>2. Used(g) = T
    BY DEF Used, Sums, Weight
  <1> HIDE DEF n
  <1>3. G \in [1 .. n -> [Nat -> Nat]]
    BY <1>1
  <1>4. \E t \in [0 .. n -> Nat] : t = Loop(t)
    <2> HIDE DEF G
    <2>1. PICK t \in [0 .. n -> Nat] : /\ t[0] = 0
                                       /\ \A i \in 1 .. n : t[i] = G[i][t[i - 1]]
      <3> DEFINE S == Nat
                 a == 0
      <3>1. n \in Nat /\ a \in S /\ G \in [1 .. n -> [S -> S]]
        BY <1>1, <1>3
      <3> HIDE BoundAssumption, ChoiceAssumption DEF Loop, T, S, a
      <3>2. \E t \in [0 .. n -> S] : t[0] = a /\ \A i \in 1 .. n : t[i] = G[i][t[i - 1]]
        BY <3>1, Iterate
      <3> QED
        BY <3>2 DEF S, a
    <2>2. ASSUME NEW i \in 0 .. n, i # 0
          PROVE  G[i][t[i - 1]] = t[i - 1] + Weight(g[i])
      <3>1. i \in 1 .. n /\ t[i - 1] \in Nat
        BY <1>1, <2>2
      <3> QED
        BY <3>1 DEF G
    <2>3. \A i \in 0 .. n : t[i] = IF i = 0 THEN 0 ELSE t[i - 1] + Weight(g[i])
      <3>1. \A i \in 0 .. n : i = 0 \/ i \in 1 .. n
        BY <1>1
      <3> QED
        BY <2>1, <2>2, <3>1
    <2>4. t = Loop(t)
      BY <2>3
    <2> QED
      BY <2>4
  <1>5. T = Loop(T)
    <2> HIDE DEF Loop
    <2> QED
      BY <1>4, Zenon
  <1>6. T[0] = 0 /\ \A i \in 1 .. n : T[i] = T[i - 1] + Weight(g[i])
    <2> HIDE DEF T
    <2>1. \A i \in 0 .. n : T[i] = IF i = 0 THEN 0 ELSE T[i - 1] + Weight(g[i])
      BY <1>5, Zenon
    <2>2. 0 \in 0 .. n /\ \A i \in 1 .. n : i \in 0 .. n /\ i # 0
      BY <1>1
    <2> QED
      BY <2>1, <2>2
  <1>7. T \in [0 .. n -> Nat]
    <2> HIDE DEF T
    <2> DEFINE P == {i \in 0 .. n : T[i] \in Nat}
    <2>1. 0 \in P
      BY <1>1, <1>6
    <2>2. \A i \in 1 .. n : i - 1 \in P => i \in P
      BY <1>1, <1>6
    <2>3. \A i \in 0 .. n : i \in P
      <3> HIDE DEF P
      <3> QED
        BY <1>1, <2>1, <2>2, LoopInduction
    <2>4. T = [i \in 0 .. n |-> T[i]]
      BY <1>5
    <2> QED
      BY <2>3, <2>4
  <1> QED
    BY <1>2, <1>6, <1>7 DEF n

LEMMA MaxExists ==
  ASSUME NEW T, T \subseteq Nat, T # {}, NEW n \in Nat, \A x \in T : x <= n
  PROVE  Max(T) \in T /\ \A y \in T : Max(T) >= y
  <1> DEFINE D == {n - x : x \in T}
  <1>1. D \subseteq Nat /\ D # {}
    <2>1. \A x \in T : n - x \in Nat
      OBVIOUS
    <2> QED
      BY <2>1
  <1>2. PICK d \in D : \A e \in D : d <= e
    <2> HIDE DEF D
    <2> QED
      BY <1>1, LeastNat
  <1>3. PICK x \in T : d = n - x
    BY <1>2
  <1>4. \A y \in T : x >= y
    <2>1. \A y \in T : d <= n - y
      BY <1>2
    <2>2. \A y \in T : x \in Nat /\ y \in Nat
      OBVIOUS
    <2> QED
      BY <1>3, <2>1, <2>2
  <1> QED
    BY <1>3, <1>4, Zenon DEF Max

(* The batch that begins with entry k ends before the first valid entry    *)
(* that does not fit into the buffer with the others.                      *)
LastOf(g, b, k) == Max({ub \in k - 1 .. Len(g) : Used(g)[ub] - Used(g)[k - 1] <= b})

LEMMA BatchEnds ==
  \A r \in Rank, k \in Nat : BatchEnd(r, k) = LastOf(log[r], BufferSize(r), k)
  BY DEF BatchEnd, LastOf, Used

Fits(g, b) == \A i \in 1 .. Len(g) : Size(g[i]) <= b

LEMMA LastFacts ==
  ASSUME NEW g \in Seq(Entry), NEW b \in Nat, Fits(g, b), NEW k \in 1 .. Len(g)
  PROVE  LET u == LastOf(g, b, k)
         IN  /\ u \in k .. Len(g) /\ Used(g)[u] - Used(g)[k - 1] <= b
             /\ u + 1 \in 1 .. Len(g) => Used(g)[u + 1] - Used(g)[k - 1] > b
  <1> DEFINE n == Len(g)
             U == Used(g)
             T == {i \in k - 1 .. n : U[i] - U[k - 1] <= b}
             u == LastOf(g, b, k)
  <1>1. n \in Nat /\ k \in 1 .. n
    OBVIOUS
  <1>2. /\ \A i \in 0 .. n : U[i] \in Nat
        /\ \A i \in 1 .. n : U[i] = U[i - 1] + Weight(g[i])
    BY UsedLoop
  <1>3. u = Max(T)
    BY DEF LastOf
  <1> HIDE DEF n, U, u
  <1>4. k \in T
    <2>1. Weight(g[k]) <= b /\ Weight(g[k]) \in Nat
      <3>1. g[k] \in Entry /\ Size(g[k]) <= b
        BY DEF Fits, n
      <3> QED
        BY <3>1, Entries DEF Weight
    <2>2. U[k] = U[k - 1] + Weight(g[k]) /\ U[k - 1] \in Nat
      BY <1>1, <1>2
    <2> QED
      BY <1>1, <2>1, <2>2
  <1>5. u \in T /\ \A i \in T : u >= i
    <2>1. T \subseteq Nat /\ T # {} /\ \A i \in T : i <= n
      BY <1>1, <1>4
    <2> HIDE DEF T
    <2> QED
      BY <1>1, <1>3, <2>1, MaxExists
  <1>6. u \in k .. n /\ U[u] - U[k - 1] <= b
    BY <1>1, <1>4, <1>5
  <1>7. ASSUME u + 1 \in 1 .. n PROVE U[u + 1] - U[k - 1] > b
    <2>1. u + 1 \notin T
      <3> HIDE DEF T
      <3> QED
        BY <1>1, <1>5, <1>6
    <2>2. u + 1 \in k - 1 .. n
      BY <1>1, <1>6, <1>7
    <2>3. ~(U[u + 1] - U[k - 1] <= b)
      BY <2>1, <2>2
    <2>4. U[u + 1] \in Nat /\ U[k - 1] \in Nat
      BY <1>1, <1>2, <1>7
    <2> QED
      BY <2>3, <2>4
  <1> QED
    BY <1>6, <1>7 DEF n, U, u

(* The cells before an entry only grow, and so do the rounds.              *)
LEMMA UsedGrows ==
  ASSUME NEW g \in Seq(Entry), NEW i \in 0 .. Len(g), NEW j \in i .. Len(g)
  PROVE  Used(g)[i] <= Used(g)[j]
  <1> DEFINE n == Len(g)
             U == Used(g)
             m == j - i
             P == {d \in 0 .. m : U[i] <= U[i + d]}
  <1>1. n \in Nat /\ i \in 0 .. n /\ j \in i .. n /\ m \in Nat /\ i + m = j
    OBVIOUS
  <1>2. /\ \A x \in 0 .. n : U[x] \in Nat
        /\ \A x \in 1 .. n : U[x] = U[x - 1] + Weight(g[x]) /\ Weight(g[x]) \in Nat
    BY UsedLoop, Entries
  <1> HIDE DEF n, U, m
  <1>3. 0 \in P
    BY <1>1, <1>2
  <1>4. ASSUME NEW d \in 1 .. m, d - 1 \in P PROVE d \in P
    <2>1. i + d \in 1 .. n /\ (i + d) - 1 = i + (d - 1) /\ i + (d - 1) \in 0 .. n
      BY <1>1
    <2>2. U[i] <= U[i + (d - 1)]
      BY <1>4
    <2>3. U[i + d] = U[i + (d - 1)] + Weight(g[i + d]) /\ Weight(g[i + d]) \in Nat
      BY <1>2, <2>1
    <2>4. U[i] \in Nat /\ U[i + (d - 1)] \in Nat
      BY <1>1, <1>2, <2>1
    <2>5. U[i] <= U[i + d]
      BY <2>2, <2>3, <2>4
    <2> QED
      BY <1>1, <2>5
  <1>5. \A d \in 0 .. m : d \in P
    <2> HIDE DEF P
    <2> QED
      BY <1>1, <1>3, <1>4, LoopInduction
  <1>6. U[i] <= U[i + m]
    BY <1>1, <1>5
  <1> QED
    BY <1>1, <1>6 DEF U

LEMMA RoundsGrow ==
  ASSUME NEW g \in Seq(Entry), NEW b \in Nat, NEW i \in 0 .. Len(g), NEW j \in i .. Len(g)
  PROVE  Counted(g, b)[i].rounds <= Counted(g, b)[j].rounds /\ Counted(g, b)[j].rounds <= j + 1
  <1> DEFINE n == Len(g)
             C == Counted(g, b)
             R(x) == C[x].rounds
             m == j - i
             P == {d \in 0 .. m : R(i) <= R(i + d)}
             Q == {d \in 0 .. n : R(d) <= d + 1}
  <1>1. n \in Nat /\ i \in 0 .. n /\ j \in i .. n /\ m \in Nat /\ i + m = j
    OBVIOUS
  <1>2. \A x \in 1 .. n : R(x - 1) <= R(x) /\ R(x) <= R(x - 1) + 1
    <2> SUFFICES ASSUME NEW x \in 1 .. n PROVE R(x - 1) <= R(x) /\ R(x) <= R(x - 1) + 1
      OBVIOUS
    <2>1. C[x] = Count(C[x - 1], g[x], b) /\ C[x - 1] \in Totals
      <3>1. x - 1 \in 0 .. n
        BY <1>1
      <3> QED
        BY <3>1, CountLoop
    <2> HIDE DEF C
    <2> QED
      BY <2>1 DEF Count, Totals
  <1>3. \A x \in 0 .. n : R(x) \in Nat
    BY CountLoop DEF Totals
  <1>4. R(0) = 1
    BY CountLoop DEF CountFrom
  <1> HIDE DEF n, R, m
  <1>5. 0 \in P
    BY <1>1, <1>3
  <1>6. ASSUME NEW d \in 1 .. m, d - 1 \in P PROVE d \in P
    <2>1. i + d \in 1 .. n /\ (i + d) - 1 = i + (d - 1) /\ i + (d - 1) \in 0 .. n /\ i + d \in 0 .. n
      BY <1>1
    <2>2. R(i) <= R(i + (d - 1)) /\ R(i + (d - 1)) <= R(i + d)
      BY <1>2, <1>6, <2>1
    <2>3. R(i) \in Nat /\ R(i + (d - 1)) \in Nat /\ R(i + d) \in Nat
      BY <1>1, <1>3, <2>1
    <2>4. R(i) <= R(i + d)
      BY <2>2, <2>3
    <2> QED
      BY <1>1, <2>4
  <1>7. \A d \in 0 .. m : d \in P
    <2> HIDE DEF P
    <2> QED
      BY <1>1, <1>5, <1>6, LoopInduction
  <1>8. R(i) <= R(i + m)
    BY <1>1, <1>7
  <1>9. 0 \in Q
    BY <1>1, <1>4
  <1>10. ASSUME NEW d \in 1 .. n, d - 1 \in Q PROVE d \in Q
    BY <1>1, <1>2, <1>3, <1>10
  <1>11. \A d \in 0 .. n : d \in Q
    <2> HIDE DEF Q
    <2> QED
      BY <1>1, <1>9, <1>10, LoopInduction
  <1>12. R(j) <= j + 1
    BY <1>1, <1>11
  <1> QED
    BY <1>1, <1>8, <1>12 DEF R

(***************************************************************************)
(* A round begins at entry k, and left of them are enough for the rest of  *)
(* the log: what the loop of the replay does to the log agrees with what   *)
(* the loop before it has counted.                                         *)
(***************************************************************************)
Starts(g, b, k, left) ==
    k <= Len(g) =>
       /\ Counted(g, b)[k].used = Weight(g[k])
       /\ Counted(g, b)[Len(g)].rounds - Counted(g, b)[k].rounds + 1 <= left

LEMMA FirstStart ==
  ASSUME NEW g \in Seq(Entry), NEW b \in Nat, Fits(g, b), NEW left \in Nat,
         Counted(g, b)[Len(g)].rounds <= left
  PROVE  Starts(g, b, 1, left) /\ left > 0
  <1> DEFINE n == Len(g)
             C == Counted(g, b)
  <1>1. n \in Nat /\ C[0] = CountFrom /\ \A i \in 0 .. n : C[i].rounds \in Nat
    BY CountLoop, SMTT(60) DEF Totals
  <1>2. C[0].rounds = 1
    BY <1>1 DEF CountFrom
  <1>3. C[n].rounds <= left /\ C[n].rounds >= 1
    <2>1. 0 \in 0 .. n /\ n \in 0 .. n
      BY <1>1
    <2>2. C[0].rounds <= C[n].rounds
      BY <2>1, RoundsGrow
    <2> QED
      BY <1>1, <1>2, <2>1, <2>2
  <1>4. ASSUME 1 <= n PROVE C[1].used = Weight(g[1]) /\ C[1].rounds = 1
    <2>1. C[1] = Count(C[0], g[1], b) /\ g[1] \in Entry /\ Size(g[1]) <= b
      <3>1. 1 \in 1 .. n /\ 1 - 1 = 0
        BY <1>1, <1>4
      <3> QED
        BY <3>1, CountLoop DEF Fits
    <2>2. Size(g[1]) \in Nat
      BY <2>1, Entries
    <2>3. C[1] = Count(CountFrom, g[1], b)
      BY <1>1, <2>1
    <2> HIDE DEF C
    <2> QED
      BY <2>1, <2>2, <2>3 DEF Count, CountFrom, Weight
  <1> HIDE DEF n, C
  <1>5. 1 <= n => C[1].used = Weight(g[1]) /\ C[n].rounds - C[1].rounds + 1 <= left
    <2>1. n \in 0 .. n
      BY <1>1
    <2> QED
      BY <1>1, <1>3, <1>4, <2>1
  <1>6. left > 0
    BY <1>1, <1>3
  <1> QED
    BY <1>5, <1>6 DEF n, C, Starts

LEMMA RoundTaken ==
  ASSUME NEW g \in Seq(Entry), NEW b \in Nat, Fits(g, b), NEW k \in 1 .. Len(g),
         NEW left \in Nat, Starts(g, b, k, left)
  PROVE  LET u == LastOf(g, b, k)
         IN  /\ left > 0 /\ Starts(g, b, u + 1, left - 1)
             /\ u + 1 <= Len(g) => left - 1 > 0
  <1> DEFINE n == Len(g)
             C == Counted(g, b)
             U == Used(g)
             u == LastOf(g, b, k)
             m == u - k
  <1>1. n \in Nat /\ k \in 1 .. n /\ k \in 0 .. n /\ k - 1 \in 0 .. n
    OBVIOUS
  <1>2. /\ u \in k .. n /\ U[u] - U[k - 1] <= b
        /\ u + 1 \in 1 .. n => U[u + 1] - U[k - 1] > b
    BY LastFacts
  <1>3. /\ \A i \in 0 .. n : U[i] \in Nat
        /\ \A i \in 1 .. n : U[i] = U[i - 1] + Weight(g[i])
    BY UsedLoop
  <1>4. /\ \A i \in 0 .. n : C[i] \in Totals
        /\ \A i \in 1 .. n : C[i] = Count(C[i - 1], g[i], b)
    BY CountLoop
  <1>5. C[k].used = Weight(g[k]) /\ C[n].rounds - C[k].rounds + 1 <= left
    BY DEF Starts
  <1>6. \A i \in 1 .. n : Size(g[i]) \in Nat /\ Weight(g[i]) \in Nat
                          /\ Weight(g[i]) = IF g[i].valid THEN Size(g[i]) ELSE 0
    BY Entries DEF Weight
  <1>7. \A i \in k .. n : C[k].rounds <= C[i].rounds /\ C[i].rounds <= C[n].rounds
    <2> SUFFICES ASSUME NEW i \in k .. n
                 PROVE  C[k].rounds <= C[i].rounds /\ C[i].rounds <= C[n].rounds
      OBVIOUS
    <2>1. k \in 0 .. n /\ i \in k .. n /\ i \in 0 .. n /\ n \in i .. n
      BY <1>1
    <2> QED
      BY <2>1, RoundsGrow
  <1>8. \A i \in 0 .. u : U[i] <= U[u]
    <2> SUFFICES ASSUME NEW i \in 0 .. u PROVE U[i] <= U[u]
      OBVIOUS
    <2>1. i \in 0 .. n /\ u \in i .. n
      BY <1>1, <1>2
    <2> QED
      BY <2>1, UsedGrows
  <1> DEFINE P == {d \in 0 .. m : C[k + d].rounds = C[k].rounds /\ C[k + d].used = U[k + d] - U[k - 1]}
  <1> HIDE DEF n, C, U, u
  <1>9. m \in Nat /\ k + m = u
    BY <1>1, <1>2
  <1> HIDE DEF m
  <1>10. 0 \in P
    <2>1. U[k] = U[k - 1] + Weight(g[k]) /\ U[k - 1] \in Nat /\ Weight(g[k]) \in Nat /\ k + 0 = k
      BY <1>1, <1>3, <1>6
    <2>2. C[k].used = U[k] - U[k - 1]
      BY <1>5, <2>1
    <2> QED
      BY <1>9, <2>1, <2>2
  <1>11. ASSUME NEW d \in 1 .. m, d - 1 \in P PROVE d \in P
    <2> DEFINE i == k + d
               e == g[i]
               c == C[i - 1]
    <2>1. /\ i \in 1 .. n /\ i \in 0 .. u /\ i - 1 = k + (d - 1) /\ i - 1 \in 0 .. n
          /\ i \in 0 .. n
      BY <1>1, <1>2, <1>9
    <2>2. c.rounds = C[k].rounds /\ c.used = U[i - 1] - U[k - 1]
      BY <1>11, <2>1
    <2>3. C[i] = Count(c, e, b) /\ c \in Totals /\ U[i] = U[i - 1] + Weight(e)
      BY <1>3, <1>4, <2>1
    <2>4. /\ Size(e) \in Nat /\ Weight(e) = (IF e.valid THEN Size(e) ELSE 0)
          /\ U[i] \in Nat /\ U[i - 1] \in Nat /\ U[k - 1] \in Nat /\ U[u] \in Nat
      <3>1. Size(e) \in Nat /\ Weight(e) = (IF e.valid THEN Size(e) ELSE 0)
        BY <1>6, <2>1
      <3>2. u \in 0 .. n
        BY <1>1, <1>2
      <3> QED
        BY <1>1, <1>3, <2>1, <3>1, <3>2
    <2>5. U[i] <= U[u]
      BY <1>8, <2>1
    <2> HIDE DEF i, e, c
    <2>6. U[i] - U[k - 1] <= b
      BY <1>2, <2>4, <2>5
    <2>7. C[i].rounds = C[k].rounds /\ C[i].used = U[i] - U[k - 1]
      <3>1. CASE ~e.valid
        <4>1. C[i] = c /\ U[i] = U[i - 1]
          BY <2>3, <2>4, <3>1 DEF Count
        <4> QED
          BY <2>2, <4>1
      <3>2. CASE e.valid
        <4>1. U[i] = U[i - 1] + Size(e)
          BY <2>3, <2>4, <3>2
        <4>2. Size(e) + c.used = U[i] - U[k - 1]
          BY <2>2, <2>4, <4>1
        <4>3. C[i] = [c EXCEPT !.used = @ + Size(e)]
          BY <2>3, <2>4, <2>6, <3>2, <4>2 DEF Count, Totals
        <4>4. C[i].rounds = c.rounds /\ C[i].used = c.used + Size(e)
          BY <2>3, <4>3 DEF Totals
        <4> QED
          BY <2>2, <2>3, <2>4, <4>2, <4>4 DEF Totals
      <3> QED
        BY <3>1, <3>2
    <2> QED
      BY <1>9, <2>7 DEF i
  <1>12. C[u].rounds = C[k].rounds /\ C[u].used = U[u] - U[k - 1]
    <2>1. \A d \in 0 .. m : d \in P
      <3> HIDE DEF P
      <3> QED
        BY <1>9, <1>10, <1>11, LoopInduction
    <2> QED
      BY <1>9, <2>1
  <1>13. \A i \in 0 .. n : C[i].rounds \in Nat /\ C[i].used \in Nat
    BY <1>4 DEF Totals
  <1>14. left > 0
    <2>1. k \in k .. n /\ n \in 0 .. n
      BY <1>1
    <2>2. C[k].rounds <= C[n].rounds /\ C[k].rounds \in Nat /\ C[n].rounds \in Nat
      BY <1>1, <1>7, <1>13, <2>1
    <2> QED
      BY <1>5, <2>2
  <1>15. ASSUME u + 1 <= n
         PROVE  /\ C[u + 1].used = Weight(g[u + 1])
                /\ C[n].rounds - C[u + 1].rounds + 1 <= left - 1
                /\ left - 1 > 0
    <2> DEFINE i == u + 1
               e == g[i]
    <2>1. i \in 1 .. n /\ i - 1 = u /\ i \in 0 .. n /\ u \in 0 .. n /\ i \in k .. n /\ n \in 0 .. n
      BY <1>1, <1>2, <1>15
    <2>2. U[i] - U[k - 1] > b /\ U[i] = U[u] + Weight(e) /\ C[i] = Count(C[u], e, b)
      BY <1>2, <1>3, <1>4, <2>1
    <2>3. /\ Size(e) \in Nat /\ Weight(e) = (IF e.valid THEN Size(e) ELSE 0)
          /\ U[i] \in Nat /\ U[u] \in Nat /\ U[k - 1] \in Nat
      BY <1>1, <1>3, <1>6, <2>1
    <2> HIDE DEF i, e
    <2>4. e.valid /\ Weight(e) = Size(e)
      BY <1>2, <2>2, <2>3
    <2>5. Size(e) + C[u].used > b
      BY <1>12, <2>2, <2>3, <2>4
    <2>6. C[i].rounds = C[u].rounds + 1 /\ C[i].used = Size(e)
      BY <2>2, <2>4, <2>5 DEF Count
    <2>7. C[i].rounds <= C[n].rounds
      BY <1>7, <2>1
    <2>8. C[i].rounds \in Nat /\ C[n].rounds \in Nat /\ C[k].rounds \in Nat
      BY <1>1, <1>13, <2>1
    <2>9. C[n].rounds - C[i].rounds + 1 <= left - 1 /\ left - 1 > 0
      <3> DEFINE x == C[i].rounds
                 y == C[n].rounds
                 z == C[k].rounds
      <3>1. x = z + 1 /\ x <= y /\ y - z + 1 <= left /\ x \in Nat /\ y \in Nat /\ z \in Nat
        BY <1>5, <1>12, <2>6, <2>7, <2>8
      <3> HIDE DEF x, y, z
      <3>2. y - x + 1 <= left - 1 /\ left - 1 > 0
        BY <3>1
      <3> QED
        BY <3>2 DEF x, y
    <2> QED
      BY <2>4, <2>6, <2>9 DEF i, e
  <1> QED
    BY <1>14, <1>15 DEF n, C, u, Starts

-----------------------------------------------------------------------------
(***************************************************************************)
(* What holds of one rank: of its put list l, its log g, its data log d,   *)
(* its biggest entry m and its job j, when p puts have been made.          *)
(***************************************************************************)
Buffer(d, m) ==
    LET total  == Len(d)
        wanted == IF FlushBuffer > 0 /\ total > FlushBuffer THEN FlushBuffer ELSE total
    IN  IF wanted < m THEN m ELSE wanted

LEMMA BufferSizes == \A r : BufferSize(r) = Buffer(data[r], biggest[r])
  BY DEF BufferSize, Buffer

(* A request that is not ready has its entries in what is left of the log. *)
Owns(l, g, next) ==
    \A id \in Issued(l) :
       \/ l.reqs[id].ready
       \/ /\ l.reqs[id].first <= l.reqs[id].last
          /\ \A i \in l.reqs[id].first .. l.reqs[id].last :
                i \in next .. Len(g) /\ g[i].valid /\ g[i].reqid = id

JobFor(j, g, b, l) ==
    /\ j.steps = <<>> => j = Idle
    /\ j.steps # <<>> => /\ j.op \in CallOps
                         /\ j.steps \in IF Closes(j.op) THEN Closing ELSE Flushing
    /\ On(j, "reduce") => j.next = 1
    /\ On(j, "rounds") => j.left > 0 /\ Starts(g, b, j.next, j.left)
    /\ On(j, "reset") => j.next > Len(g)
    /\ On(j, "handle") => g = <<>> /\ j.next = 1
    /\ Has(j.steps, "handle") => j.ids \subseteq Issued(l)

Logged(g, m, p) == Len(g) <= p /\ \A i \in 1 .. Len(g) : Size(g[i]) <= m

RankTypes(l, g, d, m, j) ==
    /\ l \in Lists /\ g \in Seq(Entry) /\ d \in Seq(1 .. MaxPuts) /\ m \in Nat
    /\ j \in Jobs

RankInv(l, g, d, m, j, p) ==
    /\ RankTypes(l, g, d, m, j)
    /\ GoodList(l) /\ Owns(l, g, j.next)
    /\ JobFor(j, g, Buffer(d, m), l)
    /\ Logged(g, m, p)

LEMMA BufferFits ==
  ASSUME NEW g \in Seq(Entry), NEW d \in Seq(1 .. MaxPuts), NEW m \in Nat, NEW p,
         Logged(g, m, p)
  PROVE  Buffer(d, m) \in Nat /\ Fits(g, Buffer(d, m))
  <1>1. Len(d) \in Nat /\ FlushBuffer \in Nat
    BY BoundAssumption
  <1>2. Buffer(d, m) \in Nat /\ m <= Buffer(d, m)
    BY <1>1 DEF Buffer
  <1>3. \A i \in 1 .. Len(g) : Size(g[i]) \in Nat
    <2>1. \A i \in 1 .. Len(g) : g[i] \in Entry
      OBVIOUS
    <2> QED
      BY <2>1, Entries
  <1> QED
    BY <1>2, <1>3 DEF Logged, Fits

(* An idle rank keeps what holds of it when its log or its list changes.   *)
LEMMA IdleRank ==
  ASSUME NEW g, NEW b, NEW l
  PROVE  JobFor(Idle, g, b, l)
  <1>1. Idle.steps = <<>> /\ ~Has(<<>>, "handle")
    BY DEF Idle, Has
  <1> QED
    BY <1>1 DEF JobFor, On

LEMMA OwnsMore ==
  ASSUME NEW l \in Lists, NEW g, NEW next \in Nat \ {0}, Owns(l, g, next), Len(g) \in Nat
  PROVE  Owns(l, g, 1)
  <1>1. \A i \in next .. Len(g) : i \in 1 .. Len(g)
    OBVIOUS
  <1> QED
    BY <1>1 DEF Owns

(* A put is logged by an idle rank; no request is linked to it.            *)
NewEntry(p, c, bad, id) ==
    [put |-> p + 1, cells |-> c, bad |-> bad, valid |-> TRUE, reqid |-> id]

MoreData(d, c, p) == d \o [k \in DOMAIN c |-> p + 1]

Bigger(m, c) == IF m < Len(c) THEN Len(c) ELSE m

LEMMA EntryAppended ==
  ASSUME NEW g \in Seq(Entry), NEW d \in Seq(1 .. MaxPuts), NEW m \in Nat,
         NEW p \in Nat, p < MaxPuts, Logged(g, m, p),
         NEW c \in Shapes \cup VarnShapes, NEW bad \in BOOLEAN, NEW id \in Int
  PROVE  LET e == NewEntry(p, c, bad, id)
             h == Append(g, e)
         IN  /\ e \in Entry /\ h \in Seq(Entry) /\ Len(h) = Len(g) + 1
             /\ h[Len(g) + 1] = e /\ \A i \in 1 .. Len(g) : h[i] = g[i]
             /\ MoreData(d, c, p) \in Seq(1 .. MaxPuts) /\ Bigger(m, c) \in Nat
             /\ Logged(h, Bigger(m, c), p + 1)
  <1> DEFINE e == NewEntry(p, c, bad, id)
             h == Append(g, e)
             n == Len(g)
  <1>1. MaxPuts \in Nat /\ c \in Seq(1 .. Cells)
    BY BoundAssumption
  <1>2. p + 1 \in 1 .. MaxPuts
    BY <1>1
  <1>3. e \in Entry
    BY <1>2 DEF NewEntry, Entry
  <1>4. e.cells = c
    BY DEF NewEntry
  <1> HIDE DEF e
  <1>5. h \in Seq(Entry) /\ Len(h) = n + 1 /\ h[n + 1] = e /\ n \in Nat
        /\ \A i \in 1 .. n : h[i] = g[i]
    BY <1>3
  <1>6. MoreData(d, c, p) \in Seq(1 .. MaxPuts)
    <2> DEFINE x == [k \in DOMAIN c |-> p + 1]
    <2>1. Len(c) \in Nat /\ DOMAIN c = 1 .. Len(c)
      BY <1>1
    <2>2. x \in [1 .. Len(c) -> 1 .. MaxPuts]
      BY <1>2, <2>1
    <2>3. x \in Seq(1 .. MaxPuts)
      BY <2>1, <2>2
    <2> HIDE DEF x
    <2>4. d \o x \in Seq(1 .. MaxPuts)
      BY <2>3, ConcatProperties, Zenon
    <2> QED
      BY <2>4 DEF MoreData, x
  <1>7. Len(c) \in Nat
    BY <1>1
  <1>8. Bigger(m, c) \in Nat /\ m <= Bigger(m, c) /\ Len(c) <= Bigger(m, c)
    BY <1>7 DEF Bigger
  <1> HIDE DEF h, n
  <1>9. Logged(h, Bigger(m, c), p + 1)
    <2>1. \A i \in 1 .. n : Size(g[i]) <= m /\ Size(g[i]) \in Nat
      <3>1. \A i \in 1 .. n : g[i] \in Entry
        BY DEF n
      <3> QED
        BY <3>1, Entries DEF Logged, n
    <2>2. Size(e) = Len(c)
      BY <1>4 DEF Size
    <2>3. \A i \in 1 .. n + 1 : i \in 1 .. n \/ i = n + 1
      BY <1>5
    <2>4. \A i \in 1 .. n + 1 : Size(h[i]) <= Bigger(m, c)
      <3> SUFFICES ASSUME NEW i \in 1 .. n + 1 PROVE Size(h[i]) <= Bigger(m, c)
        OBVIOUS
      <3>1. CASE i \in 1 .. n
        <4>1. Size(h[i]) <= m /\ Size(h[i]) \in Nat
          BY <1>5, <2>1, <3>1
        <4> QED
          BY <1>8, <4>1
      <3>2. CASE i = n + 1
        BY <1>5, <1>8, <2>2, <3>2
      <3> QED
        BY <2>3, <3>1, <3>2
    <2>5. n <= p
      BY DEF Logged, n
    <2>6. n + 1 <= p + 1
      BY <1>5, <2>5
    <2> QED
      BY <1>5, <2>4, <2>6 DEF Logged
  <1> QED
    BY <1>3, <1>5, <1>6, <1>8, <1>9 DEF e, h, n

LEMMA Appended ==
  ASSUME NEW l, NEW g, NEW d, NEW m, NEW p \in Nat, RankInv(l, g, d, m, Idle, p),
         p < MaxPuts, NEW c \in Shapes \cup VarnShapes, NEW bad \in BOOLEAN
  PROVE  RankInv(l, Append(g, NewEntry(p, c, bad, -1)), MoreData(d, c, p), Bigger(m, c),
                 Idle, p + 1)
  <1> DEFINE h == Append(g, NewEntry(p, c, bad, -1))
  <1>1. RankTypes(l, g, d, m, Idle) /\ GoodList(l) /\ Owns(l, g, 1) /\ Logged(g, m, p)
    BY IdleJob DEF RankInv
  <1>2. /\ h \in Seq(Entry) /\ Len(h) = Len(g) + 1 /\ \A i \in 1 .. Len(g) : h[i] = g[i]
        /\ MoreData(d, c, p) \in Seq(1 .. MaxPuts) /\ Bigger(m, c) \in Nat
        /\ Logged(h, Bigger(m, c), p + 1)
    <2>1. -1 \in Int
      OBVIOUS
    <2> QED
      BY <1>1, <2>1, EntryAppended DEF RankTypes
  <1> HIDE DEF h
  <1>3. Len(g) \in Nat
    BY <1>1 DEF RankTypes
  <1>4. \A i \in 1 .. Len(g) : i \in 1 .. Len(h)
    BY <1>2, <1>3
  <1>5. Owns(l, h, 1)
    BY <1>1, <1>2, <1>4 DEF Owns
  <1>6. RankTypes(l, h, MoreData(d, c, p), Bigger(m, c), Idle)
    BY <1>1, <1>2 DEF RankTypes
  <1> QED
    BY <1>1, <1>2, <1>5, <1>6, IdleRank, IdleJob DEF RankInv, h

(* A put is logged with a request object; its entry is the last one.       *)
LEMMA Linked ==
  ASSUME NEW l, NEW g, NEW d, NEW m, NEW p \in Nat, RankInv(l, g, d, m, Idle, p),
         p < MaxPuts, NEW c \in Shapes \cup VarnShapes, NEW bad \in BOOLEAN
  PROVE  RankInv(Add(l, NextId(l), Len(g) + 1, Len(g) + 1),
                 Append(g, NewEntry(p, c, bad, NextId(l))), MoreData(d, c, p), Bigger(m, c),
                 Idle, p + 1)
  <1> DEFINE id == NextId(l)
             k == Len(g) + 1
             a == Add(l, id, k, k)
             e == NewEntry(p, c, bad, id)
             h == Append(g, e)
  <1>1. RankTypes(l, g, d, m, Idle) /\ GoodList(l) /\ Owns(l, g, 1) /\ Logged(g, m, p)
    BY IdleJob DEF RankInv
  <1>2. Len(g) \in Nat /\ k \in Nat /\ l \in Lists
    BY <1>1 DEF RankTypes
  <1>3. /\ a \in Lists /\ GoodList(a)
        /\ id \in Nat /\ id \notin Issued(l) /\ Issued(a) = Issued(l) \cup {id}
        /\ a.reqs[id] = [valid |-> TRUE, ready |-> k > k, first |-> k, last |-> k]
        /\ \A x \in Issued(l) : a.reqs[x] = l.reqs[x]
    <2> HIDE DEF k
    <2> QED
      BY <1>1, <1>2, AddedGood
  <1>4. e.valid = TRUE /\ e.reqid = id
    BY DEF NewEntry
  <1> HIDE DEF id
  <1>5. /\ h \in Seq(Entry) /\ Len(h) = k /\ \A i \in 1 .. Len(g) : h[i] = g[i]
        /\ h[k] = e
        /\ MoreData(d, c, p) \in Seq(1 .. MaxPuts) /\ Bigger(m, c) \in Nat
        /\ Logged(h, Bigger(m, c), p + 1)
    <2>1. id \in Int
      BY <1>3
    <2> QED
      BY <1>1, <2>1, EntryAppended DEF RankTypes
  <1> HIDE DEF h, a, e
  <1>6. \A i \in 1 .. Len(g) : i \in 1 .. Len(h)
    BY <1>2, <1>5
  <1>7. Owns(a, h, 1)
    <2> SUFFICES ASSUME NEW x \in Issued(a), ~a.reqs[x].ready
                 PROVE  /\ a.reqs[x].first <= a.reqs[x].last
                        /\ \A i \in a.reqs[x].first .. a.reqs[x].last :
                              i \in 1 .. Len(h) /\ h[i].valid /\ h[i].reqid = x
      BY DEF Owns
    <2>1. CASE x = id
      <3>1. a.reqs[x].first = k /\ a.reqs[x].last = k
        BY <1>3, <2>1
      <3>2. \A i \in k .. k : i = k
        BY <1>2
      <3>3. k \in 1 .. Len(h) /\ k <= k
        BY <1>2, <1>5
      <3> HIDE DEF k
      <3> QED
        BY <1>4, <1>5, <2>1, <3>1, <3>2, <3>3
    <2>2. CASE x # id
      <3>1. x \in Issued(l) /\ a.reqs[x] = l.reqs[x]
        BY <1>3, <2>2
      <3>2. /\ l.reqs[x].first <= l.reqs[x].last
            /\ \A i \in l.reqs[x].first .. l.reqs[x].last :
                  i \in 1 .. Len(g) /\ g[i].valid /\ g[i].reqid = x
        BY <1>1, <3>1 DEF Owns
      <3> QED
        BY <1>5, <1>6, <3>1, <3>2
    <2> QED
      BY <2>1, <2>2
  <1>8. RankTypes(a, h, MoreData(d, c, p), Bigger(m, c), Idle)
    BY <1>1, <1>3, <1>5 DEF RankTypes
  <1> QED
    BY <1>3, <1>5, <1>7, <1>8, IdleRank, IdleJob DEF RankInv, h, a, e, id

(* The request of a put of no cells is ready, and owns no entry.           *)
LEMMA ReadyAtOnce ==
  ASSUME NEW l, NEW g, NEW d, NEW m, NEW p \in Nat, RankInv(l, g, d, m, Idle, p)
  PROVE  RankInv(Add(l, NextId(l), Len(g) + 1, (Len(g) + 1) - 1), g, d, m, Idle, p + 1)
  <1> DEFINE id == NextId(l)
             k == Len(g) + 1
             a == Add(l, id, k, k - 1)
             now == k > k - 1
  <1>1. RankTypes(l, g, d, m, Idle) /\ GoodList(l) /\ Owns(l, g, 1) /\ Logged(g, m, p)
    BY IdleJob DEF RankInv
  <1>2. Len(g) \in Nat /\ k \in Nat /\ k - 1 \in Nat /\ k > k - 1 /\ l \in Lists
    BY <1>1 DEF RankTypes
  <1>3. /\ a \in Lists /\ GoodList(a)
        /\ id \in Nat /\ id \notin Issued(l) /\ Issued(a) = Issued(l) \cup {id}
        /\ a.reqs[id] = [valid |-> TRUE, ready |-> now, first |-> k, last |-> k - 1]
        /\ \A x \in Issued(l) : a.reqs[x] = l.reqs[x]
    <2> HIDE DEF k
    <2> QED
      BY <1>1, <1>2, AddedGood
  <1>4. now = TRUE
    BY <1>2
  <1> HIDE DEF id, a, k, now
  <1>5. Owns(a, g, 1)
    BY <1>1, <1>3, <1>4 DEF Owns
  <1>6. RankTypes(a, g, d, m, Idle)
    BY <1>1, <1>3 DEF RankTypes
  <1>7. Logged(g, m, p + 1)
    BY <1>1, <1>2 DEF Logged
  <1> QED
    BY <1>3, <1>5, <1>6, <1>7, IdleRank, IdleJob DEF RankInv, id, a, k

(* A request is cancelled: its entries are no longer valid, and no other   *)
(* request has one of them.                                                *)
Without(g, req) ==
    [i \in 1 .. Len(g) |->
        IF i \in req.first .. req.last THEN [g[i] EXCEPT !.valid = FALSE] ELSE g[i]]

LEMMA Cancelling ==
  ASSUME NEW l, NEW g, NEW d, NEW m, NEW p \in Nat, RankInv(l, g, d, m, Idle, p),
         NEW id \in Issued(l)
  PROVE  /\ ~l.reqs[id].ready => RankInv(Recycle(l, id), Without(g, l.reqs[id]), d, m, Idle, p)
         /\ l.reqs[id].ready => RankInv(Recycle(l, id), g, d, m, Idle, p)
  <1> DEFINE a == Recycle(l, id)
             req == l.reqs[id]
             h == Without(g, req)
             n == Len(g)
  <1>1. RankTypes(l, g, d, m, Idle) /\ GoodList(l) /\ Owns(l, g, 1) /\ Logged(g, m, p)
    BY IdleJob DEF RankInv
  <1>2. l \in Lists /\ g \in Seq(Entry) /\ n \in Nat
    BY <1>1 DEF RankTypes
  <1>3. /\ a \in Lists /\ GoodList(a) /\ Issued(a) = Issued(l) \ {id}
        /\ \A x \in Issued(a) : a.reqs[x] = l.reqs[x]
    BY <1>1, <1>2, RecycledGood
  <1>4. Owns(a, g, 1)
    BY <1>1, <1>3 DEF Owns
  <1>5. RankInv(a, g, d, m, Idle, p)
    <2>1. RankTypes(a, g, d, m, Idle)
      BY <1>1, <1>3 DEF RankTypes
    <2> HIDE DEF a
    <2> QED
      BY <1>1, <1>3, <1>4, <2>1, IdleRank, IdleJob DEF RankInv
  <1>6. \A i \in 1 .. n : g[i] \in Entry
    BY <1>2
  <1>7. h = [i \in 1 .. n |-> IF i \in req.first .. req.last
                              THEN [g[i] EXCEPT !.valid = FALSE] ELSE g[i]]
    BY DEF Without
  <1> HIDE DEF a, h, req, n
  <1>8. ASSUME NEW i \in 1 .. n
        PROVE  /\ h[i] \in Entry /\ Size(h[i]) = Size(g[i])
               /\ h[i].reqid = g[i].reqid
               /\ i \notin req.first .. req.last => h[i] = g[i]
    <2>1. CASE i \in req.first .. req.last
      <3>1. h[i] = [g[i] EXCEPT !.valid = FALSE]
        BY <1>7, <2>1
      <3> QED
        BY <1>6, <2>1, <3>1 DEF Entry, Size
    <2>2. CASE i \notin req.first .. req.last
      <3>1. h[i] = g[i]
        BY <1>7, <2>2
      <3> QED
        BY <1>6, <3>1
    <2> QED
      BY <2>1, <2>2
  <1>9. h \in Seq(Entry) /\ Len(h) = n
    <2>1. h \in [1 .. n -> Entry]
      BY <1>7, <1>8
    <2>2. h \in Seq(Entry)
      BY <1>2, <2>1
    <2>3. DOMAIN h = 1 .. n
      BY <2>1
    <2>4. Len(h) = n
      BY <1>2, <2>2, <2>3
    <2> QED
      BY <2>2, <2>4
  <1>10. ASSUME ~req.ready PROVE Owns(a, h, 1)
    <2> SUFFICES ASSUME NEW x \in Issued(a), ~a.reqs[x].ready
                 PROVE  /\ a.reqs[x].first <= a.reqs[x].last
                        /\ \A i \in a.reqs[x].first .. a.reqs[x].last :
                              i \in 1 .. Len(h) /\ h[i].valid /\ h[i].reqid = x
      BY DEF Owns
    <2>1. /\ a.reqs[x].first <= a.reqs[x].last
          /\ \A i \in a.reqs[x].first .. a.reqs[x].last :
                i \in 1 .. n /\ g[i].valid /\ g[i].reqid = x
      BY <1>4 DEF Owns, n
    <2>2. ASSUME NEW i \in a.reqs[x].first .. a.reqs[x].last
          PROVE  i \in 1 .. n /\ h[i] = g[i]
      <3>1. i \in 1 .. n /\ g[i].reqid = x /\ g[i].valid
        BY <2>1
      <3>2. i \notin req.first .. req.last
        <4> SUFFICES ASSUME i \in req.first .. req.last PROVE FALSE
          OBVIOUS
        <4>1. g[i].reqid = id
          BY <1>1, <1>10 DEF Owns, req
        <4> QED
          BY <1>3, <3>1, <4>1
      <3> QED
        BY <1>8, <3>1, <3>2
    <2> QED
      BY <1>9, <2>1, <2>2
  <1>11. Logged(h, m, p)
    BY <1>1, <1>8, <1>9 DEF Logged, n
  <1>12. RankTypes(a, h, d, m, Idle)
    BY <1>1, <1>3, <1>9 DEF RankTypes
  <1>13. ASSUME ~req.ready PROVE RankInv(a, h, d, m, Idle, p)
    BY <1>3, <1>10, <1>11, <1>12, <1>13, IdleRank, IdleJob DEF RankInv
  <1> QED
    BY <1>5, <1>13 DEF a, h, req

(***************************************************************************)
(* What a call will do.  Whether it comes to the driver depends on the     *)
(* call and on nothing a rank has for itself.                              *)
(***************************************************************************)
ComesToDriver(op, w) ==
    \/ op \in {"sync", "redef", "close", "abort"}
    \/ op = "get" /\ mode # "indep"
    \/ op = "wait" /\ ~w.putAll /\ ~indep

Planned(s, op, w, g) ==
    /\ s \in IF Closes(op) THEN Closing ELSE Flushing
    /\ s # <<>> => Head(s) \in {"reduce", "handle", "driver"}
    /\ s # <<>> /\ Head(s) = "handle" => g = <<>>
    /\ Has(s, "handle") => op = "wait"
    /\ Has(s, "driver") <=> ComesToDriver(op, w)
    /\ ~indep => /\ Has(s, "reduce") <=> ~(op = "abort" /\ mode = "def")
                 /\ Has(s, "rounds") <=> ~(op = "abort" /\ mode = "def")

LEMMA Ended ==
  ASSUME NEW a
  PROVE  /\ <<>> \o <<>> = <<>> /\ <<>> \o <<a>> = <<a>> /\ <<a>> \o <<>> = <<a>>
         /\ \A b : <<a, b>> \o <<>> = <<a, b>>
         /\ \A b, c : <<a, b, c>> \o <<>> = <<a, b, c>>
         /\ \A b, c, d : <<a, b, c, d>> \o <<>> = <<a, b, c, d>>
  <1>1. <<>> \in Seq({a}) /\ <<a>> \in Seq({a})
    OBVIOUS
  <1>2. \A b : <<a, b>> \in Seq({a, b})
    OBVIOUS
  <1>3. \A b, c : <<a, b, c>> \in Seq({a, b, c})
    OBVIOUS
  <1>4. \A b, c, d : <<a, b, c, d>> \in Seq({a, b, c, d})
    OBVIOUS
  <1>5. <<>> \o <<>> = <<>> /\ <<>> \o <<a>> = <<a>> /\ <<a>> \o <<>> = <<a>>
    BY <1>1, ConcatEmptySeq, Zenon
  <1>6. \A b : <<a, b>> \o <<>> = <<a, b>>
    BY <1>2, ConcatEmptySeq, Zenon
  <1>7. \A b, c : <<a, b, c>> \o <<>> = <<a, b, c>>
    BY <1>3, ConcatEmptySeq, Zenon
  <1>8. \A b, c, d : <<a, b, c, d>> \o <<>> = <<a, b, c, d>>
    BY <1>4, ConcatEmptySeq, Zenon
  <1> QED
    BY <1>5, <1>6, <1>7, <1>8, Zenon

LEMMA Called ==
  ASSUME NEW r, NEW op \in CallOps, NEW w, w.putAll \in BOOLEAN, indep \in BOOLEAN
  PROVE  Planned(CallSteps(r, op, w), op, w, log[r])
  <1> DEFINE s == CallSteps(r, op, w)
             RR == <<"reduce", "rounds">>
             RRS == <<"reduce", "rounds", "reset">>
             D == <<"driver">>
             E == <<>>
             takes == ~indep \/ log[r] # <<>>
  <1>1. CASE takes
    <2>1. Replay(r) = RR /\ Flush(r) = RRS
      <3>1. Replay(r) = RR
        BY <1>1 DEF Replay, When
      <3>2. RR # <<>>
        OBVIOUS
      <3>3. Flush(r) = RR \o <<"reset">>
        BY <3>1, <3>2 DEF Flush, When
      <3>4. RR \o <<"reset">> = RRS
        BY Joined, Zenon
      <3> QED
        BY <3>1, <3>3, <3>4
    <2>2. /\ RRS \o D = <<"reduce", "rounds", "reset", "driver">>
          /\ RRS \o <<"handle">> = <<"reduce", "rounds", "reset", "handle">>
          /\ <<"reduce", "rounds", "reset", "handle">> \o D
               = <<"reduce", "rounds", "reset", "handle", "driver">>
          /\ RR \o D = <<"reduce", "rounds", "driver">>
      <3>1. RRS \o D = <<"reduce", "rounds", "reset", "driver">>
        BY Joined, ZenonT(60)
      <3>2. RRS \o <<"handle">> = <<"reduce", "rounds", "reset", "handle">>
        BY Joined, ZenonT(60)
      <3>3. <<"reduce", "rounds", "reset", "handle">> \o D
               = <<"reduce", "rounds", "reset", "handle", "driver">>
        <4>1. \A a, b, c, d, e : <<a, b, c, d>> \o <<e>> = <<a, b, c, d, e>>
          BY Joined, Zenon
        <4> QED
          BY <4>1, Zenon
      <3>4. RR \o D = <<"reduce", "rounds", "driver">>
        BY Joined, Zenon
      <3> QED
        BY <3>1, <3>2, <3>3, <3>4
    <2>3. /\ RRS \o E = RRS /\ E \o D = D
          /\ <<"reduce", "rounds", "reset", "handle">> \o E
               = <<"reduce", "rounds", "reset", "handle">>
      BY Ended, Zenon
    <2>4. CASE op = "get"
      <3>1. s = RRS \o (IF mode # "indep" THEN D ELSE E)
        BY <2>1, <2>4 DEF CallSteps, GetSteps, When
      <3>2. CASE mode # "indep"
        <4>1. s = <<"reduce", "rounds", "reset", "driver">>
          BY <2>2, <3>1, <3>2
        <4> QED
          BY <2>4, <3>2, <4>1 DEF Planned, Has, Flushing, Closes, ComesToDriver
      <3>3. CASE mode = "indep"
        <4>1. s = RRS
          BY <2>3, <3>1, <3>3
        <4> QED
          BY <2>4, <3>3, <4>1 DEF Planned, Has, Flushing, Closes, ComesToDriver
      <3> QED
        BY <3>2, <3>3
    <2>5. CASE op = "sync"
      <3>1. s = <<"reduce", "rounds", "reset", "driver">>
        BY <2>1, <2>2, <2>5 DEF CallSteps, SyncSteps
      <3> QED
        BY <2>5, <3>1 DEF Planned, Has, Flushing, Closes, ComesToDriver
    <2>6. CASE op = "flush"
      <3>1. s = RRS
        BY <2>1, <2>6 DEF CallSteps, FlushSteps
      <3> QED
        BY <2>6, <3>1 DEF Planned, Has, Flushing, Closes, ComesToDriver
    <2>7. CASE op = "redef"
      <3>1. s = <<"reduce", "rounds", "reset", "driver">>
        BY <2>1, <2>2, <2>7 DEF CallSteps, RedefSteps
      <3> QED
        BY <2>7, <3>1 DEF Planned, Has, Flushing, Closes, ComesToDriver
    <2>8. CASE op = "wait"
      <3>1. s = <<"reduce", "rounds", "reset", "handle">>
                   \o (IF ~w.putAll /\ ~indep THEN D ELSE E)
        BY <2>1, <2>2, <2>8 DEF CallSteps, WaitSteps, When
      <3>2. CASE ~w.putAll /\ ~indep
        <4>1. s = <<"reduce", "rounds", "reset", "handle", "driver">>
          BY <2>2, <3>1, <3>2
        <4> QED
          BY <2>8, <3>2, <4>1 DEF Planned, Has, Flushing, Closes, ComesToDriver
      <3>3. CASE ~(~w.putAll /\ ~indep)
        <4>1. s = <<"reduce", "rounds", "reset", "handle">>
          BY <2>3, <3>1, <3>3
        <4> QED
          BY <2>8, <3>3, <4>1 DEF Planned, Has, Flushing, Closes, ComesToDriver
      <3> QED
        BY <3>2, <3>3
    <2>9. CASE op = "close"
      <3>1. s = <<"reduce", "rounds", "driver">>
        BY <2>1, <2>2, <2>9 DEF CallSteps, CloseSteps
      <3> QED
        BY <2>9, <3>1, SMTT(120) DEF Planned, Has, Closing, Closes, ComesToDriver
    <2>10. CASE op = "abort"
      <3>1. s = (IF mode # "def" THEN RR ELSE E) \o D
        BY <2>1, <2>10 DEF CallSteps, AbortSteps, When
      <3>2. CASE mode # "def"
        <4>1. s = <<"reduce", "rounds", "driver">>
          BY <2>2, <3>1, <3>2
        <4> QED
          BY <2>10, <3>2, <4>1 DEF Planned, Has, Closing, Closes, ComesToDriver
      <3>3. CASE mode = "def"
        <4>1. s = D
          BY <2>3, <3>1, <3>3
        <4> QED
          BY <2>10, <3>3, <4>1 DEF Planned, Has, Closing, Closes, ComesToDriver
      <3> QED
        BY <3>2, <3>3
    <2> HIDE DEF s
    <2> QED
      BY <2>4, <2>5, <2>6, <2>7, <2>8, <2>9, <2>10 DEF CallOps
  <1>2. CASE ~takes
    <2>1. Replay(r) = E /\ Flush(r) = E /\ indep /\ log[r] = <<>>
      <3>1. Replay(r) = E /\ indep /\ log[r] = <<>>
        BY <1>2 DEF Replay, When
      <3>2. Flush(r) = E \o E
        BY <3>1 DEF Flush, When
      <3> QED
        BY <3>1, <3>2, Ended
    <2>2. /\ E \o D = D /\ E \o E = E /\ E \o <<"handle">> = <<"handle">>
          /\ <<"handle">> \o E = <<"handle">>
      BY Ended, Zenon
    <2>3. CASE op = "get"
      <3>1. s = E \o (IF mode # "indep" THEN D ELSE E)
        BY <2>1, <2>3 DEF CallSteps, GetSteps, When
      <3>2. CASE mode # "indep"
        <4>1. s = D
          BY <2>2, <3>1, <3>2
        <4> QED
          BY <2>1, <2>3, <3>2, <4>1 DEF Planned, Has, Flushing, Closes, ComesToDriver
      <3>3. CASE mode = "indep"
        <4>1. s = E
          BY <2>2, <3>1, <3>3
        <4> QED
          BY <2>1, <2>3, <3>3, <4>1 DEF Planned, Has, Flushing, Closes, ComesToDriver
      <3> QED
        BY <3>2, <3>3
    <2>4. CASE op \in {"sync", "redef"}
      <3>1. s = D
        BY <2>1, <2>2, <2>4 DEF CallSteps, SyncSteps, RedefSteps
      <3> QED
        BY <2>1, <2>4, <3>1 DEF Planned, Has, Flushing, Closes, ComesToDriver
    <2>5. CASE op = "flush"
      <3>1. s = E
        BY <2>1, <2>5 DEF CallSteps, FlushSteps
      <3> QED
        BY <2>1, <2>5, <3>1 DEF Planned, Has, Flushing, Closes, ComesToDriver
    <2>6. CASE op = "wait"
      <3>1. s = <<"handle">>
        BY <2>1, <2>2, <2>6 DEF CallSteps, WaitSteps, When
      <3> QED
        BY <2>1, <2>6, <3>1 DEF Planned, Has, Flushing, Closes, ComesToDriver
    <2>7. CASE op \in {"close", "abort"}
      <3>1. s = D
        BY <2>1, <2>2, <2>7 DEF CallSteps, CloseSteps, AbortSteps, When
      <3> QED
        BY <2>1, <2>7, <3>1 DEF Planned, Has, Closing, Closes, ComesToDriver
    <2> HIDE DEF s
    <2> QED
      BY <2>3, <2>4, <2>5, <2>6, <2>7 DEF CallOps
  <1> QED
    BY <1>1, <1>2

Formed(w, l) == w.putAll \in BOOLEAN /\ w.ids \subseteq Issued(l)

LEMMA Calling ==
  ASSUME NEW r, NEW l, NEW d, NEW m, NEW p, RankInv(l, log[r], d, m, Idle, p),
         NEW op \in CallOps, NEW w, Formed(w, l), indep \in BOOLEAN
  PROVE  LET j == Call(r, op, w)
         IN  /\ RankInv(l, log[r], d, m, j, p)
             /\ j.steps = CallSteps(r, op, w) /\ j.ok = TRUE /\ j.op \in {op, "none"}
  <1> DEFINE s == CallSteps(r, op, w)
             j == Call(r, op, w)
             g == log[r]
  <1>1. Planned(s, op, w, g)
    BY Called DEF Formed
  <1>2. CASE s = <<>>
    <2>1. j = Idle
      BY <1>2 DEF Call
    <2> QED
      BY <1>2, <2>1 DEF Idle
  <1>3. CASE s # <<>>
    <2>1. j = [Idle EXCEPT !.op = op, !.steps = s, !.ids = w.ids]
      BY <1>3 DEF Call
    <2> HIDE DEF j, s, g
    <2>2. /\ j.op = op /\ j.steps = s /\ j.ids = w.ids /\ j.left = 0 /\ j.next = 1 /\ j.ok = TRUE
          /\ j = [op |-> op, steps |-> s, left |-> 0, next |-> 1, ids |-> w.ids, ok |-> TRUE]
      BY <2>1 DEF Idle
    <2>3. RankTypes(l, g, d, m, Idle) /\ GoodList(l) /\ Owns(l, g, 1) /\ Logged(g, m, p)
      BY IdleJob DEF RankInv, g
    <2>4. s \in Flushing \cup Closing
      BY <1>1 DEF Planned
    <2>5. w.ids \subseteq Nat
      BY DEF Issued, Formed
    <2>6. j \in Jobs
      BY <2>2, <2>4, <2>5, BoundAssumption DEF Jobs
    <2>7. JobFor(j, g, Buffer(d, m), l)
      BY <1>1, <1>3, <2>2 DEF JobFor, Planned, On, Formed
    <2>8. RankInv(l, g, d, m, j, p)
      BY <2>2, <2>3, <2>6, <2>7 DEF RankInv, RankTypes
    <2> QED
      BY <2>2, <2>8 DEF j, s, g
  <1> QED
    BY <1>2, <1>3

(* A step of a call is over: what must hold before the next one.           *)
LEMMA NextStep ==
  ASSUME NEW j \in Jobs, j.steps # <<>>, NEW g, NEW b, NEW l, j.op \in CallOps,
         j.steps \in IF Closes(j.op) THEN Closing ELSE Flushing,
         Has(j.steps, "handle") => j.ids \subseteq Issued(l),
         Head(j.steps) = "reduce" => j.left > 0 /\ Starts(g, b, j.next, j.left),
         Head(j.steps) = "rounds" => j.next > Len(g),
         Head(j.steps) = "reset" => g = <<>> /\ j.next = 1
  PROVE  JobFor(Advance(j), g, b, l)
  <1> DEFINE a == Advance(j)
             t == Tail(j.steps)
  <1>1. Chained(j.steps)
    BY Chain DEF Jobs
  <1>2. CASE a = Idle
    BY <1>2, IdleRank
  <1>3. CASE a # Idle
    <2>1. /\ a.steps = t /\ t # <<>> /\ a.op = j.op /\ a.left = j.left /\ a.next = j.next
          /\ a.ids = j.ids
      BY <1>3, Advanced
    <2> HIDE DEF a, t
    <2>2. t \in IF Closes(j.op) THEN Closing ELSE Flushing
      BY <1>1 DEF Chained, t
    <2>3. Has(t, "handle") => Has(j.steps, "handle")
      BY <1>1 DEF Chained, t
    <2>4. /\ Head(t) # "reduce"
          /\ Head(t) = "rounds" => Head(j.steps) = "reduce"
          /\ Head(t) = "reset" => Head(j.steps) = "rounds"
          /\ Head(t) = "handle" => Head(j.steps) = "reset"
      BY <1>1, <2>1 DEF Chained, t, Steps
    <2> QED
      BY <2>1, <2>2, <2>3, <2>4 DEF JobFor, On, a
  <1> QED
    BY <1>2, <1>3

(* The ranks have agreed on a number of rounds.                            *)
LEMMA Reducing ==
  ASSUME NEW l, NEW g, NEW d, NEW m, NEW p, NEW j, RankInv(l, g, d, m, j, p), On(j, "reduce"),
         NEW left \in 0 .. MaxPuts + 1, Counted(g, Buffer(d, m))[Len(g)].rounds <= left
  PROVE  LET a == Advance([j EXCEPT !.left = left])
         IN  /\ RankInv(l, g, d, m, a, p) /\ a.steps = Tail(j.steps) /\ a.steps # <<>>
             /\ Head(a.steps) = "rounds" /\ a.left = left /\ a.ok = j.ok /\ a.op = j.op
  <1> DEFINE b == Buffer(d, m)
             k == [j EXCEPT !.left = left]
             a == Advance(k)
  <1>1. /\ RankTypes(l, g, d, m, j) /\ GoodList(l) /\ Owns(l, g, j.next) /\ Logged(g, m, p)
        /\ JobFor(j, g, b, l) /\ j \in Jobs /\ g \in Seq(Entry)
    BY DEF RankInv, RankTypes
  <1>2. b \in Nat /\ Fits(g, b)
    BY <1>1, BufferFits DEF RankTypes
  <1>3. left \in Nat
    BY BoundAssumption
  <1> HIDE DEF b
  <1>4. Starts(g, b, 1, left) /\ left > 0
    <2>1. Counted(g, b)[Len(g)].rounds <= left
      BY DEF b
    <2> QED
      BY <1>1, <1>2, <1>3, <2>1, FirstStart
  <1>5. /\ k \in Jobs /\ k.steps = j.steps /\ k.op = j.op /\ k.next = j.next /\ k.left = left
        /\ k.ids = j.ids /\ k.ok = j.ok
    BY <1>1 DEF Jobs
  <1>6. /\ j.steps # <<>> /\ Head(j.steps) = "reduce" /\ j.next = 1 /\ j.op \in CallOps
        /\ j.steps \in IF Closes(j.op) THEN Closing ELSE Flushing
        /\ Has(j.steps, "handle") => j.ids \subseteq Issued(l)
    BY <1>1 DEF JobFor, On
  <1> HIDE DEF k
  <1>7. JobFor(a, g, b, l)
    BY <1>4, <1>5, <1>6, NextStep
  <1>8. Chained(j.steps)
    BY <1>1, <1>6, Chain DEF Jobs
  <1>9. /\ a \in Jobs /\ a.steps = Tail(j.steps) /\ a.next = 1 /\ a.left = left
        /\ a.ok = j.ok /\ a.op = j.op /\ Tail(j.steps) # <<>> /\ Head(Tail(j.steps)) = "rounds"
    BY <1>5, <1>6, <1>8, Advanced DEF Chained
  <1> HIDE DEF a
  <1>10. RankInv(l, g, d, m, a, p)
    BY <1>1, <1>6, <1>7, <1>9 DEF RankInv, RankTypes, b
  <1> QED
    BY <1>9, <1>10 DEF a, k

(* The log is empty again.                                                 *)
Rewound(j) == [j EXCEPT !.next = 1]

LEMMA Resetting ==
  ASSUME NEW l, NEW g, NEW d, NEW m, NEW p \in Nat, NEW j, RankInv(l, g, d, m, j, p), On(j, "reset")
  PROVE  LET a == Advance(Rewound(j))
         IN  /\ RankInv(l, <<>>, <<>>, m, Idle, p) /\ RankInv(l, <<>>, <<>>, m, a, p)
             /\ a.steps = Tail(j.steps)
             /\ a.steps # <<>> => a.ok = j.ok /\ a.op = j.op
  <1> DEFINE b == Buffer(<<>>, m)
             k == Rewound(j)
             a == Advance(k)
             E == <<>>
  <1>1. /\ RankTypes(l, g, d, m, j) /\ GoodList(l) /\ Owns(l, g, j.next) /\ j.next > Len(g)
        /\ JobFor(j, g, Buffer(d, m), l) /\ j \in Jobs /\ g \in Seq(Entry)
    BY DEF RankInv, RankTypes, JobFor
  <1>2. E \in Seq(Entry) /\ E \in Seq(1 .. MaxPuts) /\ Len(E) = 0
    OBVIOUS
  <1> HIDE DEF E
  <1>3. Logged(E, m, p)
    BY <1>2 DEF Logged
  <1>4. \A id \in Issued(l) : l.reqs[id].ready
    <2> SUFFICES ASSUME NEW id \in Issued(l), ~l.reqs[id].ready PROVE FALSE
      OBVIOUS
    <2> DEFINE x == l.reqs[id].first
               y == l.reqs[id].last
    <2>1. x <= y /\ \A i \in x .. y : i \in j.next .. Len(g)
      BY <1>1 DEF Owns
    <2>2. l.reqs \in [0 .. Nalloc(l) - 1 -> Object] /\ id \in 0 .. Nalloc(l) - 1
      BY <1>1 DEF GoodList, Issued
    <2>3. x \in Nat /\ y \in Nat
      BY <2>2 DEF Object
    <2>4. Len(g) \in Nat /\ j.next \in Nat
      BY <1>1 DEF Jobs
    <2> HIDE DEF x, y
    <2>5. x \in j.next .. Len(g)
      BY <2>1, <2>3
    <2> QED
      BY <1>1, <2>4, <2>5
  <1>5. \A n : Owns(l, E, n)
    BY <1>4 DEF Owns
  <1>6. RankInv(l, E, E, m, Idle, p)
    BY <1>1, <1>2, <1>3, <1>5, IdleRank, IdleJob DEF RankInv, RankTypes
  <1>7. /\ k \in Jobs /\ k.steps = j.steps /\ k.op = j.op /\ k.next = 1 /\ k.ids = j.ids
        /\ k.ok = j.ok
    BY <1>1 DEF Jobs, Rewound
  <1>8. /\ j.steps # <<>> /\ Head(j.steps) = "reset" /\ j.op \in CallOps
        /\ j.steps \in IF Closes(j.op) THEN Closing ELSE Flushing
        /\ Has(j.steps, "handle") => j.ids \subseteq Issued(l)
    BY <1>1 DEF JobFor, On
  <1> HIDE DEF k, b
  <1>9. JobFor(a, E, b, l)
    BY <1>7, <1>8, NextStep DEF E
  <1>10. /\ a \in Jobs /\ a.steps = Tail(j.steps)
         /\ a.steps # <<>> => a.ok = j.ok /\ a.op = j.op
    BY <1>7, <1>8, Advanced
  <1> HIDE DEF a
  <1>11. RankInv(l, E, E, m, a, p)
    BY <1>1, <1>2, <1>3, <1>5, <1>9, <1>10 DEF RankInv, RankTypes, b, E
  <1> QED
    BY <1>6, <1>10, <1>11 DEF a, k, E

(* The put requests of a wait are given back.                              *)
LEMMA Handling ==
  ASSUME NEW l, NEW g, NEW d, NEW m, NEW p, NEW j, RankInv(l, g, d, m, j, p), On(j, "handle"),
         NEW order \in SetToSeqs(j.ids)
  PROVE  LET a == Advance(j)
         IN  /\ RankInv(RecycleAll(l, order), g, d, m, a, p)
             /\ a.steps = Tail(j.steps)
             /\ a.steps # <<>> => a.ok = j.ok /\ a.op = j.op
  <1> DEFINE q == RecycleAll(l, order)
             b == Buffer(d, m)
             a == Advance(j)
  <1>1. /\ RankTypes(l, g, d, m, j) /\ GoodList(l) /\ Owns(l, g, j.next) /\ Logged(g, m, p)
        /\ JobFor(j, g, b, l) /\ j \in Jobs /\ l \in Lists
    BY DEF RankInv, RankTypes
  <1>2. /\ j.steps # <<>> /\ Head(j.steps) = "handle" /\ j.op \in CallOps
        /\ j.steps \in IF Closes(j.op) THEN Closing ELSE Flushing
        /\ g = <<>> /\ j.next = 1
    BY <1>1 DEF JobFor, On
  <1>3. Chained(j.steps)
    BY <1>1, <1>2, Chain DEF Jobs
  <1>4. j.ids \in SUBSET Issued(l)
    BY <1>1, <1>2, <1>3 DEF JobFor, Chained
  <1>5. /\ q \in Lists /\ GoodList(q) /\ Issued(q) \subseteq Issued(l)
        /\ \A x \in Issued(q) : q.reqs[x] = l.reqs[x]
    BY <1>1, <1>4, AllRecycled
  <1> HIDE DEF q
  <1>6. Owns(q, g, 1)
    BY <1>1, <1>2, <1>5 DEF Owns
  <1>7. /\ a \in Jobs /\ a.steps = Tail(j.steps) /\ a.next = 1
        /\ a.steps # <<>> => a.ok = j.ok /\ a.op = j.op
    BY <1>1, <1>2, Advanced, IdleJob
  <1>8. JobFor(a, g, b, q)
    <2>1. CASE a = Idle
      BY <2>1, IdleRank
    <2>2. CASE a # Idle
      <3>1. a.steps # <<>> /\ a.op = j.op
        BY <1>1, <1>2, <2>2, Advanced
      <3>2. /\ Head(a.steps) = "driver" /\ ~Has(a.steps, "handle")
            /\ a.steps \in IF Closes(j.op) THEN Closing ELSE Flushing
        BY <1>2, <1>3, <1>7, <3>1 DEF Chained
      <3> QED
        BY <1>2, <3>1, <3>2 DEF JobFor, On
    <2> QED
      BY <2>1, <2>2
  <1> HIDE DEF a
  <1>9. RankInv(q, g, d, m, a, p)
    BY <1>1, <1>5, <1>6, <1>7, <1>8 DEF RankInv, RankTypes, b
  <1> QED
    BY <1>7, <1>9 DEF a, q

(***************************************************************************)
(* One round of the replay: its batch of the log, and the requests that    *)
(* become ready.                                                           *)
(***************************************************************************)
BatchOf(g, b, k) == IF k > Len(g) THEN {} ELSE k .. LastOf(g, b, k)

LEMMA Batches ==
  ASSUME NEW r \in Rank, log[r] \in Seq(Entry), job[r] \in Jobs
  PROVE  Batch(r) = BatchOf(log[r], BufferSize(r), job[r].next)
  <1>1. job[r].next \in Nat
    BY DEF Jobs
  <1>2. BatchEnd(r, job[r].next) = LastOf(log[r], BufferSize(r), job[r].next)
    BY <1>1, BatchEnds, Zenon
  <1> QED
    BY <1>2 DEF Batch, BatchOf

LEMMA BatchTaken ==
  ASSUME NEW g \in Seq(Entry), NEW b \in Nat, Fits(g, b), NEW k \in Nat \ {0}
  PROVE  LET B == BatchOf(g, b, k)
             n == k + Cardinality(B)
         IN  /\ B \subseteq 1 .. Len(g) /\ n \in Nat \ {0}
             /\ \A i \in k .. Len(g) : i \in B \/ i \in n .. Len(g)
             /\ \A left \in Nat \ {0} : Starts(g, b, k, left) =>
                   Starts(g, b, n, left - 1) /\ (n <= Len(g) => left - 1 > 0)
  <1> DEFINE N == Len(g)
             B == BatchOf(g, b, k)
             u == LastOf(g, b, k)
             n == k + Cardinality(B)
  <1>1. N \in Nat /\ k \in Nat /\ k > 0
    OBVIOUS
  <1>2. CASE k > N
    <2>1. B = {} /\ Cardinality(B) = 0
      BY <1>2, FS_EmptySet DEF BatchOf
    <2> HIDE DEF B, N
    <2>2. n = k /\ \A i \in k .. N : i \in n .. N
      BY <1>1, <2>1
    <2>3. \A left : Starts(g, b, n, left)
      BY <1>1, <1>2, <2>2 DEF Starts, N
    <2>4. ~(n <= N)
      BY <1>1, <1>2, <2>2
    <2> HIDE DEF n
    <2> QED
      BY <1>1, <2>1, <2>2, <2>3, <2>4 DEF B, n, N
  <1>3. CASE ~(k > N)
    <2>1. k \in 1 .. N /\ B = k .. u
      BY <1>1, <1>3 DEF BatchOf
    <2>2. u \in k .. N
      BY <2>1, LastFacts
    <2> HIDE DEF B, u, N
    <2>3. Cardinality(B) = u - k + 1
      <3>1. u \in Int /\ k \in Int /\ ~(k > u)
        BY <1>1, <2>2
      <3> QED
        BY <2>1, <3>1, FS_Interval
    <2>4. n = u + 1
      BY <1>1, <2>2, <2>3
    <2> HIDE DEF n
    <2>5. B \subseteq 1 .. N /\ n \in Nat \ {0}
      BY <1>1, <2>1, <2>2, <2>4
    <2>6. \A i \in k .. N : i \in B \/ i \in n .. N
      BY <1>1, <2>1, <2>2, <2>4
    <2>7. ASSUME NEW left \in Nat \ {0}, Starts(g, b, k, left)
          PROVE  Starts(g, b, n, left - 1) /\ (n <= N => left - 1 > 0)
      BY <2>1, <2>4, <2>7, RoundTaken DEF u, N
    <2> QED
      BY <2>5, <2>6, <2>7 DEF B, n, N
  <1> QED
    BY <1>2, <1>3

Posted(l, S) ==
    [l EXCEPT !.reqs = [id \in DOMAIN l.reqs |->
                          [l.reqs[id] EXCEPT !.ready = @ \/ id \in S]]]

LEMMA PostedGood ==
  ASSUME NEW l \in Lists, GoodList(l), NEW S
  PROVE  /\ Posted(l, S) \in Lists /\ GoodList(Posted(l, S)) /\ Issued(Posted(l, S)) = Issued(l)
         /\ \A x \in Issued(l) :
               /\ Posted(l, S).reqs[x].first = l.reqs[x].first
               /\ Posted(l, S).reqs[x].last = l.reqs[x].last
               /\ ~Posted(l, S).reqs[x].ready => ~l.reqs[x].ready /\ x \notin S
  <1> DEFINE old == l.reqs
             n == Nalloc(l)
             reqs == [id \in DOMAIN old |-> [old[id] EXCEPT !.ready = @ \/ id \in S]]
             q == Posted(l, S)
  <1>1. /\ n \in Nat /\ old \in [0 .. n - 1 -> Object] /\ l.ids \in Seq(Nat) /\ Len(l.ids) = n
        /\ l.nused \in Int
    BY IssuedFinite DEF GoodList, Lists, Nalloc
  <1>2. q = [ids |-> l.ids, nused |-> l.nused, reqs |-> reqs]
    <2>1. q = [l EXCEPT !.reqs = reqs]
      BY DEF Posted
    <2> HIDE DEF q, reqs
    <2> QED
      BY <2>1 DEF Lists
  <1> HIDE DEF q, n, old
  <1>3. ASSUME NEW x \in 0 .. n - 1
        PROVE  /\ reqs[x] \in Object /\ reqs[x].valid = old[x].valid
               /\ reqs[x].first = old[x].first /\ reqs[x].last = old[x].last
               /\ ~reqs[x].ready => ~old[x].ready /\ x \notin S
    <2>1. old[x] \in Object /\ reqs[x] = [old[x] EXCEPT !.ready = @ \/ x \in S]
      BY <1>1
    <2> DEFINE v == old[x].ready \/ x \in S
    <2>2. v \in BOOLEAN /\ (~v => ~old[x].ready /\ x \notin S)
      OBVIOUS
    <2>3. reqs[x] = [old[x] EXCEPT !.ready = v]
      BY <2>1
    <2> HIDE DEF v, reqs
    <2> QED
      BY <2>1, <2>2, <2>3 DEF Object
  <1>4. DOMAIN reqs = 0 .. n - 1 /\ reqs = [x \in 0 .. n - 1 |-> reqs[x]]
    BY <1>1
  <1> HIDE DEF reqs
  <1>5. reqs \in [0 .. n - 1 -> Object]
    BY <1>3, <1>4
  <1>6. reqs \in UNION {[0 .. i - 1 -> Object] : i \in Nat}
    BY <1>1, <1>5
  <1>7. q \in Lists
    BY <1>1, <1>2, <1>6 DEF Lists
  <1>8. Nalloc(q) = n /\ q.nused = l.nused /\ q.ids = l.ids /\ q.reqs = reqs
    BY <1>1, <1>2 DEF Nalloc
  <1>9. Issued(q) = Issued(l)
    BY <1>3, <1>8 DEF Issued, n, old
  <1>10. FreeIds(q) = FreeIds(l)
    BY <1>8 DEF FreeIds, n
  <1>11. GoodList(q)
    BY <1>5, <1>8, <1>9, <1>10 DEF GoodList, n
  <1>12. \A x \in Issued(l) : x \in 0 .. n - 1
    BY DEF Issued, n
  <1>13. \A x \in Issued(l) : /\ q.reqs[x].first = l.reqs[x].first
                              /\ q.reqs[x].last = l.reqs[x].last
                              /\ ~q.reqs[x].ready => ~l.reqs[x].ready /\ x \notin S
    BY <1>3, <1>8, <1>12 DEF old
  <1> QED
    BY <1>7, <1>9, <1>11, <1>13 DEF q

Posts(g, B) == {g[i].reqid : i \in {x \in B : g[x].valid}}

NextRound(j, n, ok) == [j EXCEPT !.next = n, !.left = j.left - 1, !.ok = ok]

LEMMA Rounding ==
  ASSUME NEW l, NEW g, NEW d, NEW m, NEW p, NEW j, RankInv(l, g, d, m, j, p), On(j, "rounds"),
         NEW ok \in BOOLEAN
  PROVE  LET B == BatchOf(g, Buffer(d, m), j.next)
             S == Posts(g, B)
             n == j.next + Cardinality(B)
             k == NextRound(j, n, ok)
             a == IF n > Len(g) /\ j.left - 1 = 0 THEN Advance(k) ELSE k
         IN  /\ RankInv(Posted(l, S), g, d, m, a, p)
             /\ n <= Len(g) => j.left - 1 > 0
             /\ k.steps = j.steps /\ k.left = j.left - 1 /\ k.op = j.op /\ k.ok = ok
             /\ Advance(k).steps = Tail(j.steps) /\ Advance(k).steps # <<>>
             /\ Advance(k).op = j.op /\ Advance(k).ok = ok
  <1> DEFINE b == Buffer(d, m)
             B == BatchOf(g, b, j.next)
             S == Posts(g, B)
             n == j.next + Cardinality(B)
             left == j.left - 1
             k == NextRound(j, n, ok)
             a == IF n > Len(g) /\ left = 0 THEN Advance(k) ELSE k
             q == Posted(l, S)
  <1>1. /\ RankTypes(l, g, d, m, j) /\ GoodList(l) /\ Owns(l, g, j.next) /\ Logged(g, m, p)
        /\ JobFor(j, g, b, l) /\ j \in Jobs /\ g \in Seq(Entry) /\ l \in Lists
    BY DEF RankInv, RankTypes
  <1>2. b \in Nat /\ Fits(g, b)
    BY <1>1, BufferFits DEF RankTypes
  <1>3. j.next \in Nat \ {0} /\ j.left \in Nat \ {0} /\ j.left \in 0 .. MaxPuts + 1
        /\ Starts(g, b, j.next, j.left)
    BY <1>1, BoundAssumption DEF JobFor, Jobs
  <1> HIDE DEF b
  <1>4. /\ B \subseteq 1 .. Len(g) /\ n \in Nat \ {0}
        /\ \A i \in j.next .. Len(g) : i \in B \/ i \in n .. Len(g)
        /\ Starts(g, b, n, left) /\ (n <= Len(g) => left > 0)
    BY <1>1, <1>2, <1>3, BatchTaken
  <1>5. left \in 0 .. MaxPuts + 1 /\ left \in Nat
    BY <1>3, BoundAssumption
  <1>6. /\ q \in Lists /\ GoodList(q) /\ Issued(q) = Issued(l)
        /\ \A x \in Issued(l) : /\ q.reqs[x].first = l.reqs[x].first
                                /\ q.reqs[x].last = l.reqs[x].last
                                /\ ~q.reqs[x].ready => ~l.reqs[x].ready /\ x \notin S
    <2> HIDE DEF S
    <2> QED
      BY <1>1, PostedGood
  <1> HIDE DEF B, n, q, left
  <1>7. Owns(q, g, n)
    <2> SUFFICES ASSUME NEW x \in Issued(q), ~q.reqs[x].ready
                 PROVE  /\ q.reqs[x].first <= q.reqs[x].last
                        /\ \A i \in q.reqs[x].first .. q.reqs[x].last :
                              i \in n .. Len(g) /\ g[i].valid /\ g[i].reqid = x
      BY DEF Owns
    <2>1. /\ q.reqs[x].first <= q.reqs[x].last
          /\ \A i \in q.reqs[x].first .. q.reqs[x].last :
                i \in j.next .. Len(g) /\ g[i].valid /\ g[i].reqid = x
      BY <1>1, <1>6 DEF Owns
    <2>2. x \notin S
      BY <1>6
    <2>3. \A i \in q.reqs[x].first .. q.reqs[x].last : i \notin B
      BY <2>1, <2>2 DEF Posts
    <2> QED
      BY <1>4, <2>1, <2>3
  <1> HIDE DEF S
  <1>8. /\ k \in Jobs /\ k.steps = j.steps /\ k.op = j.op /\ k.next = n /\ k.left = left
        /\ k.ids = j.ids /\ k.ok = ok
    BY <1>1, <1>4, <1>5 DEF Jobs, NextRound, left
  <1>9. /\ j.steps # <<>> /\ Head(j.steps) = "rounds" /\ j.op \in CallOps
        /\ j.steps \in IF Closes(j.op) THEN Closing ELSE Flushing
        /\ Has(j.steps, "handle") => j.ids \subseteq Issued(l)
    BY <1>1 DEF JobFor, On
  <1> HIDE DEF k
  <1>10. Chained(j.steps)
    BY <1>1, <1>9, Chain DEF Jobs
  <1>11. /\ Advance(k) \in Jobs /\ Advance(k).steps = Tail(j.steps) /\ Tail(j.steps) # <<>>
         /\ Advance(k).op = j.op /\ Advance(k).ok = ok /\ Advance(k).next = n
    BY <1>8, <1>9, <1>10, Advanced DEF Chained
  <1>12. RankInv(q, g, d, m, a, p)
    <2>1. CASE n > Len(g) /\ left = 0
      <3>1. a = Advance(k)
        BY <2>1
      <3>2. JobFor(Advance(k), g, b, q)
        BY <1>6, <1>8, <1>9, <2>1, NextStep
      <3> QED
        BY <1>1, <1>6, <1>7, <1>11, <3>1, <3>2 DEF RankInv, RankTypes, b
    <2>2. CASE ~(n > Len(g) /\ left = 0)
      <3>1. a = k
        BY <2>2
      <3>2. left > 0
        <4>1. Len(g) \in Nat
          BY <1>1
        <4> QED
          BY <1>4, <1>5, <2>2, <4>1
      <3>3. JobFor(k, g, b, q)
        BY <1>4, <1>6, <1>8, <1>9, <3>2 DEF JobFor, On
      <3> QED
        BY <1>1, <1>6, <1>7, <1>8, <3>1, <3>3 DEF RankInv, RankTypes, b
    <2> QED
      BY <2>1, <2>2
  <1> QED
    BY <1>4, <1>8, <1>11, <1>12 DEF B, S, n, k, q, b, left

-----------------------------------------------------------------------------
(***************************************************************************)
(* The inductive invariant.  It needs the data log to be read without      *)
(* error: after a failed read the log is reset with requests in it that    *)
(* are not ready.                                                          *)
(***************************************************************************)
Scalars ==
    /\ mode \in {"coll", "indep", "def", "closed"} /\ indep \in BOOLEAN
    /\ file \in [1 .. Cells -> 0 .. MaxPuts] /\ posted \in 0 .. MaxPuts

Shaped ==
    /\ log = [r \in Rank |-> log[r]] /\ data = [r \in Rank |-> data[r]]
    /\ biggest = [r \in Rank |-> biggest[r]] /\ putlist = [r \in Rank |-> putlist[r]]
    /\ job = [r \in Rank |-> job[r]]

AtRank(r) == RankInv(putlist[r], log[r], data[r], biggest[r], job[r], posted)

BurstInv == Scalars /\ Shaped /\ \A r \in Rank : AtRank(r)

Kept(r) ==
    /\ putlist'[r] = putlist[r] /\ log'[r] = log[r] /\ data'[r] = data[r]
    /\ biggest'[r] = biggest[r] /\ job'[r] = job[r]

(* A rank that a step does not touch. *)
LEMMA KeptRank ==
  ASSUME BurstInv, NEW r \in Rank, Kept(r), posted' \in Nat, posted <= posted'
  PROVE  AtRank(r)'
  <1>1. AtRank(r) /\ posted \in Nat
    BY BoundAssumption DEF BurstInv, Scalars
  <1>2. Len(log[r]) \in Nat
    BY <1>1 DEF AtRank, RankInv, RankTypes
  <1>3. Logged(log[r], biggest[r], posted')
    BY <1>1, <1>2 DEF AtRank, RankInv, Logged
  <1>4. RankInv(putlist[r], log[r], data[r], biggest[r], job[r], posted')
    BY <1>1, <1>3 DEF AtRank, RankInv
  <1> QED
    BY <1>4 DEF AtRank, Kept

LEMMA OneRank ==
  ASSUME BurstInv, NEW r \in Rank, Scalars', Shaped', posted <= posted',
         \A q \in Rank \ {r} : Kept(q), AtRank(r)'
  PROVE  BurstInv'
  <1>1. posted' \in Nat
    BY BoundAssumption DEF Scalars
  <1>2. ASSUME NEW q \in Rank PROVE AtRank(q)'
    <2>1. CASE q = r
      BY <2>1
    <2>2. CASE q # r
      BY <1>1, <2>2, KeptRank
    <2> QED
      BY <2>1, <2>2
  <1> QED
    BY <1>2 DEF BurstInv

(* A rank that is not in a call has no job. *)
LEMMA NoJob ==
  ASSUME BurstInv, NEW r \in Rank
  PROVE  /\ ~InCall(r) <=> job[r] = Idle
         /\ job[r] \in Jobs /\ posted \in Nat /\ posted \in 0 .. MaxPuts
  <1>1. AtRank(r)
    BY DEF BurstInv
  <1> QED
    BY <1>1, IdleJob, BoundAssumption
       DEF AtRank, RankInv, RankTypes, JobFor, InCall, BurstInv, Scalars

LEMMA BurstInit == Init => BurstInv
  <1> SUFFICES ASSUME Init PROVE BurstInv
    OBVIOUS
  <1>1. Scalars /\ Shaped /\ posted = 0
    <2>1. MaxPuts \in Nat /\ 0 \in 0 .. MaxPuts
      BY BoundAssumption
    <2>2. Scalars /\ posted = 0
      BY <2>1 DEF Init, Scalars
    <2>3. Shaped
      BY DEF Init, Shaped
    <2> QED
      BY <2>2, <2>3
  <1>2. ASSUME NEW r \in Rank PROVE AtRank(r)
    <2>1. /\ log[r] = <<>> /\ data[r] = <<>> /\ biggest[r] = 0 /\ putlist[r] = EmptyList
          /\ job[r] = Idle
      BY DEF Init
    <2>2. RankTypes(EmptyList, <<>>, <<>>, 0, Idle) /\ GoodList(EmptyList)
      BY EmptyListGood, IdleJob DEF RankTypes
    <2>3. Issued(EmptyList) = {}
      <3>1. PoolSize \in Nat /\ PoolSize > 0
        BY BoundAssumption
      <3>2. Cardinality(Issued(EmptyList)) = 0 /\ IsFiniteSet(Issued(EmptyList))
        BY EmptyListGood, IssuedFinite DEF GoodList, EmptyList
      <3> QED
        BY <3>2, FS_EmptySet
    <2>4. Owns(EmptyList, <<>>, 1) /\ Logged(<<>>, 0, 0)
      BY <2>3 DEF Owns, Logged
    <2>5. RankInv(EmptyList, <<>>, <<>>, 0, Idle, 0)
      BY <2>2, <2>4, IdleRank, IdleJob DEF RankInv
    <2> QED
      BY <1>1, <2>1, <2>5 DEF AtRank
  <1> QED
    BY <1>1, <1>2 DEF BurstInv

-----------------------------------------------------------------------------
(* The puts. *)
LEMMA PutLogged ==
  ASSUME BurstInv, NEW r \in Rank, ~InCall(r), NEW c \in Shapes \cup VarnShapes,
         LogPut(r, c, -1), UNCHANGED <<mode, indep, putlist, job, file>>
  PROVE  BurstInv'
  <1>1. AtRank(r) /\ job[r] = Idle /\ posted \in Nat /\ posted < MaxPuts /\ posted' = posted + 1
        /\ MaxPuts \in Nat
    BY NoJob, BoundAssumption DEF BurstInv, LogPut
  <1>2. PICK bad \in BOOLEAN :
          log' = [log EXCEPT ![r] = Append(@, NewEntry(posted, c, bad, -1))]
    BY DEF LogPut, NewEntry
  <1>3. /\ data' = [data EXCEPT ![r] = MoreData(@, c, posted)]
        /\ biggest' = [biggest EXCEPT ![r] = Bigger(@, c)]
    BY DEF LogPut, MoreData, Bigger
  <1>4. Shaped
    BY DEF BurstInv
  <1>5. /\ log'[r] = Append(log[r], NewEntry(posted, c, bad, -1))
        /\ data'[r] = MoreData(data[r], c, posted) /\ biggest'[r] = Bigger(biggest[r], c)
        /\ putlist'[r] = putlist[r] /\ job'[r] = Idle
    BY <1>1, <1>2, <1>3, <1>4 DEF Shaped
  <1>6. Shaped' /\ \A q \in Rank \ {r} : Kept(q)
    BY <1>2, <1>3, <1>4 DEF Shaped, Kept
  <1>7. Scalars'
    <2>1. posted' \in 0 .. MaxPuts
      BY <1>1
    <2> QED
      BY <2>1 DEF BurstInv, Scalars
  <1>8. AtRank(r)'
    BY <1>1, <1>5, Appended DEF AtRank
  <1>9. posted <= posted'
    BY <1>1
  <1> QED
    BY <1>6, <1>7, <1>8, <1>9, OneRank

LEMMA PutLinked ==
  ASSUME BurstInv, NEW r \in Rank, NEW c \in Shapes \cup VarnShapes, IPutVarn(r, c)
  PROVE  BurstInv'
  <1> DEFINE l == putlist[r]
             here == Len(log[r]) + 1
             id == NextId(l)
  <1>1. AtRank(r) /\ job[r] = Idle /\ posted \in Nat /\ posted < MaxPuts /\ posted' = posted + 1
        /\ MaxPuts \in Nat
    BY NoJob, BoundAssumption DEF BurstInv, LogPut, IPutVarn, NonBlocking
  <1>2. LogPut(r, c, id) /\ UNCHANGED <<mode, indep, job, file>>
        /\ putlist' = [putlist EXCEPT ![r] = Add(@, id, here, here)]
    BY DEF IPutVarn
  <1> HIDE DEF id
  <1>3. PICK bad \in BOOLEAN :
          log' = [log EXCEPT ![r] = Append(@, NewEntry(posted, c, bad, id))]
    BY <1>2 DEF LogPut, NewEntry
  <1>4. /\ data' = [data EXCEPT ![r] = MoreData(@, c, posted)]
        /\ biggest' = [biggest EXCEPT ![r] = Bigger(@, c)]
    BY <1>2 DEF LogPut, MoreData, Bigger
  <1>5. Shaped
    BY DEF BurstInv
  <1>6. /\ log'[r] = Append(log[r], NewEntry(posted, c, bad, id))
        /\ data'[r] = MoreData(data[r], c, posted) /\ biggest'[r] = Bigger(biggest[r], c)
        /\ putlist'[r] = Add(l, id, here, here) /\ job'[r] = Idle
    BY <1>1, <1>2, <1>3, <1>4, <1>5 DEF Shaped
  <1>7. Shaped' /\ \A q \in Rank \ {r} : Kept(q)
    BY <1>2, <1>3, <1>4, <1>5 DEF Shaped, Kept
  <1>8. Scalars'
    <2>1. posted' \in 0 .. MaxPuts
      BY <1>1
    <2> QED
      BY <1>2, <2>1 DEF BurstInv, Scalars
  <1>9. AtRank(r)'
    BY <1>1, <1>6, Linked DEF AtRank, id
  <1>10. posted <= posted'
    BY <1>1
  <1> QED
    BY <1>7, <1>8, <1>9, <1>10, OneRank

LEMMA PutPosted ==
  ASSUME BurstInv, NEW r \in Rank, NEW c \in Shapes, IPutVar(r, c)
  PROVE  BurstInv'
  <1>1. CASE IPutVarn(r, c)
    BY <1>1, PutLinked
  <1>2. CASE ~IPutVarn(r, c)
    <2> DEFINE l == putlist[r]
               k == Len(log[r]) + 1
    <2>1. /\ NonBlocking(r) /\ posted < MaxPuts /\ posted' = posted + 1
          /\ putlist' = [putlist EXCEPT ![r] = Add(@, NextId(@), k, k - 1)]
          /\ UNCHANGED <<mode, indep, log, data, biggest, job, file>>
      BY <1>2 DEF IPutVar
    <2>2. AtRank(r) /\ job[r] = Idle /\ posted \in Nat /\ MaxPuts \in Nat
      BY <2>1, NoJob, BoundAssumption DEF BurstInv, NonBlocking
    <2>3. Shaped
      BY DEF BurstInv
    <2>4. /\ putlist'[r] = Add(l, NextId(l), k, k - 1) /\ job'[r] = Idle
          /\ log'[r] = log[r] /\ data'[r] = data[r] /\ biggest'[r] = biggest[r]
      BY <2>1, <2>2, <2>3 DEF Shaped
    <2>5. Shaped' /\ \A q \in Rank \ {r} : Kept(q)
      BY <2>1, <2>3 DEF Shaped, Kept
    <2>6. Scalars'
      <3>1. posted' \in 0 .. MaxPuts
        BY <2>1, <2>2
      <3> QED
        BY <2>1, <3>1 DEF BurstInv, Scalars
    <2>7. AtRank(r)'
      BY <2>1, <2>2, <2>4, ReadyAtOnce, SMTT(30) DEF AtRank
    <2>8. posted <= posted'
      BY <2>1, <2>2
    <2> QED
      BY <2>5, <2>6, <2>7, <2>8, OneRank
  <1> QED
    BY <1>1, <1>2

LEMMA PutCancelled ==
  ASSUME BurstInv, NEW r \in Rank, NEW id, CancelPutReq(r, id)
  PROVE  BurstInv'
  <1> DEFINE l == putlist[r]
             req == l.reqs[id]
  <1>1. /\ ~InCall(r) /\ id \in Issued(l)
        /\ putlist' = [putlist EXCEPT ![r] = Recycle(@, id)]
        /\ UNCHANGED <<mode, indep, data, biggest, job, file, posted>>
    BY DEF CancelPutReq
  <1>2. log' = IF req.ready THEN log ELSE [log EXCEPT ![r] = Without(log[r], req)]
    BY DEF CancelPutReq, Cancelled, Without
  <1>3. AtRank(r) /\ job[r] = Idle /\ posted \in Nat /\ Shaped
    BY <1>1, NoJob DEF BurstInv
  <1>4. /\ putlist'[r] = Recycle(l, id) /\ job'[r] = Idle
        /\ data'[r] = data[r] /\ biggest'[r] = biggest[r]
        /\ log'[r] = IF req.ready THEN log[r] ELSE Without(log[r], req)
    BY <1>1, <1>2, <1>3 DEF Shaped
  <1>5. Shaped' /\ \A q \in Rank \ {r} : Kept(q)
    BY <1>1, <1>2, <1>3 DEF Shaped, Kept
  <1>6. Scalars' /\ posted <= posted'
    BY <1>1, <1>3 DEF BurstInv, Scalars
  <1>7. /\ ~req.ready => RankInv(Recycle(l, id), Without(log[r], req), data[r], biggest[r],
                                 Idle, posted)
        /\ req.ready => RankInv(Recycle(l, id), log[r], data[r], biggest[r], Idle, posted)
    BY <1>1, <1>3, Cancelling DEF AtRank
  <1>8. AtRank(r)'
    BY <1>1, <1>4, <1>7 DEF AtRank
  <1> QED
    BY <1>5, <1>6, <1>8, OneRank

-----------------------------------------------------------------------------
(* The calls, and the changes of mode. *)
LEMMA FormFacts ==
  ASSUME BurstInv, NEW r \in Rank, NEW op \in Ops, NEW w \in Forms(op, r)
  PROVE  /\ w.putAll \in BOOLEAN /\ w.ids \subseteq Issued(putlist[r]) /\ op \in CallOps
  <1>1. op \in CallOps
    BY ChoiceAssumption DEF CallOps
  <1>2. CASE op = "wait"
    <2>1. \/ \E S \in SUBSET Issued(putlist[r]) : w = [putAll |-> FALSE, ids |-> S]
          \/ w = [putAll |-> TRUE, ids |-> Issued(putlist[r])]
      BY <1>2 DEF Forms, Waits
    <2>2. CASE w = [putAll |-> TRUE, ids |-> Issued(putlist[r])]
      BY <1>1, <2>2
    <2>3. ASSUME NEW S \in SUBSET Issued(putlist[r]), w = [putAll |-> FALSE, ids |-> S]
          PROVE  w.putAll \in BOOLEAN /\ w.ids \subseteq Issued(putlist[r])
      <3>1. w.putAll = FALSE /\ w.ids = S
        BY <2>3
      <3> QED
        BY <3>1
    <2> QED
      BY <1>1, <2>1, <2>2, <2>3
  <1>3. CASE op # "wait"
    <2>1. w = [putAll |-> FALSE, ids |-> {}]
      BY <1>3 DEF Forms
    <2> QED
      BY <1>1, <2>1
  <1> QED
    BY <1>2, <1>3

LEMMA RankCalls ==
  ASSUME BurstInv, NEW r \in Rank, ~InCall(r), NEW op \in Ops, NEW w \in Forms(op, r)
  PROVE  LET j == Call(r, op, w)
         IN  /\ RankInv(putlist[r], log[r], data[r], biggest[r], j, posted)
             /\ j.steps = CallSteps(r, op, w) /\ j.ok = TRUE /\ j.op \in {op, "none"}
             /\ Planned(j.steps, op, w, log[r])
  <1>1. RankInv(putlist[r], log[r], data[r], biggest[r], Idle, posted) /\ indep \in BOOLEAN
    BY NoJob DEF BurstInv, AtRank, Scalars
  <1>2. Formed(w, putlist[r]) /\ op \in CallOps
    BY FormFacts DEF Formed
  <1> DEFINE j == Call(r, op, w)
  <1>3. /\ RankInv(putlist[r], log[r], data[r], biggest[r], j, posted)
        /\ j.steps = CallSteps(r, op, w) /\ j.ok = TRUE /\ j.op \in {op, "none"}
    BY <1>1, <1>2, Calling
  <1>4. Planned(CallSteps(r, op, w), op, w, log[r])
    BY <1>1, <1>2, Called DEF Formed
  <1> HIDE DEF j
  <1>5. Planned(j.steps, op, w, log[r])
    BY <1>3, <1>4
  <1> QED
    BY <1>3, <1>5 DEF j

LEMMA CalledTogether ==
  ASSUME BurstInv, NEW op \in Ops, CollectiveCall(op)
  PROVE  BurstInv'
  <1>1. PICK w : /\ \A r \in Rank : w[r] \in Forms(op, r)
                 /\ job' = [r \in Rank |-> Call(r, op, w[r])]
    BY DEF CollectiveCall
  <1>2. UNCHANGED <<mode, indep, log, data, biggest, putlist, file, posted>>
        /\ \A r \in Rank : ~InCall(r)
    BY DEF CollectiveCall
  <1>3. ASSUME NEW r \in Rank PROVE AtRank(r)'
    <2>1. job'[r] = Call(r, op, w[r])
      BY <1>1
    <2>2. RankInv(putlist[r], log[r], data[r], biggest[r], job'[r], posted)
      BY <1>1, <1>2, <2>1, RankCalls
    <2> QED
      BY <1>2, <2>2 DEF AtRank
  <1>4. Scalars' /\ Shaped'
    BY <1>1, <1>2 DEF BurstInv, Scalars, Shaped
  <1> QED
    BY <1>3, <1>4 DEF BurstInv

LEMMA CalledAlone ==
  ASSUME BurstInv, NEW r \in Rank, NEW op \in Ops, IndependentCall(r, op)
  PROVE  BurstInv'
  <1>1. PICK w \in Forms(op, r) : job' = [job EXCEPT ![r] = Call(r, op, w)]
    BY DEF IndependentCall
  <1>2. UNCHANGED <<mode, indep, log, data, biggest, putlist, file, posted>> /\ ~InCall(r)
        /\ Shaped /\ posted \in Nat
    BY NoJob DEF IndependentCall, BurstInv
  <1>3. Shaped' /\ (\A q \in Rank \ {r} : Kept(q)) /\ job'[r] = Call(r, op, w)
    BY <1>1, <1>2 DEF Shaped, Kept
  <1>4. AtRank(r)'
    <2>1. RankInv(putlist[r], log[r], data[r], biggest[r], job'[r], posted)
      BY <1>2, <1>3, RankCalls
    <2> QED
      BY <1>2, <2>1 DEF AtRank
  <1>5. Scalars' /\ posted <= posted'
    BY <1>2 DEF BurstInv, Scalars
  <1> QED
    BY <1>3, <1>4, <1>5, OneRank

LEMMA Switched ==
  ASSUME BurstInv, BeginIndepData \/ EndIndepData \/ EndDef \/ Open
  PROVE  BurstInv'
  <1>1. UNCHANGED <<log, data, biggest, putlist, job, file, posted>>
    BY DEF BeginIndepData, EndIndepData, EndDef, Open, SwitchMode
  <1>2. Scalars'
    BY DEF BeginIndepData, EndIndepData, EndDef, Open, SwitchMode, BurstInv, Scalars
  <1>3. Shaped'
    BY <1>1 DEF BurstInv, Shaped
  <1>4. ASSUME NEW r \in Rank PROVE AtRank(r)'
    BY <1>1 DEF BurstInv, AtRank
  <1> QED
    BY <1>2, <1>3, <1>4 DEF BurstInv

-----------------------------------------------------------------------------
(* The steps of a call. *)
LEMMA RoundNumbers ==
  ASSUME BurstInv, NEW R \in SUBSET Rank, R # {}
  PROVE  LET left == Max({Rounds(p) : p \in R})
         IN  left \in 0 .. MaxPuts + 1 /\ \A q \in R : Rounds(q) <= left
  <1>1. ASSUME NEW q \in R PROVE Rounds(q) \in Nat /\ Rounds(q) <= MaxPuts + 1
    <2> DEFINE g == log[q]
               b == Buffer(data[q], biggest[q])
               n == Len(g)
    <2>1. AtRank(q) /\ posted \in Nat /\ posted <= MaxPuts /\ MaxPuts \in Nat
      BY BoundAssumption DEF BurstInv, Scalars
    <2>2. g \in Seq(Entry) /\ b \in Nat /\ n \in Nat /\ n <= posted
      <3>1. RankTypes(putlist[q], log[q], data[q], biggest[q], job[q])
            /\ Logged(log[q], biggest[q], posted)
        BY <2>1 DEF AtRank, RankInv
      <3> QED
        BY <3>1, BufferFits DEF RankTypes, Logged
    <2>3. Rounds(q) = Counted(g, b)[n].rounds
      BY RoundsCounted, BufferSizes
    <2> HIDE DEF g, b, n
    <2>4. 0 \in 0 .. Len(g) /\ n \in 0 .. Len(g) /\ n = Len(g)
      BY <2>2 DEF n
    <2>5. Counted(g, b)[n] \in Totals
      BY <2>2, <2>4, CountLoop
    <2>6. Counted(g, b)[n].rounds <= n + 1
      BY <2>2, <2>4, RoundsGrow
    <2> QED
      BY <2>1, <2>2, <2>3, <2>5, <2>6 DEF Totals
  <1> DEFINE T == {Rounds(p) : p \in R}
  <1>2. T \subseteq Nat /\ T # {} /\ \A x \in T : x <= MaxPuts + 1
    BY <1>1
  <1>3. \A q \in R : Rounds(q) \in T
    OBVIOUS
  <1> HIDE DEF T
  <1>4. MaxPuts + 1 \in Nat
    BY BoundAssumption
  <1>5. Max(T) \in T /\ \A y \in T : Max(T) >= y
    BY <1>2, <1>4, MaxExists
  <1>6. Max(T) \in 0 .. MaxPuts + 1
    <2> DEFINE x == Max(T)
    <2>1. x \in T
      BY <1>5
    <2> HIDE DEF x
    <2>2. x \in Nat /\ x <= MaxPuts + 1
      BY <1>2, <2>1
    <2>3. x \in 0 .. MaxPuts + 1
      BY <1>4, <2>2
    <2> QED
      BY <2>3 DEF x
  <1>7. \A q \in R : Rounds(q) <= Max(T)
    <2>1. \A y \in T : y \in Nat
      BY <1>2
    <2> QED
      BY <1>3, <1>5, <2>1
  <1> QED
    BY <1>6, <1>7 DEF T

LEMMA Mine ==
  ASSUME NEW r \in Rank
  PROVE  Partners(r) \in SUBSET Rank /\ r \in Partners(r) /\ Partners(r) # {}
  BY DEF Partners

Stepped(q) ==
    /\ job'[q].steps = Tail(job[q].steps)
    /\ job'[q].steps # <<>> => job'[q].ok = job[q].ok /\ job'[q].op = job[q].op

LEMMA Reduced ==
  ASSUME BurstInv, NEW r \in Rank, Reduce(r)
  PROVE  /\ BurstInv'
         /\ \A q \in Partners(r) : On(job[q], "reduce") /\ Stepped(q)
         /\ \A q \in Rank \ Partners(r) : job'[q] = job[q]
         /\ \E left : \A q \in Partners(r) : job'[q].left = left
  <1> DEFINE R == Partners(r)
             left == Max({Rounds(p) : p \in R})
  <1>1. /\ R \in SUBSET Rank /\ R # {}
        /\ UNCHANGED <<mode, indep, log, data, biggest, putlist, file, posted>>
        /\ job' = [q \in Rank |-> IF q \notin R THEN job[q]
                                  ELSE Advance([job[q] EXCEPT !.left = left])]
        /\ \A q \in R : On(job[q], "reduce")
    BY Mine DEF Reduce, Together, At, InCall, On
  <1>2. left \in 0 .. MaxPuts + 1 /\ \A q \in R : Rounds(q) <= left
    <2> HIDE DEF R
    <2> QED
      BY <1>1, RoundNumbers
  <1> HIDE DEF left, R
  <1>3. ASSUME NEW q \in R
        PROVE  /\ RankInv(putlist[q], log[q], data[q], biggest[q], job'[q], posted)
               /\ Stepped(q) /\ job'[q].left = left
    <2>1. q \in Rank /\ job'[q] = Advance([job[q] EXCEPT !.left = left])
      BY <1>1
    <2>2. RankInv(putlist[q], log[q], data[q], biggest[q], job[q], posted)
      BY <2>1 DEF BurstInv, AtRank
    <2>3. Counted(log[q], Buffer(data[q], biggest[q]))[Len(log[q])].rounds <= left
      BY <1>2, <2>1, RoundsCounted, BufferSizes
    <2>4. On(job[q], "reduce")
      BY <1>1
    <2> QED
      BY <1>2, <2>1, <2>2, <2>3, <2>4, Reducing DEF Stepped
  <1>4. \A q \in Rank \ R : job'[q] = job[q]
    BY <1>1
  <1>5. ASSUME NEW q \in Rank PROVE AtRank(q)'
    <2>1. CASE q \in R
      BY <1>1, <1>3, <2>1 DEF AtRank
    <2>2. CASE q \notin R
      BY <1>1, <1>4, <2>2 DEF BurstInv, AtRank
    <2> QED
      BY <2>1, <2>2
  <1>6. Scalars' /\ Shaped'
    BY <1>1 DEF BurstInv, Scalars, Shaped
  <1> QED
    BY <1>1, <1>3, <1>4, <1>5, <1>6 DEF BurstInv, R

LEMMA WasReset ==
  ASSUME BurstInv, NEW r \in Rank, Reset(r)
  PROVE  /\ BurstInv' /\ On(job[r], "reset")
         /\ \A q \in Rank \ {r} : job'[q] = job[q]
         /\ \/ Stepped(r)
            \/ job'[r] = Idle /\ ~job[r].ok /\ job[r].op \in {"sync", "redef"}
  <1> DEFINE j == job[r]
             a == Advance(Rewound(j))
             early == ~j.ok /\ j.op \in {"sync", "redef"}
  <1>1. /\ On(j, "reset") /\ Shaped /\ posted \in Nat
        /\ log' = [log EXCEPT ![r] = <<>>] /\ data' = [data EXCEPT ![r] = <<>>]
        /\ job' = [job EXCEPT ![r] = IF early THEN Idle ELSE a]
        /\ UNCHANGED <<mode, indep, biggest, putlist, file, posted>>
    BY NoJob DEF Reset, At, InCall, On, BurstInv, Rewound
  <1>2. /\ RankInv(putlist[r], <<>>, <<>>, biggest[r], Idle, posted)
        /\ RankInv(putlist[r], <<>>, <<>>, biggest[r], a, posted)
        /\ a.steps = Tail(j.steps)
        /\ a.steps # <<>> => a.ok = j.ok /\ a.op = j.op
    <2>1. RankInv(putlist[r], log[r], data[r], biggest[r], j, posted)
      BY DEF BurstInv, AtRank
    <2> QED
      BY <1>1, <2>1, Resetting
  <1> HIDE DEF a, early
  <1>3. /\ log'[r] = <<>> /\ data'[r] = <<>> /\ job'[r] = IF early THEN Idle ELSE a
        /\ biggest'[r] = biggest[r] /\ putlist'[r] = putlist[r]
    BY <1>1 DEF Shaped
  <1>4. Shaped' /\ \A q \in Rank \ {r} : Kept(q)
    BY <1>1 DEF Shaped, Kept
  <1>5. AtRank(r)'
    BY <1>1, <1>2, <1>3 DEF AtRank
  <1>6. Scalars' /\ posted <= posted'
    BY <1>1 DEF BurstInv, Scalars
  <1>7. BurstInv'
    BY <1>4, <1>5, <1>6, OneRank
  <1>8. \/ Stepped(r)
        \/ job'[r] = Idle /\ early
    BY <1>2, <1>3 DEF Stepped
  <1> QED
    BY <1>1, <1>4, <1>7, <1>8 DEF early, Kept

LEMMA Handled ==
  ASSUME BurstInv, NEW r \in Rank, Handle(r)
  PROVE  /\ BurstInv' /\ On(job[r], "handle") /\ Stepped(r)
         /\ \A q \in Rank \ {r} : job'[q] = job[q]
  <1>1. PICK order \in SetToSeqs(job[r].ids) :
           putlist' = [putlist EXCEPT ![r] = RecycleAll(@, order)]
    BY DEF Handle
  <1>2. /\ On(job[r], "handle") /\ Shaped /\ posted \in Nat
        /\ job' = [job EXCEPT ![r] = Advance(@)]
        /\ UNCHANGED <<mode, indep, log, data, biggest, file, posted>>
    BY NoJob DEF Handle, At, InCall, On, BurstInv
  <1>3. /\ RankInv(RecycleAll(putlist[r], order), log[r], data[r], biggest[r],
                   Advance(job[r]), posted)
        /\ Advance(job[r]).steps = Tail(job[r].steps)
        /\ Advance(job[r]).steps # <<>> =>
              Advance(job[r]).ok = job[r].ok /\ Advance(job[r]).op = job[r].op
    BY <1>2, Handling DEF BurstInv, AtRank
  <1>4. /\ job'[r] = Advance(job[r]) /\ putlist'[r] = RecycleAll(putlist[r], order)
        /\ log'[r] = log[r] /\ data'[r] = data[r] /\ biggest'[r] = biggest[r]
    BY <1>1, <1>2 DEF Shaped
  <1>5. Shaped' /\ \A q \in Rank \ {r} : Kept(q)
    BY <1>1, <1>2 DEF Shaped, Kept
  <1>6. AtRank(r)'
    BY <1>2, <1>3, <1>4 DEF AtRank
  <1>7. Scalars' /\ posted <= posted'
    BY <1>2 DEF BurstInv, Scalars
  <1>8. BurstInv'
    BY <1>5, <1>6, <1>7, OneRank
  <1>9. Stepped(r)
    BY <1>3, <1>4 DEF Stepped
  <1> QED
    BY <1>2, <1>5, <1>8, <1>9 DEF Kept

LEMMA EmptyRank ==
  ASSUME NEW p \in Nat
  PROVE  RankInv(EmptyList, <<>>, <<>>, 0, Idle, p)
  <1>1. RankTypes(EmptyList, <<>>, <<>>, 0, Idle) /\ GoodList(EmptyList)
    BY EmptyListGood, IdleJob DEF RankTypes
  <1>2. Issued(EmptyList) = {}
    <2>1. Cardinality(Issued(EmptyList)) = 0 /\ IsFiniteSet(Issued(EmptyList))
      BY EmptyListGood, IssuedFinite DEF GoodList, EmptyList
    <2> QED
      BY <2>1, FS_EmptySet
  <1>3. Owns(EmptyList, <<>>, 1) /\ Logged(<<>>, 0, p)
    BY <1>2 DEF Owns, Logged
  <1> QED
    BY <1>1, <1>3, IdleRank, IdleJob DEF RankInv

LEMMA Driving ==
  ASSUME NEW l, NEW g, NEW d, NEW m, NEW p, NEW j, RankInv(l, g, d, m, j, p), On(j, "driver")
  PROVE  Advance(j) = Idle /\ RankInv(l, g, d, m, Idle, p) /\ Tail(j.steps) = <<>>
  <1>1. /\ RankTypes(l, g, d, m, j) /\ GoodList(l) /\ Owns(l, g, j.next) /\ Logged(g, m, p)
        /\ j \in Jobs /\ j.steps # <<>> /\ Head(j.steps) = "driver"
    BY DEF RankInv, RankTypes, On
  <1>2. Chained(j.steps)
    BY <1>1, Chain DEF Jobs
  <1>3. Tail(j.steps) = <<>>
    BY <1>1, <1>2 DEF Chained
  <1>4. Advance(j) = Idle
    BY <1>1, <1>3, Advanced
  <1>5. Owns(l, g, 1)
    BY <1>1, OwnsMore DEF RankTypes, Jobs
  <1>6. RankTypes(l, g, d, m, Idle)
    BY <1>1, IdleJob DEF RankTypes
  <1> QED
    BY <1>1, <1>3, <1>4, <1>5, <1>6, IdleRank, IdleJob DEF RankInv

LEMMA Driven ==
  ASSUME BurstInv, NEW r \in Rank, Driver(r)
  PROVE  BurstInv' /\ \A q \in Rank : On(job[q], "driver") /\ job'[q] = Idle
  <1>1. /\ \A q \in Rank : On(job[q], "driver")
        /\ job' = [q \in Rank |-> Advance(job[q])]
        /\ UNCHANGED <<indep, file, posted>>
        /\ mode' \in {"def", "closed", mode}
    BY DEF Driver, Together, At, InCall, On
  <1>2. \/ /\ log' = [q \in Rank |-> <<>>] /\ data' = [q \in Rank |-> <<>>]
           /\ biggest' = [q \in Rank |-> 0] /\ putlist' = [q \in Rank |-> EmptyList]
        \/ UNCHANGED <<log, data, biggest, putlist>>
    BY DEF Driver
  <1>3. ASSUME NEW q \in Rank
        PROVE  job'[q] = Idle /\ RankInv(putlist[q], log[q], data[q], biggest[q], Idle, posted)
    <2>1. RankInv(putlist[q], log[q], data[q], biggest[q], job[q], posted)
      BY DEF BurstInv, AtRank
    <2>2. On(job[q], "driver") /\ job'[q] = Advance(job[q])
      BY <1>1
    <2> QED
      BY <2>1, <2>2, Driving
  <1>4. posted \in Nat
    BY NoJob
  <1>5. ASSUME NEW q \in Rank PROVE AtRank(q)'
    <2>1. CASE UNCHANGED <<log, data, biggest, putlist>>
      BY <1>1, <1>3, <2>1 DEF AtRank
    <2>2. CASE /\ log' = [p \in Rank |-> <<>>] /\ data' = [p \in Rank |-> <<>>]
               /\ biggest' = [p \in Rank |-> 0] /\ putlist' = [p \in Rank |-> EmptyList]
      <3>1. /\ log'[q] = <<>> /\ data'[q] = <<>> /\ biggest'[q] = 0 /\ putlist'[q] = EmptyList
            /\ posted' = posted /\ job'[q] = Idle
        BY <1>1, <1>3, <2>2
      <3>2. RankInv(EmptyList, <<>>, <<>>, 0, Idle, posted)
        BY <1>4, EmptyRank
      <3> QED
        BY <3>1, <3>2 DEF AtRank
    <2> QED
      BY <1>2, <2>1, <2>2
  <1>6. Scalars'
    BY <1>1 DEF BurstInv, Scalars
  <1>7. Shaped'
    <2>1. job' = [q \in Rank |-> job'[q]]
      BY <1>1
    <2>2. /\ log' = [q \in Rank |-> log'[q]] /\ data' = [q \in Rank |-> data'[q]]
          /\ biggest' = [q \in Rank |-> biggest'[q]] /\ putlist' = [q \in Rank |-> putlist'[q]]
      BY <1>2 DEF BurstInv, Shaped
    <2> QED
      BY <2>1, <2>2 DEF Shaped
  <1> QED
    BY <1>1, <1>3, <1>5, <1>6, <1>7 DEF BurstInv

(* A round of one rank, as the model has it. *)
Good(q) == ~Refused /\ \A i \in Valid(q) : ~log[q][i].bad

LEMMA RankRound ==
  ASSUME BurstInv, NEW q \in Rank, On(job[q], "rounds")
  PROVE  /\ RankInv(Ready(q), log[q], data[q], biggest[q], AfterRound(q), posted)
         /\ AfterRound(q).steps \in {job[q].steps, Tail(job[q].steps)}
         /\ AfterRound(q).steps = Tail(job[q].steps) => job[q].left - 1 = 0
         /\ job[q].left - 1 = 0 => AfterRound(q).steps = Tail(job[q].steps)
         /\ AfterRound(q).steps = job[q].steps => AfterRound(q).left = job[q].left - 1
         /\ AfterRound(q).op = job[q].op
         /\ AfterRound(q).ok = (job[q].ok /\ Good(q))
  <1> DEFINE l == putlist[q]
             g == log[q]
             d == data[q]
             m == biggest[q]
             j == job[q]
             b == Buffer(d, m)
             B == BatchOf(g, b, j.next)
             S == Posts(g, B)
             n == j.next + Cardinality(B)
             ok == j.ok /\ Good(q)
             k == NextRound(j, n, ok)
             a == IF n > Len(g) /\ j.left - 1 = 0 THEN Advance(k) ELSE k
  <1>1. RankInv(l, g, d, m, j, posted) /\ g \in Seq(Entry) /\ j \in Jobs
    BY DEF BurstInv, AtRank, RankInv, RankTypes
  <1>2. Batch(q) = B
    BY <1>1, Batches, BufferSizes
  <1>3. ok \in BOOLEAN
    OBVIOUS
  <1>4. AfterRound(q) = a
    BY <1>2 DEF AfterRound, Good, NextRound
  <1>5. Replayers(q) = S
    BY <1>2 DEF Replayers, Valid, Posts
  <1>6. Ready(q) = Posted(l, S)
    BY <1>5 DEF Ready, Posted
  <1> HIDE DEF ok, l, d, m
  <1>7. /\ RankInv(Posted(l, S), g, d, m, a, posted)
        /\ n <= Len(g) => j.left - 1 > 0
        /\ k.steps = j.steps /\ k.left = j.left - 1 /\ k.op = j.op /\ k.ok = ok
        /\ Advance(k).steps = Tail(j.steps) /\ Advance(k).steps # <<>>
        /\ Advance(k).op = j.op /\ Advance(k).ok = ok
    BY <1>1, <1>3, Rounding DEF l, d, m
  <1>8. n \in Nat /\ Len(g) \in Nat /\ j.left \in Nat
    <2>1. Fits(g, b) /\ b \in Nat
      BY <1>1, BufferFits DEF RankInv, RankTypes, l, d, m
    <2>2. j.next \in Nat \ {0} /\ j.left \in Nat
      BY <1>1, BoundAssumption DEF Jobs
    <2> HIDE DEF b, n, j, B
    <2>3. n \in Nat \ {0}
      BY <1>1, <2>1, <2>2, BatchTaken DEF n, B
    <2> QED
      BY <1>1, <2>2, <2>3
  <1>9. Tail(j.steps) # j.steps
    <2>1. j.steps \in Seq(Steps) /\ j.steps # <<>>
      BY <1>1, Chain DEF Jobs, Chained, On
    <2> DEFINE s == j.steps
               t == Tail(s)
    <2>2. Len(t) = Len(s) - 1 /\ Len(s) \in Nat
      BY <2>1
    <2> HIDE DEF s, t
    <2>3. s # t
      BY <2>2
    <2> QED
      BY <2>3 DEF s, t
  <1> HIDE DEF j, g, k, n, B, S, b
  <1>10. CASE n > Len(g) /\ j.left - 1 = 0
    <2>1. a = Advance(k)
      BY <1>10
    <2> HIDE DEF a
    <2> QED
      BY <1>4, <1>6, <1>7, <1>10, <2>1, <1>9 DEF j, g, ok, d, m
  <1>11. CASE ~(n > Len(g) /\ j.left - 1 = 0)
    <2>1. a = k
      BY <1>11
    <2>2. j.left - 1 # 0
      BY <1>7, <1>8, <1>11
    <2> HIDE DEF a
    <2> QED
      BY <1>4, <1>6, <1>7, <1>9, <2>1, <2>2 DEF j, g, ok, d, m
  <1> QED
    BY <1>10, <1>11

LEMMA Rounded ==
  ASSUME BurstInv, "read" \notin Faults, NEW r \in Rank, Round(r)
  PROVE  /\ BurstInv'
         /\ \A q \in Partners(r) : On(job[q], "rounds") /\ job'[q] = AfterRound(q)
         /\ \A q \in Rank \ Partners(r) : job'[q] = job[q]
  <1> DEFINE R == Partners(r)
  <1>1. /\ R \in SUBSET Rank
        /\ \A q \in R : On(job[q], "rounds")
        /\ job' = [q \in Rank |-> IF q \in R THEN AfterRound(q) ELSE job[q]]
        /\ putlist' = [q \in Rank |-> IF q \in R THEN Ready(q) ELSE putlist[q]]
        /\ UNCHANGED <<mode, indep, log, data, biggest, posted>>
    BY Mine DEF Round, Together, At, InCall, On
  <1>2. UNCHANGED file \/ WriteCells(R)
    BY DEF Round
  <1>3. Scalars'
    <2>1. file' \in [1 .. Cells -> 0 .. MaxPuts]
      <3>1. CASE UNCHANGED file
        BY <3>1 DEF BurstInv, Scalars
      <3>2. CASE WriteCells(R)
        BY <3>2 DEF WriteCells
      <3> QED
        BY <1>2, <3>1, <3>2
    <2> QED
      BY <1>1, <2>1 DEF BurstInv, Scalars
  <1>4. Shaped'
    BY <1>1 DEF BurstInv, Shaped
  <1> HIDE DEF R
  <1>5. ASSUME NEW q \in Rank PROVE AtRank(q)'
    <2>1. CASE q \in R
      <3>1. job'[q] = AfterRound(q) /\ putlist'[q] = Ready(q)
        BY <1>1, <2>1
      <3>2. RankInv(Ready(q), log[q], data[q], biggest[q], AfterRound(q), posted)
        BY <1>1, <2>1, RankRound
      <3> QED
        BY <1>1, <3>1, <3>2 DEF AtRank
    <2>2. CASE q \notin R
      <3>1. job'[q] = job[q] /\ putlist'[q] = putlist[q]
        BY <1>1, <2>2
      <3> QED
        BY <1>1, <3>1 DEF BurstInv, AtRank
    <2> QED
      BY <2>1, <2>2
  <1>6. /\ \A q \in R : On(job[q], "rounds") /\ job'[q] = AfterRound(q)
        /\ \A q \in Rank \ R : job'[q] = job[q]
    BY <1>1
  <1> QED
    BY <1>3, <1>4, <1>5, <1>6 DEF BurstInv, R

-----------------------------------------------------------------------------
LEMMA BurstNext ==
  ASSUME BurstInv, "read" \notin Faults, Next
  PROVE  BurstInv'
  <1>1. ASSUME NEW r \in Rank, NEW s \in Shapes, PutVar(r, s) PROVE BurstInv'
    BY <1>1, PutLogged DEF PutVar, Blocking
  <1>2. ASSUME NEW r \in Rank, NEW s \in Shapes, IPutVar(r, s) PROVE BurstInv'
    BY <1>2, PutPosted
  <1>3. ASSUME NEW r \in Rank, NEW s \in VarnShapes, PutVarn(r, s) PROVE BurstInv'
    BY <1>3, PutLogged DEF PutVarn, Blocking
  <1>4. ASSUME NEW r \in Rank, NEW s \in VarnShapes, IPutVarn(r, s) PROVE BurstInv'
    BY <1>4, PutLinked
  <1>5. ASSUME NEW r \in Rank, NEW id, CancelPutReq(r, id) PROVE BurstInv'
    BY <1>5, PutCancelled
  <1>6. ASSUME NEW r \in Rank, NEW op \in Ops, IndependentCall(r, op) PROVE BurstInv'
    BY <1>6, CalledAlone
  <1>7. ASSUME NEW r \in Rank, Step(r) PROVE BurstInv'
    BY <1>7, Reduced, Rounded, WasReset, Handled, Driven DEF Step
  <1>8. ASSUME NEW op \in Ops, CollectiveCall(op) PROVE BurstInv'
    BY <1>8, CalledTogether
  <1>9. CASE BeginIndepData \/ EndIndepData \/ EndDef \/ Open
    BY <1>9, Switched
  <1> QED
    BY <1>1, <1>2, <1>3, <1>4, <1>5, <1>6, <1>7, <1>8, <1>9 DEF Next

LEMMA BurstStutter ==
  ASSUME BurstInv, UNCHANGED vars
  PROVE  BurstInv'
  BY DEF BurstInv, Scalars, Shaped, AtRank, vars

(* The invariant makes the types and the put list what TypeOK asks. *)
LEMMA TypesFollow ==
  ASSUME BurstInv
  PROVE  TypeOK
  <1>1. ASSUME NEW r \in Rank
        PROVE  /\ \A i \in DOMAIN log[r] : log[r][i] \in Entry
               /\ \A i \in DOMAIN data[r] : data[r][i] \in 1 .. MaxPuts
               /\ biggest[r] \in Nat
               /\ \A id \in DOMAIN putlist[r].reqs : putlist[r].reqs[id] \in Object
               /\ job[r].left \in 0 .. MaxPuts + 1
               /\ \A i \in DOMAIN job[r].steps : job[r].steps[i] \in Steps
    <2>1. /\ RankTypes(putlist[r], log[r], data[r], biggest[r], job[r])
          /\ GoodList(putlist[r])
      BY DEF BurstInv, AtRank, RankInv
    <2>2. log[r] \in Seq(Entry) /\ data[r] \in Seq(1 .. MaxPuts) /\ biggest[r] \in Nat
          /\ job[r] \in Jobs
      BY <2>1 DEF RankTypes
    <2>3. \A id \in DOMAIN putlist[r].reqs : putlist[r].reqs[id] \in Object
      BY <2>1 DEF GoodList
    <2>4. job[r].steps \in Seq(Steps)
      <3>1. job[r].steps \in Flushing \cup Closing
        BY <2>2 DEF Jobs
      <3>2. CASE job[r].steps = <<>>
        BY <3>2
      <3>3. CASE job[r].steps # <<>>
        BY <3>1, <3>3, Chain DEF Chained
      <3> QED
        BY <3>2, <3>3
    <2>5. \A i \in DOMAIN log[r] : log[r][i] \in Entry
      BY <2>2
    <2>6. \A i \in DOMAIN data[r] : data[r][i] \in 1 .. MaxPuts
      <3> DEFINE T == 1 .. MaxPuts
                 d == data[r]
      <3>1. d \in Seq(T)
        BY <2>2
      <3> HIDE DEF T, d
      <3>2. \A i \in DOMAIN d : d[i] \in T
        BY <3>1
      <3> QED
        BY <3>2 DEF T, d
    <2>7. \A i \in DOMAIN job[r].steps : job[r].steps[i] \in Steps
      BY <2>4
    <2>8. job[r].left \in 0 .. MaxPuts + 1
      BY <2>2 DEF Jobs
    <2> QED
      BY <2>2, <2>3, <2>5, <2>6, <2>7, <2>8
  <1>2. PutListConsistent
    <2> SUFFICES ASSUME NEW r \in Rank
                 PROVE  LET l == putlist[r]
                        IN  /\ FreeIds(l) = (0 .. Nalloc(l) - 1) \ Issued(l)
                            /\ Cardinality(Issued(l)) = l.nused
                            /\ \A id \in Issued(l) :
                                  l.reqs[id].ready
                                  \/ \A i \in l.reqs[id].first .. l.reqs[id].last :
                                        /\ i \in job[r].next .. Len(log[r])
                                        /\ log[r][i].valid /\ log[r][i].reqid = id
      BY DEF PutListConsistent, FreeIds
    <2>1. GoodList(putlist[r]) /\ Owns(putlist[r], log[r], job[r].next)
      BY DEF BurstInv, AtRank, RankInv
    <2> QED
      BY <2>1 DEF GoodList, Owns
  <1>3. Scalars
    BY DEF BurstInv
  <1> QED
    BY <1>1, <1>2, <1>3 DEF TypeOK, Scalars

LEMMA AbortsNever ==
  ASSUME BurstInv
  PROVE  NeverAborts
  <1> SUFFICES ASSUME NEW r \in Rank, At(r, "handle"), NEW id \in Issued(putlist[r]),
                      ~putlist[r].reqs[id].ready
               PROVE  FALSE
    BY DEF NeverAborts
  <1> DEFINE l == putlist[r]
             x == l.reqs[id].first
             y == l.reqs[id].last
  <1>1. /\ GoodList(l) /\ Owns(l, log[r], job[r].next)
        /\ JobFor(job[r], log[r], Buffer(data[r], biggest[r]), l)
    BY DEF BurstInv, AtRank, RankInv
  <1>2. log[r] = <<>> /\ job[r].next = 1
    BY <1>1 DEF JobFor, At, InCall, On
  <1>3. x <= y /\ \A i \in x .. y : i \in 1 .. Len(<<>>)
    BY <1>1, <1>2 DEF Owns
  <1>4. x \in Nat /\ y \in Nat
    <2>1. l.reqs \in [0 .. Nalloc(l) - 1 -> Object] /\ id \in 0 .. Nalloc(l) - 1
      BY <1>1 DEF GoodList, Issued
    <2> QED
      BY <2>1 DEF Object
  <1> HIDE DEF x, y
  <1>5. x \in 1 .. 0
    BY <1>3, <1>4
  <1> QED
    BY <1>5

(***************************************************************************)
(* When no read of the data log fails, every variable keeps its type; the  *)
(* used and the free request objects are the two halves of each put list;  *)
(* and a request that is not ready owns its log entries, all of them in    *)
(* the part of the log that is still to be replayed.  This needs that the  *)
(* rounds counted before a replay are enough for its batches.              *)
(***************************************************************************)
THEOREM TypeCorrect ==
  ASSUME "read" \notin Faults
  PROVE  Spec => []TypeOK
  <1>1. BurstInv /\ [Next]_vars => BurstInv'
    BY BurstNext, BurstStutter
  <1> QED
    BY BurstInit, <1>1, TypesFollow, PTL DEF Spec

(***************************************************************************)
(* A wait never finds a request that is not in the log file: when it comes *)
(* to its requests the log is empty and all of them are ready.             *)
(***************************************************************************)
THEOREM NeverAborting ==
  ASSUME "read" \notin Faults
  PROVE  Spec => []NeverAborts
  <1>1. BurstInv /\ [Next]_vars => BurstInv'
    BY BurstNext, BurstStutter
  <1> QED
    BY BurstInit, <1>1, AbortsNever, PTL DEF Spec

-----------------------------------------------------------------------------
(***************************************************************************)
(* The collective operations.  The ranks have the same ones before them:   *)
(* the driver's part in every mode, the replay's outside independent mode. *)
(***************************************************************************)
SameSteps ==
    \A q, r \in Rank :
       /\ Has(job[q].steps, "driver") <=> Has(job[r].steps, "driver")
       /\ ~indep => /\ Has(job[q].steps, "reduce") <=> Has(job[r].steps, "reduce")
                    /\ Has(job[q].steps, "rounds") <=> Has(job[r].steps, "rounds")
                    /\ On(job[q], "rounds") /\ On(job[r], "rounds") =>
                          job[q].left = job[r].left

(* The driver's mode and the flag agree, and no call skips its last part.  *)
Modes ==
    /\ mode # "closed" => (indep <=> mode = "indep")
    /\ \A r \in Rank :
          /\ InCall(r) => mode # "closed"
          /\ job[r].op \in {"sync", "redef"} => job[r].ok /\ mode # "def"
          /\ job[r].op = "redef" => mode = "coll"

Clean == \A r \in Rank : \A i \in 1 .. Len(log[r]) : ~log[r][i].bad

MatchInv == BurstInv /\ SameSteps /\ Modes /\ Clean

LEMMA HeadFacts ==
  ASSUME BurstInv, NEW q \in Rank
  PROVE  /\ job[q].steps # <<>> => Chained(job[q].steps)
         /\ job[q].steps = <<>> => \A x : ~Has(job[q].steps, x)
         /\ \A x : On(job[q], x) => Has(job[q].steps, x)
  <1>1. job[q].steps \in Flushing \cup Closing
    BY NoJob DEF Jobs
  <1>2. job[q].steps # <<>> => Chained(job[q].steps)
    BY <1>1, Chain
  <1>3. job[q].steps = <<>> => \A x : ~Has(job[q].steps, x)
    BY DEF Has
  <1>4. \A x : On(job[q], x) => Has(job[q].steps, x)
    BY <1>2 DEF On, Chained
  <1> QED
    BY <1>2, <1>3, <1>4

LEMMA MatchFollows ==
  ASSUME MatchInv
  PROVE  CollectivesMatch
  <1> SUFFICES ASSUME NEW q \in Rank, NEW r \in Rank, Meets(q)
               PROVE  /\ InCall(r)
                      /\ Meets(r) => Head(job[q].steps) = Head(job[r].steps)
    BY DEF CollectivesMatch
  <1> DEFINE s == job[q].steps
             t == job[r].steps
  <1>1. /\ s # <<>> => Chained(s)
        /\ t # <<>> => Chained(t)
        /\ t = <<>> => \A x : ~Has(t, x)
        /\ s # <<>> => Has(s, Head(s))
    BY HeadFacts DEF MatchInv, On
  <1>2. /\ Has(s, "driver") <=> Has(t, "driver")
        /\ ~indep => /\ Has(s, "reduce") <=> Has(t, "reduce")
                     /\ Has(s, "rounds") <=> Has(t, "rounds")
    BY DEF MatchInv, SameSteps
  <1>3. s # <<>> /\ (Head(s) = "driver" \/ (~indep /\ Head(s) \in {"reduce", "rounds"}))
    BY DEF Meets, At, InCall
  <1>4. t # <<>>
    BY <1>1, <1>2, <1>3
  <1>5. ASSUME Meets(r) PROVE Head(s) = Head(t)
    <2>1. Head(t) = "driver" \/ (~indep /\ Head(t) \in {"reduce", "rounds"})
      BY <1>5 DEF Meets, At, InCall
    <2>2. Has(t, Head(t))
      BY <1>1, <1>4 DEF Chained
    <2>3. /\ Head(s) = "driver" => \A x : Has(s, x) => x = "driver"
          /\ Head(s) = "rounds" => ~Has(s, "reduce")
      <3>1. ~Has(<<>>, "driver") /\ \A x : ~Has(<<>>, x)
        BY DEF Has
      <3> QED
        BY <1>1, <1>3, <3>1 DEF Chained
    <2>4. /\ Head(t) = "driver" => \A x : Has(t, x) => x = "driver"
          /\ Head(t) = "rounds" => ~Has(t, "reduce")
      <3>1. \A x : ~Has(<<>>, x)
        BY DEF Has
      <3> QED
        BY <1>1, <1>4, <3>1 DEF Chained
    <2> QED
      BY <1>1, <1>2, <1>3, <2>1, <2>2, <2>3, <2>4
  <1> QED
    BY <1>4, <1>5 DEF InCall

LEMMA CleanNext ==
  ASSUME BurstInv, Faults = {}, Clean, Next
  PROVE  Clean'
  <1> DEFINE Small(r) == \/ log'[r] = log[r]
                         \/ log'[r] = <<>>
                         \/ \E c, id : log'[r] = Append(log[r], NewEntry(posted, c, FALSE, id))
                         \/ \E req : log'[r] = Without(log[r], req)
  <1>1. Shaped
    BY DEF BurstInv
  <1>2. ASSUME NEW r \in Rank, NEW c, NEW id, LogPut(r, c, id) PROVE \A q \in Rank : Small(q)
    <2>1. "range" \notin Faults
      OBVIOUS
    <2>2. log' = [log EXCEPT ![r] = Append(@, NewEntry(posted, c, FALSE, id))]
      BY <1>2, <2>1 DEF LogPut, NewEntry
    <2>3. log'[r] = Append(log[r], NewEntry(posted, c, FALSE, id))
      BY <1>1, <2>2 DEF Shaped
    <2>4. \A q \in Rank \ {r} : log'[q] = log[q]
      BY <1>1, <2>2 DEF Shaped
    <2> QED
      BY <2>3, <2>4
  <1>3. ASSUME NEW r \in Rank, NEW id, CancelPutReq(r, id) PROVE \A q \in Rank : Small(q)
    <2> DEFINE req == putlist[r].reqs[id]
    <2>1. log' = log \/ log' = [log EXCEPT ![r] = Without(log[r], req)]
      BY <1>3 DEF CancelPutReq, Cancelled, Without
    <2> HIDE DEF req
    <2>2. log'[r] = log[r] \/ log'[r] = Without(log[r], req)
      BY <1>1, <2>1 DEF Shaped
    <2>3. \A q \in Rank \ {r} : log'[q] = log[q]
      BY <1>1, <2>1 DEF Shaped
    <2> QED
      BY <2>2, <2>3
  <1>4. ASSUME NEW r \in Rank, Step(r) PROVE \A q \in Rank : Small(q)
    <2>1. \/ log' = log
          \/ log' = [log EXCEPT ![r] = <<>>]
          \/ log' = [q \in Rank |-> <<>>]
      BY <1>4 DEF Step, Reduce, Round, Reset, Handle, Driver
    <2>2. \A q \in Rank : log'[q] = log[q] \/ log'[q] = <<>>
      BY <1>1, <2>1 DEF Shaped
    <2> QED
      BY <2>2
  <1>5. ASSUME UNCHANGED log PROVE \A q \in Rank : Small(q)
    BY <1>5
  <1>6. \A q \in Rank : Small(q)
    <2> HIDE DEF Small
    <2>1. ASSUME NEW r \in Rank, NEW s, PutVar(r, s) \/ PutVarn(r, s) \/ IPutVarn(r, s)
          PROVE  \A q \in Rank : Small(q)
      BY <1>2, <2>1 DEF PutVar, PutVarn, IPutVarn
    <2>2. ASSUME NEW r \in Rank, NEW s, IPutVar(r, s)
          PROVE  \A q \in Rank : Small(q)
      BY <1>5, <2>1, <2>2 DEF IPutVar
    <2>3. ASSUME NEW op, NEW r, IndependentCall(r, op) \/ CollectiveCall(op)
          PROVE  \A q \in Rank : Small(q)
      BY <1>5, <2>3 DEF IndependentCall, CollectiveCall
    <2>4. CASE BeginIndepData \/ EndIndepData \/ EndDef \/ Open
      BY <1>5, <2>4 DEF BeginIndepData, EndIndepData, EndDef, Open, SwitchMode
    <2> QED
      BY <1>3, <1>4, <2>1, <2>2, <2>3, <2>4 DEF Next
  <1>7. ASSUME NEW q \in Rank, NEW i \in 1 .. Len(log'[q]) PROVE ~log'[q][i].bad
    <2> DEFINE g == log[q]
    <2>1. g \in Seq(Entry) /\ \A k \in 1 .. Len(g) : ~g[k].bad /\ g[k] \in Entry
      <3>1. g \in Seq(Entry)
        BY DEF BurstInv, AtRank, RankInv, RankTypes
      <3> QED
        BY <3>1 DEF Clean
    <2>2. CASE log'[q] = g
      BY <1>7, <2>1, <2>2
    <2>3. CASE log'[q] = <<>>
      BY <1>7, <2>3
    <2>4. ASSUME NEW c, NEW id, log'[q] = Append(g, NewEntry(posted, c, FALSE, id))
          PROVE  ~log'[q][i].bad
      <3> DEFINE e == NewEntry(posted, c, FALSE, id)
                 h == Append(g, e)
      <3>1. e.bad = FALSE
        BY DEF NewEntry
      <3> HIDE DEF e
      <3>2. Len(h) = Len(g) + 1 /\ h[Len(g) + 1] = e /\ \A k \in 1 .. Len(g) : h[k] = g[k]
            /\ Len(g) \in Nat
        <4> HIDE DEF h, g
        <4>1. g \in Seq(Entry \cup {e}) /\ e \in Entry \cup {e}
          <5>1. Entry \subseteq Entry \cup {e}
            OBVIOUS
          <5>2. Len(g) \in Nat /\ g \in [1 .. Len(g) -> Entry]
            BY <2>1
          <5>3. g \in [1 .. Len(g) -> Entry \cup {e}]
            BY <5>1, <5>2
          <5> QED
            BY <5>2, <5>3
        <4> DEFINE E == Entry \cup {e}
        <4> HIDE DEF E
        <4>2. g \in Seq(E) /\ e \in E
          BY <4>1 DEF E
        <4> QED
          BY <4>2 DEF h
      <3> HIDE DEF h
      <3>3. i \in 1 .. Len(g) \/ i = Len(g) + 1
        BY <1>7, <2>4, <3>2 DEF h, e
      <3> QED
        BY <2>1, <2>4, <3>1, <3>2, <3>3 DEF h, e
    <2>5. ASSUME NEW req, log'[q] = Without(g, req)
          PROVE  ~log'[q][i].bad
      <3> DEFINE h == Without(g, req)
                 n == Len(g)
      <3>1. h = [k \in 1 .. n |-> IF k \in req.first .. req.last
                                  THEN [g[k] EXCEPT !.valid = FALSE] ELSE g[k]]
        BY DEF Without
      <3>2. n \in Nat
        BY <2>1
      <3> HIDE DEF h
      <3>3. Len(h) = n
        <4> HIDE DEF n
        <4>1. DOMAIN h = 1 .. n
          BY <3>1
        <4> QED
          BY <3>2, <4>1
      <3>4. i \in 1 .. n
        BY <1>7, <2>5, <3>3 DEF h
      <3> HIDE DEF n, g
      <3>5. h[i] = g[i] \/ h[i] = [g[i] EXCEPT !.valid = FALSE]
        BY <3>1, <3>4
      <3>6. g[i] \in Entry /\ ~g[i].bad
        BY <2>1, <3>4 DEF n
      <3>7. ~h[i].bad
        BY <3>5, <3>6 DEF Entry
      <3> QED
        BY <2>5, <3>7 DEF h, g
    <2> QED
      BY <1>6, <2>2, <2>3, <2>4, <2>5
  <1> QED
    BY <1>7 DEF Clean

(* A call that goes on keeps its name, and what Modes says of it.          *)
LEMMA ModesKept ==
  ASSUME BurstInv', Modes, UNCHANGED <<mode, indep>>,
         \A q \in Rank : job'[q].steps # <<>> =>
            /\ job[q].steps # <<>> /\ job'[q].op = job[q].op
            /\ job[q].op \in {"sync", "redef"} /\ job[q].ok => job'[q].ok
  PROVE  Modes'
  <1>1. ASSUME NEW q \in Rank
        PROVE  /\ InCall(q)' => mode # "closed"
               /\ job'[q].op \in {"sync", "redef"} => job'[q].ok /\ mode # "def"
               /\ job'[q].op = "redef" => mode = "coll"
    <2>1. CASE job'[q].steps # <<>>
      BY <2>1 DEF Modes, InCall
    <2>2. CASE job'[q].steps = <<>>
      <3>1. AtRank(q)'
        BY DEF BurstInv
      <3>2. job'[q] = Idle
        BY <2>2, <3>1 DEF AtRank, RankInv, JobFor
      <3>3. Idle.op = "none"
        BY DEF Idle
      <3> QED
        BY <2>2, <3>2, <3>3 DEF InCall
    <2> QED
      BY <2>1, <2>2
  <1> QED
    BY <1>1 DEF Modes

LEMMA JobsKept ==
  ASSUME SameSteps, Modes, UNCHANGED <<mode, indep, job>>
  PROVE  SameSteps' /\ Modes'
  BY DEF SameSteps, Modes, InCall

LEMMA MatchedCalls ==
  ASSUME MatchInv, BurstInv', ~RedefIndep, ~MixedForms, NEW op \in Ops, CollectiveCall(op)
  PROVE  SameSteps' /\ Modes'
  <1>1. PICK w : /\ \A r \in Rank : w[r] \in Forms(op, r)
                 /\ \A q, r \in Rank : w[q].putAll = w[r].putAll
                 /\ job' = [r \in Rank |-> Call(r, op, w[r])]
    BY DEF CollectiveCall
  <1>2. UNCHANGED <<mode, indep>> /\ Legal(op) /\ BurstInv /\ \A r \in Rank : ~InCall(r)
    BY DEF CollectiveCall, MatchInv
  <1>3. ASSUME NEW r \in Rank
        PROVE  /\ Planned(job'[r].steps, op, w[r], log[r])
               /\ job'[r].ok = TRUE /\ job'[r].op \in {op, "none"}
    <2>1. job'[r] = Call(r, op, w[r]) /\ w[r] \in Forms(op, r)
      BY <1>1
    <2> QED
      BY <1>2, <2>1, RankCalls
  <1>4. ASSUME NEW q \in Rank, NEW r \in Rank
        PROVE  ComesToDriver(op, w[q]) <=> ComesToDriver(op, w[r])
    BY <1>1 DEF ComesToDriver
  <1>5. ASSUME NEW r \in Rank PROVE ~On(job'[r], "rounds")
    BY <1>3 DEF On, Planned
  <1>6. SameSteps'
    <2> SUFFICES ASSUME NEW q \in Rank, NEW r \in Rank
                 PROVE  /\ Has(job'[q].steps, "driver") <=> Has(job'[r].steps, "driver")
                        /\ ~indep =>
                             /\ Has(job'[q].steps, "reduce") <=> Has(job'[r].steps, "reduce")
                             /\ Has(job'[q].steps, "rounds") <=> Has(job'[r].steps, "rounds")
                             /\ ~On(job'[q], "rounds")
      BY <1>2 DEF SameSteps
    <2> QED
      BY <1>3, <1>4, <1>5 DEF Planned
  <1>7. Modes'
    <2>1. /\ mode \in {"coll", "indep", "def"}
          /\ op \in {"sync", "redef"} => mode # "def"
          /\ op = "redef" => mode = "coll"
      BY <1>2 DEF Legal
    <2>2. mode # "closed" => (indep <=> mode = "indep")
      BY DEF MatchInv, Modes
    <2> QED
      BY <1>2, <1>3, <2>1, <2>2 DEF Modes, InCall
  <1> QED
    BY <1>6, <1>7

(* A rank alone calls nothing collective. *)
LEMMA MatchedCall ==
  ASSUME MatchInv, BurstInv', NEW r \in Rank, NEW op \in Ops, IndependentCall(r, op)
  PROVE  SameSteps' /\ Modes'
  <1>1. PICK w \in Forms(op, r) : job' = [job EXCEPT ![r] = Call(r, op, w)]
    BY DEF IndependentCall
  <1>2. /\ UNCHANGED <<mode, indep>> /\ mode = "indep" /\ indep /\ ~InCall(r)
        /\ op \in {"get", "flush", "wait"} /\ BurstInv /\ Shaped
    BY DEF IndependentCall, MatchInv, Modes, BurstInv
  <1>3. /\ job'[r] = Call(r, op, w) /\ \A q \in Rank \ {r} : job'[q] = job[q]
    BY <1>1, <1>2 DEF Shaped
  <1>4. Planned(job'[r].steps, op, w, log[r]) /\ job'[r].op \in {op, "none"}
    BY <1>2, <1>3, RankCalls
  <1>5. ~Has(job'[r].steps, "driver")
    BY <1>2, <1>4 DEF Planned, ComesToDriver
  <1>6. \A q \in Rank : ~Has(job[q].steps, "driver")
    <2>1. ~Has(job[r].steps, "driver")
      BY <1>2, HeadFacts DEF InCall
    <2> QED
      BY <2>1 DEF MatchInv, SameSteps
  <1>7. \A q \in Rank : ~Has(job'[q].steps, "driver")
    BY <1>3, <1>5, <1>6
  <1>8. SameSteps'
    BY <1>2, <1>7 DEF SameSteps
  <1>9. Modes'
    <2>1. ASSUME NEW q \in Rank
          PROVE  job'[q].op \in {"sync", "redef"} => job'[q].ok /\ job'[q].op # "redef"
      <3>1. CASE q = r
        BY <1>2, <1>4, <3>1
      <3>2. CASE q # r
        BY <1>2, <1>3, <3>2 DEF MatchInv, Modes
      <3> QED
        BY <3>1, <3>2
    <2> QED
      BY <1>2, <2>1 DEF Modes, InCall
  <1> QED
    BY <1>8, <1>9

(* With every rank idle the steps are the same, whatever the mode.         *)
LEMMA AllIdle ==
  ASSUME \A q \in Rank : job'[q] = Idle,
         mode' # "closed" => (indep' <=> mode' = "indep")
  PROVE  SameSteps' /\ Modes'
  <1>1. Idle.steps = <<>> /\ Idle.op = "none"
    BY DEF Idle
  <1>2. \A q, r \in Rank : job'[q] = job'[r] /\ job'[q] = Idle
    OBVIOUS
  <1>3. \A q, r \in Rank : /\ Has(job'[q].steps, "driver") <=> Has(job'[r].steps, "driver")
                           /\ Has(job'[q].steps, "reduce") <=> Has(job'[r].steps, "reduce")
                           /\ Has(job'[q].steps, "rounds") <=> Has(job'[r].steps, "rounds")
                           /\ job'[q].left = job'[r].left
    BY <1>2
  <1>4. SameSteps'
    BY <1>3 DEF SameSteps
  <1>5. Modes'
    BY <1>1, <1>2 DEF Modes, InCall
  <1> QED
    BY <1>4, <1>5

LEMMA MatchedModes ==
  ASSUME MatchInv, BeginIndepData \/ EndIndepData \/ EndDef \/ Open
  PROVE  SameSteps' /\ Modes'
  <1>1. /\ UNCHANGED job /\ \A q \in Rank : ~InCall(q)
        /\ \/ mode' = "coll" /\ indep' = FALSE
           \/ mode' = "indep" /\ indep' = TRUE
           \/ mode = "def" /\ mode' = "coll" /\ indep' = indep
    BY DEF BeginIndepData, EndIndepData, EndDef, Open, SwitchMode
  <1>2. \A q \in Rank : job'[q] = Idle
    BY <1>1, NoJob DEF MatchInv
  <1>3. mode' # "closed" => (indep' <=> mode' = "indep")
    BY <1>1 DEF MatchInv, Modes
  <1> QED
    BY <1>2, <1>3, AllIdle

LEMMA MatchedDriver ==
  ASSUME MatchInv, NEW r \in Rank, Driver(r)
  PROVE  SameSteps' /\ Modes'
  <1>1. \A q \in Rank : On(job[q], "driver") /\ job'[q] = Idle
    BY Driven DEF MatchInv
  <1>2. mode' # "closed" => (indep' <=> mode' = "indep")
    <2>1. /\ indep' = indep
          /\ \/ job[r].op = "redef" /\ mode' = "def"
             \/ mode' = "closed"
             \/ mode' = mode
      BY DEF Driver
    <2>2. /\ mode # "closed" => (indep <=> mode = "indep")
          /\ job[r].op = "redef" => mode = "coll"
      BY DEF MatchInv, Modes
    <2> QED
      BY <2>1, <2>2
  <1> QED
    BY <1>1, <1>2, AllIdle

(* One step of rank q: what is left of its call.                           *)
LEMMA StepLeft ==
  ASSUME BurstInv, NEW q \in Rank, NEW x, On(job[q], x), job'[q].steps = Tail(job[q].steps)
  PROVE  /\ \A y : y # x => (Has(job'[q].steps, y) <=> Has(job[q].steps, y))
         /\ x = "reduce" => ~Has(job'[q].steps, "reduce") /\ Has(job'[q].steps, "rounds")
         /\ x = "rounds" => /\ ~Has(job'[q].steps, "reduce") /\ ~Has(job'[q].steps, "rounds")
                            /\ ~On(job'[q], "rounds")
         /\ x \in {"reset", "handle"} =>
               /\ ~Has(job[q].steps, "reduce") /\ ~Has(job[q].steps, "rounds")
               /\ ~Has(job'[q].steps, "reduce") /\ ~Has(job'[q].steps, "rounds")
               /\ ~On(job'[q], "rounds")
  <1> DEFINE s == job[q].steps
             t == Tail(s)
  <1>1. s # <<>> /\ Head(s) = x /\ Chained(s) /\ job'[q].steps = t
    BY HeadFacts DEF On
  <1>2. t # <<>> => Chained(t)
    <2>1. s \in Flushing \cup Closing
      BY NoJob DEF Jobs
    <2>2. t \in Flushing \cup Closing
      BY <1>1, <2>1 DEF Chained
    <2> HIDE DEF t
    <2> QED
      BY <2>2, Chain
  <1> HIDE DEF t, s
  <1>3. \A y : Has(s, y) <=> y = x \/ Has(t, y)
    BY <1>1 DEF Chained, t
  <1>4. x = "reduce" => ~Has(t, "reduce") /\ Has(t, "rounds")
    BY <1>1, <1>2 DEF Chained, t
  <1>5. x = "rounds" => /\ ~Has(t, "reduce") /\ ~Has(t, "rounds")
                        /\ Head(t) # "rounds"
    BY <1>1, <1>2 DEF Chained, t
  <1>6. x \in {"reset", "handle"} => ~Has(t, "reduce") /\ ~Has(t, "rounds")
    BY <1>1 DEF Chained, t
  <1>7. t # <<>> /\ Head(t) = "rounds" => Has(t, "rounds")
    BY <1>2 DEF Chained
  <1> QED
    BY <1>1, <1>3, <1>4, <1>5, <1>6, <1>7 DEF On, s

LEMMA MatchedReduce ==
  ASSUME MatchInv, NEW r \in Rank, Reduce(r)
  PROVE  SameSteps' /\ Modes'
  <1>1. /\ BurstInv /\ BurstInv' /\ UNCHANGED <<mode, indep>>
        /\ \A q \in Partners(r) : On(job[q], "reduce") /\ Stepped(q)
        /\ \A q \in Rank \ Partners(r) : job'[q] = job[q]
    BY Reduced DEF MatchInv, Reduce
  <1>2. PICK left : \A q \in Partners(r) : job'[q].left = left
    BY <1>1, Reduced
  <1>3. ASSUME NEW q \in Rank, q \in Partners(r)
        PROVE  /\ Has(job'[q].steps, "driver") <=> Has(job[q].steps, "driver")
               /\ ~Has(job'[q].steps, "reduce") /\ Has(job'[q].steps, "rounds")
    <2>1. On(job[q], "reduce") /\ job'[q].steps = Tail(job[q].steps)
      BY <1>1, <1>3 DEF Stepped
    <2> QED
      BY <1>1, <2>1, StepLeft
  <1>4. \A q \in Rank : Has(job'[q].steps, "driver") <=> Has(job[q].steps, "driver")
    BY <1>1, <1>3
  <1>5. SameSteps'
    <2>1. ASSUME NEW q \in Rank, NEW p \in Rank
          PROVE  Has(job'[q].steps, "driver") <=> Has(job'[p].steps, "driver")
      BY <1>4 DEF MatchInv, SameSteps
    <2>2. ASSUME ~indep, NEW q \in Rank
          PROVE  /\ ~Has(job'[q].steps, "reduce") /\ Has(job'[q].steps, "rounds")
                 /\ job'[q].left = left
      <3>1. q \in Partners(r)
        BY <2>2 DEF Partners
      <3> QED
        BY <1>2, <1>3, <3>1
    <2> QED
      BY <1>1, <2>1, <2>2 DEF SameSteps
  <1>6. Modes'
    <2>1. ASSUME NEW q \in Rank, job'[q].steps # <<>>
          PROVE  /\ job[q].steps # <<>> /\ job'[q].op = job[q].op
                 /\ job'[q].ok = job[q].ok
      BY <1>1, <2>1 DEF On, Stepped
    <2>2. Modes
      BY DEF MatchInv
    <2> QED
      BY <1>1, <2>1, <2>2, ModesKept
  <1> QED
    BY <1>5, <1>6

(* Reset and handle are steps of one rank, after its last round.           *)
LEMMA MatchedAlone ==
  ASSUME MatchInv, BurstInv', UNCHANGED <<mode, indep>>, NEW r \in Rank,
         On(job[r], "reset") \/ On(job[r], "handle"), Stepped(r),
         \A q \in Rank \ {r} : job'[q] = job[q]
  PROVE  SameSteps' /\ Modes'
  <1>1. /\ Has(job'[r].steps, "driver") <=> Has(job[r].steps, "driver")
        /\ ~Has(job[r].steps, "reduce") /\ ~Has(job[r].steps, "rounds")
        /\ ~Has(job'[r].steps, "reduce") /\ ~Has(job'[r].steps, "rounds")
    <2>1. BurstInv /\ job'[r].steps = Tail(job[r].steps)
      BY DEF Stepped, MatchInv
    <2>2. CASE On(job[r], "reset")
      BY <2>1, <2>2, StepLeft
    <2>3. CASE On(job[r], "handle")
      BY <2>1, <2>3, StepLeft
    <2> QED
      BY <2>2, <2>3
  <1>2. SameSteps
    BY DEF MatchInv
  <1>3. ASSUME NEW q \in Rank
        PROVE  /\ Has(job'[q].steps, "driver") <=> Has(job[q].steps, "driver")
               /\ Has(job'[q].steps, "reduce") <=> Has(job[q].steps, "reduce")
               /\ Has(job'[q].steps, "rounds") <=> Has(job[q].steps, "rounds")
    <2>1. CASE q = r
      BY <1>1, <2>1
    <2>2. CASE q # r
      BY <2>2
    <2> QED
      BY <2>1, <2>2
  <1>4. ASSUME ~indep, NEW q \in Rank PROVE ~On(job'[q], "rounds")
    <2>1. ~Has(job'[q].steps, "rounds")
      BY <1>1, <1>2, <1>3, <1>4 DEF SameSteps
    <2>2. (\A x : On(job[q], x) => Has(job[q].steps, x))'
      BY HeadFacts, PTL
    <2> QED
      BY <2>1, <2>2
  <1>5. SameSteps'
    BY <1>2, <1>3, <1>4 DEF SameSteps
  <1>6. Modes'
    <2>1. ASSUME NEW q \in Rank, job'[q].steps # <<>>
          PROVE  /\ job[q].steps # <<>> /\ job'[q].op = job[q].op
                 /\ job'[q].ok = job[q].ok
      BY <2>1 DEF On, Stepped
    <2>2. Modes
      BY DEF MatchInv
    <2> QED
      BY <2>1, <2>2, ModesKept
  <1> QED
    BY <1>5, <1>6

(* Nothing is wrong with a round of a call that the driver comes after.    *)
LEMMA GoodRound ==
  ASSUME MatchInv, NEW q \in Rank, On(job[q], "rounds"),
         job[q].op \in {"sync", "redef"}
  PROVE  Good(q)
  <1>1. /\ mode # "def" /\ mode # "closed" /\ (indep <=> mode = "indep")
    BY DEF MatchInv, Modes, InCall, On
  <1>2. ~Refused
    BY <1>1 DEF Refused
  <1>3. Valid(q) \subseteq 1 .. Len(log[q])
    <2> DEFINE b == Buffer(data[q], biggest[q])
    <2>1. /\ RankTypes(putlist[q], log[q], data[q], biggest[q], job[q])
          /\ Logged(log[q], biggest[q], posted)
      BY DEF MatchInv, BurstInv, AtRank, RankInv
    <2>2. log[q] \in Seq(Entry) /\ b \in Nat /\ Fits(log[q], b) /\ job[q] \in Jobs
          /\ job[q].next \in Nat \ {0}
      BY <2>1, BufferFits DEF RankTypes, Jobs
    <2>3. Batch(q) = BatchOf(log[q], b, job[q].next)
      BY <2>2, Batches, BufferSizes
    <2> HIDE DEF b
    <2>4. BatchOf(log[q], b, job[q].next) \subseteq 1 .. Len(log[q])
      BY <2>2, BatchTaken
    <2> QED
      BY <2>3, <2>4 DEF Valid
  <1> QED
    BY <1>2, <1>3 DEF Good, MatchInv, Clean

LEMMA MatchedRound ==
  ASSUME MatchInv, "read" \notin Faults, NEW r \in Rank, Round(r)
  PROVE  SameSteps' /\ Modes'
  <1> DEFINE R == Partners(r)
  <1>1. /\ BurstInv /\ BurstInv' /\ UNCHANGED <<mode, indep>>
        /\ \A q \in R : On(job[q], "rounds") /\ job'[q] = AfterRound(q)
        /\ \A q \in Rank \ R : job'[q] = job[q]
        /\ R \subseteq Rank
    BY Rounded, Mine DEF MatchInv, Round
  <1> HIDE DEF R
  <1>2. ASSUME NEW q \in R
        PROVE  /\ job'[q].steps \in {job[q].steps, Tail(job[q].steps)}
               /\ job'[q].steps = Tail(job[q].steps) => job[q].left - 1 = 0
               /\ job[q].left - 1 = 0 => job'[q].steps = Tail(job[q].steps)
               /\ job'[q].steps = job[q].steps => job'[q].left = job[q].left - 1
               /\ job'[q].op = job[q].op
               /\ job'[q].ok = (job[q].ok /\ Good(q))
    <2>1. q \in Rank /\ On(job[q], "rounds") /\ job'[q] = AfterRound(q)
      BY <1>1
    <2> QED
      BY <1>1, <2>1, RankRound
  <1>3. ASSUME NEW q \in R, job'[q].steps = Tail(job[q].steps)
        PROVE  /\ Has(job'[q].steps, "driver") <=> Has(job[q].steps, "driver")
               /\ ~Has(job'[q].steps, "reduce") /\ ~Has(job'[q].steps, "rounds")
               /\ ~On(job'[q], "rounds")
    <2>1. q \in Rank /\ On(job[q], "rounds")
      BY <1>1
    <2> QED
      BY <1>1, <1>3, <2>1, StepLeft
  <1>4. ASSUME NEW q \in Rank
        PROVE  Has(job'[q].steps, "driver") <=> Has(job[q].steps, "driver")
    <2>1. CASE q \in R
      <3>1. CASE job'[q].steps = job[q].steps
        BY <3>1
      <3>2. CASE job'[q].steps = Tail(job[q].steps)
        BY <1>3, <2>1, <3>2
      <3> QED
        BY <1>2, <2>1, <3>1, <3>2
    <2>2. CASE q \notin R
      BY <1>1, <2>2
    <2> QED
      BY <2>1, <2>2
  <1>5. SameSteps
    BY DEF MatchInv
  <1>6. SameSteps'
    <2>1. ASSUME NEW q \in Rank, NEW p \in Rank
          PROVE  Has(job'[q].steps, "driver") <=> Has(job'[p].steps, "driver")
      BY <1>4, <1>5 DEF SameSteps
    <2>2. ASSUME ~indep, NEW q \in Rank, NEW p \in Rank
          PROVE  /\ Has(job'[q].steps, "reduce") <=> Has(job'[p].steps, "reduce")
                 /\ Has(job'[q].steps, "rounds") <=> Has(job'[p].steps, "rounds")
                 /\ On(job'[q], "rounds") /\ On(job'[p], "rounds") =>
                       job'[q].left = job'[p].left
      <3>1. q \in R /\ p \in R
        BY <2>2 DEF Partners, R
      <3>2. On(job[q], "rounds") /\ On(job[p], "rounds")
        BY <1>1, <3>1
      <3>3. /\ job[q].left = job[p].left
            /\ Has(job[q].steps, "reduce") <=> Has(job[p].steps, "reduce")
            /\ Has(job[q].steps, "rounds") <=> Has(job[p].steps, "rounds")
        BY <1>5, <2>2, <3>2 DEF SameSteps
      <3>4. CASE job[q].left - 1 = 0
        <4>1. job'[q].steps = Tail(job[q].steps) /\ job'[p].steps = Tail(job[p].steps)
          BY <1>2, <3>1, <3>3, <3>4
        <4> QED
          BY <1>3, <3>1, <4>1
      <3>5. CASE job[q].left - 1 # 0
        <4>1. job'[q].steps = job[q].steps /\ job'[p].steps = job[p].steps
          BY <1>2, <3>1, <3>3, <3>5
        <4>2. job'[q].left = job[q].left - 1 /\ job'[p].left = job[p].left - 1
          BY <1>2, <3>1, <4>1
        <4> QED
          BY <3>3, <4>1, <4>2
      <3> QED
        BY <3>4, <3>5
    <2> QED
      BY <1>1, <2>1, <2>2 DEF SameSteps
  <1>7. Modes'
    <2>1. ASSUME NEW q \in Rank, job'[q].steps # <<>>
          PROVE  /\ job[q].steps # <<>> /\ job'[q].op = job[q].op
                 /\ job[q].op \in {"sync", "redef"} /\ job[q].ok => job'[q].ok
      <3>1. CASE q \in R
        <4>1. job[q].steps # <<>> /\ job'[q].op = job[q].op
          BY <1>1, <1>2, <3>1 DEF On
        <4>2. ASSUME job[q].op \in {"sync", "redef"}, job[q].ok PROVE job'[q].ok
          <5>1. Good(q)
            BY <1>1, <3>1, <4>2, GoodRound
          <5> QED
            BY <1>2, <3>1, <4>2, <5>1
        <4> QED
          BY <4>1, <4>2
      <3>2. CASE q \notin R
        BY <1>1, <2>1, <3>2
      <3> QED
        BY <3>1, <3>2
    <2>2. Modes
      BY DEF MatchInv
    <2> QED
      BY <1>1, <2>1, <2>2, ModesKept
  <1> QED
    BY <1>6, <1>7

LEMMA MatchNext ==
  ASSUME MatchInv, Faults = {}, ~RedefIndep, ~MixedForms, Next
  PROVE  MatchInv'
  <1>1. BurstInv /\ "read" \notin Faults /\ SameSteps /\ Modes /\ Clean
    BY DEF MatchInv
  <1>2. BurstInv' /\ Clean'
    BY <1>1, BurstNext, CleanNext
  <1>3. ASSUME UNCHANGED <<mode, indep, job>> PROVE SameSteps' /\ Modes'
    BY <1>1, <1>3, JobsKept
  <1>4. ASSUME NEW r \in Rank, NEW s, PutVar(r, s) \/ PutVarn(r, s) \/ IPutVarn(r, s)
        PROVE  SameSteps' /\ Modes'
    BY <1>3, <1>4 DEF PutVar, PutVarn, IPutVarn
  <1>5. ASSUME NEW r \in Rank, NEW s, IPutVar(r, s)
        PROVE  SameSteps' /\ Modes'
    BY <1>3, <1>4, <1>5 DEF IPutVar
  <1>6. ASSUME NEW r \in Rank, NEW id, CancelPutReq(r, id)
        PROVE  SameSteps' /\ Modes'
    BY <1>3, <1>6 DEF CancelPutReq
  <1>7. ASSUME NEW r \in Rank, NEW op \in Ops, IndependentCall(r, op)
        PROVE  SameSteps' /\ Modes'
    BY <1>2, <1>7, MatchedCall
  <1>8. ASSUME NEW op \in Ops, CollectiveCall(op)
        PROVE  SameSteps' /\ Modes'
    BY <1>2, <1>8, MatchedCalls
  <1>9. ASSUME NEW r \in Rank, Step(r)
        PROVE  SameSteps' /\ Modes'
    <2>1. CASE Reduce(r)
      BY <2>1, MatchedReduce
    <2>2. CASE Round(r)
      BY <1>1, <2>2, MatchedRound
    <2>3. CASE Reset(r)
      <3>1. /\ On(job[r], "reset")
            /\ \A q \in Rank \ {r} : job'[q] = job[q]
            /\ \/ Stepped(r)
               \/ ~job[r].ok /\ job[r].op \in {"sync", "redef"}
        BY <1>1, <2>3, WasReset
      <3>2. Stepped(r)
        BY <1>1, <3>1 DEF Modes
      <3>3. UNCHANGED <<mode, indep>>
        BY <2>3 DEF Reset
      <3> QED
        BY <1>2, <3>1, <3>2, <3>3, MatchedAlone
    <2>4. CASE Handle(r)
      <3>1. /\ On(job[r], "handle") /\ Stepped(r)
            /\ \A q \in Rank \ {r} : job'[q] = job[q]
        BY <1>1, <2>4, Handled
      <3>2. UNCHANGED <<mode, indep>>
        BY <2>4 DEF Handle
      <3> QED
        BY <1>2, <3>1, <3>2, MatchedAlone
    <2>5. CASE Driver(r)
      BY <2>5, MatchedDriver
    <2> QED
      BY <1>9, <2>1, <2>2, <2>3, <2>4, <2>5 DEF Step
  <1>10. ASSUME BeginIndepData \/ EndIndepData \/ EndDef \/ Open
         PROVE  SameSteps' /\ Modes'
    BY <1>10, MatchedModes
  <1>11. SameSteps' /\ Modes'
    BY <1>4, <1>5, <1>6, <1>7, <1>8, <1>9, <1>10 DEF Next
  <1> QED
    BY <1>2, <1>11 DEF MatchInv

LEMMA MatchInit == Init => MatchInv
  <1> SUFFICES ASSUME Init PROVE MatchInv
    OBVIOUS
  <1>1. \A r \in Rank : job[r] = Idle /\ log[r] = <<>>
    BY DEF Init
  <1>2. Idle.steps = <<>> /\ Idle.op = "none"
    BY DEF Idle
  <1>3. mode = "coll" /\ ~indep
    BY DEF Init
  <1>4. \A q, r \in Rank : /\ Has(job[q].steps, "driver") <=> Has(job[r].steps, "driver")
                           /\ Has(job[q].steps, "reduce") <=> Has(job[r].steps, "reduce")
                           /\ Has(job[q].steps, "rounds") <=> Has(job[r].steps, "rounds")
                           /\ job[q].left = job[r].left
    BY <1>1
  <1>5. SameSteps
    BY <1>4 DEF SameSteps
  <1>6. Modes
    BY <1>1, <1>2, <1>3 DEF Modes, InCall
  <1>7. Clean
    BY <1>1 DEF Clean
  <1> QED
    BY <1>5, <1>6, <1>7, BurstInit DEF MatchInv

LEMMA MatchStutter ==
  ASSUME MatchInv, UNCHANGED vars
  PROVE  MatchInv'
  <1>1. BurstInv' /\ UNCHANGED <<mode, indep, job, log>>
    BY BurstStutter DEF MatchInv, vars
  <1>2. SameSteps' /\ Modes'
    BY <1>1, JobsKept DEF MatchInv
  <1>3. Clean'
    BY <1>1 DEF MatchInv, Clean
  <1> QED
    BY <1>1, <1>2, <1>3 DEF MatchInv

(***************************************************************************)
(* The collective operations of the ranks match: in the reduction before a *)
(* replay, in each of its rounds and in the driver's part, whatever each   *)
(* rank has logged.  It takes a data log that is read without error,       *)
(* values in range, a redef in collective mode only and waits of one form; *)
(* without any one of these TLC finds a mismatch.                          *)
(***************************************************************************)
THEOREM OperationsMatch ==
  ASSUME Faults = {}, ~RedefIndep, ~MixedForms
  PROVE  Spec => []CollectivesMatch
  <1>1. MatchInv /\ [Next]_vars => MatchInv'
    BY MatchNext, MatchStutter
  <1> QED
    BY MatchInit, <1>1, MatchFollows, PTL DEF Spec
-----------------------------------------------------------------------------
(***************************************************************************)
(* The promise of the log.  Begins(g)[i - 1] is where the data of entry i  *)
(* of log g begin in the data log: a cancelled entry keeps its place.      *)
(***************************************************************************)
Begins(g) == Sums(g, Passed)

LEMMA BeginsLoop ==
  ASSUME NEW g \in Seq(Entry)
  PROVE  /\ Begins(g) \in [0 .. Len(g) -> Nat]
         /\ Begins(g)[0] = 0
         /\ \A i \in 1 .. Len(g) : Begins(g)[i] = Begins(g)[i - 1] + Size(g[i])
  <1> DEFINE n == Len(g)
             G == [i \in 1 .. n |-> [s \in Nat |-> s + Size(g[i])]]
             Loop(t) == [i \in 0 .. n |-> IF i = 0 THEN 0 ELSE t[i - 1] + Size(g[i])]
             T == CHOOSE t : t = Loop(t)
  <1>1. n \in Nat /\ \A i \in 1 .. n : Size(g[i]) \in Nat
    BY Entries
  <1>2. Begins(g) = T
    BY DEF Begins, Sums, Passed
  <1> HIDE DEF n
  <1>3. G \in [1 .. n -> [Nat -> Nat]]
    BY <1>1
  <1>4. \E t \in [0 .. n -> Nat] : t = Loop(t)
    <2> HIDE DEF G
    <2>1. PICK t \in [0 .. n -> Nat] : /\ t[0] = 0
                                       /\ \A i \in 1 .. n : t[i] = G[i][t[i - 1]]
      <3> DEFINE S == Nat
                 a == 0
      <3>1. n \in Nat /\ a \in S /\ G \in [1 .. n -> [S -> S]]
        BY <1>1, <1>3
      <3> HIDE BoundAssumption, ChoiceAssumption DEF Loop, T, S, a
      <3>2. \E t \in [0 .. n -> S] : t[0] = a /\ \A i \in 1 .. n : t[i] = G[i][t[i - 1]]
        BY <3>1, Iterate
      <3> QED
        BY <3>2 DEF S, a
    <2>2. ASSUME NEW i \in 0 .. n, i # 0
          PROVE  G[i][t[i - 1]] = t[i - 1] + Size(g[i])
      <3>1. i \in 1 .. n /\ t[i - 1] \in Nat
        BY <1>1, <2>2
      <3> QED
        BY <3>1 DEF G
    <2>3. \A i \in 0 .. n : t[i] = IF i = 0 THEN 0 ELSE t[i - 1] + Size(g[i])
      <3>1. \A i \in 0 .. n : i = 0 \/ i \in 1 .. n
        BY <1>1
      <3> QED
        BY <2>1, <2>2, <3>1
    <2>4. t = Loop(t)
      BY <2>3
    <2> QED
      BY <2>4
  <1>5. T = Loop(T)
    <2> HIDE DEF Loop
    <2> QED
      BY <1>4, Zenon
  <1>6. T[0] = 0 /\ \A i \in 1 .. n : T[i] = T[i - 1] + Size(g[i])
    <2> HIDE DEF T
    <2>1. \A i \in 0 .. n : T[i] = IF i = 0 THEN 0 ELSE T[i - 1] + Size(g[i])
      BY <1>5, Zenon
    <2>2. 0 \in 0 .. n /\ \A i \in 1 .. n : i \in 0 .. n /\ i # 0
      BY <1>1
    <2> QED
      BY <2>1, <2>2
  <1>7. T \in [0 .. n -> Nat]
    <2> HIDE DEF T
    <2> DEFINE P == {i \in 0 .. n : T[i] \in Nat}
    <2>1. 0 \in P
      BY <1>1, <1>6
    <2>2. \A i \in 1 .. n : i - 1 \in P => i \in P
      BY <1>1, <1>6
    <2>3. \A i \in 0 .. n : i \in P
      <3> HIDE DEF P
      <3> QED
        BY <1>1, <2>1, <2>2, LoopInduction
    <2>4. T = [i \in 0 .. n |-> T[i]]
      BY <1>5
    <2> QED
      BY <2>3, <2>4
  <1> QED
    BY <1>2, <1>6, <1>7 DEF n

(* Logs whose first n entries have the same sizes have them at the same    *)
(* places.                                                                 *)
LEMMA SameBegins ==
  ASSUME NEW g \in Seq(Entry), NEW h \in Seq(Entry), NEW n \in Nat,
         n <= Len(g), n <= Len(h), \A i \in 1 .. n : Size(g[i]) = Size(h[i])
  PROVE  \A i \in 0 .. n : Begins(h)[i] = Begins(g)[i]
  <1> DEFINE a == Begins(g)
             b == Begins(h)
             P == {i \in 0 .. n : b[i] = a[i]}
  <1>1. /\ Len(g) \in Nat /\ Len(h) \in Nat /\ a[0] = 0 /\ b[0] = 0
        /\ \A i \in 1 .. Len(g) : a[i] = a[i - 1] + Size(g[i])
        /\ \A i \in 1 .. Len(h) : b[i] = b[i - 1] + Size(h[i])
    BY BeginsLoop
  <1> HIDE DEF a, b
  <1>2. 0 \in P
    BY <1>1
  <1>3. ASSUME NEW i \in 1 .. n, i - 1 \in P PROVE i \in P
    <2>1. i \in 1 .. Len(g) /\ i \in 1 .. Len(h) /\ i \in 0 .. n
      BY <1>1
    <2>2. b[i - 1] = a[i - 1]
      BY <1>3
    <2>3. a[i] = a[i - 1] + Size(g[i]) /\ b[i] = b[i - 1] + Size(h[i])
      BY <1>1, <2>1
    <2> QED
      BY <2>1, <2>2, <2>3
  <1>4. \A i \in 0 .. n : i \in P
    <2> HIDE DEF P
    <2> QED
      BY <1>2, <1>3, LoopInduction
  <1> QED
    BY <1>4 DEF a, b

(***************************************************************************)
(* Of a rank, when p puts have been made: the data log is as long as the   *)
(* log says and holds at the place of each entry the number of its put;    *)
(* the puts stand in the order they were made.                             *)
(***************************************************************************)
Placed(g, d, p) ==
    /\ Len(d) = Begins(g)[Len(g)]
    /\ \A i \in 1 .. Len(g) :
          /\ g[i].put \in 1 .. p
          /\ \A k \in 1 .. Size(g[i]) :
                /\ Begins(g)[i - 1] + k \in 1 .. Len(d)
                /\ d[Begins(g)[i - 1] + k] = g[i].put
    /\ \A i, j \in 1 .. Len(g) : i < j => g[i].put < g[j].put

LEMMA PlacedNone ==
  ASSUME NEW p
  PROVE  Placed(<<>>, <<>>, p)
  <1> DEFINE e == <<>>
  <1>1. e \in Seq(Entry) /\ Len(e) = 0
    OBVIOUS
  <1> HIDE DEF e
  <1>2. Begins(e)[0] = 0
    BY <1>1, BeginsLoop
  <1>3. Placed(e, e, p)
    BY <1>1, <1>2 DEF Placed
  <1> QED
    BY <1>3 DEF e

(* A later number of puts, and entries that are cancelled.                 *)
LEMMA PlacedLater ==
  ASSUME NEW g, NEW d, NEW p \in Nat, NEW q \in Nat, p <= q, Placed(g, d, p)
  PROVE  Placed(g, d, q)
  <1>1. \A i \in 1 .. Len(g) : g[i].put \in 1 .. q
    BY DEF Placed
  <1> QED
    BY <1>1 DEF Placed

LEMMA PlacedSame ==
  ASSUME NEW g \in Seq(Entry), NEW h \in Seq(Entry), NEW d, NEW p, Len(h) = Len(g),
         \A i \in 1 .. Len(g) : h[i].put = g[i].put /\ h[i].cells = g[i].cells,
         Placed(g, d, p)
  PROVE  Placed(h, d, p)
  <1> DEFINE n == Len(g)
  <1>1. n \in Nat /\ \A i \in 1 .. n : Size(h[i]) = Size(g[i])
    BY DEF Size
  <1>2. \A i \in 0 .. n : Begins(h)[i] = Begins(g)[i]
    BY <1>1, SameBegins
  <1>3. n \in 0 .. n /\ \A i \in 1 .. n : i - 1 \in 0 .. n
    BY <1>1
  <1> HIDE DEF n
  <1>4. Len(d) = Begins(h)[n] /\ \A i, j \in 1 .. n : i < j => h[i].put < h[j].put
    BY <1>2, <1>3 DEF Placed, n
  <1>5. ASSUME NEW i \in 1 .. n
        PROVE  /\ h[i].put \in 1 .. p
               /\ \A k \in 1 .. Size(h[i]) :
                     /\ Begins(h)[i - 1] + k \in 1 .. Len(d)
                     /\ d[Begins(h)[i - 1] + k] = h[i].put
    <2>1. Begins(h)[i - 1] = Begins(g)[i - 1] /\ Size(h[i]) = Size(g[i])
      BY <1>1, <1>2, <1>3
    <2> QED
      BY <2>1 DEF Placed, n
  <1> QED
    BY <1>4, <1>5 DEF Placed, n

(* The entry and the data of a new put go to the ends of the two logs.     *)
LEMMA PlacedMore ==
  ASSUME NEW g \in Seq(Entry), NEW d \in Seq(1 .. MaxPuts), NEW m \in Nat,
         NEW p \in Nat, p < MaxPuts, Logged(g, m, p), Placed(g, d, p),
         NEW c \in Shapes \cup VarnShapes, NEW bad \in BOOLEAN, NEW id \in Int
  PROVE  Placed(Append(g, NewEntry(p, c, bad, id)), MoreData(d, c, p), p + 1)
  <1> DEFINE e == NewEntry(p, c, bad, id)
             h == Append(g, e)
             f == MoreData(d, c, p)
             n == Len(g)
             N == Len(d)
             s == Len(c)
             A == Begins(g)
             B == Begins(h)
  <1>1. /\ h \in Seq(Entry) /\ Len(h) = n + 1 /\ h[n + 1] = e /\ n \in Nat
        /\ \A i \in 1 .. n : h[i] = g[i]
    BY EntryAppended
  <1>2. e.put = p + 1 /\ Size(e) = s
    BY DEF NewEntry, Size
  <1>3. c \in Seq(1 .. Cells) /\ s \in Nat /\ N \in Nat /\ DOMAIN c = 1 .. s
    BY BoundAssumption
  <1>4. /\ Len(f) = N + s
        /\ \A x \in 1 .. N : f[x] = d[x]
        /\ \A k \in 1 .. s : N + k \in 1 .. Len(f) /\ f[N + k] = p + 1
    <2> DEFINE x == [k \in DOMAIN c |-> p + 1]
    <2>1. p + 1 \in 1 .. MaxPuts
      BY BoundAssumption
    <2>2. x \in [1 .. s -> 1 .. MaxPuts]
      BY <1>3, <2>1
    <2>3. x \in Seq(1 .. MaxPuts) /\ Len(x) = s /\ \A k \in 1 .. s : x[k] = p + 1
      BY <1>3, <2>2
    <2> HIDE DEF x
    <2>4. /\ Len(d \o x) = Len(d) + Len(x)
          /\ \A i \in 1 .. Len(d) + Len(x) :
                (d \o x)[i] = IF i <= Len(d) THEN d[i] ELSE x[i - Len(d)]
      BY <2>3, ConcatProperties, ZenonT(60)
    <2>5. f = d \o x
      BY DEF MoreData, x
    <2> HIDE DEF f, N, s
    <2>6. Len(f) = N + s /\ \A i \in 1 .. N + s : f[i] = IF i <= N THEN d[i] ELSE x[i - N]
      BY <2>3, <2>4, <2>5 DEF N
    <2>7. ASSUME NEW k \in 1 .. s PROVE N + k \in 1 .. N + s /\ ~(N + k <= N) /\ (N + k) - N = k
      BY <1>3
    <2>8. \A i \in 1 .. N : i \in 1 .. N + s /\ i <= N
      BY <1>3
    <2> QED
      BY <2>3, <2>6, <2>7, <2>8
  <1> HIDE DEF h, f, n, N, s, e
  <1>5. \A i \in 0 .. n : B[i] = A[i]
    <2>1. n <= Len(g) /\ n <= Len(h)
      BY <1>1 DEF n
    <2>2. \A i \in 1 .. n : Size(g[i]) = Size(h[i])
      BY <1>1
    <2> QED
      BY <1>1, <2>1, <2>2, SameBegins
  <1>6. B[n + 1] = B[n] + s /\ A[n] = N /\ B[n] = N
    <2>1. n + 1 \in 1 .. Len(h) /\ (n + 1) - 1 = n /\ n \in 0 .. n
      BY <1>1
    <2>2. B[n + 1] = B[(n + 1) - 1] + Size(h[n + 1])
      BY <1>1, <2>1, BeginsLoop
    <2>3. A[n] = N
      BY DEF Placed, n, N
    <2> HIDE DEF A, B
    <2> QED
      BY <1>1, <1>2, <1>5, <2>1, <2>2, <2>3
  <1> HIDE DEF A, B
  <1>7. \A i \in 1 .. n + 1 : i \in 1 .. n \/ i = n + 1
    BY <1>1
  <1>8. ASSUME NEW i \in 1 .. n
        PROVE  /\ h[i].put \in 1 .. p
               /\ \A k \in 1 .. Size(h[i]) :
                     B[i - 1] + k \in 1 .. Len(f) /\ f[B[i - 1] + k] = h[i].put
    <2>1. h[i] = g[i] /\ i - 1 \in 0 .. n /\ B[i - 1] = A[i - 1]
      BY <1>1, <1>5
    <2>2. /\ g[i].put \in 1 .. p
          /\ \A k \in 1 .. Size(g[i]) :
                A[i - 1] + k \in 1 .. N /\ d[A[i - 1] + k] = g[i].put
      BY DEF Placed, A, n, N
    <2>3. \A x \in 1 .. N : x \in 1 .. Len(f) /\ f[x] = d[x]
      BY <1>3, <1>4
    <2> QED
      BY <2>1, <2>2, <2>3
  <1>9. /\ h[n + 1].put = p + 1
        /\ \A k \in 1 .. Size(h[n + 1]) :
              B[(n + 1) - 1] + k \in 1 .. Len(f) /\ f[B[(n + 1) - 1] + k] = h[n + 1].put
    <2>1. (n + 1) - 1 = n
      BY <1>1
    <2> QED
      BY <1>1, <1>2, <1>4, <1>6, <2>1
  <1>10. ASSUME NEW i \in 1 .. n + 1
         PROVE  /\ h[i].put \in 1 .. p + 1
                /\ \A k \in 1 .. Size(h[i]) :
                      B[i - 1] + k \in 1 .. Len(f) /\ f[B[i - 1] + k] = h[i].put
    <2>1. \A x \in 1 .. p : x \in 1 .. p + 1
      OBVIOUS
    <2>2. p + 1 \in 1 .. p + 1
      OBVIOUS
    <2>3. CASE i \in 1 .. n
      BY <1>8, <2>1, <2>3
    <2>4. CASE i = n + 1
      BY <1>9, <2>2, <2>4
    <2> QED
      BY <1>7, <2>3, <2>4
  <1>11. ASSUME NEW i \in 1 .. n + 1, NEW j \in 1 .. n + 1, i < j
         PROVE  h[i].put < h[j].put
    <2>1. i \in 1 .. n
      BY <1>1, <1>11
    <2>2. CASE j \in 1 .. n
      BY <1>1, <1>11, <2>1, <2>2 DEF Placed, n
    <2>3. CASE j = n + 1
      <3>1. h[i].put \in 1 .. p
        BY <1>8, <2>1
      <3> QED
        BY <1>9, <2>3, <3>1
    <2> QED
      BY <1>7, <2>2, <2>3
  <1>12. Len(f) = B[n + 1]
    BY <1>4, <1>6
  <1>13. Placed(h, f, p + 1)
    BY <1>1, <1>10, <1>11, <1>12 DEF Placed, B
  <1> QED
    BY <1>13 DEF h, f, e


(***************************************************************************)
(* What a round does to the place of a rank in its log: the batch is what  *)
(* lies between the old place and the new one, and the last one ends the   *)
(* log.                                                                    *)
(***************************************************************************)
LEMMA BatchSpan ==
  ASSUME NEW g \in Seq(Entry), NEW b \in Nat, Fits(g, b), NEW k \in Nat \ {0}
  PROVE  LET B == BatchOf(g, b, k)
             n == k + Cardinality(B)
         IN  \A i \in B : i \in Nat /\ k <= i /\ i < n
  <1> DEFINE N == Len(g)
             B == BatchOf(g, b, k)
             u == LastOf(g, b, k)
             n == k + Cardinality(B)
  <1>1. CASE k > N
    BY <1>1 DEF BatchOf
  <1>2. CASE ~(k > N)
    <2>1. k \in 1 .. N /\ B = k .. u /\ N \in Nat
      BY <1>2 DEF BatchOf
    <2>2. u \in k .. N
      BY <2>1, LastFacts
    <2> HIDE DEF B, u, N
    <2>3. Cardinality(B) = u - k + 1
      <3>1. u \in Int /\ k \in Int /\ ~(k > u)
        BY <2>1, <2>2
      <3> QED
        BY <2>1, <3>1, FS_Interval
    <2>4. n = u + 1
      BY <2>1, <2>2, <2>3
    <2> HIDE DEF n
    <2>5. \A i \in B : i \in Nat /\ k <= i /\ i < n
      BY <2>1, <2>2, <2>4
    <2> QED
      BY <2>5 DEF B, n
  <1> QED
    BY <1>1, <1>2

LEMMA RoundNext ==
  ASSUME BurstInv, NEW q \in Rank, On(job[q], "rounds")
  PROVE  LET k == job[q].next
             n == AfterRound(q).next
         IN  /\ k \in Nat \ {0} /\ n \in Nat \ {0} /\ Len(log[q]) \in Nat
             /\ Batch(q) \subseteq 1 .. Len(log[q])
             /\ \A i \in k .. Len(log[q]) : i \in Batch(q) \/ i \in n .. Len(log[q])
             /\ \A i \in Batch(q) : k <= i /\ i < n
             /\ k <= n
             /\ AfterRound(q).steps # job[q].steps => n > Len(log[q])
  <1> DEFINE g == log[q]
             j == job[q]
             k == j.next
             b == Buffer(data[q], biggest[q])
             B == BatchOf(g, b, k)
             n == k + Cardinality(B)
             ok == j.ok /\ Good(q)
             x == NextRound(j, n, ok)
             a == AfterRound(q)
  <1>1. RankInv(putlist[q], g, data[q], biggest[q], j, posted) /\ g \in Seq(Entry) /\ j \in Jobs
    BY DEF BurstInv, AtRank, RankInv, RankTypes
  <1>2. Batch(q) = B
    BY <1>1, Batches, BufferSizes
  <1>3. Fits(g, b) /\ b \in Nat
    BY <1>1, BufferFits DEF RankInv, RankTypes
  <1>4. a = IF n > Len(g) /\ j.left - 1 = 0 THEN Advance(x) ELSE x
    BY <1>2 DEF AfterRound, Good, NextRound
  <1>5. k \in Nat \ {0} /\ Len(g) \in Nat /\ j.left \in 0 .. MaxPuts + 1 /\ j.left > 0
        /\ j.steps # <<>> /\ Head(j.steps) = "rounds" /\ Chained(j.steps)
    <2>1. JobFor(j, g, b, putlist[q])
      BY <1>1 DEF RankInv
    <2> QED
      BY <1>1, <2>1, Chain DEF JobFor, Jobs, On
  <1>6. ok \in BOOLEAN
    OBVIOUS
  <1> HIDE DEF b, ok, j, g
  <1>7. /\ B \subseteq 1 .. Len(g) /\ n \in Nat \ {0}
        /\ \A i \in k .. Len(g) : i \in B \/ i \in n .. Len(g)
        /\ \A i \in B : i \in Nat /\ k <= i /\ i < n
    BY <1>1, <1>3, <1>5, BatchTaken, BatchSpan
  <1>8. k <= n
    <2>1. Cardinality(B) \in Nat
      <3>1. IsFiniteSet(1 .. Len(g))
        BY <1>5, FS_Interval
      <3> HIDE DEF B
      <3>2. IsFiniteSet(B)
        BY <1>7, <3>1, FS_Subset
      <3> QED
        BY <3>2, FS_CardinalityType
    <2> HIDE DEF B, k
    <2> QED
      BY <1>5, <2>1
  <1> HIDE DEF B, n, k
  <1>9. x \in Jobs /\ x.steps = j.steps /\ x.next = n
    <2>1. j.left - 1 \in 0 .. MaxPuts + 1
      BY <1>5, BoundAssumption
    <2> QED
      BY <1>1, <1>6, <1>7, <2>1 DEF NextRound, Jobs
  <1> HIDE DEF x
  <1>10. Advance(x).next = n
    BY <1>5, <1>9, Advanced DEF Chained
  <1>11. a.next = n
    BY <1>4, <1>9, <1>10
  <1>12. a.steps # j.steps => n > Len(g)
    BY <1>4, <1>9
  <1> HIDE DEF a
  <1> QED
    BY <1>2, <1>5, <1>7, <1>8, <1>11, <1>12 DEF a, j, g, k, B

(* A reduction leaves every rank where it was in its log.                  *)
LEMMA ReducedNext ==
  ASSUME BurstInv, NEW r \in Rank, Reduce(r), NEW q \in Partners(r)
  PROVE  job'[q].next = job[q].next /\ On(job'[q], "rounds") /\ job'[q].op = job[q].op
  <1> DEFINE j == job[q]
             left == Max({Rounds(p) : p \in Partners(r)})
             k == [j EXCEPT !.left = left]
  <1>1. /\ q \in Rank /\ On(j, "reduce") /\ job'[q] = Advance(k)
    BY Mine DEF Reduce, Together, At, InCall, On
  <1>2. left \in 0 .. MaxPuts + 1
    BY Mine, RoundNumbers
  <1>3. j \in Jobs
    BY <1>1, NoJob
  <1>4. Chained(j.steps) /\ j.steps # <<>> /\ Head(j.steps) = "reduce"
    BY <1>1, <1>3, Chain DEF On, Jobs
  <1> HIDE DEF left, j
  <1>5. k \in Jobs /\ k.steps = j.steps /\ k.next = j.next /\ k.op = j.op
    BY <1>2, <1>3 DEF Jobs
  <1> HIDE DEF k
  <1>6. /\ Advance(k).next = j.next /\ Advance(k).op = j.op /\ Advance(k).steps = Tail(j.steps)
        /\ Tail(j.steps) # <<>> /\ Head(Tail(j.steps)) = "rounds"
    BY <1>4, <1>5, Advanced DEF Chained
  <1> QED
    BY <1>1, <1>6 DEF On, j

(* A call that begins with the driver's part has nothing to write.         *)
LEMMA Begun ==
  ASSUME NEW r, NEW op \in CallOps, NEW w, ~indep \/ log[r] # <<>>,
         ~(op = "abort" /\ mode = "def")
  PROVE  CallSteps(r, op, w) # <<>> /\ Head(CallSteps(r, op, w)) = "reduce"
  <1> DEFINE RR == <<"reduce", "rounds">>
             RRS == <<"reduce", "rounds", "reset">>
             RRH == <<"reduce", "rounds", "reset", "handle">>
             D == <<"driver">>
             S == {<<>>, D}
  <1>1. ASSUME NEW d \in S
        PROVE  /\ RR \o d # <<>> /\ Head(RR \o d) = "reduce"
               /\ RRS \o d # <<>> /\ Head(RRS \o d) = "reduce"
               /\ RRH \o d # <<>> /\ Head(RRH \o d) = "reduce"
    <2>1. d \in Seq(Steps) /\ RR \in Seq(Steps) /\ RRS \in Seq(Steps) /\ RRH \in Seq(Steps)
      <3>1. RR \in Seq(Steps)
        BY DEF Steps
      <3>2. RRS \in Seq(Steps)
        BY DEF Steps
      <3>3. RRH \in Seq(Steps)
        BY DEF Steps
      <3>4. <<>> \in Seq(Steps) /\ D \in Seq(Steps)
        BY DEF Steps
      <3> HIDE DEF RR, RRS, RRH, D
      <3> QED
        BY <1>1, <3>1, <3>2, <3>3, <3>4
    <2>2. ASSUME NEW t \in Seq(Steps), t # <<>>, t[1] = "reduce"
          PROVE  t \o d # <<>> /\ Head(t \o d) = "reduce"
      <3>1. /\ t \o d \in Seq(Steps) /\ Len(t \o d) = Len(t) + Len(d)
            /\ Len(t) \in Nat /\ Len(d) \in Nat /\ Len(t) # 0
        BY <2>1, <2>2
      <3>2. (t \o d)[1] = t[1]
        BY <2>1, <2>2, <3>1
      <3>3. Len(t \o d) # 0
        BY <3>1
      <3> QED
        BY <2>2, <3>1, <3>2, <3>3
    <2>3. RR # <<>> /\ RR[1] = "reduce" /\ RRS # <<>> /\ RRS[1] = "reduce"
          /\ RRH # <<>> /\ RRH[1] = "reduce"
      OBVIOUS
    <2> HIDE DEF RR, RRS, RRH, S
    <2> QED
      BY <2>1, <2>2, <2>3
  <1>2. Replay(r) = RR /\ RR # <<>>
    BY DEF Replay, When
  <1>3. Flush(r) = RRS
    <2>1. Flush(r) = RR \o <<"reset">>
      BY <1>2 DEF Flush, When
    <2>2. RR \o <<"reset">> = RRS
      BY Joined, ZenonT(60)
    <2> QED
      BY <2>1, <2>2
  <1>4. RRS \o <<"handle">> = RRH
    BY Joined, ZenonT(60)
  <1>5. \A flag : When(flag, D) \in S
    BY DEF When
  <1>6. D \in S
    OBVIOUS
  <1>7. RRS # <<>> /\ Head(RRS) = "reduce"
    OBVIOUS
  <1> HIDE DEF RR, RRS, RRH, S
  <1>8. CASE op = "get"
    BY <1>1, <1>3, <1>5, <1>8 DEF CallSteps, GetSteps
  <1>9. CASE op \in {"sync", "redef"}
    BY <1>1, <1>3, <1>6, <1>9 DEF CallSteps, SyncSteps, RedefSteps
  <1>10. CASE op = "flush"
    BY <1>3, <1>7, <1>10 DEF CallSteps, FlushSteps
  <1>11. CASE op = "wait"
    BY <1>1, <1>3, <1>4, <1>5, <1>11 DEF CallSteps, WaitSteps
  <1>12. CASE op = "close"
    BY <1>1, <1>2, <1>6, <1>12 DEF CallSteps, CloseSteps
  <1>13. CASE op = "abort"
    <2>1. When(mode # "def", Replay(r)) = RR
      BY <1>2, <1>13 DEF When
    <2> QED
      BY <1>1, <1>6, <1>13, <2>1 DEF CallSteps, AbortSteps
  <1> QED
    BY <1>8, <1>9, <1>10, <1>11, <1>12, <1>13 DEF CallOps

(***************************************************************************)
(* The invariant behind the promise.  Apart: a put is in one log.          *)
(* Drained: a rank that has come to the driver's part has nothing left to  *)
(* write, or closes the file in define mode.  Flagged: the two modes of an *)
(* open file agree.  OneCall: the ranks that will meet in the driver are   *)
(* in the same call.                                                       *)
(***************************************************************************)
AllPlaced == \A r \in Rank : Placed(log[r], data[r], posted)

Disjoint(g, h) == \A i \in 1 .. Len(g), j \in 1 .. Len(h) : g[i].put # h[j].put

Apart == \A q, r \in Rank : q # r => Disjoint(log[q], log[r])

Written(j, g, m) == IF Closes(j.op) THEN j.next > Len(g) \/ m = "def" ELSE g = <<>>

Drained == \A r \in Rank : On(job[r], "driver") => Written(job[r], log[r], mode)

Flagged ==
    /\ mode # "closed" => (indep <=> mode = "indep")
    /\ \A r \in Rank : InCall(r) => /\ mode # "closed"
                                    /\ job[r].op = "redef" => mode = "coll"

OneCall == \A q, r \in Rank : Has(job[q].steps, "driver") /\ Has(job[r].steps, "driver")
                                 => job[q].op = job[r].op

Tracked == AllPlaced /\ Apart /\ Drained /\ Flagged /\ OneCall

LogInv == BurstInv /\ Tracked

(* A step of the promise, or none. *)
Seen == <<Pending, file, Busy, mode = "def">>

Allowed == Promise!Next \/ UNCHANGED Seen

LEMMA RankLog ==
  ASSUME LogInv, NEW r \in Rank
  PROVE  /\ log[r] \in Seq(Entry) /\ Len(log[r]) \in Nat /\ data[r] \in Seq(1 .. MaxPuts)
         /\ job[r] \in Jobs /\ job[r].next \in Nat \ {0}
         /\ Placed(log[r], data[r], posted) /\ Logged(log[r], biggest[r], posted)
         /\ posted \in Nat /\ posted \in 0 .. MaxPuts
         /\ \A i \in 1 .. Len(log[r]) : log[r][i] \in Entry /\ log[r][i].put \in 1 .. posted
  <1>1. RankInv(putlist[r], log[r], data[r], biggest[r], job[r], posted)
    BY DEF LogInv, BurstInv, AtRank
  <1>2. /\ log[r] \in Seq(Entry) /\ data[r] \in Seq(1 .. MaxPuts) /\ job[r] \in Jobs
        /\ Logged(log[r], biggest[r], posted)
    BY <1>1 DEF RankInv, RankTypes
  <1>3. posted \in Nat /\ posted \in 0 .. MaxPuts
    BY NoJob DEF LogInv
  <1>4. Placed(log[r], data[r], posted)
    BY DEF LogInv, Tracked, AllPlaced
  <1>5. job[r].next \in Nat \ {0}
    BY <1>2 DEF Jobs
  <1>6. \A i \in 1 .. Len(log[r]) : log[r][i] \in Entry /\ log[r][i].put \in 1 .. posted
    BY <1>2, <1>4 DEF Placed
  <1> QED
    BY <1>2, <1>3, <1>4, <1>5, <1>6

LEMMA ItemPut ==
  ASSUME NEW e
  PROVE  Item(e).put = e.put /\ Item(e).cells = ToSet(e.cells)
  BY DEF Item

LEMMA InItems ==
  ASSUME NEW g, NEW k, NEW x
  PROVE  x \in Items(g, k) <=> \E i \in k .. Len(g) : g[i].valid /\ x = Item(g[i])
  BY DEF Items

LEMMA PendingOf ==
  /\ Pending = [r \in Rank |-> Pending[r]] /\ DOMAIN Pending = Rank
  /\ \A r \in Rank : Pending[r] = Items(log[r], job[r].next)
  BY DEF Pending

LEMMA PendingNext ==
  /\ Pending' = [r \in Rank |-> Pending'[r]] /\ DOMAIN Pending' = Rank
  /\ \A r \in Rank : Pending'[r] = Items(log'[r], job'[r].next)
  BY DEF Pending

LEMMA BusyOf ==
  /\ Busy = [r \in Rank |-> InCall(r)] /\ Busy' = [r \in Rank |-> InCall(r)']
  BY DEF Busy

(* The logs and places stay: so do the pending puts.                       *)
LEMMA SamePending ==
  ASSUME \A r \in Rank : Pending'[r] = Pending[r]
  PROVE  Pending' = Pending
  BY PendingOf, PendingNext

LEMMA SameBusy ==
  ASSUME \A r \in Rank : InCall(r)' <=> InCall(r)
  PROVE  Busy' = Busy
  BY DEF Busy, InCall

LEMMA ItemsMore ==
  ASSUME NEW g \in Seq(Entry), NEW h \in Seq(Entry), Len(h) = Len(g) + 1,
         \A i \in 1 .. Len(g) : h[i] = g[i], h[Len(g) + 1].valid
  PROVE  Items(h, 1) = Items(g, 1) \cup {Item(h[Len(g) + 1])}
  <1> DEFINE n == Len(g)
             y == Item(h[n + 1])
             A == Items(h, 1)
             B == Items(g, 1)
  <1>1. /\ n \in Nat /\ n + 1 \in 1 .. Len(h)
        /\ \A i \in 1 .. Len(h) : i \in 1 .. n \/ i = n + 1
        /\ \A i \in 1 .. n : i \in 1 .. Len(h)
    OBVIOUS
  <1> HIDE DEF A, B, y
  <1>2. ASSUME NEW x \in A PROVE x \in B \/ x = y
    <2>1. PICK i \in 1 .. Len(h) : h[i].valid /\ x = Item(h[i])
      BY <1>2, InItems DEF A
    <2>2. CASE i \in 1 .. n
      <3>1. g[i].valid /\ x = Item(g[i])
        BY <2>1, <2>2
      <3> QED
        BY <2>2, <3>1, InItems DEF B
    <2>3. CASE i = n + 1
      BY <2>1, <2>3 DEF y
    <2> QED
      BY <1>1, <2>2, <2>3
  <1>3. ASSUME NEW x \in B PROVE x \in A
    <2>1. PICK i \in 1 .. n : g[i].valid /\ x = Item(g[i])
      BY <1>3, InItems DEF B
    <2>2. i \in 1 .. Len(h) /\ h[i].valid /\ x = Item(h[i])
      BY <1>1, <2>1
    <2> QED
      BY <2>2, InItems DEF A
  <1>4. y \in A
    <2>1. h[n + 1].valid
      OBVIOUS
    <2> QED
      BY <1>1, <2>1, InItems DEF A, y
  <1>5. A = B \cup {y}
    BY <1>2, <1>3, <1>4
  <1> QED
    BY <1>5 DEF A, B, y

LEMMA DisjointBoth ==
  ASSUME NEW g, NEW h, Disjoint(g, h)
  PROVE  Disjoint(h, g)
  BY DEF Disjoint

(* The calls of the ranks and the mode stay.                               *)
LEMMA SameCalls ==
  ASSUME Flagged, OneCall, UNCHANGED <<mode, indep, job>>
  PROVE  Flagged' /\ OneCall'
  BY DEF Flagged, OneCall, InCall

LEMMA PutAllowed ==
  ASSUME LogInv, NEW r \in Rank, ~InCall(r), NEW c \in Shapes \cup VarnShapes,
         NEW id \in Int, LogPut(r, c, id), UNCHANGED <<mode, indep, job, file>>
  PROVE  Allowed /\ Tracked'
  <1>1. PICK bad \in BOOLEAN : log' = [log EXCEPT ![r] = Append(@, NewEntry(posted, c, bad, id))]
    BY DEF LogPut, NewEntry
  <1> DEFINE g == log[r]
             p == posted
             n == Len(g)
             e == NewEntry(p, c, bad, id)
             h == Append(g, e)
             y == Item(e)
  <1>2. /\ p < MaxPuts /\ posted' = p + 1
        /\ data' = [data EXCEPT ![r] = MoreData(@, c, p)]
    BY DEF LogPut, MoreData
  <1>3. /\ g \in Seq(Entry) /\ n \in Nat /\ data[r] \in Seq(1 .. MaxPuts)
        /\ biggest[r] \in Nat /\ Placed(g, data[r], p) /\ Logged(g, biggest[r], p) /\ p \in Nat
        /\ \A q \in Rank : \A i \in 1 .. Len(log[q]) : log[q][i].put \in 1 .. p
    <2>1. biggest[r] \in Nat
      BY DEF LogInv, BurstInv, AtRank, RankInv, RankTypes
    <2> QED
      BY <2>1, RankLog
  <1>4. /\ log'[r] = h /\ data'[r] = MoreData(data[r], c, p)
        /\ \A q \in Rank \ {r} : log'[q] = log[q] /\ data'[q] = data[q]
    BY <1>1, <1>2 DEF LogInv, BurstInv, Shaped
  <1>5. /\ h \in Seq(Entry) /\ Len(h) = n + 1 /\ h[n + 1] = e
        /\ \A i \in 1 .. n : h[i] = g[i]
    BY <1>2, <1>3, EntryAppended
  <1>6. e.valid /\ e.put = p + 1
    BY DEF NewEntry
  <1>7. Placed(h, MoreData(data[r], c, p), p + 1)
    BY <1>2, <1>3, PlacedMore
  <1> HIDE DEF h, e, n, y
  <1>8. AllPlaced'
    <2> SUFFICES ASSUME NEW q \in Rank PROVE Placed(log'[q], data'[q], posted')
      BY DEF AllPlaced
    <2>1. CASE q = r
      BY <1>2, <1>4, <1>7, <2>1
    <2>2. CASE q # r
      <3>1. Placed(log[q], data[q], p) /\ p + 1 \in Nat /\ p <= p + 1
        BY <1>3, RankLog
      <3>2. Placed(log[q], data[q], p + 1)
        BY <1>3, <3>1, PlacedLater
      <3> QED
        BY <1>2, <1>4, <2>2, <3>2
    <2> QED
      BY <2>1, <2>2
  <1>9. Apart'
    <2>1. ASSUME NEW q \in Rank, q # r PROVE Disjoint(h, log[q])
      <3> SUFFICES ASSUME NEW i \in 1 .. Len(h), NEW j \in 1 .. Len(log[q])
                   PROVE  h[i].put # log[q][j].put
        BY DEF Disjoint
      <3>1. CASE i \in 1 .. n
        BY <1>5, <2>1, <3>1 DEF LogInv, Tracked, Apart, Disjoint, n
      <3>2. CASE i = n + 1
        <4>1. h[i].put = p + 1 /\ log[q][j].put \in 1 .. p
          BY <1>3, <1>5, <1>6, <3>2
        <4> QED
          BY <1>3, <4>1
      <3> QED
        BY <1>3, <1>5, <3>1, <3>2 DEF n
    <2>2. ASSUME NEW q \in Rank, NEW s \in Rank, q # s PROVE Disjoint(log'[q], log'[s])
      <3>1. CASE q = r
        BY <1>4, <2>1, <2>2, <3>1
      <3>2. CASE s = r
        BY <1>4, <2>1, <2>2, <3>2, DisjointBoth
      <3>3. CASE q # r /\ s # r
        BY <1>4, <2>2, <3>3 DEF LogInv, Tracked, Apart
      <3> QED
        BY <3>1, <3>2, <3>3
    <2> QED
      BY <2>2 DEF Apart
  <1>10. job' = job /\ mode' = mode /\ indep' = indep /\ file' = file
    OBVIOUS
  <1>11. Drained'
    <2> SUFFICES ASSUME NEW q \in Rank, On(job[q], "driver") PROVE Written(job[q], log'[q], mode)
      BY <1>10 DEF Drained
    <2>1. q # r
      BY DEF InCall, On
    <2> QED
      BY <1>4, <2>1 DEF LogInv, Tracked, Drained
  <1>12. job[r].next = 1 /\ ~Busy[r]
    <2>1. job[r] = Idle
      BY NoJob DEF LogInv
    <2> QED
      BY <2>1, IdleJob DEF Busy
  <1>13. Pending'[r] = Pending[r] \cup {y}
    <2>1. Items(h, 1) = Items(g, 1) \cup {Item(h[Len(g) + 1])}
      BY <1>3, <1>5, <1>6, ItemsMore DEF n
    <2>2. Item(h[Len(g) + 1]) = y
      BY <1>5 DEF n, y
    <2>3. Pending[r] = Items(g, 1) /\ Pending'[r] = Items(h, 1)
      BY <1>4, <1>10, <1>12, PendingOf, PendingNext
    <2> QED
      BY <2>1, <2>2, <2>3
  <1>14. \A q \in Rank \ {r} : Pending'[q] = Pending[q]
    BY <1>4, <1>10, PendingOf, PendingNext
  <1>15. Pending' = [Pending EXCEPT ![r] = @ \cup {y}]
    BY <1>13, <1>14, PendingOf, PendingNext
  <1>16. \A q \in Rank : \A o \in Pending[q] : o.put < y.put
    <2> SUFFICES ASSUME NEW q \in Rank, NEW o \in Pending[q] PROVE o.put < y.put
      OBVIOUS
    <2>1. PICK i \in job[q].next .. Len(log[q]) : o = Item(log[q][i])
      BY PendingOf, InItems
    <2>2. i \in 1 .. Len(log[q])
      BY <2>1, RankLog
    <2>3. o.put = log[q][i].put /\ y.put = p + 1
      BY <1>6, <2>1, ItemPut DEF y
    <2> QED
      BY <1>3, <2>2, <2>3, SMTT(60)
  <1>17. Promise!Post(r, y)
    <2>1. UNCHANGED <<file, Busy, mode = "def">>
      BY <1>10 DEF Busy, InCall
    <2> QED
      BY <1>12, <1>15, <1>16, <2>1 DEF Promise!Post
  <1>18. Promise!Next
    BY <1>13, <1>17 DEF Promise!Next
  <1> QED
    BY <1>8, <1>9, <1>10, <1>11, <1>18, SameCalls DEF Allowed, Tracked, LogInv

(* Nothing the promise speaks of changes.                                  *)
LEMMA NothingSeen ==
  ASSUME LogInv, UNCHANGED <<mode, indep, log, data, job, file>>, posted' \in Nat,
         posted <= posted'
  PROVE  Allowed /\ Tracked'
  <1>1. AllPlaced'
    <2> SUFFICES ASSUME NEW r \in Rank PROVE Placed(log[r], data[r], posted')
      BY DEF AllPlaced
    <2>1. Placed(log[r], data[r], posted) /\ posted \in Nat
      BY RankLog
    <2> QED
      BY <2>1, PlacedLater
  <1>2. Apart' /\ Drained'
    BY DEF LogInv, Tracked, Apart, Drained
  <1>3. Flagged' /\ OneCall'
    BY SameCalls DEF LogInv, Tracked
  <1>4. UNCHANGED Seen
    BY DEF Seen, Pending, Busy, InCall
  <1> QED
    BY <1>1, <1>2, <1>3, <1>4 DEF Tracked, Allowed

LEMMA WithoutKeeps ==
  ASSUME NEW g \in Seq(Entry), NEW req
  PROVE  LET h == Without(g, req)
         IN  /\ Len(h) = Len(g)
             /\ \A i \in 1 .. Len(g) : /\ h[i].put = g[i].put /\ h[i].cells = g[i].cells
                                       /\ h[i].valid => g[i].valid
  <1> DEFINE n == Len(g)
             h == Without(g, req)
  <1>1. /\ n \in Nat /\ DOMAIN h = 1 .. n
        /\ \A i \in 1 .. n : h[i] = IF i \in req.first .. req.last
                                    THEN [g[i] EXCEPT !.valid = FALSE] ELSE g[i]
    BY DEF Without
  <1>2. \A i \in 1 .. n : g[i] \in Entry
    OBVIOUS
  <1> HIDE DEF h
  <1>3. \E k \in Nat : DOMAIN h = 1 .. k /\ k = n
    BY <1>1
  <1>4. Len(h) = n
    <2>1. h = [i \in 1 .. n |-> h[i]]
      BY <1>1 DEF h, Without
    <2> QED
      BY <1>1, <2>1
  <1>5. ASSUME NEW i \in 1 .. n
        PROVE  /\ h[i].put = g[i].put /\ h[i].cells = g[i].cells
               /\ h[i].valid => g[i].valid
    <2> DEFINE e == g[i]
               f == h[i]
    <2>1. e \in Entry /\ (f = e \/ f = [e EXCEPT !.valid = FALSE])
      BY <1>1, <1>2
    <2> HIDE DEF e, f
    <2>2. f.put = e.put /\ f.cells = e.cells /\ (f.valid => e.valid)
      BY <2>1 DEF Entry
    <2> QED
      BY <2>2 DEF e, f
  <1> QED
    BY <1>4, <1>5 DEF h

LEMMA CancelAllowed ==
  ASSUME LogInv, NEW r \in Rank, NEW id, CancelPutReq(r, id)
  PROVE  Allowed /\ Tracked'
  <1> DEFINE req == putlist[r].reqs[id]
             g == log[r]
             h == Without(g, req)
  <1>1. /\ UNCHANGED <<mode, indep, data, job, file, posted>> /\ ~InCall(r)
        /\ log' = IF req.ready THEN log ELSE [log EXCEPT ![r] = Cancelled(r, req)]
    BY DEF CancelPutReq
  <1>2. Cancelled(r, req) = h
    BY DEF Cancelled, Without
  <1>3. posted \in Nat /\ g \in Seq(Entry) /\ Placed(g, data[r], posted) /\ Len(g) \in Nat
    BY RankLog
  <1>4. CASE req.ready
    BY <1>1, <1>3, <1>4, NothingSeen
  <1>5. CASE ~req.ready
    <2>1. log'[r] = h /\ \A q \in Rank \ {r} : log'[q] = log[q]
      BY <1>1, <1>2, <1>5 DEF LogInv, BurstInv, Shaped
    <2>2. h \in Seq(Entry)
      <3>1. BurstInv'
        BY PutCancelled DEF LogInv
      <3>2. log'[r] \in Seq(Entry)
        BY <3>1 DEF BurstInv, AtRank, RankInv, RankTypes
      <3> QED
        BY <2>1, <3>2
    <2>3. /\ Len(h) = Len(g)
          /\ \A i \in 1 .. Len(g) : /\ h[i].put = g[i].put /\ h[i].cells = g[i].cells
                                    /\ h[i].valid => g[i].valid
      BY <1>3, WithoutKeeps
    <2> HIDE DEF h, req
    <2>4. Placed(h, data[r], posted)
      BY <1>3, <2>2, <2>3, PlacedSame
    <2>5. AllPlaced'
      <3> SUFFICES ASSUME NEW q \in Rank PROVE Placed(log'[q], data[q], posted)
        BY <1>1 DEF AllPlaced
      <3> QED
        BY <2>1, <2>4, RankLog
    <2>6. \A q \in Rank \ {r} : Disjoint(h, log[q])
      BY <2>3 DEF LogInv, Tracked, Apart, Disjoint
    <2>7. Apart'
      <3> SUFFICES ASSUME NEW q \in Rank, NEW s \in Rank, q # s
                   PROVE  Disjoint(log'[q], log'[s])
        BY DEF Apart
      <3>1. CASE q = r
        BY <2>1, <2>6, <3>1
      <3>2. CASE s = r
        BY <2>1, <2>6, <3>2, DisjointBoth
      <3>3. CASE q # r /\ s # r
        BY <2>1, <3>3 DEF LogInv, Tracked, Apart
      <3> QED
        BY <3>1, <3>2, <3>3
    <2>8. Drained'
      <3> SUFFICES ASSUME NEW q \in Rank, On(job[q], "driver")
                   PROVE  Written(job[q], log'[q], mode)
        BY <1>1 DEF Drained
      <3>1. q # r
        BY <1>1 DEF InCall, On
      <3> QED
        BY <2>1, <3>1 DEF LogInv, Tracked, Drained
    <2>9. Pending'[r] \subseteq Pending[r] /\ ~Busy[r]
      <3>1. job[r].next = 1 /\ ~InCall(r)
        BY <1>1, NoJob, IdleJob DEF LogInv
      <3>2. Pending[r] = Items(g, 1) /\ Pending'[r] = Items(h, 1)
        BY <1>1, <2>1, <3>1, PendingOf, PendingNext
      <3>3. ASSUME NEW x \in Items(h, 1) PROVE x \in Items(g, 1)
        <4>1. PICK i \in 1 .. Len(h) : h[i].valid /\ x = Item(h[i])
          BY <3>3, InItems
        <4>2. i \in 1 .. Len(g) /\ g[i].valid /\ x = Item(g[i])
          BY <2>3, <4>1 DEF Item
        <4> QED
          BY <4>2, InItems
      <3>4. Items(h, 1) \subseteq Items(g, 1)
        BY <3>3
      <3>5. ~Busy[r]
        BY <3>1, BusyOf
      <3> QED
        BY <3>2, <3>4, <3>5
    <2>10. \A q \in Rank \ {r} : Pending'[q] = Pending[q]
      BY <1>1, <2>1, PendingOf, PendingNext
    <2>11. UNCHANGED <<file, Busy, mode = "def">>
      BY <1>1 DEF Busy, InCall
    <2>12. Promise!Drop
      <3>1. \A q \in Rank : \/ Pending'[q] = Pending[q]
                            \/ Pending'[q] \subseteq Pending[q] /\ (~Busy[q] \/ mode = "def")
        BY <2>9, <2>10
      <3> QED
        BY <2>11, <3>1, PendingNext DEF Promise!Drop
    <2>13. Flagged' /\ OneCall'
      BY <1>1, SameCalls DEF LogInv, Tracked
    <2> QED
      BY <2>5, <2>7, <2>8, <2>12, <2>13 DEF Tracked, Allowed, Promise!Next
  <1> QED
    BY <1>4, <1>5

(* A call that a rank begins: it comes to the driver with nothing to write, *)
(* or after a replay.                                                      *)
LEMMA CallPlan ==
  ASSUME LogInv, NEW r \in Rank, ~InCall(r), NEW op \in Ops, NEW w \in Forms(op, r),
         NEW j, j = Call(r, op, w)
  PROVE  /\ j.next = 1 /\ op \in CallOps
         /\ j.steps # <<>> => j.op = op
         /\ On(j, "driver") => Written(j, log[r], mode)
         /\ Has(j.steps, "driver") <=> ComesToDriver(op, w)
  <1>1. op \in CallOps
    BY FormFacts DEF LogInv
  <1>2. j.steps = CallSteps(r, op, w) /\ Planned(j.steps, op, w, log[r])
    BY RankCalls DEF LogInv
  <1>3. j.next = 1 /\ (j.steps # <<>> => j.op = op)
    <2> DEFINE s == CallSteps(r, op, w)
    <2> HIDE DEF s
    <2>1. j = IF s = <<>> THEN Idle ELSE [Idle EXCEPT !.op = op, !.steps = s, !.ids = w.ids]
      BY DEF Call, s
    <2> QED
      BY <2>1 DEF Idle
  <1>4. ASSUME On(j, "driver") PROVE Written(j, log[r], mode)
    <2>1. Head(CallSteps(r, op, w)) # "reduce" /\ j.op = op
      BY <1>2, <1>3, <1>4 DEF On
    <2>2. log[r] = <<>> \/ (op = "abort" /\ mode = "def")
      BY <1>1, <2>1, Begun
    <2>3. CASE log[r] = <<>>
      BY <1>3, <2>3 DEF Written
    <2>4. CASE op = "abort" /\ mode = "def"
      BY <2>1, <2>4 DEF Written, Closes
    <2> QED
      BY <2>2, <2>3, <2>4
  <1> QED
    BY <1>1, <1>2, <1>3, <1>4 DEF Planned

LEMMA CallsBegin ==
  ASSUME LogInv, UNCHANGED <<mode, indep, log, data, file, posted>>,
         \A q \in Rank : job'[q] = job[q] \/ (~InCall(q) /\ job'[q].next = 1),
         Drained', Flagged', OneCall'
  PROVE  Allowed /\ Tracked'
  <1>1. AllPlaced' /\ Apart'
    BY DEF LogInv, Tracked, AllPlaced, Apart
  <1>2. \A q \in Rank : Pending'[q] = Pending[q]
    <2> SUFFICES ASSUME NEW q \in Rank PROVE Pending'[q] = Pending[q]
      OBVIOUS
    <2>1. job'[q].next = job[q].next
      BY NoJob, IdleJob DEF LogInv
    <2> QED
      BY <2>1, PendingOf, PendingNext
  <1>3. Pending' = Pending
    BY <1>2, SamePending
  <1> DEFINE R == {q \in Rank : ~InCall(q) /\ InCall(q)'}
  <1>4. \A q \in R : ~Busy[q]
    BY BusyOf
  <1>5. \A q \in Rank : InCall(q)' <=> (InCall(q) \/ q \in R)
    BY DEF InCall
  <1> HIDE DEF R
  <1>6. Busy' = [q \in Rank |-> Busy[q] \/ q \in R]
    <2>1. \A q \in Rank : Busy[q] = InCall(q) /\ InCall(q) \in BOOLEAN /\ InCall(q)' \in BOOLEAN
      BY DEF Busy, InCall
    <2>2. \A q \in Rank : InCall(q)' = (Busy[q] \/ q \in R)
      BY <1>5, <2>1
    <2> QED
      BY <2>2, BusyOf
  <1>7. Promise!Begin(R)
    BY <1>3, <1>4, <1>6 DEF Promise!Begin
  <1>8. R \in SUBSET Rank
    BY DEF R
  <1>9. Promise!Next
    BY <1>7, <1>8 DEF Promise!Next
  <1> QED
    BY <1>1, <1>9 DEF Tracked, Allowed

LEMMA TogetherAllowed ==
  ASSUME LogInv, ~RedefIndep, NEW op \in Ops, CollectiveCall(op)
  PROVE  Allowed /\ Tracked'
  <1>1. PICK w : /\ \A q \in Rank : w[q] \in Forms(op, q)
                 /\ job' = [q \in Rank |-> Call(q, op, w[q])]
    BY DEF CollectiveCall
  <1>2. /\ UNCHANGED <<mode, indep, log, data, file, posted>> /\ Legal(op)
        /\ \A q \in Rank : ~InCall(q)
    BY DEF CollectiveCall
  <1>3. \A q \in Rank : /\ job'[q].next = 1
                        /\ job'[q].steps # <<>> => job'[q].op = op
                        /\ On(job'[q], "driver") => Written(job'[q], log[q], mode)
    BY <1>1, <1>2, CallPlan
  <1>4. Drained'
    BY <1>2, <1>3 DEF Drained
  <1>5. Flagged'
    <2>1. mode # "closed" /\ (op = "redef" => mode = "coll")
      BY <1>2 DEF Legal
    <2> QED
      BY <1>2, <1>3, <2>1 DEF LogInv, Tracked, Flagged, InCall
  <1>6. OneCall'
    <2> SUFFICES ASSUME NEW q \in Rank, NEW r \in Rank, Has(job'[q].steps, "driver"),
                        Has(job'[r].steps, "driver")
                 PROVE  job'[q].op = job'[r].op
      BY DEF OneCall
    <2>1. \A s : Has(s, "driver") => s # <<>>
      BY DEF Has
    <2> QED
      BY <1>3, <2>1
  <1> QED
    BY <1>2, <1>3, <1>4, <1>5, <1>6, CallsBegin

LEMMA AloneAllowed ==
  ASSUME LogInv, NEW r \in Rank, NEW op \in Ops, IndependentCall(r, op)
  PROVE  Allowed /\ Tracked'
  <1>1. PICK w \in Forms(op, r) : job' = [job EXCEPT ![r] = Call(r, op, w)]
    BY DEF IndependentCall
  <1>2. /\ UNCHANGED <<mode, indep, log, data, file, posted>> /\ mode = "indep"
        /\ ~InCall(r) /\ op \in {"get", "flush", "wait"}
    BY DEF IndependentCall
  <1>3. indep
    BY <1>2 DEF LogInv, Tracked, Flagged
  <1> DEFINE j == Call(r, op, w)
  <1>4. /\ job'[r] = j /\ \A q \in Rank \ {r} : job'[q] = job[q]
    BY <1>1 DEF LogInv, BurstInv, Shaped
  <1>5. /\ j.next = 1 /\ (j.steps # <<>> => j.op = op)
        /\ On(j, "driver") => Written(j, log[r], mode)
        /\ ~Has(j.steps, "driver")
    <2>1. ~ComesToDriver(op, w)
      BY <1>2, <1>3 DEF ComesToDriver
    <2> QED
      BY <1>2, <2>1, CallPlan
  <1> HIDE DEF j
  <1>6. Drained'
    BY <1>2, <1>4, <1>5 DEF LogInv, Tracked, Drained
  <1>7. Flagged'
    BY <1>2, <1>4, <1>5 DEF LogInv, Tracked, Flagged, InCall
  <1>8. OneCall'
    BY <1>4, <1>5 DEF LogInv, Tracked, OneCall
  <1>9. \A q \in Rank : job'[q] = job[q] \/ (~InCall(q) /\ job'[q].next = 1)
    BY <1>2, <1>4, <1>5
  <1> QED
    BY <1>2, <1>6, <1>7, <1>8, <1>9, CallsBegin

LEMMA SwitchAllowed ==
  ASSUME LogInv, BeginIndepData \/ EndIndepData \/ EndDef \/ Open
  PROVE  Allowed /\ Tracked'
  <1>1. /\ UNCHANGED <<log, data, job, file, posted>> /\ \A q \in Rank : ~InCall(q)
        /\ mode' \in {"coll", "indep"}
        /\ indep' <=> mode' = "indep"
    BY DEF BeginIndepData, EndIndepData, EndDef, Open, SwitchMode, LogInv, Tracked, Flagged,
           BurstInv, Scalars
  <1>2. \A q \in Rank : job[q].steps = <<>>
    BY <1>1 DEF InCall
  <1>3. AllPlaced' /\ Apart'
    BY <1>1 DEF LogInv, Tracked, AllPlaced, Apart
  <1>4. Drained' /\ Flagged' /\ OneCall'
    BY <1>1, <1>2 DEF Drained, Flagged, OneCall, On, InCall, Has
  <1>5. Promise!SwitchMode
    <2>1. Pending' = Pending /\ Busy' = Busy
      BY <1>1 DEF Pending, Busy, InCall
    <2>2. \A q \in Rank : ~Busy[q]
      BY <1>1, BusyOf
    <2> QED
      BY <1>1, <2>1, <2>2 DEF Promise!SwitchMode
  <1> QED
    BY <1>3, <1>4, <1>5 DEF Tracked, Allowed, Promise!Next

(* A step within the calls: which of the facts on calls carry over.        *)
LEMMA CallsKept ==
  ASSUME LogInv, UNCHANGED <<mode, indep>>,
         \A q \in Rank : job'[q].steps # <<>> =>
            job[q].steps # <<>> /\ job'[q].op = job[q].op,
         \A q \in Rank : Has(job'[q].steps, "driver") => Has(job[q].steps, "driver")
  PROVE  Flagged' /\ OneCall'
  <1>1. Flagged'
    BY DEF LogInv, Tracked, Flagged, InCall
  <1>2. \A s : Has(s, "driver") => s # <<>>
    BY DEF Has
  <1>3. OneCall'
    BY <1>2 DEF LogInv, Tracked, OneCall
  <1> QED
    BY <1>1, <1>3

LEMMA SteppedKept ==
  ASSUME LogInv, NEW q \in Rank, NEW x, x # "driver", On(job[q], x), Stepped(q)
  PROVE  /\ job'[q].steps # <<>> => job[q].steps # <<>> /\ job'[q].op = job[q].op
         /\ Has(job'[q].steps, "driver") => Has(job[q].steps, "driver")
  <1>1. Has(job'[q].steps, "driver") <=> Has(job[q].steps, "driver")
    BY StepLeft DEF LogInv, Stepped
  <1> QED
    BY <1>1 DEF Stepped, On

LEMMA NothingLeft ==
  ASSUME NEW g, NEW k \in Nat \ {0}, Len(g) \in Nat, k > Len(g)
  PROVE  Items(g, k) = {}
  <1>1. \A i \in k .. Len(g) : FALSE
    OBVIOUS
  <1> QED
    BY <1>1, InItems

LEMMA WrittenNone ==
  ASSUME NEW j, j.next \in Nat \ {0}, NEW m
  PROVE  Written(j, <<>>, m) /\ Items(<<>>, j.next) = {}
  <1>1. Len(<<>>) = 0 /\ j.next > Len(<<>>) /\ Len(<<>>) \in Nat
    OBVIOUS
  <1> QED
    BY <1>1, NothingLeft DEF Written

(* A rank without pending puts goes on in its call or returns from it.     *)
LEMMA RankEnds ==
  ASSUME NEW r \in Rank, InCall(r), Pending[r] = {}, Pending' = Pending,
         UNCHANGED <<file, mode>>, \A q \in Rank \ {r} : InCall(q)' <=> InCall(q)
  PROVE  Allowed
  <1>1. CASE InCall(r)'
    <2>1. \A q \in Rank : InCall(q)' <=> InCall(q)
      BY <1>1
    <2>2. Busy' = Busy
      BY <2>1, SameBusy
    <2> QED
      BY <2>2 DEF Allowed, Seen
  <1>2. CASE ~InCall(r)'
    <2> DEFINE R == {r}
    <2>1. Busy' = [q \in Rank |-> Busy[q] /\ q \notin R]
      BY <1>2 DEF Busy, InCall
    <2>2. \A q \in R : Busy[q] /\ Pending[q] = {}
      BY BusyOf
    <2>3. Pending' = [q \in Rank |-> IF q \in R THEN {} ELSE Pending[q]]
      BY PendingOf
    <2>4. R \in SUBSET Rank /\ UNCHANGED file /\ (mode = "def")' \in BOOLEAN
      OBVIOUS
    <2> HIDE DEF R
    <2>5. Promise!End(R)
      BY <2>1, <2>2, <2>3, <2>4 DEF Promise!End
    <2> QED
      BY <2>4, <2>5 DEF Allowed, Promise!Next
  <1> QED
    BY <1>1, <1>2

LEMMA ReduceAllowed ==
  ASSUME LogInv, NEW r \in Rank, Reduce(r)
  PROVE  Allowed /\ Tracked'
  <1>1. UNCHANGED <<mode, indep, log, data, file, posted>>
    BY DEF Reduce
  <1>2. /\ \A q \in Partners(r) : On(job[q], "reduce") /\ Stepped(q)
        /\ \A q \in Rank \ Partners(r) : job'[q] = job[q]
    BY Reduced DEF LogInv
  <1>3. \A q \in Partners(r) : job'[q].next = job[q].next /\ On(job'[q], "rounds")
    BY ReducedNext DEF LogInv
  <1>4. AllPlaced' /\ Apart'
    BY <1>1 DEF LogInv, Tracked, AllPlaced, Apart
  <1>5. Drained'
    <2> SUFFICES ASSUME NEW q \in Rank, On(job'[q], "driver")
                 PROVE  Written(job'[q], log[q], mode)
      BY <1>1 DEF Drained
    <2>1. job'[q] = job[q]
      BY <1>2, <1>3 DEF On
    <2> QED
      BY <2>1 DEF LogInv, Tracked, Drained
  <1>6. \A q \in Rank : /\ job'[q].steps # <<>> => job[q].steps # <<>> /\ job'[q].op = job[q].op
                        /\ Has(job'[q].steps, "driver") => Has(job[q].steps, "driver")
    BY <1>2, SteppedKept
  <1>7. Flagged' /\ OneCall'
    BY <1>1, <1>6, CallsKept
  <1>8. Pending' = Pending
    <2>1. \A q \in Rank : job'[q].next = job[q].next
      BY <1>2, <1>3
    <2>2. \A q \in Rank : Pending'[q] = Pending[q]
      BY <1>1, <2>1, PendingOf, PendingNext
    <2> QED
      BY <2>2, SamePending
  <1>9. Busy' = Busy
    <2>1. \A q \in Rank : InCall(q)' <=> InCall(q)
      BY <1>2, <1>3 DEF InCall, On
    <2> QED
      BY <2>1, SameBusy
  <1> QED
    BY <1>1, <1>4, <1>5, <1>7, <1>8, <1>9 DEF Tracked, Allowed, Seen

LEMMA ResetAllowed ==
  ASSUME LogInv, NEW r \in Rank, Reset(r)
  PROVE  Allowed /\ Tracked'
  <1>1. UNCHANGED <<mode, indep, file, posted>>
    BY DEF Reset
  <1>2. /\ log'[r] = <<>> /\ data'[r] = <<>>
        /\ \A q \in Rank \ {r} : log'[q] = log[q] /\ data'[q] = data[q]
    BY DEF Reset, LogInv, BurstInv, Shaped
  <1>3. /\ BurstInv' /\ On(job[r], "reset")
        /\ \A q \in Rank \ {r} : job'[q] = job[q]
        /\ Stepped(r) \/ job'[r] = Idle
    BY WasReset DEF LogInv
  <1>4. job'[r].next \in Nat \ {0}
    BY <1>3 DEF BurstInv, AtRank, RankInv, RankTypes, Jobs
  <1>5. job[r].next > Len(log[r])
    BY <1>3 DEF LogInv, BurstInv, AtRank, RankInv, JobFor
  <1>6. AllPlaced'
    <2> SUFFICES ASSUME NEW q \in Rank PROVE Placed(log'[q], data'[q], posted)
      BY <1>1 DEF AllPlaced
    <2> QED
      BY <1>2, RankLog, PlacedNone
  <1>7. Apart'
    <2>1. \A g : Disjoint(<<>>, g) /\ Disjoint(g, <<>>)
      <3>1. Len(<<>>) = 0 /\ 1 .. 0 = {}
        OBVIOUS
      <3> QED
        BY <3>1 DEF Disjoint
    <2> SUFFICES ASSUME NEW q \in Rank, NEW s \in Rank, q # s
                 PROVE  Disjoint(log'[q], log'[s])
      BY DEF Apart
    <2>2. CASE q = r \/ s = r
      BY <1>2, <2>1, <2>2
    <2>3. CASE q # r /\ s # r
      BY <1>2, <2>3 DEF LogInv, Tracked, Apart
    <2> QED
      BY <2>2, <2>3
  <1>8. Drained'
    <2> SUFFICES ASSUME NEW q \in Rank, On(job'[q], "driver")
                 PROVE  Written(job'[q], log'[q], mode)
      BY <1>1 DEF Drained
    <2>1. CASE q = r
      BY <1>2, <1>4, <2>1, WrittenNone
    <2>2. CASE q # r
      BY <1>2, <1>3, <2>2 DEF LogInv, Tracked, Drained
    <2> QED
      BY <2>1, <2>2
  <1>9. /\ job'[r].steps # <<>> => job[r].steps # <<>> /\ job'[r].op = job[r].op
        /\ Has(job'[r].steps, "driver") => Has(job[r].steps, "driver")
    <2>1. CASE Stepped(r)
      BY <1>3, <2>1, SteppedKept
    <2>2. CASE job'[r] = Idle
      BY <2>2, IdleJob DEF Has
    <2> QED
      BY <1>3, <2>1, <2>2
  <1>10. Flagged' /\ OneCall'
    BY <1>1, <1>3, <1>9, CallsKept
  <1>11. Pending[r] = {} /\ Pending'[r] = {}
    <2>1. Items(log[r], job[r].next) = {}
      BY <1>5, RankLog, NothingLeft
    <2>2. Items(log'[r], job'[r].next) = {}
      BY <1>2, <1>4, WrittenNone
    <2> QED
      BY <2>1, <2>2, PendingOf, PendingNext
  <1>12. Pending' = Pending
    <2>1. \A q \in Rank \ {r} : Pending'[q] = Pending[q]
      BY <1>2, <1>3, PendingOf, PendingNext
    <2> QED
      BY <1>11, <2>1, SamePending
  <1>13. InCall(r) /\ \A q \in Rank \ {r} : InCall(q)' <=> InCall(q)
    BY <1>3 DEF InCall, On
  <1>14. Allowed
    BY <1>1, <1>11, <1>12, <1>13, RankEnds
  <1> QED
    BY <1>6, <1>7, <1>8, <1>10, <1>14 DEF Tracked

LEMMA HandleAllowed ==
  ASSUME LogInv, NEW r \in Rank, Handle(r)
  PROVE  Allowed /\ Tracked'
  <1>1. UNCHANGED <<mode, indep, log, data, file, posted>>
    BY DEF Handle
  <1>2. /\ BurstInv' /\ On(job[r], "handle") /\ Stepped(r)
        /\ \A q \in Rank \ {r} : job'[q] = job[q]
    BY Handled DEF LogInv
  <1>3. job'[r].next \in Nat \ {0}
    BY <1>2 DEF BurstInv, AtRank, RankInv, RankTypes, Jobs
  <1>4. log[r] = <<>> /\ job[r].next \in Nat \ {0}
    <2>1. log[r] = <<>>
      BY <1>2 DEF LogInv, BurstInv, AtRank, RankInv, JobFor
    <2> QED
      BY <2>1, RankLog
  <1>5. AllPlaced' /\ Apart'
    BY <1>1 DEF LogInv, Tracked, AllPlaced, Apart
  <1>6. Drained'
    <2> SUFFICES ASSUME NEW q \in Rank, On(job'[q], "driver")
                 PROVE  Written(job'[q], log[q], mode)
      BY <1>1 DEF Drained
    <2>1. CASE q = r
      BY <1>3, <1>4, <2>1, WrittenNone
    <2>2. CASE q # r
      BY <1>2, <2>2 DEF LogInv, Tracked, Drained
    <2> QED
      BY <2>1, <2>2
  <1>7. Flagged' /\ OneCall'
    <2>1. /\ job'[r].steps # <<>> => job[r].steps # <<>> /\ job'[r].op = job[r].op
          /\ Has(job'[r].steps, "driver") => Has(job[r].steps, "driver")
      BY <1>2, SteppedKept
    <2> QED
      BY <1>1, <1>2, <2>1, CallsKept
  <1>8. Pending[r] = {} /\ Pending'[r] = {}
    <2>1. Items(log[r], job[r].next) = {} /\ Items(log'[r], job'[r].next) = {}
      BY <1>1, <1>3, <1>4, WrittenNone
    <2> QED
      BY <2>1, PendingOf, PendingNext
  <1>9. Pending' = Pending
    <2>1. \A q \in Rank \ {r} : Pending'[q] = Pending[q]
      BY <1>1, <1>2, PendingOf, PendingNext
    <2> QED
      BY <1>8, <2>1, SamePending
  <1>10. InCall(r) /\ \A q \in Rank \ {r} : InCall(q)' <=> InCall(q)
    BY <1>2 DEF InCall, On
  <1>11. Allowed
    BY <1>1, <1>8, <1>9, <1>10, RankEnds
  <1> QED
    BY <1>5, <1>6, <1>7, <1>11 DEF Tracked

LEMMA DriverAllowed ==
  ASSUME LogInv, NEW r \in Rank, Driver(r)
  PROVE  Allowed /\ Tracked'
  <1>1. BurstInv' /\ \A q \in Rank : On(job[q], "driver") /\ job'[q] = Idle
    BY Driven DEF LogInv
  <1>2. UNCHANGED <<indep, file, posted>>
    BY DEF Driver
  <1>3. \A q \in Rank : job[q].op = job[r].op
    <2>1. \A q \in Rank : Has(job[q].steps, "driver")
      BY <1>1, HeadFacts DEF LogInv
    <2> QED
      BY <2>1 DEF LogInv, Tracked, OneCall
  <1>4. \/ /\ Closes(job[r].op) /\ mode' = "closed"
           /\ \A q \in Rank : log'[q] = <<>> /\ data'[q] = <<>>
        \/ /\ ~Closes(job[r].op) /\ UNCHANGED <<log, data>>
           /\ \/ job[r].op = "redef" /\ mode' = "def"
              \/ mode' = mode
    BY DEF Driver, Closes
  <1>5. \A q \in Rank : Written(job[q], log[q], mode) /\ Len(log[q]) \in Nat
                        /\ job[q].next \in Nat \ {0} /\ Placed(log[q], data[q], posted)
    BY <1>1, RankLog DEF LogInv, Tracked, Drained
  <1>6. \A q \in Rank : job'[q].next = 1 /\ job'[q].steps = <<>>
    BY <1>1, IdleJob
  <1>7. AllPlaced'
    <2> SUFFICES ASSUME NEW q \in Rank PROVE Placed(log'[q], data'[q], posted)
      BY <1>2 DEF AllPlaced
    <2> QED
      BY <1>4, <1>5, PlacedNone
  <1>8. Apart'
    <2>1. \A g : Disjoint(<<>>, g)
      <3>1. Len(<<>>) = 0 /\ 1 .. 0 = {}
        OBVIOUS
      <3> QED
        BY <3>1 DEF Disjoint
    <2>2. CASE \A q \in Rank : log'[q] = <<>>
      BY <2>1, <2>2 DEF Apart
    <2>3. CASE UNCHANGED log
      BY <2>3 DEF LogInv, Tracked, Apart
    <2> QED
      BY <1>4, <2>2, <2>3
  <1>9. Drained' /\ OneCall'
    BY <1>6 DEF Drained, OneCall, On, Has
  <1>10. Flagged'
    <2>1. \A q \in Rank : ~InCall(q)'
      BY <1>6 DEF InCall
    <2>2. /\ mode # "closed" => (indep <=> mode = "indep")
          /\ job[r].op = "redef" => mode = "coll"
      BY <1>1 DEF LogInv, Tracked, Flagged, InCall, On
    <2>3. mode' # "closed" => (indep' <=> mode' = "indep")
      BY <1>2, <1>4, <2>2
    <2> QED
      BY <2>1, <2>3 DEF Flagged
  <1>11. ASSUME NEW q \in Rank PROVE Busy[q] /\ (Pending[q] = {} \/ mode = "def")
    <2>1. Busy[q]
      BY <1>1, BusyOf DEF InCall, On
    <2>2. Pending[q] = Items(log[q], job[q].next)
      BY PendingOf
    <2>3. ASSUME log[q] = <<>> PROVE Pending[q] = {}
      BY <1>5, <2>2, <2>3, WrittenNone
    <2>4. ASSUME job[q].next > Len(log[q]) PROVE Pending[q] = {}
      BY <1>5, <2>2, <2>4, NothingLeft
    <2> QED
      BY <1>5, <2>1, <2>3, <2>4 DEF Written
  <1>12. ASSUME NEW q \in Rank PROVE Pending'[q] = {}
    <2>1. log'[q] = <<>>
      <3>1. CASE Closes(job[r].op)
        BY <1>4, <3>1
      <3>2. CASE ~Closes(job[r].op)
        BY <1>3, <1>4, <1>5, <3>2 DEF Written
      <3> QED
        BY <3>1, <3>2
    <2>2. job'[q].next \in Nat \ {0}
      BY <1>6
    <2>3. Items(log'[q], job'[q].next) = {}
      BY <2>1, <2>2, WrittenNone
    <2> QED
      BY <2>3, PendingNext
  <1>13. Promise!End(Rank)
    <2>1. Busy' = [q \in Rank |-> Busy[q] /\ q \notin Rank]
      BY <1>6 DEF Busy, InCall
    <2>2. Pending' = [q \in Rank |-> IF q \in Rank THEN {} ELSE Pending[q]]
      BY <1>12, PendingNext
    <2>3. UNCHANGED file /\ (mode = "def")' \in BOOLEAN
      BY <1>2
    <2> QED
      BY <1>11, <2>1, <2>2, <2>3 DEF Promise!End
  <1>14. Promise!Next
    BY <1>13 DEF Promise!Next
  <1> QED
    BY <1>7, <1>8, <1>9, <1>10, <1>14 DEF Tracked, Allowed

(* What a rank replays: the numbers of the puts of its batch, each in the  *)
(* cells of its put.                                                       *)
LEMMA ReplayedData ==
  ASSUME LogInv, NEW q \in Rank, Batch(q) \subseteq 1 .. Len(log[q]), NEW c, NEW v
  PROVE  <<c, v>> \in Replayed(q)
            <=> \E i \in Valid(q) : c \in ToSet(log[q][i].cells) /\ v = log[q][i].put
  <1> DEFINE g == log[q]
             A(i) == {<<g[i].cells[k], Unit(q, Begins(g)[i - 1] + k)>> : k \in 1 .. Size(g[i])}
  <1>1. Replayed(q) = UNION {A(i) : i \in Valid(q)}
    BY DEF Replayed, Begins
  <1>2. Valid(q) \subseteq 1 .. Len(g)
    BY DEF Valid
  <1>3. ASSUME NEW i \in Valid(q)
        PROVE  <<c, v>> \in A(i) <=> c \in ToSet(g[i].cells) /\ v = g[i].put
    <2> DEFINE s == g[i].cells
               p == g[i].put
               U(k) == Unit(q, Begins(g)[i - 1] + k)
    <2>1. g[i] \in Entry /\ Placed(g, data[q], posted) /\ i \in 1 .. Len(g)
      BY <1>2, RankLog
    <2>2. s \in Seq(1 .. Cells) /\ Len(s) = Size(g[i]) /\ ToSet(s) = {s[k] : k \in 1 .. Len(s)}
      <3>1. s \in Seq(1 .. Cells)
        BY <2>1, BoundAssumption DEF Entry
      <3> QED
        BY <3>1 DEF Size, ToSet
    <2>3. \A k \in 1 .. Len(s) : U(k) = p
      BY <2>1, <2>2 DEF Placed, Unit
    <2>4. A(i) = {<<s[k], U(k)>> : k \in 1 .. Len(s)}
      BY <2>2
    <2> HIDE DEF A, s, p, U
    <2>5. <<c, v>> \in A(i) <=> \E k \in 1 .. Len(s) : c = s[k] /\ v = p
      BY <2>3, <2>4
    <2>6. c \in ToSet(s) <=> \E k \in 1 .. Len(s) : c = s[k]
      BY <2>2
    <2>7. <<c, v>> \in A(i) <=> c \in ToSet(s) /\ v = p
      BY <2>5, <2>6
    <2> QED
      BY <2>7 DEF s, p
  <1> HIDE DEF A
  <1>4. <<c, v>> \in Replayed(q) <=> \E i \in Valid(q) : <<c, v>> \in A(i)
    BY <1>1
  <1> QED
    BY <1>3, <1>4

(* Entries k .. Len(g) are those of the batch B and those from n on; the   *)
(* puts of the batch are earlier than the others.                          *)
Taken(g, B) == {Item(g[i]) : i \in {i \in B : g[i].valid}}

LEMMA PendingBatch ==
  ASSUME NEW g, Len(g) \in Nat, NEW k \in Nat \ {0}, NEW n \in Nat \ {0}, k <= n,
         NEW B \in SUBSET (1 .. Len(g)),
         \A i \in k .. Len(g) : i \in B \/ i \in n .. Len(g),
         \A i \in B : k <= i /\ i < n,
         \A i \in 1 .. Len(g) : g[i].put \in Nat,
         \A i, j \in 1 .. Len(g) : i < j => g[i].put < g[j].put
  PROVE  /\ Items(g, n) = Items(g, k) \ Taken(g, B)
         /\ Taken(g, B) \subseteq Items(g, k)
         /\ \A p \in Taken(g, B), o \in Items(g, n) : p.put < o.put
  <1> DEFINE m == Len(g)
  <1>0. ASSUME NEW p, p \in Taken(g, B)
        PROVE  \E i \in B : g[i].valid /\ p = Item(g[i])
    BY <1>0 DEF Taken
  <1>1. \A i \in n .. m : i \in k .. m /\ i \in 1 .. m
    OBVIOUS
  <1>2. \A i \in B : i \in k .. m /\ i \in 1 .. m
    OBVIOUS
  <1>3. ASSUME NEW p \in Taken(g, B), NEW o \in Items(g, n) PROVE p.put < o.put
    <2>1. PICK i \in B : p = Item(g[i])
      BY <1>0, <1>3
    <2>2. PICK j \in n .. m : o = Item(g[j])
      BY <1>3, InItems
    <2>3. i \in 1 .. m /\ j \in 1 .. m /\ i < j
      BY <1>1, <1>2
    <2>4. g[i].put < g[j].put
      BY <2>3
    <2> QED
      BY <2>1, <2>2, <2>4, ItemPut
  <1>4. \A p \in Taken(g, B), o \in Items(g, n) : p # o
    <2> SUFFICES ASSUME NEW p \in Taken(g, B), p \in Items(g, n) PROVE FALSE
      OBVIOUS
    <2>1. p.put < p.put
      BY <1>3
    <2>2. PICK i \in B : p = Item(g[i])
      BY <1>0
    <2>3. p.put \in Nat
      BY <1>2, <2>2, ItemPut
    <2> QED
      BY <2>1, <2>3
  <1>5. Taken(g, B) \subseteq Items(g, k)
    <2> SUFFICES ASSUME NEW p \in Taken(g, B) PROVE p \in Items(g, k)
      OBVIOUS
    <2>1. PICK i \in B : g[i].valid /\ p = Item(g[i])
      BY <1>0
    <2> QED
      BY <1>2, <2>1, InItems
  <1>6. Items(g, n) \subseteq Items(g, k)
    BY <1>1, InItems
  <1>7. Items(g, k) \subseteq Items(g, n) \cup Taken(g, B)
    BY InItems DEF Taken
  <1> QED
    BY <1>3, <1>4, <1>5, <1>6, <1>7

LEMMA CellsWritten ==
  ASSUME NEW R, WriteCells(R)
  PROVE  /\ DOMAIN file' = 1 .. Cells
         /\ \A c \in 1 .. Cells :
               \/ /\ file'[c] = file[c]
                  /\ \A v \in 0 .. MaxPuts : \A q \in R : <<c, v>> \notin Replayed(q)
               \/ \E q \in R : <<c, file'[c]>> \in Replayed(q)
  <1> DEFINE W == UNION {Replayed(q) : q \in R}
             V(c) == {v \in 0 .. MaxPuts : <<c, v>> \in W}
  <1>1. /\ DOMAIN file' = 1 .. Cells
        /\ \A c \in 1 .. Cells : file'[c] \in IF V(c) = {} THEN {file[c]} ELSE V(c)
    BY DEF WriteCells
  <1>2. \A x : x \in W <=> \E q \in R : x \in Replayed(q)
    OBVIOUS
  <1> HIDE DEF W
  <1>3. ASSUME NEW c \in 1 .. Cells
        PROVE  \/ /\ file'[c] = file[c]
                  /\ \A v \in 0 .. MaxPuts : \A q \in R : <<c, v>> \notin Replayed(q)
               \/ \E q \in R : <<c, file'[c]>> \in Replayed(q)
    <2>1. CASE V(c) = {}
      <3>1. file'[c] = file[c]
        BY <1>1, <2>1
      <3>2. \A v \in 0 .. MaxPuts : <<c, v>> \notin W
        BY <2>1
      <3> QED
        BY <1>2, <3>1, <3>2
    <2>2. CASE V(c) # {}
      <3>1. file'[c] \in V(c)
        BY <1>1, <2>2
      <3>2. <<c, file'[c]>> \in W
        BY <3>1
      <3> QED
        BY <1>2, <3>2
    <2> QED
      BY <2>1, <2>2
  <1> QED
    BY <1>1, <1>3

(* What a round takes from the pending puts of a rank that replays, and    *)
(* that it is no put of another rank.                                      *)
LEMMA RoundTakes ==
  ASSUME LogInv, NEW q \in Rank, On(job[q], "rounds"), log' = log, job'[q] = AfterRound(q)
  PROVE  LET T == Taken(log[q], Batch(q))
         IN  /\ Pending'[q] = Pending[q] \ T
             /\ T \subseteq Pending[q]
             /\ \A p \in T, o \in Pending[q] \ T : p.put < o.put
             /\ \A s \in Rank \ {q} : \A p \in T : p \notin Pending[s]
  <1> DEFINE g == log[q]
             k == job[q].next
             n == AfterRound(q).next
             B == Batch(q)
             T == Taken(g, B)
  <1>1. /\ k \in Nat \ {0} /\ n \in Nat \ {0} /\ Len(g) \in Nat /\ k <= n
        /\ B \subseteq 1 .. Len(g)
        /\ \A i \in k .. Len(g) : i \in B \/ i \in n .. Len(g)
        /\ \A i \in B : k <= i /\ i < n
    BY RoundNext DEF LogInv
  <1>2. /\ \A i \in 1 .. Len(g) : g[i].put \in Nat
        /\ \A i, j \in 1 .. Len(g) : i < j => g[i].put < g[j].put
    <2>1. Placed(g, data[q], posted) /\ posted \in Nat
      BY RankLog
    <2> QED
      BY <2>1 DEF Placed
  <1>3. Pending[q] = Items(g, k) /\ Pending'[q] = Items(g, n)
    BY PendingOf, PendingNext
  <1>4. ASSUME NEW s \in Rank \ {q}, NEW p \in T, p \in Pending[s] PROVE FALSE
    <2>1. PICK i \in B : p = Item(g[i])
      BY DEF Taken
    <2>2. PICK j \in job[s].next .. Len(log[s]) : p = Item(log[s][j])
      BY <1>4, PendingOf, InItems
    <2>3. j \in 1 .. Len(log[s]) /\ i \in 1 .. Len(g)
      BY <1>1, <2>2, RankLog
    <2>4. g[i].put # log[s][j].put
      BY <2>3 DEF LogInv, Tracked, Apart, Disjoint
    <2>5. p.put = g[i].put /\ p.put = log[s][j].put
      BY <2>1, <2>2, ItemPut
    <2> QED
      BY <2>4, <2>5
  <1> HIDE DEF g, k, n, B
  <1>5. /\ Items(g, n) = Items(g, k) \ T /\ T \subseteq Items(g, k)
        /\ \A p \in T, o \in Items(g, n) : p.put < o.put
    BY <1>1, <1>2, PendingBatch
  <1> HIDE DEF T
  <1>6. /\ Pending'[q] = Pending[q] \ T /\ T \subseteq Pending[q]
        /\ \A p \in T, o \in Pending[q] \ T : p.put < o.put
    BY <1>3, <1>5
  <1> QED
    BY <1>4, <1>6 DEF T, g, B

(* The puts that a round of the ranks of R takes from their logs.          *)
AllTaken(R) == UNION {Taken(log[q], Batch(q)) : q \in R}

LEMMA RoundWrites ==
  ASSUME LogInv, NEW R \in SUBSET Rank, WriteCells(R), log' = log, UNCHANGED <<Busy, mode>>,
         \A q \in R : On(job[q], "rounds") /\ job'[q] = AfterRound(q),
         \A q \in Rank \ R : job'[q] = job[q]
  PROVE  Promise!WriteSome
  <1> DEFINE T(q) == Taken(log[q], Batch(q))
             P == AllTaken(R)
  <1>1. ASSUME NEW q \in R
        PROVE  /\ Pending'[q] = Pending[q] \ T(q) /\ T(q) \subseteq Pending[q]
               /\ \A p \in T(q), o \in Pending[q] \ T(q) : p.put < o.put
               /\ \A s \in Rank \ {q} : \A p \in T(q) : p \notin Pending[s]
    BY <1>1, RoundTakes
  <1>2. \A p : p \in P <=> \E q \in R : p \in T(q)
    BY DEF AllTaken
  <1> HIDE DEF P
  <1>3. ASSUME NEW s \in Rank PROVE Pending'[s] = Pending[s] \ P
    <2>1. CASE s \in R
      <3>1. \A q \in R \ {s} : \A p \in T(q) : p \notin Pending[s]
        BY <1>1
      <3>2. \A p \in Pending[s] : p \in P <=> p \in T(s)
        BY <1>2, <2>1, <3>1
      <3> HIDE DEF T
      <3> QED
        BY <1>1, <2>1, <3>2
    <2>2. CASE s \notin R
      <3>1. \A p \in Pending[s] : p \notin P
        BY <1>1, <1>2, <2>2
      <3>2. Pending'[s] = Pending[s]
        BY <2>2, PendingOf, PendingNext
      <3> QED
        BY <3>1, <3>2
    <2> QED
      BY <2>1, <2>2
  <1>4. ASSUME NEW s \in Rank, NEW p \in Pending[s] \cap P
        PROVE  Busy[s] /\ \A o \in Pending[s] \ P : p.put < o.put
    <2>1. s \in R /\ p \in T(s)
      BY <1>1, <1>2, <1>4
    <2>2. Busy[s]
      BY <2>1, BusyOf DEF InCall, On
    <2>3. \A o \in Pending[s] \ P : o \notin T(s)
      BY <1>2, <2>1
    <2> QED
      BY <1>1, <2>1, <2>2, <2>3
  <1>5. Pending' = [s \in Rank |-> Pending[s] \ P]
    BY <1>3, PendingNext
  <1>6. P \in SUBSET UNION {Pending[s] : s \in Rank}
    BY <1>1, <1>2
  <1>7. DOMAIN file' = DOMAIN file
    BY CellsWritten DEF LogInv, BurstInv, Scalars
  <1>8. ASSUME NEW c \in 1 .. Cells
        PROVE  LET here == {p \in P : c \in p.cells}
               IN  file'[c] \in IF here = {} THEN {file[c]} ELSE {p.put : p \in here}
    <2> DEFINE here == {p \in P : c \in p.cells}
    <2>1. ASSUME NEW q \in R, NEW v
          PROVE  <<c, v>> \in Replayed(q) <=> \E p \in T(q) : c \in p.cells /\ v = p.put
      <3>1. Batch(q) \subseteq 1 .. Len(log[q])
        BY RoundNext DEF LogInv
      <3>2. <<c, v>> \in Replayed(q)
               <=> \E i \in Valid(q) : c \in ToSet(log[q][i].cells) /\ v = log[q][i].put
        BY <3>1, ReplayedData
      <3>3. ASSUME NEW i \in Valid(q), c \in ToSet(log[q][i].cells), v = log[q][i].put
            PROVE  \E p \in T(q) : c \in p.cells /\ v = p.put
        <4>1. Item(log[q][i]) \in T(q)
          BY DEF Taken, Valid
        <4> HIDE DEF T
        <4> QED
          BY <3>3, <4>1, ItemPut
      <3>4. ASSUME NEW p \in T(q), c \in p.cells, v = p.put
            PROVE  \E i \in Valid(q) : c \in ToSet(log[q][i].cells) /\ v = log[q][i].put
        <4>1. PICK i \in Valid(q) : p = Item(log[q][i])
          BY DEF Taken, Valid
        <4> QED
          BY <3>4, <4>1, ItemPut
      <3> HIDE DEF T
      <3> QED
        BY <3>2, <3>3, <3>4
    <2>2. \/ /\ file'[c] = file[c]
             /\ \A v \in 0 .. MaxPuts : \A q \in R : <<c, v>> \notin Replayed(q)
          \/ \E q \in R : <<c, file'[c]>> \in Replayed(q)
      BY CellsWritten
    <2>3. \A q \in R : \A p \in T(q) : p.put \in 0 .. MaxPuts
      <3> SUFFICES ASSUME NEW q \in R, NEW p \in T(q) PROVE p.put \in 0 .. MaxPuts
        OBVIOUS
      <3>1. PICK i \in Batch(q) : p = Item(log[q][i])
        BY DEF Taken
      <3>2. i \in 1 .. Len(log[q])
        BY RoundNext DEF LogInv
      <3>3. log[q][i].put \in 1 .. MaxPuts
        BY <3>2, RankLog DEF Entry
      <3>4. p.put \in 1 .. MaxPuts
        BY <3>1, <3>3, ItemPut
      <3> QED
        BY <3>4, BoundAssumption
    <2> HIDE DEF T
    <2>4. CASE \E q \in R : <<c, file'[c]>> \in Replayed(q)
      <3>1. PICK p \in here : file'[c] = p.put
        BY <1>2, <2>1, <2>4
      <3> QED
        BY <3>1
    <2>5. CASE /\ file'[c] = file[c]
               /\ \A v \in 0 .. MaxPuts : \A q \in R : <<c, v>> \notin Replayed(q)
      <3>1. here = {}
        <4> SUFFICES ASSUME NEW p \in P, c \in p.cells PROVE FALSE
          OBVIOUS
        <4>1. PICK q \in R : p \in T(q)
          BY <1>2
        <4>2. <<c, p.put>> \in Replayed(q) /\ p.put \in 0 .. MaxPuts
          BY <2>1, <2>3, <4>1
        <4> QED
          BY <2>5, <4>2
      <3> QED
        BY <2>5, <3>1
    <2> QED
      BY <2>2, <2>4, <2>5
  <1>9. Promise!Write(P)
    <2>1. \A s \in Rank : \A p \in Pending[s] \cap P :
             Busy[s] /\ \A o \in Pending[s] \ P : p.put < o.put
      BY <1>4
    <2>2. UNCHANGED <<Busy, mode = "def">>
      OBVIOUS
    <2> QED
      BY <1>5, <1>8, <2>1, <2>2 DEF Promise!Write
  <1> QED
    BY <1>6, <1>7, <1>9 DEF Promise!WriteSome

LEMMA RoundAllowed ==
  ASSUME LogInv, "read" \notin Faults, NEW r \in Rank, Round(r)
  PROVE  Allowed /\ Tracked'
  <1> DEFINE R == Partners(r)
  <1>1. /\ UNCHANGED <<mode, indep, log, data, biggest, posted>>
        /\ IF Refused THEN UNCHANGED file ELSE WriteCells(R)
    BY DEF Round
  <1>2. /\ \A q \in R : On(job[q], "rounds") /\ job'[q] = AfterRound(q)
        /\ \A q \in Rank \ R : job'[q] = job[q]
    BY Rounded DEF LogInv
  <1>3. R \in SUBSET Rank /\ r \in R
    BY Mine
  <1> HIDE DEF R
  <1>4. AllPlaced' /\ Apart'
    BY <1>1 DEF LogInv, Tracked, AllPlaced, Apart
  <1>5. ASSUME NEW q \in R
        PROVE  /\ job'[q].op = job[q].op /\ job'[q].steps # <<>> /\ job[q].steps # <<>>
               /\ Has(job'[q].steps, "driver") => Has(job[q].steps, "driver")
               /\ On(job'[q], "driver") => Closes(job'[q].op) /\ job'[q].next > Len(log[q])
    <2>1. /\ q \in Rank /\ On(job[q], "rounds") /\ job'[q] = AfterRound(q)
          /\ job[q].steps # <<>> /\ Head(job[q].steps) = "rounds"
      BY <1>2, <1>3, <1>5 DEF On
    <2>2. job'[q].steps \in {job[q].steps, Tail(job[q].steps)} /\ job'[q].op = job[q].op
      BY <2>1, RankRound DEF LogInv
    <2>3. Chained(job[q].steps)
      BY <2>1, HeadFacts DEF LogInv
    <2>4. /\ Tail(job[q].steps) # <<>>
          /\ job[q].steps \in Flushing => Head(Tail(job[q].steps)) = "reset"
      BY <2>1, <2>3 DEF Chained
    <2>5. job[q].steps \in IF Closes(job[q].op) THEN Closing ELSE Flushing
      BY <2>1 DEF LogInv, BurstInv, AtRank, RankInv, JobFor
    <2>6. job'[q].steps # job[q].steps => job'[q].next > Len(log[q])
      BY <2>1, RoundNext DEF LogInv
    <2>7. job'[q].steps = Tail(job[q].steps) => (Has(job'[q].steps, "driver") => Has(job[q].steps, "driver"))
      BY <2>1, StepLeft DEF LogInv
    <2>8. On(job'[q], "driver") => job'[q].steps # job[q].steps
      BY <2>1 DEF On
    <2>9. On(job'[q], "driver") => Closes(job'[q].op)
      BY <2>2, <2>4, <2>5, <2>8 DEF On
    <2> QED
      BY <2>1, <2>2, <2>4, <2>6, <2>7, <2>8, <2>9
  <1>6. Drained'
    <2> SUFFICES ASSUME NEW q \in Rank, On(job'[q], "driver")
                 PROVE  Written(job'[q], log[q], mode)
      BY <1>1 DEF Drained
    <2>1. CASE q \in R
      BY <1>5, <2>1 DEF Written
    <2>2. CASE q \notin R
      BY <1>2, <2>2 DEF LogInv, Tracked, Drained
    <2> QED
      BY <2>1, <2>2
  <1>7. Flagged' /\ OneCall'
    <2>1. \A q \in Rank : /\ job'[q].steps # <<>> => job[q].steps # <<>> /\ job'[q].op = job[q].op
                          /\ Has(job'[q].steps, "driver") => Has(job[q].steps, "driver")
      BY <1>2, <1>5
    <2> QED
      BY <1>1, <2>1, CallsKept
  <1>8. Busy' = Busy
    <2>1. \A q \in Rank : InCall(q)' <=> InCall(q)
      BY <1>2, <1>5 DEF InCall
    <2> QED
      BY <2>1, SameBusy
  <1>9. CASE Refused
    <2>1. mode = "def"
      <3>1. InCall(r)
        BY <1>2, <1>3 DEF InCall, On
      <3>2. mode # "closed" => (indep <=> mode = "indep")
        BY DEF LogInv, Tracked, Flagged
      <3>3. mode # "closed"
        BY <3>1 DEF LogInv, Tracked, Flagged
      <3> QED
        BY <1>9, <3>2, <3>3 DEF Refused
    <2>2. ASSUME NEW q \in Rank PROVE Pending'[q] = Pending[q] \/ Pending'[q] \subseteq Pending[q]
      <3>1. CASE q \in R
        <4>1. Pending'[q] = Pending[q] \ Taken(log[q], Batch(q))
          BY <1>1, <1>2, <3>1, RoundTakes
        <4> QED
          BY <4>1
      <3>2. CASE q \notin R
        BY <1>1, <1>2, <3>2, PendingOf, PendingNext
      <3> QED
        BY <3>1, <3>2
    <2>3. Promise!Drop
      BY <1>1, <1>8, <1>9, <2>1, <2>2, PendingNext DEF Promise!Drop
    <2>4. Promise!Next
      BY <2>3 DEF Promise!Next
    <2> QED
      BY <1>4, <1>6, <1>7, <2>4 DEF Tracked, Allowed
  <1>10. CASE ~Refused
    <2>1. WriteCells(R) /\ log' = log /\ UNCHANGED <<Busy, mode>>
      BY <1>1, <1>8, <1>10
    <2>2. Promise!WriteSome
      BY <1>2, <1>3, <2>1, RoundWrites
    <2>3. Promise!Next
      BY <2>2 DEF Promise!Next
    <2> QED
      BY <1>4, <1>6, <1>7, <2>3 DEF Tracked, Allowed
  <1> QED
    BY <1>9, <1>10

-----------------------------------------------------------------------------
LEMMA LogStart == Init => Tracked /\ Promise!Init
  <1> SUFFICES ASSUME Init PROVE Tracked /\ Promise!Init
    OBVIOUS
  <1>1. BurstInv /\ mode = "coll" /\ ~indep /\ file = [c \in 1 .. Cells |-> 0]
    BY BurstInit DEF Init
  <1>2. \A r \in Rank : /\ log[r] = <<>> /\ data[r] = <<>> /\ job[r].steps = <<>>
                        /\ job[r].next = 1 /\ ~InCall(r)
    BY IdleJob DEF Init, InCall
  <1>3. AllPlaced
    <2> SUFFICES ASSUME NEW r \in Rank PROVE Placed(log[r], data[r], posted)
      BY DEF AllPlaced
    <2> QED
      BY <1>2, PlacedNone
  <1>4. Apart
    <2>1. \A g : Disjoint(<<>>, g)
      <3>1. Len(<<>>) = 0 /\ 1 .. 0 = {}
        OBVIOUS
      <3> QED
        BY <3>1 DEF Disjoint
    <2> QED
      BY <1>2, <2>1 DEF Apart
  <1>5. Drained /\ Flagged /\ OneCall
    BY <1>1, <1>2 DEF Drained, Flagged, OneCall, On, Has
  <1>6. \A r \in Rank : Pending[r] = {}
    <2> SUFFICES ASSUME NEW r \in Rank PROVE Items(log[r], job[r].next) = {}
      BY PendingOf
    <2>1. job[r].next \in Nat \ {0}
      BY <1>2
    <2> QED
      BY <1>2, <2>1, WrittenNone
  <1>7. Pending = [r \in Rank |-> {}]
    BY <1>6, PendingOf
  <1>8. Busy = [r \in Rank |-> FALSE]
    BY <1>2 DEF Busy, InCall
  <1>9. Promise!Init
    BY <1>1, <1>7, <1>8 DEF Promise!Init
  <1> QED
    BY <1>3, <1>4, <1>5, <1>9 DEF Tracked

LEMMA LinkedAllowed ==
  ASSUME LogInv, NEW r \in Rank, NEW c \in Shapes \cup VarnShapes, IPutVarn(r, c)
  PROVE  Allowed /\ Tracked'
  <1> DEFINE id == NextId(putlist[r])
  <1>1. id \in Int
    <2>1. putlist[r] \in Lists /\ GoodList(putlist[r])
      BY DEF LogInv, BurstInv, AtRank, RankInv, RankTypes
    <2>2. 0 \in Nat
      OBVIOUS
    <2>3. id \in Nat
      BY <2>1, <2>2, AddedGood
    <2> HIDE DEF id
    <2> QED
      BY <2>3
  <1>2. LogPut(r, c, id) /\ UNCHANGED <<mode, indep, job, file>> /\ ~InCall(r)
    BY DEF IPutVarn, NonBlocking
  <1> HIDE DEF id
  <1> QED
    BY <1>1, <1>2, PutAllowed

LEMMA PutsAllowed ==
  ASSUME LogInv, NEW r \in Rank, NEW c \in Shapes, PutVar(r, c) \/ IPutVar(r, c)
  PROVE  Allowed /\ Tracked'
  <1>1. CASE PutVar(r, c)
    <2>1. LogPut(r, c, -1) /\ UNCHANGED <<mode, indep, job, file>> /\ ~InCall(r)
      BY <1>1 DEF PutVar, Blocking
    <2>2. -1 \in Int
      OBVIOUS
    <2> QED
      BY <2>1, <2>2, PutAllowed
  <1>2. CASE IPutVarn(r, c)
    BY <1>2, LinkedAllowed
  <1>3. CASE IPutVar(r, c) /\ ~IPutVarn(r, c)
    <2>1. posted' = posted + 1 /\ UNCHANGED <<mode, indep, log, data, job, file>>
      BY <1>3 DEF IPutVar
    <2>2. posted \in Nat
      BY NoJob DEF LogInv
    <2>3. posted' \in Nat /\ posted <= posted'
      BY <2>1, <2>2
    <2> QED
      BY <2>1, <2>3, NothingSeen
  <1> QED
    BY <1>1, <1>2, <1>3

LEMMA LogNext ==
  ASSUME LogInv, "read" \notin Faults, ~RedefIndep, Next
  PROVE  Allowed /\ LogInv'
  <1>1. BurstInv'
    BY BurstNext DEF LogInv
  <1>2. ASSUME NEW r \in Rank, NEW c \in Shapes, PutVar(r, c) \/ IPutVar(r, c)
        PROVE  Allowed /\ Tracked'
    BY <1>2, PutsAllowed
  <1>3. ASSUME NEW r \in Rank, NEW c \in VarnShapes, PutVarn(r, c)
        PROVE  Allowed /\ Tracked'
    <2>1. LogPut(r, c, -1) /\ UNCHANGED <<mode, indep, job, file>> /\ ~InCall(r)
      BY <1>3 DEF PutVarn, Blocking
    <2>2. -1 \in Int /\ c \in Shapes \cup VarnShapes
      OBVIOUS
    <2> QED
      BY <2>1, <2>2, PutAllowed
  <1>4. ASSUME NEW r \in Rank, NEW c \in VarnShapes, IPutVarn(r, c)
        PROVE  Allowed /\ Tracked'
    <2>1. c \in Shapes \cup VarnShapes
      OBVIOUS
    <2> QED
      BY <1>4, <2>1, LinkedAllowed
  <1>5. ASSUME NEW r \in Rank, NEW id, CancelPutReq(r, id) PROVE Allowed /\ Tracked'
    BY <1>5, CancelAllowed
  <1>6. ASSUME NEW r \in Rank, NEW op \in Ops, IndependentCall(r, op)
        PROVE  Allowed /\ Tracked'
    BY <1>6, AloneAllowed
  <1>7. ASSUME NEW r \in Rank, Step(r) PROVE Allowed /\ Tracked'
    <2>1. CASE Reduce(r)
      BY <2>1, ReduceAllowed
    <2>2. CASE Round(r)
      BY <2>2, RoundAllowed
    <2>3. CASE Reset(r)
      BY <2>3, ResetAllowed
    <2>4. CASE Handle(r)
      BY <2>4, HandleAllowed
    <2>5. CASE Driver(r)
      BY <2>5, DriverAllowed
    <2> QED
      BY <1>7, <2>1, <2>2, <2>3, <2>4, <2>5 DEF Step
  <1>8. ASSUME NEW op \in Ops, CollectiveCall(op) PROVE Allowed /\ Tracked'
    BY <1>8, TogetherAllowed
  <1>9. ASSUME BeginIndepData \/ EndIndepData \/ EndDef \/ Open PROVE Allowed /\ Tracked'
    BY <1>9, SwitchAllowed
  <1>10. Allowed /\ Tracked'
    BY <1>2, <1>3, <1>4, <1>5, <1>6, <1>7, <1>8, <1>9 DEF Next
  <1> QED
    BY <1>1, <1>10 DEF LogInv

LEMMA LogStutter ==
  ASSUME LogInv, UNCHANGED vars
  PROVE  Allowed /\ LogInv'
  <1>1. posted \in Nat /\ UNCHANGED <<mode, indep, log, data, job, file, posted>>
    BY BoundAssumption DEF LogInv, BurstInv, Scalars, vars
  <1>2. posted' \in Nat /\ posted <= posted'
    BY <1>1
  <1>3. Allowed /\ Tracked'
    BY <1>1, <1>2, NothingSeen
  <1> QED
    BY <1>3, BurstStutter DEF LogInv

(***************************************************************************)
(* The logs of the ranks, their batches and rounds implement the promise   *)
(* of the driver: a put that has returned reaches the file once, whole,    *)
(* with its own data and after the earlier puts of its rank, and before    *)
(* the next call that flushes returns; only a cancel or a call in define   *)
(* mode drops one.                                                         *)
(***************************************************************************)
THEOREM LogImplemented ==
  ASSUME "read" \notin Faults, ~RedefIndep PROVE Spec => ImplementsLogPromise
  <1>1. Init => LogInv /\ Promise!Init
    BY BurstInit, LogStart DEF LogInv
  <1>2. LogInv /\ [Next]_vars => LogInv' /\ [Promise!Next]_Seen
    BY LogNext, LogStutter DEF Allowed
  <1> QED
    BY <1>1, <1>2, PTL DEF Spec, ImplementsLogPromise, Promise!Spec, Promise!vars, Seen
=============================================================================
