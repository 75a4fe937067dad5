-------------------------- MODULE CollectiveProofs --------------------------
(***************************************************************************)
(* What the ranks of RecordCount have in common.  Ranks run ahead of each  *)
(* other between two collective operations, so nothing can be said of two  *)
(* ranks by comparing their states: the invariant says instead which       *)
(* operations, modes and counts all of them are still heading for.         *)
(***************************************************************************)
EXTENDS RecordCountProofs, LoopLemmas

-----------------------------------------------------------------------------
(***************************************************************************)
(* The steps that are left of a call: which ones, in what order, with what *)
(* effect on the mode, and which collective operations are among them.     *)
(***************************************************************************)
Has(s, x) == \E i \in 1 .. Len(s) : s[i] = x

LEMMA HasEmpty == \A x : ~Has(<< >>, x)
  BY DEF Has

LEMMA HasOne == \A x, y : Has(<<y>>, x) <=> x = y
  BY DEF Has

LEMMA HasTail ==
  ASSUME NEW S, NEW s \in Seq(S), s # << >>, NEW x
  PROVE  Has(s, x) <=> (Head(s) = x \/ Has(Tail(s), x))
  <1>1. /\ Len(s) \in Nat /\ Len(s) >= 1 /\ Head(s) = s[1]
        /\ Len(Tail(s)) = Len(s) - 1
        /\ \A i \in 1 .. Len(s) - 1 : Tail(s)[i] = s[i + 1]
    OBVIOUS
  <1>2. ASSUME NEW i \in 1 .. Len(s), s[i] = x PROVE Head(s) = x \/ Has(Tail(s), x)
    <2>1. CASE i = 1
      BY <1>1, <1>2, <2>1
    <2>2. CASE i # 1
      <3>1. i - 1 \in 1 .. Len(s) - 1 /\ (i - 1) + 1 = i
        BY <1>1, <2>2
      <3> QED
        BY <1>1, <1>2, <3>1 DEF Has
    <2> QED
      BY <2>1, <2>2
  <1>3. ASSUME NEW i \in 1 .. Len(Tail(s)), Tail(s)[i] = x PROVE Has(s, x)
    <2>1. i + 1 \in 1 .. Len(s) /\ s[i + 1] = x
      BY <1>1, <1>3
    <2> QED
      BY <2>1 DEF Has
  <1>4. Head(s) = x => Has(s, x)
    BY <1>1 DEF Has
  <1> QED
    BY <1>2, <1>3, <1>4 DEF Has

LEMMA HasConcat ==
  ASSUME NEW S, NEW s \in Seq(S), NEW t \in Seq(S), NEW x
  PROVE  Has(s \o t, x) <=> (Has(s, x) \/ Has(t, x))
  <1>1. /\ Len(s) \in Nat /\ Len(t) \in Nat /\ Len(s \o t) = Len(s) + Len(t)
        /\ \A i \in 1 .. Len(s) + Len(t) :
             (s \o t)[i] = IF i <= Len(s) THEN s[i] ELSE t[i - Len(s)]
    OBVIOUS
  <1>2. ASSUME NEW i \in 1 .. Len(s \o t), (s \o t)[i] = x PROVE Has(s, x) \/ Has(t, x)
    <2>1. CASE i <= Len(s)
      BY <1>1, <1>2, <2>1 DEF Has
    <2>2. CASE i > Len(s)
      <3>1. i - Len(s) \in 1 .. Len(t) /\ t[i - Len(s)] = x
        BY <1>1, <1>2, <2>2
      <3> QED
        BY <3>1 DEF Has
    <2> QED
      BY <1>1, <2>1, <2>2
  <1>3. ASSUME NEW i \in 1 .. Len(s), s[i] = x PROVE Has(s \o t, x)
    BY <1>1, <1>3 DEF Has
  <1>4. ASSUME NEW i \in 1 .. Len(t), t[i] = x PROVE Has(s \o t, x)
    <2>1. Len(s) + i \in 1 .. Len(s) + Len(t) /\ (Len(s) + i) - Len(s) = i
          /\ ~(Len(s) + i <= Len(s))
      BY <1>1
    <2>2. (s \o t)[Len(s) + i] = x
      BY <1>1, <1>4, <2>1
    <2> QED
      BY <1>1, <2>1, <2>2 DEF Has
  <1> QED
    BY <1>2, <1>3, <1>4 DEF Has

LEMMA HasWhen ==
  ASSUME NEW flag \in BOOLEAN, NEW s, NEW x
  PROVE  Has(When(flag, s), x) <=> (flag /\ Has(s, x))
  <1>1. CASE flag
    BY <1>1 DEF When
  <1>2. CASE ~flag
    BY <1>2, HasEmpty DEF When
  <1> QED
    BY <1>1, <1>2

(* The steps of a call that are tied to each other come in this order.     *)
Stage(x) ==
    IF x \in {"reduce", "vote"} THEN 1
    ELSE IF x = "publish" THEN 2
    ELSE IF x \in {"grow", "adopt"} THEN 3
    ELSE IF x \in {"leave", "enddef", "discard"} THEN 4
    ELSE IF x \in {"define", "close"} THEN 5
    ELSE 0

LEMMA Stages ==
  /\ Stage("reduce") = 1 /\ Stage("vote") = 1 /\ Stage("publish") = 2
  /\ Stage("grow") = 3 /\ Stage("adopt") = 3
  /\ Stage("leave") = 4 /\ Stage("enddef") = 4 /\ Stage("discard") = 4
  /\ Stage("define") = 5 /\ Stage("close") = 5
  /\ Stage("agree") = 0 /\ Stage("barrier") = 0 /\ Stage("bcast") = 0
  /\ Stage("check") = 0 /\ Stage("header") = 0
  BY DEF Stage

Precedes(x, y) == Stage(x) # 0 /\ Stage(y) # 0 => Stage(x) < Stage(y)

Ordered(s) == \A i, j \in 1 .. Len(s) : i < j => Precedes(s[i], s[j])

LEMMA OrderedShort == Ordered(<< >>) /\ \A x : Ordered(<<x>>)
  BY DEF Ordered

LEMMA OrderedWhen ==
  ASSUME NEW flag \in BOOLEAN, NEW s, Ordered(s)
  PROVE  Ordered(When(flag, s))
  BY OrderedShort, Zenon DEF When

LEMMA OrderedTail ==
  ASSUME NEW S, NEW s \in Seq(S), s # << >>, Ordered(s)
  PROVE  /\ Ordered(Tail(s))
         /\ \A x : Has(Tail(s), x) => Precedes(Head(s), x)
  <1>1. /\ Len(s) \in Nat /\ Len(s) >= 1 /\ Head(s) = s[1]
        /\ Len(Tail(s)) = Len(s) - 1
        /\ \A i \in 1 .. Len(s) - 1 : Tail(s)[i] = s[i + 1]
    OBVIOUS
  <1>2. ASSUME NEW i \in 1 .. Len(Tail(s)), NEW j \in 1 .. Len(Tail(s)), i < j
        PROVE  Precedes(Tail(s)[i], Tail(s)[j])
    <2>1. i + 1 \in 1 .. Len(s) /\ j + 1 \in 1 .. Len(s) /\ i + 1 < j + 1
      BY <1>1, <1>2
    <2> QED
      BY <1>1, <2>1 DEF Ordered
  <1>3. ASSUME NEW i \in 1 .. Len(Tail(s)) PROVE Precedes(Head(s), Tail(s)[i])
    <2>1. 1 \in 1 .. Len(s) /\ i + 1 \in 1 .. Len(s) /\ 1 < i + 1
      BY <1>1
    <2> QED
      BY <1>1, <2>1 DEF Ordered
  <1> QED
    BY <1>2, <1>3 DEF Ordered, Has

LEMMA OrderedConcat ==
  ASSUME NEW S, NEW s \in Seq(S), NEW t \in Seq(S), Ordered(s), Ordered(t),
         \A x, y : Has(s, x) /\ Has(t, y) => Precedes(x, y)
  PROVE  Ordered(s \o t)
  <1>1. /\ Len(s) \in Nat /\ Len(t) \in Nat /\ Len(s \o t) = Len(s) + Len(t)
        /\ \A i \in 1 .. Len(s) + Len(t) :
             (s \o t)[i] = IF i <= Len(s) THEN s[i] ELSE t[i - Len(s)]
    OBVIOUS
  <1> SUFFICES ASSUME NEW i \in 1 .. Len(s \o t), NEW j \in 1 .. Len(s \o t), i < j
               PROVE  Precedes((s \o t)[i], (s \o t)[j])
    BY DEF Ordered
  <1>2. CASE j <= Len(s)
    BY <1>1, <1>2 DEF Ordered
  <1>3. CASE i <= Len(s) /\ ~(j <= Len(s))
    <2>1. j - Len(s) \in 1 .. Len(t) /\ i \in 1 .. Len(s)
      BY <1>1, <1>3
    <2>2. Has(s, s[i]) /\ Has(t, t[j - Len(s)])
      BY <2>1 DEF Has
    <2> QED
      BY <1>1, <1>3, <2>2
  <1>4. CASE ~(i <= Len(s))
    <2>1. /\ j - Len(s) \in 1 .. Len(t) /\ i - Len(s) \in 1 .. Len(t)
          /\ i - Len(s) < j - Len(s) /\ ~(j <= Len(s))
      BY <1>1, <1>4
    <2> QED
      BY <1>1, <1>4, <2>1 DEF Ordered
  <1> QED
    BY <1>1, <1>2, <1>3, <1>4

(* The mode the steps s lead to from mode m. *)
EndMode(m, s) ==
    IF Has(s, "close") THEN "closed"
    ELSE IF Has(s, "define") THEN "def"
    ELSE IF Has(s, "leave") \/ Has(s, "enddef") \/ Has(s, "discard") THEN "coll"
    ELSE m

Changers == {"leave", "enddef", "discard", "define", "close"}

(* The mode one step leads to. *)
StepMode(m, x) ==
    IF x \in {"leave", "enddef", "discard"} THEN "coll"
    ELSE IF x = "define" THEN "def"
    ELSE IF x = "close" THEN "closed"
    ELSE m

LEMMA EndModeEmpty == \A m : EndMode(m, << >>) = m
  BY HasEmpty DEF EndMode

LEMMA EndModeTail ==
  ASSUME NEW S, NEW s \in Seq(S), s # << >>, Ordered(s), NEW m
  PROVE  EndMode(StepMode(m, Head(s)), Tail(s)) = EndMode(m, s)
  <1>1. \A x : Has(s, x) <=> (Head(s) = x \/ Has(Tail(s), x))
    BY HasTail
  <1>2. \A x : Has(Tail(s), x) => Precedes(Head(s), x)
    BY OrderedTail
  <1> DEFINE h == Head(s)
             t == Tail(s)
  <1> HIDE DEF h, t
  <1>3. /\ \A x : Has(s, x) <=> (h = x \/ Has(t, x))
        /\ \A x : Has(t, x) => Precedes(h, x)
    BY <1>1, <1>2 DEF h, t
  <1>4. CASE h \in {"define", "close"}
    <2>1. /\ ~Has(t, "close") /\ ~Has(t, "define") /\ ~Has(t, "leave")
          /\ ~Has(t, "enddef") /\ ~Has(t, "discard")
      BY <1>3, <1>4, Stages DEF Precedes
    <2> QED
      BY <1>3, <1>4, <2>1 DEF EndMode, StepMode, h, t
  <1>5. CASE h \in {"leave", "enddef", "discard"}
    <2>1. ~Has(t, "leave") /\ ~Has(t, "enddef") /\ ~Has(t, "discard")
      BY <1>3, <1>5, Stages DEF Precedes
    <2> QED
      BY <1>3, <1>5, <2>1 DEF EndMode, StepMode, h, t
  <1>6. CASE h \notin Changers
    BY <1>3, <1>6 DEF EndMode, StepMode, Changers, h, t
  <1> QED
    BY <1>4, <1>5, <1>6 DEF Changers

(***************************************************************************)
(* K is the sequence of the collective operations among the steps s.       *)
(***************************************************************************)
Meets(s, K) ==
    \E f \in [1 .. Len(K) -> 1 .. Len(s)] :
      /\ \A i \in 1 .. Len(K) : s[f[i]] = K[i]
      /\ \A i, j \in 1 .. Len(K) : i < j => f[i] < f[j]
      /\ \A p \in 1 .. Len(s) : s[p] \in Meeting => \E i \in 1 .. Len(K) : f[i] = p

LEMMA MeetsEmpty ==
  ASSUME NEW K \in Seq(Meeting), Meets(<< >>, K)
  PROVE  K = << >>
  <1>1. PICK f \in [1 .. Len(K) -> 1 .. Len(<< >>)] : TRUE
    BY DEF Meets
  <1>2. ASSUME Len(K) # 0 PROVE FALSE
    <2>1. 1 \in 1 .. Len(K) /\ Len(<< >>) = 0
      BY <1>2
    <2>2. f[1] \in 1 .. 0
      BY <1>1, <2>1
    <2> QED
      BY <2>2
  <1> QED
    BY <1>2

LEMMA MeetsShort ==
  /\ Meets(<< >>, << >>)
  /\ \A x \in Meeting : Meets(<<x>>, <<x>>)
  /\ \A x : x \notin Meeting => Meets(<<x>>, << >>)
  <1>1. Meets(<< >>, << >>)
    <2>1. [i \in 1 .. 0 |-> i] \in [1 .. Len(<< >>) -> 1 .. Len(<< >>)]
      OBVIOUS
    <2> QED
      BY <2>1 DEF Meets
  <1>2. ASSUME NEW x \in Meeting PROVE Meets(<<x>>, <<x>>)
    <2> DEFINE f == [i \in 1 .. 1 |-> i]
    <2>1. f \in [1 .. Len(<<x>>) -> 1 .. Len(<<x>>)]
      OBVIOUS
    <2>2. /\ \A i \in 1 .. Len(<<x>>) : <<x>>[f[i]] = <<x>>[i]
          /\ \A i, j \in 1 .. Len(<<x>>) : i < j => f[i] < f[j]
          /\ \A p \in 1 .. Len(<<x>>) : <<x>>[p] \in Meeting
               => \E i \in 1 .. Len(<<x>>) : f[i] = p
      OBVIOUS
    <2> HIDE DEF f
    <2> QED
      BY <2>1, <2>2 DEF Meets
  <1>3. ASSUME NEW x, x \notin Meeting PROVE Meets(<<x>>, << >>)
    <2> DEFINE f == [i \in 1 .. 0 |-> 1]
    <2>1. f \in [1 .. Len(<< >>) -> 1 .. Len(<<x>>)]
      OBVIOUS
    <2>2. \A p \in 1 .. Len(<<x>>) : <<x>>[p] \notin Meeting
      BY <1>3
    <2>3. /\ \A i \in 1 .. Len(<< >>) : <<x>>[f[i]] = << >>[i]
          /\ \A i, j \in 1 .. Len(<< >>) : i < j => f[i] < f[j]
      OBVIOUS
    <2> HIDE DEF f
    <2> QED
      BY <2>1, <2>2, <2>3 DEF Meets
  <1> QED
    BY <1>1, <1>2, <1>3

LEMMA MeetsWhen ==
  ASSUME NEW flag \in BOOLEAN, NEW s, NEW K, Meets(s, K)
  PROVE  Meets(When(flag, s), When(flag, K))
  BY MeetsShort, Zenon DEF When

LEMMA MeetsWhenLocal ==
  ASSUME NEW flag \in BOOLEAN, NEW s, Meets(s, << >>)
  PROVE  Meets(When(flag, s), << >>)
  BY MeetsShort, Zenon DEF When

LEMMA MeetsHas ==
  ASSUME NEW K \in Seq(Meeting), NEW s, Meets(s, K), NEW x \in Meeting
  PROVE  Has(s, x) <=> Has(K, x)
  <1>1. PICK f \in [1 .. Len(K) -> 1 .. Len(s)] :
               /\ \A i \in 1 .. Len(K) : s[f[i]] = K[i]
               /\ \A p \in 1 .. Len(s) : s[p] \in Meeting => \E i \in 1 .. Len(K) : f[i] = p
    BY DEF Meets
  <1>2. ASSUME NEW p \in 1 .. Len(s), s[p] = x PROVE Has(K, x)
    <2>1. PICK i \in 1 .. Len(K) : f[i] = p
      BY <1>1, <1>2
    <2>2. K[i] = x
      BY <1>1, <1>2, <2>1
    <2> QED
      BY <2>2 DEF Has
  <1>3. ASSUME NEW i \in 1 .. Len(K), K[i] = x PROVE Has(s, x)
    <2>1. f[i] \in 1 .. Len(s) /\ s[f[i]] = x
      BY <1>1, <1>3
    <2> QED
      BY <2>1 DEF Has
  <1> QED
    BY <1>2, <1>3 DEF Has

(* A step that is not collective leaves the operations to come as they are.*)
LEMMA MeetsTailLocal ==
  ASSUME NEW S, NEW s \in Seq(S), s # << >>, NEW K \in Seq(Meeting), Meets(s, K),
         Head(s) \notin Meeting
  PROVE  Meets(Tail(s), K)
  <1>1. /\ Len(s) \in Nat /\ Len(s) >= 1 /\ Head(s) = s[1] /\ Len(K) \in Nat
        /\ Len(Tail(s)) = Len(s) - 1
        /\ \A i \in 1 .. Len(s) - 1 : Tail(s)[i] = s[i + 1]
        /\ \A i \in 1 .. Len(K) : K[i] \in Meeting
    OBVIOUS
  <1>2. PICK f \in [1 .. Len(K) -> 1 .. Len(s)] :
               /\ \A i \in 1 .. Len(K) : s[f[i]] = K[i]
               /\ \A i, j \in 1 .. Len(K) : i < j => f[i] < f[j]
               /\ \A p \in 1 .. Len(s) : s[p] \in Meeting => \E i \in 1 .. Len(K) : f[i] = p
    BY DEF Meets
  <1> DEFINE g == [i \in 1 .. Len(K) |-> f[i] - 1]
  <1>3. \A i \in 1 .. Len(K) : f[i] \in 1 .. Len(s) /\ f[i] # 1
    BY <1>1, <1>2
  <1>4. \A i \in 1 .. Len(K) : /\ g[i] = f[i] - 1 /\ g[i] \in 1 .. Len(Tail(s))
                               /\ Tail(s)[g[i]] = K[i]
    BY <1>1, <1>2, <1>3
  <1>5. g \in [1 .. Len(K) -> 1 .. Len(Tail(s))]
    BY <1>4
  <1>6. \A i, j \in 1 .. Len(K) : i < j => g[i] < g[j]
    BY <1>2, <1>3, <1>4
  <1>7. ASSUME NEW p \in 1 .. Len(Tail(s)), Tail(s)[p] \in Meeting
        PROVE  \E i \in 1 .. Len(K) : g[i] = p
    <2>1. p + 1 \in 1 .. Len(s) /\ s[p + 1] \in Meeting
      BY <1>1, <1>7
    <2>2. PICK i \in 1 .. Len(K) : f[i] = p + 1
      BY <1>2, <2>1
    <2> QED
      BY <1>4, <2>2
  <1> HIDE DEF g
  <1> QED
    BY <1>4, <1>5, <1>6, <1>7 DEF Meets

(* A collective step is the first operation to come.                       *)
LEMMA MeetsTailMeeting ==
  ASSUME NEW S, NEW s \in Seq(S), s # << >>, NEW K \in Seq(Meeting), Meets(s, K),
         Head(s) \in Meeting
  PROVE  /\ K # << >> /\ Head(K) = Head(s)
         /\ Tail(K) \in Seq(Meeting) /\ Meets(Tail(s), Tail(K))
  <1>1. /\ Len(s) \in Nat /\ Len(s) >= 1 /\ Head(s) = s[1] /\ Len(K) \in Nat
        /\ Len(Tail(s)) = Len(s) - 1
        /\ \A i \in 1 .. Len(s) - 1 : Tail(s)[i] = s[i + 1]
        /\ \A i \in 1 .. Len(K) : K[i] \in Meeting
    OBVIOUS
  <1>2. PICK f \in [1 .. Len(K) -> 1 .. Len(s)] :
               /\ \A i \in 1 .. Len(K) : s[f[i]] = K[i]
               /\ \A i, j \in 1 .. Len(K) : i < j => f[i] < f[j]
               /\ \A p \in 1 .. Len(s) : s[p] \in Meeting => \E i \in 1 .. Len(K) : f[i] = p
    BY DEF Meets
  <1>3. \A i \in 1 .. Len(K) : f[i] \in 1 .. Len(s)
    BY <1>2
  <1>4. PICK i1 \in 1 .. Len(K) : f[i1] = 1
    BY <1>1, <1>2
  <1>5. Len(K) >= 1 /\ K # << >> /\ i1 \in Nat /\ i1 >= 1 /\ 1 \in 1 .. Len(K)
    BY <1>1, <1>4
  <1>6. i1 = 1
    <2> SUFFICES ASSUME 1 < i1 PROVE FALSE
      BY <1>5
    <2>1. f[1] < f[i1]
      BY <1>2, <1>5
    <2> QED
      BY <1>3, <1>4, <1>5, <2>1
  <1>7. f[1] = 1 /\ s[1] = K[1]
    BY <1>2, <1>4, <1>5, <1>6
  <1>8. /\ Tail(K) \in Seq(Meeting) /\ Head(K) = K[1]
        /\ Len(Tail(K)) = Len(K) - 1
        /\ \A i \in 1 .. Len(K) - 1 : Tail(K)[i] = K[i + 1]
    BY <1>5
  <1> DEFINE g == [i \in 1 .. Len(K) - 1 |-> f[i + 1] - 1]
  <1>9. \A i \in 1 .. Len(K) - 1 : /\ i + 1 \in 1 .. Len(K) /\ 1 < i + 1
                                   /\ f[i + 1] \in 1 .. Len(s) /\ f[i + 1] > 1
    BY <1>1, <1>2, <1>3, <1>5, <1>7
  <1>10. \A i \in 1 .. Len(K) - 1 : g[i] = f[i + 1] - 1 /\ g[i] \in 1 .. Len(Tail(s))
    BY <1>1, <1>9
  <1>11. \A i \in 1 .. Len(K) - 1 : Tail(s)[g[i]] = Tail(K)[i]
    <2> TAKE i \in 1 .. Len(K) - 1
    <2>1. g[i] \in 1 .. Len(s) - 1 /\ g[i] + 1 = f[i + 1]
      BY <1>1, <1>9, <1>10
    <2> HIDE DEF g
    <2>2. Tail(s)[g[i]] = s[f[i + 1]]
      BY <1>1, <2>1
    <2> QED
      BY <1>2, <1>8, <1>9, <2>2
  <1>12. g \in [1 .. Len(Tail(K)) -> 1 .. Len(Tail(s))]
    BY <1>8, <1>10
  <1>13. ASSUME NEW i \in 1 .. Len(K) - 1, NEW j \in 1 .. Len(K) - 1, i < j
         PROVE  g[i] < g[j]
    <2>1. f[i + 1] < f[j + 1]
      BY <1>2, <1>9, <1>13
    <2> QED
      BY <1>9, <1>10, <2>1
  <1>14. ASSUME NEW p \in 1 .. Len(Tail(s)), Tail(s)[p] \in Meeting
         PROVE  \E i \in 1 .. Len(K) - 1 : g[i] = p
    <2>1. p + 1 \in 1 .. Len(s) /\ s[p + 1] \in Meeting /\ p + 1 # 1
      BY <1>1, <1>14
    <2>2. PICK i \in 1 .. Len(K) : f[i] = p + 1
      BY <1>2, <2>1
    <2>3. i - 1 \in 1 .. Len(K) - 1 /\ (i - 1) + 1 = i
      BY <1>1, <1>7, <2>1, <2>2
    <2>4. g[i - 1] = f[i] - 1
      BY <1>10, <2>3
    <2>5. g[i - 1] = p
      BY <1>1, <2>2, <2>4
    <2> QED
      BY <2>3, <2>5
  <1> HIDE DEF g
  <1>15. Meets(Tail(s), Tail(K))
    <2> DEFINE n == Len(K) - 1
    <2>1. Len(Tail(K)) = n /\ g \in [1 .. n -> 1 .. Len(Tail(s))]
      BY <1>8, <1>12
    <2>2. /\ \A i \in 1 .. n : Tail(s)[g[i]] = Tail(K)[i]
          /\ \A i, j \in 1 .. n : i < j => g[i] < g[j]
          /\ \A p \in 1 .. Len(Tail(s)) : Tail(s)[p] \in Meeting => \E i \in 1 .. n : g[i] = p
      BY <1>11, <1>13, <1>14
    <2> HIDE DEF n
    <2> QED
      BY <2>1, <2>2, Zenon DEF Meets
  <1> QED
    BY <1>1, <1>5, <1>7, <1>8, <1>15

LEMMA MeetsConcat ==
  ASSUME NEW S, NEW s \in Seq(S), NEW t \in Seq(S),
         NEW K \in Seq(Meeting), NEW L \in Seq(Meeting), Meets(s, K), Meets(t, L)
  PROVE  Meets(s \o t, K \o L)
  <1> DEFINE u == s \o t
             M == K \o L
  <1>1. /\ Len(s) \in Nat /\ Len(t) \in Nat /\ Len(K) \in Nat /\ Len(L) \in Nat
        /\ Len(u) = Len(s) + Len(t) /\ Len(M) = Len(K) + Len(L)
        /\ \A i \in 1 .. Len(s) + Len(t) : u[i] = IF i <= Len(s) THEN s[i] ELSE t[i - Len(s)]
        /\ \A i \in 1 .. Len(K) + Len(L) : M[i] = IF i <= Len(K) THEN K[i] ELSE L[i - Len(K)]
    OBVIOUS
  <1> HIDE DEF u, M
  <1>2. PICK f \in [1 .. Len(K) -> 1 .. Len(s)] :
               /\ \A i \in 1 .. Len(K) : s[f[i]] = K[i]
               /\ \A i, j \in 1 .. Len(K) : i < j => f[i] < f[j]
               /\ \A p \in 1 .. Len(s) : s[p] \in Meeting => \E i \in 1 .. Len(K) : f[i] = p
    BY DEF Meets
  <1>3. PICK g \in [1 .. Len(L) -> 1 .. Len(t)] :
               /\ \A i \in 1 .. Len(L) : t[g[i]] = L[i]
               /\ \A i, j \in 1 .. Len(L) : i < j => g[i] < g[j]
               /\ \A p \in 1 .. Len(t) : t[p] \in Meeting => \E i \in 1 .. Len(L) : g[i] = p
    BY DEF Meets
  <1> DEFINE h == [i \in 1 .. Len(M) |-> IF i <= Len(K) THEN f[i] ELSE Len(s) + g[i - Len(K)]]
  <1>4. \A i \in 1 .. Len(K) : /\ i \in 1 .. Len(M) /\ f[i] \in 1 .. Len(s) /\ h[i] = f[i]
                               /\ u[h[i]] = M[i] /\ h[i] \in 1 .. Len(u)
    <2> TAKE i \in 1 .. Len(K)
    <2>1. i \in 1 .. Len(M) /\ f[i] \in 1 .. Len(s) /\ h[i] = f[i] /\ i <= Len(K)
      BY <1>1, <1>2
    <2>2. f[i] \in 1 .. Len(s) + Len(t) /\ f[i] <= Len(s) /\ i \in 1 .. Len(K) + Len(L)
      BY <1>1, <2>1
    <2>3. u[f[i]] = s[f[i]] /\ M[i] = K[i]
      BY <1>1, <2>1, <2>2
    <2>4. s[f[i]] = K[i]
      BY <1>2
    <2> HIDE DEF h
    <2> QED
      BY <1>1, <2>1, <2>2, <2>3, <2>4
  <1>5. \A i \in 1 .. Len(M) : ~(i <= Len(K)) =>
           /\ i - Len(K) \in 1 .. Len(L) /\ g[i - Len(K)] \in 1 .. Len(t)
           /\ h[i] = Len(s) + g[i - Len(K)]
    <2> SUFFICES ASSUME NEW i \in 1 .. Len(M), ~(i <= Len(K))
                 PROVE  /\ i - Len(K) \in 1 .. Len(L) /\ g[i - Len(K)] \in 1 .. Len(t)
                        /\ h[i] = Len(s) + g[i - Len(K)]
      OBVIOUS
    <2>1. h[i] = Len(s) + g[i - Len(K)]
      OBVIOUS
    <2> HIDE DEF h
    <2>2. i - Len(K) \in 1 .. Len(L)
      BY <1>1
    <2>3. g[i - Len(K)] \in 1 .. Len(t)
      BY <1>3, <2>2
    <2> QED
      BY <2>1, <2>2, <2>3
  <1> HIDE DEF h
  <1>6. \A i \in 1 .. Len(M) : ~(i <= Len(K)) => h[i] \in 1 .. Len(u) /\ ~(h[i] <= Len(s))
                                                  /\ h[i] - Len(s) = g[i - Len(K)]
    BY <1>1, <1>5
  <1>7. ASSUME NEW i \in 1 .. Len(M), ~(i <= Len(K)) PROVE u[h[i]] = M[i]
    <2>1. /\ h[i] \in 1 .. Len(s) + Len(t) /\ i \in 1 .. Len(K) + Len(L)
          /\ ~(h[i] <= Len(s)) /\ h[i] - Len(s) = g[i - Len(K)]
      BY <1>1, <1>6, <1>7
    <2>2. u[h[i]] = t[g[i - Len(K)]] /\ M[i] = L[i - Len(K)]
      BY <1>1, <1>7, <2>1
    <2>3. i - Len(K) \in 1 .. Len(L)
      BY <1>5, <1>7
    <2> QED
      BY <1>3, <2>2, <2>3
  <1>8. h \in [1 .. Len(M) -> 1 .. Len(u)]
    <2>1. \A i \in 1 .. Len(M) : h[i] \in 1 .. Len(u)
      BY <1>1, <1>4, <1>6
    <2> QED
      BY <2>1 DEF h
  <1>9. ASSUME NEW i \in 1 .. Len(M), NEW j \in 1 .. Len(M), i < j PROVE h[i] < h[j]
    <2>1. CASE j <= Len(K)
      BY <1>1, <1>2, <1>4, <1>9, <2>1
    <2>2. CASE i <= Len(K) /\ ~(j <= Len(K))
      <3>1. h[i] \in 1 .. Len(s)
        BY <1>1, <1>4, <2>2
      <3> QED
        BY <1>1, <1>6, <2>2, <3>1
    <2>3. CASE ~(i <= Len(K))
      <3>1. ~(j <= Len(K)) /\ i - Len(K) < j - Len(K)
        BY <1>1, <1>9, <2>3
      <3>2. g[i - Len(K)] < g[j - Len(K)]
        BY <1>3, <1>5, <2>3, <3>1
      <3> QED
        BY <1>1, <1>5, <2>3, <3>1, <3>2
    <2> QED
      BY <2>1, <2>2, <2>3
  <1>10. ASSUME NEW p \in 1 .. Len(u), u[p] \in Meeting
         PROVE  \E i \in 1 .. Len(M) : h[i] = p
    <2>1. CASE p <= Len(s)
      <3>1. PICK i \in 1 .. Len(K) : f[i] = p
        BY <1>1, <1>2, <1>10, <2>1
      <3> QED
        BY <1>4, <3>1
    <2>2. CASE ~(p <= Len(s))
      <3>1. p - Len(s) \in 1 .. Len(t) /\ t[p - Len(s)] \in Meeting
        BY <1>1, <1>10, <2>2
      <3>2. PICK i \in 1 .. Len(L) : g[i] = p - Len(s)
        BY <1>3, <3>1
      <3>3. Len(K) + i \in 1 .. Len(M) /\ ~(Len(K) + i <= Len(K)) /\ (Len(K) + i) - Len(K) = i
        BY <1>1
      <3>4. h[Len(K) + i] = Len(s) + g[i]
        BY <1>5, <3>3
      <3> QED
        BY <1>1, <3>2, <3>3, <3>4
    <2> QED
      BY <2>1, <2>2
  <1>11. \A i \in 1 .. Len(M) : u[h[i]] = M[i]
    BY <1>1, <1>4, <1>7
  <1>12. Meets(u, M)
    BY <1>8, <1>9, <1>10, <1>11 DEF Meets
  <1> QED
    BY <1>12 DEF u, M
-----------------------------------------------------------------------------
(***************************************************************************)
(* What a call leads to: the mode after it, and its collective operations, *)
(* which are those of every rank.                                          *)
(***************************************************************************)
After(m, op) ==
    IF op = "begin_indep" THEN "indep"
    ELSE IF op = "redef" THEN "def"
    ELSE IF op \in {"end_indep", "enddef"} THEN "coll"
    ELSE IF op \in {"close", "abort"} THEN "closed"
    ELSE m

Agreement == When(SafeMode, <<"agree">>)
MeetSync == <<"reduce">> \o AfterSync
MeetEnd == MeetSync \o AfterSync
MeetHeader == Agreement \o AfterSync

Operations(m, op) ==
    IF op = "put_all" THEN Agreement \o MeetSync
    ELSE IF op = "fill_rec" THEN Agreement \o <<"reduce">>
    ELSE IF op = "wait_all" THEN <<"vote">> \o AfterSync
    ELSE IF op = "begin_indep" THEN << >>
    ELSE IF op = "end_indep" THEN MeetEnd
    ELSE IF op = "sync_numrecs" THEN MeetSync
    ELSE IF op = "sync" THEN IF m = "indep" THEN MeetSync \o <<"barrier">> ELSE <<"barrier">>
    ELSE IF op = "rename" THEN MeetHeader
    ELSE IF op = "redef" THEN IF m = "indep" THEN MeetEnd ELSE << >>
    ELSE IF op = "enddef" THEN MeetHeader
    ELSE IF m = "indep" THEN MeetEnd \o AfterSync
    ELSE IF op = "close" /\ m = "def" THEN MeetHeader \o AfterSync
    ELSE AfterSync

(* s are steps in order, and K their collective operations.                *)
Form(s, K) == s \in Seq(Step) /\ K \in Seq(Meeting) /\ Ordered(s) /\ Meets(s, K)

LEMMA FormConcat ==
  ASSUME NEW s, NEW t, NEW K, NEW L, Form(s, K), Form(t, L),
         \A x, y : Has(s, x) /\ Has(t, y) => Precedes(x, y)
  PROVE  Form(s \o t, K \o L)
  <1>1. /\ s \in Seq(Step) /\ t \in Seq(Step) /\ K \in Seq(Meeting) /\ L \in Seq(Meeting)
        /\ Ordered(s) /\ Ordered(t) /\ Meets(s, K) /\ Meets(t, L)
    BY DEF Form
  <1>2. s \o t \in Seq(Step) /\ K \o L \in Seq(Meeting)
    BY <1>1
  <1>3. Meets(s \o t, K \o L)
    BY <1>1, MeetsConcat
  <1>4. Ordered(s \o t)
    BY <1>1, OrderedConcat
  <1> QED
    BY <1>2, <1>3, <1>4 DEF Form

LEMMA FormEmpty == Form(<< >>, << >>)
  BY OrderedShort, MeetsShort DEF Form

LEMMA FormMeeting == \A x \in Meeting : Form(<<x>>, <<x>>)
  <1> SUFFICES ASSUME NEW x \in Meeting PROVE Form(<<x>>, <<x>>)
    OBVIOUS
  <1>1. <<x>> \in Seq(Step) /\ <<x>> \in Seq(Meeting)
    BY DEF Step
  <1> QED
    BY <1>1, OrderedShort, MeetsShort DEF Form

LEMMA FormLocal == \A x \in Step \ Meeting : Form(<<x>>, << >>)
  <1> SUFFICES ASSUME NEW x \in Step \ Meeting PROVE Form(<<x>>, << >>)
    OBVIOUS
  <1>1. <<x>> \in Seq(Step) /\ << >> \in Seq(Meeting)
    OBVIOUS
  <1> QED
    BY <1>1, OrderedShort, MeetsShort DEF Form

LEMMA FormWhen ==
  ASSUME NEW flag \in BOOLEAN, NEW s, NEW K, Form(s, K)
  PROVE  Form(When(flag, s), When(flag, K))
  BY FormEmpty, Zenon DEF When

LEMMA FormWhenLocal ==
  ASSUME NEW flag \in BOOLEAN, NEW x \in Step \ Meeting
  PROVE  Form(When(flag, <<x>>), << >>)
  BY FormEmpty, FormLocal, Zenon DEF When

(* A local step put behind the steps s adds no operation.                  *)
LEMMA FormThen ==
  ASSUME NEW s, NEW t, NEW K, Form(s, K), Form(t, << >>),
         \A x, y : Has(s, x) /\ Has(t, y) => Precedes(x, y)
  PROVE  Form(s \o t, K)
  <1>1. K \in Seq(Meeting) /\ K \o << >> = K
    BY DEF Form
  <1>2. Form(s \o t, K \o << >>)
    BY FormConcat
  <1> QED
    BY <1>1, <1>2

LEMMA FormBefore ==
  ASSUME NEW s, NEW t, NEW K, Form(s, << >>), Form(t, K),
         \A x, y : Has(s, x) /\ Has(t, y) => Precedes(x, y)
  PROVE  Form(s \o t, K)
  <1>1. K \in Seq(Meeting) /\ << >> \o K = K
    BY DEF Form
  <1>2. Form(s \o t, << >> \o K)
    BY FormConcat
  <1> QED
    BY <1>1, <1>2

LEMMA MeetingSteps ==
  /\ {"agree", "reduce", "vote", "barrier"} \subseteq Meeting
  /\ {"grow", "publish", "bcast", "adopt", "check", "header", "leave", "define",
      "enddef", "discard", "close"} \subseteq Step \ Meeting
  BY DEF Step, Meeting

LEMMA AgreementForm ==
  /\ Form(Agreement, Agreement)
  /\ \A x : Has(Agreement, x) <=> (SafeMode /\ x = "agree")
  <1>1. SafeMode \in BOOLEAN
    BY FlagAssumption
  <1>2. Form(<<"agree">>, <<"agree">>)
    BY FormMeeting, MeetingSteps
  <1>3. Form(Agreement, Agreement)
    BY <1>1, <1>2, FormWhen DEF Agreement
  <1>4. \A x : Has(Agreement, x) <=> (SafeMode /\ x = "agree")
    BY <1>1, HasWhen, HasOne DEF Agreement
  <1> QED
    BY <1>3, <1>4

LEMMA AfterSyncForm ==
  /\ Form(AfterSync, AfterSync)
  /\ \A x : Has(AfterSync, x) <=> (Share /\ x = "barrier")
  <1>1. Share \in BOOLEAN
    BY FlagAssumption
  <1>2. Form(<<"barrier">>, <<"barrier">>)
    BY FormMeeting, MeetingSteps
  <1>3. Form(AfterSync, AfterSync)
    BY <1>1, <1>2, FormWhen DEF AfterSync
  <1>4. \A x : Has(AfterSync, x) <=> (Share /\ x = "barrier")
    BY <1>1, HasWhen, HasOne DEF AfterSync
  <1> QED
    BY <1>3, <1>4

(* sync_numrecs.                                                           *)
LEMMA SyncForm ==
  ASSUME NEW r \in Rank
  PROVE  /\ Form(SyncNumrecs(r), MeetSync)
         /\ \A x : Has(SyncNumrecs(r), x) <=>
              \/ x = "reduce" \/ (r = Root /\ x = "publish")
              \/ (SafeMode /\ x = "bcast") \/ x = "adopt"
              \/ (Share /\ x = "barrier")
  <1> DEFINE a == <<"reduce">>
             b == When(r = Root, <<"publish">>)
             c == When(SafeMode, <<"bcast">>)
             d == <<"adopt">>
  <1>1. /\ Form(a, <<"reduce">>) /\ Form(b, << >>) /\ Form(c, << >>) /\ Form(d, << >>)
    <2>1. Form(a, <<"reduce">>)
      BY FormMeeting, MeetingSteps
    <2>2. Form(b, << >>)
      BY FormWhenLocal, MeetingSteps
    <2>3. Form(c, << >>)
      BY FormWhenLocal, MeetingSteps, FlagAssumption
    <2>4. Form(d, << >>)
      BY FormLocal, MeetingSteps
    <2> QED
      BY <2>1, <2>2, <2>3, <2>4
  <1>2. \A x : /\ Has(a, x) <=> x = "reduce"
               /\ Has(b, x) <=> (r = Root /\ x = "publish")
               /\ Has(c, x) <=> (SafeMode /\ x = "bcast")
               /\ Has(d, x) <=> x = "adopt"
    <2>1. \A x : Has(a, x) <=> x = "reduce"
      BY HasOne
    <2>2. \A x : Has(b, x) <=> (r = Root /\ x = "publish")
      BY HasWhen, HasOne
    <2>3. \A x : Has(c, x) <=> (SafeMode /\ x = "bcast")
      BY HasWhen, HasOne, FlagAssumption
    <2>4. \A x : Has(d, x) <=> x = "adopt"
      BY HasOne
    <2> QED
      BY <2>1, <2>2, <2>3, <2>4
  <1>3. SyncNumrecs(r) = (((a \o b) \o c) \o d) \o AfterSync
    BY DEF SyncNumrecs
  <1> HIDE DEF a, b, c, d
  <1>4. Form(a \o b, <<"reduce">>) /\ \A x : Has(a \o b, x) <=> Has(a, x) \/ Has(b, x)
    <2>1. \A x : Has(a \o b, x) <=> Has(a, x) \/ Has(b, x)
      BY <1>1, HasConcat DEF Form
    <2>2. \A x, y : Has(a, x) /\ Has(b, y) => Precedes(x, y)
      BY <1>2, Stages DEF Precedes
    <2> QED
      BY <1>1, <2>1, <2>2, FormThen
  <1> DEFINE ab == a \o b
  <1> HIDE DEF ab
  <1>5. Form(ab \o c, <<"reduce">>) /\ \A x : Has(ab \o c, x) <=> Has(ab, x) \/ Has(c, x)
    <2>1. \A x : Has(ab \o c, x) <=> Has(ab, x) \/ Has(c, x)
      BY <1>1, <1>4, HasConcat DEF Form, ab
    <2>2. \A x, y : Has(ab, x) /\ Has(c, y) => Precedes(x, y)
      BY <1>2, <1>4, Stages DEF Precedes, ab
    <2> QED
      BY <1>1, <1>4, <2>1, <2>2, FormThen DEF ab
  <1> DEFINE abc == ab \o c
  <1> HIDE DEF abc
  <1>6. Form(abc \o d, <<"reduce">>) /\ \A x : Has(abc \o d, x) <=> Has(abc, x) \/ Has(d, x)
    <2>1. \A x : Has(abc \o d, x) <=> Has(abc, x) \/ Has(d, x)
      BY <1>1, <1>5, HasConcat DEF Form, abc
    <2>2. \A x, y : Has(abc, x) /\ Has(d, y) => Precedes(x, y)
      BY <1>2, <1>4, <1>5, Stages DEF Precedes, abc, ab
    <2> QED
      BY <1>1, <1>5, <2>1, <2>2, FormThen DEF abc
  <1> DEFINE s == abc \o d
  <1> HIDE DEF s
  <1>7. Form(s \o AfterSync, MeetSync)
        /\ \A x : Has(s \o AfterSync, x) <=> Has(s, x) \/ Has(AfterSync, x)
    <2>1. \A x : Has(s \o AfterSync, x) <=> Has(s, x) \/ Has(AfterSync, x)
      BY <1>6, AfterSyncForm, HasConcat DEF Form, s
    <2>2. \A x, y : Has(s, x) /\ Has(AfterSync, y) => Precedes(x, y)
      BY AfterSyncForm, Stages DEF Precedes
    <2> QED
      BY <1>6, <2>1, <2>2, AfterSyncForm, FormConcat DEF s, MeetSync
  <1>8. SyncNumrecs(r) = s \o AfterSync
    BY <1>3 DEF s, abc, ab
  <1>9. \A x : Has(s, x) <=> Has(a, x) \/ Has(b, x) \/ Has(c, x) \/ Has(d, x)
    BY <1>4, <1>5, <1>6 DEF s, abc, ab
  <1>10. \A x : Has(SyncNumrecs(r), x) <=>
              \/ x = "reduce" \/ (r = Root /\ x = "publish")
              \/ (SafeMode /\ x = "bcast") \/ x = "adopt"
              \/ (Share /\ x = "barrier")
    BY <1>2, <1>7, <1>8, <1>9, AfterSyncForm
  <1> QED
    BY <1>7, <1>8, <1>10
(***************************************************************************)
(* The steps of the other calls.                                           *)
(***************************************************************************)
LEMMA FinishForm ==
  /\ Form(<<"close">>, << >>) /\ \A x : Has(<<"close">>, x) <=> x = "close"
  /\ Form(AfterSync \o <<"close">>, AfterSync)
  /\ \A x : Has(AfterSync \o <<"close">>, x) <=> (Share /\ x = "barrier") \/ x = "close"
  <1>1. Form(<<"close">>, << >>) /\ \A x : Has(<<"close">>, x) <=> x = "close"
    BY FormLocal, MeetingSteps, HasOne
  <1>2. \A x : Has(AfterSync \o <<"close">>, x) <=> Has(AfterSync, x) \/ Has(<<"close">>, x)
    BY <1>1, AfterSyncForm, HasConcat DEF Form
  <1>3. \A x, y : Has(AfterSync, x) /\ Has(<<"close">>, y) => Precedes(x, y)
    BY AfterSyncForm, Stages DEF Precedes
  <1>4. Form(AfterSync \o <<"close">>, AfterSync)
    BY <1>1, <1>3, AfterSyncForm, FormThen
  <1> QED
    BY <1>1, <1>2, <1>4, AfterSyncForm

(* sync_numrecs and the file sync that end independent mode.               *)
LEMMA EndIndepForm ==
  ASSUME NEW r \in Rank
  PROVE  /\ Form(EndIndep(r), MeetEnd)
         /\ \A x : Has(EndIndep(r), x) <=> Has(SyncNumrecs(r), x) \/ x = "leave"
  <1> DEFINE a == SyncNumrecs(r) \o AfterSync
             b == <<"leave">>
  <1>1. Form(b, << >>) /\ \A x : Has(b, x) <=> x = "leave"
    BY FormLocal, MeetingSteps, HasOne
  <1>2. \A x : Has(a, x) <=> Has(SyncNumrecs(r), x) \/ Has(AfterSync, x)
    BY SyncForm, AfterSyncForm, HasConcat DEF Form
  <1>3. \A x, y : Has(SyncNumrecs(r), x) /\ Has(AfterSync, y) => Precedes(x, y)
    BY AfterSyncForm, Stages DEF Precedes
  <1>4. Form(a, MeetEnd)
    BY <1>3, SyncForm, AfterSyncForm, FormConcat DEF MeetEnd
  <1>5. EndIndep(r) = a \o b
    BY DEF EndIndep
  <1> HIDE DEF a, b
  <1>6. \A x : Has(a \o b, x) <=> Has(a, x) \/ Has(b, x)
    BY <1>1, <1>4, HasConcat DEF Form
  <1>7. \A x : Has(a, x) <=> Has(SyncNumrecs(r), x)
    BY <1>2, SyncForm, AfterSyncForm
  <1>8. \A x, y : Has(a, x) /\ Has(b, y) => Precedes(x, y)
    BY <1>1, <1>7, SyncForm, Stages DEF Precedes
  <1>9. Form(a \o b, MeetEnd)
    BY <1>1, <1>4, <1>8, FormThen
  <1> QED
    BY <1>1, <1>5, <1>6, <1>7, <1>9

(* The rewrite of the header.                                              *)
LEMMA WriteHeaderForm ==
  ASSUME NEW r \in Rank
  PROVE  /\ Form(WriteHeader(r), Agreement)
         /\ \A x : Has(WriteHeader(r), x) <=>
              \/ (SafeMode /\ x = "agree") \/ (r = Root /\ x = "header")
              \/ (SafeMode /\ x = "bcast")
  <1> DEFINE b == When(r = Root, <<"header">>)
             c == When(SafeMode, <<"bcast">>)
             ab == Agreement \o b
  <1>1. Form(b, << >>) /\ \A x : Has(b, x) <=> (r = Root /\ x = "header")
    <2>1. Form(b, << >>)
      BY FormWhenLocal, MeetingSteps
    <2>2. \A x : Has(b, x) <=> (r = Root /\ x = "header")
      BY HasOne, HasWhen
    <2> QED
      BY <2>1, <2>2
  <1>2. Form(c, << >>) /\ \A x : Has(c, x) <=> (SafeMode /\ x = "bcast")
    BY FormWhenLocal, MeetingSteps, HasOne, HasWhen, FlagAssumption
  <1>3. WriteHeader(r) = ab \o c
    BY DEF WriteHeader, Agreement
  <1> HIDE DEF b, c
  <1>4. \A x : Has(ab, x) <=> Has(Agreement, x) \/ Has(b, x)
    BY <1>1, AgreementForm, HasConcat DEF Form
  <1>5. \A x, y : Has(Agreement, x) /\ Has(b, y) => Precedes(x, y)
    BY AgreementForm, Stages DEF Precedes
  <1>6. Form(ab, Agreement)
    BY <1>1, <1>5, AgreementForm, FormThen
  <1> HIDE DEF ab
  <1>7. \A x : Has(ab \o c, x) <=> Has(ab, x) \/ Has(c, x)
    BY <1>2, <1>6, HasConcat DEF Form
  <1>8. \A x, y : Has(ab, x) /\ Has(c, y) => Precedes(x, y)
    BY <1>2, Stages DEF Precedes
  <1>9. Form(ab \o c, Agreement)
    BY <1>2, <1>6, <1>8, FormThen
  <1> QED
    BY <1>1, <1>2, <1>3, <1>4, <1>7, <1>9, AgreementForm

LEMMA EndDefForm ==
  ASSUME NEW r \in Rank
  PROVE  /\ Form(EndDef(r), MeetHeader)
         /\ \A x : Has(EndDef(r), x) <=>
              Has(WriteHeader(r), x) \/ x = "enddef" \/ Has(AfterSync, x)
  <1> DEFINE a == WriteHeader(r)
             b == <<"enddef">>
             ab == a \o b
  <1>1. Form(b, << >>) /\ \A x : Has(b, x) <=> x = "enddef"
    BY FormLocal, MeetingSteps, HasOne
  <1>2. EndDef(r) = ab \o AfterSync
    BY DEF EndDef
  <1> HIDE DEF b
  <1>3. \A x : Has(ab, x) <=> Has(a, x) \/ Has(b, x)
    BY <1>1, WriteHeaderForm, HasConcat DEF Form
  <1>4. \A x, y : Has(a, x) /\ Has(b, y) => Precedes(x, y)
    BY <1>1, WriteHeaderForm, Stages DEF Precedes
  <1>5. Form(ab, Agreement)
    BY <1>1, <1>4, WriteHeaderForm, FormThen
  <1> HIDE DEF ab
  <1>6. \A x : Has(ab \o AfterSync, x) <=> Has(ab, x) \/ Has(AfterSync, x)
    BY <1>5, AfterSyncForm, HasConcat DEF Form
  <1>7. \A x, y : Has(ab, x) /\ Has(AfterSync, y) => Precedes(x, y)
    BY AfterSyncForm, Stages DEF Precedes
  <1>8. Form(ab \o AfterSync, MeetHeader)
    BY <1>5, <1>7, AfterSyncForm, FormConcat DEF MeetHeader
  <1> QED
    BY <1>1, <1>2, <1>3, <1>6, <1>8

(* A reduction or vote and what raises the count after it.                 *)
LEMMA GrowForm ==
  ASSUME NEW x \in {"reduce", "vote"}
  PROVE  /\ Form(<<x, "grow">>, <<x>>)
         /\ \A y : Has(<<x, "grow">>, y) <=> y = x \/ y = "grow"
         /\ Form(GrowSteps(x, "grow"), <<x>> \o AfterSync)
         /\ \A y : Has(GrowSteps(x, "grow"), y) <=>
                     y = x \/ y = "grow" \/ (Share /\ y = "barrier")
  <1> DEFINE a == <<x>>
             b == <<"grow">>
             ab == <<x, "grow">>
  <1>1. Form(a, a) /\ \A y : Has(a, y) <=> y = x
    BY FormMeeting, MeetingSteps, HasOne
  <1>2. Form(b, << >>) /\ \A y : Has(b, y) <=> y = "grow"
    BY FormLocal, MeetingSteps, HasOne
  <1>3. ab = a \o b
    OBVIOUS
  <1>4. GrowSteps(x, "grow") = ab \o AfterSync
    BY DEF GrowSteps
  <1> HIDE DEF a, b, ab
  <1>5. \A y : Has(ab, y) <=> Has(a, y) \/ Has(b, y)
    BY <1>1, <1>2, <1>3, HasConcat DEF Form
  <1>6. \A y, z : Has(a, y) /\ Has(b, z) => Precedes(y, z)
    BY <1>1, <1>2, Stages DEF Precedes
  <1>7. Form(ab, a)
    BY <1>1, <1>2, <1>3, <1>6, FormThen
  <1>8. \A y : Has(ab \o AfterSync, y) <=> Has(ab, y) \/ Has(AfterSync, y)
    BY <1>7, AfterSyncForm, HasConcat DEF Form
  <1>9. \A y, z : Has(ab, y) /\ Has(AfterSync, z) => Precedes(y, z)
    BY AfterSyncForm, Stages DEF Precedes
  <1>10. Form(ab \o AfterSync, a \o AfterSync)
    BY <1>7, <1>9, AfterSyncForm, FormConcat
  <1>11. \A y : Has(GrowSteps(x, "grow"), y) <=>
                     y = x \/ y = "grow" \/ (Share /\ y = "barrier")
    BY <1>1, <1>2, <1>4, <1>5, <1>8, AfterSyncForm
  <1>12. \A y : Has(ab, y) <=> y = x \/ y = "grow"
    BY <1>1, <1>2, <1>5
  <1> QED
    BY <1>4, <1>7, <1>10, <1>11, <1>12 DEF a, ab
-----------------------------------------------------------------------------
(***************************************************************************)
(* What holds of a call in progress by itself: c is the call, m the mode   *)
(* and n the count of its rank, root says that it is the root's.  The      *)
(* count is in flux between the reduction and the step that takes the      *)
(* result over; only the root publishes, and knows the result after it.    *)
(***************************************************************************)
Quiet(s) == \A x : Has(s, x) => x \in {"agree", "reduce", "vote", "grow", "barrier"}

Pending(s) == Has(s, "reduce") \/ Has(s, "vote")

(* The count n covers the records up to w: promised only if the waits name *)
(* every pending put.                                                      *)
Within(w, n) == PartialWaits \/ w <= n

(* The steps of Next; a wait and a put of one rank are both an IndepWrite. *)
LEMMA NextCases ==
  Next => \/ Meet
          \/ \E r \in Rank : MakeCall(r) \/ LocalStep(r)
          \/ \E r \in Rank, n \in Count, w \in Count :
                IndepWrite(r, n, w) /\ Within(w, n)
  <1> SUFFICES ASSUME Next, ~Meet, NEW r \in Rank,
                      \/ \E n \in 1 .. MaxRecs : IndepPut(r, n)
                      \/ IndepWait(r)
               PROVE  \E n \in Count, w \in Count : IndepWrite(r, n, w) /\ Within(w, n)
    BY DEF Next
  <1>1. ASSUME NEW n \in 1 .. MaxRecs, IndepPut(r, n)
        PROVE  n \in Count /\ IndepWrite(r, n, n) /\ Within(n, n)
    BY <1>1 DEF IndepPut, Within, Count
  <1>2. ASSUME NEW k \in Count, NEW n \in Scanned(k), NEW w \in Stored(k)
        PROVE  n \in Count /\ w \in Count /\ Within(w, n)
    BY WaitChoices DEF Within, Scanned
  <1>3. CASE IndepWait(r)
    BY <1>2, <1>3 DEF IndepWait
  <1> QED
    BY <1>1, <1>3

SyncOK(c, m, n, root) ==
    /\ Ordered(c.steps)
    /\ Has(c.steps, "adopt") => m = "indep" /\ c.wrote = 0 /\ ~Has(c.steps, "vote")
    /\ Has(c.steps, "adopt") /\ Has(c.steps, "reduce") => c.give = n
    /\ Has(c.steps, "adopt") /\ ~Has(c.steps, "reduce") => n <= c.got
    /\ Has(c.steps, "publish") => root /\ Has(c.steps, "adopt")
    /\ root /\ Has(c.steps, "adopt") =>
         Has(c.steps, "publish") \/ (~Has(c.steps, "reduce") /\ c.got = n)
    /\ Has(c.steps, "header") => root

CallOK(c, m, n, root) ==
    /\ SyncOK(c, m, n, root)
    /\ c.status # "ok" => /\ Has(c.steps, "grow") /\ Pending(c.steps)
                          /\ Head(c.steps) \in {"agree", "vote"}
    /\ Has(c.steps, "grow") => Quiet(c.steps) /\ m = "coll"
    /\ Has(c.steps, "grow") /\ Pending(c.steps) => Within(c.wrote, c.give)
    /\ Has(c.steps, "vote") => Has(c.steps, "grow")
    /\ Has(c.steps, "reduce") => Has(c.steps, "grow") \/ Has(c.steps, "adopt")
    /\ Has(c.steps, "close") => c.steps[Len(c.steps)] = "close"
    /\ m = "closed" => c.steps = << >>

LEMMA IdleOK == \A m, n, root : CallOK(Idle, m, n, root)
  BY HasEmpty, OrderedShort DEF CallOK, SyncOK, Idle

(* A call op that begins in mode m with the given steps and values.        *)
Record(s, give, wrote, status) ==
    [steps |-> s, give |-> give, got |-> 0, wrote |-> wrote, status |-> status]

Begun(m, op) == IF op = "begin_indep" THEN "indep" ELSE m

Entry(m, n, root, op, s, give, wrote, status) ==
    /\ Form(s, Operations(m, op))
    /\ EndMode(Begun(m, op), s) = After(m, op)
    /\ CallOK(Record(s, give, wrote, status), Begun(m, op), n, root)
    /\ Has(s, "grow") => Pending(s)
    /\ Has(s, "adopt") \/ Has(s, "leave") => Has(s, "reduce") /\ Has(s, "adopt")
    /\ m = "indep" /\ After(m, op) # "indep" => Has(s, "reduce") /\ Has(s, "adopt")
    /\ m # "closed"
    /\ op = "begin_indep" => s = << >> /\ m = "coll"

(* The calls that may write a record: put_all, fill_var_rec, wait_all.     *)
LEMMA GrowingEntry ==
  ASSUME NEW op \in {"put_all", "fill_rec", "wait_all"}, NEW s, NEW n, NEW root,
         NEW give \in Nat, NEW wrote \in Nat, Within(wrote, give), NEW status,
         Form(s, Operations("coll", op)), Quiet(s), Has(s, "grow"), Pending(s),
         status # "ok" => Head(s) \in {"agree", "vote"}
  PROVE  Entry("coll", n, root, op, s, give, wrote, status)
  <1> DEFINE c == Record(s, give, wrote, status)
  <1>1. c.steps = s /\ c.give = give /\ c.wrote = wrote /\ c.status = status
    BY DEF Record
  <1>2. /\ ~Has(s, "adopt") /\ ~Has(s, "publish") /\ ~Has(s, "close") /\ ~Has(s, "leave")
        /\ ~Has(s, "define") /\ ~Has(s, "enddef") /\ ~Has(s, "discard") /\ ~Has(s, "header")
    BY DEF Quiet
  <1>3. Ordered(s)
    BY DEF Form
  <1> HIDE DEF c
  <1>4. CallOK(c, "coll", n, root)
    BY <1>1, <1>2, <1>3 DEF CallOK, SyncOK
  <1>5. EndMode("coll", s) = After("coll", op) /\ Begun("coll", op) = "coll"
    BY <1>2 DEF EndMode, After, Begun
  <1> QED
    BY <1>2, <1>4, <1>5 DEF Entry, c

(* The other calls: what they reconcile they publish and adopt.            *)
LEMMA PlainEntry ==
  ASSUME NEW m, m # "closed", NEW op, op # "begin_indep", NEW s, NEW n, NEW root,
         NEW give, Form(s, Operations(m, op)), EndMode(m, s) = After(m, op),
         ~Has(s, "grow"), ~Has(s, "vote"), Has(s, "reduce") <=> Has(s, "adopt"),
         Has(s, "adopt") => m = "indep" /\ give = n,
         Has(s, "leave") => Has(s, "adopt"),
         Has(s, "publish") <=> (Has(s, "adopt") /\ root), Has(s, "header") => root,
         m = "indep" /\ After(m, op) # "indep" => Has(s, "adopt"),
         Has(s, "close") => s[Len(s)] = "close"
  PROVE  Entry(m, n, root, op, s, give, 0, "ok")
  <1> DEFINE ok == "ok"
             c == Record(s, give, 0, ok)
  <1>1. c.steps = s /\ c.give = give /\ c.wrote = 0 /\ c.status = ok
    BY DEF Record
  <1>2. Ordered(s)
    BY DEF Form
  <1> HIDE DEF c
  <1>3. CallOK(c, m, n, root)
    BY <1>1, <1>2 DEF CallOK, SyncOK, ok
  <1>4. Begun(m, op) = m
    BY DEF Begun
  <1> QED
    BY <1>3, <1>4 DEF Entry, c, ok

LEMMA PutEntry ==
  ASSUME NEW n, NEW root, NEW give \in Nat, NEW wrote \in Nat, Within(wrote, give)
  PROVE  /\ Entry("coll", n, root, "put_all", PutSteps, give, wrote, "ok")
         /\ SafeMode => Entry("coll", n, root, "put_all", PutSteps, give, wrote, "error")
  <1> DEFINE op == "put_all"
             g == GrowSteps("reduce", "grow")
             s == PutSteps
  <1>1. /\ Form(g, MeetSync)
        /\ \A y : Has(g, y) <=> y = "reduce" \/ y = "grow" \/ (Share /\ y = "barrier")
    BY GrowForm DEF MeetSync
  <1>2. s = Agreement \o g
    BY DEF PutSteps, Agreement
  <1> HIDE DEF g
  <1>3. \A x : Has(s, x) <=> Has(Agreement, x) \/ Has(g, x)
    BY <1>1, <1>2, AgreementForm, HasConcat DEF Form
  <1>4. \A x, y : Has(Agreement, x) /\ Has(g, y) => Precedes(x, y)
    BY AgreementForm, Stages DEF Precedes
  <1>5. Form(s, Operations("coll", op))
    BY <1>1, <1>2, <1>4, AgreementForm, FormConcat DEF Operations
  <1>6. Quiet(s) /\ Has(s, "grow") /\ Pending(s)
    BY <1>1, <1>3, AgreementForm DEF Quiet, Pending
  <1>7. SafeMode => Head(s) = "agree"
    <2> SUFFICES ASSUME SafeMode PROVE Head(s) = "agree"
      OBVIOUS
    <2>1. g \in Seq(Step) /\ Agreement = <<"agree">>
      BY <1>1 DEF Form, Agreement, When
    <2>2. <<"agree">> \in Seq(Step)
      BY DEF Step, Meeting
    <2> QED
      BY <1>2, <2>1, <2>2
  <1> HIDE DEF s, op
  <1>8. \A status : (status # "ok" => SafeMode)
           => Entry("coll", n, root, op, s, give, wrote, status)
    <2> SUFFICES ASSUME NEW status, status # "ok" => SafeMode
                 PROVE  Entry("coll", n, root, op, s, give, wrote, status)
      OBVIOUS
    <2>1. op \in {"put_all", "fill_rec", "wait_all"}
      BY DEF op
    <2> QED
      BY <1>5, <1>6, <1>7, <2>1, GrowingEntry
  <1> QED
    BY <1>8 DEF s, op

LEMMA FillEntry ==
  ASSUME NEW n, NEW root, NEW give \in Nat, NEW wrote \in Nat, Within(wrote, give)
  PROVE  /\ Entry("coll", n, root, "fill_rec", FillSteps, give, wrote, "ok")
         /\ SafeMode => Entry("coll", n, root, "fill_rec", FillSteps, give, wrote, "error")
  <1> DEFINE op == "fill_rec"
             g == <<"reduce", "grow">>
             s == FillSteps
  <1>1. Form(g, <<"reduce">>) /\ \A y : Has(g, y) <=> y = "reduce" \/ y = "grow"
    BY GrowForm
  <1>2. s = Agreement \o g
    BY DEF FillSteps, Agreement
  <1> HIDE DEF g
  <1>3. \A x : Has(s, x) <=> Has(Agreement, x) \/ Has(g, x)
    BY <1>1, <1>2, AgreementForm, HasConcat DEF Form
  <1>4. \A x, y : Has(Agreement, x) /\ Has(g, y) => Precedes(x, y)
    BY AgreementForm, Stages DEF Precedes
  <1>5. Form(s, Operations("coll", op))
    BY <1>1, <1>2, <1>4, AgreementForm, FormConcat DEF Operations
  <1>6. Quiet(s) /\ Has(s, "grow") /\ Pending(s)
    BY <1>1, <1>3, AgreementForm DEF Quiet, Pending
  <1>7. SafeMode => Head(s) = "agree"
    <2> SUFFICES ASSUME SafeMode PROVE Head(s) = "agree"
      OBVIOUS
    <2>1. g \in Seq(Step) /\ Agreement = <<"agree">>
      BY <1>1 DEF Form, Agreement, When
    <2>2. <<"agree">> \in Seq(Step)
      BY DEF Step, Meeting
    <2> QED
      BY <1>2, <2>1, <2>2
  <1> HIDE DEF s, op
  <1>8. \A status : (status # "ok" => SafeMode)
           => Entry("coll", n, root, op, s, give, wrote, status)
    <2> SUFFICES ASSUME NEW status, status # "ok" => SafeMode
                 PROVE  Entry("coll", n, root, op, s, give, wrote, status)
      OBVIOUS
    <2>1. op \in {"put_all", "fill_rec", "wait_all"}
      BY DEF op
    <2> QED
      BY <1>5, <1>6, <1>7, <2>1, GrowingEntry
  <1> QED
    BY <1>8 DEF s, op

LEMMA WaitEntry ==
  ASSUME NEW n, NEW root, NEW give \in Nat, NEW wrote \in Nat, Within(wrote, give), NEW status
  PROVE  Entry("coll", n, root, "wait_all", GrowSteps("vote", "grow"), give, wrote, status)
  <1> DEFINE op == "wait_all"
             s == GrowSteps("vote", "grow")
  <1>1. /\ Form(s, <<"vote">> \o AfterSync)
        /\ \A y : Has(s, y) <=> y = "vote" \/ y = "grow" \/ (Share /\ y = "barrier")
    BY GrowForm
  <1>2. Form(s, Operations("coll", op))
    BY <1>1 DEF Operations
  <1>3. Quiet(s) /\ Has(s, "grow") /\ Pending(s)
    BY <1>1 DEF Quiet, Pending
  <1>4. Head(s) = "vote"
    <2>1. AfterSync \in Seq(Step) /\ <<"vote", "grow">> \in Seq(Step)
      BY AfterSyncForm DEF Form, Step, Meeting
    <2> QED
      BY <2>1 DEF GrowSteps
  <1>5. op \in {"put_all", "fill_rec", "wait_all"}
    OBVIOUS
  <1> HIDE DEF s, op
  <1>6. Entry("coll", n, root, op, s, give, wrote, status)
    BY <1>2, <1>3, <1>4, <1>5, GrowingEntry
  <1> QED
    BY <1>6 DEF s, op
LEMMA BeginEntry ==
  ASSUME NEW n, NEW root
  PROVE  Entry("coll", n, root, "begin_indep", << >>, 0, 0, "ok")
  <1>1. /\ Form(<< >>, Operations("coll", "begin_indep"))
        /\ Begun("coll", "begin_indep") = "indep" /\ After("coll", "begin_indep") = "indep"
    BY FormEmpty DEF Operations, Begun, After
  <1>2. CallOK(Record(<< >>, 0, 0, "ok"), "indep", n, root)
    <2>1. Record(<< >>, 0, 0, "ok") = Idle
      BY DEF Record, Idle
    <2> QED
      BY <2>1, IdleOK
  <1> QED
    BY <1>1, <1>2, HasEmpty, EndModeEmpty DEF Entry

(* ncmpi_end_indep_data, and ncmpi_redef in independent mode.              *)
LEMMA EndIndepEntry ==
  ASSUME NEW r \in Rank, NEW n
  PROVE  /\ Entry("indep", n, r = Root, "end_indep", EndIndep(r), n, 0, "ok")
         /\ Entry("indep", n, r = Root, "redef", EndIndep(r) \o <<"define">>, n, 0, "ok")
  <1> DEFINE s == EndIndep(r)
             d == <<"define">>
             m == "indep"
             op1 == "end_indep"
             op2 == "redef"
  <1>1. /\ Form(s, MeetEnd) /\ Form(d, << >>)
        /\ \A x : Has(d, x) <=> x = "define"
        /\ \A x : Has(s, x) <=>
              \/ x = "reduce" \/ (r = Root /\ x = "publish")
              \/ (SafeMode /\ x = "bcast") \/ x = "adopt"
              \/ (Share /\ x = "barrier") \/ x = "leave"
    BY EndIndepForm, SyncForm, FormLocal, MeetingSteps, HasOne
  <1>2. /\ Operations(m, op1) = MeetEnd /\ Operations(m, op2) = MeetEnd
        /\ After(m, op1) = "coll" /\ After(m, op2) = "def"
        /\ m = "indep" /\ m # "closed" /\ op1 # "begin_indep" /\ op2 # "begin_indep"
    BY DEF Operations, After
  <1> HIDE DEF s, d, m, op1, op2
  <1>3. /\ ~Has(s, "grow") /\ ~Has(s, "vote") /\ ~Has(s, "header") /\ Has(s, "reduce") /\ Has(s, "adopt")
        /\ Has(s, "publish") <=> r = Root
        /\ ~Has(s, "close") /\ ~Has(s, "define") /\ Has(s, "leave")
    BY <1>1
  <1>4. EndMode(m, s) = "coll"
    BY <1>3 DEF EndMode
  <1>5. Entry(m, n, r = Root, op1, s, n, 0, "ok")
    BY <1>1, <1>2, <1>3, <1>4, PlainEntry
  <1>6. \A x : Has(s \o d, x) <=> Has(s, x) \/ Has(d, x)
    BY <1>1, HasConcat DEF Form
  <1>7. \A x, y : Has(s, x) /\ Has(d, y) => Precedes(x, y)
    BY <1>1, Stages DEF Precedes
  <1>8. Form(s \o d, MeetEnd)
    BY <1>1, <1>7, FormThen
  <1> DEFINE t == s \o d
  <1> HIDE DEF t
  <1>9. /\ ~Has(t, "grow") /\ ~Has(t, "vote") /\ ~Has(t, "header") /\ Has(t, "reduce") /\ Has(t, "adopt")
        /\ Has(t, "publish") <=> r = Root
        /\ ~Has(t, "close") /\ Has(t, "define")
    BY <1>1, <1>3, <1>6 DEF t
  <1>10. EndMode(m, t) = "def" /\ Form(t, MeetEnd)
    BY <1>8, <1>9 DEF EndMode, t
  <1>11. Entry(m, n, r = Root, op2, t, n, 0, "ok")
    BY <1>2, <1>9, <1>10, PlainEntry
  <1> QED
    BY <1>5, <1>11 DEF s, m, op1, op2, t, d

LEMMA SyncNumrecsEntry ==
  ASSUME NEW r \in Rank, NEW n
  PROVE  Entry("indep", n, r = Root, "sync_numrecs", SyncNumrecs(r), n, 0, "ok")
  <1> DEFINE s == SyncNumrecs(r)
             m == "indep"
             op == "sync_numrecs"
  <1>1. /\ Form(s, Operations(m, op))
        /\ \A x : Has(s, x) <=>
              \/ x = "reduce" \/ (r = Root /\ x = "publish")
              \/ (SafeMode /\ x = "bcast") \/ x = "adopt"
              \/ (Share /\ x = "barrier")
        /\ After(m, op) = m /\ m = "indep" /\ m # "closed" /\ op # "begin_indep"
    BY SyncForm DEF Operations, After
  <1> HIDE DEF s, m, op
  <1>2. /\ ~Has(s, "grow") /\ ~Has(s, "vote") /\ ~Has(s, "header") /\ Has(s, "reduce") /\ Has(s, "adopt")
        /\ Has(s, "publish") <=> r = Root
        /\ ~Has(s, "close") /\ ~Has(s, "define") /\ ~Has(s, "leave") /\ ~Has(s, "enddef")
        /\ ~Has(s, "discard")
    BY <1>1
  <1>3. EndMode(m, s) = After(m, op)
    BY <1>1, <1>2 DEF EndMode
  <1>4. Entry(m, n, r = Root, op, s, n, 0, "ok")
    BY <1>1, <1>2, <1>3, PlainEntry
  <1> QED
    BY <1>4 DEF s, m, op

LEMMA SyncEntry ==
  ASSUME NEW r \in Rank, NEW n
  PROVE  /\ Entry("coll", n, r = Root, "sync", <<"barrier">>, 0, 0, "ok")
         /\ Entry("indep", n, r = Root, "sync", SyncNumrecs(r) \o <<"check", "barrier">>,
                  n, 0, "ok")
  <1> DEFINE b == <<"barrier">>
             c == <<"check">>
             s == SyncNumrecs(r)
             op == "sync"
             m1 == "coll"
             m2 == "indep"
  <1>1. /\ Form(s, MeetSync) /\ Form(b, b) /\ Form(c, << >>)
        /\ \A x : Has(s, x) <=>
              \/ x = "reduce" \/ (r = Root /\ x = "publish")
              \/ (SafeMode /\ x = "bcast") \/ x = "adopt"
              \/ (Share /\ x = "barrier")
        /\ \A x : Has(b, x) <=> x = "barrier"
        /\ \A x : Has(c, x) <=> x = "check"
    BY SyncForm, FormMeeting, FormLocal, MeetingSteps, HasOne
  <1>2. /\ Operations(m1, op) = b /\ Operations(m2, op) = MeetSync \o b
        /\ After(m1, op) = m1 /\ After(m2, op) = m2 /\ op # "begin_indep"
        /\ m1 # "closed" /\ m1 # "indep" /\ m2 = "indep" /\ m2 # "closed"
    BY DEF Operations, After
  <1>3. <<"check", "barrier">> = c \o b
    OBVIOUS
  <1> HIDE DEF s, b, c, op, m1, m2
  <1>4. /\ ~Has(b, "grow") /\ ~Has(b, "vote") /\ ~Has(b, "header") /\ ~Has(b, "reduce") /\ ~Has(b, "adopt")
        /\ ~Has(b, "publish") /\ ~Has(b, "close") /\ ~Has(b, "define") /\ ~Has(b, "leave")
        /\ ~Has(b, "enddef") /\ ~Has(b, "discard")
    BY <1>1
  <1>5. EndMode(m1, b) = m1
    BY <1>4 DEF EndMode
  <1>6. Entry(m1, n, r = Root, op, b, 0, 0, "ok")
    BY <1>1, <1>2, <1>4, <1>5, PlainEntry
  <1>7. \A x : Has(c \o b, x) <=> Has(c, x) \/ Has(b, x)
    BY <1>1, HasConcat DEF Form
  <1>8. \A x, y : Has(c, x) /\ Has(b, y) => Precedes(x, y)
    BY <1>1, Stages DEF Precedes
  <1>9. Form(c \o b, b)
    BY <1>1, <1>8, FormBefore
  <1> DEFINE u == c \o b
             t == s \o u
  <1> HIDE DEF u
  <1>10. \A x : Has(t, x) <=> Has(s, x) \/ Has(u, x)
    BY <1>1, <1>9, HasConcat, ZenonT(30) DEF Form, u
  <1>11. \A x : Has(u, x) <=> x = "check" \/ x = "barrier"
    BY <1>1, <1>7 DEF u
  <1>12. \A x, y : Has(s, x) /\ Has(u, y) => Precedes(x, y)
    BY <1>11, Stages DEF Precedes
  <1>13. Form(t, MeetSync \o b)
    BY <1>1, <1>9, <1>12, FormConcat DEF u
  <1> HIDE DEF t
  <1>14. /\ ~Has(t, "grow") /\ ~Has(t, "vote") /\ ~Has(t, "header") /\ Has(t, "reduce") /\ Has(t, "adopt")
         /\ Has(t, "publish") <=> r = Root
         /\ ~Has(t, "close") /\ ~Has(t, "define") /\ ~Has(t, "leave") /\ ~Has(t, "enddef")
         /\ ~Has(t, "discard")
    BY <1>1, <1>10, <1>11
  <1>15. EndMode(m2, t) = m2
    BY <1>14 DEF EndMode
  <1>16. Entry(m2, n, r = Root, op, t, n, 0, "ok")
    BY <1>2, <1>13, <1>14, <1>15, PlainEntry
  <1> QED
    BY <1>3, <1>6, <1>16 DEF s, b, op, m1, m2, t, u

(* The calls that rewrite the header.                                      *)
LEMMA RenameEntry ==
  ASSUME NEW r \in Rank, NEW n, NEW m \in {"coll", "indep"}
  PROVE  Entry(m, n, r = Root, "rename", WriteHeader(r) \o AfterSync, 0, 0, "ok")
  <1> DEFINE s == WriteHeader(r)
             t == s \o AfterSync
             op == "rename"
  <1>1. /\ Form(s, Agreement) /\ Form(AfterSync, AfterSync)
        /\ \A x : Has(s, x) <=>
              \/ (SafeMode /\ x = "agree") \/ (r = Root /\ x = "header")
              \/ (SafeMode /\ x = "bcast")
        /\ \A x : Has(AfterSync, x) <=> (Share /\ x = "barrier")
    BY WriteHeaderForm, AfterSyncForm
  <1>2. Operations(m, op) = MeetHeader /\ After(m, op) = m /\ m # "closed" /\ op # "begin_indep"
    BY DEF Operations, After
  <1> HIDE DEF s, op
  <1>3. \A x : Has(t, x) <=> Has(s, x) \/ Has(AfterSync, x)
    BY <1>1, HasConcat DEF Form
  <1>4. \A x, y : Has(s, x) /\ Has(AfterSync, y) => Precedes(x, y)
    BY <1>1, Stages DEF Precedes
  <1>5. Form(t, MeetHeader)
    BY <1>1, <1>4, FormConcat DEF MeetHeader
  <1> HIDE DEF t
  <1>6. /\ Has(t, "header") => r = Root
        /\ ~Has(t, "grow") /\ ~Has(t, "vote") /\ ~Has(t, "reduce") /\ ~Has(t, "adopt")
        /\ ~Has(t, "publish") /\ ~Has(t, "close") /\ ~Has(t, "define") /\ ~Has(t, "leave")
        /\ ~Has(t, "enddef") /\ ~Has(t, "discard")
    BY <1>1, <1>3
  <1>7. EndMode(m, t) = m
    BY <1>6 DEF EndMode
  <1>8. Entry(m, n, r = Root, op, t, 0, 0, "ok")
    BY <1>2, <1>5, <1>6, <1>7, PlainEntry
  <1> QED
    BY <1>8 DEF s, t, op

LEMMA RedefEntry ==
  ASSUME NEW n, NEW root
  PROVE  Entry("coll", n, root, "redef", <<"define">>, 0, 0, "ok")
  <1> DEFINE s == <<"define">>
             m == "coll"
             op == "redef"
  <1>1. /\ Form(s, << >>) /\ \A x : Has(s, x) <=> x = "define"
    BY FormLocal, MeetingSteps, HasOne
  <1>2. /\ Operations(m, op) = << >> /\ After(m, op) = "def"
        /\ m # "closed" /\ m # "indep" /\ op # "begin_indep"
    BY DEF Operations, After
  <1> HIDE DEF s, m, op
  <1>3. /\ ~Has(s, "grow") /\ ~Has(s, "vote") /\ ~Has(s, "header") /\ ~Has(s, "reduce") /\ ~Has(s, "adopt")
        /\ ~Has(s, "publish") /\ ~Has(s, "close") /\ Has(s, "define") /\ ~Has(s, "leave")
    BY <1>1
  <1>4. EndMode(m, s) = "def"
    BY <1>3 DEF EndMode
  <1>5. Entry(m, n, root, op, s, 0, 0, "ok")
    BY <1>1, <1>2, <1>3, <1>4, PlainEntry
  <1> QED
    BY <1>5 DEF s, m, op

LEMMA EndDefEntry ==
  ASSUME NEW r \in Rank, NEW n
  PROVE  Entry("def", n, r = Root, "enddef", EndDef(r), 0, 0, "ok")
  <1> DEFINE s == EndDef(r)
             m == "def"
             op == "enddef"
  <1>1. /\ Form(s, MeetHeader)
        /\ \A x : Has(s, x) <=>
              \/ (SafeMode /\ x = "agree") \/ (r = Root /\ x = "header")
              \/ (SafeMode /\ x = "bcast") \/ x = "enddef" \/ (Share /\ x = "barrier")
    BY WriteHeaderForm, AfterSyncForm, EndDefForm
  <1>2. /\ Operations(m, op) = MeetHeader /\ After(m, op) = "coll"
        /\ m # "closed" /\ m # "indep" /\ op # "begin_indep"
    BY DEF Operations, After
  <1> HIDE DEF s, m, op
  <1>3. /\ Has(s, "header") => r = Root
        /\ ~Has(s, "grow") /\ ~Has(s, "vote") /\ ~Has(s, "reduce") /\ ~Has(s, "adopt")
        /\ ~Has(s, "publish") /\ ~Has(s, "close") /\ ~Has(s, "define") /\ ~Has(s, "leave")
        /\ Has(s, "enddef")
    BY <1>1
  <1>4. EndMode(m, s) = "coll"
    BY <1>3 DEF EndMode
  <1>5. Entry(m, n, r = Root, op, s, 0, 0, "ok")
    BY <1>1, <1>2, <1>3, <1>4, PlainEntry
  <1> QED
    BY <1>5 DEF s, m, op

(* The calls that close the file: what s does first, then the last steps.  *)
LEMMA FinishEntry ==
  ASSUME NEW m, m # "closed", NEW op \in {"close", "abort"}, NEW s, NEW K, NEW n, NEW root,
         NEW give, Form(s, K), Operations(m, op) = K \o AfterSync,
         ~Has(s, "grow"), ~Has(s, "vote"), ~Has(s, "define"), ~Has(s, "close"),
         Has(s, "reduce") <=> Has(s, "adopt"),
         Has(s, "adopt") => m = "indep" /\ give = n,
         Has(s, "leave") => Has(s, "adopt"),
         Has(s, "publish") <=> (Has(s, "adopt") /\ root), Has(s, "header") => root,
         m = "indep" => Has(s, "adopt")
  PROVE  Entry(m, n, root, op, s \o (AfterSync \o <<"close">>), give, 0, "ok")
  <1> DEFINE last == AfterSync \o <<"close">>
             t == s \o last
  <1>1. /\ Form(last, AfterSync)
        /\ \A x : Has(last, x) <=> (Share /\ x = "barrier") \/ x = "close"
    BY FinishForm
  <1>2. last[Len(last)] = "close" /\ Len(last) \in Nat /\ Len(last) > 0
    <2>1. AfterSync \in Seq(Step) /\ <<"close">> \in Seq(Step)
      BY AfterSyncForm, FinishForm DEF Form
    <2> QED
      BY <2>1
  <1> HIDE DEF last
  <1>3. \A x : Has(t, x) <=> Has(s, x) \/ Has(last, x)
    BY <1>1, HasConcat DEF Form
  <1>4. \A x, y : Has(s, x) /\ Has(last, y) => Precedes(x, y)
    <2> SUFFICES ASSUME NEW x, NEW y, Has(s, x), Has(last, y), Stage(x) # 0, Stage(y) # 0
                 PROVE  Stage(x) < Stage(y)
      BY DEF Precedes
    <2>1. y = "close" /\ x # "define" /\ x # "close"
      BY <1>1, Stages
    <2> QED
      BY <2>1 DEF Stage
  <1>5. Form(t, K \o AfterSync)
    BY <1>1, <1>4, FormConcat
  <1>6. t[Len(t)] = "close"
    <2>1. s \in Seq(Step) /\ last \in Seq(Step)
      BY <1>1 DEF Form
    <2>2. Len(t) = Len(s) + Len(last) /\ t[Len(s) + Len(last)] = last[Len(last)]
      BY <1>2, <2>1
    <2> QED
      BY <1>2, <2>2
  <1> HIDE DEF t
  <1>7. /\ ~Has(t, "grow") /\ ~Has(t, "vote")
        /\ Has(t, "reduce") <=> Has(s, "reduce")
        /\ Has(t, "adopt") <=> Has(s, "adopt")
        /\ Has(t, "publish") <=> Has(s, "publish")
        /\ Has(t, "leave") <=> Has(s, "leave")
        /\ Has(t, "header") <=> Has(s, "header")
        /\ Has(t, "close")
    BY <1>1, <1>3
  <1>8. EndMode(m, t) = After(m, op) /\ After(m, op) = "closed" /\ op # "begin_indep"
    BY <1>7 DEF EndMode, After
  <1>9. Form(t, Operations(m, op))
    BY <1>5
  <1>10. /\ Has(t, "reduce") <=> Has(t, "adopt")
         /\ Has(t, "adopt") => m = "indep" /\ give = n
         /\ Has(t, "leave") => Has(t, "adopt")
         /\ m = "indep" /\ After(m, op) # "indep" => Has(t, "adopt")
    BY <1>7
  <1>11. /\ Has(t, "publish") <=> (Has(t, "adopt") /\ root)
         /\ Has(t, "header") => root
    BY <1>7, Zenon
  <1>12. Entry(m, n, root, op, t, give, 0, "ok")
    BY <1>6, <1>7, <1>8, <1>9, <1>10, <1>11, PlainEntry
  <1> QED
    BY <1>12 DEF t, last

(* ncmpi_close and ncmpi_abort.                                            *)
LEMMA CloseEntry ==
  ASSUME NEW r \in Rank, NEW n, NEW op \in {"close", "abort"}
  PROVE  /\ Entry("coll", n, r = Root, op, AfterSync \o <<"close">>, 0, 0, "ok")
         /\ Entry("indep", n, r = Root, op, EndIndep(r) \o (AfterSync \o <<"close">>),
                  n, 0, "ok")
         /\ op = "close" =>
              Entry("def", n, r = Root, op, EndDef(r) \o (AfterSync \o <<"close">>), 0, 0, "ok")
         /\ op = "abort" =>
              Entry("def", n, r = Root, op, <<"discard">> \o (AfterSync \o <<"close">>), 0, 0, "ok")
  <1> DEFINE last == AfterSync \o <<"close">>
             m1 == "coll"
             m2 == "indep"
             m3 == "def"
             e == << >>
             s == EndIndep(r)
             d == EndDef(r)
             a == <<"discard">>
  <1>1. /\ m1 # "closed" /\ m2 # "closed" /\ m3 # "closed"
        /\ m1 # "indep" /\ m2 = "indep" /\ m3 # "indep"
    OBVIOUS
  <1>2. /\ Operations(m1, op) = AfterSync /\ Operations(m2, op) = MeetEnd \o AfterSync
        /\ op = "close" => Operations(m3, op) = MeetHeader \o AfterSync
        /\ op = "abort" => Operations(m3, op) = AfterSync
    BY DEF Operations
  <1>3. e \o last = last /\ e \o AfterSync = AfterSync
    <2>1. AfterSync \in Seq(Step) /\ last \in Seq(Step)
      BY AfterSyncForm, FinishForm DEF Form
    <2> QED
      BY <2>1
  <1>4. Form(e, e) /\ \A x : ~Has(e, x)
    BY FormEmpty, HasEmpty
  <1>5. /\ Form(s, MeetEnd) /\ Form(a, e) /\ Form(d, MeetHeader)
        /\ \A x : Has(a, x) <=> x = "discard"
        /\ \A x : Has(s, x) <=>
              \/ x = "reduce" \/ (r = Root /\ x = "publish")
              \/ (SafeMode /\ x = "bcast") \/ x = "adopt"
              \/ (Share /\ x = "barrier") \/ x = "leave"
        /\ \A x : Has(d, x) <=>
              \/ (SafeMode /\ x = "agree") \/ (r = Root /\ x = "header")
              \/ (SafeMode /\ x = "bcast") \/ x = "enddef" \/ (Share /\ x = "barrier")
    BY EndIndepForm, SyncForm, WriteHeaderForm, AfterSyncForm, EndDefForm, FormLocal,
       MeetingSteps, HasOne
  <1> HIDE DEF m1, m2, m3, e, s, d, a
  <1>6. Entry(m1, n, r = Root, op, e \o last, 0, 0, "ok")
    BY <1>1, <1>2, <1>3, <1>4, FinishEntry
  <1>7. /\ ~Has(s, "grow") /\ ~Has(s, "vote") /\ ~Has(s, "header") /\ Has(s, "reduce") /\ Has(s, "adopt")
        /\ Has(s, "publish") <=> r = Root
        /\ ~Has(s, "close") /\ ~Has(s, "define")
    BY <1>5
  <1>8. Entry(m2, n, r = Root, op, s \o last, n, 0, "ok")
    BY <1>1, <1>2, <1>5, <1>7, FinishEntry
  <1>9. /\ Has(d, "header") => r = Root
        /\ ~Has(d, "grow") /\ ~Has(d, "vote") /\ ~Has(d, "reduce") /\ ~Has(d, "adopt")
        /\ ~Has(d, "publish") /\ ~Has(d, "leave")
        /\ ~Has(d, "close") /\ ~Has(d, "define")
    BY <1>5
  <1>10. ASSUME op = "close" PROVE Entry(m3, n, r = Root, op, d \o last, 0, 0, "ok")
    BY <1>1, <1>2, <1>5, <1>9, <1>10, FinishEntry
  <1>11. /\ ~Has(a, "grow") /\ ~Has(a, "vote") /\ ~Has(a, "header") /\ ~Has(a, "reduce") /\ ~Has(a, "adopt")
         /\ ~Has(a, "publish") /\ ~Has(a, "leave")
         /\ ~Has(a, "close") /\ ~Has(a, "define")
    BY <1>5
  <1>12. ASSUME op = "abort" PROVE Entry(m3, n, r = Root, op, a \o last, 0, 0, "ok")
    <2>1. Operations(m3, op) = e \o AfterSync
      BY <1>2, <1>3, <1>12
    <2> QED
      BY <1>1, <2>1, <1>5, <1>11, FinishEntry
  <1>13. Entry(m1, n, r = Root, op, last, 0, 0, "ok")
    BY <1>3, <1>6
  <1> QED
    BY <1>8, <1>10, <1>12, <1>13 DEF m1, m2, m3, s, d, a, last
-----------------------------------------------------------------------------
(***************************************************************************)
(* Every call a rank makes is one of these.  Without an argument error     *)
(* outside safe mode and without a failed fill, its steps have the         *)
(* operations of the other ranks; in every case what it reconciles it      *)
(* publishes and adopts.                                                   *)
(***************************************************************************)
SameSteps == (SafeMode \/ ~BadArgs) /\ ~FillFails

Reconciles(m, n, root, op, s, give, wrote, status) ==
    /\ SyncOK(Record(s, give, wrote, status), Begun(m, op), n, root)
    /\ m = "indep" /\ EndMode(m, s) # "indep" => Has(s, "reduce") /\ Has(s, "adopt")

Makes(r, op, s, give, wrote, status) ==
    /\ Enter(r, op, s, give, wrote, status)
    /\ op \in AllOps /\ s \in Seq(Step)
    /\ give \in Count /\ wrote \in Count /\ status \in Status
    /\ mode' = [mode EXCEPT ![r] = Begun(mode[r], op)]
    /\ numrecs' = numrecs
    /\ Reconciles(mode[r], numrecs[r], r = Root, op, s, give, wrote, status)
    /\ SameSteps => Entry(mode[r], numrecs[r], r = Root, op, s, give, wrote, status)

LEMMA EntryReconciles ==
  ASSUME NEW m, NEW n, NEW root, NEW op, NEW s, NEW give, NEW wrote, NEW status,
         Entry(m, n, root, op, s, give, wrote, status)
  PROVE  Reconciles(m, n, root, op, s, give, wrote, status) /\ s \in Seq(Step)
  <1>1. SyncOK(Record(s, give, wrote, status), Begun(m, op), n, root)
    BY DEF Entry, CallOK
  <1>2. ASSUME m = "indep", EndMode(m, s) # "indep" PROVE Has(s, "reduce") /\ Has(s, "adopt")
    <2>1. Begun(m, op) = m
      BY <1>2 DEF Begun
    <2> QED
      BY <1>2, <2>1 DEF Entry
  <1> QED
    BY <1>1, <1>2 DEF Reconciles, Entry, Form

(* The steps of a call that returns early.                                 *)
LEMMA ShortReconciles ==
  ASSUME NEW n, NEW root, NEW op, op # "begin_indep", NEW give, NEW wrote, NEW status
  PROVE  /\ Reconciles("coll", n, root, op, << >>, give, wrote, status)
         /\ Reconciles("coll", n, root, op, Agreement, give, wrote, status)
  <1> DEFINE m == "coll"
  <1>1. Begun(m, op) = m /\ m # "indep"
    BY DEF Begun
  <1>2. Ordered(<< >>) /\ Ordered(Agreement)
    BY FormEmpty, AgreementForm DEF Form
  <1>3. /\ ~Has(<< >>, "adopt") /\ ~Has(<< >>, "publish") /\ ~Has(<< >>, "header")
        /\ ~Has(Agreement, "adopt") /\ ~Has(Agreement, "publish") /\ ~Has(Agreement, "header")
    BY HasEmpty, AgreementForm
  <1> HIDE DEF m
  <1>4. ASSUME NEW s, Ordered(s), ~Has(s, "adopt"), ~Has(s, "publish"), ~Has(s, "header")
        PROVE  Reconciles(m, n, root, op, s, give, wrote, status)
    <2> DEFINE c == Record(s, give, wrote, status)
    <2>1. c.steps = s
      BY DEF Record
    <2> HIDE DEF c
    <2>2. SyncOK(c, m, n, root)
      BY <1>4, <2>1 DEF SyncOK
    <2> QED
      BY <1>1, <2>2 DEF Reconciles, c
  <1>5. Reconciles(m, n, root, op, << >>, give, wrote, status)
    BY <1>2, <1>3, <1>4
  <1>6. Reconciles(m, n, root, op, Agreement, give, wrote, status)
    BY <1>2, <1>3, <1>4
  <1> QED
    BY <1>5, <1>6 DEF m

LEMMA MakesPlain ==
  ASSUME TypeOK, NEW r \in Rank, NEW op \in AllOps, op # "begin_indep", NEW s,
         NEW give \in Count, NEW wrote \in Count, NEW status \in Status,
         Enter(r, op, s, give, wrote, status), mode' = mode, numrecs' = numrecs,
         Entry(mode[r], numrecs[r], r = Root, op, s, give, wrote, status)
  PROVE  Makes(r, op, s, give, wrote, status)
  <1>1. mode' = [mode EXCEPT ![r] = Begun(mode[r], op)]
    <2>1. Begun(mode[r], op) = mode[r]
      BY DEF Begun
    <2>2. mode = [mode EXCEPT ![r] = mode[r]]
      BY DEF TypeOK
    <2> QED
      BY <2>1, <2>2
  <1> DEFINE root == (r = Root)
             m == mode[r]
             n == numrecs[r]
  <1>2. Entry(m, n, root, op, s, give, wrote, status)
    OBVIOUS
  <1> HIDE DEF root, m, n
  <1>3. Reconciles(m, n, root, op, s, give, wrote, status) /\ s \in Seq(Step)
    BY <1>2, EntryReconciles
  <1> QED
    BY <1>1, <1>2, <1>3 DEF Makes, root, m, n

LEMMA MakesShort ==
  ASSUME TypeOK, NEW r \in Rank, mode[r] = "coll", NEW op \in AllOps,
         op # "begin_indep", ~SameSteps, NEW s \in {<< >>, Agreement},
         NEW give \in Count, NEW wrote \in Count, NEW status \in Status,
         Enter(r, op, s, give, wrote, status), mode' = mode, numrecs' = numrecs
  PROVE  Makes(r, op, s, give, wrote, status)
  <1>1. mode' = [mode EXCEPT ![r] = Begun(mode[r], op)]
    <2>1. Begun(mode[r], op) = mode[r]
      BY DEF Begun
    <2>2. mode = [mode EXCEPT ![r] = mode[r]]
      BY DEF TypeOK
    <2> QED
      BY <2>1, <2>2
  <1> DEFINE root == (r = Root)
             m == mode[r]
             n == numrecs[r]
  <1> HIDE DEF root, n
  <1>2. Reconciles(m, n, root, op, s, give, wrote, status)
    BY ShortReconciles
  <1>3. s \in Seq(Step)
    BY FormEmpty, AgreementForm DEF Form
  <1> QED
    BY <1>1, <1>2, <1>3 DEF Makes, root, n

Called(r) == \E op, s, give, wrote, status : Makes(r, op, s, give, wrote, status)

LEMMA WritesMake ==
  ASSUME TypeOK, NEW r \in Rank, PutAll(r) \/ FillVarRec(r) \/ WaitAll(r)
  PROVE  Called(r)
  <1> DEFINE root == (r = Root)
             n == numrecs[r]
             coll == "coll"
             put == "put_all"
             fill == "fill_rec"
             wait == "wait_all"
             ok == "ok"
             error == "error"
  <1>1. /\ mode[r] = coll /\ mode' = mode /\ numrecs' = numrecs /\ n \in Count
        /\ {put, fill, wait} \subseteq AllOps
        /\ put # "begin_indep" /\ fill # "begin_indep" /\ wait # "begin_indep"
        /\ {ok, error} \subseteq Status /\ 1 .. MaxRecs \subseteq Count /\ 0 \in Count
        /\ Count \subseteq Nat
        /\ \A k \in Count : Within(k, k) /\ Within(0, k)
    <2>1. mode[r] = coll /\ mode' = mode /\ numrecs' = numrecs /\ n \in Count
      BY DEF PutAll, FillVarRec, WaitAll, TypeOK
    <2>2. /\ {put, fill, wait} \subseteq AllOps
          /\ put # "begin_indep" /\ fill # "begin_indep" /\ wait # "begin_indep"
          /\ {ok, error} \subseteq Status
      BY DEF AllOps, Status
    <2>3. 1 .. MaxRecs \subseteq Count /\ 0 \in Count /\ Count \subseteq Nat
      BY BoundAssumption DEF Count
    <2>4. \A k \in Count : Within(k, k) /\ Within(0, k)
      BY DEF Count, Within
    <2> QED
      BY <2>1, <2>2, <2>3, <2>4
  <1>2. ASSUME NEW give \in Nat, NEW wrote \in Nat, Within(wrote, give)
        PROVE  /\ Entry(coll, n, root, put, PutSteps, give, wrote, ok)
               /\ SafeMode => Entry(coll, n, root, put, PutSteps, give, wrote, error)
               /\ Entry(coll, n, root, fill, FillSteps, give, wrote, ok)
               /\ SafeMode => Entry(coll, n, root, fill, FillSteps, give, wrote, error)
    <2> HIDE DEF root, n
    <2> QED
      BY <1>2, PutEntry, FillEntry
  <1>3. ASSUME NEW give \in Nat, NEW wrote \in Nat, Within(wrote, give), NEW status
        PROVE  Entry(coll, n, root, wait, GrowSteps("vote", "grow"), give, wrote, status)
    <2> HIDE DEF root, n
    <2> QED
      BY <1>3, WaitEntry
  <1>4. /\ SafeMode => When(SafeMode, PutSteps) = PutSteps /\ When(SafeMode, FillSteps) = FillSteps
        /\ ~SafeMode => When(SafeMode, PutSteps) = << >> /\ When(SafeMode, FillSteps) = << >>
    BY DEF When
  <1>5. ASSUME NEW op \in {put, fill, wait}, NEW s,
               NEW give \in Count, NEW wrote \in Count, NEW status \in {ok, error},
               Enter(r, op, s, give, wrote, status),
               Entry(coll, n, root, op, s, give, wrote, status)
        PROVE  Called(r)
    <2>1. Makes(r, op, s, give, wrote, status)
      BY <1>1, <1>5, MakesPlain
    <2> QED
      BY <2>1 DEF Called
  <1>6. ASSUME NEW op \in {put, fill}, NEW s \in {<< >>, Agreement}, ~SameSteps,
               NEW give \in Count, NEW wrote \in Count, NEW status \in {ok, error},
               Enter(r, op, s, give, wrote, status)
        PROVE  Called(r)
    <2>1. Makes(r, op, s, give, wrote, status)
      BY <1>1, <1>6, MakesShort
    <2> QED
      BY <2>1 DEF Called
  <1>7. CASE PutAll(r)
    <2>1. ASSUME NEW give \in Count, NEW wrote \in Count, Within(wrote, give),
                 Enter(r, put, PutSteps, give, wrote, ok)
          PROVE  Called(r)
      BY <1>1, <1>2, <1>5, <2>1
    <2>2. CASE \E k \in 1 .. MaxRecs : Enter(r, put, PutSteps, k, k, ok)
      BY <1>1, <2>1, <2>2
    <2>3. CASE \E k \in Count : Enter(r, put, PutSteps, k, 0, ok)
      BY <1>1, <2>1, <2>3
    <2>4. CASE BadArgs /\ Enter(r, put, When(SafeMode, PutSteps), 0, 0, error)
      <3>1. CASE SafeMode
        <4>1. Entry(coll, n, root, put, PutSteps, 0, 0, error)
          BY <1>1, <1>2, <3>1
        <4>2. Enter(r, put, PutSteps, 0, 0, error)
          BY <1>4, <2>4, <3>1
        <4> QED
          BY <1>1, <1>5, <4>1, <4>2
      <3>2. CASE ~SafeMode
        <4>1. ~SameSteps /\ Enter(r, put, << >>, 0, 0, error)
          BY <1>4, <2>4, <3>2 DEF SameSteps
        <4> QED
          BY <1>1, <1>6, <4>1
      <3> QED
        BY <3>1, <3>2
    <2> QED
      BY <1>1, <1>7, <2>2, <2>3, <2>4 DEF PutAll
  <1>8. CASE FillVarRec(r)
    <2>1. ASSUME NEW k \in 1 .. MaxRecs, NEW fails \in {FALSE, FillFails},
                 Enter(r, fill, FillStepsOf(fails), k, k, ok)
          PROVE  Called(r)
      <3>1. CASE ~fails
        <4>1. Enter(r, fill, FillSteps, k, k, ok)
          BY <2>1, <3>1 DEF FillStepsOf
        <4> QED
          BY <1>1, <1>2, <1>5, <4>1
      <3>2. CASE fails
        <4>1. ~SameSteps /\ Enter(r, fill, Agreement, k, k, ok)
          BY <2>1, <3>2 DEF SameSteps, FillStepsOf, Agreement
        <4> QED
          BY <1>1, <1>6, <4>1
      <3> QED
        BY <3>1, <3>2
    <2>4. CASE BadArgs /\ Enter(r, fill, When(SafeMode, FillSteps), 0, 0, error)
      <3>1. CASE SafeMode
        <4>1. Entry(coll, n, root, fill, FillSteps, 0, 0, error)
          BY <1>1, <1>2, <3>1
        <4>2. Enter(r, fill, FillSteps, 0, 0, error)
          BY <1>4, <2>4, <3>1
        <4> QED
          BY <1>1, <1>5, <4>1, <4>2
      <3>2. CASE ~SafeMode
        <4>1. ~SameSteps /\ Enter(r, fill, << >>, 0, 0, error)
          BY <1>4, <2>4, <3>2 DEF SameSteps
        <4> QED
          BY <1>1, <1>6, <4>1
      <3> QED
        BY <3>1, <3>2
    <2> QED
      BY <1>8, <2>1, <2>4 DEF FillVarRec
  <1>9. CASE WaitAll(r)
    <2> DEFINE s == GrowSteps("vote", "grow")
    <2>1. ASSUME NEW give \in Count, NEW wrote \in Count, Within(wrote, give), NEW status \in {ok, error},
                 Enter(r, wait, s, give, wrote, status)
          PROVE  Called(r)
      BY <1>1, <1>3, <1>5, <2>1
    <2>2. ASSUME NEW k \in Count, NEW j \in Scanned(k), NEW w \in Stored(k),
                 Enter(r, wait, s, IF j > n THEN j ELSE n, w, ok)
          PROVE  Called(r)
      <3>1. j \in Count /\ w \in Count /\ j \in Nat /\ w \in Nat /\ n \in Nat
        BY <1>1, WaitChoices
      <3>2. Within(w, j) /\ (j <= n => Within(w, n))
        BY <1>1, <3>1, WaitChoices DEF Within, Scanned
      <3> HIDE DEF n, s, wait, ok
      <3>3. CASE j > n
        BY <1>1, <2>1, <2>2, <3>1, <3>2, <3>3
      <3>4. CASE ~(j > n)
        <4>1. Enter(r, wait, s, n, w, ok) /\ Within(w, n)
          BY <2>2, <3>1, <3>2, <3>4
        <4> QED
          BY <1>1, <2>1, <3>1, <4>1
      <3> QED
        BY <3>3, <3>4
    <2>3. CASE BadArgs /\ Enter(r, wait, s, n, 0, error)
      <3> HIDE DEF n, s, wait, error
      <3> QED
        BY <1>1, <2>1, <2>3
    <2> QED
      BY <1>9, <2>2, <2>3 DEF WaitAll
  <1> QED
    BY <1>7, <1>8, <1>9

LEMMA CallMakes ==
  ASSUME TypeOK, NEW r \in Rank, MakeCall(r)
  PROVE  Called(r)
  <1> DEFINE n == numrecs[r]
             zero == 0
             ok == "ok"
             last == AfterSync \o <<"close">>
  <1>1. n \in Count /\ zero \in Count /\ ok \in Status /\ zero = 0
    BY BoundAssumption DEF TypeOK, Count, Status
  <1> HIDE DEF zero
  <1>2. ASSUME NEW op \in AllOps, op # "begin_indep", NEW s, NEW give \in Count,
               Enter(r, op, s, give, 0, ok), mode' = mode, numrecs' = numrecs,
               Entry(mode[r], n, r = Root, op, s, give, 0, ok)
        PROVE  Called(r)
    <2>1. Makes(r, op, s, give, 0, ok)
      BY <1>1, <1>2, MakesPlain
    <2> QED
      BY <2>1 DEF Called
  <1>3. ASSUME NEW m, NEW op \in AllOps, op # "begin_indep", NEW s, EnterFrom(m, r, op, s),
               Entry(m, n, r = Root, op, s, 0, 0, ok)
        PROVE  Called(r)
    BY <1>1, <1>2, <1>3 DEF EnterFrom
  <1>4. ASSUME NEW op \in AllOps, op # "begin_indep", NEW s, EnterIndep(r, op, s),
               Entry("indep", n, r = Root, op, s, n, 0, ok)
        PROVE  Called(r)
    BY <1>1, <1>2, <1>4 DEF EnterIndep
  <1>5. /\ {"end_indep", "sync_numrecs", "sync", "rename", "redef", "enddef",
            "close", "abort"} \subseteq AllOps \ {"begin_indep"}
        /\ "begin_indep" \in AllOps
    BY DEF AllOps
  <1>6. CASE PutAll(r) \/ FillVarRec(r) \/ WaitAll(r)
    BY <1>6, WritesMake
  <1>7. CASE BeginIndepData(r)
    <2> DEFINE b == "begin_indep"
               coll == "coll"
    <2>1. Entry(coll, n, r = Root, b, << >>, 0, 0, ok)
      BY BeginEntry, Zenon
    <2>2. /\ Enter(r, b, << >>, 0, 0, ok) /\ mode[r] = coll /\ numrecs' = numrecs
          /\ mode' = [mode EXCEPT ![r] = Begun(mode[r], b)]
      BY <1>7 DEF BeginIndepData, Begun
    <2>3. b \in AllOps
      BY <1>5
    <2>4. Reconciles(coll, n, r = Root, b, << >>, 0, 0, ok) /\ << >> \in Seq(Step)
      <3> DEFINE root == (r = Root)
      <3>1. Entry(coll, n, root, b, << >>, 0, 0, ok)
        BY <2>1
      <3> HIDE DEF root, coll, n, b, ok
      <3>2. Reconciles(coll, n, root, b, << >>, 0, 0, ok)
        BY <3>1, EntryReconciles
      <3> QED
        BY <3>2 DEF root
    <2> HIDE DEF b, coll, ok
    <2>5. Makes(r, b, << >>, 0, 0, ok)
      BY <1>1, <2>1, <2>2, <2>3, <2>4 DEF Makes
    <2> QED
      BY <2>5 DEF Called
  <1>8. CASE EndIndepData(r)
    <2>1. Entry("indep", n, r = Root, "end_indep", EndIndep(r), n, 0, ok)
      BY EndIndepEntry
    <2> QED
      BY <1>4, <1>5, <1>8, <2>1 DEF EndIndepData
  <1>9. CASE SyncNumrecsCall(r)
    <2>1. Entry("indep", n, r = Root, "sync_numrecs", SyncNumrecs(r), n, 0, ok)
      BY SyncNumrecsEntry
    <2> QED
      BY <1>4, <1>5, <1>9, <2>1 DEF SyncNumrecsCall
  <1>10. CASE Sync(r)
    <2>1. /\ Entry("coll", n, r = Root, "sync", <<"barrier">>, 0, 0, ok)
          /\ Entry("indep", n, r = Root, "sync", SyncNumrecs(r) \o <<"check", "barrier">>,
                   n, 0, ok)
      BY SyncEntry
    <2> QED
      BY <1>3, <1>4, <1>5, <1>10, <2>1 DEF Sync
  <1>11. CASE Rename(r)
    <2>1. PICK m \in {"coll", "indep"} :
                 EnterFrom(m, r, "rename", WriteHeader(r) \o AfterSync)
      BY <1>11 DEF Rename
    <2>2. Entry(m, n, r = Root, "rename", WriteHeader(r) \o AfterSync, 0, 0, ok)
      BY RenameEntry
    <2> QED
      BY <1>3, <1>5, <2>1, <2>2
  <1>12. CASE Redef(r)
    <2>1. Entry("coll", n, r = Root, "redef", <<"define">>, 0, 0, ok)
      BY RedefEntry, Zenon
    <2>2. Entry("indep", n, r = Root, "redef", EndIndep(r) \o <<"define">>, n, 0, ok)
      BY EndIndepEntry
    <2> QED
      BY <1>3, <1>4, <1>5, <1>12, <2>1, <2>2 DEF Redef
  <1>13. CASE EndDefCall(r)
    <2>1. Entry("def", n, r = Root, "enddef", EndDef(r), 0, 0, ok)
      BY EndDefEntry
    <2> QED
      BY <1>3, <1>5, <1>13, <2>1 DEF EndDefCall
  <1>14. CASE Close(r)
    <2>1. /\ Entry("coll", n, r = Root, "close", last, 0, 0, ok)
          /\ Entry("indep", n, r = Root, "close", EndIndep(r) \o last, n, 0, ok)
          /\ Entry("def", n, r = Root, "close", EndDef(r) \o last, 0, 0, ok)
      BY CloseEntry
    <2> QED
      BY <1>3, <1>4, <1>5, <1>14, <2>1 DEF Close
  <1>15. CASE Abort(r)
    <2>1. /\ Entry("coll", n, r = Root, "abort", last, 0, 0, ok)
          /\ Entry("indep", n, r = Root, "abort", EndIndep(r) \o last, n, 0, ok)
          /\ Entry("def", n, r = Root, "abort", <<"discard">> \o last, 0, 0, ok)
      BY CloseEntry
    <2> QED
      BY <1>3, <1>4, <1>5, <1>15, <2>1 DEF Abort
  <1> QED
    BY <1>6, <1>7, <1>8, <1>9, <1>10, <1>11, <1>12, <1>13, <1>14, <1>15 DEF MakeCall
-----------------------------------------------------------------------------
(***************************************************************************)
(* One step of a call: d, m2 and n2 are what it makes of the call c, the   *)
(* mode m and the count n of its rank.                                     *)
(***************************************************************************)
Bigger(a, b) == IF a > b THEN a ELSE b

Taken(x, got, n) ==
    IF x \in {"grow", "publish"} THEN Bigger(got, n)
    ELSE IF x = "adopt" THEN got
    ELSE n

Moves(c, m, n, d, m2, n2) ==
    /\ c.steps # << >>
    /\ d.steps = Tail(c.steps)
    /\ m2 = StepMode(m, Head(c.steps))
    /\ n2 = Taken(Head(c.steps), c.got, n)
    /\ d.steps # << >> =>
         /\ d.give = c.give
         /\ d.wrote = c.wrote
         /\ IF Head(c.steps) \in {"reduce", "vote"} THEN c.give <= d.got ELSE d.got = c.got

(* What is left of a call after its first step, and the ties between them. *)
LEMMA RestOf ==
  ASSUME NEW s \in Seq(Step), s # << >>, Ordered(s)
  PROVE  /\ Tail(s) \in Seq(Step) /\ Ordered(Tail(s)) /\ Head(s) \in Step
         /\ \A x : Has(s, x) <=> (Head(s) = x \/ Has(Tail(s), x))
         /\ \A x : Has(Tail(s), x) => Precedes(Head(s), x) /\ Tail(s) # << >>
  <1>1. Tail(s) \in Seq(Step) /\ Head(s) \in Step
    OBVIOUS
  <1>2. \A x : Has(s, x) <=> (Head(s) = x \/ Has(Tail(s), x))
    BY HasTail
  <1>3. Ordered(Tail(s)) /\ \A x : Has(Tail(s), x) => Precedes(Head(s), x)
    BY OrderedTail
  <1>4. \A x : Has(Tail(s), x) => Tail(s) # << >>
    BY HasEmpty, Zenon
  <1> QED
    BY <1>1, <1>2, <1>3, <1>4

LEMMA SyncMoves ==
  ASSUME NEW c \in Call, NEW m, NEW n \in Nat, NEW d \in Call, NEW m2, NEW n2, NEW root,
         Moves(c, m, n, d, m2, n2), SyncOK(c, m, n, root)
  PROVE  SyncOK(d, m2, n2, root)
  <1> DEFINE s == c.steps
             t == d.steps
             h == Head(s)
  <1>1. /\ s \in Seq(Step) /\ s # << >> /\ t = Tail(s) /\ Ordered(s)
        /\ m2 = StepMode(m, h) /\ n2 = Taken(h, c.got, n)
        /\ c.got \in Nat /\ c.give \in Nat /\ d.got \in Nat
    BY DEF Moves, SyncOK, Call, Count
  <1>2. /\ t # << >> =>
             /\ d.give = c.give
             /\ d.wrote = c.wrote
             /\ IF h \in {"reduce", "vote"} THEN c.give <= d.got ELSE d.got = c.got
    BY DEF Moves
  <1>3. /\ Has(s, "adopt") => m = "indep" /\ c.wrote = 0 /\ ~Has(s, "vote")
        /\ Has(s, "adopt") /\ Has(s, "reduce") => c.give = n
        /\ Has(s, "adopt") /\ ~Has(s, "reduce") => n <= c.got
        /\ Has(s, "publish") => root /\ Has(s, "adopt")
        /\ root /\ Has(s, "adopt") => Has(s, "publish") \/ (~Has(s, "reduce") /\ c.got = n)
        /\ Has(s, "header") => root
    BY DEF SyncOK
  <1> HIDE DEF s, t, h
  <1>4. /\ Ordered(t)
        /\ \A x : Has(s, x) <=> (h = x \/ Has(t, x))
        /\ \A x : Has(t, x) => Precedes(h, x) /\ t # << >>
    BY <1>1, RestOf DEF h
  <1>5. /\ Has(t, "adopt") => Precedes(h, "adopt") /\ t # << >>
        /\ Has(t, "publish") => Precedes(h, "publish")
        /\ Has(t, "reduce") => Precedes(h, "reduce")
    BY <1>4
  <1>6. /\ h = "adopt" => ~Has(t, "publish") /\ ~Has(t, "reduce") /\ ~Has(t, "adopt")
        /\ h = "publish" => ~Has(t, "reduce")
        /\ h \in {"grow", "leave", "enddef", "discard", "define", "close"} => ~Has(t, "adopt")
        /\ Has(t, "adopt") => t # << >>
    BY <1>5, Stages DEF Precedes
  <1>7. Has(t, "adopt") => m2 = m /\ h # "grow" /\ h # "adopt"
    BY <1>1, <1>6 DEF StepMode
  <1>8. /\ Has(s, "adopt") <=> h = "adopt" \/ Has(t, "adopt")
        /\ Has(s, "reduce") <=> h = "reduce" \/ Has(t, "reduce")
        /\ Has(s, "vote") <=> h = "vote" \/ Has(t, "vote")
        /\ Has(s, "publish") <=> h = "publish" \/ Has(t, "publish")
        /\ Has(s, "header") <=> h = "header" \/ Has(t, "header")
    BY <1>4
  <1>9. ASSUME Has(t, "adopt")
        PROVE  /\ m2 = "indep" /\ d.wrote = 0 /\ ~Has(t, "vote") /\ h # "vote"
               /\ h # "publish" => n2 = n
               /\ h = "publish" => n2 = Bigger(c.got, n) /\ d.got = c.got
    BY <1>1, <1>2, <1>3, <1>6, <1>7, <1>8, <1>9 DEF Taken
  <1>10. ASSUME Has(t, "adopt"), Has(t, "reduce") PROVE d.give = n2
    BY <1>2, <1>3, <1>6, <1>8, <1>9, <1>10
  <1>11. ASSUME Has(t, "adopt"), ~Has(t, "reduce") PROVE n2 <= d.got
    <2>1. CASE h = "reduce"
      BY <1>1, <1>2, <1>3, <1>6, <1>8, <1>9, <1>11, <2>1
    <2>2. CASE h # "reduce"
      BY <1>1, <1>2, <1>3, <1>6, <1>8, <1>9, <1>11, <2>2 DEF Bigger
    <2> QED
      BY <2>1, <2>2
  <1>12. Has(t, "publish") => root /\ Has(t, "adopt")
    BY <1>3, <1>6, <1>8
  <1>13. ASSUME root, Has(t, "adopt"), ~Has(t, "publish")
         PROVE  ~Has(t, "reduce") /\ d.got = n2
    <2>1. CASE h = "publish"
      BY <1>1, <1>3, <1>6, <1>8, <1>9, <1>13, <2>1 DEF Bigger
    <2>2. CASE h # "publish"
      BY <1>1, <1>2, <1>3, <1>6, <1>8, <1>9, <1>13, <2>2
    <2> QED
      BY <2>1, <2>2
  <1>14. Has(t, "header") => root
    BY <1>3, <1>8
  <1> QED
    BY <1>4, <1>9, <1>10, <1>11, <1>12, <1>13, <1>14 DEF SyncOK, t

LEMMA AdvanceCall ==
  ASSUME NEW c \in Call, c.steps # << >>
  PROVE  /\ Advance(c) \in Call
         /\ Advance(c).steps = Tail(c.steps)
         /\ Advance(c).steps # << >> =>
              /\ Advance(c).give = c.give /\ Advance(c).wrote = c.wrote
              /\ Advance(c).got = c.got /\ Advance(c).status = c.status
         /\ Advance(c).steps = << >> => Advance(c) = Idle
  <1>1. Advance(c) \in Call /\ c.steps \in Seq(Step)
    BY AdvanceType DEF Call
  <1>2. CASE Len(c.steps) = 1
    <2>1. ASSUME NEW s \in Seq(Step), Len(s) = 1 PROVE Tail(s) = << >>
      <3>1. s # << >>
        <4>1. Len(<< >>) = 0
          OBVIOUS
        <4> QED
          BY <2>1, <4>1
      <3>2. Len(Tail(s)) = 0 /\ Tail(s) \in Seq(Step)
        BY <2>1, <3>1
      <3>3. ASSUME NEW t \in Seq(Step), Len(t) = 0 PROVE t = << >>
        BY <3>3
      <3> QED
        BY <3>2, <3>3
    <2>2. Tail(c.steps) = << >>
      BY <1>1, <1>2, <2>1
    <2>3. Advance(c) = Idle /\ Idle.steps = << >>
      BY <1>2 DEF Advance, Idle
    <2> QED
      BY <1>1, <2>2, <2>3
  <1>3. CASE Len(c.steps) # 1
    <2>0. ASSUME NEW s \in Seq(Step), s # << >>, Len(s) # 1 PROVE Tail(s) # << >>
      <3>1. Len(Tail(s)) = Len(s) - 1 /\ Len(s) \in Nat
        BY <2>0
      <3>2. Len(Tail(s)) # 0 /\ Len(<< >>) = 0
        BY <2>0, <3>1
      <3> QED
        BY <3>2
    <2>1. Tail(c.steps) # << >>
      BY <1>1, <1>3, <2>0
    <2>2. Advance(c) = [c EXCEPT !.steps = Tail(@)]
      BY <1>3 DEF Advance
    <2>3. /\ Advance(c).steps = Tail(c.steps)
          /\ Advance(c).give = c.give /\ Advance(c).wrote = c.wrote
          /\ Advance(c).got = c.got /\ Advance(c).status = c.status
      BY <2>2 DEF Call
    <2> QED
      BY <1>1, <2>1, <2>3
  <1> QED
    BY <1>2, <1>3

(* The steps of one rank.                                                  *)
Alone(r) ==
    /\ call[r] \in Call /\ call'[r] \in Call
    /\ call[r].steps # << >> /\ Head(call[r].steps) \notin Meeting
    /\ todo' = todo /\ written' = written
    /\ \A q \in Rank \ {r} :
         call'[q] = call[q] /\ mode'[q] = mode[q] /\ numrecs'[q] = numrecs[q]

GivesUp(r) ==
    /\ At(r, "check") /\ Failed(r)
    /\ call'[r] = Idle /\ mode'[r] = mode[r] /\ numrecs'[r] = numrecs[r]

LEMMA LocalMoves ==
  ASSUME TypeOK, NEW r \in Rank, LocalStep(r), At(r, "publish") => r = Root
  PROVE  /\ Alone(r)
         /\ \/ Moves(call[r], mode[r], numrecs[r], call'[r], mode'[r], numrecs'[r])
            \/ GivesUp(r)
  <1> DEFINE c == call[r]
             h == Head(c.steps)
  <1>1. /\ call[r] \in Call /\ numrecs[r] \in Count
        /\ call \in [Rank -> Call] /\ mode \in [Rank -> {"coll", "indep", "def", "closed"}]
        /\ numrecs \in [Rank -> Count]
    BY DEF TypeOK
  <1>2. call'[r] \in Call
    BY LocalStepPreservesType DEF TypeOK
  <1>3. todo' = todo /\ written' = written
    BY DEF LocalStep, Grow, Publish, Bcast, Adopt, Check, Header, Leave, EnterDefine,
           Discard, CloseFile, ExitDefine, SwitchMode
  <1>4. ASSUME c.steps # << >>, Done(r)
        PROVE  /\ call'[r] = Advance(c)
               /\ \A q \in Rank \ {r} : call'[q] = call[q]
    BY <1>1, <1>4 DEF Done
  <1>5. ASSUME c.steps # << >>, NEW d \in Call, call' = [call EXCEPT ![r] = Advance(d)],
               d.steps = c.steps, d.give = c.give, d.wrote = c.wrote, d.got = c.got,
               h \notin Meeting, mode'[r] = StepMode(mode[r], h),
               numrecs'[r] = Taken(h, c.got, numrecs[r]),
               \A q \in Rank \ {r} : mode'[q] = mode[q] /\ numrecs'[q] = numrecs[q]
        PROVE  Alone(r) /\ Moves(c, mode[r], numrecs[r], call'[r], mode'[r], numrecs'[r])
    <2>1. call'[r] = Advance(d) /\ \A q \in Rank \ {r} : call'[q] = call[q]
      BY <1>1, <1>5
    <2>2. /\ Advance(d).steps = Tail(c.steps)
          /\ Advance(d).steps # << >> =>
              /\ Advance(d).give = c.give /\ Advance(d).wrote = c.wrote
              /\ Advance(d).got = c.got
      BY <1>5, AdvanceCall
    <2>3. h \notin {"reduce", "vote"}
      BY <1>5 DEF Meeting
    <2>4. Alone(r)
      BY <1>1, <1>2, <1>3, <1>5, <2>1 DEF Alone
    <2>5. Moves(c, mode[r], numrecs[r], call'[r], mode'[r], numrecs'[r])
      BY <1>5, <2>1, <2>2, <2>3 DEF Moves
    <2> QED
      BY <2>4, <2>5
  <1>6. ASSUME c.steps # << >>, Done(r), h \notin Meeting, mode'[r] = StepMode(mode[r], h),
               numrecs'[r] = Taken(h, c.got, numrecs[r]),
               \A q \in Rank \ {r} : mode'[q] = mode[q] /\ numrecs'[q] = numrecs[q]
        PROVE  Alone(r) /\ Moves(c, mode[r], numrecs[r], call'[r], mode'[r], numrecs'[r])
    <2>1. call' = [call EXCEPT ![r] = Advance(c)]
      BY <1>6 DEF Done
    <2> HIDE DEF c
    <2>2. c \in Call
      BY <1>1 DEF c
    <2> QED
      BY <1>5, <1>6, <2>1, <2>2
  <1>7. CASE Grow(r)
    <2>1. /\ c.steps # << >> /\ h = "grow" /\ Done(r) /\ mode' = mode
          /\ StepMode(mode[r], h) = mode[r] /\ h \notin Meeting
          /\ Taken(h, c.got, numrecs[r]) = Bigger(c.got, numrecs[r])
      BY <1>7 DEF Grow, At, InCall, StepMode, Taken, Meeting
    <2>2. c.got \in Nat /\ numrecs[r] \in Nat
      BY <1>1 DEF Call, Count
    <2>3. /\ numrecs'[r] = Bigger(c.got, numrecs[r])
          /\ \A q \in Rank \ {r} : numrecs'[q] = numrecs[q]
      <3>1. CASE c.got <= numrecs[r]
        BY <1>7, <2>2, <3>1 DEF Grow, Bigger
      <3>2. CASE ~(c.got <= numrecs[r])
        <4>1. numrecs' = [numrecs EXCEPT ![r] = c.got]
          BY <1>7, <3>2 DEF Grow, WriteNumrecs
        <4> QED
          BY <1>1, <2>2, <3>2, <4>1 DEF Bigger
      <3> QED
        BY <3>1, <3>2
    <2> QED
      BY <1>6, <2>1, <2>3
  <1>8. CASE Publish(r)
    <2>1. /\ c.steps # << >> /\ h = "publish" /\ mode' = mode /\ r = Root
          /\ StepMode(mode[r], h) = mode[r] /\ h \notin Meeting
          /\ Taken(h, c.got, numrecs[r]) = Bigger(c.got, numrecs[r])
      BY <1>8 DEF Publish, At, InCall, StepMode, Taken, Meeting
    <2>2. PICK result \in Results :
            /\ WriteNumrecs(IF c.got > numrecs[r] THEN c.got ELSE numrecs[r], result)
            /\ call' = [call EXCEPT ![r] = Advance([@ EXCEPT !.status = StatusOf(result)])]
      BY <1>8 DEF Publish
    <2>3. numrecs' = [numrecs EXCEPT ![r] = Bigger(c.got, numrecs[r])]
      BY <2>1, <2>2 DEF WriteNumrecs, Bigger
    <2>4. /\ numrecs'[r] = Bigger(c.got, numrecs[r])
          /\ \A q \in Rank \ {r} : numrecs'[q] = numrecs[q]
      BY <1>1, <2>3
    <2> DEFINE d == [c EXCEPT !.status = StatusOf(result)]
    <2>5. d \in Call
      BY <1>1 DEF Call, StatusOf, Status
    <2>6. /\ d.steps = c.steps /\ d.give = c.give /\ d.wrote = c.wrote /\ d.got = c.got
          /\ call' = [call EXCEPT ![r] = Advance(d)]
      BY <1>1, <2>2 DEF Call
    <2> HIDE DEF d, c
    <2>7. Alone(r) /\ Moves(c, mode[r], numrecs[r], call'[r], mode'[r], numrecs'[r])
      BY <1>5, <2>1, <2>4, <2>5, <2>6
    <2> QED
      BY <2>7 DEF c
  <1>9. CASE Bcast(r)
    <2>1. /\ c.steps # << >> /\ h = "bcast" /\ mode' = mode /\ numrecs' = numrecs
          /\ StepMode(mode[r], h) = mode[r] /\ h \notin Meeting
          /\ Taken(h, c.got, numrecs[r]) = numrecs[r]
      BY <1>9 DEF Bcast, At, InCall, StepMode, Taken, Meeting
    <2>2. CASE Done(r)
      BY <1>6, <2>1, <2>2
    <2>3. CASE ~Done(r)
      <3> DEFINE d == IF Head(mail[r]) = "ewrite" THEN [c EXCEPT !.status = "ewrite"] ELSE c
      <3>1. call' = [call EXCEPT ![r] = Advance(d)]
        BY <1>9, <2>3 DEF Bcast
      <3>2. d \in Call
        BY <1>1 DEF Call, Status
      <3>3. d.steps = c.steps /\ d.give = c.give /\ d.wrote = c.wrote /\ d.got = c.got
        BY <1>1 DEF Call
      <3> HIDE DEF d, c
      <3>4. Alone(r) /\ Moves(c, mode[r], numrecs[r], call'[r], mode'[r], numrecs'[r])
        BY <1>5, <2>1, <3>1, <3>2, <3>3
      <3> QED
        BY <3>4 DEF c
    <2> QED
      BY <2>2, <2>3
  <1>10. CASE Adopt(r)
    <2>1. /\ c.steps # << >> /\ h = "adopt" /\ mode' = mode /\ Done(r)
          /\ numrecs' = [numrecs EXCEPT ![r] = c.got]
          /\ StepMode(mode[r], h) = mode[r] /\ h \notin Meeting
          /\ Taken(h, c.got, numrecs[r]) = c.got
      BY <1>10 DEF Adopt, At, InCall, StepMode, Taken, Meeting
    <2>2. numrecs'[r] = c.got /\ \A q \in Rank \ {r} : numrecs'[q] = numrecs[q]
      BY <1>1, <2>1
    <2> QED
      BY <1>6, <2>1, <2>2
  <1>11. CASE Check(r)
    <2>1. /\ c.steps # << >> /\ h = "check" /\ mode' = mode /\ numrecs' = numrecs
          /\ StepMode(mode[r], h) = mode[r] /\ h \notin Meeting
          /\ Taken(h, c.got, numrecs[r]) = numrecs[r]
      BY <1>11 DEF Check, At, InCall, StepMode, Taken, Meeting
    <2>2. CASE Failed(r)
      <3>1. call' = [call EXCEPT ![r] = Idle]
        BY <1>11, <2>2 DEF Check
      <3>2. call'[r] = Idle /\ \A q \in Rank \ {r} : call'[q] = call[q]
        BY <1>1, <3>1
      <3>3. Alone(r)
        BY <1>1, <1>2, <1>3, <2>1, <3>2 DEF Alone
      <3> QED
        BY <1>11, <2>1, <2>2, <3>2, <3>3 DEF GivesUp, Check
    <2>3. CASE ~Failed(r)
      <3>1. Done(r)
        BY <1>11, <2>3 DEF Check, Done
      <3> QED
        BY <1>6, <2>1, <3>1
    <2> QED
      BY <2>2, <2>3
  <1>12. CASE Header(r)
    <2>1. /\ c.steps # << >> /\ h = "header" /\ mode' = mode /\ numrecs' = numrecs
          /\ StepMode(mode[r], h) = mode[r] /\ h \notin Meeting
          /\ Taken(h, c.got, numrecs[r]) = numrecs[r]
      BY <1>12 DEF Header, At, InCall, StepMode, Taken, Meeting
    <2>2. CASE Done(r)
      BY <1>6, <2>1, <2>2
    <2>3. CASE ~Done(r)
      <3>1. PICK result \in Faults :
               call' = [call EXCEPT ![r] = Advance([@ EXCEPT !.status =
                          IF result = "ewrite" THEN "ewrite" ELSE "error"])]
        BY <1>12, <2>3 DEF Header
      <3> DEFINE d == [c EXCEPT !.status = IF result = "ewrite" THEN "ewrite" ELSE "error"]
      <3>2. d \in Call
        BY <1>1 DEF Call, Status
      <3>3. /\ d.steps = c.steps /\ d.give = c.give /\ d.wrote = c.wrote /\ d.got = c.got
            /\ call' = [call EXCEPT ![r] = Advance(d)]
        BY <1>1, <3>1 DEF Call
      <3> HIDE DEF d, c
      <3>4. Alone(r) /\ Moves(c, mode[r], numrecs[r], call'[r], mode'[r], numrecs'[r])
        BY <1>5, <2>1, <3>2, <3>3
      <3> QED
        BY <3>4 DEF c
    <2> QED
      BY <2>2, <2>3
  <1>13. ASSUME NEW x, NEW m, SwitchMode(r, x, m), x \notin Meeting,
                StepMode(mode[r], x) = m, Taken(x, c.got, numrecs[r]) = numrecs[r]
         PROVE  Alone(r) /\ Moves(c, mode[r], numrecs[r], call'[r], mode'[r], numrecs'[r])
    <2>1. /\ c.steps # << >> /\ h = x /\ mode' = [mode EXCEPT ![r] = m] /\ numrecs' = numrecs
          /\ Done(r)
      BY <1>13 DEF SwitchMode, At, InCall
    <2>2. mode'[r] = m /\ \A q \in Rank \ {r} : mode'[q] = mode[q]
      BY <1>1, <2>1
    <2> QED
      BY <1>6, <1>13, <2>1, <2>2
  <1>14. CASE Leave(r) \/ Discard(r) \/ ExitDefine(r)
    BY <1>13, <1>14 DEF Leave, Discard, ExitDefine, StepMode, Taken, Meeting
  <1>15. CASE EnterDefine(r) \/ CloseFile(r)
    BY <1>13, <1>15 DEF EnterDefine, CloseFile, StepMode, Taken, Meeting
  <1> QED
    BY <1>7, <1>8, <1>9, <1>10, <1>11, <1>12, <1>14, <1>15 DEF LocalStep

(* The collective operation x: all ranks take it, or all of them return.   *)
Together(x) ==
    /\ AllAt(x) /\ x \in Meeting
    /\ \A r \in Rank : call[r] \in Call /\ call'[r] \in Call /\ call[r].steps # << >>
    /\ mode' = mode /\ numrecs' = numrecs /\ todo' = todo /\ mail' = mail
    /\ fileNum' = fileNum /\ told' = told
    /\ \/ \A r \in Rank : Moves(call[r], mode[r], numrecs[r], call'[r], mode'[r], numrecs'[r])
       \/ \A r \in Rank : call'[r] = Idle

LEMMA MeetMoves ==
  ASSUME TypeOK, Meet
  PROVE  \/ Agree /\ Together("agree")
         \/ Reduce /\ Together("reduce")
         \/ Vote /\ Together("vote")
         \/ Barrier /\ Together("barrier")
         \/ Open
  <1>1. /\ call \in [Rank -> Call]
        /\ \A r \in Rank : call[r] \in Call /\ call'[r] \in Call
    BY MeetPreservesType DEF TypeOK
  <1>2. ASSUME NEW x \in Meeting, AllAt(x), mode' = mode, numrecs' = numrecs, todo' = todo,
               mail' = mail, fileNum' = fileNum, told' = told,
               \/ \A r \in Rank : /\ Advance(call[r]) = call'[r]
                                  /\ x \notin {"reduce", "vote"}
               \/ \A r \in Rank : \E g \in Count :
                     /\ call'[r] = Advance([call[r] EXCEPT !.got = g])
                     /\ call[r].give <= g /\ x \in {"reduce", "vote"}
               \/ \A r \in Rank : call'[r] = Idle
        PROVE  Together(x)
    <2>1. \A r \in Rank : call[r].steps # << >> /\ Head(call[r].steps) = x
      BY <1>2 DEF AllAt, At, InCall
    <2>2. \A m : StepMode(m, x) = m
      BY DEF StepMode, Meeting
    <2>3. \A g, n : Taken(x, g, n) = n
      BY DEF Taken, Meeting
    <2>4. ASSUME NEW r \in Rank, call'[r] = Advance(call[r]), x \notin {"reduce", "vote"}
          PROVE  Moves(call[r], mode[r], numrecs[r], call'[r], mode'[r], numrecs'[r])
      <3> DEFINE c == call[r]
                 d == call'[r]
      <3>1. c \in Call /\ c.steps # << >> /\ Head(c.steps) = x /\ d = Advance(c)
        BY <1>1, <2>1, <2>4
      <3> HIDE DEF c, d
      <3>2. /\ d.steps = Tail(c.steps)
            /\ d.steps # << >> => d.give = c.give /\ d.wrote = c.wrote /\ d.got = c.got
        BY <3>1, AdvanceCall
      <3>3. Moves(c, mode[r], numrecs[r], d, mode'[r], numrecs'[r])
        BY <1>2, <2>2, <2>3, <2>4, <3>1, <3>2 DEF Moves
      <3> QED
        BY <3>3 DEF c, d
    <2>5. ASSUME NEW r \in Rank, NEW g \in Count, x \in {"reduce", "vote"},
                 call'[r] = Advance([call[r] EXCEPT !.got = g]), call[r].give <= g
          PROVE  Moves(call[r], mode[r], numrecs[r], call'[r], mode'[r], numrecs'[r])
      <3> DEFINE c == call[r]
                 d == call'[r]
                 e == [c EXCEPT !.got = g]
      <3>1. c \in Call /\ c.steps # << >> /\ Head(c.steps) = x /\ d = Advance(e)
        BY <1>1, <2>1, <2>5
      <3>2. /\ e \in Call /\ e.steps = c.steps /\ e.give = c.give /\ e.wrote = c.wrote
            /\ e.got = g /\ c.give <= g
        BY <3>1, <2>5 DEF Call
      <3> HIDE DEF c, d, e
      <3>3. /\ d.steps = Tail(c.steps)
            /\ d.steps # << >> => d.give = c.give /\ d.wrote = c.wrote /\ d.got = g
        BY <3>1, <3>2, AdvanceCall
      <3>4. Moves(c, mode[r], numrecs[r], d, mode'[r], numrecs'[r])
        BY <1>2, <2>2, <2>3, <2>5, <3>1, <3>2, <3>3 DEF Moves
      <3> QED
        BY <3>4 DEF c, d
    <2>6. \/ \A r \in Rank : Moves(call[r], mode[r], numrecs[r], call'[r], mode'[r], numrecs'[r])
          \/ \A r \in Rank : call'[r] = Idle
      <3>1. CASE \A r \in Rank : Advance(call[r]) = call'[r] /\ x \notin {"reduce", "vote"}
        BY <2>4, <3>1
      <3>2. CASE \A r \in Rank : \E g \in Count :
                     /\ call'[r] = Advance([call[r] EXCEPT !.got = g])
                     /\ call[r].give <= g /\ x \in {"reduce", "vote"}
        BY <2>5, <3>2
      <3>3. CASE \A r \in Rank : call'[r] = Idle
        BY <3>3
      <3> QED
        BY <1>2, <3>1, <3>2, <3>3
    <2> QED
      BY <1>1, <1>2, <2>1, <2>6 DEF Together
  <1>3. ASSUME TakeMax, NEW x \in {"reduce", "vote"}
        PROVE  \A r \in Rank : \E g \in Count :
                     /\ call'[r] = Advance([call[r] EXCEPT !.got = g])
                     /\ call[r].give <= g /\ x \in {"reduce", "vote"}
    <2>1. PICK g \in Count :
               /\ MaxOf({call[r].give : r \in Rank}, g)
               /\ call' = [r \in Rank |-> Advance([call[r] EXCEPT !.got = g])]
      BY <1>3 DEF TakeMax
    <2>2. \A r \in Rank : call[r].give <= g
      BY <2>1 DEF MaxOf
    <2> QED
      BY <1>3, <2>1, <2>2
  <1>4. /\ "agree" \in Meeting /\ "reduce" \in Meeting /\ "vote" \in Meeting
        /\ "barrier" \in Meeting
        /\ "agree" \notin {"reduce", "vote"} /\ "barrier" \notin {"reduce", "vote"}
    BY DEF Meeting
  <1>5. ASSUME Agree PROVE Together("agree")
    <2> DEFINE x == "agree"
    <2>1. /\ AllAt(x) /\ mode' = mode /\ numrecs' = numrecs /\ todo' = todo /\ mail' = mail
          /\ fileNum' = fileNum /\ told' = told
      BY <1>5 DEF Agree
    <2>2. \/ \A r \in Rank : call'[r] = Idle
          \/ \A r \in Rank : Advance(call[r]) = call'[r] /\ x \notin {"reduce", "vote"}
      BY <1>4, <1>5 DEF Agree
    <2>3. x \in Meeting
      BY <1>4
    <2> HIDE DEF x
    <2>4. Together(x)
      BY <1>2, <2>1, <2>2, <2>3
    <2> QED
      BY <2>4 DEF x
  <1>6. ASSUME Barrier PROVE Together("barrier")
    <2> DEFINE x == "barrier"
    <2>1. /\ AllAt(x) /\ mode' = mode /\ numrecs' = numrecs /\ todo' = todo /\ mail' = mail
          /\ fileNum' = fileNum /\ told' = told
      BY <1>6 DEF Barrier
    <2>2. \A r \in Rank : Advance(call[r]) = call'[r] /\ x \notin {"reduce", "vote"}
      BY <1>4, <1>6 DEF Barrier
    <2>3. x \in Meeting
      BY <1>4
    <2> HIDE DEF x
    <2>4. Together(x)
      BY <1>2, <2>1, <2>2, <2>3
    <2> QED
      BY <2>4 DEF x
  <1>7. ASSUME Reduce PROVE Together("reduce")
    <2> DEFINE x == "reduce"
    <2>1. /\ AllAt(x) /\ mode' = mode /\ numrecs' = numrecs /\ todo' = todo /\ mail' = mail
          /\ fileNum' = fileNum /\ told' = told /\ TakeMax
      BY <1>7 DEF Reduce
    <2>2. x \in Meeting /\ x \in {"reduce", "vote"}
      BY <1>4
    <2> HIDE DEF x
    <2>3. Together(x)
      BY <1>2, <1>3, <2>1, <2>2
    <2> QED
      BY <2>3 DEF x
  <1>8. ASSUME Vote PROVE Together("vote")
    <2> DEFINE x == "vote"
    <2>1. /\ AllAt(x) /\ mode' = mode /\ numrecs' = numrecs /\ todo' = todo /\ mail' = mail
          /\ fileNum' = fileNum /\ told' = told
          /\ TakeMax \/ \A r \in Rank : call'[r] = Idle
      BY <1>8 DEF Vote
    <2>2. x \in Meeting /\ x \in {"reduce", "vote"}
      BY <1>4
    <2> HIDE DEF x
    <2>3. Together(x)
      BY <1>2, <1>3, <2>1, <2>2
    <2> QED
      BY <2>3 DEF x
  <1> QED
    BY <1>5, <1>6, <1>7, <1>8 DEF Meet

(* A call begins with the steps and the values it is made with.            *)
LEMMA EnterMoves ==
  ASSUME TypeOK, NEW r \in Rank, NEW op, NEW s, NEW give, NEW wrote, NEW status,
         Makes(r, op, s, give, wrote, status)
  PROVE  /\ call[r].steps = << >> /\ call'[r].steps = s
         /\ call'[r] = IF s = << >> THEN Idle ELSE Record(s, give, wrote, status)
         /\ mode'[r] = Begun(mode[r], op) /\ numrecs' = numrecs
         /\ \A q \in Rank \ {r} : call'[q] = call[q] /\ mode'[q] = mode[q]
         /\ fileNum' = fileNum /\ mail' = mail /\ written' = written /\ told' = told
  <1>1. call \in [Rank -> Call] /\ mode \in [Rank -> {"coll", "indep", "def", "closed"}]
    BY DEF TypeOK
  <1>2. /\ Enter(r, op, s, give, wrote, status)
        /\ mode' = [mode EXCEPT ![r] = Begun(mode[r], op)] /\ numrecs' = numrecs
    BY DEF Makes
  <1>3. /\ call' = [call EXCEPT ![r] =
                      IF s = << >> THEN Idle ELSE Record(s, give, wrote, status)]
        /\ ~InCall(r)
        /\ fileNum' = fileNum /\ mail' = mail /\ written' = written /\ told' = told
    BY <1>2 DEF Enter, Record
  <1>4. call'[r] = IF s = << >> THEN Idle ELSE Record(s, give, wrote, status)
    BY <1>1, <1>3
  <1>5. \A q \in Rank \ {r} : call'[q] = call[q] /\ mode'[q] = mode[q]
    BY <1>1, <1>2, <1>3
  <1>6. Idle.steps = << >> /\ Record(s, give, wrote, status).steps = s
    BY DEF Idle, Record
  <1>7. call'[r].steps = s
    BY <1>4, <1>6
  <1> QED
    BY <1>1, <1>2, <1>3, <1>4, <1>5, <1>7 DEF InCall

-----------------------------------------------------------------------------
(***************************************************************************)
(* The header.  Whatever fails, every rank that gives its count to a       *)
(* reconciliation adopts the result, and the root publishes it before.     *)
(***************************************************************************)
SyncInv == \A r \in Rank : SyncOK(call[r], mode[r], numrecs[r], r = Root)

LEMMA SyncIdle ==
  ASSUME NEW c, c.steps = << >>, NEW m, NEW n, NEW root
  PROVE  SyncOK(c, m, n, root)
  BY HasEmpty, OrderedShort DEF SyncOK

LEMMA RootSteps ==
  ASSUME TypeOK, SyncInv, NEW r \in Rank
  PROVE  At(r, "publish") \/ At(r, "header") => r = Root
  <1>1. SyncOK(call[r], mode[r], numrecs[r], r = Root)
    BY DEF SyncInv
  <1>2. ASSUME NEW s \in Seq(Step), s # << >> PROVE Has(s, Head(s))
    BY <1>2, HasTail
  <1>3. call[r].steps \in Seq(Step)
    BY DEF TypeOK, Call
  <1>4. InCall(r) => Has(call[r].steps, Head(call[r].steps))
    BY <1>2, <1>3 DEF InCall
  <1> QED
    BY <1>1, <1>4 DEF SyncOK, At

LEMMA NextSync == TypeOK /\ SyncInv /\ [Next]_vars => SyncInv'
  <1> SUFFICES ASSUME TypeOK, SyncInv, [Next]_vars, NEW r \in Rank
               PROVE  SyncOK(call'[r], mode'[r], numrecs'[r], r = Root)
    BY DEF SyncInv
  <1>1. /\ call[r] \in Call /\ numrecs[r] \in Nat /\ call'[r] \in Call
        /\ SyncOK(call[r], mode[r], numrecs[r], r = Root)
    BY NextPreservesType DEF TypeOK, SyncInv, Count
  <1> DEFINE root == (r = Root)
             c == call[r]
             m == mode[r]
             n == numrecs[r]
             d == call'[r]
             m2 == mode'[r]
             n2 == numrecs'[r]
  <1> HIDE DEF root, c, m, n, d, m2, n2
  <1>2. c \in Call /\ n \in Nat /\ d \in Call /\ SyncOK(c, m, n, root)
    BY <1>1 DEF c, n, m, d, root
  <1>3. SUFFICES SyncOK(d, m2, n2, root)
    BY DEF d, m2, n2, root
  <1>4. CASE d = c /\ m2 = m /\ n2 = n
    BY <1>2, <1>4
  <1>5. CASE Moves(c, m, n, d, m2, n2)
    BY <1>2, <1>5, SyncMoves
  <1>6. CASE d.steps = << >>
    BY <1>6, SyncIdle
  <1>7. CASE UNCHANGED vars
    BY <1>4, <1>7 DEF vars, c, m, n, d, m2, n2
  <1>8. CASE Meet
    <2>1. ASSUME NEW x, Together(x) PROVE Moves(c, m, n, d, m2, n2) \/ d = Idle
      BY <2>1 DEF Together, c, m, n, d, m2, n2
    <2>2. Idle.steps = << >>
      BY DEF Idle
    <2>3. CASE Open
      <3>1. d.steps = << >>
        BY <2>3 DEF Open, InCall, d
      <3> QED
        BY <1>6, <3>1
    <2> QED
      BY <1>5, <1>6, <1>8, <2>1, <2>2, <2>3, MeetMoves
  <1>9. ASSUME NEW q \in Rank, MakeCall(q) PROVE SyncOK(d, m2, n2, root)
    <2>1. PICK op, s, give, wrote, status : Makes(q, op, s, give, wrote, status)
      BY <1>9, CallMakes DEF Called
    <2>2. CASE q # r
      <3>1. d = c /\ m2 = m /\ n2 = n
        BY <2>1, <2>2, EnterMoves DEF d, c, m2, m, n2, n
      <3> QED
        BY <1>4, <3>1
    <2>3. CASE q = r
      <3>1. /\ d = IF s = << >> THEN Idle ELSE Record(s, give, wrote, status)
            /\ m2 = Begun(m, op) /\ n2 = n /\ Idle.steps = << >>
        BY <2>1, <2>3, EnterMoves DEF d, m2, n2, m, n, Idle
      <3>2. SyncOK(Record(s, give, wrote, status), Begun(m, op), n, root)
        BY <2>1, <2>3 DEF Makes, Reconciles, m, n, root
      <3>3. s = << >> => d.steps = << >>
        BY <3>1
      <3> QED
        BY <1>6, <3>1, <3>2, <3>3
    <2> QED
      BY <2>2, <2>3
  <1>10. ASSUME NEW q \in Rank, LocalStep(q) PROVE SyncOK(d, m2, n2, root)
    <2>1. At(q, "publish") => q = Root
      BY RootSteps
    <2>2. /\ Alone(q)
          /\ \/ Moves(call[q], mode[q], numrecs[q], call'[q], mode'[q], numrecs'[q])
             \/ GivesUp(q)
      BY <1>10, <2>1, LocalMoves
    <2>3. CASE q # r
      <3>1. d = c /\ m2 = m /\ n2 = n
        BY <2>2, <2>3 DEF Alone, d, c, m2, m, n2, n
      <3> QED
        BY <1>4, <3>1
    <2>4. CASE q = r
      <3>1. Moves(c, m, n, d, m2, n2) \/ d.steps = << >>
        BY <2>2, <2>4 DEF GivesUp, Idle, d, c, m2, m, n2, n
      <3> QED
        BY <1>5, <1>6, <3>1
    <2> QED
      BY <2>3, <2>4
  <1>11. ASSUME NEW q \in Rank, NEW j \in Count, NEW w \in Count, IndepWrite(q, j, w)
         PROVE  SyncOK(d, m2, n2, root)
    <2>1. d = c /\ m2 = m
      BY <1>11 DEF IndepWrite, d, c, m2, m
    <2>2. CASE q # r
      <3>1. n2 = n
        BY <1>11, <2>2 DEF IndepWrite, TypeOK, n2, n
      <3> QED
        BY <1>4, <2>1, <3>1
    <2>3. CASE q = r
      <3>1. d.steps = << >>
        BY <1>11, <2>1, <2>3 DEF IndepWrite, InCall, c
      <3> QED
        BY <1>6, <3>1
    <2> QED
      BY <2>2, <2>3
  <1> QED
    BY <1>7, <1>8, <1>9, <1>10, <1>11, NextCases

(***************************************************************************)
(* The root is settled when its next return in collective or define mode   *)
(* needs no write of the header any more.                                  *)
(***************************************************************************)
Settled(c, m) ==
    m # "indep" \/ (EndMode(m, c.steps) # "indep" /\ ~Has(c.steps, "publish"))

CurrentOrTold == fileNum = numrecs[Root] \/ told

HeaderInv ==
    TypeOK /\ SyncInv /\ (Settled(call[Root], mode[Root]) => CurrentOrTold)

(* What a step of one rank does to the header: it becomes current, or the  *)
(* root learns that it is not, or neither it nor the root's count changes. *)
LEMMA LocalHeader ==
  ASSUME "unreported" \notin Faults, TypeOK, SyncInv, NEW r \in Rank, LocalStep(r)
  PROVE  \/ CurrentOrTold'
         \/ /\ fileNum' = fileNum /\ told' = told
            /\ numrecs'[Root] = numrecs[Root] \/ (r = Root /\ At(r, "adopt"))
            /\ ~At(r, "publish")
  <1>1. numrecs \in [Rank -> Count] /\ Root \in Rank /\ told \in BOOLEAN
    BY RankAssumption DEF TypeOK
  <1>2. ASSUME NEW n, NEW result, WriteNumrecs(n, result)
        PROVE  CurrentOrTold'
    <2>1. numrecs'[Root] = n
      BY <1>1, <1>2 DEF WriteNumrecs
    <2>2. CASE result = "stored"
      BY <1>2, <2>1, <2>2 DEF WriteNumrecs, CurrentOrTold
    <2>3. CASE result # "stored"
      <3>1. result \in {"overflow", "ewrite"}
        BY <1>2, <2>3, FlagAssumption DEF WriteNumrecs, Outcome
      <3>2. StatusOf(result) # "ok"
        BY <3>1 DEF StatusOf
      <3> QED
        BY <1>2, <2>3, <3>2 DEF WriteNumrecs, CurrentOrTold
    <2> QED
      BY <2>2, <2>3
  <1>2a. CASE At(r, "publish")
    <2>1. Publish(r)
      BY <1>2a DEF LocalStep, Grow, Bcast, Adopt, Check, Header, Leave, EnterDefine,
         Discard, CloseFile, ExitDefine, SwitchMode, At
    <2> QED
      BY <1>2, <2>1 DEF Publish
  <1>2b. SUFFICES ASSUME ~At(r, "publish")
                 PROVE  \/ CurrentOrTold'
                        \/ /\ fileNum' = fileNum /\ told' = told
                           /\ numrecs'[Root] = numrecs[Root] \/ (r = Root /\ At(r, "adopt"))
    BY <1>2a
  <1>3. CASE Grow(r)
    <2>1. CASE UNCHANGED <<numrecs, fileNum, told>>
      BY <2>1
    <2>2. CASE r = Root /\ \E result \in Results : WriteNumrecs(call[r].got, result)
      BY <1>2, <2>2
    <2>3. CASE r # Root /\ numrecs' = [numrecs EXCEPT ![r] = call[r].got]
                        /\ UNCHANGED <<fileNum, told>>
      BY <1>1, <2>3
    <2> QED
      BY <1>3, <2>1, <2>2, <2>3 DEF Grow
  <1>4. CASE Publish(r)
    BY <1>2b, <1>4 DEF Publish
  <1>5. CASE Adopt(r)
    <2>1. /\ At(r, "adopt") /\ fileNum' = fileNum /\ told' = told
          /\ numrecs' = [numrecs EXCEPT ![r] = call[r].got]
      BY <1>5 DEF Adopt
    <2>2. r # Root => numrecs'[Root] = numrecs[Root]
      BY <1>1, <2>1
    <2> QED
      BY <2>1, <2>2
  <1>6. CASE Header(r)
    <2>1. r = Root
      BY <1>6, RootSteps DEF Header
    <2> QED
      BY <1>6, <2>1 DEF Header, CurrentOrTold
  <1>7. CASE Bcast(r)
    BY <1>7 DEF Bcast
  <1>8. CASE Check(r)
    BY <1>8 DEF Check
  <1>9. CASE \E x, m : SwitchMode(r, x, m)
    BY <1>9 DEF SwitchMode
  <1> QED
    BY <1>3, <1>4, <1>5, <1>6, <1>7, <1>8, <1>9 DEF LocalStep, Leave, EnterDefine,
       Discard, CloseFile, ExitDefine

LEMMA InitHeader == Init => HeaderInv
  <1> SUFFICES ASSUME Init PROVE HeaderInv
    OBVIOUS
  <1>1. TypeOK
    BY InitType
  <1>2. SyncInv
    <2>1. \A r \in Rank : call[r].steps = << >>
      BY DEF Init, Idle
    <2> QED
      BY <2>1, SyncIdle DEF SyncInv
  <1>3. CurrentOrTold
    BY RankAssumption DEF Init, CurrentOrTold
  <1> QED
    BY <1>1, <1>2, <1>3 DEF HeaderInv

LEMMA NextHeader ==
  ASSUME "unreported" \notin Faults
  PROVE  HeaderInv /\ [Next]_vars => HeaderInv'
  <1> SUFFICES ASSUME HeaderInv, [Next]_vars PROVE HeaderInv'
    OBVIOUS
  <1>1. /\ TypeOK /\ SyncInv /\ (Settled(call[Root], mode[Root]) => CurrentOrTold)
        /\ Root \in Rank
    BY RankAssumption DEF HeaderInv
  <1>2. TypeOK' /\ SyncInv'
    BY <1>1, NextPreservesType, NextSync
  <1>3. SUFFICES ASSUME Settled(call'[Root], mode'[Root]) PROVE CurrentOrTold'
    BY <1>2 DEF HeaderInv
  <1> DEFINE c == call[Root]
             m == mode[Root]
             n == numrecs[Root]
             d == call'[Root]
             m2 == mode'[Root]
             n2 == numrecs'[Root]
             s == c.steps
  <1>4. /\ s \in Seq(Step) /\ Ordered(s)
        /\ Has(s, "adopt") => Has(s, "publish") \/ c.got = n
    BY <1>1 DEF TypeOK, Call, SyncInv, SyncOK
  <1>5. CASE d = c /\ m2 = m /\ n2 = n /\ fileNum' = fileNum /\ told' = told
    BY <1>1, <1>3, <1>5 DEF CurrentOrTold
  <1>6. ASSUME Moves(c, m, n, d, m2, n2) PROVE Settled(c, m) \/ Head(s) = "publish"
    <2>1. s # << >> /\ d.steps = Tail(s) /\ m2 = StepMode(m, Head(s))
      BY <1>6 DEF Moves
    <2>2. EndMode(m2, d.steps) = EndMode(m, s)
      BY <1>4, <2>1, EndModeTail
    <2>3. Has(s, "publish") => Head(s) = "publish" \/ Has(d.steps, "publish")
      BY <1>4, <2>1, RestOf
    <2>4. /\ Has(d.steps, "publish") => Precedes(Head(s), "publish")
          /\ Head(s) \in Changers => ~Has(d.steps, "publish")
      <3>1. Has(d.steps, "publish") => Precedes(Head(s), "publish")
        BY <1>4, <2>1, RestOf
      <3> QED
        BY <3>1, Stages DEF Precedes, Changers
    <2>5. CASE Head(s) \in Changers
      <3>1. EndMode(m, s) # "indep"
        <4>1. Has(s, Head(s))
          BY <1>4, <2>1, RestOf
        <4> QED
          BY <2>5, <4>1 DEF EndMode, Changers
      <3> QED
        BY <2>3, <2>4, <2>5, <3>1 DEF Settled, Changers
    <2>6. CASE Head(s) \notin Changers
      <3>1. m2 = m
        BY <2>1, <2>6 DEF StepMode, Changers
      <3> QED
        BY <1>3, <2>2, <2>3, <3>1 DEF Settled
    <2> QED
      BY <2>5, <2>6
  <1>7. ASSUME d = Idle, m2 = m PROVE Settled(c, m)
    <2>1. EndMode(m, d.steps) = m
      BY <1>7, EndModeEmpty DEF Idle
    <2> QED
      BY <1>3, <1>7, <2>1 DEF Settled
  <1>8. CASE UNCHANGED vars
    BY <1>5, <1>8 DEF vars
  <1>9. CASE Meet
    <2>1. ASSUME NEW x, Together(x) PROVE CurrentOrTold'
      <3>1. /\ m2 = m /\ n2 = n /\ fileNum' = fileNum /\ told' = told
            /\ Moves(c, m, n, d, m2, n2) \/ d = Idle
            /\ At(Root, x) /\ x \in Meeting
        BY <1>1, <2>1 DEF Together, AllAt
      <3>2. Head(s) # "publish"
        BY <3>1 DEF At, Meeting
      <3>3. Settled(c, m)
        BY <1>6, <1>7, <3>1, <3>2
      <3> QED
        BY <1>1, <3>1, <3>3 DEF CurrentOrTold
    <2>2. CASE Open
      <3>1. n2 = fileNum /\ fileNum' = fileNum
        BY <1>1, <2>2 DEF Open
      <3> QED
        BY <3>1 DEF CurrentOrTold
    <2> QED
      BY <1>1, <1>9, <2>1, <2>2, MeetMoves
  <1>10. ASSUME NEW q \in Rank, MakeCall(q) PROVE CurrentOrTold'
    <2>1. PICK op, t, give, wrote, status : Makes(q, op, t, give, wrote, status)
      BY <1>1, <1>10, CallMakes DEF Called
    <2>2. fileNum' = fileNum /\ told' = told /\ n2 = n
      BY <1>1, <2>1, EnterMoves
    <2>3. CASE q # Root
      <3>1. d = c /\ m2 = m
        BY <1>1, <2>1, <2>3, EnterMoves
      <3> QED
        BY <1>5, <2>2, <3>1
    <2>4. CASE q = Root
      <3>1. d.steps = t /\ m2 = Begun(m, op) /\ s = << >>
        BY <1>1, <2>1, <2>4, EnterMoves
      <3>2. CASE m # "indep"
        BY <1>1, <2>2, <3>2 DEF Settled, CurrentOrTold
      <3>3. CASE m = "indep"
        <4>1. m2 = "indep"
          BY <3>1, <3>3 DEF Begun
        <4>2. EndMode(m, t) # "indep" /\ ~Has(t, "publish")
          BY <1>3, <3>1, <3>3, <4>1 DEF Settled
        <4>3. Has(t, "reduce") /\ Has(t, "adopt")
          BY <2>1, <2>4, <3>3, <4>2 DEF Makes, Reconciles
        <4>4. SyncOK(d, m2, n2, Root = Root)
          BY <1>1, <1>2 DEF SyncInv
        <4> QED
          BY <3>1, <4>2, <4>3, <4>4 DEF SyncOK
      <3> QED
        BY <3>2, <3>3
    <2> QED
      BY <2>3, <2>4
  <1>11. ASSUME NEW q \in Rank, LocalStep(q) PROVE CurrentOrTold'
    <2>1. At(q, "publish") => q = Root
      BY <1>1, RootSteps
    <2>2. /\ Alone(q)
          /\ \/ Moves(call[q], mode[q], numrecs[q], call'[q], mode'[q], numrecs'[q])
             \/ GivesUp(q)
      BY <1>1, <1>11, <2>1, LocalMoves
    <2>3. SUFFICES ASSUME fileNum' = fileNum, told' = told,
                          ~At(q, "publish"), n2 = n \/ (q = Root /\ At(q, "adopt"))
                   PROVE  CurrentOrTold'
      BY <1>1, <1>11, LocalHeader
    <2>4. CASE q # Root
      <3>1. d = c /\ m2 = m
        BY <1>1, <2>2, <2>4 DEF Alone
      <3> QED
        BY <1>5, <2>3, <2>4, <3>1
    <2>5. CASE q = Root
      <3>1. CASE GivesUp(q)
        <4>1. d = Idle /\ m2 = m /\ n2 = n
          BY <2>5, <3>1 DEF GivesUp
        <4> QED
          BY <1>1, <1>7, <2>3, <4>1 DEF CurrentOrTold
      <3>2. CASE Moves(c, m, n, d, m2, n2) /\ At(Root, "adopt")
        <4>1. /\ s # << >> /\ Head(s) = "adopt" /\ n2 = c.got
          BY <3>2 DEF Moves, At, InCall, Taken
        <4>2. Has(s, "adopt") /\ ~Has(s, "publish")
          <5>1. /\ Has(Tail(s), "publish") => Precedes("adopt", "publish")
                /\ Has(s, "publish") => Has(Tail(s), "publish")
                /\ Has(s, "adopt")
            BY <1>4, <4>1, RestOf
          <5> QED
            BY <5>1, Stages DEF Precedes
        <4>3. n2 = n
          BY <1>4, <4>1, <4>2
        <4>4. Settled(c, m)
          BY <1>6, <3>2, <4>1
        <4> QED
          BY <1>1, <2>3, <4>3, <4>4 DEF CurrentOrTold
      <3>3. CASE Moves(c, m, n, d, m2, n2) /\ ~At(Root, "adopt")
        <4>1. Head(s) # "publish" /\ n2 = n
          BY <2>3, <2>5, <3>3 DEF Moves, At, InCall
        <4> QED
          BY <1>1, <1>6, <2>3, <3>3, <4>1 DEF CurrentOrTold
      <3> QED
        BY <2>2, <2>5, <3>1, <3>2, <3>3
    <2> QED
      BY <2>4, <2>5
  <1>12. ASSUME NEW q \in Rank, NEW j \in Count, NEW w \in Count, IndepWrite(q, j, w)
         PROVE  CurrentOrTold'
    <2>1. d = c /\ m2 = m /\ fileNum' = fileNum /\ told' = told
      BY <1>12 DEF IndepWrite
    <2>2. CASE q # Root
      <3>1. n2 = n
        BY <1>1, <1>12, <2>2 DEF IndepWrite, TypeOK
      <3> QED
        BY <1>5, <2>1, <3>1
    <2>3. CASE q = Root
      <3>1. m = "indep" /\ s = << >>
        BY <1>12, <2>3 DEF IndepWrite, InCall
      <3>2. EndMode(m, s) = "indep"
        BY <3>1, EndModeEmpty
      <3> QED
        BY <1>3, <2>1, <3>1, <3>2 DEF Settled
    <2> QED
      BY <2>2, <2>3
  <1> QED
    BY <1>8, <1>9, <1>10, <1>11, <1>12, NextCases

(* A header the root has left stale is one it was told about, as long as   *)
(* MPI reports the failed writes: StaleHeaderReported (ncmpio_write_numrecs*)
(* and ncmpio_sync_numrecs, in any interleaving of the ranks).             *)
THEOREM StaleIsReported ==
  ASSUME "unreported" \notin Faults
  PROVE  Spec => []StaleHeaderReported
  <1>1. HeaderInv => StaleHeaderReported
    BY DEF HeaderInv, Settled, CurrentOrTold, StaleHeaderReported
  <1> QED
    BY <1>1, InitHeader, NextHeader, PTL DEF Spec

LEMMA WriteStores ==
  ASSUME Faults = {}, MaxRecs <= HeaderLimit, NEW n \in Count, NEW result,
         WriteNumrecs(n, result)
  PROVE  /\ numrecs' = [numrecs EXCEPT ![Root] = n]
         /\ fileNum' = n /\ told' = FALSE /\ StatusOf(result) = "ok"
  <1>1. ~(n > HeaderLimit)
    BY BoundAssumption DEF Count
  <1>2. result = "stored"
    BY <1>1 DEF WriteNumrecs, Outcome
  <1> QED
    BY <1>2 DEF WriteNumrecs, StatusOf

LEMMA NextUntold ==
  ASSUME Faults = {}, MaxRecs <= HeaderLimit
  PROVE  TypeOK /\ ~told /\ [Next]_vars => ~told'
  <1> SUFFICES ASSUME TypeOK, ~told, [Next]_vars PROVE ~told'
    OBVIOUS
  <1>1. \A r \in Rank : call[r].got \in Count /\ numrecs[r] \in Count
    BY DEF TypeOK, Call
  <1>2. ASSUME NEW r \in Rank, LocalStep(r) PROVE ~told'
    <2>1. CASE Grow(r)
      BY <1>1, <2>1, WriteStores DEF Grow
    <2>2. CASE Publish(r)
      <3>1. (IF call[r].got > numrecs[r] THEN call[r].got ELSE numrecs[r]) \in Count
        BY <1>1
      <3> QED
        BY <2>2, <3>1, WriteStores DEF Publish
    <2>3. CASE Header(r)
      BY <2>3 DEF Header
    <2>4. CASE ~Grow(r) /\ ~Publish(r) /\ ~Header(r)
      BY <1>2, <2>4 DEF LocalStep, Bcast, Adopt, Check, Leave, EnterDefine, Discard,
         CloseFile, ExitDefine, SwitchMode
    <2> QED
      BY <2>1, <2>2, <2>3, <2>4
  <1>3. ASSUME NEW r \in Rank, MakeCall(r) PROVE ~told'
    BY <1>3, CallMakes, EnterMoves DEF Called
  <1>4. ASSUME NEW r \in Rank, NEW j, NEW w, IndepWrite(r, j, w) PROVE ~told'
    BY <1>4 DEF IndepWrite
  <1>5. CASE Meet
    BY <1>5 DEF Meet, Agree, Reduce, Vote, Barrier, Open
  <1>6. CASE UNCHANGED vars
    BY <1>6 DEF vars
  <1> QED
    BY <1>2, <1>3, <1>4, <1>5, <1>6, NextCases

(* When no write of the header fails the root never returns in collective  *)
(* or define mode with a stale one: HeaderCurrent, "updated in file before *)
(* the collective API returns".                                            *)
THEOREM HeaderStaysCurrent ==
  ASSUME Faults = {}, MaxRecs <= HeaderLimit
  PROVE  Spec => []HeaderCurrent
  <1> DEFINE I == HeaderInv /\ ~told
  <1>1. Init => I
    BY InitHeader DEF Init
  <1>2. I /\ [Next]_vars => I'
    <2>1. "unreported" \notin Faults
      OBVIOUS
    <2> QED
      BY <2>1, NextHeader, NextUntold DEF HeaderInv
  <1>3. I => HeaderCurrent
    BY DEF HeaderInv, Settled, CurrentOrTold, HeaderCurrent
  <1> HIDE DEF I
  <1> QED
    BY <1>1, <1>2, <1>3, PTL DEF Spec
-----------------------------------------------------------------------------
(***************************************************************************)
(* The calls in progress when no write of the header fails and all ranks   *)
(* take the steps of the call they are in.                                 *)
(***************************************************************************)
Sound == Faults = {} /\ MaxRecs <= HeaderLimit /\ SameSteps

MailOK == \A r \in Rank : \A i \in 1 .. Len(mail[r]) : mail[r][i] = "ok"

CallsOK == \A r \in Rank : CallOK(call[r], mode[r], numrecs[r], r = Root)

CallsInv == TypeOK /\ MailOK /\ CallsOK

LEMMA CallMoves ==
  ASSUME NEW c \in Call, NEW m, NEW n \in Nat, NEW d \in Call, NEW m2, NEW n2, NEW root,
         Moves(c, m, n, d, m2, n2), CallOK(c, m, n, root), d.status = "ok"
  PROVE  CallOK(d, m2, n2, root)
  <1> DEFINE s == c.steps
             t == d.steps
             h == Head(s)
  <1>1. SyncOK(d, m2, n2, root)
    BY SyncMoves DEF CallOK
  <1>2. /\ s \in Seq(Step) /\ s # << >> /\ t = Tail(s) /\ Ordered(s)
        /\ m2 = StepMode(m, h)
        /\ t # << >> => d.give = c.give /\ d.wrote = c.wrote
    BY DEF Moves, CallOK, SyncOK, Call
  <1>3. /\ Has(s, "grow") => Quiet(s) /\ m = "coll"
        /\ Has(s, "grow") /\ Pending(s) => Within(c.wrote, c.give)
        /\ Has(s, "vote") => Has(s, "grow")
        /\ Has(s, "reduce") => Has(s, "grow") \/ Has(s, "adopt")
        /\ Has(s, "close") => s[Len(s)] = "close"
        /\ m = "closed" => s = << >>
    BY DEF CallOK
  <1>4. t # << >> => t[Len(t)] = s[Len(s)]
    <2>1. ASSUME NEW u \in Seq(Step), u # << >>, Tail(u) # << >>
          PROVE  Tail(u)[Len(Tail(u))] = u[Len(u)]
      <3>1. /\ Len(u) \in Nat /\ Len(Tail(u)) = Len(u) - 1 /\ Tail(u) \in Seq(Step)
            /\ \A i \in 1 .. Len(u) - 1 : Tail(u)[i] = u[i + 1]
        BY <2>1
      <3>2. Len(Tail(u)) # 0
        BY <2>1, <3>1
      <3>3. Len(u) - 1 \in 1 .. Len(u) - 1 /\ (Len(u) - 1) + 1 = Len(u)
        BY <3>1, <3>2
      <3> QED
        BY <3>1, <3>3
    <2> QED
      BY <1>2, <2>1
  <1> HIDE DEF s, t, h
  <1>5. /\ \A x : Has(s, x) <=> (h = x \/ Has(t, x))
        /\ \A x : Has(t, x) => Precedes(h, x) /\ t # << >>
    BY <1>2, RestOf DEF h
  <1>6. /\ Has(t, "vote") => Precedes(h, "vote") /\ t # << >>
        /\ Has(t, "reduce") => Precedes(h, "reduce") /\ t # << >>
        /\ Has(t, "close") => Precedes(h, "close") /\ t # << >>
    BY <1>5
  <1>7. /\ Has(t, "vote") \/ Has(t, "reduce") => h # "grow" /\ h # "adopt" /\ t # << >>
        /\ Has(t, "close") => h # "close" /\ t # << >>
    BY <1>6, Stages DEF Precedes
  <1>8. ASSUME Has(t, "grow")
        PROVE  /\ Quiet(t) /\ m2 = "coll"
               /\ Pending(t) => Within(d.wrote, d.give)
    <2>1. Has(s, "grow") /\ Quiet(s) /\ m = "coll" /\ Has(s, h)
      BY <1>3, <1>5, <1>8
    <2>2. Quiet(t)
      BY <1>5, <2>1 DEF Quiet
    <2>3. m2 = "coll"
      BY <1>2, <2>1 DEF Quiet, StepMode
    <2>4. Pending(t) => Pending(s) /\ t # << >>
      BY <1>5, <1>7 DEF Pending
    <2> QED
      BY <1>2, <1>3, <2>1, <2>2, <2>3, <2>4
  <1>9. Has(t, "vote") => Has(t, "grow")
    BY <1>3, <1>5, <1>7
  <1>10. Has(t, "reduce") => Has(t, "grow") \/ Has(t, "adopt")
    BY <1>3, <1>5, <1>7
  <1>11. Has(t, "close") => t[Len(t)] = "close"
    BY <1>3, <1>4, <1>5, <1>7
  <1>12. ASSUME m2 = "closed" PROVE t = << >>
    <2>1. h = "close"
      BY <1>2, <1>3, <1>12 DEF StepMode
    <2>2. SUFFICES ASSUME t # << >> PROVE Has(t, "close")
      BY <1>7, <2>1
    <2>3. t[Len(t)] = "close" /\ t \in Seq(Step)
      BY <1>2, <1>3, <1>4, <1>5, <2>1, <2>2
    <2>4. Len(t) \in 1 .. Len(t)
      BY <2>2, <2>3
    <2> QED
      BY <2>3, <2>4 DEF Has
  <1> QED
    BY <1>1, <1>8, <1>9, <1>10, <1>11, <1>12 DEF CallOK, t

(* A call whose next step is not a check has no error to return.           *)
LEMMA StatusOK ==
  ASSUME CallsInv, NEW r \in Rank, call[r].steps # << >>,
         Head(call[r].steps) \notin {"agree", "vote"}
  PROVE  call[r].status = "ok"
  BY DEF CallsInv, CallsOK, CallOK

LEMMA LocalStatus ==
  ASSUME Sound, CallsInv, NEW r \in Rank, LocalStep(r)
  PROVE  call'[r].status = "ok" /\ ~GivesUp(r) /\ MailOK'
  <1>1. /\ call \in [Rank -> Call] /\ call[r] \in Call
        /\ \A q \in Rank : mail[q] \in Seq(Status) /\ numrecs[q] \in Count
        /\ mail \in [Rank -> Seq(Status)] /\ call[r].got \in Count
    BY DEF CallsInv, TypeOK, Call
  <1>2. call[r].steps # << >> /\ Head(call[r].steps) \notin {"agree", "vote"}
    BY DEF LocalStep, Grow, Publish, Bcast, Adopt, Check, Header, Leave, EnterDefine,
       Discard, CloseFile, ExitDefine, SwitchMode, At, InCall
  <1>3. call[r].status = "ok"
    BY <1>2, StatusOK
  <1>4. ~GivesUp(r)
    BY <1>3 DEF GivesUp, Failed
  <1>5. ASSUME NEW d \in Call, d.status = "ok", d.steps # << >>,
               call' = [call EXCEPT ![r] = Advance(d)]
        PROVE  call'[r].status = "ok"
    <2>1. call'[r] = Advance(d)
      BY <1>1, <1>5
    <2>2. Advance(d).status = "ok"
      BY <1>5, AdvanceCall DEF Idle
    <2> QED
      BY <2>1, <2>2
  <1>6. Done(r) => call'[r].status = "ok"
    BY <1>1, <1>2, <1>3, <1>5 DEF Done
  <1>7. CASE Publish(r)
    <2>1. PICK result \in Results :
            /\ WriteNumrecs(IF call[r].got > numrecs[r] THEN call[r].got
                            ELSE numrecs[r], result)
            /\ call' = [call EXCEPT ![r] = Advance([@ EXCEPT !.status = StatusOf(result)])]
      BY <1>7 DEF Publish
    <2>2. (IF call[r].got > numrecs[r] THEN call[r].got ELSE numrecs[r]) \in Count
      BY <1>1
    <2>3. StatusOf(result) = "ok"
      BY <2>1, <2>2, WriteStores DEF Sound
    <2> DEFINE d == [call[r] EXCEPT !.status = StatusOf(result)]
    <2>4. d \in Call /\ d.status = "ok" /\ d.steps # << >>
      BY <1>1, <1>2, <2>3 DEF Call, Status
    <2>5. call' = [call EXCEPT ![r] = Advance(d)]
      BY <1>1, <2>1
    <2> HIDE DEF d
    <2>6. call'[r].status = "ok"
      BY <1>5, <2>4, <2>5
    <2>7. MailOK'
      BY <1>7 DEF Publish, CallsInv, MailOK
    <2> QED
      BY <1>4, <2>6, <2>7
  <1>8. CASE Bcast(r) /\ r = Root
    <2>1. /\ Done(r)
          /\ mail' = [q \in Rank |-> IF q = Root THEN << >>
                                    ELSE Append(mail[q], call[r].status)]
      BY <1>8 DEF Bcast
    <2>2. ASSUME NEW q \in Rank, NEW i \in 1 .. Len(mail'[q]) PROVE mail'[q][i] = "ok"
      <3>1. CASE q = Root
        <4>1. mail'[q] = << >> /\ Len(<< >>) = 0
          BY <2>1, <3>1
        <4> QED
          BY <2>2, <4>1
      <3>2. CASE q # Root
        <4>1. mail'[q] = Append(mail[q], "ok")
          BY <1>3, <2>1, <3>2
        <4>2. \A j \in 1 .. Len(mail[q]) : mail[q][j] = "ok"
          BY DEF CallsInv, MailOK
        <4>3. ASSUME NEW u \in Seq(Status), \A j \in 1 .. Len(u) : u[j] = "ok",
                     NEW k \in 1 .. Len(Append(u, "ok"))
              PROVE  Append(u, "ok")[k] = "ok"
          BY <4>3
        <4> QED
          BY <1>1, <2>2, <4>1, <4>2, <4>3
      <3> QED
        BY <3>1, <3>2
    <2> QED
      BY <1>4, <1>6, <2>1, <2>2 DEF MailOK
  <1>9. CASE Bcast(r) /\ r # Root
    <2>1. /\ mail[r] # << >> /\ mail' = [mail EXCEPT ![r] = Tail(@)]
          /\ call' = [call EXCEPT ![r] = Advance(
                       IF Head(mail[r]) = "ewrite"
                       THEN [@ EXCEPT !.status = "ewrite"] ELSE @)]
      BY <1>9 DEF Bcast
    <2>2. /\ Len(mail[r]) \in Nat /\ Len(mail[r]) >= 1 /\ Head(mail[r]) = mail[r][1]
          /\ Len(Tail(mail[r])) = Len(mail[r]) - 1
          /\ \A i \in 1 .. Len(mail[r]) - 1 : Tail(mail[r])[i] = mail[r][i + 1]
      BY <1>1, <2>1
    <2>3. \A i \in 1 .. Len(mail[r]) : mail[r][i] = "ok"
      BY DEF CallsInv, MailOK
    <2>4. Head(mail[r]) # "ewrite"
      BY <2>2, <2>3
    <2>5. Done(r)
      BY <1>1, <2>1, <2>4 DEF Done
    <2>6. mail'[r] = Tail(mail[r]) /\ \A q \in Rank \ {r} : mail'[q] = mail[q]
      BY <1>1, <2>1
    <2>7. \A i \in 1 .. Len(mail[r]) - 1 : Tail(mail[r])[i] = "ok"
      BY <2>2, <2>3
    <2>8. ASSUME NEW q \in Rank, NEW i \in 1 .. Len(mail'[q]) PROVE mail'[q][i] = "ok"
      <3>1. CASE q = r
        BY <2>2, <2>6, <2>7, <2>8, <3>1
      <3>2. CASE q # r
        BY <2>6, <2>8, <3>2 DEF CallsInv, MailOK
      <3> QED
        BY <3>1, <3>2
    <2> QED
      BY <1>4, <1>6, <2>5, <2>8 DEF MailOK
  <1>10. CASE Header(r)
    BY <1>4, <1>6, <1>10 DEF Header, Sound, CallsInv, MailOK
  <1>11. CASE Check(r)
    <2>1. Done(r) /\ mail' = mail
      BY <1>3, <1>11 DEF Check, Failed, Done
    <2> QED
      BY <1>4, <1>6, <2>1 DEF CallsInv, MailOK
  <1>12. CASE Grow(r) \/ Adopt(r) \/ \E x, m : SwitchMode(r, x, m)
    BY <1>4, <1>6, <1>12 DEF Grow, Adopt, SwitchMode, CallsInv, MailOK
  <1> QED
    BY <1>7, <1>8, <1>9, <1>10, <1>11, <1>12 DEF LocalStep, Leave, EnterDefine,
       Discard, CloseFile, ExitDefine

(* A collective operation all ranks go on from was an error of none.       *)
LEMMA MeetStatus ==
  ASSUME CallsInv, Agree \/ Reduce \/ Vote \/ Barrier
  PROVE  \/ \A r \in Rank : call'[r] = Idle
         \/ \A r \in Rank : ~Failed(r) /\ call'[r].status = "ok"
  <1>1. \A r \in Rank : call[r] \in Call /\ call[r].steps # << >>
    BY DEF CallsInv, TypeOK, Agree, Reduce, Vote, Barrier, AllAt, At, InCall
  <1>2. ASSUME NEW r \in Rank, ~Failed(r) PROVE Advance(call[r]).status = "ok"
    <2>1. Idle.status = "ok"
      BY DEF Idle
    <2> QED
      BY <1>1, <1>2, <2>1, AdvanceCall DEF Failed
  <1>3. ASSUME NEW r \in Rank, NEW g \in Count, ~Failed(r)
        PROVE  Advance([call[r] EXCEPT !.got = g]).status = "ok"
    <2> DEFINE d == [call[r] EXCEPT !.got = g]
    <2>1. d \in Call /\ d.steps = call[r].steps /\ d.status = call[r].status
      BY <1>1 DEF Call
    <2>2. d.steps # << >> /\ d.status = "ok"
      BY <1>1, <1>3, <2>1 DEF Failed
    <2>3. Idle.status = "ok"
      BY DEF Idle
    <2> HIDE DEF d
    <2>4. Advance(d).status = "ok"
      BY <2>1, <2>2, <2>3, AdvanceCall
    <2> QED
      BY <2>4 DEF d
  <1>4. ASSUME TakeMax, \A r \in Rank : ~Failed(r)
        PROVE  \A r \in Rank : call'[r].status = "ok"
    <2>1. PICK g \in Count : call' = [r \in Rank |-> Advance([call[r] EXCEPT !.got = g])]
      BY <1>4 DEF TakeMax
    <2> QED
      BY <1>3, <1>4, <2>1
  <1>5. ASSUME \A r \in Rank : Head(call[r].steps) \notin {"agree", "vote"}
        PROVE  \A r \in Rank : ~Failed(r)
    BY <1>1, <1>5, StatusOK DEF Failed
  <1>6. CASE Agree
    BY <1>2, <1>6 DEF Agree
  <1>7. CASE Reduce
    <2>1. \A r \in Rank : ~Failed(r)
      BY <1>5, <1>7 DEF Reduce, AllAt, At
    <2> QED
      BY <1>4, <1>7, <2>1 DEF Reduce
  <1>8. CASE Vote
    BY <1>4, <1>8 DEF Vote
  <1>9. CASE Barrier
    <2>1. \A r \in Rank : ~Failed(r)
      BY <1>5, <1>9 DEF Barrier, AllAt, At
    <2> QED
      BY <1>2, <1>9, <2>1 DEF Barrier
  <1> QED
    BY <1>6, <1>7, <1>8, <1>9

LEMMA InitCalls == Init => CallsInv
  <1> SUFFICES ASSUME Init PROVE CallsInv
    OBVIOUS
  <1>1. CallsOK
    BY IdleOK DEF Init, CallsOK
  <1>2. MailOK
    BY DEF Init, MailOK
  <1> QED
    BY <1>1, <1>2, InitType DEF CallsInv

LEMMA NextCalls ==
  ASSUME Sound
  PROVE  CallsInv /\ [Next]_vars => CallsInv'
  <1> SUFFICES ASSUME CallsInv, [Next]_vars PROVE CallsInv'
    OBVIOUS
  <1>1. TypeOK /\ SyncInv /\ MailOK
    BY DEF CallsInv, CallsOK, CallOK, SyncInv
  <1>2. TypeOK'
    BY <1>1, NextPreservesType
  <1>3. MailOK'
    <2>1. ASSUME NEW r \in Rank, LocalStep(r) PROVE MailOK'
      BY <2>1, LocalStatus
    <2>2. CASE mail' = mail
      BY <1>1, <2>2 DEF MailOK
    <2>3. ASSUME NEW r \in Rank, MakeCall(r) PROVE mail' = mail
      BY <1>1, <2>3, CallMakes, EnterMoves DEF Called
    <2>4. ASSUME NEW r \in Rank, NEW j, NEW w, IndepWrite(r, j, w) PROVE mail' = mail
      BY <2>4 DEF IndepWrite
    <2>5. Meet => mail' = mail
      BY DEF Meet, Agree, Reduce, Vote, Barrier, Open
    <2> QED
      BY <2>1, <2>2, <2>3, <2>4, <2>5, NextCases DEF vars
  <1>4. SUFFICES ASSUME NEW r \in Rank
                 PROVE  CallOK(call'[r], mode'[r], numrecs'[r], r = Root)
    BY <1>2, <1>3 DEF CallsInv, CallsOK
  <1> DEFINE root == (r = Root)
             c == call[r]
             m == mode[r]
             n == numrecs[r]
             d == call'[r]
             m2 == mode'[r]
             n2 == numrecs'[r]
  <1>5. c \in Call /\ n \in Nat /\ d \in Call /\ CallOK(c, m, n, root)
    BY <1>2 DEF CallsInv, TypeOK, CallsOK, Count
  <1> HIDE DEF root, c, m, n, d, m2, n2
  <1>6. SUFFICES CallOK(d, m2, n2, root)
    BY DEF d, m2, n2, root
  <1>7. CASE d = c /\ m2 = m /\ n2 = n
    BY <1>5, <1>7
  <1>8. CASE Moves(c, m, n, d, m2, n2) /\ d.status = "ok"
    BY <1>5, <1>8, CallMoves
  <1>9. CASE d = Idle
    BY <1>9, IdleOK
  <1>10. CASE UNCHANGED vars
    BY <1>7, <1>10 DEF vars, c, m, n, d, m2, n2
  <1>11. CASE Meet
    <2>1. ASSUME NEW x, Together(x), Agree \/ Reduce \/ Vote \/ Barrier
          PROVE  (Moves(c, m, n, d, m2, n2) /\ d.status = "ok") \/ d = Idle
      BY <2>1, MeetStatus DEF Together, c, m, n, d, m2, n2
    <2>2. CASE Open
      <3>1. d = c /\ c.steps = << >> /\ m2 = "coll"
        BY <2>2 DEF Open, InCall, c, d, m2
      <3>2. SyncOK(d, m2, n2, root)
        BY <3>1, SyncIdle
      <3>3. d.status = "ok"
        BY <1>5, <3>1, HasEmpty DEF CallOK
      <3> QED
        BY <3>1, <3>2, <3>3, HasEmpty DEF CallOK
    <2> QED
      BY <1>1, <1>8, <1>9, <1>11, <2>1, <2>2, MeetMoves
  <1>12. ASSUME NEW q \in Rank, MakeCall(q) PROVE CallOK(d, m2, n2, root)
    <2>1. PICK op, s, give, wrote, status : Makes(q, op, s, give, wrote, status)
      BY <1>1, <1>12, CallMakes DEF Called
    <2>2. CASE q # r
      <3>1. d = c /\ m2 = m /\ n2 = n
        BY <1>1, <2>1, <2>2, EnterMoves DEF d, c, m2, m, n2, n
      <3> QED
        BY <1>7, <3>1
    <2>3. CASE q = r
      <3>1. /\ d = IF s = << >> THEN Idle ELSE Record(s, give, wrote, status)
            /\ m2 = Begun(m, op) /\ n2 = n
        BY <1>1, <2>1, <2>3, EnterMoves DEF d, m2, n2, m, n
      <3>2. CallOK(Record(s, give, wrote, status), Begun(m, op), n, root)
        BY <2>1, <2>3 DEF Sound, Makes, Entry, m, n, root
      <3> QED
        BY <1>9, <3>1, <3>2
    <2> QED
      BY <2>2, <2>3
  <1>13. ASSUME NEW q \in Rank, LocalStep(q) PROVE CallOK(d, m2, n2, root)
    <2>1. At(q, "publish") => q = Root
      BY <1>1, RootSteps
    <2>2. /\ Alone(q) /\ call'[q].status = "ok"
          /\ Moves(call[q], mode[q], numrecs[q], call'[q], mode'[q], numrecs'[q])
      BY <1>1, <1>13, <2>1, LocalMoves, LocalStatus
    <2>3. CASE q # r
      <3>1. d = c /\ m2 = m /\ n2 = n
        BY <2>2, <2>3 DEF Alone, d, c, m2, m, n2, n
      <3> QED
        BY <1>7, <3>1
    <2>4. CASE q = r
      BY <1>8, <2>2, <2>4 DEF d, c, m2, m, n2, n
    <2> QED
      BY <2>3, <2>4
  <1>14. ASSUME NEW q \in Rank, NEW j \in Count, NEW w \in Count, IndepWrite(q, j, w)
         PROVE  CallOK(d, m2, n2, root)
    <2>1. d = c /\ m2 = m
      BY <1>14 DEF IndepWrite, d, c, m2, m
    <2>2. CASE q # r
      <3>1. n2 = n
        BY <1>1, <1>14, <2>2 DEF IndepWrite, TypeOK, n2, n
      <3> QED
        BY <1>7, <2>1, <3>1
    <2>3. CASE q = r
      <3>1. c.steps = << >> /\ d.steps = << >>
        BY <1>14, <2>1, <2>3 DEF IndepWrite, InCall, c
      <3>2. SyncOK(d, m2, n2, root)
        BY <3>1, SyncIdle
      <3> QED
        BY <1>5, <2>1, <3>1, <3>2 DEF CallOK
    <2> QED
      BY <2>2, <2>3
  <1> QED
    BY <1>10, <1>11, <1>12, <1>13, <1>14, NextCases
-----------------------------------------------------------------------------
(***************************************************************************)
(* What the ranks are heading for.  A rank with the list l of calls to     *)
(* make is Len(l) calls behind the rank that leads.  V[j] is the mode a    *)
(* rank is in, or will be at the end of its call, when it is j calls       *)
(* behind, P[j] the call that leads from V[j + 1] to V[j], and K what is   *)
(* left of the collective operations of the last call.  Only the last call *)
(* may have operations left: those of the calls before it are over, since  *)
(* the leader has passed them.                                             *)
(***************************************************************************)
Modes == {"coll", "indep", "def", "closed"}

History(l, V, P) ==
    /\ \A i \in 1 .. Len(l) : l[i] = P[Len(l) - i]
    /\ \A j \in 0 .. Len(l) - 1 :
         /\ V[j] = After(V[j + 1], P[j])
         /\ V[j + 1] # "closed"
         /\ j > 0 => Operations(V[j + 1], P[j]) = << >>
         /\ V[j + 1] = "indep" /\ V[j] # "indep" => Has(Operations(V[j + 1], P[j]), "reduce")

RankMatch(s, m, l, V, P, K) ==
    /\ History(l, V, P)
    /\ EndMode(m, s) = V[Len(l)]
    /\ IF l = << >> THEN Meets(s, K) ELSE Meets(s, << >>) /\ K = Operations(V[1], P[0])
    /\ Has(s, "reduce") => (Has(s, "adopt") <=> V[1] = "indep")
    /\ Has(s, "vote") => V[1] # "indep"

LEMMA NoMeeting ==
  ASSUME NEW s, Meets(s, << >>), NEW x \in Meeting
  PROVE  ~Has(s, x)
  <1>1. << >> \in Seq(Meeting)
    OBVIOUS
  <1> QED
    BY <1>1, MeetsHas, HasEmpty

(* A step that is not collective.                                          *)
LEMMA MatchLocal ==
  ASSUME NEW s \in Seq(Step), s # << >>, Ordered(s), NEW m, NEW l, NEW V, NEW P,
         NEW K \in Seq(Meeting), RankMatch(s, m, l, V, P, K), Head(s) \notin Meeting
  PROVE  RankMatch(Tail(s), StepMode(m, Head(s)), l, V, P, K)
  <1> DEFINE t == Tail(s)
             h == Head(s)
  <1>1. EndMode(StepMode(m, h), t) = EndMode(m, s)
    BY EndModeTail
  <1>2. /\ Meets(s, K) => Meets(t, K)
        /\ Meets(s, << >>) => Meets(t, << >>)
    <2>1. << >> \in Seq(Meeting)
      OBVIOUS
    <2> QED
      BY <2>1, MeetsTailLocal
  <1>3. /\ Has(s, "reduce") <=> h = "reduce" \/ Has(t, "reduce")
        /\ Has(s, "vote") <=> h = "vote" \/ Has(t, "vote")
        /\ Has(s, "adopt") <=> h = "adopt" \/ Has(t, "adopt")
        /\ Has(t, "reduce") => Precedes(h, "reduce")
    BY RestOf
  <1>4. Has(t, "reduce") => h # "adopt"
    BY <1>3, Stages DEF Precedes
  <1> HIDE DEF t, h
  <1> QED
    BY <1>1, <1>2, <1>3, <1>4 DEF RankMatch, t, h

(* A collective step: no call is left to make.                             *)
LEMMA MatchMeeting ==
  ASSUME NEW s \in Seq(Step), s # << >>, Ordered(s), NEW m, NEW l, NEW V, NEW P,
         NEW K \in Seq(Meeting), RankMatch(s, m, l, V, P, K), Head(s) \in Meeting
  PROVE  /\ l = << >> /\ K # << >> /\ Head(K) = Head(s) /\ Tail(K) \in Seq(Meeting)
         /\ RankMatch(Tail(s), StepMode(m, Head(s)), l, V, P, Tail(K))
  <1> DEFINE t == Tail(s)
             h == Head(s)
  <1>1. l = << >> /\ Meets(s, K)
    <2>1. Has(s, h)
      BY RestOf
    <2>2. ~Meets(s, << >>)
      BY <2>1, NoMeeting
    <2> QED
      BY <2>2 DEF RankMatch
  <1>2. K # << >> /\ Head(K) = h /\ Tail(K) \in Seq(Meeting) /\ Meets(t, Tail(K))
    BY <1>1, MeetsTailMeeting
  <1>3. EndMode(StepMode(m, h), t) = EndMode(m, s)
    BY EndModeTail
  <1>4. /\ Has(s, "reduce") <=> h = "reduce" \/ Has(t, "reduce")
        /\ Has(s, "vote") <=> h = "vote" \/ Has(t, "vote")
        /\ Has(s, "adopt") <=> h = "adopt" \/ Has(t, "adopt")
    BY RestOf
  <1>5. h # "adopt"
    BY DEF Meeting
  <1> HIDE DEF t, h
  <1>6. RankMatch(t, StepMode(m, h), l, V, P, Tail(K))
    BY <1>1, <1>2, <1>3, <1>4, <1>5 DEF RankMatch
  <1> QED
    BY <1>1, <1>2, <1>6 DEF t, h

(* A rank without steps.                                                   *)
LEMMA MatchIdle ==
  ASSUME NEW s, NEW m, NEW V, NEW P, NEW K, NEW l, RankMatch(s, m, l, V, P, K),
         EndMode(m, s) = m, l = << >>
  PROVE  RankMatch(<< >>, m, l, V, P, << >>)
  <1>1. EndMode(m, << >>) = m
    BY EndModeEmpty
  <1>2. ~Has(<< >>, "reduce") /\ ~Has(<< >>, "vote")
    BY HasEmpty
  <1> QED
    BY <1>1, <1>2, MeetsShort DEF RankMatch

(* A rank makes a call another has made before.                            *)
LEMMA MatchFollow ==
  ASSUME NEW m, NEW l \in Seq(AllOps), l # << >>, NEW V, NEW P, NEW K,
         RankMatch(<< >>, m, l, V, P, K), NEW op, op = Head(l),
         NEW n, NEW root, NEW s, NEW give, NEW wrote, NEW status,
         Entry(m, n, root, op, s, give, wrote, status)
  PROVE  /\ RankMatch(s, Begun(m, op), Tail(l), V, P, K)
         /\ Tail(l) \in Seq(AllOps) /\ Len(Tail(l)) = Len(l) - 1 /\ Len(l) > 0
         /\ m = V[Len(l)] /\ After(m, op) = V[Len(l) - 1]
  <1> DEFINE L == Len(l)
             k == Tail(l)
             c == Record(s, give, wrote, status)
  <1>1. /\ L \in Nat /\ L > 0 /\ Len(k) = L - 1 /\ k \in Seq(AllOps)
        /\ op = l[1] /\ \A i \in 1 .. L - 1 : k[i] = l[i + 1]
    OBVIOUS
  <1> HIDE DEF k, L
  <1>2. /\ \A i \in 1 .. L : l[i] = P[L - i]
        /\ \A j \in 0 .. L - 1 :
             /\ V[j] = After(V[j + 1], P[j])
             /\ V[j + 1] # "closed"
             /\ j > 0 => Operations(V[j + 1], P[j]) = << >>
             /\ V[j + 1] = "indep" /\ V[j] # "indep" => Has(Operations(V[j + 1], P[j]), "reduce")
        /\ m = V[L] /\ K = Operations(V[1], P[0])
    BY EndModeEmpty DEF RankMatch, History, L
  <1>3. /\ L - 1 \in 0 .. L - 1 /\ 1 \in 1 .. L /\ (L - 1) + 1 = L
    BY <1>1
  <1>4. op = P[L - 1] /\ V[L - 1] = After(m, op)
        /\ (L - 1 > 0 => Operations(m, op) = << >>)
    BY <1>1, <1>2, <1>3
  <1>5. History(k, V, P)
    <2>1. ASSUME NEW i \in 1 .. Len(k) PROVE k[i] = P[Len(k) - i]
      <3>1. i + 1 \in 1 .. L /\ L - (i + 1) = Len(k) - i
        BY <1>1
      <3> QED
        BY <1>1, <1>2, <3>1
    <2>2. \A j \in 0 .. Len(k) - 1 : j \in 0 .. L - 1
      BY <1>1
    <2> QED
      BY <1>2, <2>1, <2>2 DEF History
  <1>6. /\ Form(s, Operations(m, op)) /\ EndMode(Begun(m, op), s) = After(m, op)
        /\ CallOK(c, Begun(m, op), n, root) /\ c.steps = s
        /\ op = "begin_indep" => s = << >>
    BY DEF Entry, Record
  <1>7. EndMode(Begun(m, op), s) = V[Len(k)]
    BY <1>1, <1>4, <1>6
  <1>8. IF k = << >> THEN Meets(s, K) ELSE Meets(s, << >>) /\ K = Operations(V[1], P[0])
    <2>1. CASE k = << >>
      <3>1. Len(k) = 0
        BY <2>1
      <3>2. L = 1
        BY <1>1, <3>1
      <3> QED
        BY <1>2, <1>4, <1>6, <2>1, <3>2 DEF Form
    <2>2. CASE k # << >>
      <3>1. L - 1 > 0
        BY <1>1, <2>2
      <3> QED
        BY <1>2, <1>4, <1>6, <2>2, <3>1 DEF Form
    <2> QED
      BY <2>1, <2>2
  <1>9. Has(s, "reduce") \/ Has(s, "vote") => V[1] = m
    <2>1. CASE k = << >>
      <3>1. Len(k) = 0
        BY <2>1
      <3> QED
        BY <1>1, <1>2, <3>1
    <2>2. CASE k # << >>
      <3>1. "reduce" \in Meeting /\ "vote" \in Meeting
        BY DEF Meeting
      <3> QED
        BY <1>8, <2>2, <3>1, NoMeeting
    <2> QED
      BY <2>1, <2>2
  <1>10. Has(s, "reduce") \/ Has(s, "vote") => Begun(m, op) = m
    BY <1>6, HasEmpty DEF Begun
  <1> HIDE DEF c
  <1>11. /\ Has(s, "reduce") => (Has(s, "adopt") <=> m = "indep")
         /\ Has(s, "vote") => m # "indep"
    BY <1>6, <1>10 DEF CallOK, SyncOK
  <1> QED
    BY <1>1, <1>2, <1>4, <1>5, <1>7, <1>8, <1>9, <1>11 DEF RankMatch, k, L

(* The same history one call later, x in front.                            *)
Shift(f, x) == [j \in Nat |-> IF j = 0 THEN x ELSE f[j - 1]]

LEMMA ShiftAt ==
  ASSUME NEW f, NEW x
  PROVE  /\ Shift(f, x)[0] = x
         /\ \A j \in Nat : Shift(f, x)[j + 1] = f[j]
         /\ \A j \in Nat : j > 0 => Shift(f, x)[j] = f[j - 1]
         /\ \A S : f \in [Nat -> S] /\ x \in S => Shift(f, x) \in [Nat -> S]
  <1>1. \A j \in Nat : j + 1 \in Nat /\ j + 1 # 0 /\ (j + 1) - 1 = j
    OBVIOUS
  <1>2. ASSUME NEW S, f \in [Nat -> S], x \in S PROVE Shift(f, x) \in [Nat -> S]
    <2>1. \A j \in Nat : j # 0 => j - 1 \in Nat
      OBVIOUS
    <2> QED
      BY <1>2, <2>1 DEF Shift
  <1> QED
    BY <1>1, <1>2 DEF Shift

(* A rank makes a call no other has made: nobody is in an operation.       *)
LEMMA MatchLead ==
  ASSUME NEW m, NEW V, NEW P, NEW K \in Seq(Meeting),
         RankMatch(<< >>, m, << >>, V, P, K),
         NEW n, NEW root, NEW op, NEW s, NEW give, NEW wrote, NEW status,
         Entry(m, n, root, op, s, give, wrote, status)
  PROVE  /\ K = << >> /\ m = V[0] /\ V[0] # "closed"
         /\ Operations(V[0], op) \in Seq(Meeting)
         /\ V[0] = "indep" /\ After(V[0], op) # "indep" => Has(Operations(V[0], op), "reduce")
         /\ RankMatch(s, Begun(m, op), << >>, Shift(V, After(V[0], op)), Shift(P, op),
                      Operations(V[0], op))
  <1> DEFINE M == Operations(m, op)
             W == Shift(V, After(m, op))
             Q == Shift(P, op)
             c == Record(s, give, wrote, status)
             empty == << >>
  <1>1. K = << >> /\ m = V[0] /\ Len(empty) = 0
    BY MeetsEmpty, EndModeEmpty DEF RankMatch
  <1>2. W[0] = After(m, op) /\ W[1] = m
    <2>1. 0 \in Nat /\ 0 + 1 = 1
      OBVIOUS
    <2> HIDE DEF W
    <2>2. W[0] = After(m, op) /\ W[0 + 1] = V[0]
      BY <2>1, ShiftAt DEF W
    <2> QED
      BY <1>1, <2>1, <2>2
  <1>3. /\ M \in Seq(Meeting) /\ Meets(s, M) /\ EndMode(Begun(m, op), s) = After(m, op)
        /\ CallOK(c, Begun(m, op), n, root) /\ c.steps = s /\ m # "closed"
        /\ op = "begin_indep" => s = << >>
        /\ m = "indep" /\ After(m, op) # "indep" => Has(s, "reduce")
    BY DEF Entry, Form, Record
  <1>4. Has(s, "reduce") => Has(M, "reduce")
    <2>1. "reduce" \in Meeting
      BY DEF Meeting
    <2> HIDE DEF M
    <2> QED
      BY <1>3, <2>1, MeetsHas
  <1> HIDE DEF c, M, W, Q
  <1>5. Has(s, "reduce") \/ Has(s, "vote") => Begun(m, op) = m
    BY <1>3, HasEmpty DEF Begun
  <1>6. /\ Has(s, "reduce") => (Has(s, "adopt") <=> m = "indep")
        /\ Has(s, "vote") => m # "indep"
    BY <1>3, <1>5 DEF CallOK, SyncOK
  <1>7. History(empty, W, Q)
    BY <1>1 DEF History
  <1>8. RankMatch(s, Begun(m, op), empty, W, Q, M)
    BY <1>1, <1>2, <1>3, <1>6, <1>7 DEF RankMatch
  <1> QED
    BY <1>1, <1>3, <1>4, <1>8 DEF M, W, Q

(* The others are one call further behind.                                 *)
LEMMA MatchLed ==
  ASSUME NEW s, NEW m, NEW l \in Seq(AllOps), NEW V, NEW P, RankMatch(s, m, l, V, P, << >>),
         NEW op, V[0] # "closed",
         V[0] = "indep" /\ After(V[0], op) # "indep" => Has(Operations(V[0], op), "reduce")
  PROVE  RankMatch(s, m, Append(l, op), Shift(V, After(V[0], op)), Shift(P, op),
                   Operations(V[0], op))
  <1> DEFINE L == Len(l)
             k == Append(l, op)
             W == Shift(V, After(V[0], op))
             Q == Shift(P, op)
             M == Operations(V[0], op)
  <1>1. /\ L \in Nat /\ Len(k) = L + 1 /\ k # << >>
        /\ \A i \in 1 .. L : k[i] = l[i]
        /\ k[L + 1] = op
    <2>1. Len(k) = L + 1 /\ L \in Nat
      OBVIOUS
    <2>2. k # << >>
      <3>1. Len(<< >>) = 0
        OBVIOUS
      <3> QED
        BY <2>1, <3>1
    <2> QED
      BY <2>1, <2>2
  <1>2. /\ \A i \in 1 .. L : l[i] = P[L - i]
        /\ \A j \in 0 .. L - 1 :
             /\ V[j] = After(V[j + 1], P[j])
             /\ V[j + 1] # "closed"
             /\ j > 0 => Operations(V[j + 1], P[j]) = << >>
             /\ V[j + 1] = "indep" /\ V[j] # "indep" => Has(Operations(V[j + 1], P[j]), "reduce")
        /\ EndMode(m, s) = V[L]
    BY DEF RankMatch, History, L
  <1>3. Meets(s, << >>) /\ (L > 0 => Operations(V[1], P[0]) = << >>)
    <2>1. CASE l = << >>
      <3>1. L = 0
        BY <2>1
      <3> QED
        BY <2>1, <3>1 DEF RankMatch
    <2>2. CASE l # << >>
      BY <2>2 DEF RankMatch
    <2> QED
      BY <2>1, <2>2
  <1>4. ~Has(s, "reduce") /\ ~Has(s, "vote")
    <2>1. "reduce" \in Meeting /\ "vote" \in Meeting
      BY DEF Meeting
    <2> QED
      BY <1>3, <2>1, NoMeeting
  <1>5. /\ W[0] = After(V[0], op) /\ Q[0] = op
        /\ \A j \in Nat : W[j + 1] = V[j]
        /\ \A j \in Nat : j > 0 => W[j] = V[j - 1] /\ Q[j] = P[j - 1]
    BY ShiftAt
  <1>6. W[1] = V[0]
    <2>1. 0 \in Nat /\ 0 + 1 = 1
      OBVIOUS
    <2> HIDE DEF W, Q
    <2> QED
      BY <1>5, <2>1
  <1> HIDE DEF L, k, W, Q, M
  <1>7. History(k, W, Q)
    <2>1. ASSUME NEW i \in 1 .. Len(k) PROVE k[i] = Q[Len(k) - i]
      <3>1. CASE i = L + 1
        <4>1. Len(k) - i = 0
          BY <1>1, <3>1
        <4> QED
          BY <1>1, <1>5, <3>1, <4>1
      <3>2. CASE i # L + 1
        <4>1. i \in 1 .. L /\ Len(k) - i \in Nat /\ Len(k) - i > 0 /\ (Len(k) - i) - 1 = L - i
          BY <1>1, <3>2
        <4>2. Q[Len(k) - i] = P[(Len(k) - i) - 1]
          BY <1>5, <4>1
        <4> QED
          BY <1>1, <1>2, <4>1, <4>2
      <3> QED
        BY <3>1, <3>2
    <2>2. ASSUME NEW j \in 0 .. Len(k) - 1
          PROVE  /\ W[j] = After(W[j + 1], Q[j])
                 /\ W[j + 1] # "closed"
                 /\ j > 0 => Operations(W[j + 1], Q[j]) = << >>
                 /\ W[j + 1] = "indep" /\ W[j] # "indep"
                      => Has(Operations(W[j + 1], Q[j]), "reduce")
      <3>1. CASE j = 0
        <4>1. j + 1 = 1 /\ ~(j > 0)
          BY <3>1
        <4>2. W[j + 1] = V[0] /\ W[j] = After(V[0], op) /\ Q[j] = op
          BY <1>5, <1>6, <3>1, <4>1
        <4>3. W[j + 1] = "indep" /\ W[j] # "indep" => Has(Operations(W[j + 1], Q[j]), "reduce")
          BY <4>2
        <4> QED
          BY <4>1, <4>2, <4>3
      <3>2. CASE j # 0
        <4>1. j - 1 \in 0 .. L - 1 /\ (j - 1) + 1 = j /\ j \in Nat /\ j > 0 /\ L > 0
          BY <1>1, <3>2
        <4>2. W[j + 1] = V[j] /\ W[j] = V[j - 1] /\ Q[j] = P[j - 1]
          BY <1>5, <4>1
        <4>3. Operations(V[j], P[j - 1]) = << >>
          <5>1. CASE j - 1 > 0
            BY <1>2, <4>1, <5>1
          <5>2. CASE ~(j - 1 > 0)
            <6>1. j = 1 /\ j - 1 = 0
              BY <4>1, <5>2
            <6> QED
              BY <1>3, <4>1, <6>1
          <5> QED
            BY <5>1, <5>2
        <4>4. /\ V[j - 1] = After(V[j], P[j - 1])
              /\ V[j] # "closed"
              /\ V[j] = "indep" /\ V[j - 1] # "indep" => Has(Operations(V[j], P[j - 1]), "reduce")
          BY <1>2, <4>1
        <4> QED
          BY <4>2, <4>3, <4>4
      <3> QED
        BY <3>1, <3>2
    <2> QED
      BY <2>1, <2>2 DEF History
  <1>8. EndMode(m, s) = W[Len(k)]
    BY <1>1, <1>2, <1>5
  <1>9. M = Operations(W[1], Q[0])
    BY <1>5, <1>6 DEF M
  <1>10. RankMatch(s, m, k, W, Q, M)
    BY <1>1, <1>3, <1>4, <1>7, <1>8, <1>9 DEF RankMatch
  <1> QED
    BY <1>10 DEF k, W, Q, M
-----------------------------------------------------------------------------
(***************************************************************************)
(* The counts the ranks are heading for.  A rank outside independent mode  *)
(* has the count N[j] when it is j calls behind, or will have it when its  *)
(* call has no reduction left: that is the count it is due.                *)
(***************************************************************************)
Due(s, got, n) ==
    IF Has(s, "adopt") THEN got
    ELSE IF Has(s, "grow") /\ ~Pending(s) THEN Bigger(got, n)
    ELSE n

(* The rank has yet to contribute to a reduction whose result it adopts.   *)
Joining(s) == Has(s, "reduce") /\ Has(s, "adopt")

RankValue(s, got, n, l, V, N) ==
    /\ V[Len(l)] # "indep" /\ ~Joining(s) => N[Len(l)] = Due(s, got, n)
    /\ \A j \in 0 .. Len(l) - 1 : V[j + 1] # "indep" => N[j] = N[j + 1]

LEMMA DueEmpty == \A got, n : Due(<< >>, got, n) = n /\ ~Joining(<< >>)
  BY HasEmpty DEF Due, Joining

(* The collective operations that reduce counts, and those that do not.    *)
Reducing == {"reduce", "vote"}
Plain == {"agree", "barrier"}

(* What one step leaves of the ties between the steps of a call.           *)
LEMMA HasRest ==
  ASSUME NEW s \in Seq(Step), s # << >>, Ordered(s)
  PROVE  LET h == Head(s)
             t == Tail(s)
         IN  /\ Has(s, "adopt") <=> h = "adopt" \/ Has(t, "adopt")
             /\ Has(s, "grow") <=> h = "grow" \/ Has(t, "grow")
             /\ Has(s, "reduce") <=> h = "reduce" \/ Has(t, "reduce")
             /\ Has(s, "vote") <=> h = "vote" \/ Has(t, "vote")
             /\ h \in {"grow", "adopt"} =>
                  ~Has(t, "grow") /\ ~Has(t, "adopt") /\ ~Has(t, "reduce") /\ ~Has(t, "vote")
             /\ h \in {"reduce", "vote"} => ~Has(t, "reduce") /\ ~Has(t, "vote")
             /\ Has(t, "adopt") \/ Has(t, "grow") => t # << >>
  <1> DEFINE h == Head(s)
             t == Tail(s)
  <1>1. /\ \A x : Has(s, x) <=> (h = x \/ Has(t, x))
        /\ \A x : Has(t, x) => Precedes(h, x) /\ t # << >>
    BY RestOf
  <1> HIDE DEF h, t
  <1>2. /\ Has(t, "adopt") => Precedes(h, "adopt") /\ t # << >>
        /\ Has(t, "grow") => Precedes(h, "grow") /\ t # << >>
        /\ Has(t, "reduce") => Precedes(h, "reduce")
        /\ Has(t, "vote") => Precedes(h, "vote")
    BY <1>1
  <1>3. /\ h \in {"grow", "adopt"} =>
             ~Has(t, "grow") /\ ~Has(t, "adopt") /\ ~Has(t, "reduce") /\ ~Has(t, "vote")
        /\ h \in {"reduce", "vote"} => ~Has(t, "reduce") /\ ~Has(t, "vote")
    BY <1>2, Stages DEF Precedes
  <1> QED
    BY <1>1, <1>2, <1>3 DEF h, t

(* The steps of one rank bring its count to the one it is due.             *)
LEMMA ValueLocal ==
  ASSUME NEW c \in Call, NEW m, NEW n \in Nat, NEW d \in Call, NEW m2, NEW n2, NEW root,
         Moves(c, m, n, d, m2, n2), CallOK(c, m, n, root), Head(c.steps) \notin Meeting,
         NEW l, NEW V, NEW N, RankValue(c.steps, c.got, n, l, V, N)
  PROVE  RankValue(d.steps, d.got, n2, l, V, N) /\ n2 >= n /\ n2 \in Nat
  <1> DEFINE s == c.steps
             h == Head(s)
             t == d.steps
             i == Len(l)
  <1>1. /\ s \in Seq(Step) /\ s # << >> /\ Ordered(s) /\ t = Tail(s)
        /\ n2 = Taken(h, c.got, n) /\ c.got \in Nat
        /\ t # << >> => (IF h \in {"reduce", "vote"} THEN c.give <= d.got ELSE d.got = c.got)
        /\ Has(s, "grow") => Quiet(s)
        /\ Has(s, "publish") => Has(s, "adopt")
        /\ Has(s, "adopt") /\ ~Has(s, "reduce") => n <= c.got
        /\ Has(s, h)
    BY RestOf DEF Moves, CallOK, SyncOK, Call, Count
  <1>2. h # "reduce" /\ h # "vote" /\ h \notin {"reduce", "vote"}
    BY DEF Meeting
  <1> HIDE DEF s, h, t, i
  <1>3. /\ Has(s, "adopt") <=> h = "adopt" \/ Has(t, "adopt")
        /\ Has(s, "grow") <=> h = "grow" \/ Has(t, "grow")
        /\ Has(s, "reduce") <=> Has(t, "reduce")
        /\ Has(s, "vote") <=> Has(t, "vote")
        /\ h \in {"grow", "adopt"} =>
             ~Has(t, "grow") /\ ~Has(t, "adopt") /\ ~Has(t, "reduce") /\ ~Has(t, "vote")
        /\ Has(t, "adopt") \/ Has(t, "grow") => t # << >>
    BY <1>1, <1>2, HasRest DEF h
  <1>4. Has(s, "grow") => ~Has(s, "adopt")
    BY <1>1 DEF Quiet
  <1>5. Joining(s) <=> Joining(t)
    BY <1>3 DEF Joining
  <1>6. CASE h = "adopt"
    <2>1. n2 = c.got /\ n <= c.got
      BY <1>1, <1>3, <1>6 DEF Taken
    <2>2. Due(s, c.got, n) = c.got /\ Due(t, d.got, n2) = n2
      BY <1>3, <1>6 DEF Due
    <2> QED
      BY <1>1, <1>5, <2>1, <2>2 DEF RankValue, s, t
  <1>7. CASE h = "grow"
    <2>1. n2 = Bigger(c.got, n)
      BY <1>7 , <1>1 DEF Taken
    <2>2. Due(s, c.got, n) = n2 /\ Due(t, d.got, n2) = n2
      BY <1>3, <1>4, <1>7, <2>1 DEF Due, Pending
    <2> QED
      BY <1>1, <1>5, <2>1, <2>2 DEF RankValue, Bigger, s, t
  <1>8. CASE h = "publish"
    <2>1. n2 = Bigger(c.got, n) /\ Has(t, "adopt") /\ Has(s, "adopt")
      BY <1>1, <1>3, <1>8 DEF Taken
    <2>2. Due(s, c.got, n) = Due(t, d.got, n2)
      BY <1>1, <1>2, <1>3, <2>1 DEF Due
    <2> QED
      BY <1>1, <1>5, <2>1, <2>2 DEF RankValue, Bigger, s, t
  <1>9. CASE h \notin {"adopt", "grow", "publish"}
    <2>1. n2 = n
      BY <1>1, <1>9 DEF Taken
    <2>2. Due(s, c.got, n) = Due(t, d.got, n2)
      BY <1>1, <1>2, <1>3, <1>9, <2>1 DEF Due, Pending
    <2> QED
      BY <1>1, <1>5, <2>1, <2>2 DEF RankValue, s, t
  <1> QED
    BY <1>6, <1>7, <1>8, <1>9

(* A collective operation that reduces nothing.                            *)
LEMMA ValueMeeting ==
  ASSUME NEW c \in Call, NEW m, NEW n, NEW d \in Call, NEW m2, NEW n2,
         Moves(c, m, n, d, m2, n2), Ordered(c.steps), Head(c.steps) \in Plain,
         NEW l, NEW V, NEW N, RankValue(c.steps, c.got, n, l, V, N)
  PROVE  RankValue(d.steps, d.got, n2, l, V, N)
  <1> DEFINE s == c.steps
             h == Head(s)
             t == d.steps
  <1>1. /\ s \in Seq(Step) /\ s # << >> /\ Ordered(s) /\ t = Tail(s)
        /\ n2 = Taken(h, c.got, n) /\ h \in {"agree", "barrier"}
        /\ t # << >> => (IF h \in {"reduce", "vote"} THEN c.give <= d.got ELSE d.got = c.got)
    BY DEF Moves, Call, Plain
  <1> HIDE DEF s, h, t
  <1>2. /\ Has(s, "adopt") <=> Has(t, "adopt")
        /\ Has(s, "grow") <=> Has(t, "grow")
        /\ Has(s, "reduce") <=> Has(t, "reduce")
        /\ Has(s, "vote") <=> Has(t, "vote")
        /\ Has(t, "adopt") \/ Has(t, "grow") => t # << >>
    BY <1>1, HasRest DEF h
  <1>3. n2 = n
    BY <1>1 DEF Taken
  <1>4. Due(s, c.got, n) = Due(t, d.got, n2) /\ (Joining(s) <=> Joining(t))
    BY <1>1, <1>2, <1>3 DEF Due, Pending, Joining
  <1> QED
    BY <1>3, <1>4 DEF RankValue, s, t

(* The operations a rank meets are those all ranks meet.                   *)
LEMMA SharedOperations ==
  ASSUME NEW s, NEW m, NEW l, NEW V, NEW P, NEW K \in Seq(Meeting),
         RankMatch(s, m, l, V, P, K), l = << >>
  PROVE  /\ Has(s, "reduce") <=> Has(K, "reduce")
         /\ Has(s, "vote") <=> Has(K, "vote")
         /\ EndMode(m, s) = V[0]
         /\ Has(s, "reduce") => (Has(s, "adopt") <=> V[1] = "indep")
         /\ Has(s, "vote") => V[1] # "indep"
  <1>1. "reduce" \in Meeting /\ "vote" \in Meeting /\ Len(<< >>) = 0
    BY DEF Meeting
  <1>2. Meets(s, K)
    BY DEF RankMatch
  <1>3. (Has(s, "reduce") <=> Has(K, "reduce")) /\ (Has(s, "vote") <=> Has(K, "vote"))
    BY <1>1, <1>2, MeetsHas
  <1> QED
    BY <1>1, <1>3 DEF RankMatch

(* When one rank is about to contribute to the count after a write, all are*)
(* in such a call, and hold the count they had when they made it.          *)
LEMMA AllGrow ==
  ASSUME NEW s, NEW m, NEW n, NEW got, NEW V, NEW P, NEW K \in Seq(Meeting), NEW N,
         NEW c \in Call, NEW root, CallOK(c, m, n, root), c.steps = s,
         RankMatch(s, m, << >>, V, P, K), RankValue(s, got, n, << >>, V, N),
         V[1] # "indep", Has(K, "reduce") \/ Has(K, "vote")
  PROVE  /\ Has(s, "grow") /\ Pending(s) /\ ~Has(s, "adopt") /\ Within(c.wrote, c.give)
         /\ EndMode(m, s) = m /\ V[0] = "coll" /\ N[0] = n
  <1>1. /\ Has(s, "reduce") <=> Has(K, "reduce")
        /\ Has(s, "vote") <=> Has(K, "vote")
        /\ EndMode(m, s) = V[0]
        /\ Has(s, "reduce") => (Has(s, "adopt") <=> V[1] = "indep")
    BY SharedOperations
  <1>2. Has(s, "grow") /\ Pending(s)
    BY <1>1 DEF CallOK, Pending
  <1>3. Quiet(s) /\ m = "coll" /\ Within(c.wrote, c.give)
    BY <1>2 DEF CallOK
  <1>4. ~Has(s, "adopt") /\ EndMode(m, s) = m
    BY <1>3 DEF Quiet, EndMode
  <1>5. N[0] = n
    <2>1. Len(<< >>) = 0 /\ V[0] = "coll"
      BY <1>1, <1>3, <1>4
    <2>2. Due(s, got, n) = n /\ ~Joining(s)
      BY <1>2, <1>4 DEF Due, Joining
    <2> QED
      BY <2>1, <2>2 DEF RankValue
  <1> QED
    BY <1>1, <1>2, <1>3, <1>4, <1>5

(* An operation from which all ranks return: no count changes.             *)
LEMMA QuitTogether ==
  ASSUME NEW s, NEW m, NEW n, NEW got, NEW V, NEW P, NEW K \in Seq(Meeting), NEW N,
         NEW c \in Call, NEW root, CallOK(c, m, n, root), c.steps = s,
         RankMatch(s, m, << >>, V, P, K), RankValue(s, got, n, << >>, V, N),
         V[1] # "indep", Has(K, "reduce") \/ Has(K, "vote"), NEW g
  PROVE  /\ RankMatch(<< >>, m, << >>, V, P, << >>) /\ RankValue(<< >>, g, n, << >>, V, N)
         /\ V[0] = "coll"
  <1>1. EndMode(m, s) = m /\ V[0] = "coll" /\ N[0] = n
    BY AllGrow
  <1>2. RankMatch(<< >>, m, << >>, V, P, << >>)
    BY <1>1, MatchIdle
  <1>3. RankValue(<< >>, g, n, << >>, V, N)
    <2>1. Len(<< >>) = 0
      OBVIOUS
    <2> QED
      BY <1>1, <2>1, DueEmpty DEF RankValue
  <1> QED
    BY <1>1, <1>2, <1>3

(* The reduction of a call that writes records.                            *)
LEMMA ValueGrow ==
  ASSUME NEW c \in Call, NEW m, NEW n \in Nat, NEW d \in Call, NEW m2, NEW n2, NEW root,
         Moves(c, m, n, d, m2, n2), CallOK(c, m, n, root),
         Head(c.steps) \in Reducing, NEW V, NEW P, NEW K \in Seq(Meeting), NEW N,
         RankMatch(c.steps, m, << >>, V, P, K), RankValue(c.steps, c.got, n, << >>, V, N),
         V[1] # "indep", NEW g \in Nat, d.steps # << >> => d.got = g,
         NEW N2, N2[0] = Bigger(g, N[0])
  PROVE  RankValue(d.steps, d.got, n2, << >>, V, N2)
  <1> DEFINE s == c.steps
             h == Head(s)
             t == d.steps
  <1>1. /\ s \in Seq(Step) /\ s # << >> /\ Ordered(s) /\ t = Tail(s)
        /\ n2 = Taken(h, c.got, n) /\ h \in {"reduce", "vote"}
    BY DEF Moves, Call, CallOK, SyncOK, Reducing
  <1>2. Has(K, "reduce") \/ Has(K, "vote")
    <2>1. Has(s, h)
      BY <1>1, RestOf
    <2> HIDE DEF s, h
    <2>2. Has(s, "reduce") \/ Has(s, "vote")
      BY <1>1, <2>1
    <2> QED
      BY <2>2, SharedOperations DEF s
  <1>3. Has(s, "grow") /\ ~Has(s, "adopt") /\ Within(c.wrote, c.give) /\ N[0] = n
    BY <1>2, AllGrow
  <1> HIDE DEF s, h, t
  <1>4. /\ Has(t, "grow") /\ ~Has(t, "adopt") /\ ~Has(t, "reduce") /\ ~Has(t, "vote")
        /\ t # << >>
    BY <1>1, <1>3, HasRest DEF h
  <1>5. n2 = n /\ d.got = g
    BY <1>1, <1>4 DEF Taken, t
  <1>6. Due(t, d.got, n2) = N2[0]
    BY <1>3, <1>4, <1>5 DEF Due, Pending
  <1>7. Len(<< >>) = 0
    OBVIOUS
  <1> QED
    BY <1>3, <1>5, <1>6, <1>7 DEF RankValue, t

(* The reduction of a reconciliation.                                      *)
LEMMA AllAdopt ==
  ASSUME NEW s \in Seq(Step), s # << >>, Head(s) \in Reducing, Ordered(s),
         NEW m, NEW n, NEW V, NEW P, NEW K \in Seq(Meeting),
         NEW c \in Call, NEW root, CallOK(c, m, n, root), c.steps = s,
         RankMatch(s, m, << >>, V, P, K), V[1] = "indep"
  PROVE  /\ Head(s) = "reduce" /\ Has(s, "reduce") /\ Has(s, "adopt") /\ Has(K, "reduce")
         /\ c.give = n /\ c.wrote = 0
  <1>1. Has(s, Head(s))
    BY RestOf
  <1>2. /\ Has(s, "reduce") <=> Has(K, "reduce")
        /\ Has(s, "reduce") => Has(s, "adopt")
        /\ ~Has(s, "vote")
    BY SharedOperations
  <1>3. Head(s) = "reduce" /\ Has(s, "reduce") /\ Has(s, "adopt") /\ Has(K, "reduce")
    BY <1>1, <1>2 DEF Reducing
  <1> QED
    BY <1>3 DEF CallOK, SyncOK

LEMMA ValueAdopt ==
  ASSUME NEW c \in Call, NEW m, NEW n \in Nat, NEW d \in Call, NEW m2, NEW n2, NEW root,
         Moves(c, m, n, d, m2, n2), CallOK(c, m, n, root),
         Head(c.steps) \in Reducing, NEW V, NEW P, NEW K \in Seq(Meeting),
         RankMatch(c.steps, m, << >>, V, P, K),
         V[1] = "indep", NEW g \in Nat, d.steps # << >> => d.got = g, NEW N2, N2[0] = g
  PROVE  RankValue(d.steps, d.got, n2, << >>, V, N2)
  <1> DEFINE s == c.steps
             h == Head(s)
             t == d.steps
  <1>1. /\ s \in Seq(Step) /\ s # << >> /\ Ordered(s) /\ t = Tail(s) /\ h \in Reducing
    BY DEF Moves, Call, CallOK, SyncOK
  <1>2. RankMatch(s, m, << >>, V, P, K) /\ c.steps = s
    OBVIOUS
  <1> HIDE DEF s, t
  <1>3. h = "reduce" /\ Has(s, "adopt")
    BY <1>1, <1>2, AllAdopt
  <1>4. Has(t, "adopt") /\ ~Has(t, "reduce") /\ t # << >>
    <2> HIDE DEF h
    <2> QED
      BY <1>1, <1>3, HasRest DEF h
  <1>5. d.got = g
    BY <1>4 DEF t
  <1>6. Due(t, d.got, n2) = N2[0]
    BY <1>4, <1>5 DEF Due
  <1>7. Len(<< >>) = 0
    OBVIOUS
  <1> QED
    BY <1>6, <1>7 DEF RankValue, t

(* A rank makes a call: with the count it had, and, when the call is new,  *)
(* with the same count to reach.                                           *)
LEMMA ValueFollow ==
  ASSUME NEW m, NEW l \in Seq(AllOps), l # << >>, NEW V, NEW P, NEW K, NEW N,
         RankMatch(<< >>, m, l, V, P, K), NEW op, op = Head(l),
         NEW n, NEW root, NEW s, NEW give, NEW wrote, NEW status,
         Entry(m, n, root, op, s, give, wrote, status), NEW got,
         RankValue(<< >>, got, n, l, V, N), NEW g
  PROVE  RankValue(s, g, n, Tail(l), V, N)
  <1> DEFINE L == Len(l)
             k == Tail(l)
             j == L - 1
             c == Record(s, give, wrote, status)
  <1>0. /\ Len(Tail(l)) = Len(l) - 1 /\ Len(l) > 0
        /\ m = V[Len(l)] /\ After(m, op) = V[Len(l) - 1]
    <2>1. /\ Len(l) \in Nat /\ Len(l) > 0 /\ Len(Tail(l)) = Len(l) - 1 /\ op = l[1]
      OBVIOUS
    <2>2. /\ m = V[Len(l)]
          /\ \A i \in 1 .. Len(l) : l[i] = P[Len(l) - i]
          /\ \A i \in 0 .. Len(l) - 1 : V[i] = After(V[i + 1], P[i])
      BY EndModeEmpty DEF RankMatch, History
    <2>3. /\ 1 \in 1 .. Len(l) /\ Len(l) - 1 \in 0 .. Len(l) - 1
          /\ (Len(l) - 1) + 1 = Len(l)
      BY <2>1
    <2>4. op = P[Len(l) - 1]
      BY <2>1, <2>2, <2>3
    <2> QED
      BY <2>1, <2>2, <2>3, <2>4
  <1>1. /\ Len(k) = j /\ L > 0 /\ L \in Nat /\ m = V[L] /\ After(m, op) = V[j]
    <2>1. Len(l) \in Nat
      OBVIOUS
    <2> QED
      BY <1>0, <2>1
  <1>2. /\ CallOK(c, Begun(m, op), n, root) /\ c.steps = s
        /\ op = "begin_indep" => s = << >>
        /\ m = "indep" /\ After(m, op) # "indep" => Has(s, "reduce") /\ Has(s, "adopt")
        /\ Has(s, "grow") => Pending(s)
    BY DEF Entry, Record
  <1> HIDE DEF c, k
  <1>3. /\ V[L] # "indep" => N[L] = n
        /\ \A i \in 0 .. L - 1 : V[i + 1] # "indep" => N[i] = N[i + 1]
    BY DueEmpty DEF RankValue
  <1> HIDE DEF L, j
  <1>4. j \in 0 .. L - 1 /\ j + 1 = L
    BY <1>1 DEF j
  <1>5. m # "indep" => ~Has(s, "adopt")
    BY <1>2, HasEmpty DEF CallOK, SyncOK, Begun
  <1>6. V[j] # "indep" /\ ~Joining(s) => N[j] = Due(s, g, n)
    <2>1. CASE m = "indep"
      BY <1>1, <1>2, <2>1 DEF Joining
    <2>2. CASE m # "indep"
      <3>1. N[j] = N[L] /\ N[L] = n
        BY <1>1, <1>3, <1>4, <2>2
      <3>2. Due(s, g, n) = n
        BY <1>2, <1>5, <2>2 DEF Due
      <3> QED
        BY <3>1, <3>2
    <2> QED
      BY <2>1, <2>2
  <1>7. \A i \in 0 .. j - 1 : i \in 0 .. L - 1
    BY <1>1 DEF j
  <1> QED
    BY <1>1, <1>3, <1>6, <1>7 DEF RankValue, k

LEMMA ValueLead ==
  ASSUME NEW m, NEW V, NEW P, NEW K \in Seq(Meeting), NEW N,
         RankMatch(<< >>, m, << >>, V, P, K),
         NEW n, NEW root, NEW op, NEW s, NEW give, NEW wrote, NEW status,
         Entry(m, n, root, op, s, give, wrote, status), NEW got,
         RankValue(<< >>, got, n, << >>, V, N), NEW g
  PROVE  /\ V[0] # "indep" => N[0] = n
         /\ RankValue(s, g, n, << >>, Shift(V, After(V[0], op)), Shift(N, N[0]))
  <1> DEFINE W == Shift(V, After(V[0], op))
             M == Shift(N, N[0])
             c == Record(s, give, wrote, status)
             empty == << >>
  <1>1. m = V[0] /\ Len(empty) = 0
    BY EndModeEmpty DEF RankMatch
  <1>2. /\ CallOK(c, Begun(m, op), n, root) /\ c.steps = s
        /\ op = "begin_indep" => s = << >>
        /\ m = "indep" /\ After(m, op) # "indep" => Has(s, "reduce") /\ Has(s, "adopt")
        /\ Has(s, "grow") => Pending(s)
    BY DEF Entry, Record
  <1>3. W[0] = After(m, op) /\ M[0] = N[0]
    BY <1>1, ShiftAt
  <1> HIDE DEF c, W, M
  <1>4. V[0] # "indep" => N[0] = n
    BY <1>1, DueEmpty DEF RankValue
  <1>5. m # "indep" => ~Has(s, "adopt")
    BY <1>2, HasEmpty DEF CallOK, SyncOK, Begun
  <1>6. W[0] # "indep" /\ ~Joining(s) => M[0] = Due(s, g, n)
    BY <1>1, <1>2, <1>3, <1>4, <1>5 DEF Joining, Due
  <1>7. RankValue(s, g, n, empty, W, M)
    BY <1>1, <1>6 DEF RankValue
  <1> QED
    BY <1>4, <1>7 DEF W, M

LEMMA ValueLed ==
  ASSUME NEW s, NEW got, NEW n, NEW l \in Seq(AllOps), NEW V, NEW N,
         RankValue(s, got, n, l, V, N), NEW op
  PROVE  RankValue(s, got, n, Append(l, op), Shift(V, After(V[0], op)), Shift(N, N[0]))
  <1> DEFINE L == Len(l)
             k == Append(l, op)
             W == Shift(V, After(V[0], op))
             M == Shift(N, N[0])
  <1>1. L \in Nat /\ Len(k) = L + 1
    OBVIOUS
  <1>2. /\ M[0] = N[0]
        /\ \A j \in Nat : W[j + 1] = V[j] /\ M[j + 1] = N[j]
        /\ \A j \in Nat : j > 0 => M[j] = N[j - 1]
    BY ShiftAt
  <1>3. /\ V[L] # "indep" /\ ~Joining(s) => N[L] = Due(s, got, n)
        /\ \A j \in 0 .. L - 1 : V[j + 1] # "indep" => N[j] = N[j + 1]
    BY DEF RankValue
  <1> HIDE DEF L, k, W, M
  <1>4. M[1] = N[0]
    <2>1. 0 \in Nat /\ 0 + 1 = 1
      OBVIOUS
    <2> QED
      BY <1>2, <2>1
  <1>5. ASSUME NEW j \in 0 .. Len(k) - 1, W[j + 1] # "indep" PROVE M[j] = M[j + 1]
    <2>1. CASE j = 0
      BY <1>2, <1>4, <2>1
    <2>2. CASE j # 0
      <3>1. j \in Nat /\ j > 0 /\ j - 1 \in 0 .. L - 1 /\ (j - 1) + 1 = j
        BY <1>1, <2>2
      <3>2. W[j + 1] = V[j] /\ M[j + 1] = N[j] /\ M[j] = N[j - 1]
        BY <1>2, <3>1
      <3> QED
        BY <1>3, <1>5, <3>1, <3>2
    <2> QED
      BY <2>1, <2>2
  <1>6. W[Len(k)] = V[L] /\ M[Len(k)] = N[L]
    BY <1>1, <1>2
  <1>7. RankValue(s, got, n, k, W, M)
    BY <1>3, <1>5, <1>6 DEF RankValue
  <1> QED
    BY <1>7 DEF k, W, M

(* Ranks that are behind in independent mode are so until the last call.   *)
LEMMA StillIndep ==
  ASSUME NEW l \in Seq(AllOps), NEW V, NEW P, History(l, V, P), V[Len(l)] = "indep",
         l # << >>
  PROVE  V[1] = "indep" /\ (V[0] = "indep" \/ Has(Operations(V[1], P[0]), "reduce"))
  <1> DEFINE L == Len(l)
  <1>1. L \in Nat /\ L >= 1
    OBVIOUS
  <1>2. \A j \in 0 .. L - 1 :
             /\ j > 0 => Operations(V[j + 1], P[j]) = << >>
             /\ V[j + 1] = "indep" /\ V[j] # "indep" => Has(Operations(V[j + 1], P[j]), "reduce")
    BY DEF History
  <1> HIDE DEF L
  <1> DEFINE Q == {i \in 0 .. L - 1 : V[L - i] = "indep"}
             top == L - 1
  <1>3. ASSUME NEW i \in 1 .. top, i - 1 \in Q PROVE i \in Q
    <2>1. /\ L - i \in 0 .. L - 1 /\ L - i > 0 /\ (L - i) + 1 = L - (i - 1)
          /\ i \in 0 .. L - 1
      BY <1>1
    <2>2. V[L - (i - 1)] = "indep"
      BY <1>3
    <2>3. V[L - i] = "indep"
      BY <1>2, <2>1, <2>2, HasEmpty
    <2> QED
      BY <2>1, <2>3
  <1>4. 0 \in Q /\ top \in Nat /\ top \in 0 .. top /\ L - top = 1
    <2>1. L - 0 = L /\ 0 \in 0 .. L - 1
      BY <1>1
    <2>2. V[L] = "indep"
      BY DEF L
    <2>3. 0 \in Q
      BY <2>1, <2>2
    <2> HIDE DEF Q
    <2> QED
      BY <1>1, <2>3
  <1>5. top \in Q
    <2> HIDE DEF Q, top
    <2> QED
      BY <1>3, <1>4, LoopInduction
  <1>6. V[1] = "indep"
    <2>1. V[L - top] = "indep"
      BY <1>5
    <2> HIDE DEF top
    <2> QED
      BY <1>4, <2>1
  <1>7. 0 \in 0 .. L - 1 /\ 0 + 1 = 1
    BY <1>1
  <1> QED
    BY <1>2, <1>6, <1>7
-----------------------------------------------------------------------------
(***************************************************************************)
(* The counts in memory and in the file only grow.                         *)
(***************************************************************************)
NothingDrops ==
    /\ \A r \in Rank : numrecs'[r] >= numrecs[r]
    /\ fileNum' >= fileNum /\ fileNum' <= numrecs'[Root]

LEMMA TakenGrows ==
  ASSUME NEW c \in Call, NEW m, NEW n \in Nat, NEW d \in Call, NEW m2, NEW n2, NEW root,
         Moves(c, m, n, d, m2, n2), SyncOK(c, m, n, root)
  PROVE  n2 >= n
  <1> DEFINE s == c.steps
             h == Head(s)
  <1>1. /\ s \in Seq(Step) /\ s # << >> /\ Ordered(s) /\ n2 = Taken(h, c.got, n)
        /\ Has(s, "adopt") /\ ~Has(s, "reduce") => n <= c.got
        /\ c.got \in Nat
    BY DEF Moves, SyncOK, Call, Count
  <1> HIDE DEF s, h
  <1>2. h = "adopt" => Has(s, "adopt") /\ ~Has(s, "reduce")
    BY <1>1, HasRest DEF h
  <1> QED
    BY <1>1, <1>2 DEF Taken, Bigger

LEMMA LocalCounts ==
  ASSUME Sound, CallsInv, fileNum <= numrecs[Root], NEW r \in Rank, LocalStep(r)
  PROVE  NothingDrops
  <1>1. /\ TypeOK /\ TypeOK' /\ SyncInv /\ Root \in Rank
        /\ SyncOK(call[r], mode[r], numrecs[r], r = Root)
    <2>1. TypeOK /\ SyncInv /\ Root \in Rank
      BY RankAssumption DEF CallsInv, CallsOK, CallOK, SyncInv
    <2>2. [Next]_vars
      BY DEF Next
    <2> QED
      BY <2>1, <2>2, NextPreservesType DEF SyncInv
  <1>2. /\ numrecs \in [Rank -> Count] /\ fileNum \in Nat /\ Count \subseteq Nat
        /\ fileNum' \in Nat /\ \A q \in Rank : numrecs[q] \in Nat /\ numrecs'[q] \in Nat
        /\ call[r] \in Call /\ call'[r] \in Call /\ call[r].got \in Count
    <2>1. Count \subseteq Nat
      BY BoundAssumption DEF Count
    <2>2. /\ numrecs \in [Rank -> Count] /\ fileNum \in Count /\ fileNum' \in Count
          /\ \A q \in Rank : numrecs[q] \in Count /\ numrecs'[q] \in Count
      BY <1>1 DEF TypeOK
    <2>3. call[r] \in Call /\ call'[r] \in Call
      BY <1>1 DEF TypeOK
    <2>4. call[r].got \in Count
      BY <2>3 DEF Call
    <2> QED
      BY <2>1, <2>2, <2>3, <2>4
  <1>2a. call[r].got \in Nat /\ numrecs[r] \in Nat /\ numrecs[r] \in Count
    BY <1>2
  <1>3. At(r, "publish") \/ At(r, "header") => r = Root
    BY <1>1, RootSteps
  <1>4. Alone(r) /\ Moves(call[r], mode[r], numrecs[r], call'[r], mode'[r], numrecs'[r])
    <2>1. ~GivesUp(r)
      BY LocalStatus
    <2> QED
      BY <1>1, <1>3, <2>1, LocalMoves
  <1>5. \A q \in Rank : numrecs'[q] >= numrecs[q]
    <2>1. numrecs'[r] >= numrecs[r]
      <3> DEFINE root == (r = Root)
                 c == call[r]
                 m == mode[r]
                 n == numrecs[r]
                 d == call'[r]
                 m2 == mode'[r]
                 n2 == numrecs'[r]
      <3>1. c \in Call /\ n \in Nat /\ d \in Call /\ Moves(c, m, n, d, m2, n2)
            /\ SyncOK(c, m, n, root)
        BY <1>1, <1>2, <1>4
      <3> HIDE DEF root, c, m, n, d, m2, n2
      <3>2. n2 >= n
        BY <3>1, TakenGrows
      <3> QED
        BY <3>2 DEF n, n2
    <2> QED
      BY <1>2, <1>4, <2>1 DEF Alone
  <1>6. ASSUME NEW n \in Count, NEW result, WriteNumrecs(n, result), n >= numrecs[Root]
        PROVE  fileNum' >= fileNum /\ fileNum' <= numrecs'[Root]
    <2>1. fileNum' = n /\ numrecs'[Root] = n
      BY <1>1, <1>2, <1>6, WriteStores DEF Sound
    <2> QED
      BY <1>1, <1>2, <1>6, <2>1
  <1>7. CASE fileNum' = fileNum
    BY <1>1, <1>2, <1>5, <1>7 DEF NothingDrops
  <1>8. CASE Grow(r)
    <2>1. CASE call[r].got > numrecs[r] /\ r = Root
      <3>1. call[r].got >= numrecs[Root]
        BY <1>2a, <2>1
      <3>2. ~(call[r].got <= numrecs[r])
        BY <1>2a, <2>1
      <3>3. PICK result \in Results : WriteNumrecs(call[r].got, result)
        BY <1>8, <2>1, <3>2 DEF Grow
      <3>4. fileNum' >= fileNum /\ fileNum' <= numrecs'[Root]
        BY <1>2, <1>6, <3>1, <3>3
      <3> QED
        BY <1>5, <3>4 DEF NothingDrops
    <2>2. CASE ~(call[r].got > numrecs[r] /\ r = Root)
      <3>1. call[r].got <= numrecs[r] \/ r # Root
        BY <1>2a, <2>2
      <3>2. fileNum' = fileNum
        BY <1>8, <3>1 DEF Grow
      <3> QED
        BY <1>7, <3>2
    <2> QED
      BY <2>1, <2>2
  <1>9. CASE Publish(r)
    <2> DEFINE n == IF call[r].got > numrecs[r] THEN call[r].got ELSE numrecs[r]
    <2>1. r = Root
      BY <1>3, <1>9 DEF Publish
    <2>2. n \in Count /\ n >= numrecs[Root]
      <3>1. n \in Count
        BY <1>2, <1>2a
      <3>2. n >= numrecs[r]
        BY <1>2a
      <3> QED
        BY <2>1, <3>1, <3>2
    <2>3. \E result \in Results : WriteNumrecs(n, result)
      BY <1>9 DEF Publish
    <2> HIDE DEF n
    <2> QED
      BY <1>5, <1>6, <2>2, <2>3 DEF NothingDrops
  <1>10. CASE Header(r)
    <2>1. r = Root
      BY <1>3, <1>10 DEF Header
    <2>2. fileNum' = numrecs[Root] /\ numrecs' = numrecs
      BY <1>10, <2>1 DEF Header, Sound
    <2> QED
      BY <1>1, <1>2, <1>5, <2>2 DEF NothingDrops
  <1> QED
    BY <1>7, <1>8, <1>9, <1>10 DEF LocalStep, Bcast, Adopt, Check, Leave, EnterDefine,
       Discard, CloseFile, ExitDefine, SwitchMode
-----------------------------------------------------------------------------
(***************************************************************************)
(* The invariant: one history of modes, calls and counts fits all ranks,   *)
(* and its last count covers what has been written, if the waits name every*)
(* pending put.  In independent mode, until its end is reconciled, the     *)
(* memory of some rank covers it.                                          *)
(***************************************************************************)
HeadsFor(c, m, n, l, V, P, K, N) ==
    RankMatch(c.steps, m, l, V, P, K) /\ RankValue(c.steps, c.got, n, l, V, N)

Counted(ns, w, V, K, N) ==
    IF V[0] = "indep" \/ (V[1] = "indep" /\ Has(K, "reduce"))
    THEN \E r \in Rank : Within(w, ns[r])
    ELSE Within(w, N[0])

Targets(V, P, K, N) ==
    /\ V \in [Nat -> Modes] /\ P \in [Nat -> AllOps]
    /\ K \in Seq(Meeting) /\ N \in [Nat -> Count]

Heading ==
    \E V, P, K, N :
      /\ Targets(V, P, K, N)
      /\ \A r \in Rank : HeadsFor(call[r], mode[r], numrecs[r], todo[r], V, P, K, N)
      /\ Counted(numrecs, written, V, K, N)

LEMMA NextHeading ==
  ASSUME NEW V, NEW P, NEW K, NEW N, Targets(V, P, K, N),
         \A r \in Rank : HeadsFor(call'[r], mode'[r], numrecs'[r], todo'[r], V, P, K, N),
         Counted(numrecs', written', V, K, N)
  PROVE  Heading'
  BY DEF Heading

(* All ranks are between two calls, in the same mode and with one count.   *)
LEMMA FreshHeading ==
  ASSUME NEW m \in Modes, m # "indep", NEW n \in Count,
         \A r \in Rank : call'[r].steps = << >> /\ mode'[r] = m /\ numrecs'[r] = n
                         /\ todo'[r] = << >>,
         Within(written', n)
  PROVE  Heading'
  <1> DEFINE V == [j \in Nat |-> m]
             P == [j \in Nat |-> "sync"]
             N == [j \in Nat |-> n]
             K == << >>
  <1>1. Targets(V, P, K, N) /\ V[0] = m /\ N[0] = n /\ V[1] = m /\ Len(K) = 0
    <2>1. "sync" \in AllOps /\ K \in Seq(Meeting)
      BY DEF AllOps
    <2> QED
      BY <2>1 DEF Targets
  <1> HIDE DEF V, P, N
  <1>2. ASSUME NEW c, c.steps = << >>, NEW l, l = << >>
        PROVE  HeadsFor(c, m, n, l, V, P, K, N)
    <2>1. History(l, V, P)
      BY <1>1, <1>2 DEF History
    <2>2. RankMatch(<< >>, m, l, V, P, K)
      BY <1>1, <1>2, <2>1, EndModeEmpty, HasEmpty, MeetsShort DEF RankMatch
    <2>3. RankValue(<< >>, c.got, n, l, V, N)
      BY <1>1, <1>2, DueEmpty DEF RankValue
    <2> QED
      BY <1>2, <2>2, <2>3 DEF HeadsFor
  <1>3. Counted(numrecs', written', V, K, N)
    BY <1>1 DEF Counted
  <1>4. \A r \in Rank : HeadsFor(call'[r], mode'[r], numrecs'[r], todo'[r], V, P, K, N)
    BY <1>2
  <1> QED
    BY <1>1, <1>3, <1>4, NextHeading

LEMMA InitHeading == Init => Heading
  <1> SUFFICES ASSUME Init PROVE Heading
    OBVIOUS
  <1>1. PICK n \in Count : written = n /\ numrecs = [r \in Rank |-> n]
    BY DEF Init
  <1> DEFINE m == "coll"
             V == [j \in Nat |-> m]
             P == [j \in Nat |-> "sync"]
             N == [j \in Nat |-> n]
             K == << >>
  <1>2. /\ Targets(V, P, K, N) /\ V[0] = m /\ N[0] = n /\ V[1] = m /\ Len(K) = 0
        /\ m # "indep" /\ n \in Nat
    <2>1. "sync" \in AllOps /\ K \in Seq(Meeting)
      BY DEF AllOps
    <2> QED
      BY <2>1 DEF Targets, Modes, Count
  <1>3. \A r \in Rank : /\ call[r].steps = << >> /\ mode[r] = m /\ numrecs[r] = n
                        /\ todo[r] = << >>
    BY <1>1 DEF Init, Idle
  <1> HIDE DEF V, P, N, m
  <1>4. ASSUME NEW c, c.steps = << >>, NEW l, l = << >>
        PROVE  HeadsFor(c, m, n, l, V, P, K, N)
    <2>1. History(l, V, P)
      BY <1>2, <1>4 DEF History
    <2>2. RankMatch(<< >>, m, l, V, P, K)
      BY <1>2, <1>4, <2>1, EndModeEmpty, HasEmpty, MeetsShort DEF RankMatch
    <2>3. RankValue(<< >>, c.got, n, l, V, N)
      BY <1>2, <1>4, DueEmpty DEF RankValue
    <2> QED
      BY <1>4, <2>2, <2>3 DEF HeadsFor
  <1>5. Counted(numrecs, written, V, K, N)
    BY <1>1, <1>2 DEF Counted, Within
  <1>6. \A r \in Rank : HeadsFor(call[r], mode[r], numrecs[r], todo[r], V, P, K, N)
    BY <1>3, <1>4
  <1> QED
    BY <1>2, <1>5, <1>6 DEF Heading

(* A step of one rank.                                                     *)
LEMMA LocalHeading ==
  ASSUME Sound, CallsInv, Heading, fileNum <= numrecs[Root], NEW r \in Rank, LocalStep(r)
  PROVE  Heading'
  <1>1. PICK V, P, K, N :
          /\ Targets(V, P, K, N)
          /\ \A q \in Rank : HeadsFor(call[q], mode[q], numrecs[q], todo[q], V, P, K, N)
          /\ Counted(numrecs, written, V, K, N)
    BY DEF Heading
  <1>2. /\ TypeOK /\ TypeOK' /\ CallOK(call[r], mode[r], numrecs[r], r = Root)
        /\ NothingDrops
        /\ At(r, "publish") => r = Root
    <2>1. TypeOK /\ SyncInv
      BY DEF CallsInv, CallsOK, CallOK, SyncInv
    <2>2. [Next]_vars
      BY DEF Next
    <2> QED
      BY <2>1, <2>2, NextPreservesType, LocalCounts, RootSteps DEF CallsInv, CallsOK
  <1>3. Alone(r) /\ Moves(call[r], mode[r], numrecs[r], call'[r], mode'[r], numrecs'[r])
    <2>1. ~GivesUp(r)
      BY LocalStatus
    <2> QED
      BY <1>2, <2>1, LocalMoves
  <1>4. /\ todo' = todo /\ written' = written /\ Head(call[r].steps) \notin Meeting
        /\ \A q \in Rank : numrecs[q] \in Nat /\ numrecs'[q] \in Nat
        /\ written \in Nat /\ call[r] \in Call /\ call'[r] \in Call
    BY <1>2, <1>3 DEF Alone, TypeOK, Count
  <1>5. HeadsFor(call'[r], mode'[r], numrecs'[r], todo[r], V, P, K, N)
    <2> DEFINE root == (r = Root)
               c == call[r]
               m == mode[r]
               n == numrecs[r]
               d == call'[r]
               m2 == mode'[r]
               n2 == numrecs'[r]
               l == todo[r]
    <2>1. /\ c \in Call /\ n \in Nat /\ d \in Call /\ Moves(c, m, n, d, m2, n2)
          /\ CallOK(c, m, n, root) /\ Head(c.steps) \notin Meeting /\ K \in Seq(Meeting)
          /\ HeadsFor(c, m, n, l, V, P, K, N)
      BY <1>1, <1>2, <1>3, <1>4 DEF Targets
    <2> HIDE DEF root, c, m, n, d, m2, n2, l
    <2>2. RankValue(d.steps, d.got, n2, l, V, N)
      BY <2>1, ValueLocal DEF HeadsFor
    <2>3. /\ c.steps \in Seq(Step) /\ c.steps # << >> /\ Ordered(c.steps)
          /\ d.steps = Tail(c.steps) /\ m2 = StepMode(m, Head(c.steps))
      BY <2>1 DEF Moves, CallOK, SyncOK, Call
    <2>4. RankMatch(d.steps, m2, l, V, P, K)
      BY <2>1, <2>3, MatchLocal DEF HeadsFor
    <2> QED
      BY <2>2, <2>4 DEF HeadsFor, d, m2, n2, l
  <1>6. \A q \in Rank : HeadsFor(call'[q], mode'[q], numrecs'[q], todo'[q], V, P, K, N)
    BY <1>1, <1>3, <1>4, <1>5 DEF Alone
  <1>7. Counted(numrecs', written', V, K, N)
    BY <1>1, <1>2, <1>4 DEF Counted, Within, NothingDrops
  <1> QED
    BY <1>1, <1>6, <1>7, NextHeading

(* A put or a wait of one rank in independent mode.                        *)
LEMMA IndepHeading ==
  ASSUME TypeOK, Heading, NEW r \in Rank, NEW j \in Count, NEW k \in Count,
         IndepWrite(r, j, k), Within(k, j)
  PROVE  Heading'
  <1>1. PICK V, P, K, N :
          /\ Targets(V, P, K, N)
          /\ \A q \in Rank : HeadsFor(call[q], mode[q], numrecs[q], todo[q], V, P, K, N)
          /\ Counted(numrecs, written, V, K, N)
    BY DEF Heading
  <1>2. /\ mode[r] = "indep" /\ call[r].steps = << >>
        /\ call' = call /\ mode' = mode /\ todo' = todo
        /\ written' = IF k > written THEN k ELSE written
        /\ numrecs'[r] = IF j > numrecs[r] THEN j ELSE numrecs[r]
        /\ \A q \in Rank \ {r} : numrecs'[q] = numrecs[q]
        /\ \A q \in Rank : numrecs[q] \in Nat
        /\ written \in Nat /\ j \in Nat /\ k \in Nat /\ todo[r] \in Seq(AllOps)
    BY BoundAssumption DEF IndepWrite, InCall, TypeOK, Count
  <1>3. /\ RankMatch(<< >>, mode[r], todo[r], V, P, K)
        /\ RankValue(<< >>, call[r].got, numrecs[r], todo[r], V, N)
    BY <1>1, <1>2 DEF HeadsFor
  <1>4. V[Len(todo[r])] = "indep" /\ History(todo[r], V, P)
    BY <1>2, <1>3, EndModeEmpty DEF RankMatch
  <1>5. V[0] = "indep" \/ (V[1] = "indep" /\ Has(K, "reduce"))
    <2>1. CASE todo[r] = << >>
      <3>1. Len(todo[r]) = 0
        BY <2>1
      <3> QED
        BY <1>4, <3>1
    <2>2. CASE todo[r] # << >>
      BY <1>2, <1>3, <1>4, <2>2, StillIndep DEF RankMatch
    <2> QED
      BY <2>1, <2>2
  <1>6. PICK q \in Rank : Within(written, numrecs[q])
    BY <1>1, <1>5 DEF Counted
  <1>7. \E p \in Rank : Within(written', numrecs'[p])
    <2>1. CASE k > written
      <3>1. Within(written', numrecs'[r])
        BY <1>2, <2>1 DEF Within
      <3> QED
        BY <3>1
    <2>2. CASE ~(k > written)
      <3>1. numrecs'[q] >= numrecs[q] /\ written' = written
        BY <1>2, <2>2
      <3>2. numrecs[q] \in Nat /\ numrecs'[q] \in Nat
        BY <1>2
      <3>3. Within(written', numrecs'[q])
        BY <1>2, <1>6, <3>1, <3>2 DEF Within
      <3> QED
        BY <3>3
    <2> QED
      BY <2>1, <2>2
  <1>8. Counted(numrecs', written', V, K, N)
    BY <1>5, <1>7 DEF Counted
  <1>9. RankValue(<< >>, call[r].got, numrecs'[r], todo[r], V, N)
    BY <1>3, <1>4 DEF RankValue
  <1>10. HeadsFor(call[r], mode[r], numrecs'[r], todo[r], V, P, K, N)
    BY <1>2, <1>3, <1>9 DEF HeadsFor
  <1>11. \A p \in Rank : HeadsFor(call'[p], mode'[p], numrecs'[p], todo'[p], V, P, K, N)
    BY <1>1, <1>2, <1>10
  <1> QED
    BY <1>1, <1>8, <1>11, NextHeading

(* What a new call leaves covered.                                         *)
LEMMA CountedLead ==
  ASSUME NEW ns, NEW w, NEW V, NEW N, Counted(ns, w, V, << >>, N), NEW M, NEW op,
         NEW r \in Rank, V[0] # "indep" => N[0] = ns[r], ns[r] \in Nat, w \in Nat,
         V[0] = "indep" /\ After(V[0], op) # "indep" => Has(M, "reduce")
  PROVE  Counted(ns, w, Shift(V, After(V[0], op)), M, Shift(N, N[0]))
  <1> DEFINE W == Shift(V, After(V[0], op))
             X == Shift(N, N[0])
  <1>1. W[0] = After(V[0], op) /\ X[0] = N[0] /\ W[1] = V[0]
    <2>1. /\ W[0] = After(V[0], op) /\ X[0] = N[0]
          /\ \A j \in Nat : W[j + 1] = V[j]
      <3>1. W[0] = After(V[0], op) /\ \A j \in Nat : W[j + 1] = V[j]
        <4> DEFINE y == After(V[0], op)
        <4> HIDE DEF y
        <4>1. Shift(V, y)[0] = y /\ \A j \in Nat : Shift(V, y)[j + 1] = V[j]
          BY ShiftAt
        <4> QED
          BY <4>1 DEF y
      <3>2. X[0] = N[0]
        BY ShiftAt
      <3> QED
        BY <3>1, <3>2
    <2>2. 0 \in Nat /\ 0 + 1 = 1
      OBVIOUS
    <2> HIDE DEF W, X
    <2> QED
      BY <2>1, <2>2
  <1> HIDE DEF W, X
  <1>2. Counted(ns, w, W, M, X)
    <2>1. CASE V[0] = "indep"
      BY <1>1, <2>1 DEF Counted
    <2>2. CASE V[0] # "indep"
      <3>1. Within(w, N[0]) /\ Within(w, ns[r])
        BY <2>2, HasEmpty DEF Counted
      <3> QED
        BY <1>1, <2>2, <3>1 DEF Counted
    <2> QED
      BY <2>1, <2>2
  <1> QED
    BY <1>2 DEF W, X

(* A rank makes a call.                                                    *)
LEMMA MakesHeading ==
  ASSUME Sound, TypeOK, Heading, NEW r \in Rank, MakeCall(r)
  PROVE  Heading'
  <1>1. PICK V, P, K, N :
          /\ Targets(V, P, K, N)
          /\ \A q \in Rank : HeadsFor(call[q], mode[q], numrecs[q], todo[q], V, P, K, N)
          /\ Counted(numrecs, written, V, K, N)
    BY DEF Heading
  <1>2. PICK op, s, give, wrote, status : Makes(r, op, s, give, wrote, status)
    BY CallMakes DEF Called
  <1> DEFINE c == call[r]
             m == mode[r]
             n == numrecs[r]
             d == call'[r]
             root == (r = Root)
  <1>3. /\ c.steps = << >> /\ d.steps = s
        /\ mode'[r] = Begun(m, op) /\ numrecs' = numrecs /\ written' = written
        /\ \A q \in Rank \ {r} : call'[q] = call[q] /\ mode'[q] = mode[q]
    BY <1>2, EnterMoves
  <1>4. /\ Entry(m, n, root, op, s, give, wrote, status)
        /\ op \in AllOps /\ (Follows(r, op) \/ Leads(r, op))
        /\ RankMatch(<< >>, m, todo[r], V, P, K) /\ RankValue(<< >>, c.got, n, todo[r], V, N)
    BY <1>1, <1>2, <1>3 DEF Makes, Enter, HeadsFor, Sound
  <1>5. /\ todo \in [Rank -> Seq(AllOps)] /\ n \in Nat /\ written \in Nat
        /\ K \in Seq(Meeting) /\ V \in [Nat -> Modes] /\ P \in [Nat -> AllOps]
        /\ N \in [Nat -> Count] /\ 0 \in Nat /\ \A q \in Rank : todo[q] \in Seq(AllOps)
    <2>1. todo \in [Rank -> Seq(AllOps)] /\ numrecs \in [Rank -> Count] /\ written \in Count
      BY DEF TypeOK
    <2>2. Count \subseteq Nat
      BY DEF Count
    <2>3. \A q \in Rank : todo[q] \in Seq(AllOps)
      BY <2>1
    <2>4. n \in Nat /\ written \in Nat
      BY <2>1, <2>2
    <2>5. /\ K \in Seq(Meeting) /\ V \in [Nat -> Modes] /\ P \in [Nat -> AllOps]
          /\ N \in [Nat -> Count] /\ 0 \in Nat
      BY <1>1 DEF Targets
    <2> QED
      BY <2>1, <2>3, <2>4, <2>5
  <1> HIDE DEF c, m, d, root, n
  <1>6. CASE Follows(r, op)
    <2> DEFINE l == todo[r]
    <2>1. /\ l # << >> /\ op = Head(l) /\ l \in Seq(AllOps)
          /\ todo'[r] = Tail(l) /\ \A q \in Rank \ {r} : todo'[q] = todo[q]
      BY <1>5, <1>6 DEF Follows
    <2>2. RankMatch(<< >>, m, l, V, P, K) /\ RankValue(<< >>, c.got, n, l, V, N)
      BY <1>4
    <2> HIDE DEF l
    <2>3. /\ RankMatch(s, Begun(m, op), Tail(l), V, P, K)
          /\ RankValue(s, d.got, n, Tail(l), V, N)
      BY <1>4, <2>1, <2>2, MatchFollow, ValueFollow
    <2>4. HeadsFor(call'[r], mode'[r], numrecs'[r], todo'[r], V, P, K, N)
      BY <1>3, <2>1, <2>3 DEF HeadsFor, d, n
    <2>5. \A q \in Rank : HeadsFor(call'[q], mode'[q], numrecs'[q], todo'[q], V, P, K, N)
      BY <1>1, <1>3, <2>1, <2>4
    <2>6. Counted(numrecs', written', V, K, N)
      BY <1>1, <1>3
    <2> QED
      BY <1>1, <2>5, <2>6, NextHeading
  <1>7. CASE Leads(r, op)
    <2> DEFINE W == Shift(V, After(V[0], op))
               Q == Shift(P, op)
               X == Shift(N, N[0])
               M == Operations(V[0], op)
    <2>1. /\ todo[r] = << >> /\ todo'[r] = << >>
          /\ \A q \in Rank \ {r} : todo'[q] = Append(todo[q], op)
      BY <1>7 DEF Leads
    <2>2. RankMatch(<< >>, m, << >>, V, P, K) /\ RankValue(<< >>, c.got, n, << >>, V, N)
      BY <1>4, <2>1
    <2>3. /\ K = << >> /\ V[0] # "closed" /\ M \in Seq(Meeting)
          /\ V[0] = "indep" /\ After(V[0], op) # "indep" => Has(M, "reduce")
          /\ RankMatch(s, Begun(m, op), << >>, W, Q, M)
      BY <1>4, <1>5, <2>2, MatchLead
    <2>4. /\ V[0] # "indep" => N[0] = n
          /\ RankValue(s, d.got, n, << >>, W, X)
      BY <1>4, <1>5, <2>2, ValueLead
    <2>5. Targets(W, Q, M, X)
      <3>1. V[0] \in Modes /\ N[0] \in Count
        BY <1>5
      <3>2. After(V[0], op) \in Modes
        BY <3>1 DEF After, Modes
      <3> HIDE DEF M
      <3>3. W \in [Nat -> Modes] /\ Q \in [Nat -> AllOps] /\ X \in [Nat -> Count]
        BY <1>4, <1>5, <3>1, <3>2, ShiftAt
      <3> QED
        BY <2>3, <3>3 DEF Targets
    <2>6. Counted(numrecs, written, W, M, X)
      <3>1. numrecs[r] \in Nat /\ (V[0] # "indep" => N[0] = numrecs[r])
        BY <1>5, <2>4 DEF n
      <3>2. Counted(numrecs, written, V, << >>, N)
        BY <1>1, <2>3
      <3> HIDE DEF M
      <3> QED
        BY <1>5, <2>3, <3>1, <3>2, CountedLead
    <2>7. ASSUME NEW q \in Rank \ {r}
          PROVE  HeadsFor(call[q], mode[q], numrecs[q], Append(todo[q], op), W, Q, M, X)
      <3> DEFINE cq == call[q]
                 mq == mode[q]
                 nq == numrecs[q]
                 lq == todo[q]
      <3>1. /\ lq \in Seq(AllOps) /\ RankMatch(cq.steps, mq, lq, V, P, << >>)
            /\ RankValue(cq.steps, cq.got, nq, lq, V, N)
        BY <1>1, <1>5, <2>3 DEF HeadsFor
      <3> HIDE DEF cq, mq, nq, lq
      <3>2. RankMatch(cq.steps, mq, Append(lq, op), W, Q, M)
        BY <2>3, <3>1, MatchLed
      <3>3. RankValue(cq.steps, cq.got, nq, Append(lq, op), W, X)
        BY <3>1, ValueLed
      <3> QED
        BY <3>2, <3>3 DEF HeadsFor, cq, mq, nq, lq
    <2> HIDE DEF W, Q, X, M
    <2>8. HeadsFor(call'[r], mode'[r], numrecs'[r], todo'[r], W, Q, M, X)
      BY <1>3, <2>1, <2>3, <2>4 DEF HeadsFor, d, n
    <2>9. \A q \in Rank : HeadsFor(call'[q], mode'[q], numrecs'[q], todo'[q], W, Q, M, X)
      BY <1>3, <2>1, <2>7, <2>8
    <2>10. Counted(numrecs', written', W, M, X)
      BY <1>3, <2>6
    <2> QED
      BY <2>5, <2>9, <2>10, NextHeading
  <1> QED
    BY <1>4, <1>6, <1>7

(* An operation that all ranks take.                                       *)
LEMMA PlainMoves ==
  ASSUME TypeOK, NEW r \in Rank, NEW x \in {"agree", "barrier"}, At(r, x),
         call'[r] = Advance(call[r]), mode' = mode, numrecs' = numrecs
  PROVE  Moves(call[r], mode[r], numrecs[r], call'[r], mode'[r], numrecs'[r])
  <1> DEFINE c == call[r]
             d == call'[r]
             h == Head(c.steps)
  <1>1. c \in Call /\ c.steps # << >> /\ h = x /\ d = Advance(c)
    BY DEF TypeOK, At, InCall
  <1> HIDE DEF c, d
  <1>2. /\ d.steps = Tail(c.steps)
        /\ d.steps # << >> => d.give = c.give /\ d.wrote = c.wrote /\ d.got = c.got
    BY <1>1, AdvanceCall
  <1>3. StepMode(mode[r], h) = mode[r] /\ Taken(h, c.got, numrecs[r]) = numrecs[r]
    BY <1>1 DEF StepMode, Taken
  <1> QED
    BY <1>1, <1>2, <1>3 DEF Moves, c, d

LEMMA MaxMoves ==
  ASSUME TypeOK, NEW r \in Rank, NEW x \in {"reduce", "vote"}, At(r, x),
         NEW g \in Count, call[r].give <= g,
         call'[r] = Advance([call[r] EXCEPT !.got = g]), mode' = mode, numrecs' = numrecs
  PROVE  /\ Moves(call[r], mode[r], numrecs[r], call'[r], mode'[r], numrecs'[r])
         /\ call'[r].steps # << >> => call'[r].got = g
  <1> DEFINE c == call[r]
             e == [call[r] EXCEPT !.got = g]
             d == call'[r]
             h == Head(c.steps)
  <1>1. /\ c \in Call /\ c.steps # << >> /\ h = x /\ d = Advance(e) /\ c.give <= g
        /\ e \in Call /\ e.steps = c.steps /\ e.give = c.give /\ e.wrote = c.wrote /\ e.got = g
    BY DEF TypeOK, At, InCall, Call
  <1> HIDE DEF c, d, e
  <1>2. /\ d.steps = Tail(c.steps)
        /\ d.steps # << >> => d.give = c.give /\ d.wrote = c.wrote /\ d.got = g
    BY <1>1, AdvanceCall
  <1>3. StepMode(mode[r], h) = mode[r] /\ Taken(h, c.got, numrecs[r]) = numrecs[r]
    BY <1>1 DEF StepMode, Taken
  <1> QED
    BY <1>1, <1>2, <1>3 DEF Moves, c, d

(* What a rank in a collective operation heads for.                        *)
LEMMA AtMeeting ==
  ASSUME CallsInv, NEW r \in Rank, NEW x \in Meeting, At(r, x),
         NEW V, NEW P, NEW K, NEW N, Targets(V, P, K, N),
         HeadsFor(call[r], mode[r], numrecs[r], todo[r], V, P, K, N)
  PROVE  /\ todo[r] = << >> /\ K # << >> /\ Head(K) = x
         /\ call[r] \in Call /\ call[r].steps \in Seq(Step) /\ call[r].steps # << >>
         /\ Head(call[r].steps) = x /\ Ordered(call[r].steps)
         /\ CallOK(call[r], mode[r], numrecs[r], r = Root)
         /\ numrecs[r] \in Nat
         /\ RankMatch(call[r].steps, mode[r], << >>, V, P, K)
         /\ RankValue(call[r].steps, call[r].got, numrecs[r], << >>, V, N)
         /\ RankMatch(Tail(call[r].steps), StepMode(mode[r], x), << >>, V, P, Tail(K))
         /\ Has(K, x)
  <1> DEFINE s == call[r].steps
             m == mode[r]
             l == todo[r]
  <1>1. /\ call[r] \in Call /\ s \in Seq(Step) /\ s # << >> /\ Head(s) = x
        /\ CallOK(call[r], mode[r], numrecs[r], r = Root) /\ Ordered(s)
        /\ numrecs[r] \in Nat /\ K \in Seq(Meeting)
        /\ RankMatch(s, m, l, V, P, K)
        /\ RankValue(s, call[r].got, numrecs[r], l, V, N)
    BY DEF CallsInv, TypeOK, CallsOK, CallOK, SyncOK, Call, Count, At, InCall, Targets,
       HeadsFor
  <1> HIDE DEF s, m, l
  <1>2. /\ l = << >> /\ K # << >> /\ Head(K) = x
        /\ RankMatch(Tail(s), StepMode(m, x), l, V, P, Tail(K))
    BY <1>1, MatchMeeting
  <1>3. Has(K, x)
    BY <1>1, <1>2, HasTail
  <1> QED
    BY <1>1, <1>2, <1>3 DEF s, m, l

(* Agree and Barrier.                                                      *)
LEMMA PlainHeading ==
  ASSUME CallsInv, Heading, NEW x \in {"agree", "barrier"}, AllAt(x),
         \A r \in Rank : call'[r] = Advance(call[r]),
         mode' = mode, numrecs' = numrecs, todo' = todo, written' = written
  PROVE  Heading'
  <1>1. PICK V, P, K, N :
          /\ Targets(V, P, K, N)
          /\ \A q \in Rank : HeadsFor(call[q], mode[q], numrecs[q], todo[q], V, P, K, N)
          /\ Counted(numrecs, written, V, K, N)
    BY DEF Heading
  <1>2. /\ TypeOK /\ x \in Meeting /\ x # "reduce" /\ K \in Seq(Meeting)
        /\ Root \in Rank
    BY <1>1, RankAssumption DEF CallsInv, Meeting, Targets
  <1>3. ASSUME NEW r \in Rank
        PROVE  /\ HeadsFor(call'[r], mode'[r], numrecs'[r], todo'[r], V, P, Tail(K), N)
               /\ K # << >> /\ Head(K) = x
    <2> DEFINE c == call[r]
               m == mode[r]
               n == numrecs[r]
               d == call'[r]
               m2 == mode'[r]
               n2 == numrecs'[r]
               l == todo[r]
    <2>1. At(r, x)
      BY DEF AllAt
    <2>2. Moves(c, m, n, d, m2, n2) /\ d \in Call
      <3>1. Advance(call[r]) \in Call
        BY <1>2, <2>1, AdvanceCall DEF TypeOK, At, InCall
      <3> QED
        BY <1>2, <2>1, <3>1, PlainMoves
    <2>3. /\ l = << >> /\ K # << >> /\ Head(K) = x
          /\ c \in Call /\ Ordered(c.steps) /\ Head(c.steps) = x
          /\ RankValue(c.steps, c.got, n, << >>, V, N)
          /\ RankMatch(Tail(c.steps), StepMode(m, x), << >>, V, P, Tail(K))
      BY <1>1, <1>2, <2>1, AtMeeting
    <2> HIDE DEF c, m, n, d, m2, n2, l
    <2>4. RankValue(d.steps, d.got, n2, << >>, V, N)
      <3>1. /\ c \in Call /\ d \in Call /\ Moves(c, m, n, d, m2, n2) /\ Ordered(c.steps)
            /\ Head(c.steps) \in Plain
        BY <2>2, <2>3 DEF Plain
      <3>2. \A k : RankValue(c.steps, c.got, n, k, V, N) => RankValue(d.steps, d.got, n2, k, V, N)
        BY <3>1, ValueMeeting
      <3> QED
        BY <2>3, <3>2
    <2>5. d.steps = Tail(c.steps) /\ m2 = StepMode(m, x)
      BY <2>2, <2>3 DEF Moves
    <2>6. HeadsFor(d, m2, n2, l, V, P, Tail(K), N)
      BY <2>3, <2>4, <2>5 DEF HeadsFor
    <2> QED
      BY <2>3, <2>6 DEF d, m2, n2, l
  <1>4. K # << >> /\ Head(K) = x
    BY <1>2, <1>3
  <1>5. Has(Tail(K), "reduce") <=> Has(K, "reduce")
    BY <1>2, <1>4, HasTail
  <1>6. Counted(numrecs', written', V, Tail(K), N)
    BY <1>1, <1>5 DEF Counted
  <1>7. Tail(K) \in Seq(Meeting)
    BY <1>2, <1>4
  <1>8. Targets(V, P, Tail(K), N)
    BY <1>1, <1>7 DEF Targets
  <1> QED
    BY <1>3, <1>6, <1>8, NextHeading

(* All ranks return from a call that writes, since one failed or nobody    *)
(* has anything to write.                                                  *)
LEMMA QuitHeading ==
  ASSUME CallsInv, Heading, NEW x \in Meeting, AllAt(x),
         NEW f \in Rank, Has(call[f].steps, "grow"), Pending(call[f].steps),
         \A r \in Rank : call'[r] = Idle,
         mode' = mode, numrecs' = numrecs, todo' = todo, written' = written
  PROVE  Heading'
  <1>1. PICK V, P, K, N :
          /\ Targets(V, P, K, N)
          /\ \A q \in Rank : HeadsFor(call[q], mode[q], numrecs[q], todo[q], V, P, K, N)
          /\ Counted(numrecs, written, V, K, N)
    BY DEF Heading
  <1>2. K \in Seq(Meeting) /\ \A r \in Rank : At(r, x)
    BY <1>1 DEF Targets, AllAt
  <1>3. V[1] # "indep" /\ (Has(K, "reduce") \/ Has(K, "vote"))
    <2> DEFINE s == call[f].steps
               m == mode[f]
               empty == << >>
    <2>1. RankMatch(s, m, empty, V, P, K) /\ Quiet(s) /\ Pending(s)
      BY <1>1, <1>2, AtMeeting DEF CallOK
    <2> HIDE DEF s, m
    <2>2. /\ Has(s, "reduce") <=> Has(K, "reduce")
          /\ Has(s, "vote") <=> Has(K, "vote")
          /\ Has(s, "reduce") => (Has(s, "adopt") <=> V[1] = "indep")
          /\ Has(s, "vote") => V[1] # "indep"
      BY <1>2, <2>1, SharedOperations
    <2>3. ~Has(s, "adopt")
      BY <2>1 DEF Quiet
    <2> QED
      BY <2>1, <2>2, <2>3 DEF Pending
  <1>4. ASSUME NEW r \in Rank
        PROVE  /\ HeadsFor(call'[r], mode'[r], numrecs'[r], todo'[r], V, P, << >>, N)
               /\ V[0] = "coll"
    <2> DEFINE c == call[r]
               m == mode[r]
               n == numrecs[r]
               s == c.steps
               root == (r = Root)
               got == c.got
    <2>1. /\ todo[r] = << >> /\ c \in Call /\ c.steps = s /\ CallOK(c, m, n, root)
          /\ RankMatch(s, m, << >>, V, P, K) /\ RankValue(s, got, n, << >>, V, N)
      BY <1>1, <1>2, AtMeeting
    <2> HIDE DEF c, m, n, s, root, got
    <2>2. \A g : /\ RankMatch(<< >>, m, << >>, V, P, << >>)
                 /\ RankValue(<< >>, g, n, << >>, V, N)
                 /\ V[0] = "coll"
      BY <1>2, <1>3, <2>1, QuitTogether
    <2>3. call'[r] = Idle /\ Idle.steps = << >> /\ mode'[r] = m /\ numrecs'[r] = n
          /\ todo'[r] = << >>
      BY <2>1 DEF Idle, m, n
    <2> QED
      BY <2>2, <2>3 DEF HeadsFor
  <1>5. Counted(numrecs', written', V, << >>, N)
    <2>1. V[0] = "coll"
      BY <1>4
    <2> QED
      BY <1>1, <1>3, <2>1 DEF Counted
  <1>6. Targets(V, P, << >>, N)
    <2>1. << >> \in Seq(Meeting)
      OBVIOUS
    <2> QED
      BY <1>1, <2>1 DEF Targets
  <1> QED
    BY <1>4, <1>5, <1>6, NextHeading

(* What TakeMax does: g is the result, w the history of what is written.   *)
LEMMA MaxTaken ==
  ASSUME TypeOK, TakeMax
  PROVE  \E g \in Count, w \in Count :
           /\ \A r \in Rank : /\ call[r].give <= g
                              /\ call'[r] = Advance([call[r] EXCEPT !.got = g])
           /\ \E r \in Rank : g = call[r].give
           /\ written' = w /\ (w = written \/ \E r \in Rank : w = call[r].wrote)
  <1>1. PICK g \in Count :
          /\ MaxOf({call[r].give : r \in Rank}, g)
          /\ call' = [r \in Rank |-> Advance([call[r] EXCEPT !.got = g])]
    BY DEF TakeMax
  <1>2. PICK w \in Count :
          /\ MaxOf({written} \cup {call[r].wrote : r \in Rank}, w)
          /\ written' = w
    BY DEF TakeMax
  <1>3. /\ \A r \in Rank : call[r].give <= g
        /\ \E r \in Rank : g = call[r].give
    BY <1>1 DEF MaxOf
  <1>4. w = written \/ \E r \in Rank : w = call[r].wrote
    BY <1>2 DEF MaxOf
  <1>5. \A r \in Rank : call'[r] = Advance([call[r] EXCEPT !.got = g])
    BY <1>1
  <1> QED
    BY <1>2, <1>3, <1>4, <1>5

(* Reduce and the vote that goes on.                                       *)
LEMMA MaxHeading ==
  ASSUME CallsInv, Heading, NEW x \in {"reduce", "vote"}, AllAt(x), TakeMax,
         mode' = mode, numrecs' = numrecs, todo' = todo
  PROVE  Heading'
  <1>1. PICK V, P, K, N :
          /\ Targets(V, P, K, N)
          /\ \A q \in Rank : HeadsFor(call[q], mode[q], numrecs[q], todo[q], V, P, K, N)
          /\ Counted(numrecs, written, V, K, N)
    BY DEF Heading
  <1>2. /\ TypeOK /\ x \in Meeting /\ Root \in Rank /\ K \in Seq(Meeting)
        /\ \A r \in Rank : At(r, x)
        /\ N \in [Nat -> Count] /\ Count \subseteq Nat /\ 0 \in Nat
        /\ written \in Nat /\ \A r \in Rank : numrecs[r] \in Nat
    <2>1. TypeOK /\ Root \in Rank /\ x \in Meeting
      BY RankAssumption DEF CallsInv, Meeting
    <2>2. K \in Seq(Meeting) /\ N \in [Nat -> Count]
      BY <1>1 DEF Targets
    <2>3. \A r \in Rank : At(r, x)
      BY DEF AllAt
    <2>4. Count \subseteq Nat /\ 0 \in Nat
      BY DEF Count
    <2>5. written \in Count /\ \A r \in Rank : numrecs[r] \in Count
      BY <2>1 DEF TypeOK
    <2> QED
      BY <2>1, <2>2, <2>3, <2>4, <2>5
  <1>3. PICK g \in Count, w \in Count :
           /\ \A r \in Rank : /\ call[r].give <= g
                              /\ call'[r] = Advance([call[r] EXCEPT !.got = g])
           /\ \E r \in Rank : g = call[r].give
           /\ written' = w /\ (w = written \/ \E r \in Rank : w = call[r].wrote)
    BY <1>2, MaxTaken
  <1>4. ASSUME NEW r \in Rank
        PROVE  /\ todo[r] = << >> /\ K # << >> /\ Head(K) = x /\ Has(K, x)
               /\ call[r] \in Call /\ Head(call[r].steps) = x
               /\ CallOK(call[r], mode[r], numrecs[r], r = Root)
               /\ RankMatch(call[r].steps, mode[r], << >>, V, P, K)
               /\ RankValue(call[r].steps, call[r].got, numrecs[r], << >>, V, N)
               /\ RankMatch(Tail(call[r].steps), StepMode(mode[r], x), << >>, V, P, Tail(K))
               /\ call'[r] \in Call
               /\ Moves(call[r], mode[r], numrecs[r], call'[r], mode'[r], numrecs'[r])
               /\ call'[r].steps # << >> => call'[r].got = g
    <2>1. At(r, x) /\ call[r].give <= g
          /\ call'[r] = Advance([call[r] EXCEPT !.got = g])
      BY <1>2, <1>3
    <2>2. call[r] \in Call /\ call[r].steps # << >>
      BY <1>2, <2>1 DEF TypeOK, At, InCall
    <2>3. call'[r] \in Call
      <3> DEFINE e == [call[r] EXCEPT !.got = g]
      <3>1. e \in Call /\ e.steps # << >>
        BY <2>2 DEF Call
      <3> HIDE DEF e
      <3>2. Advance(e) \in Call
        BY <3>1, AdvanceCall
      <3> QED
        BY <2>1, <3>2 DEF e
    <2> QED
      BY <1>1, <1>2, <2>1, <2>3, AtMeeting, MaxMoves, SMTT(60)
  <1> DEFINE high == IF V[1] = "indep" THEN g ELSE Bigger(g, N[0])
             N2 == [N EXCEPT ![0] = high]
             T == Tail(K)
  <1>5. /\ N2 \in [Nat -> Count] /\ N2[0] = high /\ K # << >> /\ Head(K) = x /\ Has(K, x)
        /\ T \in Seq(Meeting)
    <2>1. high \in Count /\ K # << >> /\ Head(K) = x /\ Has(K, x)
      BY <1>2, <1>4 DEF Bigger
    <2> QED
      BY <1>2, <2>1
  <1> HIDE DEF high, N2
  <1>6. /\ V[1] = "indep" => high = g
        /\ V[1] # "indep" => high = Bigger(g, N[0])
    BY DEF high
  <1>7. ASSUME NEW r \in Rank
        PROVE  /\ HeadsFor(call'[r], mode'[r], numrecs'[r], todo'[r], V, P, T, N2)
               /\ V[1] = "indep" => /\ call[r].give = numrecs[r] /\ call[r].wrote = 0
                                    /\ Has(K, "reduce") /\ ~Has(T, "reduce")
               /\ V[1] # "indep" => /\ Within(call[r].wrote, call[r].give) /\ N[0] = numrecs[r]
                                    /\ V[0] = "coll"
    <2> DEFINE c == call[r]
               m == mode[r]
               n == numrecs[r]
               d == call'[r]
               m2 == mode'[r]
               n2 == numrecs'[r]
               l == todo[r]
               root == (r = Root)
               empty == << >>
    <2>1. /\ l = << >> /\ c \in Call /\ d \in Call /\ n \in Nat /\ Head(c.steps) = x
          /\ CallOK(c, m, n, root) /\ Moves(c, m, n, d, m2, n2)
          /\ RankMatch(c.steps, m, << >>, V, P, K) /\ RankValue(c.steps, c.got, n, << >>, V, N)
          /\ RankMatch(Tail(c.steps), StepMode(m, x), << >>, V, P, T)
          /\ d.steps # << >> => d.got = g
      BY <1>2, <1>4
    <2> HIDE DEF c, m, n, d, m2, n2, l, root
    <2>2. d.steps = Tail(c.steps) /\ m2 = StepMode(m, x)
      BY <2>1 DEF Moves
    <2>3. RankMatch(d.steps, m2, empty, V, P, T)
      BY <2>1, <2>2
    <2>4. CASE V[1] = "indep"
      <3>1. /\ RankValue(d.steps, d.got, n2, << >>, V, N2)
            /\ c.give = n /\ c.wrote = 0 /\ Has(K, "reduce") /\ ~Has(d.steps, "reduce")
        <4> DEFINE s == c.steps
        <4>1. N2[0] = g /\ g \in Nat /\ K \in Seq(Meeting)
              /\ Head(c.steps) \in Reducing
          BY <1>2, <1>5, <1>6, <2>1, <2>4 DEF Reducing
        <4>2. RankValue(d.steps, d.got, n2, << >>, V, N2)
          BY <2>1, <2>4, <4>1, ValueAdopt
        <4>3. /\ s \in Seq(Step) /\ s # << >> /\ Ordered(s) /\ Head(s) \in Reducing
              /\ c.steps = s /\ RankMatch(s, m, << >>, V, P, K)
          BY <2>1, <4>1 DEF Moves, CallOK, SyncOK, Call
        <4> HIDE DEF s
        <4>4. /\ Head(s) = "reduce" /\ Has(K, "reduce") /\ c.give = n /\ c.wrote = 0
          BY <2>1, <2>4, <4>1, <4>3, AllAdopt
        <4>5. ~Has(Tail(s), "reduce")
          BY <4>3, <4>4, HasRest
        <4> QED
          BY <2>2, <4>2, <4>3, <4>4, <4>5
      <3>2. Has(d.steps, "reduce") <=> Has(T, "reduce")
        BY <1>5, <2>3, SharedOperations
      <3>3. HeadsFor(d, m2, n2, l, V, P, T, N2)
        BY <2>1, <2>3, <3>1 DEF HeadsFor
      <3> QED
        BY <2>1, <2>4, <3>1, <3>2, <3>3 DEF c, n, d, m2, n2, l
    <2>5. CASE V[1] # "indep"
      <3>1. N2[0] = Bigger(g, N[0])
        BY <1>5, <1>6, <2>5
      <3>2. RankValue(d.steps, d.got, n2, << >>, V, N2)
        <4>1. g \in Nat /\ K \in Seq(Meeting) /\ Head(c.steps) \in Reducing
          BY <1>2, <2>1 DEF Reducing
        <4> QED
          BY <2>1, <2>5, <3>1, <4>1, ValueGrow
      <3>3. V[0] = "coll" /\ N[0] = n /\ Within(c.wrote, c.give)
        <4> DEFINE s == c.steps
        <4>1. Has(K, "reduce") \/ Has(K, "vote")
          BY <1>5
        <4>2. /\ c.steps = s /\ RankMatch(s, m, << >>, V, P, K)
              /\ RankValue(s, c.got, n, << >>, V, N)
          BY <2>1
        <4> HIDE DEF s
        <4> QED
          BY <1>2, <2>1, <2>5, <4>1, <4>2, AllGrow
      <3>4. HeadsFor(d, m2, n2, l, V, P, T, N2)
        BY <2>1, <2>3, <3>2 DEF HeadsFor
      <3> QED
        BY <2>1, <2>5, <3>2, <3>3, <3>4 DEF c, n, d, m2, n2, l
    <2> QED
      BY <2>4, <2>5
  <1> HIDE DEF T
  <1>8. Counted(numrecs', written', V, T, N2)
    <2>1. CASE V[1] = "indep"
      <3>1. w <= written
        BY <1>2, <1>3, <1>7, <2>1
      <3>2. PICK q \in Rank : Within(written, numrecs[q])
        BY <1>1, <1>2, <1>7, <2>1 DEF Counted
      <3>3. Within(w, numrecs[q]) /\ Within(w, g)
        <4>1. call[q].give = numrecs[q] /\ call[q].give <= g
          BY <1>3, <1>7, <2>1
        <4>2. numrecs[q] \in Nat /\ written \in Nat /\ w \in Nat /\ g \in Nat
          BY <1>2, BoundAssumption DEF CallsInv, TypeOK, Count
        <4> QED
          BY <3>1, <3>2, <4>1, <4>2 DEF Within
      <3>4. ~Has(T, "reduce") /\ N2[0] = g
        BY <1>2, <1>5, <1>6, <1>7, <2>1
      <3> QED
        BY <1>3, <3>3, <3>4 DEF Counted
    <2>2. CASE V[1] # "indep"
      <3>1. V[0] = "coll"
        BY <1>2, <1>7, <2>2
      <3>2. Within(written, N[0])
        BY <1>1, <2>2, <3>1 DEF Counted
      <3>3. N2[0] = Bigger(g, N[0]) /\ N[0] \in Nat
        BY <1>2, <1>5, <1>6, <2>2
      <3>4. Within(w, Bigger(g, N[0]))
        <4>1. CASE w = written
          BY <1>2, <3>2, <3>3, <4>1 DEF Bigger, Within
        <4>2. ASSUME NEW r \in Rank, w = call[r].wrote PROVE Within(w, Bigger(g, N[0]))
          <5>1. Within(call[r].wrote, call[r].give) /\ call[r].give <= g
            BY <1>3, <1>7, <2>2
          <5>2. call[r].wrote \in Nat /\ call[r].give \in Nat
            BY <1>2, <1>4 DEF Call
          <5> QED
            BY <1>2, <3>3, <4>2, <5>1, <5>2 DEF Bigger, Within
        <4> QED
          BY <1>3, <4>1, <4>2
      <3> QED
        BY <1>3, <2>2, <3>1, <3>3, <3>4 DEF Counted
    <2> QED
      BY <2>1, <2>2
  <1>9. Targets(V, P, T, N2)
    BY <1>1, <1>5 DEF Targets
  <1> QED
    BY <1>7, <1>8, <1>9, NextHeading

(* Outside independent mode, and once its end is reconciled, the last count*)
(* is the one every rank is due, however far behind.                       *)
LEMMA LastCount ==
  ASSUME NEW s, NEW m, NEW n, NEW got, NEW l \in Seq(AllOps), NEW V, NEW P,
         NEW K \in Seq(Meeting), NEW N,
         RankMatch(s, m, l, V, P, K), RankValue(s, got, n, l, V, N),
         V[0] # "indep", ~(V[1] = "indep" /\ Has(K, "reduce"))
  PROVE  N[0] = Due(s, got, n) /\ (m = "closed" /\ s = << >> => l = << >>)
  <1> DEFINE L == Len(l)
             Q == {i \in 0 .. L : V[i] # "indep" /\ N[i] = N[0]}
  <1>1. L \in Nat /\ (L = 0 <=> l = << >>)
    OBVIOUS
  <1>2. /\ \A j \in 0 .. L - 1 :
             /\ V[j + 1] # "closed"
             /\ j > 0 => Operations(V[j + 1], P[j]) = << >>
             /\ V[j + 1] = "indep" /\ V[j] # "indep" => Has(Operations(V[j + 1], P[j]), "reduce")
             /\ V[j + 1] # "indep" => N[j] = N[j + 1]
        /\ l # << >> => K = Operations(V[1], P[0])
        /\ EndMode(m, s) = V[L]
    BY DEF RankMatch, RankValue, History
  <1>3. 0 \in Q
    BY <1>1
  <1>4. ASSUME NEW i \in 1 .. L, i - 1 \in Q PROVE i \in Q
    <2>1. i - 1 \in 0 .. L - 1 /\ (i - 1) + 1 = i /\ i \in 0 .. L
      BY <1>1
    <2>2. V[i - 1] # "indep" /\ N[i - 1] = N[0]
      BY <1>4
    <2>3. V[i] # "indep"
      <3>1. CASE i - 1 > 0
        BY <1>2, <2>1, <2>2, <3>1, HasEmpty
      <3>2. CASE ~(i - 1 > 0)
        <4>1. i = 1 /\ i - 1 = 0 /\ l # << >>
          BY <1>1, <2>1, <3>2
        <4> QED
          BY <1>2, <2>1, <2>2, <4>1
      <3> QED
        BY <3>1, <3>2
    <2>4. N[i] = N[0]
      BY <1>2, <2>1, <2>2, <2>3
    <2> QED
      BY <2>1, <2>3, <2>4
  <1>5. L \in Q
    <2> HIDE DEF L, Q
    <2>1. L \in 0 .. L
      BY <1>1
    <2> QED
      BY <1>1, <1>3, <1>4, <2>1, LoopInduction
  <1>6. V[L] # "indep" /\ N[L] = N[0]
    BY <1>5
  <1>7. ~Joining(s)
    <2>1. CASE l = << >>
      BY <2>1, SharedOperations DEF Joining
    <2>2. CASE l # << >>
      <3>1. Meets(s, << >>) /\ "reduce" \in Meeting
        BY <2>2 DEF RankMatch, Meeting
      <3> QED
        BY <3>1, NoMeeting DEF Joining
    <2> QED
      BY <2>1, <2>2
  <1>8. N[L] = Due(s, got, n)
    BY <1>6, <1>7 DEF RankValue
  <1>9. ASSUME m = "closed", s = << >>, l # << >> PROVE FALSE
    <2>1. L - 1 \in 0 .. L - 1 /\ (L - 1) + 1 = L
      BY <1>1, <1>9
    <2>2. V[L] = "closed"
      BY <1>2, <1>9, EndModeEmpty
    <2> QED
      BY <1>2, <2>1, <2>2
  <1> QED
    BY <1>6, <1>8, <1>9

(* A rank that has closed the file has no call left to make.               *)
LEMMA ClosedIsLast ==
  ASSUME NEW l \in Seq(AllOps), NEW V, NEW P, NEW K \in Seq(Meeting),
         RankMatch(<< >>, "closed", l, V, P, K)
  PROVE  l = << >> /\ V[0] = "closed" /\ K = << >>
  <1> DEFINE L == Len(l)
             m == "closed"
             s == << >>
  <1>1. L \in Nat /\ (L = 0 <=> l = << >>)
    OBVIOUS
  <1>2. RankMatch(s, m, l, V, P, K)
    OBVIOUS
  <1> HIDE DEF m, s
  <1>3. V[L] = EndMode(m, s) /\ (l = << >> => Meets(s, K))
        /\ \A j \in 0 .. L - 1 : V[j + 1] # "closed"
    BY <1>2 DEF RankMatch, History
  <1>4. V[L] = "closed"
    BY <1>3, EndModeEmpty DEF m, s
  <1>5. l = << >>
    <2> SUFFICES ASSUME l # << >> PROVE FALSE
      OBVIOUS
    <2>1. L - 1 \in 0 .. L - 1 /\ (L - 1) + 1 = L
      BY <1>1
    <2> QED
      BY <1>3, <1>4, <2>1
  <1>6. L = 0
    BY <1>1, <1>5
  <1> HIDE DEF L
  <1> QED
    BY <1>3, <1>4, <1>5, <1>6, MeetsEmpty DEF s

-----------------------------------------------------------------------------
(* The invariant of a run in which nothing fails at some ranks only.       *)
HeadInv ==
    /\ CallsInv /\ HeaderInv /\ ~told
    /\ fileNum <= numrecs[Root]
    /\ Heading

(* All ranks have closed the file: the header says what they knew.         *)
LEMMA ClosedCounts ==
  ASSUME HeadInv, \A r \in Rank : mode[r] = "closed" /\ ~InCall(r)
  PROVE  Within(written, fileNum) /\ \A r \in Rank : numrecs[r] = fileNum
  <1>1. PICK V, P, K, N :
          /\ Targets(V, P, K, N)
          /\ \A q \in Rank : HeadsFor(call[q], mode[q], numrecs[q], todo[q], V, P, K, N)
          /\ Counted(numrecs, written, V, K, N)
    BY DEF HeadInv, Heading
  <1>2. /\ K \in Seq(Meeting) /\ Root \in Rank
        /\ \A r \in Rank : todo[r] \in Seq(AllOps)
        /\ fileNum = numrecs[Root]
    BY <1>1, RankAssumption DEF Targets, HeadInv, HeaderInv, TypeOK, Settled, CurrentOrTold
  <1>3. ASSUME NEW r \in Rank
        PROVE  V[0] = "closed" /\ K = << >> /\ numrecs[r] = N[0]
    <2> DEFINE l == todo[r]
               n == numrecs[r]
               got == call[r].got
    <2>1. /\ RankMatch(<< >>, "closed", l, V, P, K) /\ RankValue(<< >>, got, n, l, V, N)
          /\ l \in Seq(AllOps)
      BY <1>1, <1>2 DEF HeadsFor, InCall
    <2> HIDE DEF l, n, got
    <2>2. V[0] = "closed" /\ K = << >> /\ l = << >> /\ Len(<< >>) = 0
      BY <1>2, <2>1, ClosedIsLast
    <2>3. N[0] = n
      BY <2>1, <2>2, DueEmpty DEF RankValue
    <2> QED
      BY <2>2, <2>3 DEF n
  <1>4. Within(written, N[0])
    BY <1>1, <1>2, <1>3, HasEmpty DEF Counted
  <1> QED
    BY <1>2, <1>3, <1>4

(* The collective steps.                                                   *)
LEMMA MeetHeading ==
  ASSUME HeadInv, Meet
  PROVE  Heading'
  <1>1. CallsInv /\ Heading /\ Root \in Rank
    BY RankAssumption DEF HeadInv
  <1>2. \A r \in Rank : CallOK(call[r], mode[r], numrecs[r], r = Root)
    BY <1>1 DEF CallsInv, CallsOK
  <1>3. CASE Agree
    <2>1. "agree" \in Meeting /\ AllAt("agree")
      BY <1>3 DEF Meeting, Agree
    <2>2. ASSUME NEW f \in Rank, Failed(f) PROVE Heading'
      <3>1. Has(call[f].steps, "grow") /\ Pending(call[f].steps)
        BY <1>2, <2>2 DEF CallOK, Failed
      <3>2. \A r \in Rank : call'[r] = Idle
        BY <1>3, <2>2 DEF Agree
      <3> QED
        BY <1>1, <1>3, <2>1, <3>1, <3>2, QuitHeading DEF Agree
    <2>3. CASE \A r \in Rank : ~Failed(r)
      <3>1. \A r \in Rank : call'[r] = Advance(call[r])
        BY <1>3, <2>3 DEF Agree
      <3> QED
        BY <1>1, <1>3, <2>1, <3>1, PlainHeading DEF Agree
    <2> QED
      BY <2>2, <2>3
  <1>4. CASE Barrier
    <2>1. \A r \in Rank : call'[r] = Advance(call[r])
      BY <1>4 DEF Barrier
    <2> QED
      BY <1>1, <1>4, <2>1, PlainHeading DEF Barrier
  <1>5. CASE Reduce
    BY <1>1, <1>5, MaxHeading DEF Reduce
  <1>6. CASE Vote
    <2>1. CASE TakeMax
      BY <1>1, <1>6, <2>1, MaxHeading DEF Vote
    <2>2. CASE call' = [r \in Rank |-> Idle] /\ UNCHANGED written
      <3>1. "vote" \in Meeting /\ AllAt("vote")
        BY <1>6 DEF Meeting, Vote
      <3>2. Has(call[Root].steps, "vote")
        <4>1. call[Root].steps \in Seq(Step) /\ call[Root].steps # << >>
              /\ Head(call[Root].steps) = "vote"
          BY <1>1, <3>1 DEF CallsInv, TypeOK, Call, AllAt, At, InCall
        <4> QED
          BY <4>1, HasTail
      <3>3. Has(call[Root].steps, "grow") /\ Pending(call[Root].steps)
        BY <1>1, <1>2, <3>2 DEF CallOK, Pending
      <3>4. \A r \in Rank : call'[r] = Idle
        BY <2>2
      <3> QED
        BY <1>1, <1>6, <2>2, <3>1, <3>3, <3>4, QuitHeading DEF Vote
    <2> QED
      BY <1>6, <2>1, <2>2 DEF Vote
  <1>7. CASE Open
    <2>1. Within(written, fileNum)
      BY <1>7, ClosedCounts DEF Open
    <2> DEFINE m == "coll"
    <2>2. \A r \in Rank : /\ call'[r].steps = << >> /\ mode'[r] = m /\ numrecs'[r] = fileNum
                          /\ todo'[r] = << >>
      BY <1>7 DEF Open, InCall
    <2>3. m \in Modes /\ m # "indep" /\ fileNum \in Count /\ Within(written', fileNum)
      BY <1>1, <1>7, <2>1 DEF Modes, CallsInv, TypeOK, Open
    <2> HIDE DEF m
    <2> QED
      BY <2>2, <2>3, FreshHeading
  <1> QED
    BY <1>3, <1>4, <1>5, <1>6, <1>7 DEF Meet

(* The other steps change no count, or raise one rank's.                   *)
LEMMA NextCounts ==
  ASSUME Sound
  PROVE  HeadInv /\ [Next]_vars => NothingDrops
  <1> SUFFICES ASSUME HeadInv, [Next]_vars PROVE NothingDrops
    OBVIOUS
  <1>1. /\ TypeOK /\ Root \in Rank /\ fileNum <= numrecs[Root] /\ fileNum \in Nat
        /\ CallsInv /\ \A r \in Rank : numrecs[r] \in Nat
    BY RankAssumption DEF HeadInv, CallsInv, TypeOK, Count
  <1>2. CASE numrecs' = numrecs /\ fileNum' = fileNum
    BY <1>1, <1>2 DEF NothingDrops
  <1>3. CASE Meet
    <2>1. CASE Open
      <3>1. \A r \in Rank : numrecs[r] = fileNum
        BY <2>1, ClosedCounts DEF Open
      <3>2. fileNum' = fileNum /\ \A r \in Rank : numrecs'[r] = fileNum
        BY <2>1 DEF Open
      <3> QED
        BY <1>1, <3>1, <3>2 DEF NothingDrops
    <2> QED
      BY <1>2, <1>3, <2>1 DEF Meet, Agree, Reduce, Vote, Barrier
  <1>4. ASSUME NEW r \in Rank, MakeCall(r) PROVE NothingDrops
    BY <1>1, <1>2, <1>4, CallMakes, EnterMoves DEF Called
  <1>5. ASSUME NEW r \in Rank, LocalStep(r) PROVE NothingDrops
    BY <1>1, <1>5, LocalCounts
  <1>6. ASSUME NEW r \in Rank, NEW k \in Count, NEW w, IndepWrite(r, k, w) PROVE NothingDrops
    <2>1. /\ numrecs'[r] = IF k > numrecs[r] THEN k ELSE numrecs[r]
          /\ \A q \in Rank \ {r} : numrecs'[q] = numrecs[q]
          /\ fileNum' = fileNum /\ k \in Nat
      BY <1>1, <1>6, BoundAssumption DEF IndepWrite, TypeOK, Count
    <2>2. \A q \in Rank : numrecs'[q] >= numrecs[q] /\ numrecs'[q] \in Nat
      BY <1>1, <2>1
    <2> QED
      BY <1>1, <2>1, <2>2 DEF NothingDrops
  <1>7. CASE UNCHANGED vars
    BY <1>2, <1>7 DEF vars
  <1> QED
    BY <1>3, <1>4, <1>5, <1>6, <1>7, NextCases

LEMMA InitHead == Init => HeadInv
  <1>1. Init => fileNum <= numrecs[Root]
    BY RankAssumption DEF Init, Count
  <1> QED
    BY <1>1, InitCalls, InitHeader, InitHeading DEF HeadInv, Init

LEMMA NextHead ==
  ASSUME Sound
  PROVE  HeadInv /\ [Next]_vars => HeadInv'
  <1> SUFFICES ASSUME HeadInv, [Next]_vars PROVE HeadInv'
    OBVIOUS
  <1>1. CallsInv /\ TypeOK /\ HeaderInv /\ ~told /\ fileNum <= numrecs[Root] /\ Heading
    BY DEF HeadInv, CallsInv
  <1>2. CallsInv' /\ HeaderInv' /\ ~told'
    <2>1. "unreported" \notin Faults
      BY DEF Sound
    <2> QED
      BY <1>1, <2>1, NextCalls, NextHeader, NextUntold DEF Sound
  <1>3. fileNum' <= numrecs'[Root]
    BY NextCounts DEF NothingDrops
  <1>4. Heading'
    <2>1. CASE UNCHANGED vars
      BY <1>1, <2>1 DEF vars, Heading
    <2> QED
      BY <1>1, <2>1, MeetHeading, MakesHeading, LocalHeading, IndepHeading, NextCases
  <1> QED
    BY <1>2, <1>3, <1>4 DEF HeadInv

LEMMA AlwaysHeading ==
  ASSUME Sound
  PROVE  Spec => []HeadInv
  BY InitHead, NextHead, PTL DEF Spec

(* Collective MPI operations match, whatever calls the ranks make and      *)
(* however far one runs ahead, when all ranks take the steps of the call   *)
(* they are in: two ranks waiting in one are at the same operation of the  *)
(* same call (CollectivesMatch; the calls of the ncmpio driver).           *)
THEOREM OperationsMatch ==
  ASSUME Faults = {}, MaxRecs <= HeaderLimit, SafeMode \/ ~BadArgs, ~FillFails
  PROVE  Spec => []CollectivesMatch
  <1>1. HeadInv => CollectivesMatch
    <2> SUFFICES ASSUME HeadInv, NEW q \in Rank, NEW r \in Rank,
                        NEW m \in Meeting, NEW n \in Meeting, At(q, m), At(r, n)
                 PROVE  m = n /\ Len(todo[q]) = Len(todo[r])
      BY DEF CollectivesMatch
    <2>1. PICK V, P, K, N :
            /\ Targets(V, P, K, N)
            /\ \A p \in Rank : HeadsFor(call[p], mode[p], numrecs[p], todo[p], V, P, K, N)
      BY DEF HeadInv, Heading
    <2>2. todo[q] = << >> /\ Head(K) = m /\ todo[r] = << >> /\ Head(K) = n
      BY <2>1, AtMeeting DEF HeadInv
    <2> QED
      BY <2>2
  <1>2. Sound
    BY DEF Sound, SameSteps
  <1> QED
    BY <1>1, <1>2, AlwaysHeading, PTL

(* "In collective data mode, header (including numrecs) is always sync-ed  *)
(* in memory": ranks that have returned from the same call agree on the    *)
(* count (CollectiveAgree).                                                *)
THEOREM CountsAgree ==
  ASSUME Faults = {}, MaxRecs <= HeaderLimit, SafeMode \/ ~BadArgs, ~FillFails
  PROVE  Spec => []CollectiveAgree
  <1>1. HeadInv => CollectiveAgree
    <2> SUFFICES ASSUME HeadInv, NEW q \in Rank, NEW r \in Rank, ~InCall(q), ~InCall(r),
                        Len(todo[q]) = Len(todo[r]), mode[q] # "indep", mode[r] # "indep"
                 PROVE  numrecs[q] = numrecs[r]
      BY DEF CollectiveAgree
    <2>1. PICK V, P, K, N :
            \A p \in Rank : HeadsFor(call[p], mode[p], numrecs[p], todo[p], V, P, K, N)
      BY DEF HeadInv, Heading
    <2>2. ASSUME NEW p \in Rank, ~InCall(p), mode[p] # "indep"
          PROVE  N[Len(todo[p])] = numrecs[p]
      <3>1. /\ RankMatch(<< >>, mode[p], todo[p], V, P, K)
            /\ RankValue(<< >>, call[p].got, numrecs[p], todo[p], V, N)
        BY <2>1, <2>2 DEF HeadsFor, InCall
      <3>2. V[Len(todo[p])] = mode[p]
        BY <3>1, EndModeEmpty DEF RankMatch
      <3> QED
        BY <2>2, <3>1, <3>2, DueEmpty DEF RankValue
    <2> QED
      BY <2>2
  <1>2. Sound
    BY DEF Sound, SameSteps
  <1> QED
    BY <1>1, <1>2, AlwaysHeading, PTL

(* If every wait names all the pending puts of its rank, so that its scan  *)
(* of the queue misses none, the record of every successful write stays    *)
(* covered, by the header, by a rank's memory or by a result a rank is to  *)
(* take over: no order of closing, leaving independent mode and writing    *)
(* loses one (NothingLost).                                                *)
THEOREM RecordsAreKept ==
  ASSUME Faults = {}, MaxRecs <= HeaderLimit, SafeMode \/ ~BadArgs, ~FillFails,
         ~PartialWaits
  PROVE  Spec => []NothingLost
  <1>1. HeadInv => NothingLost
    <2> SUFFICES ASSUME HeadInv PROVE NothingLost
      OBVIOUS
    <2>1. PICK V, P, K, N :
          /\ Targets(V, P, K, N)
          /\ \A q \in Rank : HeadsFor(call[q], mode[q], numrecs[q], todo[q], V, P, K, N)
          /\ Counted(numrecs, written, V, K, N)
      BY DEF HeadInv, Heading
    <2>2. /\ K \in Seq(Meeting) /\ Root \in Rank
          /\ \A r \in Rank : /\ todo[r] \in Seq(AllOps) /\ numrecs[r] \in Nat
                             /\ CallOK(call[r], mode[r], numrecs[r], r = Root)
                             /\ call[r].got \in Nat
          /\ written \in Nat
      BY <2>1, RankAssumption DEF Targets, HeadInv, CallsInv, CallsOK, TypeOK, Count, Call
    <2>3. ASSUME NEW r \in Rank, mode[r] = "closed"
          PROVE  V[0] = "closed" /\ K = << >> /\ call[r].steps = << >>
      <3> DEFINE l == todo[r]
      <3>1. call[r].steps = << >>
        BY <2>2, <2>3 DEF CallOK
      <3>2. RankMatch(<< >>, "closed", l, V, P, K) /\ l \in Seq(AllOps)
        BY <2>1, <2>2, <2>3, <3>1 DEF HeadsFor
      <3> HIDE DEF l
      <3> QED
        BY <2>2, <3>1, <3>2, ClosedIsLast
    <2>4. CASE V[0] = "indep" \/ (V[1] = "indep" /\ Has(K, "reduce"))
      <3>1. PICK r \in Rank : numrecs[r] >= written
        BY <2>1, <2>2, <2>4 DEF Counted, Within
      <3>2. mode[r] # "closed"
        BY <2>3, <2>4, HasEmpty
      <3> QED
        BY <3>1, <3>2 DEF NothingLost
    <2>5. CASE V[0] # "indep" /\ ~(V[1] = "indep" /\ Has(K, "reduce"))
      <3> DEFINE s == call[Root].steps
                 m == mode[Root]
                 n == numrecs[Root]
                 got == call[Root].got
                 l == todo[Root]
      <3>1. written <= N[0]
        BY <2>1, <2>5 DEF Counted, Within
      <3>2. RankMatch(s, m, l, V, P, K) /\ RankValue(s, got, n, l, V, N) /\ l \in Seq(AllOps)
        BY <2>1, <2>2 DEF HeadsFor
      <3>3. /\ Has(s, "adopt") => m # "closed"
            /\ Has(s, "grow") => m # "closed"
            /\ m = "closed" => s = << >>
            /\ n \in Nat /\ got \in Nat
        <4>1. CallOK(call[Root], mode[Root], numrecs[Root], TRUE)
          BY <2>2
        <4> QED
          BY <2>2, <4>1 DEF CallOK, SyncOK
      <3>4. m = "closed" => fileNum = n
        BY DEF HeadInv, HeaderInv, Settled, CurrentOrTold
      <3> HIDE DEF s, m, n, got, l
      <3>5. N[0] = Due(s, got, n)
        BY <2>2, <2>5, <3>2, LastCount
      <3>6. \/ Has(s, "adopt") /\ written <= got
            \/ Has(s, "grow") /\ (written <= got \/ written <= n)
            \/ written <= n
        BY <3>1, <3>3, <3>5 DEF Due, Bigger
      <3>7. (Has(s, "adopt") \/ Has(s, "grow")) => InCall(Root)
        BY HasEmpty DEF InCall, s
      <3>8. \/ written <= fileNum
            \/ m # "closed" /\ (n >= written \/ (InCall(Root) /\ got >= written))
        BY <2>2, <3>3, <3>4, <3>6, <3>7
      <3> QED
        BY <2>2, <3>8 DEF NothingLost, m, n, got
    <2> QED
      BY <2>4, <2>5
  <1>2. Sound
    BY DEF Sound, SameSteps
  <1> QED
    BY <1>1, <1>2, AlwaysHeading, PTL

(* No step makes the count in the file or in the memory of a rank drop,    *)
(* ncmpi_open included: every rank that closed the file knew no more       *)
(* records than its header says (CountsOnlyGrow).                          *)
THEOREM CountsNeverDrop ==
  ASSUME Faults = {}, MaxRecs <= HeaderLimit, SafeMode \/ ~BadArgs, ~FillFails
  PROVE  Spec => CountsOnlyGrow
  <1>1. Sound
    BY DEF Sound, SameSteps
  <1>2. HeadInv /\ [Next]_vars =>
          [fileNum' >= fileNum /\ \A r \in Rank : numrecs'[r] >= numrecs[r]]_vars
    BY <1>1, NextCounts DEF NothingDrops
  <1> QED
    BY <1>1, <1>2, AlwaysHeading, PTL DEF Spec, CountsOnlyGrow
=============================================================================
