----------------------------- MODULE LoopLemmas -----------------------------
(***************************************************************************)
(* Facts the proofs need of the natural numbers and of functions that are  *)
(* computed by a loop, for every number of rounds.  Induction is used in   *)
(* the form of the least counterexample, which needs no operator parameter.*)
(***************************************************************************)
EXTENDS Integers, TLAPS, WellFoundedInduction

(* A set of numbers that is not empty has a least member. *)
LEMMA LeastNat ==
  ASSUME NEW T, T \subseteq Nat, T # {}
  PROVE  \E x \in T : \A y \in T : x <= y
  <1> DEFINE R == OpToRel(<, Nat)
  <1>1. \E x \in T : \A y \in T : ~(<<y, x>> \in R)
    BY NatLessThanWellFounded, WFMin, Zenon
  <1>2. \A x, y \in Nat : x < y => <<x, y>> \in R
    BY DEF OpToRel
  <1> HIDE DEF R
  <1>3. PICK x \in T : \A y \in T : ~(<<y, x>> \in R)
    BY <1>1
  <1>4. ASSUME NEW y \in T PROVE x <= y
    <2>1. x \in Nat /\ y \in Nat
      OBVIOUS
    <2>2. ~(y < x)
      BY <1>2, <1>3, <2>1
    <2> QED
      BY <2>1, <2>2
  <1> QED
    BY <1>4

(***************************************************************************)
(* A loop has a result: for any body G, starting value a and number of     *)
(* rounds n there is a function F whose value at i is what i rounds yield. *)
(***************************************************************************)
LEMMA Iterate ==
  ASSUME NEW S, NEW a \in S, NEW n \in Nat, NEW G \in [1 .. n -> [S -> S]]
  PROVE  \E F \in [0 .. n -> S] : /\ F[0] = a
                                  /\ \A i \in 1 .. n : F[i] = G[i][F[i - 1]]
  <1> DEFINE Good(m) == \E F \in [0 .. m -> S] : 
                           /\ F[0] = a
                           /\ \A i \in 1 .. m : F[i] = G[i][F[i - 1]]
             Bad == {m \in 0 .. n : ~Good(m)}
  <1>1. Bad = {}
    <2> SUFFICES ASSUME Bad # {} PROVE FALSE
      OBVIOUS
    <2>1. PICK m \in Bad : \A k \in Bad : m <= k
      <3>1. Bad \subseteq Nat
        OBVIOUS
      <3> HIDE DEF Bad
      <3> QED
        BY <3>1, LeastNat
    <2>2. Good(0)
      <3> WITNESS [i \in 0 .. 0 |-> a] \in [0 .. 0 -> S]
      <3> QED
        OBVIOUS
    <2>3. m - 1 \in 0 .. n /\ m \in 1 .. n /\ Good(m - 1)
      <3>1. m \in Nat /\ m <= n /\ ~Good(m)
        OBVIOUS
      <3>2. m # 0
        BY <2>2, <3>1
      <3>3. m - 1 \in 0 .. n /\ m \in 1 .. n /\ m - 1 < m
        BY <3>1, <3>2
      <3>4. m - 1 \notin Bad
        <4> HIDE DEF Bad
        <4> QED
          BY <2>1, <3>3
      <3> HIDE DEF Good
      <3> QED
        BY <3>3, <3>4
    <2>4. PICK F \in [0 .. m - 1 -> S] : /\ F[0] = a
                           /\ \A i \in 1 .. m - 1 : F[i] = G[i][F[i - 1]]
      BY <2>3
    <2> DEFINE H == [i \in 0 .. m |-> IF i = m THEN G[m][F[m - 1]] ELSE F[i]]
    <2>5. H \in [0 .. m -> S]
      BY <2>3
    <2>6. H[0] = a
      BY <2>3, <2>4
    <2>7. ASSUME NEW i \in 1 .. m PROVE H[i] = G[i][H[i - 1]]
      <3>1. CASE i = m
        <4>1. m \in 0 .. m /\ m - 1 \in 0 .. m /\ m - 1 # m
          BY <2>3
        <4>2. H[m] = G[m][F[m - 1]] /\ H[m - 1] = F[m - 1]
          BY <4>1
        <4> HIDE DEF H
        <4> QED
          BY <3>1, <4>2
      <3>2. CASE i # m
        BY <3>2, <2>3, <2>4
      <3> QED
        BY <3>1, <3>2
    <2>8. Good(m)
      BY <2>5, <2>6, <2>7
    <2> QED
      BY <2>1, <2>8
  <1>2. Good(n)
    <2> HIDE DEF Good
    <2> QED
      BY <1>1
  <1> QED
    BY <1>2

(* What holds before a loop and is kept by each round holds after any      *)
(* number of rounds; P is the set of rounds after which it holds.          *)
LEMMA LoopInduction ==
  ASSUME NEW n \in Nat, NEW P, 0 \in P, \A i \in 1 .. n : i - 1 \in P => i \in P
  PROVE  \A i \in 0 .. n : i \in P
  <1> DEFINE Bad == {i \in 0 .. n : i \notin P}
  <1>1. SUFFICES ASSUME Bad # {} PROVE FALSE
    OBVIOUS
  <1>2. PICK m \in Bad : \A k \in Bad : m <= k
    <2>1. Bad \subseteq Nat
      OBVIOUS
    <2> HIDE DEF Bad
    <2> QED
      BY <1>1, <2>1, LeastNat
  <1>3. m \in 1 .. n
    <2>1. m # 0
      OBVIOUS
    <2> QED
      BY <2>1
  <1>4. m - 1 \in 0 .. n /\ ~(m <= m - 1)
    BY <1>3
  <1>5. m - 1 \in P
    <2>1. m - 1 \notin Bad
      <3> HIDE DEF Bad
      <3> QED
        BY <1>2, <1>4
    <2> QED
      BY <1>4, <2>1
  <1> QED
    BY <1>3, <1>5

(* A set of numbers with a bound has a largest member. *)
LEMMA LargestNat ==
  ASSUME NEW S, S \subseteq Nat, S # {}, NEW b \in Nat, \A x \in S : x <= b
  PROVE  \E m \in S : \A x \in S : x <= m
  <1> DEFINE T == {k \in Nat : b - k \in S}
  <1>1. PICK x \in S : TRUE
    OBVIOUS
  <1>2. b - x \in T
    <2>1. x \in Nat /\ x <= b
      BY <1>1
    <2>2. b - x \in Nat /\ b - (b - x) = x
      BY <2>1
    <2> QED
      BY <2>2
  <1>3. PICK k \in T : \A j \in T : k <= j
    <2>1. T \subseteq Nat /\ T # {}
      BY <1>2
    <2> HIDE DEF T
    <2> QED
      BY <2>1, LeastNat
  <1>4. \A y \in S : y <= b - k
    <2> SUFFICES ASSUME NEW y \in S PROVE y <= b - k
      OBVIOUS
    <2>1. y \in Nat /\ y <= b
      OBVIOUS
    <2>2. b - y \in Nat /\ b - (b - y) = y
      BY <2>1
    <2>3. b - y \in T
      BY <2>2
    <2>4. k <= b - y /\ k \in Nat
      BY <1>3, <2>3
    <2> QED
      BY <2>1, <2>4
  <1>5. b - k \in S
    BY <1>3
  <1> QED
    BY <1>4, <1>5

(* A sum that is computed by a loop. *)
LEMMA RunningSum ==
  ASSUME NEW k \in Nat, NEW f, \A i \in 1 .. k : f[i] \in Nat
  PROVE  LET T == CHOOSE t : t = [i \in 0 .. k |-> IF i = 0 THEN 0 ELSE t[i - 1] + f[i]]
         IN  /\ T \in [0 .. k -> Nat]
             /\ T[0] = 0
             /\ \A i \in 1 .. k : T[i] = T[i - 1] + f[i]
  <1> DEFINE G == [i \in 1 .. k |-> [s \in Nat |-> s + f[i]]]
             Loop(t) == [i \in 0 .. k |-> IF i = 0 THEN 0 ELSE t[i - 1] + f[i]]
             T == CHOOSE t : t = Loop(t)
  <1>1. k \in Nat /\ \A i \in 1 .. k : f[i] \in Nat
    OBVIOUS
  <1>3. G \in [1 .. k -> [Nat -> Nat]]
    BY <1>1
  <1>4. \E t \in [0 .. k -> Nat] : t = Loop(t)
    <2> HIDE DEF G
    <2>1. PICK t \in [0 .. k -> Nat] : /\ t[0] = 0
                                       /\ \A i \in 1 .. k : t[i] = G[i][t[i - 1]]
      <3> DEFINE S == Nat
                 a == 0
      <3>1. k \in Nat /\ a \in S /\ G \in [1 .. k -> [S -> S]]
        BY <1>1, <1>3
      <3> HIDE DEF Loop, T, S, a
      <3>2. \E t \in [0 .. k -> S] : t[0] = a /\ \A i \in 1 .. k : t[i] = G[i][t[i - 1]]
        BY <3>1, Iterate
      <3> QED
        BY <3>2 DEF S, a
    <2>2. ASSUME NEW i \in 0 .. k, i # 0
          PROVE  G[i][t[i - 1]] = t[i - 1] + f[i]
      <3>1. i \in 1 .. k /\ t[i - 1] \in Nat
        BY <1>1, <2>2
      <3> QED
        BY <3>1 DEF G
    <2>3. \A i \in 0 .. k : t[i] = IF i = 0 THEN 0 ELSE t[i - 1] + f[i]
      <3>1. \A i \in 0 .. k : i = 0 \/ i \in 1 .. k
        BY <1>1
      <3> QED
        BY <2>1, <2>2, <3>1
    <2>4. t = Loop(t)
      BY <2>3
    <2> QED
      BY <2>4
  <1>5. T = Loop(T)
    <2> HIDE DEF Loop
    <2> QED
      BY <1>4, Zenon
  <1>6. T[0] = 0 /\ \A i \in 1 .. k : T[i] = T[i - 1] + f[i]
    <2> HIDE DEF T
    <2>1. \A i \in 0 .. k : T[i] = IF i = 0 THEN 0 ELSE T[i - 1] + f[i]
      BY <1>5, Zenon
    <2>2. 0 \in 0 .. k /\ \A i \in 1 .. k : i \in 0 .. k /\ i # 0
      BY <1>1
    <2> QED
      BY <2>1, <2>2
  <1>7. T \in [0 .. k -> Nat]
    <2> HIDE DEF T
    <2> DEFINE P == {i \in 0 .. k : T[i] \in Nat}
    <2>1. 0 \in P
      BY <1>1, <1>6
    <2>2. \A i \in 1 .. k : i - 1 \in P => i \in P
      BY <1>1, <1>6
    <2>3. \A i \in 0 .. k : i \in P
      <3> HIDE DEF P
      <3> QED
        BY <1>1, <2>1, <2>2, LoopInduction
    <2>4. T = [i \in 0 .. k |-> T[i]]
      BY <1>5
    <2> QED
      BY <2>3, <2>4
  <1> HIDE DEF T
  <1>8. T \in [0 .. k -> Nat] /\ T[0] = 0 /\ \A i \in 1 .. k : T[i] = T[i - 1] + f[i]
    BY <1>6, <1>7
  <1> QED
    BY <1>8 DEF T
=============================================================================
