--------------------------- MODULE TableLemmas ----------------------------
(***************************************************************************)
(* What the tables of this code have in common.  Their loops return the    *)
(* first way that fits, which the modules write as the Min of a set, and   *)
(* their LRU counters age the ways younger than the one that is used.      *)
(* Loops that repeat a step or add up an array are recursive functions or  *)
(* folds: what a step keeps the loop keeps, and sums grow with what they   *)
(* add up and have its sign.                                               *)
(***************************************************************************)
EXTENDS Integers, FiniteSetsExt, WellFoundedInduction, FiniteSetTheorems, TLAPS

(* The first of some ways is one of them.                                  *)
LEMMA MinIsMember ==
  ASSUME NEW S \in SUBSET Nat, S # {}
  PROVE  Min(S) \in S /\ \A y \in S : Min(S) <= y
<1>1. PICK x \in S : \A y \in S : ~(<<y, x>> \in OpToRel(<, Nat))
  BY NatLessThanWellFounded, WFMin
<1>2. ASSUME NEW y \in S, y < x
      PROVE  FALSE
  <2>1. y \in Nat /\ x \in Nat
    OBVIOUS
  <2>2. <<y, x>> \in OpToRel(<, Nat)
    BY <2>1, <1>2, Zenon DEF OpToRel
  <2>3. QED
    BY <1>1, <2>2
<1>3. \A y \in S : x <= y
  BY <1>2
<1>4. QED
  BY <1>3 DEF Min

(* Some way has the least value of a field.                                *)
LEMMA LeastExists ==
  ASSUME NEW W, W # {}, NEW f \in [W -> Nat]
  PROVE  \E w \in W : \A v \in W : f[w] <= f[v]
<1> DEFINE R == {f[w] : w \in W}
<1>1. R \in SUBSET Nat /\ R # {}
  OBVIOUS
<1>2. Min(R) \in R /\ \A y \in R : Min(R) <= y
  BY <1>1, MinIsMember
<1> QED
  BY <1>2

(* Among the first ways of a table some has the greatest value.            *)
LEMMA GreatestExists ==
  ASSUME NEW n \in Nat, NEW W \in SUBSET (0 .. n - 1), W # {}, NEW f \in [W -> Nat]
  PROVE  \E w \in W : \A v \in W : f[v] <= f[w]
<1> DEFINE Part(m) == {w \in W : w < m}
           HasMax(S) == \E w \in S : \A v \in S : f[v] <= f[w]
           Bad == {m \in Nat : Part(m) # {} /\ ~HasMax(Part(m))}
<1>1. Part(n) = W /\ \A w \in W : w \in Nat /\ f[w] \in Nat
  <2>1. \A w \in W : w \in Nat /\ w < n
    OBVIOUS
  <2>2. Part(n) = W
    BY <2>1
  <2>3. \A w \in W : f[w] \in Nat
    OBVIOUS
  <2> QED
    BY <2>1, <2>2, <2>3
<1>2. CASE Bad = {}
  <2>1. HasMax(Part(n))
    BY <1>1, <1>2
  <2> QED
    BY <1>1, <2>1
<1>3. CASE Bad # {}
  <2> DEFINE m == Min(Bad)
  <2> HIDE DEF HasMax
  <2>1. m \in Bad /\ \A k \in Bad : m <= k
    BY <1>3, MinIsMember
  <2> HIDE DEF m
  <2>2. m \in Nat /\ Part(m) # {} /\ ~HasMax(Part(m))
    BY <2>1
  <2>3. m # 0
    <3>1. PICK w \in W : w < m
      BY <2>2
    <3> QED
      BY <1>1, <3>1
  <2>4. m - 1 \in Nat /\ m - 1 \notin Bad
    BY <2>1, <2>2, <2>3
  <2>5. Part(m - 1) = {} \/ HasMax(Part(m - 1))
    BY <2>4
  <2>6. \A w \in W : w \in Part(m) <=> w \in Part(m - 1) \/ w = m - 1
    BY <1>1, <2>2
  <2>7. Part(m) \subseteq W /\ Part(m - 1) \subseteq W
    OBVIOUS
  <2> HIDE DEF Part, Bad
  <2>8. CASE Part(m - 1) = {}
    <3>1. Part(m) = {m - 1} /\ m - 1 \in W
      BY <2>2, <2>6, <2>7, <2>8
    <3>2. f[m - 1] \in Nat
      BY <1>1, <3>1
    <3>3. f[m - 1] <= f[m - 1]
      BY <3>2
    <3> QED
      BY <2>2, <3>1, <3>3 DEF HasMax
  <2>9. CASE HasMax(Part(m - 1))
    <3>1. PICK w \in Part(m - 1) : \A v \in Part(m - 1) : f[v] <= f[w]
      BY <2>9 DEF HasMax
    <3>2. w \in Part(m)
      BY <2>6, <2>7, <3>1
    <3>3. CASE m - 1 \in W /\ f[m - 1] > f[w]
      <4>1. m - 1 \in Part(m)
        BY <2>6, <3>3
      <4>2. ASSUME NEW v \in Part(m) PROVE f[v] <= f[m - 1]
        <5>1. v = m - 1 \/ f[v] <= f[w]
          BY <2>6, <2>7, <3>1
        <5>2. f[v] \in Nat /\ f[m - 1] \in Nat /\ f[w] \in Nat
          BY <1>1, <2>7, <3>3
        <5> QED
          BY <3>3, <5>1, <5>2
      <4> QED
        BY <2>2, <4>1, <4>2 DEF HasMax
    <3>4. CASE ~(m - 1 \in W /\ f[m - 1] > f[w])
      <4>1. ASSUME NEW v \in Part(m) PROVE f[v] <= f[w]
        <5>1. v = m - 1 \/ f[v] <= f[w]
          BY <2>6, <2>7, <3>1
        <5>2. v \in W /\ f[v] \in Nat /\ f[w] \in Nat
          BY <1>1, <2>7
        <5> QED
          BY <3>4, <5>1, <5>2
      <4> QED
        BY <2>2, <3>2, <4>1 DEF HasMax
    <3> QED
      BY <3>3, <3>4
  <2> QED
    BY <2>5, <2>8, <2>9
<1> QED
  BY <1>2, <1>3

(* The first n ways, and their ages when the way m is used.                *)
WaysUpTo(n) == 0 .. n - 1

MadeYoungest(n, lru, m) ==
  [w \in WaysUpTo(n) |-> IF w = m THEN 0
                         ELSE IF lru[w] < lru[m] THEN lru[w] + 1
                         ELSE lru[w]]

(* The ages of n ways are a permutation of 0 .. n - 1.                     *)
AgesPermuted(n, lru) ==
  /\ lru \in [WaysUpTo(n) -> WaysUpTo(n)]
  /\ \A k \in WaysUpTo(n) : \E w \in WaysUpTo(n) : lru[w] = k
  /\ \A v, w \in WaysUpTo(n) : lru[v] = lru[w] => v = w

(***************************************************************************)
(* Making one way the youngest, and those younger than it older by one,    *)
(* maps a permutation of the ages to a permutation and keeps the order of  *)
(* the others.                                                             *)
(***************************************************************************)
LEMMA YoungestPermutation ==
  ASSUME NEW n \in Nat \ {0}, NEW lru, AgesPermuted(n, lru), NEW m \in WaysUpTo(n)
  PROVE  /\ AgesPermuted(n, MadeYoungest(n, lru, m))
         /\ \A v, w \in WaysUpTo(n) : (v # m /\ w # m) =>
              (MadeYoungest(n, lru, m)[v] < MadeYoungest(n, lru, m)[w] <=> lru[v] < lru[w])
         /\ \A w \in WaysUpTo(n) :
              w # m => MadeYoungest(n, lru, m)[m] < MadeYoungest(n, lru, m)[w]
<1>0. /\ lru \in [WaysUpTo(n) -> WaysUpTo(n)]
      /\ \A k \in WaysUpTo(n) : \E w \in WaysUpTo(n) : lru[w] = k
      /\ \A v, w \in WaysUpTo(n) : lru[v] = lru[w] => v = w
  BY DEF AgesPermuted
<1> DEFINE a == MadeYoungest(n, lru, m)
<1>1. \A w \in WaysUpTo(n) : a[w] = IF w = m THEN 0
                                  ELSE IF lru[w] < lru[m] THEN lru[w] + 1
                                  ELSE lru[w]
  BY DEF MadeYoungest
<1>2. a = [w \in WaysUpTo(n) |-> a[w]]
  BY DEF MadeYoungest
<1> HIDE DEF a
<1>3. /\ n \in Nat /\ n > 0 /\ WaysUpTo(n) \subseteq Nat
      /\ \A k \in Nat : k \in WaysUpTo(n) <=> k < n
  <2>1. n \in Nat /\ n > 0
    OBVIOUS
  <2>2. WaysUpTo(n) \subseteq Nat
    BY <2>1 DEF WaysUpTo
  <2>3. ASSUME NEW k \in Nat
        PROVE  k \in WaysUpTo(n) <=> k < n
    <3>1. k \in WaysUpTo(n) => k < n
      BY <2>1 DEF WaysUpTo
    <3>2. k < n => k \in WaysUpTo(n)
      BY <2>1 DEF WaysUpTo
    <3>3. QED
      BY <3>1, <3>2
  <2>4. QED
    BY <2>1, <2>2, <2>3
<1>4. \A w \in WaysUpTo(n) : lru[w] \in Nat /\ lru[w] < n
  BY <1>0, <1>3
<1>5. \A w \in WaysUpTo(n) : w # m => lru[w] # lru[m]
  BY <1>0
<1>6. \A w \in WaysUpTo(n) : a[w] \in Nat /\ a[w] < n
  <2> SUFFICES ASSUME NEW w \in WaysUpTo(n) PROVE a[w] \in Nat /\ a[w] < n
    OBVIOUS
  <2>1. lru[w] \in Nat /\ lru[w] < n /\ lru[m] \in Nat /\ lru[m] < n
    BY <1>4
  <2>2. QED
    BY <2>1, <1>1, <1>3
<1>7. a \in [WaysUpTo(n) -> WaysUpTo(n)]
  BY <1>2, <1>3, <1>6
<1>8. \A w \in WaysUpTo(n) : w # m => a[m] < a[w]
  BY <1>1, <1>4, <1>5
<1>9. ASSUME NEW v \in WaysUpTo(n), NEW w \in WaysUpTo(n), v # m, w # m
      PROVE  a[v] < a[w] <=> lru[v] < lru[w]
  BY <1>9, <1>1, <1>4, <1>5
<1>10. ASSUME NEW v \in WaysUpTo(n), NEW w \in WaysUpTo(n), a[v] = a[w]
       PROVE  v = w
  <2>1. CASE v = m \/ w = m
    BY <2>1, <1>8, <1>6, <1>10
  <2>2. CASE v # m /\ w # m
    <3>1. lru[v] = lru[w]
      BY <2>2, <1>1, <1>4, <1>5, <1>10
    <3>2. QED
      BY <1>0, <3>1
  <2>3. QED
    BY <2>1, <2>2
<1>11. ASSUME NEW k \in WaysUpTo(n)
       PROVE  \E w \in WaysUpTo(n) : a[w] = k
  <2>1. CASE k = 0
    BY <2>1, <1>1
  <2>2. CASE k > 0 /\ k <= lru[m]
    <3>1. k - 1 \in WaysUpTo(n)
      BY <2>2, <1>3
    <3>2. PICK w \in WaysUpTo(n) : lru[w] = k - 1
      BY <1>0, <3>1
    <3>3. lru[m] \in Nat /\ k \in Nat /\ lru[w] < lru[m] /\ lru[w] + 1 = k
      BY <3>2, <2>2, <1>3, <1>4
    <3>4. w # m
      BY <3>3
    <3>5. a[w] = k
      BY <3>3, <3>4, <1>1
    <3>6. QED
      BY <3>5
  <2>3. CASE k > lru[m]
    <3>1. PICK w \in WaysUpTo(n) : lru[w] = k
      BY <1>0
    <3>2. lru[m] \in Nat /\ k \in Nat /\ w # m /\ ~(k < lru[m])
      BY <3>1, <2>3, <1>3, <1>4
    <3>3. a[w] = k
      BY <3>1, <3>2, <1>1
    <3>4. QED
      BY <3>3
  <2>4. QED
    BY <2>1, <2>2, <2>3, <1>3, <1>4
<1>12. QED
  BY <1>7, <1>8, <1>9, <1>10, <1>11 DEF a, AgesPermuted

(* What holds at the start and is kept by every turn of a loop holds to    *)
(* its end.                                                                *)
LEMMA LoopKeeps ==
  ASSUME NEW n \in Nat, NEW Good \in SUBSET (0 .. n), 0 \in Good,
         \A i \in 1 .. n : i - 1 \in Good => i \in Good
  PROVE  Good = 0 .. n
<1> DEFINE Bad == (0 .. n) \ Good
<1>1. SUFFICES ASSUME Bad # {} PROVE FALSE
  OBVIOUS
<1>2. Bad \in SUBSET Nat
  OBVIOUS
<1>3. PICK m \in Bad : \A k \in Bad : m <= k
  BY <1>1, <1>2, MinIsMember
<1>4. m \in 1 .. n /\ m - 1 \in 0 .. n
  BY <1>3
<1>5. m - 1 \notin Bad
  BY <1>3, <1>4
<1> QED
  BY <1>3, <1>4, <1>5

(* A loop whose turns stay in a set B can be unrolled: the recursive       *)
(* function that the modules write for it exists.                          *)
TurnsOf(n, B) == [B \X (1 .. n) -> B]

Unrolls(f, n, first, T) ==
  f[0] = first /\ \A i \in 1 .. n : f[i] = T[<<f[i - 1], i>>]

LEMMA LoopUnrolls ==
  ASSUME NEW n \in Nat, NEW B, NEW first \in B, NEW T \in TurnsOf(n, B)
  PROVE  \E f \in [0 .. n -> B] : Unrolls(f, n, first, T)
<1> DEFINE Unrolled(m, f) ==
             \A i \in 0 .. m : f[i] = IF i = 0 THEN first ELSE T[<<f[i - 1], i>>]
           Good == {m \in 0 .. n : \E f \in [0 .. m -> B] : Unrolled(m, f)}
<1>1. 0 \in Good
  <2> DEFINE f == [i \in 0 .. 0 |-> first]
  <2>1. f \in [0 .. 0 -> B] /\ Unrolled(0, f)
    OBVIOUS
  <2> HIDE DEF f, Unrolled
  <2> QED
    BY <2>1
<1>2. ASSUME NEW m \in 1 .. n, m - 1 \in Good PROVE m \in Good
  <2>1. PICK f \in [0 .. m - 1 -> B] : Unrolled(m - 1, f)
    BY <1>2
  <2> DEFINE g == [i \in 0 .. m |-> IF i = m THEN T[<<f[m - 1], m>>] ELSE f[i]]
  <2>2. T[<<f[m - 1], m>>] \in B
    <3>1. f[m - 1] \in B
      OBVIOUS
    <3>2. <<f[m - 1], m>> \in B \X (1 .. n)
      BY <3>1
    <3> QED
      BY <3>2 DEF TurnsOf
  <2>3. g \in [0 .. m -> B]
    BY <2>2
  <2>4. ASSUME NEW i \in 0 .. m
        PROVE  g[i] = IF i = 0 THEN first ELSE T[<<g[i - 1], i>>]
    <3>1. CASE i = m
      <4>1. g[i - 1] = f[i - 1]
        BY <3>1
      <4>2. g[i] = T[<<f[m - 1], m>>] /\ i # 0
        BY <3>1
      <4> HIDE DEF g
      <4> QED
        BY <3>1, <4>1, <4>2
    <3>2. CASE i # m
      <4>1. i \in 0 .. m - 1
        BY <3>2
      <4>2. f[i] = IF i = 0 THEN first ELSE T[<<f[i - 1], i>>]
        BY <2>1, <4>1
      <4>3. g[i] = f[i] /\ (i # 0 => g[i - 1] = f[i - 1])
        BY <3>2, <4>1
      <4> QED
        BY <4>2, <4>3
    <3> QED
      BY <3>1, <3>2
  <2>5. Unrolled(m, g)
    BY <2>4
  <2> HIDE DEF g, Unrolled
  <2> QED
    BY <2>3, <2>5
<1> HIDE DEF Unrolled
<1>3. Good = 0 .. n
  BY <1>1, <1>2, LoopKeeps
<1>4. n \in Good
  BY <1>3
<1>5. PICK f \in [0 .. n -> B] : Unrolled(n, f)
  BY <1>4
<1>6. \A i \in 0 .. n : f[i] = IF i = 0 THEN first ELSE T[<<f[i - 1], i>>]
  BY <1>5 DEF Unrolled
<1>7. 0 \in 0 .. n /\ \A i \in 1 .. n : i \in 0 .. n /\ i # 0
  OBVIOUS
<1>8. Unrolls(f, n, first, T)
  BY <1>6, <1>7 DEF Unrolls
<1> QED
  BY <1>8
-----------------------------------------------------------------------------
(* What holds of the empty set, and of a set if it holds of it without any *)
(* one of its members, holds of all subsets of a finite set.               *)
LEMMA SubsetsKeep ==
  ASSUME NEW S, IsFiniteSet(S), NEW Good \in SUBSET (SUBSET S), {} \in Good,
         \A s \in SUBSET S : s # {} /\ (\A x \in s : s \ {x} \in Good) => s \in Good
  PROVE  Good = SUBSET S
<1> DEFINE Bad == (SUBSET S) \ Good
           sizes == {Cardinality(s) : s \in Bad}
<1>1. SUFFICES ASSUME Bad # {} PROVE FALSE
  OBVIOUS
<1>2. \A s \in SUBSET S : IsFiniteSet(s) /\ Cardinality(s) \in Nat
  BY FS_Subset, FS_CardinalityType
<1>3. sizes \in SUBSET Nat /\ sizes # {}
  BY <1>1, <1>2
<1>4. PICK n \in sizes : \A k \in sizes : n <= k
  BY <1>3, MinIsMember
<1>5. PICK s \in Bad : Cardinality(s) = n
  BY <1>4
<1>6. PICK x \in s : s \ {x} \notin Good
  BY <1>5
<1>7. s \ {x} \in Bad
  BY <1>5, <1>6
<1>8. IsFiniteSet(s) /\ n \in Nat
  BY <1>2, <1>3, <1>4, <1>5
<1>9. Cardinality(s \ {x}) = n - 1
  BY <1>5, <1>8, <1>6, FS_RemoveElement
<1>10. n <= n - 1
  BY <1>4, <1>7, <1>9
<1> QED
  BY <1>8, <1>10

(* The member that a fold of the library takes first.                      *)
Picked(s) == CHOOSE x \in s : TRUE

(* It is one of them.                                                      *)
LEMMA PickedIsMember == \A s : s # {} => Picked(s) \in s
  BY DEF Picked

(* The folds of values of B over a set S, and what one of them gives for   *)
(* the subsets of S.                                                       *)
FoldsOf(S, B) == [S \X B -> B]

Folded(it, first, T, s) ==
  it[s] = IF s = {} THEN first ELSE T[<<Picked(s), it[s \ {Picked(s)}]>>]

Folds(it, S, B, first, T) ==
  it \in [SUBSET S -> B] /\ \A s \in SUBSET S : Folded(it, first, T, s)

(* A fold over a finite set gives a value of B for each of its subsets.    *)
LEMMA FoldExists ==
  ASSUME NEW S, IsFiniteSet(S), NEW B, NEW first \in B, NEW T \in FoldsOf(S, B)
  PROVE  \E it : Folds(it, S, B, first, T)
<1> DEFINE n == Cardinality(S)
           UpTo(m) == {s \in SUBSET S : Cardinality(s) <= m}
           FoldsUpTo(m, f) == \A s \in UpTo(m) : Folded(f, first, T, s)
           Good == {m \in 0 .. n : \E f \in [UpTo(m) -> B] : FoldsUpTo(m, f)}
<1>1. /\ n \in Nat
      /\ \A s \in SUBSET S : IsFiniteSet(s) /\ Cardinality(s) \in 0 .. n
      /\ Cardinality({}) = 0
      /\ \A s \in SUBSET S : Cardinality(s) = 0 => s = {}
  BY FS_Subset, FS_CardinalityType, FS_EmptySet
<1>2. ASSUME NEW s \in SUBSET S, s # {}
      PROVE  /\ Picked(s) \in s /\ Picked(s) \in S /\ s \ {Picked(s)} \in SUBSET S
             /\ Cardinality(s \ {Picked(s)}) = Cardinality(s) - 1
             /\ Cardinality(s) # 0
  <2>1. Picked(s) \in s
    BY <1>2, PickedIsMember
  <2>2. Cardinality(s \ {Picked(s)}) = Cardinality(s) - 1
    BY <1>1, <2>1, FS_RemoveElement
  <2> QED
    BY <1>1, <1>2, <2>1, <2>2
<1>3. 0 \in Good
  <2> DEFINE f == [s \in UpTo(0) |-> first]
  <2>1. \A s \in UpTo(0) : s = {}
    BY <1>1
  <2>2. f \in [UpTo(0) -> B] /\ FoldsUpTo(0, f)
    BY <2>1 DEF Folded
  <2> HIDE DEF f, FoldsUpTo, UpTo
  <2> QED
    BY <1>1, <2>2
<1>4. ASSUME NEW m \in 1 .. n, m - 1 \in Good PROVE m \in Good
  <2>1. PICK f \in [UpTo(m - 1) -> B] : FoldsUpTo(m - 1, f)
    BY <1>4
  <2> DEFINE next(s) == T[<<Picked(s), f[s \ {Picked(s)}]>>]
             g == [s \in UpTo(m) |-> IF Cardinality(s) = m THEN next(s) ELSE f[s]]
  <2>2. ASSUME NEW s \in UpTo(m) PROVE Cardinality(s) = m \/ s \in UpTo(m - 1)
    BY <1>1
  <2>3. ASSUME NEW s \in UpTo(m), s # {}
        PROVE  Picked(s) \in S /\ s \ {Picked(s)} \in UpTo(m - 1) /\ Cardinality(s \ {Picked(s)}) # m
    BY <1>1, <1>2, <2>3
  <2>4. ASSUME NEW s \in UpTo(m), Cardinality(s) = m PROVE next(s) \in B /\ s # {}
    <3>1. s # {}
      <4>1. SUFFICES ASSUME s = {} PROVE FALSE
        OBVIOUS
      <4>2. Cardinality(s) = 0
        BY <1>1, <4>1
      <4> QED
        BY <2>4, <4>2
    <3>2. f[s \ {Picked(s)}] \in B /\ Picked(s) \in S
      BY <2>3, <3>1
    <3>3. <<Picked(s), f[s \ {Picked(s)}]>> \in S \X B
      BY <3>2
    <3> QED
      BY <3>1, <3>3 DEF FoldsOf
  <2>5. g \in [UpTo(m) -> B]
    <3> HIDE DEF UpTo, next
    <3> QED
      BY <2>2, <2>4
  <2>6. ASSUME NEW s \in UpTo(m) PROVE Folded(g, first, T, s)
    <3>1. s # {} => g[s \ {Picked(s)}] = f[s \ {Picked(s)}]
      <4> HIDE DEF next
      <4> QED
        BY <1>1, <2>3
    <3>2. CASE Cardinality(s) = m
      <4>1. g[s] = next(s) /\ s # {}
        BY <2>4, <3>2
      <4> HIDE DEF g
      <4> QED
        BY <3>1, <4>1 DEF Folded
    <3>3. CASE Cardinality(s) # m
      <4>1. s \in UpTo(m - 1)
        BY <2>2, <3>3
      <4>2. Folded(f, first, T, s)
        BY <2>1, <4>1
      <4>3. g[s] = f[s]
        BY <3>3
      <4> HIDE DEF g
      <4> QED
        BY <3>1, <4>2, <4>3 DEF Folded
    <3> QED
      BY <3>2, <3>3
  <2>7. FoldsUpTo(m, g)
    BY <2>6
  <2> HIDE DEF g, FoldsUpTo, UpTo
  <2> QED
    BY <2>5, <2>7
<1>5. n \in Good
  <2> HIDE DEF Good
  <2>1. Good \in SUBSET (0 .. n)
    BY DEF Good
  <2>2. Good = 0 .. n
    BY <1>1, <1>3, <1>4, <2>1, LoopKeeps
  <2> QED
    BY <1>1, <2>2
<1>6. UpTo(n) = SUBSET S
  BY <1>1
<1>7. PICK f \in [SUBSET S -> B] : FoldsUpTo(n, f)
  <2> HIDE DEF UpTo, FoldsUpTo
  <2> QED
    BY <1>5, <1>6
<1>8. Folds(f, S, B, first, T)
  BY <1>6, <1>7 DEF Folds
<1> QED
  BY <1>8

(* The order does not matter when the turns of a fold commute: any member  *)
(* may be taken first.                                                     *)
Commutes(S, B, T) ==
  \A x, y \in S, b \in B : T[<<x, T[<<y, b>>]>>] = T[<<y, T[<<x, b>>]>>]

AnyOrder(it, S, T) ==
  \A s \in SUBSET S, y \in S : y \in s => it[s] = T[<<y, it[s \ {y}]>>]

(* A fold over a finite set whose turns commute.                           *)
LEMMA FoldAnyOrder ==
  ASSUME NEW S, IsFiniteSet(S), NEW B, NEW first, NEW T, NEW it,
         Folds(it, S, B, first, T), Commutes(S, B, T)
  PROVE  AnyOrder(it, S, T)
<1>0. it \in [SUBSET S -> B]
  BY DEF Folds
<1> DEFINE Any(s) == \A y \in s : it[s] = T[<<y, it[s \ {y}]>>]
           Good == {s \in SUBSET S : Any(s)}
<1>1. {} \in Good
  OBVIOUS
<1>2. ASSUME NEW s \in SUBSET S, s # {}, \A x \in s : s \ {x} \in Good
      PROVE  s \in Good
  <2> SUFFICES ASSUME NEW y \in s PROVE it[s] = T[<<y, it[s \ {y}]>>]
    OBVIOUS
  <2> DEFINE x == Picked(s)
  <2>1. x \in s /\ x \in S /\ y \in S
    BY <1>2, PickedIsMember
  <2>2. it[s] = T[<<x, it[s \ {x}]>>]
    BY <1>2 DEF Folds, Folded
  <2> HIDE DEF x
  <2>3. CASE y # x
    <3> DEFINE r == (s \ {x}) \ {y}
    <3>1. r = (s \ {y}) \ {x} /\ r \in SUBSET S
      OBVIOUS
    <3>2. Any(s \ {x}) /\ Any(s \ {y})
      BY <1>2, <2>1
    <3>3. y \in s \ {x} /\ x \in s \ {y}
      BY <2>1, <2>3
    <3>4. it[s \ {x}] = T[<<y, it[r]>>]
      BY <3>2, <3>3
    <3>5. it[s \ {y}] = T[<<x, it[r]>>]
      <4>1. it[s \ {y}] = T[<<x, it[(s \ {y}) \ {x}]>>]
        BY <3>2, <3>3
      <4> HIDE DEF r
      <4> QED
        BY <3>1, <4>1
    <3>6. it[r] \in B
      BY <1>0, <3>1
    <3> HIDE DEF r
    <3>7. T[<<x, T[<<y, it[r]>>]>>] = T[<<y, T[<<x, it[r]>>]>>]
      BY <2>1, <3>6 DEF Commutes
    <3> QED
      BY <2>2, <3>4, <3>5, <3>7
  <2> QED
    BY <2>2, <2>3
<1> HIDE DEF Good
<1>3. Good = SUBSET S
  <2>1. Good \in SUBSET (SUBSET S)
    BY DEF Good
  <2> QED
    BY <1>1, <1>2, <2>1, SubsetsKeep
<1> QED
  BY <1>3 DEF Good, AnyOrder

(* Folds over two sets give the same when one set is numbered by the other *)
(* and members of one number take the same turn.                           *)
Image(h, s) == {h[x] : x \in s}

(* So for a fold whose turns commute.                                      *)
LEMMA FoldRenamed ==
  ASSUME NEW S, NEW R, IsFiniteSet(S), IsFiniteSet(R), NEW B, NEW first,
         NEW T, NEW U, NEW it, NEW jt,
         Folds(it, S, B, first, T), Folds(jt, R, B, first, U), Commutes(R, B, U),
         NEW h \in [S -> R], \A x, y \in S : h[x] = h[y] => x = y,
         \A x \in S, b \in B : T[<<x, b>>] = U[<<h[x], b>>]
  PROVE  \A s \in SUBSET S : it[s] = jt[Image(h, s)]
<1>0. AnyOrder(jt, R, U)
  BY FoldAnyOrder
<1> DEFINE Good == {s \in SUBSET S : it[s] = jt[Image(h, s)]}
<1>1. {} \in Good
  <2>1. Image(h, {}) = {} /\ {} \in SUBSET S /\ {} \in SUBSET R
    BY DEF Image
  <2>2. it[{}] = first /\ jt[{}] = first
    BY <2>1 DEF Folds, Folded
  <2> QED
    BY <2>1, <2>2
<1>2. ASSUME NEW s \in SUBSET S, s # {}, \A x \in s : s \ {x} \in Good
      PROVE  s \in Good
  <2> DEFINE x == Picked(s)
             r == Image(h, s)
  <2>1. x \in s /\ x \in S /\ h[x] \in r /\ h[x] \in R /\ r \in SUBSET R
    BY <1>2, PickedIsMember DEF Image
  <2>2. it[s] = T[<<x, it[s \ {x}]>>]
    BY <1>2 DEF Folds, Folded
  <2>3. jt[r] = U[<<h[x], jt[r \ {h[x]}]>>]
    BY <1>0, <2>1 DEF AnyOrder
  <2>4. Image(h, s \ {x}) = r \ {h[x]}
    BY <2>1 DEF Image
  <2> HIDE DEF x, r
  <2>5. it[s \ {x}] = jt[r \ {h[x]}] /\ it[s \ {x}] \in B
    BY <1>2, <2>1, <2>4 DEF Folds
  <2>6. T[<<x, it[s \ {x}]>>] = U[<<h[x], it[s \ {x}]>>]
    BY <2>1, <2>5
  <2>7. it[s] = jt[r]
    BY <2>2, <2>3, <2>5, <2>6
  <2> QED
    BY <2>7 DEF r
<1> HIDE DEF Good
<1>3. Good = SUBSET S
  <2>1. Good \in SUBSET (SUBSET S)
    BY DEF Good
  <2> QED
    BY <1>1, <1>2, <2>1, SubsetsKeep
<1> QED
  BY <1>3 DEF Good
(* The turn of the library's sum over the values of a function.            *)
SumTurn(f, S) == [x \in S \X Int |-> f[x[1]] + x[2]]

(* So the sum is one of these folds.                                       *)
LEMMA SumIsFold ==
  ASSUME NEW S, IsFiniteSet(S), NEW f \in [S -> Int]
  PROVE  \E it : Folds(it, S, Int, 0, SumTurn(f, S)) /\ SumFunction(f) = it[S]
<1> DEFINE T == SumTurn(f, S)
           Unrolled(g) ==
             g = [s \in SUBSET S |->
                    IF s = {} THEN 0
                    ELSE f[CHOOSE x \in s : TRUE] + g[s \ {CHOOSE x \in s : TRUE}]]
           iter == CHOOSE g : Unrolled(g)
<1>1. PICK it : Folds(it, S, Int, 0, T)
  <2>1. ASSUME NEW x \in S \X Int PROVE f[x[1]] + x[2] \in Int
    OBVIOUS
  <2>2. T \in FoldsOf(S, Int) /\ 0 \in Int
    BY <2>1 DEF SumTurn, FoldsOf
  <2> HIDE DEF T
  <2> QED
    BY <2>2, FoldExists
<1>2. ASSUME NEW s \in SUBSET S, s # {}
      PROVE  it[s] = f[Picked(s)] + it[s \ {Picked(s)}]
  <2>1. Picked(s) \in s
    BY <1>2, PickedIsMember
  <2>2. it[s] = T[<<Picked(s), it[s \ {Picked(s)}]>>] /\ it[s \ {Picked(s)}] \in Int
    BY <1>1, <1>2 DEF Folds, Folded
  <2>3. <<Picked(s), it[s \ {Picked(s)}]>> \in S \X Int
    BY <2>1, <2>2
  <2> QED
    BY <2>2, <2>3 DEF SumTurn
<1>3. Unrolled(it)
  <2>1. it = [s \in SUBSET S |-> it[s]] /\ it[{}] = 0
    BY <1>1 DEF Folds, Folded
  <2>2. ASSUME NEW s \in SUBSET S
        PROVE  it[s] = IF s = {} THEN 0
                       ELSE f[CHOOSE x \in s : TRUE] + it[s \ {CHOOSE x \in s : TRUE}]
    BY <1>2, <2>1 DEF Picked
  <2> QED
    BY <2>1, <2>2
<1>4. Unrolled(iter)
  BY <1>3
<1> HIDE DEF iter
<1> DEFINE Good == {s \in SUBSET S : iter[s] = it[s]}
<1>5. {} \in Good
  BY <1>3, <1>4
<1>6. ASSUME NEW s \in SUBSET S, s # {}, \A x \in s : s \ {x} \in Good PROVE s \in Good
  <2>1. Picked(s) \in s
    BY <1>6, PickedIsMember
  <2>2. iter[s] = f[Picked(s)] + iter[s \ {Picked(s)}]
    BY <1>4, <1>6 DEF Picked
  <2>3. iter[s \ {Picked(s)}] = it[s \ {Picked(s)}]
    BY <1>6, <2>1
  <2> QED
    BY <1>2, <1>6, <2>2, <2>3
<1>7. iter[S] = it[S]
  <2> HIDE DEF Unrolled, Good
  <2>1. Good \in SUBSET (SUBSET S)
    BY DEF Good
  <2>2. Good = SUBSET S
    BY <1>5, <1>6, <2>1, SubsetsKeep
  <2> QED
    BY <2>2 DEF Good
<1>8. DOMAIN f = S
  OBVIOUS
<1>9. SumFunction(f) = iter[S]
  BY <1>8 DEF SumFunction, SumFunctionOnSet, FoldFunctionOnSet, MapThenFoldSet, iter
<1> QED
  BY <1>1, <1>7, <1>9

(* The sum grows with the values.                                          *)
LEMMA SumGrows ==
  ASSUME NEW S, IsFiniteSet(S), NEW f \in [S -> Int], NEW g \in [S -> Int],
         \A x \in S : f[x] <= g[x]
  PROVE  /\ SumFunction(f) \in Int /\ SumFunction(g) \in Int
         /\ SumFunction(f) <= SumFunction(g)
<1>1. PICK it : Folds(it, S, Int, 0, SumTurn(f, S)) /\ SumFunction(f) = it[S]
  BY SumIsFold
<1>2. PICK jt : Folds(jt, S, Int, 0, SumTurn(g, S)) /\ SumFunction(g) = jt[S]
  BY SumIsFold
<1>3. /\ \A s \in SUBSET S : it[s] \in Int /\ jt[s] \in Int
      /\ it[{}] = 0 /\ jt[{}] = 0
  BY <1>1, <1>2 DEF Folds, Folded
<1> DEFINE Good == {s \in SUBSET S : it[s] <= jt[s]}
<1>4. {} \in Good
  BY <1>3
<1>5. ASSUME NEW s \in SUBSET S, s # {}, \A x \in s : s \ {x} \in Good PROVE s \in Good
  <2> DEFINE p == Picked(s)
             i == it[s \ {p}]
             j == jt[s \ {p}]
  <2>1. p \in s
    BY <1>5, PickedIsMember
  <2>2. i \in Int /\ j \in Int /\ i <= j
    BY <1>3, <1>5, <2>1
  <2>3. it[s] = SumTurn(f, S)[<<p, i>>] /\ jt[s] = SumTurn(g, S)[<<p, j>>]
    BY <1>1, <1>2, <1>5 DEF Folds, Folded
  <2>4. <<p, i>> \in S \X Int /\ <<p, j>> \in S \X Int
    BY <2>1, <2>2
  <2>5. it[s] = f[p] + i /\ jt[s] = g[p] + j
    BY <2>3, <2>4 DEF SumTurn
  <2>6. f[p] \in Int /\ g[p] \in Int /\ f[p] <= g[p]
    BY <2>1
  <2> HIDE DEF p, i, j
  <2>7. it[s] <= jt[s]
    BY <2>2, <2>5, <2>6
  <2> QED
    BY <2>7
<1>6. it[S] <= jt[S]
  <2> HIDE DEF Good
  <2>1. Good \in SUBSET (SUBSET S)
    BY DEF Good
  <2>2. Good = SUBSET S
    BY <1>4, <1>5, <2>1, SubsetsKeep
  <2> QED
    BY <2>2 DEF Good
<1> QED
  BY <1>1, <1>2, <1>3, <1>6

(* A sum of values of one sign has that sign, and is at least each of them *)
(* when they are not negative.                                             *)
LEMMA SumHasSign ==
  ASSUME NEW S, IsFiniteSet(S), NEW f \in [S -> Int]
  PROVE  /\ (\A x \in S : f[x] >= 0) => \A x \in S : SumFunction(f) >= f[x]
         /\ (\A x \in S : f[x] >= 0) => SumFunction(f) >= 0
         /\ (\A x \in S : f[x] <= 0) => SumFunction(f) <= 0
<1>1. PICK it : Folds(it, S, Int, 0, SumTurn(f, S)) /\ SumFunction(f) = it[S]
  BY SumIsFold
<1>2. (\A s \in SUBSET S : it[s] \in Int) /\ it[{}] = 0
  BY <1>1 DEF Folds, Folded
<1> DEFINE Signed(s) ==
             /\ (\A x \in S : f[x] >= 0) => \A x \in s : it[s] >= f[x]
             /\ (\A x \in S : f[x] >= 0) => it[s] >= 0
             /\ (\A x \in S : f[x] <= 0) => it[s] <= 0
           Good == {s \in SUBSET S : Signed(s)}
<1>3. {} \in Good
  BY <1>2
<1>4. ASSUME NEW s \in SUBSET S, s # {}, \A x \in s : s \ {x} \in Good PROVE s \in Good
  <2> DEFINE p == Picked(s)
             i == it[s \ {p}]
  <2>1. p \in s /\ f[p] \in Int
    BY <1>4, PickedIsMember
  <2>2. i \in Int /\ Signed(s \ {p})
    BY <1>2, <1>4, <2>1
  <2>3. it[s] = SumTurn(f, S)[<<p, i>>]
    BY <1>1, <1>4 DEF Folds, Folded
  <2>4. <<p, i>> \in S \X Int
    BY <2>1, <2>2
  <2>5. it[s] = f[p] + i
    BY <2>3, <2>4 DEF SumTurn
  <2>6. ASSUME \A x \in S : f[x] >= 0, NEW x \in s PROVE it[s] >= f[x] /\ it[s] >= 0
    <3>1. f[x] \in Int /\ f[p] >= 0 /\ i >= 0
      BY <2>1, <2>2, <2>6
    <3>2. x # p => i >= f[x]
      BY <2>2, <2>6
    <3> HIDE DEF p, i
    <3> QED
      BY <2>1, <2>2, <2>5, <3>1, <3>2
  <2>7. ASSUME \A x \in S : f[x] <= 0 PROVE it[s] <= 0
    <3>1. f[p] <= 0 /\ i <= 0
      BY <2>1, <2>2, <2>7
    <3> HIDE DEF p, i
    <3> QED
      BY <2>1, <2>2, <2>5, <3>1
  <2> HIDE DEF p, i
  <2>8. Signed(s)
    BY <2>1, <2>6, <2>7
  <2> QED
    BY <2>8
<1>5. Signed(S)
  <2> HIDE DEF Good, Signed
  <2>1. Good \in SUBSET (SUBSET S)
    BY DEF Good
  <2>2. Good = SUBSET S
    BY <1>3, <1>4, <2>1, SubsetsKeep
  <2> QED
    BY <2>2 DEF Good
<1> QED
  BY <1>1, <1>5
=============================================================================
