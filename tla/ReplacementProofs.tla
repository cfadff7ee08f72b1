-------------------------- MODULE ReplacementProofs --------------------------
(***************************************************************************)
(* Proofs about LRU, SRRIP, DRRIP and SHiP, for any number of ways, any    *)
(* default value of the lru field, any set of access types and any sizes   *)
(* of SHiP's sampler.                                                      *)
(***************************************************************************)
EXTENDS MCReplacement, TableLemmas, FiniteSetTheorems

(***************************************************************************)
(* The used ways are finitely many, and touching a way adds at most it.    *)
(***************************************************************************)
LEMMA UsedCardinality ==
  ASSUME NEW S \in SUBSET Ways, NEW w \in Ways
  PROVE  /\ Cardinality(S) \in 0 .. NumWay
         /\ w \in S => Cardinality(S \cup {w}) = Cardinality(S)
         /\ w \notin S => Cardinality(S \cup {w}) = Cardinality(S) + 1
<1>1. IsFiniteSet(Ways) /\ Cardinality(Ways) = NumWay
  BY FS_Interval, ReplacementAssumption DEF Ways
<1>2. IsFiniteSet(S) /\ Cardinality(S) <= NumWay
  BY <1>1, FS_Subset
<1>3. w \in S => S \cup {w} = S
  OBVIOUS
<1>4. QED
  BY <1>2, <1>3, ReplacementAssumption, FS_CardinalityType, FS_AddElement

(***************************************************************************)
(* Touching a way keeps the whole invariant but its clause about valid:    *)
(* the ageing loop and the promotion move one way to the front of the      *)
(* order and leave the rest as it is.                                      *)
(***************************************************************************)
LEMMA TouchKeepsOrder ==
  ASSUME IInv, NEW w \in Ways, lru' = Promoted(w), Record(w)
  PROVE  /\ lru' \in [Ways -> 0 .. FreshLru + NumWay]
         /\ used' \in SUBSET Ways /\ used \subseteq used' /\ w \in used'
         /\ usedBefore' \in SUBSET (Ways \X Ways)
         /\ \A v \in Ways : <<v, v>> \notin usedBefore'
         /\ usedBefore' \subseteq used' \X used'
         /\ RecencyOrder'
         /\ DistinctAges'
         /\ FreshIsOldest'
<1> DEFINE n == Cardinality(used)
<1> USE DEF IInv, TypeOK
<1>1. /\ n \in Nat
      /\ w \in used => Cardinality(used') = n
      /\ w \notin used => Cardinality(used') = n + 1
  BY UsedCardinality, ReplacementAssumption DEF Record
<1>2. /\ lru' \in [Ways -> Nat]
      /\ \A v \in Ways : lru'[v] = IF v = w THEN 0
                                   ELSE IF lru[v] <= lru[w] THEN lru[v] + 1
                                   ELSE lru[v]
  BY DEF Promoted
<1>3. /\ used' = used \cup {w}
      /\ used' \in SUBSET Ways
  BY DEF Record
<1>4. /\ usedBefore' \in SUBSET (Ways \X Ways)
      /\ usedBefore' \subseteq used' \X used'
      /\ \A v \in Ways : <<v, v>> \notin usedBefore'
  BY <1>3 DEF Record
<1>5. /\ \A u \in used : u # w => (lru'[u] = lru[u] \/ lru'[u] = lru[u] + 1)
      /\ \A u \in used : lru[u] < n
      /\ \A u \in used, v \in used : lru[u] = lru[v] => u = v
      /\ \A v \in Ways \ used : lru[v] = FreshLru + n
      /\ FreshLru \in Nat
  BY <1>2, ReplacementAssumption DEF DistinctAges, FreshIsOldest
<1>6. FreshIsOldest'
  <2> SUFFICES ASSUME NEW v \in Ways, v \notin used, v # w
               PROVE  lru'[v] = FreshLru + Cardinality(used')
    BY <1>3 DEF FreshIsOldest
  <2>1. CASE w \in used
    BY <2>1, <1>1, <1>2, <1>5
  <2>2. CASE w \notin used
    BY <2>2, <1>1, <1>2, <1>5
  <2>3. QED
    BY <2>1, <2>2
<1>7. \A u \in used : u # w => (lru'[u] > 0)
  <2> SUFFICES ASSUME NEW u \in used, u # w
               PROVE  lru'[u] > 0
    OBVIOUS
  <2>1. lru[u] \in Nat /\ lru[w] \in Nat
    OBVIOUS
  <2>2. QED
    BY <2>1, <1>2
<1>8. ASSUME NEW u \in used, NEW v \in used, u # w, v # w
      PROVE  /\ lru[u] > lru[v] <=> lru'[u] > lru'[v]
             /\ lru'[u] = lru'[v] => u = v
  <2>1. /\ lru[u] \in Nat /\ lru[v] \in Nat /\ lru[w] \in Nat
        /\ lru[u] = lru[v] => u = v
    BY <1>5
  <2>2. CASE w \in used
    BY <2>1, <2>2, <1>2, <1>5, <1>8
  <2>3. CASE w \notin used
    BY <2>1, <2>3, <1>1, <1>2, <1>5, <1>8
  <2>4. QED
    BY <2>2, <2>3
<1>9. DistinctAges'
  <2>1. ASSUME NEW u \in used', NEW v \in used', lru'[u] = lru'[v]
        PROVE  u = v
    BY <2>1, <1>2, <1>3, <1>7, <1>8
  <2>2. ASSUME NEW u \in used'
        PROVE  lru'[u] < Cardinality(used')
    <3>1. CASE w \in used
      <4>1. lru[u] \in Nat /\ lru[w] \in Nat /\ u \in used
        BY <3>1, <1>3
      <4>2. QED
        BY <4>1, <3>1, <1>1, <1>2, <1>5
    <3>2. CASE w \notin used
      BY <3>2, <1>1, <1>2, <1>3, <1>5
    <3>3. QED
      BY <3>1, <3>2
  <2>3. QED
    BY <2>1, <2>2 DEF DistinctAges
<1>10. RecencyOrder'
  <2> SUFFICES ASSUME NEW u \in used', NEW v \in used'
               PROVE  <<u, v>> \in usedBefore' <=> lru'[u] > lru'[v]
    BY DEF RecencyOrder
  <2>1. lru'[u] \in Nat /\ lru'[v] \in Nat
    BY <1>2, <1>3
  <2>2. CASE u = w
    BY <2>1, <2>2, <1>2 DEF Record
  <2>3. CASE u # w /\ v = w
    BY <2>3, <1>2, <1>3, <1>7 DEF Record
  <2>4. CASE u # w /\ v # w
    <3>1. u \in used /\ v \in used
      BY <2>4, <1>3
    <3>2. <<u, v>> \in usedBefore' <=> <<u, v>> \in usedBefore
      BY <2>4 DEF Record
    <3>3. QED
      BY <2>4, <3>1, <3>2, <1>8 DEF RecencyOrder
  <2>5. QED
    BY <2>2, <2>3, <2>4
<1>11. lru' \in [Ways -> 0 .. FreshLru + NumWay]
  <2>1. Cardinality(used') \in 0 .. NumWay
    BY <1>3, UsedCardinality
  <2>2. ASSUME NEW v \in Ways
        PROVE  lru'[v] <= FreshLru + NumWay
    BY <2>1, <1>2, <1>5, <1>6, <1>9, ReplacementAssumption DEF DistinctAges, FreshIsOldest
  <2>3. QED
    BY <2>2, <1>2
<1>12. QED
  BY <1>3, <1>4, <1>6, <1>9, <1>10, <1>11

(* The initial state satisfies the invariant: no way is used yet.          *)
LEMMA InitIInv == Init => IInv
<1> SUFFICES ASSUME Init PROVE IInv
  OBVIOUS
<1>1. Cardinality(used) = 0
  BY FS_EmptySet DEF Init
<1>2. QED
  BY <1>1, ReplacementAssumption DEF Init, IInv, TypeOK, RecencyOrder, DistinctAges, FreshIsOldest

(* Every hit, fill and invalidation preserves the invariant.               *)
LEMMA NextIInv == IInv /\ [Next]_vars => IInv'
<1> SUFFICES ASSUME IInv, [Next]_vars PROVE IInv'
  OBVIOUS
<1>1. ASSUME NEW w \in Ways, NEW type \in Types, Hit(w, type)
      PROVE  IInv'
  <2>1. CASE type = "WRITEBACK"
    BY <1>1, <2>1 DEF Hit, UpdateReplacementState, IInv, TypeOK, RecencyOrder,
                      DistinctAges, FreshIsOldest
  <2>2. CASE type # "WRITEBACK"
    <3>1. lru' = Promoted(w) /\ Record(w) /\ valid' = valid
      BY <1>1, <2>2 DEF Hit, UpdateReplacementState
    <3>2. QED
      BY <3>1, TouchKeepsOrder DEF IInv, TypeOK
  <2>3. QED
    BY <2>1, <2>2
<1>2. ASSUME NEW w \in Ways, NEW type \in Types, Fill(w, type)
      PROVE  IInv'
  <2>1. /\ lru' = Promoted(w) /\ Record(w)
        /\ valid' = [valid EXCEPT ![w] = TRUE]
    BY <1>2 DEF Fill, UpdateReplacementState
  <2>2. QED
    BY <2>1, TouchKeepsOrder DEF IInv, TypeOK
<1>3. ASSUME NEW w \in Ways, Invalidate(w)
      PROVE  IInv'
  BY <1>3 DEF Invalidate, IInv, TypeOK, RecencyOrder, DistinctAges, FreshIsOldest
<1>4. CASE UNCHANGED vars
  BY <1>4 DEF vars, IInv, TypeOK, RecencyOrder, DistinctAges, FreshIsOldest
<1>5. QED
  BY <1>1, <1>2, <1>3, <1>4 DEF Next

(* The invariant holds in every state of the specification.                *)
THEOREM Invariance == Spec => []IInv
<1>1. QED
  BY InitIInv, NextIInv, PTL DEF Spec

(* The lru fields of the used ways order them by recency of use.           *)
THEOREM RecencyOrderAlways == Spec => []RecencyOrder
<1>1. IInv => RecencyOrder
  BY DEF IInv
<1>2. QED
  BY <1>1, Invariance, PTL

(* The fields of the n used ways are distinct and below n.                 *)
THEOREM DistinctAgesAlways == Spec => []DistinctAges
<1>1. IInv => DistinctAges
  BY DEF IInv
<1>2. QED
  BY <1>1, Invariance, PTL

(* In a full set find_victim returns the least recently used way.          *)
THEOREM VictimLeastRecentAlways == Spec => []VictimLeastRecent
<1>1. IInv => VictimLeastRecent
  <2> SUFFICES ASSUME IInv, Free = {}, NEW w \in Ways, IsVictim(w),
                      NEW v \in Ways \ {w}
               PROVE  <<w, v>> \in usedBefore
    BY DEF VictimLeastRecent
  <2>1. w \in used /\ v \in used
    BY DEF Free, IInv
  <2>2. lru[w] \in Nat /\ lru[v] \in Nat /\ lru[w] # lru[v]
    BY <2>1 DEF IInv, TypeOK, DistinctAges
  <2>3. lru[w] > lru[v]
    BY <2>2 DEF IsVictim
  <2>4. QED
    BY <2>1, <2>3 DEF IInv, RecencyOrder
<1>2. QED
  BY <1>1, Invariance, PTL
-----------------------------------------------------------------------------
(***************************************************************************)
(* find_victim in a full set whose fields are in range: the blocks age     *)
(* together until the largest field is maxRRPV, with no wrap.              *)
(***************************************************************************)
LEMMA AgeingInRange ==
  ASSUME RripIInv, RripFree = {}
  PROVE  /\ Rounds \in 0 .. MaxRRPV
         /\ AgedRow \in [Ways -> 0 .. MaxRRPV]
         /\ \A w \in Ways : AgedRow[w] = rrpv[w] + Rounds
         /\ Victim \in Ways /\ AgedRow[Victim] = MaxRRPV
<1> DEFINE D == {(MaxRRPV - rrpv[w]) % FieldSize : w \in Ways}
           V == {w \in Ways : AgedRow[w] = MaxRRPV}
<1>1. \A w \in Ways : rrpv[w] \in 0 .. MaxRRPV
  BY DEF RripIInv, InRange, RripFree
<1>2. \A a \in 0 .. MaxRRPV : a % FieldSize = a
  BY RripAssumption DEF MaxRRPV
<1>3. \A w \in Ways : (MaxRRPV - rrpv[w]) % FieldSize = MaxRRPV - rrpv[w]
  BY <1>1, <1>2 DEF MaxRRPV
<1>4. D \in SUBSET Nat /\ D # {}
  <2>1. 0 \in Ways
    BY ReplacementAssumption DEF Ways
  <2>2. QED
    BY <1>1, <1>3, <2>1 DEF MaxRRPV
<1>5. Rounds \in D /\ \A y \in D : Rounds <= y
  BY <1>4, MinIsMember DEF Rounds
<1>6. PICK u \in Ways : Rounds = MaxRRPV - rrpv[u]
  BY <1>3, <1>5
<1>7. \A w \in Ways : Rounds <= MaxRRPV - rrpv[w]
  BY <1>3, <1>5
<1>8. Rounds \in 0 .. MaxRRPV
  BY <1>1, <1>6 DEF MaxRRPV
<1>9. \A w \in Ways : AgedRow[w] = rrpv[w] + Rounds /\ AgedRow[w] \in 0 .. MaxRRPV
  <2> TAKE w \in Ways
  <2>1. rrpv[w] + Rounds \in 0 .. MaxRRPV
    BY <1>1, <1>7, <1>8 DEF MaxRRPV
  <2>2. QED
    BY <1>2, <2>1 DEF AgedRow
<1>10. AgedRow \in [Ways -> 0 .. MaxRRPV]
  BY <1>9 DEF AgedRow
<1>11. V \in SUBSET Nat /\ u \in V
  BY <1>1, <1>6, <1>9, ReplacementAssumption DEF Ways, MaxRRPV
<1>12. Victim \in V
  BY <1>11, MinIsMember DEF Victim
<1> QED
  BY <1>8, <1>9, <1>10, <1>12

(***************************************************************************)
(* The fields a fill finds: whichever way it goes to, those of the blocks  *)
(* keep their range and their order.                                       *)
(***************************************************************************)
LEMMA FillFinds ==
  ASSUME RripIInv
  PROVE  /\ RripFillWay \in Ways
         /\ RripFillRow \in [Ways -> 0 .. FieldSize - 1]
         /\ \A w \in Ways : rripValid[w] => RripFillRow[w] \in 0 .. MaxRRPV
         /\ \A v \in inserted : RripFillRow[v] \in MaxRRPV - 1 .. MaxRRPV
         /\ \A p \in outlives : /\ RripFillRow[p[1]] < RripFillRow[p[2]]
                               /\ RripFillRow[p[2]] <= MaxRRPV
<1>1. CASE RripFree # {}
  <2>1. RripFree \in SUBSET Nat
    BY ReplacementAssumption DEF RripFree, Ways
  <2>2. RripFillWay \in RripFree
    BY <1>1, <2>1, MinIsMember DEF RripFillWay
  <2>3. RripFillRow = rrpv
    BY <1>1 DEF RripFillRow
  <2>4. QED
    BY <2>2, <2>3 DEF RripIInv, RripTypeOK, InRange, InsertedFar, Ordered, RripFree
<1>2. CASE RripFree = {}
  <2>1. RripFillRow = AgedRow /\ RripFillWay = Victim
    BY <1>2 DEF RripFillRow, RripFillWay
  <2>2. /\ inserted \subseteq Ways /\ outlives \subseteq Ways \X Ways
        /\ \A w \in Ways : rrpv[w] \in 0 .. FieldSize - 1
    BY DEF RripIInv, RripTypeOK
  <2>3. 0 .. MaxRRPV \subseteq 0 .. FieldSize - 1
    BY RripAssumption DEF MaxRRPV
  <2>4. RripFillRow \in [Ways -> 0 .. FieldSize - 1]
    BY <1>2, <2>1, <2>3, AgeingInRange
  <2>5. \A v \in inserted : RripFillRow[v] \in MaxRRPV - 1 .. MaxRRPV
    BY <1>2, <2>1, <2>2, AgeingInRange DEF RripIInv, InsertedFar, MaxRRPV
  <2>6. \A p \in outlives : /\ RripFillRow[p[1]] < RripFillRow[p[2]]
                          /\ RripFillRow[p[2]] <= MaxRRPV
    <3> TAKE p \in outlives
    <3>1. p[1] \in Ways /\ p[2] \in Ways /\ rrpv[p[1]] < rrpv[p[2]]
      BY <2>2 DEF RripIInv, Ordered
    <3>2. QED
      BY <1>2, <2>1, <2>2, <3>1, AgeingInRange, RripAssumption DEF MaxRRPV
  <2>7. QED
    BY <1>2, <2>1, <2>4, <2>5, <2>6, AgeingInRange
<1>3. QED
  BY <1>1, <1>2

(* A fill that predicts a long or a distant interval keeps the invariant.  *)
LEMMA FillKeeps ==
  ASSUME RripIInv, NEW value \in MaxRRPV - 1 .. MaxRRPV, SetOnFill(value)
  PROVE  RripIInv'
<1> DEFINE w == RripFillWay
<1>1. /\ w \in Ways
      /\ rripValid' = [rripValid EXCEPT ![w] = TRUE]
      /\ rrpv' = [RripFillRow EXCEPT ![w] = value]
      /\ inserted' = inserted \union {w}
      /\ outlives' = {p \in outlives : w \notin {p[1], p[2]}}
  BY FillFinds DEF SetOnFill, RecordInserted
<1>2. value \in 0 .. MaxRRPV /\ value \in 0 .. FieldSize - 1
  BY RripAssumption DEF MaxRRPV
<1>3. /\ inserted \subseteq Ways /\ outlives \subseteq Ways \X Ways
      /\ rripValid \in [Ways -> BOOLEAN]
  BY DEF RripIInv, RripTypeOK
<1> HIDE DEF w
<1>4. RripTypeOK'
  BY <1>1, <1>2, <1>3, FillFinds DEF RripTypeOK
<1>5. InRange'
  BY <1>1, <1>2, <1>3, FillFinds DEF InRange
<1>6. InsertedFar'
  BY <1>1, <1>3, FillFinds DEF InsertedFar
<1>7. Ordered'
  <2> SUFFICES ASSUME NEW p \in outlives'
               PROVE  rrpv'[p[1]] < rrpv'[p[2]] /\ rrpv'[p[2]] <= MaxRRPV
    BY DEF Ordered
  <2>1. p \in outlives /\ p[1] \in Ways /\ p[2] \in Ways /\ p[1] # w /\ p[2] # w
    BY <1>1, <1>3
  <2>2. rrpv'[p[1]] = RripFillRow[p[1]] /\ rrpv'[p[2]] = RripFillRow[p[2]]
    BY <1>1, <2>1, FillFinds
  <2>3. QED
    BY <2>1, <2>2, FillFinds
<1>8. QED
  BY <1>4, <1>5, <1>6, <1>7 DEF RripIInv

(* So does a promotion: the block is now nearer than all inserted ones.    *)
LEMMA PromotionKeeps ==
  ASSUME RripIInv, NEW w \in Ways, SetOnHit(w, 0), RecordPromoted(w)
  PROVE  RripIInv'
<1>1. /\ rripValid' = rripValid
      /\ rrpv' = [rrpv EXCEPT ![w] = 0]
      /\ inserted' = inserted \ {w}
      /\ outlives' = {p \in outlives : w \notin {p[1], p[2]}} \union ({w} \X (inserted \ {w}))
  BY DEF SetOnHit, RecordPromoted
<1>2. /\ inserted \subseteq Ways /\ outlives \subseteq Ways \X Ways
      /\ rripValid \in [Ways -> BOOLEAN] /\ rrpv \in [Ways -> 0 .. FieldSize - 1]
      /\ \A v \in inserted : rrpv[v] \in MaxRRPV - 1 .. MaxRRPV
  BY DEF RripIInv, RripTypeOK, InsertedFar
<1>3. 0 \in 0 .. FieldSize - 1
  BY RripAssumption DEF MaxRRPV
<1>4. RripTypeOK'
  BY <1>1, <1>2, <1>3 DEF RripTypeOK
<1>5. InRange'
  BY <1>1, <1>2 DEF InRange, RripIInv, MaxRRPV
<1>6. InsertedFar'
  BY <1>1, <1>2 DEF InsertedFar
<1>7. Ordered'
  <2> SUFFICES ASSUME NEW p \in outlives'
               PROVE  rrpv'[p[1]] < rrpv'[p[2]] /\ rrpv'[p[2]] <= MaxRRPV
    BY DEF Ordered
  <2>1. CASE p \in outlives /\ p[1] # w /\ p[2] # w
    <3>1. p[1] \in Ways /\ p[2] \in Ways
      BY <1>2, <2>1
    <3>2. rrpv'[p[1]] = rrpv[p[1]] /\ rrpv'[p[2]] = rrpv[p[2]]
      BY <1>1, <1>2, <2>1, <3>1
    <3>3. QED
      BY <2>1, <3>2 DEF RripIInv, Ordered
  <2>2. CASE p \in {w} \X (inserted \ {w})
    <3>1. p[1] = w /\ p[2] \in inserted /\ p[2] # w /\ p[2] \in Ways
      BY <1>2, <2>2
    <3>2. rrpv'[p[1]] = 0 /\ rrpv'[p[2]] = rrpv[p[2]]
      BY <1>1, <1>2, <3>1
    <3>3. QED
      BY <1>2, <3>1, <3>2 DEF MaxRRPV
  <2>3. QED
    BY <1>1, <2>1, <2>2
<1>8. QED
  BY <1>4, <1>5, <1>6, <1>7 DEF RripIInv

(* A writeback that hits in DRRIP counts as an insertion.                  *)
LEMMA WritebackKeeps ==
  ASSUME RripIInv, NEW w \in Ways, SetOnHit(w, MaxRRPV - 1), RecordInserted(w)
  PROVE  RripIInv'
<1>1. /\ rripValid' = rripValid
      /\ rrpv' = [rrpv EXCEPT ![w] = MaxRRPV - 1]
      /\ inserted' = inserted \union {w}
      /\ outlives' = {p \in outlives : w \notin {p[1], p[2]}}
  BY DEF SetOnHit, RecordInserted
<1>2. /\ inserted \subseteq Ways /\ outlives \subseteq Ways \X Ways
      /\ rripValid \in [Ways -> BOOLEAN] /\ rrpv \in [Ways -> 0 .. FieldSize - 1]
      /\ \A v \in inserted : rrpv[v] \in MaxRRPV - 1 .. MaxRRPV
  BY DEF RripIInv, RripTypeOK, InsertedFar
<1>3. MaxRRPV - 1 \in 0 .. FieldSize - 1
  BY RripAssumption DEF MaxRRPV
<1>4. RripTypeOK'
  BY <1>1, <1>2, <1>3 DEF RripTypeOK
<1>5. InRange'
  BY <1>1, <1>2 DEF InRange, RripIInv, MaxRRPV
<1>6. InsertedFar'
  BY <1>1, <1>2 DEF InsertedFar, MaxRRPV
<1>7. Ordered'
  <2> SUFFICES ASSUME NEW p \in outlives'
               PROVE  rrpv'[p[1]] < rrpv'[p[2]] /\ rrpv'[p[2]] <= MaxRRPV
    BY DEF Ordered
  <2>1. p \in outlives /\ p[1] \in Ways /\ p[2] \in Ways /\ p[1] # w /\ p[2] # w
    BY <1>1, <1>2
  <2>2. rrpv'[p[1]] = rrpv[p[1]] /\ rrpv'[p[2]] = rrpv[p[2]]
    BY <1>1, <1>2, <2>1
  <2>3. QED
    BY <2>1, <2>2 DEF RripIInv, Ordered
<1>8. QED
  BY <1>4, <1>5, <1>6, <1>7 DEF RripIInv

LEMMA InvalidationKeeps ==
  ASSUME RripIInv, NEW w \in Ways, RripInvalidate(w)
  PROVE  RripIInv'
BY DEF RripIInv, RripTypeOK, InRange, InsertedFar, Ordered, RripInvalidate

LEMMA RripInitKeeps ==
  ASSUME NEW initial \in 0 .. FieldSize - 1, RripInit(initial)
  PROVE  RripIInv
BY DEF RripIInv, RripTypeOK, InRange, InsertedFar, Ordered, RripInit
-----------------------------------------------------------------------------
(* The inductive invariant of SRRIP (replacement/srrip/srrip.cc).          *)
THEOREM SrripInvariance == SrripSpec => []RripIInv
<1>1. RripInit(MaxRRPV) => RripIInv
  <2>1. MaxRRPV \in 0 .. FieldSize - 1
    BY RripAssumption DEF MaxRRPV
  <2>2. QED
    BY <2>1, RripInitKeeps
<1>2. RripIInv /\ [SrripNext]_rripVars => RripIInv'
  <2> SUFFICES ASSUME RripIInv, [SrripNext]_rripVars
               PROVE  RripIInv'
    OBVIOUS
  <2>1. CASE SrripFill
    <3>1. MaxRRPV - 1 \in MaxRRPV - 1 .. MaxRRPV
      BY DEF MaxRRPV
    <3>2. QED
      BY <2>1, <3>1, FillKeeps DEF SrripFill
  <2>2. ASSUME NEW w \in Ways, SrripHit(w)
        PROVE  RripIInv'
    BY <2>2, PromotionKeeps DEF SrripHit
  <2>3. ASSUME NEW w \in Ways, RripInvalidate(w)
        PROVE  RripIInv'
    BY <2>3, InvalidationKeeps
  <2>4. CASE UNCHANGED rripVars
    BY <2>4 DEF rripVars, RripIInv, RripTypeOK, InRange, InsertedFar, Ordered
  <2>5. QED
    BY <2>1, <2>2, <2>3, <2>4 DEF SrripNext
<1>3. QED
  BY <1>1, <1>2, PTL DEF SrripSpec

(***************************************************************************)
(* What a full set promises follows from the invariant.                    *)
(***************************************************************************)
LEMMA InvariantProtects ==
  ASSUME RripIInv
  PROVE  FindsVictimSoon /\ HitOutlivesInserted
<1>1. FindsVictimSoon
  BY AgeingInRange DEF FindsVictimSoon
<1>2. ASSUME RripFree = {}, NEW v \in Ways, <<Victim, v>> \in outlives
      PROVE  FALSE
  <2> DEFINE w == Victim
  <2>1. /\ w \in Ways /\ AgedRow[w] = MaxRRPV
        /\ AgedRow[w] = rrpv[w] + Rounds /\ AgedRow[v] = rrpv[v] + Rounds
        /\ AgedRow[v] \in 0 .. MaxRRPV /\ Rounds \in 0 .. MaxRRPV
    BY <1>2, AgeingInRange
  <2>2. rrpv[w] < rrpv[v]
    BY <1>2 DEF RripIInv, Ordered
  <2>3. rrpv[w] \in Int /\ rrpv[v] \in Int
    BY <2>1 DEF RripIInv, RripTypeOK
  <2> HIDE DEF w
  <2>4. QED
    BY <2>1, <2>2, <2>3 DEF MaxRRPV
<1>3. QED
  BY <1>1, <1>2 DEF HitOutlivesInserted

(***************************************************************************)
(* SRRIP always finds its victim within maxRRPV rounds, and a hit protects *)
(* a block against those inserted before it.                               *)
(***************************************************************************)
THEOREM SrripProtects == SrripSpec => [](FindsVictimSoon /\ HitOutlivesInserted)
BY SrripInvariance, InvariantProtects, PTL

(* A fill in a set that is not sampled, or leads, predicts far.            *)
LEMMA InsertsFar ==
  ASSUME role \in Roles \ {"sampled"}
  PROVE  Insertion \in MaxRRPV - 1 .. MaxRRPV
BY DEF Insertion, Roles, MaxRRPV

(* The inductive invariant of DRRIP (replacement/drrip/drrip.cc).          *)
THEOREM DrripInvariance == DrripSpec => []DrripIInv
<1>1. DrripInit => DrripIInv
  BY RripAssumption, RripInitKeeps DEF DrripInit, DuelInit, DrripIInv, MaxRRPV
<1>2. DrripIInv /\ [DrripNext]_drripVars => DrripIInv'
  <2> SUFFICES ASSUME DrripIInv, [DrripNext]_drripVars
               PROVE  DrripIInv'
    OBVIOUS
  <2>1. role' = role /\ role \in Roles
    BY DEF DrripIInv, DrripNext, DrripHit, DrripFill, OtherSetMisses, drripVars
  <2> SUFFICES ASSUME role # "sampled"
               PROVE  RripIInv'
    BY <2>1 DEF DrripIInv
  <2>2. RripIInv
    BY DEF DrripIInv
  <2>3. ASSUME NEW w \in Ways, NEW type \in Types, DrripHit(w, type)
        PROVE  RripIInv'
    BY <2>2, <2>3, PromotionKeeps, WritebackKeeps DEF DrripHit
  <2>4. ASSUME NEW type \in Types, DrripFill(type)
        PROVE  RripIInv'
    <3>1. PICK value \in MaxRRPV - 1 .. MaxRRPV : SetOnFill(value)
      <4>1. MaxRRPV - 1 \in MaxRRPV - 1 .. MaxRRPV
        BY DEF MaxRRPV
      <4>2. QED
        BY <2>1, <2>4, <4>1, InsertsFar DEF DrripFill
    <3>2. QED
      BY <2>2, <3>1, FillKeeps
  <2>5. ASSUME NEW w \in Ways, RripInvalidate(w)
        PROVE  RripIInv'
    BY <2>2, <2>5, InvalidationKeeps
  <2>6. ASSUME UNCHANGED rripVars
        PROVE  RripIInv'
    BY <2>2, <2>6 DEF rripVars, RripIInv, RripTypeOK, InRange, InsertedFar, Ordered
  <2>7. QED
    BY <2>3, <2>4, <2>5, <2>6 DEF DrripNext, OtherSetMisses, drripVars
<1>3. QED
  BY <1>1, <1>2, PTL DEF DrripSpec

(* DRRIP's search is short wherever a fill predicts.                       *)
THEOREM DrripVictimFoundSoon == DrripSpec => []VictimFoundSoon
<1>1. DrripIInv => VictimFoundSoon
  BY InvariantProtects DEF DrripIInv, VictimFoundSoon
<1>2. QED
  BY <1>1, DrripInvariance, PTL

(* And there a hit protects a block against those inserted before it.      *)
THEOREM DrripHitProtects == DrripSpec => []HitProtects
<1>1. DrripIInv => HitProtects
  BY InvariantProtects DEF DrripIInv, HitProtects
<1>2. QED
  BY <1>1, DrripInvariance, PTL

(* A miss moves PSEL by one step, up only in the set that leads for SRRIP  *)
(* and down only in the one that leads for BIP.                            *)
LEMMA DuelMoves ==
  ASSUME DrripTypeOK, NEW r \in Roles, Duel(r)
  PROVE  /\ psel' \in 0 .. PselMax /\ bip' \in 0 .. BipMax - 1
         /\ psel' > psel => r = "srrip_leader"
         /\ psel' < psel => r = "bip_leader"
<1>1. psel' = IF r = "bip_leader" /\ psel > 0 THEN psel - 1
              ELSE IF r = "srrip_leader" /\ psel < PselMax THEN psel + 1 ELSE psel
  BY DEF Duel
<1>2. bip' = IF InsertsAsBip(r) THEN (bip + 1) % BipMax ELSE bip
  BY DEF Duel
<1>3. psel \in 0 .. PselMax /\ bip \in 0 .. BipMax - 1
  BY DEF DrripTypeOK
<1>4. (bip + 1) % BipMax \in 0 .. BipMax - 1
  BY <1>3, DrripAssumption
<1> QED
  BY <1>1, <1>2, <1>3, <1>4, DrripAssumption

(* What a step of DRRIP does to the counters it does by Duel.              *)
LEMMA DrripStepDuels ==
  ASSUME DrripTypeOK, [DrripNext]_drripVars
  PROVE  /\ role' = role
         /\ \/ UNCHANGED <<psel, bip>>
            \/ \E r \in Roles : Duel(r) /\ MissIn(r)
<1>1. role \in Roles
  BY DEF DrripTypeOK
<1>2. ASSUME NEW type \in Types, DrripFill(type)
      PROVE  /\ role' = role
             /\ \/ UNCHANGED <<psel, bip>>
                \/ \E r \in Roles : Duel(r) /\ MissIn(r)
  BY <1>1, <1>2 DEF DrripFill, MissIn
<1>3. ASSUME NEW r \in Roles, OtherSetMisses(r)
      PROVE  role' = role /\ Duel(r) /\ MissIn(r)
  BY <1>3 DEF OtherSetMisses, MissIn
<1> QED
  BY <1>2, <1>3 DEF DrripNext, DrripHit, drripVars

(* PSEL and BIP's counter stay in their ranges in any set.                 *)
THEOREM DrripTypesAlways == DrripSpec => []DrripTypeOK
<1>1. DrripInit => DrripTypeOK
  BY DrripAssumption DEF DrripInit, DuelInit, DrripTypeOK
<1>2. DrripTypeOK /\ [DrripNext]_drripVars => DrripTypeOK'
  BY DrripStepDuels, DuelMoves DEF DrripTypeOK
<1> QED
  BY <1>1, <1>2, PTL DEF DrripSpec

(* The followers abandon a policy only at a miss in the set that leads for *)
(* it, for any width of PSEL.                                              *)
THEOREM DrripAbandonsTheLoser == DrripSpec => AbandonsTheLoser
<1>1. ASSUME DrripTypeOK, [DrripNext]_drripVars, FollowsBip <=> ~FollowsBip'
      PROVE  MissIn(IF FollowsBip THEN "bip_leader" ELSE "srrip_leader")
  <2>1. /\ psel \in 0 .. PselMax /\ psel # psel'
        /\ FollowsBip <=> psel > PselMax \div 2
        /\ FollowsBip' <=> psel' > PselMax \div 2
    BY <1>1 DEF FollowsBip, DrripTypeOK
  <2>2. PICK r \in Roles : Duel(r) /\ MissIn(r)
    BY <1>1, <2>1, DrripStepDuels
  <2>3. /\ psel' \in 0 .. PselMax
        /\ psel' > psel => r = "srrip_leader"
        /\ psel' < psel => r = "bip_leader"
    BY <1>1, <2>2, DuelMoves
  <2>4. PselMax \div 2 \in Int
    BY DrripAssumption
  <2>5. r = IF FollowsBip THEN "bip_leader" ELSE "srrip_leader"
    BY <1>1, <2>1, <2>3, <2>4
  <2> QED
    BY <2>2, <2>5
<1>2. DrripTypeOK /\ [DrripNext]_drripVars =>
        [(FollowsBip <=> ~FollowsBip') =>
           MissIn(IF FollowsBip THEN "bip_leader" ELSE "srrip_leader")]_drripVars
  BY <1>1
<1> QED
  BY <1>2, DrripTypesAlways, PTL DEF DrripSpec, AbandonsTheLoser
-----------------------------------------------------------------------------
(***************************************************************************)
(* The blocks of a set under SHiP (replacement/ship/ship.cc): whatever the *)
(* counters say, a fill predicts a long or a distant interval.             *)
(***************************************************************************)
THEOREM ShipInvariance == ShipSetSpec => []RripIInv
<1>1. RripInit(FreshLru) => RripIInv
  BY RripAssumption, RripInitKeeps DEF MaxRRPV
<1>2. RripIInv /\ [ShipSetNext]_shipVars => RripIInv'
  <2> SUFFICES ASSUME RripIInv, [ShipSetNext]_shipVars
               PROVE  RripIInv'
    OBVIOUS
  <2>1. MaxRRPV - 1 \in MaxRRPV - 1 .. MaxRRPV /\ MaxRRPV \in MaxRRPV - 1 .. MaxRRPV
    BY DEF MaxRRPV
  <2>2. ASSUME NEW w \in Ways, ShipHit(w)
        PROVE  RripIInv'
    BY <2>2, PromotionKeeps DEF ShipHit
  <2>3. ASSUME NEW ip \in Ips, ShipFill(ip)
        PROVE  RripIInv'
    BY <2>1, <2>3, FillKeeps DEF ShipFill, Prediction
  <2>4. CASE WritebackFill
    BY <2>1, <2>4, FillKeeps DEF WritebackFill
  <2>5. ASSUME NEW w \in Ways, RripInvalidate(w)
        PROVE  RripIInv'
    BY <2>5, InvalidationKeeps
  <2>6. ASSUME UNCHANGED rripVars
        PROVE  RripIInv'
    BY <2>6 DEF rripVars, RripIInv, RripTypeOK, InRange, InsertedFar, Ordered
  <2>7. QED
    BY <2>2, <2>3, <2>4, <2>5, <2>6 DEF ShipSetNext, CountersChange, shipVars
<1>3. QED
  BY <1>1, <1>2, PTL DEF ShipSetSpec

(***************************************************************************)
(* SHiP too finds its victim within maxRRPV rounds, and protects a block   *)
(* that was hit against those inserted before.                             *)
(***************************************************************************)
THEOREM ShipProtects == ShipSetSpec => [](FindsVictimSoon /\ HitOutlivesInserted)
BY ShipInvariance, InvariantProtects, PTL
-----------------------------------------------------------------------------
(* The windows of all sampled sets lie within the sampler.                 *)
LEMMA WindowsWithin ==
  ASSUME NEW i \in 0 .. SamplerSets - 1
  PROVE  /\ Window(i) \subseteq Samples
         /\ Window(i) \subseteq 0 .. SamplerSets + SamplerWays - 2
<1> DEFINE product == SamplerSets * SamplerWays
<1>1. SamplerSets \in Nat \ {0} /\ SamplerWays \in Nat \ {0}
  BY ShipAssumption
<1>2. (SamplerSets - 1) * (SamplerWays - 1) \in Nat
  BY <1>1
<1>3. (SamplerSets - 1) * (SamplerWays - 1) = product - SamplerSets - SamplerWays + 1
  BY <1>1
<1>4. product \in Nat /\ SamplerSets + SamplerWays - 1 <= product
  BY <1>1, <1>2, <1>3
<1> HIDE DEF product
<1>5. Samples = 0 .. product - 1
  BY DEF Samples, product
<1> QED
  BY <1>1, <1>4, <1>5 DEF Window

(* The entries that lie in some window.                                    *)
LEMMA SampledEntries ==
  /\ IsFiniteSet(0 .. SamplerSets + SamplerWays - 2)
  /\ Cardinality(0 .. SamplerSets + SamplerWays - 2) = SamplerSets + SamplerWays - 1
<1> DEFINE largest == SamplerSets + SamplerWays - 2
<1>1. SamplerSets \in Nat \ {0} /\ SamplerWays \in Nat \ {0}
  BY ShipAssumption
<1>2. largest \in Nat /\ largest - 0 + 1 = SamplerSets + SamplerWays - 1 /\ ~(0 > largest)
  BY <1>1
<1> HIDE DEF largest
<1>3. /\ IsFiniteSet(0 .. largest)
      /\ Cardinality(0 .. largest) = SamplerSets + SamplerWays - 1
  BY <1>2, FS_Interval
<1> QED
  BY <1>3 DEF largest

LEMMA FewEntries ==
  ASSUME NEW S \in SUBSET (0 .. SamplerSets + SamplerWays - 2)
  PROVE  IsFiniteSet(S) /\ Cardinality(S) <= SamplerSets + SamplerWays - 1
<1> DEFINE all == 0 .. SamplerSets + SamplerWays - 2
<1>1. S \in SUBSET all /\ IsFiniteSet(all) /\ Cardinality(all) = SamplerSets + SamplerWays - 1
  BY SampledEntries
<1> HIDE DEF all
<1>2. IsFiniteSet(S) /\ Cardinality(S) <= Cardinality(all)
  BY <1>1, FS_Subset
<1> QED
  BY <1>1, <1>2

(* The sets of reused entries are finite, and no larger than the sampler.  *)
LEMMA ReusedFew ==
  ASSUME SamplerIInv, NEW p \in Ips
  PROVE  /\ IsFiniteSet(ReusedBy(p))
         /\ Cardinality(ReusedBy(p)) \in 0 .. SamplerSets + SamplerWays - 1
<1>1. SamplerSets \in Nat \ {0} /\ SamplerWays \in Nat \ {0}
  BY ShipAssumption
<1>3. \A e \in Samples : e \in Nat
  BY DEF Samples
<1>4. ReusedBy(p) \in SUBSET (0 .. SamplerSets + SamplerWays - 2)
  BY <1>1, <1>3 DEF ReusedBy, SamplerIInv, ReusedWritten
<1>5. IsFiniteSet(ReusedBy(p)) /\ Cardinality(ReusedBy(p)) <= SamplerSets + SamplerWays - 1
  BY <1>4, FewEntries
<1> QED
  BY <1>1, <1>5, FS_CardinalityType

(* Touching an entry ages others of its window, and changes no more.       *)
LEMMA TouchedEntries ==
  ASSUME ShipTypeOK, NEW i \in 0 .. SamplerSets - 1, NEW e \in Window(i), Younger(i, e),
         NEW entry \in [region : Regions \union {Nowhere}, ip : Ips \union {Nowhere},
                        used : BOOLEAN, lru : 0 .. MaxAge],
         sampler' = Touched(i, e, entry)
  PROVE  /\ sampler' \in [Samples -> [region : Regions \union {Nowhere},
                                      ip : Ips \union {Nowhere},
                                      used : BOOLEAN, lru : 0 .. MaxAge]]
         /\ e \in Samples /\ sampler'[e] = entry
         /\ \A x \in Samples \ {e} : /\ sampler'[x].region = sampler[x].region
                                     /\ sampler'[x].ip = sampler[x].ip
                                     /\ sampler'[x].used = sampler[x].used
<1> DEFINE Entries == [region : Regions \union {Nowhere}, ip : Ips \union {Nowhere},
                       used : BOOLEAN, lru : 0 .. MaxAge]
<1>1. e \in Samples
  BY WindowsWithin
<1>2. ASSUME NEW x \in Samples, x # e
      PROVE  /\ sampler'[x] \in Entries
             /\ sampler'[x].region = sampler[x].region
             /\ sampler'[x].ip = sampler[x].ip
             /\ sampler'[x].used = sampler[x].used
  <2>1. sampler[x] \in Entries
    BY DEF ShipTypeOK
  <2>2. CASE x \in Window(i) /\ sampler[x].region # Nowhere
    <3>1. sampler'[x] = [sampler[x] EXCEPT !.lru = sampler[x].lru + 1]
      BY <1>2, <2>2 DEF Touched
    <3>2. sampler[x].lru \in 0 .. MaxAge /\ sampler[x].lru < MaxAge
      BY <1>2, <2>1, <2>2 DEF Younger
    <3>3. sampler[x].lru + 1 \in 0 .. MaxAge
      BY <3>2, ShipAssumption
    <3> QED
      BY <2>1, <3>1, <3>3
  <2>3. CASE ~(x \in Window(i) /\ sampler[x].region # Nowhere)
    <3>1. sampler'[x] = sampler[x]
      BY <1>2, <2>3 DEF Touched
    <3> QED
      BY <2>1, <3>1
  <2> QED
    BY <2>2, <2>3
<1>3. sampler'[e] = entry
  BY <1>1 DEF Touched
<1>4. sampler' = [x \in Samples |-> sampler'[x]]
  BY DEF Touched
<1> QED
  BY <1>1, <1>2, <1>3, <1>4

(***************************************************************************)
(* A hit in the sampler: its entry joins the reused ones of its            *)
(* instruction, unless it is there, and the counter falls unless it is 0.  *)
(***************************************************************************)
LEMMA SamplerHitKeeps ==
  ASSUME SamplerIInv, NEW i \in 0 .. SamplerSets - 1, NEW region \in Regions,
         SamplerHit(i, region)
  PROVE  SamplerIInv'
<1> DEFINE e == Min(Matches(i, region))
           q == sampler[e].ip
           entry == [region |-> region, ip |-> q, used |-> TRUE, lru |-> 0]
<1>1. e \in Window(i) /\ sampler[e].region = region
  <2>1. Matches(i, region) \in SUBSET Nat /\ Matches(i, region) # {}
    BY WindowsWithin DEF Matches, SamplerHit, Samples
  <2>2. e \in Matches(i, region)
    BY <2>1, MinIsMember
  <2> QED
    BY <2>2 DEF Matches
<1>2. /\ Younger(i, e)
      /\ shct' = Reused(q)
      /\ sampler' = Touched(i, e, entry)
  BY DEF SamplerHit
<1> HIDE DEF e
<1>3. /\ e \in Samples /\ e <= SamplerSets + SamplerWays - 2
      /\ sampler[e] \in [region : Regions \union {Nowhere}, ip : Ips \union {Nowhere},
                         used : BOOLEAN, lru : 0 .. MaxAge]
  BY <1>1, WindowsWithin DEF SamplerIInv, ShipTypeOK
<1>4. q \in Ips
  BY <1>1, <1>3, ShipAssumption DEF SamplerIInv, ReusedWritten
<1>5. /\ entry \in [region : Regions \union {Nowhere}, ip : Ips \union {Nowhere},
                    used : BOOLEAN, lru : 0 .. MaxAge]
      /\ entry.used = TRUE /\ entry.ip = q /\ entry.region = region
  BY <1>1, <1>3, ShipAssumption
<1> HIDE DEF entry, q
<1>6. /\ sampler' \in [Samples -> [region : Regions \union {Nowhere},
                                   ip : Ips \union {Nowhere},
                                   used : BOOLEAN, lru : 0 .. MaxAge]]
      /\ sampler'[e] = entry
      /\ \A x \in Samples \ {e} : /\ sampler'[x].region = sampler[x].region
                                  /\ sampler'[x].ip = sampler[x].ip
                                  /\ sampler'[x].used = sampler[x].used
  BY <1>1, <1>2, <1>5, TouchedEntries DEF SamplerIInv
<1>7. shct \in [Ips -> 0 .. ShctMax]
  BY DEF SamplerIInv, ShipTypeOK
<1>8. shct' = [shct EXCEPT ![q] = IF shct[q] > 0 THEN shct[q] - 1 ELSE 0]
  BY <1>2, <1>4, <1>7 DEF Reused
<1>9. ShipTypeOK'
  BY <1>4, <1>6, <1>7, <1>8, ShipAssumption DEF ShipTypeOK
<1>10. ReusedWritten'
  BY <1>1, <1>3, <1>4, <1>5, <1>6, ShipAssumption DEF SamplerIInv, ReusedWritten
<1>11. ASSUME NEW p \in Ips
       PROVE  shct'[p] + Cardinality(ReusedBy(p)') <= SamplerSets + SamplerWays - 1
  <2>1. /\ IsFiniteSet(ReusedBy(p))
        /\ Cardinality(ReusedBy(p)) \in 0 .. SamplerSets + SamplerWays - 1
        /\ shct[p] + Cardinality(ReusedBy(p)) <= SamplerSets + SamplerWays - 1
        /\ shct[p] \in Nat
    BY <1>7, ReusedFew DEF SamplerIInv, CountersWithinSampler
  <2>2. CASE p = q
    <3>1. ReusedBy(p)' = ReusedBy(p) \union {e}
      BY <1>3, <1>4, <1>5, <1>6, <2>2 DEF ReusedBy
    <3>2. Cardinality(ReusedBy(p)') =
            IF e \in ReusedBy(p) THEN Cardinality(ReusedBy(p)) ELSE Cardinality(ReusedBy(p)) + 1
      BY <2>1, <3>1, FS_AddElement
    <3>3. shct'[p] = IF shct[p] > 0 THEN shct[p] - 1 ELSE 0
      BY <1>4, <1>7, <1>8, <2>2
    <3>4. Cardinality(ReusedBy(p)') <= SamplerSets + SamplerWays - 1
      <4>1. ReusedBy(p)' \subseteq 0 .. SamplerSets + SamplerWays - 2
        <5>1. \A x \in Samples : x \in Nat
          BY DEF Samples
        <5> QED
          BY <1>10, <5>1, ShipAssumption DEF ReusedBy, ReusedWritten
      <4> QED
        BY <4>1, FewEntries
    <3> QED
      BY <2>1, <3>2, <3>3, <3>4, ShipAssumption
  <2>3. CASE p # q
    <3>1. ReusedBy(p)' = ReusedBy(p)
      <4>1. e \notin ReusedBy(p) /\ e \notin ReusedBy(p)'
        BY <1>5, <1>6, <2>3 DEF ReusedBy, q
      <4>2. \A x \in Samples \ {e} : x \in ReusedBy(p)' <=> x \in ReusedBy(p)
        BY <1>6 DEF ReusedBy
      <4>3. ReusedBy(p) \subseteq Samples /\ ReusedBy(p)' \subseteq Samples
        BY DEF ReusedBy, Samples
      <4> QED
        BY <4>1, <4>2, <4>3
    <3>2. shct'[p] = shct[p]
      BY <1>4, <1>7, <1>8, <2>3
    <3> QED
      BY <2>1, <3>1, <3>2
  <2> QED
    BY <2>2, <2>3
<1> QED
  BY <1>9, <1>10, <1>11 DEF SamplerIInv, CountersWithinSampler

(* The entry that a miss takes is one of its window.                       *)
LEMMA OldestInWindow ==
  ASSUME ShipTypeOK, NEW i \in 0 .. SamplerSets - 1
  PROVE  OldestSample(i) \in Window(i)
<1> DEFINE invalid == {e \in Window(i) : sampler[e].region = Nowhere}
           oldest == {e \in Window(i) : \A x \in Window(i) : sampler[x].lru <= sampler[e].lru}
<1>1. Window(i) \in SUBSET Nat /\ i \in Window(i)
  BY ShipAssumption DEF Window
<1>2. CASE invalid # {}
  <2>1. PICK m \in invalid : \A x \in invalid : x <= m
    <3> DEFINE left == [x \in invalid |-> i + SamplerWays - x]
    <3>1. \A x \in invalid : x \in Nat /\ i + SamplerWays - x \in Nat
      BY <1>1, ShipAssumption DEF Window
    <3>2. left \in [invalid -> Nat]
      BY <3>1
    <3>3. PICK m \in invalid : \A x \in invalid : left[m] <= left[x]
      BY <1>2, <3>2, LeastExists
    <3>4. \A x \in invalid : i + SamplerWays - m <= i + SamplerWays - x
      BY <3>3
    <3>5. \A x \in invalid : x <= m
      <4> HIDE DEF invalid, left
      <4> QED
        BY <3>1, <3>4, ShipAssumption
    <3> QED
      BY <3>5
  <2>2. Max(invalid) \in invalid
    BY <2>1 DEF Max
  <2> QED
    BY <1>2, <2>2 DEF OldestSample
<1>3. CASE invalid = {}
  <2>1. oldest # {}
    <3>1. \A x \in Window(i) : sampler[x].lru \in 0 .. MaxAge
      BY WindowsWithin DEF ShipTypeOK
    <3> DEFINE left == [x \in Window(i) |-> MaxAge - sampler[x].lru]
    <3>2. left \in [Window(i) -> Nat]
      BY <3>1, ShipAssumption
    <3>3. PICK w \in Window(i) : \A v \in Window(i) : left[w] <= left[v]
      BY <1>1, <3>2, LeastExists
    <3>4. \A v \in Window(i) : sampler[v].lru <= sampler[w].lru
      BY <3>1, <3>3, ShipAssumption
    <3> QED
      BY <3>4
  <2>2. oldest \in SUBSET Nat
    BY <1>1
  <2>3. Min(oldest) \in oldest
    BY <2>1, <2>2, MinIsMember
  <2> QED
    BY <1>3, <2>3 DEF OldestSample
<1> QED
  BY <1>2, <1>3

(***************************************************************************)
(* A miss in the sampler: the entry that goes leaves the reused ones of    *)
(* its instruction, if it was among them, and only then the counter rises. *)
(***************************************************************************)
LEMMA SamplerMissKeeps ==
  ASSUME SamplerIInv, NEW i \in 0 .. SamplerSets - 1, NEW region \in Regions, NEW ip \in Ips,
         SamplerMiss(i, region, ip)
  PROVE  SamplerIInv'
<1> DEFINE e == OldestSample(i)
           q == sampler[e].ip
           entry == [region |-> region, ip |-> ip, used |-> FALSE, lru |-> 0]
<1>1. e \in Window(i)
  BY OldestInWindow DEF SamplerIInv
<1>2. /\ Younger(i, e)
      /\ shct' = IF sampler[e].used /\ shct[q] < ShctMax
                 THEN [shct EXCEPT ![q] = shct[q] + 1] ELSE shct
      /\ sampler' = Touched(i, e, entry)
  BY DEF SamplerMiss
<1> HIDE DEF e
<1>3. /\ e \in Samples /\ e <= SamplerSets + SamplerWays - 2
      /\ sampler[e] \in [region : Regions \union {Nowhere}, ip : Ips \union {Nowhere},
                         used : BOOLEAN, lru : 0 .. MaxAge]
  BY <1>1, WindowsWithin DEF SamplerIInv, ShipTypeOK
<1>4. sampler[e].used => q \in Ips
  BY <1>3 DEF SamplerIInv, ReusedWritten
<1>5. /\ entry \in [region : Regions \union {Nowhere}, ip : Ips \union {Nowhere},
                    used : BOOLEAN, lru : 0 .. MaxAge]
      /\ entry.used = FALSE /\ entry.ip = ip /\ entry.region = region
  BY ShipAssumption
<1> HIDE DEF entry, q
<1>6. /\ sampler' \in [Samples -> [region : Regions \union {Nowhere},
                                   ip : Ips \union {Nowhere},
                                   used : BOOLEAN, lru : 0 .. MaxAge]]
      /\ sampler'[e] = entry
      /\ \A x \in Samples \ {e} : /\ sampler'[x].region = sampler[x].region
                                  /\ sampler'[x].ip = sampler[x].ip
                                  /\ sampler'[x].used = sampler[x].used
  BY <1>1, <1>2, <1>5, TouchedEntries DEF SamplerIInv
<1>7. shct \in [Ips -> 0 .. ShctMax]
  BY DEF SamplerIInv, ShipTypeOK
<1>8. ShipTypeOK'
  <2>1. shct' \in [Ips -> 0 .. ShctMax]
    BY <1>2, <1>4, <1>7, ShipAssumption
  <2> QED
    BY <1>6, <2>1 DEF ShipTypeOK
<1>9. ReusedWritten'
  BY <1>5, <1>6, ShipAssumption DEF SamplerIInv, ReusedWritten
<1>10. ASSUME NEW p \in Ips
       PROVE  shct'[p] + Cardinality(ReusedBy(p)') <= SamplerSets + SamplerWays - 1
  <2>1. /\ IsFiniteSet(ReusedBy(p))
        /\ Cardinality(ReusedBy(p)) \in 0 .. SamplerSets + SamplerWays - 1
        /\ shct[p] + Cardinality(ReusedBy(p)) <= SamplerSets + SamplerWays - 1
        /\ shct[p] \in Nat
    BY <1>7, ReusedFew DEF SamplerIInv, CountersWithinSampler
  <2>2. ReusedBy(p)' = ReusedBy(p) \ {e}
    <3>1. e \notin ReusedBy(p)'
      BY <1>5, <1>6 DEF ReusedBy
    <3>2. \A x \in Samples \ {e} : x \in ReusedBy(p)' <=> x \in ReusedBy(p)
      BY <1>6 DEF ReusedBy
    <3>3. ReusedBy(p) \subseteq Samples /\ ReusedBy(p)' \subseteq Samples
      BY DEF ReusedBy, Samples
    <3> QED
      BY <3>1, <3>2, <3>3
  <2>3. Cardinality(ReusedBy(p)') =
          IF e \in ReusedBy(p) THEN Cardinality(ReusedBy(p)) - 1 ELSE Cardinality(ReusedBy(p))
    BY <2>1, <2>2, FS_RemoveElement
  <2>4. shct'[p] <= IF e \in ReusedBy(p) THEN shct[p] + 1 ELSE shct[p]
    <3>1. CASE sampler[e].used /\ q = p
      <4>1. e \in ReusedBy(p)
        BY <1>3, <3>1 DEF ReusedBy, q
      <4>2. shct'[p] = IF shct[p] < ShctMax THEN shct[p] + 1 ELSE shct[p]
        BY <1>2, <1>7, <3>1
      <4> QED
        BY <2>1, <4>1, <4>2
    <3>2. CASE ~(sampler[e].used /\ q = p)
      <4>1. e \notin ReusedBy(p)
        BY <3>2 DEF ReusedBy, q
      <4>2. shct'[p] = shct[p]
        BY <1>2, <1>4, <1>7, <3>2
      <4> QED
        BY <2>1, <4>1, <4>2
    <3> QED
      BY <3>1, <3>2
  <2>5. shct'[p] \in Nat
    BY <1>8 DEF ShipTypeOK
  <2> QED
    BY <2>1, <2>3, <2>4, <2>5, ShipAssumption
<1> QED
  BY <1>8, <1>9, <1>10 DEF SamplerIInv, CountersWithinSampler

LEMMA SamplerInitially == ShipInit => SamplerIInv
<1> SUFFICES ASSUME ShipInit PROVE SamplerIInv
  OBVIOUS
<1>1. ShipTypeOK /\ ReusedWritten
  BY ShipAssumption DEF ShipInit, ShipTypeOK, ReusedWritten
<1>2. ASSUME NEW p \in Ips
      PROVE  shct[p] = 0 /\ ReusedBy(p) = {}
  BY DEF ShipInit, ReusedBy
<1> QED
  BY <1>1, <1>2, FS_EmptySet, ShipAssumption DEF SamplerIInv, CountersWithinSampler

LEMMA SamplerSteps == SamplerIInv /\ [SamplerNext]_shipVars => SamplerIInv'
<1>1. ASSUME SamplerIInv, UNCHANGED shipVars
      PROVE  SamplerIInv'
  <2>1. shct' = shct /\ sampler' = sampler
    BY <1>1 DEF shipVars
  <2>2. \A p : ReusedBy(p)' = ReusedBy(p)
    BY <2>1 DEF ReusedBy
  <2> QED
    BY <1>1, <2>1, <2>2
      DEF SamplerIInv, ShipTypeOK, CountersWithinSampler, ReusedWritten
<1> QED
  BY <1>1, SamplerHitKeeps, SamplerMissKeeps DEF SamplerNext, Sample

(***************************************************************************)
(* SHiP's counters stay within its sampler, for any number of sampled      *)
(* sets, ways, instructions and regions, and any value of SHCT_MAX.        *)
(***************************************************************************)
THEOREM ShipSamplerInvariance == SamplerSpec => []SamplerIInv
BY SamplerInitially, SamplerSteps, PTL DEF SamplerSpec

(***************************************************************************)
(* An instruction's counter and its reused entries together never exceed   *)
(* the entries of the sampler, although sampled sets share entries.        *)
(***************************************************************************)
THEOREM CountersAlwaysWithinSampler == SamplerSpec => []CountersWithinSampler
BY ShipSamplerInvariance, PTL DEF SamplerIInv
-----------------------------------------------------------------------------
(***************************************************************************)
(* find_victim in any full set, also when fields lie beyond maxRRPV: the   *)
(* blocks age over the wrap of the field until one is at maxRRPV.          *)
(***************************************************************************)
LEMMA VictimExists ==
  ASSUME RripTypeOK
  PROVE  /\ RripFillWay \in Ways
         /\ RripFillRow \in [Ways -> 0 .. FieldSize - 1]
<1> DEFINE D == {(MaxRRPV - rrpv[w]) % FieldSize : w \in Ways}
           V == {w \in Ways : AgedRow[w] = MaxRRPV}
<1>1. FieldSize \in Nat /\ FieldSize > 4 /\ MaxRRPV = 3
  BY RripAssumption DEF MaxRRPV
<1>2. \A w \in Ways : rrpv[w] \in 0 .. FieldSize - 1
  BY DEF RripTypeOK
<1>3. \A x \in 0 .. FieldSize - 1 :
        /\ (3 - x) % FieldSize = IF x <= 3 THEN 3 - x ELSE FieldSize + 3 - x
        /\ (3 - x) % FieldSize \in Nat
        /\ (x + ((3 - x) % FieldSize)) % FieldSize = 3
  <2> TAKE x \in 0 .. FieldSize - 1
  <2>1. CASE x <= 3
    <3>1. 3 - x \in 0 .. FieldSize - 1
      BY <1>1, <2>1
    <3>2. (3 - x) % FieldSize = 3 - x
      BY <1>1, <3>1
    <3>3. 3 % FieldSize = 3
      BY <1>1
    <3> QED
      BY <1>1, <2>1, <3>2, <3>3
  <2>2. CASE x > 3
    <3>1. (3 - x) % FieldSize = FieldSize + 3 - x
      BY <1>1, <2>2
    <3>2. (FieldSize + 3) % FieldSize = 3
      BY <1>1
    <3> QED
      BY <1>1, <2>2, <3>1, <3>2
  <2> QED
    BY <2>1, <2>2
<1>4. D \in SUBSET Nat /\ D # {}
  <2>1. 0 \in Ways
    BY ReplacementAssumption DEF Ways
  <2> QED
    BY <1>1, <1>2, <1>3, <2>1
<1>5. Rounds \in D
  BY <1>4, MinIsMember DEF Rounds
<1>6. PICK u \in Ways : Rounds = (MaxRRPV - rrpv[u]) % FieldSize
  BY <1>5
<1>7. Rounds \in Nat /\ (rrpv[u] + Rounds) % FieldSize = 3
  BY <1>1, <1>2, <1>3, <1>6
<1>8. AgedRow \in [Ways -> 0 .. FieldSize - 1]
  <2>1. \A w \in Ways : (rrpv[w] + Rounds) % FieldSize \in 0 .. FieldSize - 1
    BY <1>1, <1>2, <1>7
  <2> QED
    BY <2>1 DEF AgedRow
<1>9. V \in SUBSET Nat /\ V # {}
  BY <1>1, <1>6, <1>7, ReplacementAssumption DEF AgedRow, Ways
<1>10. Victim \in Ways
  BY <1>9, MinIsMember DEF Victim
<1>11. RripFree # {} => Min(RripFree) \in Ways
  <2>1. RripFree \in SUBSET Nat
    BY ReplacementAssumption DEF RripFree, Ways
  <2> QED
    BY <2>1, MinIsMember DEF RripFree
<1> QED
  BY <1>8, <1>10, <1>11 DEF RripFillWay, RripFillRow, RripTypeOK

(* Whatever is written to a field of a set, the types hold after a fill.   *)
LEMMA FillTypes ==
  ASSUME RripTypeOK, NEW value \in 0 .. FieldSize - 1, SetOnFill(value)
  PROVE  RripTypeOK'
BY VictimExists DEF RripTypeOK, SetOnFill, RecordInserted

LEMMA HitTypes ==
  ASSUME RripTypeOK, NEW w \in Ways, NEW value \in 0 .. FieldSize - 1, SetOnHit(w, value),
         RecordPromoted(w) \/ RecordInserted(w)
  PROVE  RripTypeOK'
BY DEF RripTypeOK, SetOnHit, RecordPromoted, RecordInserted

LEMMA InvalidationTypes ==
  ASSUME RripTypeOK, NEW w \in Ways, RripInvalidate(w)
  PROVE  RripTypeOK'
BY DEF RripTypeOK, RripInvalidate

(* The values the policies write, all of them in the range of the field.   *)
LEMMA RripValues ==
  0 \in 0 .. FieldSize - 1 /\ MaxRRPV - 1 \in 0 .. FieldSize - 1 /\ MaxRRPV \in 0 .. FieldSize - 1
BY RripAssumption DEF MaxRRPV

LEMMA DrripFillTypes ==
  ASSUME RripTypeOK, role \in Roles, NEW type \in Types, DrripFill(type)
  PROVE  RripTypeOK'
<1>1. Insertion \in 0 .. FieldSize - 1
  BY RripValues, VictimExists DEF Insertion
<1> QED
  BY <1>1, RripValues, FillTypes DEF DrripFill

(***************************************************************************)
(* The inductive invariant of the module that is checked: the types of all *)
(* policies, and the invariants that those of LRU and of the sampler need. *)
(***************************************************************************)
AllPoliciesIInv ==
  /\ RripTypeOK /\ DrripTypeOK /\ TypeOK /\ ShipTypeOK
  /\ policy = "lru" => IInv
  /\ policy = "ship_sampler" => SamplerIInv

LEMMA AllInitially == MCInit => AllPoliciesIInv
<1> SUFFICES ASSUME MCInit PROVE AllPoliciesIInv
  OBVIOUS
<1>1. RripTypeOK
  <2>1. MaxRRPV \in 0 .. FieldSize - 1 /\ FreshLru \in 0 .. FieldSize - 1
    BY RripAssumption DEF MaxRRPV
  <2> QED
    BY <2>1, RripInitKeeps DEF MCInit, RripIInv
<1>2. DrripTypeOK
  BY DrripAssumption DEF MCInit, DuelInit, DrripTypeOK
<1>3. IInv /\ TypeOK
  BY InitIInv DEF MCInit, IInv
<1>4. SamplerIInv /\ ShipTypeOK
  BY SamplerInitially DEF MCInit, SamplerIInv
<1> QED
  BY <1>1, <1>2, <1>3, <1>4 DEF AllPoliciesIInv

LEMMA AllSteps == AllPoliciesIInv /\ [MCNext]_mcVars => AllPoliciesIInv'
<1> SUFFICES ASSUME AllPoliciesIInv, [MCNext]_mcVars PROVE AllPoliciesIInv'
  OBVIOUS
<1>1. RripTypeOK /\ DrripTypeOK /\ TypeOK /\ ShipTypeOK
  BY DEF AllPoliciesIInv
<1>2. UNCHANGED rripVars => RripTypeOK'
  BY <1>1 DEF rripVars, RripTypeOK
<1>3. UNCHANGED <<role, psel, bip>> => DrripTypeOK'
  BY <1>1 DEF DrripTypeOK
<1>4. UNCHANGED vars => TypeOK'
  BY <1>1 DEF vars, TypeOK
<1>5. UNCHANGED <<shct, sampler>> => ShipTypeOK'
  BY <1>1 DEF ShipTypeOK
<1>6. CASE Lru
  <2>1. IInv' /\ policy' = "lru"
    BY <1>6, NextIInv DEF Lru, AllPoliciesIInv
  <2> QED
    BY <1>2, <1>3, <1>5, <1>6, <2>1 DEF Lru, drripVars, AllPoliciesIInv, IInv
<1>7. CASE Srrip
  <2>1. RripTypeOK'
    BY <1>1, <1>7, RripValues, FillTypes, HitTypes, InvalidationTypes
      DEF Srrip, SrripNext, SrripFill, SrripHit
  <2> QED
    BY <1>3, <1>4, <1>5, <1>7, <2>1 DEF Srrip, AllPoliciesIInv
<1>8. CASE DrripStep
  <2>1. DrripTypeOK'
    BY <1>1, <1>8, DrripStepDuels, DuelMoves DEF DrripStep, DrripTypeOK
  <2>2. RripTypeOK'
    <3>1. role \in Roles /\ DrripNext
      BY <1>1, <1>8 DEF DrripTypeOK, DrripStep
    <3>2. ASSUME NEW w \in Ways, NEW type \in Types, DrripHit(w, type)
          PROVE  RripTypeOK'
      BY <1>1, <3>2, RripValues, HitTypes DEF DrripHit
    <3> QED
      BY <1>1, <1>2, <3>1, <3>2, DrripFillTypes, InvalidationTypes DEF DrripNext, OtherSetMisses
  <2> QED
    BY <1>4, <1>5, <1>8, <2>1, <2>2 DEF DrripStep, AllPoliciesIInv
<1>9. CASE ShipSet
  <2>1. ShipTypeOK'
    BY <1>1, <1>5, <1>9 DEF ShipSet, ShipSetNext, ShipHit, ShipFill, WritebackFill,
                            CountersChange, ShipTypeOK
  <2>2. RripTypeOK'
    BY <1>1, <1>2, <1>9, RripValues, FillTypes, HitTypes, InvalidationTypes
      DEF ShipSet, ShipSetNext, ShipHit, ShipFill, Prediction, WritebackFill, CountersChange
  <2> QED
    BY <1>3, <1>4, <1>9, <2>1, <2>2 DEF ShipSet, AllPoliciesIInv
<1>10. CASE ShipSampler
  <2>1. SamplerIInv' /\ UNCHANGED rripVars
    BY <1>10, SamplerSteps DEF ShipSampler, AllPoliciesIInv, SamplerNext, Sample
  <2> QED
    BY <1>2, <1>3, <1>4, <1>10, <2>1 DEF ShipSampler, SamplerIInv, AllPoliciesIInv
<1>11. CASE UNCHANGED mcVars
  <2>1. UNCHANGED <<vars, rripVars, role, psel, bip, shct, sampler, policy, shipVars>>
    BY <1>11 DEF mcVars, drripVars, shipVars
  <2>2. IInv => IInv'
    BY <2>1, NextIInv
  <2>3. SamplerIInv => SamplerIInv'
    BY <2>1, SamplerSteps
  <2> QED
    BY <1>2, <1>3, <1>4, <1>5, <2>1, <2>2, <2>3 DEF AllPoliciesIInv
<1> QED
  BY <1>6, <1>7, <1>8, <1>9, <1>10, <1>11 DEF MCNext

(***************************************************************************)
(* Under each policy the fields of BLOCK, PSEL and the counters keep to    *)
(* their widths; with SHiP's entries within the bound on their age.        *)
(***************************************************************************)
THEOREM AllTypesAlways == MCSpec => []AllTypesOK
<1>1. AllPoliciesIInv => AllTypesOK
  BY DEF AllPoliciesIInv, AllTypesOK
<1> QED
  BY <1>1, AllInitially, AllSteps, PTL DEF MCSpec
=============================================================================
