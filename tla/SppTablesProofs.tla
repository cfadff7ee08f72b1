-------------------------- MODULE SppTablesProofs ---------------------------
(***************************************************************************)
(* Proofs about the four tables of SPP, each on its own:                   *)
(*   - SignatureTable, for any number of ways, any page, set and tag       *)
(*     mapping and any signature hash;                                     *)
(*   - PatternTable, for any geometry, any set of deltas and any odd       *)
(*     C_SIG_MAX;                                                          *)
(*   - GlobalRegister, for any number of entries and any confidences below *)
(*     100;                                                                *)
(*   - PrefetchFilter, for any set of lines, any number of sets and any    *)
(*     hash, under any order of prefetches, demands and evictions, and     *)
(*     beside a cache of any size.                                         *)
(***************************************************************************)
EXTENDS SignatureTable, PatternTable, GlobalRegister, FilterInCache,
  TableLemmas, FiniteSetTheorems
-----------------------------------------------------------------------------
(* The ageing loop maps a permutation of the ages to a permutation.        *)
LEMMA AgedPermutation ==
  ASSUME NEW lru \in [StWays -> StWays], NEW m \in StWays,
         \A k \in StWays : \E w \in StWays : lru[w] = k,
         \A v, w \in StWays : lru[v] = lru[w] => v = w
  PROVE  /\ Aged(lru, m) \in [StWays -> StWays]
         /\ \A k \in StWays : \E w \in StWays : Aged(lru, m)[w] = k
         /\ \A v, w \in StWays : Aged(lru, m)[v] = Aged(lru, m)[w] => v = w
         /\ \A v, w \in StWays : (v # m /\ w # m) =>
              (Aged(lru, m)[v] < Aged(lru, m)[w] <=> lru[v] < lru[w])
         /\ \A w \in StWays : w # m => Aged(lru, m)[m] < Aged(lru, m)[w]
<1>1. StWay \in Nat \ {0} /\ StWays = WaysUpTo(StWay)
  BY SignatureTableAssumption DEF StWays, WaysUpTo
<1>2. Aged(lru, m) = MadeYoungest(StWay, lru, m)
  BY <1>1 DEF Aged, MadeYoungest
<1>3. AgesPermuted(StWay, lru)
  BY <1>1 DEF AgesPermuted
<1>4. StWay \in Nat \ {0} /\ m \in WaysUpTo(StWay)
  BY <1>1
<1>5. /\ AgesPermuted(StWay, MadeYoungest(StWay, lru, m))
      /\ \A v, w \in WaysUpTo(StWay) : (v # m /\ w # m) =>
           (MadeYoungest(StWay, lru, m)[v] < MadeYoungest(StWay, lru, m)[w] <=> lru[v] < lru[w])
      /\ \A w \in WaysUpTo(StWay) :
           w # m => MadeYoungest(StWay, lru, m)[m] < MadeYoungest(StWay, lru, m)[w]
  BY <1>3, <1>4, YoungestPermutation, Zenon
<1> QED
  BY <1>1, <1>2, <1>5 DEF AgesPermuted

(***************************************************************************)
(* Promoting a way that is valid afterwards, in one set, keeps the ages a  *)
(* permutation and the valid ways the youngest.                            *)
(***************************************************************************)
LEMMA PromoteKeepsAges ==
  ASSUME StIInv, NEW s \in StSets, NEW m \in StWays, Promote(s, m),
         stValid' \in {stValid, [stValid EXCEPT ![s][m] = TRUE]},
         stValid'[s][m]
  PROVE  stLru' \in [StSets -> [StWays -> StWays]] /\ LruPermutation' /\ ValidYounger'
<1> USE DEF StIInv, StTypeOK
<1>1. /\ stLru' = [stLru EXCEPT ![s] = Aged(stLru[s], m)]
      /\ stLru[s] \in [StWays -> StWays]
  BY DEF Promote
<1>2. /\ Aged(stLru[s], m) \in [StWays -> StWays]
      /\ \A k \in StWays : \E w \in StWays : Aged(stLru[s], m)[w] = k
      /\ \A v, w \in StWays : Aged(stLru[s], m)[v] = Aged(stLru[s], m)[w] => v = w
      /\ \A v, w \in StWays : (v # m /\ w # m) =>
           (Aged(stLru[s], m)[v] < Aged(stLru[s], m)[w] <=> stLru[s][v] < stLru[s][w])
      /\ \A w \in StWays : w # m => Aged(stLru[s], m)[m] < Aged(stLru[s], m)[w]
  BY <1>1, AgedPermutation DEF LruPermutation
<1>3. stLru'[s] = Aged(stLru[s], m) /\ \A z \in StSets : z # s => stLru'[z] = stLru[z]
  BY <1>1
<1>4. stLru' \in [StSets -> [StWays -> StWays]]
  BY <1>1, <1>2
<1>5. LruPermutation'
  <2> SUFFICES ASSUME NEW z \in StSets
               PROVE  /\ \A k \in StWays : \E w \in StWays : stLru'[z][w] = k
                      /\ \A v, w \in StWays : stLru'[z][v] = stLru'[z][w] => v = w
    BY DEF LruPermutation
  <2>1. CASE z # s
    <3>1. stLru'[z] = stLru[z]
      BY <2>1, <1>3
    <3>2. \A k \in StWays : \E w \in StWays : stLru'[z][w] = k
      BY <3>1 DEF LruPermutation
    <3>3. \A v, w \in StWays : stLru'[z][v] = stLru'[z][w] => v = w
      BY <3>1 DEF LruPermutation
    <3>4. QED
      BY <3>2, <3>3
  <2>2. CASE z = s
    <3>1. stLru'[z] = Aged(stLru[s], m)
      BY <2>2, <1>3
    <3>2. \A k \in StWays : \E w \in StWays : stLru'[z][w] = k
      BY <3>1, <1>2
    <3>3. \A v, w \in StWays : stLru'[z][v] = stLru'[z][w] => v = w
      BY <3>1, <1>2
    <3>4. QED
      BY <3>2, <3>3
  <2>3. QED
    BY <2>1, <2>2
<1>6. ValidYounger'
  <2> SUFFICES ASSUME NEW z \in StSets, NEW v \in StWays, NEW w \in StWays,
                      stValid'[z][v], ~stValid'[z][w]
               PROVE  stLru'[z][v] < stLru'[z][w]
    BY DEF ValidYounger
  <2>1. CASE z # s
    BY <2>1, <1>3 DEF ValidYounger
  <2>2. CASE z = s
    <3>1. w # m
      BY <2>2
    <3>2. CASE v = m
      BY <3>1, <3>2, <2>2, <1>2, <1>3
    <3>3. CASE v # m
      BY <3>1, <3>3, <2>2, <1>2, <1>3 DEF ValidYounger
    <3>4. QED
      BY <3>2, <3>3
  <2>3. QED
    BY <2>1, <2>2
<1>7. QED
  BY <1>4, <1>5, <1>6

(* The initial table: free ways, with ages equal to their index.           *)
LEMMA InitStIInv == StInit => StIInv
<1> SUFFICES ASSUME StInit PROVE StIInv
  OBVIOUS
<1> USE SignatureTableAssumption, SppAssumption DEF StInit, Table
<1>1. StTypeOK
  BY DEF StTypeOK
<1>2. LruPermutation
  BY DEF LruPermutation
<1>3. UniqueTags /\ ValidYounger /\ StNeverAborts
  BY DEF UniqueTags, ValidYounger, StNeverAborts
<1>4. QED
  BY <1>1, <1>2, <1>3 DEF StIInv

(* A page's set, tag and the delta it makes are well typed.                *)
LEMMA HitTypes ==
  ASSUME StIInv, NEW p \in Pages, NEW off \in Offsets, StHitWays(p) # {}
  PROVE  /\ StSetOf[p] \in StSets
         /\ Min(StHitWays(p)) \in StWays
         /\ stValid[StSetOf[p]][Min(StHitWays(p))]
         /\ DeltaOf(p, off) # 0 => CurrSig(p, off, 0) \in Sigs
<1> USE SignatureTableAssumption, SppAssumption
<1>1. StSetOf[p] \in StSets
  OBVIOUS
<1>2. StHitWays(p) \in SUBSET Nat
  BY DEF StHitWays, StWays
<1>3. Min(StHitWays(p)) \in StHitWays(p)
  BY <1>2, MinIsMember
<1>4. Min(StHitWays(p)) \in StWays /\ stValid[StSetOf[p]][Min(StHitWays(p))]
  BY <1>3 DEF StHitWays
<1>5. ASSUME DeltaOf(p, off) # 0
      PROVE  CurrSig(p, off, 0) \in Sigs
  <2>1. stSig[StSetOf[p]][Min(StHitWays(p))] \in Sigs
    BY <1>1, <1>4 DEF StIInv, StTypeOK
  <2>2. stOffset[StSetOf[p]][Min(StHitWays(p))] \in Offsets
    BY <1>1, <1>4 DEF StIInv, StTypeOK
  <2>3. DeltaOf(p, off) \in Deltas
    BY <2>2 DEF DeltaOf, Deltas
  <2>4. LastSig(p, off) \in Sigs
    BY <2>1, <1>5 DEF LastSig
  <2>5. QED
    BY <2>3, <2>4, <1>5 DEF CurrSig
<1>6. QED
  BY <1>1, <1>4, <1>5

(* A hit keeps the invariant.                                              *)
LEMMA HitStIInv ==
  ASSUME StIInv, NEW p \in Pages, NEW off \in Offsets, StHit(p, off)
  PROVE  StIInv'
<1> DEFINE s == StSetOf[p]
           m == Min(StHitWays(p))
<1>1. StHitWays(p) # {} /\ Promote(s, m) /\ UNCHANGED <<stValid, stTag, stAborted>>
  BY DEF StHit
<1>2. s \in StSets /\ m \in StWays /\ stValid[s][m]
  BY <1>1, HitTypes
<1>3. stSig' \in [StSets -> [StWays -> Sigs]] /\ stOffset' \in [StSets -> [StWays -> Offsets]]
  <2>1. stSig \in [StSets -> [StWays -> Sigs]] /\ stOffset \in [StSets -> [StWays -> Offsets]]
    BY DEF StIInv, StTypeOK
  <2>2. CASE DeltaOf(p, off) # 0
    <3>1. CurrSig(p, off, 0) \in Sigs
      BY <1>1, <2>2, HitTypes
    <3>2. /\ stSig' = [stSig EXCEPT ![s][m] = CurrSig(p, off, 0)]
          /\ stOffset' = [stOffset EXCEPT ![s][m] = off]
      BY <2>2 DEF StHit
    <3> HIDE DEF s, m
    <3>3. QED
      BY <2>1, <3>1, <3>2, <1>2
  <2>3. CASE DeltaOf(p, off) = 0
    BY <2>1, <2>3 DEF StHit
  <2>4. QED
    BY <2>2, <2>3
<1> HIDE DEF s, m
<1>4. stLru' \in [StSets -> [StWays -> StWays]] /\ LruPermutation' /\ ValidYounger'
  BY <1>1, <1>2, PromoteKeepsAges
<1>5. QED
  BY <1>1, <1>3, <1>4 DEF StIInv, StTypeOK, UniqueTags, StNeverAborts

(* Inserting a page that has no entry keeps the invariant.                 *)
LEMMA InsertStIInv ==
  ASSUME StIInv, NEW p \in Pages, NEW off \in Offsets, NEW boot \in Sigs,
         NEW m \in StWays, StHitWays(p) = {}, InsertInto(p, off, boot, m)
  PROVE  StIInv'
<1> DEFINE s == StSetOf[p]
<1> USE SignatureTableAssumption
<1>1. s \in StSets /\ TagOf[p] \in Tags
  OBVIOUS
<1>2. /\ stValid' = [stValid EXCEPT ![s][m] = TRUE]
      /\ stTag' = [stTag EXCEPT ![s][m] = TagOf[p]]
      /\ Promote(s, m)
      /\ stAborted' = stAborted
  BY DEF InsertInto
<1>3. stSig' \in [StSets -> [StWays -> Sigs]] /\ stOffset' \in [StSets -> [StWays -> Offsets]]
  BY <1>1 DEF InsertInto, StIInv, StTypeOK
<1>4. stValid' \in [StSets -> [StWays -> BOOLEAN]] /\ stTag' \in [StSets -> [StWays -> Tags]]
  BY <1>1, <1>2 DEF StIInv, StTypeOK
<1>5. stValid'[s][m]
  BY <1>1, <1>2 DEF StIInv, StTypeOK
<1>6. \A w \in StWays : ~(stValid[s][w] /\ stTag[s][w] = TagOf[p])
  BY DEF StHitWays
<1>7. UniqueTags'
  <2> SUFFICES ASSUME NEW z \in StSets, NEW v \in StWays, NEW w \in StWays,
                      stValid'[z][v], stValid'[z][w], stTag'[z][v] = stTag'[z][w]
               PROVE  v = w
    BY DEF UniqueTags
  <2>1. CASE z # s
    BY <2>1, <1>2 DEF UniqueTags, StIInv, StTypeOK
  <2>2. CASE z = s
    BY <2>2, <1>1, <1>2, <1>6 DEF UniqueTags, StIInv, StTypeOK
  <2>3. QED
    BY <2>1, <2>2
<1> HIDE DEF s
<1>8. stLru' \in [StSets -> [StWays -> StWays]] /\ LruPermutation' /\ ValidYounger'
  BY <1>1, <1>2, <1>5, PromoteKeepsAges
<1>9. QED
  BY <1>2, <1>3, <1>4, <1>7, <1>8 DEF StIInv, StTypeOK, StNeverAborts

(* One access keeps the invariant; in particular a victim is found.        *)
LEMMA NextStIInv == StIInv /\ [StNext]_stVars => StIInv'
<1> SUFFICES ASSUME StIInv, [StNext]_stVars PROVE StIInv'
  OBVIOUS
<1>1. ASSUME NEW p \in Pages, NEW off \in Offsets, NEW boot \in Sigs,
             ReadAndUpdateSig(p, off, boot)
      PROVE  StIInv'
  <2>1. CASE StHit(p, off)
    BY <2>1, HitStIInv
  <2>2. CASE InsertFree(p, off, boot)
    <3>1. StFreeWays(p) \in SUBSET Nat /\ StFreeWays(p) # {} /\ StHitWays(p) = {}
      BY <2>2 DEF InsertFree, StFreeWays, StWays
    <3>2. Min(StFreeWays(p)) \in StWays
      BY <3>1, MinIsMember DEF StFreeWays
    <3>3. QED
      BY <2>2, <3>1, <3>2, InsertStIInv DEF InsertFree
  <2>3. CASE InsertOldest(p, off, boot)
    <3>1. StSetOf[p] \in StSets /\ StWay - 1 \in StWays
      BY SignatureTableAssumption DEF StWays
    <3>2. \E w \in StWays : stLru[StSetOf[p]][w] = StWay - 1
      BY <3>1 DEF StIInv, LruPermutation
    <3>3. StOldestWays(p) \in SUBSET Nat /\ StOldestWays(p) # {} /\ StHitWays(p) = {}
      BY <2>3, <3>2 DEF InsertOldest, StOldestWays, StWays
    <3>4. Min(StOldestWays(p)) \in StWays
      BY <3>3, MinIsMember DEF StOldestWays
    <3>5. QED
      BY <2>3, <3>3, <3>4, InsertStIInv DEF InsertOldest
  <2>4. QED
    BY <1>1, <2>1, <2>2, <2>3 DEF ReadAndUpdateSig
<1>2. CASE UNCHANGED stVars
  BY <1>2 DEF stVars, StIInv, StTypeOK, LruPermutation, StNeverAborts, UniqueTags, ValidYounger
<1>3. QED
  BY <1>1, <1>2 DEF StNext

(* The inductive invariant of the table holds in every reachable state.    *)
THEOREM StInvariance == StSpec => []StIInv
<1>1. QED
  BY InitStIInv, NextStIInv, PTL DEF StSpec

(* The table keeps its types: ages stay below ST_WAY.                      *)
THEOREM StTypeCorrect == StSpec => []StTypeOK
<1>1. StIInv => StTypeOK
  BY DEF StIInv
<1>2. QED
  BY <1>1, StInvariance, PTL

(* The ages of a set are a permutation at all times.                       *)
THEOREM LruPermutationAlways == StSpec => []LruPermutation
<1>1. StIInv => LruPermutation
  BY DEF StIInv
<1>2. QED
  BY <1>1, StInvariance, PTL

(* `Cannot find a replacement victim!' is never reached.                   *)
THEOREM StVictimAlwaysFound == StSpec => []StNeverAborts
<1>1. StIInv => StNeverAborts
  BY DEF StIInv
<1>2. QED
  BY <1>1, StInvariance, PTL

(* No page ever has two entries in its set.                                *)
THEOREM UniqueTagsAlways == StSpec => []UniqueTags
<1>1. StIInv => UniqueTags
  BY DEF StIInv
<1>2. QED
  BY <1>1, StInvariance, PTL
-----------------------------------------------------------------------------
(* What shifting a counter to the right does.                              *)
LEMMA Halving ==
  ASSUME NEW h \in Nat, NEW x \in Nat
  PROVE  /\ (2 * h) \div 2 = h
         /\ x \div 2 \in Nat /\ x \div 2 <= x
         /\ x < 2 * h => x \div 2 < h
  OBVIOUS

(***************************************************************************)
(* The counting step common to hits and replacements: if the counters that *)
(* go in are at most what the set counted so far, those that come out are  *)
(* below what it counts now, halved or not.                                *)
(***************************************************************************)
LEMMA CountBelow ==
  ASSUME PtTypeOK, NEW s \in PtSets, NEW counters \in [PtWays -> Nat],
         \A w \in PtWays : counters[w] <= ptCSig[s],
         Count(s, counters)
  PROVE  /\ ptCSig' \in [PtSets -> 0 .. CSigMax]
         /\ ptCDelta' \in [PtSets -> [PtWays -> 0 .. CSigMax]]
         /\ \A w \in PtWays : ptCDelta'[s][w] < ptCSig'[s]
         /\ \A z \in PtSets : z # s => ptCSig'[z] = ptCSig[z] /\ ptCDelta'[z] = ptCDelta[z]
         /\ \A w \in PtWays : counters[w] = 0 => ptCDelta'[s][w] = 0
<1>1. CSigMax \in Nat /\ CSigMax > 0
  BY PatternTableAssumption
<1>2. /\ ptCSig \in [PtSets -> 0 .. CSigMax] /\ ptCSig[s] \in 0 .. CSigMax
      /\ ptCDelta \in [PtSets -> [PtWays -> 0 .. CSigMax]]
  BY DEF PtTypeOK
<1>3. CASE ptCSig[s] + 1 > CSigMax
  <2>1. /\ ptCDelta' = [ptCDelta EXCEPT ![s] = [w \in PtWays |-> counters[w] \div 2]]
        /\ ptCSig' = [ptCSig EXCEPT ![s] = (ptCSig[s] + 1) \div 2]
    BY <1>3 DEF Count
  <2>2. PICK h \in Nat : h > 0 /\ CSigMax + 1 = 2 * h
    BY PatternTableAssumption
  <2>3. ptCSig[s] = CSigMax /\ (ptCSig[s] + 1) \div 2 = h /\ h <= CSigMax
    <3>1. h <= CSigMax
      BY <1>1, <2>2
    <3>2. ptCSig[s] = CSigMax
      <4>1. ptCSig[s] \in Nat /\ ptCSig[s] <= CSigMax
        BY <1>1, <1>2
      <4>2. QED
        BY <4>1, <1>1, <1>3
    <3>3. ptCSig[s] + 1 = 2 * h
      BY <3>2, <2>2
    <3>4. QED
      BY <3>1, <3>2, <3>3, Halving
  <2>4. ASSUME NEW w \in PtWays
        PROVE  /\ counters[w] \div 2 \in 0 .. CSigMax /\ counters[w] \div 2 < h
               /\ counters[w] = 0 => counters[w] \div 2 = 0
    <3>1. counters[w] \in Nat /\ counters[w] < 2 * h
      BY <2>2, <2>3, <1>1
    <3>2. /\ counters[w] \div 2 \in Nat /\ counters[w] \div 2 <= counters[w]
          /\ counters[w] \div 2 < h
      BY <3>1, Halving
    <3>3. QED
      BY <3>1, <3>2, <2>2, <2>3, <1>1
  <2>5. QED
    BY <1>1, <1>2, <2>1, <2>2, <2>3, <2>4
<1>4. CASE ptCSig[s] + 1 <= CSigMax
  <2>1. /\ ptCDelta' = [ptCDelta EXCEPT ![s] = counters]
        /\ ptCSig' = [ptCSig EXCEPT ![s] = ptCSig[s] + 1]
    BY <1>1, <1>2, <1>4 DEF Count
  <2>2. ASSUME NEW w \in PtWays
        PROVE  counters[w] \in 0 .. CSigMax /\ counters[w] < ptCSig[s] + 1
    BY <1>1, <1>2, <1>4
  <2>3. counters \in [PtWays -> 0 .. CSigMax]
    BY <2>2
  <2>4. QED
    BY <1>1, <1>2, <1>4, <2>1, <2>2, <2>3
<1>5. QED
  BY <1>1, <1>2, <1>3, <1>4

(* The initial table.                                                      *)
LEMMA InitPtIInv == PtInit => PtIInv
<1> SUFFICES ASSUME PtInit PROVE PtIInv
  OBVIOUS
<1>1. PtTypeOK
  <2>1. 0 \in Deltas /\ 0 \in 0 .. CSigMax
    BY PatternTableAssumption, SppAssumption DEF Deltas
  <2>2. QED
    BY <2>1 DEF PtInit, PtTypeOK
<1>2. PtNeverAborts /\ CountersBelowSig /\ UniqueDeltas /\ UnusedWaysCold
  BY DEF PtInit, PtNeverAborts, CountersBelowSig, UniqueDeltas, UnusedWaysCold
<1>3. QED
  BY <1>1, <1>2 DEF PtIInv

(* A hit counts a way that was filled, hence one that is below its set.    *)
LEMMA HitPtIInv ==
  ASSUME PtIInv, NEW s \in PtSets, NEW d \in TrainedDeltas, PtHit(s, d)
  PROVE  PtIInv'
<1> DEFINE m == Min(PtHitWays(s, d))
<1>1. m \in PtWays /\ ptDelta[s][m] = d
  <2>1. PtHitWays(s, d) \in SUBSET Nat /\ PtHitWays(s, d) # {}
    BY DEF PtHitWays, PtWays, PtHit
  <2>2. m \in PtHitWays(s, d)
    BY <2>1, MinIsMember
  <2>3. QED
    BY <2>2 DEF PtHitWays
<1>2. Count(s, [ptCDelta[s] EXCEPT ![m] = @ + 1]) /\ UNCHANGED <<ptDelta, ptAborted>>
  BY DEF PtHit
<1> HIDE DEF m
<1>3. /\ ptCDelta[s] \in [PtWays -> 0 .. CSigMax] /\ ptCSig[s] \in Nat
      /\ CSigMax \in Nat /\ d # 0
  BY PatternTableAssumption DEF PtIInv, PtTypeOK, TrainedDeltas
<1> DEFINE c == [ptCDelta[s] EXCEPT ![m] = @ + 1]
<1>4. c \in [PtWays -> Nat]
  BY <1>1, <1>3
<1>5. ASSUME NEW w \in PtWays
      PROVE  c[w] <= ptCSig[s] /\ (c[w] = 0 => ptCDelta[s][w] = 0)
  <2>1. /\ \/ ptCSig[s] = 0 /\ ptDelta[s][w] = 0
           \/ ptCDelta[s][w] < ptCSig[s]
        /\ ptDelta[s][w] = 0 => ptCDelta[s][w] = 0
    BY DEF PtIInv, CountersBelowSig, UnusedWaysCold
  <2>2. ptCDelta[s][w] \in Nat
    BY <1>3
  <2>3. CASE w # m
    BY <2>1, <2>2, <2>3, <1>3
  <2>4. CASE w = m
    <3>1. c[w] = ptCDelta[s][w] + 1 /\ ptDelta[s][w] # 0
      BY <2>4, <1>1, <1>3
    <3>2. QED
      BY <3>1, <2>1, <2>2, <1>3
  <2>5. QED
    BY <2>3, <2>4
<1>6. \A w \in PtWays : w # m => c[w] = ptCDelta[s][w]
  BY <1>3
<1> HIDE DEF c
<1>7. /\ ptCSig' \in [PtSets -> 0 .. CSigMax]
      /\ ptCDelta' \in [PtSets -> [PtWays -> 0 .. CSigMax]]
      /\ \A w \in PtWays : ptCDelta'[s][w] < ptCSig'[s]
      /\ \A z \in PtSets : z # s => ptCSig'[z] = ptCSig[z] /\ ptCDelta'[z] = ptCDelta[z]
      /\ \A w \in PtWays : c[w] = 0 => ptCDelta'[s][w] = 0
  <2>1. PtTypeOK /\ Count(s, c)
    BY <1>2 DEF PtIInv, c
  <2>2. QED
    BY <2>1, <1>4, <1>5, CountBelow
<1>8. PtTypeOK' /\ PtNeverAborts' /\ UniqueDeltas'
  BY <1>2, <1>7 DEF PtIInv, PtTypeOK, PtNeverAborts, UniqueDeltas
<1>9. CountersBelowSig'
  <2> SUFFICES ASSUME NEW z \in PtSets, NEW w \in PtWays
               PROVE  \/ ptCSig'[z] = 0 /\ ptDelta'[z][w] = 0
                      \/ ptCDelta'[z][w] < ptCSig'[z]
    BY DEF CountersBelowSig
  <2>1. CASE z = s
    BY <2>1, <1>7
  <2>2. CASE z # s
    BY <2>2, <1>2, <1>7 DEF PtIInv, CountersBelowSig
  <2>3. QED
    BY <2>1, <2>2
<1>10. UnusedWaysCold'
  <2> SUFFICES ASSUME NEW z \in PtSets, NEW w \in PtWays, ptDelta[z][w] = 0
               PROVE  ptCDelta'[z][w] = 0
    BY <1>2 DEF UnusedWaysCold
  <2>1. ptCDelta[z][w] = 0
    BY DEF PtIInv, UnusedWaysCold
  <2>2. CASE z = s
    <3>1. w # m
      BY <2>2, <1>1, <1>3
    <3>2. QED
      BY <3>1, <2>1, <2>2, <1>6, <1>7
  <2>3. CASE z # s
    BY <2>1, <2>3, <1>7
  <2>4. QED
    BY <2>2, <2>3
<1>11. QED
  BY <1>8, <1>9, <1>10 DEF PtIInv

(* A victim exists: the smallest counter is below that of the set.         *)
LEMMA VictimExists ==
  ASSUME PtIInv, NEW s \in PtSets
  PROVE  PtVictims(s) # {}
<1>1. /\ ptCDelta[s] \in [PtWays -> Nat] /\ ptCSig[s] \in 0 .. CSigMax
      /\ CSigMax \in Nat /\ CSigMax > 0
  BY PatternTableAssumption DEF PtIInv, PtTypeOK
<1>2. PICK w \in PtWays : \A v \in PtWays : ptCDelta[s][w] <= ptCDelta[s][v]
  <2>1. 0 \in PtWays
    BY PatternTableAssumption DEF PtWays
  <2> QED
    BY <1>1, <2>1, LeastExists
<1>3. /\ \/ ptCSig[s] = 0 /\ ptDelta[s][w] = 0
         \/ ptCDelta[s][w] < ptCSig[s]
      /\ ptDelta[s][w] = 0 => ptCDelta[s][w] = 0
  BY DEF PtIInv, CountersBelowSig, UnusedWaysCold
<1>4. ptCDelta[s][w] < CSigMax
  BY <1>1, <1>3
<1>5. QED
  BY <1>2, <1>4 DEF PtVictims

(* A replacement puts a delta the set does not hold into a reset way.      *)
LEMMA ReplacePtIInv ==
  ASSUME PtIInv, NEW s \in PtSets, NEW d \in TrainedDeltas, PtReplace(s, d)
  PROVE  PtIInv'
<1> DEFINE v == Min(PtVictims(s))
           c == [ptCDelta[s] EXCEPT ![v] = 0]
<1>1. v \in PtWays
  <2>1. PtVictims(s) \in SUBSET Nat /\ PtVictims(s) # {}
    BY VictimExists DEF PtVictims, PtWays
  <2>2. v \in PtVictims(s)
    BY <2>1, MinIsMember
  <2>3. QED
    BY <2>2 DEF PtVictims
<1>2. /\ ptDelta' = [ptDelta EXCEPT ![s][v] = d]
      /\ Count(s, c)
      /\ ptAborted' = ptAborted
      /\ \A w \in PtWays : ptDelta[s][w] # d
  BY VictimExists DEF PtReplace, PtHitWays
<1> HIDE DEF v
<1>3. /\ ptCDelta[s] \in [PtWays -> 0 .. CSigMax] /\ ptCSig[s] \in Nat
      /\ CSigMax \in Nat /\ d # 0 /\ d \in Deltas
      /\ ptDelta \in [PtSets -> [PtWays -> Deltas]]
  BY PatternTableAssumption DEF PtIInv, PtTypeOK, TrainedDeltas
<1>4. c \in [PtWays -> Nat]
  BY <1>1, <1>3
<1>5. ASSUME NEW w \in PtWays
      PROVE  c[w] <= ptCSig[s] /\ (ptCDelta[s][w] = 0 => c[w] = 0)
  <2>1. /\ \/ ptCSig[s] = 0 /\ ptDelta[s][w] = 0
           \/ ptCDelta[s][w] < ptCSig[s]
        /\ ptDelta[s][w] = 0 => ptCDelta[s][w] = 0
    BY DEF PtIInv, CountersBelowSig, UnusedWaysCold
  <2>2. ptCDelta[s][w] \in Nat /\ (c[w] = 0 \/ c[w] = ptCDelta[s][w])
    BY <1>1, <1>3
  <2>3. QED
    BY <2>1, <2>2, <1>3
<1> HIDE DEF c
<1>6. /\ ptCSig' \in [PtSets -> 0 .. CSigMax]
      /\ ptCDelta' \in [PtSets -> [PtWays -> 0 .. CSigMax]]
      /\ \A w \in PtWays : ptCDelta'[s][w] < ptCSig'[s]
      /\ \A z \in PtSets : z # s => ptCSig'[z] = ptCSig[z] /\ ptCDelta'[z] = ptCDelta[z]
      /\ \A w \in PtWays : c[w] = 0 => ptCDelta'[s][w] = 0
  BY <1>2, <1>4, <1>5, CountBelow DEF PtIInv
<1>7. /\ ptDelta' \in [PtSets -> [PtWays -> Deltas]]
      /\ \A z \in PtSets : z # s => ptDelta'[z] = ptDelta[z]
      /\ \A w \in PtWays : w # v => ptDelta'[s][w] = ptDelta[s][w]
      /\ ptDelta'[s][v] = d
  BY <1>1, <1>2, <1>3
<1>8. PtTypeOK' /\ PtNeverAborts'
  BY <1>2, <1>6, <1>7 DEF PtIInv, PtTypeOK, PtNeverAborts
<1>9. UniqueDeltas'
  <2> SUFFICES ASSUME NEW z \in PtSets, NEW x \in PtWays, NEW y \in PtWays,
                      ptDelta'[z][x] = ptDelta'[z][y], ptDelta'[z][x] # 0
               PROVE  x = y
    BY DEF UniqueDeltas
  <2>1. CASE z # s
    BY <2>1, <1>7 DEF PtIInv, UniqueDeltas
  <2>2. CASE z = s /\ x # v /\ y # v
    BY <2>2, <1>7 DEF PtIInv, UniqueDeltas
  <2>3. CASE z = s /\ (x = v \/ y = v)
    BY <2>3, <1>2, <1>7
  <2>4. QED
    BY <2>1, <2>2, <2>3
<1>10. CountersBelowSig'
  <2> SUFFICES ASSUME NEW z \in PtSets, NEW w \in PtWays
               PROVE  \/ ptCSig'[z] = 0 /\ ptDelta'[z][w] = 0
                      \/ ptCDelta'[z][w] < ptCSig'[z]
    BY DEF CountersBelowSig
  <2>1. CASE z = s
    BY <2>1, <1>6
  <2>2. CASE z # s
    BY <2>2, <1>6, <1>7 DEF PtIInv, CountersBelowSig
  <2>3. QED
    BY <2>1, <2>2
<1>11. UnusedWaysCold'
  <2> SUFFICES ASSUME NEW z \in PtSets, NEW w \in PtWays, ptDelta'[z][w] = 0
               PROVE  ptCDelta'[z][w] = 0
    BY DEF UnusedWaysCold
  <2>1. CASE z = s
    <3>1. ptDelta[s][w] = 0
      BY <2>1, <1>3, <1>7
    <3>2. ptCDelta[s][w] = 0
      BY <3>1 DEF PtIInv, UnusedWaysCold
    <3>3. QED
      BY <3>2, <2>1, <1>5, <1>6
  <2>2. CASE z # s
    BY <2>2, <1>6, <1>7 DEF PtIInv, UnusedWaysCold
  <2>3. QED
    BY <2>1, <2>2
<1>12. QED
  BY <1>8, <1>9, <1>10, <1>11 DEF PtIInv

(* One update of the table keeps the invariant.                            *)
LEMMA NextPtIInv == PtIInv /\ [PtNext]_ptVars => PtIInv'
<1> SUFFICES ASSUME PtIInv, [PtNext]_ptVars PROVE PtIInv'
  OBVIOUS
<1>1. ASSUME NEW sig \in Sigs, NEW d \in TrainedDeltas, UpdatePattern(sig, d)
      PROVE  PtIInv'
  <2>1. PtSetOf[sig] \in PtSets
    BY PatternTableAssumption
  <2>2. CASE PtHit(PtSetOf[sig], d)
    BY <2>1, <2>2, HitPtIInv
  <2>3. CASE PtReplace(PtSetOf[sig], d)
    BY <2>1, <2>3, ReplacePtIInv
  <2>4. QED
    BY <1>1, <2>2, <2>3 DEF UpdatePattern
<1>2. CASE UNCHANGED ptVars
  BY <1>2 DEF ptVars, PtIInv, PtTypeOK, PtNeverAborts, CountersBelowSig, UniqueDeltas, UnusedWaysCold
<1>3. QED
  BY <1>1, <1>2 DEF PtNext

(* The confidence of a lookahead step is below that of the path so far.    *)
LEMMA Decay ==
  ASSUME NEW a \in 0 .. 100, NEW c \in Nat, NEW n \in Nat \ {0}, c < n, NEW f \in 1 .. 100
  PROVE  (((a * c) \div n) * f) \div 100 < f
<1> DEFINE q == (a * c) \div n
<1>1. q \in Nat /\ n * q <= a * c
  OBVIOUS
<1>2. a * c <= 100 * c
  OBVIOUS
<1>3. q < 100
  <2>1. SUFFICES ASSUME q >= 100 PROVE FALSE
    BY <1>1
  <2>2. n * q >= n * 100
    BY <1>1, <2>1
  <2>3. QED
    BY <1>1, <1>2, <2>2
<1> HIDE DEF q
<1>4. q * f < 100 * f
  BY <1>1, <1>3
<1>5. q * f \in Nat
  BY <1>1
<1>6. (q * f) \div 100 < f
  BY <1>4, <1>5
<1>7. QED
  BY <1>6 DEF q

(* Hence no lookahead step keeps its confidence while the counters hold.   *)
LEMMA PtIInvLookahead == PtIInv => LookaheadDecays
<1> SUFFICES ASSUME PtIInv, NEW s \in PtSets, NEW w \in PtWays,
                    NEW a \in Percents, NEW f \in Percents, f > 0
             PROVE  PathConf(s, w, a, f) < f
  BY DEF LookaheadDecays
<1>1. a \in 0 .. 100 /\ f \in 1 .. 100
  BY PatternTableAssumption
<1>2. CASE ptCSig[s] = 0
  BY <1>1, <1>2 DEF PathConf
<1>3. CASE ptCSig[s] # 0
  <2>1. ptCSig[s] \in Nat \ {0} /\ ptCDelta[s][w] \in Nat
    BY <1>3 DEF PtIInv, PtTypeOK
  <2>2. ptCDelta[s][w] < ptCSig[s]
    BY <1>3 DEF PtIInv, CountersBelowSig
  <2>3. QED
    BY <1>1, <1>3, <2>1, <2>2, Decay DEF PathConf
<1>4. QED
  BY <1>2, <1>3

(* The inductive invariant of the table holds in every reachable state.    *)
THEOREM PtInvariance == PtSpec => []PtIInv
<1>1. QED
  BY InitPtIInv, NextPtIInv, PTL DEF PtSpec

(* update_pattern never fails its assertion.                               *)
THEOREM PtVictimAlwaysFound == PtSpec => []PtNeverAborts
<1>1. PtIInv => PtNeverAborts
  BY DEF PtIInv
<1>2. QED
  BY <1>1, PtInvariance, PTL

(* A delta has one way, and counts strictly less than its set.             *)
THEOREM CountersAlways == PtSpec => [](CountersBelowSig /\ UniqueDeltas)
<1>1. PtIInv => CountersBelowSig /\ UniqueDeltas
  BY DEF PtIInv
<1>2. QED
  BY <1>1, PtInvariance, PTL

(* A way never filled is never a prefetch candidate.                       *)
THEOREM UnusedWaysColdAlways == PtSpec => []UnusedWaysCold
<1>1. PtIInv => UnusedWaysCold
  BY DEF PtIInv
<1>2. QED
  BY <1>1, PtInvariance, PTL

(* While accuracy is a percentage, lookahead always loses confidence.      *)
THEOREM LookaheadAlwaysDecays == PtSpec => []LookaheadDecays
<1>1. QED
  BY PtIInvLookahead, PtInvariance, PTL
-----------------------------------------------------------------------------
(* What a level of the lookahead can keep of a percentage.                 *)
Retained == (100 * (CSigMax - 1)) \div CSigMax

PartOf(a, c, n) == (a * c) \div n

SharesLevel(p, c, n) == p \in 0 .. 100 /\ p * n <= 100 * c /\ p <= Retained

(* A share of a percentage is not more than the counter's share of it, and *)
(* not more than what a level can keep.                                    *)
LEMMA Share ==
  ASSUME NEW a \in 0 .. 100, NEW c \in Nat, NEW n \in 1 .. CSigMax, c < n
  PROVE  SharesLevel(PartOf(a, c, n), c, n)
<1> USE DEF PartOf
<1> DEFINE p == PartOf(a, c, n)
           r == Retained
<1>1. n \in Nat \ {0} /\ CSigMax \in Nat \ {0} /\ n <= CSigMax
  BY PatternTableAssumption
<1>2. a * c \in Nat /\ a * c <= 100 * c
  OBVIOUS
<1>3. p \in Nat /\ n * p <= a * c
  BY <1>1, <1>2
<1>4. r \in Int /\ 100 * (CSigMax - 1) < CSigMax * (r + 1)
  BY <1>1 DEF Retained
<1> HIDE DEF p, r
<1>5. n * p <= 100 * c /\ 100 * c <= 100 * n - 100
  BY <1>1, <1>2, <1>3
<1>6. n * (100 - p) >= 100
  BY <1>1, <1>3, <1>5
<1>7. 100 - p > 0
  BY <1>1, <1>3, <1>6
<1>8. CSigMax * (100 - p) >= n * (100 - p)
  BY <1>1, <1>3, <1>7
<1>9. CSigMax * p < CSigMax * (r + 1)
  BY <1>1, <1>3, <1>4, <1>6, <1>8
<1>10. p < r + 1
  BY <1>1, <1>3, <1>4, <1>9
<1> QED
  BY <1>1, <1>3, <1>4, <1>5, <1>7, <1>10 DEF p, r, SharesLevel

(* The confidence of a way whose counter is c in a set that counted n, on  *)
(* a path of confidence f: no more than c's share of it, and than what a   *)
(* level keeps of it.                                                      *)
OnPath(a, c, n, f) == (PartOf(a, c, n) * f) \div 100

SharesPath(q, c, n, f) == q \in Nat /\ q * n <= f * c /\ 100 * q <= f * Retained

LEMMA PathShare ==
  ASSUME NEW a \in 0 .. 100, NEW c \in Nat, NEW n \in 1 .. CSigMax, c < n,
         NEW f \in 0 .. 100
  PROVE  SharesPath(OnPath(a, c, n, f), c, n, f)
<1> DEFINE p == PartOf(a, c, n)
           q == OnPath(a, c, n, f)
<1>0. q = (p * f) \div 100
  BY DEF OnPath
<1>1. p \in 0 .. 100 /\ p * n <= 100 * c /\ p <= Retained
  BY Share DEF SharesLevel
<1>2. Retained \in Int /\ n \in Nat \ {0}
  BY PatternTableAssumption DEF Retained
<1> HIDE DEF p, q
<1>3. p * f \in Nat
  BY <1>1
<1>4. q \in Nat /\ 100 * q <= p * f
  BY <1>0, <1>3
<1>5. p * f <= f * Retained
  BY <1>1, <1>2
<1>6. 100 * (q * n) <= (p * f) * n
  BY <1>2, <1>3, <1>4
<1>7. (p * f) * n <= (100 * c) * f
  <2>1. (p * n) * f <= (100 * c) * f
    BY <1>1, <1>2
  <2>2. (p * f) * n = (p * n) * f
    BY <1>1, <1>2
  <2> QED
    BY <2>1, <2>2
<1>8. 100 * (q * n) <= 100 * (f * c)
  <2>1. (100 * c) * f = 100 * (f * c)
    BY <1>2
  <2>2. q * n \in Nat /\ (p * f) * n \in Nat /\ (100 * c) * f \in Nat
    BY <1>2, <1>3, <1>4
  <2> QED
    BY <1>6, <1>7, <2>1, <2>2
<1>9. q * n <= f * c
  BY <1>2, <1>4, <1>8
<1>10. 100 * q <= f * Retained
  <2>1. f * Retained \in Int
    BY <1>2
  <2> QED
    BY <1>3, <1>4, <1>5, <2>1
<1> QED
  BY <1>4, <1>9, <1>10 DEF q, SharesPath

(* The same, with the ranges of its arguments under one name.              *)
Counted(a, c, n, f) ==
  a \in 0 .. 100 /\ c \in Nat /\ n \in 1 .. CSigMax /\ c < n /\ f \in 0 .. 100

LEMMA CountedShare ==
  ASSUME NEW a, NEW c, NEW n, NEW f, Counted(a, c, n, f)
  PROVE  SharesPath(OnPath(a, c, n, f), c, n, f)
<1>1. a \in 0 .. 100 /\ c \in Nat /\ n \in 1 .. CSigMax /\ c < n /\ f \in 0 .. 100
  BY DEF Counted
<1> QED
  BY <1>1, PathShare

(* The counters c of the ways 0 .. m - 1 add up to no more than n: their   *)
(* partial sums stay below those of some function.                         *)
Adds(c, m, n, sum) ==
  /\ sum \in [0 .. m -> Nat] /\ sum[m] <= n
  /\ \A i \in 1 .. m : sum[i - 1] + c[i - 1] <= sum[i]

AddUpTo(c, m, n) == \E sum : Adds(c, m, n, sum)

(* One more addend on both sides.                                          *)
LEMMA AddedShare ==
  ASSUME NEW x \in Nat, NEW k \in Nat, NEW n \in Nat, NEW f \in Nat,
         NEW s \in Nat, NEW c \in Nat, NEW z \in Nat,
         x * n <= f * s, k * n <= f * c, s + c <= z
  PROVE  (x + k) * n <= f * z
<1>1. (x + k) * n = x * n + k * n /\ f * (s + c) = f * s + f * c
  OBVIOUS
<1>2. f * (s + c) <= f * z
  OBVIOUS
<1>3. x * n \in Nat /\ k * n \in Nat /\ f * s \in Nat /\ f * c \in Nat /\ f * z \in Nat
  OBVIOUS
<1> QED
  BY <1>1, <1>2, <1>3

(* A product does not fall when a factor grows, and only then.             *)
LEMMA Products ==
  ASSUME NEW x \in Nat, NEW y \in Nat, NEW n \in Nat \ {0}
  PROVE  x * n <= y * n <=> x <= y
  OBVIOUS

Shares(conf, c, m, n, f) ==
  /\ conf \in [0 .. m - 1 -> Nat] /\ c \in [0 .. m - 1 -> Nat]
  /\ \A w \in 0 .. m - 1 : conf[w] * n <= f * c[w]

(* Ways that have t at least, and one of them.                             *)
Competing(ways, best, conf, t, m) ==
  /\ conf \in [0 .. m - 1 -> Nat] /\ ways \subseteq 0 .. m - 1 /\ best \in ways
  /\ \A w \in ways : conf[w] >= t

(* What some ways have at least: t each, but for the best what it has.     *)
Others(ways, best, i) == {w \in ways : w < i /\ w # best}

Tally(ways, best, conf, t, i) ==
  Cardinality(Others(ways, best, i)) * t + (IF best < i THEN conf[best] ELSE 0)

(* It grows by no more than a way has.                                     *)
LEMMA TallyGrows ==
  ASSUME NEW m \in Nat, NEW t \in Nat, NEW conf, NEW ways, NEW best,
         Competing(ways, best, conf, t, m)
  PROVE  /\ \A i \in 0 .. m : Tally(ways, best, conf, t, i) \in Nat
         /\ Tally(ways, best, conf, t, 0) = 0
         /\ \A i \in 1 .. m : Tally(ways, best, conf, t, i)
                                 <= Tally(ways, best, conf, t, i - 1) + conf[i - 1]
         /\ Cardinality(ways) \in Nat \ {0}
         /\ Tally(ways, best, conf, t, m) = (Cardinality(ways) - 1) * t + conf[best]
<1> DEFINE Part(i) == Others(ways, best, i)
           size(i) == Cardinality(Part(i))
           bestConf(i) == IF best < i THEN conf[best] ELSE 0
           tally(i) == Tally(ways, best, conf, t, i)
<1>0. \A i : tally(i) = size(i) * t + bestConf(i)
  BY DEF Tally
<1>1. /\ best \in Int /\ 0 <= best /\ best < m /\ conf[best] \in Nat
      /\ \A v \in ways : v \in Int /\ 0 <= v /\ v < m
  BY DEF Competing
<1>2. IsFiniteSet(ways) /\ \A i \in 0 .. m : IsFiniteSet(Part(i)) /\ size(i) \in Nat
  <2>1. IsFiniteSet(ways)
    <3>1. IsFiniteSet(0 .. m - 1)
      BY FS_Interval
    <3> QED
      BY <3>1, FS_Subset DEF Competing
  <2>2. ASSUME NEW i \in 0 .. m PROVE IsFiniteSet(Part(i)) /\ size(i) \in Nat
    <3>1. Part(i) \subseteq ways
      BY DEF Others
    <3>2. IsFiniteSet(Part(i))
      BY <2>1, <3>1, FS_Subset
    <3> QED
      BY <3>2, FS_CardinalityType
  <2> QED
    BY <2>1, <2>2
<1>3. \A i \in 0 .. m : bestConf(i) \in Nat
  BY <1>1
<1>4. \A i \in 0 .. m : tally(i) \in Nat
  <2>1. \A i \in 0 .. m : size(i) * t + bestConf(i) \in Nat
    <3>1. \A i \in 0 .. m : size(i) \in Nat
      BY <1>2
    <3> HIDE DEF size, bestConf
    <3>2. TAKE i \in 0 .. m
    <3>3. size(i) \in Nat /\ bestConf(i) \in Nat
      BY <1>3, <3>1
    <3> DEFINE k == size(i)
               b == bestConf(i)
    <3>4. k \in Nat /\ b \in Nat
      BY <3>3
    <3> HIDE DEF k, b
    <3>5. k * t + b \in Nat
      BY <3>4
    <3> QED
      BY <3>5 DEF k, b
  <2> QED
    BY <1>0, <2>1
<1>5. tally(0) = 0
  <2>1. Part(0) = {}
    <3>1. \A v \in ways : ~(v < 0)
      BY <1>1
    <3> QED
      BY <3>1 DEF Others
  <2>3. bestConf(0) = 0
    BY <1>1
  <2>2. size(0) = 0
    BY <2>1, FS_EmptySet
  <2> QED
    BY <1>0, <2>1, <2>2, <2>3
<1>6. ASSUME NEW i \in 1 .. m PROVE tally(i) <= tally(i - 1) + conf[i - 1]
  <2> DEFINE w == i - 1
  <2>1. w \in 0 .. m /\ i \in 0 .. m /\ w \in 0 .. m - 1
    OBVIOUS
  <2>8. conf[w] \in Nat
    BY <2>1 DEF Competing
  <2>2. conf[w] \in Nat /\ size(w) \in Nat /\ size(i) \in Nat /\ tally(w) \in Nat
    BY <1>2, <1>4, <2>1, <2>8
  <2>3. \A v \in ways : v < i <=> v < w \/ v = w
    BY <1>1
  <2>7. bestConf(i) = IF w = best THEN conf[w] ELSE bestConf(w)
    BY <1>1, <2>3
  <2>4. CASE w = best
    <3>3. Part(i) = Part(w)
      BY <2>3, <2>4 DEF Others
    <3>4. bestConf(w) = 0
      BY <1>1, <2>4
    <3>1. Part(i) = Part(w) /\ bestConf(w) = 0 /\ bestConf(i) = conf[w]
      BY <2>4, <2>7, <3>3, <3>4
    <3>2. tally(i) = size(w) * t + conf[w] /\ tally(w) = size(w) * t
      BY <1>0, <2>2, <3>1
    <3> HIDE DEF tally
    <3> QED
      BY <2>2, <3>2
  <2>5. CASE w # best /\ w \in ways
    <3>6. Part(i) = Part(w) \union {w}
      BY <2>3, <2>5 DEF Others
    <3>7. w \notin Part(w)
      BY <1>1 DEF Others
    <3>1. Part(i) = Part(w) \union {w} /\ w \notin Part(w) /\ bestConf(w) = bestConf(i)
      BY <2>5, <2>7, <3>6, <3>7
    <3>2. size(i) = size(w) + 1
      BY <1>2, <2>1, <3>1, FS_AddElement
    <3>3. size(i) * t = size(w) * t + t /\ size(w) * t \in Nat
      <4> DEFINE k == size(w)
      <4>1. k \in Nat /\ size(i) = k + 1
        BY <2>2, <3>2
      <4> HIDE DEF k
      <4>2. (k + 1) * t = k * t + t /\ k * t \in Nat
        BY <4>1
      <4> QED
        BY <4>1, <4>2 DEF k
    <3>4. tally(i) = tally(w) + t
      <4>1. bestConf(w) \in Nat
        BY <1>3, <2>1
      <4> HIDE DEF bestConf, size, tally
      <4> QED
        BY <1>0, <3>1, <3>3, <4>1
    <3>5. t <= conf[w]
      BY <2>2, <2>5 DEF Competing
    <3> HIDE DEF tally
    <3> QED
      BY <2>2, <3>4, <3>5
  <2>6. CASE w \notin ways
    <3>3. Part(i) = Part(w)
      BY <2>3, <2>6 DEF Others
    <3>4. w # best
      BY <2>6 DEF Competing
    <3>1. Part(i) = Part(w) /\ bestConf(w) = bestConf(i)
      BY <2>7, <3>3, <3>4
    <3>2. tally(i) = tally(w)
      BY <1>0, <3>1
    <3> HIDE DEF tally
    <3> QED
      BY <2>2, <3>2
  <2> QED
    BY <2>4, <2>5, <2>6
<1>7. /\ Cardinality(ways) \in Nat \ {0}
      /\ tally(m) = (Cardinality(ways) - 1) * t + conf[best]
  <2>3. Part(m) = ways \ {best}
    BY <1>1 DEF Others
  <2>4. bestConf(m) = conf[best]
    BY <1>1
  <2>1. Part(m) = ways \ {best} /\ bestConf(m) = conf[best]
    BY <2>3, <2>4
  <2>2. size(m) = Cardinality(ways) - 1 /\ Cardinality(ways) \in Nat /\ size(m) \in Nat
    <3>1. IsFiniteSet(ways) /\ best \in ways
      BY <1>2 DEF Competing
    <3>2. Cardinality(ways \ {best}) = Cardinality(ways) - 1 /\ Cardinality(ways) \in Nat
      BY <3>1, FS_RemoveElement, FS_CardinalityType
    <3>3. size(m) \in Nat
      BY <1>2
    <3> QED
      BY <2>1, <3>2, <3>3
  <2>5. Cardinality(ways) \in Nat \ {0}
    BY <2>2
  <2>6. tally(m) = size(m) * t + bestConf(m)
    BY <1>0
  <2> QED
    BY <2>1, <2>2, <2>5, <2>6
<1> QED
  BY <1>4, <1>5, <1>6, <1>7

(* Ways that share a percentage f as their counters do, each with at least *)
(* t of it, leave the best of them what the others do not take.            *)
LEMMA BestLeft ==
  ASSUME NEW m \in Nat, NEW n \in Nat \ {0}, NEW f \in Nat, NEW t \in Nat,
         NEW c, AddUpTo(c, m, n), NEW conf, Shares(conf, c, m, n, f),
         NEW ways, NEW best, Competing(ways, best, conf, t, m)
  PROVE  /\ Cardinality(ways) \in Nat \ {0}
         /\ conf[best] + (Cardinality(ways) - 1) * t <= f
<1> DEFINE tally(i) == Tally(ways, best, conf, t, i)
<1>1. PICK sum : Adds(c, m, n, sum)
  BY DEF AddUpTo
<1>2. conf \in [0 .. m - 1 -> Nat] /\ c \in [0 .. m - 1 -> Nat]
  BY DEF Shares
<1>3. /\ \A i \in 0 .. m : tally(i) \in Nat
      /\ tally(0) = 0
      /\ \A i \in 1 .. m : tally(i) <= tally(i - 1) + conf[i - 1]
      /\ Cardinality(ways) \in Nat \ {0}
      /\ tally(m) = (Cardinality(ways) - 1) * t + conf[best]
  BY TallyGrows
<1> HIDE DEF tally
<1>4. /\ sum \in [0 .. m -> Nat] /\ sum[m] <= n
      /\ \A i \in 1 .. m : sum[i - 1] + c[i - 1] <= sum[i]
  BY <1>1 DEF Adds
<1> DEFINE Good == {i \in 0 .. m : tally(i) * n <= f * sum[i]}
<1>5. 0 \in Good
  <2>1. sum[0] \in Nat
    BY <1>4
  <2>2. 0 * n <= f * sum[0]
    BY <2>1
  <2> QED
    BY <1>3, <2>2
<1>6. ASSUME NEW i \in 1 .. m, i - 1 \in Good PROVE i \in Good
  <2> DEFINE w == i - 1
  <2>1. w \in 0 .. m - 1 /\ i \in 0 .. m /\ w \in 0 .. m
    OBVIOUS
  <2>2. /\ c[w] \in Nat /\ conf[w] \in Nat /\ sum[w] \in Nat /\ sum[i] \in Nat
        /\ tally(w) \in Nat /\ tally(i) \in Nat
    BY <1>2, <1>3, <1>4, <2>1
  <2>3. conf[w] * n <= f * c[w]
    BY <2>1 DEF Shares
  <2>4. sum[w] + c[w] <= sum[i] /\ tally(w) * n <= f * sum[w] /\ tally(i) <= tally(w) + conf[w]
    BY <1>3, <1>4, <1>6
  <2> HIDE DEF w, Good
  <2>5. (tally(w) + conf[w]) * n <= f * sum[i]
    BY <2>2, <2>3, <2>4, AddedShare
  <2>6. tally(i) * n <= (tally(w) + conf[w]) * n
    <3>1. tally(w) + conf[w] \in Nat
      BY <2>2
    <3> QED
      BY <2>2, <2>4, <3>1, Products
  <2>7. tally(i) * n <= f * sum[i]
    <3>1. tally(i) * n \in Nat /\ (tally(w) + conf[w]) * n \in Nat /\ f * sum[i] \in Nat
      BY <2>2
    <3> QED
      BY <2>5, <2>6, <3>1
  <2> QED
    BY <2>1, <2>7 DEF Good
<1> HIDE DEF Good
<1>7. m \in Good
  <2>1. Good \in SUBSET (0 .. m)
    BY DEF Good
  <2>2. Good = 0 .. m
    BY <1>5, <1>6, <2>1, LoopKeeps
  <2> QED
    BY <2>2
<1>8. tally(m) * n <= f * n
  <2>1. tally(m) * n <= f * sum[m] /\ sum[m] \in Nat /\ tally(m) \in Nat /\ sum[m] <= n
    BY <1>3, <1>4, <1>7 DEF Good
  <2>2. f * sum[m] <= f * n
    BY <2>1
  <2>3. tally(m) * n \in Nat /\ f * sum[m] \in Nat /\ f * n \in Nat
    BY <2>1
  <2> QED
    BY <2>1, <2>2, <2>3
<1>9. tally(m) <= f
  <2>1. tally(m) \in Nat
    BY <1>3
  <2> QED
    BY <1>8, <2>1, Products
<1>10. conf[best] \in Nat /\ (Cardinality(ways) - 1) * t \in Nat
  <2> DEFINE k == Cardinality(ways) - 1
  <2>1. k \in Nat
    BY <1>3
  <2>3. conf[best] \in Nat
    BY <1>2 DEF Competing
  <2> HIDE DEF k
  <2>2. k * t \in Nat
    BY <2>1
  <2> QED
    BY <2>2, <2>3 DEF k
<1> QED
  BY <1>3, <1>9, <1>10

(* Counting one more, in a way or for none of them, keeps the sum.         *)
LEMMA HitAdds ==
  ASSUME NEW m \in Nat, NEW n \in Nat, NEW c \in [0 .. m - 1 -> Nat], AddUpTo(c, m, n),
         NEW w \in 0 .. m - 1
  PROVE  AddUpTo([c EXCEPT ![w] = @ + 1], m, n + 1)
<1>1. PICK sum : Adds(c, m, n, sum)
  BY DEF AddUpTo
<1>2. /\ sum \in [0 .. m -> Nat] /\ sum[m] <= n
      /\ \A i \in 1 .. m : sum[i - 1] + c[i - 1] <= sum[i]
  BY <1>1 DEF Adds
<1> DEFINE d == [c EXCEPT ![w] = @ + 1]
           more == [i \in 0 .. m |-> IF i > w THEN sum[i] + 1 ELSE sum[i]]
<1>3. \A i \in 0 .. m : sum[i] \in Nat
  BY <1>2
<1>4. more \in [0 .. m -> Nat]
  BY <1>3
<1>5. more[m] <= n + 1
  <2>1. m \in 0 .. m /\ m > w
    OBVIOUS
  <2> QED
    BY <1>2, <1>3, <2>1
<1>6. ASSUME NEW i \in 1 .. m PROVE more[i - 1] + d[i - 1] <= more[i]
  <2>1. /\ i - 1 \in 0 .. m /\ i \in 0 .. m /\ i - 1 \in 0 .. m - 1
        /\ sum[i - 1] + c[i - 1] <= sum[i] /\ c[i - 1] \in Nat
        /\ sum[i - 1] \in Nat /\ sum[i] \in Nat /\ w \in Int
    BY <1>2, <1>3
  <2>2. CASE i - 1 = w
    <3>1. more[i - 1] = sum[i - 1] /\ more[i] = sum[i] + 1 /\ d[i - 1] = c[i - 1] + 1
      BY <2>1, <2>2
    <3> HIDE DEF more, d
    <3> QED
      BY <2>1, <3>1
  <2>3. CASE i - 1 # w
    <3>1. d[i - 1] = c[i - 1]
      BY <2>1, <2>3
    <3>2. \/ more[i - 1] = sum[i - 1] /\ more[i] = sum[i]
          \/ more[i - 1] = sum[i - 1] + 1 /\ more[i] = sum[i] + 1
      BY <2>1, <2>3
    <3> HIDE DEF more, d
    <3> QED
      BY <2>1, <3>1, <3>2
  <2> QED
    BY <2>2, <2>3
<1> HIDE DEF more, d
<1>7. Adds(d, m, n + 1, more)
  BY <1>4, <1>5, <1>6 DEF Adds
<1> QED
  BY <1>7 DEF AddUpTo, d

(* A way that is replaced gives up its counter.                            *)
LEMMA ClearAdds ==
  ASSUME NEW m \in Nat, NEW n \in Nat, NEW c \in [0 .. m - 1 -> Nat], AddUpTo(c, m, n),
         NEW w \in 0 .. m - 1
  PROVE  AddUpTo([c EXCEPT ![w] = 0], m, n + 1)
<1>1. PICK sum : Adds(c, m, n, sum)
  BY DEF AddUpTo
<1>2. /\ sum \in [0 .. m -> Nat] /\ sum[m] <= n
      /\ \A i \in 1 .. m : sum[i - 1] + c[i - 1] <= sum[i]
  BY <1>1 DEF Adds
<1> DEFINE d == [c EXCEPT ![w] = 0]
<1>3. ASSUME NEW i \in 1 .. m PROVE sum[i - 1] + d[i - 1] <= sum[i]
  <2>1. /\ i - 1 \in 0 .. m - 1 /\ i \in 0 .. m /\ i - 1 \in 0 .. m
        /\ sum[i - 1] + c[i - 1] <= sum[i]
    BY <1>2
  <2>2. d[i - 1] \in Nat /\ c[i - 1] \in Nat /\ d[i - 1] <= c[i - 1]
    BY <2>1
  <2>3. sum[i - 1] \in Nat /\ sum[i] \in Nat
    BY <1>2, <2>1
  <2> HIDE DEF d
  <2> QED
    BY <2>1, <2>2, <2>3
<1>4. sum[m] <= n + 1
  BY <1>2
<1> HIDE DEF d
<1>5. Adds(d, m, n + 1, sum)
  BY <1>2, <1>3, <1>4 DEF Adds
<1> QED
  BY <1>5 DEF AddUpTo, d

(* And so does halving them all.                                           *)
LEMMA HalfAdds ==
  ASSUME NEW m \in Nat, NEW n \in Nat, NEW c \in [0 .. m - 1 -> Nat], AddUpTo(c, m, n)
  PROVE  AddUpTo([w \in 0 .. m - 1 |-> c[w] \div 2], m, n \div 2)
<1>1. PICK sum : Adds(c, m, n, sum)
  BY DEF AddUpTo
<1>2. /\ sum \in [0 .. m -> Nat] /\ sum[m] <= n
      /\ \A i \in 1 .. m : sum[i - 1] + c[i - 1] <= sum[i]
  BY <1>1 DEF Adds
<1> DEFINE d == [w \in 0 .. m - 1 |-> c[w] \div 2]
           half == [i \in 0 .. m |-> sum[i] \div 2]
<1>3. \A i \in 0 .. m : sum[i] \in Nat
  BY <1>2
<1>4. half \in [0 .. m -> Nat]
  BY <1>3
<1>5. half[m] <= n \div 2
  <2>1. half[m] = sum[m] \div 2 /\ sum[m] \in Nat
    BY <1>3
  <2> HIDE DEF half
  <2> QED
    BY <1>2, <2>1
<1>6. ASSUME NEW i \in 1 .. m PROVE half[i - 1] + d[i - 1] <= half[i]
  <2>1. /\ i - 1 \in 0 .. m /\ i \in 0 .. m /\ i - 1 \in 0 .. m - 1
        /\ sum[i - 1] + c[i - 1] <= sum[i] /\ c[i - 1] \in Nat
        /\ sum[i - 1] \in Nat /\ sum[i] \in Nat
    BY <1>2, <1>3
  <2>2. /\ half[i - 1] = sum[i - 1] \div 2 /\ half[i] = sum[i] \div 2
        /\ d[i - 1] = c[i - 1] \div 2
    BY <2>1
  <2> HIDE DEF half, d
  <2> QED
    BY <2>1, <2>2
<1> HIDE DEF half, d
<1>7. Adds(d, m, n \div 2, half)
  BY <1>4, <1>5, <1>6 DEF Adds
<1> QED
  BY <1>7 DEF AddUpTo, d

(* The counters of a set never add up to more than c_sig.                  *)
SharesSig == \A s \in PtSets : AddUpTo(ptCDelta[s], PtWay, ptCSig[s])

(* It holds of empty sets and is kept by every update.                     *)
LEMMA InitSharesSig == PtInit => SharesSig
<1> SUFFICES ASSUME PtInit, NEW s \in PtSets
             PROVE  AddUpTo(ptCDelta[s], PtWay, ptCSig[s])
  BY DEF SharesSig
<1> DEFINE none == [i \in 0 .. PtWay |-> 0]
<1>1. PtWay \in Nat
  BY PatternTableAssumption
<1>2. ptCDelta[s] = [w \in 0 .. PtWay - 1 |-> 0] /\ ptCSig[s] = 0
  BY DEF PtInit, PtWays
<1>3. Adds(ptCDelta[s], PtWay, ptCSig[s], none)
  <2>1. none \in [0 .. PtWay -> Nat] /\ none[PtWay] <= 0
    BY <1>1
  <2>2. ASSUME NEW i \in 1 .. PtWay PROVE none[i - 1] + ptCDelta[s][i - 1] <= none[i]
    <3>1. i - 1 \in 0 .. PtWay - 1 /\ i \in 0 .. PtWay /\ i - 1 \in 0 .. PtWay
      BY <1>1
    <3> QED
      BY <1>2, <3>1
  <2> QED
    BY <1>2, <2>1, <2>2 DEF Adds
<1> QED
  BY <1>3 DEF AddUpTo

(* An update of a set: at C_SIG_MAX all its counters are halved.           *)
LEMMA CountShares ==
  ASSUME PtTypeOK, SharesSig, NEW s \in PtSets, NEW counters \in [PtWays -> Nat],
         AddUpTo(counters, PtWay, ptCSig[s] + 1), Count(s, counters)
  PROVE  SharesSig'
<1>1. /\ PtWays = 0 .. PtWay - 1 /\ PtWay \in Nat /\ ptCSig[s] \in Nat
      /\ ptCDelta \in [PtSets -> [PtWays -> 0 .. CSigMax]]
      /\ ptCSig \in [PtSets -> 0 .. CSigMax]
  BY PatternTableAssumption DEF PtTypeOK, PtWays
<1>2. CASE ptCSig[s] + 1 > CSigMax
  <2>1. /\ ptCDelta' = [ptCDelta EXCEPT ![s] = [w \in PtWays |-> counters[w] \div 2]]
        /\ ptCSig' = [ptCSig EXCEPT ![s] = (@ + 1) \div 2]
    BY <1>2 DEF Count
  <2>2. AddUpTo([w \in 0 .. PtWay - 1 |-> counters[w] \div 2], PtWay, (ptCSig[s] + 1) \div 2)
    <3>1. counters \in [0 .. PtWay - 1 -> Nat] /\ ptCSig[s] + 1 \in Nat
      BY <1>1
    <3> QED
      BY <1>1, <3>1, HalfAdds
  <2>3. /\ ptCDelta'[s] = [w \in 0 .. PtWay - 1 |-> counters[w] \div 2]
        /\ ptCSig'[s] = (ptCSig[s] + 1) \div 2
        /\ \A z \in PtSets : z # s => ptCDelta'[z] = ptCDelta[z] /\ ptCSig'[z] = ptCSig[z]
    BY <1>1, <2>1
  <2> QED
    BY <2>2, <2>3 DEF SharesSig
<1>3. CASE ~(ptCSig[s] + 1 > CSigMax)
  <2>1. /\ ptCDelta' = [ptCDelta EXCEPT ![s] = counters]
        /\ ptCSig' = [ptCSig EXCEPT ![s] = @ + 1]
    BY <1>3 DEF Count
  <2>2. /\ ptCDelta'[s] = counters /\ ptCSig'[s] = ptCSig[s] + 1
        /\ \A z \in PtSets : z # s => ptCDelta'[z] = ptCDelta[z] /\ ptCSig'[z] = ptCSig[z]
    BY <1>1, <2>1
  <2> QED
    BY <2>2 DEF SharesSig
<1> QED
  BY <1>2, <1>3

(* Whichever way an update hits or replaces.                               *)
LEMMA NextSharesSig == PtTypeOK /\ SharesSig /\ [PtNext]_ptVars => SharesSig'
<1> SUFFICES ASSUME PtTypeOK, SharesSig, [PtNext]_ptVars PROVE SharesSig'
  OBVIOUS
<1>1. CASE UNCHANGED ptVars
  BY <1>1 DEF ptVars, SharesSig
<1>2. ASSUME NEW sig \in Sigs, NEW d \in TrainedDeltas, UpdatePattern(sig, d)
      PROVE  SharesSig'
  <2> DEFINE s == PtSetOf[sig]
             c == ptCDelta[s]
  <2>1. /\ s \in PtSets /\ PtWays = 0 .. PtWay - 1 /\ PtWay \in Nat
    BY PatternTableAssumption DEF PtWays
  <2>2. c \in [0 .. PtWay - 1 -> Nat] /\ ptCSig[s] \in Nat /\ AddUpTo(c, PtWay, ptCSig[s])
    <3>1. c \in [PtWays -> 0 .. CSigMax] /\ ptCSig[s] \in 0 .. CSigMax
      BY <2>1 DEF PtTypeOK
    <3> QED
      BY <2>1, <3>1 DEF SharesSig
  <2>3. CASE PtHit(s, d)
    <3> DEFINE w == Min(PtHitWays(s, d))
    <3>1. w \in PtWays
      <4>1. PtHitWays(s, d) \in SUBSET Nat /\ PtHitWays(s, d) # {}
        BY <2>1, <2>3 DEF PtHit, PtHitWays
      <4> QED
        BY <4>1, MinIsMember DEF PtHitWays
    <3>2. Count(s, [c EXCEPT ![w] = @ + 1])
      BY <2>3 DEF PtHit
    <3> HIDE DEF w, c, s
    <3>3. AddUpTo([c EXCEPT ![w] = @ + 1], PtWay, ptCSig[s] + 1)
      BY <2>1, <2>2, <3>1, HitAdds
    <3>4. [c EXCEPT ![w] = @ + 1] \in [PtWays -> Nat]
      BY <2>1, <2>2, <3>1
    <3> QED
      BY <2>1, <3>2, <3>3, <3>4, CountShares DEF c
  <2>4. CASE PtReplace(s, d)
    <3> DEFINE w == Min(PtVictims(s))
    <3>1. CASE PtVictims(s) = {}
      BY <2>4, <3>1 DEF PtReplace, SharesSig
    <3>2. CASE PtVictims(s) # {}
      <4>1. w \in PtWays
        <5>1. PtVictims(s) \in SUBSET Nat
          BY <2>1 DEF PtVictims
        <5> QED
          BY <3>2, <5>1, MinIsMember DEF PtVictims
      <4>2. Count(s, [c EXCEPT ![w] = 0])
        BY <2>4, <3>2 DEF PtReplace
      <4> HIDE DEF w, c, s
      <4>3. AddUpTo([c EXCEPT ![w] = 0], PtWay, ptCSig[s] + 1)
        BY <2>1, <2>2, <4>1, ClearAdds
      <4>4. [c EXCEPT ![w] = 0] \in [PtWays -> Nat]
        BY <2>1, <2>2, <4>1
      <4> QED
        BY <2>1, <4>2, <4>3, <4>4, CountShares DEF c
    <3> QED
      BY <3>1, <3>2
  <2> QED
    BY <1>2, <2>3, <2>4 DEF UpdatePattern
<1> QED
  BY <1>1, <1>2 DEF PtNext

(***************************************************************************)
(* The counters of the ways of a set are shares of c_sig, together never   *)
(* more than it: read_pattern spreads at most 100 percent over the ways.   *)
(***************************************************************************)
THEOREM CountersAddUpAlways == PtSpec => []SharesSig
<1>1. PtIInv => PtTypeOK
  BY DEF PtIInv
<1> QED
  BY <1>1, InitSharesSig, NextSharesSig, PtInvariance, PTL DEF PtSpec
-----------------------------------------------------------------------------
(* The register starts empty.                                              *)
LEMMA InitGhrIInv == GhrInit => GhrIInv
<1> SUFFICES ASSUME GhrInit PROVE GhrIInv
  OBVIOUS
<1> DEFINE e == [valid |-> FALSE, sig |-> 0, confidence |-> 0, offset |-> 0, delta |-> 0]
<1>1. 0 \in Deltas
  <2>1. 0 \in Offsets /\ 0 - 0 = 0
    BY SppAssumption
  <2> QED
    BY <2>1 DEF Deltas
<1>2. e \in [valid : BOOLEAN, sig : Sigs, confidence : Confs \union {0},
             offset : Offsets, delta : Deltas]
  BY <1>1, SppAssumption
<1>3. ghr = [i \in Entries |-> e] /\ ghrAborted = FALSE
  BY DEF GhrInit
<1>4. GhrTypeOK
  BY <1>2, <1>3 DEF GhrTypeOK
<1>5. \A i \in Entries : ghr[i] = e
  BY <1>3
<1>6. UniqueOffsets /\ FoundIsValid /\ VictimFound
  BY <1>3, <1>5 DEF UniqueOffsets, FoundIsValid, VictimFound
<1> QED
  BY <1>4, <1>6 DEF GhrIInv

(* Some entry is the least confident one, and it is below 100.             *)
LEMMA GhrVictimExists ==
  ASSUME GhrTypeOK, \A c \in Confs : c < 100
  PROVE  GhrVictims # {}
<1> DEFINE f == [i \in Entries |-> ghr[i].confidence]
<1>1. f \in [Entries -> Nat] /\ Entries # {}
  <2>1. ASSUME NEW i \in Entries PROVE ghr[i].confidence \in Nat
    <3>1. ghr[i].confidence \in Confs \union {0}
      BY DEF GhrTypeOK
    <3>2. Confs \union {0} \subseteq Nat
      BY GlobalRegisterAssumption
    <3> QED
      BY <3>1, <3>2, Zenon
  <2>2. 0 \in Entries
    BY GlobalRegisterAssumption DEF Entries
  <2> QED
    BY <2>1, <2>2
<1>2. PICK i \in Entries : \A j \in Entries : f[i] <= f[j]
  <2> HIDE DEF f
  <2> QED
    BY <1>1, LeastExists
<1>3. ghr[i].confidence \in Confs \union {0}
  BY DEF GhrTypeOK
<1> QED
  BY <1>2, <1>3 DEF GhrVictims

(* Storing into an entry keeps offsets apart if no other entry has it.     *)
LEMMA StoreGhrIInv ==
  ASSUME GhrIInv, NEW i \in Entries, NEW sig \in Sigs, NEW conf \in Confs,
         NEW offset \in Offsets, NEW delta \in Deltas,
         \A j \in Entries : ghr[j].valid /\ ghr[j].offset = offset => j = i,
         GhrStore(i, sig, conf, offset, delta)
  PROVE  GhrIInv'
<1> DEFINE e == [valid |-> TRUE, sig |-> sig, confidence |-> conf,
                 offset |-> offset, delta |-> delta]
<1>1. ghr' = [ghr EXCEPT ![i] = e] /\ ghrAborted' = ghrAborted
  BY DEF GhrStore
<1>2. e \in [valid : BOOLEAN, sig : Sigs, confidence : Confs \union {0},
             offset : Offsets, delta : Deltas]
  OBVIOUS
<1>3. GhrTypeOK'
  BY <1>1, <1>2 DEF GhrIInv, GhrTypeOK
<1>4. ghr'[i] = e /\ \A j \in Entries : j # i => ghr'[j] = ghr[j]
  BY <1>1 DEF GhrIInv, GhrTypeOK
<1>5. UniqueOffsets'
  BY <1>4 DEF GhrIInv, UniqueOffsets
<1>6. FoundIsValid'
  <2>1. conf > 0
    BY GlobalRegisterAssumption
  <2> QED
    BY <1>4, <2>1 DEF GhrIInv, FoundIsValid
<1>7. VictimFound'
  BY <1>1 DEF GhrIInv, VictimFound
<1> QED
  BY <1>3, <1>5, <1>6, <1>7 DEF GhrIInv

(* Every step keeps the inductive invariant.                               *)
LEMMA NextGhrIInv == GhrIInv /\ [GhrNext]_ghrVars => GhrIInv'
<1> SUFFICES ASSUME GhrIInv, [GhrNext]_ghrVars PROVE GhrIInv'
  OBVIOUS
<1>1. CASE UNCHANGED ghrVars
  BY <1>1 DEF GhrIInv, GhrTypeOK, VictimFound, UniqueOffsets, FoundIsValid, ghrVars
<1>2. ASSUME NEW sig \in Sigs, NEW conf \in Confs, NEW offset \in Offsets,
             NEW delta \in Deltas, UpdateEntry(sig, conf, offset, delta)
      PROVE  GhrIInv'
  <2>1. Entries \in SUBSET Nat
    BY GlobalRegisterAssumption DEF Entries
  <2>2. CASE GhrRefresh(sig, conf, offset, delta)
    <3> DEFINE m == Min(GhrMatches(offset))
    <3>1. GhrMatches(offset) \in SUBSET Nat /\ GhrMatches(offset) # {}
      BY <2>1, <2>2 DEF GhrMatches, GhrRefresh
    <3>2. m \in GhrMatches(offset)
      BY <3>1, MinIsMember
    <3>3. m \in Entries /\ ghr[m].valid /\ ghr[m].offset = offset
      BY <3>2 DEF GhrMatches
    <3>4. \A j \in Entries : ghr[j].valid /\ ghr[j].offset = offset => j = m
      BY <3>3 DEF GhrIInv, UniqueOffsets
    <3>5. GhrStore(m, sig, conf, offset, delta)
      BY <2>2 DEF GhrRefresh
    <3> HIDE DEF m
    <3> QED
      BY <3>3, <3>4, <3>5, StoreGhrIInv
  <2>3. CASE GhrReplace(sig, conf, offset, delta) /\ GhrVictims # {}
    <3> DEFINE m == Min(GhrVictims)
    <3>1. GhrVictims \in SUBSET Nat
      BY <2>1 DEF GhrVictims
    <3>2. m \in GhrVictims
      BY <2>3, <3>1, MinIsMember
    <3>3. m \in Entries
      BY <3>2 DEF GhrVictims
    <3>4. \A j \in Entries : ghr[j].valid /\ ghr[j].offset = offset => j = m
      BY <2>3 DEF GhrReplace, GhrMatches
    <3>5. GhrStore(m, sig, conf, offset, delta)
      BY <2>3 DEF GhrReplace
    <3> HIDE DEF m
    <3> QED
      BY <3>3, <3>4, <3>5, StoreGhrIInv
  <2>4. CASE GhrReplace(sig, conf, offset, delta) /\ GhrVictims = {}
    <3>1. ghrAborted' = TRUE /\ UNCHANGED ghr
      BY <2>4 DEF GhrReplace
    <3>2. ~(\A c \in Confs : c < 100)
      BY <2>4, GhrVictimExists DEF GhrIInv
    <3>3. GhrTypeOK' /\ UniqueOffsets' /\ FoundIsValid'
      BY <3>1 DEF GhrIInv, GhrTypeOK, UniqueOffsets, FoundIsValid
    <3>4. VictimFound'
      BY <3>2 DEF VictimFound
    <3> QED
      BY <3>3, <3>4 DEF GhrIInv
  <2> QED
    BY <1>2, <2>2, <2>3, <2>4 DEF UpdateEntry
<1> QED
  BY <1>1, <1>2 DEF GhrNext

(* The inductive invariant of the register holds always.                   *)
THEOREM GhrInvariance == GhrSpec => []GhrIInv
  BY InitGhrIInv, NextGhrIInv, PTL DEF GhrSpec

(***************************************************************************)
(* With confidences below 100 update_entry never fails its assertion.      *)
(***************************************************************************)
THEOREM GhrVictimAlwaysFound == GhrSpec => []VictimFound
<1>1. GhrIInv => VictimFound
  BY DEF GhrIInv
<1> QED
  BY <1>1, GhrInvariance, PTL

(* An offset never has two entries.                                        *)
THEOREM UniqueOffsetsAlways == GhrSpec => []UniqueOffsets
<1>1. GhrIInv => UniqueOffsets
  BY DEF GhrIInv
<1> QED
  BY <1>1, GhrInvariance, PTL

(***************************************************************************)
(* A step that changes the offset of an entry stores into the entry of     *)
(* least confidence, when no entry has the new offset.                     *)
(***************************************************************************)
LEMMA ForgottenIsVictim ==
  ASSUME GhrIInv, GhrNext, NEW i \in Entries, ghr'[i].offset # ghr[i].offset
  PROVE  i \in GhrVictims
<1>1. PICK sig \in Sigs, conf \in Confs, offset \in Offsets, delta \in Deltas :
        UpdateEntry(sig, conf, offset, delta)
  BY DEF GhrNext
<1>2. Entries \in SUBSET Nat
  BY GlobalRegisterAssumption DEF Entries
<1>3. ASSUME NEW m \in Entries, GhrStore(m, sig, conf, offset, delta)
      PROVE  i = m /\ ghr'[m].offset = offset
  BY <1>3 DEF GhrStore, GhrIInv, GhrTypeOK
<1>4. CASE GhrRefresh(sig, conf, offset, delta)
  <2> DEFINE m == Min(GhrMatches(offset))
  <2>1. m \in GhrMatches(offset)
    BY <1>2, <1>4, MinIsMember DEF GhrMatches, GhrRefresh
  <2>2. m \in Entries /\ ghr[m].offset = offset /\ GhrStore(m, sig, conf, offset, delta)
    BY <1>4, <2>1 DEF GhrMatches, GhrRefresh
  <2> HIDE DEF m
  <2> QED
    BY <1>3, <2>2
<1>5. CASE GhrReplace(sig, conf, offset, delta)
  <2> DEFINE m == Min(GhrVictims)
  <2>1. GhrVictims # {} /\ GhrStore(m, sig, conf, offset, delta)
    BY <1>5 DEF GhrReplace
  <2>2. m \in GhrVictims
    BY <1>2, <2>1, MinIsMember DEF GhrVictims
  <2>3. m \in Entries
    BY <2>2 DEF GhrVictims
  <2> HIDE DEF m
  <2> QED
    BY <1>3, <2>1, <2>2, <2>3
<1> QED
  BY <1>1, <1>4, <1>5 DEF UpdateEntry

(***************************************************************************)
(* The register forgets a prefetch only when it is full, and then one that *)
(* is not more confident than any other, and keeps one entry per offset.   *)
(***************************************************************************)
THEOREM AlwaysForgetsLeastConfident == GhrSpec => ForgetsLeastConfident
<1>1. GhrIInv /\ [GhrNext]_ghrVars => [LeastConfidentGoes]_ghrVars
  <2> SUFFICES ASSUME GhrIInv, GhrNext, NEW i \in Entries,
                      ghr[i].valid, ghr'[i].offset # ghr[i].offset, NEW j \in Entries
               PROVE  ghr[j].valid /\ ghr[j].confidence >= ghr[i].confidence
    BY DEF LeastConfidentGoes
  <2>1. ghr[i].confidence <= ghr[j].confidence
    BY ForgottenIsVictim DEF GhrVictims
  <2>2. ghr[i].confidence > 0
    BY DEF GhrIInv, FoundIsValid
  <2>3. ghr[i].confidence \in Nat /\ ghr[j].confidence \in Nat
    <3>1. ghr[i].confidence \in Confs \union {0} /\ ghr[j].confidence \in Confs \union {0}
      BY DEF GhrIInv, GhrTypeOK
    <3>2. Confs \union {0} \subseteq Nat
      BY GlobalRegisterAssumption
    <3> QED
      BY <3>1, <3>2, Zenon
  <2> QED
    BY <2>1, <2>2, <2>3 DEF GhrIInv, FoundIsValid
<1>2. GhrIInv => UniqueOffsets
  BY DEF GhrIInv
<1> QED
  BY <1>1, <1>2, GhrInvariance, PTL DEF GhrSpec, ForgetsLeastConfident
-----------------------------------------------------------------------------
(* The outstanding prefetches are finitely many, at most one per set.      *)
LEMMA OutstandingFinite ==
  /\ IsFiniteSet(Outstanding)
  /\ Cardinality(Outstanding) \in Nat /\ Cardinality(Quotients) \in Nat
  /\ Cardinality(Outstanding) <= Cardinality(Quotients)
<1>1. Outstanding \subseteq Quotients /\ IsFiniteSet(Quotients)
  BY PrefetchFilterAssumption DEF Outstanding
<1>2. QED
  BY <1>1, FS_Subset, FS_CardinalityType

(* Marking a set adds at most one outstanding prefetch.                    *)
LEMMA OutstandingGrows ==
  ASSUME NEW q \in Quotients, Outstanding' = Outstanding \union {q}
  PROVE  /\ Cardinality(Outstanding') \in Nat
         /\ Cardinality(Outstanding') <= Cardinality(Outstanding) + 1
<1>1. IsFiniteSet(Outstanding) /\ Cardinality(Outstanding) \in Nat
  BY OutstandingFinite
<1>2. Cardinality(Outstanding \union {q}) =
        IF q \in Outstanding THEN Cardinality(Outstanding) ELSE Cardinality(Outstanding) + 1
  BY <1>1, FS_AddElement
<1>3. QED
  BY <1>1, <1>2

(* Using or resetting a set removes its outstanding prefetch.              *)
LEMMA OutstandingShrinks ==
  ASSUME NEW q \in Quotients, Outstanding' = Outstanding \ {q}
  PROVE  Cardinality(Outstanding') =
           IF q \in Outstanding THEN Cardinality(Outstanding) - 1 ELSE Cardinality(Outstanding)
<1>1. IsFiniteSet(Outstanding)
  BY OutstandingFinite
<1>2. QED
  BY <1>1, FS_RemoveElement

(* What halving both counters does to the distance between them.           *)
LEMMA HalvingDrift ==
  ASSUME NEW u \in Nat, NEW i \in Nat, NEW o \in Nat, NEW k \in Nat,
         o <= k, u + o <= i + k
  PROVE  u \div 2 + o <= i \div 2 + k
<1>1. PICK x \in Nat : x = u \div 2 /\ 2 * x <= u
  OBVIOUS
<1>2. PICK y \in Nat : y = i \div 2 /\ i <= 2 * y + 1
  OBVIOUS
<1>3. x + o <= y + k
  BY <1>1, <1>2
<1>4. QED
  BY <1>1, <1>2, <1>3

(* Before any prefetch.                                                    *)
LEMMA InitFilterIInv == FilterInit => FilterIInv
<1> SUFFICES ASSUME FilterInit PROVE FilterIInv
  OBVIOUS
<1>1. FilterTypeOK
  <2>1. 0 \in Remainders /\ 0 \in 0 .. CounterMax
    BY PrefetchFilterAssumption
  <2>2. QED
    BY <2>1 DEF FilterInit, FilterTypeOK
<1>2. Outstanding = {}
  BY DEF FilterInit, Outstanding
<1>3. Cardinality(Outstanding) = 0
  BY <1>2, FS_EmptySet
<1>4. UsefulWereIssued /\ DriftBounded
  BY <1>3, OutstandingFinite DEF FilterInit, UsefulWereIssued, DriftBounded
<1>5. QED
  BY <1>1, <1>4 DEF FilterIInv

(***************************************************************************)
(* A prefetch: one more is issued, and at most one more is outstanding.    *)
(***************************************************************************)
LEMMA IssueFilterIInv ==
  ASSUME FilterIInv, NEW line \in Lines, IssueL2(line)
  PROVE  FilterIInv'
<1> DEFINE q == QuotientOf[line]
           O == Cardinality(Outstanding)
           K == Cardinality(Quotients)
<1>1. q \in Quotients /\ RemainderOf[line] \in Remainders /\ CounterMax \in Nat
  BY PrefetchFilterAssumption
<1>2. /\ fValid' \in [Quotients -> BOOLEAN] /\ fUseful' \in [Quotients -> BOOLEAN]
      /\ fTag' \in [Quotients -> Remainders]
      /\ Outstanding' = Outstanding \union {q}
  BY <1>1 DEF FilterIInv, FilterTypeOK, IssueL2, Outstanding
<1>3. /\ Cardinality(Outstanding') \in Nat /\ Cardinality(Outstanding') <= O + 1
      /\ Cardinality(Outstanding') <= K /\ O \in Nat /\ K \in Nat
  <2>1. Cardinality(Outstanding') \in Nat /\ Cardinality(Outstanding') <= O + 1
    BY <1>1, <1>2, OutstandingGrows
  <2>2. IsFiniteSet(Quotients) /\ Outstanding' \subseteq Quotients
    BY <1>1, <1>2, PrefetchFilterAssumption DEF Outstanding
  <2>3. QED
    BY <2>1, <2>2, OutstandingFinite, FS_Subset
<1>4. /\ pfUseful \in Nat /\ pfIssued \in Nat /\ pfIssued <= CounterMax
      /\ halved \in BOOLEAN
      /\ ~halved => pfUseful + O <= pfIssued
      /\ pfUseful + O <= pfIssued + K
  BY <1>1 DEF FilterIInv, FilterTypeOK, UsefulWereIssued, DriftBounded
<1> HIDE DEF O, K
<1>5. CASE pfIssued + 1 > CounterMax
  <2>1. pfIssued' = (pfIssued + 1) \div 2 /\ pfUseful' = pfUseful \div 2 /\ halved' = TRUE
    BY <1>5 DEF IssueL2, CountIssued
  <2>2. pfIssued' \in 0 .. CounterMax /\ pfUseful' \in Nat
    <3>1. pfIssued = CounterMax
      BY <1>1, <1>4, <1>5
    <3>2. PICK h \in 1 .. CounterMax : CounterMax + 1 = 2 * h
      BY PrefetchFilterAssumption
    <3>3. (CounterMax + 1) \div 2 = h
      BY <3>2
    <3>4. pfUseful \div 2 \in Nat
      BY <1>4
    <3>5. QED
      BY <2>1, <3>1, <3>2, <3>3, <3>4
  <2>3. pfUseful + Cardinality(Outstanding') <= (pfIssued + 1) + K
    BY <1>3, <1>4
  <2>4. pfUseful' + Cardinality(Outstanding') <= pfIssued' + K
    BY <2>1, <2>3, <1>3, <1>4, HalvingDrift
  <2>5. QED
    BY <1>2, <2>1, <2>2, <2>4 DEF FilterIInv, FilterTypeOK, UsefulWereIssued, DriftBounded, K
<1>6. CASE pfIssued + 1 <= CounterMax
  <2>1. pfIssued' = pfIssued + 1 /\ pfUseful' = pfUseful /\ halved' = halved
    BY <1>1, <1>4, <1>6 DEF IssueL2, CountIssued
  <2>2. pfIssued' \in 0 .. CounterMax
    BY <2>1, <1>1, <1>4, <1>6
  <2>3. pfUseful' + Cardinality(Outstanding') <= pfIssued' + K
    BY <2>1, <1>3, <1>4
  <2>4. ~halved' => pfUseful' + Cardinality(Outstanding') <= pfIssued'
    BY <2>1, <1>3, <1>4
  <2>5. QED
    BY <1>2, <1>4, <2>1, <2>2, <2>3, <2>4 DEF FilterIInv, FilterTypeOK, UsefulWereIssued, DriftBounded, K
<1>7. QED
  BY <1>1, <1>4, <1>5, <1>6

(* A demand turns an outstanding prefetch into a useful one.               *)
LEMMA DemandFilterIInv ==
  ASSUME FilterIInv, NEW line \in Lines, Demand(line)
  PROVE  FilterIInv'
<1> DEFINE q == QuotientOf[line]
           O == Cardinality(Outstanding)
           K == Cardinality(Quotients)
<1>1. q \in Quotients
  BY PrefetchFilterAssumption
<1>2. /\ pfUseful \in Nat /\ pfIssued \in Nat /\ O \in Nat /\ K \in Nat
      /\ ~halved => pfUseful + O <= pfIssued
      /\ pfUseful + O <= pfIssued + K
  BY PrefetchFilterAssumption, OutstandingFinite DEF FilterIInv, FilterTypeOK, UsefulWereIssued, DriftBounded
<1>3. fValid' = fValid /\ fTag' = fTag /\ pfIssued' = pfIssued /\ halved' = halved
  BY DEF Demand
<1>4. CASE FilterMatches(line) /\ ~fUseful[q]
  <2>1. /\ fUseful' = [fUseful EXCEPT ![q] = TRUE]
        /\ pfUseful' = IF fValid[q] THEN pfUseful + 1 ELSE pfUseful
    BY <1>4 DEF Demand
  <2>2. fUseful' \in [Quotients -> BOOLEAN] /\ Outstanding' = Outstanding \ {q}
    BY <1>1, <1>3, <2>1 DEF FilterIInv, FilterTypeOK, Outstanding
  <2>3. q \in Outstanding <=> fValid[q]
    BY <1>1, <1>4 DEF Outstanding, FilterIInv, FilterTypeOK
  <2>4. Cardinality(Outstanding') = IF q \in Outstanding THEN O - 1 ELSE O
    BY <1>1, <2>2, OutstandingShrinks
  <2>5. pfUseful' \in Nat /\ pfUseful' + Cardinality(Outstanding') = pfUseful + O
    BY <1>2, <2>1, <2>3, <2>4
  <2> HIDE DEF O, K
  <2>6. QED
    BY <1>2, <1>3, <2>2, <2>5 DEF FilterIInv, FilterTypeOK, UsefulWereIssued, DriftBounded, K
<1>5. CASE ~(FilterMatches(line) /\ ~fUseful[q])
  <2>1. UNCHANGED filterVars
    BY <1>3, <1>5 DEF Demand, filterVars
  <2>2. QED
    BY <2>1 DEF filterVars, FilterIInv, FilterTypeOK, UsefulWereIssued, DriftBounded, Outstanding
<1>6. QED
  BY <1>4, <1>5

(* An eviction gives up the outstanding prefetch of its set, if any.       *)
LEMMA EvictFilterIInv ==
  ASSUME FilterIInv, NEW line \in Lines, Evict(line)
  PROVE  FilterIInv'
<1> DEFINE q == QuotientOf[line]
           O == Cardinality(Outstanding)
           K == Cardinality(Quotients)
<1>1. q \in Quotients /\ 0 \in Remainders
  BY PrefetchFilterAssumption
<1>2. /\ pfUseful \in Nat /\ pfIssued \in Nat /\ O \in Nat /\ K \in Nat
      /\ ~halved => pfUseful + O <= pfIssued
      /\ pfUseful + O <= pfIssued + K
  BY PrefetchFilterAssumption, OutstandingFinite DEF FilterIInv, FilterTypeOK, UsefulWereIssued, DriftBounded
<1>3. pfIssued' = pfIssued /\ halved' = halved
  BY DEF Evict
<1>4. /\ fValid' \in [Quotients -> BOOLEAN] /\ fUseful' \in [Quotients -> BOOLEAN]
      /\ fTag' \in [Quotients -> Remainders]
      /\ Outstanding' = Outstanding \ {q}
  BY <1>1 DEF FilterIInv, FilterTypeOK, Evict, Outstanding
<1>5. Cardinality(Outstanding') = IF q \in Outstanding THEN O - 1 ELSE O
  BY <1>1, <1>4, OutstandingShrinks
<1>6. pfUseful' \in Nat /\ pfUseful' <= pfUseful
  BY <1>2 DEF Evict
<1>7. pfUseful' + Cardinality(Outstanding') <= pfUseful + O
  BY <1>2, <1>5, <1>6
<1>8. Cardinality(Outstanding') \in Int
  BY <1>2, <1>5
<1> HIDE DEF O, K
<1>9. QED
  BY <1>2, <1>3, <1>4, <1>6, <1>7, <1>8 DEF FilterIInv, FilterTypeOK, UsefulWereIssued, DriftBounded, K

(* One request keeps the invariant.                                        *)
LEMMA NextFilterIInv == FilterIInv /\ [FilterNext]_filterVars => FilterIInv'
<1> SUFFICES ASSUME FilterIInv, [FilterNext]_filterVars PROVE FilterIInv'
  OBVIOUS
<1>1. ASSUME NEW line \in Lines, IssueL2(line) PROVE FilterIInv'
  BY <1>1, IssueFilterIInv
<1>2. ASSUME NEW line \in Lines, Demand(line) PROVE FilterIInv'
  BY <1>2, DemandFilterIInv
<1>3. ASSUME NEW line \in Lines, Evict(line) PROVE FilterIInv'
  BY <1>3, EvictFilterIInv
<1>4. CASE UNCHANGED filterVars
  BY <1>4 DEF filterVars, FilterIInv, FilterTypeOK, UsefulWereIssued, DriftBounded, Outstanding
<1>5. QED
  BY <1>1, <1>2, <1>3, <1>4 DEF FilterNext

(* The inductive invariant of the filter holds in every reachable state.   *)
THEOREM FilterInvariance == FilterSpec => []FilterIInv
<1>1. QED
  BY InitFilterIInv, NextFilterIInv, PTL DEF FilterSpec

(* Until the counters are halved, a useful prefetch was an issued one.     *)
THEOREM UsefulWereIssuedAlways == FilterSpec => []UsefulWereIssued
<1>1. FilterIInv => UsefulWereIssued
  BY DEF FilterIInv
<1>2. QED
  BY <1>1, FilterInvariance, PTL

(* pf_useful never exceeds pf_issued by more than the filter has sets.     *)
THEOREM DriftAlwaysBounded == FilterSpec => []DriftBounded
<1>1. FilterIInv => DriftBounded
  BY DEF FilterIInv
<1>2. QED
  BY <1>1, FilterInvariance, PTL

(***************************************************************************)
(* A fill resets the entry of the line that leaves, whatever line it       *)
(* stands for, so the lines of the other entries stay.                     *)
(***************************************************************************)
LEMMA FillKeepsPrefetched ==
  ASSUME FilterTypeOK, ValidMeansPrefetched, NEW line \in Lines, Fill(line),
         cached \subseteq Lines
  PROVE  ValidMeansPrefetched'
<1> SUFFICES ASSUME NEW q \in Quotients, fValid'[q]
             PROVE  \E l \in (cached \union inflight)' :
                      QuotientOf[l] = q /\ RemainderOf[l] = fTag'[q]
  BY DEF ValidMeansPrefetched
<1>1. ASSUME NEW gone, Evict(gone), (cached \ {gone}) \union {line} \subseteq cached'
      PROVE  \E l \in (cached \union inflight)' :
               QuotientOf[l] = q /\ RemainderOf[l] = fTag'[q]
  <2>1. q # QuotientOf[gone] /\ fValid[q] /\ fTag'[q] = fTag[q]
    BY <1>1 DEF Evict, FilterTypeOK
  <2>2. PICK l \in cached \union inflight : QuotientOf[l] = q /\ RemainderOf[l] = fTag[q]
    BY <2>1 DEF ValidMeansPrefetched
  <2>3. l # gone
    BY <2>1, <2>2
  <2>4. l \in (cached \union inflight)'
    BY <1>1, <2>2, <2>3 DEF Fill
  <2> QED
    BY <2>1, <2>2, <2>4
<1>2. CASE Evict(NoLine) /\ cached' = cached \union {line}
  BY <1>1, <1>2
<1>3. CASE \E victim \in cached : Evict(victim) /\ cached' = (cached \ {victim}) \union {line}
  BY <1>1, <1>3
<1> QED
  BY <1>2, <1>3 DEF Fill

(* The filter's invariant beside a cache, whose lines are lines.           *)
CacheIInv == FilterIInv /\ cached \subseteq Lines /\ inflight \subseteq Lines

(* The cache starts empty.                                                 *)
LEMMA InitCacheIInv == CacheInit => CacheIInv /\ ValidMeansPrefetched
  BY InitFilterIInv DEF CacheInit, CacheIInv, ValidMeansPrefetched, FilterInit

(* What each step of the cache asks of the filter keeps its invariant.     *)
LEMMA NextCacheIInv == CacheIInv /\ [CacheNext]_vars => CacheIInv'
<1> SUFFICES ASSUME CacheIInv, [CacheNext]_vars PROVE CacheIInv'
  OBVIOUS
<1> USE DEF CacheIInv
<1>1. CASE UNCHANGED vars
  <2>1. UNCHANGED filterVars /\ UNCHANGED cacheVars
    BY <1>1 DEF vars
  <2> QED
    BY <2>1, NextFilterIInv DEF cacheVars
<1>2. ASSUME NEW line \in Lines, Access(line) PROVE CacheIInv'
  BY <1>2, DemandFilterIInv DEF Access
<1>3. ASSUME NEW line \in Lines, Prefetch(line) PROVE CacheIInv'
  BY <1>3, IssueFilterIInv DEF Prefetch
<1>4. ASSUME NEW line \in Lines, Drop(line) PROVE CacheIInv'
  BY <1>4, NextFilterIInv DEF Drop
<1>5. ASSUME NEW line \in Lines, Fill(line) PROVE CacheIInv'
  <2>1. NoLine \in Lines
    BY FilterInCacheAssumption
  <2>2. PICK gone \in Lines : Evict(gone) /\ cached' \subseteq cached \union {line}
    BY <1>5, <2>1 DEF Fill
  <2>3. FilterIInv'
    BY <2>2, EvictFilterIInv
  <2> QED
    BY <1>5, <2>2, <2>3 DEF Fill
<1> QED
  BY <1>1, <1>2, <1>3, <1>4, <1>5 DEF CacheNext

(* The filter's invariant holds beside a cache of any capacity, whatever   *)
(* prefetch_line returns.                                                  *)
THEOREM CacheInvariance == CacheSpec => []CacheIInv
  BY InitCacheIInv, NextCacheIInv, PTL DEF CacheSpec

(* When prefetch_line takes every request, a line is on its way from the   *)
(* moment its entry becomes valid.                                         *)
LEMMA NextPrefetched ==
  ASSUME Accepts = {TRUE}, CacheIInv, ValidMeansPrefetched, [CacheNext]_vars
  PROVE  ValidMeansPrefetched'
<1> USE DEF CacheIInv, FilterIInv
<1>1. CASE UNCHANGED vars
  BY <1>1 DEF vars, cacheVars, filterVars, ValidMeansPrefetched
<1>2. ASSUME NEW line \in Lines, Access(line) PROVE ValidMeansPrefetched'
  BY <1>2 DEF Access, Demand, ValidMeansPrefetched
<1>3. ASSUME NEW line \in Lines, Prefetch(line) PROVE ValidMeansPrefetched'
  <2>1. inflight' = inflight \union {line} /\ cached' = cached
    BY <1>3 DEF Prefetch
  <2>2. /\ fValid' = [fValid EXCEPT ![QuotientOf[line]] = TRUE]
        /\ fTag' = [fTag EXCEPT ![QuotientOf[line]] = RemainderOf[line]]
    BY <1>3 DEF Prefetch, IssueL2
  <2> QED
    BY <2>1, <2>2 DEF ValidMeansPrefetched, FilterTypeOK
<1>4. ASSUME NEW line \in Lines, Drop(line) PROVE ValidMeansPrefetched'
  BY <1>4 DEF Drop, filterVars, ValidMeansPrefetched
<1>5. ASSUME NEW line \in Lines, Fill(line) PROVE ValidMeansPrefetched'
  BY <1>5, FillKeepsPrefetched
<1> QED
  BY <1>1, <1>2, <1>3, <1>4, <1>5 DEF CacheNext

(***************************************************************************)
(* When prefetch_line takes every request, a valid entry of the filter     *)
(* stands for a line that is in the cache or on its way.                   *)
(***************************************************************************)
THEOREM ValidAlwaysMeansPrefetched ==
  ASSUME Accepts = {TRUE}
  PROVE  CacheSpec => []ValidMeansPrefetched
<1>1. ValidMeansPrefetched /\ CacheIInv /\ [CacheNext]_vars => ValidMeansPrefetched'
  BY NextPrefetched
<1> QED
  BY <1>1, InitCacheIInv, CacheInvariance, PTL DEF CacheSpec
=============================================================================
