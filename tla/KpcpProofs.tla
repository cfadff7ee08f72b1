----------------------------- MODULE KpcpProofs -----------------------------
(***************************************************************************)
(* What the KPCP prefetcher keeps, proved for tables of any size: no       *)
(* assertion fails, every turn of the lookahead lowers the confidence of   *)
(* the path, and what the bitmaps mark is in the cache.                    *)
(***************************************************************************)
EXTENDS Kpcp, TableLemmas, FiniteSetTheorems

Deltas == 1 - KpcpBlocks .. KpcpBlocks - 1

Counted(p) ==
  /\ p.csig \in Nat /\ p.csig < CMax
  /\ p.ways \in [PtWaysOfKpcp -> [delta : Deltas, c : Nat]]
  /\ \A w \in PtWaysOfKpcp :
       /\ p.ways[w].c <= p.csig
       /\ p.ways[w].delta = 0 => p.ways[w].c = 0

(* The two tables: the ages of the pages are a permutation, and a delta    *)
(* has no more counts than its signature, delta 0 none.                    *)
PagesOK ==
  /\ pageTag \in [StWaysOfKpcp -> Int]
  /\ lastBlock \in [StWaysOfKpcp -> 0 .. KpcpBlocks - 1]
  /\ pageSig \in [StWaysOfKpcp -> KpcpSigs]
  /\ AgesPermuted(KpcpStWay, pageLru)

PatternsOK ==
  /\ DOMAIN patterns = Indices
  /\ \A i \in Indices : Counted(patterns[i])

(* The bitmaps are functions, for the entries of which MarksAreResident    *)
(* speaks.                                                                 *)
Bitmaps == l2Pf = [w \in StWaysOfKpcp |-> l2Pf[w]] /\ used = [w \in StWaysOfKpcp |-> used[w]]

Counts == issued \in 0 .. KpcpCounterMax /\ useful \in Nat

(* The entry of the access stays that of its page while the hook runs, and *)
(* a path that goes on has the confidence the loop asks for.               *)
HookOK ==
  /\ stage \in {"idle", "lookahead", "request"}
  /\ access.cap \in 0 .. 99
  /\ walk.sig \in KpcpSigs /\ walk.conf \in Nat
  /\ stage # "idle" =>
       /\ access.way \in StWaysOfKpcp /\ access.page \in KpcpPages
       /\ pageTag[access.way] = KpcpTag[access.page]
  /\ stage = "lookahead" =>
       /\ walk.conf >= KpcpPfThreshold
       /\ walk.delta \in Int /\ walk.last \in Int /\ walk.delta - walk.last \in Deltas
  /\ IsFiniteSet(DOMAIN buffer) /\ Cardinality(DOMAIN buffer) <= KpcpMshrSize

KpcpIInv ==
  /\ PagesOK /\ PatternsOK /\ Bitmaps /\ Counts /\ HookOK
  /\ MarksAreResident /\ KpcpNeverAborts
-----------------------------------------------------------------------------
(* Signatures stay under their mask.                                       *)
LEMMA NewSignatureIsOne ==
  ASSUME NEW old \in KpcpSigs, NEW delta \in Deltas
  PROVE  SigDelta(delta) \in 0 .. 2 * KpcpBlocks - 1 /\ NewSignature(old, delta) \in KpcpSigs
<1>1. SigDelta(delta) \in 0 .. 2 * KpcpBlocks - 1
  BY KpcpTablesAssumption DEF SigDelta, Deltas
<1> QED
  BY <1>1, KpcpTablesAssumption DEF NewSignature

LEMMA IndexOfIsIndex ==
  ASSUME NEW sig \in KpcpSigs
  PROVE  IndexOf(sig) \in Indices
<1>1. sig \in Nat /\ KpcpPtPrime \in Nat /\ KpcpPtPrime > 0
  BY KpcpTablesAssumption
<1> QED
  BY <1>1 DEF IndexOf, Indices

(* Counting a signature keeps the counters of its deltas below its own, so *)
(* that one of them may count too.                                         *)
LEMMA CountedOnceHasRoom ==
  ASSUME NEW p, Counted(p)
  PROVE  /\ Counted(CountedOnce(p))
         /\ \A w \in PtWaysOfKpcp : CountedOnce(p).ways[w].c + 1 <= CountedOnce(p).csig
<1>1. PICK h \in 1 .. CMax : CMax = 2 * h
  BY KpcpTablesAssumption
<1>2. /\ CMax \in Nat /\ h \in Nat /\ h >= 1 /\ CMax = 2 * h /\ CMax \div 2 = h
  BY <1>1, KpcpTablesAssumption
<1>3. /\ p.csig \in Nat /\ p.csig < CMax
      /\ p.ways \in [PtWaysOfKpcp -> [delta : Deltas, c : Nat]]
      /\ \A w \in PtWaysOfKpcp : p.ways[w].c \in Nat /\ p.ways[w].delta \in Deltas
      /\ \A w \in PtWaysOfKpcp : p.ways[w].c <= p.csig
      /\ \A w \in PtWaysOfKpcp : p.ways[w].delta = 0 => p.ways[w].c = 0
  BY DEF Counted
<1>4. CASE p.csig + 1 < CMax
  BY <1>2, <1>3, <1>4 DEF Counted, CountedOnce
<1>5. CASE ~(p.csig + 1 < CMax)
  <2> DEFINE halves == [w \in PtWaysOfKpcp |->
                          [delta |-> p.ways[w].delta, c |-> p.ways[w].c \div 2]]
  <2>1. CountedOnce(p) = [csig |-> h, ways |-> halves]
    BY <1>2, <1>5 DEF CountedOnce
  <2>2. p.csig = 2 * h - 1
    BY <1>2, <1>3, <1>5
  <2>3. ASSUME NEW w \in PtWaysOfKpcp
        PROVE  /\ p.ways[w].c \div 2 \in Nat /\ p.ways[w].c \div 2 + 1 <= h
               /\ p.ways[w].c = 0 => p.ways[w].c \div 2 = 0
    <3> DEFINE c == p.ways[w].c
    <3>1. c \in Nat /\ c <= 2 * h - 1
      BY <1>3, <2>2
    <3> HIDE DEF c
    <3>2. c \div 2 \in Nat /\ c \div 2 + 1 <= h /\ (c = 0 => c \div 2 = 0)
      BY <1>2, <3>1
    <3> QED
      BY <3>2 DEF c
  <2>4. halves \in [PtWaysOfKpcp -> [delta : Deltas, c : Nat]]
    BY <1>3, <2>3
  <2>5. \A w \in PtWaysOfKpcp : halves[w].delta = p.ways[w].delta
                              /\ halves[w].c = p.ways[w].c \div 2
    OBVIOUS
  <2> HIDE DEF halves
  <2>6. h \in Nat /\ h < CMax
    BY <1>2
  <2>7. \A w \in PtWaysOfKpcp : /\ halves[w].c + 1 <= h /\ halves[w].c <= h
                                /\ halves[w].delta = 0 => halves[w].c = 0
    BY <1>2, <1>3, <2>3, <2>5
  <2> DEFINE q == CountedOnce(p)
  <2>8. q.csig = h /\ q.ways = halves
    BY <2>1
  <2> HIDE DEF q
  <2>9. Counted(q) /\ \A w \in PtWaysOfKpcp : q.ways[w].c + 1 <= q.csig
    BY <2>4, <2>6, <2>7, <2>8 DEF Counted
  <2> QED
    BY <2>9 DEF q
<1> QED
  BY <1>4, <1>5

(* A set always has a way for a delta: of the deltas none has CMax counts. *)
LEMMA WaysForFound ==
  ASSUME NEW p, Counted(p), NEW delta
  PROVE  WaysFor(p, delta) # {} /\ WaysFor(p, delta) \in SUBSET PtWaysOfKpcp
<1> DEFINE f == [w \in PtWaysOfKpcp |-> p.ways[w].c]
<1>1. /\ p.csig \in Nat /\ p.csig < CMax /\ CMax \in Nat
      /\ \A w \in PtWaysOfKpcp : p.ways[w].c \in Nat /\ p.ways[w].c <= p.csig
  BY KpcpTablesAssumption DEF Counted
<1>2. f \in [PtWaysOfKpcp -> Nat] /\ PtWaysOfKpcp # {}
  <2>1. 0 \in PtWaysOfKpcp
    BY KpcpTablesAssumption DEF PtWaysOfKpcp
  <2> QED
    BY <1>1, <2>1
<1>3. PICK w \in PtWaysOfKpcp : \A v \in PtWaysOfKpcp : f[w] <= f[v]
  BY <1>2, LeastExists, Zenon
<1>4. p.ways[w].c < CMax /\ \A v \in PtWaysOfKpcp : p.ways[w].c <= p.ways[v].c
  BY <1>1, <1>3
<1>5. Replaceable(p) # {}
  BY <1>4 DEF Replaceable
<1>6. WaysFor(p, delta) \in SUBSET PtWaysOfKpcp
  BY DEF WaysFor, HitWays, Replaceable
<1> QED
  BY <1>5, <1>6 DEF WaysFor

(* The least of some ways is one of them.                                  *)
LEMMA FirstWayIsOne ==
  ASSUME NEW n \in Nat, NEW W \in SUBSET WaysUpTo(n), W # {}
  PROVE  Min(W) \in W /\ Min(W) \in WaysUpTo(n)
<1>1. W \in SUBSET Nat
  BY DEF WaysUpTo
<1> QED
  BY <1>1, MinIsMember

(* An update of a set with room for a count keeps the counters in order.   *)
LEMMA SetUpdatedCounted ==
  ASSUME NEW p, Counted(p), NEW delta \in Deltas, delta # 0,
         \A w \in PtWaysOfKpcp : p.ways[w].c + 1 <= p.csig
  PROVE  Counted(SetUpdated(p, delta))
<1> DEFINE way == Min(WaysFor(p, delta))
           c == IF HitWays(p, delta) # {} THEN p.ways[way].c + 1 ELSE 0
           ways == [p.ways EXCEPT ![way] = [delta |-> delta, c |-> c]]
<1>1. way \in PtWaysOfKpcp
  <2>1. WaysFor(p, delta) # {} /\ WaysFor(p, delta) \in SUBSET WaysUpTo(KpcpPtWay)
    BY WaysForFound DEF PtWaysOfKpcp, WaysUpTo
  <2>2. KpcpPtWay \in Nat
    BY KpcpTablesAssumption
  <2> QED
    BY <2>1, <2>2, FirstWayIsOne DEF PtWaysOfKpcp, WaysUpTo
<1> DEFINE q == SetUpdated(p, delta)
<1>2. q.csig = p.csig /\ q.ways = ways
  BY DEF SetUpdated
<1> HIDE DEF way, q
<1>3. /\ p.csig \in Nat /\ p.csig < CMax
      /\ p.ways \in [PtWaysOfKpcp -> [delta : Deltas, c : Nat]]
      /\ \A w \in PtWaysOfKpcp : p.ways[w].c \in Nat /\ p.ways[w].delta \in Deltas
      /\ \A w \in PtWaysOfKpcp : p.ways[w].c <= p.csig
      /\ \A w \in PtWaysOfKpcp : p.ways[w].delta = 0 => p.ways[w].c = 0
  BY DEF Counted
<1>4. c \in Nat /\ c <= p.csig
  BY <1>1, <1>3
<1> HIDE DEF c
<1>5. ways \in [PtWaysOfKpcp -> [delta : Deltas, c : Nat]]
  BY <1>1, <1>3, <1>4
<1>6. \A w \in PtWaysOfKpcp :
        ways[w] = IF w = way THEN [delta |-> delta, c |-> c] ELSE p.ways[w]
  BY <1>1, <1>3
<1> HIDE DEF ways
<1>7. \A w \in PtWaysOfKpcp : /\ ways[w].c <= p.csig
                              /\ ways[w].delta = 0 => ways[w].c = 0
  BY <1>3, <1>4, <1>6
<1>8. Counted(q)
  BY <1>2, <1>3, <1>5, <1>7 DEF Counted
<1> QED
  BY <1>8 DEF q

(* Some page table entry can be taken.                                     *)
LEMMA TakeableFound ==
  ASSUME PagesOK, NEW page \in KpcpPages
  PROVE  Takeable(page) # {} /\ Min(Takeable(page)) \in Takeable(page)
         /\ Min(Takeable(page)) \in StWaysOfKpcp
<1>1. KpcpStWay \in Nat /\ KpcpStWay - 1 \in WaysUpTo(KpcpStWay)
  BY KpcpTablesAssumption DEF WaysUpTo
<1>2. PICK w \in StWaysOfKpcp : pageLru[w] = KpcpStWay - 1
  BY <1>1 DEF PagesOK, AgesPermuted, StWaysOfKpcp, WaysUpTo
<1>3. Takeable(page) # {} /\ Takeable(page) \in SUBSET WaysUpTo(KpcpStWay)
  BY <1>2 DEF Takeable, Matching, StWaysOfKpcp, WaysUpTo
<1> QED
  BY <1>1, <1>3, FirstWayIsOne DEF StWaysOfKpcp, WaysUpTo

(* The strongest of some ways is one of them.                              *)
LEMMA StrongestIsOne ==
  ASSUME NEW p, Counted(p), NEW ways \in SUBSET PtWaysOfKpcp, ways # {}
  PROVE  Strongest(p, ways) \in ways
<1> DEFINE f == [w \in ways |-> p.ways[w].c]
           best == {w \in ways : \A v \in ways : p.ways[v].c <= p.ways[w].c}
<1>1. f \in [ways -> Nat]
  BY DEF Counted
<1>2. KpcpPtWay \in Nat /\ ways \in SUBSET (0 .. KpcpPtWay - 1)
  BY KpcpTablesAssumption DEF PtWaysOfKpcp
<1>3. PICK w \in ways : \A v \in ways : f[v] <= f[w]
  <2> HIDE DEF f
  <2> QED
    BY <1>1, <1>2, GreatestExists
<1>4. best # {}
  BY <1>3
<1>5. best \in SUBSET Nat
  <2>1. best \subseteq ways
    OBVIOUS
  <2> HIDE DEF best
  <2> QED
    BY <1>2, <2>1
<1>6. Min(best) \in best
  BY <1>4, <1>5, MinIsMember
<1> QED
  BY <1>6 DEF Strongest
-----------------------------------------------------------------------------
(* A quotient of naturals is one.                                          *)
LEMMA NaturalQuotient ==
  ASSUME NEW a \in Nat, NEW b \in Nat, b > 0
  PROVE  a \div b \in Nat /\ (a = 0 => a \div b = 0)
OBVIOUS

(* A candidate of the signature has counts, so that its delta is not 0.    *)
LEMMA FirstWaysCount ==
  ASSUME NEW p, Counted(p)
  PROVE  /\ FirstWays(p) \in SUBSET PtWaysOfKpcp
         /\ \A w \in FirstWays(p) :
              FirstConf(p, w) \in Nat /\ p.ways[w].delta \in Deltas /\ p.ways[w].delta # 0
<1> SUFFICES ASSUME NEW w \in FirstWays(p)
             PROVE  /\ w \in PtWaysOfKpcp /\ FirstConf(p, w) \in Nat
                    /\ p.ways[w].delta \in Deltas /\ p.ways[w].delta # 0
  OBVIOUS
<1>1. w \in PtWaysOfKpcp /\ p.csig # 0 /\ FirstConf(p, w) >= KpcpPfThreshold
  BY DEF FirstWays
<1>2. /\ p.csig \in Nat /\ p.ways[w].c \in Nat /\ p.ways[w].delta \in Deltas
      /\ p.ways[w].delta = 0 => p.ways[w].c = 0
  BY <1>1 DEF Counted
<1> DEFINE c == p.ways[w].c
<1>3. 100 * c \in Nat /\ (c = 0 => 100 * c = 0)
  <2>1. c \in Nat
    BY <1>2
  <2> HIDE DEF c
  <2> QED
    BY <2>1
<1>4. FirstConf(p, w) \in Nat /\ (p.ways[w].c = 0 => FirstConf(p, w) = 0)
  <2> DEFINE n == 100 * c
             d == p.csig
  <2>1. FirstConf(p, w) = n \div d
    BY DEF FirstConf
  <2>2. n \in Nat /\ d \in Nat /\ d > 0 /\ (p.ways[w].c = 0 => n = 0)
    BY <1>1, <1>2, <1>3
  <2> HIDE DEF n, d, c
  <2> QED
    BY <2>1, <2>2, NaturalQuotient
<1>5. KpcpPfThreshold \in 1 .. 100
  BY KpcpAssumption
<1>6. p.ways[w].c # 0
  BY <1>1, <1>4, <1>5
<1> QED
  BY <1>1, <1>2, <1>4, <1>6

(* The path that an access starts: if it goes on, along a delta of the     *)
(* pattern table.                                                          *)
LEMMA FirstWalkGoesOn ==
  ASSUME NEW p, Counted(p), NEW ways \in SUBSET FirstWays(p), NEW sig \in KpcpSigs
  PROVE  /\ FirstWalk(p, ways, sig).sig \in KpcpSigs
         /\ FirstWalk(p, ways, sig).conf \in Nat
         /\ FirstWalk(p, ways, sig).conf >= KpcpPfThreshold =>
              /\ FirstWalk(p, ways, sig).delta \in Deltas
              /\ FirstWalk(p, ways, sig).last = 0
<1>1. KpcpPfThreshold \in 1 .. 100
  BY KpcpAssumption
<1>2. CASE ways = {}
  <2>1. FirstWalk(p, ways, sig) = [sig |-> sig, conf |-> 0, delta |-> 0, last |-> 0]
    BY <1>2 DEF FirstWalk, WalkFrom
  <2> QED
    BY <1>1, <2>1
<1>3. CASE ways # {}
  <2>1. Strongest(p, ways) \in ways
    <3>1. ways \in SUBSET PtWaysOfKpcp
      BY FirstWaysCount
    <3> QED
      BY <1>3, <3>1, StrongestIsOne
  <2> DEFINE best == Strongest(p, ways)
  <2>2. FirstConf(p, best) \in Nat /\ p.ways[best].delta \in Deltas
    BY <2>1, FirstWaysCount
  <2>3. FirstWalk(p, ways, sig) =
          [sig |-> sig, conf |-> FirstConf(p, best), delta |-> p.ways[best].delta, last |-> 0]
    BY <1>3 DEF FirstWalk
  <2> HIDE DEF best
  <2> QED
    BY <2>2, <2>3
<1> QED
  BY <1>2, <1>3

(* MAX_CONF is below 100.                                                  *)
LEMMA MaxConfCapped ==
  ASSUME Counts, NEW hits \in Nat
  PROVE  MaxConf(hits) \in 0 .. 99
<1>1. KpcpConfCap \in 0 .. 99 /\ issued \in Nat
  BY KpcpAssumption DEF Counts
<1>2. CASE issued = 0
  BY <1>1, <1>2 DEF MaxConf
<1>3. CASE issued # 0
  <2> DEFINE percent == (100 * hits) \div issued
  <2>1. percent \in Nat
    BY <1>1, <1>3
  <2>2. MaxConf(hits) = IF issued = 0 \/ percent >= KpcpConfCap THEN KpcpConfCap ELSE percent
    BY DEF MaxConf
  <2> HIDE DEF percent
  <2> QED
    BY <1>1, <1>3, <2>1, <2>2
<1> QED
  BY <1>2, <1>3

(* Some ways of the pattern table fit into pf_buffer.                      *)
LEMMA WaysFit ==
  ASSUME NEW D \in SUBSET PtWaysOfKpcp
  PROVE  IsFiniteSet(D) /\ Cardinality(D) <= KpcpMshrSize
<1>1. KpcpPtWay \in Nat /\ KpcpMshrSize \in Nat /\ KpcpPtWay <= KpcpMshrSize
  BY KpcpTablesAssumption, KpcpAssumption
<1>2. IsFiniteSet(PtWaysOfKpcp) /\ Cardinality(PtWaysOfKpcp) = KpcpPtWay
  <2>1. 0 \in Int /\ KpcpPtWay - 1 \in Int
    BY <1>1
  <2>2. IsFiniteSet(0 .. KpcpPtWay - 1)
        /\ Cardinality(0 .. KpcpPtWay - 1)
             = IF 0 > KpcpPtWay - 1 THEN 0 ELSE KpcpPtWay - 1 - 0 + 1
    BY <2>1, FS_Interval
  <2>3. (IF 0 > KpcpPtWay - 1 THEN 0 ELSE KpcpPtWay - 1 - 0 + 1) = KpcpPtWay
    BY <1>1
  <2> QED
    BY <2>2, <2>3 DEF PtWaysOfKpcp
<1>3. IsFiniteSet(D) /\ Cardinality(D) <= Cardinality(PtWaysOfKpcp)
  BY <1>2, FS_Subset
<1>4. Cardinality(D) \in Nat
  BY <1>3, FS_CardinalityType
<1> QED
  BY <1>1, <1>2, <1>3, <1>4
-----------------------------------------------------------------------------
LEMMA KpcpInitially == KpcpInit => KpcpIInv
<1> SUFFICES ASSUME KpcpInit PROVE KpcpIInv
  OBVIOUS
<1> USE DEF KpcpInit, TablesInit
<1>1. /\ KpcpBlocks \in Nat /\ KpcpBlocks > 0 /\ KpcpStWay \in Nat /\ 0 \in KpcpSigs
      /\ KpcpMshrSize \in Nat
  <2>1. 0 \in 0 .. 2 * KpcpBlocks - 1
    BY KpcpTablesAssumption
  <2> QED
    BY <2>1, KpcpTablesAssumption, KpcpAssumption
<1>2. PagesOK
  <2>1. AgesPermuted(KpcpStWay, pageLru)
    BY DEF AgesPermuted, StWaysOfKpcp, WaysUpTo
  <2> QED
    BY <1>1, <2>1 DEF PagesOK, NoTag
<1>3. PatternsOK
  <2> SUFFICES ASSUME NEW i \in Indices PROVE Counted(patterns[i])
    BY DEF PatternsOK
  <2> DEFINE ways == [w \in PtWaysOfKpcp |-> [delta |-> 0, c |-> 0]]
             q == patterns[i]
  <2>1. q.csig = 0 /\ q.ways = ways
    OBVIOUS
  <2>2. CMax \in Nat /\ 0 < CMax /\ 0 \in Deltas
    BY <1>1, KpcpTablesAssumption DEF Deltas
  <2>3. ways \in [PtWaysOfKpcp -> [delta : Deltas, c : Nat]]
    BY <2>2
  <2>4. \A w \in PtWaysOfKpcp : ways[w].c = 0 /\ ways[w].delta = 0
    OBVIOUS
  <2> HIDE DEF q, ways, KpcpInit, TablesInit
  <2>5. Counted(q)
    BY <2>1, <2>2, <2>3, <2>4 DEF Counted
  <2> QED
    BY <2>5 DEF q
<1>4. Bitmaps /\ MarksAreResident /\ KpcpNeverAborts
  BY DEF Bitmaps, MarksAreResident, KpcpNeverAborts
<1>5. Counts
  BY KpcpAssumption DEF Counts
<1>6. HookOK
  <2>1. DOMAIN buffer = {}
    OBVIOUS
  <2>2. IsFiniteSet(DOMAIN buffer) /\ Cardinality(DOMAIN buffer) = 0
    BY <2>1, FS_EmptySet
  <2> QED
    BY <1>1, <2>2 DEF HookOK, WalkFrom
<1> QED
  BY <1>2, <1>3, <1>4, <1>5, <1>6 DEF KpcpIInv

(***************************************************************************)
(* An access: the page table always gives way, the pattern table stays     *)
(* counted, and marks go with the page they were made for.                 *)
(***************************************************************************)
LEMMA AccessKeeps ==
  ASSUME KpcpIInv, NEW page \in KpcpPages, NEW block \in 0 .. KpcpBlocks - 1,
         KpcpAccess(page, block)
  PROVE  KpcpIInv'
<1> DEFINE way == Min(Takeable(page))
           sig == SigUpdated(page, block, way)
           delta == block - lastBlock[way]
           trains == Trains(page, block, way)
           trained == IF trains THEN PatternUpdated(pageSig[way], delta) ELSE patterns
           p == trained[IndexOf(sig)]
           ways == IF sig # 0 /\ ~FirstHit(page, way) THEN FirstWays(p) ELSE {}
           first == FirstCandidates(p, ways, block)
           hits == IF block \in Kept(page, way, l2Pf) \ Kept(page, way, used)
                   THEN useful + 1 ELSE useful
<1>1. PagesOK /\ PatternsOK /\ Bitmaps /\ Counts /\ MarksAreResident
  BY DEF KpcpIInv
<1>2. Takeable(page) # {} /\ way \in Takeable(page) /\ way \in StWaysOfKpcp
  BY <1>1, TakeableFound
<1>3. delta \in Deltas /\ lastBlock[way] \in 0 .. KpcpBlocks - 1 /\ pageSig[way] \in KpcpSigs
  BY <1>1, <1>2, KpcpTablesAssumption DEF PagesOK, Deltas
<1>4. sig \in KpcpSigs
  <2>1. 0 \in KpcpSigs
    <3>1. 0 \in 0 .. 2 * KpcpBlocks - 1
      BY KpcpTablesAssumption
    <3> QED
      BY <3>1, KpcpTablesAssumption
  <2>2. SigDelta(delta) \in 0 .. 2 * KpcpBlocks - 1 /\ NewSignature(pageSig[way], delta) \in KpcpSigs
    BY <1>3, NewSignatureIsOne
  <2>3. SigMask(SigDelta(delta)) \in KpcpSigs
    BY <2>2, KpcpTablesAssumption
  <2> QED
    BY <2>1, <2>2, <2>3 DEF SigUpdated
<1>5. WaysFor(CountedOnce(patterns[IndexOf(pageSig[way])]), delta) # {}
  <2>1. IndexOf(pageSig[way]) \in Indices
    BY <1>3, IndexOfIsIndex
  <2>2. Counted(patterns[IndexOf(pageSig[way])])
    BY <1>1, <2>1 DEF PatternsOK
  <2>3. Counted(CountedOnce(patterns[IndexOf(pageSig[way])]))
    BY <2>2, CountedOnceHasRoom
  <2> QED
    BY <2>3, WaysForFound
<1>6. /\ patterns' = trained
      /\ UpdatePage(page, block, way)
      /\ useful' = hits /\ issued' = issued
      /\ access' = [page |-> page, way |-> way, block |-> block, cap |-> MaxConf(hits)]
      /\ walk' = FirstWalk(p, ways, sig)
      /\ buffer' = first
      /\ stage' = StageAfter(FirstWalk(p, ways, sig).conf, DOMAIN first)
      /\ failed' = \E w \in DOMAIN first : first[w].delta = 0
      /\ resident' = resident \union {<<page, block>>}
  BY <1>2, <1>5, Zenon DEF KpcpAccess
<1>7. DOMAIN trained = Indices /\ \A i \in Indices : Counted(trained[i])
  <2>1. CASE ~trains
    BY <1>1, <2>1 DEF PatternsOK
  <2>2. CASE trains
    <3> DEFINE index == IndexOf(pageSig[way])
               q == CountedOnce(patterns[index])
    <3>1. index \in Indices
      BY <1>3, IndexOfIsIndex
    <3>2. trained = [patterns EXCEPT ![index] = SetUpdated(q, delta)]
      BY <2>2 DEF PatternUpdated
    <3>3. delta # 0
      BY <1>3, <2>2 DEF Trains
    <3>4. Counted(q) /\ \A w \in PtWaysOfKpcp : q.ways[w].c + 1 <= q.csig
      BY <1>1, <3>1, CountedOnceHasRoom DEF PatternsOK
    <3>5. Counted(SetUpdated(q, delta))
      <4> HIDE DEF q, delta
      <4> QED
        BY <1>3, <3>3, <3>4, SetUpdatedCounted
    <3> HIDE DEF trained, q, index, delta
    <3> QED
      BY <1>1, <3>1, <3>2, <3>5 DEF PatternsOK
  <2> QED
    BY <2>1, <2>2
<1>8. Counted(p)
  BY <1>4, <1>7, IndexOfIsIndex
<1>9. ways \in SUBSET FirstWays(p) /\ hits \in Nat
  BY <1>1 DEF Counts
<1>10. DOMAIN first \in SUBSET ways /\ \A w \in DOMAIN first : first[w].delta = p.ways[w].delta
  BY DEF FirstCandidates
<1> HIDE DEF way, sig, delta, trains, trained, p, ways, first, hits
<1>11. PagesOK'
  <2>1. pageTag' \in [StWaysOfKpcp -> Int]
    BY <1>1, <1>2, <1>6, KpcpTablesAssumption DEF PagesOK, UpdatePage
  <2>2. lastBlock' \in [StWaysOfKpcp -> 0 .. KpcpBlocks - 1]
    BY <1>1, <1>2, <1>6 DEF PagesOK, UpdatePage
  <2>3. pageSig' \in [StWaysOfKpcp -> KpcpSigs]
    BY <1>1, <1>2, <1>4, <1>6 DEF PagesOK, UpdatePage, sig
  <2>4. AgesPermuted(KpcpStWay, pageLru')
    <3>1. KpcpStWay \in Nat \ {0} /\ way \in WaysUpTo(KpcpStWay) /\ AgesPermuted(KpcpStWay, pageLru)
      BY <1>1, <1>2, KpcpTablesAssumption DEF StWaysOfKpcp, WaysUpTo, PagesOK
    <3>2. pageLru' = MadeYoungest(KpcpStWay, pageLru, way)
      BY <1>6 DEF UpdatePage, LruUpdated, MadeYoungest, StWaysOfKpcp, WaysUpTo
    <3>3. AgesPermuted(KpcpStWay, MadeYoungest(KpcpStWay, pageLru, way))
      BY <3>1, YoungestPermutation, Zenon
    <3> QED
      BY <3>2, <3>3
  <2> QED
    BY <2>1, <2>2, <2>3, <2>4 DEF PagesOK
<1>12. PatternsOK'
  BY <1>6, <1>7 DEF PatternsOK, Counted
<1>13. Bitmaps'
  BY <1>1, <1>2, <1>6 DEF Bitmaps, UpdatePage
<1>14. Counts'
  BY <1>1, <1>6, <1>9 DEF Counts
<1>15. KpcpNeverAborts'
  BY <1>6, <1>8, <1>9, <1>10, FirstWaysCount DEF KpcpNeverAborts
<1>16. HookOK'
  <2>1. access'.cap \in 0 .. 99 /\ access'.way = way /\ access'.page = page
    BY <1>1, <1>6, <1>9, MaxConfCapped
  <2>2. pageTag'[way] = KpcpTag[page]
    BY <1>1, <1>2, <1>6 DEF PagesOK, UpdatePage
  <2>3. /\ walk'.sig \in KpcpSigs /\ walk'.conf \in Nat
        /\ walk'.conf >= KpcpPfThreshold => walk'.delta \in Deltas /\ walk'.last = 0
    BY <1>4, <1>6, <1>8, <1>9, FirstWalkGoesOn
  <2>4. /\ stage' \in {"idle", "lookahead", "request"}
        /\ stage' = "lookahead" => walk'.conf >= KpcpPfThreshold
    BY <1>6 DEF StageAfter
  <2>5. DOMAIN buffer' \in SUBSET PtWaysOfKpcp
    BY <1>6, <1>8, <1>9, <1>10, FirstWaysCount
  <2>6. IsFiniteSet(DOMAIN buffer') /\ Cardinality(DOMAIN buffer') <= KpcpMshrSize
    BY <2>5, WaysFit
  <2>7. stage' = "lookahead" => walk'.delta \in Int /\ walk'.last \in Int
                                /\ walk'.delta - walk'.last \in Deltas
    <3>1. ASSUME NEW d \in Deltas, NEW l, l = 0
          PROVE  d \in Int /\ l \in Int /\ d - l \in Deltas
      BY <3>1, KpcpTablesAssumption DEF Deltas
    <3> QED
      BY <2>3, <2>4, <3>1
  <2> QED
    BY <1>2, <2>1, <2>2, <2>3, <2>4, <2>6, <2>7 DEF HookOK
<1>17. MarksAreResident'
  <2> SUFFICES ASSUME NEW w \in StWaysOfKpcp, NEW b \in l2Pf'[w] \union used'[w]
               PROVE  \E other \in KpcpPages : KpcpTag[other] = pageTag'[w]
                                             /\ <<other, b>> \in resident'
    BY DEF MarksAreResident
  <2>1. CASE w # way
    <3>1. pageTag'[w] = pageTag[w] /\ b \in l2Pf[w] \union used[w]
      BY <1>1, <1>2, <1>6, <2>1 DEF UpdatePage, Bitmaps, PagesOK
    <3>2. PICK other \in KpcpPages : KpcpTag[other] = pageTag[w] /\ <<other, b>> \in resident
      BY <1>1, <3>1 DEF MarksAreResident
    <3> QED
      BY <1>6, <3>1, <3>2
  <2>2. CASE w = way
    <3>1. pageTag'[w] = KpcpTag[page] /\ <<page, block>> \in resident'
      BY <1>1, <1>2, <1>6, <2>2 DEF UpdatePage, PagesOK
    <3>2. b = block \/ b \in Kept(page, way, l2Pf) \union Kept(page, way, used)
      BY <1>1, <1>2, <1>6, <2>2 DEF UpdatePage, Bitmaps
    <3>3. CASE b = block
      BY <3>1, <3>3
    <3>4. CASE b \in Kept(page, way, l2Pf) \union Kept(page, way, used)
      <4>1. b \in l2Pf[way] \union used[way] /\ (Matching(page) # {} \/ pageTag[way] = NoTag)
        BY <3>4 DEF Kept
      <4>2. PICK other \in KpcpPages : KpcpTag[other] = pageTag[way] /\ <<other, b>> \in resident
        BY <1>1, <1>2, <4>1 DEF MarksAreResident
      <4>3. pageTag[way] # NoTag
        <5>1. KpcpTag[other] \in Nat
          BY KpcpTablesAssumption
        <5> QED
          BY <4>2, <5>1 DEF NoTag
      <4>4. pageTag[way] = KpcpTag[page]
        BY <1>2, <4>1, <4>3 DEF Takeable, Matching
      <4> QED
        BY <1>6, <3>1, <4>2, <4>4
    <3> QED
      BY <3>2, <3>3, <3>4
  <2> QED
    BY <2>1, <2>2
<1> QED
  BY <1>11, <1>12, <1>13, <1>14, <1>15, <1>16, <1>17 DEF KpcpIInv

(* The confidence of a path falls with every turn: a delta has no more     *)
(* counts than its signature, and MAX_CONF is below 100.                   *)
LEMMA PathConfidenceFalls ==
  ASSUME NEW p, Counted(p), p.csig # 0, NEW w \in PtWaysOfKpcp,
         walk.conf \in Nat, walk.conf >= 1, access.cap \in 0 .. 99
  PROVE  PathConfidence(p, w) \in Nat /\ PathConfidence(p, w) < walk.conf
<1> DEFINE conf == walk.conf
           c == p.ways[w].c
           d == p.csig
           cap == access.cap
           n == conf * c
           q == n \div d
           r == q * cap
<1>1. /\ conf \in Nat /\ conf >= 1 /\ c \in Nat /\ d \in Nat /\ d > 0 /\ c <= d
      /\ cap \in Nat /\ cap <= 99
  BY DEF Counted
<1>2. PathConfidence(p, w) = r \div 100
  BY DEF PathConfidence
<1> HIDE DEF conf, c, d, cap
<1>3. n \in Nat /\ n <= conf * d
  BY <1>1
<1>4. q \in Nat /\ q <= conf
  <2> DEFINE m == conf * d
  <2>1. m \in Nat /\ m \div d = conf
    BY <1>1
  <2>2. n <= m
    BY <1>3
  <2> HIDE DEF n
  <2>3. q \in Nat /\ d * q <= n
    BY <1>1, <1>3
  <2> HIDE DEF q
  <2>4. d * q <= d * conf
    BY <1>1, <1>3, <2>2, <2>3
  <2> QED
    BY <1>1, <2>3, <2>4
<1> HIDE DEF q
<1>5. r \in Nat /\ r <= 99 * conf
  BY <1>1, <1>4
<1> HIDE DEF r
<1>6. r \div 100 \in Nat /\ r \div 100 < conf
  BY <1>1, <1>5
<1> QED
  BY <1>2, <1>6 DEF conf

(* A way for the path to follow, with the confidence the loop asks for.    *)
LEMMA PathWaysGoOn ==
  ASSUME NEW p, Counted(p), PathWays(p) # {},
         walk.conf \in Nat, walk.conf >= 1, access.cap \in 0 .. 99
  PROVE  /\ Strongest(p, PathWays(p)) \in PtWaysOfKpcp
         /\ p.ways[Strongest(p, PathWays(p))].delta \in Deltas
         /\ PathConfidence(p, Strongest(p, PathWays(p))) \in Nat
         /\ PathConfidence(p, Strongest(p, PathWays(p))) < walk.conf
<1> DEFINE best == Strongest(p, PathWays(p))
<1>1. best \in PathWays(p)
  <2>1. PathWays(p) \in SUBSET PtWaysOfKpcp
    BY DEF PathWays
  <2> QED
    BY <2>1, StrongestIsOne
<1>2. best \in PtWaysOfKpcp /\ p.csig # 0
  BY <1>1 DEF PathWays
<1> HIDE DEF best
<1>3. p.ways[best].delta \in Deltas
  BY <1>2 DEF Counted
<1>4. PathConfidence(p, best) \in Nat /\ PathConfidence(p, best) < walk.conf
  BY <1>2, PathConfidenceFalls
<1> QED
  BY <1>2, <1>3, <1>4 DEF best

(***************************************************************************)
(* A turn of the lookahead: it stays inside pf_buffer, and the path goes   *)
(* on with less confidence or ends.                                        *)
(***************************************************************************)
LEMMA LookaheadKeeps ==
  ASSUME KpcpIInv, KpcpLookahead
  PROVE  KpcpIInv' /\ walk'.conf < walk.conf
<1> DEFINE sig == NewSignature(walk.sig, walk.delta - walk.last)
           p == patterns[IndexOf(sig)]
           ways == PathWays(p)
           best == Strongest(p, ways)
           total == walk.delta + p.ways[best].delta
           ends == ways = {} \/ Cardinality(DOMAIN buffer) >= KpcpMshrSize
           conf == PathConfidence(p, best)
           key == Max(DOMAIN buffer \union {KpcpPtWay - 1}) + 1
<1>1. /\ stage = "lookahead"
      /\ walk' = [sig |-> sig, conf |-> IF ends THEN 0 ELSE conf,
                  delta |-> IF ends THEN 0 ELSE total, last |-> walk.delta]
      /\ buffer' = IF ~ends /\ SamePage(access.block, total) /\ total # 0
                   THEN Appended([delta |-> total, conf |-> conf])
                   ELSE buffer
      /\ stage' = StageAfter(walk'.conf, DOMAIN buffer')
      /\ UNCHANGED <<pageVars, patterns, access, countVars, resident, failed>>
  BY Zenon DEF KpcpLookahead
<1>2. /\ access.cap \in 0 .. 99 /\ walk.sig \in KpcpSigs /\ walk.conf \in Nat
      /\ walk.conf >= KpcpPfThreshold /\ KpcpPfThreshold \in 1 .. 100
      /\ walk.delta \in Int /\ walk.delta - walk.last \in Deltas
      /\ access.way \in StWaysOfKpcp /\ access.page \in KpcpPages
      /\ pageTag[access.way] = KpcpTag[access.page]
      /\ IsFiniteSet(DOMAIN buffer) /\ Cardinality(DOMAIN buffer) <= KpcpMshrSize
  BY <1>1, KpcpAssumption DEF KpcpIInv, HookOK
<1>3. sig \in KpcpSigs
  BY <1>2, NewSignatureIsOne
<1>4. Counted(p)
  BY <1>3, IndexOfIsIndex DEF KpcpIInv, PatternsOK
<1>5. walk.conf >= 1
  BY <1>2
<1>6. ~ends => p.ways[best].delta \in Deltas /\ conf \in Nat /\ conf < walk.conf
  <2> SUFFICES ASSUME ~ends PROVE p.ways[best].delta \in Deltas /\ conf \in Nat /\ conf < walk.conf
    OBVIOUS
  <2>1. PathWays(p) # {}
    OBVIOUS
  <2> HIDE DEF p
  <2> QED
    BY <1>2, <1>4, <1>5, <2>1, PathWaysGoOn
<1>7. \/ DOMAIN buffer' = DOMAIN buffer
      \/ /\ Cardinality(DOMAIN buffer) < KpcpMshrSize
         /\ DOMAIN buffer' = DOMAIN buffer \union {key}
  <2>1. Cardinality(DOMAIN buffer) \in Nat /\ KpcpMshrSize \in Nat
    BY <1>2, FS_CardinalityType, KpcpAssumption
  <2>2. DOMAIN Appended([delta |-> total, conf |-> conf]) = DOMAIN buffer \union {key}
    BY DEF Appended
  <2> HIDE DEF sig, p, ways, best, total, conf, key
  <2> QED
    BY <1>1, <2>1, <2>2
<1> HIDE DEF sig, p, ways, best, conf, key
<1>8. IsFiniteSet(DOMAIN buffer') /\ Cardinality(DOMAIN buffer') <= KpcpMshrSize
  <2>1. Cardinality(DOMAIN buffer) \in Nat /\ KpcpMshrSize \in Nat
    BY <1>2, FS_CardinalityType, KpcpAssumption
  <2>2. IsFiniteSet(DOMAIN buffer \union {key})
        /\ Cardinality(DOMAIN buffer \union {key})
             = IF key \in DOMAIN buffer THEN Cardinality(DOMAIN buffer)
               ELSE Cardinality(DOMAIN buffer) + 1
    BY <1>2, FS_AddElement
  <2> QED
    BY <1>2, <1>7, <2>1, <2>2
<1>9. ~ends => total \in Int /\ total - walk.delta = p.ways[best].delta
  <2>1. Deltas \subseteq Int
    BY KpcpTablesAssumption DEF Deltas
  <2>2. ASSUME NEW d \in Int
        PROVE  walk.delta + d \in Int /\ walk.delta + d - walk.delta = d
    BY <1>2
  <2>3. ~ends => p.ways[best].delta \in Int
    BY <1>6, <2>1
  <2> HIDE DEF ends
  <2> SUFFICES ASSUME ~ends
               PROVE  total \in Int /\ total - walk.delta = p.ways[best].delta
    OBVIOUS
  <2>4. p.ways[best].delta \in Int
    BY <2>3
  <2>5. total = walk.delta + p.ways[best].delta
    OBVIOUS
  <2> HIDE DEF total
  <2> QED
    BY <1>2, <2>4, <2>5
<1> HIDE DEF total, ends
<1>10. walk'.conf \in Nat /\ walk'.conf < walk.conf /\ walk'.sig \in KpcpSigs /\ walk'.last = walk.delta
  BY <1>1, <1>3, <1>2, <1>5, <1>6
<1>11. /\ stage' \in {"idle", "lookahead", "request"}
       /\ stage' = "lookahead" => walk'.conf >= KpcpPfThreshold
  BY <1>1 DEF StageAfter
<1>12. stage' = "lookahead" => /\ walk'.delta \in Int /\ walk'.last \in Int
                               /\ walk'.delta - walk'.last \in Deltas
  <2> SUFFICES ASSUME stage' = "lookahead"
               PROVE  /\ walk'.delta \in Int /\ walk'.last \in Int
                      /\ walk'.delta - walk'.last \in Deltas
    OBVIOUS
  <2>1. ~ends
    <3>1. ends => walk'.conf = 0
      BY <1>1
    <3> QED
      BY <1>2, <1>11, <3>1
  <2>2. walk'.delta = total
    BY <1>1, <2>1
  <2> QED
    BY <1>2, <1>6, <1>9, <1>10, <2>1, <2>2
<1>13. HookOK'
  <2>1. access' = access /\ pageTag' = pageTag
    BY <1>1 DEF pageVars
  <2> QED
    BY <1>2, <1>8, <1>10, <1>11, <1>12, <2>1 DEF HookOK
<1>14. PagesOK' /\ PatternsOK' /\ Bitmaps' /\ Counts' /\ MarksAreResident' /\ KpcpNeverAborts'
  BY <1>1 DEF KpcpIInv, PagesOK, PatternsOK, Bitmaps, Counts, MarksAreResident, KpcpNeverAborts,
              pageVars, bitmaps, countVars, Counted
<1> QED
  BY <1>10, <1>13, <1>14 DEF KpcpIInv

(* A request marks a line only when it takes it.                           *)
LEMMA RequestKeeps ==
  ASSUME KpcpIInv, KpcpRequest
  PROVE  KpcpIInv'
<1> DEFINE key == Min(DOMAIN buffer)
           block == access.block + buffer[key].delta
           marked == block \in l2Pf[access.way] \union used[access.way]
           line == <<access.page, block>>
<1>1. /\ stage = "request"
      /\ Taken(line) \/ UNCHANGED <<l2Pf, countVars, resident>>
      /\ buffer' = [k \in DOMAIN buffer \ {key} |-> buffer[k]]
      /\ stage' = StageAfter(0, DOMAIN buffer')
      /\ UNCHANGED <<pageTag, lastBlock, pageSig, firstHit, pageLru, used>>
      /\ UNCHANGED <<patterns, access, walk, failed>>
  BY Zenon DEF KpcpRequest
<1> HIDE DEF block, key
<1>2. /\ access.way \in StWaysOfKpcp /\ access.page \in KpcpPages
      /\ pageTag[access.way] = KpcpTag[access.page]
      /\ IsFiniteSet(DOMAIN buffer) /\ Cardinality(DOMAIN buffer) <= KpcpMshrSize
      /\ Bitmaps /\ Counts /\ MarksAreResident
  BY <1>1 DEF KpcpIInv, HookOK
<1>3. IsFiniteSet(DOMAIN buffer') /\ Cardinality(DOMAIN buffer') <= KpcpMshrSize
  <2>1. DOMAIN buffer' \subseteq DOMAIN buffer
    BY <1>1
  <2>2. IsFiniteSet(DOMAIN buffer') /\ Cardinality(DOMAIN buffer') <= Cardinality(DOMAIN buffer)
    BY <1>2, <2>1, FS_Subset
  <2>3. /\ Cardinality(DOMAIN buffer') \in Nat /\ Cardinality(DOMAIN buffer) \in Nat
        /\ KpcpMshrSize \in Nat
    BY <1>2, <2>2, FS_CardinalityType, KpcpAssumption
  <2> QED
    BY <1>2, <2>2, <2>3
<1>4. HookOK'
  <2>1. stage' \in {"idle", "request"}
    <3>1. KpcpPfThreshold \in 1 .. 100
      BY KpcpAssumption
    <3> QED
      BY <1>1, <3>1 DEF StageAfter
  <2> QED
    BY <1>1, <1>2, <1>3, <2>1 DEF KpcpIInv, HookOK
<1>5. PagesOK' /\ PatternsOK' /\ KpcpNeverAborts'
  BY <1>1 DEF KpcpIInv, PagesOK, PatternsOK, KpcpNeverAborts, Counted
<1>6. CASE UNCHANGED <<l2Pf, countVars, resident>>
  BY <1>1, <1>2, <1>4, <1>5, <1>6 DEF KpcpIInv, Bitmaps, Counts, MarksAreResident, countVars
<1>7. CASE Taken(line)
  <2>1. /\ l2Pf' = [l2Pf EXCEPT ![access.way] = @ \union {block}]
        /\ issued' = IF Halved THEN (issued + 1) \div 2 ELSE issued + 1
        /\ useful' = IF Halved THEN useful \div 2 ELSE useful
        /\ resident' = resident \union {line}
    BY <1>7 DEF Taken
  <2>2. Counts'
    <3>1. issued \in Nat /\ issued <= KpcpCounterMax /\ useful \in Nat /\ KpcpCounterMax \in Nat
      BY <1>2, KpcpAssumption DEF Counts
    <3> QED
      BY <2>1, <3>1 DEF Counts, Halved
  <2>3. Bitmaps'
    BY <1>1, <1>2, <2>1 DEF Bitmaps
  <2>4. MarksAreResident'
    <3> SUFFICES ASSUME NEW w \in StWaysOfKpcp, NEW b \in l2Pf'[w] \union used'[w]
                 PROVE  \E other \in KpcpPages : KpcpTag[other] = pageTag'[w]
                                               /\ <<other, b>> \in resident'
      BY DEF MarksAreResident
    <3>1. b \in l2Pf[w] \union used[w] \/ (w = access.way /\ b = block)
      BY <1>1, <1>2, <2>1 DEF Bitmaps
    <3>2. CASE b \in l2Pf[w] \union used[w]
      <4>1. PICK other \in KpcpPages : KpcpTag[other] = pageTag[w] /\ <<other, b>> \in resident
        BY <1>2, <3>2 DEF MarksAreResident
      <4> QED
        BY <1>1, <2>1, <4>1
    <3>3. CASE w = access.way /\ b = block
      BY <1>1, <1>2, <2>1, <3>3
    <3> QED
      BY <3>1, <3>2, <3>3
  <2> QED
    BY <1>4, <1>5, <2>2, <2>3, <2>4 DEF KpcpIInv
<1> QED
  BY <1>1, <1>6, <1>7

(* A line that leaves the cache leaves the bitmaps of every page with its  *)
(* tag.                                                                    *)
LEMMA EvictKeeps ==
  ASSUME KpcpIInv, NEW page \in KpcpPages, NEW block, KpcpEvict(page, block)
  PROVE  KpcpIInv'
<1>1. /\ resident' = resident \ {<<page, block>>}
      /\ l2Pf' = Unmarked(page, block, l2Pf) /\ used' = Unmarked(page, block, used)
      /\ UNCHANGED <<pageTag, lastBlock, pageSig, firstHit, pageLru>>
      /\ UNCHANGED <<patterns, stage, access, walk, buffer, issued, useful, failed>>
  BY DEF KpcpEvict, hookVars, countVars
<1>2. PagesOK' /\ PatternsOK' /\ Counts' /\ HookOK' /\ KpcpNeverAborts'
  BY <1>1 DEF KpcpIInv, PagesOK, PatternsOK, Counts, HookOK, KpcpNeverAborts, Counted
<1>3. Bitmaps'
  BY <1>1 DEF Bitmaps, Unmarked
<1>4. MarksAreResident'
  <2> SUFFICES ASSUME NEW w \in StWaysOfKpcp, NEW b \in l2Pf'[w] \union used'[w]
               PROVE  \E other \in KpcpPages : KpcpTag[other] = pageTag'[w]
                                             /\ <<other, b>> \in resident'
    BY DEF MarksAreResident
  <2>1. b \in l2Pf[w] \union used[w] /\ (pageTag[w] = KpcpTag[page] => b # block)
    BY <1>1 DEF Unmarked, Matching
  <2>2. PICK other \in KpcpPages : KpcpTag[other] = pageTag[w] /\ <<other, b>> \in resident
    BY <2>1 DEF KpcpIInv, MarksAreResident
  <2>3. <<other, b>> # <<page, block>>
    BY <2>1, <2>2
  <2> QED
    BY <1>1, <2>2, <2>3
<1> QED
  BY <1>2, <1>3, <1>4 DEF KpcpIInv
-----------------------------------------------------------------------------
LEMMA KpcpStep ==
  ASSUME KpcpIInv, [KpcpNext]_kpcpVars
  PROVE  KpcpIInv' /\ [Fades]_kpcpVars
<1>1. ASSUME NEW page \in KpcpPages, NEW block \in 0 .. KpcpBlocks - 1, KpcpAccess(page, block)
      PROVE  KpcpIInv' /\ [Fades]_kpcpVars
  BY <1>1, AccessKeeps DEF KpcpAccess, Fades
<1>2. ASSUME NEW page \in KpcpPages, NEW block \in 0 .. KpcpBlocks - 1, KpcpEvict(page, block)
      PROVE  KpcpIInv' /\ [Fades]_kpcpVars
  BY <1>2, EvictKeeps DEF KpcpEvict, Fades
<1>3. CASE KpcpLookahead
  BY <1>3, LookaheadKeeps DEF Fades
<1>4. CASE KpcpRequest
  BY <1>4, RequestKeeps DEF KpcpRequest, Fades
<1>5. CASE UNCHANGED kpcpVars
  BY <1>5 DEF KpcpIInv, PagesOK, PatternsOK, Bitmaps, Counts, HookOK, MarksAreResident,
              KpcpNeverAborts, Counted, kpcpVars, pageVars, bitmaps, hookVars, countVars
<1> QED
  BY <1>1, <1>2, <1>3, <1>4, <1>5 DEF KpcpNext

(* The inductive invariant of KPCP holds in every reachable state.         *)
THEOREM KpcpInvariance == KpcpSpec => []KpcpIInv
<1>1. KpcpInit => KpcpIInv
  BY KpcpInitially
<1>2. KpcpIInv /\ [KpcpNext]_kpcpVars => KpcpIInv'
  BY KpcpStep
<1> QED
  BY <1>1, <1>2, PTL DEF KpcpSpec

(***************************************************************************)
(* No access finds a table without an entry to take or asks for a          *)
(* prefetch of itself, whatever the accesses and evictions are.            *)
(***************************************************************************)
THEOREM KpcpDoesNotAbort == KpcpSpec => []KpcpNeverAborts
<1>1. KpcpIInv => KpcpNeverAborts
  BY DEF KpcpIInv
<1> QED
  BY <1>1, KpcpInvariance, PTL

(***************************************************************************)
(* What the bitmaps of the page table mark is in the cache, with pages     *)
(* that share a tag and tables of any size.                                *)
(***************************************************************************)
THEOREM KpcpMarksAreResident == KpcpSpec => []MarksAreResident
<1>1. KpcpIInv => MarksAreResident
  BY DEF KpcpIInv
<1> QED
  BY <1>1, KpcpInvariance, PTL

(***************************************************************************)
(* The confidence of the path falls with every turn, so that the loop of   *)
(* the lookahead ends after at most 100 of them.                           *)
(***************************************************************************)
THEOREM KpcpPathFades == KpcpSpec => PathFades
<1>1. KpcpIInv /\ [KpcpNext]_kpcpVars => [Fades]_kpcpVars
  BY KpcpStep
<1> QED
  BY <1>1, KpcpInvariance, PTL DEF KpcpSpec, PathFades

(* The invariant gives the types.                                          *)
LEMMA KpcpTypes == KpcpIInv => KpcpTypeOK
<1> SUFFICES ASSUME KpcpIInv PROVE KpcpTypeOK
  OBVIOUS
<1>1. {pageLru[w] : w \in StWaysOfKpcp} = StWaysOfKpcp
  <2>1. AgesPermuted(KpcpStWay, pageLru) /\ StWaysOfKpcp = WaysUpTo(KpcpStWay)
    BY DEF KpcpIInv, PagesOK, StWaysOfKpcp, WaysUpTo
  <2> QED
    BY <2>1 DEF AgesPermuted
<1>2. \A i \in Indices :
        patterns[i].csig < CMax /\ \A w \in PtWaysOfKpcp : patterns[i].ways[w].c <= patterns[i].csig
  BY DEF KpcpIInv, PatternsOK, Counted
<1> QED
  BY <1>1, <1>2 DEF KpcpTypeOK, TablesTypeOK, KpcpIInv, HookOK, Counts

(***************************************************************************)
(* The tables keep their types, pf_buffer is never written behind its end, *)
(* and the counters stay within GC_MAX.                                    *)
(***************************************************************************)
THEOREM KpcpTypeCorrect == KpcpSpec => []KpcpTypeOK
  BY KpcpTypes, KpcpInvariance, PTL
=============================================================================
