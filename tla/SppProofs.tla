------------------------------ MODULE SppProofs ------------------------------
(***************************************************************************)
(* Proofs about the tables of SPP at work: side by side under any input    *)
(* (MCSppTables, for any values of its constants), and driven by the hook  *)
(* of the prefetcher (SppDev): its counters always add up, and its queue   *)
(* is in its budget and its bounds.                                        *)
(***************************************************************************)
EXTENDS SppTablesProofs, MCSppTables, SppDev
-----------------------------------------------------------------------------
(***************************************************************************)
(* An access to the signature table leaves one way m of the page's set     *)
(* with its tag, the youngest: the one that had it, a free one or, in a    *)
(* full set, the one of age ST_WAY - 1.                                    *)
(***************************************************************************)
LEMMA AccessTakesWay ==
  ASSUME StIInv, NEW p \in Pages, NEW off \in Offsets, NEW boot \in Sigs,
         ReadAndUpdateSig(p, off, boot)
  PROVE  \E m \in StWays :
           /\ stValid' = [stValid EXCEPT ![StSetOf[p]][m] = TRUE]
           /\ stTag' = [stTag EXCEPT ![StSetOf[p]][m] = TagOf[p]]
           /\ Promote(StSetOf[p], m)
           /\ \/ stValid[StSetOf[p]][m] /\ stTag[StSetOf[p]][m] = TagOf[p]
              \/ /\ StHitWays(p) = {}
                 /\ \/ ~stValid[StSetOf[p]][m]
                    \/ /\ \A w \in StWays : stValid[StSetOf[p]][w]
                       /\ stLru[StSetOf[p]][m] = StWay - 1
<1> DEFINE s == StSetOf[p]
<1>1. s \in StSets /\ StWay - 1 \in StWays /\ StWays \in SUBSET Nat
  BY SignatureTableAssumption DEF StWays
<1>2. CASE StHit(p, off)
  <2> DEFINE m == Min(StHitWays(p))
  <2>1. StHitWays(p) # {} /\ StHitWays(p) \in SUBSET Nat
    BY <1>1, <1>2 DEF StHit, StHitWays
  <2>2. m \in StHitWays(p)
    BY <2>1, MinIsMember
  <2>3. m \in StWays /\ stValid[s][m] /\ stTag[s][m] = TagOf[p]
    BY <2>2 DEF StHitWays
  <2>4. stValid' = stValid /\ stTag' = stTag /\ Promote(s, m)
    BY <1>2 DEF StHit
  <2> HIDE DEF m
  <2>5. /\ stValid = [stValid EXCEPT ![s][m] = TRUE]
        /\ stTag = [stTag EXCEPT ![s][m] = TagOf[p]]
    <3>1. /\ stValid \in [StSets -> [StWays -> BOOLEAN]]
          /\ stTag \in [StSets -> [StWays -> Tags]]
      BY DEF StIInv, StTypeOK
    <3>2. stValid = [stValid EXCEPT ![s][m] = TRUE]
      BY <1>1, <2>3, <3>1
    <3>3. stTag = [stTag EXCEPT ![s][m] = TagOf[p]]
      BY <1>1, <2>3, <3>1
    <3> QED
      BY <3>2, <3>3
  <2> QED
    BY <2>3, <2>4, <2>5
<1>3. CASE InsertFree(p, off, boot)
  <2> DEFINE m == Min(StFreeWays(p))
  <2>1. m \in StFreeWays(p)
    BY <1>1, <1>3, MinIsMember DEF InsertFree, StFreeWays
  <2>2. m \in StWays /\ ~stValid[s][m]
    BY <2>1 DEF StFreeWays
  <2>3. StHitWays(p) = {} /\ InsertInto(p, off, boot, m)
    BY <1>3 DEF InsertFree
  <2> HIDE DEF m
  <2> QED
    BY <2>2, <2>3 DEF InsertInto
<1>4. CASE InsertOldest(p, off, boot)
  <2> DEFINE m == Min(StOldestWays(p))
  <2>1. \E w \in StWays : stLru[s][w] = StWay - 1
    BY <1>1 DEF StIInv, LruPermutation
  <2>2. StOldestWays(p) # {}
    BY <2>1 DEF StOldestWays
  <2>3. m \in StOldestWays(p)
    BY <1>1, <2>2, MinIsMember DEF StOldestWays
  <2>4. m \in StWays /\ stLru[s][m] = StWay - 1
    BY <2>3 DEF StOldestWays
  <2>5. /\ StHitWays(p) = {} /\ StFreeWays(p) = {}
        /\ InsertInto(p, off, boot, m)
    BY <1>4, <2>2 DEF InsertOldest
  <2>6. \A w \in StWays : stValid[s][w]
    BY <2>5 DEF StFreeWays
  <2> HIDE DEF m
  <2> QED
    BY <2>4, <2>5, <2>6 DEF InsertInto
<1> QED
  BY <1>2, <1>3, <1>4 DEF ReadAndUpdateSig

(* The ages of the entries are the order of their accesses.                *)
AgesAreRecency ==
  \A s \in StSets : \A v, w \in StWays :
    stValid[s][v] /\ stValid[s][w] /\ <<stTag[s][v], stTag[s][w]>> \in recency[s]
      => stLru[s][v] <= stLru[s][w]

RecencyIInv ==
  /\ recency \in [StSets -> SUBSET (Tags \X Tags)]
  /\ AgesAreRecency
  /\ KeepsMostRecent

(* What becoming the latest does to the order of the accesses.             *)
LEMMA TouchedOrder ==
  ASSUME RecencyIInv, NEW s \in StSets, NEW tag \in Tags
  PROVE  /\ Touched(s, tag) \in SUBSET (Tags \X Tags)
         /\ \A t \in Tags : <<t, t>> \in Touched(s, tag) <=> t = tag \/ t \in Seen(s)
         /\ \A t, u \in Tags : <<t, u>> \in Touched(s, tag) =>
              t = tag \/ (u # tag /\ <<t, u>> \in recency[s])
<1>1. recency[s] \subseteq Tags \X Tags
  BY DEF RecencyIInv
<1>2. Touched(s, tag) \in SUBSET (Tags \X Tags)
  <2>1. Seen(s) \union {tag} \subseteq Tags
    BY DEF Seen
  <2>2. {<<tag, t>> : t \in Seen(s) \union {tag}} \subseteq Tags \X Tags
    BY <2>1
  <2>3. {pair \in recency[s] : pair[1] # tag /\ pair[2] # tag} \subseteq Tags \X Tags
    BY <1>1
  <2> QED
    BY <2>2, <2>3 DEF Touched
<1>3. ASSUME NEW t \in Tags, NEW u \in Tags
      PROVE  <<t, u>> \in Touched(s, tag) <=>
               \/ t # tag /\ u # tag /\ <<t, u>> \in recency[s]
               \/ t = tag /\ u \in Seen(s) \union {tag}
  BY DEF Touched
<1> QED
  BY <1>2, <1>3 DEF Seen

(* An access keeps the entries those of the most recent pages.             *)
LEMMA AccessKeepsRecency ==
  ASSUME StIInv, RecencyIInv, NEW p \in Pages, NEW off \in Offsets, NEW boot \in Sigs,
         ReadAndUpdateSig(p, off, boot),
         recency' = [recency EXCEPT ![StSetOf[p]] = Touched(StSetOf[p], TagOf[p])]
  PROVE  RecencyIInv'
<1> DEFINE s == StSetOf[p]
           tag == TagOf[p]
<1>1. s \in StSets /\ tag \in Tags
  BY SignatureTableAssumption
<1>2. PICK m \in StWays :
        /\ stValid' = [stValid EXCEPT ![s][m] = TRUE]
        /\ stTag' = [stTag EXCEPT ![s][m] = tag]
        /\ Promote(s, m)
        /\ \/ stValid[s][m] /\ stTag[s][m] = tag
           \/ /\ StHitWays(p) = {}
              /\ \/ ~stValid[s][m]
                 \/ (\A w \in StWays : stValid[s][w]) /\ stLru[s][m] = StWay - 1
  BY AccessTakesWay
<1>3. /\ stValid \in [StSets -> [StWays -> BOOLEAN]] /\ stTag \in [StSets -> [StWays -> Tags]]
      /\ stLru \in [StSets -> [StWays -> StWays]]
  BY DEF StIInv, StTypeOK
<1>4. \A w \in StWays : stValid[s][w] /\ stTag[s][w] = tag => w = m
  BY <1>1, <1>2, <1>3 DEF StIInv, UniqueTags, StHitWays
<1> HIDE DEF s, tag
<1>5. /\ stLru'[s] \in [StWays -> StWays]
      /\ \A v, w \in StWays : (v # m /\ w # m) =>
           (stLru'[s][v] < stLru'[s][w] <=> stLru[s][v] < stLru[s][w])
      /\ \A w \in StWays : w # m => stLru'[s][m] < stLru'[s][w]
      /\ \A z \in StSets : z # s => stLru'[z] = stLru[z]
  <2>1. stLru' = [stLru EXCEPT ![s] = Aged(stLru[s], m)] /\ stLru[s] \in [StWays -> StWays]
    BY <1>1, <1>2, <1>3 DEF Promote
  <2>2. /\ Aged(stLru[s], m) \in [StWays -> StWays]
        /\ \A v, w \in StWays : (v # m /\ w # m) =>
             (Aged(stLru[s], m)[v] < Aged(stLru[s], m)[w] <=> stLru[s][v] < stLru[s][w])
        /\ \A w \in StWays : w # m => Aged(stLru[s], m)[m] < Aged(stLru[s], m)[w]
    BY <1>1, <2>1, AgedPermutation DEF StIInv, LruPermutation
  <2>3. stLru'[s] = Aged(stLru[s], m) /\ \A z \in StSets : z # s => stLru'[z] = stLru[z]
    BY <1>1, <1>3, <2>1
  <2> QED
    BY <2>2, <2>3
<1>6. /\ stValid'[s][m] /\ stTag'[s][m] = tag
      /\ \A w \in StWays : w # m => stValid'[s][w] = stValid[s][w] /\ stTag'[s][w] = stTag[s][w]
      /\ \A z \in StSets : z # s => stValid'[z] = stValid[z] /\ stTag'[z] = stTag[z]
  BY <1>1, <1>2, <1>3
<1>7. /\ recency'[s] = Touched(s, tag)
      /\ \A z \in StSets : z # s => recency'[z] = recency[z]
      /\ recency' \in [StSets -> SUBSET (Tags \X Tags)]
  <2>1. Touched(s, tag) \in SUBSET (Tags \X Tags)
    BY <1>1, TouchedOrder
  <2>2. recency' = [recency EXCEPT ![s] = Touched(s, tag)]
    BY DEF s, tag
  <2> QED
    BY <1>1, <2>1, <2>2 DEF RecencyIInv
<1>8. /\ \A t \in Tags : t \in Seen(s)' <=> t = tag \/ t \in Seen(s)
      /\ \A t, u \in Tags : <<t, u>> \in recency'[s] =>
           t = tag \/ (u # tag /\ <<t, u>> \in recency[s])
  BY <1>1, <1>7, TouchedOrder DEF Seen
<1>9. \A z \in StSets : z # s => Seen(z)' = Seen(z)
  BY <1>7 DEF Seen
<1>10. AgesAreRecency'
  <2> SUFFICES ASSUME NEW z \in StSets, NEW v \in StWays, NEW w \in StWays,
                      stValid'[z][v], stValid'[z][w],
                      <<stTag'[z][v], stTag'[z][w]>> \in recency'[z]
               PROVE  stLru'[z][v] <= stLru'[z][w]
    BY DEF AgesAreRecency
  <2>1. CASE z # s
    BY <2>1, <1>5, <1>6, <1>7 DEF RecencyIInv, AgesAreRecency
  <2>2. CASE z = s /\ v = m
    <3>1. \A k \in StWays : k \in Int
      BY DEF StWays
    <3> QED
      BY <2>2, <3>1, <1>5
  <2>3. CASE z = s /\ v # m
    <3>1. stTag'[s][v] # tag /\ stTag'[s][v] \in Tags /\ stTag'[s][w] \in Tags
      BY <2>3, <1>1, <1>3, <1>4, <1>6
    <3>2. stTag'[s][w] # tag /\ <<stTag[s][v], stTag'[s][w]>> \in recency[s]
      BY <2>3, <3>1, <1>6, <1>8
    <3>3. w # m
      BY <2>3, <3>2, <1>6
    <3>4. stLru[s][v] <= stLru[s][w]
      BY <2>3, <3>2, <3>3, <1>1, <1>6 DEF RecencyIInv, AgesAreRecency
    <3>5. /\ stLru[s][v] \in Int /\ stLru[s][w] \in Int
          /\ stLru'[s][v] \in Int /\ stLru'[s][w] \in Int
      <4>1. StWays \in SUBSET Int
        BY DEF StWays
      <4>2. stLru[s] \in [StWays -> StWays]
        BY <1>1, <1>3
      <4> QED
        BY <4>1, <4>2, <1>5
    <3>6. ~(stLru'[s][w] < stLru'[s][v])
      BY <2>3, <3>3, <3>4, <3>5, <1>5
    <3> QED
      BY <2>3, <3>5, <3>6
  <2> QED
    BY <2>1, <2>2, <2>3
<1>11. KeepsMostRecent'
  <2>1. ASSUME NEW z \in StSets, NEW w \in StWays, stValid'[z][w]
        PROVE  stTag'[z][w] \in Seen(z)'
    <3>1. CASE z # s
      BY <2>1, <3>1, <1>6, <1>9 DEF RecencyIInv, KeepsMostRecent
    <3>2. CASE z = s /\ w = m
      BY <3>2, <1>1, <1>6, <1>8
    <3>3. CASE z = s /\ w # m
      <4>1. stValid[s][w] /\ stTag'[s][w] = stTag[s][w] /\ stTag[s][w] \in Tags
        BY <2>1, <3>3, <1>1, <1>3, <1>6
      <4>2. stTag[s][w] \in Seen(s)
        BY <4>1, <1>1 DEF RecencyIInv, KeepsMostRecent
      <4> QED
        BY <3>3, <4>1, <4>2, <1>8
    <3> QED
      BY <3>1, <3>2, <3>3
  <2>2. ASSUME NEW z \in StSets, NEW t \in Seen(z)', ~Stored(z, t)'
        PROVE  \A w \in StWays : stValid'[z][w] /\ <<t, stTag'[z][w]>> \notin recency'[z]
    <3>1. CASE z # s
      BY <2>2, <3>1, <1>6, <1>7, <1>9 DEF RecencyIInv, KeepsMostRecent, Stored
    <3>2. CASE z = s
      <4>1. t \in Tags /\ t # tag /\ t \in Seen(s)
        BY <2>2, <3>2, <1>6, <1>8 DEF Seen, Stored
      <4>2. \A w \in StWays : w # m => ~(stValid[s][w] /\ stTag[s][w] = t)
        BY <2>2, <3>2, <1>6 DEF Stored
      <4>3. \A w \in StWays : w # m =>
              stValid[s][w] /\ <<t, stTag[s][w]>> \notin recency[s]
        <5>1. CASE Stored(s, t)
          <6>1. stValid[s][m] /\ stTag[s][m] = t
            BY <5>1, <4>2 DEF Stored
          <6>2. (\A w \in StWays : stValid[s][w]) /\ stLru[s][m] = StWay - 1
            BY <6>1, <4>1, <1>2
          <6>3. ASSUME NEW w \in StWays, w # m, <<t, stTag[s][w]>> \in recency[s]
                PROVE  FALSE
            <7>1. stLru[s][m] <= stLru[s][w]
              BY <6>1, <6>2, <6>3, <1>1 DEF RecencyIInv, AgesAreRecency
            <7>2. stLru[s][w] \in StWays /\ StWay \in Nat
              BY <1>1, <1>3, SignatureTableAssumption
            <7>3. stLru[s][w] = StWay - 1
              BY <6>2, <7>1, <7>2 DEF StWays
            <7>4. stLru[s][w] = stLru[s][m]
              BY <6>2, <7>3
            <7>5. w = m
              BY <7>4, <1>1 DEF StIInv, LruPermutation
            <7> QED
              BY <6>3, <7>5
          <6> QED
            BY <6>2, <6>3
        <5>2. CASE ~Stored(s, t)
          BY <5>2, <4>1, <1>1 DEF RecencyIInv, KeepsMostRecent
        <5> QED
          BY <5>1, <5>2
      <4>4. ASSUME NEW w \in StWays
            PROVE  stValid'[s][w] /\ <<t, stTag'[s][w]>> \notin recency'[s]
        <5>1. CASE w = m
          BY <5>1, <4>1, <1>1, <1>6, <1>8
        <5>2. CASE w # m
          <6>1. stTag'[s][w] = stTag[s][w] /\ stValid'[s][w] /\ stTag[s][w] \in Tags
            BY <5>2, <4>3, <1>1, <1>3, <1>6
          <6> QED
            BY <5>2, <6>1, <4>1, <4>3, <1>8
        <5> QED
          BY <5>1, <5>2
      <4> QED
        BY <4>4, <3>2
    <3> QED
      BY <3>1, <3>2
  <2> QED
    BY <2>1, <2>2 DEF KeepsMostRecent
<1> QED
  BY <1>7, <1>10, <1>11 DEF RecencyIInv

(***************************************************************************)
(* The invariants of the four tables hold together, and those of the       *)
(* signature table with the history of the accesses.                       *)
(***************************************************************************)
TablesIInv == StIInv /\ PtIInv /\ GhrIInv /\ CacheIInv /\ RecencyIInv

LEMMA InitTablesIInv == TablesInit => TablesIInv
<1> SUFFICES ASSUME TablesInit PROVE TablesIInv
  OBVIOUS
<1>1. StIInv /\ PtIInv /\ GhrIInv /\ CacheIInv
  BY InitStIInv, InitPtIInv, InitGhrIInv, InitCacheIInv DEF TablesInit
<1>2. RecencyIInv
  BY DEF TablesInit, StInit, Table, RecencyIInv, AgesAreRecency, KeepsMostRecent, Seen
<1> QED
  BY <1>1, <1>2 DEF TablesIInv

LEMMA NextTablesIInv == TablesIInv /\ [TablesNext]_tablesVars => TablesIInv'
<1> SUFFICES ASSUME TablesIInv, [TablesNext]_tablesVars PROVE TablesIInv'
  OBVIOUS
<1> USE DEF TablesIInv
<1>1. UNCHANGED stVars => StIInv'
  BY NextStIInv
<1>2. UNCHANGED ptVars => PtIInv'
  BY NextPtIInv
<1>3. UNCHANGED ghrVars => GhrIInv'
  BY NextGhrIInv
<1>4. UNCHANGED vars => CacheIInv'
  BY NextCacheIInv
<1>5. UNCHANGED stVars /\ UNCHANGED recency => RecencyIInv'
  BY DEF stVars, RecencyIInv, AgesAreRecency, KeepsMostRecent, Seen, Stored
<1>6. CASE Signatures
  <2>1. PICK p \in Pages, off \in Offsets, boot \in Sigs :
          /\ ReadAndUpdateSig(p, off, boot)
          /\ recency' = [recency EXCEPT ![StSetOf[p]] = Touched(StSetOf[p], TagOf[p])]
    BY <1>6 DEF Signatures
  <2>2. StIInv'
    BY <2>1, NextStIInv DEF StNext
  <2>3. RecencyIInv'
    BY <2>1, AccessKeepsRecency
  <2> QED
    BY <2>2, <2>3, <1>2, <1>3, <1>4, <1>6 DEF Signatures
<1>7. CASE Patterns
  BY <1>1, <1>3, <1>4, <1>5, <1>7, NextPtIInv DEF Patterns
<1>8. CASE Register
  BY <1>1, <1>2, <1>4, <1>5, <1>8, NextGhrIInv DEF Register
<1>9. CASE Filter
  BY <1>1, <1>2, <1>3, <1>5, <1>9, NextCacheIInv DEF Filter
<1>10. CASE UNCHANGED tablesVars
  BY <1>1, <1>2, <1>3, <1>4, <1>5, <1>10 DEF tablesVars
<1> QED
  BY <1>6, <1>7, <1>8, <1>9, <1>10 DEF TablesNext

(* The invariants of the four tables, in any interleaving of their uses.   *)
THEOREM TablesInvariance == TablesSpec => []TablesIInv
  BY InitTablesIInv, NextTablesIInv, PTL DEF TablesSpec

(* The tables keep their types.                                            *)
THEOREM TablesTypeCorrect == TablesSpec => []TypeOK
<1>1. TablesIInv => TypeOK
  BY DEF TablesIInv, StIInv, PtIInv, GhrIInv, CacheIInv, FilterIInv, TypeOK
<1> QED
  BY <1>1, TablesInvariance, PTL

(* No table ever fails to find the victim it asserts to find, as long as   *)
(* confidences are below 100.                                              *)
THEOREM VictimsAlwaysFound == TablesSpec => []VictimsFound
<1>1. TablesIInv => VictimsFound
  BY DEF TablesIInv, StIInv, PtIInv, GhrIInv, VictimsFound
<1> QED
  BY <1>1, TablesInvariance, PTL

(***************************************************************************)
(* The signature table keeps the most recently accessed pages of each set, *)
(* for any number of ways and any mapping of pages to sets and tags.       *)
(***************************************************************************)
THEOREM MostRecentAlwaysKept == TablesSpec => []KeepsMostRecent
<1>1. TablesIInv => KeepsMostRecent
  BY DEF TablesIInv, RecencyIInv
<1> QED
  BY <1>1, TablesInvariance, PTL
-----------------------------------------------------------------------------
(***************************************************************************)
(* The hook of the prefetcher.  What the register gives a new page is a    *)
(* signature, and so is what the signature table returns.                  *)
(***************************************************************************)
RegisterOK ==
  /\ DOMAIN ghr = Entries
  /\ \A i \in Entries : ghr[i].sig \in Sigs /\ ghr[i].delta \in Deltas

WalkOK ==
  /\ accuracy \in Nat
  /\ base \in [page : Pages \union {0}, pos : Int, sig : Sigs]
  /\ path \in [conf : Nat, deep : BOOLEAN, way : 0 .. PtWay]
  /\ queue = [waiting |-> queue.waiting, tail |-> queue.tail, slots |-> queue.slots]
  /\ Waiting \subseteq PtWays
  /\ \A w \in Waiting : queue.waiting[w] \in [conf : Nat \ {0}, delta : Deltas]
  /\ pc # "idle" => base.page \in Pages

SppIInv == StIInv /\ PtIInv /\ CacheIInv /\ RegisterOK /\ WalkOK

LEMMA BootIsSig ==
  ASSUME RegisterOK, NEW off
  PROVE  Boot(off) \in Sigs
<1>1. CASE CheckEntry(off) = {}
  BY <1>1, SppAssumption DEF Boot
<1>2. CASE CheckEntry(off) # {}
  <2> DEFINE e == Min(CheckEntry(off))
  <2>1. CheckEntry(off) \in SUBSET Nat
    BY GlobalRegisterAssumption DEF CheckEntry, Entries
  <2>2. e \in CheckEntry(off)
    BY <1>2, <2>1, MinIsMember
  <2>3. e \in Entries
    BY <2>2 DEF CheckEntry
  <2>4. Boot(off) = NextSig(ghr[e].sig, ghr[e].delta)
    BY <1>2 DEF Boot
  <2> HIDE DEF e
  <2> QED
    BY <2>3, <2>4, SppAssumption DEF RegisterOK
<1> QED
  BY <1>1, <1>2

(* A quotient of natural numbers is one.                                   *)
LEMMA Quotient ==
  ASSUME NEW a \in Nat, NEW b \in Nat, NEW n \in Nat \ {0}
  PROVE  (a * b) \div n \in Nat
<1>1. a * b \in Nat
  OBVIOUS
<1> QED
  BY <1>1

(* What the table is trained with, and the signature to start from.        *)
LEMMA TrainedTypes ==
  ASSUME StIInv, NEW p \in Pages, NEW off \in Offsets, NEW boot \in Sigs
  PROVE  /\ CurrSig(p, off, boot) \in Sigs
         /\ LastSig(p, off) # 0 => LastSig(p, off) \in Sigs /\ DeltaOf(p, off) \in TrainedDeltas
<1>1. CASE StHitWays(p) = {}
  BY <1>1 DEF CurrSig, LastSig, DeltaOf
<1>2. CASE StHitWays(p) # {} /\ DeltaOf(p, off) = 0
  BY <1>2, SppAssumption DEF CurrSig, LastSig
<1>3. CASE StHitWays(p) # {} /\ DeltaOf(p, off) # 0
  <2>1. /\ StSetOf[p] \in StSets /\ Min(StHitWays(p)) \in StWays
        /\ CurrSig(p, off, 0) \in Sigs
    BY <1>3, HitTypes
  <2>2. CurrSig(p, off, boot) = CurrSig(p, off, 0)
    BY <1>3 DEF CurrSig
  <2>3. LastSig(p, off) \in Sigs
    BY <1>3, <2>1 DEF LastSig, StIInv, StTypeOK
  <2>4. stOffset[StSetOf[p]][Min(StHitWays(p))] \in Offsets
    BY <2>1 DEF StIInv, StTypeOK
  <2>5. DeltaOf(p, off) \in Deltas
    BY <1>3, <2>4 DEF DeltaOf, Deltas
  <2> QED
    BY <1>3, <2>1, <2>2, <2>3, <2>5 DEF TrainedDeltas
<1> QED
  BY <1>1, <1>2, <1>3

(* The accuracy and the confidences are natural numbers.                   *)
LEMMA ConfidenceTypes ==
  ASSUME SppIInv
  PROVE  Accuracy \in Nat /\ \A w \in PtWays : Confidence(w) \in Nat
<1>1. Accuracy \in Nat
  BY PrefetchFilterAssumption DEF Accuracy, SppIInv, CacheIInv, FilterIInv, FilterTypeOK
<1>2. ASSUME NEW w \in PtWays
      PROVE  Confidence(w) \in Nat
  <2> DEFINE s == PtSetOf[base.sig]
             n == ptCSig[s]
             c == ptCDelta[s][w]
  <2>1. s \in PtSets
    BY PatternTableAssumption DEF SppIInv, WalkOK
  <2>2. n \in Nat /\ c \in Nat
    BY <2>1, PatternTableAssumption DEF SppIInv, PtIInv, PtTypeOK
  <2>3. accuracy \in Nat /\ path.conf \in Nat
    BY DEF SppIInv, WalkOK
  <2>4. Confidence(w) = IF n = 0 THEN 0
                        ELSE IF path.deep THEN (((accuracy * c) \div n) * path.conf) \div 100
                        ELSE (100 * c) \div n
    BY DEF Confidence, PathConf, LocalConf
  <2> HIDE DEF s, n, c
  <2>5. n # 0 => (accuracy * c) \div n \in Nat /\ (100 * c) \div n \in Nat
    BY <2>2, <2>3, Quotient
  <2>6. n # 0 => (((accuracy * c) \div n) * path.conf) \div 100 \in Nat
    BY <2>3, <2>5, Quotient
  <2> QED
    BY <2>4, <2>5, <2>6
<1> QED
  BY <1>1, <1>2

(* Before the first access.                                                *)
LEMMA InitSppIInv == SppInit => SppIInv
<1> SUFFICES ASSUME SppInit PROVE SppIInv
  OBVIOUS
<1>1. StIInv /\ PtIInv /\ CacheIInv
  BY InitStIInv, InitPtIInv, InitCacheIInv DEF SppInit
<1>2. 0 \in Deltas /\ 0 \in Sigs
  BY SppAssumption DEF Deltas
<1>3. RegisterOK
  BY <1>2 DEF SppInit, GhrInit, RegisterOK
<1>4. Waiting = {}
  BY DEF SppInit, Queue, Waiting
<1>5. WalkOK
  BY <1>2, <1>4, PatternTableAssumption DEF SppInit, Base, Path, Queue, WalkOK
<1> QED
  BY <1>1, <1>3, <1>5 DEF SppIInv

(***************************************************************************)
(* The next candidate has some confidence and a delta of the table, and    *)
(* taking it leaves the rest of the queue.                                 *)
(***************************************************************************)
LEMMA TakenCandidate ==
  ASSUME WalkOK, TakeCandidate
  PROVE  /\ Candidate.conf \in Nat \ {0} /\ Candidate.delta \in Deltas
         /\ Target \in Int /\ Target % PageBlocks \in Offsets
         /\ base.page \in Pages
         /\ WalkOK'
<1>1. Min(Waiting) \in Waiting
  <2>1. Waiting \in SUBSET Nat /\ Waiting # {}
    BY DEF WalkOK, TakeCandidate, PtWays
  <2> QED
    BY <2>1, MinIsMember
<1>2. Candidate \in [conf : Nat \ {0}, delta : Deltas]
  BY <1>1 DEF Candidate, WalkOK
<1>3. Target \in Int
  <2>1. Deltas \in SUBSET Int
    BY SppAssumption DEF Deltas
  <2> QED
    BY <1>2, <2>1 DEF Target, WalkOK
<1>4. Target % PageBlocks \in Offsets
  BY <1>3, SppAssumption, SppDevAssumption
<1>5. queue' = [queue EXCEPT !.waiting = [w \in Waiting \ {Min(Waiting)} |-> queue.waiting[w]]]
  BY DEF TakeCandidate
<1>6. queue' = [waiting |-> [w \in Waiting \ {Min(Waiting)} |-> queue.waiting[w]],
                tail |-> queue.tail, slots |-> queue.slots]
  BY <1>5 DEF WalkOK
<1>7. /\ queue'.waiting = [w \in Waiting \ {Min(Waiting)} |-> queue.waiting[w]]
      /\ queue' = [waiting |-> queue'.waiting, tail |-> queue'.tail, slots |-> queue'.slots]
  BY <1>6
<1>8. Waiting' = Waiting \ {Min(Waiting)} /\ \A w \in Waiting' : queue'.waiting[w] = queue.waiting[w]
  BY <1>7 DEF Waiting
<1>9. WalkOK'
  BY <1>7, <1>8 DEF WalkOK, TakeCandidate
<1> QED
  BY <1>2, <1>3, <1>4, <1>9 DEF WalkOK, TakeCandidate

(* Storing a signature and a delta keeps the register one of those.        *)
LEMMA UpdateRegisterOK ==
  ASSUME RegisterOK, NEW sig \in Sigs, NEW conf, NEW off, NEW delta \in Deltas,
         UpdateEntry(sig, conf, off, delta)
  PROVE  RegisterOK'
<1>1. ASSUME NEW i, GhrStore(i, sig, conf, off, delta)
      PROVE  RegisterOK'
  <2> DEFINE e == [valid |-> TRUE, sig |-> sig, confidence |-> conf,
                   offset |-> off, delta |-> delta]
  <2>1. ghr' = [ghr EXCEPT ![i] = e] /\ e.sig = sig /\ e.delta = delta
    BY <1>1 DEF GhrStore
  <2> HIDE DEF e
  <2> QED
    BY <2>1 DEF RegisterOK
<1>2. CASE UNCHANGED ghr
  BY <1>2 DEF RegisterOK
<1> QED
  BY <1>1, <1>2 DEF UpdateEntry, GhrRefresh, GhrReplace

(* Reading a set queues ways with the confidence asked for.                *)
LEMMA ReadWalkOK ==
  ASSUME SppIInv, ReadPattern
  PROVE  WalkOK'
<1> DEFINE s == PtSetOf[base.sig]
           ways == {w \in PtWays : Confidence(w) >= PfThreshold}
           top == {w \in ways : \A v \in ways : Confidence(v) <= Confidence(w)}
           best == Min(top)
           cands == [w \in ways |-> [conf |-> Confidence(w), delta |-> ptDelta[s][w]]]
<1>1. \A w \in PtWays : Confidence(w) \in Nat
  BY ConfidenceTypes
<1>2. s \in PtSets
  BY PatternTableAssumption DEF SppIInv, WalkOK
<1>3. \A w \in ways : /\ cands[w] = [conf |-> Confidence(w), delta |-> ptDelta[s][w]]
                      /\ Confidence(w) \in Nat \ {0} /\ ptDelta[s][w] \in Deltas
  BY <1>1, <1>2, SppDevAssumption DEF SppIInv, PtIInv, PtTypeOK
<1>4. ways # {} => best \in PtWays /\ Confidence(best) \in Nat
  <2> SUFFICES ASSUME ways # {} PROVE best \in PtWays /\ Confidence(best) \in Nat
    OBVIOUS
  <2>1. \E w \in ways : \A v \in ways : Confidence(v) <= Confidence(w)
    <3> DEFINE f == [w \in ways |-> Confidence(w)]
    <3>1. ways \in SUBSET (0 .. PtWay - 1) /\ PtWay \in Nat /\ f \in [ways -> Nat]
      BY <1>1, PatternTableAssumption DEF PtWays
    <3>2. \E w \in ways : \A v \in ways : f[v] <= f[w]
      BY <3>1, GreatestExists
    <3> QED
      BY <3>2
  <2>2. top \in SUBSET Nat /\ top # {}
    BY <2>1 DEF PtWays
  <2>3. best \in top
    BY <2>2, MinIsMember
  <2> QED
    BY <2>3, <1>1
<1>5. path' \in [conf : Nat, deep : BOOLEAN, way : 0 .. PtWay]
  BY <1>4, PatternTableAssumption DEF ReadPattern, SppIInv, WalkOK, PtWays
<1>6. queue'.waiting = cands /\ queue' = [waiting |-> queue'.waiting, tail |-> queue'.tail, slots |-> queue'.slots]
  BY DEF ReadPattern
<1>7. DOMAIN cands = ways /\ ways \subseteq PtWays
  OBVIOUS
<1> HIDE DEF ways, cands
<1>8. Waiting' = ways /\ \A w \in Waiting' : queue'.waiting[w] \in [conf : Nat \ {0}, delta : Deltas]
  BY <1>3, <1>6, <1>7 DEF Waiting
<1> QED
  BY <1>5, <1>6, <1>7, <1>8 DEF SppIInv, WalkOK, ReadPattern

(***************************************************************************)
(* A step of the hook is a step of each table, as the table expects it, or *)
(* leaves the table as it is.                                              *)
(***************************************************************************)
LEMMA StepsOfTables ==
  ASSUME SppIInv, [SppNext]_sppVars
  PROVE  /\ [StNext]_stVars /\ [PtNext]_ptVars /\ [CacheNext]_vars
         /\ RegisterOK' /\ WalkOK'
<1> USE DEF SppIInv
<1>1. UNCHANGED ghrVars => RegisterOK'
  BY DEF ghrVars, RegisterOK
<1>2. UNCHANGED <<pc, accuracy, base, path, queue>> => WalkOK'
  BY DEF WalkOK, Waiting
<1>3. ASSUME NEW page \in Pages, NEW off \in Offsets, Operate(page, off)
      PROVE  /\ [StNext]_stVars /\ [PtNext]_ptVars /\ [CacheNext]_vars
             /\ RegisterOK' /\ WalkOK'
  <2>1. Boot(off) \in Sigs
    BY BootIsSig
  <2>2. StNext
    BY <1>3, <2>1 DEF Operate, StNext
  <2>3. [PtNext]_ptVars
    <3>1. CASE LastSig(page, off) # 0
      BY <1>3, <2>1, <3>1, TrainedTypes DEF Operate, Train, PtNext
    <3>2. CASE LastSig(page, off) = 0
      BY <1>3, <3>2 DEF Operate, Train
    <3> QED
      BY <3>1, <3>2
  <2>4. CacheNext
    <3>1. <<page, off>> \in Lines \ {NoLine}
      BY SppDevAssumption
    <3> QED
      BY <1>3, <3>1 DEF Operate, CacheNext
  <2>5. WalkOK'
    <3>1. CurrSig(page, off, Boot(off)) \in Sigs
      BY <2>1, TrainedTypes
    <3>2. /\ base' = Base(page, off, CurrSig(page, off, Boot(off)))
          /\ path' = Path /\ queue' = Queue /\ accuracy' = Accuracy
      BY <1>3 DEF Operate
    <3>3. Waiting' = {}
      BY <3>2 DEF Queue, Waiting
    <3>4. off \in Int
      BY SppAssumption
    <3>5. accuracy' \in Nat
      BY <3>2, ConfidenceTypes
    <3>6. base' \in [page : Pages \union {0}, pos : Int, sig : Sigs] /\ base'.page = page
      BY <3>1, <3>2, <3>4 DEF Base
    <3>7. path' \in [conf : Nat, deep : BOOLEAN, way : 0 .. PtWay]
      BY <3>2, PatternTableAssumption DEF Path
    <3>8. queue' = [waiting |-> queue'.waiting, tail |-> queue'.tail, slots |-> queue'.slots]
      BY <3>2 DEF Queue
    <3> QED
      BY <3>3, <3>5, <3>6, <3>7, <3>8 DEF WalkOK
  <2> QED
    BY <1>1, <1>3, <2>2, <2>3, <2>4, <2>5 DEF Operate
<1>4. CASE ReadPattern
  BY <1>1, <1>4, ReadWalkOK DEF ReadPattern
<1>5. CASE TurnDown
  BY <1>1, <1>5, TakenCandidate DEF TurnDown, TakeCandidate
<1>6. CASE PrefetchL2
  <2>1. Target \in Offsets /\ Prefetch(<<base.page, Target>>) /\ TakeCandidate
    BY <1>6 DEF PrefetchL2
  <2>2. base.page \in Pages /\ WalkOK'
    BY <2>1, TakenCandidate
  <2>3. <<base.page, Target>> \in Lines \ {NoLine}
    BY <2>1, <2>2, SppDevAssumption
  <2>4. CacheNext
    BY <2>1, <2>3 DEF CacheNext
  <2> QED
    BY <1>1, <1>6, <2>2, <2>4 DEF PrefetchL2, TakeCandidate
<1>7. CASE PrefetchLLCOrNot
  BY <1>1, <1>7, TakenCandidate DEF PrefetchLLCOrNot, TakeCandidate
<1>8. CASE CrossPage
  <2>1. /\ TakeCandidate
        /\ UpdateEntry(base.sig, Candidate.conf, Target % PageBlocks, Candidate.delta)
    BY <1>8 DEF CrossPage
  <2>2. Candidate.delta \in Deltas /\ base.sig \in Sigs /\ WalkOK'
    BY <2>1, TakenCandidate DEF WalkOK
  <2>3. RegisterOK'
    BY <2>1, <2>2, UpdateRegisterOK
  <2> QED
    BY <1>8, <2>2, <2>3 DEF CrossPage, TakeCandidate
<1>9. CASE Advance
  <2> DEFINE d == ptDelta[PtSetOf[base.sig]][path.way]
  <2>1. path.way < PtWay => d \in Deltas
    BY PatternTableAssumption DEF WalkOK, PtIInv, PtTypeOK, PtWays
  <2>2. base' = IF path.way < PtWay
                THEN Base(base.page, base.pos + d, NextSig(base.sig, d)) ELSE base
    BY <1>9 DEF Advance
  <2>3. base' \in [page : Pages \union {0}, pos : Int, sig : Sigs] /\ base'.page = base.page
    <3>1. CASE path.way < PtWay
      <4>1. d \in Int /\ NextSig(base.sig, d) \in Sigs
        BY <2>1, <3>1, SppAssumption DEF Deltas, WalkOK
      <4> HIDE DEF d
      <4> QED
        BY <2>2, <3>1, <4>1 DEF Base, WalkOK
    <3>2. CASE ~(path.way < PtWay)
      BY <2>2, <3>2 DEF WalkOK
    <3> QED
      BY <3>1, <3>2
  <2>4. pc = "issue" /\ UNCHANGED <<accuracy, path, queue>>
    BY <1>9 DEF Advance
  <2>5. WalkOK'
    BY <2>3, <2>4 DEF WalkOK, Waiting
  <2> QED
    BY <1>1, <1>9, <2>5 DEF Advance
<1>10. ASSUME NEW line \in Lines \ {NoLine}, CacheStep(line)
       PROVE  /\ [StNext]_stVars /\ [PtNext]_ptVars /\ [CacheNext]_vars
              /\ RegisterOK' /\ WalkOK'
  BY <1>1, <1>2, <1>10 DEF CacheStep, CacheNext, lookVars
<1>11. CASE UNCHANGED sppVars
  BY <1>1, <1>2, <1>11 DEF sppVars, lookVars
<1> QED
  BY <1>3, <1>4, <1>5, <1>6, <1>7, <1>8, <1>9, <1>10, <1>11 DEF SppNext, Hook

(* The inductive invariant of the prefetcher.                              *)
LEMMA NextSppIInv == SppIInv /\ [SppNext]_sppVars => SppIInv'
<1> SUFFICES ASSUME SppIInv, [SppNext]_sppVars PROVE SppIInv'
  OBVIOUS
<1>1. /\ [StNext]_stVars /\ [PtNext]_ptVars /\ [CacheNext]_vars
      /\ RegisterOK' /\ WalkOK'
  BY StepsOfTables
<1> QED
  BY <1>1, NextStIInv, NextPtIInv, NextCacheIInv DEF SppIInv

(* The tables keep their invariants when the hook drives them, and what it *)
(* passes between them has the types they expect.                          *)
THEOREM SppInvariance == SppSpec => []SppIInv
  BY InitSppIInv, NextSppIInv, PTL DEF SppSpec

(***************************************************************************)
(* The hook trains the pattern table with nothing but deltas that are not  *)
(* zero, so that what holds of the table holds in the prefetcher.          *)
(***************************************************************************)
THEOREM HookUsesPatternTable == SppSpec => UsesPatternTable
<1>1. SppInit => PtInit
  BY DEF SppInit
<1>2. SppIInv /\ [SppNext]_sppVars => [PtNext]_ptVars
  BY StepsOfTables
<1> QED
  BY <1>1, <1>2, SppInvariance, PTL DEF SppSpec, UsesPatternTable, PtSpec

(* The hook is a user of the signature table and of the filter too.        *)
THEOREM HookUsesOtherTables == SppSpec => UsesOtherTables
<1>1. SppInit => StInit /\ CacheInit
  BY DEF SppInit
<1>2. SppIInv /\ [SppNext]_sppVars => [StNext]_stVars /\ [CacheNext]_vars
  BY StepsOfTables
<1> QED
  BY <1>1, <1>2, SppInvariance, PTL DEF SppSpec, UsesOtherTables, StSpec, CacheSpec

(***************************************************************************)
(* And, when its confidences may be any, of the global register: what holds *)
(* of the register whatever the confidences are holds in the prefetcher.   *)
(***************************************************************************)
THEOREM HookUsesRegister ==
  ASSUME Confs = Nat \ {0}
  PROVE  SppSpec => UsesRegister
<1>1. SppInit => GhrInit
  BY DEF SppInit
<1>2. SppIInv /\ [SppNext]_sppVars => [GhrNext]_ghrVars
  <2> SUFFICES ASSUME SppIInv, [SppNext]_sppVars PROVE [GhrNext]_ghrVars
    OBVIOUS
  <2>1. CASE CrossPage
    <3>1. /\ TakeCandidate
          /\ UpdateEntry(base.sig, Candidate.conf, Target % PageBlocks, Candidate.delta)
      BY <2>1 DEF CrossPage
    <3>2. /\ base.sig \in Sigs /\ Candidate.conf \in Confs
          /\ Target % PageBlocks \in Offsets /\ Candidate.delta \in Deltas
      BY <3>1, TakenCandidate DEF SppIInv, WalkOK
    <3> QED
      BY <3>1, <3>2 DEF GhrNext
  <2>2. CASE ~CrossPage
    BY <2>2 DEF SppNext, Operate, Hook, ReadPattern, TurnDown, PrefetchL2, PrefetchLLCOrNot,
                Advance, CacheStep, sppVars
  <2> QED
    BY <2>1, <2>2
<1> QED
  BY <1>1, <1>2, SppInvariance, PTL DEF SppSpec, UsesRegister, GhrSpec

(***************************************************************************)
(* In the prefetcher, lookahead loses confidence at each step while the    *)
(* accuracy is a percentage, and the counters of the filter stay together. *)
(***************************************************************************)
THEOREM HookTablesSound == SppSpec => [](LookaheadDecays /\ UniqueTags /\ DriftBounded)
<1>1. SppIInv => LookaheadDecays /\ UniqueTags /\ DriftBounded
  BY PtIInvLookahead DEF SppIInv, StIInv, CacheIInv, FilterIInv
<1> QED
  BY <1>1, SppInvariance, PTL

(***************************************************************************)
(* In the prefetcher, a valid entry of the filter stands for a line in the *)
(* cache or on its way, as long as prefetch_line takes every request.      *)
(***************************************************************************)
THEOREM HookValidMeansPrefetched ==
  ASSUME Accepts = {TRUE}
  PROVE  SppSpec => []ValidMeansPrefetched
  BY HookUsesOtherTables, ValidAlwaysMeansPrefetched, PTL DEF UsesOtherTables
-----------------------------------------------------------------------------
(* What a path of each confidence can still write: at least the slot that  *)
(* an empty set clears, and for the k ways a level queues, one slot each   *)
(* and what is left for the best of them.                                  *)
Budget(b) ==
  /\ b \in [0 .. 100 -> Nat]
  /\ \A f \in PfThreshold .. 100 : 1 <= b[f]
  /\ \A f, g \in PfThreshold .. 100, k \in Nat \ {0} :
       g + (k - 1) * PfThreshold <= f /\ 100 * g <= f * Retained => k + b[g] <= b[f]

QueueFits(b) ==
  /\ path.conf \in PfThreshold .. 100 /\ (~path.deep => path.conf = 100)
  /\ queue.tail \in Nat /\ queue.tail + b[path.conf] <= b[100]
  /\ queue.slots \in Nat /\ queue.slots <= b[100]

(* The confidences of a set that counted something share that of the path. *)
LEMMA ConfidenceShares ==
  ASSUME SppIInv, accuracy <= 100, path.conf \in 0 .. 100, ~path.deep => path.conf = 100,
         ptCSig[PtSetOf[base.sig]] # 0
  PROVE  /\ Shares([w \in 0 .. PtWay - 1 |-> Confidence(w)], ptCDelta[PtSetOf[base.sig]],
                   PtWay, ptCSig[PtSetOf[base.sig]], path.conf)
         /\ \A w \in PtWays : 100 * Confidence(w) <= path.conf * Retained
<1> DEFINE s == PtSetOf[base.sig]
           all == ptCSig[s]
           conf == [w \in 0 .. PtWay - 1 |-> Confidence(w)]
<1>1. s \in PtSets /\ accuracy \in 0 .. 100 /\ PtWays = 0 .. PtWay - 1
  BY PatternTableAssumption DEF SppIInv, WalkOK, PtWays
<1>2. all \in 1 .. CSigMax /\ ptCDelta[s] \in [PtWays -> Nat]
  <2>1. ptCDelta[s] \in [PtWays -> 0 .. CSigMax] /\ all \in 0 .. CSigMax /\ CSigMax \in Nat
    BY <1>1, PatternTableAssumption DEF SppIInv, PtIInv, PtTypeOK
  <2> QED
    BY <2>1
<1>3. ASSUME NEW w \in PtWays
      PROVE  /\ Confidence(w) \in Nat /\ Confidence(w) * all <= path.conf * ptCDelta[s][w]
             /\ 100 * Confidence(w) <= path.conf * Retained
  <2> DEFINE cnt == ptCDelta[s][w]
  <2>1. cnt \in Nat /\ cnt < all
    <3>1. cnt \in Nat
      BY <1>2
    <3>2. cnt < all
      BY <1>1 DEF SppIInv, PtIInv, CountersBelowSig
    <3> QED
      BY <3>1, <3>2
  <2>2. Confidence(w) = IF path.deep THEN (((accuracy * cnt) \div all) * path.conf) \div 100
                        ELSE (100 * cnt) \div all
    BY DEF Confidence, PathConf, LocalConf
  <2> HIDE DEF cnt, all, s
  <2>3. CASE path.deep
    <3> DEFINE q == OnPath(accuracy, cnt, all, path.conf)
    <3>1. SharesPath(q, cnt, all, path.conf)
      <4>1. /\ accuracy \in 0 .. 100 /\ path.conf \in 0 .. 100
            /\ cnt \in Nat /\ all \in 1 .. CSigMax /\ cnt < all
        BY <1>1, <1>2, <2>1
      <4>2. Counted(accuracy, cnt, all, path.conf)
        BY <4>1 DEF Counted
      <4> HIDE DEF conf
      <4> QED
        BY <4>2, CountedShare
    <3>2. Confidence(w) = q
      BY <2>2, <2>3 DEF OnPath, PartOf
    <3> HIDE DEF q
    <3> QED
      BY <3>1, <3>2 DEF cnt, SharesPath
  <2>4. CASE ~path.deep
    <3> DEFINE p == PartOf(100, cnt, all)
    <3>1. p \in 0 .. 100 /\ p * all <= 100 * cnt /\ p <= Retained
      <4>1. /\ 100 \in 0 .. 100 /\ cnt \in Nat /\ all \in 1 .. CSigMax /\ cnt < all
        BY <1>2, <2>1
      <4>2. SharesLevel(p, cnt, all)
        BY <4>1, Share
      <4> HIDE DEF p
      <4> QED
        BY <4>2 DEF SharesLevel
    <3>2. Confidence(w) = p /\ path.conf = 100
      BY <2>2, <2>4 DEF PartOf
    <3>3. Retained \in Int
      BY PatternTableAssumption DEF Retained
    <3> HIDE DEF p
    <3>4. 100 * p <= 100 * Retained
      BY <3>1, <3>3
    <3> QED
      BY <3>1, <3>2, <3>4 DEF cnt
  <2> QED
    BY <2>3, <2>4
<1> HIDE DEF s, all
<1>4. conf \in [0 .. PtWay - 1 -> Nat]
  BY <1>1, <1>3
<1>5. \A w \in 0 .. PtWay - 1 : conf[w] = Confidence(w) /\ w \in PtWays
  BY <1>1
<1>6. Shares(conf, ptCDelta[s], PtWay, all, path.conf)
  <2>1. \A w \in 0 .. PtWay - 1 : conf[w] * all <= path.conf * ptCDelta[s][w]
    <3> TAKE w \in 0 .. PtWay - 1
    <3>1. conf[w] = Confidence(w) /\ w \in PtWays
      BY <1>5
    <3> HIDE DEF conf
    <3> QED
      BY <1>3, <3>1
  <2> HIDE DEF conf
  <2> QED
    BY <1>1, <1>2, <1>4, <2>1 DEF Shares
<1> QED
  BY <1>3, <1>6 DEF s, all

(* A level of the lookahead stays in its budget.                           *)
LEMMA ReadFits ==
  ASSUME SppIInv, SharesSig, accuracy <= 100, NEW b, Budget(b), QueueFits(b), ReadPattern
  PROVE  QueueFits(b)'
<1> DEFINE s == PtSetOf[base.sig]
           n == ptCSig[s]
           ways == {w \in PtWays : Confidence(w) >= PfThreshold}
           top == {w \in ways : \A v \in ways : Confidence(v) <= Confidence(w)}
           best == Min(top)
           tail == queue.tail + Cardinality(ways)
           written == IF ways = {} /\ n = 0 THEN tail + 1 ELSE tail
           slots == Max({queue.slots, written})
           g == Confidence(best)
           k == Cardinality(ways)
           conf == [w \in 0 .. PtWay - 1 |-> Confidence(w)]
<1>1. /\ path' = IF ways = {} THEN [path EXCEPT !.way = PtWay]
                 ELSE [conf |-> g, deep |-> TRUE, way |-> best]
      /\ queue'.tail = tail /\ queue'.slots = slots
  BY DEF ReadPattern
<1>2. \A w \in PtWays : Confidence(w) \in Nat
  BY ConfidenceTypes
<1>3. /\ path.conf \in PfThreshold .. 100 /\ path.conf \in 0 .. 100 /\ PfThreshold \in 1 .. 100
      /\ queue.tail \in Nat /\ queue.slots \in Nat /\ b[path.conf] \in Nat /\ b[100] \in Nat
      /\ 1 <= b[path.conf] /\ queue.tail + b[path.conf] <= b[100] /\ queue.slots <= b[100]
  <2> HIDE DEF s, n, ways, top, best, tail, written, slots, g, k, conf
  <2>1. /\ path.conf \in PfThreshold .. 100 /\ PfThreshold \in 1 .. 100
    BY SppDevAssumption DEF QueueFits
  <2>2. path.conf \in 0 .. 100 /\ 100 \in 0 .. 100
    BY <2>1
  <2>3. b[path.conf] \in Nat /\ b[100] \in Nat /\ 1 <= b[path.conf]
    BY <2>1, <2>2 DEF Budget
  <2>4. /\ queue.tail \in Nat /\ queue.slots \in Nat
        /\ queue.tail + b[path.conf] <= b[100] /\ queue.slots <= b[100]
    BY DEF QueueFits
  <2> QED
    BY <2>1, <2>2, <2>3, <2>4
<1>4. path = [conf |-> path.conf, deep |-> path.deep, way |-> path.way]
  BY DEF SppIInv, WalkOK
<1>5. CASE ways = {}
  <2>1. tail = queue.tail
    <3>1. Cardinality(ways) = 0
      BY <1>5, FS_EmptySet
    <3> QED
      BY <1>3, <3>1
  <2>2. written \in Nat /\ written <= b[100]
    BY <1>3, <2>1
  <2>3. path'.conf = path.conf /\ path'.deep = path.deep
    BY <1>1, <1>4, <1>5
  <2>4. slots \in {queue.slots, written}
    <3> HIDE DEF written
    <3>1. \E x \in {queue.slots, written} : \A y \in {queue.slots, written} : x >= y
      BY <1>3, <2>2
    <3> QED
      BY <3>1 DEF Max
  <2> QED
    BY <1>1, <1>3, <2>1, <2>2, <2>3, <2>4 DEF QueueFits
<1>6. CASE ways # {}
  <2>1. \E w \in ways : \A v \in ways : Confidence(v) <= Confidence(w)
    <3> DEFINE h == [w \in ways |-> Confidence(w)]
    <3>1. ways \in SUBSET (0 .. PtWay - 1) /\ PtWay \in Nat /\ h \in [ways -> Nat]
      BY <1>2, PatternTableAssumption DEF PtWays
    <3>2. \E w \in ways : \A v \in ways : h[v] <= h[w]
      BY <1>6, <3>1, GreatestExists
    <3> QED
      BY <3>2
  <2>2. best \in ways
    <3>1. top \in SUBSET Nat /\ top # {}
      BY <2>1 DEF PtWays
    <3>2. best \in top
      BY <3>1, MinIsMember
    <3> QED
      BY <3>2
  <2>3. best \in PtWays /\ g \in Nat /\ g >= PfThreshold
    BY <1>2, <2>2
  <2>4. n # 0
    <3>1. SUFFICES ASSUME n = 0 PROVE FALSE
      OBVIOUS
    <3>2. g = 0
      BY <3>1 DEF Confidence, PathConf, LocalConf
    <3> HIDE DEF g
    <3> QED
      BY <1>3, <2>3, <3>2
  <2>5. s \in PtSets /\ n \in Nat \ {0} /\ PtWay \in Nat /\ PtWays = 0 .. PtWay - 1
    <3>1. s \in PtSets /\ PtWay \in Nat /\ PtWays = 0 .. PtWay - 1
      BY PatternTableAssumption DEF SppIInv, WalkOK, PtWays
    <3>2. n \in 0 .. CSigMax
      BY <3>1 DEF SppIInv, PtIInv, PtTypeOK
    <3> QED
      BY <2>4, <3>1, <3>2
  <2>6. /\ Shares(conf, ptCDelta[s], PtWay, n, path.conf)
        /\ 100 * g <= path.conf * Retained
    BY <1>3, <2>3, <2>4, ConfidenceShares DEF QueueFits
  <2>7. Competing(ways, best, conf, PfThreshold, PtWay)
    <3>1. conf \in [0 .. PtWay - 1 -> Nat] /\ \A w \in ways : conf[w] = Confidence(w)
      BY <1>2, <2>5
    <3>2. ways \subseteq 0 .. PtWay - 1 /\ \A w \in ways : conf[w] >= PfThreshold
      BY <2>5, <3>1
    <3> HIDE DEF conf, ways, best
    <3> QED
      BY <2>2, <3>1, <3>2 DEF Competing
  <2>8. conf[best] = g
    BY <2>3, <2>5
  <2>9. AddUpTo(ptCDelta[s], PtWay, n)
    BY <2>5 DEF SharesSig
  <2>13. path.conf \in Nat /\ PfThreshold \in Nat
    BY <1>3
  <2> HIDE DEF s, n, ways, top, best, g, conf
  <2>10. k \in Nat \ {0} /\ g + (k - 1) * PfThreshold <= path.conf
    BY <2>5, <2>6, <2>7, <2>8, <2>9, <2>13, BestLeft
  <2> HIDE DEF k
  <2>11. g <= path.conf
    <3>1. (k - 1) * PfThreshold \in Nat
      BY <2>10, <2>13
    <3> QED
      BY <2>3, <2>10, <2>13, <3>1
  <2>12. g \in PfThreshold .. 100 /\ g \in 0 .. 100
    BY <1>3, <2>3, <2>11
  <2>14. k + b[g] <= b[path.conf] /\ b[g] \in Nat
    BY <1>3, <2>6, <2>10, <2>12 DEF Budget
  <2>15. tail = queue.tail + k /\ tail \in Nat /\ written = tail
    BY <1>3, <1>6, <2>10 DEF k
  <2>16. tail + b[g] <= b[100] /\ tail <= b[100]
    BY <1>3, <2>10, <2>14, <2>15
  <2>17. path'.conf = g /\ path'.deep = TRUE
    BY <1>1, <1>6
  <2>18. slots \in {queue.slots, tail}
    <3>1. \E x \in {queue.slots, tail} : \A y \in {queue.slots, tail} : x >= y
      BY <1>3, <2>15
    <3> HIDE DEF tail, written
    <3> QED
      BY <2>15, <3>1 DEF Max
  <2> HIDE DEF slots, tail, written
  <2> QED
    BY <1>1, <1>3, <2>12, <2>15, <2>16, <2>17, <2>18 DEF QueueFits
<1> QED
  BY <1>5, <1>6

(* An access starts with the whole budget.                                 *)
LEMMA NewQueueFits ==
  ASSUME NEW b, Budget(b)
  PROVE  /\ 100 \in PfThreshold .. 100 /\ b[100] \in Nat /\ 1 <= b[100]
         /\ 0 \in Nat /\ 1 \in Nat /\ 0 + b[100] <= b[100]
<1>1. 100 \in PfThreshold .. 100 /\ 100 \in 0 .. 100
  BY SppDevAssumption
<1>2. b[100] \in Nat /\ 1 <= b[100]
  BY <1>1 DEF Budget
<1> QED
  BY <1>1, <1>2

(***************************************************************************)
(* Each step of the hook keeps the two arrays in the budget: an access     *)
(* starts with all of it, a level of the lookahead spends what its path    *)
(* loses, the other steps write nothing.                                   *)
(***************************************************************************)
LEMMA NextQueueFits ==
  ASSUME NEW b, Budget(b)
  PROVE  SppIInv /\ SharesSig /\ accuracy <= 100 /\ QueueFits(b) /\ [SppNext]_sppVars
           => QueueFits(b)'
<1> SUFFICES ASSUME SppIInv, SharesSig, accuracy <= 100, QueueFits(b), [SppNext]_sppVars
             PROVE  QueueFits(b)'
  OBVIOUS
<1>1. ASSUME NEW page \in Pages, NEW off \in Offsets, Operate(page, off)
      PROVE  QueueFits(b)'
  <2>1. path' = [conf |-> 100, deep |-> FALSE, way |-> PtWay]
        /\ queue' = [waiting |-> <<>>, tail |-> 0, slots |-> 1]
    BY <1>1 DEF Operate, Path, Queue
  <2> QED
    BY <2>1, NewQueueFits DEF QueueFits
<1>2. CASE ReadPattern
  BY <1>2, ReadFits
<1>3. CASE TurnDown \/ PrefetchL2 \/ PrefetchLLCOrNot \/ CrossPage
  <2>1. TakeCandidate
    BY <1>3 DEF TurnDown, PrefetchL2, PrefetchLLCOrNot, CrossPage
  <2>2. path' = path /\ queue'.tail = queue.tail /\ queue'.slots = queue.slots
    BY <2>1 DEF TakeCandidate, SppIInv, WalkOK
  <2> QED
    BY <2>2 DEF QueueFits
<1>4. CASE UNCHANGED <<path, queue>>
  BY <1>4 DEF QueueFits
<1>5. \/ \E page \in Pages, off \in Offsets : Operate(page, off)
      \/ ReadPattern
      \/ TurnDown \/ PrefetchL2 \/ PrefetchLLCOrNot \/ CrossPage
      \/ UNCHANGED <<path, queue>>
  BY DEF SppNext, Hook, Advance, CacheStep, lookVars, sppVars
<1> QED
  BY <1>1, <1>2, <1>3, <1>4, <1>5

(***************************************************************************)
(* With a budget for the thresholds, the arrays are never overrun as long  *)
(* as the accuracy is a percentage.                                        *)
(***************************************************************************)
THEOREM QueueInBudget ==
  ASSUME NEW CONSTANT b, Budget(b), b[100] <= MshrSize
  PROVE  SppSpec /\ [](accuracy <= 100) => []QueueInBounds
<1>1. SppInit => QueueFits(b)
  BY NewQueueFits DEF SppInit, Path, Queue, QueueFits
<1>2. SppInit => SharesSig
  BY InitSharesSig DEF SppInit
<1>3. SppIInv /\ SharesSig /\ [SppNext]_sppVars => SharesSig'
  BY StepsOfTables, NextSharesSig DEF SppIInv, PtIInv
<1>4. SppIInv /\ SharesSig /\ accuracy <= 100 /\ QueueFits(b) /\ [SppNext]_sppVars
        => QueueFits(b)'
  BY NextQueueFits
<1>5. QueueFits(b) => QueueInBounds
  <2> SUFFICES ASSUME QueueFits(b) PROVE queue.slots <= MshrSize
    BY DEF QueueInBounds
  <2>1. queue.slots \in Nat /\ queue.slots <= b[100]
    BY DEF QueueFits
  <2>2. b[100] \in Nat /\ MshrSize \in Nat
    BY SppDevAssumption DEF Budget
  <2> QED
    BY <2>1, <2>2
<1> QED
  BY <1>1, <1>2, <1>3, <1>4, <1>5, SppInvariance, PTL DEF SppSpec

(* What a path of a confidence can still write, for the thresholds the     *)
(* prefetchers are built with.                                             *)
Slots ==
  [f \in 0 .. 100 |-> IF f <= 20 THEN 1
                      ELSE IF f <= 25 THEN f - 19
                      ELSE IF f <= 50 THEN (f - 25) \div 2 + 6
                      ELSE IF f <= 75 THEN (f - 52) \div 3 + 19
                      ELSE (f - 77) \div 4 + 27]

LEMMA SlotsBudget ==
  ASSUME PfThreshold >= 20, CSigMax <= 31
  PROVE  Budget(Slots)
<1>1. PfThreshold \in 20 .. 100
  BY SppDevAssumption
<1>2. Retained \in Int /\ Retained <= 96
  <2>1. CSigMax \in Nat \ {0}
    BY PatternTableAssumption
  <2> QED
    BY <2>1 DEF Retained
<1>3. Slots \in [0 .. 100 -> Nat] /\ \A f \in 0 .. 100 : 1 <= Slots[f]
  BY DEF Slots
<1>4. ASSUME NEW f \in PfThreshold .. 100, NEW g \in PfThreshold .. 100, NEW k \in Nat \ {0},
             g + (k - 1) * PfThreshold <= f, 100 * g <= f * Retained
      PROVE  k + Slots[g] <= Slots[f]
  <2>1. f \in 20 .. 100 /\ g \in 20 .. 100
    BY <1>1
  <2>2. g + (k - 1) * 20 <= f
    <3>1. (k - 1) * 20 <= (k - 1) * PfThreshold
      BY <1>1
    <3>2. (k - 1) * PfThreshold \in Int
      BY <1>1
    <3> QED
      BY <1>4, <2>1, <3>1, <3>2
  <2>3. 100 * g <= 96 * f
    <3>1. f * Retained <= 96 * f
      BY <1>2, <2>1
    <3>2. f * Retained \in Int
      BY <1>2, <2>1
    <3> QED
      BY <1>4, <2>1, <3>1, <3>2
  <2>4. k \in 1 .. 5
    BY <2>1, <2>2
  <2> QED
    BY <2>1, <2>2, <2>3, <2>4 DEF Slots
<1>5. \A f \in PfThreshold .. 100 : 1 <= Slots[f]
  BY <1>1, <1>3
<1>6. \A f, g \in PfThreshold .. 100, k \in Nat \ {0} :
        g + (k - 1) * PfThreshold <= f /\ 100 * g <= f * Retained => k + Slots[g] <= Slots[f]
  BY <1>4, Zenon
<1> QED
  BY <1>3, <1>5, <1>6, Zenon DEF Budget

THEOREM QueueAlwaysInBounds ==
  ASSUME PfThreshold >= 20, CSigMax <= 31, MshrSize >= 32
  PROVE  SppSpec /\ [](accuracy <= 100) => []QueueInBounds
<1>1. Slots[100] = 32
  BY DEF Slots
<1> QED
  BY <1>1, SlotsBudget, QueueInBudget
=============================================================================
