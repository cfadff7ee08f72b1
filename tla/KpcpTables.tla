----------------------------- MODULE KpcpTables -----------------------------
(***************************************************************************)
(* The two tables of KPCP (inc/kpcp.h): one set of pages, each with its    *)
(* signature and the bitmaps of the lines prefetched into the L2 and used, *)
(* and the pattern table of the deltas that followed a signature.  The     *)
(* page history L2_GHR is compiled out.                                    *)
(***************************************************************************)
EXTENDS Integers, FiniteSetsExt

CONSTANTS
  KpcpPages,
  KpcpTag,         \* the partial tag of each page, `curr_page & 0xFFFF'
  KpcpBlocks,      \* blocks of a page
  KpcpStWay, KpcpPtWay, KpcpPtPrime,  \* L2_ST_WAY, L2_PT_WAY, L2_PT_PRIME
  KpcpSigs,        \* signatures, 0 .. SIG_MASK
  SigHash(_, _),   \* shift and exclusive or with a delta, under SIG_MASK
  SigMask(_),      \* & SIG_MASK
  CMax             \* CSIG_MAX and CDELTA_MAX

ASSUME KpcpTablesAssumption ==
  /\ KpcpTag \in [KpcpPages -> Nat]
  /\ KpcpBlocks \in Nat \ {0} /\ KpcpStWay \in Nat \ {0} /\ KpcpPtWay \in Nat \ {0}
  /\ KpcpPtPrime \in Nat \ {0}
  /\ KpcpSigs \subseteq Nat /\ 0 .. 2 * KpcpBlocks - 1 \subseteq KpcpSigs
  /\ \A delta \in 0 .. 2 * KpcpBlocks - 1 :
       /\ SigMask(delta) \in KpcpSigs
       /\ \A sig \in KpcpSigs : SigHash(sig, delta) \in KpcpSigs
  /\ CMax \in Nat /\ \E h \in 1 .. CMax : CMax = 2 * h

StWaysOfKpcp == 0 .. KpcpStWay - 1
PtWaysOfKpcp == 0 .. KpcpPtWay - 1
Indices == 0 .. KpcpPtPrime - 1

VARIABLES
  pageTag, lastBlock, pageSig, firstHit, pageLru,
             \* L2_ST: tag, last_block, signature, first_hit and lru
  l2Pf, used,  \* L2_ST: the blocks set in the bitmaps l2_pf and used
  patterns   \* L2_PT: c_sig of way 0, and delta and c_delta of the ways

bitmaps == <<l2Pf, used>>
pageVars == <<pageTag, lastBlock, pageSig, firstHit, pageLru, bitmaps>>

NoTag == -1

TablesInit ==
  /\ pageTag = [w \in StWaysOfKpcp |-> NoTag]
  /\ lastBlock = [w \in StWaysOfKpcp |-> 0]
  /\ pageSig = [w \in StWaysOfKpcp |-> 0]
  /\ firstHit = [w \in StWaysOfKpcp |-> FALSE]
  /\ pageLru = [w \in StWaysOfKpcp |-> w]
  /\ l2Pf = [w \in StWaysOfKpcp |-> {}]
  /\ used = [w \in StWaysOfKpcp |-> {}]
  /\ patterns = [i \in Indices |->
                   [csig |-> 0, ways |-> [w \in PtWaysOfKpcp |-> [delta |-> 0, c |-> 0]]]]
-----------------------------------------------------------------------------
SigDelta(delta) == IF delta < 0 THEN KpcpBlocks - delta ELSE delta

(* get_new_signature.                                                      *)
NewSignature(old, delta) ==
  LET hash == SigHash(old, SigDelta(delta))
  IN  IF delta = 0 THEN old ELSE IF hash # 0 THEN hash ELSE SigDelta(delta)

IndexOf(sig) == sig % KpcpPtPrime

(* c_sig counts, and at its maximum all counters are halved.               *)
CountedOnce(p) ==
  IF p.csig + 1 < CMax THEN [csig |-> p.csig + 1, ways |-> p.ways]
  ELSE [csig |-> CMax \div 2,
        ways |-> [w \in PtWaysOfKpcp |->
                    [delta |-> p.ways[w].delta, c |-> p.ways[w].c \div 2]]]

HitWays(p, delta) == {w \in PtWaysOfKpcp : p.ways[w].delta = delta}

(* The ways that may take a delta that no way has: unused ones, or else    *)
(* those of the lowest counter below CDELTA_MAX.                           *)
Replaceable(p) ==
  LET lowest == {w \in PtWaysOfKpcp :
                   p.ways[w].c < CMax /\ \A v \in PtWaysOfKpcp : p.ways[w].c <= p.ways[v].c}
  IN  IF HitWays(p, 0) # {} THEN HitWays(p, 0) ELSE lowest

WaysFor(p, delta) ==
  IF HitWays(p, delta) # {} THEN HitWays(p, delta) ELSE Replaceable(p)

(* L2_PT_update of the set of a signature.                                 *)
SetUpdated(p, delta) ==
  LET way == Min(WaysFor(p, delta))
      c == IF HitWays(p, delta) # {} THEN p.ways[way].c + 1 ELSE 0
  IN  [csig |-> p.csig, ways |-> [p.ways EXCEPT ![way] = [delta |-> delta, c |-> c]]]

PatternUpdated(sig, delta) ==
  [patterns EXCEPT ![IndexOf(sig)] = SetUpdated(CountedOnce(@), delta)]

(***************************************************************************)
(* The ways of a page, as L2_ST_check finds them, and the way L2_ST_update *)
(* takes: that of the page, an unused one or the least recent.             *)
(***************************************************************************)
Matching(page) == {w \in StWaysOfKpcp : pageTag[w] = KpcpTag[page]}

Takeable(page) ==
  LET free == {w \in StWaysOfKpcp : pageTag[w] = NoTag}
  IN  IF Matching(page) # {} THEN Matching(page)
      ELSE IF free # {} THEN free
      ELSE {w \in StWaysOfKpcp : pageLru[w] = KpcpStWay - 1}

(* (Mutant: only the entry used moves.)                                    *)
LruUsedAlone(lru, way) == [lru EXCEPT ![way] = 0]

LruUpdated(lru, way) ==
  [w \in StWaysOfKpcp |->
     IF w = way THEN 0
     ELSE IF lru[w] < lru[way] THEN lru[w] + 1
     ELSE lru[w]]

(* The signature L2_ST_update leaves: the first hit of a page makes it,    *)
(* and only later ones hash it.                                            *)
SigUpdated(page, block, way) ==
  LET delta == block - lastBlock[way]
  IN  IF Matching(page) = {} THEN 0
      ELSE IF pageSig[way] = 0 THEN SigMask(SigDelta(delta))
      ELSE NewSignature(pageSig[way], delta)

FirstHit(page, way) == Matching(page) # {} /\ pageSig[way] = 0

(* The blocks still marked: a page that takes over an entry starts anew.   *)
Kept(page, way, bitmap) ==
  IF Matching(page) = {} /\ pageTag[way] # NoTag THEN {} ELSE bitmap[way]

(* L2_ST_update, and the mark of the block as used.                        *)
UpdatePage(page, block, way) ==
  /\ pageTag' = [pageTag EXCEPT ![way] = KpcpTag[page]]
  /\ lastBlock' = [lastBlock EXCEPT ![way] = block]
  /\ pageSig' = [pageSig EXCEPT ![way] = SigUpdated(page, block, way)]
  /\ firstHit' = [firstHit EXCEPT ![way] = FirstHit(page, way)]
  /\ pageLru' = LruUpdated(pageLru, way)
  /\ l2Pf' = [l2Pf EXCEPT ![way] = Kept(page, way, l2Pf)]
  /\ used' = [used EXCEPT ![way] = Kept(page, way, used) \union {block}]

(* Whether L2_ST_update trains the pattern table: the first delta of a     *)
(* page and a repeated block do not.                                       *)
Trains(page, block, way) ==
  /\ Matching(page) # {}
  /\ pageSig[way] # 0
  /\ block # lastBlock[way]
-----------------------------------------------------------------------------
TablesTypeOK ==
  /\ {pageLru[w] : w \in StWaysOfKpcp} = StWaysOfKpcp
  /\ \A i \in Indices :
       LET p == patterns[i] IN p.csig < CMax /\ \A w \in PtWaysOfKpcp : p.ways[w].c <= p.csig
=============================================================================
