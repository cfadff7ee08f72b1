-------------------------------- MODULE Kpcp --------------------------------
(***************************************************************************)
(* The KPCP prefetcher (prefetcher/kpcp): a variant of SPP that keeps what *)
(* it prefetched and what was used in bitmaps of its page table.  The hook *)
(* trains the tables and collects the candidates of the signature, follows *)
(* the most confident path (KpcpLookahead, a turn of the loop), and asks   *)
(* for the candidates (KpcpRequest).  Between these steps nothing else     *)
(* runs.                                                                   *)
(*                                                                         *)
(* Candidates wait in pf_buffer in the order of their keys: the ways the   *)
(* signature gave, then those of the turns.                                *)
(*                                                                         *)
(* The statistics of depth and delta are left out.  The cache is outside:  *)
(* a line is resident from its request to its eviction.                    *)
(***************************************************************************)
EXTENDS KpcpTables

CONSTANTS
  KpcpMshrSize,        \* L2C_MSHR_SIZE, the length of pf_buffer
  KpcpPfThreshold,     \* PF_THRESHOLD
  KpcpFillThreshold,   \* FILL_THRESHOLD
  KpcpCounterMax,      \* GC_MAX
  KpcpConfCap          \* the 99 that MAX_CONF is kept to

ASSUME KpcpAssumption ==
  /\ 0 \notin KpcpPages
  /\ KpcpMshrSize \in Nat /\ KpcpMshrSize >= KpcpPtWay
  /\ KpcpPfThreshold \in 1 .. 100 /\ KpcpFillThreshold \in KpcpPfThreshold .. 100
  /\ KpcpCounterMax \in Nat
  /\ KpcpConfCap \in 0 .. 99

VARIABLES
  stage,     \* where the hook is; "idle" when it is not running
  access,    \* the page, entry and block of its access, and MAX_CONF
  walk,      \* signature, curr_conf, curr_delta and last_delta
  buffer,    \* pf_buffer
  issued, useful,  \* spp_pf_issued and spp_pf_useful
  resident,  \* lines in the cache or on their way to it
  failed     \* whether an assertion failed or a victim was not found

hookVars == <<stage, access, walk, buffer>>
countVars == <<issued, useful>>
kpcpVars == <<pageVars, patterns, hookVars, countVars, resident, failed>>

WalkFrom(sig) == [sig |-> sig, conf |-> 0, delta |-> 0, last |-> 0]

KpcpInit ==
  /\ TablesInit
  /\ stage = "idle" /\ walk = WalkFrom(0) /\ buffer = <<>>
  /\ access = [page |-> 0, way |-> 0, block |-> 0, cap |-> 0]
  /\ issued = 0 /\ useful = 0 /\ resident = {} /\ failed = FALSE
-----------------------------------------------------------------------------
(* check_same_page.                                                        *)
SamePage(block, delta) == block + delta \in 0 .. KpcpBlocks - 1

(* The first of the ways whose counter is the highest.                     *)
Strongest(p, ways) ==
  Min({w \in ways : \A v \in ways : p.ways[v].c <= p.ways[w].c})

StageAfter(conf, waiting) ==
  IF conf >= KpcpPfThreshold THEN "lookahead"
  ELSE IF waiting # {} THEN "request" ELSE "idle"

(* The ways that a signature is confident enough of.                       *)
FirstConf(p, w) == (100 * p.ways[w].c) \div p.csig

FirstWays(p) ==
  IF p.csig = 0 THEN {} ELSE {w \in PtWaysOfKpcp : FirstConf(p, w) >= KpcpPfThreshold}

(* Those off the page are no candidates; the most confident delta is       *)
(* followed wherever it leads.                                             *)
FirstCandidates(p, ways, block) ==
  [w \in {v \in ways : SamePage(block, p.ways[v].delta)} |->
     [delta |-> p.ways[w].delta, conf |-> FirstConf(p, w)]]

FirstWalk(p, ways, sig) ==
  LET best == Strongest(p, ways)
  IN  IF ways = {} THEN WalkFrom(sig)
      ELSE [sig |-> sig, conf |-> FirstConf(p, best), delta |-> p.ways[best].delta, last |-> 0]

(* MAX_CONF, from the counters.  (Mutant: it is not kept to its cap.)      *)
MaxConfUncapped(hits) == IF issued = 0 THEN KpcpConfCap ELSE (100 * hits) \div issued

MaxConf(hits) ==
  LET percent == (100 * hits) \div issued
  IN  IF issued = 0 \/ percent >= KpcpConfCap THEN KpcpConfCap ELSE percent

(***************************************************************************)
(* prefetcher_operate up to the lookahead.  A line prefetched and not used *)
(* before counts as useful, and is used from now on.  Where no entry or no *)
(* way can be taken, or a candidate has delta 0, the code aborts or writes *)
(* outside its tables.                                                     *)
(***************************************************************************)
KpcpAccess(page, block) ==
  LET way == Min(Takeable(page))
      sig == SigUpdated(page, block, way)
      delta == block - lastBlock[way]
      trains == Trains(page, block, way)
      trained == IF trains THEN PatternUpdated(pageSig[way], delta) ELSE patterns
      p == trained[IndexOf(sig)]
      ways == IF sig # 0 /\ ~FirstHit(page, way) THEN FirstWays(p) ELSE {}
      first == FirstCandidates(p, ways, block)
      hits == IF block \in Kept(page, way, l2Pf) \ Kept(page, way, used)
              THEN useful + 1 ELSE useful
  IN  /\ stage = "idle" /\ ~failed
      /\ IF \/ Takeable(page) = {}
            \/ trains /\ WaysFor(CountedOnce(patterns[IndexOf(pageSig[way])]), delta) = {}
         THEN /\ failed' = TRUE
              /\ UNCHANGED <<pageVars, patterns, hookVars, useful, resident>>
         ELSE /\ patterns' = trained
              /\ UpdatePage(page, block, way)
              /\ useful' = hits
              /\ access' = [page |-> page, way |-> way, block |-> block, cap |-> MaxConf(hits)]
              /\ walk' = FirstWalk(p, ways, sig)
              /\ buffer' = first
              /\ stage' = StageAfter(FirstWalk(p, ways, sig).conf, DOMAIN first)
              /\ failed' = \E w \in DOMAIN first : first[w].delta = 0
              /\ resident' = resident \union {<<page, block>>}
      /\ UNCHANGED issued

(***************************************************************************)
(* A turn of the lookahead: the path goes on along the strongest of the    *)
(* deltas whose confidence, with that of the path before, is high enough.  *)
(* Its sum is a candidate if it is on the page and not the access itself.  *)
(***************************************************************************)
PathConfidence(p, w) == (((walk.conf * p.ways[w].c) \div p.csig) * access.cap) \div 100

PathWays(p) ==
  IF p.csig = 0 THEN {} ELSE {w \in PtWaysOfKpcp : PathConfidence(p, w) >= KpcpPfThreshold}

Appended(candidate) ==
  LET key == Max(DOMAIN buffer \union {KpcpPtWay - 1}) + 1
  IN  [k \in DOMAIN buffer \union {key} |-> IF k = key THEN candidate ELSE buffer[k]]

KpcpLookahead ==
  LET sig == NewSignature(walk.sig, walk.delta - walk.last)
      p == patterns[IndexOf(sig)]
      ways == PathWays(p)
      best == Strongest(p, ways)
      total == walk.delta + p.ways[best].delta
      ends == ways = {} \/ Cardinality(DOMAIN buffer) >= KpcpMshrSize
  IN  /\ stage = "lookahead"
      /\ walk' = [sig |-> sig, conf |-> IF ends THEN 0 ELSE PathConfidence(p, best),
                  delta |-> IF ends THEN 0 ELSE total, last |-> walk.delta]
      /\ buffer' = IF ~ends /\ SamePage(access.block, total) /\ total # 0
                   THEN Appended([delta |-> total, conf |-> PathConfidence(p, best)])
                   ELSE buffer
      /\ stage' = StageAfter(walk'.conf, DOMAIN buffer')
      /\ UNCHANGED <<pageVars, patterns, access, countVars, resident, failed>>

(* GC_MAX.                                                                 *)
Halved == issued + 1 > KpcpCounterMax

(***************************************************************************)
(* A request for the next candidate.  It is filtered if its line is marked *)
(* in the bitmaps.  One for the L2 that the cache takes is marked and      *)
(* counts as issued; one for the LLC leaves no trace here.                 *)
(* (Mutant: the line is marked whatever the cache says.)                   *)
(***************************************************************************)
TakenAnyway(line) ==
  /\ l2Pf' = [l2Pf EXCEPT ![access.way] = @ \union {line[2]}]
  /\ issued' = IF Halved THEN (issued + 1) \div 2 ELSE issued + 1
  /\ useful' = IF Halved THEN useful \div 2 ELSE useful
  /\ resident' \in {resident, resident \union {line}}

Taken(line) ==
  /\ l2Pf' = [l2Pf EXCEPT ![access.way] = @ \union {line[2]}]
  /\ issued' = IF Halved THEN (issued + 1) \div 2 ELSE issued + 1
  /\ useful' = IF Halved THEN useful \div 2 ELSE useful
  /\ resident' = resident \union {line}

KpcpRequest ==
  LET key == Min(DOMAIN buffer)
      block == access.block + buffer[key].delta
      marked == block \in l2Pf[access.way] \union used[access.way]
  IN  /\ stage = "request"
      /\ \/ /\ ~marked /\ buffer[key].conf >= KpcpFillThreshold
            /\ Taken(<<access.page, block>>)
         \/ UNCHANGED <<l2Pf, countVars, resident>>
      /\ buffer' = [k \in DOMAIN buffer \ {key} |-> buffer[k]]
      /\ stage' = StageAfter(0, DOMAIN buffer')
      /\ UNCHANGED <<pageTag, lastBlock, pageSig, firstHit, pageLru, used>>
      /\ UNCHANGED <<patterns, access, walk, failed>>

(* prefetcher_cache_fill: a line that leaves the cache loses its marks.    *)
(* An evicted line 0 is no line (evicted_cl); no page is page 0, as memory *)
(* begins with space that is reserved (VMEM_RESERVE_CAPACITY of vmem.h).   *)
Unmarked(page, block, bitmap) ==
  [w \in StWaysOfKpcp |-> IF w \in Matching(page) THEN bitmap[w] \ {block} ELSE bitmap[w]]

KpcpEvict(page, block) ==
  /\ stage = "idle"
  /\ <<page, block>> \in resident
  /\ resident' = resident \ {<<page, block>>}
  /\ l2Pf' = Unmarked(page, block, l2Pf)
  /\ used' = Unmarked(page, block, used)
  /\ UNCHANGED <<pageTag, lastBlock, pageSig, firstHit, pageLru>>
  /\ UNCHANGED <<patterns, hookVars, countVars, failed>>

KpcpNext ==
  \/ \E page \in KpcpPages, block \in 0 .. KpcpBlocks - 1 :
       KpcpAccess(page, block) \/ KpcpEvict(page, block)
  \/ KpcpLookahead
  \/ KpcpRequest

KpcpSpec == KpcpInit /\ [][KpcpNext]_kpcpVars
-----------------------------------------------------------------------------
KpcpTypeOK ==
  /\ TablesTypeOK
  /\ Cardinality(DOMAIN buffer) <= KpcpMshrSize
  /\ issued \in 0 .. KpcpCounterMax

(***************************************************************************)
(* No access finds the page table without an entry to take or the pattern  *)
(* table without a way, and no candidate is the access itself: `WE SHOULD  *)
(* NOT REACH HERE' is not reached.                                         *)
(***************************************************************************)
KpcpNeverAborts == ~failed

(* A turn of the lookahead lowers the confidence of the path.              *)
Fades == stage = "lookahead" => walk'.conf < walk.conf

(***************************************************************************)
(* Each turn of the lookahead lowers the confidence of the path, which is  *)
(* what ends the loop: a delta may have all the counts of its signature,   *)
(* and only the cap of MAX_CONF makes the path fade.                       *)
(***************************************************************************)
PathFades == [][Fades]_kpcpVars

(***************************************************************************)
(* A line marked as prefetched or used is in the cache or on its way, so   *)
(* that the bitmaps do not keep a line from being prefetched again,        *)
(* although requests are refused, entries are taken by other pages and     *)
(* pages share a tag.                                                      *)
(***************************************************************************)
MarksAreResident ==
  \A w \in StWaysOfKpcp : \A block \in l2Pf[w] \union used[w] :
    \E page \in KpcpPages : KpcpTag[page] = pageTag[w] /\ <<page, block>> \in resident
=============================================================================
