--------------------------- MODULE SignatureTable ---------------------------
(***************************************************************************)
(* SIGNATURE_TABLE of the SPP prefetchers (prefetcher/spp_dev and its      *)
(* copies): a set-associative table that keeps, for each page, the last    *)
(* offset accessed and a signature of the deltas seen, with true LRU       *)
(* replacement by counters.                                                *)
(*                                                                         *)
(* The hashes of the code are parameters: which set a page maps to, and    *)
(* the partial tag kept of it.                                             *)
(***************************************************************************)
EXTENDS SppParams, FiniteSetsExt

CONSTANTS
  StWay,          \* ST_WAY
  StSets,         \* the sets, 0 .. ST_SET - 1
  Tags,           \* what ST_TAG_MASK leaves of a page number
  StSetOf, TagOf  \* get_hash(page) % ST_SET and page & ST_TAG_MASK

StWays == 0 .. StWay - 1

ASSUME SignatureTableAssumption ==
  /\ StWay \in Nat \ {0}
  /\ StSetOf \in [Pages -> StSets]
  /\ TagOf \in [Pages -> Tags] /\ 0 \in Tags

VARIABLES
  stValid, stTag, stOffset, stSig, stLru,  \* valid, tag, last_offset, sig, lru
  stAborted                                \* one of the assertions has failed

stVars == <<stValid, stTag, stOffset, stSig, stLru, stAborted>>

Table(x) == [s \in StSets |-> [w \in StWays |-> x]]

StInit ==
  /\ stValid = Table(FALSE)
  /\ stTag = Table(0)
  /\ stOffset = Table(0)
  /\ stSig = Table(0)
  /\ stLru = [s \in StSets |-> [w \in StWays |-> w]]
  /\ stAborted = FALSE
-----------------------------------------------------------------------------
(* Mutant of StHitWays: the search starts at way 1.                          *)
StHitWaysFromOne(p) ==
  LET s == StSetOf[p]
  IN  {w \in StWays \ {0} : stValid[s][w] /\ stTag[s][w] = TagOf[p]}

StHitWays(p) ==
  LET s == StSetOf[p]
  IN  {w \in StWays : stValid[s][w] /\ stTag[s][w] = TagOf[p]}

StFreeWays(p) == {w \in StWays : ~stValid[StSetOf[p]][w]}

StOldestWays(p) == {w \in StWays : stLru[StSetOf[p]][w] = StWay - 1}

(***************************************************************************)
(* What the caller gets back.  On a hit of the same block delta and        *)
(* last_sig are zero, and so is curr_sig, the caller's initial value.  On  *)
(* a miss `boot' is the signature the global history register supplies,    *)
(* or 0 when it has none.                                                  *)
(***************************************************************************)
DeltaOf(p, off) ==
  IF StHitWays(p) = {} THEN 0 ELSE off - stOffset[StSetOf[p]][Min(StHitWays(p))]

(* Mutant of LastSig: a hit of the same block does not clear it.           *)
LastSigKept(p, off) ==
  IF StHitWays(p) = {} THEN 0 ELSE stSig[StSetOf[p]][Min(StHitWays(p))]

LastSig(p, off) ==
  IF DeltaOf(p, off) = 0 THEN 0 ELSE stSig[StSetOf[p]][Min(StHitWays(p))]

CurrSig(p, off, boot) ==
  CASE StHitWays(p) = {} -> boot
    [] DeltaOf(p, off) # 0 -> NextSig(LastSig(p, off), DeltaOf(p, off))
    [] OTHER -> 0

(***************************************************************************)
(* `Update LRU': the ways younger than the touched one age by one.         *)
(* (Mutant: the touched way goes to the LRU end.)                          *)
(***************************************************************************)
AgedToBack(lru, m) ==
  [w \in StWays |-> CASE w = m -> StWay - 1
                      [] w # m /\ lru[w] > lru[m] -> lru[w] - 1
                      [] OTHER -> lru[w]]

Aged(lru, m) ==
  [w \in StWays |-> IF w = m THEN 0
                    ELSE IF lru[w] < lru[m] THEN lru[w] + 1
                    ELSE lru[w]]

Promote(s, m) == stLru' = [stLru EXCEPT ![s] = Aged(@, m)]

(* Case 1: the page has an entry.                                          *)
StHit(p, off) ==
  LET s == StSetOf[p]
      m == Min(StHitWays(p))
  IN  /\ StHitWays(p) # {}
      /\ IF DeltaOf(p, off) # 0
         THEN /\ stSig' = [stSig EXCEPT ![s][m] = CurrSig(p, off, 0)]
              /\ stOffset' = [stOffset EXCEPT ![s][m] = off]
         ELSE UNCHANGED <<stSig, stOffset>>
      /\ Promote(s, m)
      /\ UNCHANGED <<stValid, stTag, stAborted>>

(* Cases 2 and 3: a free way, else the one of age ST_WAY - 1.              *)
InsertInto(p, off, boot, m) ==
  LET s == StSetOf[p]
  IN  /\ stValid' = [stValid EXCEPT ![s][m] = TRUE]
      /\ stTag' = [stTag EXCEPT ![s][m] = TagOf[p]]
      /\ stSig' = [stSig EXCEPT ![s][m] = boot]
      /\ stOffset' = [stOffset EXCEPT ![s][m] = off]
      /\ Promote(s, m)
      /\ UNCHANGED stAborted

InsertFree(p, off, boot) ==
  /\ StHitWays(p) = {} /\ StFreeWays(p) # {}
  /\ InsertInto(p, off, boot, Min(StFreeWays(p)))

(* Without such a way: `Cannot find a replacement victim!'                 *)
InsertOldest(p, off, boot) ==
  /\ StHitWays(p) = {} /\ StFreeWays(p) = {}
  /\ IF StOldestWays(p) # {}
     THEN InsertInto(p, off, boot, Min(StOldestWays(p)))
     ELSE stAborted' = TRUE /\ UNCHANGED <<stValid, stTag, stOffset, stSig, stLru>>

ReadAndUpdateSig(p, off, boot) ==
  /\ ~stAborted
  /\ \/ StHit(p, off)
     \/ InsertFree(p, off, boot)
     \/ InsertOldest(p, off, boot)

StNext == \E p \in Pages, off \in Offsets, boot \in Sigs : ReadAndUpdateSig(p, off, boot)

StSpec == StInit /\ [][StNext]_stVars
-----------------------------------------------------------------------------
StTypeOK ==
  /\ stValid \in [StSets -> [StWays -> BOOLEAN]]
  /\ stTag \in [StSets -> [StWays -> Tags]]
  /\ stOffset \in [StSets -> [StWays -> Offsets]]
  /\ stSig \in [StSets -> [StWays -> Sigs]]
  /\ stLru \in [StSets -> [StWays -> StWays]]
  /\ stAborted \in BOOLEAN

(* The counters of a set are a permutation of 0 .. ST_WAY - 1.             *)
LruPermutation ==
  \A s \in StSets :
    /\ \A k \in StWays : \E w \in StWays : stLru[s][w] = k
    /\ \A v, w \in StWays : stLru[s][v] = stLru[s][w] => v = w

(***************************************************************************)
(* A replacement victim is always found: the assertion `Cannot find a      *)
(* replacement victim!' never fails, in whatever order pages come.         *)
(***************************************************************************)
StNeverAborts == ~stAborted

(* A page never has two entries: one would train and the other be read.    *)
UniqueTags ==
  \A s \in StSets : \A v, w \in StWays :
    /\ stValid[s][v] /\ stValid[s][w] /\ stTag[s][v] = stTag[s][w]
    => v = w

(***************************************************************************)
(* The valid ways are the youngest ones of their set, so a miss in a set   *)
(* with free ways never throws away a page more recent than a free way.    *)
(***************************************************************************)
ValidYounger ==
  \A s \in StSets : \A v, w \in StWays :
    stValid[s][v] /\ ~stValid[s][w] => stLru[s][v] < stLru[s][w]

StIInv == StTypeOK /\ LruPermutation /\ StNeverAborts /\ UniqueTags /\ ValidYounger
=============================================================================
