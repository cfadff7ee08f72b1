------------------------------- MODULE VaAmpm -------------------------------
(***************************************************************************)
(* The VA AMPM Lite prefetcher (prefetcher/va_ampm_lite): regions of one   *)
(* page each record which of its lines were accessed and prefetched, and   *)
(* an access that continues a pattern of two equally spaced accesses       *)
(* prefetches the next one, in both directions.                            *)
(*                                                                         *)
(* find_region remembers its last search in two static variables, a        *)
(* failed one too.  The regions and these two are one record, which the    *)
(* handler passes through its many searches.  lru counts allocations and   *)
(* only its order is read, so regions are kept with their rank in it.      *)
(***************************************************************************)
EXTENDS Integers, FiniteSetsExt

CONSTANTS
  AmpmLines,     \* cache lines that are accessed
  RegionCount,   \* L2C_VA_AMPM_LITE_REGION_COUNT
  MaxDistance,   \* L2C_VA_AMPM_LITE_MAX_DISTANCE
  AmpmDegree,    \* L2C_VA_AMPM_LITE_PREFETCH_DEGREE
  AmpmPageBlocks \* lines in a page

ASSUME VaAmpmAssumption ==
  /\ AmpmLines \subseteq Nat
  /\ RegionCount \in Nat \ {0} /\ AmpmPageBlocks \in Nat \ {0}
  /\ MaxDistance \in Nat /\ AmpmDegree \in Nat \ {0}

Regions == 0 .. RegionCount - 1
NoRegion == -1

VARIABLES
  ampm,     \* the regions, and the page and the result of the last search
  touched   \* history: the lines that were accessed

ampmVars == <<ampm, touched>>

AmpmInit ==
  /\ ampm = [regions |-> [r \in Regions |->
                            [vpn |-> 0, accessed |-> {}, prefetched |-> {}, rank |-> r]],
             vpn |-> 0, index |-> 0]
  /\ touched = {}
-----------------------------------------------------------------------------
Vpn(line) == line \div AmpmPageBlocks
PageOffset(line) == line % AmpmPageBlocks

Tracking(s, vpn) == {r \in Regions : s.regions[r].vpn = vpn}

(* What find_region answers: from memory, or by a search.                  *)
Result(s, vpn) ==
  IF s.vpn = vpn THEN s.index
  ELSE IF Tracking(s, vpn) = {} THEN NoRegion ELSE Min(Tracking(s, vpn))

(* It remembers its answer.  (Mutant: not that of a search that fails.)    *)
SearchedIfFound(s, vpn) ==
  IF Result(s, vpn) = NoRegion THEN s ELSE [s EXCEPT !.vpn = vpn, !.index = Result(s, vpn)]

Searched(s, vpn) == [s EXCEPT !.vpn = vpn, !.index = Result(s, vpn)]

LruRegion(s) == CHOOSE r \in Regions : s.regions[r].rank = 0

(* The region allocated longest ago, that of rank 0, becomes the latest.   *)
Allocated(s, vpn) ==
  [s EXCEPT !.regions = [r \in Regions |->
     IF r = LruRegion(s)
     THEN [vpn |-> vpn, accessed |-> {}, prefetched |-> {}, rank |-> RegionCount - 1]
     ELSE [s.regions[r] EXCEPT !.rank = @ - 1]]]

(* set_cl_access and set_cl_prefetch.                                      *)
Marked(s, line, map) ==
  LET result == Result(s, Vpn(line))
      at == Searched(s, Vpn(line))
      r == IF result = NoRegion THEN LruRegion(at) ELSE result
  IN  [IF result = NoRegion THEN Allocated(at, Vpn(line)) ELSE at
         EXCEPT !.regions[r][map] = @ \union {PageOffset(line)}]

(***************************************************************************)
(* check_cl_access and check_cl_prefetch: a test that the marks of a line  *)
(* are as wanted.  No test follows one that failed.                        *)
(***************************************************************************)
Tested(t, line, map, wanted) ==
  LET r == Result(t.s, Vpn(line))
      marked == r # NoRegion /\ PageOffset(line) \in t.s.regions[r][map]
  IN  IF t.passed THEN [s |-> Searched(t.s, Vpn(line)), passed |-> marked = wanted] ELSE t

(* Accesses at distances d and 2d, nothing yet at d on the other side.     *)
Pattern(s, line, d) ==
  LET near == Tested([s |-> s, passed |-> TRUE], line - d, "accessed", TRUE)
      far == Tested(near, line - 2 * d, "accessed", TRUE)
      new == Tested(far, line + d, "accessed", FALSE)
  IN  Tested(new, line + d, "prefetched", FALSE)

(* One turn of the loop of a direction, with the lines the cache refuses.  *)
Turn(line, refused, t, d) ==
  LET test == Pattern(t.s, line, d)
  IN  IF t.issued >= AmpmDegree THEN t
      ELSE IF test.passed /\ line + d \notin refused
           THEN [s |-> Marked(test.s, line + d, "prefetched"), issued |-> t.issued + 1]
           ELSE [t EXCEPT !.s = test.s]

Direction(s, line, refused, sign) ==
  LET turn[i \in 0 .. MaxDistance] ==
        IF i = 0 THEN [s |-> s, issued |-> 0] ELSE Turn(line, refused, turn[i - 1], sign * i)
  IN  turn[MaxDistance].s

(* l2c_prefetcher_operate.  The first access of a page only allocates.     *)
AmpmOperate(line, refused) ==
  LET s == Searched(ampm, Vpn(line))
      up == Direction(Marked(s, line, "accessed"), line, refused, 1)
  IN  /\ ampm' = IF Result(ampm, Vpn(line)) = NoRegion THEN Allocated(s, Vpn(line))
              ELSE Direction(up, line, refused, -1)
      /\ touched' = touched \union {line}

AmpmNext ==
  \E line \in AmpmLines :
    \E refused \in SUBSET {line + d : d \in (-MaxDistance .. MaxDistance) \ {0}} :
      AmpmOperate(line, refused)

AmpmSpec == AmpmInit /\ [][AmpmNext]_ampmVars
-----------------------------------------------------------------------------
AmpmTypeOK ==
  /\ ampm.index \in Regions \union {NoRegion}
  /\ \A r \in Regions : /\ ampm.regions[r].accessed \subseteq 0 .. AmpmPageBlocks - 1
                        /\ ampm.regions[r].prefetched \subseteq 0 .. AmpmPageBlocks - 1
  /\ {ampm.regions[r].rank : r \in Regions} = Regions

(***************************************************************************)
(* A line that a region marks as accessed was accessed: although regions   *)
(* are taken away from pages and the last search is answered from memory,  *)
(* no access is marked in the region of another page.                      *)
(***************************************************************************)
AccessMarksReal ==
  \A r \in Regions : \A offset \in ampm.regions[r].accessed :
    ampm.regions[r].vpn * AmpmPageBlocks + offset \in touched

(***************************************************************************)
(* `not tracking this region yet, so replace the LRU region': a page has   *)
(* one region at most.  (Page 0 stands for regions never used.)            *)
(***************************************************************************)
OneRegionPerPage ==
  \A r, q \in Regions :
    r # q /\ ampm.regions[r].vpn = ampm.regions[q].vpn => ampm.regions[r].vpn = 0
=============================================================================
