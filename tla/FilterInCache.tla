--------------------------- MODULE FilterInCache ---------------------------
(***************************************************************************)
(* The prefetch filter beside the cache it serves.  The cache itself is    *)
(* outside this repository: it is modelled from the hooks it calls.        *)
(* prefetcher_cache_operate runs at each demand access, prefetch_line puts *)
(* a request in a prefetch queue that may be full, and                     *)
(* prefetcher_cache_fill runs at each fill, with the address found in the  *)
(* way that is filled (0 when nothing was ever there).                     *)
(***************************************************************************)
EXTENDS PrefetchFilter

CONSTANTS
  NoLine,    \* the line of address 0, which the program does not use
  Capacity,  \* ways of the cache
  Accepts    \* what prefetch_line may return

ASSUME FilterInCacheAssumption ==
  NoLine \in Lines /\ Capacity \in Nat \ {0} /\ Accepts \subseteq BOOLEAN

VARIABLES
  cached,    \* lines in the cache
  inflight   \* lines requested and not filled yet: prefetch queue and MSHR

cacheVars == <<cached, inflight>>
vars == <<filterVars, cacheVars>>

CacheInit == FilterInit /\ cached = {} /\ inflight = {}

(* A demand access; a miss requests the line.                              *)
Access(line) ==
  /\ Demand(line)
  /\ inflight' = IF line \in cached THEN inflight ELSE inflight \union {line}
  /\ UNCHANGED cached

(***************************************************************************)
(* A prefetch into this cache: the filter entry and the counters are       *)
(* updated whether or not prefetch_line took the request.                  *)
(***************************************************************************)
Prefetch(line) ==
  /\ IssueL2(line)
  /\ \E accepted \in Accepts :
       inflight' = IF accepted THEN inflight \union {line} ELSE inflight
  /\ UNCHANGED cached

(* A prefetch of a line that is already there needs no fill.               *)
Drop(line) ==
  /\ line \in inflight \cap cached
  /\ inflight' = inflight \ {line}
  /\ UNCHANGED <<filterVars, cached>>

(* A fill: into an empty way if there is one, else over some line.         *)
Fill(line) ==
  /\ line \in inflight \ cached
  /\ inflight' = inflight \ {line}
  /\ \/ /\ Cardinality(cached) < Capacity
        /\ Evict(NoLine)
        /\ cached' = cached \union {line}
     \/ /\ Cardinality(cached) = Capacity
        /\ \E victim \in cached :
             /\ Evict(victim)
             /\ cached' = (cached \ {victim}) \union {line}

CacheNext ==
  \E line \in Lines \ {NoLine} : Access(line) \/ Prefetch(line) \/ Drop(line) \/ Fill(line)

CacheSpec == CacheInit /\ [][CacheNext]_vars
-----------------------------------------------------------------------------
(***************************************************************************)
(* `valid: consider this as "prefetched"': a valid entry stands for a line *)
(* that is in the cache or on its way.  Otherwise the filter refuses to    *)
(* prefetch a line that is not there.                                      *)
(***************************************************************************)
ValidMeansPrefetched ==
  \A q \in Quotients :
    fValid[q] => \E line \in cached \union inflight :
                   QuotientOf[line] = q /\ RemainderOf[line] = fTag[q]
=============================================================================
