--------------------------- MODULE LruReplacement ---------------------------
(***************************************************************************)
(* The baseline LRU policy of replacement/lru/lru.cc on one set of a       *)
(* cache.                                                                  *)
(***************************************************************************)
EXTENDS ReplacementParams

VARIABLES
  valid,       \* BLOCK::valid of each way, written by the cache
  lru,         \* BLOCK::lru of each way
  used,        \* history: the ways the policy was ever told about
  usedBefore   \* history: <<u, w>> when u's last use is older than w's

vars == <<valid, lru, used, usedBefore>>

Init ==
  /\ valid = [w \in Ways |-> FALSE]
  /\ lru = [w \in Ways |-> FreshLru]
  /\ used = {}
  /\ usedBefore = {}

(* w becomes the most recently used way in the history.                    *)
Record(w) ==
  /\ used' = used \cup {w}
  /\ usedBefore' = {p \in usedBefore : p[1] # w /\ p[2] # w}
                     \cup {<<u, w>> : u \in used \ {w}}

(* (Mutant of Promoted: every block ages, as lru_updater of util.h does.)  *)
PromotedAllAge(w) == [v \in Ways |-> IF v = w THEN 0 ELSE lru[v] + 1]

(* Age every block not older than the one touched, then promote that one.  *)
Promoted(w) ==
  [v \in Ways |-> CASE v = w -> 0
                    [] v # w /\ lru[v] <= lru[w] -> lru[v] + 1
                    [] OTHER -> lru[v]]

UpdateReplacementState(w, type, hit) ==
  IF hit /\ type = "WRITEBACK"
  THEN UNCHANGED <<lru, used, usedBefore>>
  ELSE lru' = Promoted(w) /\ Record(w)

(***************************************************************************)
(* std::max_element with lru_comparator over a full set: the first of the  *)
(* ways whose lru is largest.  (IsVictimMostRecent is a mutant: the least  *)
(* instead of the largest.)                                                *)
(***************************************************************************)
IsVictimMostRecent(w) ==
  \A v \in Ways : lru[v] > lru[w] \/ (lru[v] = lru[w] /\ w <= v)

IsVictim(w) ==
  \A v \in Ways : lru[v] < lru[w] \/ (lru[v] = lru[w] /\ w <= v)

Free == {w \in Ways : ~valid[w]}

(* The way a fill goes to: a free one, the first, else find_victim's.      *)
FillWay(w) ==
  IF Free # {}
  THEN w \in Free /\ \A v \in Free : w <= v
  ELSE IsVictim(w)

Hit(w, type) ==
  /\ valid[w]
  /\ UpdateReplacementState(w, type, TRUE)
  /\ UNCHANGED valid

Fill(w, type) ==
  /\ FillWay(w)
  /\ valid' = [valid EXCEPT ![w] = TRUE]
  /\ UpdateReplacementState(w, type, FALSE)

(* CACHE::invalidate_entry: the block goes, its lru stays.                 *)
Invalidate(w) ==
  /\ valid[w]
  /\ valid' = [valid EXCEPT ![w] = FALSE]
  /\ UNCHANGED <<lru, used, usedBefore>>

Next ==
  \E w \in Ways :
    \/ \E type \in Types : Hit(w, type)
    \/ \E type \in Types : Fill(w, type)
    \/ Invalidate(w)

Spec == Init /\ [][Next]_vars
-----------------------------------------------------------------------------
(* The fields stay near the default value: uint32_t does not overflow.     *)
TypeOK ==
  /\ valid \in [Ways -> BOOLEAN]
  /\ lru \in [Ways -> 0 .. FreshLru + NumWay]
  /\ used \in SUBSET Ways
  /\ usedBefore \in SUBSET (Ways \X Ways)

(***************************************************************************)
(* The lru fields order the used ways exactly by recency: the older of two *)
(* used ways has the larger field.  The code keeps it through the ageing   *)
(* loop alone, with no time stamp.                                         *)
(***************************************************************************)
RecencyOrder ==
  \A u, w \in used : <<u, w>> \in usedBefore <=> lru[u] > lru[w]

(***************************************************************************)
(* The fields of the used ways are 0 .. n - 1, each once: n used ways      *)
(* never reach n, however long the run.                                    *)
(***************************************************************************)
DistinctAges ==
  /\ \A u, w \in used : lru[u] = lru[w] => u = w
  /\ \A u \in used : lru[u] < Cardinality(used)

(* A way never used looks older than every used one.                       *)
FreshIsOldest ==
  \A w \in Ways \ used : lru[w] = FreshLru + Cardinality(used)

(***************************************************************************)
(* find_victim, called on a full set, returns the least recently used way. *)
(***************************************************************************)
VictimLeastRecent ==
  Free = {} =>
    \A w \in Ways : IsVictim(w) =>
      \A v \in Ways \ {w} : <<w, v>> \in usedBefore

(***************************************************************************)
(* The inductive invariant: a valid way has been used, and the history is  *)
(* a relation on the used ways that the fields represent.                  *)
(***************************************************************************)
IInv ==
  /\ TypeOK
  /\ \A w \in Ways : valid[w] => w \in used
  /\ \A w \in Ways : <<w, w>> \notin usedBefore
  /\ usedBefore \subseteq used \X used
  /\ RecencyOrder
  /\ DistinctAges
  /\ FreshIsOldest
=============================================================================
