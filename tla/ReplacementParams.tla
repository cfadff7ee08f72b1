------------------------- MODULE ReplacementParams --------------------------
(***************************************************************************)
(* What the replacement policies share: one set of a cache.  The sets of a *)
(* cache are independent but for the set duelling of DRRIP: every loop of  *)
(* the policies runs over the NUM_WAY blocks of one set.                   *)
(*                                                                         *)
(* The cache that drives a policy is outside this repository.  As the      *)
(* policies' comments and their signature have it, the cache calls         *)
(* update_replacement_state `on every cache hit and cache fill', and       *)
(* find_victim for a fill when no way of the set is free.                  *)
(***************************************************************************)
EXTENDS Integers, FiniteSets

CONSTANTS
  NumWay,    \* NUM_WAY
  FreshLru,  \* BLOCK's default lru, (2^32 - 1) >> 1 in the code
  Types      \* the access types, "WRITEBACK" among them

ASSUME ReplacementAssumption ==
  /\ NumWay \in Nat \ {0}
  /\ FreshLru \in Nat

Ways == 0 .. NumWay - 1
=============================================================================
