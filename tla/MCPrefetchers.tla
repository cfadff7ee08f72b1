---------------------------- MODULE MCPrefetchers ----------------------------
(***************************************************************************)
(* The prefetchers other than SPP for TLC: `unit' names the one that runs, *)
(* the variables of the others stay as initialised.                        *)
(*                                                                         *)
(* Filters: the lines of a page of three, of which the filter over SPP     *)
(* uses two, a ring of two predictions, one table that tells the two keys  *)
(* apart and one that does not, which over a lookahead is the bias, and    *)
(* weights of two bits, which reach both ends of their range, with and     *)
(* without the step back at the ends.                                      *)
(*                                                                         *)
(* Stride: consecutive blocks on both sides of a page boundary, blocks of  *)
(* two bytes and pages of four blocks.  Instruction 1 takes any stride     *)
(* between them; 2 and 3 are there to take its tracker away: two sets of   *)
(* two trackers, whose windows overlap.                                    *)
(*                                                                         *)
(* VA AMPM: three regions, for the two pages accessed and their           *)
(* neighbours, whose lines are only ever prefetched.                       *)
(*                                                                         *)
(* KPCP: a program that reads pages 1 to 3 block after block, but jumps    *)
(* MaxJumps times, perhaps to page 4, which shares its tag with page 1,    *)
(* and a cache that keeps MaxResident lines.  Signatures tell deltas of    *)
(* one from the others.                                                    *)
(***************************************************************************)
EXTENDS LookaheadFilter, StridePrefetcher, VaAmpm, Kpcp, TLC

CONSTANTS
  Units,
  MaxAccesses,  \* bound on the accesses of the program of KPCP
  MaxJumps,     \* bound on those that do not go to the next block
  MaxResident   \* lines that the cache of KPCP keeps until the next access

MCKeys == {"near", "far"}
MCTables == 1 .. 2
MCSlots == 0 .. 1
MCSlotOf == [t \in MCTables |-> [k \in MCKeys |-> IF t = 1 /\ k = "far" THEN 1 ELSE 0]]
MCLines == 3 .. 5
MCSppLines == 3 .. 4
MCRebounds == {0, 2}
MCStrides == {-1, 1}
MCFeatures(ip, degree, line) == IF ip # 0 /\ degree = 2 THEN "near" ELSE "far"

MCAccesses == {<<4, 1>>, <<6, 1>>, <<8, 1>>, <<8, 2>>, <<6, 3>>}
AllKinds == StrideKinds \union NextLineKinds
OnlyIpStride == {"ip_stride"}

MCAmpmLines == 4 .. 7

MCPages == 1 .. 4
MCTag == <<0, 1, 2, 0>>
MCKpcpSigs == 0 .. 7
MCSigHash(sig, delta) == IF delta = 1 THEN 1 ELSE 2
MCSigMask(sig) == sig % 8

AllUnits == {"ppf", "ppf_lookahead", "stride", "va_ampm", "kpcp"}
OnlyStride == {"stride"}
OnlyVaAmpm == {"va_ampm"}

VARIABLES
  unit,
  accesses, jumps, last  \* the accesses and jumps of KPCP so far, the last access

walkVars == <<accesses, jumps, last>>
mcVars == <<ppfVars, aheadVars, strideVars, ampmVars, kpcpVars, walkVars, unit>>

FilterInit ==
  CASE unit = "ppf" -> Init /\ indexed = TRUE /\ ahead = NotAhead /\ since = top
    [] unit = "ppf_lookahead" -> AheadInit
    [] OTHER -> /\ RingInit /\ indexed = TRUE /\ ahead = NotAhead /\ since = top
                /\ weights = [t \in Tables |-> [slot \in Slots |-> 0]] /\ rebound = 0

MCInit ==
  /\ unit \in Units
  /\ FilterInit
  /\ StrideInit
  /\ AmpmInit
  /\ KpcpInit
  /\ accesses = 0 /\ jumps = 0 /\ last = <<3, KpcpBlocks - 1>>
  /\ unit # "stride" => kind = "ip_stride" /\ ~virtual

Ppf ==
  /\ unit = "ppf" /\ Next
  /\ cached' \subseteq MCSppLines /\ \A i \in Slot : ring'[i].line \in MCSppLines \union {NoLine}
  /\ UNCHANGED <<aheadVars, strideVars, ampmVars, kpcpVars, walkVars, unit>>

PpfLookahead ==
  /\ unit = "ppf_lookahead" /\ AheadNext
  /\ UNCHANGED <<strideVars, ampmVars, kpcpVars, walkVars, unit>>

Stride ==
  /\ unit = "stride" /\ StrideNext
  /\ UNCHANGED <<ppfVars, aheadVars, ampmVars, kpcpVars, walkVars, unit>>

Ampm ==
  /\ unit = "va_ampm" /\ AmpmNext
  /\ UNCHANGED <<ppfVars, aheadVars, strideVars, kpcpVars, walkVars, unit>>

NextBlock ==
  IF last[2] + 1 < KpcpBlocks THEN <<last[1], last[2] + 1>> ELSE <<(last[1] % 3) + 1, 0>>

Walk(page, block) ==
  /\ accesses < MaxAccesses /\ accesses' = accesses + 1
  /\ Cardinality(resident) <= MaxResident
  /\ IF <<page, block>> = NextBlock
     THEN UNCHANGED jumps
     ELSE jumps < MaxJumps /\ jumps' = jumps + 1
  /\ last' = <<page, block>>
  /\ KpcpAccess(page, block)

KpcpWalk ==
  /\ unit = "kpcp"
  /\ \/ KpcpLookahead /\ UNCHANGED walkVars
     \/ KpcpRequest /\ UNCHANGED walkVars
     \/ \E page \in KpcpPages, block \in 0 .. KpcpBlocks - 1 :
          \/ Walk(page, block)
          \/ /\ Cardinality(resident) > MaxResident
             /\ KpcpEvict(page, block) /\ UNCHANGED walkVars
  /\ UNCHANGED <<ppfVars, aheadVars, strideVars, ampmVars, unit>>

MCNext == Ppf \/ PpfLookahead \/ Stride \/ Ampm \/ KpcpWalk

MCSpec == MCInit /\ [][MCNext]_mcVars
-----------------------------------------------------------------------------
PrefetcherTypesOK ==
  /\ TypeOK
  /\ AheadTypeOK
  /\ StrideTypeOK
  /\ AmpmTypeOK
  /\ KpcpTypeOK
=============================================================================
