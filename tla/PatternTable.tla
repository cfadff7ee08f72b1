---------------------------- MODULE PatternTable ----------------------------
(***************************************************************************)
(* PATTERN_TABLE of the SPP prefetchers: for each signature, the deltas    *)
(* that followed it, with counters from which the confidence of a prefetch *)
(* is computed.  Signatures that hash to the same set share its entries.   *)
(***************************************************************************)
EXTENDS SppParams, FiniteSetsExt

CONSTANTS
  PtWay,     \* PT_WAY
  PtSets,    \* the sets, 0 .. PT_SET - 1
  PtSetOf,   \* get_hash(sig) % PT_SET
  CSigMax,   \* C_SIG_MAX, 2^C_SIG_BIT - 1
  Percents   \* the accuracies and confidences that LookaheadDecays tries

PtWays == 0 .. PtWay - 1

ASSUME PatternTableAssumption ==
  /\ PtWay \in Nat \ {0}
  /\ PtSetOf \in [Sigs -> PtSets]
  /\ Percents \subseteq 0 .. 100
  /\ CSigMax \in Nat /\ \E h \in 1 .. CSigMax : CSigMax + 1 = 2 * h

VARIABLES
  ptDelta, ptCDelta,  \* delta and c_delta of each way of each set
  ptCSig,             \* c_sig of each set
  ptAborted           \* the assertion in update_pattern has failed

ptVars == <<ptDelta, ptCDelta, ptCSig, ptAborted>>

PtInit ==
  /\ ptDelta = [s \in PtSets |-> [w \in PtWays |-> 0]]
  /\ ptCDelta = [s \in PtSets |-> [w \in PtWays |-> 0]]
  /\ ptCSig = [s \in PtSets |-> 0]
  /\ ptAborted = FALSE
-----------------------------------------------------------------------------
PtHitWays(s, d) == {w \in PtWays : ptDelta[s][w] = d}

(* The ways whose counter is the smallest one below C_SIG_MAX.             *)
PtVictims(s) ==
  {w \in PtWays : /\ ptCDelta[s][w] < CSigMax
                  /\ \A v \in PtWays : ptCDelta[s][w] <= ptCDelta[s][v]}

(* c_sig counts every update; beyond its maximum all counters are halved.  *)
Count(s, counters) ==
  IF ptCSig[s] + 1 > CSigMax
  THEN /\ ptCDelta' = [ptCDelta EXCEPT ![s] = [w \in PtWays |-> counters[w] \div 2]]
       /\ ptCSig' = [ptCSig EXCEPT ![s] = (@ + 1) \div 2]
  ELSE /\ ptCDelta' = [ptCDelta EXCEPT ![s] = counters]
       /\ ptCSig' = [ptCSig EXCEPT ![s] = @ + 1]

(* Case 1: the delta has a way in the set of the signature.                *)
PtHit(s, d) ==
  /\ PtHitWays(s, d) # {}
  /\ LET m == Min(PtHitWays(s, d))
     IN  Count(s, [ptCDelta[s] EXCEPT ![m] = @ + 1])
  /\ UNCHANGED <<ptDelta, ptAborted>>

(* Case 2: the delta takes over the first way with the smallest counter.   *)
(* Without such a way: `Cannot find a replacement victim!'                 *)
PtReplace(s, d) ==
  /\ PtHitWays(s, d) = {}
  /\ LET v == Min(PtVictims(s))
     IN  IF PtVictims(s) # {}
         THEN /\ ptDelta' = [ptDelta EXCEPT ![s][v] = d]
              /\ Count(s, [ptCDelta[s] EXCEPT ![v] = 0])
              /\ UNCHANGED ptAborted
         ELSE ptAborted' = TRUE /\ UNCHANGED <<ptDelta, ptCDelta, ptCSig>>

UpdatePattern(sig, d) ==
  LET s == PtSetOf[sig]
  IN  /\ ~ptAborted
      /\ PtHit(s, d) \/ PtReplace(s, d)

(***************************************************************************)
(* The caller trains only when last_sig is not zero, and then the delta is *)
(* not zero: read_and_update_sig clears last_sig when the same block is    *)
(* hit again.  (Mutant: it does not.)                                      *)
(***************************************************************************)
TrainedDeltasAny == Deltas

TrainedDeltas == Deltas \ {0}

PtNext == \E sig \in Sigs, d \in TrainedDeltas : UpdatePattern(sig, d)

PtSpec == PtInit /\ [][PtNext]_ptVars
-----------------------------------------------------------------------------
(***************************************************************************)
(* read_pattern: the confidence of a way in percent, at the first level    *)
(* and along the lookahead path, where it is scaled by the accuracy of the *)
(* prefetcher and by the confidence of the path so far.                    *)
(***************************************************************************)
LocalConf(s, w) == IF ptCSig[s] = 0 THEN 0 ELSE (100 * ptCDelta[s][w]) \div ptCSig[s]

PathConf(s, w, accuracy, conf) ==
  IF ptCSig[s] = 0 THEN 0
  ELSE ((((accuracy * ptCDelta[s][w]) \div ptCSig[s]) * conf) \div 100)
-----------------------------------------------------------------------------
PtTypeOK ==
  /\ ptDelta \in [PtSets -> [PtWays -> Deltas]]
  /\ ptCDelta \in [PtSets -> [PtWays -> 0 .. CSigMax]]
  /\ ptCSig \in [PtSets -> 0 .. CSigMax]
  /\ ptAborted \in BOOLEAN

(* A victim is always found: the assertion of update_pattern never fails.  *)
PtNeverAborts == ~ptAborted

(***************************************************************************)
(* A way counts strictly less than its set, through any number of hits,    *)
(* replacements and halvings, except in a set that has counted nothing:    *)
(* its ways were never filled, so its first update is never a hit.         *)
(***************************************************************************)
CountersBelowSig ==
  \A s \in PtSets, w \in PtWays :
    \/ ptCSig[s] = 0 /\ ptDelta[s][w] = 0
    \/ ptCDelta[s][w] < ptCSig[s]

(* A delta never has two ways in a set, which would split its count.       *)
UniqueDeltas ==
  \A s \in PtSets : \A v, w \in PtWays :
    ptDelta[s][v] = ptDelta[s][w] /\ ptDelta[s][v] # 0 => v = w

(* A way that was never filled has no confidence: the block that triggered *)
(* the prefetcher is never a candidate at delta zero.                      *)
UnusedWaysCold == \A s \in PtSets, w \in PtWays : ptDelta[s][w] = 0 => ptCDelta[s][w] = 0

(***************************************************************************)
(* While the accuracy is a percentage every lookahead step loses some      *)
(* confidence, which is what ends the lookahead loop.                      *)
(***************************************************************************)
LookaheadDecays ==
  \A s \in PtSets, w \in PtWays, accuracy \in Percents, conf \in Percents :
    conf > 0 => PathConf(s, w, accuracy, conf) < conf

PtIInv == PtTypeOK /\ PtNeverAborts /\ CountersBelowSig /\ UniqueDeltas /\ UnusedWaysCold
=============================================================================
