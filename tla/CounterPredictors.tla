------------------------- MODULE CounterPredictors --------------------------
(***************************************************************************)
(* The branch predictors that are a table of saturating counters:          *)
(* branch/bimodal1 to 3, indexed by the address of the branch, and         *)
(* branch/gshare1 to 3, indexed by a hash of it with the last outcomes.    *)
(* Predicting changes nothing in either (my_last_prediction is never       *)
(* read).                                                                  *)
(***************************************************************************)
EXTENDS BranchStreak

CONSTANTS
  BimodalPrime,
  CounterHalf,              \* 2^(COUNTER_BITS - 1), half the values of a counter
  GsHistoryLength, GsHistoryTableSize,
  GsTableHash(_, _)         \* gs_table_hash

GsBits == 1 .. GsHistoryLength       \* bit 1 is the last outcome
GsHistories == [GsBits -> BOOLEAN]

ASSUME CounterAssumption ==
  /\ {BimodalPrime, CounterHalf, GsHistoryLength, GsHistoryTableSize} \subseteq Nat \ {0}
  /\ \A ip \in BranchIps, history \in GsHistories :
       GsTableHash(ip, history) \in 0 .. GsHistoryTableSize - 1

VARIABLES
  counters,              \* bimodal_table or gs_history_table
  branchHistory,         \* branch_history_vector
  gshare                 \* which of the two it is

counterVars == <<counters, branchHistory, gshare>>

Slots == 0 .. (IF gshare THEN GsHistoryTableSize ELSE BimodalPrime) - 1

CounterInit ==
  /\ gshare \in BOOLEAN
  /\ counters = [slot \in Slots |-> IF gshare THEN 2 ELSE 0]
  /\ branchHistory = [i \in GsBits |-> FALSE]

Slot(ip) == IF gshare THEN GsTableHash(ip, branchHistory) ELSE ip % BimodalPrime

CounterMax == IF gshare THEN 3 ELSE 2 * CounterHalf - 1

CounterPredicts(ip) == counters[Slot(ip)] >= IF gshare THEN 2 ELSE CounterHalf

Counted(count, taken) ==
  IF taken THEN Min({count + 1, CounterMax}) ELSE Max({count - 1, 0})

(* The history is complete and the counter of its index at the threshold.  *)
CounterBound == IF gshare THEN GsHistoryLength + 2 ELSE CounterHalf

CounterResult(ip, taken) ==
  /\ counters' = [counters EXCEPT ![Slot(ip)] = Counted(@, taken)]
  /\ branchHistory' = IF gshare
                      THEN [i \in GsBits |-> IF i = 1 THEN taken ELSE branchHistory[i - 1]]
                      ELSE branchHistory
  /\ Outcome(ip, taken, CounterBound)
  /\ UNCHANGED gshare

CounterNext == \E ip \in BranchIps, taken \in BOOLEAN : CounterResult(ip, taken)
-----------------------------------------------------------------------------
CounterTypeOK ==
  /\ gshare \in BOOLEAN
  /\ counters \in [Slots -> 0 .. CounterMax]
  /\ branchHistory \in GsHistories
  /\ direction \in BOOLEAN /\ streak \in [BranchIps -> 0 .. CounterBound]
=============================================================================
