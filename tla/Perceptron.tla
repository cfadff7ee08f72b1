----------------------------- MODULE Perceptron -----------------------------
(***************************************************************************)
(* The perceptron of the prefetch filters (prefetcher/ppf_...): tables of  *)
(* small signed weights.  A candidate selects one weight of each table and *)
(* is accepted when their sum is high enough; the same weights are trained *)
(* once it is known whether it was useful.                                 *)
(***************************************************************************)
EXTENDS Integers, FiniteSetsExt

CONSTANTS
  Keys,        \* what the features say about a candidate
  Tables,      \* FEATURE_VAR_NAME_1 .. 8
  Slots,       \* the entries of a table
  SlotOf,      \* INDEX_TO: the slot of each table that a key selects
  HalfRange,   \* 1 << (WEIGHT_BITS - 1)
  Bias, Threshold  \* ft_page_bias and PPF_THRESHOLD

PosMaxWeight == HalfRange - 1
NegMaxWeight == 0 - HalfRange

Weights == [Tables -> [Slots -> NegMaxWeight .. PosMaxWeight]]

ASSUME PerceptronAssumption ==
  /\ SlotOf \in [Tables -> [Keys -> Slots]]
  /\ HalfRange \in Nat \ {0}
  /\ IsFiniteSet(Tables)
  /\ Bias \in Int /\ Threshold \in Int
-----------------------------------------------------------------------------
(***************************************************************************)
(* INCREMENT and DECREMENT.  At the end of its range a weight stays in the *)
(* first two versions and steps back by four, here `rebound', in the third.*)
(* (Mutant: it steps back in any version.)                                 *)
(***************************************************************************)
IncrementBack(x, rebound) == IF x = PosMaxWeight THEN x - 2 ELSE x + 1

Increment(x, rebound) == IF x = PosMaxWeight THEN x - rebound ELSE x + 1

Decrement(x, rebound) == IF x = NegMaxWeight THEN x + rebound ELSE x - 1

(* retrain_ppf: one weight of each table moves.                            *)
Trained(w, key, useful, rebound) ==
  [t \in Tables |->
     [w[t] EXCEPT ![SlotOf[t][key]] =
        IF useful THEN Increment(@, rebound) ELSE Decrement(@, rebound)]]

(* It runs for each of the predictions found for an outcome.               *)
TrainedEach(w, predictions, found, useful, rebound) ==
  FoldSet(LAMBDA i, v : Trained(v, predictions[i].key, useful, rebound), w, found)

(* ppf_decision, and the test of its result.                               *)
Decision(w, key) == Bias + SumFunction([t \in Tables |-> w[t][SlotOf[t][key]]])

Accepted(w, key) == Decision(w, key) > Threshold
=============================================================================
