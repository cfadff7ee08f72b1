---------------------------- MODULE BranchStreak ----------------------------
(***************************************************************************)
(* What the outcomes of the branches have been, as a history beside the    *)
(* branch predictors: how often each branch has been resolved since an     *)
(* outcome of any branch last went the other way.                          *)
(***************************************************************************)
EXTENDS Integers, Sequences, FiniteSetsExt

CONSTANT BranchIps     \* the addresses of the branches

ASSUME BranchAssumption == BranchIps \subseteq Nat

VARIABLES
  direction,   \* the last outcome
  streak       \* how often each branch has had it, up to a bound

streakVars == <<direction, streak>>

StreakInit == direction = FALSE /\ streak = [ip \in BranchIps |-> 0]

(* Counts stop at the bound, which is what the properties ask for.         *)
Outcome(ip, taken, bound) ==
  /\ direction' = taken
  /\ streak' = IF taken = direction
               THEN [streak EXCEPT ![ip] = Min({@ + 1, bound})]
               ELSE [other \in BranchIps |-> IF other = ip THEN 1 ELSE 0]

(* A predictor has learned a bias when a branch that has gone one way that *)
(* often, with no branch going the other way since, is predicted to go on. *)
Learned(Predicts(_), bound) ==
  \A ip \in BranchIps : streak[ip] = bound => Predicts(ip) = direction
=============================================================================
