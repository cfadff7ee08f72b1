-------------------------- MODULE PredictionWindow --------------------------
(***************************************************************************)
(* What a perceptron filter promises about its training: it remembers the  *)
(* latest predictions, whether it accepted them or not, and trains each of *)
(* them exactly once.  A prediction is useful if its line is demanded      *)
(* while it is remembered, and useless if its line is evicted or if it is  *)
(* forgotten first.                                                        *)
(***************************************************************************)
EXTENDS Perceptron, SequencesExt

CONSTANTS
  Lines,    \* cache lines
  Entries   \* how many predictions are remembered

VARIABLES window, weights, rebound

windowVars == <<window, weights, rebound>>

Init ==
  /\ window = <<>>
  /\ weights \in Weights
  /\ rebound \in Nat

Predict(line, key) ==
  LET full == Len(window) = Entries
      new == [line |-> line, key |-> key, pending |-> TRUE]
  IN  /\ window' = Append(IF full THEN Tail(window) ELSE window, new)
      /\ weights' = IF full /\ window[1].pending
                    THEN Trained(weights, window[1].key, FALSE, rebound)
                    ELSE weights
      /\ UNCHANGED rebound

(* All the pending predictions of a line are trained with its outcome.     *)
Outcome(line, useful) ==
  /\ window' = [i \in DOMAIN window |->
                  [window[i] EXCEPT !.pending = @ /\ window[i].line # line]]
  /\ weights' = TrainedEach(weights, window,
                            {i \in DOMAIN window : window[i].pending /\ window[i].line = line},
                            useful, rebound)
  /\ UNCHANGED rebound

Next ==
  \E line \in Lines :
    \/ \E key \in Keys : Predict(line, key)
    \/ \E useful \in BOOLEAN : Outcome(line, useful)

Spec == Init /\ [][Next]_windowVars
=============================================================================
