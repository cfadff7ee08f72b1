------------------------ MODULE PerceptronPredictor -------------------------
(***************************************************************************)
(* The perceptron branch predictor (branch/perceptron1 to 3).  A           *)
(* prediction is made with a history of predictions, and what it was made  *)
(* from is kept in a buffer until its outcome is known.                    *)
(*                                                                         *)
(* The processor is external: it has up to `depth' branches in flight,     *)
(* resolves them in order, and fetches nothing past a branch that is       *)
(* mispredicted until it is resolved (fetch_stall of O3_CPU).              *)
(***************************************************************************)
EXTENDS BranchStreak, SequencesExt

CONSTANTS
  HistoryLength,    \* PERCEPTRON_HISTORY
  NumPerceptrons,
  HalfRange,        \* 2^(PERCEPTRON_BITS - 1), half the values of a weight
  Theta,
  BufferSize,       \* NUM_UPDATE_ENTRIES
  MaxDepth          \* bound on the branches in flight

ASSUME PerceptronAssumption ==
  /\ {HistoryLength, NumPerceptrons, HalfRange, BufferSize, MaxDepth} \subseteq Nat \ {0}
  /\ Theta \in Nat

VARIABLES
  perceptrons,   \* the bias and the weights of each
  stateBuf,      \* perceptron_state_buf
  specHistory, globalHistory,
  inFlight,      \* the branches not resolved, with what their predictions read
  depth          \* how many the processor lets be in flight

perceptronVars == <<perceptrons, stateBuf, specHistory, globalHistory, inFlight, depth>>

MaxWeight == HalfRange - 1
MinWeight == -(MaxWeight + 1)
Bits == 1 .. HistoryLength       \* bit 1 is the last outcome
Histories == [Bits -> BOOLEAN]

PerceptronInit ==
  /\ perceptrons = [p \in 0 .. NumPerceptrons - 1 |-> [bias |-> 0, weights |-> [i \in Bits |-> 0]]]
  /\ stateBuf = <<>>
  /\ specHistory = [i \in Bits |-> FALSE] /\ globalHistory = [i \in Bits |-> FALSE]
  /\ inFlight = <<>>
  /\ depth \in 1 .. MaxDepth
-----------------------------------------------------------------------------
Shifted(history, outcome) == [i \in Bits |-> IF i = 1 THEN outcome ELSE history[i - 1]]

Output(perceptron, history) ==
  perceptron.bias + SumFunction(
    [i \in Bits |-> IF history[i] THEN perceptron.weights[i] ELSE -perceptron.weights[i]])

Saturated(weight, up) ==
  IF up THEN Min({weight + 1, MaxWeight}) ELSE Max({weight - 1, MinWeight})

(* A weight grows when its bit of the history agrees with the outcome.     *)
(* (Mutant: when its bit is set.)                                          *)
UpdatedBySetBits(perceptron, result, history) ==
  [bias |-> Saturated(perceptron.bias, result),
   weights |-> [i \in Bits |-> Saturated(perceptron.weights[i], history[i])]]

Updated(perceptron, result, history) ==
  [bias |-> Saturated(perceptron.bias, result),
   weights |-> [i \in Bits |-> Saturated(perceptron.weights[i], history[i] = result)]]

Index(ip) == ip % NumPerceptrons

PredictionState(ip) ==
  LET output == Output(perceptrons[Index(ip)], specHistory)
  IN  [ip |-> ip, prediction |-> output >= 0, output |-> output, history |-> specHistory]

PredictBranch(ip, taken) ==
  LET state == PredictionState(ip)
      buffered == Append(stateBuf, state)
  IN  /\ Len(inFlight) < depth
      /\ \A k \in DOMAIN inFlight : inFlight[k].state.prediction = inFlight[k].taken
      /\ stateBuf' = IF Len(buffered) > BufferSize THEN Tail(buffered) ELSE buffered
      /\ specHistory' = Shifted(specHistory, state.prediction)
      /\ inFlight' = Append(inFlight, [ip |-> ip, taken |-> taken, state |-> state])
      /\ UNCHANGED <<perceptrons, globalHistory, depth, streakVars>>

(* The states an outcome of the branch may be of.                          *)
Matches(ip) == {k \in DOMAIN stateBuf : stateBuf[k].ip = ip}

(* (Mutant: the latest of them is taken.)                                  *)
FoundLatest(ip) == Max(Matches(ip))

FoundState(ip) == Min(Matches(ip))

(* A misprediction returns to the last known real history.                 *)
(* (Mutant: to the history the prediction was made from.)                  *)
RestoredOld(state, taken) ==
  IF state.prediction = taken THEN specHistory ELSE state.history

Restored(state, taken) ==
  IF state.prediction = taken THEN specHistory ELSE globalHistory'

PerceptronBound == HistoryLength + 2 * HalfRange + MaxDepth

Resolve(ip, taken) ==
  LET state == stateBuf[FoundState(ip)]
      weak == state.output <= Theta /\ state.output >= -Theta
  IN  /\ Matches(ip) # {}
      /\ stateBuf' = RemoveAt(stateBuf, FoundState(ip))
      /\ globalHistory' = Shifted(globalHistory, taken)
      /\ specHistory' = Restored(state, taken)
      /\ perceptrons' = IF weak \/ state.prediction # taken
                        THEN [perceptrons EXCEPT ![Index(ip)] = Updated(@, taken, state.history)]
                        ELSE perceptrons

(* The state was lost: the outcome is not even recorded in the history.    *)
SkipUpdate(ip) ==
  /\ Matches(ip) = {}
  /\ UNCHANGED <<perceptrons, stateBuf, specHistory, globalHistory>>

PerceptronResult ==
  LET branch == Head(inFlight)
  IN  /\ inFlight # <<>>
      /\ inFlight' = Tail(inFlight)
      /\ Resolve(branch.ip, branch.taken) \/ SkipUpdate(branch.ip)
      /\ Outcome(branch.ip, branch.taken, PerceptronBound)
      /\ UNCHANGED depth

PerceptronNext ==
  \/ \E ip \in BranchIps, taken \in BOOLEAN : PredictBranch(ip, taken)
  \/ PerceptronResult

PerceptronSpec ==
  StreakInit /\ PerceptronInit /\ [][PerceptronNext]_<<perceptronVars, streakVars>>
-----------------------------------------------------------------------------
States == [ip : BranchIps, prediction : BOOLEAN, output : Int, history : Histories]

PerceptronTypeOK ==
  /\ perceptrons \in [0 .. NumPerceptrons - 1 ->
       [bias : MinWeight .. MaxWeight, weights : [Bits -> MinWeight .. MaxWeight]]]
  /\ stateBuf \in Seq(States) /\ Len(stateBuf) <= BufferSize
  /\ specHistory \in Histories /\ globalHistory \in Histories
  /\ inFlight \in Seq([ip : BranchIps, taken : BOOLEAN, state : States])
  /\ depth \in 1 .. MaxDepth

(***************************************************************************)
(* While the buffer is as long as the processor is deep, the state an      *)
(* outcome finds by its address is that of its own prediction, also when   *)
(* one branch is in flight more than once: it trains on what was read.     *)
(***************************************************************************)
TrainsOwnPrediction ==
  depth <= BufferSize /\ inFlight # <<>> =>
    LET branch == Head(inFlight)
    IN  Matches(branch.ip) # {} /\ stateBuf[FoundState(branch.ip)] = branch.state

(***************************************************************************)
(* The speculative history is then always the real one followed by the     *)
(* predictions in flight, and so the real one when nothing is: no bit is   *)
(* lost or doubled when a misprediction is repaired.                       *)
(***************************************************************************)
HistoriesAgree ==
  depth <= BufferSize =>
    \A i \in Bits :
      specHistory[i] = IF i <= Len(stateBuf) THEN stateBuf[Len(stateBuf) + 1 - i].prediction
                       ELSE globalHistory[i - Len(stateBuf)]
=============================================================================
