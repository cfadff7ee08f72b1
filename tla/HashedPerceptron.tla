-------------------------- MODULE HashedPerceptron --------------------------
(***************************************************************************)
(* The hashed perceptron branch predictor (branch/hashed_perceptron).      *)
(* Each table is indexed by a hash of the address with a prefix of the     *)
(* history.  The indices and the sum stay in static variables between a    *)
(* prediction and its outcome, so that the outcome of a branch has to      *)
(* follow its prediction at once; the processor that does so is external.  *)
(*                                                                         *)
(* The history is kept in words of LOG_TABLE_SIZE bits, each of which      *)
(* passes its top bit on to the next one: its bits are numbered here       *)
(* across the words.  The sums of hashes are by bit.                       *)
(***************************************************************************)
EXTENDS BranchStreak

CONSTANTS
  LogTableSize,        \* LOG_TABLE_SIZE
  HistoryLengths,      \* history_lengths, of which the last is MAXHIST
  LowestWeight, HighestWeight,
  Speed, InitialTheta,
  MaxTheta             \* bound on theta

ASSUME HashedAssumption ==
  /\ {LogTableSize, Speed, InitialTheta, HighestWeight} \subseteq Nat \ {0}
  /\ HistoryLengths \in Seq(Nat) /\ HistoryLengths # <<>> /\ HistoryLengths[Len(HistoryLengths)] > 0
  /\ \A t \in DOMAIN HistoryLengths : HistoryLengths[t] <= HistoryLengths[Len(HistoryLengths)]
  /\ LowestWeight \in Int /\ LowestWeight < 0
  /\ MaxTheta \in Nat /\ InitialTheta <= MaxTheta

VARIABLES
  tables, ghist, indices, yout, theta, tc,
  pending      \* the branch that is predicted and not resolved

hashedVars == <<tables, ghist, indices, yout, theta, tc, pending>>

Tables == DOMAIN HistoryLengths
MaxHist == HistoryLengths[Len(HistoryLengths)]
HistoryBits == 0 .. (MaxHist \div LogTableSize + 1) * LogTableSize - 1
TableIndices == [0 .. LogTableSize - 1 -> 0 .. 1]

NoBranch == [ip |-> -1]

HashedInit ==
  /\ tables = [t \in Tables |-> [x \in TableIndices |-> 0]]
  /\ ghist = [k \in HistoryBits |-> 0]
  /\ indices = [t \in Tables |-> [b \in 0 .. LogTableSize - 1 |-> 0]]
  /\ yout = 0 /\ theta = InitialTheta /\ tc = 0
  /\ pending = NoBranch
-----------------------------------------------------------------------------
(* Bit b of the index takes every LOG_TABLE_SIZE'th bit of the first n of  *)
(* the history, and its own of the address.                                *)
IndexOf(pc, n) ==
  [b \in 0 .. LogTableSize - 1 |->
     ((pc \div 2^b) + Cardinality({k \in 0 .. n - 1 : k % LogTableSize = b /\ ghist[k] = 1})) % 2]

SumAt(x) == SumFunction([t \in Tables |-> tables[t][x[t]]])

HashedPredicts(pc) == SumAt([t \in Tables |-> IndexOf(pc, HistoryLengths[t])]) >= 1

HashedPredict(pc) ==
  LET x == [t \in Tables |-> IndexOf(pc, HistoryLengths[t])]
  IN  /\ pending = NoBranch
      /\ indices' = x /\ yout' = SumAt(x) /\ pending' = [ip |-> pc]
      /\ UNCHANGED <<tables, ghist, theta, tc, streakVars>>

Trains(correct, magnitude, taken) == ~correct \/ magnitude < theta

Trained(weight, taken) ==
  IF taken THEN Min({weight + 1, HighestWeight}) ELSE Max({weight - 1, LowestWeight})

(* The dynamic threshold: theta grows after Speed mispredictions more than *)
(* weak correct predictions, and shrinks after as many less.               *)
(* (Mutant: weak includes a magnitude of theta.)                           *)
AdaptBeyond(correct, magnitude) ==
  LET count == IF ~correct THEN tc + 1 ELSE IF magnitude <= theta THEN tc - 1 ELSE tc
  IN  /\ theta' = IF count >= Speed THEN theta + 1 ELSE IF count <= -Speed THEN theta - 1 ELSE theta
      /\ tc' = IF count \in {Speed, -Speed} THEN 0 ELSE count

Adapt(correct, magnitude) ==
  LET count == IF ~correct THEN tc + 1 ELSE IF magnitude < theta THEN tc - 1 ELSE tc
  IN  /\ theta' = IF count >= Speed THEN theta + 1 ELSE IF count <= -Speed THEN theta - 1 ELSE theta
      /\ tc' = IF count \in {Speed, -Speed} THEN 0 ELSE count

HashedBound == MaxHist + HighestWeight - LowestWeight + 2

HashedResult(taken) ==
  LET correct == taken = (yout >= 1)
      magnitude == IF yout < 0 THEN -yout ELSE yout
  IN  /\ pending # NoBranch
      /\ ghist' = [k \in HistoryBits |-> IF k > 0 THEN ghist[k - 1] ELSE IF taken THEN 1 ELSE 0]
      /\ tables' = IF Trains(correct, magnitude, taken)
                   THEN [t \in Tables |-> [tables[t] EXCEPT ![indices[t]] = Trained(@, taken)]]
                   ELSE tables
      /\ Adapt(correct, magnitude)
      /\ theta' <= MaxTheta
      /\ Outcome(pending.ip, taken, HashedBound)
      /\ pending' = NoBranch
      /\ UNCHANGED <<indices, yout>>

HashedNext ==
  \/ \E pc \in BranchIps : HashedPredict(pc)
  \/ \E taken \in BOOLEAN : HashedResult(taken)
-----------------------------------------------------------------------------
(* The threshold never falls below zero.                                   *)
HashedTypeOK ==
  /\ tables \in [Tables -> [TableIndices -> LowestWeight .. HighestWeight]]
  /\ ghist \in [HistoryBits -> 0 .. 1]
  /\ indices \in [Tables -> TableIndices] /\ yout \in Int
  /\ theta \in 0 .. MaxTheta /\ tc \in 1 - Speed .. Speed - 1
  /\ pending \in {NoBranch} \union {[ip |-> pc] : pc \in BranchIps}
=============================================================================
