-------------------------- MODULE PerceptronFilter --------------------------
(***************************************************************************)
(* The perceptron prefetch filter over SPP (prefetcher/ppf_spp_dev and its *)
(* versions 2 and 3): each candidate of SPP is entered in a ring of        *)
(* predictions, found again by its address through inverted_address, and   *)
(* handed on to the prefetch filter only if the perceptron accepts it.     *)
(*                                                                         *)
(* The cache is outside: a line enters it when it is demanded or when an   *)
(* accepted candidate is sent to it, and leaves it at any time.            *)
(***************************************************************************)
EXTENDS Perceptron, Sequences

CONSTANTS
  Lines,     \* cache lines that are demanded and predicted
  NoLine,    \* the line of address 0, in the entries never written
  RingSize,  \* TRANSFER_BUFFER_ENTRIES
  Rebounds   \* by how much a weight steps back at the end of its range

Slot == 0 .. RingSize - 1

ASSUME PerceptronFilterAssumption ==
  /\ Keys # {}
  /\ RingSize \in Nat \ {0}
  /\ NoLine \notin Lines
  /\ Rebounds \subseteq 0 .. PosMaxWeight - NegMaxWeight

VARIABLES
  ring,      \* trans_buff: valid, index_pref_add and features of each entry
  top,       \* t_buffer_index: the entry written last
  inverted,  \* inverted_address: the entries that were written for a line
  weights,   \* the feature tables
  rebound,   \* which version of INCREMENT and DECREMENT runs
  cached     \* the lines in the cache

ppfVars == <<ring, top, inverted, weights, rebound, cached>>

RingInit ==
  /\ ring = [i \in Slot |->
               [valid |-> FALSE, line |-> NoLine, key |-> CHOOSE key \in Keys : TRUE]]
  /\ top = 0
  /\ inverted = [line \in Lines \union {NoLine} |-> {}]
  /\ cached = {}

Init ==
  /\ RingInit
  /\ weights \in [Tables -> [Slots -> {x \in 0 .. 7 : x <= PosMaxWeight}]]
  /\ rebound \in Rebounds
-----------------------------------------------------------------------------
(* MOVE_PTR_UP.                                                            *)
MovedUp(i) == IF i = RingSize - 1 THEN 0 ELSE i + 1

(***************************************************************************)
(* The entry to be overwritten leaves the list of its line and joins that  *)
(* of the new one.  A list holds an entry at most once and its order is of *)
(* no consequence, so it is a set; an empty one stands for no list.        *)
(* (Mutant: it is not taken out of the old list.)                          *)
(***************************************************************************)
ReindexedOnlyAdd(i, line) == [inverted EXCEPT ![line] = @ \union {i}]

Reindexed(i, line) ==
  [inverted EXCEPT ![ring[i].line] = @ \ {i}, ![line] = @ \union {i}]

(* An entry that is overwritten while valid counts as useless.             *)
(* (Mutant: it is forgotten untrained.)                                    *)
OverwrittenForgotten(i) == weights

Overwritten(i) ==
  IF ring[i].valid THEN Trained(weights, ring[i].key, FALSE, rebound) ELSE weights

(* A prediction takes the entry of the oldest one.                         *)
Entered(line, key) ==
  LET i == MovedUp(top)
  IN  /\ top' = i
      /\ inverted' = Reindexed(i, line)
      /\ weights' = Overwritten(i)
      /\ ring' = [ring EXCEPT ![i] = [valid |-> TRUE, line |-> line, key |-> key]]

(***************************************************************************)
(* A candidate of the lookahead, in the page of the access: its prediction *)
(* is entered in the ring, whatever it says.  If it is accepted the line   *)
(* may come to be in the cache, unless the prefetch filter knows it or it  *)
(* is for the LLC.                                                         *)
(***************************************************************************)
Predict(line, key) ==
  /\ Entered(line, key)
  /\ \/ Accepted(weights', key) /\ cached' = cached \union {line}
     \/ UNCHANGED cached
  /\ UNCHANGED rebound

(* The entries found that are still valid are trained, and are valid no    *)
(* more.                                                                   *)
RetrainEntries(entries, useful) ==
  LET found == {i \in entries : ring[i].valid}
  IN  /\ weights' = TrainedEach(weights, ring, found, useful, rebound)
      /\ ring' = [i \in Slot |-> [ring[i] EXCEPT !.valid = @ /\ i \notin found]]
      /\ UNCHANGED <<top, inverted, rebound>>

Retrain(line, useful) == RetrainEntries(inverted[line], useful)

(* L2C_DEMAND.                                                             *)
Demand(line) == Retrain(line, TRUE) /\ cached' = cached \union {line}

(* L2C_EVICT.                                                              *)
Evict(line) ==
  /\ line \in cached
  /\ Retrain(line, FALSE)
  /\ cached' = cached \ {line}

Next ==
  \E line \in Lines :
    \/ \E key \in Keys : Predict(line, key)
    \/ Demand(line)
    \/ Evict(line)

Spec == Init /\ [][Next]_ppfVars
-----------------------------------------------------------------------------
RingTypeOK ==
  /\ ring \in [Slot -> [valid : BOOLEAN, line : Lines \union {NoLine}, key : Keys]]
  /\ top \in Slot
  /\ inverted \in [Lines \union {NoLine} -> SUBSET Slot]
  /\ rebound \in Rebounds
  /\ cached \subseteq Lines

TypeOK == RingTypeOK /\ weights \in Weights

(***************************************************************************)
(* inverted_address is the inverse of the ring: it finds all entries       *)
(* written for a line and no other.  Nothing compares the address of an    *)
(* entry that was found, so an index left behind would train the features  *)
(* of one line with the outcome of another.                                *)
(***************************************************************************)
IndexInverse ==
  /\ inverted[NoLine] = {}
  /\ \A line \in Lines, i \in Slot : i \in inverted[line] <=> ring[i].line = line

(* An entry that was never written is not valid.                           *)
UnwrittenInvalid == \A i \in Slot : ring[i].line = NoLine => ~ring[i].valid

IInv == RingTypeOK /\ IndexInverse /\ UnwrittenInvalid

(***************************************************************************)
(* A demand of a predicted line never turns candidates of another line     *)
(* down that would have been accepted before it.  This is so when weights  *)
(* stay at the end of their range; in version 3 of the filter over SPP     *)
(* they step back.                                                         *)
(***************************************************************************)
RewardKeepsAccepted ==
  [][ rebound = 0 /\ ring' # ring /\ (\E line \in Lines : Retrain(line, TRUE)) =>
        \A key \in Keys : Accepted(weights, key) => Accepted(weights', key) ]_ppfVars

(***************************************************************************)
(* The predictions from the oldest to the latest, read from the ring: it   *)
(* implements the window of the latest RingSize predictions.  Entry 0 is   *)
(* the last one to be written for the first time; until then the oldest    *)
(* prediction is in entry 1.                                               *)
(***************************************************************************)
Wrapped == ring[0].line # NoLine
EntryOf(k) ==
  IF ~Wrapped THEN k ELSE IF top + k < RingSize THEN top + k ELSE top + k - RingSize

Latest ==
  [k \in 1 .. (IF Wrapped THEN RingSize ELSE top) |->
     LET e == ring[EntryOf(k)] IN [line |-> e.line, key |-> e.key, pending |-> e.valid]]

Window == INSTANCE PredictionWindow WITH window <- Latest, Entries <- RingSize

ImplementsWindow == Window!Spec
=============================================================================
