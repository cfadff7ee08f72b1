--------------------------- MODULE PrefetchFilter ---------------------------
(***************************************************************************)
(* PREFETCH_FILTER of the SPP prefetchers with the global counters it      *)
(* maintains: a direct-mapped table of partial tags that remembers which   *)
(* lines were prefetched into the L2 and which of those were used, and the *)
(* accuracy computed from pf_useful and pf_issued.                         *)
(*                                                                         *)
(* A request for the LLC changes nothing: its check is Known.              *)
(***************************************************************************)
EXTENDS Integers, FiniteSets

CONSTANTS
  Lines,         \* cache lines: check_addr >> LOG2_BLOCK_SIZE
  Quotients,     \* the sets of the filter, 0 .. FILTER_SET - 1
  Remainders,    \* the partial tags
  QuotientOf, RemainderOf,
  CounterMax     \* GLOBAL_COUNTER_MAX, 2^GLOBAL_COUNTER_BIT - 1

ASSUME PrefetchFilterAssumption ==
  /\ QuotientOf \in [Lines -> Quotients] /\ RemainderOf \in [Lines -> Remainders]
  /\ IsFiniteSet(Quotients) /\ 0 \in Remainders
  /\ CounterMax \in Nat /\ \E h \in 1 .. CounterMax : CounterMax + 1 = 2 * h

VARIABLES
  fValid, fUseful, fTag,  \* valid, useful and remainder_tag of each set
  pfUseful, pfIssued,     \* GHR.pf_useful and GHR.pf_issued
  halved                  \* history: the counters have been halved

filterVars == <<fValid, fUseful, fTag, pfUseful, pfIssued, halved>>

FilterInit ==
  /\ fValid = [q \in Quotients |-> FALSE]
  /\ fUseful = [q \in Quotients |-> FALSE]
  /\ fTag = [q \in Quotients |-> 0]
  /\ pfUseful = 0 /\ pfIssued = 0
  /\ halved = FALSE
-----------------------------------------------------------------------------
FilterMatches(line) == fTag[QuotientOf[line]] = RemainderOf[line]

(* `line is already in the filter': the request is not sent.               *)
Known(line) ==
  LET q == QuotientOf[line]
  IN  (fValid[q] \/ fUseful[q]) /\ FilterMatches(line)

(* Percentage of useful prefetches, recomputed at each access.             *)
Accuracy == IF pfIssued = 0 THEN 0 ELSE (100 * pfUseful) \div pfIssued

(* Both counters are halved when pf_issued exceeds its maximum.            *)
(* (Mutants: pf_useful is left as it is; the test comes too late.)         *)
CountIssuedOnly ==
  IF pfIssued + 1 > CounterMax
  THEN pfIssued' = (pfIssued + 1) \div 2 /\ halved' = TRUE /\ UNCHANGED pfUseful
  ELSE pfIssued' = pfIssued + 1 /\ UNCHANGED <<pfUseful, halved>>

CountIssuedLate ==
  IF pfIssued > CounterMax
  THEN /\ pfIssued' = (pfIssued + 1) \div 2
       /\ pfUseful' = pfUseful \div 2
       /\ halved' = TRUE
  ELSE /\ pfIssued' = pfIssued + 1
       /\ UNCHANGED <<pfUseful, halved>>

CountIssued ==
  IF pfIssued + 1 > CounterMax
  THEN /\ pfIssued' = (pfIssued + 1) \div 2
       /\ pfUseful' = pfUseful \div 2
       /\ halved' = TRUE
  ELSE /\ pfIssued' = pfIssued + 1
       /\ UNCHANGED <<pfUseful, halved>>

(* SPP_L2C_PREFETCH, then the count of the prefetch issued.                *)
IssueL2(line) ==
  LET q == QuotientOf[line]
  IN  /\ ~Known(line)
      /\ fValid' = [fValid EXCEPT ![q] = TRUE]
      /\ fUseful' = [fUseful EXCEPT ![q] = FALSE]
      /\ fTag' = [fTag EXCEPT ![q] = RemainderOf[line]]
      /\ CountIssued

(* L2C_DEMAND: the first use of a prefetched line counts as useful.        *)
Demand(line) ==
  LET q == QuotientOf[line]
  IN  /\ IF FilterMatches(line) /\ ~fUseful[q]
         THEN /\ fUseful' = [fUseful EXCEPT ![q] = TRUE]
              /\ pfUseful' = IF fValid[q] THEN pfUseful + 1 ELSE pfUseful
         ELSE UNCHANGED <<fUseful, pfUseful>>
      /\ UNCHANGED <<fValid, fTag, pfIssued, halved>>

(* L2C_EVICT: whatever line the set stands for, its entry is reset.        *)
(* (Mutant: the entry of a prefetch not used is left.)                     *)
EvictKeepsUnused(line) ==
  LET q == QuotientOf[line]
  IN  /\ pfUseful' = IF fValid[q] /\ ~fUseful[q] /\ pfUseful > 0 THEN pfUseful - 1 ELSE pfUseful
      /\ fValid' = [fValid EXCEPT ![q] = @ /\ ~fUseful[q]]
      /\ fUseful' = [fUseful EXCEPT ![q] = FALSE]
      /\ UNCHANGED <<fTag, pfIssued, halved>>

Evict(line) ==
  LET q == QuotientOf[line]
  IN  /\ pfUseful' = IF fValid[q] /\ ~fUseful[q] /\ pfUseful > 0 THEN pfUseful - 1 ELSE pfUseful
      /\ fValid' = [fValid EXCEPT ![q] = FALSE]
      /\ fUseful' = [fUseful EXCEPT ![q] = FALSE]
      /\ fTag' = [fTag EXCEPT ![q] = 0]
      /\ UNCHANGED <<pfIssued, halved>>

FilterNext == \E line \in Lines : IssueL2(line) \/ Demand(line) \/ Evict(line)

FilterSpec == FilterInit /\ [][FilterNext]_filterVars
-----------------------------------------------------------------------------
(* The prefetches that the filter remembers and that were not used yet.    *)
Outstanding == {q \in Quotients : fValid[q] /\ ~fUseful[q]}

FilterTypeOK ==
  /\ fValid \in [Quotients -> BOOLEAN]
  /\ fUseful \in [Quotients -> BOOLEAN]
  /\ fTag \in [Quotients -> Remainders]
  /\ pfIssued \in 0 .. CounterMax
  /\ pfUseful \in Nat
  /\ halved \in BOOLEAN

(***************************************************************************)
(* Until the counters are first halved, each useful prefetch and each one  *)
(* that may still become useful was issued: the accuracy is a percentage.  *)
(***************************************************************************)
UsefulWereIssued == ~halved => pfUseful + Cardinality(Outstanding) <= pfIssued

(***************************************************************************)
(* Halving forgets issued prefetches that may still become useful, so the  *)
(* counters drift apart, but never by more than the sets of the filter.    *)
(***************************************************************************)
DriftBounded ==
  pfUseful + Cardinality(Outstanding) <= pfIssued + Cardinality(Quotients)

FilterIInv == FilterTypeOK /\ UsefulWereIssued /\ DriftBounded
=============================================================================
