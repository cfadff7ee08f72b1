----------------------------- MODULE MCFrontEnd -----------------------------
(***************************************************************************)
(* The values of the front end's constants for TLC.                        *)
(*                                                                         *)
(* Two branches share a perceptron; up to three are in flight, of which    *)
(* the buffer holds two.  The program of the branch target buffer has two  *)
(* calls of different sizes that share no tracker and one that shares with *)
(* the first, more nesting than the stack holds, and three direct branches *)
(* for two ways.                                                           *)
(***************************************************************************)
EXTENDS FrontEnd, Bitwise

(* gs_table_hash, with the history as the number it is in the code.        *)
MCGsTableHash(ip, history) ==
  LET vector == MapThenSumSet(LAMBDA i : IF history[i] THEN 2^(i - 1) ELSE 0, GsBits)
      shifted == ip \div 2^GsHistoryLength
      again == ip \div 2^(2 * GsHistoryLength)
  IN  ((ip ^^ shifted) ^^ (again ^^ vector)) % GsHistoryTableSize

MCBranches ==
  {[ip |-> 4, type |-> "DIRECT_CALL", size |-> 2, targets |-> {100}],
   [ip |-> 9, type |-> "INDIRECT_CALL", size |-> 5, targets |-> {100, 104}],
   [ip |-> 16, type |-> "DIRECT_CALL", size |-> 3, targets |-> {100}],
   [ip |-> 100, type |-> "RETURN", size |-> 1, targets |-> {50}],
   [ip |-> 28, type |-> "CONDITIONAL", size |-> 2, targets |-> {40}]}

MCHistoryLengths == <<0, 2>>
MCLowestWeight == -2

MCIndirectHash(ip, history) == (ip + history) % 2

(* A branch; more sources than slots, with a repeated one, one that is     *)
(* another in eight bits and one that is 0; and an instruction that reads  *)
(* and writes one address and writes more than it has slots for.           *)
MCProgram ==
  {[ip |-> 1, isBranch |-> TRUE, taken |-> TRUE, reads |-> <<1>>, writes |-> <<>>, memory |-> <<>>],
   [ip |-> 2, isBranch |-> FALSE, taken |-> FALSE, reads |-> <<1, 5, 4, 2, 3>>, writes |-> <<2>>,
    memory |-> <<[address |-> 8, read |-> TRUE, written |-> FALSE]>>],
   [ip |-> 3, isBranch |-> FALSE, taken |-> FALSE, reads |-> <<>>, writes |-> <<3, 3>>,
    memory |-> <<[address |-> 8, read |-> TRUE, written |-> TRUE],
                 [address |-> 9, read |-> FALSE, written |-> TRUE]>>]}

MCKnobs == {[skip |-> 0, trace |-> 2], [skip |-> 1, trace |-> 2], [skip |-> 1, trace |-> 0]}

(* Doubles of four bits: 10 / 9 is rounded up, 10 / 3 down and with half   *)
(* the accuracy, 10 / 5 is a double.                                       *)
MCFrequencies == {10, 9, 5, 3}

(* The hierarchies differ in what is below the data and second-level       *)
(* caches; X and Y are further caches of the user.                         *)
MCCacheOrder == <<"X", "Y", "LLC", "L1I", "L1D", "L2C", "ITLB", "DTLB", "STLB">>

MCHierarchies ==
  {[ITLB |-> itlb, DTLB |-> "STLB", L1I |-> "L2C", Y |-> "DRAM", L1D |-> l1d, L2C |-> l2c,
    LLC |-> llc, STLB |-> stlb, PTW |-> ptw, X |-> x] :
     itlb \in {"STLB", "Y"}, l1d \in {"L2C", "LLC", "DRAM"}, l2c \in {"LLC", "STLB", "X", "undefined"},
     llc \in {"DRAM", "L2C", "X"}, stlb \in {"PTW", "L2C"}, ptw \in {"L1D", "L2C", "Y"},
     x \in {"LLC", "DRAM", "Y"}}
=============================================================================
