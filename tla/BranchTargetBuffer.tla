------------------------- MODULE BranchTargetBuffer -------------------------
(***************************************************************************)
(* The basic branch target buffer (btb/basic_btb): a set-associative table *)
(* of direct branches, a table of indirect ones, and a return address      *)
(* stack with a table of the sizes of calls.  A call is pushed when it is  *)
(* predicted and popped when its return is updated, so that the update of  *)
(* a branch has to come before the next prediction; the processor that     *)
(* does so, and the program, are external.                                 *)
(*                                                                         *)
(* basic_btb_lru_counter only grows and only the order of its values is    *)
(* read: they are kept as ranks.  No branch is at address 0, the mark of   *)
(* an entry and of a place of the stack that hold none.                    *)
(***************************************************************************)
EXTENDS Integers, Sequences, SequencesExt

CONSTANTS
  Branches,         \* the program's: their ip, type, size and targets
  BtbSets, BtbWays,
  RasSize,
  CallTrackers,     \* BASIC_BTB_CALL_INSTR_SIZE_TRACKERS
  MaxCallSize,      \* 10: what may be the size of a call
  IndirectSize,
  IndirectHash(_, _),  \* of the address and the conditional history
  HistoryMask,      \* the conditional history, modulo this
  MaxCalls          \* bound on the calls of the program that are remembered

ASSUME BtbAssumption ==
  /\ {BtbSets, BtbWays, RasSize, CallTrackers, IndirectSize, HistoryMask} \subseteq Nat \ {0}
  /\ MaxCallSize \in Nat /\ MaxCalls \in Nat /\ MaxCalls >= RasSize
  /\ \A b \in Branches :
       /\ b.ip \in Nat \ {0} /\ b.size \in Nat /\ b.targets \subseteq Nat
       /\ b.type # "NONE"
  /\ \A b, c \in Branches : b.ip = c.ip => b = c
  /\ \A ip \in {b.ip : b \in Branches}, history \in 0 .. HistoryMask - 1 :
       IndirectHash(ip, history) \in 0 .. IndirectSize - 1

VARIABLES
  entries,          \* basic_btb
  lruCounter,
  indirect, conditionalHistory,
  ras, rasIndex, callSizes,
  resolving,        \* the branch that is predicted and not updated
  calls,            \* history: the calls that have not returned, latest last
  intact,           \* history: how many of them the stack still holds
  lastReturned,     \* history: the call that last trained each tracker
  lastUses          \* history: in each set <<a, b>> if the last use of b is not after that of a

btbVars == <<entries, lruCounter, indirect, conditionalHistory, ras, rasIndex, callSizes,
             resolving, calls, intact, lastReturned, lastUses>>

Sets == 0 .. BtbSets - 1
Ways == 0 .. BtbWays - 1
Stack == 0 .. RasSize - 1
Resolved == [ip |-> 0, type |-> "NONE", size |-> 0, targets |-> {}]

Calls == {"DIRECT_CALL", "INDIRECT_CALL"}
Indirects == {"INDIRECT", "INDIRECT_CALL"}

BtbInit ==
  /\ entries = [s \in Sets |-> [w \in Ways |->
                 [ipTag |-> 0, target |-> 0, alwaysTaken |-> FALSE, lru |-> 0]]]
  /\ lruCounter = 0
  /\ indirect = [i \in 0 .. IndirectSize - 1 |-> 0] /\ conditionalHistory = 0
  /\ ras = [i \in Stack |-> 0] /\ rasIndex = 0
  /\ callSizes = [i \in 0 .. CallTrackers - 1 |-> 4]
  /\ resolving = Resolved
  /\ calls = <<>> /\ intact = 0
  /\ lastReturned = [i \in 0 .. CallTrackers - 1 |-> 0]
  /\ lastUses = [s \in Sets |-> {}]
-----------------------------------------------------------------------------
SetIndex(ip) == (ip \div 4) % BtbSets

Found(ip) == {w \in Ways : entries[SetIndex(ip)][w].ipTag = ip}

LruWay(s) == Min({w \in Ways : \A v \in Ways : entries[s][w].lru <= entries[s][v].lru})

(* What the field of an entry becomes when it is used.                     *)
(* (Mutant: only an allocation sets it.)                                   *)
StampAllocated(old, new) == IF new.ipTag = old.ipTag THEN old.lru ELSE lruCounter

Stamp(old, new) == lruCounter

(* The branch `ip' is the latest of those used, and `gone' is no longer    *)
(* one of them.                                                            *)
Latest(uses, ip, gone) ==
  LET kept == {pair \in uses : pair[1] \notin {ip, gone} /\ pair[2] \notin {ip, gone}}
  IN  kept \union {<<ip, pair[1]>> : pair \in kept} \union {<<ip, ip>>}

Rank(value, values) == Cardinality({other \in values : other < value})

(* Entry w of set s becomes `entry' and is the latest used: its field gets *)
(* the counter, which is incremented.                                      *)
Use(s, w, entry) ==
  LET lru(t, v) == IF t = s /\ v = w THEN Stamp(entries[s][w], entry) ELSE entries[t][v].lru
      values == {lru(t, v) : t \in Sets, v \in Ways} \union {lruCounter + 1}
      Used(t, v) == IF t = s /\ v = w THEN entry ELSE entries[t][v]
  IN  /\ entries' = [t \in Sets |-> [v \in Ways |->
                       [ipTag |-> Used(t, v).ipTag, target |-> Used(t, v).target,
                        alwaysTaken |-> Used(t, v).alwaysTaken, lru |-> Rank(lru(t, v), values)]]]
      /\ lruCounter' = Rank(lruCounter + 1, values)
      /\ lastUses' = [lastUses EXCEPT ![s] = Latest(@, entry.ipTag, entries[s][w].ipTag)]

Tracker(ip) == ip % CallTrackers

Peek == ras[rasIndex]

(* (Mutant: the first push after the wrap keeps the index.)                *)
PushUnwrapped(ip) ==
  LET top == Min({rasIndex + 1, RasSize - 1})
  IN  rasIndex' = top /\ ras' = [ras EXCEPT ![top] = ip]

Push(ip) ==
  LET top == IF rasIndex + 1 = RasSize THEN 0 ELSE rasIndex + 1
  IN  rasIndex' = top /\ ras' = [ras EXCEPT ![top] = ip]

Pop ==
  /\ ras' = [ras EXCEPT ![rasIndex] = 0]
  /\ rasIndex' = IF rasIndex = 0 THEN RasSize - 1 ELSE rasIndex - 1

(* The calls that are remembered when one more is made.                    *)
Remembered(earlier, ip) ==
  LET longer == Append(earlier, ip)
  IN  IF Len(longer) > MaxCalls THEN Tail(longer) ELSE longer

(* What btb_prediction gives for a return.                                 *)
ReturnTarget == Peek + callSizes[Tracker(Peek)]

(* btb_prediction: a call is pushed; of the branches that use the table,   *)
(* calls that are direct among them, an entry that is found is used.       *)
BtbPrediction(branch) ==
  /\ resolving = Resolved
  /\ resolving' = branch
  /\ IF branch.type \in Calls
     THEN /\ Push(branch.ip)
          /\ calls' = Remembered(calls, branch.ip)
          /\ intact' = Min({intact + 1, RasSize})
     ELSE UNCHANGED <<ras, rasIndex, calls, intact>>
  /\ IF branch.type \notin Indirects \union {"RETURN"} /\ Found(branch.ip) # {}
     THEN LET s == SetIndex(branch.ip)
              w == Min(Found(branch.ip))
          IN  Use(s, w, entries[s][w])
     ELSE UNCHANGED <<entries, lruCounter, lastUses>>
  /\ UNCHANGED <<indirect, conditionalHistory, callSizes, lastReturned>>

(* update_btb of a return that goes to the target.                         *)
UpdateReturn(target) ==
  LET size == IF Peek > target THEN Peek - target ELSE target - Peek
      tracker == Tracker(Peek)
  IN  /\ resolving.type = "RETURN"
      /\ target \in IF calls = <<>> THEN resolving.targets
                    ELSE {b.ip + b.size : b \in {c \in Branches : c.ip = Last(calls)}}
      /\ Pop
      /\ IF size <= MaxCallSize
         THEN /\ callSizes' = [callSizes EXCEPT ![tracker] = size]
              /\ lastReturned' = [lastReturned EXCEPT ![tracker] = Peek]
         ELSE UNCHANGED <<callSizes, lastReturned>>
      /\ calls' = IF calls = <<>> THEN <<>> ELSE Front(calls)
      /\ intact' = Max({intact - 1, 0})
      /\ UNCHANGED <<entries, lruCounter, lastUses, indirect, conditionalHistory>>

(* update_btb of an indirect branch or call.                               *)
UpdateIndirect(target) ==
  /\ resolving.type \in Indirects /\ target \in resolving.targets
  /\ indirect' = [indirect EXCEPT ![IndirectHash(resolving.ip, conditionalHistory)] = target]
  /\ UNCHANGED <<entries, lruCounter, lastUses, conditionalHistory>>
  /\ UNCHANGED <<ras, rasIndex, callSizes, calls, intact, lastReturned>>

(* update_btb of the others: an entry is allocated for a branch that is    *)
(* taken, and stops to be taken always once the branch is not.  A branch   *)
(* that is not taken has no target.                                        *)
UpdateDirect(target, taken) ==
  LET ip == resolving.ip
      s == SetIndex(ip)
      w == Min(Found(ip))
  IN  /\ resolving.type \notin Indirects \union {"RETURN", "NONE"}
      /\ taken \/ resolving.type = "CONDITIONAL"
      /\ IF taken THEN target \in resolving.targets ELSE target = 0
      /\ conditionalHistory' =
           IF resolving.type = "CONDITIONAL"
           THEN (2 * conditionalHistory + (IF taken THEN 1 ELSE 0)) % HistoryMask
           ELSE conditionalHistory
      /\ \/ /\ Found(ip) = {} /\ target # 0 /\ taken
            /\ Use(s, LruWay(s), [ipTag |-> ip, target |-> target, alwaysTaken |-> TRUE, lru |-> 0])
         \/ /\ Found(ip) = {} /\ ~taken
            /\ UNCHANGED <<entries, lruCounter, lastUses>>
         \/ /\ Found(ip) # {}
            /\ entries' = [entries EXCEPT ![s][w] =
                 [ipTag |-> ip, target |-> target,
                  alwaysTaken |-> @.alwaysTaken /\ taken, lru |-> @.lru]]
            /\ UNCHANGED <<lruCounter, lastUses>>
      /\ UNCHANGED <<indirect, ras, rasIndex, callSizes, calls, intact, lastReturned>>

Targets == {0} \union UNION {b.targets \union {b.ip + b.size} : b \in Branches}

UpdateBtb ==
  /\ resolving # Resolved
  /\ resolving' = Resolved
  /\ \E target \in Targets :
       \/ UpdateReturn(target)
       \/ UpdateIndirect(target)
       \/ \E taken \in BOOLEAN : UpdateDirect(target, taken)

BtbNext == (\E branch \in Branches : BtbPrediction(branch)) \/ UpdateBtb

BtbSpec == BtbInit /\ [][BtbNext]_btbVars
-----------------------------------------------------------------------------
BtbTypeOK ==
  /\ \A s \in Sets, w \in Ways :
       /\ entries[s][w].ipTag \in {b.ip : b \in Branches} \union {0}
       /\ entries[s][w].target \in Targets
  /\ conditionalHistory \in 0 .. HistoryMask - 1
  /\ rasIndex \in Stack /\ \A i \in Stack : ras[i] \in {b.ip : b \in Branches} \union {0}
  /\ \A i \in DOMAIN callSizes : callSizes[i] \in 0 .. Max({MaxCallSize, 4})
  /\ resolving \in Branches \union {Resolved}

(***************************************************************************)
(* A return is predicted to where it goes, for any nesting of calls and    *)
(* for returns without a call: when the program is at most RasSize calls   *)
(* further in than the call returned to, and that call was the last to     *)
(* train its tracker, the stack has its address and the tracker its size.  *)
(***************************************************************************)
ReturnsFindTheirCalls ==
  intact > 0 /\ lastReturned[Tracker(Last(calls))] = Last(calls) =>
    ReturnTarget \in {b.ip + b.size : b \in {c \in Branches : c.ip = Last(calls)}}

(***************************************************************************)
(* A full set replaces the entry whose last use, a prediction or its       *)
(* allocation, was the earliest of the set.                                *)
(***************************************************************************)
ReplacesEarliestUse ==
  \A s \in Sets :
    (\A w \in Ways : entries[s][w].ipTag # 0) =>
      \A w \in Ways : <<entries[s][w].ipTag, entries[s][LruWay(s)].ipTag>> \in lastUses[s]
=============================================================================
