------------------------------ MODULE MCSppDev ------------------------------
(***************************************************************************)
(* SppDev for TLC: three pages of four blocks, and a program that reads    *)
(* them block after block and page after page, but jumps to some other     *)
(* block MaxJumps times.  Signatures tell deltas of one from the others.   *)
(***************************************************************************)
EXTENDS SppDev

CONSTANTS
  MaxAccesses,  \* bound on the accesses of the program
  MaxJumps,     \* bound on those that do not go to the next block
  MaxInflight   \* bound on the lines an access finds on their way

MCPages == 0 .. 2
MCOffsets == 0 .. 3
MCSigs == 0 .. 2
MCNextSig(s, d) == IF d = 1 THEN 1 ELSE 2
MCStSets == {0}
MCTags == 0 .. 2
MCStSetOf == [p \in MCPages |-> 0]
MCTagOf == [p \in MCPages |-> p]
MCPtSets == 0 .. 2
MCPtSetOf == [s \in MCSigs |-> s]
MCPercents == {0, 50, 100}
MCConfs == 25 .. 99
MCNoLine == <<3, 0>>
MCLines == (MCPages \X MCOffsets) \union {MCNoLine}
MCQuotients == 0 .. 3
MCRemainders == 0 .. 2
MCQuotientOf == [l \in MCLines |-> l[2]]
MCRemainderOf == [l \in MCLines |-> IF l = MCNoLine THEN 0 ELSE l[1]]
MCAnyAnswer == BOOLEAN
MCAlwaysTaken == {TRUE}

VARIABLES accesses, jumps, last  \* the accesses and jumps so far, the last access

walkVars == <<accesses, jumps, last>>

WalkInit == SppInit /\ accesses = 0 /\ jumps = 0 /\ last = <<2, 3>>

NextBlock ==
  IF last[2] + 1 \in Offsets THEN <<last[1], last[2] + 1>> ELSE <<(last[1] + 1) % 3, 0>>

Walk(page, off) ==
  /\ accesses < MaxAccesses /\ accesses' = accesses + 1
  /\ Cardinality(inflight) <= MaxInflight
  /\ IF <<page, off>> = NextBlock
     THEN UNCHANGED jumps
     ELSE jumps < MaxJumps /\ jumps' = jumps + 1
  /\ last' = <<page, off>>
  /\ Operate(page, off)

WalkNext ==
  \/ \E page \in Pages, off \in Offsets : Walk(page, off)
  \/ Hook /\ UNCHANGED walkVars
  \/ \E line \in Lines \ {NoLine} : CacheStep(line) /\ UNCHANGED walkVars

WalkSpec ==
  WalkInit /\ [][WalkNext]_<<sppVars, walkVars>> /\ WF_<<sppVars, walkVars>>(Hook /\ UNCHANGED walkVars)
=============================================================================
