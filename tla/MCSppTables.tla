---------------------------- MODULE MCSppTables ----------------------------
(***************************************************************************)
(* The four tables of SPP for TLC, each on its own and fed with any legal  *)
(* input: `part' names the one that runs, the others stay as initialised.  *)
(*                                                                         *)
(* Signature table: one set of three ways, and five pages of which two     *)
(* share a partial tag.  Pattern table: two signatures that share a set of *)
(* three ways, four deltas that compete for them, and three bits of C_SIG, *)
(* so that the counters are halved again and again.  Global register:      *)
(* two entries and three offsets.  Filter: two sets, beside a cache of     *)
(* two ways; lines 1 and 2 share a set, line 3 shares one with address 0.  *)
(***************************************************************************)
EXTENDS SignatureTable, PatternTable, GlobalRegister, FilterInCache

MCPages == 0 .. 4
MCOffsets == 0 .. 2
MCSigs == 0 .. 1
MCNextSig(s, d) == (s + d) % 2
MCStSets == {0}
MCTags == 0 .. 3
MCStSetOf == [p \in MCPages |-> 0]
MCTagOf == [p \in MCPages |-> p % 4]
MCPtSets == {0}
MCPtSetOf == [s \in MCSigs |-> 0]
MCPercents == {0, 1, 5, 25, 50, 90, 99, 100}
MCConfs == {25, 60, 99}
MCLines == 0 .. 3
MCQuotients == 0 .. 1
MCRemainders == 0 .. 1
MCQuotientOf == [l \in MCLines |-> IF l \in {1, 2} THEN 1 ELSE 0]
MCRemainderOf == [l \in MCLines |-> IF l \in {0, 1} THEN 0 ELSE 1]
MCAnyAnswer == BOOLEAN

VARIABLES
  part,    \* the table that runs
  recency  \* history: in each set <<t, u>> if tags t and u were accessed, and u not after t

tablesVars == <<stVars, ptVars, ghrVars, vars, part, recency>>

TablesInit ==
  /\ StInit /\ PtInit /\ GhrInit /\ CacheInit
  /\ part \in {"signatures", "patterns", "register", "filter"}
  /\ recency = [s \in StSets |-> {}]

Seen(s) == {t \in Tags : <<t, t>> \in recency[s]}

(* The tag becomes the latest of its set.                                  *)
Touched(s, tag) ==
  {pair \in recency[s] : pair[1] # tag /\ pair[2] # tag}
    \union {<<tag, t>> : t \in Seen(s) \union {tag}}

Signatures ==
  /\ part = "signatures"
  /\ \E p \in Pages, off \in Offsets, boot \in Sigs :
       /\ ReadAndUpdateSig(p, off, boot)
       /\ recency' = [recency EXCEPT ![StSetOf[p]] = Touched(StSetOf[p], TagOf[p])]
  /\ UNCHANGED <<ptVars, ghrVars, vars, part>>

Patterns ==
  /\ part = "patterns" /\ PtNext
  /\ UNCHANGED <<stVars, ghrVars, vars, part, recency>>

Register ==
  /\ part = "register" /\ GhrNext
  /\ UNCHANGED <<stVars, ptVars, vars, part, recency>>

Filter ==
  /\ part = "filter" /\ CacheNext
  /\ UNCHANGED <<stVars, ptVars, ghrVars, part, recency>>

TablesNext == Signatures \/ Patterns \/ Register \/ Filter

TablesSpec == TablesInit /\ [][TablesNext]_tablesVars
-----------------------------------------------------------------------------
TypeOK == StTypeOK /\ PtTypeOK /\ GhrTypeOK /\ FilterTypeOK

(* No table ever fails to find the victim it asserts to find.              *)
VictimsFound == StNeverAborts /\ PtNeverAborts /\ VictimFound

Stored(s, t) == \E w \in StWays : stValid[s][w] /\ stTag[s][w] = t

(***************************************************************************)
(* The entries of the signature table are those of the most recently       *)
(* accessed pages of the set: a page it has no entry of was accessed       *)
(* before every page that it has one of, and only a full set lacks any.    *)
(***************************************************************************)
KeepsMostRecent ==
  \A s \in StSets :
    /\ \A w \in StWays : stValid[s][w] => stTag[s][w] \in Seen(s)
    /\ \A t \in Seen(s) :
         \/ Stored(s, t)
         \/ \A w \in StWays : stValid[s][w] /\ <<t, stTag[s][w]>> \notin recency[s]
=============================================================================
