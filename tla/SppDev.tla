------------------------------- MODULE SppDev -------------------------------
(***************************************************************************)
(* The SPP prefetcher (prefetcher/spp_dev/spp_dev.cc): the four tables and *)
(* the hook prefetcher_cache_operate that drives them at each access of    *)
(* the L2.  The hook trains the tables (Access), then walks a path of      *)
(* predicted deltas: it reads the candidates of a signature (ReadPattern), *)
(* sends each to the filter or, over a page boundary, to the global        *)
(* register, and moves on along the most confident one (Advance).          *)
(*                                                                         *)
(* The hook is sequential code: between its steps only its own next step   *)
(* can happen.  Addresses are a page and a block position relative to the  *)
(* page of the access; the position may leave the page.                    *)
(***************************************************************************)
EXTENDS SignatureTable, PatternTable, GlobalRegister, FilterInCache

CONSTANTS
  PfThreshold,    \* PF_THRESHOLD
  FillThreshold,  \* FILL_THRESHOLD
  MshrSize,       \* MSHR_SIZE, the length of confidence_q and delta_q
  Decisions       \* what a perceptron filter may say: only TRUE without one

PageBlocks == Cardinality(Offsets)

ASSUME SppDevAssumption ==
  /\ PageBlocks \in Nat /\ Offsets = 0 .. PageBlocks - 1
  /\ Pages \X Offsets \subseteq Lines \ {NoLine}
  /\ PfThreshold \in 1 .. 100 /\ FillThreshold \in PfThreshold .. 100
  /\ MshrSize \in Nat \ {0}
  /\ Decisions \subseteq BOOLEAN

VARIABLES
  pc,        \* where the hook is; "idle" when it is not running
  accuracy,  \* GHR.global_accuracy
  base, path, queue  \* the locals of the hook

lookVars == <<base, path, queue>>
sppVars == <<stVars, ptVars, ghrVars, vars, pc, accuracy, lookVars>>

(***************************************************************************)
(* The locals as an access sets them.  base: its page, base_addr as a      *)
(* position, curr_sig; path: lookahead_conf, whether depth is positive,    *)
(* lookahead_way; queue: the candidates not handled yet (by the way they   *)
(* were read from, which is their order in the two arrays), pf_q_tail, and *)
(* how many slots of the arrays have been written.                         *)
(***************************************************************************)
Base(page, pos, sig) == [page |-> page, pos |-> pos, sig |-> sig]
Path == [conf |-> 100, deep |-> FALSE, way |-> PtWay]
Queue == [waiting |-> <<>>, tail |-> 0, slots |-> 1]

SppInit ==
  /\ StInit /\ PtInit /\ GhrInit /\ CacheInit
  /\ pc = "idle" /\ accuracy = 0
  /\ base = Base(0, 0, 0) /\ path = Path /\ queue = Queue
-----------------------------------------------------------------------------
(* The signature the global register has for a page entered at an offset.  *)
Boot(off) ==
  IF CheckEntry(off) = {} THEN 0
  ELSE LET e == ghr[Min(CheckEntry(off))] IN NextSig(e.sig, e.delta)

(***************************************************************************)
(* Stages 1 and 2 of the hook.  The accuracy is that before the access,    *)
(* and the pattern table is trained when there was a delta and a           *)
(* signature before it.                                                    *)
(***************************************************************************)
Train(page, off) ==
  IF LastSig(page, off) # 0
  THEN UpdatePattern(LastSig(page, off), DeltaOf(page, off))
  ELSE UNCHANGED ptVars

Operate(page, off) ==
  /\ pc = "idle"
  /\ accuracy' = Accuracy
  /\ ReadAndUpdateSig(page, off, Boot(off))
  /\ Access(<<page, off>>)
  /\ Train(page, off)
  /\ base' = Base(page, off, CurrSig(page, off, Boot(off))) /\ path' = Path /\ queue' = Queue
  /\ pc' = "read"
  /\ UNCHANGED ghrVars

(* The confidence read_pattern gives a way of the set of curr_sig.         *)
(* (Mutant: the accuracy and the path are left out.)                       *)
ConfidenceLocal(w) == LocalConf(PtSetOf[base.sig], w)

Confidence(w) ==
  LET s == PtSetOf[base.sig]
  IN  IF path.deep THEN PathConf(s, w, accuracy, path.conf) ELSE LocalConf(s, w)

(***************************************************************************)
(* read_pattern: the ways confident enough are queued, in order; the first *)
(* of the most confident ones leads on.  A set that counted nothing clears *)
(* the slot at pf_q_tail.                                                  *)
(***************************************************************************)
ReadPattern ==
  LET s == PtSetOf[base.sig]
      ways == {w \in PtWays : Confidence(w) >= PfThreshold}
      best == Min({w \in ways : \A v \in ways : Confidence(v) <= Confidence(w)})
      tail == queue.tail + Cardinality(ways)
      written == IF ways = {} /\ ptCSig[s] = 0 THEN tail + 1 ELSE tail
  IN  /\ pc = "read" /\ pc' = "issue"
      /\ path' = IF ways = {}
                 THEN [path EXCEPT !.way = PtWay]
                 ELSE [conf |-> Confidence(best), deep |-> TRUE, way |-> best]
      /\ queue' =
           [waiting |-> [w \in ways |-> [conf |-> Confidence(w), delta |-> ptDelta[s][w]]],
            tail |-> tail, slots |-> Max({queue.slots, written})]
      /\ UNCHANGED <<stVars, ptVars, ghrVars, vars, accuracy, base>>

(* The candidate to handle next, and the position it is predicted at.      *)
Waiting == DOMAIN queue.waiting
Candidate == queue.waiting[Min(Waiting)]
Target == base.pos + Candidate.delta

TakeCandidate ==
  /\ pc = "issue" /\ Waiting # {}
  /\ queue' = [queue EXCEPT !.waiting = [w \in Waiting \ {Min(Waiting)} |-> queue.waiting[w]]]
  /\ UNCHANGED <<stVars, ptVars, pc, accuracy, base, path>>

(***************************************************************************)
(* Under a perceptron filter (prefetcher/ppf_spp_dev_3, whose hook is this *)
(* one otherwise) a candidate of the page may be turned down; the prefetch *)
(* filter is not asked then, but the lookahead goes on.                    *)
(***************************************************************************)
TurnDown ==
  /\ TakeCandidate
  /\ Target \in Offsets /\ FALSE \in Decisions
  /\ UNCHANGED <<ghrVars, vars>>

(* In the page and new to the filter, with confidence to fill the L2.      *)
PrefetchL2 ==
  /\ TakeCandidate
  /\ Target \in Offsets /\ Candidate.conf >= FillThreshold
  /\ Prefetch(<<base.page, Target>>)
  /\ UNCHANGED ghrVars

(* Known to the filter, or for the LLC, which leaves no trace here.        *)
PrefetchLLCOrNot ==
  /\ TakeCandidate
  /\ Target \in Offsets
  /\ Candidate.conf < FillThreshold \/ Known(<<base.page, Target>>)
  /\ UNCHANGED <<ghrVars, vars>>

(* Over the page boundary: the global register keeps it.                   *)
CrossPage ==
  /\ TakeCandidate
  /\ Target \notin Offsets
  /\ UpdateEntry(base.sig, Candidate.conf, Target % PageBlocks, Candidate.delta)
  /\ UNCHANGED vars

(* The loop goes on as long as something was queued.                       *)
(* (Mutant: do_lookahead is not reset.)                                    *)
DoLookaheadAlways == TRUE

DoLookahead == path.way < PtWay

(* The base address and the signature move along the most confident way.   *)
Advance ==
  /\ pc = "issue" /\ Waiting = {}
  /\ LET d == ptDelta[PtSetOf[base.sig]][path.way]
     IN  base' = IF path.way < PtWay
                 THEN Base(base.page, base.pos + d, NextSig(base.sig, d))
                 ELSE base
  /\ pc' = IF DoLookahead THEN "read" ELSE "idle"
  /\ UNCHANGED <<stVars, ptVars, ghrVars, vars, accuracy, path, queue>>

Hook == ReadPattern \/ TurnDown \/ PrefetchL2 \/ PrefetchLLCOrNot \/ CrossPage \/ Advance

(* The cache calls its hooks one at a time.                                *)
CacheStep(line) ==
  /\ pc = "idle"
  /\ Fill(line) \/ Drop(line)
  /\ UNCHANGED <<stVars, ptVars, ghrVars, pc, accuracy, lookVars>>

SppNext ==
  \/ \E page \in Pages, off \in Offsets : Operate(page, off)
  \/ Hook
  \/ \E line \in Lines \ {NoLine} : CacheStep(line)

SppSpec == SppInit /\ [][SppNext]_sppVars /\ WF_sppVars(Hook)
-----------------------------------------------------------------------------
(***************************************************************************)
(* The two arrays of MSHR_SIZE entries are never overrun, although nothing *)
(* in the loop looks at their size.                                        *)
(***************************************************************************)
QueueInBounds == queue.slots <= MshrSize

(***************************************************************************)
(* The hook trains the pattern table as it expects: with a delta that is   *)
(* not zero, so that the theorems about the table hold in the prefetcher.  *)
(***************************************************************************)
UsesPatternTable == PtSpec

(***************************************************************************)
(* It uses the signature table and the filter as they expect, and, if any  *)
(* confidence may be given to it, the register.                            *)
(***************************************************************************)
UsesOtherTables == StSpec /\ CacheSpec

UsesRegister == GhrSpec

(* Every access returns: the lookahead loop ends.                          *)
AccessReturns == pc # "idle" ~> pc = "idle"

(* `Cannot find a replacement victim!' of update_entry is not reached.     *)
RegisterNeverAborts == ~ghrAborted
=============================================================================
