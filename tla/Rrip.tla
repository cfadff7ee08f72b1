-------------------------------- MODULE Rrip --------------------------------
(***************************************************************************)
(* What SRRIP and DRRIP share (replacement/srrip and replacement/drrip):   *)
(* BLOCK::lru holds a re-reference prediction from 0 (soon) to maxRRPV     *)
(* (distant), and find_victim takes the first block predicted distant.     *)
(***************************************************************************)
EXTENDS ReplacementParams, FiniteSetsExt

CONSTANT FieldSize  \* lru is a uint32_t: 2^32

MaxRRPV == 3

ASSUME RripAssumption ==
  /\ FieldSize \in Nat /\ FieldSize > MaxRRPV + 1
  /\ FreshLru \in MaxRRPV .. FieldSize - 1

VARIABLES
  rripValid, \* BLOCK::valid of each way, written by the cache
  rrpv,      \* BLOCK::lru of each way
  inserted,  \* history: the ways inserted and not promoted since
  outlives   \* history: <<w, v>> when w was promoted after v was inserted

rripVars == <<rripValid, rrpv, inserted, outlives>>

RripInit(initial) ==
  /\ rripValid = [w \in Ways |-> FALSE]
  /\ rrpv = [w \in Ways |-> initial]
  /\ inserted = {} /\ outlives = {}
-----------------------------------------------------------------------------
(***************************************************************************)
(* find_victim.  The loop increments all blocks until one is at maxRRPV;   *)
(* a block already beyond it gets there over the wrap of the field.        *)
(***************************************************************************)
Rounds == Min({(MaxRRPV - rrpv[w]) % FieldSize : w \in Ways})

AgedRow == [w \in Ways |-> (rrpv[w] + Rounds) % FieldSize]

Victim == Min({w \in Ways : AgedRow[w] = MaxRRPV})

RripFree == {w \in Ways : ~rripValid[w]}

(* The way a fill goes to, and the fields as it finds them.                *)
RripFillWay == IF RripFree # {} THEN Min(RripFree) ELSE Victim

RripFillRow == IF RripFree # {} THEN rrpv ELSE AgedRow

(* The history after w was given a new prediction.                         *)
RecordPromoted(w) ==
  /\ inserted' = inserted \ {w}
  /\ outlives' = {p \in outlives : w \notin {p[1], p[2]}} \union ({w} \X (inserted \ {w}))

RecordInserted(w) ==
  /\ inserted' = inserted \union {w}
  /\ outlives' = {p \in outlives : w \notin {p[1], p[2]}}

(* A hit on w, and a fill of w, that leave its field at `value'.           *)
SetOnHit(w, value) ==
  /\ rripValid[w]
  /\ rrpv' = [rrpv EXCEPT ![w] = value]
  /\ UNCHANGED rripValid

SetOnFill(value) ==
  /\ rripValid' = [rripValid EXCEPT ![RripFillWay] = TRUE]
  /\ rrpv' = [RripFillRow EXCEPT ![RripFillWay] = value]
  /\ RecordInserted(RripFillWay)

(* CACHE::invalidate_entry: the block goes, its lru stays.                 *)
RripInvalidate(w) ==
  /\ rripValid[w]
  /\ rripValid' = [rripValid EXCEPT ![w] = FALSE]
  /\ UNCHANGED <<rrpv, inserted, outlives>>
-----------------------------------------------------------------------------
(* SRRIP: a fill predicts a long interval, a hit promotes, of any type.    *)
(* (Mutant: a hit moves the block one step only.)                          *)
SrripHitStep(w) ==
  SetOnHit(w, IF rrpv[w] = 0 THEN 0 ELSE rrpv[w] - 1) /\ RecordPromoted(w)

SrripHit(w) == SetOnHit(w, 0) /\ RecordPromoted(w)

(* (Mutant: one beyond the distant prediction.)                            *)
SrripFillBeyond == SetOnFill(MaxRRPV + 1)

SrripFill == SetOnFill(MaxRRPV - 1)

SrripNext == SrripFill \/ \E w \in Ways : SrripHit(w) \/ RripInvalidate(w)

SrripSpec == RripInit(MaxRRPV) /\ [][SrripNext]_rripVars
-----------------------------------------------------------------------------
RripTypeOK ==
  /\ rripValid \in [Ways -> BOOLEAN]
  /\ rrpv \in [Ways -> 0 .. FieldSize - 1]
  /\ inserted \subseteq Ways
  /\ outlives \subseteq Ways \X Ways

(***************************************************************************)
(* The search for a victim is short: in a full set no block is beyond      *)
(* maxRRPV, where it would be reached over the wrap of a 32-bit field.     *)
(***************************************************************************)
FindsVictimSoon == RripFree = {} => Rounds <= MaxRRPV

(***************************************************************************)
(* A block that was hit is not evicted before one that was inserted before *)
(* that hit and never touched since, however often the set aged.           *)
(***************************************************************************)
HitOutlivesInserted == RripFree = {} => \A v \in Ways : <<Victim, v>> \notin outlives

(* In a set that predicts at each fill: the fields of its blocks are in    *)
(* range, those not promoted are far, and the history is their order.      *)
InRange == \A w \in Ways : rripValid[w] => rrpv[w] \in 0 .. MaxRRPV

InsertedFar == \A v \in inserted : rrpv[v] \in MaxRRPV - 1 .. MaxRRPV

Ordered == \A p \in outlives : rrpv[p[1]] < rrpv[p[2]] /\ rrpv[p[2]] <= MaxRRPV

RripIInv == RripTypeOK /\ InRange /\ InsertedFar /\ Ordered
=============================================================================
