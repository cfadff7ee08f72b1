-------------------------------- MODULE Ship --------------------------------
(***************************************************************************)
(* SHiP (replacement/ship/ship.cc): predictions as in RRIP, and a fill by  *)
(* an instruction whose counter in SHCT is at its maximum predicts a       *)
(* distant reuse.  Counters learn from a sampler, a small cache of the     *)
(* addresses and instructions that accessed some sampled sets.             *)
(*                                                                         *)
(* One core; instructions are told apart modulo SHCT_PRIME.  An access of  *)
(* a sampled set is a step of the sampler (Sample) and then of the blocks  *)
(* of its set (ShipHit, ShipFill).  The sampler never looks at the blocks, *)
(* and they look at the counters only, which the accesses of the sampled   *)
(* sets may have left at any value: so the blocks of one set, and the      *)
(* sampler under the accesses of all sampled sets, are specifications of   *)
(* their own.                                                              *)
(***************************************************************************)
EXTENDS Rrip

CONSTANTS
  Ips,          \* the instructions, modulo SHCT_PRIME
  Regions,      \* the addresses, as far as the sampler tells them apart
  SamplerSets,  \* SAMPLER_SET
  SamplerWays,  \* NUM_WAY, as the sampler counts it
  ShctMax,      \* SHCT_MAX
  MaxAge,       \* bound: an access makes no other entry older than this
  Nowhere       \* what an entry never written holds

ASSUME ShipAssumption ==
  /\ SamplerSets \in Nat \ {0} /\ SamplerWays \in Nat \ {0}
  /\ ShctMax \in Nat \ {0} /\ MaxAge \in Nat \ {0}
  /\ Nowhere \notin Ips /\ Nowhere \notin Regions

VARIABLES
  shct,    \* SHCT
  sampler  \* the entries: region, ip, used, lru; one without region is not valid

shipVars == <<rripVars, shct, sampler>>

Samples == 0 .. SamplerSets * SamplerWays - 1

(* The entries of sampled set i begin at i, not at i * NUM_WAY.            *)
Window(i) == i .. i + SamplerWays - 1

ShipInit ==
  /\ shct = [p \in Ips |-> 0]
  /\ sampler = [e \in Samples |->
                  [region |-> Nowhere, ip |-> Nowhere, used |-> FALSE, lru |-> 0]]

(***************************************************************************)
(* The sampler sees an access of sampled set i: `eq_addr' finds the first  *)
(* valid entry of the region; else max_element with lru_comparator finds   *)
(* the last entry that is not valid, or the first of the oldest.  The age  *)
(* of an entry that is not valid is never looked at and not modelled.      *)
(***************************************************************************)
Matches(i, region) == {e \in Window(i) : sampler[e].region = region}

OldestSample(i) ==
  LET invalid == {e \in Window(i) : sampler[e].region = Nowhere}
  IN  IF invalid # {} THEN Max(invalid)
      ELSE Min({e \in Window(i) : \A x \in Window(i) : sampler[x].lru <= sampler[e].lru})

Younger(i, e) == \A x \in Window(i) \ {e} : sampler[x].lru < MaxAge

Touched(i, e, entry) ==
  [x \in Samples |->
     IF x = e THEN entry
     ELSE IF x \in Window(i) /\ sampler[x].region # Nowhere
          THEN [sampler[x] EXCEPT !.lru = @ + 1] ELSE sampler[x]]

(* (Mutant: a reuse is not counted down.)                                  *)
ReusedForgotten(p) == shct

Reused(p) == [shct EXCEPT ![p] = IF @ > 0 THEN @ - 1 ELSE 0]

SamplerHit(i, region) ==
  LET e == Min(Matches(i, region))
  IN  /\ Matches(i, region) # {} /\ Younger(i, e)
      /\ shct' = Reused(sampler[e].ip)
      /\ sampler' = Touched(i, e, [region |-> region, ip |-> sampler[e].ip, used |-> TRUE, lru |-> 0])

SamplerMiss(i, region, ip) ==
  LET e == OldestSample(i)
      old == sampler[e]
  IN  /\ Matches(i, region) = {} /\ Younger(i, e)
      /\ shct' = IF old.used /\ shct[old.ip] < ShctMax
                 THEN [shct EXCEPT ![old.ip] = @ + 1] ELSE shct
      /\ sampler' = Touched(i, e, [region |-> region, ip |-> ip, used |-> FALSE, lru |-> 0])

Sample(i, region, ip) ==
  /\ SamplerHit(i, region) \/ SamplerMiss(i, region, ip)
  /\ UNCHANGED rripVars

SamplerNext == \E i \in 0 .. SamplerSets - 1, region \in Regions, ip \in Ips : Sample(i, region, ip)

(***************************************************************************)
(* The blocks of a set: update_replacement_state behind the sampler, after *)
(* find_victim if the access is a fill of a full set.  A writeback that    *)
(* hits does not promote, one that misses never predicts distant.          *)
(***************************************************************************)
ShipHit(w) == SetOnHit(w, 0) /\ RecordPromoted(w) /\ UNCHANGED <<shct, sampler>>

Prediction(ip) == IF shct[ip] = ShctMax THEN MaxRRPV ELSE MaxRRPV - 1

ShipFill(ip) == SetOnFill(Prediction(ip)) /\ UNCHANGED <<shct, sampler>>

WritebackFill == SetOnFill(MaxRRPV - 1) /\ UNCHANGED <<shct, sampler>>

(* What a set sees of the sampler.                                         *)
CountersChange == shct' \in [Ips -> 0 .. ShctMax] /\ UNCHANGED <<rripVars, sampler>>

ShipSetNext ==
  \/ \E w \in Ways : ShipHit(w)
  \/ \E ip \in Ips : ShipFill(ip)
  \/ WritebackFill
  \/ \E w \in Ways : RripInvalidate(w) /\ UNCHANGED <<shct, sampler>>
  \/ CountersChange

ShipSetSpec == RripInit(FreshLru) /\ ShipInit /\ [][ShipSetNext]_shipVars

SamplerSpec == RripInit(FreshLru) /\ ShipInit /\ [][SamplerNext]_shipVars
-----------------------------------------------------------------------------
ShipTypeOK ==
  /\ shct \in [Ips -> 0 .. ShctMax]
  /\ sampler \in [Samples -> [region : Regions \union {Nowhere}, ip : Ips \union {Nowhere},
                              used : BOOLEAN, lru : 0 .. MaxAge]]

(* The reused entries of an instruction.                                   *)
ReusedBy(p) == {e \in Samples : sampler[e].used /\ sampler[e].ip = p}

(***************************************************************************)
(* A counter rises when a reused entry leaves the sampler and falls at the *)
(* reuse.  So however long the cache runs and although neighbouring sets   *)
(* share entries, the counter of an instruction and its reused entries     *)
(* never exceed the entries the sampler uses: an instruction is predicted  *)
(* distant only if SHCT_MAX of its lines were in the sampler at once, and  *)
(* reused.                                                                 *)
(***************************************************************************)
CountersWithinSampler ==
  \A p \in Ips : shct[p] + Cardinality(ReusedBy(p)) <= SamplerSets + SamplerWays - 1

(* Only entries that were written, in the window of some set, are reused.  *)
ReusedWritten ==
  \A e \in Samples :
    /\ sampler[e].region # Nowhere => sampler[e].ip \in Ips
    /\ sampler[e].used => sampler[e].region # Nowhere /\ e <= SamplerSets + SamplerWays - 2

SamplerIInv == ShipTypeOK /\ CountersWithinSampler /\ ReusedWritten
=============================================================================
