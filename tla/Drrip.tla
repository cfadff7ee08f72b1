-------------------------------- MODULE Drrip -------------------------------
(***************************************************************************)
(* DRRIP (replacement/drrip/drrip.cc) on one set of the cache of one core. *)
(* Of the sampled sets rand_sets, the first inserts blocks as BIP does and *)
(* the second as SRRIP does; their misses move the counter PSEL, and the   *)
(* sets that are not sampled follow the policy PSEL favours.  The other    *)
(* sampled sets do neither: no branch of update_replacement_state is for   *)
(* them.  `role' says which of these the set is.                           *)
(***************************************************************************)
EXTENDS Rrip

CONSTANTS
  PselMax,  \* PSEL_MAX, 2^PSEL_WIDTH - 1
  BipMax    \* BIP_MAX

Roles == {"bip_leader", "srrip_leader", "sampled", "follower"}

ASSUME DrripAssumption == PselMax \in Nat \ {0} /\ BipMax \in Nat \ {0}

VARIABLES role, psel, bip  \* psel and bip: PSEL and bip_counter of this cache

drripVars == <<rripVars, role, psel, bip>>

(* The policy has no initial values of its own: BLOCK's default stays.     *)
DuelInit == role \in Roles /\ psel = 0 /\ bip = 0

DrripInit == RripInit(FreshLru) /\ DuelInit
-----------------------------------------------------------------------------
FollowsBip == psel > PselMax \div 2

InsertsAsBip(r) == r = "bip_leader" \/ (r = "follower" /\ FollowsBip)

(* A miss in a set of role r, in any set of the cache.                     *)
Duel(r) ==
  /\ psel' = CASE r = "bip_leader" /\ psel > 0 -> psel - 1
               [] r = "srrip_leader" /\ psel < PselMax -> psel + 1
               [] OTHER -> psel
  /\ bip' = IF InsertsAsBip(r) THEN (bip + 1) % BipMax ELSE bip

(* BIP inserts distant, once in BIP_MAX times long; SRRIP inserts long.    *)
Insertion ==
  CASE InsertsAsBip(role) -> IF (bip + 1) % BipMax = 0 THEN MaxRRPV - 1 ELSE MaxRRPV
    [] role = "sampled" -> RripFillRow[RripFillWay]
    [] OTHER -> MaxRRPV - 1

DrripHit(w, type) ==
  /\ IF type = "WRITEBACK"
     THEN SetOnHit(w, MaxRRPV - 1) /\ RecordInserted(w)
     ELSE SetOnHit(w, 0) /\ RecordPromoted(w)
  /\ UNCHANGED <<role, psel, bip>>

DrripFill(type) ==
  /\ IF type = "WRITEBACK"
     THEN SetOnFill(MaxRRPV - 1) /\ UNCHANGED <<psel, bip>>
     ELSE SetOnFill(Insertion) /\ Duel(role)
  /\ UNCHANGED role

(* Another set of the cache misses; there is one leader of each kind.      *)
OtherSetMisses(r) ==
  /\ r \in {"bip_leader", "srrip_leader"} => r # role
  /\ Duel(r)
  /\ UNCHANGED <<rripVars, role>>

DrripNext ==
  \/ \E w \in Ways, type \in Types : DrripHit(w, type)
  \/ \E type \in Types : DrripFill(type)
  \/ \E r \in Roles : OtherSetMisses(r)
  \/ \E w \in Ways : RripInvalidate(w) /\ UNCHANGED <<role, psel, bip>>

DrripSpec == DrripInit /\ [][DrripNext]_drripVars
-----------------------------------------------------------------------------
DrripTypeOK == role \in Roles /\ psel \in 0 .. PselMax /\ bip \in 0 .. BipMax - 1

MissIn(r) == OtherSetMisses(r) \/ (role = r /\ \E type \in Types : DrripFill(type))

(***************************************************************************)
(* Set duelling goes the right way: the followers change their policy only *)
(* at a miss in the set that leads for the policy they abandon.            *)
(***************************************************************************)
AbandonsTheLoser ==
  [][ (FollowsBip <=> ~FollowsBip') =>
        MissIn(IF FollowsBip THEN "bip_leader" ELSE "srrip_leader") ]_drripVars

(***************************************************************************)
(* Where every fill gives its block a prediction, that is in all sets but  *)
(* those sampled and not leading, the victim is found within maxRRPV       *)
(* rounds, not over a wrap of 32 bits.                                     *)
(***************************************************************************)
VictimFoundSoon == role # "sampled" => FindsVictimSoon

(* And a hit protects a block against those inserted before it.            *)
HitProtects == role # "sampled" => HitOutlivesInserted

(***************************************************************************)
(* `for cache hit, DRRIP always promotes a cache line to the MRU           *)
(* position': in any set, a line that was hit is not evicted before one    *)
(* that was inserted earlier and not hit.                                  *)
(***************************************************************************)
AlwaysPromotes == HitOutlivesInserted

DrripIInv == role \in Roles /\ (role # "sampled" => RripIInv)
=============================================================================
