--------------------------- MODULE MCReplacement ----------------------------
(***************************************************************************)
(* The replacement policies for TLC: `policy' names the one that runs, the *)
(* variables of the others stay as initialised.  Three ways, an access     *)
(* type of each kind; a field of four bits whose default lies in the       *)
(* middle of its range, PSEL of two bits, and BIP inserts long every other *)
(* time.  SHiP's sampler has two sets that share one entry.                *)
(***************************************************************************)
EXTENDS LruReplacement, Drrip, Ship

CONSTANT Policies

MCTypes == {"LOAD", "WRITEBACK"}
AllPolicies == {"lru", "srrip", "drrip", "ship", "ship_sampler"}
OnlyDrrip == {"drrip"}

VARIABLE policy

mcVars == <<vars, drripVars, shct, sampler, policy>>

MCInit ==
  /\ policy \in Policies
  /\ Init
  /\ DuelInit
  /\ ShipInit
  /\ IF policy = "srrip" THEN RripInit(MaxRRPV) ELSE RripInit(FreshLru)
  /\ policy # "drrip" => role = "follower"

Lru == policy = "lru" /\ Next /\ UNCHANGED <<drripVars, shct, sampler, policy>>

Srrip == policy = "srrip" /\ SrripNext /\ UNCHANGED <<vars, role, psel, bip, shct, sampler, policy>>

DrripStep == policy = "drrip" /\ DrripNext /\ UNCHANGED <<vars, shct, sampler, policy>>

ShipSet == policy = "ship" /\ ShipSetNext /\ UNCHANGED <<vars, role, psel, bip, policy>>

ShipSampler == policy = "ship_sampler" /\ SamplerNext /\ UNCHANGED <<vars, role, psel, bip, policy>>

MCNext == Lru \/ Srrip \/ DrripStep \/ ShipSet \/ ShipSampler

MCSpec == MCInit /\ [][MCNext]_mcVars
-----------------------------------------------------------------------------
AllTypesOK == TypeOK /\ RripTypeOK /\ DrripTypeOK /\ ShipTypeOK
=============================================================================
