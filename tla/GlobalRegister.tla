--------------------------- MODULE GlobalRegister ---------------------------
(***************************************************************************)
(* The global history register of the SPP prefetchers: prefetches that     *)
(* crossed a page boundary, kept to give a new page a signature to start   *)
(* from.                                                                   *)
(***************************************************************************)
EXTENDS SppParams, FiniteSetsExt

CONSTANTS
  GhrEntries,  \* MAX_GHR_ENTRY
  Confs        \* confidences passed to update_entry, at least PF_THRESHOLD

Entries == 0 .. GhrEntries - 1

ASSUME GlobalRegisterAssumption == GhrEntries \in Nat \ {0} /\ Confs \subseteq Nat \ {0}

VARIABLES
  ghr,        \* valid, sig, confidence, offset and delta of each entry
  ghrAborted  \* the assertion of update_entry has failed

ghrVars == <<ghr, ghrAborted>>

GhrInit ==
  /\ ghr = [i \in Entries |->
             [valid |-> FALSE, sig |-> 0, confidence |-> 0, offset |-> 0, delta |-> 0]]
  /\ ghrAborted = FALSE
-----------------------------------------------------------------------------
(* The valid entries with the offset.  (Mutant: the search ends at a less  *)
(* confident entry, the victim so far.)                                    *)
GhrMatchesBeforeVictim(offset) ==
  {i \in Entries : /\ ghr[i].valid /\ ghr[i].offset = offset
                   /\ \A j \in 0 .. i - 1 : ghr[j].confidence >= ghr[i].confidence}

GhrMatches(offset) == {i \in Entries : ghr[i].valid /\ ghr[i].offset = offset}

(* The entries of least confidence, below 100.  (Mutant: below 60 only.)   *)
GhrVictimsBelow60 ==
  {i \in Entries : /\ ghr[i].confidence < 60
                   /\ \A j \in Entries : ghr[i].confidence <= ghr[j].confidence}

GhrVictims ==
  {i \in Entries : /\ ghr[i].confidence < 100
                   /\ \A j \in Entries : ghr[i].confidence <= ghr[j].confidence}

GhrStore(i, sig, conf, offset, delta) ==
  /\ ghr' = [ghr EXCEPT ![i] = [valid |-> TRUE, sig |-> sig, confidence |-> conf,
                                offset |-> offset, delta |-> delta]]
  /\ UNCHANGED ghrAborted

(* The offset has an entry already: it gets the latest information.        *)
GhrRefresh(sig, conf, offset, delta) ==
  /\ GhrMatches(offset) # {}
  /\ GhrStore(Min(GhrMatches(offset)), sig, conf, offset, delta)

(* Otherwise the least confident entry is replaced; without one:           *)
(* `Cannot find a replacement victim!'                                     *)
GhrReplace(sig, conf, offset, delta) ==
  /\ GhrMatches(offset) = {}
  /\ IF GhrVictims # {}
     THEN GhrStore(Min(GhrVictims), sig, conf, offset, delta)
     ELSE ghrAborted' = TRUE /\ UNCHANGED ghr

UpdateEntry(sig, conf, offset, delta) ==
  /\ ~ghrAborted
  /\ \/ GhrRefresh(sig, conf, offset, delta)
     \/ GhrReplace(sig, conf, offset, delta)

(***************************************************************************)
(* check_entry: the most confident entry with the offset, valid or not,    *)
(* that has some confidence.                                               *)
(***************************************************************************)
CheckEntry(offset) ==
  {i \in Entries : /\ ghr[i].offset = offset /\ ghr[i].confidence > 0
                   /\ \A j \in Entries : ghr[j].offset = offset =>
                        ghr[j].confidence <= ghr[i].confidence}

GhrNext ==
  \E sig \in Sigs, conf \in Confs, offset \in Offsets, delta \in Deltas :
    UpdateEntry(sig, conf, offset, delta)

GhrSpec == GhrInit /\ [][GhrNext]_ghrVars
-----------------------------------------------------------------------------
GhrTypeOK ==
  /\ ghr \in [Entries -> [valid : BOOLEAN, sig : Sigs, confidence : Confs \union {0},
                          offset : Offsets, delta : Deltas]]
  /\ ghrAborted \in BOOLEAN

(***************************************************************************)
(* update_entry finds a victim as long as the confidences it is given are  *)
(* below 100: its assertion never fails.                                   *)
(***************************************************************************)
VictimFound == (\A c \in Confs : c < 100) => ~ghrAborted

(* An offset has one entry, so check_entry has one entry to find.          *)
UniqueOffsets ==
  \A i, j \in Entries :
    ghr[i].valid /\ ghr[j].valid /\ ghr[i].offset = ghr[j].offset => i = j

(* The entries that check_entry can return are those that were stored.      *)
FoundIsValid == \A i \in Entries : ghr[i].confidence > 0 <=> ghr[i].valid

(* An offset that leaves the register makes way in a full one, and no      *)
(* entry is less confident than its own.                                   *)
LeastConfidentGoes ==
  \A i \in Entries :
    ghr[i].valid /\ ghr'[i].offset # ghr[i].offset =>
      \A j \in Entries : ghr[j].valid /\ ghr[j].confidence >= ghr[i].confidence

(***************************************************************************)
(* No prefetch is forgotten while there is a free entry, the one that is   *)
(* forgotten is not more confident than any that stays, and none of        *)
(* another offset goes for an offset that has an entry, also if a less     *)
(* confident entry comes before it: there is still one entry of each.      *)
(***************************************************************************)
ForgetsLeastConfident == [][LeastConfidentGoes /\ UniqueOffsets']_ghrVars

GhrIInv == GhrTypeOK /\ VictimFound /\ UniqueOffsets /\ FoundIsValid
=============================================================================
