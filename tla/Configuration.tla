--------------------------- MODULE Configuration ----------------------------
(***************************************************************************)
(* How config.py makes a memory system of the caches a user names: it      *)
(* fills in defaults, removes caches nobody uses, walks the chains below   *)
(* the first level, gives each element a fill level, and writes the        *)
(* elements in an order in which each follows the one below it.            *)
(*                                                                         *)
(* One core.  `lower' is the lower_level of each element, as given by the  *)
(* user or by default; a name that is no element stands for a cache that   *)
(* was not defined.  A KeyError of the script is a failure.                *)
(***************************************************************************)
EXTENDS Naturals, Sequences, FiniteSets, SequencesExt

CONSTANTS
  CacheOrder,   \* the caches, in the order of the dictionary
  ITLB, DTLB, L1I, L1D, PTW,  \* those of the core; PTW is no cache
  Dram,
  Hierarchies   \* the values of `lower': what users may configure

VARIABLES
  lower,    \* lower_level
  phase,    \* where the script is
  caches,   \* the keys of caches
  walked,   \* cache_name of the loops that set offset_bits, and the loops left
  offsets,  \* offset_bits
  levels,   \* fill_level; 0 where it is not set
  active,   \* active_keys
  round     \* fill_level, the variable of the loop

configVars == <<lower, phase, caches, walked, offsets, levels, active, round>>

AllCaches == Range(CacheOrder)

Tops == <<ITLB, DTLB, L1I, L1D>>

(* The caches of the core's first level are always among them.             *)
ASSUME ConfigAssumption == Range(Tops) \subseteq AllCaches

ConfigInit ==
  /\ lower \in Hierarchies
  /\ phase = "defaults"
  /\ caches = AllCaches
  /\ walked = [at |-> ITLB, left |-> <<DTLB, L1I, L1D>>, bits |-> "page"]
  /\ offsets = [c \in AllCaches |-> "none"]
  /\ levels = [e \in AllCaches \union {PTW} |-> 0]
  /\ active = Range(Tops)
  /\ round = 1

Unchanged(rest) == UNCHANGED rest /\ UNCHANGED lower

(* The cache below L1D and the one below that are looked up in caches,     *)
(* also when L1D is on DRAM; the one below DTLB if it is not DRAM.  The    *)
(* page table walker is no cache, so none of them can be it.               *)
Defined ==
  LET l2c == lower[L1D]
  IN  /\ l2c \in caches
      /\ lower[l2c] \in caches \union {Dram}
      /\ lower[DTLB] \in caches \union {Dram}

Defaults ==
  /\ phase = "defaults"
  /\ phase' = IF Defined THEN "prune" ELSE "failed"
  /\ Unchanged(<<caches, walked, offsets, levels, active, round>>)

(* Caches that no cache, accessible or not, and no core uses are removed.  *)
Prune ==
  /\ phase = "prune"
  /\ caches' = {c \in caches : c \in Range(Tops) \/ \E u \in caches : lower[u] = c}
  /\ phase' = "offsets"
  /\ Unchanged(<<walked, offsets, levels, active, round>>)

(* The loops that walk down from each first-level cache, TLBs first.       *)
Walk ==
  /\ phase = "offsets" /\ walked.at \in caches
  /\ offsets' = [offsets EXCEPT ![walked.at] = walked.bits]
  /\ walked' = [walked EXCEPT !.at = lower[walked.at]]
  /\ Unchanged(<<phase, caches, levels, active, round>>)

NextWalk ==
  /\ phase = "offsets" /\ walked.at \notin caches /\ walked.left # <<>>
  /\ walked' = [at |-> Head(walked.left), left |-> Tail(walked.left),
                bits |-> IF Head(walked.left) = DTLB THEN "page" ELSE "block"]
  /\ Unchanged(<<phase, caches, offsets, levels, active, round>>)

(* The page table walker joins the elements, the first level gets level 1. *)
System == caches \union {PTW}

StartLevels ==
  /\ phase = "offsets" /\ walked.at \notin caches /\ walked.left = <<>>
  /\ levels' = [e \in DOMAIN levels |-> IF e \in Range(Tops) THEN 1 ELSE 0]
  /\ phase' = "levels"
  /\ Unchanged(<<caches, walked, offsets, active, round>>)

(* What is below the active elements is raised to the next level.          *)
(* (Mutant: only when it has no level yet.)                                *)
Below == {lower[e] : e \in active} \ {Dram}

RaisedOnce ==
  [e \in DOMAIN levels |-> IF e \in Below /\ levels[e] = 0 THEN round + 1 ELSE levels[e]]

Raised ==
  [e \in DOMAIN levels |-> IF e \in Below /\ levels[e] < round + 1 THEN round + 1 ELSE levels[e]]

Level ==
  /\ phase = "levels" /\ round <= Cardinality(System) /\ Below \subseteq System
  /\ levels' = Raised
  /\ active' = Below
  /\ round' = round + 1
  /\ Unchanged(<<phase, caches, walked, offsets>>)

UndefinedBelow ==
  /\ phase = "levels" /\ round <= Cardinality(System) /\ ~(Below \subseteq System)
  /\ phase' = "failed"
  /\ Unchanged(<<caches, walked, offsets, levels, active, round>>)

(* The stable sort by level, highest first; elements without one fail it.  *)
DictOrder == SelectSeq(CacheOrder, LAMBDA c : c \in caches) \o <<PTW>>

Precedes(e, f) ==
  LET at(x) == CHOOSE i \in DOMAIN DictOrder : DictOrder[i] = x
  IN  levels[e] > levels[f] \/ (levels[e] = levels[f] /\ at(e) < at(f))

(* The formatting of a cache looks up its offset_bits.                     *)
Formats == \A c \in caches : offsets[c] # "none"

(* The check that each element finds its lower level before it, and the    *)
(* writing of the elements.                                                *)
Write ==
  /\ phase = "levels" /\ round > Cardinality(System)
  /\ phase' = IF /\ \A e \in System : levels[e] > 0
                 /\ \A e \in System : lower[e] = Dram \/ (lower[e] \in System /\ Precedes(lower[e], e))
                 /\ Formats
              THEN "written" ELSE "failed"
  /\ Unchanged(<<caches, walked, offsets, levels, active, round>>)

(* The script has ended; the user edits the configuration.                 *)
Reconfigure ==
  /\ phase \in {"written", "failed"}
  /\ lower' \in Hierarchies
  /\ phase' = "defaults" /\ caches' = AllCaches
  /\ walked' = [at |-> ITLB, left |-> <<DTLB, L1I, L1D>>, bits |-> "page"]
  /\ offsets' = [c \in AllCaches |-> "none"]
  /\ levels' = [e \in AllCaches \union {PTW} |-> 0]
  /\ active' = Range(Tops) /\ round' = 1

ConfigNext ==
  \/ Defaults \/ Prune \/ Walk \/ NextWalk \/ StartLevels
  \/ Level \/ UndefinedBelow \/ Write \/ Reconfigure
-----------------------------------------------------------------------------
ConfigTypeOK ==
  /\ phase \in {"defaults", "prune", "offsets", "levels", "written", "failed"}
  /\ Range(Tops) \subseteq caches /\ caches \subseteq AllCaches
  /\ \A e \in AllCaches \union {PTW} : levels[e] <= round

(* The elements below e, by the configuration alone, as far as a chain of  *)
(* the elements S leads: n steps down.                                     *)
ReachesBy(S, e) ==
  LET down[n \in 0 .. Cardinality(S)] ==
        IF n = 0 THEN {e}
        ELSE down[n - 1] \union {lower[x] : x \in down[n - 1] \intersect S}
  IN  down[Cardinality(S)]

Reaches(e) == ReachesBy(DOMAIN lower, e)

Used == UNION {Reaches(t) : t \in Range(Tops)}

ThroughCaches(tops) == UNION {ReachesBy(AllCaches, t) : t \in tops}

Acyclic == \A e \in DOMAIN lower : lower[e] \in DOMAIN lower => e \notin Reaches(lower[e])

(***************************************************************************)
(* The memory system that is written is what the core reaches: each        *)
(* element comes after the one below it and has a lower fill level, and a  *)
(* cache counts addresses in blocks exactly if L1I or L1D reach it through *)
(* caches.  And a hierarchy is refused only for a reason: a cycle or an    *)
(* undefined name in what the core reaches, a page table walker it does    *)
(* not reach, a cache it reaches only through the walker, L1D on DRAM, the *)
(* walker directly below L1D, below the cache under it or below DTLB, or a *)
(* cache that only an inaccessible cache uses.                             *)
(***************************************************************************)
WritesSystemInOrder ==
  LET legal == /\ Acyclic /\ PTW \in Used /\ Used \subseteq DOMAIN lower \union {Dram} /\ Defined
               /\ Used \intersect AllCaches \subseteq ThroughCaches(Range(Tops))
               /\ \A c \in AllCaches \ Used : \A u \in AllCaches : lower[u] # c
  IN  /\ phase = "written" =>
           /\ System = Used \ {Dram}
           /\ \A e \in System : lower[e] # Dram => levels[lower[e]] > levels[e]
           /\ \A c \in caches : offsets[c] = IF c \in ThroughCaches({L1I, L1D}) THEN "block" ELSE "page"
      /\ phase = "failed" => ~legal
=============================================================================
