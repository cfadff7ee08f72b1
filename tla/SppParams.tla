----------------------------- MODULE SppParams ------------------------------
(***************************************************************************)
(* What the tables of the SPP prefetchers share: pages, the offsets of     *)
(* blocks in a page, the deltas between them, and signatures of deltas.    *)
(* How a signature absorbs a delta is a parameter.                         *)
(***************************************************************************)
EXTENDS Integers

CONSTANTS
  Pages,         \* page numbers
  Offsets,       \* block offsets in a page
  Sigs,          \* signatures, 0 .. SIG_MASK
  NextSig(_, _)  \* ((sig << SIG_SHIFT) ^ sig_delta) & SIG_MASK

Deltas == {a - b : a, b \in Offsets}

ASSUME SppAssumption ==
  /\ Offsets \subseteq Nat /\ 0 \in Offsets
  /\ Sigs \subseteq Nat /\ 0 \in Sigs
  /\ \A s \in Sigs, d \in Deltas : NextSig(s, d) \in Sigs
=============================================================================
