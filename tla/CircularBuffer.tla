--------------------------- MODULE CircularBuffer ---------------------------
(***************************************************************************)
(* The ring of inc/circular_buffer.hpp as operators on a record            *)
(*     [entry, size, head, tail]                                           *)
(* where entry is a function on 0..N for a ring of capacity N and size is  *)
(* N + 1 (the vector has one spare slot, so that head = tail means empty). *)
(* An iterator is the position it holds; its arithmetic also reads head.   *)
(***************************************************************************)
EXTENDS Integers

NewRing(N, x) ==
  [entry |-> [i \in 0 .. N |-> x], size |-> N + 1, head |-> 0, tail |-> 0]

(* The two while loops bring base + inc back into 0 .. len - 1.            *)
CircInc(base, inc, len) == (base + inc) % len

(***************************************************************************)
(* Iterator subtraction p - q, as written: the second case adds size and   *)
(* SUBTRACTS diff, although diff is positive there.                        *)
(***************************************************************************)
IterMinus(r, p, q) ==
  IF p < r.head /\ r.head <= q THEN r.size + (p - q)
  ELSE IF q < r.head /\ r.head <= p THEN r.size - (p - q)
  ELSE p - q

IterLess(r, p, q) == IterMinus(r, q, p) > 0

(* std::min(p, q) on iterators: the second one if it is the smaller.       *)
IterMin(r, p, q) == IF IterLess(r, q, p) THEN q ELSE p

Occupancy(r) == IterMinus(r, r.tail, r.head)

IsEmpty(r) == Occupancy(r) = 0

IsFull(r) == Occupancy(r) = r.size - 1

(* The contents from begin() to end(), oldest first.                       *)
Contents(r) ==
  [i \in 1 .. Occupancy(r) |-> r.entry[CircInc(r.head, i - 1, r.size)]]

(* push_back and n times pop_front, under the conditions they assert.      *)
PushBack(r, x) ==
  [entry |-> [r.entry EXCEPT ![r.tail] = x], size |-> r.size,
   head |-> r.head, tail |-> CircInc(r.tail, 1, r.size)]

PopFrontN(r, n) == [r EXCEPT !.head = CircInc(@, n, r.size)]

ClearRing(r) == [entry |-> r.entry, size |-> r.size, head |-> 0, tail |-> 0]
=============================================================================
