----------------------------- MODULE DelayQueue -----------------------------
(***************************************************************************)
(* champsim::delay_queue (inc/delay_queue.hpp): two circular buffers of    *)
(* the same capacity, one of items and one of the delays they have left,   *)
(* and a cached iterator that separates the ready members from the rest.   *)
(*                                                                         *)
(* The queue is driven by a client that pushes, calls operate() once a     *)
(* cycle and pops with the loop of the header comment.  Which operations   *)
(* a client uses stays the same for the life of the queue.                 *)
(***************************************************************************)
EXTENDS Integers, Sequences, CircularBuffer

CONSTANTS
  Capacity,    \* the size given to the constructor
  Latency,     \* the fixed delay of push_back
  Items,       \* what the queue holds
  NoItem,      \* the content of a slot that was never written
  Bandwidth,   \* how many members a client pops in a cycle
  MaxOverdue,  \* bound: delays count down to -MaxOverdue and stay there
  Clients      \* the clients, each the set of the operations it calls

Operations == {"push_back", "push_back_ready", "clear", "pop_ready", "pop_bandwidth"}

PlainUses == {"push_back", "pop_ready"}

ASSUME DelayQueueAssumption ==
  /\ Capacity \in Nat \ {0}
  /\ NoItem \notin Items
  /\ Latency \in Nat
  /\ Bandwidth \in 1 .. Capacity
  /\ MaxOverdue \in Nat
  /\ Clients \subseteq SUBSET Operations

VARIABLES
  uses,      \* the operations the client calls
  buf,       \* _buf
  delays,    \* _delays
  endReady,  \* _end_ready, a position in buf
  released,  \* the members the last loop popped, with the delay each had left
  aborted    \* an assertion of circular_buffer has failed

vars == <<uses, buf, delays, endReady, released, aborted>>

Init ==
  /\ uses \in Clients
  /\ buf = NewRing(Capacity, NoItem)
  /\ delays = NewRing(Capacity, 0)
  /\ endReady = 0
  /\ released = <<>>
  /\ aborted = FALSE

HasReady == buf.head # endReady

(***************************************************************************)
(* push_back and push_back_ready: the item goes to one ring, its delay to  *)
(* the other, and each ring asserts that it is not full.  Clients push     *)
(* only when the queue is not full().                                      *)
(***************************************************************************)
PushWithDelay(x, d) ==
  /\ ~aborted /\ ~IsFull(buf)
  /\ buf' = PushBack(buf, x)
  /\ \/ /\ ~IsFull(delays)
        /\ delays' = PushBack(delays, d)
        /\ aborted' = FALSE
     \/ /\ IsFull(delays)
        /\ aborted' = TRUE
        /\ UNCHANGED delays
  /\ released' = <<>>
  /\ UNCHANGED <<uses, endReady>>

(* Mutant of Push: the delay is one cycle short.                           *)
PushShort(x) == "push_back" \in uses /\ PushWithDelay(x, Latency - 1)

Push(x) == "push_back" \in uses /\ PushWithDelay(x, Latency)

PushReady(x) == "push_back_ready" \in uses /\ PushWithDelay(x, 0)

(***************************************************************************)
(* std::partition_point on the delays, for `not positive': a binary search *)
(* that returns a place behind a member it found not positive, or begin(), *)
(* and before one it found positive, or end().  Where the delays ascend    *)
(* there is one such place; where they do not, as push_back_ready may make *)
(* them, the library's choice among the places is left open.               *)
(* (Mutant: a delay of one counts as over.)                                *)
(***************************************************************************)
PartitionPointsEarly(s) ==
  {p \in 0 .. Len(s) : (p > 0 => s[p] <= 1) /\ (p < Len(s) => s[p + 1] > 1)}

PartitionPoints(s) ==
  {p \in 0 .. Len(s) : (p > 0 => s[p] <= 0) /\ (p < Len(s) => s[p + 1] > 0)}

(* A member's delay after a cycle.                                         *)
Less(d) == IF d > -MaxOverdue THEN d - 1 ELSE -MaxOverdue

CountDown(r) ==
  LET members == {CircInc(r.head, k, r.size) : k \in 0 .. Occupancy(r) - 1}
  IN  [r EXCEPT !.entry =
         [i \in DOMAIN r.entry |-> IF i \in members THEN Less(r.entry[i]) ELSE r.entry[i]]]

(***************************************************************************)
(* operate: every delay counts down, then _end_ready is looked for.        *)
(* (Mutants: _end_ready is not recomputed, or from slot 0 instead of       *)
(* begin().)                                                               *)
(***************************************************************************)
OperateStuck ==
  /\ ~aborted
  /\ delays' = CountDown(delays)
  /\ released' = <<>>
  /\ UNCHANGED <<uses, buf, endReady, aborted>>

OperateFromZero ==
  /\ ~aborted
  /\ delays' = CountDown(delays)
  /\ endReady' \in PartitionPoints(Contents(delays'))
  /\ released' = <<>>
  /\ UNCHANGED <<uses, buf, aborted>>

Operate ==
  /\ ~aborted
  /\ delays' = CountDown(delays)
  /\ \E p \in PartitionPoints(Contents(delays')) : endReady' = CircInc(buf.head, p, buf.size)
  /\ released' = <<>>
  /\ UNCHANGED <<uses, buf, aborted>>

(***************************************************************************)
(* A client's loop: pop until begin() reaches the iterator `end'.  Each    *)
(* pop_front asserts that the ring is not empty.                           *)
(***************************************************************************)
PopUntil(end) ==
  LET wanted == (end - buf.head) % buf.size
      n == IF wanted <= Occupancy(buf) THEN wanted ELSE Occupancy(buf)
  IN  /\ ~aborted
      /\ n <= Occupancy(delays)
      /\ released' = [i \in 1 .. n |->
                        [item |-> Contents(buf)[i], left |-> Contents(delays)[i]]]
      /\ buf' = PopFrontN(buf, n)
      /\ delays' = PopFrontN(delays, n)
      /\ aborted' = (n < wanted)
      /\ UNCHANGED <<uses, endReady>>

(* Without a bandwidth constraint: `it != dq.end_ready()'.                 *)
PopAllReady == "pop_ready" \in uses /\ HasReady /\ PopUntil(endReady)

(* With one: `std::min(dq.end_ready(), std::next(dq.begin(), bandwidth))'. *)
PopBandwidth ==
  /\ "pop_bandwidth" \in uses
  /\ LET next == CircInc(buf.head, Bandwidth, buf.size)
         end == IterMin(buf, endReady, next)
     IN  end # buf.head /\ PopUntil(end)

(* clear: the items go, the delays and _end_ready stay.                    *)
Clear ==
  /\ "clear" \in uses
  /\ ~aborted
  /\ buf' = ClearRing(buf)
  /\ released' = <<>>
  /\ UNCHANGED <<uses, delays, endReady, aborted>>

Next ==
  \/ \E x \in Items : Push(x)
  \/ \E x \in Items : PushReady(x)
  \/ Operate
  \/ PopAllReady
  \/ PopBandwidth
  \/ Clear

(* The header asks for operate() to be called once every cycle.            *)
Spec == Init /\ [][Next]_vars

FairSpec == Spec /\ WF_vars(Operate)
-----------------------------------------------------------------------------
(* The client pushes with push_back only and pops all that is ready.       *)
Plain == uses = PlainUses

(***************************************************************************)
(* No call of a plain client, one that pushes when the queue is not full   *)
(* and pops what end_ready() lets it pop, trips an assertion of            *)
(* circular_buffer.                                                        *)
(***************************************************************************)
NoAbort == Plain => ~aborted

(***************************************************************************)
(* A queue `that releases its members only after a delay': nothing a       *)
(* client's loop pops has any delay left.                                  *)
(***************************************************************************)
NoEarlyRelease == \A i \in DOMAIN released : released[i].left <= 0

(***************************************************************************)
(* The cached end_ready never outruns the elapsed time: between two calls  *)
(* of operate, with pushes and pops of a plain client in between, it lies  *)
(* between begin() and end() and every member before it has no delay left, *)
(* so that its loop releases nothing early.                                *)
(***************************************************************************)
EndReadySound ==
  LET n == (endReady - buf.head) % (Capacity + 1)
  IN  Plain => /\ n <= Occupancy(buf)
               /\ \A i \in 1 .. n : Contents(delays)[i] <= 0
               /\ NoEarlyRelease

(***************************************************************************)
(* A plain client's waiting member becomes poppable in the end.            *)
(***************************************************************************)
EventuallyReady == (Plain /\ ~IsEmpty(buf)) ~> HasReady
=============================================================================
