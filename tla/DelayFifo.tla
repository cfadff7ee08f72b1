------------------------------ MODULE DelayFifo ------------------------------
(***************************************************************************)
(* What a delay queue promises: a bounded FIFO in which a member can be    *)
(* taken only when its delay is over, and then in order of arrival.  Some  *)
(* members are ready at once.                                              *)
(***************************************************************************)
EXTENDS Naturals, Sequences

CONSTANTS Capacity, Latency, Items

VARIABLES
  queue,  \* the members, oldest first, each with the cycles it still waits
  out     \* the members taken by the last release

fifoVars == <<queue, out>>

Init == queue = <<>> /\ out = <<>>

Push(x) ==
  /\ Len(queue) < Capacity
  /\ \E w \in {0, Latency} : queue' = Append(queue, [item |-> x, wait |-> w])
  /\ out' = <<>>

Tick ==
  /\ queue' = [i \in DOMAIN queue |->
                 [queue[i] EXCEPT !.wait = IF @ > 0 THEN @ - 1 ELSE 0]]
  /\ out' = <<>>

Release(n) ==
  /\ \A i \in 1 .. n : queue[i].wait = 0
  /\ out' = [i \in 1 .. n |-> queue[i].item]
  /\ queue' = SubSeq(queue, n + 1, Len(queue))

Drop == queue' = <<>> /\ out' = <<>>

Next ==
  \/ \E x \in Items : Push(x)
  \/ Tick
  \/ \E n \in 1 .. Len(queue) : Release(n)
  \/ Drop

Spec == Init /\ [][Next]_fifoVars
=============================================================================
