---------------------------- MODULE MCDelayQueue ----------------------------
(***************************************************************************)
(* Instances of DelayQueue for TLC: a plain client, one that pops with a   *)
(* bandwidth, and one that calls everything.                               *)
(***************************************************************************)
EXTENDS DelayQueue

BandwidthUses == {"push_back", "pop_bandwidth"}

BandwidthClients == {BandwidthUses}
AllClients == {PlainUses, Operations}

(***************************************************************************)
(* The queue implements the abstract one: the members are the contents of  *)
(* the two rings read in parallel, a delay below zero counts as zero.  For *)
(* a client that is not plain the delays are ignored: `elements are still  *)
(* popped in order', whatever it calls.                                    *)
(***************************************************************************)
AbsQueue ==
  [i \in 1 .. Occupancy(buf) |->
     [item |-> Contents(buf)[i],
      wait |-> IF Plain /\ Contents(delays)[i] > 0 THEN Contents(delays)[i] ELSE 0]]

Fifo == INSTANCE DelayFifo WITH
          queue <- AbsQueue,
          out <- [i \in DOMAIN released |-> released[i].item]

ImplementsFifo == Fifo!Spec
=============================================================================
