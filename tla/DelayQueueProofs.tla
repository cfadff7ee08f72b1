-------------------------- MODULE DelayQueueProofs --------------------------
(***************************************************************************)
(* The delay queue, for any capacity, latency and client: for a plain one  *)
(* no assertion fails and nothing is released early; and for every client  *)
(* the two rings implement the abstract queue.                             *)
(***************************************************************************)
EXTENDS MCDelayQueue, SequenceTheorems, TLAPS

(* A ring whose entries are taken from X.                                  *)
RingOK(r, X) ==
  r \in [entry : [0 .. Capacity -> X], size : {Capacity + 1},
         head : 0 .. Capacity, tail : 0 .. Capacity]

(* The delays of a plain client ascend, for all began with Latency.        *)
Ascending ==
  /\ \A i \in 1 .. Occupancy(delays) : Contents(delays)[i] <= Latency
  /\ \A i, j \in 1 .. Occupancy(delays) : i <= j => Contents(delays)[i] <= Contents(delays)[j]

(* The rings of a plain client move together.                              *)
InStep == delays.head = buf.head /\ delays.tail = buf.tail

Ready == (endReady - buf.head) % (Capacity + 1)

PlainOK ==
  /\ ~aborted /\ InStep /\ Ascending
  /\ Ready <= Occupancy(buf)
  /\ \A i \in 1 .. Ready : Contents(delays)[i] <= 0
  /\ NoEarlyRelease

QueueIInv ==
  /\ RingOK(buf, Items \union {NoItem}) /\ RingOK(delays, Int)
  /\ endReady \in 0 .. Capacity
  /\ Plain => PlainOK
-----------------------------------------------------------------------------
LEMMA QueueNumbers ==
  /\ Capacity \in Nat /\ Capacity > 0 /\ Latency \in Nat /\ MaxOverdue \in Nat
  /\ NoItem \notin Items
BY DelayQueueAssumption

(* The position k behind h in a ring, and how far t is behind h.           *)
Beyond(h, k) == IF h + k <= Capacity THEN h + k ELSE h + k - Capacity - 1
Between(h, t) == IF t < h THEN t - h + Capacity + 1 ELSE t - h

LEMMA BetweenFits ==
  ASSUME NEW h \in 0 .. Capacity, NEW t \in 0 .. Capacity
  PROVE  Between(h, t) \in 0 .. Capacity /\ Beyond(h, Between(h, t)) = t
BY QueueNumbers DEF Between, Beyond

LEMMA BeyondFits ==
  ASSUME NEW h \in 0 .. Capacity, NEW k \in 0 .. Capacity
  PROVE  Beyond(h, k) \in 0 .. Capacity /\ Between(h, Beyond(h, k)) = k
BY QueueNumbers DEF Between, Beyond

LEMMA BeyondSeparates ==
  ASSUME NEW h \in 0 .. Capacity, NEW j \in 0 .. Capacity, NEW k \in 0 .. Capacity
  PROVE  Beyond(h, j) = Beyond(h, k) <=> j = k
BY QueueNumbers DEF Beyond

LEMMA BeyondTwice ==
  ASSUME NEW h \in 0 .. Capacity, NEW j \in 0 .. Capacity, NEW k \in 0 .. Capacity,
         j + k <= Capacity
  PROVE  Beyond(Beyond(h, j), k) = Beyond(h, j + k)
BY QueueNumbers DEF Beyond

LEMMA TwiceFrom ==
  \A h, j, k \in 0 .. Capacity :
    j + k <= Capacity => Beyond(Beyond(h, j), k) = Beyond(h, j + k)
BY BeyondTwice

LEMMA CircIncIsBeyond ==
  ASSUME NEW h \in 0 .. Capacity, NEW k \in 0 .. Capacity + 1
  PROVE  CircInc(h, k, Capacity + 1) = Beyond(h, k)
<1>1. Capacity \in Nat
  BY QueueNumbers
<1>2. CASE h + k <= Capacity
  <2>1. (h + k) % (Capacity + 1) = h + k
    BY <1>1, <1>2
  <2> QED
    BY <1>2, <2>1 DEF CircInc, Beyond
<1>3. CASE ~(h + k <= Capacity)
  <2>1. (h + k) % (Capacity + 1) = h + k - Capacity - 1
    BY <1>1, <1>3
  <2> QED
    BY <1>3, <2>1 DEF CircInc, Beyond
<1> QED
  BY <1>2, <1>3

LEMMA DistanceIsBetween ==
  ASSUME NEW h \in 0 .. Capacity, NEW t \in 0 .. Capacity
  PROVE  (t - h) % (Capacity + 1) = Between(h, t)
<1>1. Capacity \in Nat
  BY QueueNumbers
<1>2. CASE t < h
  BY <1>1, <1>2 DEF Between
<1>3. CASE ~(t < h)
  BY <1>1, <1>3 DEF Between
<1> QED
  BY <1>2, <1>3

(* How many members a ring has, and where they are.                        *)
LEMMA Members ==
  ASSUME NEW X, NEW r, RingOK(r, X)
  PROVE  /\ r.head \in 0 .. Capacity /\ r.tail \in 0 .. Capacity /\ r.size = Capacity + 1
         /\ r.entry \in [0 .. Capacity -> X]
         /\ Occupancy(r) = Between(r.head, r.tail) /\ Occupancy(r) \in 0 .. Capacity
         /\ Beyond(r.head, Occupancy(r)) = r.tail
         /\ DOMAIN Contents(r) = 1 .. Occupancy(r)
         /\ \A i \in 1 .. Occupancy(r) :
              /\ i - 1 \in 0 .. Capacity /\ Beyond(r.head, i - 1) \in 0 .. Capacity
              /\ Contents(r)[i] = r.entry[Beyond(r.head, i - 1)]
              /\ Contents(r)[i] \in X
<1>1. /\ r.head \in 0 .. Capacity /\ r.tail \in 0 .. Capacity /\ r.size = Capacity + 1
      /\ r.entry \in [0 .. Capacity -> X] /\ Capacity \in Nat
  BY QueueNumbers DEF RingOK
<1>2. Occupancy(r) = Between(r.head, r.tail)
  BY <1>1 DEF Occupancy, IterMinus, Between
<1>3. Occupancy(r) \in 0 .. Capacity /\ Beyond(r.head, Occupancy(r)) = r.tail
  <2>1. Between(r.head, r.tail) \in 0 .. Capacity /\ Beyond(r.head, Between(r.head, r.tail)) = r.tail
    BY <1>1, BetweenFits, Zenon
  <2> QED
    BY <1>2, <2>1
<1>4. DOMAIN Contents(r) = 1 .. Occupancy(r)
  BY DEF Contents
<1>5. ASSUME NEW i \in 1 .. Occupancy(r)
      PROVE  /\ i - 1 \in 0 .. Capacity /\ Beyond(r.head, i - 1) \in 0 .. Capacity
             /\ Contents(r)[i] = r.entry[Beyond(r.head, i - 1)]
             /\ Contents(r)[i] \in X
  <2>1. i - 1 \in 0 .. Capacity /\ i - 1 \in 0 .. Capacity + 1
    BY <1>1, <1>3
  <2>2. CircInc(r.head, i - 1, r.size) = Beyond(r.head, i - 1)
    BY <1>1, <2>1, CircIncIsBeyond
  <2>3. Beyond(r.head, i - 1) \in 0 .. Capacity
    BY <1>1, <2>1, BetweenFits, BeyondFits, BeyondSeparates, BeyondTwice
  <2>4. Contents(r)[i] = r.entry[CircInc(r.head, i - 1, r.size)]
    BY DEF Contents
  <2> QED
    BY <1>1, <2>1, <2>2, <2>3, <2>4
<1> QED
  BY <1>1, <1>2, <1>3, <1>4, <1>5

LEMMA MemberAt ==
  ASSUME NEW X, NEW r, RingOK(r, X), NEW i \in 1 .. Occupancy(r)
  PROVE  /\ i - 1 \in 0 .. Capacity /\ Beyond(r.head, i - 1) \in 0 .. Capacity
         /\ Contents(r)[i] = r.entry[Beyond(r.head, i - 1)]
         /\ Contents(r)[i] \in X
BY Members, Zenon

(* What push_back does to the contents.                                    *)
LEMMA PushedBack ==
  ASSUME NEW X, NEW r, RingOK(r, X), NEW x \in X, ~IsFull(r)
  PROVE  /\ RingOK(PushBack(r, x), X)
         /\ PushBack(r, x).head = r.head /\ PushBack(r, x).tail = CircInc(r.tail, 1, r.size)
         /\ Occupancy(PushBack(r, x)) = Occupancy(r) + 1
         /\ \A i \in 1 .. Occupancy(r) : Contents(PushBack(r, x))[i] = Contents(r)[i]
         /\ Contents(PushBack(r, x))[Occupancy(r) + 1] = x
<1> DEFINE q == PushBack(r, x)
           n == Occupancy(r)
           h == r.head
<1>1. /\ h \in 0 .. Capacity /\ r.tail \in 0 .. Capacity /\ r.size = Capacity + 1
      /\ r.entry \in [0 .. Capacity -> X] /\ Capacity \in Nat
      /\ n \in 0 .. Capacity /\ Beyond(h, n) = r.tail
  BY QueueNumbers, Members
<1>2. n # Capacity
  BY <1>1 DEF IsFull
<1>3. n + 1 \in 0 .. Capacity /\ 1 \in 0 .. Capacity /\ 1 \in 0 .. Capacity + 1 /\ n + 1 <= Capacity
  BY <1>1, <1>2
<1>4. /\ q.head = h /\ q.size = r.size /\ q.tail = CircInc(r.tail, 1, r.size)
      /\ q.entry = [r.entry EXCEPT ![r.tail] = x]
  BY DEF PushBack
<1>5. q.tail = Beyond(h, n + 1)
  <2>1. q.tail = Beyond(r.tail, 1)
    BY <1>1, <1>3, <1>4, CircIncIsBeyond
  <2>2. Beyond(Beyond(h, n), 1) = Beyond(h, n + 1)
    BY <1>1, <1>3, BeyondTwice, Zenon
  <2> QED
    BY <1>1, <2>1, <2>2
<1>6. q.tail \in 0 .. Capacity /\ Between(h, q.tail) = n + 1
  <2>1. Beyond(h, n + 1) \in 0 .. Capacity /\ Between(h, Beyond(h, n + 1)) = n + 1
    BY <1>1, <1>3, BeyondFits, Zenon
  <2> QED
    BY <1>5, <2>1, Zenon
<1>7. RingOK(q, X)
  BY <1>1, <1>4, <1>6 DEF RingOK, PushBack
<1> HIDE DEF q, n, h
<1>8. Occupancy(q) = n + 1
  BY <1>4, <1>6, <1>7, Members
<1>9. ASSUME NEW i \in 1 .. n + 1
      PROVE  Contents(q)[i] = IF i = n + 1 THEN x ELSE Contents(r)[i]
  <2> DEFINE at == Beyond(h, i - 1)
  <2>1. at \in 0 .. Capacity /\ i - 1 \in 0 .. Capacity /\ Contents(q)[i] = q.entry[at]
    <3>1. /\ i - 1 \in 0 .. Capacity /\ Beyond(q.head, i - 1) \in 0 .. Capacity
          /\ Contents(q)[i] = q.entry[Beyond(q.head, i - 1)]
      <4>1. i \in 1 .. Occupancy(q)
        BY <1>8
      <4> QED
        BY <1>7, <4>1, MemberAt, Zenon
    <3> QED
      BY <1>4, <3>1, Zenon
  <2>2. at = r.tail <=> i = n + 1
    <3>1. at = r.tail <=> i - 1 = n
      <4>1. Beyond(h, i - 1) = Beyond(h, n) <=> i - 1 = n
        <5>1. i - 1 \in 0 .. Capacity
          BY <2>1
        <5>2. n \in 0 .. Capacity /\ h \in 0 .. Capacity
          BY <1>1
        <5> QED
          BY <5>1, <5>2, BeyondSeparates, Zenon
      <4> QED
        BY <1>1, <4>1, Zenon
    <3>2. i \in Nat /\ n \in Nat
      BY <1>1
    <3> QED
      BY <3>1, <3>2
  <2>3. CASE i = n + 1
    <3> HIDE DEF at
    <3> QED
      BY <1>1, <1>4, <2>1, <2>2, <2>3
  <2>4. CASE i # n + 1
    <3>1. i \in 1 .. n
      BY <1>1, <2>4
    <3>2. Contents(r)[i] = r.entry[at]
      BY <3>1, Members DEF n, h
    <3> HIDE DEF at
    <3> QED
      BY <1>1, <1>4, <2>1, <2>2, <2>4, <3>2
  <2> QED
    BY <2>3, <2>4
<1>10. \A i \in 1 .. n : i \in 1 .. n + 1 /\ i # n + 1
  BY <1>1
<1>11. n + 1 \in 1 .. n + 1
  BY <1>1
<1> QED
  BY <1>4, <1>7, <1>8, <1>9, <1>10, <1>11 DEF q, n, h

(* What popping some of the members does to the contents.                  *)
LEMMA PoppedFront ==
  ASSUME NEW X, NEW r, RingOK(r, X), NEW n \in 0 .. Occupancy(r)
  PROVE  /\ RingOK(PopFrontN(r, n), X)
         /\ PopFrontN(r, n).head = Beyond(r.head, n) /\ PopFrontN(r, n).tail = r.tail
         /\ Occupancy(PopFrontN(r, n)) = Occupancy(r) - n
         /\ \A i \in 1 .. Occupancy(r) - n : Contents(PopFrontN(r, n))[i] = Contents(r)[n + i]
<1> DEFINE q == PopFrontN(r, n)
           full == Occupancy(r)
           h == r.head
<1>1. /\ h \in 0 .. Capacity /\ r.tail \in 0 .. Capacity /\ r.size = Capacity + 1
      /\ r.entry \in [0 .. Capacity -> X] /\ Capacity \in Nat
      /\ full \in 0 .. Capacity /\ Beyond(h, full) = r.tail
  BY QueueNumbers, Members
<1>2. /\ n \in 0 .. Capacity /\ n \in 0 .. Capacity + 1 /\ full - n \in 0 .. Capacity
      /\ n + (full - n) = full /\ full <= Capacity
  <2>1. n \in 0 .. full
    OBVIOUS
  <2> HIDE DEF full
  <2> QED
    BY <1>1, <2>1
<1>3. CircInc(h, n, r.size) = Beyond(h, n) /\ Beyond(h, n) \in 0 .. Capacity
  BY <1>1, <1>2, CircIncIsBeyond, BeyondFits, Zenon
<1>4. /\ q.head = Beyond(h, n) /\ q.size = r.size /\ q.tail = r.tail
      /\ q.entry = r.entry
  BY <1>3 DEF PopFrontN, RingOK
<1>5. RingOK(q, X)
  BY <1>3 DEF RingOK, PopFrontN
<1>6. Between(q.head, q.tail) = full - n
  <2> DEFINE rest == full - n
  <2>1. rest \in 0 .. Capacity /\ n + rest <= Capacity /\ n + rest = full
    BY <1>2
  <2> HIDE DEF rest
  <2>2. Beyond(Beyond(h, n), rest) = Beyond(h, n + rest)
    BY <1>1, <1>2, <2>1, TwiceFrom
  <2>3. Between(Beyond(h, n), Beyond(Beyond(h, n), rest)) = rest
    BY <1>3, <2>1, BeyondFits, Zenon
  <2>4. Between(q.head, q.tail) = rest
    BY <1>1, <1>4, <2>1, <2>2, <2>3
  <2> QED
    BY <2>4 DEF rest
<1> HIDE DEF q, full, h
<1>7. Occupancy(q) = full - n
  BY <1>5, <1>6, Members
<1>8. ASSUME NEW i \in 1 .. full - n
      PROVE  Contents(q)[i] = Contents(r)[n + i]
  <2>1. Contents(q)[i] = q.entry[Beyond(q.head, i - 1)] /\ i - 1 \in 0 .. Capacity
    BY <1>5, <1>7, Members
  <2>2. n + i \in 1 .. full /\ n + (i - 1) = n + i - 1 /\ n + (i - 1) <= Capacity
    BY <1>1, <1>2
  <2>3. Contents(r)[n + i] = r.entry[Beyond(h, n + i - 1)]
    BY <2>2, Members DEF full, h
  <2>4. Beyond(Beyond(h, n), i - 1) = Beyond(h, n + (i - 1))
    <3> DEFINE k == i - 1
    <3>1. k \in 0 .. Capacity /\ n + k <= Capacity
      BY <2>1, <2>2
    <3> HIDE DEF k
    <3>2. Beyond(Beyond(h, n), k) = Beyond(h, n + k)
      BY <1>1, <1>2, <3>1, TwiceFrom
    <3> QED
      BY <3>2 DEF k
  <2> QED
    BY <1>4, <2>1, <2>2, <2>3, <2>4
<1> QED
  BY <1>4, <1>5, <1>7, <1>8 DEF q, full, h

(* What a cycle does to the delays.                                        *)
LEMMA CountedDown ==
  ASSUME NEW r, RingOK(r, Int)
  PROVE  /\ RingOK(CountDown(r), Int)
         /\ CountDown(r).head = r.head /\ CountDown(r).tail = r.tail
         /\ Occupancy(CountDown(r)) = Occupancy(r)
         /\ \A i \in 1 .. Occupancy(r) : Contents(CountDown(r))[i] = Less(Contents(r)[i])
<1> DEFINE members == {CircInc(r.head, k, r.size) : k \in 0 .. Occupancy(r) - 1}
           entry == [i \in DOMAIN r.entry |->
                       IF i \in members THEN Less(r.entry[i]) ELSE r.entry[i]]
           q == CountDown(r)
           n == Occupancy(r)
<1>1. /\ r.head \in 0 .. Capacity /\ r.tail \in 0 .. Capacity /\ r.size = Capacity + 1
      /\ r.entry \in [0 .. Capacity -> Int] /\ Capacity \in Nat
      /\ DOMAIN r.entry = 0 .. Capacity /\ n \in 0 .. Capacity
  BY QueueNumbers, Members
<1>2. \A d \in Int : Less(d) \in Int
  BY QueueNumbers DEF Less
<1>3. q = [r EXCEPT !.entry = entry]
  BY DEF CountDown
<1> HIDE DEF members
<1>4. entry \in [0 .. Capacity -> Int]
  BY <1>1, <1>2
<1>5. \A i \in 0 .. Capacity : entry[i] = IF i \in members THEN Less(r.entry[i]) ELSE r.entry[i]
  BY <1>1
<1> HIDE DEF entry, q, n
<1>6. /\ RingOK(q, Int) /\ q.head = r.head /\ q.tail = r.tail /\ q.size = r.size
      /\ q.entry = entry
  BY <1>3, <1>4 DEF RingOK
<1>7. Occupancy(q) = n
  BY <1>6, Members DEF n
<1>8. ASSUME NEW i \in 1 .. n
      PROVE  Contents(q)[i] = Less(Contents(r)[i])
  <2> DEFINE at == Beyond(r.head, i - 1)
  <2>1. Contents(q)[i] = q.entry[at]
    BY <1>6, <1>7, Members
  <2>2. Contents(r)[i] = r.entry[at] /\ at \in 0 .. Capacity
    BY Members DEF n
  <2>3. i - 1 \in 0 .. n - 1 /\ i - 1 \in 0 .. Capacity + 1
    BY <1>1
  <2>4. CircInc(r.head, i - 1, r.size) = at
    BY <1>1, <2>3, CircIncIsBeyond
  <2>5. at \in members
    BY <2>3, <2>4 DEF members, n
  <2> HIDE DEF at
  <2> QED
    BY <1>5, <1>6, <2>1, <2>2, <2>5
<1> QED
  BY <1>6, <1>7, <1>8 DEF q, n
-----------------------------------------------------------------------------
LEMMA ReadyIsBetween ==
  ASSUME NEW h \in 0 .. Capacity, NEW k \in 0 .. Capacity
  PROVE  (Beyond(h, k) - h) % (Capacity + 1) = k
<1>1. Beyond(h, k) \in 0 .. Capacity /\ Between(h, Beyond(h, k)) = k
  BY BeyondFits, Zenon
<1>2. (Beyond(h, k) - h) % (Capacity + 1) = Between(h, Beyond(h, k))
  BY <1>1, DistanceIsBetween, Zenon
<1> QED
  BY <1>1, <1>2, Zenon

LEMMA EmptyRing ==
  ASSUME NEW X, NEW r, RingOK(r, X), r.head = r.tail
  PROVE  Occupancy(r) = 0
<1>1. Occupancy(r) = Between(r.head, r.head) /\ r.head \in 0 .. Capacity
  BY Members, Zenon
<1> QED
  BY <1>1, QueueNumbers DEF Between

LEMMA QueueInitially == Init => QueueIInv
<1> SUFFICES ASSUME Init PROVE QueueIInv
  OBVIOUS
<1>1. /\ Capacity \in Nat /\ Latency \in Nat
  BY QueueNumbers
<1>2. RingOK(buf, Items \union {NoItem}) /\ buf.head = 0 /\ buf.tail = 0
  BY <1>1 DEF Init, NewRing, RingOK
<1>3. RingOK(delays, Int) /\ delays.head = 0 /\ delays.tail = 0
  BY <1>1 DEF Init, NewRing, RingOK
<1>4. endReady = 0 /\ released = <<>> /\ aborted = FALSE
  BY DEF Init
<1>5. Occupancy(buf) = 0 /\ Occupancy(delays) = 0
  BY <1>2, <1>3, EmptyRing
<1>6. Ready = 0
  BY <1>1, <1>2, <1>4 DEF Ready
<1>7. Ascending
  BY <1>5 DEF Ascending
<1>8. NoEarlyRelease
  BY <1>4 DEF NoEarlyRelease
<1>9. PlainOK
  BY <1>1, <1>2, <1>3, <1>4, <1>5, <1>6, <1>7, <1>8 DEF PlainOK, InStep
<1> QED
  BY <1>1, <1>2, <1>3, <1>4, <1>9 DEF QueueIInv

LEMMA SameLength ==
  ASSUME QueueIInv, InStep
  PROVE  Occupancy(delays) = Occupancy(buf)
<1>1. /\ Occupancy(buf) = Between(buf.head, buf.tail)
      /\ Occupancy(delays) = Between(delays.head, delays.tail)
  BY Members DEF QueueIInv
<1> QED
  BY <1>1 DEF InStep

LEMMA QueuePushKeeps ==
  ASSUME QueueIInv, NEW x \in Items, NEW d \in Int, Plain => d = Latency,
         PushWithDelay(x, d)
  PROVE  QueueIInv'
<1>1. /\ uses' = uses /\ endReady' = endReady /\ buf' = PushBack(buf, x)
      /\ released' = <<>> /\ ~aborted /\ ~IsFull(buf)
  BY DEF PushWithDelay
<1>2. /\ RingOK(buf, Items \union {NoItem}) /\ RingOK(delays, Int)
      /\ endReady \in 0 .. Capacity
  BY DEF QueueIInv
<1>3. /\ buf.size = Capacity + 1 /\ delays.size = Capacity + 1 /\ Capacity \in Nat
      /\ Latency \in Nat
      /\ Occupancy(buf) \in 0 .. Capacity /\ Occupancy(delays) \in 0 .. Capacity
  BY <1>2, Members, QueueNumbers
<1>4. x \in Items \union {NoItem}
  OBVIOUS
<1>5. /\ RingOK(buf', Items \union {NoItem})
      /\ buf'.head = buf.head /\ buf'.tail = CircInc(buf.tail, 1, buf.size)
      /\ Occupancy(buf') = Occupancy(buf) + 1
  BY <1>1, <1>2, <1>4, PushedBack
<1>6. CASE ~IsFull(delays)
  <2>1. delays' = PushBack(delays, d) /\ aborted' = FALSE
    BY <1>6 DEF PushWithDelay
  <2>2. /\ RingOK(delays', Int)
        /\ delays'.head = delays.head /\ delays'.tail = CircInc(delays.tail, 1, delays.size)
        /\ Occupancy(delays') = Occupancy(delays) + 1
        /\ \A i \in 1 .. Occupancy(delays) : Contents(delays')[i] = Contents(delays)[i]
        /\ Contents(delays')[Occupancy(delays) + 1] = d
    BY <1>2, <1>6, <2>1, PushedBack
  <2>3. ASSUME Plain PROVE PlainOK'
    <3>1. /\ InStep /\ Ascending /\ Ready <= Occupancy(buf) /\ d = Latency
          /\ \A i \in 1 .. Ready : Contents(delays)[i] <= 0
          /\ Occupancy(delays) = Occupancy(buf)
      BY <2>3, SameLength DEF QueueIInv, PlainOK
    <3>2. InStep'
      BY <1>3, <1>5, <2>2, <3>1 DEF InStep
    <3>3. \A i \in 1 .. Occupancy(delays') :
            i \in 1 .. Occupancy(delays) \/ i = Occupancy(delays) + 1
      BY <1>3, <2>2
    <3>4. Ascending'
      <4> DEFINE n == Occupancy(delays)
      <4>1. /\ \A i \in 1 .. n : Contents(delays')[i] <= Latency
            /\ \A i, j \in 1 .. n : i <= j => Contents(delays')[i] <= Contents(delays')[j]
            /\ Contents(delays')[n + 1] = Latency
            /\ Occupancy(delays') = n + 1 /\ n \in Nat
        BY <1>3, <2>2, <3>1 DEF Ascending
      <4> HIDE DEF n
      <4> QED
        BY <1>3, <4>1 DEF Ascending
    <3>5. Ready' = Ready
      BY <1>1, <1>5 DEF Ready
    <3>6. Ready \in Nat
      BY <1>2, <1>3, Members DEF Ready
    <3>7. Ready' <= Occupancy(buf')
      BY <1>3, <1>5, <3>1, <3>5, <3>6
    <3>8. \A i \in 1 .. Ready' : Contents(delays')[i] <= 0
      BY <1>3, <2>2, <3>1, <3>5, <3>6
    <3>9. NoEarlyRelease'
      BY <1>1 DEF NoEarlyRelease
    <3> QED
      BY <2>1, <3>2, <3>4, <3>7, <3>8, <3>9 DEF PlainOK
  <2> QED
    BY <1>1, <1>2, <1>5, <2>2, <2>3 DEF QueueIInv, Plain
<1>7. CASE IsFull(delays)
  <2>1. delays' = delays
    BY <1>7 DEF PushWithDelay
  <2>2. ~Plain
    <3>1. ASSUME Plain PROVE FALSE
      <4>1. Occupancy(delays) = Occupancy(buf)
        BY <3>1, SameLength DEF QueueIInv, PlainOK
      <4> QED
        BY <1>1, <1>3, <1>7, <4>1 DEF IsFull
    <3> QED
      BY <3>1
  <2> QED
    BY <1>1, <1>2, <1>5, <2>1, <2>2 DEF QueueIInv, Plain
<1> QED
  BY <1>6, <1>7

LEMMA LessAscends ==
  ASSUME NEW d \in Int, NEW e \in Int
  PROVE  /\ d <= e => Less(d) <= Less(e)
         /\ d <= Latency => Less(d) <= Latency
         /\ d <= 0 => Less(d) <= 0
BY QueueNumbers DEF Less

LEMMA QueueOperateKeeps ==
  ASSUME QueueIInv, Operate
  PROVE  QueueIInv'
<1>1. /\ uses' = uses /\ buf' = buf /\ delays' = CountDown(delays)
      /\ released' = <<>> /\ aborted' = aborted /\ ~aborted
  BY DEF Operate
<1>2. /\ RingOK(buf, Items \union {NoItem}) /\ RingOK(delays, Int)
  BY DEF QueueIInv
<1>3. /\ buf.head \in 0 .. Capacity /\ buf.size = Capacity + 1 /\ Capacity \in Nat
      /\ Occupancy(buf) \in 0 .. Capacity /\ Occupancy(delays) \in 0 .. Capacity
  BY <1>2, Members, QueueNumbers
<1>4. /\ RingOK(delays', Int)
      /\ delays'.head = delays.head /\ delays'.tail = delays.tail
      /\ Occupancy(delays') = Occupancy(delays)
      /\ \A i \in 1 .. Occupancy(delays) : Contents(delays')[i] = Less(Contents(delays)[i])
  BY <1>1, <1>2, CountedDown
<1>5. PICK p \in PartitionPoints(Contents(delays')) : endReady' = CircInc(buf.head, p, buf.size)
  BY DEF Operate
<1>6. Len(Contents(delays')) = Occupancy(delays)
  <2>1. DOMAIN Contents(delays') = 1 .. Occupancy(delays')
    BY <1>4, Members
  <2>2. Contents(delays') = [k \in 1 .. Occupancy(delays') |-> Contents(delays')[k]]
    BY DEF Contents
  <2> QED
    BY <1>3, <1>4, <2>2
<1>7. /\ p \in 0 .. Occupancy(delays) /\ p \in 0 .. Capacity /\ p \in 0 .. Capacity + 1
      /\ p > 0 => Contents(delays')[p] <= 0
  BY <1>3, <1>6 DEF PartitionPoints
<1>8. endReady' = Beyond(buf.head, p) /\ endReady' \in 0 .. Capacity
  <2>1. CircInc(buf.head, p, buf.size) = Beyond(buf.head, p)
    BY <1>3, <1>7, CircIncIsBeyond
  <2>2. Beyond(buf.head, p) \in 0 .. Capacity
    BY <1>3, <1>7, BeyondFits, Zenon
  <2> QED
    BY <1>5, <2>1, <2>2
<1>9. ASSUME Plain PROVE PlainOK'
  <2>1. InStep /\ Ascending /\ Occupancy(delays) = Occupancy(buf)
    BY <1>9, SameLength DEF QueueIInv, PlainOK
  <2>2. InStep'
    BY <1>1, <1>4, <2>1 DEF InStep
  <2>3. \A i \in 1 .. Occupancy(delays) : Contents(delays)[i] \in Int
    BY <1>2, MemberAt
  <2>4. Ascending'
    <3> DEFINE n == Occupancy(delays)
               old == Contents(delays)
               new == Contents(delays')
    <3>1. /\ \A i \in 1 .. n : old[i] \in Int /\ old[i] <= Latency /\ new[i] = Less(old[i])
          /\ \A i, j \in 1 .. n : i <= j => old[i] <= old[j]
      BY <1>4, <2>1, <2>3 DEF Ascending
    <3> HIDE DEF n, old, new
    <3>2. \A i \in 1 .. n : new[i] <= Latency
      BY <3>1, LessAscends
    <3>3. \A i, j \in 1 .. n : i <= j => new[i] <= new[j]
      BY <3>1, LessAscends
    <3> QED
      BY <1>4, <3>2, <3>3 DEF Ascending, n, new
  <2>5. Ready' = p
    <3>1. (Beyond(buf.head, p) - buf.head) % (Capacity + 1) = p
      BY <1>3, <1>7, ReadyIsBetween, Zenon
    <3> QED
      BY <1>1, <1>8, <3>1 DEF Ready
  <2>6. \A i \in 1 .. p : Contents(delays')[i] <= 0
    <3> SUFFICES ASSUME NEW i \in 1 .. p PROVE Contents(delays')[i] <= 0
      OBVIOUS
    <3>1. p > 0 /\ i <= p /\ p \in 1 .. Occupancy(delays) /\ i \in 1 .. Occupancy(delays)
      BY <1>3, <1>7
    <3>2. Contents(delays')[i] <= Contents(delays')[p]
      BY <1>4, <2>4, <3>1 DEF Ascending
    <3>3. Contents(delays')[i] \in Int /\ Contents(delays')[p] \in Int
      BY <1>4, <3>1, MemberAt
    <3> QED
      BY <1>7, <3>1, <3>2, <3>3
  <2>7. NoEarlyRelease'
    BY <1>1 DEF NoEarlyRelease
  <2>8. p <= Occupancy(buf')
    BY <1>1, <1>3, <1>7, <2>1
  <2> QED
    BY <1>1, <2>2, <2>4, <2>5, <2>6, <2>7, <2>8 DEF PlainOK
<1> QED
  BY <1>1, <1>2, <1>4, <1>8, <1>9 DEF QueueIInv, Plain

(* A loop that pops until `end', for a plain client until _end_ready.      *)
LEMMA QueuePopKeeps ==
  ASSUME QueueIInv, NEW end \in 0 .. Capacity, Plain => end = endReady, PopUntil(end)
  PROVE  QueueIInv'
<1> DEFINE wanted == (end - buf.head) % buf.size
           n == IF wanted <= Occupancy(buf) THEN wanted ELSE Occupancy(buf)
<1>1. /\ uses' = uses /\ endReady' = endReady /\ ~aborted
      /\ buf' = PopFrontN(buf, n) /\ delays' = PopFrontN(delays, n)
      /\ aborted' = (n < wanted) /\ n <= Occupancy(delays)
      /\ released' = [i \in 1 .. n |->
                        [item |-> Contents(buf)[i], left |-> Contents(delays)[i]]]
  BY DEF PopUntil
<1>2. /\ RingOK(buf, Items \union {NoItem}) /\ RingOK(delays, Int)
      /\ endReady \in 0 .. Capacity
  BY DEF QueueIInv
<1>3. /\ buf.head \in 0 .. Capacity /\ buf.size = Capacity + 1 /\ Capacity \in Nat
      /\ Occupancy(buf) \in 0 .. Capacity /\ Occupancy(delays) \in 0 .. Capacity
  BY <1>2, Members, QueueNumbers
<1>4. /\ wanted = Between(buf.head, end) /\ wanted \in 0 .. Capacity
      /\ Beyond(buf.head, wanted) = end
  <2>1. (end - buf.head) % (Capacity + 1) = Between(buf.head, end)
    BY <1>3, DistanceIsBetween, Zenon
  <2>2. /\ Between(buf.head, end) \in 0 .. Capacity
        /\ Beyond(buf.head, Between(buf.head, end)) = end
    BY <1>3, BetweenFits, Zenon
  <2> QED
    BY <1>3, <2>1, <2>2
<1> HIDE DEF wanted
<1>5. n \in 0 .. Occupancy(buf) /\ n \in 0 .. Occupancy(delays) /\ n \in 0 .. Capacity
  BY <1>1, <1>3, <1>4
<1>6. wanted <= Occupancy(buf) => n = wanted
  OBVIOUS
<1> HIDE DEF n
<1>7. /\ RingOK(buf', Items \union {NoItem})
      /\ buf'.head = Beyond(buf.head, n) /\ buf'.tail = buf.tail
      /\ Occupancy(buf') = Occupancy(buf) - n
  BY <1>1, <1>2, <1>5, PoppedFront
<1>8. /\ RingOK(delays', Int)
      /\ delays'.head = Beyond(delays.head, n) /\ delays'.tail = delays.tail
      /\ Occupancy(delays') = Occupancy(delays) - n
      /\ \A i \in 1 .. Occupancy(delays) - n : Contents(delays')[i] = Contents(delays)[n + i]
  BY <1>1, <1>2, <1>5, PoppedFront
<1>9. ASSUME Plain PROVE PlainOK'
  <2>1. /\ InStep /\ Ascending /\ Ready <= Occupancy(buf) /\ end = endReady
        /\ \A i \in 1 .. Ready : Contents(delays)[i] <= 0
        /\ Occupancy(delays) = Occupancy(buf)
    BY <1>9, SameLength DEF QueueIInv, PlainOK
  <2>2. Ready = wanted
    BY <1>3, <2>1 DEF Ready, wanted
  <2>3. n = wanted
    BY <1>6, <2>1, <2>2
  <2>4. ~aborted'
    <3>1. ~(n < wanted)
      BY <1>3, <1>4, <2>3
    <3> QED
      BY <1>1, <3>1, Zenon
  <2>5. InStep'
    BY <1>7, <1>8, <2>1 DEF InStep
  <2>6. Ascending'
    <3> DEFINE m == Occupancy(delays)
               old == Contents(delays)
               new == Contents(delays')
    <3>1. /\ \A i \in 1 .. m : old[i] <= Latency
          /\ \A i, j \in 1 .. m : i <= j => old[i] <= old[j]
          /\ \A i \in 1 .. m - n : new[i] = old[n + i]
          /\ m \in Nat /\ n \in Nat /\ Occupancy(delays') = m - n
      BY <1>3, <1>5, <1>8, <2>1 DEF Ascending
    <3> HIDE DEF m, old, new
    <3>2. \A i \in 1 .. m - n : n + i \in 1 .. m
      BY <3>1
    <3>3. \A i, j \in 1 .. m - n : i <= j => n + i <= n + j
      BY <3>1
    <3>4. \A i \in 1 .. m - n : new[i] <= Latency
      BY <3>1, <3>2
    <3>5. \A i, j \in 1 .. m - n : i <= j => new[i] <= new[j]
      BY <3>1, <3>2, <3>3
    <3> QED
      BY <3>1, <3>4, <3>5 DEF Ascending, new
  <2>7. Ready' = 0
    <3>1. buf'.head = endReady
      BY <1>4, <1>7, <2>1, <2>3
    <3> QED
      BY <1>1, <1>2, <1>3, <3>1 DEF Ready
  <2>8. \A i \in 1 .. n : Contents(delays)[i] <= 0
    BY <2>1, <2>2, <2>3
  <2>9. NoEarlyRelease'
    BY <1>1, <2>8 DEF NoEarlyRelease
  <2>10. Ready' <= Occupancy(buf') /\ \A i \in 1 .. Ready' : Contents(delays')[i] <= 0
    BY <1>3, <1>5, <1>7, <2>7
  <2> QED
    BY <2>4, <2>5, <2>6, <2>9, <2>10 DEF PlainOK
<1> QED
  BY <1>1, <1>2, <1>7, <1>8, <1>9 DEF QueueIInv, Plain

(* Where a loop with a bandwidth stops is a position of the ring.          *)
LEMMA BandwidthEnd ==
  ASSUME QueueIInv
  PROVE  IterMin(buf, endReady, CircInc(buf.head, Bandwidth, buf.size)) \in 0 .. Capacity
<1> DEFINE next == CircInc(buf.head, Bandwidth, buf.size)
<1>1. RingOK(buf, Items \union {NoItem}) /\ endReady \in 0 .. Capacity
  BY DEF QueueIInv
<1>2. buf.head \in 0 .. Capacity /\ buf.size = Capacity + 1
  BY <1>1, Members
<1>3. Bandwidth \in 0 .. Capacity + 1 /\ Bandwidth \in 0 .. Capacity
  BY DelayQueueAssumption
<1>4. next = Beyond(buf.head, Bandwidth)
  BY <1>2, <1>3, CircIncIsBeyond
<1>5. Beyond(buf.head, Bandwidth) \in 0 .. Capacity
  BY <1>2, <1>3, BeyondFits, Zenon
<1> HIDE DEF next
<1>6. IterMin(buf, endReady, next) \in 0 .. Capacity
  BY <1>1, <1>4, <1>5 DEF IterMin
<1> QED
  BY <1>6 DEF next

LEMMA QueueNextKeeps == QueueIInv /\ [Next]_vars => QueueIInv'
<1> SUFFICES ASSUME QueueIInv, [Next]_vars PROVE QueueIInv'
  OBVIOUS
<1>1. Latency \in Int /\ 0 \in Int
  BY QueueNumbers
<1>2. Plain => "push_back_ready" \notin uses /\ "pop_bandwidth" \notin uses /\ "clear" \notin uses
  BY DEF Plain, PlainUses
<1>3. ASSUME NEW x \in Items, Push(x) PROVE QueueIInv'
  BY <1>1, <1>3, QueuePushKeeps DEF Push
<1>4. ASSUME NEW x \in Items, PushReady(x) PROVE QueueIInv'
  BY <1>1, <1>2, <1>4, QueuePushKeeps DEF PushReady
<1>5. CASE Operate
  BY <1>5, QueueOperateKeeps
<1>6. CASE PopAllReady
  BY <1>6, QueuePopKeeps DEF PopAllReady, QueueIInv
<1>7. CASE PopBandwidth
  <2> DEFINE next == CircInc(buf.head, Bandwidth, buf.size)
             end == IterMin(buf, endReady, next)
  <2>1. PopUntil(end) /\ ~Plain
    BY <1>2, <1>7 DEF PopBandwidth
  <2>2. end \in 0 .. Capacity
    BY BandwidthEnd
  <2> HIDE DEF end
  <2> QED
    BY <2>1, <2>2, QueuePopKeeps
<1>8. CASE Clear
  <2>1. /\ ~Plain /\ uses' = uses /\ delays' = delays /\ endReady' = endReady
        /\ buf' = ClearRing(buf)
    BY <1>2, <1>8 DEF Clear
  <2>2. RingOK(buf', Items \union {NoItem})
    BY <2>1, QueueNumbers DEF QueueIInv, RingOK, ClearRing
  <2> QED
    BY <2>1, <2>2 DEF QueueIInv, Plain
<1>9. CASE UNCHANGED vars
  BY <1>9 DEF vars, QueueIInv, Plain, PlainOK, InStep, Ascending, Ready, NoEarlyRelease
<1> QED
  BY <1>3, <1>4, <1>5, <1>6, <1>7, <1>8, <1>9 DEF Next
-----------------------------------------------------------------------------
(* The inductive invariant of the queue: rings in bounds, and for a plain  *)
(* client rings that move together, delays that ascend and an end_ready    *)
(* behind members whose delay is over.                                     *)
THEOREM QueueInvariance == Spec => []QueueIInv
BY QueueInitially, QueueNextKeeps, PTL DEF Spec

(* A plain client, which pushes only when the queue is not full and pops   *)
(* what end_ready() lets it pop, trips no assertion of circular_buffer.    *)
THEOREM PlainClientNeverAborts == Spec => []NoAbort
<1>1. QueueIInv => NoAbort
  BY DEF QueueIInv, PlainOK, NoAbort
<1> QED
  BY <1>1, QueueInvariance, PTL

(* The cached end_ready is never ahead of the delays: every member before  *)
(* it has waited its latency, so a plain client releases nothing early.    *)
THEOREM EndReadyAlwaysSound == Spec => []EndReadySound
<1>1. QueueIInv => EndReadySound
  BY DEF QueueIInv, PlainOK, EndReadySound, Ready
<1> QED
  BY <1>1, QueueInvariance, PTL
-----------------------------------------------------------------------------
(* The abstract queue of two rings b and d and a client that calls u, and  *)
(* the entries it holds.                                                   *)
Wait(u, d, i) == IF u = PlainUses /\ Contents(d)[i] > 0 THEN Contents(d)[i] ELSE 0

AbsOf(u, b, d) ==
  [i \in 1 .. Occupancy(b) |-> [item |-> Contents(b)[i], wait |-> Wait(u, d, i)]]

Entries == [item : Items \union {NoItem}, wait : Int]

(* Rings that stand for an abstract queue.                                 *)
Paired(u, b, d) ==
  /\ RingOK(b, Items \union {NoItem}) /\ RingOK(d, Int)
  /\ u = PlainUses => Occupancy(d) = Occupancy(b)

LEMMA FunctionIsSequence ==
  ASSUME NEW S, NEW n \in Nat, NEW f \in [1 .. n -> S]
  PROVE  f \in Seq(S) /\ Len(f) = n /\ DOMAIN f = 1 .. n
<1>1. f \in Seq(S)
  BY SeqDef
<1>2. Len(f) \in Nat /\ DOMAIN f = 1 .. Len(f)
  BY <1>1, LenProperties
<1>3. DOMAIN f = 1 .. n
  OBVIOUS
<1>4. Len(f) = n
  <2> DEFINE m == Len(f)
  <2>1. m \in Nat /\ 1 .. m = 1 .. n
    BY <1>2, <1>3
  <2> HIDE DEF m
  <2>2. m \in 1 .. m => m \in 1 .. n
    BY <2>1
  <2>3. n \in 1 .. n => n \in 1 .. m
    BY <2>1
  <2>4. m = n
    BY <2>1, <2>2, <2>3
  <2> QED
    BY <2>4 DEF m
<1> QED
  BY <1>1, <1>3, <1>4

LEMMA AbsOfIs ==
  ASSUME NEW u, NEW b, NEW d, Paired(u, b, d)
  PROVE  /\ AbsOf(u, b, d) \in Seq(Entries) /\ Len(AbsOf(u, b, d)) = Occupancy(b)
         /\ DOMAIN AbsOf(u, b, d) = 1 .. Occupancy(b) /\ Occupancy(b) \in 0 .. Capacity
         /\ \A i \in 1 .. Occupancy(b) :
              /\ AbsOf(u, b, d)[i] = [item |-> Contents(b)[i], wait |-> Wait(u, d, i)]
              /\ Wait(u, d, i) \in Int /\ Contents(b)[i] \in Items \union {NoItem}
<1>1. Occupancy(b) \in 0 .. Capacity /\ Occupancy(b) \in Nat
  BY Members, QueueNumbers DEF Paired
<1>2. \A i \in 1 .. Occupancy(b) : Contents(b)[i] \in Items \union {NoItem}
  BY MemberAt DEF Paired
<1>3. \A i \in 1 .. Occupancy(b) : Wait(u, d, i) \in Int
  <2> SUFFICES ASSUME NEW i \in 1 .. Occupancy(b) PROVE Wait(u, d, i) \in Int
    OBVIOUS
  <2>1. u = PlainUses => Contents(d)[i] \in Int
    BY MemberAt DEF Paired
  <2> QED
    BY <2>1 DEF Wait
<1>4. AbsOf(u, b, d) \in [1 .. Occupancy(b) -> Entries]
  BY <1>2, <1>3 DEF AbsOf, Entries
<1>5. \A i \in 1 .. Occupancy(b) :
        AbsOf(u, b, d)[i] = [item |-> Contents(b)[i], wait |-> Wait(u, d, i)]
  BY DEF AbsOf
<1>6. /\ AbsOf(u, b, d) \in Seq(Entries) /\ Len(AbsOf(u, b, d)) = Occupancy(b)
      /\ DOMAIN AbsOf(u, b, d) = 1 .. Occupancy(b)
  BY <1>1, <1>4, FunctionIsSequence
<1> QED
  BY <1>1, <1>2, <1>3, <1>5, <1>6

LEMMA AbsQueueIsOf ==
  /\ AbsQueue = AbsOf(uses, buf, delays)
  /\ AbsQueue' = AbsOf(uses', buf', delays')
BY DEF AbsQueue, AbsOf, Wait, Plain

LEMMA InvariantPairs ==
  /\ QueueIInv => Paired(uses, buf, delays)
  /\ QueueIInv' => Paired(uses', buf', delays')
<1>1. ASSUME NEW b, NEW d, RingOK(b, Items \union {NoItem}), RingOK(d, Int),
             d.head = b.head, d.tail = b.tail
      PROVE  Occupancy(d) = Occupancy(b)
  <2>1. Occupancy(b) = Between(b.head, b.tail) /\ Occupancy(d) = Between(d.head, d.tail)
    BY <1>1, Members
  <2> QED
    BY <1>1, <2>1
<1>2. ASSUME QueueIInv PROVE Paired(uses, buf, delays)
  BY <1>1, <1>2 DEF QueueIInv, PlainOK, InStep, Plain, Paired
<1>3. ASSUME QueueIInv' PROVE Paired(uses', buf', delays')
  BY <1>1, <1>3 DEF QueueIInv, PlainOK, InStep, Plain, Paired
<1> QED
  BY <1>2, <1>3

(* The three ways in which the abstract queue changes.                     *)
LEMMA Appends ==
  ASSUME NEW u, NEW b, NEW d, Paired(u, b, d), NEW c, NEW e, Paired(u, c, e),
         NEW x, NEW w, Occupancy(c) = Occupancy(b) + 1,
         \A i \in 1 .. Occupancy(b) :
           Contents(c)[i] = Contents(b)[i] /\ Wait(u, e, i) = Wait(u, d, i),
         Contents(c)[Occupancy(b) + 1] = x, Wait(u, e, Occupancy(b) + 1) = w
  PROVE  AbsOf(u, c, e) = Append(AbsOf(u, b, d), [item |-> x, wait |-> w])
<1> DEFINE s == AbsOf(u, b, d)
           t == AbsOf(u, c, e)
           n == Occupancy(b)
           z == [item |-> x, wait |-> w]
<1>1. s \in Seq(Entries) /\ Len(s) = n /\ n \in Nat
  BY AbsOfIs, QueueNumbers
<1>2. t \in Seq(Entries) /\ Len(t) = n + 1
  BY AbsOfIs
<1>3. \A i \in 1 .. n : i \in 1 .. n + 1
  BY <1>1
<1>4. \A i \in 1 .. n : s[i] = t[i]
  <2> SUFFICES ASSUME NEW i \in 1 .. n PROVE s[i] = t[i]
    OBVIOUS
  <2>1. s[i] = [item |-> Contents(b)[i], wait |-> Wait(u, d, i)]
    BY AbsOfIs
  <2>2. i \in 1 .. Occupancy(c)
    BY <1>3
  <2>3. t[i] = [item |-> Contents(c)[i], wait |-> Wait(u, e, i)]
    BY <2>2, AbsOfIs
  <2> QED
    BY <2>1, <2>3
<1>5. t[n + 1] = z /\ z \in Entries
  <2>1. n + 1 \in 1 .. Occupancy(c)
    BY <1>1
  <2>2. /\ t[n + 1] = [item |-> Contents(c)[n + 1], wait |-> Wait(u, e, n + 1)]
        /\ Wait(u, e, n + 1) \in Int /\ Contents(c)[n + 1] \in Items \union {NoItem}
    BY <2>1, AbsOfIs
  <2> QED
    BY <2>2 DEF Entries
<1> HIDE DEF s, t, n, z
<1>6. /\ Append(s, z) \in Seq(Entries) /\ Len(Append(s, z)) = n + 1
      /\ \A i \in 1 .. n : Append(s, z)[i] = s[i]
      /\ Append(s, z)[n + 1] = z
  BY <1>1, <1>5, AppendProperties
<1>7. \A i \in 1 .. n + 1 : i \in 1 .. n \/ i = n + 1
  BY <1>1
<1>8. \A i \in 1 .. Len(t) : t[i] = Append(s, z)[i]
  BY <1>2, <1>4, <1>5, <1>6, <1>7
<1>9. t = Append(s, z)
  BY <1>2, <1>6, <1>8, SeqEqual
<1> QED
  BY <1>9 DEF s, t, n, z

LEMMA Ticks ==
  ASSUME NEW u, NEW b, NEW d, Paired(u, b, d), NEW c, NEW e, Paired(u, c, e),
         Occupancy(c) = Occupancy(b),
         \A i \in 1 .. Occupancy(b) :
           /\ Contents(c)[i] = Contents(b)[i]
           /\ Wait(u, e, i) = IF Wait(u, d, i) > 0 THEN Wait(u, d, i) - 1 ELSE 0
  PROVE  AbsOf(u, c, e) =
           [i \in DOMAIN AbsOf(u, b, d) |->
              [AbsOf(u, b, d)[i] EXCEPT !.wait = IF @ > 0 THEN @ - 1 ELSE 0]]
<1> DEFINE s == AbsOf(u, b, d)
           n == Occupancy(b)
<1>1. /\ DOMAIN s = 1 .. n
      /\ \A i \in 1 .. n : s[i] = [item |-> Contents(b)[i], wait |-> Wait(u, d, i)]
  BY AbsOfIs
<1> HIDE DEF s
<1>2. ASSUME NEW i \in 1 .. n
      PROVE  [s[i] EXCEPT !.wait = IF @ > 0 THEN @ - 1 ELSE 0] =
               [item |-> Contents(c)[i], wait |-> Wait(u, e, i)]
  <2> DEFINE w == Wait(u, d, i)
             v == Wait(u, e, i)
  <2>1. s[i] = [item |-> Contents(b)[i], wait |-> w] /\ Contents(c)[i] = Contents(b)[i]
    BY <1>1
  <2>2. v = IF w > 0 THEN w - 1 ELSE 0
    OBVIOUS
  <2> HIDE DEF w, v
  <2>3. [s[i] EXCEPT !.wait = IF @ > 0 THEN @ - 1 ELSE 0] = [s[i] EXCEPT !.wait = v]
    BY <2>1, <2>2
  <2>4. [s[i] EXCEPT !.wait = v] = [item |-> Contents(c)[i], wait |-> v]
    BY <2>1
  <2> QED
    BY <2>3, <2>4 DEF v
<1>3. AbsOf(u, c, e) = [i \in 1 .. n |-> [item |-> Contents(c)[i], wait |-> Wait(u, e, i)]]
  BY DEF AbsOf
<1>4. AbsOf(u, c, e) =
        [i \in DOMAIN s |-> [s[i] EXCEPT !.wait = IF @ > 0 THEN @ - 1 ELSE 0]]
  BY <1>1, <1>2, <1>3, Zenon
<1> QED
  BY <1>4 DEF s

LEMMA Releases ==
  ASSUME NEW u, NEW b, NEW d, Paired(u, b, d), NEW c, NEW e, Paired(u, c, e),
         NEW n \in 0 .. Occupancy(b), Occupancy(c) = Occupancy(b) - n,
         \A i \in 1 .. Occupancy(b) - n :
           Contents(c)[i] = Contents(b)[n + i] /\ Wait(u, e, i) = Wait(u, d, n + i)
  PROVE  AbsOf(u, c, e) = SubSeq(AbsOf(u, b, d), n + 1, Len(AbsOf(u, b, d)))
<1> DEFINE s == AbsOf(u, b, d)
           t == AbsOf(u, c, e)
           m == Occupancy(b)
<1>1. s \in Seq(Entries) /\ Len(s) = m /\ m \in Nat
  BY AbsOfIs, QueueNumbers
<1>2. t \in Seq(Entries) /\ Len(t) = m - n
  BY AbsOfIs
<1>3. \A i \in 1 .. m - n : n + i \in 1 .. m /\ n \in Nat /\ i \in Nat
  BY <1>1
<1>4. \A i \in 1 .. m - n : t[i] = s[n + i]
  <2> SUFFICES ASSUME NEW i \in 1 .. m - n PROVE t[i] = s[n + i]
    OBVIOUS
  <2>1. t[i] = [item |-> Contents(c)[i], wait |-> Wait(u, e, i)]
    BY AbsOfIs
  <2>2. n + i \in 1 .. Occupancy(b)
    BY <1>3
  <2>3. s[n + i] = [item |-> Contents(b)[n + i], wait |-> Wait(u, d, n + i)]
    BY <2>2, AbsOfIs
  <2> QED
    BY <2>1, <2>3
<1>5. n \in Nat /\ n <= m
  BY <1>1
<1> HIDE DEF s, t, m
<1>6. \A i \in n + 1 .. m : s[i] \in Entries
  BY <1>1, <1>5, ElementOfSeq
<1>7. /\ SubSeq(s, n + 1, m) \in Seq(Entries)
      /\ Len(SubSeq(s, n + 1, m)) = m - n
      /\ \A i \in 1 .. m - n : SubSeq(s, n + 1, m)[i] = s[n + i]
  <2>1. n + 1 \in Int /\ m \in Int
    BY <1>1, <1>5
  <2>2. /\ SubSeq(s, n + 1, m) \in Seq(Entries)
        /\ Len(SubSeq(s, n + 1, m)) = IF n + 1 <= m THEN m - (n + 1) + 1 ELSE 0
        /\ \A i \in 1 .. m - (n + 1) + 1 : SubSeq(s, n + 1, m)[i] = s[n + 1 + i - 1]
    BY <1>6, <2>1, SubSeqProperties
  <2>3. m - (n + 1) + 1 = m - n /\ (~(n + 1 <= m) => m - n = 0)
    BY <1>1, <1>5
  <2>4. \A i \in Int : n + 1 + i - 1 = n + i
    BY <1>5
  <2> QED
    BY <2>2, <2>3, <2>4
<1>8. \A i \in 1 .. Len(t) : t[i] = SubSeq(s, n + 1, m)[i]
  BY <1>2, <1>4, <1>7
<1>9. t = SubSeq(s, n + 1, m)
  BY <1>2, <1>7, <1>8, SeqEqual
<1> QED
  BY <1>1, <1>9 DEF s, t, m

-----------------------------------------------------------------------------
(* What the last loop took, as the abstract queue sees it.                 *)
OutItems(r) == [i \in DOMAIN r |-> r[i].item]

LEMMA NothingOut == OutItems(<<>>) = <<>>
<1>1. DOMAIN <<>> = 1 .. 0 /\ <<>> \in Seq({})
  BY EmptySeq, LenProperties
<1>2. OutItems(<<>>) \in [1 .. 0 -> {}]
  BY <1>1 DEF OutItems
<1>3. OutItems(<<>>) \in Seq({}) /\ Len(OutItems(<<>>)) = 0
  BY <1>2, FunctionIsSequence
<1> QED
  BY <1>3, EmptySeq

LEMMA FifoInit == Init => Fifo!Init
<1> SUFFICES ASSUME Init PROVE Fifo!Init
  OBVIOUS
<1>1. Paired(uses, buf, delays)
  BY QueueInitially, InvariantPairs
<1>2. buf.head = buf.tail /\ RingOK(buf, Items \union {NoItem})
  BY <1>1 DEF Init, NewRing, Paired
<1>3. Occupancy(buf) = 0
  BY <1>2, EmptyRing
<1>4. AbsQueue = <<>>
  BY <1>1, <1>3, AbsOfIs, AbsQueueIsOf, EmptySeq
<1>5. OutItems(released) = <<>>
  BY NothingOut DEF Init
<1> QED
  BY <1>4, <1>5 DEF Fifo!Init, OutItems

LEMMA FifoPush ==
  ASSUME QueueIInv, QueueIInv', NEW x \in Items, NEW d \in {0, Latency},
         Plain => d = Latency, PushWithDelay(x, d)
  PROVE  Fifo!Push(x)
<1> DEFINE w == IF Plain THEN Latency ELSE 0
           n == Occupancy(buf)
<1>1. Paired(uses, buf, delays) /\ Paired(uses, buf', delays')
  BY InvariantPairs DEF PushWithDelay
<1>2. /\ buf' = PushBack(buf, x) /\ released' = <<>> /\ ~IsFull(buf) /\ uses' = uses
  BY DEF PushWithDelay
<1>3. x \in Items \union {NoItem} /\ d \in Int
  BY QueueNumbers
<1>4. /\ Occupancy(buf') = n + 1 /\ Contents(buf')[n + 1] = x
      /\ \A i \in 1 .. n : Contents(buf')[i] = Contents(buf)[i]
  BY <1>1, <1>2, <1>3, PushedBack DEF Paired
<1>5. n \in Nat /\ n < Capacity
  <2>1. n \in 0 .. Capacity /\ buf.size = Capacity + 1
    BY <1>1, Members DEF Paired
  <2> QED
    BY <1>2, <2>1, QueueNumbers DEF IsFull
<1>6. /\ \A i \in 1 .. n : Wait(uses, delays', i) = Wait(uses, delays, i)
      /\ Wait(uses, delays', n + 1) = w
  <2>1. CASE Plain
    <3>1. Occupancy(delays) = n /\ d = Latency /\ buf.size = delays.size
      BY <1>1, <2>1, Members DEF Plain, Paired
    <3>2. ~IsFull(delays) /\ delays' = PushBack(delays, d)
      BY <1>2, <3>1 DEF IsFull, PushWithDelay
    <3>3. /\ \A i \in 1 .. n : Contents(delays')[i] = Contents(delays)[i]
          /\ Contents(delays')[n + 1] = d
      BY <1>1, <1>3, <3>1, <3>2, PushedBack DEF Paired
    <3> QED
      BY <2>1, <3>1, <3>3, QueueNumbers DEF Wait, Plain
  <2>2. CASE ~Plain
    BY <2>2 DEF Wait, Plain
  <2> QED
    BY <2>1, <2>2
<1>7. AbsQueue' = Append(AbsQueue, [item |-> x, wait |-> w])
  BY <1>1, <1>2, <1>4, <1>6, Appends, AbsQueueIsOf
<1>8. Len(AbsQueue) < Capacity
  BY <1>1, <1>5, AbsOfIs, AbsQueueIsOf
<1>9. w \in {0, Latency}
  OBVIOUS
<1>10. OutItems(released') = <<>>
  BY <1>2, NothingOut
<1> QED
  BY <1>7, <1>8, <1>9, <1>10 DEF Fifo!Push, OutItems

LEMMA FifoOperate ==
  ASSUME QueueIInv, QueueIInv', Operate
  PROVE  Fifo!Tick
<1> DEFINE n == Occupancy(buf)
<1>1. /\ uses' = uses /\ buf' = buf /\ delays' = CountDown(delays) /\ released' = <<>>
  BY DEF Operate
<1>2. Paired(uses, buf, delays) /\ Paired(uses, buf', delays')
  BY <1>1, InvariantPairs
<1>3. ASSUME NEW i \in 1 .. n
      PROVE  Wait(uses, delays', i) =
               IF Wait(uses, delays, i) > 0 THEN Wait(uses, delays, i) - 1 ELSE 0
  <2>1. CASE Plain
    <3>1. i \in 1 .. Occupancy(delays)
      BY <1>2, <2>1 DEF Plain, Paired
    <3>2. Contents(delays')[i] = Less(Contents(delays)[i]) /\ Contents(delays)[i] \in Int
      BY <1>1, <1>2, <3>1, CountedDown, MemberAt DEF Paired
    <3> QED
      BY <2>1, <3>2, QueueNumbers DEF Wait, Plain, Less
  <2>2. CASE ~Plain
    BY <2>2 DEF Wait, Plain
  <2> QED
    BY <2>1, <2>2
<1>4. AbsQueue' = [i \in DOMAIN AbsQueue |->
                     [AbsQueue[i] EXCEPT !.wait = IF @ > 0 THEN @ - 1 ELSE 0]]
  BY <1>1, <1>2, <1>3, Ticks, AbsQueueIsOf
<1>5. OutItems(released') = <<>>
  BY <1>1, NothingOut
<1> QED
  BY <1>4, <1>5 DEF Fifo!Tick, OutItems

(* A loop releases what it pops; where an assertion ends it before it      *)
(* popped anything, the abstract queue ticks: no member was waiting.       *)
LEMMA FifoPop ==
  ASSUME QueueIInv, QueueIInv', NEW end \in 0 .. Capacity,
         Plain => end = endReady /\ HasReady, PopUntil(end)
  PROVE  Fifo!Tick \/ \E n \in 1 .. Len(AbsQueue) : Fifo!Release(n)
<1> DEFINE wanted == (end - buf.head) % buf.size
           n == IF wanted <= Occupancy(buf) THEN wanted ELSE Occupancy(buf)
<1>1. /\ uses' = uses /\ n <= Occupancy(delays)
      /\ buf' = PopFrontN(buf, n) /\ delays' = PopFrontN(delays, n)
      /\ released' = [i \in 1 .. n |->
                        [item |-> Contents(buf)[i], left |-> Contents(delays)[i]]]
  BY DEF PopUntil
<1>2. Paired(uses, buf, delays) /\ Paired(uses, buf', delays')
  BY <1>1, InvariantPairs
<1>3. /\ buf.head \in 0 .. Capacity /\ buf.size = Capacity + 1 /\ Capacity \in Nat
      /\ Occupancy(buf) \in 0 .. Capacity /\ Occupancy(delays) \in 0 .. Capacity
  BY <1>2, Members, QueueNumbers DEF Paired
<1>4. wanted = Between(buf.head, end) /\ wanted \in 0 .. Capacity
  <2>1. /\ (end - buf.head) % (Capacity + 1) = Between(buf.head, end)
        /\ Between(buf.head, end) \in 0 .. Capacity
    BY <1>3, DistanceIsBetween, BetweenFits, Zenon
  <2> QED
    BY <1>3, <2>1
<1>5. Plain => /\ n = Ready /\ n # 0
               /\ \A i \in 1 .. n : Contents(delays)[i] <= 0
  <2> SUFFICES ASSUME Plain
               PROVE  n = Ready /\ n # 0 /\ \A i \in 1 .. n : Contents(delays)[i] <= 0
    OBVIOUS
  <2>1. /\ Ready <= Occupancy(buf) /\ end = endReady /\ buf.head # endReady
        /\ \A i \in 1 .. Ready : Contents(delays)[i] <= 0
    BY DEF QueueIInv, PlainOK, HasReady
  <2>2. wanted = Ready
    BY <1>3, <2>1 DEF Ready
  <2> HIDE DEF wanted, n
  <2>3. wanted # 0
    <3>1. endReady \in 0 .. Capacity /\ wanted = Between(buf.head, endReady)
      BY <1>4, <2>1 DEF QueueIInv
    <3> QED
      BY <1>3, <2>1, <3>1 DEF Between
  <2> USE DEF n
  <2>4. n = Ready
    BY <2>1, <2>2
  <2> QED
    BY <2>1, <2>2, <2>3, <2>4
<1> HIDE DEF wanted
<1>6. n \in 0 .. Occupancy(buf) /\ n \in 0 .. Occupancy(delays)
  BY <1>1, <1>3, <1>4
<1> HIDE DEF n
<1>7. /\ Occupancy(buf') = Occupancy(buf) - n
      /\ \A i \in 1 .. Occupancy(buf) - n : Contents(buf')[i] = Contents(buf)[n + i]
  BY <1>1, <1>2, <1>6, PoppedFront DEF Paired
<1>8. \A i \in 1 .. Occupancy(buf) - n : Wait(uses, delays', i) = Wait(uses, delays, n + i)
  <2>1. CASE Plain
    <3>1. Occupancy(delays) = Occupancy(buf)
      BY <1>2, <2>1 DEF Plain, Paired
    <3>2. \A i \in 1 .. Occupancy(buf) - n : Contents(delays')[i] = Contents(delays)[n + i]
      BY <1>1, <1>2, <1>6, <3>1, PoppedFront DEF Paired
    <3> QED
      BY <3>2 DEF Wait
  <2>2. CASE ~Plain
    BY <2>2 DEF Wait, Plain
  <2> QED
    BY <2>1, <2>2
<1>9. \A i \in 1 .. n : Wait(uses, delays, i) = 0
  <2>1. CASE Plain
    <3> SUFFICES ASSUME NEW i \in 1 .. n PROVE Wait(uses, delays, i) = 0
      OBVIOUS
    <3>1. i \in 1 .. Occupancy(delays)
      BY <1>3, <1>6
    <3>2. Contents(delays)[i] <= 0 /\ Contents(delays)[i] \in Int
      BY <1>2, <1>5, <2>1, <3>1, MemberAt DEF Paired
    <3> QED
      BY <3>2 DEF Wait
  <2>2. CASE ~Plain
    BY <2>2 DEF Wait, Plain
  <2> QED
    BY <2>1, <2>2
<1>10. n \in Nat /\ \A i \in 1 .. n : i \in 1 .. Occupancy(buf)
  BY <1>3, <1>6
<1>11. \A i \in 1 .. n : AbsQueue[i] = [item |-> Contents(buf)[i], wait |-> 0]
  <2> SUFFICES ASSUME NEW i \in 1 .. n
               PROVE  AbsQueue[i] = [item |-> Contents(buf)[i], wait |-> 0]
    OBVIOUS
  <2>1. i \in 1 .. Occupancy(buf) /\ Wait(uses, delays, i) = 0
    BY <1>9, <1>10
  <2>2. AbsOf(uses, buf, delays)[i] =
          [item |-> Contents(buf)[i], wait |-> Wait(uses, delays, i)]
    BY <1>2, <2>1, AbsOfIs
  <2> QED
    BY <2>1, <2>2, AbsQueueIsOf
<1>12. OutItems(released') = [i \in 1 .. n |-> AbsQueue[i].item]
  <2>1. DOMAIN released' = 1 .. n /\ \A i \in 1 .. n : released'[i].item = Contents(buf)[i]
    BY <1>1
  <2>2. ASSUME NEW i \in 1 .. n PROVE AbsQueue[i].item = Contents(buf)[i]
    <3>1. AbsQueue[i] = [item |-> Contents(buf)[i], wait |-> 0]
      BY <1>11
    <3> QED
      BY <3>1
  <2> QED
    BY <2>1, <2>2, Zenon DEF OutItems
<1>13. AbsQueue' = SubSeq(AbsQueue, n + 1, Len(AbsQueue))
  BY <1>1, <1>2, <1>6, <1>7, <1>8, Releases, AbsQueueIsOf
<1>14. CASE n # 0
  <2>1. n \in 1 .. Len(AbsQueue)
    BY <1>2, <1>3, <1>6, <1>14, AbsOfIs, AbsQueueIsOf
  <2>2. ASSUME NEW i \in 1 .. n PROVE AbsQueue[i].wait = 0
    <3>1. AbsQueue[i] = [item |-> Contents(buf)[i], wait |-> 0]
      BY <1>11
    <3> QED
      BY <3>1
  <2>3. PICK k \in 1 .. Len(AbsQueue) : k = n
    BY <2>1
  <2>4. /\ \A i \in 1 .. k : AbsQueue[i].wait = 0
        /\ OutItems(released') = [i \in 1 .. k |-> AbsQueue[i].item]
        /\ AbsQueue' = SubSeq(AbsQueue, k + 1, Len(AbsQueue))
    BY <1>12, <1>13, <2>2, <2>3
  <2>5. Fifo!Release(k)
    BY <2>4 DEF Fifo!Release, OutItems
  <2> QED
    BY <2>5
<1>15. CASE n = 0
  <2>1. ~Plain
    BY <1>5, <1>15
  <2>2. \A i \in 1 .. Occupancy(buf) :
          /\ Contents(buf')[i] = Contents(buf)[i]
          /\ Wait(uses, delays', i) = 0 /\ Wait(uses, delays, i) = 0
    BY <1>3, <1>7, <1>15, <2>1 DEF Wait, Plain
  <2>3. Occupancy(buf') = Occupancy(buf)
    BY <1>3, <1>7, <1>15
  <2>4. AbsQueue' = [i \in DOMAIN AbsQueue |->
                       [AbsQueue[i] EXCEPT !.wait = IF @ > 0 THEN @ - 1 ELSE 0]]
    BY <1>1, <1>2, <2>2, <2>3, Ticks, AbsQueueIsOf
  <2>5. released' \in [1 .. 0 -> {}]
    BY <1>1, <1>15
  <2>6. released' = <<>>
    <3>1. released' \in Seq({}) /\ Len(released') = 0
      BY <2>5, FunctionIsSequence
    <3> QED
      BY <3>1, EmptySeq
  <2>7. OutItems(released') = <<>>
    BY <2>6, NothingOut
  <2> QED
    BY <2>4, <2>7 DEF Fifo!Tick, OutItems
<1> QED
  BY <1>14, <1>15

LEMMA FifoClear ==
  ASSUME QueueIInv, QueueIInv', Clear
  PROVE  Fifo!Drop
<1>1. buf'.head = buf'.tail /\ released' = <<>>
  BY DEF Clear, ClearRing
<1>2. Paired(uses', buf', delays')
  BY InvariantPairs
<1>3. Occupancy(buf') = 0
  BY <1>1, <1>2, EmptyRing DEF Paired
<1>4. AbsQueue' = <<>>
  BY <1>2, <1>3, AbsOfIs, AbsQueueIsOf, EmptySeq
<1>5. OutItems(released') = <<>>
  BY <1>1, NothingOut
<1> QED
  BY <1>4, <1>5 DEF Fifo!Drop, OutItems

LEMMA FifoNext ==
  QueueIInv /\ QueueIInv' /\ [Next]_vars => [Fifo!Next]_(Fifo!fifoVars)
<1> SUFFICES ASSUME QueueIInv, QueueIInv', [Next]_vars
             PROVE  Fifo!Next \/ UNCHANGED Fifo!fifoVars
  OBVIOUS
<1>1. Plain => "push_back_ready" \notin uses /\ "pop_bandwidth" \notin uses /\ "clear" \notin uses
  BY DEF Plain, PlainUses
<1>2. ASSUME NEW x \in Items, Push(x) PROVE Fifo!Next
  BY <1>2, FifoPush DEF Push, Fifo!Next
<1>3. ASSUME NEW x \in Items, PushReady(x) PROVE Fifo!Next
  BY <1>1, <1>3, FifoPush DEF PushReady, Fifo!Next
<1>4. CASE Operate
  BY <1>4, FifoOperate DEF Fifo!Next
<1>5. CASE PopAllReady
  BY <1>5, FifoPop DEF PopAllReady, QueueIInv, Fifo!Next
<1>6. CASE PopBandwidth
  <2> DEFINE next == CircInc(buf.head, Bandwidth, buf.size)
             end == IterMin(buf, endReady, next)
  <2>1. PopUntil(end) /\ ~Plain
    BY <1>1, <1>6 DEF PopBandwidth
  <2>2. end \in 0 .. Capacity
    BY BandwidthEnd
  <2> HIDE DEF end
  <2> QED
    BY <2>1, <2>2, FifoPop DEF Fifo!Next
<1>7. CASE Clear
  BY <1>7, FifoClear DEF Fifo!Next
<1>8. CASE UNCHANGED vars
  <2>1. AbsQueue' = AbsQueue /\ released' = released
    BY <1>8 DEF vars, AbsQueue, Plain
  <2> QED
    BY <2>1 DEF Fifo!fifoVars
<1> QED
  BY <1>2, <1>3, <1>4, <1>5, <1>6, <1>7, <1>8 DEF Next

(* The two rings implement the abstract queue, whatever the client calls:  *)
(* the members leave in the order in which they came, and those of a       *)
(* plain client only when their delay is over.                             *)
THEOREM QueueImplementsFifo == Spec => ImplementsFifo
<1>1. Init => Fifo!Init
  BY FifoInit
<1>2. QueueIInv /\ QueueIInv' /\ [Next]_vars => [Fifo!Next]_(Fifo!fifoVars)
  BY FifoNext
<1> QED
  BY <1>1, <1>2, QueueInvariance, PTL DEF Spec, ImplementsFifo, Fifo!Spec
=============================================================================
