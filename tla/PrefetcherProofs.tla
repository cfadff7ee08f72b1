-------------------------- MODULE PrefetcherProofs --------------------------
(***************************************************************************)
(* The prefetchers with a perceptron filter and those that walk in strides *)
(* or remember pages, for any size of their tables and any accesses.       *)
(*                                                                         *)
(* Filters: inverted_address finds the predictions of a line and no others;*)
(* weights keep to their range; a reward turns no candidate down; and the  *)
(* ring implements the window of the latest predictions.  Strides: a       *)
(* lookahead takes each of its steps once, along a stride that its         *)
(* instruction repeated.  VA AMPM: marks are those of accesses.  Last, the *)
(* types of all of them together with KPCP.                                *)
(***************************************************************************)
EXTENDS MCPrefetchers, KpcpProofs, TableLemmas, SequenceTheorems

(* No entry has been written at the start.                                 *)
LEMMA InitIInv == Init => IInv
<1> SUFFICES ASSUME Init PROVE IInv
  OBVIOUS
<1> USE PerceptronFilterAssumption
<1>1. (CHOOSE key \in Keys : TRUE) \in Keys
  OBVIOUS
<1>2. RingTypeOK
  BY <1>1 DEF Init, RingInit, RingTypeOK, Slot
<1>3. IndexInverse
  BY DEF Init, RingInit, IndexInverse
<1>4. UnwrittenInvalid
  BY DEF Init, RingInit, UnwrittenInvalid
<1> QED
  BY <1>2, <1>3, <1>4 DEF IInv

(* The next entry of the ring is one of its entries.                       *)
LEMMA MovedUpType == \A i \in Slot : MovedUp(i) \in Slot
  BY PerceptronFilterAssumption DEF Slot, MovedUp

(* A new prediction moves its entry from the list of one line to another.  *)
LEMMA EnteredIInv ==
  ASSUME IInv, NEW line \in Lines, NEW key \in Keys, Entered(line, key),
         cached' \subseteq Lines, UNCHANGED rebound
  PROVE  IInv'
<1> DEFINE i == MovedUp(top)
           old == ring[i].line
<1> USE PerceptronFilterAssumption
<1>1. i \in Slot /\ top' = i
  BY MovedUpType DEF IInv, RingTypeOK, Entered
<1>2. ring' = [ring EXCEPT ![i] = [valid |-> TRUE, line |-> line, key |-> key]]
  BY DEF Entered
<1>3. inverted' = [inverted EXCEPT ![old] = @ \ {i}, ![line] = @ \union {i}]
  BY DEF Entered, Reindexed
<1>4. old \in Lines \union {NoLine}
  BY <1>1 DEF IInv, RingTypeOK
<1> HIDE DEF i
<1>5. cached' \subseteq Lines /\ rebound' \in Rebounds
  BY DEF IInv, RingTypeOK
<1>6. RingTypeOK'
  <2>1. ring' \in [Slot -> [valid : BOOLEAN, line : Lines \union {NoLine}, key : Keys]]
    BY <1>1, <1>2 DEF IInv, RingTypeOK
  <2>2. inverted' \in [Lines \union {NoLine} -> SUBSET Slot]
    BY <1>1, <1>3, <1>4 DEF IInv, RingTypeOK
  <2> QED
    BY <1>1, <1>5, <2>1, <2>2 DEF RingTypeOK
<1>7. IndexInverse'
  <2>1. inverted'[NoLine] = {}
    BY <1>1, <1>3, <1>4 DEF IInv, RingTypeOK, IndexInverse
  <2>2. ASSUME NEW l \in Lines, NEW j \in Slot
        PROVE  j \in inverted'[l] <=> ring'[j].line = l
    <3>1. j \in inverted[l] <=> ring[j].line = l
      BY DEF IInv, IndexInverse
    <3>2. CASE j = i
      <4>1. ring'[j].line = line
        BY <1>1, <1>2, <3>2 DEF IInv, RingTypeOK
      <4>2. j \in inverted'[l] <=> l = line
        BY <1>1, <1>3, <1>4, <3>1, <3>2 DEF IInv, RingTypeOK
      <4> QED
        BY <4>1, <4>2
    <3>3. CASE j # i
      <4>1. ring'[j] = ring[j]
        BY <1>1, <1>2, <3>3 DEF IInv, RingTypeOK
      <4>2. j \in inverted'[l] <=> j \in inverted[l]
        BY <1>1, <1>3, <1>4, <3>3 DEF IInv, RingTypeOK
      <4> QED
        BY <3>1, <4>1, <4>2
    <3> QED
      BY <3>2, <3>3
  <2> QED
    BY <2>1, <2>2 DEF IndexInverse
<1>8. UnwrittenInvalid'
  BY <1>1, <1>2 DEF IInv, RingTypeOK, UnwrittenInvalid
<1> QED
  BY <1>6, <1>7, <1>8 DEF IInv

(* Training moves no entry.                                                *)
LEMMA RetrainIInv ==
  ASSUME IInv, NEW entries, NEW rewarded, RetrainEntries(entries, rewarded),
         cached' \subseteq Lines
  PROVE  IInv'
<1> DEFINE found == {i \in entries : ring[i].valid}
<1>1. ring' = [i \in Slot |-> [ring[i] EXCEPT !.valid = @ /\ i \notin found]]
  BY DEF RetrainEntries
<1>2. UNCHANGED <<top, inverted, rebound>>
  BY DEF RetrainEntries
<1>3. \A i \in Slot : /\ ring'[i].line = ring[i].line
                      /\ ring'[i].key = ring[i].key
                      /\ ring'[i].valid = (ring[i].valid /\ i \notin found)
                      /\ ring'[i] \in [valid : BOOLEAN, line : Lines \union {NoLine}, key : Keys]
  BY <1>1 DEF IInv, RingTypeOK
<1>4. RingTypeOK'
  BY <1>1, <1>2, <1>3 DEF IInv, RingTypeOK
<1>5. IndexInverse'
  BY <1>2, <1>3 DEF IInv, IndexInverse
<1>6. UnwrittenInvalid'
  BY <1>3 DEF IInv, UnwrittenInvalid
<1> QED
  BY <1>4, <1>5, <1>6 DEF IInv

(* Every step keeps the inductive invariant.                               *)
LEMMA NextIInv == IInv /\ [Next]_ppfVars => IInv'
<1> SUFFICES ASSUME IInv, [Next]_ppfVars PROVE IInv'
  OBVIOUS
<1>1. CASE UNCHANGED ppfVars
  BY <1>1 DEF IInv, RingTypeOK, IndexInverse, UnwrittenInvalid, ppfVars
<1>2. ASSUME NEW line \in Lines, NEW key \in Keys, Predict(line, key) PROVE IInv'
  <2>1. Entered(line, key) /\ UNCHANGED rebound
    BY <1>2 DEF Predict
  <2>2. cached' \subseteq Lines
    BY <1>2 DEF Predict, IInv, RingTypeOK
  <2> QED
    BY <2>1, <2>2, EnteredIInv
<1>3. ASSUME NEW line \in Lines, Demand(line) PROVE IInv'
  <2>1. cached' \subseteq Lines
    BY <1>3 DEF Demand, IInv, RingTypeOK
  <2> QED
    BY <1>3, <2>1, RetrainIInv DEF Demand, Retrain
<1>4. ASSUME NEW line \in Lines, Evict(line) PROVE IInv'
  <2>1. cached' \subseteq Lines
    BY <1>4 DEF Evict, IInv, RingTypeOK
  <2> QED
    BY <1>4, <2>1, RetrainIInv DEF Evict, Retrain
<1> QED
  BY <1>1, <1>2, <1>3, <1>4 DEF Next

(***************************************************************************)
(* The inductive invariant of the ring and its index holds always.         *)
(***************************************************************************)
THEOREM Invariance == Spec => []IInv
  BY InitIInv, NextIInv, PTL DEF Spec

(***************************************************************************)
(* inverted_address is always the inverse of the ring: an outcome trains   *)
(* the predictions of its own line.                                        *)
(***************************************************************************)
THEOREM IndexAlwaysInverse == Spec => []IndexInverse
<1>1. IInv => IndexInverse
  BY DEF IInv
<1> QED
  BY <1>1, Invariance, PTL
-----------------------------------------------------------------------------
(* The lookahead stays on the lines of the system while a step remains.    *)
AheadIInv ==
  /\ IInv
  /\ ahead.degree \in 0 .. AheadDegree
  /\ ahead.degree > 0 => /\ ahead.line \in Lines /\ ahead.ip \in AheadIps \union {0}
                         /\ ahead.stride \in AheadStrides \union {1}
  /\ since \in Slot

LEMMA AheadInitially == AheadInit => AheadIInv
<1> SUFFICES ASSUME AheadInit PROVE AheadIInv
  OBVIOUS
<1> USE PerceptronFilterAssumption, LookaheadAssumption
<1>1. (CHOOSE key \in Keys : TRUE) \in Keys
  OBVIOUS
<1>2. RingTypeOK
  BY <1>1 DEF AheadInit, RingInit, RingTypeOK, Slot
<1>3. IndexInverse /\ UnwrittenInvalid
  BY DEF AheadInit, RingInit, IndexInverse, UnwrittenInvalid
<1> QED
  BY <1>2, <1>3 DEF IInv, RingTypeOK, AheadInit, AheadIInv, NotAhead

LEMMA AheadKeeps == AheadIInv /\ [AheadNext]_<<ppfVars, aheadVars>> => AheadIInv'
<1> SUFFICES ASSUME AheadIInv, [AheadNext]_<<ppfVars, aheadVars>> PROVE AheadIInv'
  OBVIOUS
<1>1. ASSUME UNCHANGED ppfVars PROVE IInv'
  BY <1>1 DEF AheadIInv, IInv, RingTypeOK, IndexInverse, UnwrittenInvalid, ppfVars
<1>2. CASE UNCHANGED <<ppfVars, aheadVars>>
  BY <1>1, <1>2 DEF AheadIInv, aheadVars
<1>3. CASE AheadCycle
  <2> DEFINE line == ahead.line + ahead.stride
             key == Features(ahead.ip, ahead.degree, line)
             onPage == line \div BlocksPerPage = ahead.line \div BlocksPerPage
  <2>1. /\ ahead.degree \in 1 .. AheadDegree /\ ahead.line \in Lines
        /\ ahead.ip \in AheadIps \union {0} /\ ahead.stride \in AheadStrides \union {1}
        /\ since' \in Slot
    BY <1>3, LookaheadAssumption DEF AheadCycle, AheadIInv
  <2>2. CASE (VirtualPrefetch \/ onPage) /\ Entered(line, key) /\ ahead' = Advanced(line)
             /\ UNCHANGED <<rebound, cached>>
    <3>1. line \in Lines
      BY <2>1, <2>2, LookaheadAssumption
    <3>2. key \in Keys
      BY <2>1, <3>1, LookaheadAssumption
    <3>3. cached' \subseteq Lines
      BY <2>2 DEF AheadIInv, IInv, RingTypeOK
    <3>4. IInv'
      <4> HIDE DEF line, key
      <4> QED
        BY <2>2, <3>1, <3>2, <3>3, EnteredIInv DEF AheadIInv
    <3>5. /\ ahead'.line = line /\ ahead'.stride = ahead.stride
          /\ ahead'.degree = ahead.degree - 1 /\ ahead'.ip \in {0, ahead.ip}
      BY <2>2 DEF Advanced
    <3>6. AheadDegree \in Nat /\ ahead.degree - 1 \in 0 .. AheadDegree
      BY <2>1, LookaheadAssumption
    <3> HIDE DEF line, key
    <3> QED
      BY <2>1, <3>1, <3>4, <3>5, <3>6 DEF AheadIInv
  <2>3. CASE UNCHANGED <<ppfVars, ahead>>
    BY <1>1, <2>1, <2>3 DEF AheadIInv
  <2>4. CASE ahead' = NotAhead /\ UNCHANGED ppfVars
    BY <1>1, <2>1, <2>4, LookaheadAssumption DEF AheadIInv, NotAhead
  <2> QED
    BY <1>3, <2>2, <2>3, <2>4 DEF AheadCycle, Refused
<1>4. ASSUME NEW line \in Lines, NEW ip \in AheadIps, NEW hit \in BOOLEAN,
             AheadAccess(line, ip, hit)
      PROVE  AheadIInv'
  <2>1. IInv'
    <3>1. CASE hit
      <4>1. cached' \subseteq Lines
        BY <1>4, <3>1 DEF AheadAccess, AheadIInv, IInv, RingTypeOK
      <4> QED
        BY <1>4, <3>1, <4>1, RetrainIInv DEF AheadAccess, AheadIInv
    <3>2. CASE ~hit
      BY <1>1, <1>4, <3>2 DEF AheadAccess
    <3> QED
      BY <3>1, <3>2
  <2>2. \/ UNCHANGED ahead
        \/ \E stride \in AheadStrides \union {1} :
             ahead' = [line |-> line, stride |-> stride, degree |-> AheadDegree, ip |-> ip]
    BY <1>4 DEF AheadAccess
  <2>5. since' \in Slot
    BY <1>4 DEF AheadAccess, AheadIInv, IInv, RingTypeOK
  <2>3. CASE UNCHANGED ahead
    BY <2>1, <2>5, <2>3 DEF AheadIInv
  <2>4. ASSUME NEW stride \in AheadStrides \union {1},
               ahead' = [line |-> line, stride |-> stride, degree |-> AheadDegree, ip |-> ip]
        PROVE  AheadIInv'
    BY <2>1, <2>5, <2>4, LookaheadAssumption DEF AheadIInv
  <2> QED
    BY <2>2, <2>3, <2>4
<1> QED
  BY <1>2, <1>3, <1>4 DEF AheadNext

(***************************************************************************)
(* The filters over next-line and IP stride prefetchers keep the index     *)
(* the inverse of the ring too, although their hits find entries by it or  *)
(* by a scan.                                                              *)
(***************************************************************************)
THEOREM AheadIndexInverse == AheadSpec => []IndexInverse
<1>1. AheadIInv => IndexInverse
  BY DEF AheadIInv, IInv
<1> QED
  BY <1>1, AheadInitially, AheadKeeps, PTL DEF AheadSpec
-----------------------------------------------------------------------------
(* Ahead walks the ring entry by entry, and takes an entry again only when *)
(* it has passed all others.                                               *)
LEMMA AheadWalks ==
  ASSUME NEW i \in Slot
  PROVE  /\ Ahead(i, 0) = i
         /\ \A k \in Nat : Ahead(i, k) \in Slot /\ Ahead(i, k + 1) = MovedUp(Ahead(i, k))
         /\ \A j, k \in Nat : j < k /\ k - j < RingSize => Ahead(i, j) # Ahead(i, k)
<1>1. RingSize \in Nat \ {0} /\ i \in 0 .. RingSize - 1 /\ Slot = 0 .. RingSize - 1
  BY PerceptronFilterAssumption DEF Slot
<1>2. \A a \in Nat : /\ a % RingSize \in 0 .. RingSize - 1 /\ a \div RingSize \in Nat
                     /\ a = RingSize * (a \div RingSize) + (a % RingSize)
  BY <1>1
<1>3. ASSUME NEW p \in Nat, NEW q \in Nat, p # q
      PROVE  RingSize * p - RingSize * q >= RingSize \/ RingSize * q - RingSize * p >= RingSize
  <2>1. p >= q + 1 \/ q >= p + 1
    BY <1>3
  <2>2. ASSUME NEW u \in Nat, NEW v \in Nat, u >= v + 1
        PROVE  RingSize * u - RingSize * v >= RingSize
    <3>1. RingSize * u >= RingSize * (v + 1)
      BY <1>1, <2>2
    <3> QED
      BY <1>1, <3>1
  <2> QED
    BY <2>1, <2>2
<1>4. ASSUME NEW p \in Nat, NEW q \in Nat, NEW r \in Slot, NEW t \in Slot,
             RingSize * p + r - (RingSize * q + t) < RingSize,
             RingSize * q + t - (RingSize * p + r) < RingSize, r = t
      PROVE  p = q
  <2> DEFINE P == RingSize * p
             Q == RingSize * q
  <2>1. P \in Nat /\ Q \in Nat
    BY <1>1
  <2>2. p # q => P - Q >= RingSize \/ Q - P >= RingSize
    BY <1>3
  <2>3. P + r - (Q + t) < RingSize /\ Q + t - (P + r) < RingSize
    BY <1>4
  <2> HIDE DEF P, Q
  <2> QED
    BY <1>1, <1>4, <2>1, <2>2, <2>3
(* The rest is what is left over of a multiple.                            *)
<1>9. ASSUME NEW q \in Nat, NEW r \in Slot, NEW a \in Nat, a = RingSize * q + r
      PROVE  a % RingSize = r
  <2> DEFINE p == a \div RingSize
             t == a % RingSize
             P == RingSize * p
             Q == RingSize * q
  <2>1. a = P + t /\ p \in Nat /\ t \in Slot
    BY <1>1, <1>2
  <2>2. P \in Nat /\ Q \in Nat
    BY <1>1, <2>1
  <2>3. p # q => P - Q >= RingSize \/ Q - P >= RingSize
    BY <1>3, <2>1
  <2>4. a = Q + r
    BY <1>9
  <2>5. p = q => P = Q
    OBVIOUS
  <2> HIDE DEF p, P, Q, t
  <2>6. t = r
    BY <1>1, <2>1, <2>2, <2>3, <2>4, <2>5
  <2> QED
    BY <2>6 DEF t
<1>5. ASSUME NEW r \in Slot PROVE r % RingSize = r
  BY <1>1
<1>6. ASSUME NEW k \in Nat
      PROVE  Ahead(i, k) \in Slot /\ Ahead(i, k + 1) = MovedUp(Ahead(i, k))
  <2> DEFINE q == (i + k) \div RingSize
             r == (i + k) % RingSize
             s == (i + k + 1) % RingSize
             Q == RingSize * q
             R == RingSize * (q + 1)
  <2>0. i + k \in Nat /\ i + k + 1 \in Nat
    BY <1>1
  <2>1. i + k = Q + r /\ q \in Nat /\ r \in 0 .. RingSize - 1
    BY <1>2, <2>0
  <2>2. Q \in Nat /\ R = Q + RingSize
    BY <1>1, <2>1
  <2>3. Ahead(i, k) = r /\ Ahead(i, k + 1) = s
    BY <1>1 DEF Ahead
  <2>4. s = IF r = RingSize - 1 THEN 0 ELSE r + 1
    <3>1. CASE r = RingSize - 1
      <4>1. i + k + 1 = R + 0 /\ q + 1 \in Nat /\ 0 \in Slot
        BY <1>1, <2>0, <2>1, <2>2, <3>1
      <4>2. s = 0
        BY <1>9, <2>0, <4>1
      <4> QED
        BY <3>1, <4>2
    <3>2. CASE r # RingSize - 1
      <4>1. i + k + 1 = Q + (r + 1) /\ r + 1 \in 0 .. RingSize - 1
        BY <1>1, <2>0, <2>1, <2>2, <3>2
      <4> DEFINE u == r + 1
                 a == i + k + 1
      <4>2. q \in Nat /\ u \in Slot /\ a \in Nat /\ a = RingSize * q + u
        BY <1>1, <2>0, <2>1, <4>1
      <4>3. s = a % RingSize
        OBVIOUS
      <4> HIDE DEF q, u, a, s
      <4>4. s = u
        BY <1>9, <4>2, <4>3
      <4> QED
        BY <3>2, <4>4 DEF u
    <3> QED
      BY <3>1, <3>2
  <2> QED
    BY <1>1, <2>1, <2>3, <2>4 DEF MovedUp
<1>7. Ahead(i, 0) = i
  BY <1>1, <1>5 DEF Ahead
<1>8. ASSUME NEW j \in Nat, NEW k \in Nat, j < k, k - j < RingSize
      PROVE  Ahead(i, j) # Ahead(i, k)
  <2> SUFFICES ASSUME Ahead(i, j) = Ahead(i, k) PROVE FALSE
    OBVIOUS
  <2> DEFINE p == (i + j) \div RingSize
             q == (i + k) \div RingSize
             r == (i + j) % RingSize
             t == (i + k) % RingSize
  <2>1. i + j \in Nat /\ i + k \in Nat
    BY <1>1
  <2>2. /\ i + j = RingSize * p + r /\ p \in Nat /\ r \in Slot
        /\ i + k = RingSize * q + t /\ q \in Nat /\ t \in Slot
    BY <1>1, <1>2, <2>1
  <2>3. r = t
    BY DEF Ahead
  <2> HIDE DEF p, q, r, t
  <2>4. p = q
    <3>1. /\ RingSize * p + r - (RingSize * q + t) < RingSize
          /\ RingSize * q + t - (RingSize * p + r) < RingSize
      <4> DEFINE P == RingSize * p
                 Q == RingSize * q
      <4>1. i + j - (i + k) < RingSize /\ i + k - (i + j) < RingSize
        BY <1>1, <1>8
      <4>2. P \in Nat /\ Q \in Nat /\ i + j = P + r /\ i + k = Q + t
        BY <1>1, <2>2
      <4> HIDE DEF P, Q
      <4>3. P + r - (Q + t) < RingSize /\ Q + t - (P + r) < RingSize
        BY <1>1, <2>2, <4>1, <4>2
      <4> QED
        BY <4>3 DEF P, Q
    <3> QED
      BY <1>4, <2>2, <2>3, <3>1
  <2>5. i + j = i + k
    BY <2>2, <2>3, <2>4
  <2> QED
    BY <1>1, <1>8, <2>5
<1> QED
  BY <1>6, <1>7, <1>8

StepsIInv == AheadIInv /\ StepsEnteredOnce

(* An outcome writes no entry, so that steps stay where they were entered. *)
LEMMA StepsStay ==
  ASSUME StepsIInv, UNCHANGED <<ahead, since, top>>,
         \A i \in Slot : ring'[i].line = ring[i].line
  PROVE  StepsEnteredOnce'
<1> DEFINE taken == AheadDegree - ahead.degree
<1>1. taken \in Nat /\ since \in Slot
  BY LookaheadAssumption DEF StepsIInv, AheadIInv
<1>2. \A k \in 1 .. taken : Ahead(since, k) \in Slot
  BY <1>1, AheadWalks
<1> QED
  BY <1>2 DEF StepsIInv, StepsEnteredOnce, Ahead

(* A step that is entered takes the entry after those of the steps before. *)
LEMMA StepEntered ==
  ASSUME StepsIInv, ahead.degree > 0, NEW line \in Lines, NEW key \in Keys,
         line = ahead.line + ahead.stride, Entered(line, key), ahead' = Advanced(line),
         UNCHANGED since
  PROVE  StepsEnteredOnce'
<1> DEFINE taken == AheadDegree - ahead.degree
           next == AheadDegree - ahead'.degree
           away(k) == (taken - k) * ahead.stride
<1>1. /\ ahead.degree \in 1 .. AheadDegree /\ AheadDegree \in Nat
      /\ ahead.line \in Int /\ ahead.stride \in Int /\ since \in Slot
  <2>1. /\ ahead.degree \in 0 .. AheadDegree /\ ahead.line \in Lines /\ since \in Slot
        /\ ahead.stride \in AheadStrides \union {1}
    BY DEF StepsIInv, AheadIInv
  <2>2. /\ AheadDegree \in Nat
        /\ \A x \in Lines : x \in Int
        /\ \A x \in AheadStrides \union {1} : x \in Int
    BY LookaheadAssumption
  <2>3. ahead.degree \in 1 .. AheadDegree
    BY <2>1, <2>2
  <2>4. ahead.line \in Int /\ ahead.stride \in Int
    BY <2>1, <2>2, Zenon
  <2> QED
    BY <2>1, <2>2, <2>3, <2>4, Zenon
<1>2. taken \in Nat
  BY <1>1
<1>3. /\ top = Ahead(since, taken)
      /\ \A k \in 1 .. taken : taken - k < RingSize =>
            ring[Ahead(since, k)].line = ahead.line - away(k)
  BY <1>1 DEF StepsIInv, StepsEnteredOnce, NotAhead
<1>4. ahead'.line = line /\ ahead'.stride = ahead.stride /\ next = taken + 1
  BY <1>1 DEF Advanced
<1> HIDE DEF taken, next
<1>5. Ahead(since, next) = MovedUp(top) /\ Ahead(since, next) \in Slot /\ next \in Nat
  BY <1>1, <1>2, <1>3, <1>4, AheadWalks
<1>6. /\ top' = MovedUp(top)
      /\ ring' = [ring EXCEPT ![MovedUp(top)] = [valid |-> TRUE, line |-> line, key |-> key]]
      /\ DOMAIN ring = Slot
  BY DEF Entered, StepsIInv, AheadIInv, IInv, RingTypeOK
<1>7. ASSUME NEW k \in 1 .. next, next - k < RingSize
      PROVE  ring'[Ahead(since, k)].line = ahead'.line - (next - k) * ahead'.stride
  <2>1. CASE k = next
    <3>1. ring'[Ahead(since, k)].line = line
      BY <1>5, <1>6, <2>1
    <3>2. (next - k) * ahead'.stride = 0 /\ line \in Int
      BY <1>1, <1>4, <1>5, <2>1
    <3> QED
      BY <1>4, <3>1, <3>2
  <2>2. CASE k # next
    <3>1. k \in 1 .. taken /\ taken - k < RingSize /\ k < next /\ k \in Nat
      BY <1>2, <1>4, <1>7, <2>2, PerceptronFilterAssumption
    <3>2. Ahead(since, k) # Ahead(since, next) /\ Ahead(since, k) \in Slot
      BY <1>1, <1>5, <1>7, <3>1, AheadWalks
    <3>3. ring'[Ahead(since, k)].line = ring[Ahead(since, k)].line
      BY <1>5, <1>6, <3>2
    <3>4. ring[Ahead(since, k)].line = ahead.line - away(k)
      BY <1>3, <3>1
    <3>5. (next - k) * ahead.stride = away(k) + ahead.stride /\ away(k) \in Int
      BY <1>1, <1>2, <1>4
    <3> HIDE DEF away
    <3> QED
      BY <1>1, <1>4, <3>3, <3>4, <3>5
  <2> QED
    BY <2>1, <2>2
<1>8. top' = Ahead(since', next)
  BY <1>5, <1>6
<1>9. \A k \in 1 .. next : next - k < RingSize =>
        ring'[Ahead(since', k)].line = ahead'.line - (next - k) * ahead'.stride
  BY <1>7
<1> QED
  BY <1>8, <1>9 DEF StepsEnteredOnce, Ahead, next

LEMMA StepsKeep == StepsIInv /\ [AheadNext]_<<ppfVars, aheadVars>> => StepsIInv'
<1> SUFFICES ASSUME StepsIInv, [AheadNext]_<<ppfVars, aheadVars>> PROVE StepsIInv'
  OBVIOUS
<1>1. AheadIInv'
  BY AheadKeeps DEF StepsIInv
<1> SUFFICES StepsEnteredOnce'
  BY <1>1 DEF StepsIInv
<1>2. ASSUME UNCHANGED <<ppfVars, ahead, since>> PROVE StepsEnteredOnce'
  BY <1>2, StepsStay DEF ppfVars
<1>3. CASE UNCHANGED <<ppfVars, aheadVars>>
  BY <1>2, <1>3 DEF aheadVars
<1>4. CASE AheadCycle
  <2> DEFINE line == ahead.line + ahead.stride
             key == Features(ahead.ip, ahead.degree, line)
             onPage == line \div BlocksPerPage = ahead.line \div BlocksPerPage
  <2>1. /\ ahead.degree \in 1 .. AheadDegree /\ ahead.line \in Lines /\ ahead.degree > 0
        /\ ahead.ip \in AheadIps \union {0} /\ ahead.stride \in AheadStrides \union {1}
        /\ UNCHANGED since
    BY <1>4, LookaheadAssumption DEF AheadCycle, AheadIInv, StepsIInv
  <2>2. CASE (VirtualPrefetch \/ onPage) /\ Entered(line, key) /\ ahead' = Advanced(line)
    <3>1. line \in Lines
      BY <2>1, <2>2, LookaheadAssumption
    <3>2. key \in Keys
      BY <2>1, <3>1, LookaheadAssumption
    <3>3. line = ahead.line + ahead.stride
      OBVIOUS
    <3> HIDE DEF line, key
    <3> QED
      BY <2>1, <2>2, <3>1, <3>2, <3>3, StepEntered
  <2>3. CASE UNCHANGED <<ppfVars, ahead>>
    BY <1>2, <2>1, <2>3
  <2>4. CASE ahead' = NotAhead
    BY <2>4 DEF StepsEnteredOnce, NotAhead
  <2> QED
    BY <1>4, <2>2, <2>3, <2>4 DEF AheadCycle, Refused
<1>5. ASSUME NEW line \in Lines, NEW ip \in AheadIps, NEW hit \in BOOLEAN,
             AheadAccess(line, ip, hit)
      PROVE  StepsEnteredOnce'
  <2>1. UNCHANGED top /\ \A i \in Slot : ring'[i].line = ring[i].line
    <3>1. \/ UNCHANGED <<ring, top>>
          \/ /\ top' = top
             /\ \E found : ring' = [i \in Slot |-> [ring[i] EXCEPT !.valid = @ /\ i \notin found]]
      BY <1>5 DEF AheadAccess, RetrainEntries, ppfVars
    <3>2. ring \in [Slot -> [valid : BOOLEAN, line : Lines \union {NoLine}, key : Keys]]
      BY DEF StepsIInv, AheadIInv, IInv, RingTypeOK
    <3> QED
      BY <3>1, <3>2
  <2>2. CASE UNCHANGED <<ahead, since>>
    BY <2>1, <2>2, StepsStay
  <2>3. ASSUME NEW stride,
               ahead' = [line |-> line, stride |-> stride, degree |-> AheadDegree, ip |-> ip],
               since' = top
        PROVE  StepsEnteredOnce'
    <3>1. AheadDegree - ahead'.degree = 0
      BY <2>3, LookaheadAssumption
    <3>2. top' = Ahead(since', 0)
      BY <2>1, <2>3, AheadWalks DEF StepsIInv, AheadIInv, IInv, RingTypeOK
    <3> QED
      BY <3>1, <3>2 DEF StepsEnteredOnce, Ahead
  <2> QED
    BY <1>5, <2>2, <2>3 DEF AheadAccess
<1> QED
  BY <1>3, <1>4, <1>5 DEF AheadNext

(***************************************************************************)
(* The steps of a lookahead of these filters are entered in the ring once  *)
(* each, one after the other, for any size of the ring, any degree and any *)
(* strides, however often the cache refuses a request and whatever is      *)
(* trained meanwhile.                                                      *)
(***************************************************************************)
THEOREM StepsAlwaysEnteredOnce == AheadSpec => []StepsEnteredOnce
<1>1. AheadInit => StepsIInv
  BY AheadInitially DEF AheadInit, NotAhead, StepsIInv, StepsEnteredOnce
<1>2. StepsIInv => StepsEnteredOnce
  BY DEF StepsIInv
<1> QED
  BY <1>1, <1>2, StepsKeep, PTL DEF AheadSpec
-----------------------------------------------------------------------------
(* Training keeps the weights in their range.                              *)
LEMMA TrainedType ==
  ASSUME NEW w \in Weights, NEW key \in Keys, NEW rewarded \in BOOLEAN, NEW r \in Rebounds
  PROVE  Trained(w, key, rewarded, r) \in Weights
<1>1. /\ NegMaxWeight \in Int /\ PosMaxWeight \in Int /\ NegMaxWeight < PosMaxWeight + 1
      /\ r \in 0 .. PosMaxWeight - NegMaxWeight
  BY PerceptronAssumption, PerceptronFilterAssumption DEF NegMaxWeight, PosMaxWeight
<1>2. ASSUME NEW x \in NegMaxWeight .. PosMaxWeight
      PROVE  /\ Increment(x, r) \in NegMaxWeight .. PosMaxWeight
             /\ Decrement(x, r) \in NegMaxWeight .. PosMaxWeight
  BY <1>1 DEF Increment, Decrement
<1> DEFINE Moved(x) == IF rewarded THEN Increment(x, r) ELSE Decrement(x, r)
<1>3. ASSUME NEW t \in Tables
      PROVE  [w[t] EXCEPT ![SlotOf[t][key]] = Moved(@)] \in [Slots -> NegMaxWeight .. PosMaxWeight]
  <2>1. w[t] \in [Slots -> NegMaxWeight .. PosMaxWeight] /\ SlotOf[t][key] \in Slots
    BY PerceptronAssumption DEF Weights
  <2>2. Moved(w[t][SlotOf[t][key]]) \in NegMaxWeight .. PosMaxWeight
    BY <1>2, <2>1
  <2> HIDE DEF Moved
  <2> QED
    BY <2>1, <2>2
<1> QED
  BY <1>3 DEF Trained, Weights

(* The turns of the loop that trains the predictions found.                *)
TrainTurn(found, predictions, rewarded, r) ==
  [x \in found \X Weights |-> Trained(x[2], predictions[x[1]].key, rewarded, r)]

(* Two predictions may be trained in either order.                         *)
LEMMA TrainedCommute ==
  ASSUME NEW w \in Weights, NEW key \in Keys, NEW lock \in Keys, NEW rewarded, NEW r
  PROVE  Trained(Trained(w, key, rewarded, r), lock, rewarded, r)
           = Trained(Trained(w, lock, rewarded, r), key, rewarded, r)
<1> DEFINE Moved(x) == IF rewarded THEN Increment(x, r) ELSE Decrement(x, r)
           wk == Trained(w, key, rewarded, r)
           wl == Trained(w, lock, rewarded, r)
           a == Trained(wk, lock, rewarded, r)
           b == Trained(wl, key, rewarded, r)
<1> HIDE DEF Moved
<1>1. /\ wk = [t \in Tables |-> [w[t] EXCEPT ![SlotOf[t][key]] = Moved(w[t][SlotOf[t][key]])]]
      /\ wl = [t \in Tables |-> [w[t] EXCEPT ![SlotOf[t][lock]] = Moved(w[t][SlotOf[t][lock]])]]
  BY DEF Trained, Moved
<1> HIDE DEF wk, wl
<1>2. /\ a = [t \in Tables |-> [wk[t] EXCEPT ![SlotOf[t][lock]] = Moved(wk[t][SlotOf[t][lock]])]]
      /\ b = [t \in Tables |-> [wl[t] EXCEPT ![SlotOf[t][key]] = Moved(wl[t][SlotOf[t][key]])]]
  BY DEF Trained, Moved
<1> HIDE DEF a, b
<1>3. ASSUME NEW t \in Tables PROVE a[t] = b[t]
  <2> DEFINE f == w[t]
             k == SlotOf[t][key]
             l == SlotOf[t][lock]
  <2>1. f \in [Slots -> NegMaxWeight .. PosMaxWeight] /\ k \in Slots /\ l \in Slots
    BY PerceptronAssumption DEF Weights
  <2>2. wk[t] = [f EXCEPT ![k] = Moved(f[k])] /\ wl[t] = [f EXCEPT ![l] = Moved(f[l])]
    BY <1>1
  <2>3. a[t] = [wk[t] EXCEPT ![l] = Moved(wk[t][l])] /\ b[t] = [wl[t] EXCEPT ![k] = Moved(wl[t][k])]
    BY <1>2
  <2> HIDE DEF f, k, l
  <2> DEFINE fk == [f EXCEPT ![k] = Moved(f[k])]
             fl == [f EXCEPT ![l] = Moved(f[l])]
  <2>4. [fk EXCEPT ![l] = Moved(fk[l])] = [fl EXCEPT ![k] = Moved(fl[k])]
    BY <2>1
  <2>5. wk[t] = fk /\ wl[t] = fl
    BY <2>2
  <2> HIDE DEF fk, fl
  <2> QED
    BY <2>3, <2>4, <2>5
<1>4. a = [t \in Tables |-> a[t]] /\ b = [t \in Tables |-> b[t]]
  BY <1>2
<1>5. a = b
  BY <1>3, <1>4
<1> QED
  BY <1>5 DEF a, b, wk, wl

(* The predictions that are trained, each with a key.                      *)
Trainable(found, predictions) ==
  IsFiniteSet(found) /\ \A i \in found : predictions[i].key \in Keys

LEMMA TurnsFold ==
  ASSUME NEW found, NEW predictions, Trainable(found, predictions),
         NEW rewarded \in BOOLEAN, NEW r \in Rebounds
  PROVE  /\ TrainTurn(found, predictions, rewarded, r) \in FoldsOf(found, Weights)
         /\ Commutes(found, Weights, TrainTurn(found, predictions, rewarded, r))
<1> DEFINE T == TrainTurn(found, predictions, rewarded, r)
<1>1. ASSUME NEW i \in found, NEW v \in Weights
      PROVE  /\ T[<<i, v>>] = Trained(v, predictions[i].key, rewarded, r)
             /\ T[<<i, v>>] \in Weights
  <2>1. <<i, v>> \in found \X Weights
    OBVIOUS
  <2>2. T[<<i, v>>] = Trained(v, predictions[i].key, rewarded, r)
    BY <2>1 DEF TrainTurn
  <2>3. predictions[i].key \in Keys
    BY DEF Trainable
  <2> QED
    BY <2>2, <2>3, TrainedType
<1>2. T \in FoldsOf(found, Weights)
  <2>1. ASSUME NEW x \in found \X Weights
        PROVE  Trained(x[2], predictions[x[1]].key, rewarded, r) \in Weights
    BY TrainedType DEF Trainable
  <2> QED
    BY <2>1 DEF FoldsOf, TrainTurn
<1> HIDE DEF T
<1>3. ASSUME NEW x \in found, NEW y \in found, NEW v \in Weights
      PROVE  T[<<x, T[<<y, v>>]>>] = T[<<y, T[<<x, v>>]>>]
  <2>1. predictions[x].key \in Keys /\ predictions[y].key \in Keys
    BY DEF Trainable
  <2>2. T[<<x, T[<<y, v>>]>>] = Trained(Trained(v, predictions[y].key, rewarded, r), predictions[x].key, rewarded, r)
    BY <1>1
  <2>3. T[<<y, T[<<x, v>>]>>] = Trained(Trained(v, predictions[x].key, rewarded, r), predictions[y].key, rewarded, r)
    BY <1>1
  <2> QED
    BY <2>1, <2>2, <2>3, TrainedCommute
<1>4. Commutes(found, Weights, T)
  BY <1>3 DEF Commutes
<1> QED
  BY <1>2, <1>4 DEF T

(* The loop is the fold of its turns.                                      *)
LEMMA EachIsFold ==
  ASSUME NEW found, NEW predictions, Trainable(found, predictions), NEW w \in Weights,
         NEW rewarded \in BOOLEAN, NEW r \in Rebounds
  PROVE  \E it : /\ Folds(it, found, Weights, w, TrainTurn(found, predictions, rewarded, r))
                 /\ TrainedEach(w, predictions, found, rewarded, r) = it[found]
<1> DEFINE T == TrainTurn(found, predictions, rewarded, r)
           Unrolled(f) ==
             f = [s \in SUBSET found |->
                    IF s = {} THEN w
                    ELSE Trained(f[s \ {CHOOSE x \in s : TRUE}],
                                 predictions[CHOOSE x \in s : TRUE].key, rewarded, r)]
           iter == CHOOSE f : Unrolled(f)
<1>1. PICK it : Folds(it, found, Weights, w, T)
  <2>1. IsFiniteSet(found) /\ T \in FoldsOf(found, Weights)
    BY TurnsFold DEF Trainable
  <2> HIDE DEF T
  <2> QED
    BY <2>1, FoldExists
<1>2. ASSUME NEW s \in SUBSET found, s # {}
      PROVE  it[s] = Trained(it[s \ {Picked(s)}], predictions[Picked(s)].key, rewarded, r)
  <2>1. Picked(s) \in s
    BY <1>2, PickedIsMember
  <2>2. it[s] = T[<<Picked(s), it[s \ {Picked(s)}]>>] /\ it[s \ {Picked(s)}] \in Weights
    BY <1>1, <1>2 DEF Folds, Folded
  <2>3. <<Picked(s), it[s \ {Picked(s)}]>> \in found \X Weights
    BY <2>1, <2>2
  <2> QED
    BY <2>2, <2>3 DEF TrainTurn
<1>3. Unrolled(it)
  <2>1. it = [s \in SUBSET found |-> it[s]] /\ it[{}] = w
    BY <1>1 DEF Folds, Folded
  <2>2. ASSUME NEW s \in SUBSET found
        PROVE  it[s] = IF s = {} THEN w
                       ELSE Trained(it[s \ {CHOOSE x \in s : TRUE}],
                                    predictions[CHOOSE x \in s : TRUE].key, rewarded, r)
    BY <1>2, <2>1 DEF Picked
  <2> QED
    BY <2>1, <2>2
<1>4. Unrolled(iter)
  BY <1>3
<1> HIDE DEF iter
<1> DEFINE Good == {s \in SUBSET found : iter[s] = it[s]}
<1>5. {} \in Good
  BY <1>3, <1>4
<1>6. ASSUME NEW s \in SUBSET found, s # {}, \A x \in s : s \ {x} \in Good PROVE s \in Good
  <2>1. Picked(s) \in s
    BY <1>6, PickedIsMember
  <2>2. iter[s] = Trained(iter[s \ {Picked(s)}], predictions[Picked(s)].key, rewarded, r)
    BY <1>4, <1>6 DEF Picked
  <2>3. iter[s \ {Picked(s)}] = it[s \ {Picked(s)}]
    BY <1>6, <2>1
  <2> QED
    BY <1>2, <1>6, <2>2, <2>3
<1>7. iter[found] = it[found]
  <2> HIDE DEF Unrolled, Good
  <2>1. Good \in SUBSET (SUBSET found) /\ IsFiniteSet(found)
    BY DEF Good, Trainable
  <2>2. Good = SUBSET found
    BY <1>5, <1>6, <2>1, SubsetsKeep
  <2> QED
    BY <2>2 DEF Good
<1>8. TrainedEach(w, predictions, found, rewarded, r) = iter[found]
  BY DEF TrainedEach, FoldSet, MapThenFoldSet, iter
<1> QED
  BY <1>1, <1>7, <1>8

(* Training the predictions found keeps the weights in their range.        *)
LEMMA EachType ==
  ASSUME NEW found, NEW predictions, Trainable(found, predictions), NEW w \in Weights,
         NEW rewarded \in BOOLEAN, NEW r \in Rebounds
  PROVE  TrainedEach(w, predictions, found, rewarded, r) \in Weights
<1>1. PICK it : /\ Folds(it, found, Weights, w, TrainTurn(found, predictions, rewarded, r))
                /\ TrainedEach(w, predictions, found, rewarded, r) = it[found]
  BY EachIsFold
<1>2. found \in SUBSET found
  OBVIOUS
<1> QED
  BY <1>1, <1>2 DEF Folds

(* All entries of the ring can be trained.                                 *)
LEMMA RingTrainable ==
  ASSUME RingTypeOK, NEW found \in SUBSET Slot
  PROVE  Trainable(found, ring)
<1>1. IsFiniteSet(found)
  <2>1. IsFiniteSet(Slot)
    BY PerceptronFilterAssumption, FS_Interval DEF Slot
  <2> QED
    BY <2>1, FS_Subset
<1> QED
  BY <1>1 DEF RingTypeOK, Trainable

(* An outcome keeps the weights in their range, and so does a prediction.  *)
LEMMA RetrainTypes ==
  ASSUME TypeOK, NEW entries \in SUBSET Slot, NEW rewarded \in BOOLEAN,
         RetrainEntries(entries, rewarded)
  PROVE  weights' \in Weights
<1> DEFINE found == {i \in entries : ring[i].valid}
<1>1. weights' = TrainedEach(weights, ring, found, rewarded, rebound)
  BY DEF RetrainEntries
<1>2. Trainable(found, ring)
  BY RingTrainable DEF TypeOK
<1>3. weights \in Weights /\ rebound \in Rebounds
  BY DEF TypeOK, RingTypeOK
<1> HIDE DEF found
<1> QED
  BY <1>1, <1>2, <1>3, EachType

(* A prediction trains at most the one it pushes out.                      *)
LEMMA EnteredTypes ==
  ASSUME TypeOK, NEW line, NEW key, Entered(line, key)
  PROVE  weights' \in Weights
<1> DEFINE i == MovedUp(top)
<1>1. i \in Slot /\ weights' = Overwritten(i)
  BY MovedUpType DEF TypeOK, RingTypeOK, Entered
<1>2. weights \in Weights /\ rebound \in Rebounds /\ ring[i].key \in Keys /\ FALSE \in BOOLEAN
  BY <1>1 DEF TypeOK, RingTypeOK
<1> HIDE DEF i
<1>3. Trained(weights, ring[i].key, FALSE, rebound) \in Weights
  BY <1>2, TrainedType
<1> QED
  BY <1>1, <1>2, <1>3 DEF Overwritten

(***************************************************************************)
(* What a step does to the ring, under SPP or ahead of an access: nothing, *)
(* a prediction or the outcome of a line, whose entries are those that     *)
(* were written for it, found by the index or by a scan.                   *)
(***************************************************************************)
OfLine(line) == {i \in Slot : ring[i].line = line}

FilterStep ==
  /\ cached' \subseteq Lines /\ UNCHANGED rebound
  /\ \/ UNCHANGED ppfVars
     \/ \E line \in Lines, key \in Keys : Entered(line, key)
     \/ \E line \in Lines, rewarded \in BOOLEAN : RetrainEntries(OfLine(line), rewarded)

(* The filter over SPP takes such steps.                                   *)
LEMMA NextIsStep == IInv /\ [Next]_ppfVars => FilterStep
<1> SUFFICES ASSUME IInv, [Next]_ppfVars PROVE FilterStep
  OBVIOUS
<1>1. CASE UNCHANGED ppfVars
  BY <1>1 DEF ppfVars, FilterStep, IInv, RingTypeOK
<1>2. ASSUME NEW line \in Lines, NEW key \in Keys, Predict(line, key) PROVE FilterStep
  BY <1>2 DEF Predict, FilterStep, IInv, RingTypeOK
<1>3. ASSUME NEW line \in Lines, Demand(line) \/ Evict(line) PROVE FilterStep
  <2>1. PICK rewarded \in BOOLEAN : RetrainEntries(inverted[line], rewarded) /\ cached' \subseteq Lines
    BY <1>3 DEF Demand, Evict, Retrain, IInv, RingTypeOK
  <2>2. inverted[line] = OfLine(line)
    BY DEF OfLine, IInv, RingTypeOK, IndexInverse
  <2>3. UNCHANGED rebound
    BY <2>1 DEF RetrainEntries
  <2> QED
    BY <2>1, <2>2, <2>3 DEF FilterStep
<1> QED
  BY <1>1, <1>2, <1>3 DEF Next

(* So do the filters over the prefetchers that walk ahead.                 *)
LEMMA AheadIsStep == AheadIInv /\ [AheadNext]_<<ppfVars, aheadVars>> => FilterStep
<1> SUFFICES ASSUME AheadIInv, [AheadNext]_<<ppfVars, aheadVars>> PROVE FilterStep
  OBVIOUS
<1>1. cached \subseteq Lines
  BY DEF AheadIInv, IInv, RingTypeOK
<1>2. ASSUME UNCHANGED ppfVars PROVE FilterStep
  BY <1>1, <1>2 DEF ppfVars, FilterStep
<1>3. CASE AheadCycle
  <2> DEFINE line == ahead.line + ahead.stride
             key == Features(ahead.ip, ahead.degree, line)
             onPage == line \div BlocksPerPage = ahead.line \div BlocksPerPage
  <2>1. /\ ahead.degree \in 1 .. AheadDegree /\ ahead.line \in Lines
        /\ ahead.ip \in AheadIps \union {0} /\ ahead.stride \in AheadStrides \union {1}
    BY <1>3, LookaheadAssumption DEF AheadCycle, AheadIInv
  <2>2. CASE (VirtualPrefetch \/ onPage) /\ Entered(line, key) /\ UNCHANGED <<rebound, cached>>
    <3>1. line \in Lines
      BY <2>1, <2>2, LookaheadAssumption
    <3>2. key \in Keys
      BY <2>1, <3>1, LookaheadAssumption
    <3> HIDE DEF line, key
    <3> QED
      BY <1>1, <2>2, <3>1, <3>2 DEF FilterStep
  <2> QED
    BY <1>2, <1>3, <2>2 DEF AheadCycle, Refused
<1>4. ASSUME NEW line \in Lines, NEW ip \in AheadIps, NEW hit \in BOOLEAN,
             AheadAccess(line, ip, hit)
      PROVE  FilterStep
  <2>1. CASE hit
    <3>1. RetrainEntries(EntriesOf(line), TRUE) /\ UNCHANGED cached
      BY <1>4, <2>1 DEF AheadAccess
    <3>2. EntriesOf(line) = OfLine(line)
      BY DEF EntriesOf, OfLine, AheadIInv, IInv, RingTypeOK, IndexInverse
    <3>3. UNCHANGED rebound /\ TRUE \in BOOLEAN
      BY <3>1 DEF RetrainEntries
    <3> QED
      BY <1>1, <3>1, <3>2, <3>3 DEF FilterStep
  <2>2. CASE ~hit
    BY <1>2, <1>4, <2>2 DEF AheadAccess
  <2> QED
    BY <2>1, <2>2
<1> QED
  BY <1>2, <1>3, <1>4 DEF AheadNext

(* Such a step keeps the weights in their range.                           *)
LEMMA StepWeights == TypeOK /\ FilterStep => weights' \in Weights
<1> SUFFICES ASSUME TypeOK, FilterStep PROVE weights' \in Weights
  OBVIOUS
<1>1. CASE UNCHANGED ppfVars
  BY <1>1 DEF ppfVars, TypeOK
<1>2. ASSUME NEW line \in Lines, NEW key \in Keys, Entered(line, key)
      PROVE  weights' \in Weights
  BY <1>2, EnteredTypes
<1>3. ASSUME NEW line \in Lines, NEW rewarded \in BOOLEAN, RetrainEntries(OfLine(line), rewarded)
      PROVE  weights' \in Weights
  <2>1. OfLine(line) \in SUBSET Slot
    BY DEF OfLine
  <2> QED
    BY <1>3, <2>1, RetrainTypes
<1> QED
  BY <1>1, <1>2, <1>3 DEF FilterStep

(* The tables start with weights of the range.                             *)
LEMMA InitWeights == Init => weights \in Weights
<1> SUFFICES ASSUME Init PROVE weights \in Weights
  OBVIOUS
<1>1. {x \in 0 .. 7 : x <= PosMaxWeight} \subseteq NegMaxWeight .. PosMaxWeight
  BY PerceptronAssumption DEF NegMaxWeight, PosMaxWeight
<1> QED
  BY <1>1 DEF Init, Weights

(***************************************************************************)
(* The ring, its index and the weights keep their types: a weight never    *)
(* leaves its range, whatever it does at the ends of it.                   *)
(***************************************************************************)
THEOREM WeightsStayInRange == Spec => []TypeOK
<1>1. Init => TypeOK
  BY InitIInv, InitWeights DEF IInv, TypeOK
<1>2. IInv /\ TypeOK /\ [Next]_ppfVars => TypeOK'
  BY NextIInv, NextIsStep, StepWeights DEF IInv, TypeOK
<1> QED
  BY <1>1, <1>2, Invariance, PTL DEF Spec

(* So they do under the prefetchers that walk ahead.                       *)
THEOREM AheadWeightsStayInRange == AheadSpec => [](AheadIInv /\ TypeOK)
<1>1. AheadInit => AheadIInv /\ TypeOK
  BY AheadInitially DEF AheadIInv, IInv, TypeOK, AheadInit, Weights
<1>2. AheadIInv /\ TypeOK /\ [AheadNext]_<<ppfVars, aheadVars>> => (AheadIInv /\ TypeOK)'
  BY AheadKeeps, AheadIsStep, StepWeights DEF AheadIInv, IInv, TypeOK
<1> QED
  BY <1>1, <1>2, PTL DEF AheadSpec
-----------------------------------------------------------------------------
(* Weights none of which is below another's.                               *)
AtLeast(v, w) == \A t \in Tables, slot \in Slots : w[t][slot] <= v[t][slot]

(* They are ordered.                                                       *)
LEMMA AtLeastTransitive ==
  ASSUME NEW u \in Weights, NEW v \in Weights, NEW w \in Weights, AtLeast(u, v), AtLeast(v, w)
  PROVE  AtLeast(u, w)
<1> SUFFICES ASSUME NEW t \in Tables, NEW slot \in Slots PROVE w[t][slot] <= u[t][slot]
  BY DEF AtLeast
<1>1. w[t][slot] <= v[t][slot] /\ v[t][slot] <= u[t][slot]
  BY DEF AtLeast
<1>2. u[t][slot] \in Int /\ v[t][slot] \in Int /\ w[t][slot] \in Int
  BY PerceptronAssumption DEF Weights, NegMaxWeight, PosMaxWeight
<1> QED
  BY <1>1, <1>2

(* Without the step back a reward lowers no weight.                        *)
LEMMA RewardRaises ==
  ASSUME NEW w \in Weights, NEW key \in Keys
  PROVE  AtLeast(Trained(w, key, TRUE, 0), w)
<1> SUFFICES ASSUME NEW t \in Tables, NEW slot \in Slots
             PROVE  w[t][slot] <= Trained(w, key, TRUE, 0)[t][slot]
  BY DEF AtLeast
<1> DEFINE f == w[t]
           k == SlotOf[t][key]
           g == [f EXCEPT ![k] = Increment(f[k], 0)]
<1>1. f \in [Slots -> Int] /\ k \in Slots
  BY PerceptronAssumption DEF Weights, NegMaxWeight, PosMaxWeight
<1>2. Trained(w, key, TRUE, 0)[t] = g
  BY DEF Trained
<1> HIDE DEF f, k
<1>3. f[k] <= Increment(f[k], 0)
  BY <1>1 DEF Increment
<1>4. f[slot] <= g[slot]
  <2> DEFINE more == Increment(f[k], 0)
  <2> HIDE DEF more
  <2>1. g = [f EXCEPT ![k] = more] /\ f[k] <= more
    BY <1>3 DEF more
  <2> HIDE DEF g
  <2> QED
    BY <1>1, <2>1
<1> QED
  BY <1>2, <1>4 DEF f

(* Nor does the loop of rewards.                                           *)
LEMMA RewardsRaise ==
  ASSUME NEW found, NEW predictions, Trainable(found, predictions), NEW w \in Weights,
         0 \in Rebounds
  PROVE  AtLeast(TrainedEach(w, predictions, found, TRUE, 0), w)
<1> DEFINE T == TrainTurn(found, predictions, TRUE, 0)
<1>1. PICK it : /\ Folds(it, found, Weights, w, T)
                /\ TrainedEach(w, predictions, found, TRUE, 0) = it[found]
  <2>1. PICK rewarded \in BOOLEAN : rewarded = TRUE
    OBVIOUS
  <2>2. \E it : /\ Folds(it, found, Weights, w, TrainTurn(found, predictions, rewarded, 0))
                /\ TrainedEach(w, predictions, found, rewarded, 0) = it[found]
    BY EachIsFold
  <2> QED
    BY <2>1, <2>2
<1> DEFINE Good == {s \in SUBSET found : AtLeast(it[s], w)}
<1>2. /\ it \in [SUBSET found -> Weights] /\ it[{}] = w
      /\ \A s \in SUBSET found : s # {} => it[s] = T[<<Picked(s), it[s \ {Picked(s)}]>>]
  BY <1>1 DEF Folds, Folded
<1>3. {} \in Good
  <2>1. \A t \in Tables, slot \in Slots : w[t][slot] \in Int
    BY PerceptronAssumption DEF Weights, NegMaxWeight, PosMaxWeight
  <2>2. AtLeast(w, w)
    BY <2>1 DEF AtLeast
  <2> QED
    BY <1>2, <2>2
<1>4. ASSUME NEW s \in SUBSET found, s # {}, \A x \in s : s \ {x} \in Good PROVE s \in Good
  <2> DEFINE x == Picked(s)
             rest == it[s \ {x}]
             key == predictions[x].key
  <2>1. x \in s
    BY <1>4, PickedIsMember
  <2>2. rest \in Weights /\ key \in Keys /\ AtLeast(rest, w) /\ it[s] \in Weights
    BY <1>2, <1>4, <2>1 DEF Trainable
  <2>3. it[s] = Trained(rest, key, TRUE, 0)
    <3>1. it[s] = T[<<x, rest>>]
      BY <1>2, <1>4
    <3>2. <<x, rest>> \in found \X Weights
      BY <2>1, <2>2
    <3> QED
      BY <3>1, <3>2 DEF TrainTurn
  <2> HIDE DEF x, rest, key
  <2>4. AtLeast(it[s], rest)
    BY <2>2, <2>3, RewardRaises
  <2>5. AtLeast(it[s], w)
    BY <2>2, <2>4, AtLeastTransitive
  <2> QED
    BY <2>5
<1>5. found \in Good
  <2> HIDE DEF Good
  <2>1. Good \in SUBSET (SUBSET found) /\ IsFiniteSet(found)
    BY DEF Good, Trainable
  <2>2. Good = SUBSET found
    BY <1>3, <1>4, <2>1, SubsetsKeep
  <2> QED
    BY <2>2
<1> QED
  BY <1>1, <1>5

(* The sum of the decision does not fall when no weight does.              *)
LEMMA DecisionGrows ==
  ASSUME NEW v \in Weights, NEW w \in Weights, AtLeast(v, w), NEW key \in Keys
  PROVE  Accepted(w, key) => Accepted(v, key)
<1> DEFINE f == [t \in Tables |-> w[t][SlotOf[t][key]]]
           g == [t \in Tables |-> v[t][SlotOf[t][key]]]
<1>1. IsFiniteSet(Tables) /\ \A t \in Tables : SlotOf[t][key] \in Slots
  BY PerceptronAssumption
<1>2. f \in [Tables -> Int] /\ g \in [Tables -> Int]
  BY <1>1, PerceptronAssumption DEF Weights, NegMaxWeight, PosMaxWeight
<1>3. \A t \in Tables : f[t] <= g[t]
  BY <1>1 DEF AtLeast
<1>4. Decision(w, key) = Bias + SumFunction(f) /\ Decision(v, key) = Bias + SumFunction(g)
  BY DEF Decision
<1> HIDE DEF f, g
<1>5. /\ SumFunction(f) \in Int /\ SumFunction(g) \in Int
      /\ SumFunction(f) <= SumFunction(g)
  BY <1>1, <1>2, <1>3, SumGrows
<1> QED
  BY <1>4, <1>5, PerceptronAssumption DEF Accepted

(* A reward in any state turns no candidate down.                          *)
LEMMA RewardKeeps ==
  TypeOK /\ rebound = 0 /\ (\E line \in Lines : Retrain(line, TRUE))
    => \A key \in Keys : Accepted(weights, key) => Accepted(weights', key)
<1> SUFFICES ASSUME TypeOK, rebound = 0, NEW line \in Lines, Retrain(line, TRUE),
                    NEW key \in Keys
             PROVE  Accepted(weights, key) => Accepted(weights', key)
  OBVIOUS
<1> DEFINE found == {i \in inverted[line] : ring[i].valid}
<1>1. inverted[line] \in SUBSET Slot /\ weights \in Weights /\ 0 \in Rebounds
  BY DEF TypeOK, RingTypeOK
<1>2. weights' \in Weights
  BY <1>1, RetrainTypes DEF Retrain
<1>3. weights' = TrainedEach(weights, ring, found, TRUE, 0)
  BY DEF Retrain, RetrainEntries
<1>4. Trainable(found, ring)
  BY <1>1, RingTrainable DEF TypeOK
<1> HIDE DEF found
<1>5. AtLeast(weights', weights)
  BY <1>1, <1>3, <1>4, RewardsRaise
<1> QED
  BY <1>1, <1>2, <1>5, DecisionGrows

(***************************************************************************)
(* A demand of a predicted line never turns down a candidate that would    *)
(* have been accepted before it, for any number of tables, any features    *)
(* and any weights, when weights stay at the end of their range.           *)
(***************************************************************************)
THEOREM RewardAlwaysKeepsAccepted == Spec => RewardKeepsAccepted
  BY RewardKeeps, WeightsStayInRange, PTL DEF RewardKeepsAccepted

(* Nor does a hit of one under the prefetchers that walk ahead.            *)
THEOREM AheadRewardKeepsAccepted == AheadSpec => RewardKeepsAccepted
  BY RewardKeeps, AheadWeightsStayInRange, PTL DEF RewardKeepsAccepted
-----------------------------------------------------------------------------
(* A sequence by its members.                                              *)
LEMMA AppendIs ==
  ASSUME NEW S, NEW n \in Nat, NEW f \in [1 .. n -> S], NEW g \in [1 .. n + 1 -> S],
         NEW e, \A k \in 1 .. n : g[k] = f[k], g[n + 1] = e
  PROVE  g = Append(f, e)
<1>1. f \in Seq(S) /\ Len(f) = n
  OBVIOUS
<1>2. g \in Seq(S) /\ Len(g) = n + 1 /\ e \in S
  OBVIOUS
<1>3. /\ Append(f, e) \in Seq(S) /\ Len(Append(f, e)) = n + 1
      /\ \A k \in 1 .. n : Append(f, e)[k] = f[k]
      /\ Append(f, e)[n + 1] = e
  BY <1>1, <1>2
<1>4. \A k \in 1 .. n + 1 : g[k] = Append(f, e)[k]
  BY <1>3
<1> QED
  BY <1>2, <1>3, <1>4, SeqEqual

(* A sequence that has moved up by one place.                              *)
LEMMA TailAppendIs ==
  ASSUME NEW S, NEW n \in Nat \ {0}, NEW f \in [1 .. n -> S], NEW g \in [1 .. n -> S],
         NEW e, \A k \in 1 .. n - 1 : g[k] = f[k + 1], g[n] = e
  PROVE  g = Append(Tail(f), e)
<1>1. f \in Seq(S) /\ Len(f) = n /\ f # << >>
  OBVIOUS
<1>2. Tail(f) \in Seq(S) /\ Len(Tail(f)) = n - 1 /\ \A k \in 1 .. n - 1 : Tail(f)[k] = f[k + 1]
  BY <1>1
<1>3. Tail(f) \in [1 .. n - 1 -> S] /\ n - 1 \in Nat
  <2> DEFINE t == Tail(f)
  <2> HIDE DEF t
  <2>1. t \in [1 .. Len(t) -> S] /\ Len(t) = n - 1
    BY <1>2, LenProperties DEF t
  <2>2. t \in [1 .. n - 1 -> S]
    BY <2>1
  <2> QED
    BY <2>2 DEF t
<1>4. \A k \in 1 .. n - 1 : g[k] = Tail(f)[k]
  BY <1>2
<1> DEFINE m == n - 1
           t == Tail(f)
<1>5. m \in Nat /\ t \in [1 .. m -> S] /\ g \in [1 .. m + 1 -> S] /\ g[m + 1] = e
      /\ \A k \in 1 .. m : g[k] = t[k]
  BY <1>3, <1>4
<1> HIDE DEF m, t
<1>6. g = Append(t, e)
  BY <1>5, AppendIs
<1> QED
  BY <1>6 DEF t

(* How far the ring has been written: entry 0 comes last.                  *)
RingOrder ==
  \A i \in Slot : ring[i].line # NoLine <=> Wrapped \/ i \in 1 .. top

(* No entry has been written at the start.                                 *)
LEMMA InitRingOrder == RingInit => RingOrder
<1> SUFFICES ASSUME RingInit, NEW i \in Slot
             PROVE  ring[i].line # NoLine <=> Wrapped \/ i \in 1 .. top
  BY DEF RingOrder
<1>1. 0 \in Slot
  BY PerceptronFilterAssumption DEF Slot
<1> QED
  BY <1>1 DEF RingInit, Wrapped

(* A prediction goes to the next entry.                                    *)
LEMMA EnteredOrder ==
  ASSUME IInv, RingOrder, NEW line \in Lines, NEW key \in Keys, Entered(line, key)
  PROVE  RingOrder'
<1> DEFINE i == MovedUp(top)
<1>1. /\ top \in Slot /\ i \in Slot /\ 0 \in Slot /\ top' = i /\ line # NoLine
      /\ ring \in [Slot -> [valid : BOOLEAN, line : Lines \union {NoLine}, key : Keys]]
      /\ ring' = [ring EXCEPT ![i] = [valid |-> TRUE, line |-> line, key |-> key]]
  BY MovedUpType, PerceptronFilterAssumption DEF IInv, RingTypeOK, Entered, Slot
<1>2. \A j \in Slot : ring'[j].line = IF j = i THEN line ELSE ring[j].line
  BY <1>1
<1>3. Wrapped' <=> Wrapped \/ i = 0
  BY <1>1, <1>2 DEF Wrapped
<1>4. i = IF top = RingSize - 1 THEN 0 ELSE top + 1
  BY DEF MovedUp
<1> HIDE DEF i
<1> SUFFICES ASSUME NEW j \in Slot
             PROVE  ring'[j].line # NoLine <=> Wrapped' \/ j \in 1 .. top'
  BY DEF RingOrder
<1>5. ring'[j].line # NoLine <=> j = i \/ Wrapped \/ j \in 1 .. top
  BY <1>1, <1>2 DEF RingOrder
<1>6. RingSize \in Nat \ {0} /\ j \in 0 .. RingSize - 1 /\ top \in 0 .. RingSize - 1
  BY <1>1, PerceptronFilterAssumption DEF Slot
<1> QED
  BY <1>1, <1>3, <1>4, <1>5, <1>6

(* An outcome writes no entry.                                             *)
LEMMA RetrainOrder ==
  ASSUME IInv, RingOrder, NEW entries, NEW rewarded, RetrainEntries(entries, rewarded)
  PROVE  RingOrder' /\ (Wrapped' <=> Wrapped) /\ top' = top
<1>1. \A i \in Slot : ring'[i].line = ring[i].line
  BY DEF RetrainEntries, IInv, RingTypeOK
<1>2. top' = top /\ 0 \in Slot
  BY PerceptronFilterAssumption DEF RetrainEntries, Slot
<1>3. Wrapped' <=> Wrapped
  BY <1>1, <1>2 DEF Wrapped
<1> QED
  BY <1>1, <1>2, <1>3 DEF RingOrder

(* The predictions from the oldest on, each in an entry of its own.        *)
Count == IF Wrapped THEN RingSize ELSE top

AsPrediction(e) == [line |-> e.line, key |-> e.key, pending |-> e.valid]

Prediction == [line : Lines, key : Keys, pending : BOOLEAN]

(* They number the entries that have been written.                         *)
LEMMA EntryNumbers ==
  ASSUME IInv, RingOrder
  PROVE  /\ Count \in Nat
         /\ \A k \in 1 .. Count : EntryOf(k) \in Slot /\ ring[EntryOf(k)].line \in Lines
         /\ \A k, l \in 1 .. Count : EntryOf(k) = EntryOf(l) => k = l
         /\ \A i \in Slot : ring[i].line # NoLine => \E k \in 1 .. Count : EntryOf(k) = i
<1>1. RingSize \in Nat \ {0} /\ top \in 0 .. RingSize - 1 /\ Slot = 0 .. RingSize - 1
  BY PerceptronFilterAssumption DEF IInv, RingTypeOK, Slot
<1>2. Count \in Nat
  BY <1>1 DEF Count
<1>3. ASSUME NEW k \in 1 .. Count
      PROVE  EntryOf(k) \in Slot /\ (Wrapped \/ EntryOf(k) \in 1 .. top)
  BY <1>1 DEF Count, EntryOf
<1>4. ASSUME NEW k \in 1 .. Count
      PROVE  EntryOf(k) \in Slot /\ ring[EntryOf(k)].line \in Lines
  BY <1>3 DEF RingOrder, IInv, RingTypeOK
<1>5. ASSUME NEW k \in 1 .. Count, NEW l \in 1 .. Count, EntryOf(k) = EntryOf(l)
      PROVE  k = l
  BY <1>1, <1>5 DEF Count, EntryOf
<1>6. ASSUME NEW i \in Slot, ring[i].line # NoLine
      PROVE  \E k \in 1 .. Count : EntryOf(k) = i
  <2>1. CASE ~Wrapped
    <3>1. i \in 1 .. Count /\ EntryOf(i) = i
      BY <1>6, <2>1 DEF Count, EntryOf, RingOrder
    <3> QED
      BY <3>1
  <2>2. CASE Wrapped
    <3> DEFINE k == IF i > top THEN i - top ELSE i - top + RingSize
    <3>1. k \in 1 .. Count /\ EntryOf(k) = i
      BY <1>1, <2>2 DEF Count, EntryOf
    <3> QED
      BY <3>1
  <2> QED
    BY <2>1, <2>2
<1> QED
  BY <1>2, <1>4, <1>5, <1>6

LatestOK ==
  /\ Latest \in [1 .. Count -> Prediction] /\ Count \in Nat
  /\ \A k \in 1 .. Count : Latest[k] = AsPrediction(ring[EntryOf(k)])
  /\ Len(Latest) = Count /\ DOMAIN Latest = 1 .. Count

(* The window has a prediction for each of them.                           *)
LEMMA LatestIs == IInv /\ RingOrder => LatestOK
<1> SUFFICES ASSUME IInv, RingOrder PROVE LatestOK
  OBVIOUS
<1>1. Latest = [k \in 1 .. Count |-> AsPrediction(ring[EntryOf(k)])]
  BY DEF Latest, Count, AsPrediction
<1>2. Count \in Nat /\ \A k \in 1 .. Count : EntryOf(k) \in Slot /\ ring[EntryOf(k)].line \in Lines
  BY EntryNumbers
<1>3. ASSUME NEW k \in 1 .. Count PROVE AsPrediction(ring[EntryOf(k)]) \in Prediction
  <2> DEFINE e == ring[EntryOf(k)]
  <2>1. e \in [valid : BOOLEAN, line : Lines \union {NoLine}, key : Keys] /\ e.line \in Lines
    BY <1>2 DEF IInv, RingTypeOK
  <2> HIDE DEF e
  <2>2. AsPrediction(e) \in Prediction
    BY <2>1 DEF AsPrediction, Prediction
  <2> QED
    BY <2>2 DEF e
<1> HIDE DEF Count
<1>4. Latest \in [1 .. Count -> Prediction]
  BY <1>1, <1>3
<1> QED
  BY <1>1, <1>2, <1>4 DEF LatestOK

(***************************************************************************)
(* A prediction enters at the end of the window, and the oldest one leaves *)
(* a full window, trained as useless if it was still pending.              *)
(***************************************************************************)
LEMMA EnteredIsPredict ==
  ASSUME IInv, RingOrder, NEW line \in Lines, NEW key \in Keys, Entered(line, key),
         cached' \subseteq Lines, UNCHANGED rebound
  PROVE  Window!Predict(line, key)
<1> DEFINE i == MovedUp(top)
           new == [line |-> line, key |-> key, pending |-> TRUE]
<1>1. /\ RingSize \in Nat \ {0} /\ top \in 0 .. RingSize - 1 /\ Slot = 0 .. RingSize - 1
      /\ i \in Slot /\ 0 \in Slot /\ top' = i /\ line # NoLine
      /\ ring \in [Slot -> [valid : BOOLEAN, line : Lines \union {NoLine}, key : Keys]]
      /\ ring' = [ring EXCEPT ![i] = [valid |-> TRUE, line |-> line, key |-> key]]
      /\ weights' = Overwritten(i)
  BY MovedUpType, PerceptronFilterAssumption DEF IInv, RingTypeOK, Entered, Slot
<1>2. /\ \A j \in Slot : j # i => ring'[j] = ring[j]
      /\ ring'[i] = [valid |-> TRUE, line |-> line, key |-> key]
  BY <1>1
<1>3. i = IF top = RingSize - 1 THEN 0 ELSE top + 1
  BY DEF MovedUp
<1>4. Wrapped' <=> Wrapped \/ i = 0
  BY <1>1, <1>2 DEF Wrapped
<1>5. AsPrediction(ring'[i]) = new /\ new \in Prediction
  BY <1>2 DEF AsPrediction, Prediction
<1>6. IInv' /\ RingOrder'
  BY EnteredIInv, EnteredOrder
<1>7. /\ Latest \in [1 .. Count -> Prediction] /\ Count \in Nat
      /\ \A k \in 1 .. Count : Latest[k] = AsPrediction(ring[EntryOf(k)])
      /\ Len(Latest) = Count
  BY LatestIs DEF LatestOK
<1>8. /\ Latest' \in [1 .. Count' -> Prediction]
      /\ \A k \in 1 .. Count' : Latest'[k] = AsPrediction(ring'[EntryOf(k)'])
  <2>1. IInv' /\ RingOrder' => LatestOK'
    BY LatestIs, PTL
  <2>2. LatestOK'
    BY <1>6, <2>1
  <2> QED
    BY <2>2 DEF LatestOK, AsPrediction, Prediction
<1>9. UNCHANGED rebound
  OBVIOUS
<1> HIDE DEF i, new
<1>10. CASE Wrapped
  <2>1. Count = RingSize /\ Count' = RingSize
    BY <1>4, <1>10 DEF Count
  <2>2. ASSUME NEW k \in 1 .. RingSize - 1 PROVE Latest'[k] = Latest[k + 1]
    <3>1. EntryOf(k)' = EntryOf(k + 1) /\ EntryOf(k + 1) # i /\ EntryOf(k + 1) \in Slot
      BY <1>1, <1>3, <1>4, <1>10 DEF EntryOf
    <3>2. k \in 1 .. RingSize /\ k + 1 \in 1 .. RingSize
      BY <1>1
    <3> QED
      BY <1>2, <1>7, <1>8, <2>1, <3>1, <3>2
  <2>3. Latest'[RingSize] = new
    <3>1. EntryOf(RingSize)' = i
      BY <1>1, <1>4, <1>10 DEF EntryOf
    <3>2. RingSize \in 1 .. Count'
      BY <1>1, <2>1
    <3>3. Latest'[RingSize] = AsPrediction(ring'[EntryOf(RingSize)'])
      BY <1>8, <3>2
    <3> QED
      BY <1>5, <3>1, <3>3
  <2>4. Latest' = Append(Tail(Latest), new)
    BY <1>1, <1>7, <1>8, <2>1, <2>2, <2>3, TailAppendIs
  <2>5. Latest[1] = AsPrediction(ring[i])
    <3>1. EntryOf(1) = i /\ 1 \in 1 .. Count
      BY <1>1, <1>3, <1>10, <2>1 DEF EntryOf
    <3>2. Latest[1] = AsPrediction(ring[EntryOf(1)])
      BY <1>7, <3>1
    <3> QED
      BY <3>1, <3>2
  <2>6. weights' = IF Latest[1].pending THEN Trained(weights, Latest[1].key, FALSE, rebound)
                                        ELSE weights
    BY <1>1, <2>5 DEF Overwritten, AsPrediction
  <2>7. Len(Latest) = RingSize
    BY <1>7, <2>1
  <2> QED
    BY <1>9, <2>4, <2>6, <2>7
       DEF new, Window!Predict, Window!Trained, Window!Increment, Window!Decrement, Trained,
           Increment, Decrement, Window!PosMaxWeight, Window!NegMaxWeight, PosMaxWeight, NegMaxWeight
<1>11. CASE ~Wrapped
  <2>1. Count = top /\ Count' = top + 1
    BY <1>1, <1>3, <1>4, <1>11 DEF Count
  <2>2. ~ring[i].valid
    <3>1. ring[i].line = NoLine
      BY <1>1, <1>3, <1>11 DEF RingOrder, Wrapped
    <3> QED
      BY <1>1, <3>1 DEF IInv, UnwrittenInvalid
  <2>3. weights' = weights
    BY <1>1, <2>2 DEF Overwritten
  <2>4. ASSUME NEW k \in 1 .. top PROVE Latest'[k] = Latest[k]
    <3>1. EntryOf(k)' = k /\ EntryOf(k) = k /\ k # i /\ k \in Slot
      BY <1>1, <1>3, <1>4, <1>11 DEF EntryOf
    <3>2. k \in 1 .. top + 1
      BY <1>1
    <3> QED
      BY <1>2, <1>7, <1>8, <2>1, <3>1, <3>2
  <2>5. Latest'[top + 1] = new
    <3>1. PICK k \in 1 .. top + 1 : k = top + 1
      BY <1>1
    <3>2. EntryOf(k)' = i
      BY <1>1, <1>3, <1>4, <1>11, <3>1 DEF EntryOf
    <3>3. Latest'[k] = AsPrediction(ring'[EntryOf(k)'])
      BY <1>8, <2>1
    <3> QED
      BY <1>5, <3>1, <3>2, <3>3
  <2>6. Latest' = Append(Latest, new)
    BY <1>1, <1>7, <1>8, <2>1, <2>4, <2>5, AppendIs
  <2>7. Len(Latest) # RingSize
    BY <1>1, <1>7, <2>1
  <2> QED
    BY <1>9, <2>3, <2>6, <2>7 DEF new, Window!Predict
<1> QED
  BY <1>10, <1>11

(* The window trains as the ring does.                                     *)
LEMMA SameTraining ==
  ASSUME NEW w, NEW predictions, NEW found, NEW rewarded, NEW r
  PROVE  Window!TrainedEach(w, predictions, found, rewarded, r)
           = TrainedEach(w, predictions, found, rewarded, r)
BY DEF Window!TrainedEach, TrainedEach, Window!Trained, Trained, Window!Increment, Increment,
       Window!Decrement, Decrement, Window!PosMaxWeight, Window!NegMaxWeight, PosMaxWeight,
       NegMaxWeight, Window!FoldSet, FoldSet, Window!MapThenFoldSet, MapThenFoldSet

(***************************************************************************)
(* Training the predictions of a window gives what training their entries  *)
(* gives, in whatever order each loop runs.                                *)
(***************************************************************************)
LEMMA SameOutcome ==
  ASSUME NEW w \in Weights, NEW rewarded \in BOOLEAN, NEW r \in Rebounds,
         NEW inRing, NEW inWindow, NEW entries, NEW window, NEW h \in [inWindow -> inRing],
         Trainable(inRing, entries), Trainable(inWindow, window),
         \A k, l \in inWindow : h[k] = h[l] => k = l, Image(h, inWindow) = inRing,
         \A k \in inWindow : window[k].key = entries[h[k]].key
  PROVE  TrainedEach(w, window, inWindow, rewarded, r) = TrainedEach(w, entries, inRing, rewarded, r)
<1> DEFINE T == TrainTurn(inWindow, window, rewarded, r)
           U == TrainTurn(inRing, entries, rewarded, r)
<1>1. PICK it : /\ Folds(it, inWindow, Weights, w, T)
                /\ TrainedEach(w, window, inWindow, rewarded, r) = it[inWindow]
  BY EachIsFold
<1>2. PICK jt : /\ Folds(jt, inRing, Weights, w, U)
                /\ TrainedEach(w, entries, inRing, rewarded, r) = jt[inRing]
  BY EachIsFold
<1>3. Commutes(inRing, Weights, U)
  BY TurnsFold
<1>4. ASSUME NEW k \in inWindow, NEW v \in Weights PROVE T[<<k, v>>] = U[<<h[k], v>>]
  <2>1. <<k, v>> \in inWindow \X Weights /\ <<h[k], v>> \in inRing \X Weights
    OBVIOUS
  <2>2. /\ T[<<k, v>>] = Trained(v, window[k].key, rewarded, r)
        /\ U[<<h[k], v>>] = Trained(v, entries[h[k]].key, rewarded, r)
    BY <2>1 DEF TrainTurn
  <2> QED
    BY <2>2
<1>5. IsFiniteSet(inWindow) /\ IsFiniteSet(inRing)
  BY DEF Trainable
<1> HIDE DEF T, U
<1>6. \A s \in SUBSET inWindow : it[s] = jt[Image(h, s)]
  BY <1>1, <1>2, <1>3, <1>4, <1>5, FoldRenamed
<1>7. inWindow \in SUBSET inWindow
  OBVIOUS
<1>8. it[inWindow] = jt[inRing]
  BY <1>6, <1>7
<1> QED
  BY <1>1, <1>2, <1>8

(* An outcome of a line in the ring is its outcome in the window.          *)
LEMMA RetrainIsOutcome ==
  ASSUME IInv, RingOrder, weights \in Weights, NEW line \in Lines, NEW rewarded \in BOOLEAN,
         NEW entries, entries = {i \in Slot : ring[i].line = line},
         RetrainEntries(entries, rewarded), cached' \subseteq Lines
  PROVE  Window!Outcome(line, rewarded)
<1> DEFINE inRing == {i \in entries : ring[i].valid}
           inWindow == {k \in DOMAIN Latest : Latest[k].pending /\ Latest[k].line = line}
           h == [k \in inWindow |-> EntryOf(k)]
<1>1. /\ weights' = TrainedEach(weights, ring, inRing, rewarded, rebound)
      /\ ring' = [i \in Slot |-> [ring[i] EXCEPT !.valid = @ /\ i \notin inRing]]
      /\ UNCHANGED rebound
  BY DEF RetrainEntries
<1>2. IInv' /\ RingOrder' /\ (Wrapped' <=> Wrapped) /\ top' = top
  BY RetrainIInv, RetrainOrder
<1>3. /\ Count \in Nat
      /\ \A k \in 1 .. Count : EntryOf(k) \in Slot /\ ring[EntryOf(k)].line \in Lines
      /\ \A k, l \in 1 .. Count : EntryOf(k) = EntryOf(l) => k = l
      /\ \A i \in Slot : ring[i].line # NoLine => \E k \in 1 .. Count : EntryOf(k) = i
  BY EntryNumbers
<1>4. /\ Latest \in [1 .. Count -> Prediction]
      /\ \A k \in 1 .. Count : Latest[k] = AsPrediction(ring[EntryOf(k)])
      /\ DOMAIN Latest = 1 .. Count
  BY LatestIs DEF LatestOK
<1>5. /\ Latest' \in [1 .. Count' -> Prediction]
      /\ \A k \in 1 .. Count' : Latest'[k] = AsPrediction(ring'[EntryOf(k)'])
  <2>1. IInv' /\ RingOrder' => LatestOK'
    BY LatestIs, PTL
  <2>2. LatestOK'
    BY <1>2, <2>1
  <2> QED
    BY <2>2 DEF LatestOK, AsPrediction, Prediction
<1>6. Count' = Count /\ \A k \in 1 .. Count : EntryOf(k)' = EntryOf(k)
  BY <1>2 DEF Count, EntryOf
<1>7. ASSUME NEW k \in 1 .. Count
      PROVE  /\ Latest'[k] = [Latest[k] EXCEPT !.pending = @ /\ Latest[k].line # line]
             /\ k \in inWindow <=> EntryOf(k) \in inRing
             /\ Latest[k].key = ring[EntryOf(k)].key
  <2> DEFINE i == EntryOf(k)
             e == ring[i]
  <2>1. /\ i \in Slot /\ Latest[k] = AsPrediction(e) /\ Latest'[k] = AsPrediction(ring'[i])
        /\ e \in [valid : BOOLEAN, line : Lines \union {NoLine}, key : Keys]
    BY <1>3, <1>4, <1>5, <1>6 DEF IInv, RingTypeOK
  <2>2. ring'[i] = [e EXCEPT !.valid = @ /\ i \notin inRing]
    BY <1>1, <2>1
  <2>3. i \in inRing <=> e.valid /\ e.line = line
    BY <2>1
  <2>4. k \in inWindow <=> e.valid /\ e.line = line
    BY <1>4, <2>1 DEF AsPrediction
  <2> HIDE DEF i, e, inRing, inWindow
  <2>5. /\ ring'[i].line = e.line /\ ring'[i].key = e.key
        /\ ring'[i].valid = (e.valid /\ e.line # line)
    BY <2>1, <2>2, <2>3
  <2>6. Latest[k] = [line |-> e.line, key |-> e.key, pending |-> e.valid]
    BY <2>1 DEF AsPrediction
  <2>7. Latest'[k] = [line |-> e.line, key |-> e.key, pending |-> e.valid /\ e.line # line]
    BY <2>1, <2>5 DEF AsPrediction
  <2> QED
    BY <2>3, <2>4, <2>6, <2>7 DEF i, e
<1>8. Latest' = [k \in DOMAIN Latest |-> [Latest[k] EXCEPT !.pending = @ /\ Latest[k].line # line]]
  <2>1. Latest' = [k \in 1 .. Count |-> Latest'[k]]
    BY <1>5, <1>6
  <2> HIDE DEF inRing, inWindow
  <2> QED
    BY <1>4, <1>7, <2>1
<1>9. Trainable(inRing, ring)
  BY RingTrainable DEF IInv
<1>10. Trainable(inWindow, Latest)
  <2>1. inWindow \in SUBSET (1 .. Count)
    BY <1>4
  <2>2. IsFiniteSet(1 .. Count)
    BY <1>3, FS_Interval
  <2>3. IsFiniteSet(inWindow)
    BY <2>1, <2>2, FS_Subset
  <2>4. \A k \in 1 .. Count : Latest[k].key \in Keys
    BY <1>4 DEF Prediction
  <2> HIDE DEF inWindow
  <2> QED
    BY <2>1, <2>3, <2>4 DEF Trainable
<1>11. /\ h \in [inWindow -> inRing] /\ \A k, l \in inWindow : h[k] = h[l] => k = l
       /\ \A k \in inWindow : Latest[k].key = ring[h[k]].key
       /\ Image(h, inWindow) = inRing
  <2>1. inWindow \in SUBSET (1 .. Count)
    BY <1>4
  <2>2. \A i \in inRing : i \in Slot /\ ring[i].line # NoLine
    BY PerceptronFilterAssumption
  <2> HIDE DEF inWindow, inRing
  <2>3. \A k \in inWindow : EntryOf(k) \in inRing
    BY <1>7, <2>1
  <2>4. h \in [inWindow -> inRing]
    BY <2>3
  <2>5. \A k, l \in inWindow : h[k] = h[l] => k = l
    BY <1>3, <2>1
  <2>6. \A i \in inRing : \E k \in inWindow : EntryOf(k) = i
    BY <1>3, <1>7, <2>2
  <2>7. Image(h, inWindow) = inRing
    BY <2>3, <2>6 DEF Image
  <2>8. \A k \in inWindow : Latest[k].key = ring[h[k]].key
    BY <1>7, <2>1
  <2> QED
    BY <2>4, <2>5, <2>7, <2>8
<1>12. rebound \in Rebounds
  BY DEF IInv, RingTypeOK
<1> HIDE DEF inRing, inWindow, h
<1>13. TrainedEach(weights, Latest, inWindow, rewarded, rebound)
         = TrainedEach(weights, ring, inRing, rewarded, rebound)
  BY <1>9, <1>10, <1>11, <1>12, SameOutcome
<1>14. weights' = Window!TrainedEach(weights, Latest, inWindow, rewarded, rebound)
  BY <1>1, <1>13, SameTraining
<1> QED
  BY <1>1, <1>8, <1>14 DEF Window!Outcome, inWindow

(* It starts empty.                                                        *)
LEMMA InitIsWindow == IInv /\ RingInit /\ weights \in Weights => Window!Init /\ RingOrder
<1> SUFFICES ASSUME IInv, RingInit, weights \in Weights PROVE Window!Init /\ RingOrder
  OBVIOUS
<1>1. RingOrder
  BY InitRingOrder
<1>2. rebound \in Nat
  <2>1. rebound \in 0 .. PosMaxWeight - NegMaxWeight
    BY PerceptronFilterAssumption DEF IInv, RingTypeOK
  <2> QED
    BY <2>1
<1>3. Latest = << >>
  <2>1. ~Wrapped /\ top = 0
    BY PerceptronFilterAssumption DEF RingInit, Wrapped, Slot
  <2>2. Count = 0
    BY <2>1 DEF Count
  <2>3. Latest \in [1 .. 0 -> Prediction] /\ Len(Latest) = 0
    BY <1>1, <2>2, LatestIs DEF LatestOK
  <2>4. Latest \in Seq(Prediction)
    BY <2>3
  <2> QED
    BY <2>3, <2>4, EmptySeq
<1> QED
  BY <1>1, <1>2, <1>3 DEF Window!Init, Window!Weights, Weights, Window!PosMaxWeight,
     Window!NegMaxWeight, PosMaxWeight, NegMaxWeight

(* Each step of a filter is one of the window, or changes nothing there.   *)
LEMMA StepIsWindow ==
  IInv /\ RingOrder /\ weights \in Weights /\ FilterStep
    => [Window!Next]_(Window!windowVars) /\ RingOrder'
<1> SUFFICES ASSUME IInv, RingOrder, weights \in Weights, FilterStep
             PROVE  [Window!Next]_(Window!windowVars) /\ RingOrder'
  OBVIOUS
<1>1. CASE UNCHANGED ppfVars
  <2>1. UNCHANGED <<ring, top, weights, rebound>>
    BY <1>1 DEF ppfVars
  <2>2. UNCHANGED Wrapped
    BY <2>1 DEF Wrapped
  <2>3. UNCHANGED Latest
    BY <2>1, <2>2 DEF Latest, EntryOf
  <2>4. RingOrder'
    BY <2>1, <2>2 DEF RingOrder
  <2> QED
    BY <2>1, <2>3, <2>4 DEF Window!windowVars
<1>2. cached' \subseteq Lines /\ UNCHANGED rebound
  BY DEF FilterStep
<1>3. ASSUME NEW line \in Lines, NEW key \in Keys, Entered(line, key)
      PROVE  Window!Next /\ RingOrder'
  <2>1. Window!Predict(line, key)
    BY <1>2, <1>3, EnteredIsPredict
  <2>2. RingOrder'
    BY <1>3, EnteredOrder
  <2> QED
    BY <2>1, <2>2 DEF Window!Next
<1>4. ASSUME NEW line \in Lines, NEW rewarded \in BOOLEAN, RetrainEntries(OfLine(line), rewarded)
      PROVE  Window!Next /\ RingOrder'
  <2>1. Window!Outcome(line, rewarded)
    BY <1>2, <1>4, RetrainIsOutcome DEF OfLine
  <2>2. RingOrder'
    BY <1>4, RetrainOrder
  <2> QED
    BY <2>1, <2>2 DEF Window!Next
<1> QED
  BY <1>1, <1>3, <1>4 DEF FilterStep

(***************************************************************************)
(* The ring, with its pointer, its index and its valid bits, implements    *)
(* the window of the latest predictions, for any number of entries: every  *)
(* prediction is trained once, with the first outcome of its line, or as   *)
(* useless when RingSize younger ones have pushed it out.                  *)
(***************************************************************************)
THEOREM RingImplementsWindow == Spec => ImplementsWindow
<1>1. Init => Window!Init /\ RingOrder
  BY InitIInv, InitWeights, InitIsWindow DEF Init
<1>2. IInv /\ TypeOK /\ RingOrder /\ [Next]_ppfVars
        => [Window!Next]_(Window!windowVars) /\ RingOrder'
  BY NextIsStep, StepIsWindow DEF TypeOK
<1> QED
  BY <1>1, <1>2, Invariance, WeightsStayInRange, PTL DEF Spec, ImplementsWindow, Window!Spec

(***************************************************************************)
(* So does the ring under the prefetchers that walk ahead of an access,    *)
(* where only hits are outcomes and no line is seen to leave the cache.    *)
(***************************************************************************)
THEOREM AheadImplementsWindow == AheadSpec => ImplementsWindow
<1>1. AheadInit => Window!Init /\ RingOrder
  <2>1. AheadInit => IInv /\ RingInit /\ weights \in Weights
    BY AheadInitially DEF AheadIInv, AheadInit, Weights
  <2> QED
    BY <2>1, InitIsWindow
<1>2. AheadIInv /\ TypeOK /\ RingOrder /\ [AheadNext]_<<ppfVars, aheadVars>>
        => [Window!Next]_(Window!windowVars) /\ RingOrder'
  BY AheadIsStep, StepIsWindow DEF AheadIInv, TypeOK
<1> QED
  BY <1>1, <1>2, AheadWeightsStayInRange, PTL DEF AheadSpec, ImplementsWindow, Window!Spec
-----------------------------------------------------------------------------
(***************************************************************************)
(* What a tracker holds of an instruction is what history holds of it, in  *)
(* one tracker of its window and in no other.                              *)
(***************************************************************************)
TrackersOK ==
  /\ kind \in Kinds /\ virtual \in BOOLEAN
  /\ trackers \in [Trackers -> [ip : Nat, line : Nat, stride : Int]]
  /\ lastUsed \in [Trackers -> Trackers]
  /\ history \in [Ips -> [line : Nat \union {Unseen}, stride : Int]]

TrackerTells(t) ==
  LET ip == trackers[t].ip
  IN  /\ ip \in Ips /\ t \in TrackersOf(ip)
      /\ history[ip].line = trackers[t].line
      /\ trackers[t].stride # 0 => history[ip].stride = trackers[t].stride
      /\ \A u \in Trackers : trackers[u].ip = ip => u = t

TrackersTell == \A t \in Trackers : trackers[t].ip # 0 => TrackerTells(t)

(* Where the lookahead stands: at the last step it has taken.              *)
LookOK ==
  /\ look \in [address : Int, stride : Int, degree : 0 .. Degree]
  /\ burst \in [addr : Int, start : Int, step : Int, taken : Seq(Int), repeated : BOOLEAN]
  /\ look.degree > 0 =>
       /\ look.address = burst.start + Len(burst.taken) * burst.step
       /\ Step(look.stride) = burst.step
       /\ virtual \/ PageOf(look.address) = PageOf(burst.start)

StrideIInv == TrackersOK /\ TrackersTell /\ LookOK /\ EachStepOnce /\ StrideWasRepeated

-----------------------------------------------------------------------------
LEMMA StrideNumbers ==
  /\ BlockSize \in Nat /\ BlockSize > 0 /\ PageSize \in Nat /\ PageSize > 0
  /\ Degree \in Nat /\ TrackerSets \in Nat /\ TrackerSets > 0
  /\ TrackerWays \in Nat /\ TrackerWays > 0
  /\ \A addr \in Addrs : addr \in Nat /\ LineOf(addr) \in Nat
  /\ \A ip \in Ips : ip \in Nat /\ ip # 0
<1>1. /\ BlockSize \in Nat /\ BlockSize > 0 /\ PageSize \in Nat /\ PageSize > 0
      /\ Degree \in Nat /\ TrackerSets \in Nat /\ TrackerSets > 0
      /\ TrackerWays \in Nat /\ TrackerWays > 0
  BY StrideAssumption
<1>2. \A visit \in Accesses : visit[1] \in Nat /\ visit[2] \in Nat /\ visit[2] # 0
  BY StrideAssumption
<1>3. \A addr \in Addrs : addr \in Nat
  BY <1>2 DEF Addrs
<1>4. \A ip \in Ips : ip \in Nat /\ ip # 0
  BY <1>2 DEF Ips
<1>5. \A addr \in Addrs : LineOf(addr) \in Nat
  BY <1>1, <1>3 DEF LineOf
<1> QED
  BY <1>1, <1>3, <1>4, <1>5

(* The windows of the instructions lie inside the table.                   *)
LEMMA WindowsInTable ==
  ASSUME NEW ip \in Nat
  PROVE  /\ TrackersOf(ip) \in SUBSET Trackers /\ TrackersOf(ip) # {}
         /\ Trackers \in SUBSET Nat
<1>1. TrackerSets \in Nat /\ TrackerSets > 0 /\ TrackerWays \in Nat /\ TrackerWays > 0
  BY StrideNumbers
<1> DEFINE set == ip % TrackerSets
<1>2. set \in Nat /\ set <= TrackerSets - 1
  BY <1>1
<1> HIDE DEF set
<1>3. TrackerSets * TrackerWays \in Nat /\ TrackerSets + TrackerWays - 1 <= TrackerSets * TrackerWays
  <2> DEFINE a == TrackerSets - 1
             b == TrackerWays - 1
  <2>1. a \in Nat /\ b \in Nat
    BY <1>1
  <2>2. a * b \in Nat
    BY <2>1
  <2>3. TrackerSets * TrackerWays = a * b + a + b + 1
    BY <1>1
  <2> QED
    BY <1>1, <2>1, <2>2, <2>3
<1> DEFINE size == TrackerSets * TrackerWays
<1>4. ASSUME NEW way \in 0 .. TrackerWays - 1
      PROVE  set + way \in 0 .. size - 1
  <2> HIDE DEF size
  <2>1. size \in Nat /\ TrackerSets + TrackerWays - 1 <= size
    BY <1>3 DEF size
  <2>2. way \in Nat /\ way <= TrackerWays - 1
    BY <1>1
  <2> QED
    BY <1>1, <1>2, <2>1, <2>2
<1>5. TrackersOf(ip) = {set + way : way \in 0 .. TrackerWays - 1}
  BY DEF TrackersOf, set
<1>6. 0 \in 0 .. TrackerWays - 1
  BY <1>1
<1>7. Trackers = 0 .. size - 1 /\ size \in Nat
  BY <1>3 DEF Trackers
<1> HIDE DEF size
<1> QED
  BY <1>4, <1>5, <1>6, <1>7

LEMMA StrideInitially == StrideInit => StrideIInv
<1> SUFFICES ASSUME StrideInit PROVE StrideIInv
  OBVIOUS
<1>1. 0 \in Trackers
  <2>1. TrackersOf(0) # {} /\ TrackersOf(0) \in SUBSET Trackers
    BY WindowsInTable
  <2>2. TrackerSets * TrackerWays \in Nat
    BY StrideNumbers
  <2> DEFINE size == TrackerSets * TrackerWays
  <2>3. Trackers = 0 .. size - 1 /\ size \in Nat
    BY <2>2 DEF Trackers
  <2> HIDE DEF size
  <2> QED
    BY <2>1, <2>3
<1>2. TrackersOK
  BY <1>1 DEF StrideInit, TrackersOK, Unseen
<1>3. TrackersTell
  BY DEF StrideInit, TrackersTell
<1>4. LookOK /\ EachStepOnce /\ StrideWasRepeated
  BY StrideNumbers DEF StrideInit, LookOK, EachStepOnce, StrideWasRepeated, NoLookahead
<1> QED
  BY <1>2, <1>3, <1>4 DEF StrideIInv

LEMMA Appending ==
  ASSUME NEW s \in Seq(Int), NEW x \in Int
  PROVE  /\ Len(Append(s, x)) = Len(s) + 1 /\ Append(s, x)[Len(s) + 1] = x
         /\ DOMAIN Append(s, x) = 1 .. Len(s) + 1
         /\ \A k \in 1 .. Len(s) : Append(s, x)[k] = s[k]
OBVIOUS

(* A step, taken or refused.                                               *)
LEMMA CycleKeeps ==
  ASSUME StrideIInv, CycleOperate
  PROVE  StrideIInv'
<1> DEFINE next == look.address + Step(look.stride)
           n == Len(burst.taken)
<1>1. /\ look.degree > 0 /\ UNCHANGED <<kind, virtual, trackers, lastUsed, history>>
      /\ IF virtual \/ PageOf(next) = PageOf(look.address)
         THEN Request(next) ELSE look' = NoLookahead /\ UNCHANGED burst
  BY DEF CycleOperate, Active
<1>2. TrackersOK' /\ TrackersTell'
  BY <1>1 DEF StrideIInv, TrackersOK, TrackersTell, TrackerTells
<1>3. /\ look.address \in Int /\ look.degree \in 1 .. Degree /\ look.stride \in Int
      /\ burst.start \in Int /\ burst.step \in Int /\ burst.taken \in Seq(Int)
      /\ look.address = burst.start + n * burst.step
      /\ Step(look.stride) = burst.step /\ n \in Nat
      /\ virtual \/ PageOf(look.address) = PageOf(burst.start)
      /\ n + look.degree = Degree /\ Degree \in Nat
      /\ look.degree - 1 \in 0 .. Degree
  <2>1. /\ look \in [address : Int, stride : Int, degree : 0 .. Degree] /\ Degree \in Nat
        /\ burst \in [addr : Int, start : Int, step : Int, taken : Seq(Int), repeated : BOOLEAN]
    BY StrideNumbers DEF StrideIInv, LookOK
  <2>2. /\ look.address = burst.start + n * burst.step
        /\ Step(look.stride) = burst.step
        /\ virtual \/ PageOf(look.address) = PageOf(burst.start)
        /\ n + look.degree = Degree
    BY <1>1 DEF StrideIInv, LookOK, EachStepOnce
  <2>3. /\ look.address \in Int /\ look.degree \in 1 .. Degree /\ look.stride \in Int
        /\ look.degree - 1 \in 0 .. Degree
    BY <1>1, <2>1
  <2>4. burst.start \in Int /\ burst.step \in Int /\ burst.taken \in Seq(Int) /\ n \in Nat
    BY <2>1
  <2> QED
    BY <2>1, <2>2, <2>3, <2>4
<1>4. CASE look' = NoLookahead /\ UNCHANGED burst
  <2>1. LookOK'
    BY <1>1, <1>4, StrideNumbers DEF StrideIInv, LookOK, NoLookahead
  <2>2. EachStepOnce' /\ StrideWasRepeated'
    BY <1>1, <1>3, <1>4 DEF StrideIInv, EachStepOnce, StrideWasRepeated, NoLookahead
  <2> QED
    BY <1>2, <2>1, <2>2 DEF StrideIInv
<1>5. CASE UNCHANGED <<look, burst>>
  BY <1>1, <1>2, <1>5 DEF StrideIInv, LookOK, EachStepOnce, StrideWasRepeated, Step
<1>6. CASE /\ look' = [address |-> next, stride |-> look.stride, degree |-> look.degree - 1]
           /\ burst' = [burst EXCEPT !.taken = Append(@, next)]
           /\ virtual \/ PageOf(next) = PageOf(look.address)
  <2>1. next \in Int /\ next = burst.start + (n + 1) * burst.step
    <3>1. ASSUME NEW a \in Int, NEW b \in Int, NEW k \in Nat
          PROVE  a + k * b + b \in Int /\ a + k * b + b = a + (k + 1) * b
      OBVIOUS
    <3>2. next = burst.start + n * burst.step + burst.step
      BY <1>3
    <3> HIDE DEF next, n
    <3> QED
      BY <1>3, <3>1, <3>2
  <2> HIDE DEF next
  <2>2. /\ look'.address = next /\ look'.stride = look.stride /\ look'.degree = look.degree - 1
        /\ look' \in [address : Int, stride : Int, degree : 0 .. Degree]
    BY <1>3, <1>6, <2>1
  <2>3. /\ burst' \in [addr : Int, start : Int, step : Int, taken : Seq(Int), repeated : BOOLEAN]
        /\ burst'.start = burst.start /\ burst'.step = burst.step
        /\ burst'.taken = Append(burst.taken, next) /\ burst'.repeated = burst.repeated
    <3>1. Append(burst.taken, next) \in Seq(Int)
      BY <1>3, <2>1
    <3> QED
      BY <1>6, <3>1 DEF StrideIInv, LookOK
  <2>4. /\ Len(burst'.taken) = n + 1 /\ burst'.taken[n + 1] = next
        /\ DOMAIN burst'.taken = 1 .. n + 1
        /\ \A k \in 1 .. n : burst'.taken[k] = burst.taken[k]
    <3>1. burst.taken \in Seq(Int) /\ next \in Int
      BY <1>3, <2>1
    <3> DEFINE taken == Append(burst.taken, next)
    <3>2. /\ Len(taken) = n + 1 /\ taken[n + 1] = next
          /\ DOMAIN taken = 1 .. n + 1 /\ \A k \in 1 .. n : taken[k] = burst.taken[k]
      BY <3>1, Appending, Zenon
    <3>3. burst'.taken = taken
      BY <2>3
    <3> HIDE DEF taken, n
    <3> QED
      BY <3>2, <3>3, Zenon
  <2>5. virtual \/ PageOf(next) = PageOf(burst.start)
    BY <1>3, <1>6
  <2>6. LookOK'
    <3>1. Step(look.stride)' = Step(look.stride)
      BY <1>1, <2>2 DEF Step
    <3>2. look'.address = burst'.start + Len(burst'.taken) * burst'.step
      BY <2>1, <2>2, <2>3, <2>4
    <3>3. Step(look.stride)' = burst'.step
      BY <1>3, <2>3, <3>1
    <3>4. virtual' \/ PageOf(look.address)' = PageOf(burst.start)'
      BY <1>1, <2>2, <2>3, <2>5 DEF PageOf
    <3> QED
      BY <2>2, <2>3, <3>2, <3>3, <3>4 DEF LookOK
  <2>7. EachStepOnce'
    <3>1. Len(burst'.taken) + look'.degree = Degree
      <4> HIDE DEF n
      <4>1. n \in Int /\ look.degree \in Int /\ Degree \in Int /\ n + look.degree = Degree
        BY <1>3
      <4>2. (n + 1) + (look.degree - 1) = Degree
        BY <4>1
      <4> QED
        BY <2>2, <2>4, <4>2
    <3>2. ASSUME NEW k \in DOMAIN burst'.taken
          PROVE  /\ burst'.taken[k] = burst'.start + k * burst'.step
                 /\ virtual' \/ PageOf(burst'.taken[k]) = PageOf(burst'.start)
      <4>1. k = n + 1 \/ k \in 1 .. n
        BY <1>3, <2>4
      <4>2. CASE k = n + 1
        BY <1>1, <2>1, <2>3, <2>4, <2>5, <4>2 DEF PageOf
      <4>3. CASE k \in 1 .. n
        <5>1. k \in DOMAIN burst.taken
          BY <1>3, <4>3
        <5>2. /\ burst.taken[k] = burst.start + k * burst.step
              /\ virtual \/ PageOf(burst.taken[k]) = PageOf(burst.start)
          BY <5>1 DEF StrideIInv, EachStepOnce
        <5> QED
          BY <1>1, <2>3, <2>4, <4>3, <5>2
      <4> QED
        BY <4>1, <4>2, <4>3
    <3>3. Degree \in Nat
      BY StrideNumbers
    <3> QED
      BY <3>1, <3>2, <3>3 DEF EachStepOnce, PageOf
  <2>8. StrideWasRepeated'
    BY <2>3 DEF StrideIInv, StrideWasRepeated
  <2> QED
    BY <1>2, <2>6, <2>7, <2>8 DEF StrideIInv
<1> QED
  BY <1>1, <1>4, <1>5, <1>6 DEF Request

(* The trackers are a finite set.                                          *)
LEMMA TrackersFinite ==
  /\ TrackerSets * TrackerWays \in Nat
  /\ Trackers = 0 .. TrackerSets * TrackerWays - 1
  /\ IsFiniteSet(Trackers) /\ Cardinality(Trackers) = TrackerSets * TrackerWays
<1>1. TrackerSets * TrackerWays \in Nat
  BY StrideNumbers
<1> DEFINE size == TrackerSets * TrackerWays
<1>2. Trackers = 0 .. size - 1
  BY DEF Trackers
<1> HIDE DEF size
<1>3. size \in Nat
  BY <1>1 DEF size
<1>4. IsFiniteSet(0 .. size - 1)
      /\ Cardinality(0 .. size - 1) = IF 0 > size - 1 THEN 0 ELSE size - 1 - 0 + 1
  <2>1. 0 \in Int /\ size - 1 \in Int
    BY <1>3
  <2> QED
    BY <2>1, FS_Interval
<1>5. IsFiniteSet(Trackers) /\ Cardinality(Trackers) = size
  BY <1>2, <1>3, <1>4
<1> QED
  BY <1>1, <1>2, <1>5 DEF size

(* The rank of a tracker is below their number.                            *)
LEMMA RanksFit ==
  ASSUME NEW stamps \in [Trackers -> Nat]
  PROVE  Ranked(stamps) \in [Trackers -> Trackers]
<1> DEFINE cycles == {stamps[u] : u \in Trackers}
<1>1. ASSUME NEW t \in Trackers
      PROVE  Cardinality(cycles \cap 0 .. stamps[t] - 1) \in Trackers
  <2> DEFINE below == cycles \cap 0 .. stamps[t] - 1
             size == TrackerSets * TrackerWays
  <2>1. IsFiniteSet(cycles) /\ Cardinality(cycles) <= Cardinality(Trackers)
    <3>1. stamps \in Surjection(Trackers, cycles)
      BY DEF Surjection
    <3> QED
      BY <3>1, TrackersFinite, FS_Surjection
  <2>2. stamps[t] \in cycles /\ stamps[t] \notin below /\ below \subseteq cycles
    BY <1>1
  <2> HIDE DEF cycles, below
  <2>3. below \subseteq cycles \ {stamps[t]}
    BY <2>2
  <2>4. IsFiniteSet(cycles \ {stamps[t]})
        /\ Cardinality(cycles \ {stamps[t]}) = Cardinality(cycles) - 1
    BY <2>1, <2>2, FS_RemoveElement
  <2>5. IsFiniteSet(below) /\ Cardinality(below) <= Cardinality(cycles \ {stamps[t]})
    BY <2>3, <2>4, FS_Subset
  <2>6. /\ Cardinality(below) \in Nat /\ Cardinality(cycles) \in Nat
        /\ Cardinality(Trackers) \in Nat
    BY <2>1, <2>5, FS_CardinalityType, TrackersFinite
  <2>7. Cardinality(below) \in Nat /\ Cardinality(below) < Cardinality(Trackers)
    BY <2>1, <2>4, <2>5, <2>6
  <2>8. Trackers = 0 .. size - 1 /\ Cardinality(Trackers) = size /\ size \in Nat
    BY TrackersFinite
  <2> HIDE DEF size
  <2>9. Cardinality(below) \in Trackers
    BY <2>7, <2>8
  <2> QED
    BY <2>9 DEF below
<1> QED
  BY <1>1 DEF Ranked

LEMMA UseKeeps ==
  ASSUME lastUsed \in [Trackers -> Trackers], NEW t \in Trackers, Use(t)
  PROVE  lastUsed' \in [Trackers -> Trackers]
<1> DEFINE size == TrackerSets * TrackerWays
           ranks == {lastUsed[u] : u \in Trackers}
<1>1. size \in Nat /\ Trackers = 0 .. size - 1
  BY TrackersFinite
<1> HIDE DEF size
<1>2. Trackers \in SUBSET (0 .. size - 1) /\ Trackers # {} /\ Trackers \subseteq Nat
  BY <1>1
<1>3. lastUsed \in [Trackers -> Nat]
  BY <1>2
<1>4. \E u \in Trackers : \A v \in Trackers : lastUsed[v] <= lastUsed[u]
  BY <1>1, <1>2, <1>3, GreatestExists, Zenon
<1>5. Max(ranks) \in Nat
  <2>1. PICK m \in ranks : \A y \in ranks : m >= y
    BY <1>3, <1>4
  <2>2. Max(ranks) \in ranks
    <3> HIDE DEF ranks
    <3> QED
      BY <2>1 DEF Max
  <2>3. ranks \subseteq Nat
    BY <1>3
  <2> QED
    BY <2>2, <2>3
<1>6. PICK cycle \in {Max(ranks) + k : k \in 0 .. 1} :
        lastUsed' = Ranked([lastUsed EXCEPT ![t] = cycle])
  BY DEF Use
<1> HIDE DEF ranks
<1>7. cycle \in Nat
  BY <1>5
<1>8. [lastUsed EXCEPT ![t] = cycle] \in [Trackers -> Nat]
  BY <1>3, <1>7
<1> QED
  BY <1>6, <1>8, RanksFit

(* A new lookahead has taken no step.                                      *)
LEMMA StartKeeps ==
  ASSUME StrideIInv, NEW addr \in Int, NEW address \in Int, NEW stride \in Int,
         NEW repeated, repeated = TRUE, Start(addr, address, stride, repeated),
         UNCHANGED <<kind, virtual>>
  PROVE  LookOK' /\ EachStepOnce' /\ StrideWasRepeated'
<1>1. BlockSize \in Int /\ Degree \in Nat
  BY StrideNumbers
<1>2. Step(stride) \in Int /\ Step(stride)' = Step(stride)
  <2>1. Step(stride) = IF kind = "ip_stride" THEN stride * BlockSize
                       ELSE IF kind = "next_line_degree" THEN BlockSize ELSE stride
    BY DEF Step
  <2>2. Step(stride)' = Step(stride)
    BY DEF Step
  <2>3. stride * BlockSize \in Int
    BY <1>1
  <2> QED
    BY <1>1, <2>1, <2>2, <2>3
<1>3. /\ look'.address = address /\ look'.stride = stride /\ look'.degree = Degree
      /\ look' \in [address : Int, stride : Int, degree : 0 .. Degree]
  <2>1. Degree \in 0 .. Degree
    BY <1>1
  <2> QED
    BY <2>1 DEF Start
<1>4. /\ burst'.start = address /\ burst'.step = Step(stride) /\ burst'.taken = <<>>
      /\ burst'.repeated = TRUE
      /\ burst' \in [addr : Int, start : Int, step : Int, taken : Seq(Int), repeated : BOOLEAN]
  BY <1>2 DEF Start
<1>5. Len(burst'.taken) = 0 /\ DOMAIN burst'.taken = {}
  BY <1>4
<1>6. look'.address = burst'.start + Len(burst'.taken) * burst'.step
  <2>1. address = address + 0 * Step(stride)
    BY <1>2
  <2> QED
    BY <1>3, <1>4, <1>5, <2>1
<1>7. LookOK'
  <2>1. Step(look.stride)' = burst'.step /\ PageOf(look.address)' = PageOf(burst.start)'
    BY <1>2, <1>3, <1>4 DEF Step, PageOf
  <2> QED
    BY <1>3, <1>4, <1>6, <2>1 DEF LookOK
<1>8. EachStepOnce'
  BY <1>1, <1>3, <1>4, <1>5 DEF EachStepOnce
<1>9. StrideWasRepeated'
  BY <1>4 DEF StrideWasRepeated
<1> QED
  BY <1>7, <1>8, <1>9

(* The tracker that an access uses is in the window of its instruction.    *)
LEMMA TrackerOfAccess ==
  ASSUME TrackersOK, NEW ip \in Ips
  PROVE  /\ Found(ip) # {} => Min(Found(ip)) \in Found(ip)
         /\ LeastRecent(ip) # {} /\ Min(LeastRecent(ip)) \in TrackersOf(ip)
         /\ TrackersOf(ip) \subseteq Trackers
<1>1. TrackersOf(ip) \in SUBSET Trackers /\ TrackersOf(ip) # {} /\ Trackers \in SUBSET Nat
  BY StrideNumbers, WindowsInTable
<1>2. Found(ip) \in SUBSET Nat /\ LeastRecent(ip) \in SUBSET Nat
  BY <1>1 DEF Found, LeastRecent
<1> DEFINE f == [t \in TrackersOf(ip) |-> lastUsed[t]]
<1>3. f \in [TrackersOf(ip) -> Nat]
  BY <1>1 DEF TrackersOK
<1>4. PICK t \in TrackersOf(ip) : \A u \in TrackersOf(ip) : f[t] <= f[u]
  <2> HIDE DEF f
  <2> QED
    BY <1>1, <1>3, LeastExists
<1>5. LeastRecent(ip) # {}
  BY <1>4 DEF LeastRecent
<1>6. Min(LeastRecent(ip)) \in LeastRecent(ip)
  BY <1>2, <1>5, MinIsMember
<1>7. Found(ip) # {} => Min(Found(ip)) \in Found(ip)
  BY <1>2, MinIsMember
<1> QED
  BY <1>1, <1>5, <1>6, <1>7 DEF LeastRecent

(***************************************************************************)
(* An access of an instruction: the tracker it uses tells what history     *)
(* does, and a lookahead starts only along the stride of both.             *)
(***************************************************************************)
LEMMA StrideAccessKeeps ==
  ASSUME StrideIInv, NEW addr \in Addrs, NEW ip \in Ips, StrideAccess(addr, ip)
  PROVE  StrideIInv'
<1> DEFINE line == LineOf(addr)
           known == Found(ip) # {}
           t == IF known THEN Min(Found(ip)) ELSE Min(LeastRecent(ip))
           stride == IF known THEN line - trackers[t].line ELSE 0
           moved == IF history[ip].line = Unseen THEN 0 ELSE line - history[ip].line
           repeated == moved = stride /\ history[ip].stride = stride
           starts == known /\ stride # 0 /\ stride = trackers[t].stride
<1>1. /\ IF starts THEN Start(addr, line, stride, repeated) ELSE UNCHANGED <<look, burst>>
      /\ trackers' = [trackers EXCEPT ![t] = [ip |-> ip, line |-> line, stride |-> stride]]
      /\ Use(t)
      /\ history' = [history EXCEPT ![ip] = [line |-> line, stride |-> moved]]
      /\ UNCHANGED <<kind, virtual>>
  BY Zenon DEF StrideAccess
<1>2. TrackersOK /\ TrackersTell
  BY DEF StrideIInv
<1>3. line \in Nat /\ addr \in Int /\ ip \in Nat /\ ip # 0
  BY StrideNumbers
<1>4. t \in Trackers /\ t \in TrackersOf(ip) /\ (known => trackers[t].ip = ip)
  BY <1>2, TrackerOfAccess DEF Found
<1>5. /\ trackers[t] \in [ip : Nat, line : Nat, stride : Int]
      /\ history[ip] \in [line : Nat \union {Unseen}, stride : Int]
  BY <1>2, <1>4 DEF TrackersOK
<1>6. known => /\ history[ip].line = trackers[t].line
               /\ trackers[t].stride # 0 => history[ip].stride = trackers[t].stride
  BY <1>2, <1>3, <1>4 DEF TrackersTell, TrackerTells
<1> HIDE DEF t, line, known
<1>7. stride \in Int /\ moved \in Int
  BY <1>3, <1>5 DEF Unseen
<1>8. known => moved = stride
  BY <1>3, <1>5, <1>6 DEF Unseen
<1>9. ~known => stride = 0
  OBVIOUS
<1>10. starts => repeated = TRUE
  BY <1>6, <1>8
<1> HIDE DEF stride, moved
<1>11. LookOK' /\ EachStepOnce' /\ StrideWasRepeated'
  <2>1. CASE starts
    <3> HIDE DEF repeated
    <3>1. Start(addr, line, stride, repeated)
      BY <1>1, <2>1
    <3>2. line \in Int /\ repeated = TRUE
      BY <1>3, <1>10, <2>1
    <3> QED
      BY <1>1, <1>3, <1>7, <3>1, <3>2, StartKeeps
  <2>2. CASE ~starts
    BY <1>1, <2>2 DEF StrideIInv, LookOK, EachStepOnce, StrideWasRepeated, Step, PageOf
  <2> QED
    BY <2>1, <2>2
<1> HIDE DEF starts, repeated
<1>12. TrackersOK'
  <2>1. lastUsed' \in [Trackers -> Trackers]
    BY <1>1, <1>2, <1>4, UseKeeps DEF TrackersOK
  <2>2. trackers' \in [Trackers -> [ip : Nat, line : Nat, stride : Int]]
    BY <1>1, <1>2, <1>3, <1>7 DEF TrackersOK
  <2>3. history' \in [Ips -> [line : Nat \union {Unseen}, stride : Int]]
    BY <1>1, <1>2, <1>3, <1>7 DEF TrackersOK
  <2> QED
    BY <1>1, <1>2, <2>1, <2>2, <2>3 DEF TrackersOK
<1>13. /\ trackers'[t].ip = ip /\ trackers'[t].line = line /\ trackers'[t].stride = stride
       /\ history'[ip].line = line /\ history'[ip].stride = moved
       /\ \A u \in Trackers : u # t => trackers'[u] = trackers[u]
       /\ \A other \in Ips : other # ip => history'[other] = history[other]
  BY <1>1, <1>2, <1>4 DEF TrackersOK
(* No other tracker holds the instruction.                                 *)
<1>14. ASSUME NEW u \in Trackers, trackers[u].ip = ip, u # t
       PROVE  FALSE
  <2>1. TrackerTells(u)
    BY <1>2, <1>3, <1>14 DEF TrackersTell
  <2>2. u \in TrackersOf(ip)
    BY <1>14, <2>1 DEF TrackerTells
  <2>3. known
    BY <1>14, <2>2 DEF Found, known
  <2>4. trackers[t].ip = ip
    BY <1>4, <2>3
  <2> QED
    BY <1>4, <1>14, <2>1, <2>4 DEF TrackerTells
<1>15. TrackersTell'
  <2> SUFFICES ASSUME NEW v \in Trackers, trackers'[v].ip # 0
               PROVE  TrackerTells(v)'
    BY DEF TrackersTell
  <2>1. CASE v = t
    <3>1. \A u \in Trackers : trackers'[u].ip = ip => u = t
      BY <1>13, <1>14
    <3>2. stride # 0 => moved = stride
      BY <1>8, <1>9
    <3> QED
      BY <1>4, <1>13, <2>1, <3>1, <3>2 DEF TrackerTells, TrackersOf
  <2>2. CASE v # t
    <3>1. trackers'[v] = trackers[v] /\ trackers[v].ip # 0
      BY <1>13, <2>2
    <3>2. TrackerTells(v) /\ trackers[v].ip # ip
      BY <1>2, <1>14, <2>2, <3>1 DEF TrackersTell
    <3>3. trackers[v].ip \in Ips /\ history'[trackers[v].ip] = history[trackers[v].ip]
      BY <1>13, <3>2 DEF TrackerTells
    <3>4. \A u \in Trackers : trackers'[u].ip = trackers[v].ip => u = v
      BY <1>13, <3>2 DEF TrackerTells
    <3> QED
      BY <3>1, <3>2, <3>3, <3>4 DEF TrackerTells, TrackersOf
  <2> QED
    BY <2>1, <2>2
<1> QED
  BY <1>11, <1>12, <1>15 DEF StrideIInv

LEMMA StrideKeeps == StrideIInv /\ [StrideNext]_strideVars => StrideIInv'
<1> SUFFICES ASSUME StrideIInv, [StrideNext]_strideVars PROVE StrideIInv'
  OBVIOUS
<1>1. CASE UNCHANGED strideVars
  BY <1>1 DEF StrideIInv, TrackersOK, TrackersTell, TrackerTells, LookOK, EachStepOnce,
              StrideWasRepeated, Step, PageOf, TrackersOf, strideVars
<1>2. CASE CycleOperate
  BY <1>2, CycleKeeps
<1>3. ASSUME NEW visit \in Accesses, StrideAccess(visit[1], visit[2])
      PROVE  StrideIInv'
  <2>1. visit[1] \in Addrs /\ visit[2] \in Ips
    BY DEF Addrs, Ips
  <2> QED
    BY <1>3, <2>1, StrideAccessKeeps
<1>4. ASSUME NEW addr \in Addrs, NextLineAccess(addr)
      PROVE  StrideIInv'
  <2>1. /\ UNCHANGED <<kind, virtual, trackers, lastUsed, history>>
        /\ Start(addr, addr, 0, TRUE) \/ Start(addr, LineOf(addr), 1, TRUE)
    BY <1>4 DEF NextLineAccess
  <2>2. addr \in Int /\ LineOf(addr) \in Int /\ 0 \in Int /\ 1 \in Int
    BY StrideNumbers
  <2>3. LookOK' /\ EachStepOnce' /\ StrideWasRepeated'
    <3>1. CASE Start(addr, addr, 0, TRUE)
      BY <2>1, <2>2, <3>1, StartKeeps
    <3>2. CASE Start(addr, LineOf(addr), 1, TRUE)
      BY <2>1, <2>2, <3>2, StartKeeps
    <3> QED
      BY <2>1, <3>1, <3>2
  <2>4. TrackersOK' /\ TrackersTell'
    BY <2>1 DEF StrideIInv, TrackersOK, TrackersTell, TrackerTells, TrackersOf
  <2> QED
    BY <2>3, <2>4 DEF StrideIInv
<1> QED
  BY <1>1, <1>2, <1>3, <1>4 DEF StrideNext

(* The inductive invariant of the stride prefetchers holds always.         *)
THEOREM StrideInvariance == StrideSpec => []StrideIInv
  BY StrideInitially, StrideKeeps, PTL DEF StrideSpec

(***************************************************************************)
(* A lookahead takes each of its steps once and in order, on the page it   *)
(* started in, for any accesses, any degree and any refusals.              *)
(***************************************************************************)
THEOREM StepsTakenOnce == StrideSpec => []EachStepOnce
<1>1. StrideIInv => EachStepOnce
  BY DEF StrideIInv
<1> QED
  BY <1>1, StrideInvariance, PTL

(***************************************************************************)
(* A stride is followed only when its instruction has moved by it twice in *)
(* a row, however the windows of the trackers overlap and evict.           *)
(***************************************************************************)
THEOREM OnlyRepeatedStrides == StrideSpec => []StrideWasRepeated
<1>1. StrideIInv => StrideWasRepeated
  BY DEF StrideIInv
<1> QED
  BY <1>1, StrideInvariance, PTL
-----------------------------------------------------------------------------
(***************************************************************************)
(* VA AMPM.  A region keeps its marks when it changes its page only if it  *)
(* is cleared, and the memory of the last search must never name a region  *)
(* that was taken from the page in memory: it cannot, since a region is    *)
(* only taken right after a search that found none.                        *)
(***************************************************************************)
Offsets == 0 .. AmpmPageBlocks - 1

AmpmRecord ==
  [regions : [Regions -> [vpn : Int, accessed : SUBSET Offsets,
                          prefetched : SUBSET Offsets, rank : Regions]],
   vpn : Int, index : Regions \union {NoRegion}]

(* Every rank of the allocation order is that of one region.               *)
RanksDiffer(s) ==
  /\ {s.regions[r].rank : r \in Regions} = Regions
  /\ \A r, q \in Regions : s.regions[r].rank = s.regions[q].rank => r = q

(* The region in memory is still that of the page in memory.               *)
Remembered(s) == s.index # NoRegion => s.regions[s.index].vpn = s.vpn

RealMarks(s, lines) ==
  \A r \in Regions : \A offset \in s.regions[r].accessed :
    s.regions[r].vpn * AmpmPageBlocks + offset \in lines

Sound(lines) == {s \in AmpmRecord : RanksDiffer(s) /\ Remembered(s) /\ RealMarks(s, lines)}

AmpmIInv == touched \subseteq AmpmLines /\ ampm \in Sound(touched)

(* A search changes no region, and finds a region of the page or none.     *)
LEMMA SearchSound ==
  ASSUME NEW lines, NEW s \in Sound(lines), NEW vpn \in Int
  PROVE  /\ Searched(s, vpn) \in Sound(lines)
         /\ Searched(s, vpn).index = Result(s, vpn)
         /\ Searched(s, vpn).vpn = vpn
         /\ Searched(s, vpn).regions = s.regions
         /\ Result(s, vpn) \in Regions \union {NoRegion}
         /\ Result(s, vpn) # NoRegion => s.regions[Result(s, vpn)].vpn = vpn
<1> USE VaAmpmAssumption
<1>1. s \in AmpmRecord /\ RanksDiffer(s) /\ Remembered(s) /\ RealMarks(s, lines)
  BY DEF Sound
<1>2. Tracking(s, vpn) \in SUBSET Nat /\ Tracking(s, vpn) \subseteq Regions
  BY DEF Tracking, Regions
<1>3. Tracking(s, vpn) # {} => Min(Tracking(s, vpn)) \in Tracking(s, vpn)
  BY <1>2, MinIsMember
<1>4. Result(s, vpn) \in Regions \union {NoRegion}
  BY <1>1, <1>2, <1>3 DEF Result, AmpmRecord
<1>5. Result(s, vpn) # NoRegion => s.regions[Result(s, vpn)].vpn = vpn
  BY <1>1, <1>3 DEF Result, Remembered, Tracking
<1> HIDE DEF Regions
<1>6. /\ Searched(s, vpn).index = Result(s, vpn)
      /\ Searched(s, vpn).vpn = vpn
      /\ Searched(s, vpn).regions = s.regions
      /\ Searched(s, vpn) \in AmpmRecord
  BY <1>1, <1>4 DEF Searched, AmpmRecord
<1>7. Searched(s, vpn) \in Sound(lines)
  BY <1>1, <1>5, <1>6 DEF Sound, RanksDiffer, Remembered, RealMarks
<1> QED
  BY <1>4, <1>5, <1>6, <1>7

(* After a search that failed the oldest region can be taken: nothing in   *)
(* memory names it.                                                        *)
LEMMA AllocateSound ==
  ASSUME NEW lines, NEW s \in Sound(lines), s.index = NoRegion, NEW vpn \in Int
  PROVE  /\ Allocated(s, vpn) \in Sound(lines)
         /\ LruRegion(s) \in Regions
         /\ Allocated(s, vpn).regions[LruRegion(s)].accessed = {}
<1> USE VaAmpmAssumption
<1> DEFINE lru == LruRegion(s)
           t == Allocated(s, vpn)
<1>1. s \in AmpmRecord /\ RanksDiffer(s) /\ RealMarks(s, lines)
  BY DEF Sound
<1>2. 0 \in Regions /\ RegionCount - 1 \in Regions
  BY DEF Regions
<1>3. \E r \in Regions : s.regions[r].rank = 0
  BY <1>1, <1>2 DEF RanksDiffer
<1>4. lru \in Regions /\ s.regions[lru].rank = 0
  BY <1>3 DEF LruRegion
<1>5. \A r \in Regions : r # lru => s.regions[r].rank # 0
  BY <1>1, <1>4 DEF RanksDiffer
<1>6. \A r \in Regions : s.regions[r].rank \in Regions
  BY <1>1 DEF AmpmRecord
<1>7. \A r \in Regions : r # lru => s.regions[r].rank - 1 \in Regions
  BY <1>5, <1>6 DEF Regions
<1>8. /\ t.index = NoRegion /\ t.vpn = s.vpn
      /\ t.regions = [r \in Regions |->
           IF r = lru
           THEN [vpn |-> vpn, accessed |-> {}, prefetched |-> {}, rank |-> RegionCount - 1]
           ELSE [s.regions[r] EXCEPT !.rank = @ - 1]]
      /\ t = [regions |-> t.regions, vpn |-> s.vpn, index |-> NoRegion]
  <2>1. s = [regions |-> s.regions, vpn |-> s.vpn, index |-> NoRegion]
    BY <1>1 DEF AmpmRecord
  <2> DEFINE all == [r \in Regions |->
               IF r = lru
               THEN [vpn |-> vpn, accessed |-> {}, prefetched |-> {}, rank |-> RegionCount - 1]
               ELSE [s.regions[r] EXCEPT !.rank = @ - 1]]
  <2>2. t = [s EXCEPT !.regions = all]
    BY DEF Allocated
  <2> HIDE DEF all, t
  <2>3. t = [regions |-> all, vpn |-> s.vpn, index |-> NoRegion]
    BY <2>1, <2>2
  <2> QED
    BY <2>3 DEF all
<1> HIDE DEF t, lru
<1>9. \A r \in Regions : s.regions[r] \in [vpn : Int, accessed : SUBSET Offsets,
                                           prefetched : SUBSET Offsets, rank : Regions]
  BY <1>1 DEF AmpmRecord
<1>10. /\ t.regions[lru].rank = RegionCount - 1 /\ t.regions[lru].accessed = {}
       /\ \A r \in Regions \ {lru} : /\ t.regions[r].rank = s.regions[r].rank - 1
                                     /\ t.regions[r].accessed = s.regions[r].accessed
                                     /\ t.regions[r].vpn = s.regions[r].vpn
  BY <1>4, <1>8, <1>9
<1>11. \A r \in Regions : t.regions[r] \in [vpn : Int, accessed : SUBSET Offsets,
                                            prefetched : SUBSET Offsets, rank : Regions]
  <2> TAKE r \in Regions
  <2>1. CASE r = lru
    BY <1>2, <1>8, <2>1
  <2>2. CASE r # lru
    BY <1>7, <1>8, <1>9, <2>2
  <2> QED
    BY <2>1, <2>2
<1>12. t \in AmpmRecord
  BY <1>1, <1>8, <1>11 DEF AmpmRecord
<1>13. RanksDiffer(t)
  <2>1. ASSUME NEW k \in Regions PROVE \E r \in Regions : t.regions[r].rank = k
    <3>1. CASE k = RegionCount - 1
      BY <1>4, <1>10, <3>1
    <3>2. CASE k # RegionCount - 1
      <4>1. k + 1 \in Regions /\ k + 1 # 0 /\ k \in Int
        BY <3>2 DEF Regions
      <4>2. PICK r \in Regions : s.regions[r].rank = k + 1
        BY <1>1, <4>1 DEF RanksDiffer
      <4>3. r # lru
        BY <1>4, <4>1, <4>2
      <4> QED
        BY <1>10, <4>1, <4>2, <4>3
    <3> QED
      BY <3>1, <3>2
  <2>2. \A r \in Regions : t.regions[r].rank \in Regions
    BY <1>11
  <2>3. ASSUME NEW r \in Regions, NEW q \in Regions, t.regions[r].rank = t.regions[q].rank
        PROVE  r = q
    <3>1. /\ \A p \in Regions : s.regions[p].rank \in Int /\ s.regions[p].rank < RegionCount
          /\ RegionCount \in Int
      BY <1>6 DEF Regions
    <3>2. CASE r # lru /\ q # lru
      <4>1. s.regions[r].rank = s.regions[q].rank
        BY <1>10, <2>3, <3>1, <3>2
      <4> QED
        BY <1>1, <4>1 DEF RanksDiffer
    <3>3. CASE r = lru \/ q = lru
      BY <1>10, <2>3, <3>1, <3>3
    <3> QED
      BY <3>2, <3>3
  <2> QED
    BY <2>1, <2>2, <2>3 DEF RanksDiffer
<1>14. RealMarks(t, lines)
  BY <1>1, <1>10 DEF RealMarks
<1> QED
  BY <1>4, <1>8, <1>10, <1>12, <1>13, <1>14 DEF Sound, Remembered, t, lru

(* The page of a line and its place in the page are the line.              *)
LEMMA LineSplit ==
  ASSUME NEW line \in Int
  PROVE  /\ Vpn(line) \in Int /\ PageOffset(line) \in Offsets
         /\ Vpn(line) * AmpmPageBlocks + PageOffset(line) = line
  BY VaAmpmAssumption DEF Vpn, PageOffset, Offsets

MarkedAt(s, r, map, offset) == [s EXCEPT !.regions[r][map] = @ \union {offset}]

(* A mark changes one map of one region.                                   *)
LEMMA MarkedIsRecord ==
  ASSUME NEW lines, NEW s \in Sound(lines), NEW r \in Regions, NEW offset \in Offsets,
         NEW map \in {"accessed", "prefetched"},
         map = "accessed" => s.regions[r].vpn * AmpmPageBlocks + offset \in lines
  PROVE  MarkedAt(s, r, map, offset) \in Sound(lines)
<1> DEFINE t == MarkedAt(s, r, map, offset)
           Record == [vpn : Int, accessed : SUBSET Offsets,
                      prefetched : SUBSET Offsets, rank : Regions]
<1>1. s \in AmpmRecord /\ RanksDiffer(s) /\ Remembered(s) /\ RealMarks(s, lines)
  BY DEF Sound
<1>2. /\ s.regions \in [Regions -> Record] /\ s.index \in Regions \union {NoRegion}
      /\ s.vpn \in Int
  BY <1>1 DEF AmpmRecord
<1> DEFINE marked == s.regions[r][map] \union {offset}
<1>3. /\ t.regions = [s.regions EXCEPT ![r] = [s.regions[r] EXCEPT ![map] = marked]]
      /\ t = [regions |-> t.regions, vpn |-> s.vpn, index |-> s.index]
  <2>1. s = [regions |-> s.regions, vpn |-> s.vpn, index |-> s.index]
    BY <1>1 DEF AmpmRecord
  <2>2. t = [s EXCEPT !.regions = [s.regions EXCEPT ![r] = [s.regions[r] EXCEPT ![map] = marked]]]
    BY <1>2 DEF t, MarkedAt
  <2> HIDE DEF t, marked
  <2> QED
    BY <2>1, <2>2
<1> HIDE DEF t
<1>4. s.regions[r] \in Record
  BY <1>2
<1>5. t.regions[r] = [s.regions[r] EXCEPT ![map] = marked]
  BY <1>2, <1>3
<1>6. /\ t.regions[r] \in Record
      /\ t.regions[r].rank = s.regions[r].rank /\ t.regions[r].vpn = s.regions[r].vpn
      /\ map = "prefetched" => t.regions[r].accessed = s.regions[r].accessed
      /\ map = "accessed" => t.regions[r].accessed = s.regions[r].accessed \union {offset}
  <2>1. CASE map = "accessed"
    BY <1>4, <1>5, <2>1
  <2>2. CASE map = "prefetched"
    BY <1>4, <1>5, <2>2
  <2> QED
    BY <2>1, <2>2
<1>7. \A q \in Regions : q # r => t.regions[q] = s.regions[q]
  BY <1>2, <1>3
<1>8. t \in AmpmRecord
  <2>1. t.regions \in [Regions -> Record]
    BY <1>2, <1>3, <1>5, <1>6
  <2> QED
    BY <1>2, <1>3, <2>1 DEF AmpmRecord
<1>9. \A q \in Regions : /\ t.regions[q].rank = s.regions[q].rank
                         /\ t.regions[q].vpn = s.regions[q].vpn
  BY <1>6, <1>7
<1>10. RanksDiffer(t) /\ Remembered(t)
  <2>1. RanksDiffer(t)
    BY <1>1, <1>9 DEF RanksDiffer
  <2>2. t.index = s.index /\ t.vpn = s.vpn
    BY <1>3
  <2>3. Remembered(t)
    BY <1>1, <1>2, <1>9, <2>2 DEF Remembered
  <2> QED
    BY <2>1, <2>3
<1>11. RealMarks(t, lines)
  <2> SUFFICES ASSUME NEW q \in Regions, NEW o \in t.regions[q].accessed
               PROVE  t.regions[q].vpn * AmpmPageBlocks + o \in lines
    BY DEF RealMarks
  <2>1. CASE o \in s.regions[q].accessed
    BY <1>1, <1>9, <2>1 DEF RealMarks
  <2>2. CASE o \notin s.regions[q].accessed
    <3>1. q = r /\ map = "accessed" /\ o = offset
      BY <1>6, <1>7, <2>2
    <3> QED
      BY <1>9, <3>1
  <2> QED
    BY <2>1, <2>2
<1> QED
  BY <1>8, <1>10, <1>11 DEF Sound, t

(* A prefetch marks a line, and may take a region for it.                  *)
LEMMA PrefetchMarkSound ==
  ASSUME NEW lines, NEW s \in Sound(lines), NEW line \in Int
  PROVE  Marked(s, line, "prefetched") \in Sound(lines)
<1> DEFINE vpn == Vpn(line)
           result == Result(s, vpn)
           at == Searched(s, vpn)
           r == IF result = NoRegion THEN LruRegion(at) ELSE result
           t == IF result = NoRegion THEN Allocated(at, vpn) ELSE at
<1>1. vpn \in Int /\ PageOffset(line) \in Offsets
  BY LineSplit
<1>2. /\ at \in Sound(lines) /\ at.index = result
      /\ result \in Regions \union {NoRegion}
  BY <1>1, SearchSound
<1>3. r \in Regions /\ t \in Sound(lines)
  <2>1. CASE result = NoRegion
    <3>1. Allocated(at, vpn) \in Sound(lines) /\ LruRegion(at) \in Regions
      BY <1>1, <1>2, <2>1, AllocateSound
    <3> QED
      BY <2>1, <3>1
  <2>2. CASE result # NoRegion
    BY <1>2, <2>2
  <2> QED
    BY <2>1, <2>2
<1>4. Marked(s, line, "prefetched")
        = MarkedAt(t, r, "prefetched", PageOffset(line))
  BY DEF Marked, MarkedAt
<1> HIDE DEF t, r, at, result, vpn
<1> QED
  BY <1>1, <1>3, <1>4, MarkedIsRecord

(* An access is marked in a region of its own page.                        *)
LEMMA AccessMarkSound ==
  ASSUME NEW lines, NEW s \in Sound(lines), NEW line \in lines, line \in Int,
         Result(s, Vpn(line)) # NoRegion
  PROVE  Marked(s, line, "accessed") \in Sound(lines)
<1> DEFINE vpn == Vpn(line)
           result == Result(s, vpn)
           at == Searched(s, vpn)
<1>1. /\ vpn \in Int /\ PageOffset(line) \in Offsets
      /\ vpn * AmpmPageBlocks + PageOffset(line) = line
  BY LineSplit
<1>2. /\ at \in Sound(lines) /\ at.regions = s.regions
      /\ result \in Regions /\ s.regions[result].vpn = vpn
  BY <1>1, SearchSound
<1>3. Marked(s, line, "accessed")
        = MarkedAt(at, result, "accessed", PageOffset(line))
  BY DEF Marked, MarkedAt
<1> HIDE DEF at, result, vpn
<1>4. at.regions[result].vpn * AmpmPageBlocks + PageOffset(line) \in lines
  BY <1>1, <1>2
<1> QED
  BY <1>1, <1>2, <1>3, <1>4, MarkedIsRecord

(* A test only searches.                                                   *)
LEMMA TestedSound ==
  ASSUME NEW lines, NEW t \in [s : Sound(lines), passed : BOOLEAN], NEW line \in Int,
         NEW map, NEW wanted \in BOOLEAN
  PROVE  Tested(t, line, map, wanted) \in [s : Sound(lines), passed : BOOLEAN]
<1>1. Vpn(line) \in Int
  BY LineSplit
<1>2. Searched(t.s, Vpn(line)) \in Sound(lines)
  BY <1>1, SearchSound
<1> DEFINE r == Result(t.s, Vpn(line))
           marked == r # NoRegion /\ PageOffset(line) \in t.s.regions[r][map]
<1>3. (marked = wanted) \in BOOLEAN
  OBVIOUS
<1>4. Tested(t, line, map, wanted)
        = IF t.passed THEN [s |-> Searched(t.s, Vpn(line)), passed |-> marked = wanted] ELSE t
  BY DEF Tested
<1> HIDE DEF marked
<1>5. CASE t.passed
  <2> DEFINE passed == marked = wanted
  <2>1. Tested(t, line, map, wanted) = [s |-> Searched(t.s, Vpn(line)), passed |-> passed]
    BY <1>4, <1>5
  <2>2. passed \in BOOLEAN
    OBVIOUS
  <2> HIDE DEF passed
  <2> QED
    BY <1>2, <2>1, <2>2
<1>6. CASE ~t.passed
  BY <1>4, <1>6
<1> QED
  BY <1>5, <1>6

(* The four tests of a pattern only search.                                *)
LEMMA PatternSound ==
  ASSUME NEW lines, NEW s \in Sound(lines), NEW line \in Int, NEW d \in Int
  PROVE  Pattern(s, line, d) \in [s : Sound(lines), passed : BOOLEAN]
<1> DEFINE Tests == [s : Sound(lines), passed : BOOLEAN]
           start == [s |-> s, passed |-> TRUE]
           near == Tested(start, line - d, "accessed", TRUE)
           far == Tested(near, line - 2 * d, "accessed", TRUE)
           new == Tested(far, line + d, "accessed", FALSE)
<1>1. line - d \in Int /\ line - 2 * d \in Int /\ line + d \in Int
  OBVIOUS
<1>2. start \in Tests
  OBVIOUS
<1> HIDE DEF start
<1>3. near \in Tests
  BY <1>1, <1>2, TestedSound
<1> HIDE DEF near
<1>4. far \in Tests
  BY <1>1, <1>3, TestedSound
<1> HIDE DEF far
<1>5. new \in Tests
  BY <1>1, <1>4, TestedSound
<1> HIDE DEF new
<1>6. Tested(new, line + d, "prefetched", FALSE) \in Tests
  BY <1>1, <1>5, TestedSound
<1> QED
  BY <1>6 DEF Pattern, new, far, near, start

(* A turn of the loop searches, and marks one prefetch or none.            *)
LEMMA TurnSound ==
  ASSUME NEW lines, NEW line \in Int, NEW refused, NEW d \in Int,
         NEW t \in [s : Sound(lines), issued : Nat]
  PROVE  Turn(line, refused, t, d) \in [s : Sound(lines), issued : Nat]
<1> DEFINE test == Pattern(t.s, line, d)
<1>1. test \in [s : Sound(lines), passed : BOOLEAN]
  BY PatternSound
<1> HIDE DEF test
<1>2. Marked(test.s, line + d, "prefetched") \in Sound(lines)
  BY <1>1, PrefetchMarkSound
<1>3. Turn(line, refused, t, d)
        = IF t.issued >= AmpmDegree THEN t
          ELSE IF test.passed /\ line + d \notin refused
               THEN [s |-> Marked(test.s, line + d, "prefetched"), issued |-> t.issued + 1]
               ELSE [t EXCEPT !.s = test.s]
  BY DEF Turn, test
<1> QED
  BY <1>1, <1>2, <1>3

(* The loop of a direction searches and marks prefetches.                  *)
LEMMA DirectionSound ==
  ASSUME NEW lines, NEW s \in Sound(lines), NEW line \in Int, NEW refused, NEW sign \in Int
  PROVE  Direction(s, line, refused, sign) \in Sound(lines)
<1> DEFINE n == MaxDistance
           Turns == [s : Sound(lines), issued : Nat]
           first == [s |-> s, issued |-> 0]
           Unrolled(f) ==
             f = [i \in 0 .. n |->
                    IF i = 0 THEN first ELSE Turn(line, refused, f[i - 1], sign * i)]
           turn == CHOOSE f : Unrolled(f)
           T == [x \in Turns \X (1 .. n) |-> Turn(line, refused, x[1], sign * x[2])]
<1>1. n \in Nat /\ first \in Turns
  BY VaAmpmAssumption
<1>2. ASSUME NEW t \in Turns, NEW i \in 1 .. n
      PROVE  Turn(line, refused, t, sign * i) \in Turns
  <2>1. sign * i \in Int
    BY <1>1
  <2> QED
    BY <2>1, TurnSound
<1>3. T \in TurnsOf(n, Turns)
  <2>1. ASSUME NEW x \in Turns \X (1 .. n)
        PROVE  Turn(line, refused, x[1], sign * x[2]) \in Turns
    BY <1>2
  <2> QED
    BY <2>1 DEF TurnsOf
<1> HIDE DEF first, Turns, T, n
<1>4. PICK f \in [0 .. n -> Turns] : Unrolls(f, n, first, T)
  BY <1>1, <1>3, LoopUnrolls
<1>5. ASSUME NEW i \in 1 .. n
      PROVE  T[<<f[i - 1], i>>] = Turn(line, refused, f[i - 1], sign * i)
  <2>1. i - 1 \in 0 .. n
    BY <1>1
  <2>2. <<f[i - 1], i>> \in Turns \X (1 .. n)
    BY <2>1
  <2> QED
    BY <2>2 DEF T
<1>6. Unrolled(f)
  <2>1. ASSUME NEW i \in 0 .. n
        PROVE  f[i] = IF i = 0 THEN first ELSE Turn(line, refused, f[i - 1], sign * i)
    <3>1. CASE i = 0
      BY <1>4, <3>1 DEF Unrolls
    <3>2. CASE i # 0
      <4>1. i \in 1 .. n
        BY <1>1, <3>2
      <4> QED
        BY <1>4, <1>5, <3>2, <4>1 DEF Unrolls
    <3> QED
      BY <3>1, <3>2
  <2> QED
    BY <2>1
<1>7. Unrolled(turn)
  BY <1>6
<1> HIDE DEF turn
<1> DEFINE Good == {i \in 0 .. n : turn[i] \in Turns}
<1>8. 0 \in Good
  BY <1>1, <1>7
<1>9. ASSUME NEW i \in 1 .. n, i - 1 \in Good PROVE i \in Good
  <2>1. i \in 0 .. n /\ i # 0
    BY <1>1
  <2>2. turn[i] = Turn(line, refused, turn[i - 1], sign * i)
    BY <1>7, <2>1
  <2> QED
    BY <1>2, <1>9, <2>1, <2>2
<1>10. n \in Good
  <2>1. Good = 0 .. n
    BY <1>1, <1>8, <1>9, LoopKeeps
  <2> QED
    BY <1>1, <2>1
<1>11. Direction(s, line, refused, sign) = turn[n].s
  BY DEF Direction, turn, n, first
<1> QED
  BY <1>10, <1>11 DEF Turns

(* All regions stand for page 0 at the start, and memory for the first.    *)
LEMMA AmpmInitially == AmpmInit => AmpmIInv
<1> SUFFICES ASSUME AmpmInit PROVE AmpmIInv
  OBVIOUS
<1> USE VaAmpmAssumption
<1>1. 0 \in Regions
  BY DEF Regions
<1>2. ampm = [regions |-> ampm.regions, vpn |-> 0, index |-> 0] /\ touched = {}
  BY DEF AmpmInit
<1>3. ampm.regions = [r \in Regions |-> [vpn |-> 0, accessed |-> {}, prefetched |-> {}, rank |-> r]]
  BY DEF AmpmInit
<1>4. ampm \in AmpmRecord
  BY <1>1, <1>2, <1>3 DEF AmpmRecord
<1>5. RanksDiffer(ampm) /\ Remembered(ampm) /\ RealMarks(ampm, touched)
  BY <1>1, <1>2, <1>3 DEF RanksDiffer, Remembered, RealMarks
<1> QED
  BY <1>2, <1>4, <1>5 DEF AmpmIInv, Sound

(* The access hook takes a region only after a search that failed.         *)
LEMMA AmpmOperateKeeps ==
  ASSUME AmpmIInv, NEW line \in AmpmLines, NEW refused, AmpmOperate(line, refused)
  PROVE  AmpmIInv'
<1> DEFINE vpn == Vpn(line)
           s == Searched(ampm, vpn)
           lines == touched \union {line}
           marked == Marked(s, line, "accessed")
           up == Direction(marked, line, refused, 1)
<1>1. line \in Int /\ line \in lines /\ touched' = lines /\ lines \subseteq AmpmLines
  BY VaAmpmAssumption DEF AmpmOperate, AmpmIInv
<1>2. vpn \in Int
  BY <1>1, LineSplit
<1>3. ampm \in Sound(lines)
  BY DEF AmpmIInv, Sound, RealMarks
<1>4. s \in Sound(lines) /\ s.index = Result(ampm, vpn) /\ s.vpn = vpn
  BY <1>2, <1>3, SearchSound
<1>5. ampm' = IF Result(ampm, vpn) = NoRegion THEN Allocated(s, vpn)
              ELSE Direction(up, line, refused, -1)
  BY DEF AmpmOperate
<1>6. CASE Result(ampm, vpn) = NoRegion
  <2>1. ampm' \in Sound(lines)
    BY <1>2, <1>4, <1>5, <1>6, AllocateSound
  <2> QED
    BY <1>1, <2>1 DEF AmpmIInv
<1>7. CASE Result(ampm, vpn) # NoRegion
  <2>1. Result(s, Vpn(line)) # NoRegion
    BY <1>4, <1>7 DEF Result
  <2> HIDE DEF s, vpn, lines
  <2>2. marked \in Sound(lines)
    BY <1>1, <1>4, <2>1, AccessMarkSound
  <2> HIDE DEF marked
  <2>3. up \in Sound(lines)
    BY <1>1, <2>2, DirectionSound
  <2> HIDE DEF up
  <2>4. ampm' \in Sound(lines)
    BY <1>1, <1>5, <1>7, <2>3, DirectionSound
  <2> QED
    BY <1>1, <2>4 DEF AmpmIInv
<1> QED
  BY <1>6, <1>7

(* Every step keeps the inductive invariant.                               *)
LEMMA AmpmKeeps == AmpmIInv /\ [AmpmNext]_ampmVars => AmpmIInv'
<1> SUFFICES ASSUME AmpmIInv, [AmpmNext]_ampmVars PROVE AmpmIInv'
  OBVIOUS
<1>1. CASE UNCHANGED ampmVars
  BY <1>1 DEF ampmVars, AmpmIInv, Sound, AmpmRecord, RanksDiffer, Remembered, RealMarks
<1>2. ASSUME NEW line \in AmpmLines, NEW refused, AmpmOperate(line, refused)
      PROVE  AmpmIInv'
  BY <1>2, AmpmOperateKeeps
<1> QED
  BY <1>1, <1>2 DEF AmpmNext

(***************************************************************************)
(* The records of VA AMPM stay sound: the oldest region is unique, memory  *)
(* names no region that was taken from its page, and marks are real.       *)
(***************************************************************************)
THEOREM AmpmInvariance == AmpmSpec => []AmpmIInv
  BY AmpmInitially, AmpmKeeps, PTL DEF AmpmSpec

(***************************************************************************)
(* Every access mark is that of a line that was accessed, however the      *)
(* regions are taken away and whatever the memory of the last search       *)
(* answers, for any number of regions, distance, degree and page size.     *)
(***************************************************************************)
THEOREM AccessMarksAlwaysReal == AmpmSpec => []AccessMarksReal
<1>1. AmpmIInv => AccessMarksReal
  BY DEF AmpmIInv, Sound, RealMarks, AccessMarksReal
<1> QED
  BY <1>1, AmpmInvariance, PTL
-----------------------------------------------------------------------------
(***************************************************************************)
(* The types of the prefetchers.  What is left to say of the lookahead of  *)
(* a filter is where it stands when no step remains.                       *)
(***************************************************************************)
AheadOK ==
  /\ ahead.line \in Lines \union {0} /\ ahead.stride \in AheadStrides \union {0, 1}
  /\ ahead.ip \in AheadIps \union {0}

AheadTypesIInv == AheadIInv /\ TypeOK /\ AheadOK

(* The lookahead stays on lines, strides and instructions of the system.   *)
LEMMA AheadTypesKeep ==
  ASSUME AheadTypesIInv, [AheadNext]_<<ppfVars, aheadVars>>
  PROVE  AheadTypesIInv'
<1>1. AheadIInv' /\ TypeOK'
  BY AheadKeeps, AheadIsStep, StepWeights DEF AheadTypesIInv, AheadIInv, IInv, TypeOK
<1>2. AheadOK'
  <2>1. CASE UNCHANGED <<ppfVars, aheadVars>>
    BY <2>1 DEF AheadTypesIInv, AheadOK, aheadVars
  <2>2. CASE AheadCycle
    <3> DEFINE line == ahead.line + ahead.stride
    <3>1. /\ ahead.degree \in 1 .. AheadDegree /\ ahead.line \in Lines
          /\ ahead.ip \in AheadIps \union {0} /\ ahead.stride \in AheadStrides \union {1}
      BY <2>2, LookaheadAssumption DEF AheadCycle, AheadTypesIInv, AheadIInv
    <3>2. CASE /\ VirtualPrefetch \/ line \div BlocksPerPage = ahead.line \div BlocksPerPage
               /\ ahead' = Advanced(line)
      <4>1. line \in Lines
        BY <3>1, <3>2, LookaheadAssumption
      <4>2. ahead'.line = line /\ ahead'.stride = ahead.stride /\ ahead'.ip \in {0, ahead.ip}
        BY <3>2 DEF Advanced
      <4> HIDE DEF line
      <4> QED
        BY <3>1, <4>1, <4>2 DEF AheadOK
    <3>3. CASE UNCHANGED ahead
      BY <3>3 DEF AheadTypesIInv, AheadOK
    <3>4. CASE ahead' = NotAhead
      BY <3>4 DEF NotAhead, AheadOK
    <3> QED
      BY <2>2, <3>2, <3>3, <3>4 DEF AheadCycle, Refused
  <2>3. ASSUME NEW line \in Lines, NEW ip \in AheadIps, NEW hit \in BOOLEAN,
               AheadAccess(line, ip, hit)
        PROVE  AheadOK'
    BY <2>3 DEF AheadAccess, AheadTypesIInv, AheadOK
  <2> QED
    BY <2>1, <2>2, <2>3 DEF AheadNext
<1> QED
  BY <1>1, <1>2 DEF AheadTypesIInv

(* A tracker holds an instruction of the program and a line it accessed.   *)
TrackersReal ==
  \A t \in Trackers : /\ trackers[t].ip \in Ips \union {0}
                      /\ trackers[t].line \in {LineOf(a) : a \in Addrs} \union {0}

(* An access of the program is all that is ever noted in one.              *)
LEMMA RealKeeps ==
  StrideIInv /\ TrackersReal /\ [StrideNext]_strideVars => TrackersReal'
<1> SUFFICES ASSUME StrideIInv, TrackersReal, [StrideNext]_strideVars PROVE TrackersReal'
  OBVIOUS
<1>1. CASE UNCHANGED trackers
  BY <1>1 DEF TrackersReal
<1>2. ASSUME NEW visit \in Accesses, StrideAccess(visit[1], visit[2]) PROVE TrackersReal'
  <2> DEFINE addr == visit[1]
             ip == visit[2]
  <2>1. addr \in Addrs /\ ip \in Ips
    BY DEF Addrs, Ips
  <2> HIDE DEF addr, ip
  <2>2. PICK t, stride : trackers' = [trackers EXCEPT ![t] = [ip |-> ip, line |-> LineOf(addr), stride |-> stride]]
    BY <1>2, Zenon DEF StrideAccess, addr, ip
  <2> SUFFICES ASSUME NEW u \in Trackers
               PROVE  /\ trackers'[u].ip \in Ips \union {0}
                      /\ trackers'[u].line \in {LineOf(a) : a \in Addrs} \union {0}
    BY DEF TrackersReal
  <2>3. trackers'[u] \in {trackers[u], [ip |-> ip, line |-> LineOf(addr), stride |-> stride]}
    BY <2>2 DEF StrideIInv, TrackersOK
  <2> QED
    BY <2>1, <2>3 DEF TrackersReal
<1> QED
  BY <1>1, <1>2 DEF StrideNext, CycleOperate, NextLineAccess, strideVars

(* The trackers, their order of use and the lookahead.                     *)
LEMMA StrideTypes == StrideIInv /\ TrackersReal => StrideTypeOK
<1> SUFFICES ASSUME StrideIInv, TrackersReal PROVE StrideTypeOK
  OBVIOUS
<1>1. kind \in Kinds /\ virtual \in BOOLEAN /\ look.degree \in 0 .. Degree
  BY DEF StrideIInv, TrackersOK, LookOK
<1>2. \A t \in Trackers : trackers[t].stride \in Int /\ lastUsed[t] \in Trackers
  BY DEF StrideIInv, TrackersOK
<1> QED
  BY <1>1, <1>2 DEF StrideTypeOK, TrackersReal

(* The regions of VA AMPM.                                                 *)
LEMMA AmpmTypes == AmpmIInv => AmpmTypeOK
  BY DEF AmpmIInv, Sound, AmpmRecord, RanksDiffer, AmpmTypeOK, Offsets

PrefetcherIInv == AheadTypesIInv /\ StrideIInv /\ TrackersReal /\ AmpmIInv /\ KpcpIInv

(* Every prefetcher starts in its invariant, and so do those at rest.      *)
LEMMA PrefetchersInitially == MCInit => PrefetcherIInv
<1> SUFFICES ASSUME MCInit PROVE PrefetcherIInv
  OBVIOUS
<1>1. AheadTypesIInv
  <2>1. ASSUME Init, ahead = NotAhead, since = top PROVE AheadTypesIInv
    <3>1. IInv /\ TypeOK
      BY <2>1, InitIInv, InitWeights DEF IInv, TypeOK
    <3> QED
      BY <2>1, <3>1, LookaheadAssumption
         DEF AheadTypesIInv, AheadIInv, IInv, RingTypeOK, AheadOK, NotAhead
  <2>2. ASSUME AheadInit PROVE AheadTypesIInv
    <3>1. AheadIInv /\ TypeOK
      BY <2>2, AheadInitially DEF AheadIInv, IInv, TypeOK, AheadInit, Weights
    <3> QED
      BY <2>2, <3>1 DEF AheadTypesIInv, AheadOK, AheadInit, NotAhead
  <2>3. ASSUME RingInit, rebound = 0, weights = [t \in Tables |-> [slot \in Slots |-> 0]],
               ahead = NotAhead, since = top
        PROVE  AheadTypesIInv
    <3> USE PerceptronFilterAssumption, LookaheadAssumption
    <3>1. (CHOOSE key \in Keys : TRUE) \in Keys
      OBVIOUS
    <3>2. RingTypeOK
      BY <2>3, <3>1 DEF RingInit, RingTypeOK, Slot
    <3>3. IndexInverse /\ UnwrittenInvalid
      BY <2>3 DEF RingInit, IndexInverse, UnwrittenInvalid
    <3>4. 0 \in NegMaxWeight .. PosMaxWeight
      BY PerceptronAssumption DEF NegMaxWeight, PosMaxWeight
    <3>5. weights \in Weights
      BY <2>3, <3>4 DEF Weights
    <3> QED
      BY <2>3, <3>2, <3>3, <3>5
         DEF AheadTypesIInv, AheadIInv, IInv, RingTypeOK, TypeOK, AheadOK, NotAhead
  <2> QED
    BY <2>1, <2>2, <2>3 DEF MCInit, FilterInit
<1>2. StrideIInv
  BY StrideInitially DEF MCInit
<1>3. TrackersReal
  BY DEF MCInit, StrideInit, TrackersReal
<1>4. AmpmIInv /\ KpcpIInv
  BY AmpmInitially, KpcpInitially DEF MCInit
<1> QED
  BY <1>1, <1>2, <1>3, <1>4 DEF PrefetcherIInv

(* A step of one leaves the others at rest.                                *)
LEMMA PrefetchersKeep == PrefetcherIInv /\ [MCNext]_mcVars => PrefetcherIInv'
<1> SUFFICES ASSUME PrefetcherIInv, [MCNext]_mcVars PROVE PrefetcherIInv'
  OBVIOUS
<1>1. \/ [AheadNext]_<<ppfVars, aheadVars>>
      \/ [Next]_ppfVars /\ UNCHANGED aheadVars
  BY DEF MCNext, mcVars, Ppf, PpfLookahead, Stride, Ampm, KpcpWalk
<1>2. AheadTypesIInv'
  <2>1. CASE [AheadNext]_<<ppfVars, aheadVars>>
    BY <2>1, AheadTypesKeep DEF PrefetcherIInv
  <2>2. CASE [Next]_ppfVars /\ UNCHANGED aheadVars
    <3>1. IInv' /\ TypeOK'
      BY <2>2, NextIInv, NextIsStep, StepWeights
         DEF PrefetcherIInv, AheadTypesIInv, AheadIInv, IInv, TypeOK
    <3> QED
      BY <2>2, <3>1 DEF PrefetcherIInv, AheadTypesIInv, AheadIInv, AheadOK, aheadVars
  <2> QED
    BY <1>1, <2>1, <2>2
<1>3. [StrideNext]_strideVars
  BY DEF MCNext, mcVars, Ppf, PpfLookahead, Stride, Ampm, KpcpWalk
<1>4. [AmpmNext]_ampmVars
  BY DEF MCNext, mcVars, Ppf, PpfLookahead, Stride, Ampm, KpcpWalk
<1>5. [KpcpNext]_kpcpVars
  BY DEF MCNext, mcVars, Ppf, PpfLookahead, Stride, Ampm, KpcpWalk, KpcpNext, Walk
<1> QED
  BY <1>2, <1>3, <1>4, <1>5, StrideKeeps, RealKeeps, AmpmKeeps, KpcpStep DEF PrefetcherIInv

(***************************************************************************)
(* Each prefetcher keeps its types: lookaheads stay on the lines, strides  *)
(* and instructions of the system, trackers hold instructions and lines of *)
(* the program, weights, counters and pointers stay in their ranges, and   *)
(* the orders of replacement permutations, for any accesses and sizes.     *)
(***************************************************************************)
THEOREM PrefetcherTypesAlwaysOK == MCSpec => []PrefetcherTypesOK
<1>1. PrefetcherIInv => PrefetcherTypesOK
  <2> SUFFICES ASSUME PrefetcherIInv PROVE PrefetcherTypesOK
    OBVIOUS
  <2>1. TypeOK /\ AheadTypeOK
    BY DEF PrefetcherIInv, AheadTypesIInv, AheadIInv, AheadOK, AheadTypeOK
  <2>2. StrideTypeOK /\ AmpmTypeOK
    BY StrideTypes, AmpmTypes DEF PrefetcherIInv
  <2>3. KpcpTypeOK
    BY KpcpTypes DEF PrefetcherIInv
  <2> QED
    BY <2>1, <2>2, <2>3 DEF PrefetcherTypesOK
<1> QED
  BY <1>1, PrefetchersInitially, PrefetchersKeep, PTL DEF MCSpec
=============================================================================
