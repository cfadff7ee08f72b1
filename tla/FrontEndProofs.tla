--------------------------- MODULE FrontEndProofs ---------------------------
(***************************************************************************)
(* What holds of the front end for any branches, sizes of tables, widths   *)
(* of weights, frequencies, programs and knobs.                            *)
(*                                                                         *)
(* Components keep to their scale: no sum of the clock is rounded, as all  *)
(* are whole numbers of the distance of the doubles at the scale.          *)
(* Returns find their calls and full sets replace their earliest use.      *)
(* Outcomes train the predictions they belong to, and no repair of the     *)
(* speculative history loses a bit.  Every predictor learns a bias: each   *)
(* outcome of a streak that fills the history moves what is read for it    *)
(* towards the direction, or finds it far enough.  A trace is the window   *)
(* its knobs ask for: the record is, before each routine, what the         *)
(* routines before it should have made of it.                              *)
(*                                                                         *)
(* First the parts, then the front end that has them as its units.         *)
(***************************************************************************)
EXTENDS FrontEnd, TableLemmas, FiniteSetTheorems, SequenceTheorems

(* The quotient and the remainder of a multiple.                           *)
LEMMA OfMultiple ==
  ASSUME NEW m \in Nat, NEW q \in Nat \ {0}
  PROVE  (q * m) \div q = m /\ (q * m) % q = 0
<1>1. q * m = q * ((q * m) \div q) + ((q * m) % q) /\ (q * m) % q \in 0 .. q - 1 /\ (q * m) \div q \in Int
  <2> DEFINE x == q * m
  <2>1. x \in Int
    OBVIOUS
  <2> HIDE DEF x
  <2>2. x = q * (x \div q) + (x % q) /\ x % q \in 0 .. q - 1 /\ x \div q \in Int
    BY <2>1
  <2> QED
    BY <2>2 DEF x
<1> DEFINE k == (q * m) \div q
           r == (q * m) % q
<1>2. q * m = q * k + r /\ r \in 0 .. q - 1 /\ k \in Int
  BY <1>1
<1> HIDE DEF k, r
<1>3. q * (m - k) = r
  BY <1>2
<1>4. m - k = 0
  <2>1. CASE m - k >= 1
    <3>1. q * (m - k) >= q
      BY <1>2, <2>1
    <3> QED
      BY <3>1, <1>2, <1>3
  <2>2. CASE m - k <= -1
    <3>1. q * (m - k) <= -q
      BY <1>2, <2>2
    <3> QED
      BY <3>1, <1>2, <1>3
  <2> QED
    BY <2>1, <2>2, <1>2
<1>5. k = m /\ r = 0
  BY <1>2, <1>3, <1>4
<1> QED
  BY <1>5 DEF k, r

(* Of two distances of doubles, the smaller goes into the larger, and      *)
(* those above 1 are doubled ones.                                         *)
LEMMA QuantaDivide ==
  /\ Quanta \in SUBSET (Nat \ {0}) /\ One \in Quanta /\ 1 \in Quanta
  /\ \A q \in Quanta : \E k \in Nat \ {0} : One = q * k
  /\ \A p, q \in Quanta : p <= q => \E k \in Nat \ {0} : q = p * k
  /\ \A q \in Quanta : q # 1 => \E h \in Quanta : q = 2 * h
<1>1. Quanta \in SUBSET (Nat \ {0}) /\ One \in Nat \ {0}
  BY OperableAssumption DEF Quanta
<1>2. ASSUME NEW n \in Nat \ {0}, NEW q \in Nat \ {0}, n % q = 0
      PROVE  \E k \in Nat \ {0} : n = q * k
  <2>1. n = q * (n \div q) /\ n \div q \in Int
    BY <1>2
  <2>2. n \div q > 0
    BY <2>1
  <2> QED
    BY <2>1, <2>2
<1>3. One \in Quanta /\ 1 \in Quanta
  <2>1. One % One = 0
    <3>1. (One * 1) % One = 0
      BY <1>1, OfMultiple
    <3> QED
      BY <3>1, <1>1
  <2>2. One % 1 = 0
    BY <1>1
  <2> QED
    BY <2>1, <2>2, <1>1 DEF Quanta
<1>4. \A q \in Quanta : \E k \in Nat \ {0} : One = q * k
  BY <1>1, <1>2 DEF Quanta
<1>5. ASSUME NEW p \in Quanta, NEW q \in Quanta, p < q
      PROVE  \E k \in Nat \ {0} : q = p * 2 * k
  <2>1. q % (2 * p) = 0 /\ 2 * p \in Nat \ {0} /\ q \in Nat \ {0} /\ p \in Nat
    BY <1>1, <1>5, OperableAssumption
  <2>2. PICK k \in Nat \ {0} : q = (2 * p) * k
    BY <2>1, <1>2
  <2> QED
    BY <2>1, <2>2
<1>6. ASSUME NEW p \in Quanta, NEW q \in Quanta, p <= q
      PROVE  \E k \in Nat \ {0} : q = p * k
  <2>1. CASE p = q
    <3>1. q = p * 1
      BY <2>1, <1>1
    <3> QED
      BY <3>1
  <2>2. CASE p < q
    <3>1. PICK k \in Nat \ {0} : q = p * 2 * k
      BY <2>2, <1>5
    <3>2. q = p * (2 * k) /\ 2 * k \in Nat \ {0}
      BY <3>1, <1>1
    <3> QED
      BY <3>2
  <2> QED
    BY <2>1, <2>2, <1>1, <1>6
<1>7. ASSUME NEW q \in Quanta, q # 1
      PROVE  \E h \in Quanta : q = 2 * h
  <2>1. 1 < q /\ q \in Nat \ {0} /\ q <= One
    BY <1>1, <1>7 DEF Quanta
  <2>2. PICK h \in Nat \ {0} : q = 1 * 2 * h
    BY <2>1, <1>3, <1>5
  <2>3. PICK k \in Nat \ {0} : One = q * k
    BY <1>4
  <2>4. One = h * (2 * k) /\ 2 * k \in Nat
    BY <2>2, <2>3
  <2>5. One % h = 0
    BY <2>4, OfMultiple
  <2>6. h \in 1 .. One
    BY <2>1, <2>2, <1>1
  <2> QED
    BY <2>2, <2>5, <2>6 DEF Quanta
<1> QED
  BY <1>1, <1>3, <1>4, <1>6, <1>7

(* The spacing of the doubles at a number: 53 bits are enough, and no      *)
(* smaller spacing has enough.                                             *)
LEMMA SpacingFits ==
  ASSUME NEW n \in Nat, NEW d \in Nat \ {0}, n < 2 * One * One * d
  PROVE  /\ Spacing(n, d) \in Quanta
         /\ n < 2 * One * Spacing(n, d) * d
         /\ \A q \in Quanta : n < 2 * One * q * d => Spacing(n, d) <= q
         /\ Spacing(n, d) # 1 => One * Spacing(n, d) * d <= n
<1> DEFINE S == {q \in Quanta : n < 2 * One * q * d}
<1>1. S \in SUBSET Nat /\ One \in S
  BY QuantaDivide
<1>2. Spacing(n, d) \in S /\ \A q \in S : Spacing(n, d) <= q
  BY <1>1, MinIsMember DEF Spacing
<1>3. ASSUME Spacing(n, d) # 1 PROVE One * Spacing(n, d) * d <= n
  <2>1. PICK h \in Quanta : Spacing(n, d) = 2 * h
    BY <1>2, <1>3, QuantaDivide
  <2>2. h \notin S /\ h \in Nat \ {0} /\ One \in Nat
    BY <1>2, <2>1, QuantaDivide
  <2>3. ~(n < 2 * One * h * d)
    BY <2>2
  <2>4. One * (2 * h) * d = 2 * One * h * d /\ 2 * One * h * d \in Nat
    BY <2>2
  <2> QED
    BY <2>1, <2>3, <2>4
<1> QED
  BY <1>2, <1>3

(* A double is a whole number of spacings, and off by half a one at most.  *)
LEMMA RoundedIsNear ==
  ASSUME NEW n \in Nat, NEW d \in Nat \ {0}, n < 2 * One * One * d
  PROVE  \E m \in Nat :
           /\ Rounded(n, d) = Spacing(n, d) * m
           /\ m <= 2 * One
           /\ One * Spacing(n, d) * d <= n => One <= m
           /\ 2 * n - Spacing(n, d) * d <= 2 * (Rounded(n, d) * d)
           /\ 2 * (Rounded(n, d) * d) <= 2 * n + Spacing(n, d) * d
<1> DEFINE s == Spacing(n, d)
           step == s * d
           down == n \div step
           rest == n % step
<1>1. s \in Nat \ {0} /\ One \in Nat /\ n < 2 * One * s * d
  BY SpacingFits, QuantaDivide
<1>2. step \in Nat \ {0} /\ n < (2 * One) * step /\ (One * s * d = One * step)
  BY <1>1
<1>3. n = step * down + rest /\ rest \in 0 .. step - 1 /\ down \in Int
  <2> HIDE DEF step
  <2> QED
    BY <1>2
<1> DEFINE up == 2 * rest > step \/ (2 * rest = step /\ down % 2 = 1)
           m == IF up THEN down + 1 ELSE down
<1>4. Rounded(n, d) = s * m
  BY DEF Rounded
<1>5. Rounded(n, d) * d = step * m
  <2>1. m \in Int
    BY <1>3
  <2> HIDE DEF m, s
  <2> QED
    BY <2>1, <1>1, <1>4 DEF step
<1> HIDE DEF s, step, rest
<1>6. down \in Nat /\ down < 2 * One /\ (One * step <= n => One <= down)
  <2> HIDE DEF down
  <2>1. ~(down <= -1)
    <3> SUFFICES ASSUME down <= -1 PROVE FALSE
      OBVIOUS
    <3>1. step * down <= -step
      BY <1>2, <1>3
    <3> QED
      BY <3>1, <1>2, <1>3
  <2>2. ~(down >= 2 * One)
    <3> SUFFICES ASSUME down >= 2 * One PROVE FALSE
      OBVIOUS
    <3>1. step * down >= step * (2 * One)
      BY <1>1, <1>2, <1>3
    <3> QED
      BY <3>1, <1>1, <1>2, <1>3
  <2>3. ASSUME One * step <= n, ~(One <= down) PROVE FALSE
    <3>1. step * (down + 1) <= step * One
      BY <2>3, <1>1, <1>2, <1>3
    <3>2. step * (down + 1) = step * down + step
      BY <1>2, <1>3
    <3> QED
      BY <2>3, <3>1, <3>2, <1>1, <1>2, <1>3
  <2> QED
    BY <2>1, <2>2, <2>3, <1>1, <1>3
<1>7. /\ m \in Nat /\ m <= 2 * One /\ (One * step <= n => One <= m)
      /\ 2 * n - step <= 2 * (step * m) /\ 2 * (step * m) <= 2 * n + step
  <2>0. /\ down \in Nat /\ step \in Nat \ {0} /\ rest \in 0 .. step - 1 /\ One \in Nat
        /\ step * (down + 1) = step * down + step /\ n = step * down + rest
    BY <1>1, <1>2, <1>3, <1>6
  <2>1. CASE up
    <3>1. m = down + 1 /\ 2 * rest >= step
      BY <2>1, <2>0
    <3> HIDE DEF m, up, down
    <3> QED
      BY <3>1, <2>0, <1>6
  <2>2. CASE ~up
    <3>1. m = down /\ 2 * rest <= step
      BY <2>2, <2>0
    <3> HIDE DEF m, up, down
    <3> QED
      BY <3>1, <2>0, <1>6
  <2> QED
    BY <2>1, <2>2
<1> HIDE DEF m
<1>8. s * d = step
  BY DEF step
<1> QED
  BY <1>2, <1>4, <1>5, <1>7, <1>8 DEF s

(* What 53 bits hold is not rounded.                                       *)
LEMMA DoublesAreKept ==
  ASSUME NEW q \in Quanta, NEW m \in Nat, m < 2 * One
  PROVE  Rounded(q * m, 1) = q * m
<1> DEFINE n == q * m
           s == Spacing(n, 1)
<1>1. q \in Nat \ {0} /\ q <= One /\ One \in Nat \ {0}
  BY QuantaDivide DEF Quanta
<1>2. n \in Nat /\ n < q * (2 * One)
  BY <1>1
<1>3. q * (2 * One) <= One * (2 * One)
  BY <1>1
<1>4. n < 2 * One * One * 1 /\ n < 2 * One * q * 1
  BY <1>1, <1>2, <1>3
<1>5. s \in Quanta /\ s <= q
  <2> HIDE DEF n
  <2> QED
    BY <1>2, <1>4, SpacingFits, 1 \in Nat \ {0}
<1>6. PICK k \in Nat \ {0} : q = s * k
  BY <1>5, QuantaDivide
<1>7. s \in Nat \ {0}
  BY <1>5, QuantaDivide
<1> HIDE DEF s
<1>8. n = s * (k * m) /\ k * m \in Nat
  BY <1>6, <1>7
<1>9. n \div s = k * m /\ n % s = 0
  BY <1>7, <1>8, OfMultiple
<1>10. s * 1 = s
  BY <1>7
<1>11. Rounded(n, 1) = s * (k * m)
  <2> HIDE DEF n
  <2> QED
    BY <1>7, <1>9, <1>10 DEF Rounded, s
<1> QED
  BY <1>8, <1>11

(* One more of n times m.                                                  *)
LEMMA OneMore == ASSUME NEW n \in Nat, NEW m \in Nat PROVE (n + 1) * m = n * m + m
  OBVIOUS

(* The fastest frequency is one of them and no other is higher.            *)
LEMMA FastestIsHighest ==
  /\ Fastest \in Nat \ {0}
  /\ \A f \in Frequencies : f \in Nat \ {0} /\ f <= Fastest
<1>1. PICK m \in Frequencies : \A f \in Frequencies : f <= m
  BY OperableAssumption
<1>2. /\ Fastest \in Frequencies
      /\ \A f \in Frequencies : Fastest >= f
  BY <1>1, OperableAssumption DEF Fastest, Max
<1> QED
  BY <1>2, OperableAssumption

(* The distance of the doubles at the scale of a component.                *)
Unit(f) == Spacing(One * Fastest, f)

(* The scale is 1 or more, and off by half the distance to the next double *)
(* at most, which is no more than the highest frequency.                   *)
LEMMA RatioIsNear ==
  ASSUME NEW f \in Frequencies
  PROVE  /\ Unit(f) \in Quanta
         /\ Unit(f) * f <= Fastest
         /\ \E m \in Nat : Ratio(f) = Unit(f) * m /\ m <= 2 * One
         /\ Ratio(f) \in Nat /\ Ratio(f) >= One
         /\ 2 * (One * Fastest) - Unit(f) * f <= 2 * (Ratio(f) * f)
         /\ 2 * (Ratio(f) * f) <= 2 * (One * Fastest) + Unit(f) * f
<1> DEFINE n == One * Fastest
           u == Spacing(n, f)
<1>1. /\ One \in Nat \ {0} /\ Fastest \in Nat \ {0} /\ f \in Nat \ {0}
      /\ f <= Fastest /\ Fastest < 2 * One * f
  BY QuantaDivide, FastestIsHighest, OperableAssumption
<1>2. n \in Nat /\ n < 2 * One * One * f
  <2>1. Fastest + 1 <= 2 * One * f
    BY <1>1
  <2>2. One * (Fastest + 1) <= One * (2 * One * f)
    BY <2>1, <1>1
  <2>3. One * (Fastest + 1) = One * Fastest + One /\ One * (2 * One * f) = 2 * One * One * f
    BY <1>1
  <2> QED
    BY <2>2, <2>3, <1>1
<1>3. u \in Quanta /\ (u # 1 => One * u * f <= n)
  <2> HIDE DEF n
  <2> QED
    BY <1>1, <1>2, SpacingFits
<1>4. u \in Nat \ {0}
  BY <1>3, QuantaDivide
<1>5. PICK m \in Nat :
        /\ Rounded(n, f) = u * m /\ m <= 2 * One
        /\ One * u * f <= n => One <= m
        /\ 2 * n - u * f <= 2 * (Rounded(n, f) * f)
        /\ 2 * (Rounded(n, f) * f) <= 2 * n + u * f
  <2> HIDE DEF n
  <2> QED
    BY <1>1, <1>2, RoundedIsNear
<1>6. u * f <= Fastest /\ One * u * f <= n
  <2>1. CASE u = 1
    <3>1. u * f = f /\ One * f <= One * Fastest /\ One * u * f = One * f
      BY <2>1, <1>1
    <3> QED
      BY <3>1, <1>1
  <2>2. CASE u # 1
    <3>1. One * (u * f) <= One * Fastest
      BY <2>2, <1>1, <1>3, <1>4
    <3>2. ~(u * f > Fastest)
      <4> SUFFICES ASSUME u * f >= Fastest + 1 PROVE FALSE
        BY <1>1, <1>4
      <4>1. One * (u * f) >= One * (Fastest + 1)
        BY <1>1, <1>4
      <4>2. One * (Fastest + 1) = One * Fastest + One
        BY <1>1
      <4> QED
        BY <4>1, <4>2, <3>1, <1>1, <1>4
    <3> QED
      BY <3>2, <2>2, <1>1, <1>3, <1>4
  <2> QED
    BY <2>1, <2>2
<1>7. u * m >= One /\ u * m \in Nat
  <2>1. m >= One
    BY <1>5, <1>6
  <2>2. u * m >= 1 * m
    BY <1>1, <1>4, <2>1
  <2> QED
    BY <2>1, <2>2, <1>1, <1>4
<1> HIDE DEF n, u
<1>8. Unit(f) = u /\ Ratio(f) = Rounded(n, f)
  BY DEF Unit, Ratio, Ratios, n, u
<1> QED
  BY <1>3, <1>5, <1>6, <1>7, <1>8 DEF n

(* Below the scale, a difference of scales and ones is not rounded: it is  *)
(* a whole number of the spacings that doubles have at the scale.          *)
LEMMA SumsAreExact ==
  ASSUME NEW f \in Frequencies, NEW c \in Nat, NEW n \in Nat, NEW x \in Nat,
         x = c * Ratio(f) - n * One, x < Ratio(f)
  PROVE  Rounded(x, 1) = x /\ x + Unit(f) <= Ratio(f)
<1> DEFINE u == Unit(f)
<1>1. PICK r \in Nat : Ratio(f) = u * r /\ r <= 2 * One
  BY RatioIsNear
<1>2. u \in Quanta
  BY RatioIsNear
<1>3. PICK k \in Nat \ {0} : One = u * k
  BY <1>2, QuantaDivide
<1>4. u \in Nat \ {0} /\ One \in Nat
  BY <1>2, QuantaDivide
<1> HIDE DEF u
<1> DEFINE m == c * r - n * k
<1>5. x = u * m
  <2>1. c * (u * r) - n * (u * k) = u * (c * r - n * k)
    BY <1>4
  <2> QED
    BY <2>1, <1>1, <1>3
<1>6. m \in Int
  OBVIOUS
<1> HIDE DEF m
<1>7. m >= 0
  <2> SUFFICES ASSUME m <= -1 PROVE FALSE
    BY <1>6
  <2>1. u * m <= -u
    BY <1>4, <1>6
  <2> QED
    BY <2>1, <1>4, <1>5
<1>8. m + 1 <= r
  <2> SUFFICES ASSUME m >= r PROVE FALSE
    BY <1>6
  <2>1. u * m >= u * r
    BY <1>4, <1>6
  <2> QED
    BY <2>1, <1>1, <1>4, <1>5, <1>6
<1>9. u * (m + 1) <= u * r /\ u * (m + 1) = u * m + u
  BY <1>4, <1>6, <1>8
<1>10. Rounded(u * m, 1) = u * m
  <2>1. m \in Nat /\ m < 2 * One
    BY <1>1, <1>4, <1>6, <1>7, <1>8
  <2> QED
    BY <2>1, <1>2, DoublesAreKept
<1> QED
  BY <1>1, <1>5, <1>9, <1>10 DEF u

(* CLOCK_SCALE is the scale less one.                                      *)
LEMMA ScaleIsLessOne == ASSUME NEW f \in Frequencies PROVE ClockScale(f) = Ratio(f) - One
<1>1. Ratio(f) \in Nat /\ Ratio(f) >= One /\ One \in Nat \ {0}
  BY RatioIsNear, QuantaDivide
<1>2. Ratio(f) - One = 1 * Ratio(f) - 1 * One /\ Ratio(f) - One \in Nat /\ Ratio(f) - One < Ratio(f)
  BY <1>1
<1> QED
  BY <1>2, SumsAreExact DEF ClockScale

(* leap_operation is what the operations done are worth, less the calls.   *)
SumIsLead ==
  \A f \in Frequencies :
    /\ leapOperation[f] = currentCycle[f] * Ratio(f) - called[f] * One
    /\ leapOperation[f] < Ratio(f)

ClockInv == ClockTypeOK /\ SumIsLead

(* The sums are 0 at first.                                                *)
LEMMA ClockInitially ==
  (leapOperation = None /\ currentCycle = None /\ called = None) => ClockInv
<1> SUFFICES ASSUME leapOperation = None, currentCycle = None, called = None PROVE ClockInv
  OBVIOUS
<1>1. ASSUME NEW f \in Frequencies
      PROVE  0 = 0 * Ratio(f) - 0 * One /\ 0 < Ratio(f)
  BY RatioIsNear, QuantaDivide
<1> QED
  BY <1>1 DEF None, ClockInv, ClockTypeOK, SumIsLead

(* Every step of the clock keeps the sum of each component its lead.       *)
LEMMA ClockInvStep == ClockInv /\ [OperableNext]_clockVars => ClockInv'
<1> SUFFICES ASSUME ClockInv, [OperableNext]_clockVars PROVE ClockInv'
  OBVIOUS
<1>1. CASE Restart
  <2>1. leapOperation' = None /\ currentCycle' = None /\ called' = None
    BY <1>1 DEF Restart
  <2>2. ASSUME NEW f \in Frequencies
        PROVE  0 = 0 * Ratio(f) - 0 * One /\ 0 < Ratio(f)
    BY RatioIsNear, QuantaDivide
  <2> QED
    BY <2>1, <2>2 DEF None, ClockInv, ClockTypeOK, SumIsLead
<1> USE DEF ClockInv, ClockTypeOK, SumIsLead
<1>2. ASSUME NEW g \in Frequencies, Leap(g) PROVE ClockInv'
  <2> DEFINE x == leapOperation[g] - One
             c == currentCycle[g]
             n == called[g]
             r == Ratio(g)
  <2>1. One \in Nat \ {0} /\ r \in Nat
    BY QuantaDivide, RatioIsNear
  <2>2. c \in Nat /\ n \in Nat /\ x \in Nat /\ leapOperation[g] = c * r - n * One /\ x < r
    BY <1>2, <2>1 DEF Leap
  <2>3. x = c * r - (n + 1) * One
    <3>1. (n + 1) * One = n * One + One
      BY <2>1, <2>2, OneMore
    <3> QED
      BY <3>1, <2>1, <2>2
  <2>4. Rounded(x, 1) = x
    BY <2>2, <2>3, SumsAreExact
  <2>5. /\ leapOperation' = [leapOperation EXCEPT ![g] = x]
        /\ called' = [called EXCEPT ![g] = n + 1] /\ currentCycle' = currentCycle
    BY <1>2, <2>4 DEF Leap
  <2> HIDE DEF x, c, n, r
  <2>6. ClockTypeOK'
    BY <2>2, <2>5
  <2>7. ASSUME NEW f \in Frequencies
        PROVE /\ leapOperation'[f] = currentCycle'[f] * Ratio(f) - called'[f] * One
              /\ leapOperation'[f] < Ratio(f)
    <3>1. CASE f = g
      BY <3>1, <2>2, <2>3, <2>5 DEF c, r
    <3>2. CASE f # g
      BY <3>2, <2>5
    <3> QED
      BY <3>1, <3>2
  <2> QED
    BY <2>6, <2>7
<1>3. ASSUME NEW g \in Frequencies, OperateOnce(g) PROVE ClockInv'
  <2> DEFINE x == leapOperation[g] + (Ratio(g) - One)
             c == currentCycle[g]
             n == called[g]
             r == Ratio(g)
  <2>1. One \in Nat \ {0} /\ r \in Nat /\ r >= One
    BY QuantaDivide, RatioIsNear
  <2>2. c \in Nat /\ n \in Nat /\ x \in Nat /\ leapOperation[g] = c * r - n * One /\ x < r
    BY <1>3, <2>1 DEF OperateOnce
  <2>3. x = (c + 1) * r - (n + 1) * One
    <3>1. (n + 1) * One = n * One + One /\ (c + 1) * r = c * r + r
      BY <2>1, <2>2, OneMore
    <3> QED
      BY <3>1, <2>1, <2>2
  <2>4. Rounded(x, 1) = x /\ ClockScale(g) = r - One
    BY <2>2, <2>3, SumsAreExact, ScaleIsLessOne
  <2>5. /\ leapOperation' = [leapOperation EXCEPT ![g] = x]
        /\ called' = [called EXCEPT ![g] = n + 1]
        /\ currentCycle' = [currentCycle EXCEPT ![g] = c + 1]
    BY <1>3, <2>4 DEF OperateOnce
  <2> HIDE DEF x, c, n, r
  <2>6. ClockTypeOK'
    BY <2>2, <2>5
  <2>7. ASSUME NEW f \in Frequencies
        PROVE /\ leapOperation'[f] = currentCycle'[f] * Ratio(f) - called'[f] * One
              /\ leapOperation'[f] < Ratio(f)
    <3>1. CASE f = g
      BY <3>1, <2>2, <2>3, <2>5 DEF r
    <3>2. CASE f # g
      BY <3>2, <2>5
    <3> QED
      BY <3>1, <3>2
  <2> QED
    BY <2>6, <2>7
<1>4. CASE UNCHANGED clockVars
  BY <1>4 DEF clockVars
<1> QED
  BY <1>1, <1>2, <1>3, <1>4 DEF OperableNext

(* What a component is ahead of its frequency is what leap_operation holds *)
(* less the error of the scale, once for each operation.                   *)
LEMMA LeadIsSum ==
  ASSUME NEW c \in Int, NEW n \in Int, NEW r \in Int, NEW f \in Int, NEW o \in Int, NEW F \in Int
  PROVE  2 * o * (c * F - n * f) = 2 * (f * (c * r - n * o)) - c * (2 * (r * f) - 2 * (o * F))
  OBVIOUS

(* The sums of the components keep them at their pace.                     *)
LEMMA SumKeepsPace == ClockInv => KeepsPace
<1> SUFFICES ASSUME ClockInv, NEW f \in Frequencies
             PROVE  /\ currentCycle[f] * Ratio(f) - called[f] * One \in 0 .. Ratio(f) - 1
                    /\ 2 * One * (currentCycle[f] * Fastest - called[f] * f)
                         \in -(currentCycle[f] * Fastest) .. 2 * One * Fastest + currentCycle[f] * Fastest
                    /\ Ratio(f) * f = One * Fastest =>
                         currentCycle[f] * Fastest - called[f] * f \in 0 .. Fastest - 1
  BY DEF KeepsPace
<1> DEFINE x == leapOperation[f]
           c == currentCycle[f]
           n == called[f]
           r == Ratio(f)
           u == Unit(f)
           error == 2 * (r * f) - 2 * (One * Fastest)
           lead == c * Fastest - n * f
<1>1. /\ One \in Nat \ {0} /\ Fastest \in Nat \ {0} /\ f \in Nat \ {0} /\ r \in Nat
      /\ u \in Nat \ {0} /\ u * f <= Fastest
      /\ -(u * f) <= error /\ error <= u * f
  <2>1. u \in Nat \ {0} /\ One \in Nat \ {0} /\ f \in Nat \ {0} /\ Fastest \in Nat \ {0}
    BY QuantaDivide, RatioIsNear, FastestIsHighest
  <2>2. /\ u * f <= Fastest /\ r \in Nat
        /\ 2 * (One * Fastest) - u * f <= 2 * (r * f)
        /\ 2 * (r * f) <= 2 * (One * Fastest) + u * f
    BY RatioIsNear
  <2> HIDE DEF u, r
  <2> QED
    BY <2>1, <2>2
<1>2. x \in Nat /\ c \in Nat /\ n \in Nat /\ x = c * r - n * One /\ x < r
  BY DEF ClockInv, ClockTypeOK, SumIsLead
<1>3. x + u <= r
  BY <1>2, SumsAreExact
<1> HIDE DEF x, c, n, r, u
<1>4. 2 * One * lead = 2 * (f * x) - c * error
  BY <1>1, <1>2, LeadIsSum
<1>5. lead \in Int /\ error \in Int
  BY <1>1, <1>2
<1>6. f * x >= 0 /\ f * (x + u) <= f * r /\ f * (x + u) = f * x + u * f /\ f * r = r * f
  BY <1>1, <1>2, <1>3
<1>7. -(c * Fastest) <= c * error /\ c * error <= c * Fastest
  <2>1. -Fastest <= error /\ error <= Fastest
    BY <1>1, <1>5
  <2> HIDE DEF error
  <2>2. c * (-Fastest) <= c * error /\ c * error <= c * Fastest /\ c * (-Fastest) = -(c * Fastest)
    BY <2>1, <1>1, <1>2, <1>5
  <2> QED
    BY <2>2
<1>8. 2 * (f * x) <= 2 * (One * Fastest)
  <2>1. 2 * (f * x) + 2 * (u * f) <= 2 * (r * f)
    BY <1>1, <1>2, <1>6
  <2>2. 2 * (r * f) <= 2 * (One * Fastest) + u * f /\ u * f >= 0
    BY <1>1
  <2> QED
    BY <2>1, <2>2, <1>1, <1>2
<1>9. 2 * One * lead \in -(c * Fastest) .. 2 * One * Fastest + c * Fastest
  <2>1. 2 * (One * Fastest) = 2 * One * Fastest
    BY <1>1
  <2> DEFINE p == c * error
             d == c * Fastest
             y == f * x
             t == 2 * One * lead
             e == 2 * One * Fastest
  <2>2. p \in Int /\ d \in Int /\ y \in Int /\ t \in Int /\ e \in Int
    BY <1>1, <1>2, <1>5
  <2>3. t = 2 * y - p /\ -d <= p /\ p <= d /\ y >= 0 /\ 2 * y <= e
    BY <1>4, <1>6, <1>7, <1>8, <2>1
  <2> HIDE DEF p, d, y, t, e
  <2>4. t \in -d .. e + d
    BY <2>2, <2>3
  <2> QED
    BY <2>4 DEF d, t, e
<1>10. ASSUME r * f = One * Fastest PROVE lead \in 0 .. Fastest - 1
  <2>1. c * error = 0
    <3>1. error = 0
      BY <1>1, <1>2, <1>10
    <3> QED
      BY <3>1, <1>2
  <2>2. f * x = One * lead
    BY <2>1, <1>1, <1>2, <1>4, <1>5
  <2>3. f * x < One * Fastest
    <3>1. u * f >= 1
      BY <1>1
    <3> QED
      BY <3>1, <1>1, <1>2, <1>6, <1>10
  <2> HIDE DEF lead
  <2>4. ~(lead <= -1)
    <3> SUFFICES ASSUME lead <= -1 PROVE FALSE
      OBVIOUS
    <3>1. One * lead <= -One
      BY <1>1, <1>5
    <3> QED
      BY <3>1, <2>2, <1>1, <1>2, <1>5, <1>6
  <2>5. ~(lead >= Fastest)
    <3> SUFFICES ASSUME lead >= Fastest PROVE FALSE
      OBVIOUS
    <3>1. One * lead >= One * Fastest
      BY <1>1, <1>5
    <3> QED
      BY <3>1, <2>2, <2>3, <1>1, <1>2, <1>5
  <2> QED
    BY <2>4, <2>5, <1>1, <1>5
<1>11. x \in 0 .. r - 1
  BY <1>1, <1>2
<1> QED
  BY <1>2, <1>9, <1>10, <1>11 DEF c, n, r
(***************************************************************************)
(* What a component operated is worth, less the calls, is always exactly   *)
(* what its leap_operation holds: no sum of the clock is rounded.          *)
(***************************************************************************)
THEOREM ClockInvariance == OperableSpec => []ClockInv
<1>1. OperableInit => ClockInv
  BY ClockInitially DEF OperableInit
<1> QED
  BY <1>1, ClockInvStep, PTL DEF OperableSpec

(***************************************************************************)
(* For any frequencies, any precision of the doubles and any number of     *)
(* cycles, a component has operated as often as its rounded scale asks,    *)
(* rounded up, and drifts from its frequency by no more than half the last *)
(* bit of the scale for each operation.                                    *)
(***************************************************************************)
THEOREM KeepsPaceAlways == OperableSpec => []KeepsPace
BY SumKeepsPace, ClockInvariance, PTL
-----------------------------------------------------------------------------
(* The place of the return address stack that is k below place i.          *)
Under(i, k) == IF i >= k THEN i - k ELSE i - k + RasSize

Addresses == {b.ip : b \in Branches}

(* The stack holds the latest calls that have not returned, the latest on  *)
(* top, as many as are intact, and nothing below them.                     *)
StackInv ==
  /\ rasIndex \in Stack /\ ras \in [Stack -> Addresses \union {0}]
  /\ calls \in Seq(Addresses) /\ Len(calls) <= MaxCalls
  /\ intact \in 0 .. RasSize /\ intact <= Len(calls)
  /\ \A k \in Stack :
       ras[Under(rasIndex, k)] = IF k < intact THEN calls[Len(calls) - k] ELSE 0

(* A tracker has the size of the call that trained it last.                *)
TrackerInv ==
  /\ callSizes \in [0 .. CallTrackers - 1 -> Nat]
  /\ \A t \in 0 .. CallTrackers - 1 : callSizes[t] <= MaxCallSize \/ callSizes[t] <= 4
  /\ lastReturned \in [0 .. CallTrackers - 1 -> Addresses \union {0}]
  /\ \A t \in 0 .. CallTrackers - 1 :
       lastReturned[t] # 0 =>
         \E b \in Branches : b.ip = lastReturned[t] /\ b.size = callSizes[t]

(* No branch has two entries, the counter is above every entry in use, and *)
(* the entries are ordered by their fields as by their last uses.          *)
Entry == [ipTag : Addresses \union {0}, target : Targets, alwaysTaken : BOOLEAN, lru : Nat]

InUse(s, w) == entries[s][w].ipTag # 0

EntriesInv ==
  /\ entries \in [Sets -> [Ways -> Entry]] /\ lruCounter \in Nat
  /\ DOMAIN lastUses = Sets
  /\ \A s \in Sets, w \in Ways :
       /\ entries[s][w].lru <= lruCounter
       /\ InUse(s, w) => entries[s][w].lru < lruCounter
  /\ \A s \in Sets : \A v, w \in Ways :
       InUse(s, v) /\ InUse(s, w) =>
         /\ v # w => entries[s][v].ipTag # entries[s][w].ipTag
         /\ <<entries[s][v].ipTag, entries[s][w].ipTag>> \in lastUses[s]
              <=> entries[s][w].lru <= entries[s][v].lru

BtbIInv ==
  /\ resolving \in Branches \union {Resolved} /\ conditionalHistory \in 0 .. HistoryMask - 1
  /\ StackInv /\ TrackerInv /\ EntriesInv

(* The sizes of the tables.                                                *)
LEMMA BtbNumbers ==
  /\ BtbSets \in Nat \ {0} /\ BtbWays \in Nat \ {0} /\ RasSize \in Nat \ {0}
  /\ CallTrackers \in Nat \ {0} /\ HistoryMask \in Nat \ {0}
  /\ MaxCallSize \in Nat /\ MaxCalls \in Nat /\ MaxCalls >= RasSize
BY BtbAssumption

(* The branches of the program, by their addresses.                        *)
LEMMA TheBranches ==
  ASSUME NEW b \in Branches
  PROVE  /\ b.ip \in Nat \ {0} /\ b.size \in Nat /\ b.targets \subseteq Nat /\ b.type # "NONE"
         /\ b.ip \in Addresses /\ b # Resolved
<1>1. b.ip \in Nat \ {0} /\ b.size \in Nat /\ b.targets \subseteq Nat /\ b.type # "NONE"
  BY BtbAssumption
<1> QED
  BY <1>1 DEF Addresses, Resolved

(* No branch is at address 0.                                              *)
LEMMA TheAddresses ==
  /\ Addresses \subseteq Nat /\ 0 \notin Addresses
  /\ Addresses \union {0} \subseteq Nat
BY TheBranches DEF Addresses

(* Under a place of the stack, going round.                                *)
LEMMA BelowFits ==
  ASSUME NEW i \in Stack, NEW k \in Stack
  PROVE  Under(i, k) \in Stack /\ Under(i, 0) = i /\ (Under(i, k) = i <=> k = 0)
BY BtbNumbers DEF Under, Stack

(* A push moves what is below the top one further down.                    *)
LEMMA BelowPushed ==
  ASSUME NEW i \in Stack, NEW k \in Stack, k # 0
  PROVE  /\ k - 1 \in Stack
         /\ Under(IF i + 1 = RasSize THEN 0 ELSE i + 1, k) = Under(i, k - 1)
BY BtbNumbers DEF Under, Stack

(* A pop moves it one up again.                                            *)
LEMMA BelowPopped ==
  ASSUME NEW i \in Stack, NEW k \in Stack
  PROVE  /\ k + 1 \in Stack =>
              Under(IF i = 0 THEN RasSize - 1 ELSE i - 1, k) = Under(i, k + 1)
         /\ k + 1 \notin Stack =>
              k = RasSize - 1 /\ Under(IF i = 0 THEN RasSize - 1 ELSE i - 1, k) = i
BY BtbNumbers DEF Under, Stack

(* The smaller and the larger of two numbers.                              *)
LEMMA MinOfTwo ==
  ASSUME NEW a \in Int, NEW b \in Int
  PROVE  Min({a, b}) = IF a <= b THEN a ELSE b
<1>1. \E x \in {a, b} : \A y \in {a, b} : x <= y
  BY Z3
<1>2. Min({a, b}) \in {a, b} /\ \A y \in {a, b} : Min({a, b}) <= y
  BY <1>1 DEF Min
<1> QED
  BY <1>2

(* The larger of two numbers.                                              *)
LEMMA MaxOfTwo ==
  ASSUME NEW a \in Int, NEW b \in Int
  PROVE  Max({a, b}) = IF a >= b THEN a ELSE b
<1>1. \E x \in {a, b} : \A y \in {a, b} : x >= y
  BY Z3
<1>2. Max({a, b}) \in {a, b} /\ \A y \in {a, b} : Max({a, b}) >= y
  BY <1>1 DEF Max
<1> QED
  BY <1>2

(* The latest call is remembered, and those before it in their order.      *)
IsRemembered(new, cs, ip) ==
  /\ new \in Seq(Addresses) /\ Len(new) <= MaxCalls /\ Len(new) \in Nat
  /\ Len(new) = Len(cs) + 1 \/ Len(new) = MaxCalls
  /\ Len(new) # 0 /\ new[Len(new)] = ip
  /\ \A k \in Nat : 1 <= k /\ k < Len(new) => new[Len(new) - k] = cs[Len(cs) - (k - 1)]

(* Remembering one more call keeps the latest of those before.             *)
LEMMA CallsRemembered ==
  ASSUME NEW cs \in Seq(Addresses), Len(cs) <= MaxCalls, NEW ip \in Addresses
  PROVE  IsRemembered(Remembered(cs, ip), cs, ip)
<1> DEFINE new == Remembered(cs, ip)
<1> DEFINE longer == Append(cs, ip)
           n == Len(cs)
<1>1. /\ longer \in Seq(Addresses) /\ Len(longer) = n + 1 /\ n \in Nat
      /\ \A i \in 1 .. n : longer[i] = cs[i]
      /\ longer[n + 1] = ip
  BY AppendProperties, LenProperties
<1>2. n <= MaxCalls /\ MaxCalls \in Nat /\ MaxCalls > 0
  BY BtbNumbers
<1>3. new = IF Len(longer) > MaxCalls THEN Tail(longer) ELSE longer
  BY DEF Remembered
<1> HIDE DEF longer, n, new
<1> SUFFICES IsRemembered(new, cs, ip)
  BY DEF new
<1>4. CASE n + 1 > MaxCalls
  <2>1. new = Tail(longer) /\ longer # <<>>
    BY <1>1, <1>3, <1>4, EmptySeq
  <2>2. /\ new \in Seq(Addresses) /\ Len(new) = n
        /\ \A i \in 1 .. n : new[i] = longer[i + 1]
    <3>1. /\ Tail(longer) \in Seq(Addresses) /\ Len(Tail(longer)) = Len(longer) - 1
          /\ \A i \in 1 .. Len(Tail(longer)) : Tail(longer)[i] = longer[i + 1]
      BY <1>1, <2>1, HeadTailProperties, Zenon
    <3>2. Len(longer) - 1 = n
      BY <1>1
    <3> QED
      BY <2>1, <3>1, <3>2
  <2>3. n = MaxCalls /\ n \in 1 .. n
    BY <1>1, <1>2, <1>4
  <2>4. new[n] = ip
    BY <1>1, <2>2, <2>3
  <2>5. ASSUME NEW k \in Nat, 1 <= k, k < n
        PROVE  new[n - k] = cs[n - (k - 1)]
    <3>1. n - k \in 1 .. n /\ n - k + 1 \in 1 .. n /\ n - k + 1 = n - (k - 1)
      BY <1>1, <2>5
    <3> QED
      BY <1>1, <2>2, <3>1
  <2>6. Len(new) = MaxCalls /\ Len(new) # 0 /\ Len(new) <= MaxCalls /\ Len(new) \in Nat
    BY <1>1, <1>2, <2>2, <2>3
  <2> QED
    BY <2>2, <2>4, <2>5, <2>6 DEF n, IsRemembered
<1>5. CASE ~(n + 1 > MaxCalls)
  <2>1. new = longer
    BY <1>1, <1>3, <1>5
  <2>2. ASSUME NEW k \in Nat, 1 <= k, k < n + 1
        PROVE  new[n + 1 - k] = cs[n - (k - 1)]
    <3>1. n + 1 - k \in 1 .. n /\ n + 1 - k = n - (k - 1)
      BY <1>1, <2>2
    <3> QED
      BY <1>1, <2>1, <3>1
  <2> QED
    BY <1>1, <1>2, <1>5, <2>1, <2>2 DEF n, IsRemembered
<1> QED
  BY <1>4, <1>5

(* A call goes on top of those the stack holds.                            *)
LEMMA StackPushKeeps ==
  ASSUME StackInv, NEW ip \in Addresses, Push(ip),
         calls' = Remembered(calls, ip),
         intact' = Min({intact + 1, RasSize})
  PROVE  StackInv'
<1> DEFINE n == Len(calls)
           m == Len(calls')
           top == IF rasIndex + 1 = RasSize THEN 0 ELSE rasIndex + 1
<1>1. /\ rasIndex \in Stack /\ ras \in [Stack -> Addresses \union {0}]
      /\ calls \in Seq(Addresses) /\ n <= MaxCalls
      /\ intact \in 0 .. RasSize /\ intact <= n /\ n \in Nat
      /\ \A k \in Stack :
           ras[Under(rasIndex, k)] = IF k < intact THEN calls[n - k] ELSE 0
  BY LenProperties DEF StackInv
<1>2. /\ calls' \in Seq(Addresses) /\ m <= MaxCalls /\ m \in Nat
      /\ m = n + 1 \/ m = MaxCalls
      /\ m # 0 /\ calls'[m] = ip
      /\ \A k \in Nat : 1 <= k /\ k < m => calls'[m - k] = calls[n - (k - 1)]
  <2>1. IsRemembered(calls', calls, ip)
    BY <1>1, CallsRemembered
  <2> QED
    BY <2>1 DEF IsRemembered
<1>3. intact' = IF intact + 1 <= RasSize THEN intact + 1 ELSE RasSize
  BY <1>1, BtbNumbers, MinOfTwo
<1>4. rasIndex' = top /\ ras' = [ras EXCEPT ![top] = ip] /\ top \in Stack
  BY <1>1, BtbNumbers DEF Push, Stack
<1> HIDE DEF n, m, top
<1>5. intact' \in 0 .. RasSize /\ intact' <= m /\ 0 < intact'
  BY <1>1, <1>2, <1>3, BtbNumbers
<1>6. ASSUME NEW k \in Stack
      PROVE  ras'[Under(rasIndex', k)] = IF k < intact' THEN calls'[m - k] ELSE 0
  <2>1. CASE k = 0
    <3>1. Under(rasIndex', k) = top
      BY <1>4, <2>1, BelowFits
    <3>2. m - k = m
      BY <1>2, <2>1
    <3> QED
      BY <1>1, <1>2, <1>4, <1>5, <2>1, <3>1, <3>2
  <2>2. CASE k # 0
    <3>1. Under(rasIndex', k) = Under(rasIndex, k - 1) /\ k - 1 \in Stack
      BY <1>1, <1>4, <2>2, BelowPushed DEF top
    <3>2. Under(rasIndex', k) # top /\ Under(rasIndex', k) \in Stack
      BY <1>4, <2>2, BelowFits
    <3>3. ras'[Under(rasIndex', k)] = ras[Under(rasIndex, k - 1)]
      BY <1>1, <1>4, <3>1, <3>2
    <3>4. ras[Under(rasIndex, k - 1)] = IF k - 1 < intact THEN calls[n - (k - 1)] ELSE 0
      BY <1>1, <3>1
    <3>5. k \in Nat /\ 1 <= k /\ k < RasSize
      BY <2>2, BtbNumbers DEF Stack
    <3>6. k - 1 < intact <=> k < intact'
      BY <1>1, <1>3, <3>5, BtbNumbers
    <3>7. k < intact' => calls'[m - k] = calls[n - (k - 1)]
      <4>1. k < intact' => k < m
        BY <1>2, <1>5, <3>5
      <4> QED
        BY <1>2, <3>5, <4>1
    <3> QED
      BY <3>3, <3>4, <3>6, <3>7
  <2> QED
    BY <2>1, <2>2
<1>7. ras' \in [Stack -> Addresses \union {0}]
  BY <1>1, <1>4
<1> QED
  BY <1>2, <1>4, <1>5, <1>6, <1>7 DEF StackInv, m

(* A return takes the latest call away.                                    *)
LEMMA StackPopKeeps ==
  ASSUME StackInv, Pop,
         calls' = IF calls = <<>> THEN <<>> ELSE Front(calls),
         intact' = Max({intact - 1, 0})
  PROVE  StackInv'
<1> DEFINE n == Len(calls)
           m == Len(calls')
<1>1. /\ rasIndex \in Stack /\ ras \in [Stack -> Addresses \union {0}]
      /\ calls \in Seq(Addresses) /\ n <= MaxCalls
      /\ intact \in 0 .. RasSize /\ intact <= n /\ n \in Nat
      /\ \A k \in Stack :
           ras[Under(rasIndex, k)] = IF k < intact THEN calls[n - k] ELSE 0
  BY LenProperties DEF StackInv
<1>2. /\ calls' \in Seq(Addresses) /\ m \in Nat
      /\ m = IF n = 0 THEN 0 ELSE n - 1
      /\ \A i \in 1 .. m : calls'[i] = calls[i]
  <2>1. CASE calls = <<>>
    BY <1>1, <2>1, EmptySeq
  <2>2. CASE calls # <<>>
    <3>1. calls' = SubSeq(calls, 1, n - 1) /\ n # 0
      BY <1>1, <2>2, EmptySeq DEF Front
    <3>2. \A i \in 1 .. n - 1 : calls[i] \in Addresses
      BY <1>1, ElementOfSeq
    <3>3. /\ SubSeq(calls, 1, n - 1) \in Seq(Addresses)
          /\ Len(SubSeq(calls, 1, n - 1)) = IF 1 <= n - 1 THEN n - 1 - 1 + 1 ELSE 0
          /\ \A i \in 1 .. n - 1 - 1 + 1 : SubSeq(calls, 1, n - 1)[i] = calls[1 + i - 1]
      <4>1. 1 \in Int /\ n - 1 \in Int
        BY <1>1
      <4> HIDE DEF n
      <4> QED
        BY <3>2, <4>1, SubSeqProperties
    <3> HIDE DEF n
    <3>4. (IF 1 <= n - 1 THEN n - 1 - 1 + 1 ELSE 0) = n - 1 /\ n - 1 - 1 + 1 = n - 1
      BY <1>1, <3>1
    <3>5. \A i \in 1 .. n - 1 : 1 + i - 1 = i
      BY <1>1
    <3>6. m = n - 1 /\ \A i \in 1 .. n - 1 : calls'[i] = calls[i]
      BY <3>1, <3>3, <3>4, <3>5
    <3> QED
      BY <1>1, <3>1, <3>3, <3>6
  <2> QED
    BY <2>1, <2>2
<1>3. intact' = IF intact >= 1 THEN intact - 1 ELSE 0
  BY <1>1, BtbNumbers, MaxOfTwo
<1>4. /\ rasIndex' = (IF rasIndex = 0 THEN RasSize - 1 ELSE rasIndex - 1)
      /\ ras' = [ras EXCEPT ![rasIndex] = 0]
  BY DEF Pop
<1> HIDE DEF n, m
<1>5. intact' \in 0 .. RasSize /\ intact' <= m /\ m <= MaxCalls
  BY <1>1, <1>2, <1>3, BtbNumbers
<1>6. rasIndex' \in Stack /\ ras' \in [Stack -> Addresses \union {0}]
  BY <1>1, <1>4, BtbNumbers DEF Stack
<1>7. ASSUME NEW k \in Stack
      PROVE  ras'[Under(rasIndex', k)] = IF k < intact' THEN calls'[m - k] ELSE 0
  <2>0. k \in Nat /\ k < RasSize
    BY BtbNumbers DEF Stack
  <2>1. CASE k + 1 \in Stack
    <3>1. Under(rasIndex', k) = Under(rasIndex, k + 1)
      BY <1>1, <1>4, <2>1, BelowPopped
    <3>2. Under(rasIndex, k + 1) \in Stack /\ Under(rasIndex, k + 1) # rasIndex
      BY <1>1, <2>0, <2>1, BelowFits
    <3>3. ras'[Under(rasIndex', k)] = IF k + 1 < intact THEN calls[n - (k + 1)] ELSE 0
      BY <1>1, <1>4, <2>1, <3>1, <3>2
    <3>4. k + 1 < intact <=> k < intact'
      BY <1>1, <1>3, <2>0
    <3>5. k < intact' => calls'[m - k] = calls[n - (k + 1)]
      <4> SUFFICES ASSUME k < intact' PROVE calls'[m - k] = calls[n - (k + 1)]
        OBVIOUS
      <4>1. m = n - 1 /\ m - k \in 1 .. m /\ m - k = n - (k + 1)
        BY <1>1, <1>2, <1>3, <1>5, <2>0
      <4> QED
        BY <1>2, <4>1
    <3> QED
      BY <3>3, <3>4, <3>5
  <2>2. CASE k + 1 \notin Stack
    <3>1. k = RasSize - 1 /\ Under(rasIndex', k) = rasIndex
      BY <1>1, <1>4, <2>2, BelowPopped
    <3>2. ras'[rasIndex] = 0
      BY <1>1, <1>4
    <3>3. ~(k < intact')
      BY <1>1, <1>3, <3>1, BtbNumbers
    <3> QED
      BY <3>1, <3>2, <3>3
  <2> QED
    BY <2>1, <2>2
<1> QED
  BY <1>2, <1>5, <1>6, <1>7 DEF StackInv, m

(* What the top of the stack is, and where a return goes.                  *)
LEMMA TopOfStack ==
  ASSUME StackInv
  PROVE  /\ Peek \in Addresses \union {0} /\ Peek \in Nat
         /\ intact = 0 => Peek = 0
         /\ intact > 0 => calls # <<>> /\ Peek = Last(calls) /\ Peek # 0
<1>1. /\ rasIndex \in Stack /\ ras \in [Stack -> Addresses \union {0}]
      /\ calls \in Seq(Addresses) /\ Len(calls) \in Nat
      /\ intact \in 0 .. RasSize /\ intact <= Len(calls)
      /\ \A k \in Stack :
           ras[Under(rasIndex, k)] = IF k < intact THEN calls[Len(calls) - k] ELSE 0
  BY LenProperties DEF StackInv
<1>2. 0 \in Stack /\ Under(rasIndex, 0) = rasIndex
  BY <1>1, BtbNumbers, BelowFits DEF Stack
<1>3. Peek = IF 0 < intact THEN calls[Len(calls) - 0] ELSE 0
  BY <1>1, <1>2 DEF Peek
<1>4. Len(calls) - 0 = Len(calls) /\ intact \in Nat
  BY <1>1, BtbNumbers
<1>5. Peek \in Addresses \union {0} /\ Peek \in Nat
  BY <1>1, TheAddresses DEF Peek
<1>6. ASSUME intact > 0
      PROVE  calls # <<>> /\ Peek = Last(calls) /\ Peek # 0
  <2>1. Len(calls) > 0 /\ Len(calls) \in 1 .. Len(calls)
    BY <1>1, <1>4, <1>6
  <2>2. calls # <<>>
    BY <2>1, EmptySeq
  <2>3. Peek = Last(calls)
    BY <1>3, <1>4, <1>6 DEF Last
  <2>4. calls[Len(calls)] \in Addresses
    BY <1>1, <2>1, ElementOfSeq
  <2> QED
    BY <2>2, <2>3, <2>4, TheAddresses DEF Last
<1> QED
  BY <1>3, <1>4, <1>5, <1>6

(* An update of a return trains the tracker of its call alone.             *)
LEMMA TrackersKeep ==
  ASSUME StackInv, TrackerInv, NEW target \in Nat, UpdateReturn(target)
  PROVE  TrackerInv'
<1> DEFINE size == IF Peek > target THEN Peek - target ELSE target - Peek
           tracker == Tracker(Peek)
           Trackers == 0 .. CallTrackers - 1
<1>1. /\ target \in (IF calls = <<>> THEN resolving.targets
                     ELSE {b.ip + b.size : b \in {c \in Branches : c.ip = Last(calls)}})
      /\ IF size <= MaxCallSize
         THEN /\ callSizes' = [callSizes EXCEPT ![tracker] = size]
              /\ lastReturned' = [lastReturned EXCEPT ![tracker] = Peek]
         ELSE callSizes' = callSizes /\ lastReturned' = lastReturned
  BY DEF UpdateReturn
<1>2. /\ callSizes \in [Trackers -> Nat] /\ lastReturned \in [Trackers -> Addresses \union {0}]
      /\ \A t \in Trackers : callSizes[t] <= MaxCallSize \/ callSizes[t] <= 4
      /\ \A t \in Trackers :
           lastReturned[t] # 0 =>
             \E b \in Branches : b.ip = lastReturned[t] /\ b.size = callSizes[t]
  BY DEF TrackerInv
<1>3. Peek \in Addresses \union {0} /\ Peek \in Nat
  BY TopOfStack
<1>4. tracker \in Trackers /\ size \in Nat
  BY <1>3, BtbNumbers DEF Tracker
<1>5. Peek # 0 => \E b \in Branches : b.ip = Peek /\ b.size = size
  <2> SUFFICES ASSUME Peek # 0 PROVE \E b \in Branches : b.ip = Peek /\ b.size = size
    OBVIOUS
  <2>1. calls # <<>> /\ Peek = Last(calls)
    <3>1. intact # 0 /\ intact \in 0 .. RasSize
      BY TopOfStack DEF StackInv
    <3>2. intact > 0
      BY <3>1, BtbNumbers
    <3> QED
      BY <3>2, TopOfStack
  <2>2. PICK b \in Branches : b.ip = Peek /\ target = b.ip + b.size
    BY <1>1, <2>1
  <2>3. b.size = size
    BY <1>3, <2>2, TheBranches
  <2> QED
    BY <2>2, <2>3
<1> HIDE DEF size, tracker, Trackers
<1>6. CASE size <= MaxCallSize
  <2>1. /\ callSizes' = [callSizes EXCEPT ![tracker] = size]
        /\ lastReturned' = [lastReturned EXCEPT ![tracker] = Peek]
    BY <1>1, <1>6
  <2>2. /\ callSizes' \in [Trackers -> Nat]
        /\ lastReturned' \in [Trackers -> Addresses \union {0}]
    BY <1>2, <1>3, <1>4, <2>1
  <2>3. ASSUME NEW t \in Trackers
        PROVE  callSizes'[t] <= MaxCallSize \/ callSizes'[t] <= 4
    BY <1>2, <1>4, <1>6, <2>1, <2>3
  <2>4. ASSUME NEW t \in Trackers, lastReturned'[t] # 0
        PROVE  \E b \in Branches : b.ip = lastReturned'[t] /\ b.size = callSizes'[t]
    <3>1. CASE t = tracker
      <4>1. lastReturned'[t] = Peek /\ callSizes'[t] = size
        BY <1>2, <1>4, <2>1, <3>1
      <4> QED
        BY <1>5, <2>4, <4>1
    <3>2. CASE t # tracker
      <4>1. lastReturned'[t] = lastReturned[t] /\ callSizes'[t] = callSizes[t]
        BY <1>2, <1>4, <2>1, <2>4, <3>2
      <4> QED
        BY <1>2, <2>4, <4>1
    <3> QED
      BY <3>1, <3>2
  <2> QED
    BY <2>2, <2>3, <2>4 DEF TrackerInv, Trackers
<1>7. CASE ~(size <= MaxCallSize)
  BY <1>1, <1>2, <1>7 DEF TrackerInv, Trackers
<1> QED
  BY <1>6, <1>7

(* The top of the stack and its tracker give where a return goes.          *)
LEMMA ReturnIsFound ==
  ASSUME StackInv, TrackerInv
  PROVE  ReturnsFindTheirCalls
<1> SUFFICES ASSUME intact > 0, lastReturned[Tracker(Last(calls))] = Last(calls)
             PROVE  ReturnTarget \in {b.ip + b.size : b \in {c \in Branches : c.ip = Last(calls)}}
  BY DEF ReturnsFindTheirCalls
<1>1. Peek = Last(calls) /\ Peek # 0 /\ Peek \in Nat
  BY TopOfStack
<1>2. Tracker(Peek) \in 0 .. CallTrackers - 1
  BY <1>1, BtbNumbers DEF Tracker
<1>3. PICK b \in Branches : b.ip = Peek /\ b.size = callSizes[Tracker(Peek)]
  BY <1>1, <1>2 DEF TrackerInv
<1> QED
  BY <1>1, <1>3 DEF ReturnTarget

-----------------------------------------------------------------------------
(* Ranks are ordered as the values they stand for.                         *)
LEMMA RankOrders ==
  ASSUME NEW n \in Nat, NEW values \in SUBSET (0 .. n), NEW a \in values, NEW b \in values
  PROVE  Rank(a, values) \in Nat /\ (Rank(a, values) <= Rank(b, values) <=> a <= b)
<1> DEFINE under(x) == {other \in values : other < x}
<1>1. IsFiniteSet(0 .. n) /\ values \subseteq Nat
  BY FS_Interval
<1>2. IsFiniteSet(values)
  BY <1>1, FS_Subset
<1>3. \A x : IsFiniteSet(under(x)) /\ Cardinality(under(x)) \in Nat
  <2> SUFFICES ASSUME NEW x PROVE IsFiniteSet(under(x)) /\ Cardinality(under(x)) \in Nat
    OBVIOUS
  <2>1. under(x) \subseteq values
    OBVIOUS
  <2>2. IsFiniteSet(under(x))
    BY <1>2, <2>1, FS_Subset
  <2> QED
    BY <2>2, FS_CardinalityType
<1>4. ASSUME NEW x \in values, NEW y \in values, x <= y
      PROVE  Cardinality(under(x)) <= Cardinality(under(y))
  <2>0. \A other \in values : other < x => other < y
    <3>1. x \in Nat /\ y \in Nat /\ \A other \in values : other \in Nat
      BY <1>1
    <3> QED
      BY <1>4, <3>1
  <2>1. under(x) \subseteq under(y)
    BY <2>0
  <2> QED
    BY <1>3, <2>1, FS_Subset
<1>5. ASSUME NEW x \in values, NEW y \in values, x < y
      PROVE  Cardinality(under(x)) < Cardinality(under(y))
  <2>0. x \in Nat /\ y \in Nat /\ \A other \in values : other < x => other < y
    <3>1. x \in Nat /\ y \in Nat /\ \A other \in values : other \in Nat
      BY <1>1
    <3> QED
      BY <1>5, <3>1
  <2>1. under(x) \subseteq under(y) /\ x \in under(y) /\ x \notin under(x)
    <3>1. under(x) \subseteq under(y)
      BY <2>0
    <3>2. ~(x < x)
      BY <2>0
    <3> QED
      BY <1>5, <3>1, <3>2
  <2>2. under(x) # under(y)
    BY <2>1
  <2>3. /\ Cardinality(under(x)) <= Cardinality(under(y))
        /\ Cardinality(under(y)) = Cardinality(under(x)) => under(x) = under(y)
    BY <1>3, <2>1, FS_Subset
  <2> HIDE DEF under
  <2> QED
    BY <1>3, <2>2, <2>3
<1>6. a \in Nat /\ b \in Nat
  BY <1>1
<1>7. \A x : Rank(x, values) = Cardinality(under(x))
  BY DEF Rank
<1> HIDE DEF under
<1>8. CASE a <= b
  BY <1>3, <1>4, <1>7, <1>8
<1>9. CASE b < a
  <2>1. Cardinality(under(b)) < Cardinality(under(a))
    BY <1>5, <1>9
  <2> QED
    BY <1>3, <1>6, <1>7, <1>9, <2>1
<1> QED
  BY <1>6, <1>8, <1>9

(* What the latest use leaves of the order of uses.                        *)
LEMMA LatestIs ==
  ASSUME NEW uses, NEW ip, NEW gone
  PROVE  <<ip, ip>> \in Latest(uses, ip, gone)
BY DEF Latest

(* The order of the uses of other branches stays.                          *)
LEMMA LatestOfOthers ==
  ASSUME NEW uses, NEW ip, NEW gone, NEW a, NEW b, a \notin {ip, gone}, b \notin {ip, gone}
  PROVE  <<a, b>> \in Latest(uses, ip, gone) <=> <<a, b>> \in uses
BY DEF Latest

(* The latest use is after those of the others.                            *)
LEMMA LatestIsAfter ==
  ASSUME NEW uses, NEW ip, NEW gone, NEW a, a \notin {ip, gone}, <<a, a>> \in uses
  PROVE  <<ip, a>> \in Latest(uses, ip, gone) /\ <<a, ip>> \notin Latest(uses, ip, gone)
BY DEF Latest

(* An entry that becomes the latest used keeps the entries ordered.        *)
LEMMA UseKeeps ==
  ASSUME EntriesInv, NEW s \in Sets, NEW w \in Ways, NEW entry \in Entry, entry.ipTag # 0,
         \A v \in Ways : v # w => entries[s][v].ipTag # entry.ipTag,
         Use(s, w, entry)
  PROVE  EntriesInv'
<1> DEFINE lru(t, v) == IF t = s /\ v = w THEN Stamp(entries[s][w], entry) ELSE entries[t][v].lru
           values == {lru(t, v) : t \in Sets, v \in Ways} \union {lruCounter + 1}
           Held(t, v) == IF t = s /\ v = w THEN entry ELSE entries[t][v]
           gone == entries[s][w].ipTag
           ip == entry.ipTag
<1>1. /\ entries \in [Sets -> [Ways -> Entry]] /\ lruCounter \in Nat /\ DOMAIN lastUses = Sets
      /\ \A t \in Sets, v \in Ways :
           /\ entries[t][v].lru <= lruCounter
           /\ InUse(t, v) => entries[t][v].lru < lruCounter
      /\ \A t \in Sets : \A v, u \in Ways :
           InUse(t, v) /\ InUse(t, u) =>
             /\ v # u => entries[t][v].ipTag # entries[t][u].ipTag
             /\ <<entries[t][v].ipTag, entries[t][u].ipTag>> \in lastUses[t]
                  <=> entries[t][u].lru <= entries[t][v].lru
  BY DEF EntriesInv
<1>2. \A t \in Sets, v \in Ways :
        entries[t][v] \in Entry /\ Held(t, v) \in Entry /\ entries[t][v].lru \in Nat
  BY <1>1 DEF Entry
<1>3. \A t \in Sets, v \in Ways :
        /\ lru(t, v) \in Nat /\ lru(t, v) <= lruCounter
        /\ lru(t, v) = IF t = s /\ v = w THEN lruCounter ELSE entries[t][v].lru
  BY <1>1, <1>2 DEF Stamp
<1>4. /\ entries' = [t \in Sets |-> [v \in Ways |->
                       [ipTag |-> Held(t, v).ipTag, target |-> Held(t, v).target,
                        alwaysTaken |-> Held(t, v).alwaysTaken,
                        lru |-> Rank(lru(t, v), values)]]]
      /\ lruCounter' = Rank(lruCounter + 1, values)
      /\ lastUses' = [lastUses EXCEPT ![s] = Latest(@, ip, gone)]
  BY DEF Use
<1> HIDE DEF lru
<1>5. values \in SUBSET (0 .. lruCounter + 1)
  BY <1>1, <1>3
<1>6. \A t \in Sets, v \in Ways : lru(t, v) \in values
  OBVIOUS
<1>7. lruCounter + 1 \in values /\ lruCounter + 1 \in Nat
  BY <1>1
<1> HIDE DEF values, Held
<1>8. /\ \A a, b \in values :
           Rank(a, values) \in Nat /\ (Rank(a, values) <= Rank(b, values) <=> a <= b)
  BY <1>5, <1>7, RankOrders
<1>9. \A t \in Sets, v \in Ways :
        /\ entries'[t][v].lru = Rank(lru(t, v), values)
        /\ entries'[t][v].ipTag = Held(t, v).ipTag
        /\ entries'[t][v] = [ipTag |-> Held(t, v).ipTag, target |-> Held(t, v).target,
                             alwaysTaken |-> Held(t, v).alwaysTaken,
                             lru |-> Rank(lru(t, v), values)]
  BY <1>4
<1>10. entries' \in [Sets -> [Ways -> Entry]]
  <2>1. ASSUME NEW t \in Sets, NEW v \in Ways
        PROVE  [ipTag |-> Held(t, v).ipTag, target |-> Held(t, v).target,
                alwaysTaken |-> Held(t, v).alwaysTaken, lru |-> Rank(lru(t, v), values)] \in Entry
    <3>1. Rank(lru(t, v), values) \in Nat
      BY <1>6, <1>8
    <3> QED
      BY <1>2, <3>1 DEF Entry
  <2> QED
    BY <1>4, <2>1
<1>11. lruCounter' \in Nat /\ DOMAIN lastUses' = Sets
  BY <1>1, <1>4, <1>7, <1>8
<1>12. ASSUME NEW t \in Sets, NEW v \in Ways
       PROVE  entries'[t][v].lru < lruCounter' /\ entries'[t][v].lru <= lruCounter'
  <2>1. lru(t, v) \in values /\ ~(lruCounter + 1 <= lru(t, v)) /\ lru(t, v) <= lruCounter + 1
    BY <1>1, <1>3, <1>6
  <2>2. ~(lruCounter' <= entries'[t][v].lru) /\ entries'[t][v].lru <= lruCounter'
    BY <1>4, <1>7, <1>8, <1>9, <2>1
  <2>3. lruCounter' \in Nat /\ entries'[t][v].lru \in Nat
    BY <1>10, <1>11 DEF Entry
  <2> QED
    BY <2>2, <2>3
<1>13. \A t \in Sets, v, u \in Ways :
         entries'[t][u].lru <= entries'[t][v].lru <=> lru(t, u) <= lru(t, v)
  <2> SUFFICES ASSUME NEW t \in Sets, NEW v \in Ways, NEW u \in Ways
               PROVE  entries'[t][u].lru <= entries'[t][v].lru <=> lru(t, u) <= lru(t, v)
    OBVIOUS
  <2>1. lru(t, u) \in values /\ lru(t, v) \in values
    BY <1>6
  <2>2. Rank(lru(t, u), values) <= Rank(lru(t, v), values) <=> lru(t, u) <= lru(t, v)
    BY <1>8, <2>1
  <2>3. /\ entries'[t][u].lru = Rank(lru(t, u), values)
        /\ entries'[t][v].lru = Rank(lru(t, v), values)
    BY <1>9
  <2> QED
    BY <2>2, <2>3
<1>14. ASSUME NEW t \in Sets, NEW v \in Ways, NEW u \in Ways, InUse(t, v)', InUse(t, u)'
       PROVE  /\ v # u => entries'[t][v].ipTag # entries'[t][u].ipTag
              /\ <<entries'[t][v].ipTag, entries'[t][u].ipTag>> \in lastUses'[t]
                   <=> entries'[t][u].lru <= entries'[t][v].lru
  <2>0. Held(t, v).ipTag # 0 /\ Held(t, u).ipTag # 0
    BY <1>9, <1>14 DEF InUse
  <2>1. CASE t # s
    <3>1. /\ entries'[t][v].ipTag = entries[t][v].ipTag
          /\ entries'[t][u].ipTag = entries[t][u].ipTag
          /\ lru(t, v) = entries[t][v].lru /\ lru(t, u) = entries[t][u].lru
      BY <1>3, <1>9, <2>1 DEF Held
    <3>2. lastUses'[t] = lastUses[t]
      BY <1>1, <1>4, <2>1
    <3>3. InUse(t, v) /\ InUse(t, u)
      BY <1>9, <2>0, <3>1 DEF InUse
    <3> QED
      BY <1>1, <1>13, <3>1, <3>2, <3>3
  <2>2. CASE t = s
    <3>1. lastUses'[s] = Latest(lastUses[s], ip, gone)
      BY <1>1, <1>4
    <3>2. ASSUME NEW x \in Ways, Held(s, x).ipTag # 0, x # w
          PROVE  /\ InUse(s, x) /\ entries'[s][x].ipTag = entries[s][x].ipTag
                 /\ entries[s][x].ipTag \notin {ip, gone} /\ lru(s, x) = entries[s][x].lru
                 /\ lru(s, x) < lruCounter /\ <<entries[s][x].ipTag, entries[s][x].ipTag>> \in lastUses[s]
      <4>1. InUse(s, x) /\ entries'[s][x].ipTag = entries[s][x].ipTag
        BY <1>9, <3>2 DEF Held, InUse
      <4>2. entries[s][x].ipTag # ip
        BY <3>2
      <4>3. entries[s][x].ipTag # gone
        <5>1. CASE InUse(s, w)
          BY <1>1, <3>2, <4>1, <5>1
        <5>2. CASE ~InUse(s, w)
          BY <4>1, <5>2 DEF InUse
        <5> QED
          BY <5>1, <5>2
      <4>4. lru(s, x) = entries[s][x].lru /\ lru(s, x) < lruCounter
        BY <1>1, <1>3, <3>2, <4>1
      <4>5. entries[s][x].lru <= entries[s][x].lru
        BY <1>2
      <4>6. <<entries[s][x].ipTag, entries[s][x].ipTag>> \in lastUses[s]
        BY <1>1, <4>1, <4>5
      <4> QED
        BY <4>1, <4>2, <4>3, <4>4, <4>6
    <3>3. entries'[s][w].ipTag = ip /\ lru(s, w) = lruCounter
      BY <1>3, <1>9 DEF Held
    <3> HIDE DEF gone, ip
    <3>4. CASE v = w /\ u = w
      <4>1. lru(s, w) <= lru(s, w)
        BY <1>3
      <4> QED
        BY <1>13, <2>2, <3>1, <3>3, <3>4, <4>1, LatestIs
    <3>5. CASE v = w /\ u # w
      <4>1. lru(s, u) <= lru(s, w)
        BY <1>3, <3>3
      <4>2. <<ip, entries[s][u].ipTag>> \in lastUses'[s] /\ entries[s][u].ipTag # ip
        <5> DEFINE a == entries[s][u].ipTag
        <5>1. a \notin {ip, gone} /\ <<a, a>> \in lastUses[s]
          BY <2>0, <2>2, <3>2, <3>5
        <5> HIDE DEF a
        <5>2. <<ip, a>> \in lastUses'[s] /\ <<a, ip>> \notin lastUses'[s] /\ a # ip
          BY <3>1, <5>1, LatestIsAfter
        <5> QED
          BY <5>2 DEF a
      <4> QED
        BY <1>13, <2>0, <2>2, <3>2, <3>3, <3>5, <4>1, <4>2
    <3>6. CASE v # w /\ u = w
      <4>1. ~(lru(s, w) <= lru(s, v))
        <5>1. lru(s, v) < lruCounter /\ lru(s, v) \in Nat
          BY <1>3, <2>0, <2>2, <3>2, <3>6
        <5> QED
          BY <1>1, <3>3, <5>1
      <4>2. <<entries[s][v].ipTag, ip>> \notin lastUses'[s] /\ entries[s][v].ipTag # ip
        <5> DEFINE a == entries[s][v].ipTag
        <5>1. a \notin {ip, gone} /\ <<a, a>> \in lastUses[s]
          BY <2>0, <2>2, <3>2, <3>6
        <5> HIDE DEF a
        <5>2. <<ip, a>> \in lastUses'[s] /\ <<a, ip>> \notin lastUses'[s] /\ a # ip
          BY <3>1, <5>1, LatestIsAfter
        <5> QED
          BY <5>2 DEF a
      <4> QED
        BY <1>13, <2>0, <2>2, <3>2, <3>3, <3>6, <4>1, <4>2
    <3>7. CASE v # w /\ u # w
      <4>1. /\ InUse(s, v) /\ InUse(s, u)
            /\ entries'[s][v].ipTag = entries[s][v].ipTag
            /\ entries'[s][u].ipTag = entries[s][u].ipTag
            /\ lru(s, v) = entries[s][v].lru /\ lru(s, u) = entries[s][u].lru
            /\ entries[s][v].ipTag \notin {ip, gone} /\ entries[s][u].ipTag \notin {ip, gone}
        BY <2>0, <2>2, <3>2, <3>7
      <4>2. <<entries[s][v].ipTag, entries[s][u].ipTag>> \in lastUses'[s]
              <=> <<entries[s][v].ipTag, entries[s][u].ipTag>> \in lastUses[s]
        <5> DEFINE a == entries[s][v].ipTag
                   b == entries[s][u].ipTag
        <5>1. a \notin {ip, gone} /\ b \notin {ip, gone}
          BY <4>1
        <5> HIDE DEF a, b
        <5>2. <<a, b>> \in lastUses'[s] <=> <<a, b>> \in lastUses[s]
          BY <3>1, <5>1, LatestOfOthers
        <5> QED
          BY <5>2 DEF a, b
      <4> QED
        BY <1>1, <1>13, <2>2, <4>1, <4>2
    <3> QED
      BY <3>4, <3>5, <3>6, <3>7
  <2> QED
    BY <2>1, <2>2
<1> QED
  BY <1>10, <1>11, <1>12, <1>14 DEF EntriesInv, InUse

(* An entry that is found and only gets another target.                    *)
LEMMA RetargetKeeps ==
  ASSUME EntriesInv, NEW s \in Sets, NEW w \in Ways, NEW target \in Targets, NEW taken \in BOOLEAN,
         entries' = [entries EXCEPT ![s][w] =
           [ipTag |-> entries[s][w].ipTag, target |-> target,
            alwaysTaken |-> @.alwaysTaken /\ taken, lru |-> @.lru]],
         lruCounter' = lruCounter, lastUses' = lastUses
  PROVE  EntriesInv'
<1> DEFINE entry == [ipTag |-> entries[s][w].ipTag, target |-> target,
                     alwaysTaken |-> entries[s][w].alwaysTaken /\ taken, lru |-> entries[s][w].lru]
<1>1. entries \in [Sets -> [Ways -> Entry]] /\ entries[s][w] \in Entry
  BY DEF EntriesInv
<1>2. entry \in Entry /\ entry.ipTag = entries[s][w].ipTag /\ entry.lru = entries[s][w].lru
  BY <1>1 DEF Entry
<1>3. entries' = [entries EXCEPT ![s][w] = entry]
  OBVIOUS
<1> HIDE DEF entry
<1>4. entries' \in [Sets -> [Ways -> Entry]]
  BY <1>1, <1>2, <1>3
<1>5. \A t \in Sets, v \in Ways :
        entries'[t][v].ipTag = entries[t][v].ipTag /\ entries'[t][v].lru = entries[t][v].lru
  <2> SUFFICES ASSUME NEW t \in Sets, NEW v \in Ways
               PROVE  /\ entries'[t][v].ipTag = entries[t][v].ipTag
                      /\ entries'[t][v].lru = entries[t][v].lru
    OBVIOUS
  <2>1. entries'[t][v] = IF t = s /\ v = w THEN entry ELSE entries[t][v]
    BY <1>1, <1>3
  <2> QED
    BY <1>2, <2>1
<1>6. \A t \in Sets, v \in Ways :
        /\ entries'[t][v].lru <= lruCounter'
        /\ InUse(t, v)' => entries'[t][v].lru < lruCounter'
  BY <1>5 DEF EntriesInv, InUse
<1>7. \A t \in Sets : \A u, v \in Ways :
        InUse(t, u)' /\ InUse(t, v)' =>
          /\ u # v => entries'[t][u].ipTag # entries'[t][v].ipTag
          /\ <<entries'[t][u].ipTag, entries'[t][v].ipTag>> \in lastUses'[t]
               <=> entries'[t][v].lru <= entries'[t][u].lru
  BY <1>5 DEF EntriesInv, InUse
<1>8. lruCounter' \in Nat /\ DOMAIN lastUses' = Sets
  BY DEF EntriesInv
<1> QED
  BY <1>4, <1>6, <1>7, <1>8 DEF EntriesInv

(* The way to replace is one whose field is least.                         *)
LEMMA LruWayIsLeast ==
  ASSUME EntriesInv, NEW s \in Sets
  PROVE  LruWay(s) \in Ways /\ \A v \in Ways : entries[s][LruWay(s)].lru <= entries[s][v].lru
<1> DEFINE f == [v \in Ways |-> entries[s][v].lru]
           least == {w \in Ways : \A v \in Ways : entries[s][w].lru <= entries[s][v].lru}
<1>1. Ways # {} /\ Ways \subseteq Nat
  <2>1. BtbWays \in Nat \ {0}
    BY BtbNumbers
  <2>2. 0 \in Ways
    BY <2>1 DEF Ways
  <2> QED
    BY <2>1, <2>2 DEF Ways
<1>2. f \in [Ways -> Nat]
  BY DEF EntriesInv, Entry
<1>3. \E w \in Ways : \A v \in Ways : f[w] <= f[v]
  <2> HIDE DEF f
  <2> QED
    BY <1>1, <1>2, LeastExists
<1>4. least # {} /\ least \in SUBSET Nat
  BY <1>1, <1>3
<1>5. Min(least) \in least
  BY <1>4, MinIsMember
<1> QED
  BY <1>5 DEF LruWay

(* The first way found is one that holds the address.                      *)
LEMMA FoundIsEntry ==
  ASSUME EntriesInv, NEW ip \in Addresses, Found(ip) # {}
  PROVE  /\ Min(Found(ip)) \in Ways /\ SetIndex(ip) \in Sets
         /\ entries[SetIndex(ip)][Min(Found(ip))].ipTag = ip
<1>1. SetIndex(ip) \in Sets
  <2>1. ip \in Nat
    BY TheAddresses
  <2>2. ip \div 4 \in Nat
    BY <2>1
  <2> QED
    BY <2>2, BtbNumbers DEF SetIndex, Sets
<1>2. Found(ip) \in SUBSET Nat
  BY BtbNumbers DEF Found, Ways
<1>3. Min(Found(ip)) \in Found(ip)
  BY <1>2, MinIsMember
<1> QED
  BY <1>1, <1>3 DEF Found

(* Every address has a set.                                                *)
LEMMA SetOfAddress ==
  ASSUME NEW ip \in Addresses
  PROVE  SetIndex(ip) \in Sets
<1>1. ip \in Nat
  BY TheAddresses
<1>2. ip \div 4 \in Nat
  BY <1>1
<1> QED
  BY <1>2, BtbNumbers DEF SetIndex, Sets

(* Nothing is pushed, trained or used at first.                            *)
LEMMA BtbInitially == BtbInit => BtbIInv
<1> SUFFICES ASSUME BtbInit PROVE BtbIInv
  OBVIOUS
<1>1. /\ rasIndex = 0 /\ ras = [i \in Stack |-> 0] /\ calls = <<>> /\ intact = 0
      /\ callSizes = [i \in 0 .. CallTrackers - 1 |-> 4]
      /\ lastReturned = [i \in 0 .. CallTrackers - 1 |-> 0]
      /\ resolving = Resolved /\ conditionalHistory = 0 /\ lruCounter = 0
      /\ lastUses = [s \in Sets |-> {}]
      /\ entries = [s \in Sets |-> [w \in Ways |->
                     [ipTag |-> 0, target |-> 0, alwaysTaken |-> FALSE, lru |-> 0]]]
  BY DEF BtbInit
<1>2. StackInv
  <2>1. <<>> \in Seq(Addresses) /\ Len(<<>>) = 0
    BY EmptySeq
  <2>2. 0 \in Stack
    BY BtbNumbers DEF Stack
  <2>3. \A k \in Stack : ras[Under(rasIndex, k)] = 0 /\ ~(k < 0)
    BY <1>1, <2>2, BelowFits, BtbNumbers DEF Stack
  <2> QED
    BY <1>1, <2>1, <2>2, <2>3, BtbNumbers DEF StackInv
<1>3. TrackerInv
  BY <1>1 DEF TrackerInv
<1>4. EntriesInv
  <2>1. [ipTag |-> 0, target |-> 0, alwaysTaken |-> FALSE, lru |-> 0] \in Entry
    <3>1. 0 \in Targets
      BY Zenon DEF Targets
    <3> QED
      BY <3>1 DEF Entry
  <2>2. \A s \in Sets, w \in Ways : entries[s][w].ipTag = 0 /\ entries[s][w].lru = 0
    BY <1>1
  <2>3. entries \in [Sets -> [Ways -> Entry]]
    BY <1>1, <2>1
  <2> QED
    BY <1>1, <2>2, <2>3 DEF EntriesInv, InUse
<1>5. conditionalHistory \in 0 .. HistoryMask - 1
  BY <1>1, BtbNumbers
<1> QED
  BY <1>1, <1>2, <1>3, <1>4, <1>5 DEF BtbIInv

(* A prediction pushes a call or uses an entry.                            *)
LEMMA PredictionKeeps ==
  ASSUME BtbIInv, NEW branch \in Branches, BtbPrediction(branch)
  PROVE  BtbIInv'
<1>1. StackInv /\ TrackerInv /\ EntriesInv /\ branch.ip \in Addresses /\ branch.ip # 0
  BY TheBranches DEF BtbIInv
<1>2. StackInv'
  <2>1. CASE branch.type \in Calls
    BY <1>1, <2>1, StackPushKeeps DEF BtbPrediction
  <2>2. CASE branch.type \notin Calls
    BY <1>1, <2>2 DEF BtbPrediction, StackInv
  <2> QED
    BY <2>1, <2>2
<1>3. TrackerInv'
  BY <1>1 DEF BtbPrediction, TrackerInv
<1>4. EntriesInv'
  <2>1. CASE branch.type \notin Indirects \union {"RETURN"} /\ Found(branch.ip) # {}
    <3> DEFINE s == SetIndex(branch.ip)
               w == Min(Found(branch.ip))
    <3>1. Use(s, w, entries[s][w])
      BY <2>1 DEF BtbPrediction
    <3>2. s \in Sets /\ w \in Ways /\ entries[s][w].ipTag = branch.ip
      BY <1>1, <2>1, FoundIsEntry
    <3> HIDE DEF s, w
    <3>3. entries[s][w] \in Entry
      BY <1>1, <3>2 DEF EntriesInv
    <3>4. \A v \in Ways : v # w => entries[s][v].ipTag # entries[s][w].ipTag
      BY <1>1, <3>2 DEF EntriesInv, InUse
    <3> QED
      BY <1>1, <3>1, <3>2, <3>3, <3>4, UseKeeps
  <2>2. CASE ~(branch.type \notin Indirects \union {"RETURN"} /\ Found(branch.ip) # {})
    BY <1>1, <2>2 DEF BtbPrediction, EntriesInv, InUse
  <2> QED
    BY <2>1, <2>2
<1>5. /\ resolving' \in Branches \union {Resolved}
      /\ conditionalHistory' \in 0 .. HistoryMask - 1
  BY DEF BtbPrediction, BtbIInv
<1> QED
  BY <1>2, <1>3, <1>4, <1>5 DEF BtbIInv

(* An update pops a return or allocates or changes an entry.               *)
LEMMA UpdateKeeps ==
  ASSUME BtbIInv, UpdateBtb
  PROVE  BtbIInv'
<1>1. /\ StackInv /\ TrackerInv /\ EntriesInv /\ resolving \in Branches
      /\ conditionalHistory \in 0 .. HistoryMask - 1 /\ resolving' = Resolved
  BY DEF BtbIInv, UpdateBtb
<1>2. PICK target \in Targets :
        \/ UpdateReturn(target) \/ UpdateIndirect(target)
        \/ \E taken \in BOOLEAN : UpdateDirect(target, taken)
  BY DEF UpdateBtb
<1>3. target \in Nat
  <2>1. CASE target \in {0}
    BY <2>1
  <2>2. CASE \E b \in Branches : target \in b.targets \union {b.ip + b.size}
    <3>1. PICK b \in Branches : target \in b.targets \union {b.ip + b.size}
      BY <2>2
    <3>2. b.targets \subseteq Nat /\ b.ip + b.size \in Nat
      BY TheBranches
    <3> QED
      BY <3>1, <3>2
  <2>3. target \in {0} \/ \E b \in Branches : target \in b.targets \union {b.ip + b.size}
    BY Zenon DEF Targets
  <2> QED
    BY <2>1, <2>2, <2>3
<1>4. CASE UpdateReturn(target)
  <2>1. StackInv'
    BY <1>1, <1>4, StackPopKeeps DEF UpdateReturn
  <2>2. TrackerInv'
    BY <1>1, <1>3, <1>4, TrackersKeep
  <2>3. EntriesInv' /\ conditionalHistory' = conditionalHistory
    BY <1>1, <1>4 DEF UpdateReturn, EntriesInv, InUse
  <2> QED
    BY <1>1, <2>1, <2>2, <2>3 DEF BtbIInv
<1>5. CASE UpdateIndirect(target)
  <2>1. StackInv' /\ TrackerInv'
    BY <1>1, <1>5 DEF UpdateIndirect, StackInv, TrackerInv
  <2>2. EntriesInv' /\ conditionalHistory' = conditionalHistory
    BY <1>1, <1>5 DEF UpdateIndirect, EntriesInv, InUse
  <2> QED
    BY <1>1, <2>1, <2>2 DEF BtbIInv
<1>6. ASSUME NEW taken \in BOOLEAN, UpdateDirect(target, taken) PROVE BtbIInv'
  <2> DEFINE ip == resolving.ip
             s == SetIndex(ip)
             w == Min(Found(ip))
  <2>1. StackInv' /\ TrackerInv'
    BY <1>1, <1>6 DEF UpdateDirect, StackInv, TrackerInv
  <2>2. conditionalHistory' \in 0 .. HistoryMask - 1
    <3>1. \A h \in Nat : h % HistoryMask \in 0 .. HistoryMask - 1
      BY BtbNumbers
    <3>2. 2 * conditionalHistory + (IF taken THEN 1 ELSE 0) \in Nat
      BY <1>1, BtbNumbers
    <3> QED
      BY <1>1, <1>6, <3>1, <3>2 DEF UpdateDirect
  <2>3. ip \in Addresses /\ ip # 0 /\ s \in Sets
    BY <1>1, TheBranches, SetOfAddress
  <2>4. CASE Found(ip) = {} /\ taken /\
             Use(s, LruWay(s), [ipTag |-> ip, target |-> target, alwaysTaken |-> TRUE, lru |-> 0])
    <3> DEFINE entry == [ipTag |-> ip, target |-> target, alwaysTaken |-> TRUE, lru |-> 0]
               way == LruWay(s)
    <3>1. entry \in Entry /\ entry.ipTag = ip
      BY <2>3 DEF Entry
    <3>2. way \in Ways
      BY <1>1, <2>3, LruWayIsLeast
    <3>3. \A v \in Ways : entries[s][v].ipTag # ip
      BY <2>4 DEF Found
    <3> HIDE DEF s
    <3>4. Use(s, way, entry)
      BY <2>4
    <3> HIDE DEF way, entry, ip
    <3>5. EntriesInv'
      BY <1>1, <2>3, <3>1, <3>2, <3>3, <3>4, UseKeeps
    <3> QED
      BY <1>1, <2>1, <2>2, <3>5 DEF BtbIInv
  <2>5. CASE Found(ip) = {} /\ ~taken /\ UNCHANGED <<entries, lruCounter, lastUses>>
    <3>1. EntriesInv'
      BY <1>1, <2>5 DEF EntriesInv, InUse
    <3> QED
      BY <1>1, <2>1, <2>2, <3>1 DEF BtbIInv
  <2>6. CASE /\ Found(ip) # {}
             /\ entries' = [entries EXCEPT ![s][w] =
                  [ipTag |-> ip, target |-> target,
                   alwaysTaken |-> @.alwaysTaken /\ taken, lru |-> @.lru]]
             /\ UNCHANGED <<lruCounter, lastUses>>
    <3>1. w \in Ways /\ entries[s][w].ipTag = ip
      BY <1>1, <2>3, <2>6, FoundIsEntry
    <3>2. /\ entries' = [entries EXCEPT ![s][w] =
                  [ipTag |-> entries[s][w].ipTag, target |-> target,
                   alwaysTaken |-> @.alwaysTaken /\ taken, lru |-> @.lru]]
          /\ lruCounter' = lruCounter /\ lastUses' = lastUses
      BY <2>6, <3>1
    <3> HIDE DEF s, w
    <3>3. EntriesInv'
      BY <1>1, <2>3, <3>1, <3>2, RetargetKeeps
    <3> QED
      BY <1>1, <2>1, <2>2, <3>3 DEF BtbIInv
  <2> QED
    BY <1>6, <2>4, <2>5, <2>6 DEF UpdateDirect
<1> QED
  BY <1>2, <1>4, <1>5, <1>6

(* Every operation of the branch target buffer keeps what holds of it.     *)
LEMMA BtbKeeps ==
  ASSUME BtbIInv, BtbNext \/ UNCHANGED btbVars
  PROVE  BtbIInv'
<1>1. CASE UNCHANGED btbVars
  BY <1>1 DEF btbVars, BtbIInv, StackInv, TrackerInv, EntriesInv, InUse
<1> QED
  BY <1>1, PredictionKeeps, UpdateKeeps DEF BtbNext

(***************************************************************************)
(* The inductive invariant of the branch target buffer: the stack holds    *)
(* the latest calls, each tracker the size of the call that trained it     *)
(* last, and the entries are ordered as their last uses.                   *)
(***************************************************************************)
THEOREM BtbInvariance == BtbSpec => []BtbIInv
<1>1. BtbIInv /\ [BtbNext]_btbVars => BtbIInv'
  BY BtbKeeps
<1> QED
  BY <1>1, BtbInitially, PTL DEF BtbSpec

(* What the tables hold are addresses, targets and sizes of the program.   *)
LEMMA BtbTyped ==
  ASSUME BtbIInv
  PROVE  BtbTypeOK
<1>1. \A s \in Sets, w \in Ways :
        entries[s][w].ipTag \in Addresses \union {0} /\ entries[s][w].target \in Targets
  BY DEF BtbIInv, EntriesInv, Entry
<1>2. Max({MaxCallSize, 4}) = IF MaxCallSize >= 4 THEN MaxCallSize ELSE 4
  BY BtbNumbers, MaxOfTwo
<1>3. DOMAIN callSizes = 0 .. CallTrackers - 1
  BY DEF BtbIInv, TrackerInv
<1>4. \A i \in DOMAIN callSizes : callSizes[i] \in 0 .. Max({MaxCallSize, 4})
  BY <1>2, <1>3, BtbNumbers DEF BtbIInv, TrackerInv
<1>5. rasIndex \in Stack /\ \A i \in Stack : ras[i] \in Addresses \union {0}
  BY DEF BtbIInv, StackInv
<1> QED
  BY <1>1, <1>4, <1>5 DEF BtbTypeOK, BtbIInv, Addresses

(* The type invariant of the branch target buffer.                         *)
THEOREM BtbTypeCorrect == BtbSpec => []BtbTypeOK
<1>1. BtbIInv => BtbTypeOK
  BY BtbTyped
<1> QED
  BY <1>1, BtbInvariance, PTL

(* A return is predicted to where it goes, for every program, size of the  *)
(* stack and number of trackers, while the stack holds its call and that   *)
(* call trained its tracker last.                                          *)
THEOREM ReturnsAlwaysFound == BtbSpec => []ReturnsFindTheirCalls
<1>1. BtbIInv => ReturnsFindTheirCalls
  BY ReturnIsFound DEF BtbIInv
<1> QED
  BY <1>1, BtbInvariance, PTL

(* The entry that a full set gives up is the one used least recently, by   *)
(* a prediction or its allocation.                                         *)
THEOREM AlwaysReplacesEarliest == BtbSpec => []ReplacesEarliestUse
<1>1. BtbIInv => ReplacesEarliestUse
  <2> SUFFICES ASSUME EntriesInv, NEW s \in Sets, \A w \in Ways : entries[s][w].ipTag # 0,
                      NEW w \in Ways
               PROVE  <<entries[s][w].ipTag, entries[s][LruWay(s)].ipTag>> \in lastUses[s]
    BY DEF BtbIInv, ReplacesEarliestUse
  <2>1. LruWay(s) \in Ways /\ entries[s][LruWay(s)].lru <= entries[s][w].lru
    BY LruWayIsLeast
  <2>2. InUse(s, w) /\ InUse(s, LruWay(s))
    BY <2>1 DEF InUse
  <2> QED
    BY <2>1, <2>2 DEF EntriesInv
<1> QED
  BY <1>1, BtbInvariance, PTL
-----------------------------------------------------------------------------
IsSequence(s) == \E S : s \in Seq(S)

(* While the buffer is as long as the processor is deep, it holds what the *)
(* branches in flight were predicted from, in their order; all of them but *)
(* the last were predicted well, for nothing is fetched past a branch that *)
(* is mispredicted.                                                        *)
InOrder ==
  /\ Len(inFlight) = Len(stateBuf) /\ Len(stateBuf) <= depth
  /\ \A k \in 1 .. Len(stateBuf) :
       /\ inFlight[k].state = stateBuf[k] /\ inFlight[k].ip = stateBuf[k].ip
       /\ k < Len(stateBuf) => stateBuf[k].prediction = inFlight[k].taken

PerceptronIInv ==
  /\ depth \in Nat
  /\ depth <= BufferSize =>
       IsSequence(stateBuf) /\ IsSequence(inFlight) /\ InOrder /\ HistoriesAgree

(* What is known of a sequence without its elements' type: appending adds  *)
(* one at the end, and dropping the first moves the others down.           *)
LEMMA AppendOne ==
  ASSUME NEW s, IsSequence(s), NEW e
  PROVE  /\ IsSequence(Append(s, e)) /\ Len(s) \in Nat
         /\ Len(Append(s, e)) = Len(s) + 1
         /\ \A i \in 1 .. Len(s) : Append(s, e)[i] = s[i]
         /\ Append(s, e)[Len(s) + 1] = e
<1>1. PICK S : s \in Seq(S)
  BY DEF IsSequence
<1>2. PICK T : S \subseteq T /\ e \in T
  <2> WITNESS S \union {e}
  <2> QED
    OBVIOUS
<1>3. s \in Seq(T)
  BY <1>1, <1>2, SeqMonotonic, Zenon
<1>4. /\ Append(s, e) \in Seq(T)
      /\ Len(Append(s, e)) = Len(s) + 1
      /\ \A i \in 1 .. Len(s) : Append(s, e)[i] = s[i]
      /\ Append(s, e)[Len(s) + 1] = e
  BY <1>2, <1>3, AppendProperties
<1>5. Len(s) \in Nat
  BY <1>1, LenProperties, Zenon
<1> QED
  BY <1>4, <1>5 DEF IsSequence

(* What a sequence is without its first element.                           *)
LEMMA DropFirst ==
  ASSUME NEW s, IsSequence(s), s # <<>>
  PROVE  /\ IsSequence(Tail(s)) /\ IsSequence(RemoveAt(s, 1))
         /\ Len(s) \in Nat \ {0}
         /\ Head(s) = s[1]
         /\ Len(Tail(s)) = Len(s) - 1 /\ Len(RemoveAt(s, 1)) = Len(s) - 1
         /\ \A i \in 1 .. Len(s) - 1 : Tail(s)[i] = s[i + 1] /\ RemoveAt(s, 1)[i] = s[i + 1]
<1>1. PICK S : s \in Seq(S)
  BY DEF IsSequence
<1>2. /\ Tail(s) \in Seq(S) /\ Len(Tail(s)) = Len(s) - 1
      /\ \A i \in 1 .. Len(Tail(s)) : Tail(s)[i] = s[i + 1]
  BY <1>1, HeadTailProperties, Zenon
<1>3. Len(s) \in Nat \ {0}
  BY <1>1, EmptySeq, Zenon
<1>4. Tail(s) = SubSeq(s, 2, Len(s))
  BY <1>1, TailIsSubSeq, Zenon
<1>5. SubSeq(s, 1, 0) = <<>>
  BY SubSeqEmpty
<1>6. <<>> \o Tail(s) = Tail(s)
  BY <1>2, ConcatEmptySeq, Zenon
<1>7. RemoveAt(s, 1) = SubSeq(s, 1, 0) \o SubSeq(s, 2, Len(s))
  BY DEF RemoveAt
<1>8. RemoveAt(s, 1) = Tail(s)
  BY <1>4, <1>5, <1>6, <1>7, Zenon
<1>9. Head(s) = s[1]
  BY <1>1, <1>3
<1> QED
  BY <1>2, <1>3, <1>8, <1>9 DEF IsSequence

(* A shifted history moves every bit to the next.                          *)
LEMMA ShiftedBits ==
  ASSUME NEW history, NEW outcome, NEW i \in Bits
  PROVE  Shifted(history, outcome)[i] = IF i = 1 THEN outcome ELSE history[i - 1]
BY DEF Shifted

(* Nothing is in flight at first.                                          *)
LEMMA PerceptronInitially == PerceptronInit => PerceptronIInv
<1> SUFFICES ASSUME PerceptronInit PROVE PerceptronIInv
  OBVIOUS
<1>1. <<>> \in Seq({}) /\ Len(<<>>) = 0
  BY EmptySeq
<1>2. HistoriesAgree
  <2> SUFFICES ASSUME NEW i \in Bits
               PROVE  specHistory[i] = IF i <= Len(stateBuf)
                                       THEN stateBuf[Len(stateBuf) + 1 - i].prediction
                                       ELSE globalHistory[i - Len(stateBuf)]
    BY DEF HistoriesAgree
  <2>1. i \in Nat /\ i >= 1
    BY PerceptronAssumption DEF Bits
  <2>2. ~(i <= Len(stateBuf)) /\ i - Len(stateBuf) = i
    BY <1>1, <2>1 DEF PerceptronInit
  <2> QED
    BY <2>2 DEF PerceptronInit
<1>3. InOrder /\ depth \in Nat
  BY <1>1, PerceptronAssumption DEF PerceptronInit, InOrder
<1> QED
  BY <1>1, <1>2, <1>3 DEF PerceptronInit, PerceptronIInv, IsSequence

(* The buffer has room for a prediction, so none is dropped.               *)
LEMMA PredictKeepsOrder ==
  ASSUME PerceptronIInv, depth <= BufferSize, NEW ip \in BranchIps, NEW taken \in BOOLEAN,
         PredictBranch(ip, taken)
  PROVE  PerceptronIInv'
<1> DEFINE state == PredictionState(ip)
           branch == [ip |-> ip, taken |-> taken, state |-> state]
           n == Len(stateBuf)
<1>1. /\ IsSequence(stateBuf) /\ IsSequence(inFlight) /\ InOrder /\ HistoriesAgree
      /\ depth \in Nat /\ BufferSize \in Nat /\ HistoryLength \in Nat
  BY PerceptronAssumption DEF PerceptronIInv
<1>2. branch.ip = ip /\ branch.state = state /\ state.ip = ip
  BY DEF PredictionState
<1>3. /\ Len(inFlight) < depth
      /\ \A k \in DOMAIN inFlight : inFlight[k].state.prediction = inFlight[k].taken
      /\ stateBuf' = IF Len(Append(stateBuf, state)) > BufferSize
                     THEN Tail(Append(stateBuf, state)) ELSE Append(stateBuf, state)
      /\ specHistory' = Shifted(specHistory, state.prediction)
      /\ inFlight' = Append(inFlight, branch)
      /\ globalHistory' = globalHistory /\ depth' = depth
  BY DEF PredictBranch
<1> HIDE DEF state, branch
<1>4. /\ IsSequence(Append(stateBuf, state)) /\ n \in Nat
      /\ Len(Append(stateBuf, state)) = n + 1
      /\ \A i \in 1 .. n : Append(stateBuf, state)[i] = stateBuf[i]
      /\ Append(stateBuf, state)[n + 1] = state
  BY <1>1, AppendOne
<1>5. /\ IsSequence(inFlight') /\ Len(inFlight) \in Nat /\ Len(inFlight') = Len(inFlight) + 1
      /\ \A i \in 1 .. Len(inFlight) : inFlight'[i] = inFlight[i]
      /\ inFlight'[Len(inFlight) + 1] = branch
  BY <1>1, <1>3, AppendOne
<1>6. /\ Len(inFlight) = n /\ n <= depth
      /\ \A k \in 1 .. n : inFlight[k].state = stateBuf[k] /\ inFlight[k].ip = stateBuf[k].ip
  BY <1>1 DEF InOrder
<1>7. stateBuf' = Append(stateBuf, state)
  BY <1>1, <1>3, <1>4, <1>6
<1>8. \A k \in 1 .. n : stateBuf[k].prediction = inFlight[k].taken
  <2>1. DOMAIN inFlight = 1 .. Len(inFlight)
    BY <1>1, LenProperties, Zenon DEF IsSequence
  <2> QED
    BY <2>1, <1>3, <1>6
<1>9. InOrder'
  <2>1. Len(inFlight') = Len(stateBuf') /\ Len(stateBuf') = n + 1 /\ n + 1 <= depth'
    BY <1>1, <1>3, <1>4, <1>5, <1>6, <1>7
  <2>2. ASSUME NEW k \in 1 .. n + 1
        PROVE  /\ inFlight'[k].state = stateBuf'[k] /\ inFlight'[k].ip = stateBuf'[k].ip
               /\ k < n + 1 => stateBuf'[k].prediction = inFlight'[k].taken
    <3>1. CASE k = n + 1
      BY <3>1, <1>2, <1>4, <1>5, <1>6, <1>7
    <3>2. CASE k # n + 1
      <4>1. k \in 1 .. n
        BY <3>2, <1>4
      <4>2. inFlight'[k] = inFlight[k] /\ stateBuf'[k] = stateBuf[k]
        BY <4>1, <1>4, <1>5, <1>6, <1>7
      <4> QED
        BY <4>1, <4>2, <1>6, <1>8
    <3> QED
      BY <3>1, <3>2
  <2> QED
    BY <2>1, <2>2 DEF InOrder
<1>10. HistoriesAgree'
  <2> SUFFICES ASSUME NEW i \in Bits
               PROVE  specHistory'[i] = IF i <= Len(stateBuf')
                                        THEN stateBuf'[Len(stateBuf') + 1 - i].prediction
                                        ELSE globalHistory'[i - Len(stateBuf')]
    BY DEF HistoriesAgree, Bits
  <2>1. \A j \in Bits : specHistory[j] = IF j <= n THEN stateBuf[n + 1 - j].prediction
                                         ELSE globalHistory[j - n]
    BY <1>1, PerceptronIInv, depth <= BufferSize DEF HistoriesAgree
  <2>2. specHistory'[i] = IF i = 1 THEN state.prediction ELSE specHistory[i - 1]
    BY <1>3, ShiftedBits
  <2>3. Len(stateBuf') = n + 1
    BY <1>4, <1>7
  <2>4. CASE i = 1
    BY <2>2, <2>3, <2>4, <1>4, <1>7
  <2>5. CASE i # 1
    <3>1. i - 1 \in Bits /\ i \in Nat
      BY <2>5, <1>1 DEF Bits
    <3>2. i - 1 <= n <=> i <= n + 1
      BY <3>1, <1>4
    <3>3. n + 1 - (i - 1) = n + 2 - i /\ i - 1 - n = i - (n + 1) /\ n + 1 + 1 - i = n + 2 - i
      BY <3>1, <1>4
    <3>4. i <= n + 1 => stateBuf'[n + 2 - i] = stateBuf[n + 2 - i]
      <4>1. i <= n + 1 => n + 2 - i \in 1 .. n
        BY <3>1, <2>5, <1>4 DEF Bits
      <4> QED
        BY <4>1, <1>4, <1>7
    <3>5. specHistory'[i] = IF i <= n + 1 THEN stateBuf[n + 2 - i].prediction
                            ELSE globalHistory[i - (n + 1)]
      BY <2>1, <2>2, <2>5, <3>1, <3>2, <3>3
    <3> QED
      BY <3>3, <3>4, <3>5, <2>3, <1>3
  <2> QED
    BY <2>4, <2>5
<1> QED
  BY <1>1, <1>3, <1>4, <1>5, <1>7, <1>9, <1>10 DEF PerceptronIInv

(* The first state of the buffer is that of the branch resolved next.      *)
LEMMA OwnStateIsFirst ==
  ASSUME PerceptronIInv, depth <= BufferSize, inFlight # <<>>
  PROVE  /\ stateBuf # <<>> /\ Head(inFlight) = inFlight[1]
         /\ Matches(Head(inFlight).ip) # {} /\ FoundState(Head(inFlight).ip) = 1
<1>1. /\ IsSequence(stateBuf) /\ IsSequence(inFlight) /\ InOrder
  BY DEF PerceptronIInv
<1>2. Len(inFlight) \in Nat \ {0} /\ Head(inFlight) = inFlight[1]
  BY <1>1, DropFirst
<1>3. Len(stateBuf) \in Nat \ {0} /\ stateBuf # <<>>
  BY <1>1, <1>2, EmptySeq DEF InOrder
<1>4. DOMAIN stateBuf = 1 .. Len(stateBuf)
  BY <1>1, LenProperties, Zenon DEF IsSequence
<1>5. inFlight[1].ip = stateBuf[1].ip
  BY <1>1, <1>3 DEF InOrder
<1>6. 1 \in Matches(Head(inFlight).ip)
  BY <1>2, <1>3, <1>4, <1>5 DEF Matches
<1>7. Matches(Head(inFlight).ip) \in SUBSET Nat
  BY <1>3, <1>4 DEF Matches
<1>8. \A k \in Matches(Head(inFlight).ip) : k >= 1
  BY <1>3, <1>4 DEF Matches
<1>9. /\ Min(Matches(Head(inFlight).ip)) \in Matches(Head(inFlight).ip)
      /\ \A k \in Matches(Head(inFlight).ip) : Min(Matches(Head(inFlight).ip)) <= k
  BY <1>6, <1>7, MinIsMember
<1>10. FoundState(Head(inFlight).ip) = 1
  BY <1>6, <1>7, <1>8, <1>9 DEF FoundState
<1> QED
  BY <1>2, <1>3, <1>6, <1>10

(* The outcome takes the first state away, and a repair finds the history  *)
(* with nothing in flight: only the last prediction can have been wrong.   *)
LEMMA ResultKeepsOrder ==
  ASSUME PerceptronIInv, depth <= BufferSize, PerceptronResult
  PROVE  PerceptronIInv'
<1> DEFINE branch == Head(inFlight)
           state == stateBuf[1]
           n == Len(stateBuf)
<1>1. /\ IsSequence(stateBuf) /\ IsSequence(inFlight) /\ InOrder
      /\ depth \in Nat /\ HistoryLength \in Nat /\ inFlight # <<>> /\ inFlight' = Tail(inFlight)
      /\ depth' = depth
  BY PerceptronAssumption DEF PerceptronIInv, PerceptronResult
<1>2. /\ stateBuf # <<>> /\ branch = inFlight[1] /\ Matches(branch.ip) # {}
      /\ FoundState(branch.ip) = 1
  BY <1>1, OwnStateIsFirst
<1>3. Resolve(branch.ip, branch.taken)
  BY <1>2 DEF PerceptronResult, SkipUpdate
<1>4. /\ stateBuf' = RemoveAt(stateBuf, 1)
      /\ globalHistory' = Shifted(globalHistory, branch.taken)
      /\ specHistory' = IF state.prediction = branch.taken THEN specHistory ELSE globalHistory'
  BY <1>2, <1>3 DEF Resolve, Restored
<1> HIDE DEF branch
<1>5. /\ IsSequence(stateBuf') /\ n \in Nat \ {0} /\ Len(stateBuf') = n - 1
      /\ \A i \in 1 .. n - 1 : stateBuf'[i] = stateBuf[i + 1]
  BY <1>1, <1>2, <1>4, DropFirst
<1>6. /\ IsSequence(inFlight') /\ Len(inFlight) \in Nat \ {0}
      /\ Len(inFlight') = Len(inFlight) - 1
      /\ \A i \in 1 .. Len(inFlight) - 1 : inFlight'[i] = inFlight[i + 1]
  BY <1>1, DropFirst
<1>7. /\ Len(inFlight) = n /\ n <= depth
      /\ \A k \in 1 .. n :
           /\ inFlight[k].state = stateBuf[k] /\ inFlight[k].ip = stateBuf[k].ip
           /\ k < n => stateBuf[k].prediction = inFlight[k].taken
  BY <1>1 DEF InOrder
<1>8. InOrder'
  <2>1. Len(inFlight') = Len(stateBuf') /\ Len(stateBuf') = n - 1 /\ n - 1 <= depth'
    BY <1>1, <1>5, <1>6, <1>7
  <2>2. ASSUME NEW k \in 1 .. n - 1
        PROVE  /\ inFlight'[k].state = stateBuf'[k] /\ inFlight'[k].ip = stateBuf'[k].ip
               /\ k < n - 1 => stateBuf'[k].prediction = inFlight'[k].taken
    <3>1. k + 1 \in 1 .. n /\ (k < n - 1 => k + 1 < n)
      BY <1>5
    <3>2. inFlight'[k] = inFlight[k + 1] /\ stateBuf'[k] = stateBuf[k + 1]
      BY <1>5, <1>6, <1>7
    <3> QED
      BY <3>1, <3>2, <1>7
  <2> QED
    BY <2>1, <2>2 DEF InOrder
<1>9. HistoriesAgree'
  <2> SUFFICES ASSUME NEW i \in Bits
               PROVE  specHistory'[i] = IF i <= Len(stateBuf')
                                        THEN stateBuf'[Len(stateBuf') + 1 - i].prediction
                                        ELSE globalHistory'[i - Len(stateBuf')]
    BY DEF HistoriesAgree, Bits
  <2>1. /\ i \in Nat \ {0}
        /\ specHistory[i] = IF i <= n THEN stateBuf[n + 1 - i].prediction
                            ELSE globalHistory[i - n]
    BY <1>1 DEF PerceptronIInv, HistoriesAgree, Bits
  <2>2. CASE state.prediction = branch.taken
    <3>1. specHistory'[i] = specHistory[i]
      BY <2>2, <1>4
    <3>2. CASE i <= n - 1
      <4>1. n - 1 + 1 - i \in 1 .. n - 1 /\ n - 1 + 1 - i + 1 = n + 1 - i /\ i <= n
        BY <3>2, <2>1, <1>5
      <4>2. stateBuf'[n - 1 + 1 - i] = stateBuf[n + 1 - i]
        BY <4>1, <1>5
      <4> QED
        BY <4>1, <4>2, <3>1, <3>2, <2>1, <1>5
    <3>3. CASE i = n
      <4>1. i <= n /\ n + 1 - i = 1 /\ ~(i <= n - 1) /\ i - (n - 1) = 1
        BY <3>3, <1>5
      <4>2. 1 \in Bits
        BY <2>1, <1>1 DEF Bits
      <4>3. globalHistory'[1] = branch.taken
        BY <4>2, <1>4, ShiftedBits
      <4> QED
        BY <4>1, <4>3, <3>1, <2>1, <2>2, <1>5
    <3>4. CASE i > n
      <4>1. /\ ~(i <= n) /\ ~(i <= n - 1) /\ i - (n - 1) # 1
            /\ i - (n - 1) - 1 = i - n /\ i - (n - 1) \in Bits
        BY <3>4, <2>1, <1>1, <1>5 DEF Bits
      <4>2. globalHistory'[i - (n - 1)] = globalHistory[i - n]
        BY <4>1, <1>4, ShiftedBits
      <4> QED
        BY <4>1, <4>2, <3>1, <2>1, <1>5
    <3> QED
      BY <3>2, <3>3, <3>4, <2>1, <1>5
  <2>3. CASE state.prediction # branch.taken
    <3>1. n = 1
      BY <2>3, <1>2, <1>5, <1>7
    <3>2. ~(i <= n - 1) /\ i - (n - 1) = i
      BY <3>1, <2>1
    <3> QED
      BY <3>2, <2>3, <1>4, <1>5
  <2> QED
    BY <2>2, <2>3
<1> QED
  BY <1>1, <1>5, <1>6, <1>8, <1>9 DEF PerceptronIInv

(* The streaks are no part of it.                                          *)
LEMMA OrderKept ==
  ASSUME PerceptronIInv, PerceptronNext \/ UNCHANGED perceptronVars
  PROVE  PerceptronIInv' /\ depth' = depth
<1>1. CASE UNCHANGED perceptronVars
  BY <1>1 DEF perceptronVars, PerceptronIInv, InOrder, HistoriesAgree
<1>2. CASE PerceptronNext
  <2>1. depth' = depth /\ depth \in Nat
    BY <1>2 DEF PerceptronNext, PredictBranch, PerceptronResult, PerceptronIInv
  <2>2. CASE ~(depth <= BufferSize)
    BY <2>1, <2>2 DEF PerceptronIInv
  <2>3. CASE depth <= BufferSize
    BY <1>2, <2>1, <2>3, PredictKeepsOrder, ResultKeepsOrder DEF PerceptronNext
  <2> QED
    BY <2>1, <2>2, <2>3
<1> QED
  BY <1>1, <1>2

(***************************************************************************)
(* With a buffer as long as the processor is deep, the states of the       *)
(* buffer are those of the branches in flight, in order, and the           *)
(* speculative history is the real one followed by their predictions.      *)
(***************************************************************************)
THEOREM PerceptronInvariance == PerceptronSpec => []PerceptronIInv
<1>1. PerceptronIInv /\ [PerceptronNext]_<<perceptronVars, streakVars>> => PerceptronIInv'
  BY OrderKept
<1> QED
  BY <1>1, PerceptronInitially, PTL DEF PerceptronSpec

(* An outcome trains on what its own prediction read, for every program,   *)
(* table and weight, also when one branch is in flight more than once.     *)
THEOREM TrainsAlwaysOwn == PerceptronSpec => []TrainsOwnPrediction
<1>1. PerceptronIInv => TrainsOwnPrediction
  <2> SUFFICES ASSUME PerceptronIInv, depth <= BufferSize, inFlight # <<>>
               PROVE  /\ Matches(Head(inFlight).ip) # {}
                      /\ stateBuf[FoundState(Head(inFlight).ip)] = Head(inFlight).state
    BY DEF TrainsOwnPrediction
  <2>1. /\ stateBuf # <<>> /\ Head(inFlight) = inFlight[1]
        /\ Matches(Head(inFlight).ip) # {} /\ FoundState(Head(inFlight).ip) = 1
    BY OwnStateIsFirst
  <2>2. IsSequence(stateBuf) /\ InOrder
    BY DEF PerceptronIInv
  <2>3. 1 \in 1 .. Len(stateBuf)
    BY <2>1, <2>2, DropFirst
  <2> QED
    BY <2>1, <2>2, <2>3 DEF InOrder
<1> QED
  BY <1>1, PerceptronInvariance, PTL

(* No repair of the speculative history loses a bit or doubles one.        *)
THEOREM HistoriesAlwaysAgree == PerceptronSpec => []HistoriesAgree
<1>1. PerceptronIInv => HistoriesAgree
  BY DEF PerceptronIInv, HistoriesAgree
<1> QED
  BY <1>1, PerceptronInvariance, PTL
-----------------------------------------------------------------------------
(* What an outcome does to the history of outcomes, its minimum written    *)
(* as a condition.                                                         *)
LEMMA OutcomeIs ==
  ASSUME NEW bound \in Nat \ {0}, direction \in BOOLEAN, streak \in [BranchIps -> 0 .. bound],
         NEW ip \in BranchIps, NEW taken \in BOOLEAN, Outcome(ip, taken, bound)
  PROVE  /\ direction' = taken /\ streak' \in [BranchIps -> 0 .. bound]
         /\ taken # direction =>
              \A other \in BranchIps : streak'[other] = IF other = ip THEN 1 ELSE 0
         /\ taken = direction =>
              \A other \in BranchIps :
                streak'[other] = IF other = ip /\ streak[ip] < bound THEN streak[ip] + 1
                                 ELSE streak[other]
<1>1. streak[ip] \in 0 .. bound
  OBVIOUS
<1>2. Min({streak[ip] + 1, bound}) = IF streak[ip] + 1 <= bound THEN streak[ip] + 1 ELSE bound
  BY <1>1, MinOfTwo
<1>3. Min({streak[ip] + 1, bound}) = (IF streak[ip] < bound THEN streak[ip] + 1 ELSE streak[ip])
      /\ Min({streak[ip] + 1, bound}) \in 0 .. bound
  BY <1>1, <1>2
<1>4. CASE taken = direction
  <2>1. streak' = [streak EXCEPT ![ip] = Min({streak[ip] + 1, bound})]
    BY <1>4 DEF Outcome
  <2> QED
    BY <1>3, <1>4, <2>1 DEF Outcome
<1>5. CASE taken # direction
  <2>1. streak' = [other \in BranchIps |-> IF other = ip THEN 1 ELSE 0]
    BY <1>5 DEF Outcome
  <2> QED
    BY <1>5, <2>1 DEF Outcome
<1> QED
  BY <1>4, <1>5

(* The constants of the counters, and the slots.                           *)
LEMMA CounterNumbers ==
  ASSUME gshare \in BOOLEAN, branchHistory \in GsHistories
  PROVE  /\ BimodalPrime \in Nat \ {0} /\ CounterHalf \in Nat \ {0}
         /\ GsHistoryLength \in Nat \ {0} /\ GsHistoryTableSize \in Nat \ {0}
         /\ CounterBound \in Nat \ {0} /\ CounterMax \in Nat \ {0}
         /\ \A ip \in BranchIps : Slot(ip) \in Slots
         /\ \A ip \in BranchIps, history \in GsHistories :
              gshare => GsTableHash(ip, history) \in Slots
         /\ \A ip \in BranchIps : ~gshare => ip % BimodalPrime \in Slots
<1>1. /\ BimodalPrime \in Nat \ {0} /\ CounterHalf \in Nat \ {0}
      /\ GsHistoryLength \in Nat \ {0} /\ GsHistoryTableSize \in Nat \ {0}
  BY CounterAssumption
<1>2. CounterBound \in Nat \ {0} /\ CounterMax \in Nat \ {0}
  BY <1>1 DEF CounterBound, CounterMax
<1>3. \A ip \in BranchIps, history \in GsHistories :
        gshare => GsTableHash(ip, history) \in Slots
  BY CounterAssumption DEF Slots
<1>4. ASSUME NEW ip \in BranchIps, ~gshare PROVE ip % BimodalPrime \in Slots
  <2>1. ip \in Nat
    BY BranchAssumption
  <2> QED
    BY <1>1, <1>4, <2>1 DEF Slots
<1> QED
  BY <1>1, <1>2, <1>3, <1>4 DEF Slot

(* A counter moves by one, to the end of its range.                        *)
LEMMA CountedIs ==
  ASSUME NEW count \in 0 .. CounterMax, NEW taken \in BOOLEAN, CounterMax \in Nat
  PROVE  Counted(count, taken) =
           IF taken THEN IF count < CounterMax THEN count + 1 ELSE count
           ELSE IF count > 0 THEN count - 1 ELSE count
<1>1. /\ Min({count + 1, CounterMax}) = IF count + 1 <= CounterMax THEN count + 1 ELSE CounterMax
      /\ Max({count - 1, 0}) = IF count - 1 >= 0 THEN count - 1 ELSE 0
  BY MinOfTwo, MaxOfTwo
<1> QED
  BY <1>1 DEF Counted

(* The counter at the slot went up with each outcome, or down.             *)
Towards(way, count, times) ==
  IF way THEN count >= times ELSE count <= CounterMax - times

Moved(slot, times) == Towards(direction, counters[slot], times)

Steady == [i \in GsBits |-> direction]

(***************************************************************************)
(* The counter of a branch is as far from the other end as the branch is   *)
(* in its streak.  gshare's history has to fill first: then the slot of a  *)
(* branch stays the same.                                                  *)
(***************************************************************************)
BimodalLearns ==
  ~gshare => \A ip \in BranchIps : Moved(ip % BimodalPrime, streak[ip])

GshareLearns ==
  gshare => \A ip \in BranchIps :
              /\ \A i \in GsBits : i <= streak[ip] => branchHistory[i] = direction
              /\ streak[ip] >= GsHistoryLength =>
                   Moved(GsTableHash(ip, Steady), streak[ip] - GsHistoryLength)

CounterIInv == CounterTypeOK /\ BimodalLearns /\ GshareLearns

(* Initially no streak has begun.                                          *)
LEMMA CounterInitially == StreakInit /\ CounterInit => CounterIInv
<1> SUFFICES ASSUME StreakInit, CounterInit PROVE CounterIInv
  OBVIOUS
<1>1. branchHistory \in GsHistories /\ gshare \in BOOLEAN
  BY DEF CounterInit, GsHistories
<1>2. /\ GsHistoryLength \in Nat \ {0} /\ CounterBound \in Nat \ {0} /\ CounterMax \in Nat \ {0}
      /\ CounterHalf \in Nat \ {0}
      /\ \A ip \in BranchIps : ~gshare => ip % BimodalPrime \in Slots
  BY <1>1, CounterNumbers
<1>3. /\ direction = FALSE /\ streak = [ip \in BranchIps |-> 0]
      /\ counters = [slot \in Slots |-> IF gshare THEN 2 ELSE 0]
  BY DEF StreakInit, CounterInit
<1>4. CounterTypeOK
  <2>1. (IF gshare THEN 2 ELSE 0) \in 0 .. CounterMax
    BY <1>2 DEF CounterMax
  <2>2. counters \in [Slots -> 0 .. CounterMax]
    BY <1>3, <2>1
  <2>3. streak \in [BranchIps -> 0 .. CounterBound]
    BY <1>2, <1>3
  <2> QED
    BY <1>1, <1>3, <2>2, <2>3 DEF CounterTypeOK
<1>5. BimodalLearns
  <2> SUFFICES ASSUME ~gshare, NEW ip \in BranchIps PROVE Moved(ip % BimodalPrime, streak[ip])
    BY DEF BimodalLearns
  <2> QED
    BY <1>2, <1>3 DEF Moved, Towards
<1>6. GshareLearns
  <2>1. \A ip \in BranchIps : streak[ip] = 0
    BY <1>3
  <2> QED
    BY <1>2, <2>1 DEF GshareLearns, GsBits
<1> QED
  BY <1>4, <1>5, <1>6 DEF CounterIInv

(* An outcome moves one counter its way, and no counter the other way.     *)
LEMMA CounterMoves ==
  ASSUME CounterTypeOK, NEW ip \in BranchIps, NEW taken \in BOOLEAN, CounterResult(ip, taken)
  PROVE  /\ counters' \in [Slots -> 0 .. CounterMax]
         /\ \A slot \in Slots, times \in Nat :
              taken = direction /\ Moved(slot, times) => Towards(taken, counters'[slot], times)
         /\ \A slot \in Slots, times \in Nat :
              slot = Slot(ip) /\ times < CounterMax /\ taken = direction /\ Moved(slot, times)
                => Towards(taken, counters'[slot], times + 1)
         /\ \A slot \in Slots : slot = Slot(ip) => Towards(taken, counters'[slot], 1)
<1>1. /\ gshare \in BOOLEAN /\ branchHistory \in GsHistories
      /\ counters \in [Slots -> 0 .. CounterMax] /\ direction \in BOOLEAN
  BY DEF CounterTypeOK
<1>2. CounterMax \in Nat \ {0} /\ Slot(ip) \in Slots
  BY <1>1, CounterNumbers
<1> DEFINE slot0 == Slot(ip)
           count == counters[slot0]
<1>3. /\ counters' = [counters EXCEPT ![slot0] = Counted(count, taken)]
      /\ gshare' = gshare /\ direction' = taken
  BY DEF CounterResult, Outcome
<1>4. CounterMax' = CounterMax
  BY <1>3 DEF CounterMax
<1> HIDE DEF slot0
<1>5. count \in 0 .. CounterMax /\ slot0 \in Slots
  BY <1>1, <1>2 DEF slot0
<1> HIDE DEF count
<1>6. Counted(count, taken) = IF taken THEN IF count < CounterMax THEN count + 1 ELSE count
                              ELSE IF count > 0 THEN count - 1 ELSE count
  BY <1>2, <1>5, CountedIs
<1>7. Counted(count, taken) \in 0 .. CounterMax
  BY <1>2, <1>5, <1>6
<1>8. /\ counters' \in [Slots -> 0 .. CounterMax]
      /\ counters'[slot0] = Counted(count, taken)
      /\ \A s \in Slots : s # slot0 => counters'[s] = counters[s]
  BY <1>1, <1>3, <1>5, <1>7
<1>9. ASSUME NEW s \in Slots, NEW times \in Nat, taken = direction, Moved(s, times)
      PROVE  Towards(taken, counters'[s], times)
  <2>1. counters[s] \in 0 .. CounterMax /\ counters[slot0] = count
    BY <1>1 DEF count
  <2>2. counters'[s] = IF s = slot0 THEN Counted(count, taken) ELSE counters[s]
    BY <1>8
  <2> QED
    BY <1>2, <1>3, <1>4, <1>5, <1>6, <1>9, <2>1, <2>2 DEF Moved, Towards
<1>10. ASSUME NEW s \in Slots, s = slot0, NEW times \in Nat, times < CounterMax,
              taken = direction, Moved(s, times)
       PROVE  Towards(taken, counters'[s], times + 1)
  <2>1. counters[slot0] = count
    BY DEF count
  <2> QED
    BY <1>1, <1>2, <1>3, <1>4, <1>5, <1>6, <1>8, <1>10, <2>1 DEF Moved, Towards
<1>11. ASSUME NEW s \in Slots, s = slot0 PROVE Towards(taken, counters'[s], 1)
  BY <1>11, <1>1, <1>2, <1>3, <1>4, <1>5, <1>6, <1>8 DEF Moved, Towards
<1> QED
  BY <1>8, <1>9, <1>10, <1>11 DEF slot0

(* Each outcome of a streak moves the counter of its branch once.          *)
LEMMA BimodalKeeps ==
  ASSUME CounterIInv, CounterTypeOK', ~gshare, NEW ip \in BranchIps, NEW taken \in BOOLEAN,
         CounterResult(ip, taken)
  PROVE  BimodalLearns'
<1>1. /\ gshare \in BOOLEAN /\ branchHistory \in GsHistories /\ direction \in BOOLEAN
      /\ streak \in [BranchIps -> 0 .. CounterBound] /\ CounterTypeOK
      /\ gshare' = gshare
  BY DEF CounterIInv, CounterTypeOK, CounterResult
<1>2. /\ CounterBound \in Nat \ {0} /\ CounterMax \in Nat \ {0} /\ CounterBound <= CounterMax
      /\ Slots' = Slots /\ CounterMax' = CounterMax /\ Slot(ip) = ip % BimodalPrime
      /\ \A x \in BranchIps : x % BimodalPrime \in Slots
  BY <1>1, CounterNumbers DEF CounterBound, CounterMax, Slots, Slot
<1>3. /\ taken # direction =>
           \A other \in BranchIps : streak'[other] = IF other = ip THEN 1 ELSE 0
      /\ taken = direction =>
           \A other \in BranchIps :
             streak'[other] = IF other = ip /\ streak[ip] < CounterBound THEN streak[ip] + 1
                              ELSE streak[other]
  BY <1>1, <1>2, OutcomeIs DEF CounterResult
<1>4. /\ \A slot \in Slots, times \in Nat :
           taken = direction /\ Moved(slot, times) => Towards(taken, counters'[slot], times)
      /\ \A slot \in Slots, times \in Nat :
           slot = Slot(ip) /\ times < CounterMax /\ taken = direction /\ Moved(slot, times)
             => Towards(taken, counters'[slot], times + 1)
      /\ \A slot \in Slots : slot = Slot(ip) => Towards(taken, counters'[slot], 1)
  BY <1>1, CounterMoves
<1>5. \A slot \in Slots : Towards(taken, counters'[slot], 0)
  <2>1. counters' \in [Slots -> 0 .. CounterMax]
    BY <1>2 DEF CounterTypeOK
  <2>2. \A slot \in Slots : counters'[slot] \in 0 .. CounterMax
    BY <2>1
  <2> QED
    BY <1>2, <2>2 DEF Towards
<1>6. ASSUME NEW x \in BranchIps
      PROVE  Towards(taken, counters'[x % BimodalPrime], streak'[x])
  <2>1. x % BimodalPrime \in Slots /\ streak[x] \in 0 .. CounterBound
    BY <1>1, <1>2
  <2>2. CASE taken # direction
    <3>1. streak'[x] = IF x = ip THEN 1 ELSE 0
      BY <1>3, <2>2
    <3> QED
      BY <1>2, <1>4, <1>5, <2>1, <3>1
  <2>3. CASE taken = direction
    <3>1. Moved(x % BimodalPrime, streak[x])
      BY DEF CounterIInv, BimodalLearns
    <3>2. CASE x = ip /\ streak[ip] < CounterBound
      <4>1. Towards(taken, counters'[x % BimodalPrime], streak[x] + 1)
        BY <1>2, <1>4, <2>1, <2>3, <3>1, <3>2
      <4> QED
        BY <1>3, <2>3, <3>2, <4>1
    <3>3. CASE ~(x = ip /\ streak[ip] < CounterBound)
      <4>1. streak'[x] = streak[x] /\ streak[x] \in Nat
        BY <1>2, <1>3, <2>1, <2>3, <3>3
      <4> QED
        BY <1>4, <2>1, <2>3, <3>1, <4>1
    <3> QED
      BY <3>2, <3>3
  <2> QED
    BY <2>2, <2>3
<1> QED
  <2>1. direction' = taken /\ CounterMax' = CounterMax
    BY <1>1, <1>2 DEF CounterResult, Outcome
  <2> QED
    BY <1>6, <2>1 DEF BimodalLearns, Moved, Towards

(* Behind the history, each outcome moves one and the same counter.        *)
LEMMA GshareKeeps ==
  ASSUME CounterIInv, CounterTypeOK', gshare, NEW ip \in BranchIps, NEW taken \in BOOLEAN,
         CounterResult(ip, taken)
  PROVE  GshareLearns'
<1> DEFINE L == GsHistoryLength
<1>1. /\ gshare \in BOOLEAN /\ branchHistory \in GsHistories /\ direction \in BOOLEAN
      /\ streak \in [BranchIps -> 0 .. CounterBound] /\ CounterTypeOK
      /\ gshare' = gshare
      /\ branchHistory' = [i \in GsBits |-> IF i = 1 THEN taken ELSE branchHistory[i - 1]]
  BY DEF CounterIInv, CounterTypeOK, CounterResult
<1>2. /\ CounterBound \in Nat \ {0} /\ CounterMax \in Nat \ {0}
      /\ L \in Nat \ {0} /\ CounterBound = L + 2 /\ CounterMax = 3
      /\ Slots' = Slots /\ CounterMax' = CounterMax /\ Slot(ip) = GsTableHash(ip, branchHistory)
  BY <1>1, CounterNumbers DEF CounterBound, CounterMax, Slots, Slot
<1>3. /\ direction' = taken
      /\ taken # direction =>
           \A other \in BranchIps : streak'[other] = IF other = ip THEN 1 ELSE 0
      /\ taken = direction =>
           \A other \in BranchIps :
             streak'[other] = IF other = ip /\ streak[ip] < CounterBound THEN streak[ip] + 1
                              ELSE streak[other]
  BY <1>1, <1>2, OutcomeIs DEF CounterResult
<1>4. /\ \A slot \in Slots, times \in Nat :
           taken = direction /\ Moved(slot, times) => Towards(taken, counters'[slot], times)
      /\ \A slot \in Slots, times \in Nat :
           slot = Slot(ip) /\ times < CounterMax /\ taken = direction /\ Moved(slot, times)
             => Towards(taken, counters'[slot], times + 1)
  BY <1>1, CounterMoves
<1>5. \A slot \in Slots : Towards(taken, counters'[slot], 0)
  <2>1. counters' \in [Slots -> 0 .. CounterMax]
    BY <1>2 DEF CounterTypeOK
  <2>2. \A slot \in Slots : counters'[slot] \in 0 .. CounterMax
    BY <2>1
  <2> QED
    BY <1>2, <2>2 DEF Towards
<1>6. /\ \A x \in BranchIps : GsTableHash(x, Steady) \in Slots
      /\ \A x \in BranchIps : GsTableHash(x, Steady') \in Slots
  <2>1. Steady \in GsHistories /\ Steady' \in GsHistories
    BY <1>1, <1>3 DEF Steady, GsHistories
  <2> QED
    BY <1>1, <2>1, CounterNumbers
<1>7. \A x \in BranchIps : streak[x] \in 0 .. L + 2
  BY <1>1, <1>2
<1>8. ASSUME NEW x \in BranchIps, NEW i \in GsBits, i <= streak'[x]
      PROVE  branchHistory'[i] = direction'
  <2>1. i \in 1 .. L
    BY DEF GsBits
  <2>2. branchHistory'[i] = IF i = 1 THEN taken ELSE branchHistory[i - 1]
    BY <1>1
  <2>3. CASE i = 1
    BY <1>3, <2>2, <2>3
  <2>4. CASE i # 1
    <3>1. taken = direction
      BY <1>2, <1>3, <1>8, <2>1, <2>4
    <3>2. i - 1 <= streak[x] /\ i - 1 \in GsBits
      BY <1>2, <1>3, <1>7, <1>8, <2>1, <2>4, <3>1 DEF GsBits
    <3>3. branchHistory[i - 1] = direction
      BY <3>2 DEF CounterIInv, GshareLearns
    <3> QED
      BY <1>3, <2>2, <2>4, <3>1, <3>3
  <2> QED
    BY <2>3, <2>4
<1>9. ASSUME NEW x \in BranchIps, streak'[x] >= L
      PROVE  Towards(taken, counters'[GsTableHash(x, Steady')], streak'[x] - L)
  <2> DEFINE slot == GsTableHash(x, Steady)
  <2>1. CASE taken # direction
    <3>1. streak'[x] - L = 0
      BY <1>2, <1>3, <1>9, <2>1
    <3> QED
      BY <1>5, <1>6, <3>1
  <2>2. CASE taken = direction
    <3>1. Steady' = Steady /\ slot \in Slots
      BY <1>3, <1>6, <2>2 DEF Steady
    <3>2. CASE streak[x] < L
      <4>1. streak'[x] - L = 0
        BY <1>2, <1>3, <1>7, <1>9, <2>2, <3>2
      <4> QED
        BY <1>5, <1>6, <4>1
    <3>3. CASE streak[x] >= L
      <4>1. Moved(slot, streak[x] - L) /\ streak[x] - L \in Nat
        BY <1>1, <1>2, <1>7, <3>3 DEF CounterIInv, GshareLearns
      <4>2. CASE x = ip /\ streak[ip] < CounterBound
        <5>1. branchHistory = Steady
          <6>1. \A i \in GsBits : i <= streak[x]
            BY <1>2, <1>7, <3>3 DEF GsBits
          <6>2. \A i \in GsBits : branchHistory[i] = direction
            BY <1>1, <6>1 DEF CounterIInv, GshareLearns
          <6> QED
            BY <1>1, <6>2 DEF Steady, GsHistories
        <5>2. slot = Slot(ip)
          BY <1>2, <4>2, <5>1
        <5>3. streak[x] - L < CounterMax /\ streak'[x] - L = streak[x] - L + 1
          BY <1>2, <1>3, <1>7, <2>2, <4>2
        <5> HIDE DEF slot
        <5>4. Towards(taken, counters'[slot], streak[x] - L + 1)
          BY <1>4, <2>2, <3>1, <4>1, <5>2, <5>3
        <5>5. Towards(taken, counters'[slot], streak'[x] - L)
          BY <5>3, <5>4
        <5> QED
          BY <3>1, <5>5 DEF slot
      <4>3. CASE ~(x = ip /\ streak[ip] < CounterBound)
        <5>1. streak'[x] = streak[x]
          BY <1>3, <2>2, <4>3
        <5>2. Towards(taken, counters'[slot], streak[x] - L)
          BY <1>4, <2>2, <3>1, <4>1, <5>1
        <5> QED
          BY <3>1, <5>1, <5>2
      <4> QED
        BY <4>2, <4>3
    <3> QED
      BY <1>2, <1>7, <3>2, <3>3
  <2> QED
    BY <2>1, <2>2
<1> QED
  BY <1>2, <1>3, <1>8, <1>9 DEF GshareLearns, Moved, Towards
(* The counters, predicting or not, and the outcomes of the branches.      *)
LEMMA CounterKeeps == CounterIInv /\ CounterNext => CounterIInv'
<1> SUFFICES ASSUME CounterIInv, NEW ip \in BranchIps, NEW taken \in BOOLEAN,
                    CounterResult(ip, taken)
             PROVE  CounterIInv'
  BY DEF CounterNext
<1>1. CounterTypeOK /\ gshare' = gshare
  BY DEF CounterIInv, CounterResult
<1>2. CounterTypeOK'
  <2>1. gshare \in BOOLEAN /\ branchHistory \in GsHistories /\ direction \in BOOLEAN
    BY <1>1 DEF CounterTypeOK
  <2>2. CounterBound \in Nat \ {0} /\ GsHistoryLength \in Nat \ {0}
    BY <2>1, CounterNumbers
  <2>3. CounterBound' = CounterBound /\ CounterMax' = CounterMax /\ Slots' = Slots
    BY <1>1 DEF CounterBound, CounterMax, Slots
  <2>4. counters' \in [Slots -> 0 .. CounterMax]
    BY <1>1, CounterMoves
  <2>5. direction' = taken /\ streak' \in [BranchIps -> 0 .. CounterBound]
    BY <1>1, <2>1, <2>2, OutcomeIs DEF CounterTypeOK, CounterResult
  <2>6. branchHistory' \in GsHistories
    <3>1. CASE gshare
      <4>1. branchHistory' = [i \in GsBits |-> IF i = 1 THEN taken ELSE branchHistory[i - 1]]
        BY <3>1 DEF CounterResult
      <4>2. \A i \in GsBits : i # 1 => i - 1 \in GsBits
        BY <2>2 DEF GsBits
      <4> QED
        BY <2>1, <4>1, <4>2 DEF GsHistories
    <3>2. CASE ~gshare
      BY <2>1, <3>2 DEF CounterResult
    <3> QED
      BY <3>1, <3>2
  <2> QED
    BY <1>1, <2>1, <2>3, <2>4, <2>5, <2>6 DEF CounterTypeOK
<1>3. CASE gshare
  <2>1. GshareLearns'
    BY <1>2, <1>3, GshareKeeps
  <2> QED
    BY <1>1, <1>2, <1>3, <2>1 DEF CounterIInv, BimodalLearns
<1>4. CASE ~gshare
  <2>1. BimodalLearns'
    BY <1>2, <1>4, BimodalKeeps
  <2> QED
    BY <1>1, <1>2, <1>4, <2>1 DEF CounterIInv, GshareLearns
<1> QED
  BY <1>3, <1>4

(* At its bound a counter is in its direction's half.                      *)
LEMMA CountersLearn == CounterIInv => Learned(CounterPredicts, CounterBound)
<1> SUFFICES ASSUME CounterIInv, NEW ip \in BranchIps, streak[ip] = CounterBound
             PROVE  CounterPredicts(ip) = direction
  BY DEF Learned
<1>1. /\ gshare \in BOOLEAN /\ branchHistory \in GsHistories /\ direction \in BOOLEAN
      /\ counters \in [Slots -> 0 .. CounterMax]
  BY DEF CounterIInv, CounterTypeOK
<1>2. /\ Slot(ip) \in Slots /\ CounterHalf \in Nat \ {0} /\ GsHistoryLength \in Nat \ {0}
  BY <1>1, CounterNumbers
<1>3. counters[Slot(ip)] \in 0 .. CounterMax
  BY <1>1, <1>2
<1>4. CASE gshare
  <2>1. CounterBound = GsHistoryLength + 2 /\ CounterMax = 3
    BY <1>4 DEF CounterBound, CounterMax
  <2>2. branchHistory = Steady
    <3>1. \A i \in GsBits : branchHistory[i] = direction
      BY <1>2, <1>4, <2>1 DEF CounterIInv, GshareLearns, GsBits
    <3> QED
      BY <1>1, <3>1 DEF Steady, GsHistories
  <2>3. Moved(GsTableHash(ip, Steady), streak[ip] - GsHistoryLength)
    BY <1>2, <1>4, <2>1 DEF CounterIInv, GshareLearns
  <2>4. Slot(ip) = GsTableHash(ip, Steady) /\ streak[ip] - GsHistoryLength = 2
    BY <1>2, <1>4, <2>1, <2>2 DEF Slot
  <2>5. Towards(direction, counters[Slot(ip)], 2)
    BY <2>3, <2>4 DEF Moved
  <2> QED
    BY <1>1, <1>3, <1>4, <2>1, <2>5 DEF Towards, CounterPredicts
<1>5. CASE ~gshare
  <2>1. CounterBound = CounterHalf /\ CounterMax = 2 * CounterHalf - 1
    BY <1>5 DEF CounterBound, CounterMax
  <2>2. Towards(direction, counters[Slot(ip)], CounterHalf)
    BY <1>5, <2>1 DEF CounterIInv, BimodalLearns, Moved, Slot
  <2> QED
    BY <1>1, <1>2, <1>3, <1>5, <2>1, <2>2 DEF Towards, CounterPredicts
<1> QED
  BY <1>1, <1>4, <1>5
-----------------------------------------------------------------------------
(* The constants of the hashed perceptron.  The history reaches over the   *)
(* longest prefix that is hashed.                                          *)
LEMMA HashedNumbers ==
  /\ LogTableSize \in Nat \ {0} /\ Speed \in Nat \ {0} /\ InitialTheta \in Nat \ {0}
  /\ HighestWeight \in Nat \ {0} /\ LowestWeight \in Int /\ LowestWeight < 0
  /\ MaxTheta \in Nat /\ InitialTheta <= MaxTheta
  /\ MaxHist \in Nat \ {0} /\ HashedBound \in Nat \ {0}
  /\ IsFiniteSet(Tables) /\ Tables # {}
  /\ \A t \in Tables : HistoryLengths[t] \in 0 .. MaxHist
  /\ \A k \in 0 .. MaxHist - 1 : k \in HistoryBits
  /\ HistoryBits \in SUBSET Nat
<1>1. /\ LogTableSize \in Nat \ {0} /\ Speed \in Nat \ {0} /\ InitialTheta \in Nat \ {0}
      /\ HighestWeight \in Nat \ {0} /\ LowestWeight \in Int /\ LowestWeight < 0
      /\ MaxTheta \in Nat /\ InitialTheta <= MaxTheta
  BY HashedAssumption
<1>2. /\ HistoryLengths \in Seq(Nat) /\ HistoryLengths # <<>>
      /\ HistoryLengths[Len(HistoryLengths)] > 0
      /\ \A t \in DOMAIN HistoryLengths : HistoryLengths[t] <= HistoryLengths[Len(HistoryLengths)]
  BY HashedAssumption
<1>3. /\ Len(HistoryLengths) \in Nat \ {0}
      /\ Tables = 1 .. Len(HistoryLengths)
      /\ \A t \in Tables : HistoryLengths[t] \in Nat
  <2>1. Len(HistoryLengths) \in Nat /\ DOMAIN HistoryLengths = 1 .. Len(HistoryLengths)
    BY <1>2, LenProperties, Zenon
  <2>2. Len(HistoryLengths) # 0
    BY <1>2, EmptySeq, Zenon
  <2>3. \A t \in 1 .. Len(HistoryLengths) : HistoryLengths[t] \in Nat
    BY <1>2, ElementOfSeq, Zenon
  <2> QED
    BY <2>1, <2>2, <2>3 DEF Tables
<1>4. IsFiniteSet(Tables) /\ Tables # {} /\ Len(HistoryLengths) \in Tables
  <2>1. IsFiniteSet(1 .. Len(HistoryLengths))
    BY <1>3, FS_Interval
  <2> QED
    BY <1>3, <2>1
<1>5. MaxHist \in Nat \ {0} /\ \A t \in Tables : HistoryLengths[t] \in 0 .. MaxHist
  BY <1>2, <1>3, <1>4 DEF MaxHist, Tables
<1>6. HashedBound \in Nat \ {0}
  BY <1>1, <1>5 DEF HashedBound
<1>7. MaxHist <= (MaxHist \div LogTableSize + 1) * LogTableSize
  <2> DEFINE q == MaxHist \div LogTableSize
  <2>1. /\ q \in Int /\ MaxHist % LogTableSize \in 0 .. LogTableSize - 1
        /\ MaxHist = LogTableSize * q + (MaxHist % LogTableSize)
    BY <1>1, <1>5
  <2> HIDE DEF q
  <2>2. (q + 1) * LogTableSize = q * LogTableSize + LogTableSize
    BY <1>1, <2>1
  <2>3. q * LogTableSize = LogTableSize * q
    BY <1>1, <2>1
  <2>4. LogTableSize * q \in Int
    BY <1>1, <2>1
  <2>5. MaxHist <= (q + 1) * LogTableSize
    BY <1>1, <1>5, <2>1, <2>2, <2>3, <2>4
  <2> QED
    BY <2>5 DEF q
<1>8. (MaxHist \div LogTableSize + 1) * LogTableSize \in Int
  BY <1>1, <1>5
<1>9. (\A k \in 0 .. MaxHist - 1 : k \in HistoryBits) /\ HistoryBits \in SUBSET Nat
  BY <1>5, <1>7, <1>8 DEF HistoryBits
<1> QED
  BY <1>1, <1>4, <1>5, <1>6, <1>9

(* The indices of a branch.                                                *)
IndicesOf(pc) == [t \in Tables |-> IndexOf(pc, HistoryLengths[t])]

(* The hash of an address and a history is an index of its table.          *)
LEMMA IndicesType ==
  ASSUME NEW pc \in BranchIps
  PROVE  /\ IndicesOf(pc) \in [Tables -> TableIndices]
         /\ HashedPredicts(pc) = (SumAt(IndicesOf(pc)) >= 1)
<1>1. ASSUME NEW n \in Nat PROVE IndexOf(pc, n) \in TableIndices
  <2>1. ASSUME NEW b \in 0 .. LogTableSize - 1
        PROVE  ((pc \div 2^b)
                 + Cardinality({k \in 0 .. n - 1 : k % LogTableSize = b /\ ghist[k] = 1})) % 2 \in 0 .. 1
    <3> DEFINE s == {k \in 0 .. n - 1 : k % LogTableSize = b /\ ghist[k] = 1}
    <3>1. IsFiniteSet(0 .. n - 1)
      BY FS_Interval
    <3>2. Cardinality(s) \in Nat
      BY <3>1, FS_Subset, FS_CardinalityType
    <3> HIDE DEF s
    <3>3. pc \in Int /\ b \in Nat
      BY BranchAssumption, HashedNumbers
    <3>4. \A i \in Nat, x \in Int, c \in Nat : ((x \div 2^i) + c) % 2 \in 0 .. 1
      BY SMT
    <3>5. ((pc \div 2^b) + Cardinality(s)) % 2 \in 0 .. 1
      BY <3>2, <3>3, <3>4
    <3> QED
      BY <3>5 DEF s
  <2> QED
    BY <2>1 DEF IndexOf, TableIndices
<1> QED
  BY <1>1, HashedNumbers DEF IndicesOf, HashedPredicts

(* And it stays one whatever the history becomes.                          *)
LEMMA IndicesAlways == \A pc \in BranchIps : IndicesOf(pc) \in [Tables -> TableIndices]
BY IndicesType

(* They depend on the bits of the history that are hashed only.            *)
LEMMA IndicesStay ==
  ASSUME NEW pc \in BranchIps, \A k \in 0 .. MaxHist - 1 : ghist'[k] = ghist[k]
  PROVE  IndicesOf(pc)' = IndicesOf(pc)
<1>1. ASSUME NEW n \in 0 .. MaxHist PROVE IndexOf(pc, n)' = IndexOf(pc, n)
  <2>1. \A b : {k \in 0 .. n - 1 : k % LogTableSize = b /\ ghist'[k] = 1}
                 = {k \in 0 .. n - 1 : k % LogTableSize = b /\ ghist[k] = 1}
    BY HashedNumbers
  <2> QED
    BY <2>1 DEF IndexOf
<1> QED
  BY <1>1, HashedNumbers DEF IndicesOf

(* The sum is a number, and grows with the weights.                        *)
TablesType == [Tables -> [TableIndices -> LowestWeight .. HighestWeight]]

SumOver(w, x) == SumFunction([t \in Tables |-> w[t][x[t]]])

(* Weights that are larger one by one sum up to more.                      *)
LEMMA SumsGrow ==
  ASSUME NEW v \in TablesType, NEW w \in TablesType, NEW x \in [Tables -> TableIndices],
         \A t \in Tables : v[t][x[t]] <= w[t][x[t]]
  PROVE  SumOver(v, x) \in Int /\ SumOver(w, x) \in Int /\ SumOver(v, x) <= SumOver(w, x)
<1> DEFINE f == [t \in Tables |-> v[t][x[t]]]
           g == [t \in Tables |-> w[t][x[t]]]
<1>1. f \in [Tables -> Int] /\ g \in [Tables -> Int]
  BY HashedNumbers DEF TablesType
<1>2. \A t \in Tables : f[t] <= g[t]
  OBVIOUS
<1> HIDE DEF f, g
<1>3. SumFunction(f) \in Int /\ SumFunction(g) \in Int /\ SumFunction(f) <= SumFunction(g)
  BY <1>1, <1>2, HashedNumbers, SumGrows
<1> QED
  BY <1>3 DEF f, g, SumOver

(* A weight moves by one, to the end of its range.                         *)
LEMMA TrainedIs ==
  ASSUME NEW weight \in LowestWeight .. HighestWeight, NEW taken \in BOOLEAN
  PROVE  Trained(weight, taken) =
           IF taken THEN IF weight < HighestWeight THEN weight + 1 ELSE weight
           ELSE IF weight > LowestWeight THEN weight - 1 ELSE weight
<1>1. weight \in Int /\ HighestWeight \in Int /\ LowestWeight \in Int
  BY HashedNumbers
<1>2. /\ Min({weight + 1, HighestWeight}) =
           IF weight + 1 <= HighestWeight THEN weight + 1 ELSE HighestWeight
      /\ Max({weight - 1, LowestWeight}) =
           IF weight - 1 >= LowestWeight THEN weight - 1 ELSE LowestWeight
  BY <1>1, MinOfTwo, MaxOfTwo
<1> QED
  BY <1>1, <1>2 DEF Trained

(***************************************************************************)
(* What is kept: the indices and the sum are those of the branch that is   *)
(* pending; the history begins with the outcomes of a streak; and a branch *)
(* whose streak has filled the history is predicted its way, or has moved  *)
(* each of its weights that way with every outcome since.                  *)
(***************************************************************************)
PendingOK ==
  pending # NoBranch =>
    /\ pending.ip \in BranchIps
    /\ indices = IndicesOf(pending.ip) /\ yout = SumOver(tables, indices)

HistoryFills ==
  \A ip \in BranchIps : \A k \in HistoryBits :
    k < streak[ip] => ghist[k] = IF direction THEN 1 ELSE 0

Closer(way, weight, times) ==
  IF way THEN weight = HighestWeight \/ weight >= LowestWeight + times
  ELSE weight = LowestWeight \/ weight <= HighestWeight - times

(* The sum over some indices is on one side.                               *)
OnSide(way, w, x) == IF way THEN SumOver(w, x) >= 1 ELSE SumOver(w, x) <= 0

AllCloser(way, w, x, times) == \A t \in Tables : Closer(way, w[t][x[t]], times)

HashedLearns ==
  \A ip \in BranchIps :
    streak[ip] >= MaxHist =>
      \/ OnSide(direction, tables, IndicesOf(ip))
      \/ AllCloser(direction, tables, IndicesOf(ip), streak[ip] - MaxHist)

HashedIInv ==
  /\ HashedTypeOK
  /\ direction \in BOOLEAN /\ streak \in [BranchIps -> 0 .. HashedBound]
  /\ PendingOK /\ HistoryFills /\ HashedLearns

(* No weight of w is farther from the end than its weight in v.            *)
NoneBack(way, v, w) ==
  \A t \in Tables, i \in TableIndices :
    IF way THEN v[t][i] <= w[t][i] ELSE w[t][i] <= v[t][i]

(* Training in one direction keeps the sums on their side.                 *)
LEMMA SideStays ==
  ASSUME NEW way \in BOOLEAN, NEW v \in TablesType, NEW w \in TablesType, NoneBack(way, v, w),
         NEW x \in [Tables -> TableIndices]
  PROVE  /\ OnSide(way, v, x) => OnSide(way, w, x)
         /\ \A times \in Nat : AllCloser(way, v, x, times) => AllCloser(way, w, x, times)
<1>1. \A t \in Tables : x[t] \in TableIndices
  OBVIOUS
<1>2. \A t \in Tables :
        /\ v[t][x[t]] \in LowestWeight .. HighestWeight
        /\ w[t][x[t]] \in LowestWeight .. HighestWeight
  BY <1>1 DEF TablesType
<1>3. ASSUME NEW times \in Nat, AllCloser(way, v, x, times) PROVE AllCloser(way, w, x, times)
  <2> SUFFICES ASSUME NEW t \in Tables PROVE Closer(way, w[t][x[t]], times)
    BY DEF AllCloser
  <2>1. Closer(way, v[t][x[t]], times)
    BY <1>3 DEF AllCloser
  <2>2. IF way THEN v[t][x[t]] <= w[t][x[t]] ELSE w[t][x[t]] <= v[t][x[t]]
    BY <1>1 DEF NoneBack
  <2> QED
    BY <1>2, <2>1, <2>2, HashedNumbers DEF Closer
<1>4. ASSUME OnSide(way, v, x) PROVE OnSide(way, w, x)
  <2>1. CASE way
    <3>1. \A t \in Tables : v[t][x[t]] <= w[t][x[t]]
      BY <1>1, <2>1 DEF NoneBack
    <3>2. SumOver(v, x) \in Int /\ SumOver(w, x) \in Int /\ SumOver(v, x) <= SumOver(w, x)
      BY <3>1, SumsGrow
    <3> QED
      BY <1>4, <2>1, <3>2 DEF OnSide
  <2>2. CASE ~way
    <3>1. \A t \in Tables : w[t][x[t]] <= v[t][x[t]]
      BY <1>1, <2>2 DEF NoneBack
    <3>2. SumOver(v, x) \in Int /\ SumOver(w, x) \in Int /\ SumOver(w, x) <= SumOver(v, x)
      BY <3>1, SumsGrow
    <3> QED
      BY <1>4, <2>2, <3>2 DEF OnSide
  <2> QED
    BY <2>1, <2>2
<1> QED
  BY <1>3, <1>4

(* All weights at the end put the sum on its side.                         *)
LEMMA EndsDecide ==
  ASSUME NEW way \in BOOLEAN, NEW w \in TablesType, NEW x \in [Tables -> TableIndices],
         AllCloser(way, w, x, HashedBound - MaxHist)
  PROVE  OnSide(way, w, x)
<1> DEFINE f == [t \in Tables |-> w[t][x[t]]]
<1>1. \A t \in Tables : w[t][x[t]] \in LowestWeight .. HighestWeight
  BY DEF TablesType
<1>2. f \in [Tables -> Int] /\ IsFiniteSet(Tables) /\ Tables # {}
  BY <1>1, HashedNumbers
<1>3. /\ (\A t \in Tables : f[t] >= 0) => \A t \in Tables : SumFunction(f) >= f[t]
      /\ (\A t \in Tables : f[t] <= 0) => SumFunction(f) <= 0
      /\ SumFunction(f) \in Int
  <2> HIDE DEF f
  <2> QED
    BY <1>2, SumHasSign, SumGrows
<1>4. HashedBound - MaxHist = HighestWeight - LowestWeight + 2
  BY HashedNumbers DEF HashedBound
<1>5. \A t \in Tables : w[t][x[t]] = IF way THEN HighestWeight ELSE LowestWeight
  BY <1>1, <1>4, HashedNumbers DEF AllCloser, Closer
<1>6. \A t \in Tables : f[t] = IF way THEN HighestWeight ELSE LowestWeight
  BY <1>5
<1>7. SumOver(w, x) = SumFunction(f)
  BY DEF SumOver
<1> HIDE DEF f
<1>8. PICK t \in Tables : TRUE
  BY <1>2
<1> QED
  BY <1>3, <1>6, <1>7, <1>8, HashedNumbers DEF OnSide

(* Nothing has happened yet.                                               *)
LEMMA CloserAtFirst ==
  ASSUME NEW way \in BOOLEAN, NEW w \in TablesType, NEW x \in [Tables -> TableIndices]
  PROVE  AllCloser(way, w, x, 0)
<1>1. \A t \in Tables : w[t][x[t]] \in LowestWeight .. HighestWeight
  BY DEF TablesType
<1> QED
  BY <1>1, HashedNumbers DEF AllCloser, Closer

(* Initially no streak has begun.                                          *)
LEMMA HashedInitially == StreakInit /\ HashedInit => HashedIInv
<1> SUFFICES ASSUME StreakInit, HashedInit PROVE HashedIInv
  OBVIOUS
<1>1. /\ direction = FALSE /\ streak = [ip \in BranchIps |-> 0] /\ pending = NoBranch
      /\ \A ip \in BranchIps : streak[ip] = 0
  BY DEF StreakInit, HashedInit
<1>5. streak \in [BranchIps -> 0 .. HashedBound]
  BY <1>1, HashedNumbers
<1>2. HashedTypeOK
  BY HashedNumbers DEF HashedInit, HashedTypeOK, TableIndices
<1>3. HistoryFills
  BY <1>1, HashedNumbers DEF HistoryFills
<1>4. HashedLearns
  BY <1>1, HashedNumbers DEF HashedLearns
<1> QED
  BY <1>1, <1>2, <1>3, <1>4, <1>5 DEF HashedIInv, PendingOK

(* A prediction only remembers its indices and its sum.                    *)
LEMMA HashedPredictKeeps ==
  ASSUME HashedIInv, NEW pc \in BranchIps, HashedPredict(pc)
  PROVE  HashedIInv'
<1>1. /\ indices' = IndicesOf(pc) /\ yout' = SumOver(tables, IndicesOf(pc))
      /\ pending' = [ip |-> pc]
      /\ UNCHANGED <<tables, ghist, theta, tc, direction, streak>>
  BY DEF HashedPredict, IndicesOf, SumAt, SumOver, streakVars
<1>2. HashedTypeOK
  BY DEF HashedIInv
<1>3. IndicesOf(pc) \in [Tables -> TableIndices]
  BY IndicesType
<1>4. SumOver(tables, IndicesOf(pc)) \in Int
  <2>1. tables \in TablesType
    BY <1>2 DEF HashedTypeOK, TablesType
  <2>2. \A t \in Tables : tables[t][IndicesOf(pc)[t]] <= tables[t][IndicesOf(pc)[t]]
    BY <1>3, <2>1, HashedNumbers DEF TablesType
  <2> QED
    BY <1>3, <2>1, <2>2, SumsGrow
<1> HIDE DEF HashedPredict
<1>5. HashedTypeOK'
  BY <1>1, <1>2, <1>3, <1>4 DEF HashedTypeOK
<1>6. \A ip : IndicesOf(ip)' = IndicesOf(ip)
  BY <1>1 DEF IndicesOf, IndexOf
<1>7. PendingOK'
  <2>1. pending'.ip = pc
    BY <1>1
  <2> QED
    BY <1>1, <1>6, <2>1 DEF PendingOK
<1>8. HistoryFills' /\ HashedLearns'
  BY <1>1, <1>6 DEF HashedIInv, HistoryFills, HashedLearns
<1> QED
  BY <1>1, <1>5, <1>7, <1>8 DEF HashedIInv

(* The predictor says what the sum of the branch says.                     *)
LEMMA PredictsBySide ==
  ASSUME NEW way \in BOOLEAN, NEW pc \in BranchIps, tables \in TablesType
  PROVE  OnSide(way, tables, IndicesOf(pc)) <=> (HashedPredicts(pc) = way)
<1>1. IndicesOf(pc) \in [Tables -> TableIndices]
  BY IndicesType
<1>2. SumOver(tables, IndicesOf(pc)) \in Int
  <2>1. \A t \in Tables : tables[t][IndicesOf(pc)[t]] <= tables[t][IndicesOf(pc)[t]]
    BY <1>1, HashedNumbers DEF TablesType
  <2> QED
    BY <1>1, <2>1, SumsGrow
<1>3. HashedPredicts(pc) = (SumOver(tables, IndicesOf(pc)) >= 1)
  BY IndicesType DEF SumAt, SumOver
<1>4. CASE way
  BY <1>3, <1>4 DEF OnSide
<1>5. CASE ~way
  <2>1. (SumOver(tables, IndicesOf(pc)) <= 0) <=> ~(SumOver(tables, IndicesOf(pc)) >= 1)
    BY <1>2
  <2> QED
    BY <1>3, <1>5, <2>1 DEF OnSide
<1> QED
  BY <1>4, <1>5

(* The threshold stays a number of its range, and its counter too: a sum   *)
(* is not less than nothing off.                                           *)
LEMMA AdaptKeeps ==
  ASSUME theta \in 0 .. MaxTheta, tc \in 1 - Speed .. Speed - 1,
         NEW correct \in BOOLEAN, NEW magnitude \in Nat,
         Adapt(correct, magnitude), theta' <= MaxTheta
  PROVE  theta' \in 0 .. MaxTheta /\ tc' \in 1 - Speed .. Speed - 1
<1> DEFINE count == IF ~correct THEN tc + 1 ELSE IF magnitude < theta THEN tc - 1 ELSE tc
<1>1. /\ theta' = IF count >= Speed THEN theta + 1 ELSE IF count <= -Speed THEN theta - 1 ELSE theta
      /\ tc' = IF count \in {Speed, -Speed} THEN 0 ELSE count
  BY DEF Adapt
<1>2. /\ count \in -Speed .. Speed
      /\ count = -Speed => theta > 0
  BY HashedNumbers
<1> HIDE DEF count
<1> QED
  BY <1>1, <1>2, HashedNumbers

(* Training moves every weight it touches the way of the outcome.          *)
LEMMA TrainingMoves ==
  ASSUME HashedIInv, NEW taken \in BOOLEAN, pending # NoBranch, HashedResult(taken)
  PROVE  /\ tables' \in TablesType
         /\ NoneBack(taken, tables, tables')
         /\ OnSide(taken, tables, indices) \/
              \A times \in Nat : AllCloser(taken, tables, indices, times) =>
                AllCloser(taken, tables', indices, times + 1)
<1> DEFINE correct == taken = (yout >= 1)
           magnitude == IF yout < 0 THEN -yout ELSE yout
<1>1. /\ tables' = IF Trains(correct, magnitude, taken)
                   THEN [t \in Tables |-> [tables[t] EXCEPT ![indices[t]] = Trained(@, taken)]]
                   ELSE tables
  BY DEF HashedResult
<1>2. /\ tables \in TablesType /\ indices \in [Tables -> TableIndices]
      /\ yout = SumOver(tables, indices) /\ yout \in Int
  BY DEF HashedIInv, HashedTypeOK, TablesType, PendingOK
<1>3. /\ \A t \in Tables : indices[t] \in TableIndices
      /\ \A t \in Tables, i \in TableIndices : tables[t][i] \in LowestWeight .. HighestWeight
      /\ \A t \in Tables : tables[t] \in [TableIndices -> LowestWeight .. HighestWeight]
  BY <1>2 DEF TablesType
<1>4. ~OnSide(taken, tables, indices) => Trains(correct, magnitude, taken)
  <2>1. ~OnSide(taken, tables, indices) => ~correct
    <3>1. CASE taken
      BY <1>2, <3>1 DEF OnSide
    <3>2. CASE ~taken
      BY <1>2, <3>2 DEF OnSide
    <3> QED
      BY <3>1, <3>2
  <2> QED
    BY <2>1 DEF Trains
<1> HIDE DEF correct, magnitude
<1>5. \A weight \in LowestWeight .. HighestWeight :
        Trained(weight, taken) =
           IF taken THEN IF weight < HighestWeight THEN weight + 1 ELSE weight
           ELSE IF weight > LowestWeight THEN weight - 1 ELSE weight
  BY TrainedIs
<1>6. CASE ~Trains(correct, magnitude, taken)
  <2>1. tables' = tables
    BY <1>1, <1>6
  <2>2. NoneBack(taken, tables, tables')
    BY <1>3, <2>1, HashedNumbers DEF NoneBack
  <2> QED
    BY <1>2, <1>4, <1>6, <2>1, <2>2
<1>7. CASE Trains(correct, magnitude, taken)
  <2> DEFINE w == [t \in Tables |-> [tables[t] EXCEPT ![indices[t]] = Trained(@, taken)]]
  <2>1. tables' = w
    BY <1>1, <1>7
  <2>2. \A t \in Tables, i \in TableIndices :
          w[t][i] = IF i = indices[t] THEN Trained(tables[t][i], taken) ELSE tables[t][i]
    BY <1>3
  <2>3. \A weight \in LowestWeight .. HighestWeight : Trained(weight, taken) \in LowestWeight .. HighestWeight
    BY <1>5, HashedNumbers
  <2>4. w \in TablesType
    <3>1. \A t \in Tables :
            [tables[t] EXCEPT ![indices[t]] = Trained(@, taken)]
              \in [TableIndices -> LowestWeight .. HighestWeight]
      BY <1>3, <2>3
    <3> QED
      BY <3>1 DEF TablesType
  <2> HIDE DEF w
  <2>5. NoneBack(taken, tables, w)
    BY <1>3, <1>5, <2>2, HashedNumbers DEF NoneBack
  <2>6. ASSUME NEW times \in Nat, AllCloser(taken, tables, indices, times)
        PROVE  AllCloser(taken, w, indices, times + 1)
    <3> SUFFICES ASSUME NEW t \in Tables PROVE Closer(taken, w[t][indices[t]], times + 1)
      BY DEF AllCloser
    <3>1. Closer(taken, tables[t][indices[t]], times)
      BY <2>6 DEF AllCloser
    <3>2. /\ tables[t][indices[t]] \in LowestWeight .. HighestWeight
          /\ w[t][indices[t]] = Trained(tables[t][indices[t]], taken)
      BY <1>3, <2>2
    <3> QED
      BY <1>5, <3>1, <3>2, HashedNumbers DEF Closer
  <2> QED
    BY <2>1, <2>4, <2>5, <2>6
<1> QED
  BY <1>6, <1>7

(* An outcome trains, or leaves a sum that is far enough.                  *)
LEMMA HashedResultKeeps ==
  ASSUME HashedIInv, NEW taken \in BOOLEAN, HashedResult(taken)
  PROVE  HashedIInv'
<1> DEFINE ip == pending.ip
<1>1. /\ pending # NoBranch /\ ip \in BranchIps
      /\ indices = IndicesOf(ip) /\ yout = SumOver(tables, indices)
      /\ HashedTypeOK /\ direction \in BOOLEAN /\ streak \in [BranchIps -> 0 .. HashedBound]
      /\ tables \in TablesType /\ indices \in [Tables -> TableIndices]
  BY DEF HashedResult, HashedIInv, PendingOK, HashedTypeOK, TablesType
<1>2. /\ ghist' = [k \in HistoryBits |-> IF k > 0 THEN ghist[k - 1] ELSE IF taken THEN 1 ELSE 0]
      /\ Outcome(ip, taken, HashedBound)
      /\ pending' = NoBranch /\ indices' = indices /\ yout' = yout
      /\ theta' <= MaxTheta
  BY DEF HashedResult
<1>3. /\ tables' \in TablesType
      /\ NoneBack(taken, tables, tables')
      /\ OnSide(taken, tables, indices) \/
           \A times \in Nat : AllCloser(taken, tables, indices, times) =>
             AllCloser(taken, tables', indices, times + 1)
  BY <1>1, TrainingMoves
<1>4. theta' \in 0 .. MaxTheta /\ tc' \in 1 - Speed .. Speed - 1
  <2> DEFINE correct == taken = (yout >= 1)
             magnitude == IF yout < 0 THEN -yout ELSE yout
  <2>1. correct \in BOOLEAN /\ magnitude \in Nat
    BY <1>1 DEF HashedTypeOK
  <2>2. Adapt(correct, magnitude)
    BY DEF HashedResult
  <2>3. theta \in 0 .. MaxTheta /\ tc \in 1 - Speed .. Speed - 1
    BY <1>1 DEF HashedTypeOK
  <2> HIDE DEF correct, magnitude
  <2> QED
    BY <1>2, <2>1, <2>2, <2>3, AdaptKeeps
<1> HIDE DEF HashedResult
<1>5. ghist' \in [HistoryBits -> 0 .. 1]
  <2>1. ghist \in [HistoryBits -> 0 .. 1]
    BY <1>1 DEF HashedTypeOK
  <2>2. \A k \in HistoryBits : k > 0 => k - 1 \in HistoryBits
    BY HashedNumbers DEF HistoryBits
  <2> QED
    BY <1>2, <2>1, <2>2
<1>6. HashedTypeOK'
  BY <1>1, <1>2, <1>3, <1>4, <1>5 DEF HashedTypeOK, TablesType
<1>7. /\ direction' = taken /\ streak' \in [BranchIps -> 0 .. HashedBound]
      /\ \A other \in BranchIps :
           \/ /\ taken = direction /\ other # ip /\ streak'[other] = streak[other]
           \/ /\ taken = direction /\ other = ip
              /\ streak'[ip] \in {streak[ip], streak[ip] + 1}
           \/ /\ taken # direction /\ streak'[other] <= 1
  BY <1>1, <1>2, OutcomeIs, HashedNumbers
<1>8. HistoryFills'
  <2> SUFFICES ASSUME NEW other \in BranchIps, NEW k \in HistoryBits, k < streak'[other]
               PROVE  ghist'[k] = IF taken THEN 1 ELSE 0
    BY <1>7 DEF HistoryFills
  <2>1. k \in Nat /\ streak'[other] \in Nat /\ streak[other] \in Nat
    BY <1>1, <1>7, HashedNumbers
  <2>2. CASE k = 0
    BY <1>2, <2>2
  <2>3. CASE k > 0
    <3>1. taken = direction /\ k - 1 < streak[other]
      BY <1>7, <2>1, <2>3
    <3>2. k - 1 \in HistoryBits
      BY <2>1, <2>3, HashedNumbers DEF HistoryBits
    <3>3. ghist[k - 1] = IF direction THEN 1 ELSE 0
      BY <3>1, <3>2 DEF HashedIInv, HistoryFills
    <3> QED
      BY <1>2, <2>3, <3>1, <3>3
  <2> QED
    BY <2>1, <2>2, <2>3
<1>9. HashedLearns'
  <2> SUFFICES ASSUME NEW other \in BranchIps, streak'[other] >= MaxHist
               PROVE  \/ OnSide(taken, tables', IndicesOf(other)')
                      \/ AllCloser(taken, tables', IndicesOf(other)', streak'[other] - MaxHist)
    BY <1>7 DEF HashedLearns, OnSide, AllCloser, Closer, SumOver
  <2>1. streak'[other] \in Nat /\ streak[other] \in Nat
    BY <1>1, <1>7
  <2>2. CASE streak'[other] = MaxHist
    <3>1. IndicesOf(other)' \in [Tables -> TableIndices]
      <4>1. (\A pc \in BranchIps : IndicesOf(pc) \in [Tables -> TableIndices])'
        BY IndicesAlways, PTL
      <4> QED
        BY <4>1
    <3>2. AllCloser(taken, tables', IndicesOf(other)', 0)
      BY <1>3, <3>1, CloserAtFirst
    <3>3. streak'[other] - MaxHist = 0
      BY <2>2, HashedNumbers
    <3> QED
      BY <3>2, <3>3
  <2>3. CASE streak'[other] > MaxHist
    <3>1. taken = direction /\ streak[other] >= MaxHist
      BY <1>7, <2>1, <2>3, HashedNumbers
    <3>2. \A k \in 0 .. MaxHist - 1 : ghist'[k] = ghist[k]
      <4> SUFFICES ASSUME NEW k \in 0 .. MaxHist - 1 PROVE ghist'[k] = ghist[k]
        OBVIOUS
      <4>1. k \in HistoryBits /\ k < streak[other] /\ k < streak'[other]
        BY <2>1, <2>3, <3>1, HashedNumbers
      <4>2. ghist[k] = IF direction THEN 1 ELSE 0
        BY <4>1 DEF HashedIInv, HistoryFills
      <4>3. ghist'[k] = IF taken THEN 1 ELSE 0
        BY <1>7, <1>8, <4>1 DEF HistoryFills
      <4> QED
        BY <3>1, <4>2, <4>3
    <3>3. IndicesOf(other)' = IndicesOf(other)
      BY <3>2, IndicesStay
    <3>4. IndicesOf(other) \in [Tables -> TableIndices]
      BY IndicesType
    <3>5. \/ OnSide(taken, tables, IndicesOf(other))
          \/ AllCloser(taken, tables, IndicesOf(other), streak[other] - MaxHist)
      BY <3>1 DEF HashedIInv, HashedLearns
    <3>6. /\ OnSide(taken, tables, IndicesOf(other)) => OnSide(taken, tables', IndicesOf(other))
          /\ \A times \in Nat : AllCloser(taken, tables, IndicesOf(other), times)
                                  => AllCloser(taken, tables', IndicesOf(other), times)
      BY <1>1, <1>3, <3>4, SideStays
    <3>7. streak[other] - MaxHist \in Nat
      BY <2>1, <3>1, HashedNumbers
    <3>8. CASE streak'[other] = streak[other]
      BY <3>3, <3>5, <3>6, <3>7, <3>8
    <3>9. CASE streak'[other] = streak[other] + 1 /\ other = ip
      <4>1. streak'[other] - MaxHist = (streak[other] - MaxHist) + 1
        BY <2>1, <3>9, HashedNumbers
      <4>2. indices = IndicesOf(other)
        BY <1>1, <3>9
      <4>3. OnSide(taken, tables, IndicesOf(other)) \/
              AllCloser(taken, tables', IndicesOf(other), (streak[other] - MaxHist) + 1)
        BY <1>3, <3>5, <3>7, <4>2
      <4> QED
        BY <3>3, <3>6, <4>1, <4>3
    <3>10. streak'[other] = streak[other] \/ (streak'[other] = streak[other] + 1 /\ other = ip)
      BY <1>7, <2>1, <3>1
    <3> QED
      BY <3>8, <3>9, <3>10
  <2> QED
    BY <2>1, <2>2, <2>3, HashedNumbers
<1>10. PendingOK'
  BY <1>2 DEF PendingOK
<1> QED
  BY <1>6, <1>7, <1>8, <1>9, <1>10 DEF HashedIInv

(* Each step keeps the invariant of the hashed perceptron.                 *)
LEMMA HashedKeeps ==
  ASSUME HashedIInv, HashedNext \/ UNCHANGED <<hashedVars, streakVars>>
  PROVE  HashedIInv'
<1>1. CASE HashedNext
  BY <1>1, HashedPredictKeeps, HashedResultKeeps DEF HashedNext
<1>2. CASE UNCHANGED <<hashedVars, streakVars>>
  <2>1. UNCHANGED <<hashedVars, streakVars>>
    BY <1>2
  <2>2. HashedTypeOK' /\ PendingOK' /\ HistoryFills'
    BY <2>1 DEF hashedVars, streakVars, HashedIInv, HashedTypeOK, PendingOK, HistoryFills,
      IndicesOf, IndexOf
  <2>3. HashedLearns'
    BY <2>1 DEF hashedVars, streakVars, HashedIInv, HashedLearns, IndicesOf, IndexOf
  <2>4. direction' \in BOOLEAN /\ streak' \in [BranchIps -> 0 .. HashedBound]
    BY <2>1 DEF hashedVars, streakVars, HashedIInv
  <2> QED
    BY <2>2, <2>3, <2>4 DEF HashedIInv
<1> QED
  BY <1>1, <1>2

(* At the end of a streak every sum is on its side.                        *)
LEMMA HashedLearn == HashedIInv => Learned(HashedPredicts, HashedBound)
<1> SUFFICES ASSUME HashedIInv, NEW ip \in BranchIps, streak[ip] = HashedBound
             PROVE  HashedPredicts(ip) = direction
  BY DEF Learned
<1>1. /\ direction \in BOOLEAN /\ tables \in TablesType
      /\ IndicesOf(ip) \in [Tables -> TableIndices]
  BY IndicesType DEF HashedIInv, HashedTypeOK, TablesType
<1>2. HashedBound >= MaxHist
  BY HashedNumbers DEF HashedBound
<1>3. \/ OnSide(direction, tables, IndicesOf(ip))
      \/ AllCloser(direction, tables, IndicesOf(ip), HashedBound - MaxHist)
  BY <1>2 DEF HashedIInv, HashedLearns
<1>4. OnSide(direction, tables, IndicesOf(ip))
  BY <1>1, <1>3, EndsDecide
<1> QED
  BY <1>1, <1>4, PredictsBySide
-----------------------------------------------------------------------------
(* The constants of the perceptrons.                                       *)
LEMMA PerceptronNumbers ==
  /\ HistoryLength \in Nat \ {0} /\ NumPerceptrons \in Nat \ {0} /\ HalfRange \in Nat \ {0}
  /\ BufferSize \in Nat \ {0} /\ MaxDepth \in Nat \ {0} /\ Theta \in Nat
  /\ MaxWeight = HalfRange - 1 /\ MinWeight = -HalfRange
  /\ MaxWeight \in Int /\ MinWeight \in Int /\ MaxWeight >= 0 /\ MinWeight < 0
  /\ PerceptronBound \in Nat \ {0}
  /\ Bits = 1 .. HistoryLength /\ IsFiniteSet(Bits)
  /\ \A ip \in BranchIps : Index(ip) \in 0 .. NumPerceptrons - 1
<1>1. /\ HistoryLength \in Nat \ {0} /\ NumPerceptrons \in Nat \ {0} /\ HalfRange \in Nat \ {0}
      /\ BufferSize \in Nat \ {0} /\ MaxDepth \in Nat \ {0} /\ Theta \in Nat
  BY PerceptronAssumption
<1>2. /\ MaxWeight = HalfRange - 1 /\ MinWeight = -HalfRange
      /\ MaxWeight \in Int /\ MinWeight \in Int /\ MaxWeight >= 0 /\ MinWeight < 0
  BY <1>1 DEF MaxWeight, MinWeight
<1>3. Bits = 1 .. HistoryLength /\ IsFiniteSet(Bits)
  BY <1>1, FS_Interval DEF Bits
<1>4. \A ip \in BranchIps : Index(ip) \in 0 .. NumPerceptrons - 1
  BY <1>1, BranchAssumption DEF Index
<1>5. PerceptronBound \in Nat \ {0}
  BY <1>1 DEF PerceptronBound
<1> QED
  BY <1>1, <1>2, <1>3, <1>4, <1>5

(* Those that a streak is compared with.                                   *)
LEMMA PerceptronLengths ==
  HistoryLength \in Nat \ {0} /\ PerceptronBound \in Nat \ {0}
BY PerceptronNumbers

Perceptron1 == [bias : MinWeight .. MaxWeight, weights : [Bits -> MinWeight .. MaxWeight]]

(* A weight moves by one, to the end of its range.                         *)
LEMMA SaturatedIs ==
  ASSUME NEW weight \in MinWeight .. MaxWeight, NEW up \in BOOLEAN
  PROVE  /\ Saturated(weight, up) =
              IF up THEN IF weight < MaxWeight THEN weight + 1 ELSE weight
              ELSE IF weight > MinWeight THEN weight - 1 ELSE weight
         /\ Saturated(weight, up) \in MinWeight .. MaxWeight
<1>1. weight \in Int /\ MaxWeight \in Int /\ MinWeight \in Int
  BY PerceptronNumbers
<1>2. /\ Min({weight + 1, MaxWeight}) = IF weight + 1 <= MaxWeight THEN weight + 1 ELSE MaxWeight
      /\ Max({weight - 1, MinWeight}) = IF weight - 1 >= MinWeight THEN weight - 1 ELSE MinWeight
  BY <1>1, MinOfTwo, MaxOfTwo
<1>3. Saturated(weight, up) =
        IF up THEN IF weight < MaxWeight THEN weight + 1 ELSE weight
        ELSE IF weight > MinWeight THEN weight - 1 ELSE weight
  BY <1>1, <1>2 DEF Saturated
<1> QED
  BY <1>1, <1>3

(* Training keeps the weights in their range.                              *)
LEMMA UpdatedType ==
  ASSUME NEW p \in Perceptron1, NEW result \in BOOLEAN, NEW history \in Histories
  PROVE  Updated(p, result, history) \in Perceptron1
<1>1. p.bias \in MinWeight .. MaxWeight /\ \A i \in Bits : p.weights[i] \in MinWeight .. MaxWeight
  BY DEF Perceptron1
<1>2. \A i \in Bits : (history[i] = result) \in BOOLEAN
  OBVIOUS
<1>3. /\ Saturated(p.bias, result) \in MinWeight .. MaxWeight
      /\ \A i \in Bits : Saturated(p.weights[i], history[i] = result) \in MinWeight .. MaxWeight
  BY <1>1, <1>2, SaturatedIs
<1>4. [i \in Bits |-> Saturated(p.weights[i], history[i] = result)] \in [Bits -> MinWeight .. MaxWeight]
  BY <1>3
<1> QED
  BY <1>3, <1>4 DEF Updated, Perceptron1

(* The output is a number, and grows with the bias and the signed weights. *)
Signed(p, history, i) == IF history[i] THEN p.weights[i] ELSE -p.weights[i]

(* The output is a number, and one that grows with the weights.            *)
LEMMA OutputGrows ==
  ASSUME NEW p \in Perceptron1, NEW q \in Perceptron1, NEW history \in Histories
  PROVE  /\ Output(p, history) \in Int /\ Output(q, history) \in Int
         /\ p.bias <= q.bias /\ (\A i \in Bits : Signed(p, history, i) <= Signed(q, history, i))
              => Output(p, history) <= Output(q, history)
<1> DEFINE f == [i \in Bits |-> IF history[i] THEN p.weights[i] ELSE -p.weights[i]]
           g == [i \in Bits |-> IF history[i] THEN q.weights[i] ELSE -q.weights[i]]
<1>1. /\ p.bias \in Int /\ q.bias \in Int
      /\ \A i \in Bits : p.weights[i] \in Int /\ q.weights[i] \in Int
  BY PerceptronNumbers DEF Perceptron1
<1>2. f \in [Bits -> Int] /\ g \in [Bits -> Int]
  BY <1>1
<1>3. \A i \in Bits : f[i] = Signed(p, history, i) /\ g[i] = Signed(q, history, i)
  BY DEF Signed
<1>4. Output(p, history) = p.bias + SumFunction(f) /\ Output(q, history) = q.bias + SumFunction(g)
  BY DEF Output
<1> HIDE DEF f, g
<1>5. \A i \in Bits : f[i] <= f[i] /\ g[i] <= g[i]
  BY <1>2
<1>6. SumFunction(f) \in Int /\ SumFunction(g) \in Int
  BY <1>2, <1>5, PerceptronNumbers, SumGrows
<1>7. (\A i \in Bits : Signed(p, history, i) <= Signed(q, history, i))
        => SumFunction(f) <= SumFunction(g)
  BY <1>2, <1>3, PerceptronNumbers, SumGrows
<1> QED
  BY <1>1, <1>4, <1>6, <1>7

(* A history that has been shifted is a history.                           *)
LEMMA ShiftedType ==
  ASSUME NEW history \in Histories, NEW outcome \in BOOLEAN
  PROVE  Shifted(history, outcome) \in Histories
<1>1. \A i \in Bits : i # 1 => i - 1 \in Bits
  BY PerceptronNumbers
<1> QED
  BY <1>1 DEF Shifted, Histories

(* Removing an element keeps the others.                                   *)
LEMMA RemoveOne ==
  ASSUME NEW S, NEW s \in Seq(S), NEW k \in DOMAIN s
  PROVE  RemoveAt(s, k) \in Seq(S) /\ Len(RemoveAt(s, k)) <= Len(s)
<1>1. Len(s) \in Nat /\ k \in 1 .. Len(s)
  BY LenProperties
<1>2. \A i \in 1 .. Len(s) : s[i] \in S
  BY ElementOfSeq
<1>3. SubSeq(s, 1, k - 1) \in Seq(S) /\ Len(SubSeq(s, 1, k - 1)) = k - 1
  <2>1. \A i \in 1 .. k - 1 : s[i] \in S
    BY <1>1, <1>2
  <2> QED
    BY <1>1, <2>1
<1>4. SubSeq(s, k + 1, Len(s)) \in Seq(S) /\ Len(SubSeq(s, k + 1, Len(s))) = Len(s) - k
  <2>1. \A i \in k + 1 .. Len(s) : s[i] \in S
    BY <1>1, <1>2
  <2> QED
    BY <1>1, <2>1
<1>5. /\ RemoveAt(s, k) = SubSeq(s, 1, k - 1) \o SubSeq(s, k + 1, Len(s))
  BY DEF RemoveAt
<1>6. /\ RemoveAt(s, k) \in Seq(S)
      /\ Len(RemoveAt(s, k)) = Len(SubSeq(s, 1, k - 1)) + Len(SubSeq(s, k + 1, Len(s)))
  BY <1>3, <1>4, <1>5, ConcatProperties, Zenon
<1> QED
  BY <1>1, <1>3, <1>4, <1>6

(* The types of the initial state.                                         *)
LEMMA PerceptronTypeInitially == StreakInit /\ PerceptronInit => PerceptronTypeOK
<1> SUFFICES ASSUME PerceptronInit PROVE PerceptronTypeOK
  OBVIOUS
<1>1. <<>> \in Seq(States) /\ Len(<<>>) = 0
      /\ <<>> \in Seq([ip : BranchIps, taken : BOOLEAN, state : States])
  BY EmptySeq
<1>2. [i \in Bits |-> FALSE] \in Histories /\ [i \in Bits |-> 0] \in [Bits -> MinWeight .. MaxWeight]
  BY PerceptronNumbers DEF Histories
<1>3. perceptrons \in [0 .. NumPerceptrons - 1 ->
       [bias : MinWeight .. MaxWeight, weights : [Bits -> MinWeight .. MaxWeight]]]
  BY <1>2, PerceptronNumbers DEF PerceptronInit
<1> QED
  BY <1>1, <1>2, <1>3, PerceptronNumbers DEF PerceptronInit, PerceptronTypeOK

(* What a prediction leaves in the buffer.                                 *)
LEMMA StateType ==
  ASSUME PerceptronTypeOK, NEW ip \in BranchIps
  PROVE  /\ PredictionState(ip) \in States /\ PredictionState(ip).ip = ip
         /\ PredictionState(ip).history = specHistory
         /\ PredictionState(ip).output = Output(perceptrons[Index(ip)], specHistory)
         /\ PredictionState(ip).prediction = (PredictionState(ip).output >= 0)
<1>1. perceptrons[Index(ip)] \in Perceptron1 /\ specHistory \in Histories
  BY PerceptronNumbers DEF PerceptronTypeOK, Perceptron1
<1>2. Output(perceptrons[Index(ip)], specHistory) \in Int
  BY <1>1, OutputGrows
<1> QED
  BY <1>1, <1>2 DEF PredictionState, States

(* A prediction keeps the types.                                           *)
LEMMA PredictKeepsType ==
  ASSUME PerceptronTypeOK, NEW ip \in BranchIps, NEW taken \in BOOLEAN, PredictBranch(ip, taken)
  PROVE  PerceptronTypeOK'
<1> DEFINE state == PredictionState(ip)
           branch == [ip |-> ip, taken |-> taken, state |-> state]
           buffered == Append(stateBuf, state)
<1>1. state \in States /\ state.prediction \in BOOLEAN
  BY StateType DEF States
<1>2. /\ stateBuf' = IF Len(buffered) > BufferSize THEN Tail(buffered) ELSE buffered
      /\ specHistory' = Shifted(specHistory, state.prediction)
      /\ inFlight' = Append(inFlight, branch)
      /\ UNCHANGED <<perceptrons, globalHistory, depth>>
  BY DEF PredictBranch
<1>3. branch \in [ip : BranchIps, taken : BOOLEAN, state : States]
  BY <1>1
<1> HIDE DEF state, branch
<1>4. /\ stateBuf \in Seq(States) /\ Len(stateBuf) \in Nat /\ Len(stateBuf) <= BufferSize
      /\ inFlight \in Seq([ip : BranchIps, taken : BOOLEAN, state : States])
      /\ specHistory \in Histories
  BY LenProperties DEF PerceptronTypeOK
<1>5. buffered \in Seq(States) /\ Len(buffered) = Len(stateBuf) + 1
  BY <1>1, <1>4, AppendProperties
<1>6. Tail(buffered) \in Seq(States) /\ Len(Tail(buffered)) = Len(stateBuf)
  <2> HIDE DEF buffered
  <2>1. buffered # <<>>
    BY <1>4, <1>5, EmptySeq
  <2> QED
    BY <1>4, <1>5, <2>1, HeadTailProperties
<1>7. stateBuf' \in Seq(States) /\ Len(stateBuf') <= BufferSize
  BY <1>2, <1>4, <1>5, <1>6, PerceptronNumbers
<1>8. inFlight' \in Seq([ip : BranchIps, taken : BOOLEAN, state : States])
  BY <1>2, <1>3, <1>4, AppendProperties
<1>9. specHistory' \in Histories
  BY <1>1, <1>2, <1>4, ShiftedType
<1> QED
  BY <1>2, <1>7, <1>8, <1>9 DEF PerceptronTypeOK, Histories, States

(* The state found for an outcome is one of the buffer.                    *)
LEMMA FoundIsOne ==
  ASSUME PerceptronTypeOK, NEW ip, Matches(ip) # {}
  PROVE  /\ FoundState(ip) \in DOMAIN stateBuf /\ stateBuf[FoundState(ip)] \in States
<1>1. Len(stateBuf) \in Nat /\ DOMAIN stateBuf = 1 .. Len(stateBuf)
  BY LenProperties DEF PerceptronTypeOK
<1>2. Matches(ip) \in SUBSET Nat
  BY <1>1 DEF Matches
<1>3. FoundState(ip) \in Matches(ip)
  BY <1>2, MinIsMember DEF FoundState
<1>4. FoundState(ip) \in DOMAIN stateBuf
  BY <1>3 DEF Matches
<1> QED
  BY <1>1, <1>4, ElementOfSeq DEF PerceptronTypeOK

(* An outcome keeps the types.                                             *)
LEMMA ResultKeepsType ==
  ASSUME PerceptronTypeOK, PerceptronResult
  PROVE  PerceptronTypeOK'
<1> DEFINE branch == Head(inFlight)
<1>1. /\ inFlight \in Seq([ip : BranchIps, taken : BOOLEAN, state : States]) /\ inFlight # <<>>
      /\ inFlight' = Tail(inFlight) /\ depth' = depth
      /\ Resolve(branch.ip, branch.taken) \/ SkipUpdate(branch.ip)
  BY DEF PerceptronTypeOK, PerceptronResult
<1>2. /\ inFlight' \in Seq([ip : BranchIps, taken : BOOLEAN, state : States])
      /\ branch.ip \in BranchIps /\ branch.taken \in BOOLEAN
  <2>1. Head(inFlight) \in [ip : BranchIps, taken : BOOLEAN, state : States]
        /\ Tail(inFlight) \in Seq([ip : BranchIps, taken : BOOLEAN, state : States])
    BY <1>1, HeadTailProperties, Zenon
  <2> QED
    BY <1>1, <2>1
<1> HIDE DEF branch
<1>3. CASE SkipUpdate(branch.ip)
  BY <1>1, <1>2, <1>3 DEF SkipUpdate, PerceptronTypeOK, Histories, States
<1>4. CASE Resolve(branch.ip, branch.taken)
  <2> DEFINE k == FoundState(branch.ip)
             state == stateBuf[k]
  <2>1. /\ Matches(branch.ip) # {}
        /\ stateBuf' = RemoveAt(stateBuf, k)
        /\ globalHistory' = Shifted(globalHistory, branch.taken)
        /\ specHistory' \in {specHistory, globalHistory'}
        /\ perceptrons' \in {perceptrons,
             [perceptrons EXCEPT ![Index(branch.ip)] = Updated(@, branch.taken, state.history)]}
    BY <1>4 DEF Resolve, Restored
  <2>2. k \in DOMAIN stateBuf /\ state \in States
    BY <2>1, FoundIsOne
  <2> HIDE DEF k, state
  <2>3. stateBuf' \in Seq(States) /\ Len(stateBuf') <= BufferSize
    <3>1. stateBuf \in Seq(States) /\ Len(stateBuf) \in Nat /\ Len(stateBuf) <= BufferSize
      BY LenProperties DEF PerceptronTypeOK
    <3>2. RemoveAt(stateBuf, k) \in Seq(States) /\ Len(RemoveAt(stateBuf, k)) <= Len(stateBuf)
          /\ Len(RemoveAt(stateBuf, k)) \in Nat
      BY <2>2, <3>1, RemoveOne, LenProperties
    <3> QED
      BY <2>1, <3>1, <3>2, PerceptronNumbers
  <2>4. globalHistory' \in Histories /\ specHistory' \in Histories
    BY <1>2, <2>1, ShiftedType DEF PerceptronTypeOK
  <2>5. perceptrons' \in [0 .. NumPerceptrons - 1 ->
          [bias : MinWeight .. MaxWeight, weights : [Bits -> MinWeight .. MaxWeight]]]
    <3>1. perceptrons \in [0 .. NumPerceptrons - 1 -> Perceptron1]
      BY DEF PerceptronTypeOK, Perceptron1
    <3>2. Index(branch.ip) \in 0 .. NumPerceptrons - 1
      BY <1>2, PerceptronNumbers
    <3>3. state.history \in Histories
      BY <2>2 DEF States
    <3>4. Updated(perceptrons[Index(branch.ip)], branch.taken, state.history) \in Perceptron1
      BY <1>2, <3>1, <3>2, <3>3, UpdatedType
    <3>5. perceptrons' \in [0 .. NumPerceptrons - 1 -> Perceptron1]
      BY <2>1, <3>1, <3>4
    <3> QED
      BY <3>5 DEF Perceptron1
  <2> QED
    BY <1>1, <1>2, <2>3, <2>4, <2>5 DEF PerceptronTypeOK, Histories, States
<1> QED
  BY <1>1, <1>3, <1>4

(* The type invariant of the perceptrons is inductive.                     *)
LEMMA PerceptronKeepsType ==
  ASSUME PerceptronTypeOK, PerceptronNext \/ UNCHANGED perceptronVars
  PROVE  PerceptronTypeOK'
<1>1. CASE UNCHANGED perceptronVars
  BY <1>1 DEF perceptronVars, PerceptronTypeOK, Histories, States
<1> QED
  BY <1>1, PredictKeepsType, ResultKeepsType DEF PerceptronNext

(***************************************************************************)
(* What is kept beside the order: each state in flight was predicted from  *)
(* the real history followed by the predictions before it; the real        *)
(* history begins with the outcomes of a streak; an output in flight since *)
(* the streak has filled the history is none the nearer than that of its   *)
(* perceptron is now; and a branch whose streak has also outlasted what    *)
(* was in flight is predicted its way, or has moved its bias and each of   *)
(* its weights that way with every outcome since.                          *)
(***************************************************************************)
StatesAgree ==
  \A k \in 1 .. Len(stateBuf), i \in Bits :
    stateBuf[k].history[i] = IF i < k THEN stateBuf[k - i].prediction
                             ELSE globalHistory[i - k + 1]

SoundStates ==
  \A k \in 1 .. Len(stateBuf) : stateBuf[k].prediction = (stateBuf[k].output >= 0)

GlobalFills ==
  \A ip \in BranchIps, i \in Bits : i <= streak[ip] => globalHistory[i] = direction

AllBits(way) == [i \in Bits |-> way]

(* The output of a perceptron after a history of one outcome.              *)
Told(way, p) == Output(p, AllBits(way))

NoFarther(way, m, n) == IF way THEN m <= n ELSE n <= m

Nearer(way, p, q) ==
  /\ NoFarther(way, p.bias, q.bias)
  /\ \A i \in Bits : p.weights[i] <= q.weights[i]

AsTold(way, output) == IF way THEN output >= 0 ELSE output < 0

Risen(way, p, times) ==
  /\ IF way THEN p.bias = MaxWeight \/ p.bias >= MinWeight + times
     ELSE p.bias = MinWeight \/ p.bias <= MaxWeight - times
  /\ \A i \in Bits : p.weights[i] = MaxWeight \/ p.weights[i] >= MinWeight + times

StaleBehind ==
  \A ip \in BranchIps, k \in 1 .. Len(stateBuf) :
    /\ streak[ip] >= HistoryLength + depth - k
    /\ \A j \in 1 .. k - 1 : inFlight[j].taken = direction
    => NoFarther(direction, stateBuf[k].output,
                 Told(direction, perceptrons[Index(stateBuf[k].ip)]))

PerceptronLearns ==
  \A ip \in BranchIps :
    streak[ip] >= HistoryLength + depth =>
      \/ AsTold(direction, Told(direction, perceptrons[Index(ip)]))
      \/ Risen(direction, perceptrons[Index(ip)], streak[ip] - (HistoryLength + depth))

PerceptronKept ==
  /\ PerceptronIInv /\ PerceptronTypeOK
  /\ direction \in BOOLEAN /\ streak \in [BranchIps -> 0 .. PerceptronBound]
  /\ depth <= BufferSize => SoundStates /\ StatesAgree /\ GlobalFills /\ StaleBehind /\ PerceptronLearns

(* A perceptron that has come nearer tells no less.                        *)
LEMMA NearerTells ==
  ASSUME NEW way \in BOOLEAN, NEW p \in Perceptron1, NEW q \in Perceptron1, Nearer(way, p, q)
  PROVE  /\ Told(way, p) \in Int /\ Told(way, q) \in Int
         /\ NoFarther(way, Told(way, p), Told(way, q))
         /\ AsTold(way, Told(way, p)) => AsTold(way, Told(way, q))
         /\ \A times \in Nat : Risen(way, p, times) => Risen(way, q, times)
<1>1. AllBits(way) \in Histories /\ \A i \in Bits : AllBits(way)[i] = way
  BY DEF AllBits, Histories
<1>2. /\ p.bias \in MinWeight .. MaxWeight /\ q.bias \in MinWeight .. MaxWeight
      /\ \A i \in Bits : p.weights[i] \in MinWeight .. MaxWeight /\ q.weights[i] \in MinWeight .. MaxWeight
  BY DEF Perceptron1
<1>3. /\ NoFarther(way, p.bias, q.bias) /\ \A i \in Bits : p.weights[i] <= q.weights[i]
  BY DEF Nearer
<1>4. Told(way, p) \in Int /\ Told(way, q) \in Int
  BY <1>1, OutputGrows DEF Told
<1>5. NoFarther(way, Told(way, p), Told(way, q))
  <2>1. CASE way
    <3>1. \A i \in Bits : Signed(p, AllBits(way), i) <= Signed(q, AllBits(way), i)
      BY <1>1, <1>3, <2>1 DEF Signed
    <3>2. p.bias <= q.bias
      BY <1>3, <2>1 DEF NoFarther
    <3> QED
      BY <1>1, <2>1, <3>1, <3>2, OutputGrows DEF Told, NoFarther
  <2>2. CASE ~way
    <3>1. \A i \in Bits : Signed(q, AllBits(way), i) = -q.weights[i] /\ Signed(p, AllBits(way), i) = -p.weights[i]
      BY <1>1, <2>2 DEF Signed
    <3>2. \A i \in Bits : Signed(q, AllBits(way), i) <= Signed(p, AllBits(way), i)
      <4> TAKE i \in Bits
      <4>1. /\ p.weights[i] \in Int /\ q.weights[i] \in Int /\ p.weights[i] <= q.weights[i]
            /\ Signed(q, AllBits(way), i) = -q.weights[i] /\ Signed(p, AllBits(way), i) = -p.weights[i]
        BY <1>2, <1>3, <3>1, PerceptronNumbers
      <4> QED
        BY <4>1
    <3>3. q.bias <= p.bias
      BY <1>3, <2>2 DEF NoFarther
    <3>4. Output(q, AllBits(way)) <= Output(p, AllBits(way))
      BY <1>1, <3>2, <3>3, OutputGrows
    <3> QED
      BY <2>2, <3>4 DEF Told, NoFarther
  <2> QED
    BY <2>1, <2>2
<1>6. AsTold(way, Told(way, p)) => AsTold(way, Told(way, q))
  BY <1>4, <1>5 DEF AsTold, NoFarther
<1>7. ASSUME NEW times \in Nat, Risen(way, p, times) PROVE Risen(way, q, times)
  <2>1. \A i \in Bits : q.weights[i] = MaxWeight \/ q.weights[i] >= MinWeight + times
    BY <1>2, <1>3, <1>7, PerceptronNumbers DEF Risen
  <2>2. IF way THEN q.bias = MaxWeight \/ q.bias >= MinWeight + times
        ELSE q.bias = MinWeight \/ q.bias <= MaxWeight - times
    BY <1>2, <1>3, <1>7, PerceptronNumbers DEF Risen, NoFarther
  <2> QED
    BY <2>1, <2>2 DEF Risen
<1> QED
  BY <1>4, <1>5, <1>6, <1>7

(* Training with a history of one outcome brings the perceptron nearer.    *)
LEMMA UpdatedNearer ==
  ASSUME NEW way \in BOOLEAN, NEW p \in Perceptron1, NEW history \in Histories,
         \A i \in Bits : history[i] = way
  PROVE  /\ Nearer(way, p, Updated(p, way, history))
         /\ \A times \in Nat : Risen(way, p, times) => Risen(way, Updated(p, way, history), times + 1)
<1> DEFINE q == Updated(p, way, history)
<1>1. /\ p.bias \in MinWeight .. MaxWeight
      /\ \A i \in Bits : p.weights[i] \in MinWeight .. MaxWeight
  BY DEF Perceptron1
<1>2. /\ q.bias = Saturated(p.bias, way)
      /\ \A i \in Bits : q.weights[i] = Saturated(p.weights[i], TRUE)
  <2>1. \A i \in Bits : (history[i] = way) = TRUE
    OBVIOUS
  <2> QED
    BY <2>1 DEF Updated
<1> HIDE DEF q
<1>3. /\ q.bias = IF way THEN IF p.bias < MaxWeight THEN p.bias + 1 ELSE p.bias
                  ELSE IF p.bias > MinWeight THEN p.bias - 1 ELSE p.bias
      /\ \A i \in Bits :
           q.weights[i] = IF p.weights[i] < MaxWeight THEN p.weights[i] + 1 ELSE p.weights[i]
  BY <1>1, <1>2, SaturatedIs
<1>4. Nearer(way, p, q)
  <2>1. ASSUME NEW i \in Bits PROVE p.weights[i] <= q.weights[i]
    <3>1. /\ p.weights[i] \in MinWeight .. MaxWeight
          /\ q.weights[i] = IF p.weights[i] < MaxWeight THEN p.weights[i] + 1 ELSE p.weights[i]
      BY <1>1, <1>3
    <3> QED
      BY <3>1, PerceptronNumbers
  <2>2. NoFarther(way, p.bias, q.bias)
    BY <1>1, <1>3, PerceptronNumbers DEF NoFarther
  <2> QED
    BY <2>1, <2>2 DEF Nearer
<1>5. ASSUME NEW times \in Nat, Risen(way, p, times) PROVE Risen(way, q, times + 1)
  <2>1. \A i \in Bits : q.weights[i] = MaxWeight \/ q.weights[i] >= MinWeight + (times + 1)
    <3> TAKE i \in Bits
    <3>1. /\ p.weights[i] \in MinWeight .. MaxWeight
          /\ q.weights[i] = IF p.weights[i] < MaxWeight THEN p.weights[i] + 1 ELSE p.weights[i]
          /\ p.weights[i] = MaxWeight \/ p.weights[i] >= MinWeight + times
      BY <1>1, <1>3, <1>5 DEF Risen
    <3> QED
      BY <3>1, PerceptronNumbers
  <2>2. IF way THEN q.bias = MaxWeight \/ q.bias >= MinWeight + (times + 1)
        ELSE q.bias = MinWeight \/ q.bias <= MaxWeight - (times + 1)
    BY <1>1, <1>3, <1>5, PerceptronNumbers DEF Risen
  <2> QED
    BY <2>1, <2>2 DEF Risen
<1> QED
  BY <1>4, <1>5 DEF q

(* Weights all at their ends tell the way.                                 *)
LEMMA RisenTells ==
  ASSUME NEW way \in BOOLEAN, NEW p \in Perceptron1, NEW times \in Nat, times >= 2 * HalfRange,
         Risen(way, p, times)
  PROVE  AsTold(way, Told(way, p))
<1> DEFINE f == [i \in Bits |-> IF AllBits(way)[i] THEN p.weights[i] ELSE -p.weights[i]]
<1>1. /\ p.bias \in MinWeight .. MaxWeight
      /\ \A i \in Bits : p.weights[i] \in MinWeight .. MaxWeight
  BY DEF Perceptron1
<1>2. /\ p.bias = IF way THEN MaxWeight ELSE MinWeight
      /\ \A i \in Bits : p.weights[i] = MaxWeight
  BY <1>1, PerceptronNumbers DEF Risen
<1>3. \A i \in Bits : f[i] = IF way THEN MaxWeight ELSE -MaxWeight
  BY <1>2 DEF AllBits
<1>4. f = [i \in Bits |-> f[i]]
  OBVIOUS
<1>5. Told(way, p) = p.bias + SumFunction(f)
  BY DEF Told, Output
<1> HIDE DEF f
<1>6. f \in [Bits -> Int]
  <2>1. MaxWeight \in Int
    BY PerceptronNumbers
  <2>2. \A i \in Bits : f[i] \in Int
    BY <1>3, <2>1
  <2> QED
    BY <1>4, <2>2
<1>7. /\ SumFunction(f) \in Int
      /\ (\A i \in Bits : f[i] >= 0) => SumFunction(f) >= 0
      /\ (\A i \in Bits : f[i] <= 0) => SumFunction(f) <= 0
  <2>1. \A i \in Bits : f[i] <= f[i]
    BY <1>6
  <2> QED
    BY <1>6, <2>1, PerceptronNumbers, SumHasSign, SumGrows
<1>8. CASE way
  BY <1>2, <1>3, <1>5, <1>7, <1>8, PerceptronNumbers DEF AsTold
<1>9. CASE ~way
  <2>1. \A i \in Bits : f[i] <= 0
    BY <1>3, <1>9, PerceptronNumbers
  <2> QED
    BY <1>2, <1>5, <1>7, <1>9, <2>1, PerceptronNumbers DEF AsTold
<1> QED
  BY <1>8, <1>9

(* What a prediction does to the buffer, which has room for its state.     *)
LEMMA PredictAppends ==
  ASSUME PerceptronIInv, depth <= BufferSize, NEW ip \in BranchIps, NEW taken \in BOOLEAN,
         PredictBranch(ip, taken)
  PROVE  /\ Len(stateBuf) \in Nat /\ Len(stateBuf) + 1 <= depth /\ depth \in Nat
         /\ Len(stateBuf') = Len(stateBuf) + 1
         /\ \A k \in 1 .. Len(stateBuf) :
              /\ stateBuf'[k] = stateBuf[k] /\ inFlight'[k] = inFlight[k]
              /\ stateBuf[k].prediction = inFlight[k].taken
         /\ stateBuf'[Len(stateBuf) + 1] = PredictionState(ip)
         /\ UNCHANGED <<perceptrons, globalHistory, depth, direction, streak>>
<1> DEFINE state == PredictionState(ip)
           branch == [ip |-> ip, taken |-> taken, state |-> state]
           n == Len(stateBuf)
<1>1. /\ IsSequence(stateBuf) /\ IsSequence(inFlight) /\ InOrder /\ depth \in Nat
  BY DEF PerceptronIInv
<1>2. /\ Len(inFlight) < depth
      /\ \A k \in DOMAIN inFlight : inFlight[k].state.prediction = inFlight[k].taken
      /\ stateBuf' = IF Len(Append(stateBuf, state)) > BufferSize
                     THEN Tail(Append(stateBuf, state)) ELSE Append(stateBuf, state)
      /\ inFlight' = Append(inFlight, branch)
      /\ UNCHANGED <<perceptrons, globalHistory, depth, direction, streak>>
  BY DEF PredictBranch, streakVars
<1> HIDE DEF state, branch
<1>3. /\ n \in Nat /\ Len(Append(stateBuf, state)) = n + 1
      /\ \A i \in 1 .. n : Append(stateBuf, state)[i] = stateBuf[i]
      /\ Append(stateBuf, state)[n + 1] = state
  BY <1>1, AppendOne
<1>4. /\ Len(inFlight) \in Nat
      /\ \A i \in 1 .. Len(inFlight) : inFlight'[i] = inFlight[i]
  BY <1>1, <1>2, AppendOne
<1>5. Len(inFlight) = n /\ \A k \in 1 .. n : inFlight[k].state = stateBuf[k]
  BY <1>1 DEF InOrder
<1>6. stateBuf' = Append(stateBuf, state)
  BY <1>1, <1>2, <1>3, <1>5, PerceptronNumbers
<1>7. DOMAIN inFlight = 1 .. n
  BY <1>1, <1>5, LenProperties, Zenon DEF IsSequence
<1>8. \A k \in 1 .. n : /\ stateBuf'[k] = stateBuf[k] /\ inFlight'[k] = inFlight[k]
                        /\ stateBuf[k].prediction = inFlight[k].taken
  BY <1>2, <1>3, <1>4, <1>5, <1>6, <1>7
<1>9. n + 1 <= depth /\ Len(stateBuf') = n + 1 /\ stateBuf'[n + 1] = state
  BY <1>1, <1>2, <1>3, <1>5, <1>6
<1> QED
  BY <1>1, <1>2, <1>3, <1>8, <1>9 DEF state

(* What an outcome does: it takes the first state, which was predicted     *)
(* well unless it is the only one, and trains on it.                       *)
LEMMA ResultTakesFirst ==
  ASSUME PerceptronIInv, PerceptronTypeOK, depth <= BufferSize, PerceptronResult
  PROVE  LET ip == inFlight[1].ip
             taken == inFlight[1].taken
             state == stateBuf[1]
         IN  /\ Len(stateBuf) \in Nat \ {0} /\ Len(stateBuf) <= depth /\ depth \in Nat
             /\ Len(stateBuf') = Len(stateBuf) - 1 /\ depth' = depth
             /\ \A k \in 1 .. Len(stateBuf) - 1 :
                  stateBuf'[k] = stateBuf[k + 1] /\ inFlight'[k] = inFlight[k + 1]
             /\ ip \in BranchIps /\ taken \in BOOLEAN /\ state \in States /\ state.ip = ip
             /\ Len(stateBuf) > 1 => state.prediction = taken
             /\ globalHistory' = Shifted(globalHistory, taken)
             /\ perceptrons' =
                  IF (state.output <= Theta /\ state.output >= -Theta) \/ state.prediction # taken
                  THEN [perceptrons EXCEPT ![Index(ip)] = Updated(@, taken, state.history)]
                  ELSE perceptrons
             /\ Outcome(ip, taken, PerceptronBound)
<1> DEFINE branch == Head(inFlight)
           n == Len(stateBuf)
<1>1. /\ IsSequence(stateBuf) /\ IsSequence(inFlight) /\ InOrder
      /\ depth \in Nat /\ inFlight # <<>> /\ inFlight' = Tail(inFlight) /\ depth' = depth
      /\ Outcome(branch.ip, branch.taken, PerceptronBound)
  BY DEF PerceptronIInv, PerceptronResult
<1>2. /\ stateBuf # <<>> /\ branch = inFlight[1] /\ Matches(branch.ip) # {}
      /\ FoundState(branch.ip) = 1
  BY <1>1, OwnStateIsFirst
<1>3. Resolve(branch.ip, branch.taken)
  BY <1>2 DEF PerceptronResult, SkipUpdate
<1>4. /\ stateBuf' = RemoveAt(stateBuf, 1)
      /\ globalHistory' = Shifted(globalHistory, branch.taken)
      /\ perceptrons' =
           IF (stateBuf[1].output <= Theta /\ stateBuf[1].output >= -Theta)
                \/ stateBuf[1].prediction # branch.taken
           THEN [perceptrons EXCEPT ![Index(branch.ip)] = Updated(@, branch.taken, stateBuf[1].history)]
           ELSE perceptrons
  BY <1>2, <1>3 DEF Resolve
<1>5. branch \in [ip : BranchIps, taken : BOOLEAN, state : States]
  <2>1. inFlight \in Seq([ip : BranchIps, taken : BOOLEAN, state : States])
    BY DEF PerceptronTypeOK
  <2> QED
    BY <1>1, <2>1, HeadTailProperties, Zenon
<1> HIDE DEF branch
<1>6. /\ n \in Nat \ {0} /\ Len(stateBuf') = n - 1
      /\ \A i \in 1 .. n - 1 : stateBuf'[i] = stateBuf[i + 1]
  BY <1>1, <1>2, <1>4, DropFirst
<1>7. /\ Len(inFlight) \in Nat \ {0}
      /\ \A i \in 1 .. Len(inFlight) - 1 : inFlight'[i] = inFlight[i + 1]
  BY <1>1, DropFirst
<1>8. /\ Len(inFlight) = n /\ n <= depth
      /\ \A k \in 1 .. n :
           /\ inFlight[k].state = stateBuf[k] /\ inFlight[k].ip = stateBuf[k].ip
           /\ k < n => stateBuf[k].prediction = inFlight[k].taken
  BY <1>1 DEF InOrder
<1>9. stateBuf[1] \in States
  <2>1. stateBuf \in Seq(States)
    BY DEF PerceptronTypeOK
  <2> QED
    BY <1>6, <2>1, ElementOfSeq
<1>10. 1 \in 1 .. n /\ branch.ip \in BranchIps /\ branch.taken \in BOOLEAN
  BY <1>5, <1>6
<1> QED
  BY <1>1, <1>2, <1>4, <1>6, <1>7, <1>8, <1>9, <1>10

(* Initially no streak has begun and nothing is in flight.                 *)
LEMMA PerceptronKeptInitially == StreakInit /\ PerceptronInit => PerceptronKept
<1> SUFFICES ASSUME StreakInit, PerceptronInit PROVE PerceptronKept
  OBVIOUS
<1>1. /\ direction = FALSE /\ streak = [ip \in BranchIps |-> 0]
      /\ \A ip \in BranchIps : streak[ip] = 0
  BY DEF StreakInit
<1>2. Len(stateBuf) = 0 /\ depth \in Nat \ {0}
  BY PerceptronNumbers, EmptySeq DEF PerceptronInit
<1>3. streak \in [BranchIps -> 0 .. PerceptronBound]
  BY <1>1, PerceptronNumbers
<1>4. SoundStates /\ StatesAgree /\ StaleBehind
  BY <1>2 DEF SoundStates, StatesAgree, StaleBehind
<1>5. GlobalFills /\ PerceptronLearns
  BY <1>1, <1>2, PerceptronNumbers DEF GlobalFills, PerceptronLearns
<1> QED
  BY <1>1, <1>3, <1>4, <1>5, PerceptronInitially, PerceptronTypeInitially DEF PerceptronKept

(* A prediction puts one more state behind those in the buffer.            *)
LEMMA PredictKeepsLearned ==
  ASSUME PerceptronKept, depth <= BufferSize, NEW ip \in BranchIps, NEW taken \in BOOLEAN,
         PredictBranch(ip, taken)
  PROVE  SoundStates' /\ StatesAgree' /\ GlobalFills' /\ StaleBehind' /\ PerceptronLearns'
<1> DEFINE n == Len(stateBuf)
           state == PredictionState(ip)
<1>1. /\ n \in Nat /\ n + 1 <= depth /\ depth \in Nat /\ Len(stateBuf') = n + 1
      /\ \A k \in 1 .. n : /\ stateBuf'[k] = stateBuf[k] /\ inFlight'[k] = inFlight[k]
                           /\ stateBuf[k].prediction = inFlight[k].taken
      /\ stateBuf'[n + 1] = state
      /\ UNCHANGED <<perceptrons, globalHistory, depth, direction, streak>>
  BY PredictAppends DEF PerceptronKept
<1>2. /\ StatesAgree /\ GlobalFills /\ StaleBehind /\ PerceptronLearns /\ HistoriesAgree
      /\ PerceptronTypeOK /\ direction \in BOOLEAN /\ streak \in [BranchIps -> 0 .. PerceptronBound]
  BY DEF PerceptronKept, PerceptronIInv
<1>3. /\ state.ip = ip /\ state.history = specHistory
      /\ state.output = Output(perceptrons[Index(ip)], specHistory)
  BY <1>2, StateType
<1> HIDE DEF state
<1>4. \A i \in Bits : specHistory[i] = IF i <= n THEN stateBuf[n + 1 - i].prediction
                                       ELSE globalHistory[i - n]
  BY <1>2 DEF PerceptronKept, HistoriesAgree
<1>5. StatesAgree'
  <2> SUFFICES ASSUME NEW k \in 1 .. n + 1, NEW i \in Bits
               PROVE  stateBuf'[k].history[i] = IF i < k THEN stateBuf'[k - i].prediction
                                                ELSE globalHistory'[i - k + 1]
    BY <1>1 DEF StatesAgree, Bits
  <2>1. i \in Nat \ {0} /\ k \in Nat
    BY <1>1, PerceptronNumbers
  <2>2. i < k => stateBuf'[k - i] = stateBuf[k - i]
    <3>1. i < k => k - i \in 1 .. n
      BY <1>1, <2>1
    <3> QED
      BY <1>1, <3>1
  <2>3. CASE k \in 1 .. n
    <3>1. stateBuf'[k] = stateBuf[k]
      BY <1>1, <2>3
    <3>2. stateBuf[k].history[i] = IF i < k THEN stateBuf[k - i].prediction ELSE globalHistory[i - k + 1]
      BY <1>2, <2>3 DEF StatesAgree
    <3> QED
      BY <1>1, <2>2, <3>1, <3>2
  <2>4. CASE k = n + 1
    <3>1. stateBuf'[k].history[i] = specHistory[i]
      BY <1>1, <1>3, <2>4
    <3>2. (i <= n <=> i < k) /\ n + 1 - i = k - i /\ i - n = i - k + 1
      BY <1>1, <2>1, <2>4
    <3>3. specHistory[i] = IF i < k THEN stateBuf[k - i].prediction ELSE globalHistory[i - k + 1]
      BY <1>4, <3>2
    <3> QED
      BY <1>1, <2>2, <3>1, <3>3
  <2> QED
    BY <1>1, <2>3, <2>4
<1>6. GlobalFills' /\ PerceptronLearns'
  BY <1>1, <1>2 DEF GlobalFills, PerceptronLearns, AsTold, Told, Risen, Output, AllBits
<1>7. StaleBehind'
  <2> SUFFICES ASSUME NEW other \in BranchIps, NEW k \in 1 .. n + 1,
                      streak[other] >= HistoryLength + depth - k,
                      \A j \in 1 .. k - 1 : inFlight'[j].taken = direction
               PROVE  NoFarther(direction, stateBuf'[k].output,
                                Told(direction, perceptrons[Index(stateBuf'[k].ip)]))
    BY <1>1 DEF StaleBehind, Told, Output, NoFarther, AllBits
  <2>1. \A j \in 1 .. k - 1 : j \in 1 .. n /\ inFlight[j].taken = direction
    <3> TAKE j \in 1 .. k - 1
    <3>1. j \in 1 .. n
      BY <1>1
    <3> QED
      BY <1>1, <3>1
  <2>2. CASE k \in 1 .. n
    BY <1>1, <1>2, <2>1, <2>2 DEF StaleBehind
  <2>3. CASE k = n + 1
    <3>1. streak[other] >= HistoryLength
      <4>1. streak[other] \in Nat /\ depth - k >= 0
        BY <1>1, <1>2, <2>3
      <4> QED
        BY <1>1, <2>3, <4>1, PerceptronNumbers
    <3>2. \A i \in Bits : globalHistory[i] = direction
      <4> TAKE i \in Bits
      <4>1. i <= streak[other]
        BY <1>2, <3>1, PerceptronNumbers
      <4> QED
        BY <1>2, <4>1 DEF GlobalFills
    <3>3. \A i \in Bits : specHistory[i] = direction
      <4> TAKE i \in Bits
      <4>1. i \in Nat \ {0}
        BY PerceptronNumbers
      <4>2. CASE i <= n
        <5>1. n + 1 - i \in 1 .. k - 1 /\ n + 1 - i \in 1 .. n
          BY <1>1, <2>3, <4>1, <4>2
        <5>2. stateBuf[n + 1 - i].prediction = direction
          BY <1>1, <2>1, <5>1
        <5> QED
          BY <1>4, <4>2, <5>2
      <4>3. CASE ~(i <= n)
        <5>1. i - n \in Bits
          BY <1>1, <4>1, <4>3, PerceptronNumbers
        <5> QED
          BY <1>4, <3>2, <4>3, <5>1
      <4> QED
        BY <4>2, <4>3
    <3>4. specHistory = AllBits(direction)
      <4>1. specHistory \in Histories
        BY <1>2 DEF PerceptronTypeOK
      <4> QED
        BY <3>3, <4>1 DEF AllBits, Histories
    <3>5. stateBuf'[k].output = Told(direction, perceptrons[Index(ip)]) /\ stateBuf'[k].ip = ip
      BY <1>1, <1>3, <2>3, <3>4 DEF Told
    <3>6. Told(direction, perceptrons[Index(ip)]) \in Int
      <4>1. perceptrons[Index(ip)] \in Perceptron1
        BY <1>2, PerceptronNumbers DEF PerceptronTypeOK, Perceptron1
      <4>2. AllBits(direction) \in Histories
        BY <1>2 DEF AllBits, Histories
      <4> QED
        BY <4>1, <4>2, OutputGrows DEF Told
    <3> QED
      BY <3>5, <3>6 DEF NoFarther
  <2> QED
    BY <1>1, <2>2, <2>3
<1>8. SoundStates'
  <2>1. state.prediction = (state.output >= 0)
    BY <1>2, StateType DEF state
  <2>2. \A k \in 1 .. n : stateBuf[k].prediction = (stateBuf[k].output >= 0)
    BY DEF PerceptronKept, SoundStates
  <2>3. \A k \in 1 .. n + 1 : stateBuf'[k].prediction = (stateBuf'[k].output >= 0)
    BY <1>1, <2>1, <2>2
  <2> QED
    BY <1>1, <2>3 DEF SoundStates
<1> QED
  BY <1>5, <1>6, <1>7, <1>8

(* The state an outcome trains on was predicted from the real history; so  *)
(* once a streak has filled the history, every training brings every       *)
(* perceptron nearer, and one that does not tell the way yet is trained.   *)
LEMMA StreakTrains ==
  ASSUME PerceptronKept, depth <= BufferSize, PerceptronResult,
         inFlight[1].taken = direction,
         NEW other \in BranchIps, streak[other] >= HistoryLength
  PROVE  /\ \A p \in 0 .. NumPerceptrons - 1 :
              Nearer(direction, perceptrons[p], perceptrons'[p])
         /\ ( /\ streak[other] >= HistoryLength + depth
              /\ other = inFlight[1].ip
              /\ ~AsTold(direction, Told(direction, perceptrons[Index(other)])) )
            => \A times \in Nat : Risen(direction, perceptrons[Index(other)], times)
                                    => Risen(direction, perceptrons'[Index(other)], times + 1)
<1> DEFINE ip == inFlight[1].ip
           state == stateBuf[1]
           weak == state.output <= Theta /\ state.output >= -Theta
           trained == [perceptrons EXCEPT ![Index(ip)] = Updated(@, direction, state.history)]
<1>1. /\ PerceptronTypeOK /\ direction \in BOOLEAN /\ streak \in [BranchIps -> 0 .. PerceptronBound]
      /\ StatesAgree /\ GlobalFills /\ StaleBehind /\ PerceptronIInv
  BY DEF PerceptronKept
<1>2. /\ Len(stateBuf) \in Nat \ {0} /\ depth \in Nat
      /\ ip \in BranchIps /\ state \in States /\ state.ip = ip
      /\ perceptrons' = IF weak \/ state.prediction # direction THEN trained ELSE perceptrons
  BY <1>1, ResultTakesFirst
<1>3. /\ perceptrons \in [0 .. NumPerceptrons - 1 -> Perceptron1]
      /\ Index(ip) \in 0 .. NumPerceptrons - 1 /\ Index(other) \in 0 .. NumPerceptrons - 1
  BY <1>1, <1>2, PerceptronNumbers DEF PerceptronTypeOK, Perceptron1
<1>4. state.history \in Histories /\ \A i \in Bits : state.history[i] = direction
  <2>1. state.history \in Histories
    BY <1>2 DEF States
  <2>2. ASSUME NEW i \in Bits PROVE state.history[i] = direction
    <3>1. i \in Nat \ {0} /\ i <= streak[other]
      BY <1>1, PerceptronNumbers
    <3>2. 1 \in 1 .. Len(stateBuf) /\ ~(i < 1) /\ i - 1 + 1 = i
      BY <1>2, <3>1
    <3>3. state.history[i] = globalHistory[i]
      BY <1>1, <3>2 DEF StatesAgree
    <3> QED
      BY <1>1, <3>1, <3>3 DEF GlobalFills
  <2> QED
    BY <2>1, <2>2
<1> HIDE DEF ip, state, weak
<1>5. \A p \in 0 .. NumPerceptrons - 1 :
        trained[p] = IF p = Index(ip) THEN Updated(perceptrons[p], direction, state.history)
                     ELSE perceptrons[p]
  BY <1>3
<1> HIDE DEF trained
<1>6. \A p \in 0 .. NumPerceptrons - 1 :
        /\ perceptrons[p] \in Perceptron1
        /\ Nearer(direction, perceptrons[p], perceptrons[p])
        /\ Nearer(direction, perceptrons[p], Updated(perceptrons[p], direction, state.history))
        /\ \A times \in Nat : Risen(direction, perceptrons[p], times)
             => Risen(direction, Updated(perceptrons[p], direction, state.history), times + 1)
  <2> TAKE p \in 0 .. NumPerceptrons - 1
  <2>1. perceptrons[p] \in Perceptron1
    BY <1>3
  <2>2. perceptrons[p].bias \in Int /\ \A i \in Bits : perceptrons[p].weights[i] \in Int
    BY <2>1, PerceptronNumbers DEF Perceptron1
  <2>3. Nearer(direction, perceptrons[p], perceptrons[p])
    BY <2>2 DEF Nearer, NoFarther
  <2> QED
    BY <1>1, <1>4, <2>1, <2>3, UpdatedNearer
<1>7. \A p \in 0 .. NumPerceptrons - 1 : Nearer(direction, perceptrons[p], perceptrons'[p])
  BY <1>2, <1>5, <1>6
<1>8. ASSUME streak[other] >= HistoryLength + depth, other = ip,
             ~AsTold(direction, Told(direction, perceptrons[Index(other)]))
      PROVE  perceptrons' = trained
  <2>1. 1 \in 1 .. Len(stateBuf) /\ streak[other] >= HistoryLength + depth - 1
    BY <1>1, <1>2, <1>8, PerceptronNumbers
  <2>2. \A j \in 1 .. 1 - 1 : inFlight[j].taken = direction
    OBVIOUS
  <2>3. NoFarther(direction, state.output, Told(direction, perceptrons[Index(other)]))
    BY <1>1, <1>2, <1>8, <2>1, <2>2 DEF StaleBehind, state
  <2>4. Told(direction, perceptrons[Index(other)]) \in Int
    BY <1>1, <1>3, <1>6, NearerTells
  <2>5. state.output \in Int
    BY <1>2 DEF States
  <2>6. ~AsTold(direction, state.output)
    BY <1>8, <2>3, <2>4, <2>5 DEF AsTold, NoFarther
  <2>7. state.prediction = (state.output >= 0)
    BY <1>1, <2>1 DEF PerceptronKept, SoundStates, state
  <2>8. state.prediction # direction
    <3>1. CASE direction
      BY <2>6, <2>7, <3>1 DEF AsTold
    <3>2. CASE ~direction
      <4>1. state.output >= 0
        BY <2>5, <2>6, <3>2 DEF AsTold
      <4>2. state.prediction = TRUE
        BY <2>7, <4>1
      <4> QED
        BY <3>2, <4>2
    <3> QED
      BY <3>1, <3>2
  <2> QED
    BY <1>2, <2>8
<1> QED
  BY <1>3, <1>5, <1>6, <1>7, <1>8 DEF ip

(* An outcome takes the first state, trains on it, and may repair.         *)
LEMMA ResultKeepsLearned ==
  ASSUME PerceptronKept, depth <= BufferSize, PerceptronResult
  PROVE  /\ SoundStates' /\ StatesAgree' /\ GlobalFills' /\ StaleBehind' /\ PerceptronLearns'
         /\ direction' \in BOOLEAN /\ streak' \in [BranchIps -> 0 .. PerceptronBound]
<1> DEFINE ip == inFlight[1].ip
           taken == inFlight[1].taken
           n == Len(stateBuf)
<1>1. /\ PerceptronTypeOK /\ direction \in BOOLEAN /\ streak \in [BranchIps -> 0 .. PerceptronBound]
      /\ SoundStates /\ StatesAgree /\ GlobalFills /\ StaleBehind /\ PerceptronLearns /\ PerceptronIInv
  BY DEF PerceptronKept
<1>2. /\ n \in Nat \ {0} /\ n <= depth /\ depth \in Nat /\ Len(stateBuf') = n - 1 /\ depth' = depth
      /\ \A k \in 1 .. n - 1 : stateBuf'[k] = stateBuf[k + 1] /\ inFlight'[k] = inFlight[k + 1]
      /\ ip \in BranchIps /\ taken \in BOOLEAN
      /\ n > 1 => stateBuf[1].prediction = taken
      /\ globalHistory' = Shifted(globalHistory, taken)
      /\ Outcome(ip, taken, PerceptronBound)
  BY <1>1, ResultTakesFirst
<1>3. perceptrons' \in [0 .. NumPerceptrons - 1 -> Perceptron1]
      /\ perceptrons \in [0 .. NumPerceptrons - 1 -> Perceptron1]
  BY <1>1, ResultKeepsType DEF PerceptronTypeOK, Perceptron1
<1>4. /\ direction' = taken /\ streak' \in [BranchIps -> 0 .. PerceptronBound]
      /\ \A other \in BranchIps :
           \/ /\ taken = direction /\ other # ip /\ streak'[other] = streak[other]
           \/ /\ taken = direction /\ other = ip
              /\ streak'[ip] \in {streak[ip], streak[ip] + 1}
           \/ /\ taken # direction /\ streak'[other] <= 1
  <2>1. /\ direction' = taken /\ streak' \in [BranchIps -> 0 .. PerceptronBound]
        /\ taken # direction =>
             \A other \in BranchIps : streak'[other] = IF other = ip THEN 1 ELSE 0
        /\ taken = direction =>
             \A other \in BranchIps :
               streak'[other] = IF other = ip /\ streak[ip] < PerceptronBound THEN streak[ip] + 1
                                ELSE streak[other]
    BY <1>1, <1>2, OutcomeIs, PerceptronLengths
  <2> HIDE DEF ip, taken
  <2>2. CASE taken = direction
    BY <2>1, <2>2
  <2>3. CASE taken # direction
    BY <2>1, <2>3
  <2> QED
    BY <2>1, <2>2, <2>3
<1> HIDE DEF ip, taken
<1>5. \A k \in 1 .. n - 1 : k + 1 \in 1 .. n /\ stateBuf'[k] = stateBuf[k + 1]
  BY <1>2
<1>6. SoundStates'
  <2>1. \A k \in 1 .. n - 1 : stateBuf'[k].prediction = (stateBuf'[k].output >= 0)
    BY <1>1, <1>5 DEF SoundStates
  <2> QED
    BY <1>2, <2>1 DEF SoundStates
<1>7. StatesAgree'
  <2> SUFFICES ASSUME NEW k \in 1 .. n - 1, NEW i \in Bits
               PROVE  stateBuf'[k].history[i] = IF i < k THEN stateBuf'[k - i].prediction
                                                ELSE globalHistory'[i - k + 1]
    BY <1>2 DEF StatesAgree, Bits
  <2>1. i \in Nat \ {0} /\ k \in Nat \ {0} /\ n > 1
    BY <1>2, PerceptronNumbers
  <2> DEFINE m == k + 1
  <2>2. m \in 1 .. Len(stateBuf) /\ m = k + 1 /\ stateBuf'[k] = stateBuf[m]
    BY <1>5
  <2> HIDE DEF m
  <2>3. stateBuf'[k].history[i] = IF i < m THEN stateBuf[m - i].prediction
                                  ELSE globalHistory[i - m + 1]
    BY <1>1, <2>2 DEF StatesAgree
  <2>4. CASE i < k
    <3> DEFINE j == k - i
    <3>1. j \in 1 .. n - 1 /\ m - i = j + 1 /\ i < m
      BY <1>2, <2>1, <2>2, <2>4
    <3> HIDE DEF j
    <3>2. stateBuf'[j] = stateBuf[m - i]
      BY <1>5, <3>1
    <3> QED
      BY <2>3, <2>4, <3>1, <3>2 DEF j
  <2>5. CASE i = k
    <3>1. ~(i < k) /\ i < m /\ i - k + 1 = 1 /\ m - i = 1 /\ 1 \in Bits
      BY <2>1, <2>2, <2>5, PerceptronNumbers
    <3>2. globalHistory'[1] = taken
      BY <1>2, <3>1, ShiftedBits
    <3> QED
      BY <1>2, <2>1, <2>3, <3>1, <3>2
  <2>6. CASE i > k
    <3> DEFINE b == i - k + 1
    <3>1. ~(i < k) /\ ~(i < m) /\ i - m + 1 = b - 1 /\ b # 1 /\ b \in Bits
      BY <2>1, <2>2, <2>6, PerceptronNumbers
    <3> HIDE DEF b
    <3>2. globalHistory'[b] = globalHistory[b - 1]
      BY <1>2, <3>1, ShiftedBits
    <3> QED
      BY <2>3, <3>1, <3>2 DEF b
  <2> QED
    BY <2>1, <2>4, <2>5, <2>6
<1>8. GlobalFills'
  <2> SUFFICES ASSUME NEW other \in BranchIps, NEW i \in Bits, i <= streak'[other]
               PROVE  globalHistory'[i] = taken
    BY <1>4 DEF GlobalFills, Bits
  <2>1. i \in Nat \ {0} /\ streak[other] \in Nat /\ streak'[other] \in Nat
    BY <1>1, <1>4, PerceptronNumbers
  <2>2. globalHistory'[i] = IF i = 1 THEN taken ELSE globalHistory[i - 1]
    BY <1>2, ShiftedBits
  <2>3. CASE i # 1
    <3>1. i - 1 \in Bits /\ i - 1 <= streak[other] /\ taken = direction
      BY <1>4, <2>1, <2>3, PerceptronNumbers
    <3>2. globalHistory[i - 1] = direction
      BY <1>1, <3>1 DEF GlobalFills
    <3> QED
      BY <2>2, <2>3, <3>1, <3>2
  <2> QED
    BY <2>2, <2>3
<1>9. StaleBehind'
  <2> SUFFICES ASSUME NEW other \in BranchIps, NEW k \in 1 .. n - 1,
                      streak'[other] >= HistoryLength + depth - k,
                      \A j \in 1 .. k - 1 : inFlight'[j].taken = taken
               PROVE  NoFarther(taken, stateBuf'[k].output,
                                Told(taken, perceptrons'[Index(stateBuf'[k].ip)]))
    BY <1>2, <1>4 DEF StaleBehind, Told, Output, NoFarther, AllBits, Index, Bits
  <2>1. /\ k \in Nat \ {0} /\ k + 1 <= depth /\ n > 1
        /\ streak[other] \in Nat /\ streak'[other] \in Nat
    BY <1>1, <1>2, <1>4
  <2>2. streak'[other] > 1
    BY <1>2, <2>1, PerceptronNumbers
  <2>3. /\ taken = direction
        /\ streak[other] >= HistoryLength + depth - (k + 1) /\ streak[other] >= HistoryLength
    <3>1. taken = direction
      BY <1>4, <2>1, <2>2
    <3>2. streak'[other] \in {streak[other], streak[other] + 1}
      BY <1>4, <3>1
    <3>3. streak'[other] <= streak[other] + 1
      BY <2>1, <3>2
    <3>4. streak'[other] >= HistoryLength + depth - k
      OBVIOUS
    <3>5. streak[other] >= HistoryLength + depth - (k + 1)
      <4>1. HistoryLength \in Nat /\ depth \in Nat
        BY <1>2, PerceptronLengths
      <4> QED
        BY <2>1, <3>3, <3>4, <4>1
    <3>6. streak[other] >= HistoryLength
      BY <1>2, <2>1, <3>5, PerceptronLengths
    <3> QED
      BY <3>1, <3>5, <3>6
  <2>4. \A j \in 1 .. k + 1 - 1 : inFlight[j].taken = direction
    <3> TAKE j \in 1 .. k + 1 - 1
    <3>1. CASE j = 1
      BY <2>3, <3>1 DEF taken
    <3>2. CASE j # 1
      <4>1. j - 1 \in 1 .. k - 1 /\ j - 1 \in 1 .. n - 1 /\ j - 1 + 1 = j
        BY <1>2, <2>1, <3>2
      <4>2. inFlight'[j - 1] = inFlight[j]
        BY <1>2, <4>1
      <4> QED
        BY <2>3, <4>1, <4>2
    <3> QED
      BY <3>1, <3>2
  <2> DEFINE state == stateBuf[k + 1]
             p == Index(state.ip)
  <2>5. NoFarther(direction, state.output, Told(direction, perceptrons[p]))
    BY <1>1, <1>5, <2>3, <2>4 DEF StaleBehind
  <2>6. state \in States
    <3>1. stateBuf \in Seq(States) /\ k + 1 \in 1 .. n
      BY <1>1, <1>5 DEF PerceptronTypeOK
    <3> QED
      BY <3>1, ElementOfSeq
  <2>7. p \in 0 .. NumPerceptrons - 1 /\ state.output \in Int
    BY <2>6, PerceptronNumbers DEF States
  <2>8. stateBuf'[k] = state
    BY <1>5
  <2> HIDE DEF state, p
  <2>9. Nearer(direction, perceptrons[p], perceptrons'[p])
    BY <2>3, <2>7, StreakTrains DEF taken
  <2>10. /\ Told(direction, perceptrons[p]) \in Int /\ Told(direction, perceptrons'[p]) \in Int
         /\ NoFarther(direction, Told(direction, perceptrons[p]), Told(direction, perceptrons'[p]))
    BY <1>1, <1>3, <2>7, <2>9, NearerTells
  <2>11. NoFarther(direction, state.output, Told(direction, perceptrons'[p]))
    BY <2>5, <2>7, <2>10 DEF NoFarther
  <2> QED
    BY <2>3, <2>8, <2>11 DEF p
<1>10. PerceptronLearns'
  <2> SUFFICES ASSUME NEW other \in BranchIps, streak'[other] >= HistoryLength + depth
               PROVE  \/ AsTold(taken, Told(taken, perceptrons'[Index(other)]))
                      \/ Risen(taken, perceptrons'[Index(other)],
                               streak'[other] - (HistoryLength + depth))
    BY <1>2, <1>4 DEF PerceptronLearns, Told, Output, AsTold, Risen, AllBits, Index, Bits
  <2> DEFINE p == perceptrons[Index(other)]
             q == perceptrons'[Index(other)]
             late == HistoryLength + depth
  <2>1. /\ p \in Perceptron1 /\ q \in Perceptron1 /\ late \in Nat /\ late > 1 /\ late >= HistoryLength
        /\ streak[other] \in Nat /\ streak'[other] \in Nat
    <3>1. p \in Perceptron1 /\ q \in Perceptron1
      <4>1. Index(other) \in 0 .. NumPerceptrons - 1
        BY PerceptronNumbers
      <4> QED
        BY <1>3, <4>1
    <3>2. late \in Nat /\ late > 1 /\ late >= HistoryLength
      BY <1>2, PerceptronLengths
    <3>3. streak[other] \in Nat /\ streak'[other] \in Nat
      BY <1>1, <1>4, PerceptronLengths
    <3> QED
      BY <3>1, <3>2, <3>3
  <2>2. taken = direction
    BY <1>4, <2>1
  <2>3. Index(other) \in 0 .. NumPerceptrons - 1
    BY PerceptronNumbers
  <2> HIDE DEF late
  <2>4. CASE streak'[other] = late
    <3>1. Risen(taken, q, 0)
      <4>1. /\ q.bias \in MinWeight .. MaxWeight
            /\ \A i \in Bits : q.weights[i] \in MinWeight .. MaxWeight
        BY <2>1 DEF Perceptron1
      <4> HIDE DEF q
      <4> QED
        BY <4>1, PerceptronNumbers DEF Risen
    <3>2. streak'[other] - late = 0
      BY <2>1, <2>4
    <3> QED
      BY <3>1, <3>2 DEF late
  <2>5. CASE streak'[other] > late
    <3>1. streak[other] >= late /\ streak[other] >= HistoryLength /\ streak[other] - late \in Nat
      <4>1. streak'[other] \in {streak[other], streak[other] + 1}
        BY <1>4, <2>2
      <4> QED
        BY <2>1, <2>5, <4>1, PerceptronNumbers
    <3>2. /\ Nearer(direction, p, q)
          /\ ( /\ other = ip
               /\ ~AsTold(direction, Told(direction, p)) )
             => \A times \in Nat : Risen(direction, p, times) => Risen(direction, q, times + 1)
      BY <2>2, <2>3, <3>1, StreakTrains DEF taken, ip, late
    <3>3. /\ AsTold(direction, Told(direction, p)) => AsTold(direction, Told(direction, q))
          /\ \A times \in Nat : Risen(direction, p, times) => Risen(direction, q, times)
      BY <1>1, <2>1, <3>2, NearerTells
    <3>4. \/ AsTold(direction, Told(direction, p))
          \/ Risen(direction, p, streak[other] - late)
      BY <1>1, <3>1 DEF PerceptronLearns, late
    <3> HIDE DEF p, q
    <3>5. CASE AsTold(direction, Told(direction, p))
      BY <2>2, <3>3, <3>5 DEF q
    <3>6. CASE ~AsTold(direction, Told(direction, p)) /\ other = ip
      <4>1. Risen(direction, q, streak[other] - late) /\ Risen(direction, q, (streak[other] - late) + 1)
        BY <3>1, <3>2, <3>3, <3>4, <3>6
      <4>2. \/ streak'[other] - late = streak[other] - late
            \/ streak'[other] - late = (streak[other] - late) + 1
        BY <1>4, <2>1, <2>2, <3>6
      <4>3. Risen(direction, q, streak'[other] - late)
        BY <4>1, <4>2
      <4> QED
        BY <2>2, <4>3 DEF q, late
    <3>7. CASE ~AsTold(direction, Told(direction, p)) /\ other # ip
      <4>1. Risen(direction, q, streak[other] - late)
        BY <3>1, <3>3, <3>4, <3>7
      <4>2. streak'[other] = streak[other]
        BY <1>4, <2>2, <3>7
      <4> QED
        BY <2>2, <4>1, <4>2 DEF q, late
    <3> QED
      BY <3>5, <3>6, <3>7
  <2> QED
    BY <2>1, <2>4, <2>5 DEF late
<1> QED
  BY <1>2, <1>4, <1>6, <1>7, <1>8, <1>9, <1>10

(* Each step keeps the invariant of the perceptrons.                       *)
LEMMA PerceptronKeeps ==
  ASSUME PerceptronKept, PerceptronNext \/ UNCHANGED <<perceptronVars, streakVars>>
  PROVE  PerceptronKept'
<1>1. PerceptronIInv /\ PerceptronTypeOK
      /\ direction \in BOOLEAN /\ streak \in [BranchIps -> 0 .. PerceptronBound]
  BY DEF PerceptronKept
<1>2. PerceptronIInv' /\ depth' = depth
  BY <1>1, OrderKept DEF PerceptronKept
<1>3. PerceptronTypeOK'
  BY <1>1, PerceptronKeepsType
<1>4. CASE UNCHANGED <<perceptronVars, streakVars>>
  <2>1. UNCHANGED <<perceptrons, stateBuf, globalHistory, inFlight, depth, direction, streak>>
    BY <1>4 DEF perceptronVars, streakVars
  <2>2. direction' \in BOOLEAN /\ streak' \in [BranchIps -> 0 .. PerceptronBound]
    BY <1>1, <2>1
  <2>3. ASSUME depth <= BufferSize
        PROVE  SoundStates' /\ StatesAgree' /\ GlobalFills' /\ StaleBehind' /\ PerceptronLearns'
    <3>1. SoundStates /\ StatesAgree /\ GlobalFills /\ StaleBehind /\ PerceptronLearns
      BY <2>3 DEF PerceptronKept
    <3>2. SoundStates' /\ StatesAgree' /\ GlobalFills'
      BY <2>1, <3>1 DEF SoundStates, StatesAgree, GlobalFills, AllBits, Index, Bits
    <3>3. StaleBehind'
      BY <2>1, <3>1 DEF StaleBehind, Told, Output, NoFarther, AllBits, Index, Bits
    <3>4. PerceptronLearns'
      BY <2>1, <3>1 DEF PerceptronLearns, Told, Output, AsTold, Risen, AllBits, Index, Bits
    <3> QED
      BY <3>2, <3>3, <3>4
  <2> QED
    BY <1>2, <1>3, <2>2, <2>3 DEF PerceptronKept, Bits
<1>5. ASSUME NEW ip \in BranchIps, NEW taken \in BOOLEAN, PredictBranch(ip, taken)
      PROVE  PerceptronKept'
  <2>1. UNCHANGED <<direction, streak>>
    BY <1>5 DEF PredictBranch, streakVars
  <2>2. direction' \in BOOLEAN /\ streak' \in [BranchIps -> 0 .. PerceptronBound]
    BY <1>1, <2>1
  <2>3. depth <= BufferSize
          => SoundStates' /\ StatesAgree' /\ GlobalFills' /\ StaleBehind' /\ PerceptronLearns'
    BY <1>5, PredictKeepsLearned
  <2> QED
    BY <1>2, <1>3, <2>2, <2>3 DEF PerceptronKept
<1>6. CASE PerceptronResult
  <2>1. depth <= BufferSize
          => SoundStates' /\ StatesAgree' /\ GlobalFills' /\ StaleBehind' /\ PerceptronLearns'
    BY <1>6, ResultKeepsLearned
  <2>2. direction' \in BOOLEAN /\ streak' \in [BranchIps -> 0 .. PerceptronBound]
    <3>1. Head(inFlight) \in [ip : BranchIps, taken : BOOLEAN, state : States]
      <4>1. inFlight \in Seq([ip : BranchIps, taken : BOOLEAN, state : States]) /\ inFlight # <<>>
        BY <1>1, <1>6 DEF PerceptronTypeOK, PerceptronResult
      <4> QED
        BY <4>1, HeadTailProperties, Zenon
    <3>2. Outcome(Head(inFlight).ip, Head(inFlight).taken, PerceptronBound)
      BY <1>6 DEF PerceptronResult
    <3>3. Head(inFlight).ip \in BranchIps /\ Head(inFlight).taken \in BOOLEAN
      BY <3>1
    <3> QED
      BY <1>1, <3>2, <3>3, OutcomeIs, PerceptronLengths
  <2> QED
    BY <1>2, <1>3, <2>1, <2>2 DEF PerceptronKept
<1> QED
  BY <1>4, <1>5, <1>6 DEF PerceptronNext

(* At the end of a streak every perceptron tells its direction.            *)
LEMMA PerceptronLearn ==
  ASSUME PerceptronKept, depth <= BufferSize, inFlight = <<>>
  PROVE  Learned(LAMBDA ip : PredictionState(ip).prediction, PerceptronBound)
<1> SUFFICES ASSUME NEW ip \in BranchIps, streak[ip] = PerceptronBound
             PROVE  PredictionState(ip).prediction = direction
  BY DEF Learned
<1>1. /\ PerceptronTypeOK /\ direction \in BOOLEAN /\ HistoriesAgree /\ InOrder
      /\ GlobalFills /\ PerceptronLearns
  BY DEF PerceptronKept, PerceptronIInv
<1>2. perceptrons[Index(ip)] \in Perceptron1 /\ specHistory \in Histories /\ depth \in 1 .. MaxDepth
  BY <1>1, PerceptronNumbers DEF PerceptronTypeOK, Perceptron1
<1>3. Len(stateBuf) = 0
  BY <1>1, EmptySeq DEF InOrder
<1>4. \A i \in Bits : specHistory[i] = direction
  <2> TAKE i \in Bits
  <2>1. i \in Nat \ {0} /\ i <= HistoryLength
    BY PerceptronNumbers
  <2>2. ~(i <= Len(stateBuf)) /\ i - Len(stateBuf) = i /\ i <= PerceptronBound
    BY <1>3, <2>1, PerceptronNumbers DEF PerceptronBound
  <2>3. specHistory[i] = globalHistory[i]
    BY <1>1, <2>2 DEF HistoriesAgree
  <2> QED
    BY <1>1, <2>2, <2>3 DEF GlobalFills
<1>5. specHistory = AllBits(direction)
  BY <1>2, <1>4 DEF AllBits, Histories
<1> DEFINE output == Told(direction, perceptrons[Index(ip)])
           times == PerceptronBound - (HistoryLength + depth)
<1>6. PredictionState(ip).prediction = (output >= 0) /\ output \in Int
  <2>1. Output(perceptrons[Index(ip)], specHistory) \in Int
    BY <1>2, OutputGrows
  <2> QED
    BY <1>1, <1>5, <2>1, StateType DEF Told
<1>7. times \in Nat /\ times >= 2 * HalfRange /\ PerceptronBound >= HistoryLength + depth
  BY <1>2, PerceptronNumbers DEF PerceptronBound
<1>8. AsTold(direction, output)
  <2>1. \/ AsTold(direction, output)
        \/ Risen(direction, perceptrons[Index(ip)], times)
    BY <1>1, <1>7 DEF PerceptronLearns
  <2> HIDE DEF times
  <2> QED
    BY <1>1, <1>2, <1>7, <2>1, RisenTells
<1> HIDE DEF output
<1>9. CASE direction
  BY <1>6, <1>8, <1>9 DEF AsTold
<1>10. CASE ~direction
  <2>1. ~(output >= 0)
    BY <1>6, <1>8, <1>10 DEF AsTold
  <2>2. PredictionState(ip).prediction \in BOOLEAN
    BY <1>1, StateType DEF States
  <2>3. ~PredictionState(ip).prediction
    BY <1>6, <2>1, Zenon
  <2> QED
    BY <1>1, <1>10, <2>2, <2>3
<1> QED
  BY <1>1, <1>9, <1>10
-----------------------------------------------------------------------------
(* The places of the first occurrences, and the slot of each.              *)
NewIn(f) == {i \in DOMAIN f : f[i] # 0 /\ \A j \in DOMAIN f : j < i => f[j] # f[i]}

SlotOf(new, i) == Cardinality({j \in new : j <= i})

(* The slots number a set of naturals in order, from one up.               *)
LEMMA SlotsNumber ==
  ASSUME NEW new \in SUBSET Nat, IsFiniteSet(new)
  PROVE  /\ Cardinality(new) \in Nat
         /\ \A i \in new : SlotOf(new, i) \in 1 .. Cardinality(new)
         /\ \A i, j \in new : i < j => SlotOf(new, i) < SlotOf(new, j)
         /\ \A k \in 1 .. Cardinality(new) : \E i \in new : SlotOf(new, i) = k
<1>1. Cardinality(new) \in Nat
  BY FS_CardinalityType
<1>2. ASSUME NEW i \in new
      PROVE  SlotOf(new, i) \in 1 .. Cardinality(new)
  <2> DEFINE s == {j \in new : j <= i}
  <2>1. s \in SUBSET new /\ i \in s
    OBVIOUS
  <2> HIDE DEF s
  <2>2. IsFiniteSet(s) /\ Cardinality(s) <= Cardinality(new)
    BY <2>1, FS_Subset
  <2>3. Cardinality(s) \in Nat /\ Cardinality(s) # 0
    BY <2>1, <2>2, FS_CardinalityType, FS_EmptySet
  <2>4. Cardinality(s) \in 1 .. Cardinality(new)
    BY <1>1, <2>2, <2>3
  <2> QED
    BY <2>4 DEF SlotOf, s
<1>5. \A i \in new : SlotOf(new, i) \in Nat
  BY <1>1, <1>2
<1>3. ASSUME NEW i \in new, NEW j \in new, i < j PROVE SlotOf(new, i) < SlotOf(new, j)
  <2> DEFINE s == {k \in new : k <= i}
             t == {k \in new : k <= j}
  <2>1. s \in SUBSET t /\ j \in t /\ j \notin s
    <3>1. i \in Nat /\ j \in Nat /\ ~(j <= i) /\ \A k \in Nat : k <= i => k <= j
      BY <1>3
    <3>2. \A k \in new : k <= i => k <= j
      BY <3>1
    <3>3. \A k \in s : k \in t
      BY <3>2
    <3>4. j \in t
      BY <3>1
    <3>5. j \notin s
      BY <3>1
    <3> HIDE DEF s, t
    <3> QED
      BY <3>3, <3>4, <3>5
  <2>2. IsFiniteSet(t)
    BY FS_Subset
  <2>3. SlotOf(new, i) = Cardinality(s) /\ SlotOf(new, j) = Cardinality(t)
    BY DEF SlotOf
  <2> HIDE DEF s, t
  <2>4. Cardinality(s) <= Cardinality(t) /\ (Cardinality(t) = Cardinality(s) => t = s)
    BY <2>1, <2>2, FS_Subset
  <2>5. Cardinality(t) # Cardinality(s)
    BY <2>1, <2>4
  <2>6. SlotOf(new, i) \in Nat /\ SlotOf(new, j) \in Nat
    BY <1>5
  <2> QED
    BY <2>3, <2>4, <2>5, <2>6
<1>4. \A k \in 1 .. Cardinality(new) : \E i \in new : SlotOf(new, i) = k
  <2> DEFINE f == [i \in new |-> SlotOf(new, i)]
             T == 1 .. Cardinality(new)
  <2>1. f \in [new -> T]
    BY <1>2
  <2>2. \A i, j \in new : f[i] = f[j] => i = j
    <3> SUFFICES ASSUME NEW i \in new, NEW j \in new, i # j PROVE f[i] # f[j]
      OBVIOUS
    <3>1. SlotOf(new, i) \in Nat /\ SlotOf(new, j) \in Nat
      BY <1>5
    <3>2. i < j \/ j < i
      OBVIOUS
    <3> QED
      BY <1>3, <3>1, <3>2
  <2>3. IsFiniteSet(T) /\ Cardinality(T) = Cardinality(new)
    BY <1>1, FS_Interval
  <2> HIDE DEF f, T
  <2>4. f \in Injection(new, T)
    BY <2>1, <2>2 DEF Injection, IsInjective
  <2>5. f \in Surjection(new, T)
    BY <2>3, <2>4, FS_Injection
  <2>6. \A k \in T : \E i \in new : f[i] = k
    BY <2>5 DEF Surjection
  <2> QED
    BY <2>6 DEF f, T
<1> QED
  BY <1>1, <1>2, <1>3, <1>4

(* What the slots hold: the k-th slot the k-th distinct operand, the slots *)
(* behind the last of them nothing.                                        *)
HoldDistinct(f, S, n, slots) ==
  /\ NewIn(f) \in SUBSET S /\ IsFiniteSet(NewIn(f)) /\ Cardinality(NewIn(f)) \in Nat
  /\ slots \in [1 .. n -> Nat]
  /\ \A k \in 1 .. n :
       IF k <= Cardinality(NewIn(f))
       THEN \E i \in NewIn(f) : SlotOf(NewIn(f), i) = k /\ slots[k] = f[i] /\ f[i] # 0
       ELSE slots[k] = 0
  /\ \A i \in NewIn(f) : SlotOf(NewIn(f), i) <= n => slots[SlotOf(NewIn(f), i)] = f[i]
  /\ \A i \in NewIn(f) : SlotOf(NewIn(f), i) \in 1 .. Cardinality(NewIn(f))

(* The record an operand list should give, in these terms.                 *)
LEMMA SlotsHold ==
  ASSUME NEW S \in SUBSET Nat, IsFiniteSet(S), NEW f \in [S -> Nat], NEW n \in Nat
  PROVE  HoldDistinct(f, S, n, FirstDistinct(f, n))
<1> DEFINE new == NewIn(f)
           slots == FirstDistinct(f, n)
<1>1. new \in SUBSET S /\ \A i \in new : f[i] # 0 /\ f[i] \in Nat
  BY DEF NewIn
<1>2. slots = [k \in 1 .. n |-> IF \E i \in new : SlotOf(new, i) = k
                                THEN f[CHOOSE i \in new : SlotOf(new, i) = k] ELSE 0]
  BY DEF FirstDistinct, NewIn, SlotOf
<1> HIDE DEF new, slots
<1>3. IsFiniteSet(new) /\ new \in SUBSET Nat
  BY <1>1, FS_Subset
<1>4. /\ Cardinality(new) \in Nat
      /\ \A i \in new : SlotOf(new, i) \in 1 .. Cardinality(new)
      /\ \A i, j \in new : i < j => SlotOf(new, i) < SlotOf(new, j)
      /\ \A k \in 1 .. Cardinality(new) : \E i \in new : SlotOf(new, i) = k
  BY <1>3, SlotsNumber
<1>5. \A i, j \in new : SlotOf(new, i) = SlotOf(new, j) => i = j
  <2> SUFFICES ASSUME NEW i \in new, NEW j \in new, i # j PROVE SlotOf(new, i) # SlotOf(new, j)
    OBVIOUS
  <2>1. i < j \/ j < i
    BY <1>3
  <2>2. SlotOf(new, i) \in Nat /\ SlotOf(new, j) \in Nat
    BY <1>4
  <2> QED
    BY <1>4, <2>1, <2>2
<1>6. ASSUME NEW i \in new, SlotOf(new, i) <= n
      PROVE  /\ SlotOf(new, i) \in 1 .. n /\ slots[SlotOf(new, i)] = f[i]
  <2>1. SlotOf(new, i) \in 1 .. n
    BY <1>4, <1>6
  <2>2. (CHOOSE j \in new : SlotOf(new, j) = SlotOf(new, i)) = i
    BY <1>5
  <2> QED
    BY <1>2, <2>1, <2>2
<1>7. ASSUME NEW k \in 1 .. n
      PROVE  /\ slots[k] \in Nat
             /\ IF k <= Cardinality(new)
                THEN \E i \in new : SlotOf(new, i) = k /\ slots[k] = f[i] /\ f[i] # 0
                ELSE slots[k] = 0
  <2>1. CASE k <= Cardinality(new)
    <3>1. PICK i \in new : SlotOf(new, i) = k
      BY <1>4, <2>1
    <3>2. slots[k] = f[i]
      BY <1>6, <3>1
    <3> QED
      BY <1>1, <2>1, <3>1, <3>2
  <2>2. CASE ~(k <= Cardinality(new))
    <3>1. ~\E i \in new : SlotOf(new, i) = k
      BY <1>4, <2>2
    <3> QED
      BY <1>2, <2>2, <3>1
  <2> QED
    BY <2>1, <2>2
<1>8. slots \in [1 .. n -> Nat]
  BY <1>2, <1>7
<1> QED
  BY <1>1, <1>3, <1>4, <1>6, <1>7, <1>8 DEF new, slots, HoldDistinct

(* Entering one more operand behind the others.                            *)
LEMMA OneMoreEntered ==
  ASSUME NEW S \in SUBSET Nat, IsFiniteSet(S), NEW i \in Nat, \A j \in S : j < i,
         NEW f \in [S \union {i} -> Nat], NEW g \in [S -> Nat], \A j \in S : g[j] = f[j],
         NEW n \in Nat
  PROVE  FirstDistinct(f, n) = Entered(FirstDistinct(g, n), f[i])
<1> DEFINE old == NewIn(g)
           new == NewIn(f)
           slots == FirstDistinct(g, n)
           after == FirstDistinct(f, n)
           c == Cardinality(old)
           x == f[i]
           empty == {k \in DOMAIN slots : slots[k] = 0}
<1>1. i \notin S /\ x \in Nat
  OBVIOUS
<1>2. /\ old \in SUBSET S /\ IsFiniteSet(old) /\ c \in Nat /\ slots \in [1 .. n -> Nat]
      /\ \A k \in 1 .. n : IF k <= c
                           THEN \E j \in old : SlotOf(old, j) = k /\ slots[k] = g[j] /\ g[j] # 0
                           ELSE slots[k] = 0
      /\ \A j \in old : SlotOf(old, j) <= n => slots[SlotOf(old, j)] = g[j]
      /\ \A j \in old : SlotOf(old, j) \in 1 .. c
  <2>1. HoldDistinct(g, S, n, slots)
    BY SlotsHold
  <2> HIDE DEF slots
  <2> QED
    BY <2>1 DEF HoldDistinct
<1>3. /\ IsFiniteSet(S \union {i}) /\ S \union {i} \in SUBSET Nat
  BY FS_AddElement
<1>4. /\ new \in SUBSET (S \union {i}) /\ IsFiniteSet(new) /\ Cardinality(new) \in Nat
      /\ after \in [1 .. n -> Nat]
      /\ \A k \in 1 .. n : IF k <= Cardinality(new)
                           THEN \E j \in new : SlotOf(new, j) = k /\ after[k] = f[j] /\ f[j] # 0
                           ELSE after[k] = 0
      /\ \A j \in new : SlotOf(new, j) <= n => after[SlotOf(new, j)] = f[j]
      /\ \A j \in new : SlotOf(new, j) \in 1 .. Cardinality(new)
  <2>1. HoldDistinct(f, S \union {i}, n, after)
    BY <1>3, SlotsHold
  <2> HIDE DEF after
  <2> QED
    BY <2>1 DEF HoldDistinct
<1>5. new = IF x # 0 /\ \A j \in S : g[j] # x THEN old \union {i} ELSE old
  <2>1. \A j \in S : j \in new <=> j \in old
    BY <1>1 DEF NewIn
  <2>2. i \in new <=> (x # 0 /\ \A j \in S : g[j] # x)
    BY <1>1 DEF NewIn
  <2> HIDE DEF old, new, x
  <2>3. new \subseteq old \union {i} /\ old \subseteq new
    BY <1>2, <1>4, <2>1
  <2>4. i \notin old
    BY <1>1, <1>2
  <2>5. CASE i \in new
    BY <2>2, <2>3, <2>5
  <2>6. CASE i \notin new
    BY <2>2, <2>3, <2>6
  <2> QED
    BY <2>5, <2>6
<1>6. \A j \in old : SlotOf(new, j) = SlotOf(old, j)
  <2> SUFFICES ASSUME NEW j \in old PROVE {k \in new : k <= j} = {k \in old : k <= j}
    BY DEF SlotOf
  <2>1. ~(i <= j)
    <3>1. j \in Nat /\ j < i
      BY <1>2
    <3> QED
      BY <3>1
  <2>2. new = old \/ new = old \union {i}
    BY <1>5
  <2> HIDE DEF old, new
  <2> QED
    BY <2>1, <2>2
<1>7. \A k \in 1 .. n : k <= c => slots[k] # 0 /\ after[k] = slots[k]
  <2> SUFFICES ASSUME NEW k \in 1 .. n, k <= c PROVE slots[k] # 0 /\ after[k] = slots[k]
    OBVIOUS
  <2>1. PICK j \in old : SlotOf(old, j) = k /\ slots[k] = g[j] /\ g[j] # 0
    BY <1>2
  <2>2. j \in new /\ j \in S /\ SlotOf(new, j) = k
    <3> HIDE DEF old, new
    <3> QED
      BY <1>2, <1>5, <1>6, <2>1
  <2>3. slots[k] # 0
    BY <2>1
  <2> HIDE DEF old, new, slots, after
  <2>4. after[k] = f[j]
    <3>1. SlotOf(new, j) <= n
      BY <2>2
    <3>2. after[SlotOf(new, j)] = f[j]
      BY <1>4, <2>2, <3>1
    <3> QED
      BY <2>2, <3>2
  <2>5. f[j] = g[j]
    BY <2>2
  <2> QED
    BY <2>1, <2>3, <2>4, <2>5
<1>8. empty = {k \in 1 .. n : k > c}
  BY <1>2, <1>7
<1>9. Entered(slots, x) = IF x \in Range(slots) \/ empty = {} THEN slots
                          ELSE [slots EXCEPT ![Min(empty)] = x]
  BY DEF Entered
<1> HIDE DEF old, new, slots, after, c, x, empty
<1>10. CASE x = 0
  <2>1. x \in Range(slots) \/ empty = {}
    <3>1. CASE empty # {}
      <4>1. PICK k \in 1 .. n : slots[k] = 0
        BY <1>2, <1>8, <3>1 DEF empty
      <4> QED
        BY <1>2, <1>10, <4>1 DEF Range
    <3> QED
      BY <3>1
  <2>2. new = old
    BY <1>5, <1>10
  <2>3. \A k \in 1 .. n : after[k] = slots[k]
    BY <1>2, <1>4, <1>7, <2>2 DEF c
  <2>4. after = slots
    BY <1>2, <1>4, <2>3
  <2> QED
    BY <1>9, <2>1, <2>4 DEF after, slots, x
<1>11. CASE x # 0 /\ \E j \in S : g[j] = x
  <2>1. new = old
    BY <1>5, <1>11
  <2>2. \A k \in 1 .. n : after[k] = slots[k]
    BY <1>2, <1>4, <1>7, <2>1 DEF c
  <2>3. after = slots
    BY <1>2, <1>4, <2>2
  <2>4. PICK j \in old : g[j] = x
    <3> DEFINE same == {j \in S : g[j] = x}
    <3>1. same \in SUBSET Nat /\ same # {}
      BY <1>11
    <3>2. PICK first \in same : \A j \in same : first <= j
      <4>1. Min(same) \in same /\ \A j \in same : Min(same) <= j
        BY <3>1, MinIsMember
      <4> QED
        BY <4>1
    <3>3. first \in S /\ g[first] = x /\ \A j \in S : j < first => g[j] # x
      BY <3>1, <3>2
    <3>4. first \in old
      BY <1>11, <3>3 DEF old, NewIn
    <3> QED
      BY <3>3, <3>4
  <2>5. x \in Range(slots) \/ empty = {}
    <3>1. CASE SlotOf(old, j) <= n
      <4>1. SlotOf(old, j) \in 1 .. n /\ slots[SlotOf(old, j)] = x
        BY <1>2, <2>4, <3>1
      <4> QED
        BY <1>2, <4>1 DEF Range
    <3>2. CASE ~(SlotOf(old, j) <= n)
      <4>1. c >= n
        BY <1>2, <2>4, <3>2
      <4> QED
        BY <1>2, <1>8, <4>1
    <3> QED
      BY <3>1, <3>2
  <2> QED
    BY <1>9, <2>3, <2>5 DEF after, slots, x
<1>12. CASE x # 0 /\ \A j \in S : g[j] # x
  <2>1. new = old \union {i} /\ i \notin old /\ Cardinality(new) = c + 1
    <3>1. new = old \union {i} /\ i \notin old
      BY <1>1, <1>2, <1>5, <1>12
    <3> QED
      BY <1>2, <3>1, FS_AddElement DEF c
  <2>2. SlotOf(new, i) = c + 1
    <3>1. {j \in new : j <= i} = new
      <4>1. \A j \in new : j \in S \/ j = i
        BY <1>2, <2>1
      <4>3. \A j \in S : j \in Nat /\ j <= i
        OBVIOUS
      <4>4. i <= i
        OBVIOUS
      <4>2. \A j \in new : j <= i
        BY <4>1, <4>3, <4>4
      <4> QED
        BY <4>2
    <3> QED
      BY <2>1, <3>1 DEF SlotOf
  <2>3. x \notin Range(slots)
    <3> SUFFICES ASSUME NEW k \in 1 .. n, slots[k] = x PROVE FALSE
      BY <1>2 DEF Range
    <3>1. k <= c
      BY <1>2, <1>12
    <3>2. PICK j \in old : slots[k] = g[j]
      BY <1>2, <3>1
    <3> QED
      BY <1>2, <1>12, <3>2
  <2>4. CASE c >= n
    <3>1. empty = {}
      BY <1>2, <1>8, <2>4
    <3>2. \A k \in 1 .. n : after[k] = slots[k]
      BY <1>2, <1>7, <2>4
    <3>3. after = slots
      BY <1>2, <1>4, <3>2
    <3> QED
      BY <1>9, <3>1, <3>3 DEF after, slots, x
  <2>5. CASE c < n
    <3>1. empty # {} /\ c + 1 \in empty /\ \A k \in empty : c + 1 <= k
      <4>1. c \in Nat
        BY <1>2
      <4> QED
        BY <1>8, <2>5, <4>1
    <3>2. Min(empty) = c + 1
      <4>1. empty \in SUBSET Nat
        BY <1>8
      <4>2. Min(empty) \in empty /\ \A k \in empty : Min(empty) <= k
        BY <3>1, <4>1, MinIsMember
      <4>3. Min(empty) \in Nat /\ c \in Nat /\ Min(empty) <= c + 1 /\ c + 1 <= Min(empty)
        BY <1>2, <3>1, <4>1, <4>2
      <4> QED
        BY <4>3
    <3>3. Entered(slots, x) = [slots EXCEPT ![c + 1] = x]
      BY <1>9, <2>3, <3>1, <3>2
    <3>4. after[c + 1] = x
      <4>1. i \in new /\ c + 1 <= n
        BY <1>2, <2>1, <2>5
      <4>2. after[SlotOf(new, i)] = f[i]
        BY <1>4, <2>2, <4>1
      <4> QED
        BY <2>2, <4>2 DEF x
    <3>5. \A k \in 1 .. n : after[k] = [slots EXCEPT ![c + 1] = x][k]
      <4> TAKE k \in 1 .. n
      <4>1. CASE k <= c
        BY <1>2, <1>7, <4>1
      <4>2. CASE k = c + 1
        BY <1>2, <3>4, <4>2
      <4>3. CASE k > c + 1
        <5>1. c \in Nat /\ k \in Nat /\ ~(k <= c) /\ ~(k <= c + 1) /\ k # c + 1
          BY <1>2, <4>3
        <5>3. slots[k] = 0
          BY <1>2, <5>1
        <5>2. after[k] = 0
          BY <1>4, <2>1, <5>1
        <5> QED
          BY <1>2, <5>1, <5>2, <5>3
      <4> QED
        BY <1>2, <4>1, <4>2, <4>3
    <3>6. after = [slots EXCEPT ![c + 1] = x]
      BY <1>2, <1>4, <3>5
    <3> QED
      BY <3>3, <3>6 DEF after, slots, x
  <2> QED
    BY <1>2, <2>4, <2>5
<1> QED
  BY <1>10, <1>11, <1>12

-----------------------------------------------------------------------------
(* Instructions and knobs, as what they are made of.                       *)
LEMMA TracerNumbers ==
  /\ NumDestinations \in Nat /\ NumSources \in Nat /\ MaxInstructions \in Nat /\ MaxRecords \in Nat
  /\ RegSize \in Nat \ {0}
  /\ \A k \in Knobs : k.skip \in Nat /\ k.trace \in Nat
  /\ \A ins \in Program :
       /\ ins.ip \in Nat /\ ins.isBranch \in BOOLEAN /\ ins.taken \in BOOLEAN
       /\ ins.reads \in Seq(Nat) /\ ins.writes \in Seq(Nat)
       /\ ins.memory \in Seq([address : Nat, read : BOOLEAN, written : BOOLEAN])
BY TracerAssumption

(* The places of operands.                                                 *)
LEMMA OperandPlaces ==
  ASSUME NEW ins \in Program
  PROVE  /\ DOMAIN ins.reads \in SUBSET Nat /\ IsFiniteSet(DOMAIN ins.reads)
         /\ DOMAIN ins.writes \in SUBSET Nat /\ IsFiniteSet(DOMAIN ins.writes)
         /\ DOMAIN ins.memory \in SUBSET Nat /\ IsFiniteSet(DOMAIN ins.memory)
         /\ \A i \in DOMAIN ins.reads : ins.reads[i] % RegSize \in Nat
         /\ \A i \in DOMAIN ins.writes : ins.writes[i] % RegSize \in Nat
         /\ \A i \in DOMAIN ins.memory :
              /\ ins.memory[i].address \in Nat
              /\ ins.memory[i].read \in BOOLEAN /\ ins.memory[i].written \in BOOLEAN
<1>1. ASSUME NEW S, NEW s \in Seq(S)
      PROVE  /\ DOMAIN s \in SUBSET Nat /\ IsFiniteSet(DOMAIN s)
             /\ \A i \in DOMAIN s : s[i] \in S
  <2>1. Len(s) \in Nat /\ DOMAIN s = 1 .. Len(s)
    BY LenProperties
  <2>2. \A i \in 1 .. Len(s) : s[i] \in S
    BY ElementOfSeq
  <2>3. IsFiniteSet(1 .. Len(s)) /\ 1 .. Len(s) \subseteq Nat
    BY <2>1, FS_Interval
  <2> QED
    BY <2>1, <2>2, <2>3
<1>2. /\ ins.reads \in Seq(Nat) /\ ins.writes \in Seq(Nat)
      /\ ins.memory \in Seq([address : Nat, read : BOOLEAN, written : BOOLEAN])
  BY TracerNumbers
<1>3. \A n \in Nat : n % RegSize \in Nat
  BY TracerNumbers
<1>4. \A m \in [address : Nat, read : BOOLEAN, written : BOOLEAN] :
        m.address \in Nat /\ m.read \in BOOLEAN /\ m.written \in BOOLEAN
  OBVIOUS
<1> QED
  BY <1>1, <1>2, <1>3, <1>4

(* No two kinds of places are one, and operands are in their order.        *)
LEMMA PlacesDiffer ==
  ASSUME NEW i \in Nat, NEW j \in Nat
  PROVE  /\ Earlier(AtRead(i), AtRead(j)) <=> i < j
         /\ Earlier(AtWrite(i), AtWrite(j)) <=> i < j
         /\ Earlier(AtMemoryRead(i), AtMemoryRead(j)) <=> i < j
         /\ Earlier(AtMemoryWrite(i), AtMemoryWrite(j)) <=> i < j
         /\ AtRead(i) = AtRead(j) <=> i = j
         /\ AtWrite(i) = AtWrite(j) <=> i = j
         /\ AtMemoryRead(i) = AtMemoryRead(j) <=> i = j
         /\ AtMemoryWrite(i) = AtMemoryWrite(j) <=> i = j
         /\ AtMemoryRead(i) # AtMemoryWrite(j) /\ AtRead(i) # AtWrite(j)
         /\ AtRead(i) \notin {AtBranch, AtEnd, AtMemoryRead(j), AtMemoryWrite(j)}
         /\ AtWrite(i) \notin {AtBranch, AtEnd, AtMemoryRead(j), AtMemoryWrite(j)}
         /\ AtMemoryRead(i) \notin {AtBranch, AtEnd} /\ AtMemoryWrite(i) \notin {AtBranch, AtEnd}
         /\ AtBranch # AtEnd
BY DEF AtBranch, AtRead, AtWrite, AtMemoryRead, AtMemoryWrite, AtEnd, Earlier

(* Where routines are inserted for an instruction.                         *)
LEMMA PlacesOf ==
  ASSUME NEW ins \in Program
  PROVE  /\ AtEnd \in Sites(ins) /\ (AtBranch \in Sites(ins) <=> ins.isBranch)
         /\ \A i \in Nat : AtRead(i) \in Sites(ins) <=> i \in DOMAIN ins.reads
         /\ \A i \in Nat : AtWrite(i) \in Sites(ins) <=> i \in DOMAIN ins.writes
         /\ \A i \in Nat : AtMemoryRead(i) \in Sites(ins)
              <=> i \in DOMAIN ins.memory /\ ins.memory[i].read
         /\ \A i \in Nat : AtMemoryWrite(i) \in Sites(ins)
              <=> i \in DOMAIN ins.memory /\ ins.memory[i].written
         /\ \A p \in Sites(ins) : p = AtEnd \/ ~Earlier(AtEnd, p)
         /\ \A p \in Sites(ins) : p \in Nat \X Int
<1>1. \A p : p \in Sites(ins) <=>
        \/ p = AtBranch /\ ins.isBranch
        \/ \E i \in DOMAIN ins.reads : p = AtRead(i)
        \/ \E i \in DOMAIN ins.writes : p = AtWrite(i)
        \/ \E i \in DOMAIN ins.memory : ins.memory[i].read /\ p = AtMemoryRead(i)
        \/ \E i \in DOMAIN ins.memory : ins.memory[i].written /\ p = AtMemoryWrite(i)
        \/ p = AtEnd
  BY DEF Sites
<1>2. /\ DOMAIN ins.reads \in SUBSET Nat /\ DOMAIN ins.writes \in SUBSET Nat
      /\ DOMAIN ins.memory \in SUBSET Nat
  BY OperandPlaces
<1>3. \A i, j \in Nat :
        /\ AtRead(i) = AtRead(j) => i = j
        /\ AtWrite(i) = AtWrite(j) => i = j
        /\ AtMemoryRead(i) = AtMemoryRead(j) => i = j
        /\ AtMemoryWrite(i) = AtMemoryWrite(j) => i = j
        /\ AtMemoryRead(i) # AtMemoryWrite(j)
        /\ AtRead(i) # AtWrite(j)
        /\ AtRead(i) \notin {AtBranch, AtEnd, AtMemoryRead(j), AtMemoryWrite(j)}
        /\ AtWrite(i) \notin {AtBranch, AtEnd, AtMemoryRead(j), AtMemoryWrite(j)}
        /\ AtMemoryRead(i) \notin {AtBranch, AtEnd} /\ AtMemoryWrite(i) \notin {AtBranch, AtEnd}
  BY PlacesDiffer
<1>4. AtBranch # AtEnd
  BY DEF AtBranch, AtEnd
<1>5. \A i \in Nat :
        /\ \A p \in {AtBranch, AtRead(i), AtWrite(i), AtMemoryRead(i), AtMemoryWrite(i)} :
             ~Earlier(AtEnd, p) /\ p \in Nat \X Int
  BY DEF AtBranch, AtRead, AtWrite, AtMemoryRead, AtMemoryWrite, AtEnd, Earlier
<1>6. AtEnd \in Nat \X Int
  BY DEF AtEnd
<1> HIDE DEF AtBranch, AtRead, AtWrite, AtMemoryRead, AtMemoryWrite, AtEnd
<1>7. /\ AtEnd \in Sites(ins) /\ (AtBranch \in Sites(ins) <=> ins.isBranch)
  BY <1>1, <1>2, <1>3, <1>4
<1>8. \A i \in Nat : AtRead(i) \in Sites(ins) <=> i \in DOMAIN ins.reads
  BY <1>1, <1>2, <1>3
<1>9. \A i \in Nat : AtWrite(i) \in Sites(ins) <=> i \in DOMAIN ins.writes
  BY <1>1, <1>2, <1>3
<1>10. \A i \in Nat : AtMemoryRead(i) \in Sites(ins)
         <=> i \in DOMAIN ins.memory /\ ins.memory[i].read
  BY <1>1, <1>2, <1>3
<1>11. \A i \in Nat : AtMemoryWrite(i) \in Sites(ins)
         <=> i \in DOMAIN ins.memory /\ ins.memory[i].written
  BY <1>1, <1>2, <1>3
<1>12. \A p \in Sites(ins) : (p = AtEnd \/ ~Earlier(AtEnd, p)) /\ p \in Nat \X Int
  <2>1. 0 \in Nat
    OBVIOUS
  <2> QED
    BY <1>1, <1>2, <1>5, <1>6, <2>1
<1> QED
  BY <1>7, <1>8, <1>9, <1>10, <1>11, <1>12

(* The order of the places is strict.                                      *)
LEMMA EarlierIsStrict ==
  ASSUME NEW p \in Nat \X Int, NEW q \in Nat \X Int
  PROVE  ~(Earlier(p, q) /\ Earlier(q, p)) /\ ~Earlier(p, p)
BY DEF Earlier

(* What is still to be called are the places from one on.                  *)
LastPlaces(ins, left) ==
  /\ left \subseteq Sites(ins) /\ AtEnd \in left
  /\ \A p \in left, q \in Sites(ins) : Earlier(p, q) => q \in left

FirstOf(place, left) == place \in left /\ \A p \in left : p = place \/ Earlier(place, p)

(* After the first place those behind it are left.                         *)
LEMMA CallsFromOneOn ==
  ASSUME NEW ins \in Program, NEW left, LastPlaces(ins, left), NEW place, FirstOf(place, left)
  PROVE  /\ place = AtEnd => left \ {place} = {}
         /\ place # AtEnd => LastPlaces(ins, left \ {place})
<1>1. place = AtEnd => left \ {place} = {}
  BY PlacesOf DEF LastPlaces, FirstOf
<1>2. ASSUME place # AtEnd PROVE LastPlaces(ins, left \ {place})
  <2>1. left \ {place} \subseteq Sites(ins) /\ AtEnd \in left \ {place}
    BY <1>2 DEF LastPlaces
  <2>2. ASSUME NEW p \in left \ {place}, NEW q \in Sites(ins), Earlier(p, q)
        PROVE  q \in left \ {place}
    <3>1. q \in left
      BY <2>2 DEF LastPlaces
    <3>2. Earlier(place, p)
      BY DEF FirstOf
    <3>3. p \in Nat \X Int /\ q \in Nat \X Int
      BY PlacesOf DEF LastPlaces
    <3>4. q # place
      BY <2>2, <3>2, <3>3, EarlierIsStrict
    <3> QED
      BY <3>1, <3>4
  <2> QED
    BY <2>1, <2>2 DEF LastPlaces
<1> QED
  BY <1>1, <1>2

(* The operands whose routines have been called, and what they have made   *)
(* of the record.                                                          *)
ReadsDone(ins, left) == {i \in DOMAIN ins.reads : AtRead(i) \notin left}
WritesDone(ins, left) == {i \in DOMAIN ins.writes : AtWrite(i) \notin left}
MemoryReadsDone(ins, left) ==
  {i \in DOMAIN ins.memory : ins.memory[i].read /\ AtMemoryRead(i) \notin left}
MemoryWritesDone(ins, left) ==
  {i \in DOMAIN ins.memory : ins.memory[i].written /\ AtMemoryWrite(i) \notin left}

Bytes(s, done) == [i \in done |-> s[i] % RegSize]
AddressesOf(s, done) == [i \in done |-> s[i].address]

SoFar(ins, left) ==
  [ip |-> ins.ip, isBranch |-> ins.isBranch /\ AtBranch \notin left,
   branchTaken |-> ins.isBranch /\ AtBranch \notin left /\ ins.taken,
   destinationRegisters |-> FirstDistinct(Bytes(ins.writes, WritesDone(ins, left)), NumDestinations),
   sourceRegisters |-> FirstDistinct(Bytes(ins.reads, ReadsDone(ins, left)), NumSources),
   destinationMemory |->
     FirstDistinct(AddressesOf(ins.memory, MemoryWritesDone(ins, left)), NumDestinations),
   sourceMemory |-> FirstDistinct(AddressesOf(ins.memory, MemoryReadsDone(ins, left)), NumSources)]

(* Without operands the slots stay empty.                                  *)
LEMMA NothingEntered ==
  ASSUME NEW f, DOMAIN f = {}, NEW n
  PROVE  FirstDistinct(f, n) = NoOperands(n)
BY DEF FirstDistinct, NoOperands

(* Before the first routine the record is reset.                           *)
LEMMA SoFarAtFirst ==
  ASSUME NEW ins \in Program
  PROVE  SoFar(ins, Sites(ins)) = Reset(ins.ip)
<1>1. /\ ReadsDone(ins, Sites(ins)) = {} /\ WritesDone(ins, Sites(ins)) = {}
      /\ MemoryReadsDone(ins, Sites(ins)) = {} /\ MemoryWritesDone(ins, Sites(ins)) = {}
  BY PlacesOf, OperandPlaces DEF ReadsDone, WritesDone, MemoryReadsDone, MemoryWritesDone
<1>2. \A s, n : /\ FirstDistinct(Bytes(s, {}), n) = NoOperands(n)
                /\ FirstDistinct(AddressesOf(s, {}), n) = NoOperands(n)
  <2> TAKE s, n
  <2>1. DOMAIN Bytes(s, {}) = {} /\ DOMAIN AddressesOf(s, {}) = {}
    BY DEF Bytes, AddressesOf
  <2> QED
    BY <2>1, NothingEntered
<1>3. /\ (ins.isBranch /\ AtBranch \notin Sites(ins)) = FALSE
      /\ (ins.isBranch /\ AtBranch \notin Sites(ins) /\ ins.taken) = FALSE
  BY PlacesOf
<1> QED
  BY <1>1, <1>2, <1>3 DEF SoFar, Reset

(* Before EndInstruction it is the one the trace should have.              *)
LEMMA SoFarAtLast ==
  ASSUME NEW ins \in Program
  PROVE  SoFar(ins, {AtEnd}) = RecordOf(ins)
<1>1. /\ \A i \in DOMAIN ins.reads : AtRead(i) # AtEnd
      /\ \A i \in DOMAIN ins.writes : AtWrite(i) # AtEnd
      /\ \A i \in DOMAIN ins.memory : AtMemoryRead(i) # AtEnd /\ AtMemoryWrite(i) # AtEnd
      /\ AtBranch # AtEnd
  BY PlacesDiffer, OperandPlaces
<1>2. /\ ReadsDone(ins, {AtEnd}) = DOMAIN ins.reads /\ WritesDone(ins, {AtEnd}) = DOMAIN ins.writes
      /\ MemoryReadsDone(ins, {AtEnd}) = {i \in DOMAIN ins.memory : ins.memory[i].read}
      /\ MemoryWritesDone(ins, {AtEnd}) = {i \in DOMAIN ins.memory : ins.memory[i].written}
  BY <1>1 DEF ReadsDone, WritesDone, MemoryReadsDone, MemoryWritesDone
<1>3. /\ (ins.isBranch /\ AtBranch \notin {AtEnd}) = ins.isBranch
      /\ (ins.isBranch /\ AtBranch \notin {AtEnd} /\ ins.taken) = (ins.isBranch /\ ins.taken)
  BY <1>1, TracerNumbers
<1> QED
  BY <1>2, <1>3 DEF SoFar, RecordOf, Bytes, AddressesOf

(* Each routine enters its operand behind those before.                    *)
LEMMA ReadEnters ==
  ASSUME NEW ins \in Program, NEW left, LastPlaces(ins, left), NEW i \in DOMAIN ins.reads,
         FirstOf(AtRead(i), left)
  PROVE  SoFar(ins, left \ {AtRead(i)}) =
           [SoFar(ins, left) EXCEPT !.sourceRegisters = Entered(@, ins.reads[i] % RegSize)]
<1> DEFINE after == left \ {AtRead(i)}
           S == ReadsDone(ins, left)
<1>1. DOMAIN ins.reads \in SUBSET Nat /\ DOMAIN ins.writes \in SUBSET Nat
      /\ DOMAIN ins.memory \in SUBSET Nat
  BY OperandPlaces
<1>2. S \in SUBSET Nat /\ IsFiniteSet(S)
  BY <1>1, OperandPlaces, FS_Subset DEF ReadsDone
<1>3. \A j \in S : j < i
  <2> SUFFICES ASSUME NEW j \in DOMAIN ins.reads, AtRead(j) \notin left PROVE j < i
    BY DEF ReadsDone
  <2>1. AtRead(j) \in Sites(ins) /\ AtRead(i) \in left
    BY <1>1, PlacesOf DEF FirstOf
  <2>2. ~Earlier(AtRead(i), AtRead(j)) /\ AtRead(i) # AtRead(j)
    BY <2>1 DEF LastPlaces
  <2> QED
    BY <1>1, <2>2, PlacesDiffer
<1>4. ReadsDone(ins, after) = S \union {i}
  BY <1>1, PlacesDiffer DEF ReadsDone
<1>5. /\ WritesDone(ins, after) = WritesDone(ins, left)
      /\ MemoryReadsDone(ins, after) = MemoryReadsDone(ins, left)
      /\ MemoryWritesDone(ins, after) = MemoryWritesDone(ins, left)
      /\ (AtBranch \notin after) = (AtBranch \notin left)
  BY <1>1, PlacesDiffer DEF WritesDone, MemoryReadsDone, MemoryWritesDone
<1>6. FirstDistinct(Bytes(ins.reads, S \union {i}), NumSources)
        = Entered(FirstDistinct(Bytes(ins.reads, S), NumSources), ins.reads[i] % RegSize)
  <2> DEFINE f == Bytes(ins.reads, S \union {i})
             g == Bytes(ins.reads, S)
  <2>1. f \in [S \union {i} -> Nat] /\ g \in [S -> Nat] /\ i \in Nat
    BY <1>1, OperandPlaces DEF Bytes, ReadsDone
  <2>2. (\A j \in S : g[j] = f[j]) /\ f[i] = ins.reads[i] % RegSize
    BY DEF Bytes
  <2> HIDE DEF f, g, S
  <2>3. FirstDistinct(f, NumSources) = Entered(FirstDistinct(g, NumSources), f[i])
    <3>1. NumSources \in Nat
      BY TracerNumbers
    <3> QED
      BY <1>2, <1>3, <2>1, <2>2, <3>1, OneMoreEntered
  <2> QED
    BY <2>2, <2>3 DEF f, g
<1> HIDE DEF after, S
<1> QED
  BY <1>4, <1>5, <1>6 DEF SoFar, after, S

(* The same for a register that is written,                                *)
LEMMA WriteEnters ==
  ASSUME NEW ins \in Program, NEW left, LastPlaces(ins, left), NEW i \in DOMAIN ins.writes,
         FirstOf(AtWrite(i), left)
  PROVE  SoFar(ins, left \ {AtWrite(i)}) =
           [SoFar(ins, left) EXCEPT !.destinationRegisters = Entered(@, ins.writes[i] % RegSize)]
<1> DEFINE after == left \ {AtWrite(i)}
           S == WritesDone(ins, left)
<1>1. DOMAIN ins.writes \in SUBSET Nat /\ DOMAIN ins.reads \in SUBSET Nat
      /\ DOMAIN ins.memory \in SUBSET Nat
  BY OperandPlaces
<1>2. S \in SUBSET Nat /\ IsFiniteSet(S)
  BY <1>1, OperandPlaces, FS_Subset DEF WritesDone
<1>3. \A j \in S : j < i
  <2> SUFFICES ASSUME NEW j \in DOMAIN ins.writes, AtWrite(j) \notin left PROVE j < i
    BY DEF WritesDone
  <2>1. AtWrite(j) \in Sites(ins) /\ AtWrite(i) \in left
    BY <1>1, PlacesOf DEF FirstOf
  <2>2. ~Earlier(AtWrite(i), AtWrite(j)) /\ AtWrite(i) # AtWrite(j)
    BY <2>1 DEF LastPlaces
  <2> QED
    BY <1>1, <2>2, PlacesDiffer
<1>4. WritesDone(ins, after) = S \union {i}
  BY <1>1, PlacesDiffer DEF WritesDone
<1>5. /\ ReadsDone(ins, after) = ReadsDone(ins, left)
      /\ MemoryReadsDone(ins, after) = MemoryReadsDone(ins, left)
      /\ MemoryWritesDone(ins, after) = MemoryWritesDone(ins, left)
      /\ (AtBranch \notin after) = (AtBranch \notin left)
  BY <1>1, PlacesDiffer DEF ReadsDone, MemoryReadsDone, MemoryWritesDone
<1>6. FirstDistinct(Bytes(ins.writes, S \union {i}), NumDestinations)
        = Entered(FirstDistinct(Bytes(ins.writes, S), NumDestinations), ins.writes[i] % RegSize)
  <2> DEFINE f == Bytes(ins.writes, S \union {i})
             g == Bytes(ins.writes, S)
  <2>1. f \in [S \union {i} -> Nat] /\ g \in [S -> Nat] /\ i \in Nat
    BY <1>1, OperandPlaces DEF Bytes, WritesDone
  <2>2. (\A j \in S : g[j] = f[j]) /\ f[i] = ins.writes[i] % RegSize
    BY DEF Bytes
  <2> HIDE DEF f, g, S
  <2>3. FirstDistinct(f, NumDestinations) = Entered(FirstDistinct(g, NumDestinations), f[i])
    <3>1. NumDestinations \in Nat
      BY TracerNumbers
    <3> QED
      BY <1>2, <1>3, <2>1, <2>2, <3>1, OneMoreEntered
  <2> QED
    BY <2>2, <2>3 DEF f, g
<1> HIDE DEF after, S
<1> QED
  BY <1>4, <1>5, <1>6 DEF SoFar, after, S

(* for an operand in memory that is read,                                  *)
LEMMA MemoryReadEnters ==
  ASSUME NEW ins \in Program, NEW left, LastPlaces(ins, left), NEW i \in DOMAIN ins.memory,
         FirstOf(AtMemoryRead(i), left)
  PROVE  SoFar(ins, left \ {AtMemoryRead(i)}) =
           [SoFar(ins, left) EXCEPT !.sourceMemory = Entered(@, ins.memory[i].address)]
<1> DEFINE after == left \ {AtMemoryRead(i)}
           S == MemoryReadsDone(ins, left)
<1>1. DOMAIN ins.reads \in SUBSET Nat /\ DOMAIN ins.writes \in SUBSET Nat
      /\ DOMAIN ins.memory \in SUBSET Nat
  BY OperandPlaces
<1>2. S \in SUBSET Nat /\ IsFiniteSet(S) /\ S \subseteq DOMAIN ins.memory
  BY <1>1, OperandPlaces, FS_Subset DEF MemoryReadsDone
<1>7. ins.memory[i].read
  BY <1>1, PlacesOf DEF LastPlaces, FirstOf
<1>3. \A j \in S : j < i
  <2> SUFFICES ASSUME NEW j \in DOMAIN ins.memory, ins.memory[j].read, AtMemoryRead(j) \notin left
               PROVE  j < i
    BY DEF MemoryReadsDone
  <2>1. AtMemoryRead(j) \in Sites(ins) /\ AtMemoryRead(i) \in left
    BY <1>1, PlacesOf DEF FirstOf
  <2>2. ~Earlier(AtMemoryRead(i), AtMemoryRead(j)) /\ AtMemoryRead(i) # AtMemoryRead(j)
    BY <2>1 DEF LastPlaces
  <2> QED
    BY <1>1, <2>2, PlacesDiffer
<1>4. MemoryReadsDone(ins, after) = S \union {i}
  BY <1>1, <1>7, PlacesDiffer DEF MemoryReadsDone
<1>5. /\ ReadsDone(ins, after) = ReadsDone(ins, left)
      /\ WritesDone(ins, after) = WritesDone(ins, left)
      /\ MemoryWritesDone(ins, after) = MemoryWritesDone(ins, left)
      /\ (AtBranch \notin after) = (AtBranch \notin left)
  BY <1>1, PlacesDiffer DEF ReadsDone, WritesDone, MemoryWritesDone
<1>6. FirstDistinct(AddressesOf(ins.memory, S \union {i}), NumSources)
        = Entered(FirstDistinct(AddressesOf(ins.memory, S), NumSources), ins.memory[i].address)
  <2> DEFINE f == AddressesOf(ins.memory, S \union {i})
             g == AddressesOf(ins.memory, S)
  <2>1. f \in [S \union {i} -> Nat] /\ g \in [S -> Nat] /\ i \in Nat
    BY <1>1, <1>2, OperandPlaces DEF AddressesOf
  <2>2. (\A j \in S : g[j] = f[j]) /\ f[i] = ins.memory[i].address
    BY DEF AddressesOf
  <2> HIDE DEF f, g, S
  <2>3. FirstDistinct(f, NumSources) = Entered(FirstDistinct(g, NumSources), f[i])
    BY <1>2, <1>3, <2>1, <2>2, OneMoreEntered, TracerNumbers
  <2> QED
    BY <2>2, <2>3 DEF f, g
<1> HIDE DEF after, S
<1> QED
  BY <1>4, <1>5, <1>6 DEF SoFar, after, S

(* and for one that is written.                                            *)
LEMMA MemoryWriteEnters ==
  ASSUME NEW ins \in Program, NEW left, LastPlaces(ins, left), NEW i \in DOMAIN ins.memory,
         FirstOf(AtMemoryWrite(i), left)
  PROVE  SoFar(ins, left \ {AtMemoryWrite(i)}) =
           [SoFar(ins, left) EXCEPT !.destinationMemory = Entered(@, ins.memory[i].address)]
<1> DEFINE after == left \ {AtMemoryWrite(i)}
           S == MemoryWritesDone(ins, left)
<1>1. DOMAIN ins.reads \in SUBSET Nat /\ DOMAIN ins.writes \in SUBSET Nat
      /\ DOMAIN ins.memory \in SUBSET Nat
  BY OperandPlaces
<1>2. S \in SUBSET Nat /\ IsFiniteSet(S) /\ S \subseteq DOMAIN ins.memory
  BY <1>1, OperandPlaces, FS_Subset DEF MemoryWritesDone
<1>7. ins.memory[i].written
  BY <1>1, PlacesOf DEF LastPlaces, FirstOf
<1>3. \A j \in S : j < i
  <2> SUFFICES ASSUME NEW j \in DOMAIN ins.memory, ins.memory[j].written, AtMemoryWrite(j) \notin left
               PROVE  j < i
    BY DEF MemoryWritesDone
  <2>1. AtMemoryWrite(j) \in Sites(ins) /\ AtMemoryWrite(i) \in left
    BY <1>1, PlacesOf DEF FirstOf
  <2>2. ~Earlier(AtMemoryWrite(i), AtMemoryWrite(j)) /\ AtMemoryWrite(i) # AtMemoryWrite(j)
    BY <2>1 DEF LastPlaces
  <2> QED
    BY <1>1, <2>2, PlacesDiffer
<1>4. MemoryWritesDone(ins, after) = S \union {i}
  BY <1>1, <1>7, PlacesDiffer DEF MemoryWritesDone
<1>5. /\ ReadsDone(ins, after) = ReadsDone(ins, left)
      /\ WritesDone(ins, after) = WritesDone(ins, left)
      /\ MemoryReadsDone(ins, after) = MemoryReadsDone(ins, left)
      /\ (AtBranch \notin after) = (AtBranch \notin left)
  BY <1>1, PlacesDiffer DEF ReadsDone, WritesDone, MemoryReadsDone
<1>6. FirstDistinct(AddressesOf(ins.memory, S \union {i}), NumDestinations)
        = Entered(FirstDistinct(AddressesOf(ins.memory, S), NumDestinations), ins.memory[i].address)
  <2> DEFINE f == AddressesOf(ins.memory, S \union {i})
             g == AddressesOf(ins.memory, S)
  <2>1. f \in [S \union {i} -> Nat] /\ g \in [S -> Nat] /\ i \in Nat
    BY <1>1, <1>2, OperandPlaces DEF AddressesOf
  <2>2. (\A j \in S : g[j] = f[j]) /\ f[i] = ins.memory[i].address
    BY DEF AddressesOf
  <2> HIDE DEF f, g, S
  <2>3. FirstDistinct(f, NumDestinations) = Entered(FirstDistinct(g, NumDestinations), f[i])
    <3>1. NumDestinations \in Nat
      BY TracerNumbers
    <3> QED
      BY <1>2, <1>3, <2>1, <2>2, <3>1, OneMoreEntered
  <2> QED
    BY <2>2, <2>3 DEF f, g
<1> HIDE DEF after, S
<1> QED
  BY <1>4, <1>5, <1>6 DEF SoFar, after, S

(* BranchOrNot tells the rest of the record.                               *)
LEMMA BranchEnters ==
  ASSUME NEW ins \in Program, NEW left, LastPlaces(ins, left), FirstOf(AtBranch, left)
  PROVE  SoFar(ins, left \ {AtBranch}) =
           [SoFar(ins, left) EXCEPT !.isBranch = TRUE, !.branchTaken = @ \/ ins.taken]
<1> DEFINE after == left \ {AtBranch}
<1>1. DOMAIN ins.reads \in SUBSET Nat /\ DOMAIN ins.writes \in SUBSET Nat
      /\ DOMAIN ins.memory \in SUBSET Nat
  BY OperandPlaces
<1>2. /\ ReadsDone(ins, after) = ReadsDone(ins, left)
      /\ WritesDone(ins, after) = WritesDone(ins, left)
      /\ MemoryReadsDone(ins, after) = MemoryReadsDone(ins, left)
      /\ MemoryWritesDone(ins, after) = MemoryWritesDone(ins, left)
  BY <1>1, PlacesDiffer DEF ReadsDone, WritesDone, MemoryReadsDone, MemoryWritesDone
<1>3. AtBranch \in left /\ AtBranch \notin after /\ ins.isBranch /\ ins.taken \in BOOLEAN
  BY PlacesOf, TracerNumbers DEF LastPlaces, FirstOf
<1>4. /\ (ins.isBranch /\ AtBranch \notin after) = TRUE
      /\ (ins.isBranch /\ AtBranch \notin left /\ ins.taken) = FALSE
      /\ (ins.isBranch /\ AtBranch \notin after /\ ins.taken) = (FALSE \/ ins.taken)
  BY <1>3
<1> HIDE DEF after
<1> DEFINE d == FirstDistinct(Bytes(ins.writes, WritesDone(ins, left)), NumDestinations)
           r == FirstDistinct(Bytes(ins.reads, ReadsDone(ins, left)), NumSources)
           w == FirstDistinct(AddressesOf(ins.memory, MemoryWritesDone(ins, left)),
                              NumDestinations)
           m == FirstDistinct(AddressesOf(ins.memory, MemoryReadsDone(ins, left)), NumSources)
           told(b, t) == [ip |-> ins.ip, isBranch |-> b, branchTaken |-> t,
                          destinationRegisters |-> d, sourceRegisters |-> r,
                          destinationMemory |-> w, sourceMemory |-> m]
<1>5. \E b : SoFar(ins, left) = told(b, FALSE)
  BY <1>4 DEF SoFar
<1>6. SoFar(ins, after) = told(TRUE, FALSE \/ ins.taken)
  BY <1>2, <1>4 DEF SoFar
<1> HIDE DEF d, r, w, m
<1>8. \A b, f : told(b, f).branchTaken = f
  OBVIOUS
<1> HIDE DEF told
<1>9. \A record, x, t : [record EXCEPT !.isBranch = x, !.branchTaken = t]
                          = [[record EXCEPT !.isBranch = x] EXCEPT !.branchTaken = t]
  OBVIOUS
<1>10. PICK b : SoFar(ins, left) = told(b, FALSE)
  BY <1>5
<1> DEFINE old == SoFar(ins, left)
           taken == old.branchTaken \/ ins.taken
<1>11. taken = (FALSE \/ ins.taken)
  BY <1>8, <1>10
<1> HIDE DEF taken
<1> HIDE DEF old
<1>12. \A yes, no : old = told(b, no) =>
         [[old EXCEPT !.isBranch = yes] EXCEPT !.branchTaken = taken] = told(yes, taken)
  <2> SUFFICES ASSUME NEW yes, NEW no, old = told(b, no)
               PROVE  [[old EXCEPT !.isBranch = yes] EXCEPT !.branchTaken = taken]
                        = told(yes, taken)
    OBVIOUS
  <2>1. [told(b, no) EXCEPT !.isBranch = yes] = told(yes, no)
    BY DEF told
  <2>2. [told(yes, no) EXCEPT !.branchTaken = taken] = told(yes, taken)
    BY DEF told
  <2> HIDE DEF told
  <2> QED
    BY <2>1, <2>2
<1>13. SoFar(ins, after) = [old EXCEPT !.isBranch = TRUE, !.branchTaken = taken]
  BY <1>6, <1>9, <1>10, <1>11, <1>12 DEF old
<1> QED
  BY <1>13 DEF after, taken, old

(***************************************************************************)
(* The inductive invariant of the tracer: while routines are still to be   *)
(* called, the global record is what the routines called so far have made  *)
(* of it, and whether it is traced is what the window says; the file holds *)
(* what it held before and the records of the window's instructions that   *)
(* have finished.                                                          *)
(***************************************************************************)
AllRecords == {RecordOf(ins) : ins \in Program}

(* The records that finishing n instructions has written.                  *)
Written(k, n) ==
  IF n <= k.skip THEN 0 ELSE IF n <= k.trace + k.skip THEN n - k.skip ELSE k.trace

Finished == IF toCall = {} THEN Len(ran) ELSE Len(ran) - 1

Holds(file, old, history, k, n) ==
  /\ old \in Seq(AllRecords) /\ Len(old) <= MaxRecords
  /\ file \in Seq(AllRecords) /\ Len(file) = Len(old) + Written(k, n)
  /\ \A j \in 1 .. Len(old) : file[j] = old[j]
  /\ \A j \in 1 .. Written(k, n) : file[Len(old) + j] = RecordOf(history[k.skip + j])

FileHolds == Holds(out, before, ran, knobs, Finished)

TracerRuns ==
  /\ knobs \in Knobs
  /\ ran \in Seq(Program) /\ instrCount = Len(ran) /\ Len(ran) <= MaxInstructions
  /\ tracingOn \in BOOLEAN /\ fileClosed \in BOOLEAN /\ exited \in BOOLEAN
  /\ DOMAIN currInstr = DOMAIN Reset(0)
  /\ instrCount <= knobs.skip => ~tracingOn
  /\ exited => fileClosed

RecordFilled ==
  toCall # {} =>
    /\ ran # <<>> /\ ~exited /\ LastPlaces(Running, toCall)
    /\ tracingOn <=> (knobs.skip < instrCount /\ instrCount <= LastTraced)
    /\ tracingOn => currInstr = SoFar(Running, toCall)

TracerIInv == TracerRuns /\ RecordFilled /\ FileHolds

(* A fresh execution has written nothing.                                  *)
LEMMA TracerInitially == TracerInit => TracerIInv
<1> SUFFICES ASSUME TracerInit PROVE TracerIInv
  OBVIOUS
<1>1. knobs.skip \in Nat /\ MaxInstructions \in Nat /\ MaxRecords \in Nat
  BY TracerNumbers DEF TracerInit
<1>2. /\ ran = <<>> /\ out = <<>> /\ before = <<>> /\ Len(<<>>) = 0
      /\ <<>> \in Seq(Program) /\ <<>> \in Seq(AllRecords)
  BY EmptySeq DEF TracerInit
<1>3. TracerRuns
  <2>1. instrCount = Len(ran) /\ Len(ran) <= MaxInstructions
    BY <1>1, <1>2 DEF TracerInit
  <2> QED
    BY <1>2, <2>1, Zenon DEF TracerInit, TracerRuns
<1>4. RecordFilled
  BY DEF TracerInit, RecordFilled
<1>5. Finished = 0 /\ Written(knobs, 0) = 0
  BY <1>1, <1>2 DEF TracerInit, Finished, Written
<1>6. FileHolds
  BY <1>1, <1>2, <1>5 DEF FileHolds, Holds
<1> QED
  BY <1>3, <1>4, <1>6 DEF TracerIInv

(* The instruction that is running.                                        *)
LEMMA RunningIs ==
  ASSUME TracerIInv, toCall # {}
  PROVE  /\ Running \in Program /\ Running = ran[Len(ran)] /\ Len(ran) \in Nat \ {0}
         /\ LastPlaces(Running, toCall)
<1>1. ran \in Seq(Program) /\ ran # <<>> /\ LastPlaces(Running, toCall)
  BY DEF TracerIInv, TracerRuns, RecordFilled
<1>2. Len(ran) \in Nat \ {0} /\ ran[Len(ran)] \in Program
  BY <1>1, EmptySeq, LenProperties, ElementOfSeq
<1>3. Running = ran[Len(ran)]
  BY DEF Running, Last
<1> QED
  BY <1>1, <1>2, <1>3

(* main opens the file and starts over.                                    *)
LEMMA MainStarts ==
  ASSUME TracerIInv, NEW k \in Knobs, NEW records \in {<<>>, out}, Main(k, records)
  PROVE  TracerIInv'
<1>1. k.skip \in Nat /\ MaxInstructions \in Nat /\ MaxRecords \in Nat
  BY TracerNumbers
<1>2. records \in Seq(AllRecords) /\ <<>> \in Seq(Program) /\ Len(<<>>) = 0
  BY EmptySeq DEF TracerIInv, FileHolds, Holds
<1>3. /\ knobs' = k /\ instrCount' = 0 /\ tracingOn' = FALSE /\ currInstr' = Reset(0)
      /\ out' = records /\ fileClosed' = FALSE /\ toCall' = {} /\ exited' = FALSE
      /\ before' = records /\ ran' = <<>> /\ Len(records) <= MaxRecords
  BY DEF Main
<1>4. TracerRuns'
  <2>1. instrCount' = Len(ran') /\ Len(ran') <= MaxInstructions
    BY <1>1, <1>2, <1>3
  <2>2. ran' \in Seq(Program) /\ knobs' \in Knobs
    BY <1>2, <1>3
  <2> QED
    BY <1>3, <2>1, <2>2, Zenon DEF TracerRuns
<1>5. RecordFilled'
  BY <1>3 DEF RecordFilled
<1>6. Finished' = 0 /\ Written(k, 0) = 0
  BY <1>1, <1>2, <1>3 DEF Finished, Written
<1>7. Len(records) \in Nat
  BY <1>2, LenProperties
<1>8. FileHolds'
  <2>1. Holds(records, records, <<>>, k, 0)
    BY <1>2, <1>3, <1>6, <1>7 DEF Holds
  <2> QED
    BY <1>3, <1>6, <2>1 DEF FileHolds
<1> QED
  BY <1>4, <1>5, <1>8 DEF TracerIInv

(* BeginInstruction: the record is reset where it is traced.               *)
LEMMA BeginResets ==
  ASSUME TracerIInv, NEW ins \in Program, BeginInstruction(ins)
  PROVE  TracerIInv'
<1>1. /\ ~exited /\ toCall = {} /\ Len(ran) < MaxInstructions
      /\ instrCount' = instrCount + 1
      /\ tracingOn' = IF instrCount' > knobs.skip THEN instrCount' <= LastTraced ELSE tracingOn
      /\ currInstr' = IF tracingOn' THEN Reset(ins.ip) ELSE currInstr
      /\ toCall' = Sites(ins)
      /\ ran' = Append(ran, ins)
      /\ knobs' = knobs /\ out' = out /\ fileClosed' = fileClosed /\ exited' = exited
      /\ before' = before
  BY DEF BeginInstruction, BeginWith
<1>2. /\ knobs \in Knobs /\ ran \in Seq(Program) /\ instrCount = Len(ran)
      /\ tracingOn \in BOOLEAN /\ fileClosed \in BOOLEAN /\ exited \in BOOLEAN
      /\ DOMAIN currInstr = DOMAIN Reset(0)
      /\ instrCount <= knobs.skip => ~tracingOn
      /\ exited => fileClosed
  BY DEF TracerIInv, TracerRuns
<1>3. knobs.skip \in Nat /\ knobs.trace \in Nat /\ LastTraced \in Nat /\ MaxInstructions \in Nat
  BY <1>2, TracerNumbers DEF LastTraced
<1>4. /\ ran' \in Seq(Program) /\ Len(ran') = Len(ran) + 1 /\ Len(ran) \in Nat
      /\ ran'[Len(ran')] = ins /\ \A j \in 1 .. Len(ran) : ran'[j] = ran[j]
  <2>1. /\ Append(ran, ins) \in Seq(Program) /\ Len(Append(ran, ins)) = Len(ran) + 1
        /\ \A j \in 1 .. Len(ran) : Append(ran, ins)[j] = ran[j]
        /\ Append(ran, ins)[Len(ran) + 1] = ins
    BY <1>2, AppendProperties
  <2>2. Len(ran) \in Nat
    BY <1>2, LenProperties
  <2> QED
    BY <1>1, <2>1, <2>2
<1>5. tracingOn' = (knobs.skip < instrCount' /\ instrCount' <= LastTraced)
  <2>1. CASE instrCount' > knobs.skip
    BY <1>1, <1>2, <1>3, <1>4, <2>1
  <2>2. CASE ~(instrCount' > knobs.skip)
    <3>1. instrCount <= knobs.skip /\ ~(knobs.skip < instrCount')
      BY <1>1, <1>2, <1>3, <1>4, <2>2
    <3>2. tracingOn' = FALSE
      BY <1>1, <1>2, <2>2, <3>1
    <3> QED
      BY <3>1, <3>2
  <2> QED
    BY <2>1, <2>2
<1>6. TracerRuns'
  <2>1. DOMAIN Reset(ins.ip) = DOMAIN Reset(0)
    BY DEF Reset
  <2>2. DOMAIN currInstr' = DOMAIN Reset(0)
    BY <1>1, <1>2, <2>1
  <2>3. Len(ran') <= MaxInstructions /\ instrCount' = Len(ran')
    BY <1>1, <1>2, <1>3, <1>4
  <2>4. tracingOn' \in BOOLEAN
    BY <1>5
  <2>5. instrCount' <= knobs.skip => ~tracingOn'
    <3>1. instrCount' <= knobs.skip => ~(knobs.skip < instrCount')
      BY <1>2, <1>3, <1>4, <2>3
    <3> QED
      BY <1>5, <3>1
  <2> QED
    BY <1>1, <1>2, <1>4, <2>2, <2>3, <2>4, <2>5 DEF TracerRuns
<1>7. Running' = ins /\ ran' # <<>>
  BY <1>4, EmptySeq DEF Running, Last
<1>8. RecordFilled'
  <2>1. LastPlaces(ins, Sites(ins))
    BY PlacesOf DEF LastPlaces
  <2>2. LastPlaces(Running', toCall')
    BY <1>1, <1>7, <2>1
  <2>3. tracingOn' => currInstr' = SoFar(Running', toCall')
    BY <1>1, <1>7, SoFarAtFirst
  <2>4. LastTraced' = LastTraced
    BY <1>1 DEF LastTraced
  <2>5. ~exited' /\ (tracingOn' <=> knobs'.skip < instrCount' /\ instrCount' <= LastTraced')
    BY <1>1, <1>5, <2>4
  <2> QED
    BY <1>7, <2>2, <2>3, <2>5 DEF RecordFilled
<1>9. Finished = Len(ran) /\ Finished' = Len(ran)
  <2>1. toCall' # {}
    BY <1>1, PlacesOf
  <2> QED
    BY <1>1, <1>4, <2>1 DEF Finished
<1>10. Holds(out, before, ran, knobs, Len(ran)) => Holds(out, before, ran', knobs, Len(ran))
  <2> SUFFICES ASSUME Holds(out, before, ran, knobs, Len(ran)),
                      NEW j \in 1 .. Written(knobs, Len(ran))
               PROVE  ran'[knobs.skip + j] = ran[knobs.skip + j]
    BY DEF Holds
  <2>1. knobs.skip + j \in 1 .. Len(ran)
    BY <1>3, <1>4 DEF Written
  <2> QED
    BY <1>4, <2>1
<1>11. FileHolds'
  BY <1>1, <1>9, <1>10 DEF FileHolds, TracerIInv
<1> QED
  BY <1>6, <1>8, <1>11 DEF TracerIInv

(* A routine before the last enters its operand while the window lasts.    *)
LEMMA RoutineKeeps ==
  ASSUME TracerIInv, NEW place, NextIs(place), place # AtEnd,
         NEW record, Records(record), DOMAIN record = DOMAIN currInstr,
         tracingOn => record = SoFar(Running, toCall \ {place})
  PROVE  TracerIInv'
<1>1. /\ toCall # {} /\ FirstOf(place, toCall) /\ toCall' = toCall \ {place}
  BY DEF NextIs, FirstOf
<1>2. /\ currInstr' = record /\ knobs' = knobs /\ instrCount' = instrCount
      /\ tracingOn' = tracingOn /\ out' = out /\ fileClosed' = fileClosed /\ exited' = exited
      /\ before' = before /\ ran' = ran
  BY DEF Records
<1>3. Running \in Program /\ LastPlaces(Running, toCall)
  BY <1>1, RunningIs
<1>4. LastPlaces(Running, toCall') /\ toCall' # {}
  <2>1. LastPlaces(Running, toCall \ {place})
    BY <1>1, <1>3, CallsFromOneOn
  <2> QED
    BY <1>1, <2>1 DEF LastPlaces
<1>5. Running' = Running /\ LastTraced' = LastTraced
  BY <1>2 DEF Running, Last, LastTraced
<1>6. TracerRuns'
  BY <1>2, Zenon DEF TracerIInv, TracerRuns
<1>7. RecordFilled'
  <2>1. /\ ran # <<>> /\ ~exited
        /\ tracingOn <=> (knobs.skip < instrCount /\ instrCount <= LastTraced)
    BY <1>1 DEF TracerIInv, RecordFilled
  <2> QED
    BY <1>1, <1>2, <1>4, <1>5, <2>1 DEF RecordFilled
<1>8. FileHolds'
  <2>1. Finished' = Finished
    BY <1>1, <1>2, <1>4 DEF Finished
  <2> QED
    BY <1>2, <2>1 DEF TracerIInv, FileHolds
<1> QED
  BY <1>6, <1>7, <1>8 DEF TracerIInv

(* Each of the routines does so with its own operand.                      *)
LEMMA RoutinesKeep ==
  ASSUME TracerIInv,
         \/ BranchOrNot
         \/ toCall # {} /\ \E i \in DOMAIN Running.reads : RegRead(i)
         \/ toCall # {} /\ \E i \in DOMAIN Running.writes : RegWrite(i)
         \/ toCall # {} /\ \E i \in DOMAIN Running.memory : MemoryRead(i) \/ MemoryWrite(i)
  PROVE  TracerIInv'
<1> DEFINE ins == Running
<1>1. toCall # {}
  BY DEF BranchOrNot, NextIs
<1>2. ins \in Program /\ LastPlaces(ins, toCall)
  BY <1>1, RunningIs
<1>3. tracingOn => currInstr = SoFar(ins, toCall)
  BY <1>1 DEF TracerIInv, RecordFilled
<1>4. /\ DOMAIN ins.reads \in SUBSET Nat /\ DOMAIN ins.writes \in SUBSET Nat
      /\ DOMAIN ins.memory \in SUBSET Nat
  BY <1>2, OperandPlaces
<1>5. CASE BranchOrNot
  <2> DEFINE record == [currInstr EXCEPT !.isBranch = TRUE, !.branchTaken = @ \/ ins.taken]
  <2>1. NextIs(AtBranch) /\ Records(record) /\ FirstOf(AtBranch, toCall)
    BY <1>5 DEF BranchOrNot, NextIs, FirstOf
  <2>2. AtBranch # AtEnd
    BY PlacesDiffer
  <2>3. DOMAIN record = DOMAIN currInstr
    OBVIOUS
  <2>4. tracingOn => record = SoFar(ins, toCall \ {AtBranch})
    <3> DEFINE branched(r) == [r EXCEPT !.isBranch = TRUE, !.branchTaken = @ \/ ins.taken]
    <3>1. SoFar(ins, toCall \ {AtBranch}) = branched(SoFar(ins, toCall))
      BY <1>2, <2>1, BranchEnters
    <3>2. record = branched(currInstr)
      OBVIOUS
    <3> HIDE DEF record, branched
    <3> QED
      BY <1>3, <3>1, <3>2
  <2> HIDE DEF record
  <2> QED
    BY <2>1, <2>2, <2>3, <2>4, RoutineKeeps
<1>6. ASSUME NEW i \in DOMAIN ins.reads, RegRead(i) PROVE TracerIInv'
  <2> DEFINE record == IF tracingOn THEN [currInstr EXCEPT !.sourceRegisters =
                                            Entered(@, ins.reads[i] % RegSize)]
                       ELSE currInstr
  <2>1. NextIs(AtRead(i)) /\ Records(record) /\ FirstOf(AtRead(i), toCall)
    BY <1>6 DEF RegRead, NextIs, FirstOf
  <2>2. AtRead(i) # AtEnd
    BY <1>4, PlacesDiffer
  <2>3. DOMAIN record = DOMAIN currInstr
    OBVIOUS
  <2>4. tracingOn => record = SoFar(ins, toCall \ {AtRead(i)})
    BY <1>2, <1>3, <2>1, ReadEnters
  <2> HIDE DEF record
  <2> QED
    BY <2>1, <2>2, <2>3, <2>4, RoutineKeeps
<1>7. ASSUME NEW i \in DOMAIN ins.writes, RegWrite(i) PROVE TracerIInv'
  <2> DEFINE record == IF tracingOn THEN [currInstr EXCEPT !.destinationRegisters =
                                            Entered(@, ins.writes[i] % RegSize)]
                       ELSE currInstr
  <2>1. NextIs(AtWrite(i)) /\ Records(record) /\ FirstOf(AtWrite(i), toCall)
    BY <1>7 DEF RegWrite, NextIs, FirstOf
  <2>2. AtWrite(i) # AtEnd
    BY <1>4, PlacesDiffer
  <2>3. DOMAIN record = DOMAIN currInstr
    OBVIOUS
  <2>4. tracingOn => record = SoFar(ins, toCall \ {AtWrite(i)})
    BY <1>2, <1>3, <2>1, WriteEnters
  <2> HIDE DEF record
  <2> QED
    BY <2>1, <2>2, <2>3, <2>4, RoutineKeeps
<1>8. ASSUME NEW i \in DOMAIN ins.memory, MemoryRead(i) PROVE TracerIInv'
  <2> DEFINE record == IF tracingOn THEN [currInstr EXCEPT !.sourceMemory =
                                            Entered(@, ins.memory[i].address)]
                       ELSE currInstr
  <2>1. NextIs(AtMemoryRead(i)) /\ Records(record) /\ FirstOf(AtMemoryRead(i), toCall)
    BY <1>8 DEF MemoryRead, NextIs, FirstOf
  <2>2. AtMemoryRead(i) # AtEnd
    BY <1>4, PlacesDiffer
  <2>3. DOMAIN record = DOMAIN currInstr
    OBVIOUS
  <2>4. tracingOn => record = SoFar(ins, toCall \ {AtMemoryRead(i)})
    BY <1>2, <1>3, <2>1, MemoryReadEnters
  <2> HIDE DEF record
  <2> QED
    BY <2>1, <2>2, <2>3, <2>4, RoutineKeeps
<1>9. ASSUME NEW i \in DOMAIN ins.memory, MemoryWrite(i) PROVE TracerIInv'
  <2> DEFINE record == IF tracingOn THEN [currInstr EXCEPT !.destinationMemory =
                                            Entered(@, ins.memory[i].address)]
                       ELSE currInstr
  <2>1. NextIs(AtMemoryWrite(i)) /\ Records(record) /\ FirstOf(AtMemoryWrite(i), toCall)
    BY <1>9 DEF MemoryWrite, NextIs, FirstOf
  <2>2. AtMemoryWrite(i) # AtEnd
    BY <1>4, PlacesDiffer
  <2>3. DOMAIN record = DOMAIN currInstr
    OBVIOUS
  <2>4. tracingOn => record = SoFar(ins, toCall \ {AtMemoryWrite(i)})
    BY <1>2, <1>3, <2>1, MemoryWriteEnters
  <2> HIDE DEF record
  <2> QED
    BY <2>1, <2>2, <2>3, <2>4, RoutineKeeps
<1> QED
  BY <1>5, <1>6, <1>7, <1>8, <1>9

(* EndInstruction writes the record of the instruction that has finished.  *)
LEMMA WriteRecordKeeps ==
  ASSUME TracerIInv, WriteRecord
  PROVE  TracerIInv'
<1> DEFINE n == Len(ran)
<1>1. /\ toCall # {} /\ FirstOf(AtEnd, toCall) /\ toCall' = toCall \ {AtEnd}
      /\ instrCount > knobs.skip /\ instrCount <= LastTraced
      /\ tracingOn' = TRUE /\ out' = Append(out, currInstr)
      /\ knobs' = knobs /\ instrCount' = instrCount /\ currInstr' = currInstr
      /\ fileClosed' = fileClosed /\ exited' = exited /\ before' = before /\ ran' = ran
  BY DEF WriteRecord, NextIs, FirstOf
<1>2. Running \in Program /\ Running = ran[n] /\ n \in Nat \ {0} /\ LastPlaces(Running, toCall)
  BY <1>1, RunningIs
<1>3. toCall' = {} /\ toCall = {AtEnd}
  <2>1. toCall \ {AtEnd} = {}
    BY <1>1, <1>2, CallsFromOneOn
  <2> QED
    BY <1>1, <2>1 DEF FirstOf
<1>4. knobs.skip \in Nat /\ knobs.trace \in Nat /\ instrCount = n /\ n <= LastTraced
      /\ LastTraced = knobs.trace + knobs.skip /\ knobs.skip < n
  BY <1>1, <1>2, TracerNumbers DEF TracerIInv, TracerRuns, LastTraced
<1>5. currInstr = RecordOf(ran[n])
  <2>1. tracingOn
    BY <1>1, <1>4 DEF TracerIInv, RecordFilled
  <2> QED
    BY <1>1, <1>2, <1>3, <2>1, SoFarAtLast DEF TracerIInv, RecordFilled
<1>6. TracerRuns'
  <2>1. ~(instrCount <= knobs.skip)
    BY <1>2, <1>4
  <2> QED
    BY <1>1, <2>1, Zenon DEF TracerIInv, TracerRuns
<1>7. RecordFilled'
  BY <1>3 DEF RecordFilled
<1>8. FileHolds'
  <2> DEFINE w == Written(knobs, n - 1)
             b == Len(before)
  <2>1. Holds(out, before, ran, knobs, n - 1)
    BY <1>1 DEF TracerIInv, FileHolds, Finished
  <2>2. w = n - 1 - knobs.skip /\ Written(knobs, n) = w + 1 /\ w \in Nat
        /\ knobs.skip + (w + 1) = n
    BY <1>2, <1>4 DEF Written
  <2> HIDE DEF w
  <2>3. /\ before \in Seq(AllRecords) /\ b <= MaxRecords
        /\ out \in Seq(AllRecords) /\ Len(out) = b + w
        /\ \A j \in 1 .. b : out[j] = before[j]
        /\ \A j \in 1 .. w : out[b + j] = RecordOf(ran[knobs.skip + j])
    BY <2>1 DEF Holds, w
  <2>4. currInstr \in AllRecords
    BY <1>2, <1>5 DEF AllRecords
  <2>5. /\ out' \in Seq(AllRecords) /\ Len(out') = b + w + 1
        /\ \A j \in 1 .. b + w : out'[j] = out[j]
        /\ out'[b + w + 1] = currInstr
    <3> HIDE DEF b
    <3> QED
      BY <1>1, <2>3, <2>4, AppendProperties
  <2>6. b \in Nat
    BY <2>3, LenProperties
  <2> HIDE DEF b
  <2>7. \A j \in 1 .. b : out'[j] = before[j]
    <3> TAKE j \in 1 .. b
    <3>1. j \in 1 .. b + w
      BY <2>2, <2>6
    <3> QED
      BY <2>3, <2>5, <3>1
  <2>8. \A j \in 1 .. w + 1 : out'[b + j] = RecordOf(ran[knobs.skip + j])
    <3> TAKE j \in 1 .. w + 1
    <3>1. CASE j \in 1 .. w
      <4>1. b + j \in 1 .. b + w
        BY <2>2, <2>6, <3>1
      <4> QED
        BY <2>3, <2>5, <3>1, <4>1
    <3>2. CASE j = w + 1
      <4>1. b + j = b + w + 1 /\ knobs.skip + j = n
        BY <2>2, <2>6, <3>2
      <4> QED
        BY <1>5, <2>5, <4>1
    <3> QED
      BY <2>2, <3>1, <3>2
  <2>9. Holds(out', before, ran, knobs, n)
    <3>1. Len(out') = b + (w + 1)
      BY <2>2, <2>5, <2>6
    <3> QED
      BY <2>2, <2>3, <2>5, <2>7, <2>8, <3>1 DEF Holds, b
  <2> QED
    BY <1>1, <1>3, <2>9 DEF FileHolds, Finished
<1> QED
  BY <1>6, <1>7, <1>8 DEF TracerIInv

(* Outside of the window nothing is written.                               *)
LEMMA FinishKeeps ==
  ASSUME TracerIInv, Finish \/ SkipRecord
  PROVE  TracerIInv'
<1> DEFINE n == Len(ran)
<1>1. /\ toCall # {} /\ FirstOf(AtEnd, toCall) /\ toCall' = toCall \ {AtEnd}
      /\ instrCount <= knobs.skip \/ (instrCount > knobs.skip /\ instrCount > LastTraced)
      /\ tracingOn' = tracingOn \/ (tracingOn' = FALSE /\ instrCount > knobs.skip)
      /\ knobs' = knobs /\ instrCount' = instrCount /\ currInstr' = currInstr
      /\ out' = out /\ before' = before /\ ran' = ran
      /\ \/ fileClosed' = TRUE /\ exited' = TRUE
         \/ fileClosed' = fileClosed /\ exited' = exited
  BY DEF Finish, SkipRecord, NextIs, FirstOf
<1>2. Running \in Program /\ n \in Nat \ {0} /\ LastPlaces(Running, toCall)
  BY <1>1, RunningIs
<1>3. toCall' = {}
  BY <1>1, <1>2, CallsFromOneOn
<1>4. knobs.skip \in Nat /\ knobs.trace \in Nat /\ instrCount = n
      /\ LastTraced = knobs.trace + knobs.skip
  BY <1>1, <1>2, TracerNumbers DEF TracerIInv, TracerRuns, LastTraced
<1>5. TracerRuns'
  <2>1. exited' => fileClosed'
    <3>1. exited => fileClosed
      BY DEF TracerIInv, TracerRuns
    <3>2. CASE fileClosed' = TRUE /\ exited' = TRUE
      BY <3>2
    <3>3. CASE fileClosed' = fileClosed /\ exited' = exited
      BY <3>1, <3>3
    <3> QED
      BY <1>1, <3>2, <3>3
  <2>2. fileClosed' \in BOOLEAN /\ exited' \in BOOLEAN /\ tracingOn' \in BOOLEAN
    BY <1>1 DEF TracerIInv, TracerRuns
  <2>3. instrCount <= knobs.skip => ~tracingOn'
    BY <1>1, <1>2, <1>4 DEF TracerIInv, TracerRuns
  <2> QED
    BY <1>1, <2>1, <2>2, <2>3, Zenon DEF TracerIInv, TracerRuns
<1>6. RecordFilled'
  BY <1>3 DEF RecordFilled
<1>7. FileHolds'
  <2>1. Holds(out, before, ran, knobs, n - 1)
    BY <1>1 DEF TracerIInv, FileHolds, Finished
  <2>2. Written(knobs, n) = Written(knobs, n - 1)
    BY <1>1, <1>2, <1>4 DEF Written
  <2>3. Holds(out, before, ran, knobs, n)
    BY <2>1, <2>2 DEF Holds
  <2> QED
    BY <1>1, <1>3, <2>3 DEF FileHolds, Finished
<1> QED
  BY <1>5, <1>6, <1>7 DEF TracerIInv

(* Each step of the tracer keeps its invariant.                            *)
LEMMA TracerKeeps ==
  ASSUME TracerIInv, TracerNext \/ UNCHANGED tracerVars
  PROVE  TracerIInv'
<1>1. CASE Fini
  <2>1. TracerRuns'
    BY <1>1, Zenon DEF TracerIInv, TracerRuns, Fini
  <2>2. RecordFilled'
    BY <1>1 DEF RecordFilled, Fini
  <2>3. FileHolds'
    BY <1>1 DEF TracerIInv, FileHolds, Finished, Fini
  <2> QED
    BY <2>1, <2>2, <2>3 DEF TracerIInv
<1>2. CASE UNCHANGED tracerVars
  <2>1. TracerRuns'
    BY <1>2, Zenon DEF TracerIInv, TracerRuns, tracerVars
  <2>2. RecordFilled'
    <3>1. Running' = Running /\ LastTraced' = LastTraced
      BY <1>2 DEF Running, Last, LastTraced, tracerVars
    <3> QED
      BY <1>2, <3>1 DEF TracerIInv, RecordFilled, tracerVars
  <2>3. FileHolds'
    BY <1>2 DEF TracerIInv, FileHolds, Finished, tracerVars
  <2> QED
    BY <2>1, <2>2, <2>3 DEF TracerIInv
<1>3. ASSUME NEW k \in Knobs, NEW records \in {<<>>, out}, Main(k, records) PROVE TracerIInv'
  BY <1>3, MainStarts
<1>4. ASSUME NEW ins \in Program, BeginInstruction(ins) PROVE TracerIInv'
  BY <1>4, BeginResets
<1>5. ASSUME EndInstruction PROVE TracerIInv'
  BY <1>5, WriteRecordKeeps, FinishKeeps DEF EndInstruction
<1> QED
  BY <1>1, <1>2, <1>3, <1>4, <1>5, RoutinesKeep DEF TracerNext

(* Every part of the type invariant is one of the inductive invariant; the *)
(* file has no room for more than two executions.                          *)
LEMMA TracerTyped ==
  ASSUME TracerIInv
  PROVE  TracerTypeOK
<1>1. /\ knobs.skip \in Nat /\ knobs.trace \in Nat
      /\ MaxRecords \in Nat /\ MaxInstructions \in Nat
  BY TracerNumbers DEF TracerIInv, TracerRuns
<1>2. Len(ran) \in Nat /\ Len(before) \in Nat /\ Len(out) \in Nat
  BY LenProperties DEF TracerIInv, TracerRuns, FileHolds, Holds
<1>3. toCall # {} => Len(ran) # 0
  BY RunningIs
<1>4. Finished \in Nat /\ Finished <= Len(ran)
  BY <1>2, <1>3 DEF Finished
<1>5. Written(knobs, Finished) <= Finished /\ Written(knobs, Finished) \in Nat
  BY <1>1, <1>4 DEF Written
<1>6. Len(out) = Len(before) + Written(knobs, Finished) /\ Len(before) <= MaxRecords
      /\ Len(ran) <= MaxInstructions
  BY DEF TracerIInv, TracerRuns, FileHolds, Holds
<1>7. Len(out) <= MaxRecords + MaxInstructions
  BY <1>1, <1>2, <1>4, <1>5, <1>6
<1> QED
  BY <1>7, Zenon DEF TracerIInv, TracerRuns, TracerTypeOK

(* The file's records, as the property has them.                           *)
LEMMA TracerWindow ==
  ASSUME TracerIInv
  PROVE  TraceIsWindow
<1> DEFINE done == IF toCall = {} THEN ran ELSE Front(ran)
           n == Finished
           last == Min({Len(done), LastTraced})
           first == Min({knobs.skip, last})
           w == Written(knobs, n)
           written == [i \in 1 .. last - first |-> RecordOf(done[knobs.skip + i])]
           b == Len(before)
<1>1. knobs.skip \in Nat /\ knobs.trace \in Nat /\ LastTraced = knobs.trace + knobs.skip
  BY TracerNumbers DEF TracerIInv, TracerRuns, LastTraced
<1>2. Len(ran) \in Nat /\ ran \in Seq(Program)
  BY LenProperties DEF TracerIInv, TracerRuns
<1>3. /\ Len(done) = n /\ n \in Nat /\ \A j \in 1 .. n : done[j] = ran[j] /\ ran[j] \in Program
  <2>1. CASE toCall = {}
    BY <1>2, <2>1, ElementOfSeq DEF Finished
  <2>2. CASE toCall # {}
    <3>1. Len(ran) \in Nat \ {0}
      BY <2>2, RunningIs
    <3>2. done = [i \in 1 .. Len(ran) - 1 |-> ran[i]]
      BY <2>2 DEF Front
    <3>3. \A j \in 1 .. Len(ran) - 1 : ran[j] \in Program
      BY <1>2, <3>1, ElementOfSeq
    <3>4. Len(ran) - 1 \in Nat /\ n = Len(ran) - 1
      BY <2>2, <3>1 DEF Finished
    <3> HIDE DEF done, n
    <3>5. done \in Seq(Program) /\ Len(done) = Len(ran) - 1
      BY <3>2, <3>3, <3>4, IsASeq, LenProperties
    <3> QED
      BY <3>2, <3>3, <3>4, <3>5
  <2> QED
    BY <2>1, <2>2
<1> HIDE DEF done, n
<1>4. \A x, y \in Nat : Min({x, y}) = IF x <= y THEN x ELSE y
  <2> TAKE x, y \in Nat
  <2>1. Min({x, y}) \in {x, y} /\ \A z \in {x, y} : Min({x, y}) <= z
    BY MinIsMember
  <2> QED
    BY <2>1
<1>5. last = (IF n <= LastTraced THEN n ELSE LastTraced) /\ last \in Nat
  BY <1>1, <1>3, <1>4
<1>6. first = (IF knobs.skip <= last THEN knobs.skip ELSE last)
  BY <1>1, <1>4, <1>5
<1> HIDE DEF last, first
<1>7. last - first = w /\ w \in Nat /\ \A i \in 1 .. w : knobs.skip + i \in 1 .. n
  <2>1. last - first = w
    BY <1>1, <1>3, <1>5, <1>6 DEF Written
  <2>2. w \in Nat /\ (w = 0 \/ knobs.skip + w <= n)
    BY <1>1, <1>3 DEF Written
  <2> HIDE DEF w
  <2>3. \A i \in 1 .. w : knobs.skip + i \in 1 .. n
    BY <1>1, <1>3, <2>2
  <2> QED
    BY <2>1, <2>2, <2>3
<1> HIDE DEF w
<1>8. written = [i \in 1 .. w |-> RecordOf(ran[knobs.skip + i])]
  BY <1>3, <1>7
<1>9. written \in Seq(AllRecords) /\ Len(written) = w
  <2>1. \A i \in 1 .. w : RecordOf(ran[knobs.skip + i]) \in AllRecords
    BY <1>3, <1>7 DEF AllRecords
  <2> HIDE DEF written
  <2> QED
    BY <1>7, <1>8, <2>1, IsASeq, LenProperties
<1>10. \A i \in 1 .. w : written[i] = RecordOf(ran[knobs.skip + i])
  BY <1>8
<1>11. /\ before \in Seq(AllRecords) /\ out \in Seq(AllRecords) /\ Len(out) = b + w
       /\ \A j \in 1 .. b : out[j] = before[j]
       /\ \A j \in 1 .. w : out[b + j] = RecordOf(ran[knobs.skip + j])
  BY DEF TracerIInv, FileHolds, Holds, w, n
<1> HIDE DEF written, b
<1>12. out = before \o written
  <2>1. /\ before \o written \in Seq(AllRecords) /\ Len(before \o written) = b + w
        /\ \A i \in 1 .. b + w : (before \o written)[i] =
             IF i <= b THEN before[i] ELSE written[i - b]
    BY <1>9, <1>11, ConcatProperties DEF b
  <2>2. b \in Nat
    BY <1>11, LenProperties DEF b
  <2>3. ASSUME NEW i \in 1 .. b + w PROVE out[i] = (before \o written)[i]
    <3>1. CASE i <= b
      BY <1>11, <2>1, <2>2, <3>1
    <3>2. CASE ~(i <= b)
      <4>1. i - b \in 1 .. w /\ b + (i - b) = i
        BY <1>7, <2>2, <3>2
      <4> QED
        BY <1>10, <1>11, <2>1, <3>2, <4>1
    <3> QED
      BY <3>1, <3>2
  <2> QED
    BY <1>11, <2>1, <2>3, SeqEqual
<1>13. exited => fileClosed
  BY DEF TracerIInv, TracerRuns
<1> QED
  BY <1>12, <1>13 DEF TraceIsWindow, written, done, last, first
-----------------------------------------------------------------------------
(* No element is raised beyond the round, and the first level stays.       *)
ConfigIInv ==
  /\ phase \in {"defaults", "prune", "offsets", "levels", "written", "failed"}
  /\ Range(Tops) \subseteq caches /\ caches \subseteq AllCaches
  /\ round \in Nat \ {0} /\ levels \in [AllCaches \union {PTW} -> Nat]
  /\ \A e \in AllCaches \union {PTW} : levels[e] <= round

(* The script starts with all caches and no levels.                        *)
LEMMA ConfigInitially == ConfigInit => ConfigIInv
BY ConfigAssumption DEF ConfigInit, ConfigIInv

(* Each step of the script keeps its invariant.                            *)
LEMMA ConfigKeeps ==
  ASSUME ConfigIInv, ConfigNext \/ UNCHANGED configVars
  PROVE  ConfigIInv'
<1> DEFINE elements == AllCaches \union {PTW}
<1>1. /\ phase \in {"defaults", "prune", "offsets", "levels", "written", "failed"}
      /\ Range(Tops) \subseteq caches /\ caches \subseteq AllCaches
      /\ round \in Nat \ {0} /\ levels \in [elements -> Nat]
      /\ \A e \in elements : levels[e] <= round
  BY DEF ConfigIInv
<1> DEFINE small(l, r) == l \in [elements -> Nat] /\ \A e \in elements : l[e] <= r
<1>2. small(levels, round)
  BY <1>1
<1> SUFFICES /\ phase' \in {"defaults", "prune", "offsets", "levels", "written", "failed"}
             /\ Range(Tops) \subseteq caches' /\ caches' \subseteq AllCaches
             /\ round' \in Nat \ {0} /\ small(levels', round')
  BY DEF ConfigIInv
<1> HIDE DEF small, elements
<1>3. CASE Defaults \/ UndefinedBelow \/ Write
  BY <1>1, <1>2, <1>3 DEF Defaults, UndefinedBelow, Write, Unchanged
<1>4. CASE Prune
  BY <1>1, <1>2, <1>4 DEF Prune, Unchanged
<1>5. CASE Walk \/ NextWalk
  BY <1>1, <1>2, <1>5 DEF Walk, NextWalk, Unchanged
<1>6. CASE StartLevels
  <2>1. small(levels', round)
    BY <1>1, <1>6 DEF StartLevels, small
  <2> QED
    BY <1>1, <1>6, <2>1 DEF StartLevels, Unchanged
<1>7. CASE Level
  <2>1. levels' = [e \in elements |-> IF e \in Below /\ levels[e] < round + 1 THEN round + 1 ELSE levels[e]]
    BY <1>1, <1>7 DEF Level, Raised
  <2>2. \A e \in elements : levels'[e] \in Nat /\ levels'[e] <= round + 1
    <3> TAKE e \in elements
    <3>1. levels[e] \in Nat /\ round \in Nat
      BY <1>1
    <3>2. levels'[e] = IF e \in Below /\ levels[e] < round + 1 THEN round + 1 ELSE levels[e]
      BY <2>1
    <3>3. levels'[e] = levels[e] \/ levels'[e] = round + 1
      BY <3>2
    <3> QED
      BY <1>1, <3>1, <3>3
  <2>3. small(levels', round + 1)
    BY <2>1, <2>2 DEF small
  <2> QED
    BY <1>1, <1>7, <2>3 DEF Level, Unchanged
<1>8. CASE Reconfigure
  <2>1. Range(Tops) \subseteq AllCaches
    BY ConfigAssumption
  <2>2. small([e \in elements |-> 0], 1)
    BY DEF small
  <2> QED
    BY <1>8, <2>1, <2>2 DEF Reconfigure, elements
<1>9. CASE UNCHANGED configVars
  BY <1>1, <1>2, <1>9 DEF configVars
<1> QED
  BY <1>3, <1>4, <1>5, <1>6, <1>7, <1>8, <1>9 DEF ConfigNext
-----------------------------------------------------------------------------
(***************************************************************************)
(* The inductive invariant of the front end: that of the unit that runs;   *)
(* those that share no variable with another hold for all the time.        *)
(***************************************************************************)
FrontEndIInv ==
  /\ unit \in AllUnits
  /\ unit = "counters" => CounterIInv
  /\ unit = "perceptron" => PerceptronKept
  /\ unit = "hashed_perceptron" => HashedIInv
  /\ PerceptronIInv /\ BtbIInv /\ TracerIInv /\ ClockInv /\ ConfigIInv

(* The parts hold in the initial states of the units.                      *)
LEMMA FrontEndInitially == FrontEndInit => FrontEndIInv
<1> SUFFICES ASSUME FrontEndInit PROVE FrontEndIInv
  OBVIOUS
<1>1. /\ unit \in Units /\ StreakInit /\ CounterInit /\ PerceptronInit /\ HashedInit /\ BtbInit
      /\ TracerInit /\ OperableInit /\ ConfigInit
  BY DEF FrontEndInit
<1>2. CounterIInv /\ PerceptronKept /\ HashedIInv
  BY <1>1, CounterInitially, PerceptronKeptInitially, HashedInitially
<1>3. ClockInv
  BY <1>1, ClockInitially DEF OperableInit
<1>4. PerceptronIInv /\ BtbIInv /\ TracerIInv /\ ConfigIInv
  BY <1>1, PerceptronInitially, BtbInitially, TracerInitially, ConfigInitially
<1> QED
  BY <1>1, <1>2, <1>3, <1>4, UnitsAssumption DEF FrontEndIInv

(* A step of one unit leaves the variables of the others alone.            *)
LEMMA FrontEndKeeps == FrontEndIInv /\ [FrontEndNext]_frontEndVars => FrontEndIInv'
<1> SUFFICES ASSUME FrontEndIInv, [FrontEndNext]_frontEndVars PROVE FrontEndIInv'
  OBVIOUS
<1>1. unit' = unit /\ unit \in AllUnits
  BY DEF FrontEndIInv, FrontEndNext, Counters, Perceptrons, Hashed, Btb, Tracing, Clock, Config,
    frontEndVars
<1>2. /\ unit = "counters" => CounterNext \/ UNCHANGED <<counterVars, streakVars>>
      /\ unit = "perceptron" => PerceptronNext \/ UNCHANGED <<perceptronVars, streakVars>>
      /\ unit = "hashed_perceptron" => HashedNext \/ UNCHANGED <<hashedVars, streakVars>>
      /\ PerceptronNext \/ UNCHANGED perceptronVars
      /\ BtbNext \/ UNCHANGED btbVars
      /\ TracerNext \/ UNCHANGED tracerVars
      /\ OperableNext \/ UNCHANGED clockVars
      /\ ConfigNext \/ UNCHANGED configVars
  BY DEF FrontEndNext, Counters, Perceptrons, Hashed, Btb, Tracing, Clock, Config, frontEndVars
<1>3. ASSUME unit = "counters" PROVE CounterIInv'
  <2>1. CounterIInv
    BY <1>3 DEF FrontEndIInv
  <2>2. CASE CounterNext
    BY <2>1, <2>2, CounterKeeps
  <2>3. CASE UNCHANGED <<counterVars, streakVars>>
    BY <2>1, <2>3 DEF counterVars, streakVars, CounterIInv, CounterTypeOK, BimodalLearns,
      GshareLearns, Moved, Towards, Slots, CounterMax, CounterBound, Steady
  <2> QED
    BY <1>2, <1>3, <2>2, <2>3
<1>4. unit = "perceptron" => PerceptronKept'
  BY <1>2, PerceptronKeeps DEF FrontEndIInv
<1>5. unit = "hashed_perceptron" => HashedIInv'
  BY <1>2, HashedKeeps DEF FrontEndIInv
<1>6. PerceptronIInv'
  BY <1>2, OrderKept DEF FrontEndIInv
<1>7. BtbIInv'
  BY <1>2, BtbKeeps DEF FrontEndIInv
<1>8. TracerIInv'
  BY <1>2, TracerKeeps DEF FrontEndIInv
<1>9. ClockInv'
  BY <1>2, ClockInvStep DEF FrontEndIInv
<1>10. ConfigIInv'
  BY <1>2, ConfigKeeps DEF FrontEndIInv
<1> QED
  BY <1>1, <1>3, <1>4, <1>5, <1>6, <1>7, <1>8, <1>9, <1>10 DEF FrontEndIInv

(***************************************************************************)
(* The front end keeps the invariant, for every value of its constants.    *)
(***************************************************************************)
THEOREM FrontEndInvariance == FrontEndSpec => []FrontEndIInv
BY FrontEndInitially, FrontEndKeeps, PTL DEF FrontEndSpec

(***************************************************************************)
(* The type invariant of each unit: counters and weights stay saturated in *)
(* their ranges, histories keep their length, the tables hold addresses,   *)
(* targets and sizes of the program, the file has no more records than its *)
(* window, and no element is raised beyond the round of the script.        *)
(***************************************************************************)
THEOREM FrontEndTypesAlwaysOK == FrontEndSpec => []FrontEndTypesOK
<1>1. FrontEndIInv => FrontEndTypesOK
  <2> SUFFICES ASSUME FrontEndIInv PROVE FrontEndTypesOK
    OBVIOUS
  <2>1. BtbTypeOK /\ TracerTypeOK /\ ClockTypeOK /\ ConfigTypeOK
    BY BtbTyped, TracerTyped DEF FrontEndIInv, ClockInv, ConfigIInv, ConfigTypeOK
  <2>2. /\ unit = "counters" => CounterTypeOK
        /\ unit = "perceptron" => PerceptronTypeOK
        /\ unit = "hashed_perceptron" => HashedTypeOK
    BY DEF FrontEndIInv, CounterIInv, PerceptronKept, HashedIInv
  <2>3. unit \in AllUnits
    BY DEF FrontEndIInv
  <2> QED
    BY <2>1, <2>2, <2>3 DEF FrontEndTypesOK, AllUnits
<1> QED
  BY <1>1, FrontEndInvariance, PTL

(***************************************************************************)
(* Every predictor learns a bias, for every number of branches, size of    *)
(* the tables, length of the history and width of the weights, however the *)
(* branches share counters and perceptrons and whatever came before.       *)
(***************************************************************************)
THEOREM BiasAlwaysLearned == FrontEndSpec => []LearnsBias
<1>1. FrontEndIInv => LearnsBias
  <2> SUFFICES ASSUME FrontEndIInv PROVE LearnsBias
    OBVIOUS
  <2>1. unit = "counters" => Learned(CounterPredicts, CounterBound)
    BY CountersLearn DEF FrontEndIInv
  <2>2. unit = "perceptron" /\ depth <= BufferSize /\ inFlight = <<>>
          => Learned(LAMBDA ip : PredictionState(ip).prediction, PerceptronBound)
    BY PerceptronLearn DEF FrontEndIInv
  <2>3. unit = "hashed_perceptron" => Learned(HashedPredicts, HashedBound)
    BY HashedLearn DEF FrontEndIInv
  <2> QED
    BY <2>1, <2>2, <2>3 DEF LearnsBias
<1> QED
  BY <1>1, FrontEndInvariance, PTL

(***************************************************************************)
(* The trace is the window the knobs ask for, each record that of its own  *)
(* instruction, for every program with any number of operands, every       *)
(* number of slots and however often the file is appended to.              *)
(***************************************************************************)
THEOREM TraceAlwaysWindow == FrontEndSpec => []TraceIsWindow
<1>1. FrontEndIInv => TraceIsWindow
  BY TracerWindow DEF FrontEndIInv
<1> QED
  BY <1>1, FrontEndInvariance, PTL
=============================================================================
