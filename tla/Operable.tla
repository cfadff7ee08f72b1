------------------------------ MODULE Operable ------------------------------
(***************************************************************************)
(* champsim::operable (inc/operable.h): the main loop calls _operate() of  *)
(* every component once per cycle of the fastest one, and a slower         *)
(* component skips calls.  Its scale is the quotient of the highest        *)
(* frequency and its own (config.py).                                      *)
(*                                                                         *)
(* The scale and leap_operation are doubles.  They are counted in units of *)
(* the spacing of the doubles from 1 to 2, of which 1 has One (2^52); from *)
(* a power of two on, that spacing times the power.  Numbers below 1 lie   *)
(* closer, but all that come up are whole units.                           *)
(*                                                                         *)
(* The main loop is not in the repository; it sorts the components by      *)
(* their leap between two cycles, here it calls them in any order.         *)
(***************************************************************************)
EXTENDS Integers, FiniteSetsExt

CONSTANTS
  Frequencies,  \* the frequencies of the components
  One,           \* the units of 1
  MaxCycles      \* bound: the cycles of one simulation

(* The distances of neighbouring doubles: the powers of two up to One.     *)
Quanta == {q \in 1 .. One : One % q = 0}

Fastest == Max(Frequencies)

(* One is a power of two, and the quotients are below the 2^53 from which  *)
(* on doubles lie more than 1 apart.                                       *)
ASSUME OperableAssumption ==
  /\ Frequencies \subseteq Nat \ {0}
  /\ \E fastest \in Frequencies : \A f \in Frequencies : f <= fastest
  /\ One \in Nat \ {0}
  /\ \A p, q \in Quanta : p < q => q % (2 * p) = 0
  /\ \A f \in Frequencies : Fastest < 2 * One * f

VARIABLES
  leapOperation,  \* leap_operation of each component
  currentCycle,   \* current_cycle
  called          \* history: how often _operate() was called

clockVars == <<leapOperation, currentCycle, called>>

(* The distance of doubles at n / d units: the least at which 53 bits do.  *)
Spacing(n, d) == Min({q \in Quanta : n < 2 * One * q * d})

(* The double nearest to n / d units; of two, the one with an even last    *)
(* bit.                                                                    *)
Rounded(n, d) ==
  LET step == Spacing(n, d) * d
      down == n \div step
      rest == n % step
      up == 2 * rest > step \/ (2 * rest = step /\ down % 2 = 1)
  IN  Spacing(n, d) * (IF up THEN down + 1 ELSE down)

(* The scales: max(freqs) / x for each frequency, divided once.            *)
Ratios == [f \in Frequencies |-> Rounded(One * Fastest, f)]

Ratio(f) == Ratios[f]

(* CLOCK_SCALE.  (Mutant: the scale itself.)                               *)
ClockScaleNotLessOne(f) == Ratio(f)

ClockScale(f) == Rounded(Ratio(f) - One, 1)

None == [f \in Frequencies |-> 0]

OperableInit == leapOperation = None /\ currentCycle = None /\ called = None

(* The cycle of the main loop: nobody is called twice before all are once. *)
Due(f) == called[f] < MaxCycles /\ \A g \in Frequencies : called[f] <= called[g]

Leap(f) ==
  /\ Due(f) /\ leapOperation[f] >= One
  /\ leapOperation' = [leapOperation EXCEPT ![f] = Rounded(@ - One, 1)]
  /\ called' = [called EXCEPT ![f] = @ + 1]
  /\ UNCHANGED currentCycle

OperateOnce(f) ==
  /\ Due(f) /\ leapOperation[f] < One
  /\ leapOperation' = [leapOperation EXCEPT ![f] = Rounded(@ + ClockScale(f), 1)]
  /\ currentCycle' = [currentCycle EXCEPT ![f] = @ + 1]
  /\ called' = [called EXCEPT ![f] = @ + 1]

(* Another simulation.                                                     *)
Restart ==
  /\ \A f \in Frequencies : called[f] = MaxCycles
  /\ leapOperation' = None /\ currentCycle' = None /\ called' = None

OperableNext == Restart \/ \E f \in Frequencies : Leap(f) \/ OperateOnce(f)

OperableSpec == OperableInit /\ [][OperableNext]_clockVars
-----------------------------------------------------------------------------
ClockTypeOK ==
  /\ leapOperation \in [Frequencies -> Nat]
  /\ currentCycle \in [Frequencies -> Nat]
  /\ called \in [Frequencies -> Nat]

(***************************************************************************)
(* A component keeps to its scale however long it runs: after n calls it   *)
(* has operated n / scale times, rounded up, so that the sums of           *)
(* _operate() add no error to that of the quotient; it never skips two     *)
(* cycles it owes.  What it is ahead of its frequency (lead, 1 / Fastest   *)
(* of an operation the unit) stays within one operation where the quotient *)
(* is a double, and leaves it by at most 2^-53 of the operations done      *)
(* where it is not: by less than one operation in 2^53.                    *)
(***************************************************************************)
KeepsPace ==
  \A f \in Frequencies :
    LET lead == currentCycle[f] * Fastest - called[f] * f
        drift == currentCycle[f] * Fastest
    IN  /\ currentCycle[f] * Ratio(f) - called[f] * One \in 0 .. Ratio(f) - 1
        /\ 2 * One * lead \in -drift .. 2 * One * Fastest + drift
        /\ Ratio(f) * f = One * Fastest => lead \in 0 .. Fastest - 1
=============================================================================
