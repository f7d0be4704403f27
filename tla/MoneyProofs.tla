---------------------------- MODULE MoneyProofs ----------------------------
(***************************************************************************)
(* What rounding half away from zero in integer paise guarantees, and why  *)
(* a tolerance of whole paise absorbs it.                                  *)
(***************************************************************************)
EXTENDS Money, TLAPS

\* What is rounded differs from the exact value by half a paisa at most.
LEMMA NaturalRounds ==
  ASSUME NEW x \in Nat
  PROVE  /\ RoundHalfUp(x) \in Nat
         /\ 2 * (BpsDivisor * RoundHalfUp(x) - x) <= BpsDivisor
         /\ 2 * (x - BpsDivisor * RoundHalfUp(x)) < BpsDivisor
<1> DEFINE n == 2 * x + BpsDivisor
           q == n \div (2 * BpsDivisor)
<1>1. RoundHalfUp(x) = q
  BY DEF RoundHalfUp
<1>2. n \in Nat
  BY DEF BpsDivisor
<1>3. q \in Nat /\ 20000 * q <= n /\ n < 20000 * q + 20000
  <2> HIDE DEF n
  <2> QED BY <1>2 DEF BpsDivisor
<1> HIDE DEF q
<1> QED BY <1>1, <1>3 DEF BpsDivisor

\* A refund rounds like the sale it takes back.
THEOREM RoundingIsOdd == \A x \in Int : RoundHalfUp(-x) = -RoundHalfUp(x)
<1> SUFFICES ASSUME NEW x \in Int PROVE RoundHalfUp(-x) = -RoundHalfUp(x)
  OBVIOUS
<1>1. CASE x < 0
  <2>1. -x \in Nat /\ ~(-x < 0) /\ RoundHalfUp(-x) \in Nat
    BY <1>1, NaturalRounds
  <2>2. RoundHalfUp(-x) = (2 * (-x) + BpsDivisor) \div (2 * BpsDivisor)
    BY <2>1 DEF RoundHalfUp
  <2>3. RoundHalfUp(x) = -((2 * (-x) + BpsDivisor) \div (2 * BpsDivisor))
    BY <1>1 DEF RoundHalfUp
  <2> QED BY <2>1, <2>2, <2>3
<1>2. CASE x > 0
  <2>1. x \in Nat /\ ~(x < 0) /\ -x < 0 /\ -(-x) = x
    BY <1>2
  <2> QED BY <2>1 DEF RoundHalfUp
<1>3. CASE x = 0
  <2>1. RoundHalfUp(0) \in Nat /\ 2 * (10000 * RoundHalfUp(0)) <= 10000
    BY NaturalRounds DEF BpsDivisor
  <2>2. RoundHalfUp(0) = 0
    BY <2>1
  <2> QED BY <1>3, <2>2
<1> QED BY <1>1, <1>2, <1>3

\* An amount of either sign is rounded to the nearest paisa.
THEOREM RoundsToNearest ==
  \A x \in Int : /\ RoundHalfUp(x) \in Int
                 /\ 2 * (BpsDivisor * RoundHalfUp(x) - x) <= BpsDivisor
                 /\ 2 * (x - BpsDivisor * RoundHalfUp(x)) <= BpsDivisor
<1> SUFFICES ASSUME NEW x \in Int
             PROVE  /\ RoundHalfUp(x) \in Int
                    /\ 2 * (BpsDivisor * RoundHalfUp(x) - x) <= BpsDivisor
                    /\ 2 * (x - BpsDivisor * RoundHalfUp(x)) <= BpsDivisor
  OBVIOUS
<1>1. CASE x \in Nat
  BY <1>1, NaturalRounds DEF BpsDivisor
<1>2. CASE x \notin Nat
  <2>1. -x \in Nat
    BY <1>2
  <2>2. RoundHalfUp(-x) = -RoundHalfUp(x)
    BY RoundingIsOdd
  <2>3. RoundHalfUp(x) \in Int
    BY <1>2 DEF RoundHalfUp, BpsDivisor
  <2>4. /\ 2 * (10000 * RoundHalfUp(-x) + x) <= 10000
        /\ 2 * (-x - 10000 * RoundHalfUp(-x)) < 10000
    BY <2>1, NaturalRounds DEF BpsDivisor
  <2> QED BY <2>2, <2>3, <2>4 DEF BpsDivisor
<1> QED BY <1>1, <1>2

\* "One paisa of rounding is not a billing dispute": with a tolerance of whole paise
\* a fee within it of the exact rate is within it of the rounded one, and a fee that
\* is a paisa further from the exact rate is outside of both.
THEOREM ToleranceAbsorbsRounding ==
  \A fee, exact \in Int, tolerance \in Nat :
    /\ BpsDivisor * fee - exact \in -BpsDivisor * tolerance..BpsDivisor * tolerance
         => fee - RoundHalfUp(exact) \in -tolerance..tolerance
    /\ fee - RoundHalfUp(exact) \in -tolerance..tolerance
         => BpsDivisor * fee - exact \in -BpsDivisor * (tolerance + 1)..BpsDivisor * (tolerance + 1)
<1> SUFFICES ASSUME NEW fee \in Int, NEW exact \in Int, NEW tolerance \in Nat
             PROVE  /\ 10000 * fee - exact \in -10000 * tolerance..10000 * tolerance
                         => fee - RoundHalfUp(exact) \in -tolerance..tolerance
                    /\ fee - RoundHalfUp(exact) \in -tolerance..tolerance
                         => 10000 * fee - exact \in -10000 * (tolerance + 1)..10000 * (tolerance + 1)
  BY DEF BpsDivisor
<1>1. /\ RoundHalfUp(exact) \in Int
      /\ 2 * (10000 * RoundHalfUp(exact) - exact) <= 10000
      /\ 2 * (exact - 10000 * RoundHalfUp(exact)) <= 10000
  BY RoundsToNearest DEF BpsDivisor
<1> DEFINE excess == 10000 * fee - exact
           off == fee - RoundHalfUp(exact)
<1>2. /\ excess \in Int /\ off \in Int
      /\ 2 * (10000 * off - excess) <= 10000 /\ 2 * (excess - 10000 * off) <= 10000
  BY <1>1
<1> HIDE DEF excess, off
<1>3. /\ -10000 * tolerance <= excess /\ excess <= 10000 * tolerance
         => -tolerance <= off /\ off <= tolerance
      /\ -tolerance <= off /\ off <= tolerance
         => -10000 * (tolerance + 1) <= excess /\ excess <= 10000 * (tolerance + 1)
  BY <1>2
<1> QED BY <1>1, <1>2, <1>3 DEF excess, off
=============================================================================
