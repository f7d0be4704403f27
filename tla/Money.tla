------------------------------- MODULE Money -------------------------------
(***************************************************************************)
(* Integer paise (core/money.py): rates in basis points, rounded half away *)
(* from zero.                                                              *)
(***************************************************************************)
EXTENDS Integers

BpsDivisor == 10000
GstRateBps == 1800

\* round_half_up with the only denominator it is called with.
RoundHalfUp(numerator) ==
  IF numerator < 0 THEN -((2 * (-numerator) + BpsDivisor) \div (2 * BpsDivisor))
  ELSE (2 * numerator + BpsDivisor) \div (2 * BpsDivisor)

ApplyBps(amount, rate) == RoundHalfUp(amount * rate)

GstOn(fee) == RoundHalfUp(fee * GstRateBps)
=============================================================================
