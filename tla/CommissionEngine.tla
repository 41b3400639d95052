--------------------------- MODULE CommissionEngine ---------------------------
(***************************************************************************)
(* The pure arithmetic of commissions/commission_engine.py.  Amounts are   *)
(* integer cents.  The Decimal rates and fractions of the code are written *)
(* as integers in units of 1/Scale: with Scale = 100, "0.08" is 8.         *)
(***************************************************************************)
EXTENDS Integers

CONSTANT Scale          \* resolution of rates and fractions

ASSUME ScaleAssumption == Scale \in Nat \ {0}

-----------------------------------------------------------------------------
\* _validate_rate: outside [0, 1] is a ValueError.
ValidRate(rate) == 0 <= rate /\ rate <= Scale

\* Decimal.to_integral_value(ROUND_DOWN) of amount * part, for amount >= 0.
RoundDown(amount, part) == (amount * part) \div Scale

\* calculate raises ValueError exactly when this is false.
Computable(gross, rate) == gross >= 0 /\ ValidRate(rate)

\* Variant: the fee is rounded up, in the platform's favour.
CalculateRoundingUp(gross, rate) ==
  LET fee == RoundDown(gross, rate) + (IF (gross * rate) % Scale = 0 THEN 0 ELSE 1)
  IN  [rate |-> rate, gross |-> gross, fee |-> fee, settlement |-> gross - fee]

\* calculate: the fee is rounded down, the tenant gets the remainder.
calculate(gross, rate) ==
  LET fee == RoundDown(gross, rate)
  IN  [rate |-> rate, gross |-> gross, fee |-> fee, settlement |-> gross - fee]

\* reverse raises ValueError unless the fraction is in (0, 1].
ValidFraction(fraction) == 0 < fraction /\ fraction <= Scale

\* Variant: a partial reversal is rounded up.
ReverseRoundingUp(split, fraction) ==
  LET up(n) == RoundDown(n, fraction) + (IF (n * fraction) % Scale = 0 THEN 0 ELSE 1)
  IN  [rate |-> split.rate, gross |-> up(split.gross), fee |-> up(split.fee),
       settlement |-> up(split.gross) - up(split.fee)]

\* reverse: gross and fee are each rounded down, the settlement is the rest.
reverse(split, fraction) ==
  LET gross == RoundDown(split.gross, fraction)
      fee   == RoundDown(split.fee, fraction)
  IN  [rate |-> split.rate, gross |-> gross, fee |-> fee, settlement |-> gross - fee]

\* LedgerEntry.__post_init__: an unbalanced entry is a ValueError.
Balanced(entry) == entry.fee + entry.settlement = entry.gross
=============================================================================
