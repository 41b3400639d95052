---------------------------- MODULE VatCalculator ----------------------------
(***************************************************************************)
(* tax/country_rates.py and tax/vat_calculator.py.  Amounts are whole      *)
(* tenths of a cent, so that a net amount below the cent, which the code   *)
(* does not round, can be told apart; rates are per mille; a date is the   *)
(* number yyyymmdd.  A country code is what the caller typed: the code,    *)
(* and whether it was typed in upper case.                                 *)
(***************************************************************************)
EXTENDS Integers, Sequences, FiniteSetsExt

Cent == 10

\* Code c, typed in upper case or not.
Typed(c, upper) == [code |-> c, upper |-> upper]

From(rate, d) == [rate |-> rate, effective_from |-> d]

BALTIC_RATES ==
  [LT |-> <<From(210, 20110701)>>,
   LV |-> <<From(210, 20130101)>>,
   EE |-> <<From(240, 20250701), From(220, 20240101)>>]

OTHER_RATES ==
  [AT |-> 200, BE |-> 210, BG |-> 200, HR |-> 250, CY |-> 190, CZ |-> 210, DK |-> 250,
   FI |-> 255, FR |-> 200, DE |-> 190, GR |-> 240, HU |-> 270, IE |-> 230, IT |-> 220,
   LU |-> 170, MT |-> 180, NL |-> 210, PL |-> 230, PT |-> 230, RO |-> 190, SK |-> 200,
   SI |-> 220, ES |-> 210, SE |-> 250]

\* EU_27_RATES.  Outside the Baltic states a country has one rate, which applies to
\* every date, also before its effective_from; that date is left out.
Rates(c) ==
  IF c \in DOMAIN BALTIC_RATES THEN BALTIC_RATES[c] ELSE <<From(OTHER_RATES[c], 0)>>

EU_27 == DOMAIN BALTIC_RATES \cup DOMAIN OTHER_RATES

\* get_vat_rate, and with it every calculation, raises ValueError for another code.
Known(country) == country.code \in EU_27

\* Variant: a rate applies from the day after its effective date.
RateFromNextDay(country, d) ==
  LET rates == Rates(country.code)
      from  == {i \in 1..Len(rates) : d > rates[i].effective_from}
  IN  IF from = {} THEN rates[Len(rates)].rate ELSE rates[Min(from)].rate

\* get_vat_rate, for a country it knows: the first rate of the list in force on d, or
\* the last of the list.
get_vat_rate(country, d) ==
  LET rates == Rates(country.code)
      from  == {i \in 1..Len(rates) : d >= rates[i].effective_from}
  IN  IF from = {} THEN rates[Len(rates)].rate ELSE rates[Min(from)].rate

\* num / den, rounded to the nearest whole number, halves away from zero
\* (ROUND_HALF_UP); den > 0.
RoundHalfUp(num, den) ==
  IF num >= 0 THEN (2 * num + den) \div (2 * den) ELSE -((den - 2 * num) \div (2 * den))

VatCalculation(net, vat, gross, rate, country) ==
  [net |-> net, vat |-> vat, gross |-> gross, rate |-> rate, country_code |-> country]

\* The VAT of a net amount, in whole cents.
VatOf(net, rate) == Cent * RoundHalfUp(net * rate, 1000 * Cent)

\* The net amount in a gross amount, in whole cents.
NetOf(gross, rate) == Cent * RoundHalfUp(gross * 1000, (1000 + rate) * Cent)

calculate_from_net(net, country, d) ==
  LET rate == get_vat_rate(country, d)
      vat  == VatOf(net, rate)
  IN  VatCalculation(net, vat, net + vat, rate, country)

calculate_from_gross(gross, country, d) ==
  LET rate == get_vat_rate(country, d)
      net  == NetOf(gross, rate)
  IN  VatCalculation(net, gross - net, gross, rate, country)
=============================================================================
