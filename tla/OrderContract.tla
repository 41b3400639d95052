---------------------------- MODULE OrderContract ----------------------------
(***************************************************************************)
(* What the order service promises a tenant and its customer, without      *)
(* saying how: an opened order ends at most once, completed or cancelled;  *)
(* only a completed order is paid out, in the same step and never again;   *)
(* the platform fee is the largest whole number of cents that does not     *)
(* exceed an agreed rate of the order amount, the tenant gets the rest.    *)
(***************************************************************************)
EXTENDS Integers

CONSTANTS OrderIds, Amounts, Scale,
          AgreedRates,   \* rates some contract, or the platform default, agrees on
          NoPayout

VARIABLES phase, amount, payout

vars == <<phase, amount, payout>>

FairFee(fee, a, rate) == fee * Scale <= a * rate /\ a * rate < (fee + 1) * Scale

FairPayout(p, a) ==
  /\ p.rate \in AgreedRates /\ 0 <= p.rate /\ p.rate <= Scale
  /\ FairFee(p.fee, a, p.rate)
  /\ 0 <= p.fee /\ p.fee <= a
  /\ p.settlement = a - p.fee

Init ==
  /\ phase  = [o \in OrderIds |-> "none"]
  /\ amount = [o \in OrderIds |-> 0]
  /\ payout = [o \in OrderIds |-> NoPayout]

Open(o, a) ==
  /\ phase[o] = "none"
  /\ phase'  = [phase EXCEPT ![o] = "open"]
  /\ amount' = [amount EXCEPT ![o] = a]
  /\ UNCHANGED payout

Cancel(o) ==
  /\ phase[o] = "open"
  /\ phase' = [phase EXCEPT ![o] = "cancelled"]
  /\ UNCHANGED <<amount, payout>>

\* The payout is what the implementation says it is, provided it is fair; an
\* order may end completed without one.
Complete(o) ==
  /\ phase[o] = "open"
  /\ phase' = [phase EXCEPT ![o] = "completed"]
  /\ \/ payout' = payout
     \/ /\ FairPayout(payout'[o], amount[o])
        /\ payout' = [payout EXCEPT ![o] = payout'[o]]
  /\ UNCHANGED amount

Next == \E o \in OrderIds : (\E a \in Amounts : Open(o, a)) \/ Cancel(o) \/ Complete(o)

Spec == Init /\ [][Next]_vars
=============================================================================
