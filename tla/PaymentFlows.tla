----------------------------- MODULE PaymentFlows -----------------------------
(***************************************************************************)
(* The four payment flows of payments/payment_flows.py over                *)
(* payment_intent.py, payment_token.py, refund.py and stripe_client.py,    *)
(* and the payment routes of the API, against a gateway that honours       *)
(* idempotency keys, a network that loses answers and cards that are       *)
(* declined.                                                               *)
(*                                                                         *)
(* One call of a flow is one step (the Stripe client blocks, nothing       *)
(* awaits): the gateway does its part, then either the answer arrives and  *)
(* the rest of the function runs, or the client library raises: because    *)
(* the answer is lost, or because it says that the card was declined,      *)
(* which leaves the intent at the gateway and is repeated for the key.     *)
(* A request that never reaches the gateway changes nothing.               *)
(*                                                                         *)
(* Callers are outside the repository.  They follow the plan of the        *)
(* order's payment mode, call again when an exception came back and, now   *)
(* and then, when it did not.  A caller either sends no idempotency keys   *)
(* or uses one per order and operation, and a new one with another card    *)
(* once it was told that the last was declined.                            *)
(***************************************************************************)
EXTENDS Integers, Sequences, FiniteSets, FiniteSetsExt

CONSTANTS
  Orders,
  Totals,       \* order totals, in cents
  KeyedCallers, \* TRUE in it: callers that send idempotency keys; FALSE: none
  Statuses,     \* what the gateway may answer as status of an intent
  MaxIntents,   \* bound: intents the gateway makes
  MaxLost,      \* bound: lost answers
  MaxRepeats    \* bound: calls repeated after they had returned

\* The values of PaymentStatus the gateway uses; PaymentStatus(...) of another
\* value is a ValueError.
PaymentStatus == {"requires_confirmation", "processing", "succeeded", "requires_action"}

\* A PaymentToken is a type and a gateway reference; tenant and order are where it
\* is stored.
TokenType == {"setup_intent", "payment_intent", "receipt_ref"}
PaymentToken == TokenType \X (0..MaxIntents)

ASSUME PaymentAssumption ==
  /\ Totals \subseteq Nat \ {0} /\ KeyedCallers \subseteq BOOLEAN
  /\ MaxIntents \in Nat /\ MaxLost \in Nat /\ MaxRepeats \in Nat

VARIABLES
  keyed,     \* which kind of caller this system has; never changes
  plan,      \* how each order is paid; never changes
  intents,   \* the gateway's payment and setup intents, in order of creation
  refunds,   \* the gateway's refunds, in order of creation
  tokens,    \* PaymentTokenStore, per order: references and their types
  audit,     \* audited events, per order, with their transaction_ref
  returned,  \* operations that returned to their caller, per order
  declines,  \* declines the caller was told of, per order and operation
  lost, repeats

vars == <<keyed, plan, intents, refunds, tokens, audit, returned, declines, lost, repeats>>

-----------------------------------------------------------------------------
(* Plans: who pays how much, how.                                          *)

\* validate_mixed_split accepts a prepayment of p of total t.
validate_mixed_split(p, t) == 0 < p /\ p < t

\* prepay: cents paid online; balance: how the rest is settled; via: the API
\* route for intents, which stores no token, or the flow service.
Plans ==
  {pl \in [total : Totals, prepay : 0..Max(Totals), via : {"route", "flow"},
           balance : {"none", "deferred", "in_person"}] :
     \/ pl.prepay = pl.total /\ pl.balance = "none"                 \* ONLINE_PREPAY
     \/ pl.prepay = 0 /\ pl.balance # "none" /\ pl.via = "flow"     \* POST_SERVICE, IN_PERSON
     \/ /\ validate_mixed_split(pl.prepay, pl.total)                \* MIXED
        /\ pl.balance # "none" /\ pl.via = "flow"}

\* The caller splits the total; the service takes the amounts as they come.
Owed(o, op) ==
  IF op = "prepay" THEN plan[o].prepay ELSE plan[o].total - plan[o].prepay

\* The operations that ask the gateway for an intent.
Operations == {"prepay", "authorize", "charge"}

Init ==
  /\ keyed \in KeyedCallers
  /\ plan \in [Orders -> Plans]
  /\ intents = <<>> /\ refunds = <<>>
  /\ tokens   = [o \in Orders |-> {}]
  /\ audit    = [o \in Orders |-> {}]
  /\ returned = [o \in Orders |-> {}]
  /\ declines = [o \in Orders |-> [op \in Operations |-> 0]]
  /\ lost = 0 /\ repeats = 0

-----------------------------------------------------------------------------
(* The gateway and the calls to it.                                        *)

NoKey == <<>>
KeyOf(o, op, i) == IF keyed THEN <<o, op, i>> ELSE NoKey

\* Variant: the headers never reach the request.
NoHeader(key) == NoKey

\* The Idempotency-Key header StripeClient sends for intents, and for refunds.
IntentHeader(key) == key
RefundHeader(key) == key

\* The gateway answers with entry i of list: the one made for the same key, or a
\* new one.
Made(list, key) == {i \in 1..Len(list) : key # NoKey /\ list[i].key = key}

Intent(o, op, kind, amount, i) ==
  LET key == IntentHeader(KeyOf(o, op, declines[o][op]))
  IN  \/ i \in Made(intents, key) /\ UNCHANGED intents
      \/ /\ Made(intents, key) = {} /\ i = Len(intents) + 1 /\ i <= MaxIntents
         /\ \E s \in Statuses :
              intents' = Append(intents, [order |-> o, op |-> op, kind |-> kind,
                                          amount |-> amount, status |-> s, key |-> key])

\* The calls of StripeClient that make an intent (payment_method_id is a token).
create_payment_intent(o, i) == Intent(o, "prepay", "payment", Owed(o, "prepay"), i)
create_setup_intent(o, i)   == Intent(o, "authorize", "setup", 0, i)
charge_from_token(o, i)     == Intent(o, "charge", "payment", Owed(o, "charge"), i)

\* The caller calls op, about intent i if it is a refund: because it has not
\* returned, or once more.
Calls(o, op, i) ==
  IF <<op, i>> \in returned[o] THEN repeats < MaxRepeats /\ repeats' = repeats + 1
                        ELSE UNCHANGED repeats

Returns(o, op, i) == returned' = [returned EXCEPT ![o] = @ \cup {<<op, i>>}]
Logs(o, event, ref) == audit' = [audit EXCEPT ![o] = @ \cup {<<event, ref>>}]
store(o, type, ref) == tokens' = [tokens EXCEPT ![o] = @ \cup {<<type, ref>>}]

\* The gateway acted, but its answer is lost and the library raises.
AnswerLost ==
  /\ lost < MaxLost
  /\ lost' = lost + 1
  /\ UNCHANGED <<tokens, audit, returned, declines>>

\* Every intent is made with confirm=True: when the card is declined the gateway
\* keeps the intent and the library raises, so nothing after the call runs.
Declined(o, op, i) ==
  /\ intents'[i].status = "declined"
  /\ declines' = [declines EXCEPT ![o][op] = @ + 1]
  /\ UNCHANGED <<tokens, audit, returned, lost>>

Accepted(i) == intents'[i].status # "declined" /\ UNCHANGED <<declines, lost>>

-----------------------------------------------------------------------------
(* The flows.                                                              *)

\* Variant: the status is converted before the intent is audited.
ConvertThenAudit(o, i) ==
  IF intents'[i].status \in PaymentStatus
  THEN /\ Logs(o, "payment.created", i)
       /\ IF plan[o].via = "flow" THEN store(o, "payment_intent", i) ELSE UNCHANGED tokens
       /\ Returns(o, "prepay", 0)
  ELSE UNCHANGED <<audit, tokens, returned>>

\* Variant: the reference is stored before the status is converted.
StoreThenConvert(o, i) ==
  /\ Logs(o, "payment.created", i)
  /\ IF plan[o].via = "flow" THEN store(o, "payment_intent", i) ELSE UNCHANGED tokens
  /\ IF intents'[i].status \in PaymentStatus
     THEN Returns(o, "prepay", 0) ELSE UNCHANGED returned

\* create_intent after the gateway's answer, then online_prepay's token: a status
\* PaymentStatus does not know raises after the audit entry, before the token.
IntentAnswered(o, i) ==
  /\ Logs(o, "payment.created", i)
  /\ IF intents'[i].status \in PaymentStatus
     THEN /\ IF plan[o].via = "flow" THEN store(o, "payment_intent", i)
                                     ELSE UNCHANGED tokens
          /\ Returns(o, "prepay", 0)
     ELSE UNCHANGED <<tokens, returned>>

online_prepay(o) ==
  /\ plan[o].prepay > 0 /\ Calls(o, "prepay", 0)
  /\ \E i \in 1..(Len(intents) + 1) :
       /\ create_payment_intent(o, i)
       /\ \/ AnswerLost
          \/ Declined(o, "prepay", i)
          \/ Accepted(i) /\ IntentAnswered(o, i)
  /\ UNCHANGED <<keyed, plan, refunds>>

\* The token is stored whatever status the SetupIntent is returned with.
authorize_deferred(o) ==
  /\ plan[o].balance = "deferred" /\ Calls(o, "authorize", 0)
  /\ \E i \in 1..(Len(intents) + 1) :
       /\ create_setup_intent(o, i)
       /\ \/ AnswerLost
          \/ Declined(o, "authorize", i)
          \/ /\ Accepted(i)
             /\ store(o, "setup_intent", i)
             /\ Logs(o, "payment.deferred_authorized", i)
             /\ Returns(o, "authorize", 0)
  /\ UNCHANGED <<keyed, plan, refunds>>

\* Variant: any token of the order will do.
AnyToken(token) == TRUE

Chargeable(token) == token[1] = "setup_intent"

\* charge_deferred with one of the order's tokens; the charge is audited with its
\* status and leaves no token.
charge_deferred(o) ==
  /\ plan[o].balance = "deferred" /\ Calls(o, "charge", 0)
  /\ \E token \in tokens[o] : Chargeable(token)
  /\ \E i \in 1..(Len(intents) + 1) :
       /\ charge_from_token(o, i)
       /\ \/ AnswerLost
          \/ Declined(o, "charge", i)
          \/ /\ Accepted(i)
             /\ Logs(o, "payment.deferred_charged", i)
             /\ Returns(o, "charge", 0) /\ UNCHANGED tokens
  /\ UNCHANGED <<keyed, plan, refunds>>

\* record_in_person with the terminal's receipt (reference 0 of the order).
record_in_person(o) ==
  /\ plan[o].balance = "in_person" /\ Calls(o, "receipt", 0)
  /\ store(o, "receipt_ref", 0)
  /\ Logs(o, "payment.in_person_recorded", 0)
  /\ Returns(o, "receipt", 0)
  /\ UNCHANGED <<keyed, plan, intents, refunds, declines, lost>>

Refunded(i) ==
  SumFunction([r \in {r \in 1..Len(refunds) : refunds[r].intent = i} |->
                 refunds[r].amount])

\* A partial refund of one cent; the gateway refuses more than was charged.
create_refund(o, i) ==
  LET key == RefundHeader(KeyOf(o, "refund", i))
  IN  \/ Made(refunds, key) # {} /\ UNCHANGED refunds
      \/ /\ Made(refunds, key) = {} /\ Refunded(i) < intents[i].amount
         /\ refunds' = Append(refunds, [intent |-> i, amount |-> 1, key |-> key])

\* process_refund for an intent of the order: nothing is audited or stored, and a
\* status RefundStatus does not know raises after the refund, like a lost answer.
process_refund(o, i) ==
  /\ intents[i].order = o /\ intents[i].kind = "payment"
  /\ intents[i].status = "succeeded"
  /\ Calls(o, "refund", i)
  /\ create_refund(o, i)
  /\ AnswerLost \/ (Returns(o, "refund", i) /\ UNCHANGED <<tokens, audit, declines, lost>>)
  /\ UNCHANGED <<keyed, plan, intents>>

Call(o) ==
  \/ online_prepay(o) \/ authorize_deferred(o) \/ charge_deferred(o)
  \/ record_in_person(o)
  \/ \E i \in 1..Len(intents) : process_refund(o, i)

Next == \E o \in Orders : Call(o)

Spec == Init /\ [][Next]_vars

\* A caller calls again as long as an operation it needs has not returned; there
\* is no fairness for refunds or for repeated calls.
FairSpec ==
  /\ Spec
  /\ \A o \in Orders :
       /\ WF_vars(<<"prepay", 0>> \notin returned[o] /\ online_prepay(o))
       /\ WF_vars(<<"authorize", 0>> \notin returned[o] /\ authorize_deferred(o))
       /\ WF_vars(<<"charge", 0>> \notin returned[o] /\ charge_deferred(o))

-----------------------------------------------------------------------------
(* Properties.                                                             *)

\* The type invariant of the gateway's and the service's records.
TypeOK ==
  /\ keyed \in BOOLEAN /\ plan \in [Orders -> Plans]
  /\ \A i \in 1..Len(intents) :
       /\ intents[i].order \in Orders /\ intents[i].kind \in {"payment", "setup"}
       /\ intents[i].amount \in Nat /\ intents[i].status \in Statuses
  /\ \A r \in 1..Len(refunds) : refunds[r].intent \in 1..Len(intents)
  /\ tokens \in [Orders -> SUBSET PaymentToken]
  /\ declines \in [Orders -> [Operations -> Nat]]
  /\ lost \in 0..MaxLost /\ repeats \in 0..MaxRepeats

\* The payments of an order that the gateway did not decline.
PaymentsOf(o) ==
  {i \in 1..Len(intents) : /\ intents[i].order = o /\ intents[i].kind = "payment"
                           /\ intents[i].status # "declined"}
Charged(o) == SumFunction([i \in PaymentsOf(o) |-> intents[i].amount])

\* With idempotency keys no sequence of lost answers, declined cards, exceptions,
\* retries and repeated calls charges an order more than its total, whatever its
\* payment mode and split; what a terminal collects is included.
NeverOvercharged ==
  keyed => \A o \in Orders :
    Charged(o) + (IF plan[o].balance = "in_person" THEN Owed(o, "receipt") ELSE 0)
      <= plan[o].total

\* Likewise a partial refund that is asked for once is paid once.
RefundedOnce == keyed => \A i \in 1..Len(intents) : Refunded(i) <= 1

\* Money moves once, in either direction (and the types hold).
MoneyMovesOnce == TypeOK /\ NeverOvercharged /\ RefundedOnce

\* Every stored token stands for something real, of its own order and type: a
\* receipt, a payment whose status the service could convert, or an authorization
\* that was not declined; and it was audited under its reference.
TokensAreBacked ==
  \A o \in Orders : \A token \in tokens[o] :
    LET type == token[1]
        ref  == token[2]
    IN  /\ \E entry \in audit[o] : entry[2] = ref
        /\ \/ type = "receipt_ref" /\ ref = 0
           \/ /\ type = "payment_intent" /\ ref \in PaymentsOf(o)
              /\ intents[ref].status \in PaymentStatus
           \/ /\ type = "setup_intent" /\ ref \in 1..Len(intents)
              /\ intents[ref].order = o /\ intents[ref].kind = "setup"
              /\ intents[ref].status # "declined"

\* "Deferred charge requires a setup_intent token": whatever was declined, lost or
\* repeated before, the gateway is asked for the balance of an order only if the
\* customer's authorization for that order had been given and audited.
ChargesAreAuthorized ==
  \A i \in 1..Len(intents) : intents[i].op = "charge" =>
    \E j \in 1..(i - 1) :
      /\ intents[j].order = intents[i].order /\ intents[j].op = "authorize"
      /\ intents[j].status # "declined"
      /\ <<"payment.deferred_authorized", j>> \in audit[intents[i].order]

InTrail(i) ==
  \E o \in Orders : \E entry \in audit[o] :
    entry[1] # "payment.in_person_recorded" /\ entry[2] = i

\* "PCI DSS Req. 10: log payment intent creation": with keys and a caller that
\* calls again, every intent the gateway made and did not decline ends in the audit
\* trail, also one whose answer was lost or whose status the service cannot convert.
AcceptedIntentsAreAudited ==
  keyed => \A i \in 1..MaxIntents :
    (i <= Len(intents) /\ intents[i].status # "declined") ~> InTrail(i)
=============================================================================
