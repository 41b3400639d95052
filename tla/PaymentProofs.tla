---------------------------- MODULE PaymentProofs -----------------------------
(***************************************************************************)
(* Theorems about the payments package.  PaymentFlows, for any orders,     *)
(* totals, splits, statuses and bounds: with idempotency keys money moves  *)
(* once, every stored token is backed, and nothing is charged off-session  *)
(* without an authorization.  WebhookHandler, for any events               *)
(* and window constants: an event is dispatched at most once per process   *)
(* lifetime, and is answered 200 only when it was handled.                 *)
(***************************************************************************)
EXTENDS PaymentFlows, WebhookHandler, CollectionLemmas

Keys == {NoKey} \cup (Orders \X (Operations \cup {"refund"}) \X Nat)

IntentRecord ==
  [order : Orders, op : Operations, kind : {"payment", "setup"}, amount : Nat,
   status : Statuses, key : Keys]
RefundRecord == [intent : Nat, amount : {1}, key : Keys]

\* The kind an operation gives its intent.
KindOf(op) == IF op = "authorize" THEN "setup" ELSE "payment"

\* An intent is what the plan of its order asks for.
AsPlanned(e) ==
  /\ e.kind = KindOf(e.op)
  /\ e.op # "authorize" => e.amount = Owed(e.order, e.op)
  /\ e.op = "prepay" => plan[e.order].prepay > 0
  /\ e.op = "charge" => plan[e.order].balance = "deferred"

IntentsInv ==
  /\ intents \in Seq(IntentRecord) /\ Len(intents) <= MaxIntents
  /\ \A i \in 1..Len(intents) : AsPlanned(intents[i])
  /\ keyed => \A i \in 1..Len(intents) :
       intents[i].key = <<intents[i].order, intents[i].op, intents[i].key[3]>>
  /\ keyed => \A i, j \in 1..Len(intents) : i # j => intents[i].key # intents[j].key
  /\ ~keyed => \A i \in 1..Len(intents) : intents[i].key = NoKey

\* A key of list L is an attempt the caller of declines D knows of, and all but the
\* last attempt were declined.
Known(L, D) ==
  \A i \in 1..Len(L) :
    /\ L[i].key[3] \in 0..D[L[i].order][L[i].op]
    /\ L[i].key[3] # D[L[i].order][L[i].op] => L[i].status = "declined"

AttemptsInv == keyed => Known(intents, declines)

RefundsInv ==
  /\ refunds \in Seq(RefundRecord)
  /\ \A r \in 1..Len(refunds) : refunds[r].intent \in 1..Len(intents)
  /\ keyed => \A r \in 1..Len(refunds) :
       refunds[r].key = <<intents[refunds[r].intent].order, "refund", refunds[r].intent>>
  /\ keyed => \A r, q \in 1..Len(refunds) : r # q => refunds[r].key # refunds[q].key

\* The service's own state.
ServiceInv ==
  /\ keyed \in BOOLEAN /\ plan \in [Orders -> Plans]
  /\ tokens \in [Orders -> SUBSET PaymentToken]
  /\ DOMAIN audit = Orders
  /\ declines \in [Orders -> [Operations -> Nat]]
  /\ lost \in 0..MaxLost /\ repeats \in 0..MaxRepeats

\* What TokensAreBacked says of one token, and which entry an authorization has.
Backed(o, token) ==
  /\ \E entry \in audit[o] : entry[2] = token[2]
  /\ \/ token[1] = "receipt_ref" /\ token[2] = 0
     \/ /\ token[1] = "payment_intent" /\ token[2] \in 1..Len(intents)
        /\ intents[token[2]].order = o /\ intents[token[2]].kind = "payment"
        /\ intents[token[2]].status # "declined"
        /\ intents[token[2]].status \in PaymentStatus
     \/ /\ token[1] = "setup_intent" /\ token[2] \in 1..Len(intents)
        /\ intents[token[2]].order = o /\ intents[token[2]].kind = "setup"
        /\ intents[token[2]].status # "declined"
        /\ <<"payment.deferred_authorized", token[2]>> \in audit[o]

AllBacked == \A o \in Orders : \A token \in tokens[o] : Backed(o, token)

\* The strengthening of MoneyMovesOnce, TokensAreBacked and ChargesAreAuthorized.
PInv ==
  /\ ServiceInv /\ IntentsInv /\ AttemptsInv /\ RefundsInv
  /\ AllBacked /\ ChargesAreAuthorized

-----------------------------------------------------------------------------
\* What a plan says.
LEMMA PlanFacts ==
  ASSUME NEW pl \in Plans
  PROVE  /\ pl.total \in Nat /\ pl.prepay \in Nat /\ pl.prepay <= pl.total
         /\ pl.total - pl.prepay \in Nat
         /\ pl.balance \in {"none", "deferred", "in_person"}
         /\ pl.balance = "none" => pl.prepay = pl.total
<1>1. /\ pl \in [total : Totals, prepay : 0..Max(Totals), via : {"route", "flow"},
                 balance : {"none", "deferred", "in_person"}]
      /\ \/ pl.prepay = pl.total /\ pl.balance = "none"
         \/ pl.prepay = 0 /\ pl.balance # "none"
         \/ 0 < pl.prepay /\ pl.prepay < pl.total /\ pl.balance # "none"
  BY DEF Plans, validate_mixed_split
<1>2. /\ pl.total \in Nat /\ pl.prepay \in 0..Max(Totals)
      /\ pl.balance \in {"none", "deferred", "in_person"}
  BY <1>1, PaymentAssumption
<1>3. pl.prepay \in Int
  BY <1>2
<1> QED
  BY <1>1, <1>2, <1>3

LEMMA OwedFacts ==
  ASSUME ServiceInv, NEW o \in Orders, NEW op
  PROVE  Owed(o, op) \in Nat
  BY PlanFacts DEF ServiceInv, Owed

\* The gateway's answer to a request for an intent: it is about an intent of that
\* order and operation, and the intents there were are still there.
LEMMA IntentFacts ==
  ASSUME PInv, NEW o \in Orders, NEW op \in Operations, NEW amount \in Nat,
         NEW i \in 1..(Len(intents) + 1), Intent(o, op, KindOf(op), amount, i),
         UNCHANGED <<keyed, plan>>,
         AsPlanned([order |-> o, op |-> op, kind |-> KindOf(op), amount |-> amount])
  PROVE  /\ IntentsInv'
         /\ Len(intents) <= Len(intents') /\ Len(intents) \in Nat /\ Len(intents') \in Nat
         /\ \A j \in 1..Len(intents) : intents'[j] = intents[j]
         /\ i \in 1..Len(intents') /\ \A j \in 1..Len(intents') : j \in 1..Len(intents) \/ j = i
         /\ intents'[i].order = o /\ intents'[i].op = op /\ intents'[i].kind = KindOf(op)
         /\ keyed => Known(intents', declines) /\ intents'[i].key = <<o, op, declines[o][op]>>
<1> DEFINE n == declines[o][op]
           key == KeyOf(o, op, n)
<1>0. n \in Nat
  BY DEF PInv, ServiceInv
<1>1. intents \in Seq(IntentRecord) /\ Len(intents) \in Nat
  BY DEF PInv, IntentsInv
<1>2. key \in Keys /\ (keyed => key = <<o, op, n>>) /\ (~keyed => key = NoKey) /\ (key = NoKey <=> ~keyed)
  BY <1>0 DEF KeyOf, NoKey, Keys, Operations, PInv, ServiceInv
<1>3. CASE i \in Made(intents, key) /\ UNCHANGED intents
  <2>1. i \in 1..Len(intents) /\ keyed /\ intents[i].key = <<o, op, n>>
    BY <1>2, <1>3 DEF Made
  <2>2. <<intents[i].order, intents[i].op, intents[i].key[3]>> = <<o, op, n>>
    BY <2>1 DEF PInv, IntentsInv
  <2>3. intents[i].order = o /\ intents[i].op = op
    BY <2>2
  <2>4. IntentsInv'
    BY <1>3 DEF PInv, IntentsInv, AsPlanned, Owed
  <2>5. keyed => Known(intents', declines)
    BY <1>3 DEF PInv, AttemptsInv
  <2>6. intents[i].kind = KindOf(op)
    BY <2>1, <2>3 DEF PInv, IntentsInv, AsPlanned
  <2> QED
    BY <1>1, <1>3, <2>1, <2>3, <2>4, <2>5, <2>6
<1>4. CASE /\ Made(intents, key) = {} /\ i = Len(intents) + 1 /\ i <= MaxIntents
           /\ \E s \in Statuses :
                intents' = Append(intents, [order |-> o, op |-> op, kind |-> KindOf(op),
                                            amount |-> amount, status |-> s, key |-> key])
  <2>1. PICK s \in Statuses :
          intents' = Append(intents, [order |-> o, op |-> op, kind |-> KindOf(op),
                                      amount |-> amount, status |-> s, key |-> key])
    BY <1>4
  <2> DEFINE e == [order |-> o, op |-> op, kind |-> KindOf(op), amount |-> amount,
                   status |-> s, key |-> key]
  <2>2. e \in IntentRecord
    BY <1>2 DEF IntentRecord, KindOf
  <2>3. e.order = o /\ e.op = op /\ e.kind = KindOf(op) /\ e.amount = amount /\ e.key = key
    OBVIOUS
  <2>4. AsPlanned(e)
    BY <2>3 DEF AsPlanned
  <2>5. intents' = Append(intents, e)
    BY <2>1
  <2> HIDE DEF e, key, n
  <2>6. /\ intents' \in Seq(IntentRecord) /\ Len(intents') = Len(intents) + 1
        /\ \A j \in 1..Len(intents) : intents'[j] = intents[j]
        /\ intents'[i] = e
    BY <1>1, <1>4, <2>2, <2>5
  <2>7. \A j \in 1..Len(intents') : j \in 1..Len(intents) \/ j = i
    BY <1>1, <1>4, <2>6
  <2>8. (\A j \in 1..Len(intents) : AsPlanned(intents[j]))'
    BY <2>4, <2>6, <2>7 DEF PInv, IntentsInv, AsPlanned, Owed
  <2>9. \A j \in 1..Len(intents) : keyed => intents[j].key # key
    BY <1>2, <1>4 DEF Made
  <2>10. keyed' => \A j \in 1..Len(intents') :
                     intents'[j].key = <<intents'[j].order, intents'[j].op, intents'[j].key[3]>>
    <3> SUFFICES ASSUME keyed, NEW j \in 1..Len(intents')
                 PROVE  intents'[j].key = <<intents'[j].order, intents'[j].op, intents'[j].key[3]>>
      OBVIOUS
    <3>1. CASE j \in 1..Len(intents)
      BY <2>6, <3>1 DEF PInv, IntentsInv
    <3>2. CASE j = i
      <4>1. e.key = <<o, op, n>> /\ e.key[3] = n
        BY <1>2, <2>3
      <4> QED
        BY <2>3, <2>6, <3>2, <4>1
    <3> QED
      BY <2>7, <3>1, <3>2
  <2>11. keyed' => \A j, k \in 1..Len(intents') : j # k => intents'[j].key # intents'[k].key
    BY <2>3, <2>6, <2>7, <2>9 DEF PInv, IntentsInv
  <2>12. ~keyed' => \A j \in 1..Len(intents') : intents'[j].key = NoKey
    BY <1>2, <2>3, <2>6, <2>7 DEF PInv, IntentsInv
  <2>13. Len(intents') <= MaxIntents
    BY <1>4, <2>6
  <2>14. IntentsInv'
    BY <2>6, <2>8, <2>10, <2>11, <2>12, <2>13 DEF IntentsInv
  <2>15. ASSUME keyed PROVE Known(intents', declines) /\ e.key = <<o, op, n>>
    <3>1. e.key = <<o, op, n>> /\ e.key[3] = n
      BY <1>2, <2>3, <2>15
    <3>2. ASSUME NEW j \in 1..Len(intents')
          PROVE  /\ intents'[j].key[3] \in 0..declines[intents'[j].order][intents'[j].op]
                 /\ intents'[j].key[3] # declines[intents'[j].order][intents'[j].op]
                      => intents'[j].status = "declined"
      <4>1. CASE j \in 1..Len(intents)
        BY <2>6, <2>15, <4>1 DEF PInv, AttemptsInv, Known
      <4>2. CASE j = i
        <5>1. intents'[j].key[3] = n /\ declines[intents'[j].order][intents'[j].op] = n
          BY <2>3, <2>6, <3>1, <4>2 DEF n
        <5> QED
          BY <1>0, <5>1
      <4> QED
        BY <2>7, <4>1, <4>2
    <3> QED
      BY <3>1, <3>2 DEF Known
  <2>16. i \in 1..Len(intents')
    BY <1>1, <1>4, <2>6
  <2> QED
    BY <1>1, <2>3, <2>6, <2>7, <2>14, <2>15, <2>16 DEF n
<1> QED
  BY <1>3, <1>4 DEF Intent, IntentHeader

\* What a call adds to the caller's count of declines: nothing, or one for the
\* attempt that was just declined, whose key no other attempt has.
LEMMA AttemptsKeep ==
  ASSUME PInv, IntentsInv', keyed' = keyed, NEW o \in Orders, NEW op \in Operations,
         NEW i, i \in 1..Len(intents'), intents'[i].order = o, intents'[i].op = op,
         keyed => Known(intents', declines) /\ intents'[i].key = <<o, op, declines[o][op]>>,
         \/ declines' = declines
         \/ /\ intents'[i].status = "declined"
            /\ declines' = [declines EXCEPT ![o][op] = @ + 1]
  PROVE  AttemptsInv' /\ declines' \in [Orders -> [Operations -> Nat]]
<1>1. declines \in [Orders -> [Operations -> Nat]]
  BY DEF PInv, ServiceInv
<1>2. declines' \in [Orders -> [Operations -> Nat]]
  <2>1. declines[o] \in [Operations -> Nat]
    BY <1>1
  <2>2. [declines[o] EXCEPT ![op] = @ + 1] \in [Operations -> Nat]
    BY <2>1
  <2> DEFINE g == [declines[o] EXCEPT ![op] = @ + 1]
  <2>3. declines' = declines \/ declines' = [declines EXCEPT ![o] = g]
    OBVIOUS
  <2> HIDE DEF g
  <2> QED
    BY <1>1, <2>2, <2>3 DEF g
<1>3. CASE declines' = declines
  BY <1>2, <1>3 DEF AttemptsInv
<1>4. CASE /\ intents'[i].status = "declined"
           /\ declines' = [declines EXCEPT ![o][op] = @ + 1]
  <2> SUFFICES ASSUME keyed, NEW j \in 1..Len(intents')
               PROVE  /\ intents'[j].key[3] \in 0..declines'[intents'[j].order][intents'[j].op]
                      /\ intents'[j].key[3] # declines'[intents'[j].order][intents'[j].op]
                           => intents'[j].status = "declined"
    BY <1>2 DEF AttemptsInv, Known
  <2> DEFINE e == intents'[j]
             n == declines[o][op]
  <2>1. /\ e \in IntentRecord /\ e.order \in Orders /\ e.op \in Operations
        /\ e.key = <<e.order, e.op, e.key[3]>>
    <3>1. e \in IntentRecord
      BY DEF IntentsInv
    <3> QED
      BY <3>1 DEF IntentsInv, IntentRecord
  <2>2. /\ e.key[3] \in 0..declines[e.order][e.op]
        /\ e.key[3] # declines[e.order][e.op] => e.status = "declined"
    BY DEF Known
  <2>3. n \in Nat /\ declines'[o][op] = n + 1
    BY <1>1, <1>4
  <2>4. ~ (e.order = o /\ e.op = op) => declines'[e.order][e.op] = declines[e.order][e.op]
    BY <1>1, <1>4, <2>1
  <2>5. intents'[i].key = <<o, op, n>>
    OBVIOUS
  <2>6. \A k, l \in 1..Len(intents') : k # l => intents'[k].key # intents'[l].key
    BY DEF IntentsInv
  <2> HIDE DEF e, n
  <2>7. CASE e.order = o /\ e.op = op
    <3>1. e.key[3] \in 0..n /\ (e.key[3] # n => e.status = "declined")
      BY <2>2, <2>7 DEF n
    <3>2. CASE e.key[3] = n
      <4>1. e.key = intents'[i].key
        BY <2>1, <2>5, <2>7, <3>2
      <4>2. i = j
        BY <2>6, <4>1 DEF e
      <4> QED
        BY <1>4, <2>3, <2>7, <3>2, <4>2 DEF e
    <3>3. CASE e.key[3] # n
      BY <2>3, <2>7, <3>1, <3>3 DEF e
    <3> QED
      BY <3>2, <3>3
  <2>8. CASE ~ (e.order = o /\ e.op = op)
    BY <2>2, <2>4, <2>8 DEF e
  <2> QED
    BY <2>7, <2>8
<1> QED
  BY <1>3, <1>4

\* Charges stay authorized: the intents there were keep their place, and a new one
\* is no charge, or its authorization was there.
LEMMA ChargesKeep ==
  ASSUME PInv, Len(intents) \in Nat, Len(intents') \in Nat, Len(intents) <= Len(intents'),
         \A j \in 1..Len(intents) : intents'[j] = intents[j],
         NEW i, \A j \in 1..Len(intents') : j \in 1..Len(intents) \/ j = i,
         \A u \in Orders : audit[u] \subseteq audit'[u],
         \/ intents'[i].op # "charge"
         \/ \E k \in 1..Len(intents) :
              /\ intents[k].order = intents'[i].order /\ intents[k].op = "authorize"
              /\ intents[k].status # "declined"
              /\ <<"payment.deferred_authorized", k>> \in audit'[intents'[i].order]
  PROVE  ChargesAreAuthorized'
<1> SUFFICES ASSUME NEW j \in 1..Len(intents'), intents'[j].op = "charge"
             PROVE  \E k \in 1..(j - 1) :
                      /\ intents'[k].order = intents'[j].order /\ intents'[k].op = "authorize"
                      /\ intents'[k].status # "declined"
                      /\ <<"payment.deferred_authorized", k>> \in audit'[intents'[j].order]
  BY DEF ChargesAreAuthorized
<1>1. CASE j \in 1..Len(intents)
  <2>1. intents'[j] = intents[j]
    BY <1>1
  <2>2. PICK k \in 1..(j - 1) :
          /\ intents[k].order = intents[j].order /\ intents[k].op = "authorize"
          /\ intents[k].status # "declined"
          /\ <<"payment.deferred_authorized", k>> \in audit[intents[j].order]
    BY <1>1, <2>1 DEF PInv, ChargesAreAuthorized
  <2>3. k \in 1..Len(intents) /\ intents'[k] = intents[k]
    BY <1>1
  <2>4. intents[j] \in IntentRecord
    BY <1>1 DEF PInv, IntentsInv
  <2>5. intents[j].order \in Orders
    BY <2>4 DEF IntentRecord
  <2>6. <<"payment.deferred_authorized", k>> \in audit'[intents'[j].order]
    BY <2>1, <2>2, <2>5
  <2> QED
    BY <2>1, <2>2, <2>3, <2>6
<1>2. CASE j \notin 1..Len(intents)
  <2>1. j = i /\ j > Len(intents)
    BY <1>2
  <2>2. PICK k \in 1..Len(intents) :
          /\ intents[k].order = intents'[i].order /\ intents[k].op = "authorize"
          /\ intents[k].status # "declined"
          /\ <<"payment.deferred_authorized", k>> \in audit'[intents'[i].order]
    BY <2>1
  <2>3. k \in 1..(j - 1) /\ intents'[k] = intents[k]
    BY <2>1
  <2> QED
    BY <2>1, <2>2, <2>3
<1> QED
  BY <1>1, <1>2

\* Refunds stay what they are when intents are added.
LEMMA RefundsKeep ==
  ASSUME RefundsInv, Len(intents) \in Nat, Len(intents') \in Nat,
         Len(intents) <= Len(intents'),
         \A j \in 1..Len(intents) : intents'[j] = intents[j],
         UNCHANGED <<keyed, refunds>>
  PROVE  RefundsInv'
<1>1. refunds' = refunds /\ keyed' = keyed
  OBVIOUS
<1>2. \A r \in 1..Len(refunds) :
        /\ refunds[r].intent \in 1..Len(intents)
        /\ refunds[r].intent \in 1..Len(intents')
        /\ intents'[refunds[r].intent] = intents[refunds[r].intent]
  BY DEF RefundsInv
<1>3. keyed => \A r \in 1..Len(refunds) :
        refunds[r].key = <<intents'[refunds[r].intent].order, "refund", refunds[r].intent>>
  BY <1>2 DEF RefundsInv
<1> QED
  BY <1>1, <1>2, <1>3 DEF RefundsInv

-----------------------------------------------------------------------------
(* Tokens.                                                                 *)

\* Charges stay authorized when no intent is added.
LEMMA UnchangedIntentsKeep ==
  ASSUME PInv, intents' = intents, \A u \in Orders : audit[u] \subseteq audit'[u]
  PROVE  ChargesAreAuthorized'
<1>1. \A i \in 1..Len(intents) : intents[i] \in IntentRecord
  BY DEF PInv, IntentsInv
<1>2. \A i \in 1..Len(intents) : intents[i].order \in Orders
  BY <1>1 DEF IntentRecord
<1> SUFFICES ASSUME NEW i \in 1..Len(intents), intents[i].op = "charge"
             PROVE  \E j \in 1..(i - 1) :
                      /\ intents[j].order = intents[i].order /\ intents[j].op = "authorize"
                      /\ intents[j].status # "declined"
                      /\ <<"payment.deferred_authorized", j>> \in audit'[intents[i].order]
  BY DEF ChargesAreAuthorized
<1> QED
  BY <1>2 DEF PInv, ChargesAreAuthorized

\* A token stays backed while intents and audit entries are only added.
LEMMA BackedStays ==
  ASSUME Len(intents) \in Nat, Len(intents') \in Nat, Len(intents) <= Len(intents'),
         \A j \in 1..Len(intents) : intents'[j] = intents[j],
         NEW o \in Orders, audit[o] \subseteq audit'[o], NEW token, Backed(o, token)
  PROVE  Backed(o, token)'
<1>1. /\ \E entry \in audit'[o] : entry[2] = token[2]
      /\ \A entry : entry \in audit[o] => entry \in audit'[o]
  BY DEF Backed
<1>2. token[2] \in 1..Len(intents) =>
        token[2] \in 1..Len(intents') /\ intents'[token[2]] = intents[token[2]]
  OBVIOUS
<1> QED
  BY <1>1, <1>2 DEF Backed

\* The service's part of a call keeps tokens backed: it leaves the tokens alone, or
\* stores one that is backed for the order of the call.
LEMMA StepKeepsBacked ==
  ASSUME PInv, Len(intents) \in Nat, Len(intents') \in Nat, Len(intents) <= Len(intents'),
         \A j \in 1..Len(intents) : intents'[j] = intents[j],
         NEW o \in Orders, \A u \in Orders : audit[u] \subseteq audit'[u],
         NEW token, tokens' = tokens \/ (tokens' = [tokens EXCEPT ![o] = @ \cup {token}]
                                         /\ Backed(o, token)')
  PROVE  AllBacked'
<1>1. \A u \in Orders : \A tk \in tokens[u] : Backed(u, tk)
  BY DEF PInv, AllBacked
<1>2. ASSUME NEW u \in Orders, NEW tk \in tokens'[u] PROVE Backed(u, tk)'
  <2>1. CASE tk \in tokens[u]
    <3>1. Backed(u, tk)
      BY <1>1, <2>1
    <3> QED
      BY <3>1, BackedStays
  <2>2. CASE tk \notin tokens[u]
    <3>1. u = o /\ tk = token /\ tokens' # tokens
      BY <1>2, <2>2 DEF PInv, ServiceInv
    <3> QED
      BY <3>1
  <2> QED
    BY <2>1, <2>2
<1>3. (\A u \in Orders : \A tk \in tokens[u] : Backed(u, tk))'
  BY <1>2
<1> QED
  BY <1>3 DEF AllBacked

-----------------------------------------------------------------------------
(* The steps.                                                              *)

LEMMA InitPInv == Init => PInv
<1> SUFFICES ASSUME Init PROVE PInv
  OBVIOUS
<1>1. ServiceInv
  BY PaymentAssumption DEF Init, ServiceInv
<1>2. <<>> \in Seq(IntentRecord) /\ <<>> \in Seq(RefundRecord) /\ Len(<<>>) = 0
  OBVIOUS
<1>3. IntentsInv /\ RefundsInv /\ AttemptsInv /\ ChargesAreAuthorized
  BY <1>2, PaymentAssumption
     DEF Init, IntentsInv, RefundsInv, AttemptsInv, Known, ChargesAreAuthorized
<1>4. AllBacked
  BY DEF Init, AllBacked
<1> QED
  BY <1>1, <1>3, <1>4 DEF PInv

\* What every call leaves of the service's state.
LEMMA ServiceKeeps ==
  ASSUME PInv, NEW o \in Orders, NEW op, NEW i, Calls(o, op, i), UNCHANGED <<keyed, plan>>,
         declines' \in [Orders -> [Operations -> Nat]],
         \/ AnswerLost
         \/ /\ lost' = lost
            /\ audit' = audit \/ \E e : audit' = [audit EXCEPT ![o] = @ \cup {e}]
            /\ tokens' = tokens \/ \E token \in PaymentToken :
                                     tokens' = [tokens EXCEPT ![o] = @ \cup {token}]
  PROVE  ServiceInv' /\ \A u \in Orders : audit[u] \subseteq audit'[u]
<1>1. repeats' \in 0..MaxRepeats
  BY PaymentAssumption DEF PInv, ServiceInv, Calls
<1>2. lost' \in 0..MaxLost
  BY PaymentAssumption DEF PInv, ServiceInv, AnswerLost
<1>3. DOMAIN audit' = Orders /\ \A u \in Orders : audit[u] \subseteq audit'[u]
  BY DEF PInv, ServiceInv, AnswerLost
<1>4. tokens' \in [Orders -> SUBSET PaymentToken]
  BY DEF PInv, ServiceInv, AnswerLost
<1> QED
  BY <1>1, <1>2, <1>3, <1>4 DEF PInv, ServiceInv

LEMMA PrepayKeeps ==
  ASSUME PInv, NEW o \in Orders, online_prepay(o)
  PROVE  PInv'
<1>1. PICK i \in 1..(Len(intents) + 1) :
        /\ create_payment_intent(o, i)
        /\ \/ AnswerLost
           \/ Declined(o, "prepay", i)
           \/ Accepted(i) /\ IntentAnswered(o, i)
  BY DEF online_prepay
<1>2. Calls(o, "prepay", 0) /\ UNCHANGED <<keyed, plan, refunds>> /\ plan[o].prepay > 0
  BY DEF online_prepay
<1>3. /\ Intent(o, "prepay", KindOf("prepay"), Owed(o, "prepay"), i)
      /\ AsPlanned([order |-> o, op |-> "prepay", kind |-> KindOf("prepay"),
                    amount |-> Owed(o, "prepay")])
      /\ Owed(o, "prepay") \in Nat
  BY <1>1, <1>2, OwedFacts DEF create_payment_intent, KindOf, AsPlanned, PInv
<1>4. /\ IntentsInv'
      /\ Len(intents) <= Len(intents') /\ Len(intents) \in Nat /\ Len(intents') \in Nat
      /\ \A j \in 1..Len(intents) : intents'[j] = intents[j]
      /\ i \in 1..Len(intents') /\ \A j \in 1..Len(intents') : j \in 1..Len(intents) \/ j = i
      /\ intents'[i].order = o /\ intents'[i].op = "prepay" /\ intents'[i].kind = "payment"
      /\ keyed => /\ Known(intents', declines)
                  /\ intents'[i].key = <<o, "prepay", declines[o]["prepay"]>>
  BY <1>2, <1>3, IntentFacts DEF Operations, KindOf
<1>11. AttemptsInv' /\ declines' \in [Orders -> [Operations -> Nat]]
  <2>1. \/ declines' = declines
        \/ /\ intents'[i].status = "declined"
           /\ declines' = [declines EXCEPT ![o]["prepay"] = @ + 1]
    BY <1>1 DEF AnswerLost, Declined, Accepted
  <2> QED
    BY <1>2, <1>4, <2>1, AttemptsKeep DEF Operations
<1>5. RefundsInv'
  BY <1>2, <1>4, RefundsKeep DEF PInv
<1>6. <<"payment_intent", i>> \in PaymentToken
  <2>1. i \in 0..MaxIntents
    BY <1>4, PaymentAssumption DEF IntentsInv
  <2> QED
    BY <2>1 DEF PaymentToken, TokenType
<1>7. \/ AnswerLost
      \/ /\ lost' = lost
         /\ audit' = [audit EXCEPT ![o] = @ \cup {<<"payment.created", i>>}]
         /\ \/ tokens' = tokens
            \/ /\ tokens' = [tokens EXCEPT ![o] = @ \cup {<<"payment_intent", i>>}]
               /\ intents'[i].status \in PaymentStatus /\ intents'[i].status # "declined"
      \/ lost' = lost /\ audit' = audit /\ tokens' = tokens
  BY <1>1 DEF IntentAnswered, Logs, store, Declined, Accepted
<1>8. ServiceInv' /\ \A u \in Orders : audit[u] \subseteq audit'[u]
  <2>1. \/ AnswerLost
        \/ /\ lost' = lost
           /\ audit' = audit \/ \E e : audit' = [audit EXCEPT ![o] = @ \cup {e}]
           /\ tokens' = tokens \/ \E token \in PaymentToken :
                                    tokens' = [tokens EXCEPT ![o] = @ \cup {token}]
    BY <1>6, <1>7
  <2> QED
    BY <1>2, <1>11, <2>1, ServiceKeeps
<1> DEFINE token == <<"payment_intent", i>>
<1>9. tokens' = tokens \/ (tokens' = [tokens EXCEPT ![o] = @ \cup {token}] /\ Backed(o, token)')
  <2>1. CASE AnswerLost
    BY <2>1 DEF AnswerLost
  <2>2. CASE /\ audit' = [audit EXCEPT ![o] = @ \cup {<<"payment.created", i>>}]
             /\ tokens' = [tokens EXCEPT ![o] = @ \cup {<<"payment_intent", i>>}]
             /\ intents'[i].status \in PaymentStatus /\ intents'[i].status # "declined"
    <3>1. \E entry \in audit'[o] : entry[2] = token[2]
      <4>1. <<"payment.created", i>> \in audit'[o]
        BY <2>2 DEF PInv, ServiceInv
      <4>2. <<"payment.created", i>>[2] = token[2]
        OBVIOUS
      <4> QED
        BY <4>1, <4>2, Zenon
    <3> QED
      BY <1>4, <2>2, <3>1 DEF Backed
  <2> QED
    BY <1>7, <2>1, <2>2
<1> HIDE DEF token
<1>10. AllBacked'
  BY <1>4, <1>8, <1>9, StepKeepsBacked
<1>12. ChargesAreAuthorized'
  BY <1>4, <1>8, ChargesKeep
<1> QED
  BY <1>4, <1>5, <1>8, <1>10, <1>11, <1>12 DEF PInv

LEMMA AuthorizeKeeps ==
  ASSUME PInv, NEW o \in Orders, authorize_deferred(o)
  PROVE  PInv'
<1>1. PICK i \in 1..(Len(intents) + 1) :
        /\ create_setup_intent(o, i)
        /\ \/ AnswerLost
           \/ Declined(o, "authorize", i)
           \/ /\ Accepted(i)
              /\ store(o, "setup_intent", i)
              /\ Logs(o, "payment.deferred_authorized", i)
  BY DEF authorize_deferred
<1>2. Calls(o, "authorize", 0) /\ UNCHANGED <<keyed, plan, refunds>>
  BY DEF authorize_deferred
<1>3. /\ Intent(o, "authorize", KindOf("authorize"), 0, i)
      /\ AsPlanned([order |-> o, op |-> "authorize", kind |-> KindOf("authorize"),
                    amount |-> 0])
  BY <1>1 DEF create_setup_intent, KindOf, AsPlanned
<1>4. /\ IntentsInv'
      /\ Len(intents) <= Len(intents') /\ Len(intents) \in Nat /\ Len(intents') \in Nat
      /\ \A j \in 1..Len(intents) : intents'[j] = intents[j]
      /\ i \in 1..Len(intents') /\ \A j \in 1..Len(intents') : j \in 1..Len(intents) \/ j = i
      /\ intents'[i].order = o /\ intents'[i].op = "authorize" /\ intents'[i].kind = "setup"
      /\ keyed => /\ Known(intents', declines)
                  /\ intents'[i].key = <<o, "authorize", declines[o]["authorize"]>>
  BY <1>2, <1>3, IntentFacts DEF Operations, KindOf
<1>11. AttemptsInv' /\ declines' \in [Orders -> [Operations -> Nat]]
  <2>1. \/ declines' = declines
        \/ /\ intents'[i].status = "declined"
           /\ declines' = [declines EXCEPT ![o]["authorize"] = @ + 1]
    BY <1>1 DEF AnswerLost, Declined, Accepted
  <2> QED
    BY <1>2, <1>4, <2>1, AttemptsKeep DEF Operations
<1>5. RefundsInv'
  BY <1>2, <1>4, RefundsKeep DEF PInv
<1> DEFINE token == <<"setup_intent", i>>
<1>6. token \in PaymentToken
  <2>1. i \in 0..MaxIntents
    BY <1>4, PaymentAssumption DEF IntentsInv
  <2> QED
    BY <2>1 DEF PaymentToken, TokenType
<1>7. \/ AnswerLost
      \/ /\ lost' = lost
         /\ audit' = [audit EXCEPT ![o] = @ \cup {<<"payment.deferred_authorized", i>>}]
         /\ tokens' = [tokens EXCEPT ![o] = @ \cup {token}]
         /\ intents'[i].status # "declined"
      \/ lost' = lost /\ audit' = audit /\ tokens' = tokens
  BY <1>1 DEF Logs, store, Declined, Accepted
<1>8. ServiceInv' /\ \A u \in Orders : audit[u] \subseteq audit'[u]
  <2>1. \/ AnswerLost
        \/ /\ lost' = lost
           /\ audit' = audit \/ \E e : audit' = [audit EXCEPT ![o] = @ \cup {e}]
           /\ tokens' = tokens \/ \E tk \in PaymentToken :
                                    tokens' = [tokens EXCEPT ![o] = @ \cup {tk}]
    BY <1>6, <1>7
  <2> QED
    BY <1>2, <1>11, <2>1, ServiceKeeps
<1>9. tokens' = tokens \/ (tokens' = [tokens EXCEPT ![o] = @ \cup {token}] /\ Backed(o, token)')
  <2>1. CASE AnswerLost
    BY <2>1 DEF AnswerLost
  <2>2. CASE /\ audit' = [audit EXCEPT ![o] = @ \cup {<<"payment.deferred_authorized", i>>}]
             /\ tokens' = [tokens EXCEPT ![o] = @ \cup {token}]
             /\ intents'[i].status # "declined"
    <3>1. <<"payment.deferred_authorized", i>> \in audit'[o]
      BY <2>2 DEF PInv, ServiceInv
    <3>2. \E entry \in audit'[o] : entry[2] = token[2]
      <4>1. <<"payment.deferred_authorized", i>>[2] = token[2]
        OBVIOUS
      <4> QED
        BY <3>1, <4>1, Zenon
    <3> QED
      BY <1>4, <2>2, <3>1, <3>2 DEF Backed
  <2> QED
    BY <1>7, <2>1, <2>2
<1> HIDE DEF token
<1>10. AllBacked'
  BY <1>4, <1>8, <1>9, StepKeepsBacked
<1>12. ChargesAreAuthorized'
  BY <1>4, <1>8, ChargesKeep
<1> QED
  BY <1>4, <1>5, <1>8, <1>10, <1>11, <1>12 DEF PInv

LEMMA ChargeKeeps ==
  ASSUME PInv, NEW o \in Orders, charge_deferred(o)
  PROVE  PInv'
<1>1. PICK i \in 1..(Len(intents) + 1) :
        /\ charge_from_token(o, i)
        /\ \/ AnswerLost
           \/ Declined(o, "charge", i)
           \/ Accepted(i) /\ Logs(o, "payment.deferred_charged", i) /\ UNCHANGED tokens
  BY DEF charge_deferred
<1>2. /\ Calls(o, "charge", 0) /\ UNCHANGED <<keyed, plan, refunds>>
      /\ plan[o].balance = "deferred"
      /\ \E token \in tokens[o] : token[1] = "setup_intent"
  BY DEF charge_deferred, Chargeable
<1>3. /\ Intent(o, "charge", KindOf("charge"), Owed(o, "charge"), i)
      /\ AsPlanned([order |-> o, op |-> "charge", kind |-> KindOf("charge"),
                    amount |-> Owed(o, "charge")])
      /\ Owed(o, "charge") \in Nat
  BY <1>1, <1>2, OwedFacts DEF charge_from_token, KindOf, AsPlanned, PInv
<1>4. /\ IntentsInv'
      /\ Len(intents) <= Len(intents') /\ Len(intents) \in Nat /\ Len(intents') \in Nat
      /\ \A j \in 1..Len(intents) : intents'[j] = intents[j]
      /\ i \in 1..Len(intents') /\ \A j \in 1..Len(intents') : j \in 1..Len(intents) \/ j = i
      /\ intents'[i].order = o /\ intents'[i].op = "charge"
      /\ keyed => /\ Known(intents', declines)
                  /\ intents'[i].key = <<o, "charge", declines[o]["charge"]>>
  BY <1>2, <1>3, IntentFacts DEF Operations
<1>9. AttemptsInv' /\ declines' \in [Orders -> [Operations -> Nat]]
  <2>1. \/ declines' = declines
        \/ /\ intents'[i].status = "declined"
           /\ declines' = [declines EXCEPT ![o]["charge"] = @ + 1]
    BY <1>1 DEF AnswerLost, Declined, Accepted
  <2> QED
    BY <1>2, <1>4, <2>1, AttemptsKeep DEF Operations
<1>5. RefundsInv'
  BY <1>2, <1>4, RefundsKeep DEF PInv
<1>6. tokens' = tokens
  BY <1>1 DEF AnswerLost, Declined
<1>7. ServiceInv' /\ \A u \in Orders : audit[u] \subseteq audit'[u]
  <2>1. \/ AnswerLost
        \/ /\ lost' = lost /\ tokens' = tokens
           /\ audit' = audit \/ \E e : audit' = [audit EXCEPT ![o] = @ \cup {e}]
    BY <1>1 DEF Logs, Declined, Accepted
  <2> QED
    BY <1>2, <1>9, <2>1, ServiceKeeps
<1>8. AllBacked'
  BY <1>4, <1>6, <1>7, StepKeepsBacked
<1>10. ChargesAreAuthorized'
  <2>1. PICK token \in tokens[o] : token[1] = "setup_intent"
    BY <1>2
  <2>2. Backed(o, token)
    BY <2>1 DEF PInv, AllBacked
  <2> DEFINE k == token[2]
  <2>3. /\ k \in 1..Len(intents) /\ intents[k].order = o /\ intents[k].kind = "setup"
        /\ intents[k].status # "declined"
        /\ <<"payment.deferred_authorized", k>> \in audit[o]
    BY <2>1, <2>2 DEF Backed
  <2> HIDE DEF k
  <2>4. intents[k].op = "authorize"
    BY <2>3 DEF PInv, IntentsInv, AsPlanned, KindOf
  <2>5. <<"payment.deferred_authorized", k>> \in audit'[o]
    BY <1>7, <2>3
  <2> QED
    BY <1>4, <1>7, <2>3, <2>4, <2>5, ChargesKeep
<1> QED
  BY <1>4, <1>5, <1>7, <1>8, <1>9, <1>10 DEF PInv

LEMMA ReceiptKeeps ==
  ASSUME PInv, NEW o \in Orders, record_in_person(o)
  PROVE  PInv'
<1> DEFINE token == <<"receipt_ref", 0>>
<1>1. /\ Calls(o, "receipt", 0) /\ UNCHANGED <<keyed, plan, intents, refunds, declines, lost>>
      /\ tokens' = [tokens EXCEPT ![o] = @ \cup {token}]
      /\ audit' = [audit EXCEPT ![o] = @ \cup {<<"payment.in_person_recorded", 0>>}]
  BY DEF record_in_person, store, Logs
<1>2. token \in PaymentToken
  BY PaymentAssumption DEF PaymentToken, TokenType
<1>3. ServiceInv' /\ \A u \in Orders : audit[u] \subseteq audit'[u]
  <2>1. /\ lost' = lost
        /\ audit' = audit \/ \E e : audit' = [audit EXCEPT ![o] = @ \cup {e}]
        /\ tokens' = tokens \/ \E tk \in PaymentToken :
                                 tokens' = [tokens EXCEPT ![o] = @ \cup {tk}]
    BY <1>1, <1>2
  <2>2. /\ Calls(o, "receipt", 0) /\ UNCHANGED <<keyed, plan>>
        /\ declines' \in [Orders -> [Operations -> Nat]]
    BY <1>1 DEF PInv, ServiceInv
  <2> QED
    BY <2>1, <2>2, ServiceKeeps
<1>4. /\ Len(intents) \in Nat /\ Len(intents') \in Nat /\ Len(intents) <= Len(intents')
      /\ \A j \in 1..Len(intents) : intents'[j] = intents[j]
  BY <1>1 DEF PInv, IntentsInv
<1>5. IntentsInv' /\ RefundsInv' /\ AttemptsInv'
  BY <1>1 DEF PInv, IntentsInv, RefundsInv, AttemptsInv, AsPlanned, Owed
<1>6. Backed(o, token)'
  <2>1. <<"payment.in_person_recorded", 0>> \in audit'[o]
    BY <1>1 DEF PInv, ServiceInv
  <2>2. <<"payment.in_person_recorded", 0>>[2] = token[2]
    OBVIOUS
  <2>3. \E entry \in audit'[o] : entry[2] = token[2]
    BY <2>1, <2>2, Zenon
  <2> QED
    BY <2>3 DEF Backed
<1> HIDE DEF token
<1>8. ChargesAreAuthorized'
  BY <1>1, <1>3, UnchangedIntentsKeep
<1>7. AllBacked'
  <2>1. tokens' = [tokens EXCEPT ![o] = @ \cup {token}]
    BY <1>1
  <2> QED
    BY <1>3, <1>4, <1>6, <2>1, StepKeepsBacked
<1> QED
  BY <1>3, <1>5, <1>7, <1>8 DEF PInv

\* A refund of an intent that has none with this key is the first of its key.
LEMMA RefundKeeps ==
  ASSUME PInv, NEW o \in Orders, NEW i \in 1..Len(intents), process_refund(o, i)
  PROVE  PInv'
<1> DEFINE key == KeyOf(o, "refund", i)
<1>1. /\ Calls(o, "refund", i) /\ create_refund(o, i) /\ intents[i].order = o
      /\ AnswerLost \/ UNCHANGED <<tokens, audit, lost>>
      /\ UNCHANGED <<keyed, plan, intents, declines>>
  BY DEF process_refund, AnswerLost
<1>2. ServiceInv' /\ \A u \in Orders : audit[u] \subseteq audit'[u]
  <2>1. declines' \in [Orders -> [Operations -> Nat]]
    BY <1>1 DEF PInv, ServiceInv
  <2> QED
    BY <1>1, <2>1, ServiceKeeps
<1>3. /\ Len(intents) \in Nat /\ Len(intents') \in Nat /\ Len(intents) <= Len(intents')
      /\ \A j \in 1..Len(intents) : intents'[j] = intents[j]
      /\ tokens' = tokens
  BY <1>1 DEF PInv, IntentsInv, AnswerLost
<1>4. AllBacked' /\ ChargesAreAuthorized'
  BY <1>1, <1>2, <1>3, StepKeepsBacked, UnchangedIntentsKeep
<1>5. IntentsInv' /\ AttemptsInv'
  BY <1>1 DEF PInv, IntentsInv, AttemptsInv, AsPlanned, Owed
<1>6. key \in Keys /\ (keyed => key = <<o, "refund", i>> /\ key # NoKey)
  BY <1>3 DEF KeyOf, NoKey, Keys
<1>7. refunds \in Seq(RefundRecord) /\ Len(refunds) \in Nat
  BY DEF PInv, RefundsInv
<1>8. ASSUME UNCHANGED refunds PROVE RefundsInv'
  <2>1. UNCHANGED <<keyed, refunds>>
    BY <1>1, <1>8
  <2> QED
    BY <1>3, <2>1, RefundsKeep DEF PInv
<1>9. CASE /\ Made(refunds, key) = {}
           /\ refunds' = Append(refunds, [intent |-> i, amount |-> 1, key |-> key])
  <2> DEFINE e == [intent |-> i, amount |-> 1, key |-> key]
  <2>1. e \in RefundRecord /\ e.intent = i /\ e.key = key
    BY <1>3, <1>6 DEF RefundRecord
  <2>2. refunds' = Append(refunds, e)
    BY <1>9
  <2> HIDE DEF e, key
  <2>3. /\ refunds' \in Seq(RefundRecord) /\ Len(refunds') = Len(refunds) + 1
        /\ \A r \in 1..Len(refunds) : refunds'[r] = refunds[r]
        /\ refunds'[Len(refunds) + 1] = e
    BY <1>7, <2>1, <2>2
  <2>4. \A r \in 1..Len(refunds') : r \in 1..Len(refunds) \/ r = Len(refunds) + 1
    BY <1>7, <2>3
  <2>5. keyed => \A r \in 1..Len(refunds) : refunds[r].key # key
    BY <1>6, <1>9 DEF Made
  <2>6. \A r \in 1..Len(refunds') : refunds'[r].intent \in 1..Len(intents)
    BY <2>1, <2>3, <2>4 DEF PInv, RefundsInv
  <2>7. keyed => \A r \in 1..Len(refunds') :
          refunds'[r].key = <<intents[refunds'[r].intent].order, "refund", refunds'[r].intent>>
    BY <1>1, <1>6, <2>1, <2>3, <2>4 DEF PInv, RefundsInv
  <2>8. keyed => \A r, q \in 1..Len(refunds') : r # q => refunds'[r].key # refunds'[q].key
    BY <2>1, <2>3, <2>4, <2>5 DEF PInv, RefundsInv
  <2>9. RefundsInv'
    BY <1>1, <2>3, <2>6, <2>7, <2>8 DEF RefundsInv
  <2> QED
    BY <1>2, <1>4, <1>5, <2>9 DEF PInv
<1>10. UNCHANGED refunds \/ (/\ Made(refunds, key) = {}
           /\ refunds' = Append(refunds, [intent |-> i, amount |-> 1, key |-> key]))
  BY <1>1 DEF create_refund, RefundHeader
<1> QED
  BY <1>2, <1>4, <1>5, <1>8, <1>9, <1>10 DEF PInv

LEMMA NextPInv == PInv /\ [Next]_vars => PInv'
<1> SUFFICES ASSUME PInv, [Next]_vars PROVE PInv'
  OBVIOUS
<1>1. CASE UNCHANGED vars
  <2>1. ServiceInv'
    BY <1>1 DEF vars, PInv, ServiceInv
  <2>2. IntentsInv'
    BY <1>1 DEF vars, PInv, IntentsInv, AsPlanned, Owed
  <2>3. RefundsInv' /\ AttemptsInv' /\ ChargesAreAuthorized'
    BY <1>1 DEF vars, PInv, RefundsInv, AttemptsInv, ChargesAreAuthorized
  <2>4. AllBacked'
    <3>1. \A o \in Orders : \A token \in tokens[o] : Backed(o, token)
      BY DEF PInv, AllBacked
    <3>2. intents' = intents /\ audit' = audit /\ tokens' = tokens
      BY <1>1 DEF vars
    <3>3. ASSUME NEW o, NEW token, Backed(o, token) PROVE Backed(o, token)'
      BY <3>2, <3>3 DEF Backed
    <3> QED
      BY <3>1, <3>2, <3>3 DEF AllBacked
  <2> QED
    BY <2>1, <2>2, <2>3, <2>4 DEF PInv
<1>2. ASSUME NEW o \in Orders, Call(o) PROVE PInv'
  BY <1>2, PrepayKeeps, AuthorizeKeeps, ChargeKeeps, ReceiptKeeps, RefundKeeps DEF Call
<1> QED
  BY <1>1, <1>2 DEF Next

\* Every stored token stands for a receipt, an accepted payment with a status the
\* service knows or an authorization that was not declined, of its own order, and
\* was audited under its reference, for callers with and without keys.
THEOREM TokensAlwaysBacked == Spec => []TokensAreBacked
<1>1. PInv => TokensAreBacked
  <2> SUFFICES ASSUME PInv, NEW o \in Orders, NEW token \in tokens[o]
               PROVE  TokensAreBacked!(o)!(token)
    BY DEF TokensAreBacked
  <2>1. Backed(o, token)
    BY DEF PInv, AllBacked
  <2> QED
    BY <2>1 DEF Backed, PaymentsOf
<1> QED
  BY InitPInv, NextPInv, <1>1, PTL DEF Spec

\* The gateway is asked for the balance of an order only after the customer's
\* authorization for that order was given, audited and stored, whatever was
\* declined, lost or repeated: charge_deferred takes a setup_intent token only.
THEOREM ChargesAlwaysAuthorized == Spec => []ChargesAreAuthorized
<1>1. PInv => ChargesAreAuthorized
  BY DEF PInv
<1> QED
  BY InitPInv, NextPInv, <1>1, PTL DEF Spec

-----------------------------------------------------------------------------
(* Money.                                                                  *)

\* Sums of one and of two amounts.
LEMMA SumOfOne ==
  ASSUME NEW f, NEW a, f[a] \in Int
  PROVE  SumFunctionOnSet(f, {a}) = f[a]
<1>1. IsFiniteSet({a}) /\ {a} \ {a} = {} /\ a \in {a}
  BY FS_Singleton
<1>2. SumFunctionOnSet(f, {a}) = f[a] + SumFunctionOnSet(f, {a} \ {a})
  BY <1>1, SumStep
<1> QED
  BY <1>1, <1>2, SumEmpty

LEMMA SumOfTwo ==
  ASSUME NEW f, NEW a, NEW b, a # b, f[a] \in Int, f[b] \in Int
  PROVE  SumFunctionOnSet(f, {a, b}) = f[a] + f[b]
<1>1. IsFiniteSet({a} \cup {b}) /\ {a} \cup {b} = {a, b}
  BY FS_Singleton, FS_AddElement
<1>2. {a, b} \ {a} = {b} /\ a \in {a, b} /\ \A x \in {a, b} : f[x] \in Int
  OBVIOUS
<1>3. SumFunctionOnSet(f, {a, b}) = f[a] + SumFunctionOnSet(f, {a, b} \ {a})
  BY <1>1, <1>2, SumStep
<1> QED
  BY <1>2, <1>3, SumOfOne

\* An order has at most one accepted payment of each operation when callers send
\* keys: all attempts but the last were declined.
LEMMA OnePaymentEach ==
  ASSUME PInv, keyed, NEW o \in Orders
  PROVE  /\ \A i \in PaymentsOf(o) : intents[i].op \in {"prepay", "charge"}
         /\ \A i, j \in PaymentsOf(o) : intents[i].op = intents[j].op => i = j
<1>1. \A i \in PaymentsOf(o) : i \in 1..Len(intents) /\ intents[i].order = o
                               /\ intents[i].kind = "payment" /\ intents[i].status # "declined"
  BY DEF PaymentsOf
<1>2. \A i \in 1..Len(intents) : intents[i] \in IntentRecord
  BY DEF PInv, IntentsInv
<1>3. \A i \in PaymentsOf(o) : intents[i].op \in {"prepay", "charge"}
  BY <1>1, <1>2 DEF PInv, IntentsInv, AsPlanned, KindOf, IntentRecord, Operations
<1>4. ASSUME NEW i \in PaymentsOf(o), NEW j \in PaymentsOf(o), intents[i].op = intents[j].op
      PROVE  i = j
  <2>1. /\ intents[i].key[3] = declines[o][intents[i].op]
        /\ intents[j].key[3] = declines[o][intents[j].op]
    BY <1>1 DEF PInv, AttemptsInv, Known
  <2>2. /\ intents[i].key = <<o, intents[i].op, intents[i].key[3]>>
        /\ intents[j].key = <<o, intents[j].op, intents[j].key[3]>>
    BY <1>1 DEF PInv, IntentsInv
  <2>3. intents[i].key = intents[j].key
    BY <1>4, <2>1, <2>2
  <2> QED
    BY <1>1, <2>3 DEF PInv, IntentsInv
<1> QED
  BY <1>3, <1>4

LEMMA ChargedWithinTotal ==
  ASSUME PInv, keyed, NEW o \in Orders
  PROVE  Charged(o) + (IF plan[o].balance = "in_person" THEN Owed(o, "receipt") ELSE 0)
           <= plan[o].total
<1> DEFINE P == PaymentsOf(o)
           f == [i \in P |-> intents[i].amount]
           total == plan[o].total
           prepay == plan[o].prepay
<1>1. /\ total \in Nat /\ prepay \in Nat /\ prepay <= total
      /\ plan[o].balance = "none" => prepay = total
  BY PlanFacts DEF PInv, ServiceInv
<1>2. Charged(o) = SumFunctionOnSet(f, P)
  BY DEF Charged, SumFunction
<1>3. ASSUME NEW i \in P
      PROVE  /\ intents[i].op = "prepay" => f[i] = prepay
             /\ intents[i].op = "charge" => f[i] = total - prepay /\ plan[o].balance = "deferred"
  BY DEF PaymentsOf, PInv, IntentsInv, AsPlanned, Owed
<1>4. /\ \A i \in P : intents[i].op \in {"prepay", "charge"}
      /\ \A i, j \in P : intents[i].op = intents[j].op => i = j
  BY OnePaymentEach
<1>8. \A i \in P : f[i] \in Int
  BY <1>1, <1>3, <1>4
<1> HIDE DEF f, P
<1>5. CASE P = {}
  <2>1. Charged(o) = 0
    BY <1>2, <1>5, SumEmpty
  <2> QED
    BY <1>1, <2>1 DEF Owed
<1>6. CASE \E i \in P : P = {i}
  <2>1. PICK i \in P : P = {i}
    BY <1>6
  <2>2. Charged(o) = f[i]
    BY <1>2, <1>8, <2>1, SumOfOne
  <2> QED
    BY <1>1, <1>3, <1>4, <2>2 DEF Owed
<1>7. CASE \E i, j \in P : i # j
  <2>1. PICK i, j \in P : i # j
    BY <1>7
  <2>2. P = {i, j}
    BY <1>4, <2>1
  <2>3. Charged(o) = f[i] + f[j]
    BY <1>2, <1>8, <2>1, <2>2, SumOfTwo
  <2> QED
    BY <1>1, <1>3, <1>4, <2>1, <2>3 DEF Owed
<1> QED
  BY <1>5, <1>6, <1>7

LEMMA RefundedAtMostOnce ==
  ASSUME PInv, keyed, NEW i \in 1..Len(intents)
  PROVE  Refunded(i) <= 1
<1> DEFINE R == {r \in 1..Len(refunds) : refunds[r].intent = i}
           f == [r \in R |-> refunds[r].amount]
<1>1. Refunded(i) = SumFunctionOnSet(f, R)
  BY DEF Refunded, SumFunction
<1>2. \A r \in R : f[r] = 1
  <2>1. \A r \in 1..Len(refunds) : refunds[r] \in RefundRecord
    BY DEF PInv, RefundsInv
  <2>2. \A r \in 1..Len(refunds) : refunds[r].amount = 1
    BY <2>1 DEF RefundRecord
  <2> QED
    BY <2>2
<1>3. ASSUME NEW r \in R, NEW q \in R PROVE r = q
  <2>1. refunds[r].key = refunds[q].key
    BY <1>3 DEF PInv, RefundsInv
  <2> QED
    BY <1>3, <2>1 DEF PInv, RefundsInv
<1> HIDE DEF f, R
<1>4. CASE R = {}
  BY <1>1, <1>4, SumEmpty
<1>5. CASE R # {}
  <2>1. PICK r \in R : TRUE
    BY <1>5
  <2>2. R = {r}
    BY <1>3, <2>1
  <2>3. SumFunctionOnSet(f, {r}) = f[r]
    <3>1. f[r] \in Int
      BY <1>2
    <3> QED
      BY <3>1, SumOfOne
  <2> QED
    BY <1>1, <1>2, <2>2, <2>3
<1> QED
  BY <1>4, <1>5

\* Whatever answers are lost and whatever is called again, callers with keys are never
\* charged more than the total of an order, in any payment mode and split, and a
\* refund asked for once is paid once.
THEOREM MoneyAlwaysMovesOnce == Spec => []MoneyMovesOnce
<1>1. PInv => TypeOK
  <2> SUFFICES ASSUME PInv PROVE TypeOK
    OBVIOUS
  <2>1. \A i \in 1..Len(intents) : intents[i] \in IntentRecord
    BY DEF PInv, IntentsInv
  <2>2. \A i \in 1..Len(intents) :
          /\ intents[i].order \in Orders /\ intents[i].kind \in {"payment", "setup"}
          /\ intents[i].amount \in Nat /\ intents[i].status \in Statuses
    BY <2>1 DEF IntentRecord
  <2> QED
    BY <2>2 DEF PInv, ServiceInv, RefundsInv, TypeOK
<1>2. PInv => MoneyMovesOnce
  BY <1>1, ChargedWithinTotal, RefundedAtMostOnce
     DEF MoneyMovesOnce, NeverOvercharged, RefundedOnce
<1> QED
  BY InitPInv, NextPInv, <1>2, PTL DEF Spec

-----------------------------------------------------------------------------
(* The webhook handler.                                                    *)

\* The type invariant of the handler holds in every reachable state.
THEOREM WebhookTypeCorrect == WebhookSpec => []WebhookTypeOK
<1>1. WebhookInit => WebhookTypeOK
  BY WindowAssumption DEF WebhookInit, WebhookTypeOK
<1>2. WebhookTypeOK /\ [WebhookNext]_webhookVars => WebhookTypeOK'
  <2> SUFFICES ASSUME WebhookTypeOK, [WebhookNext]_webhookVars PROVE WebhookTypeOK'
    OBVIOUS
  <2> USE DEF WebhookTypeOK
  <2>1. ASSUME NEW e \in Events, Emit(e) PROVE WebhookTypeOK'
    BY <2>1, WindowAssumption DEF Emit
  <2>2. CASE Tick
    BY <2>2 DEF Tick
  <2>3. ASSUME NEW e \in Events, Claim(e) PROVE WebhookTypeOK'
    BY <2>3 DEF Claim, Unexpired
  <2>4. ASSUME NEW e \in Events, Duplicate(e) PROVE WebhookTypeOK'
    BY <2>4 DEF Duplicate, Unexpired, Ack
  <2>5. CASE Dispatch
    BY <2>5 DEF Dispatch
  <2>6. CASE Reply
    BY <2>6 DEF Reply, Ack
  <2>7. CASE Crash
    BY <2>7 DEF Crash
  <2>8. CASE UNCHANGED webhookVars
    BY <2>8 DEF webhookVars
  <2> QED
    BY <2>1, <2>2, <2>3, <2>4, <2>5, <2>6, <2>7, <2>8 DEF WebhookNext, Deliver
<1> QED
  BY <1>1, <1>2, PTL DEF WebhookSpec

-----------------------------------------------------------------------------
(* Why an event is not claimed twice in one process lifetime.  A claim      *)
(* leaves the store only by expiry, after more than Retention; the event    *)
(* was created at most Skew after it was claimed, so by then it is older    *)
(* than Tolerance and verify_signature rejects it.                          *)

\* An event dispatched in this lifetime is in the store or has expired.
Remembered(e) ==
  /\ e \in sent
  /\ created[e] <= processed_at[e] + Skew
  /\ e \in _processed \/ now > processed_at[e] + Retention

\* The inductive invariant.
LifetimeInv ==
  \A e \in Events :
    /\ effects[e] <= crashes + runEffects[e]
    /\ runEffects[e] <= 1
    /\ e \in sent => created[e] <= now + Skew
    /\ runEffects[e] = 1 => Remembered(e)
    /\ stage = "claimed" /\ current = e =>
         runEffects[e] = 0 /\ e \in _processed /\ Remembered(e)

\* A fresh event that was dispatched in this lifetime is still in the store, so
\* handle_event sees a duplicate.
LEMMA FreshIsRemembered ==
  ASSUME WebhookTypeOK, LifetimeInv, NEW e \in Events, Fresh(e), runEffects[e] = 1
  PROVE  e \in Unexpired(_processed)
<1>1. Remembered(e)
  BY DEF LifetimeInv
<1>2. now <= processed_at[e] + Retention
  BY <1>1, WindowAssumption DEF WebhookTypeOK, Fresh, Remembered
<1> QED
  BY <1>1, <1>2, WindowAssumption DEF WebhookTypeOK, Remembered, Unexpired

\* Every step keeps LifetimeInv; the step that matters is Claim, which
\* FreshIsRemembered rules out for an event dispatched before.
LEMMA LifetimeInvInductive ==
  WebhookTypeOK /\ LifetimeInv /\ [WebhookNext]_webhookVars => LifetimeInv'
<1> SUFFICES ASSUME WebhookTypeOK, LifetimeInv, [WebhookNext]_webhookVars,
                    NEW x \in Events
             PROVE  LifetimeInv!(x)'
  BY DEF LifetimeInv
<1> USE WindowAssumption DEF WebhookTypeOK
<1>0. LifetimeInv!(x)
  BY DEF LifetimeInv
<1>1. ASSUME NEW e \in Events, Emit(e) PROVE LifetimeInv!(x)'
  BY <1>0, <1>1 DEF Emit, Remembered
<1>2. CASE Tick
  BY <1>0, <1>2 DEF Tick, Remembered
<1>3. ASSUME NEW e \in Events, Claim(e) PROVE LifetimeInv!(x)'
  <2>1. runEffects[e] # 1
    BY <1>3, FreshIsRemembered DEF Claim
  <2>2. CASE x = e
    BY <1>0, <1>3, <2>1, <2>2 DEF Claim, Remembered
  <2>3. CASE x # e
    BY <1>0, <1>3, <2>3 DEF Claim, Remembered, Unexpired
  <2> QED
    BY <2>2, <2>3
<1>4. ASSUME NEW e \in Events, Duplicate(e) PROVE LifetimeInv!(x)'
  BY <1>0, <1>4 DEF Duplicate, Remembered, Unexpired
<1>5. CASE Dispatch
  BY <1>0, <1>5 DEF Dispatch, Remembered
<1>6. CASE Reply
  BY <1>0, <1>6 DEF Reply, Remembered
<1>7. CASE Crash
  BY <1>0, <1>7 DEF Crash, Remembered
<1>8. CASE UNCHANGED webhookVars
  BY <1>0, <1>8 DEF webhookVars, Remembered
<1> QED
  BY <1>1, <1>2, <1>3, <1>4, <1>5, <1>6, <1>7, <1>8 DEF WebhookNext, Deliver

\* "a replayed event can never double-fulfil or double-reverse" while the process
\* lives: handle_event dispatches an event at most once more than the process
\* was restarted.
THEOREM OncePerRun == WebhookSpec => []DispatchedOncePerRun
<1>1. WebhookInit => LifetimeInv
  <2> SUFFICES ASSUME WebhookInit, NEW e \in Events PROVE LifetimeInv!(e)
    BY DEF LifetimeInv
  <2>1. effects[e] = 0 /\ runEffects[e] = 0 /\ crashes = 0
    BY DEF WebhookInit
  <2>2. e \notin sent /\ stage # "claimed"
    BY DEF WebhookInit
  <2> QED
    BY <2>1, <2>2
<1>2. WebhookTypeOK /\ LifetimeInv => DispatchedOncePerRun
  <2> SUFFICES ASSUME WebhookTypeOK, LifetimeInv, NEW e \in Events
               PROVE  runEffects[e] <= 1 /\ effects[e] <= 1 + crashes
    BY DEF DispatchedOncePerRun
  <2> QED
    BY DEF LifetimeInv, WebhookTypeOK
<1> QED
  BY <1>1, <1>2, WebhookTypeCorrect, LifetimeInvInductive, PTL DEF WebhookSpec

-----------------------------------------------------------------------------
(* Why Stripe is told 200 only for what was handled.  The answer to a      *)
(* duplicate rests on the claim alone, so a claim must never outlive a     *)
(* request that did not dispatch: the only such request is the running     *)
(* one, and a crash that ends it takes the claims along.                   *)

Handled(e) == e \in Ignored \/ effects[e] >= 1

\* The inductive invariant.
ClaimInv ==
  /\ \A e \in acked : Handled(e)
  /\ \A e \in _processed : Handled(e) \/ (stage = "claimed" /\ current = e)
  /\ stage = "dispatched" => Handled(current)

\* Every step keeps ClaimInv.
LEMMA ClaimInvInductive == WebhookTypeOK /\ ClaimInv /\ [WebhookNext]_webhookVars => ClaimInv'
<1> SUFFICES ASSUME WebhookTypeOK, ClaimInv, [WebhookNext]_webhookVars PROVE ClaimInv'
  OBVIOUS
<1> USE DEF ClaimInv, Handled
<1>1. ASSUME NEW e \in Events, Emit(e) PROVE ClaimInv'
  BY <1>1 DEF Emit
<1>2. CASE Tick
  BY <1>2 DEF Tick
<1>3. ASSUME NEW e \in Events, Claim(e) PROVE ClaimInv'
  BY <1>3 DEF Claim, Unexpired
<1>4. ASSUME NEW e \in Events, Duplicate(e) PROVE ClaimInv'
  BY <1>4 DEF Duplicate, Unexpired, Ack
<1>5. CASE Dispatch
  <2>1. \A e \in Events : Handled(e) => Handled(e)'
    BY <1>5 DEF Dispatch, WebhookTypeOK
  <2>2. Handled(current)'
    BY <1>5 DEF Dispatch, WebhookTypeOK
  <2> QED
    BY <1>5, <2>1, <2>2 DEF Dispatch, WebhookTypeOK
<1>6. CASE Reply
  BY <1>6 DEF Reply, Ack
<1>7. CASE Crash
  BY <1>7 DEF Crash
<1>8. CASE UNCHANGED webhookVars
  BY <1>8 DEF webhookVars
<1> QED
  BY <1>1, <1>2, <1>3, <1>4, <1>5, <1>6, <1>7, <1>8 DEF WebhookNext, Deliver

\* Stripe sees a 200 only for an event whose handler has run, whatever request
\* crashed, answer was lost or claim expired before.
THEOREM NoEmptyAnswers == WebhookSpec => []AckedIsHandled
<1>1. WebhookInit => ClaimInv
  BY DEF WebhookInit, ClaimInv
<1>2. ClaimInv => AckedIsHandled
  BY DEF ClaimInv, Handled, AckedIsHandled
<1> QED
  BY <1>1, <1>2, WebhookTypeCorrect, ClaimInvInductive, PTL DEF WebhookSpec
=============================================================================
