-------------------------- MODULE OrderServiceProofs --------------------------
(***************************************************************************)
(* Proofs about OrderService, the contract it implements, the ledger       *)
(* queries of CommissionLedger and the requests of TenantRequests, for every *)
(* set of orders, tenants, rates, amounts and fractions, every registry and *)
(* any number of requests.                                                 *)
(***************************************************************************)
EXTENDS TenantRequests, CollectionLemmas

-----------------------------------------------------------------------------
(* Arithmetic of the commission engine.                                    *)

\* Integer division rounds down.
LEMMA DivFloor ==
  ASSUME NEW a \in Int, NEW b \in Nat \ {0}
  PROVE  /\ a \div b \in Int
         /\ (a \div b) * b <= a
         /\ a < (a \div b) * b + b
  BY Z3

\* RoundDown stays between zero and the amount, for a part between 0 and Scale.
LEMMA RoundDownBounds ==
  ASSUME NEW a \in Nat, NEW p \in Int, 0 <= p, p <= Scale
  PROVE  /\ RoundDown(a, p) \in Int
         /\ 0 <= RoundDown(a, p)
         /\ RoundDown(a, p) <= a
  BY ScaleAssumption, DivFloor, Z3 DEF RoundDown

\* Division is monotone, and a whole multiple of the divisor comes out of it.
LEMMA DivMonotone ==
  ASSUME NEW a \in Int, NEW b \in Int, NEW n \in Nat \ {0}, a <= b
  PROVE  a \div n <= b \div n
  BY DivFloor, Z3

\* Adding a whole multiple of the divisor adds it to the quotient.
LEMMA DivShift ==
  ASSUME NEW a \in Int, NEW k \in Int, NEW n \in Nat \ {0}
  PROVE  (a + k * n) \div n = (a \div n) + k
  BY DivFloor, Z3

\* What calculate promises when it does not raise: integer amounts that add up to
\* the gross, none of them negative.
LEMMA CalculateSplits ==
  ASSUME NEW gross \in Int, NEW rate \in Int, Computable(gross, rate)
  PROVE  LET split == calculate(gross, rate)
         IN  /\ split \in [rate : Int, gross : Int, fee : Int, settlement : Int]
             /\ split.rate = rate /\ split.gross = gross
             /\ split.fee + split.settlement = gross
             /\ 0 <= split.fee /\ 0 <= split.settlement
<1>1. gross \in Nat /\ 0 <= rate /\ rate <= Scale
  BY DEF Computable, ValidRate
<1>2. /\ RoundDown(gross, rate) \in Int
      /\ 0 <= RoundDown(gross, rate)
      /\ RoundDown(gross, rate) <= gross
  BY <1>1, RoundDownBounds
<1> QED
  BY <1>1, <1>2 DEF calculate

\* What reverse promises: a balanced part of the split, no column negative or
\* larger than what was settled.
LEMMA ReverseWithin ==
  ASSUME NEW split \in [rate : Int, gross : Int, fee : Int, settlement : Int],
         split.fee + split.settlement = split.gross,
         0 <= split.fee, 0 <= split.settlement,
         NEW f \in Int, ValidFraction(f)
  PROVE  LET rev == reverse(split, f)
         IN  /\ rev \in [rate : Int, gross : Int, fee : Int, settlement : Int]
             /\ rev.rate = split.rate
             /\ rev.fee + rev.settlement = rev.gross
             /\ 0 <= rev.fee /\ rev.fee <= split.fee
             /\ 0 <= rev.settlement /\ rev.settlement <= split.settlement
<1> DEFINE g == split.gross
           p == split.fee
           s == split.settlement
<1>1. /\ g \in Nat /\ p \in Nat /\ s \in Nat /\ g = p + s
      /\ f \in Nat /\ 0 <= f /\ f <= Scale /\ Scale \in Nat \ {0}
  BY ScaleAssumption DEF ValidFraction
<1>2. /\ RoundDown(g, f) \in Int /\ RoundDown(p, f) \in Int
      /\ 0 <= RoundDown(p, f) /\ RoundDown(p, f) <= p
  BY <1>1, RoundDownBounds
<1> HIDE DEF g, p, s
<1>3. /\ p * f \in Int /\ g * f \in Int /\ s * Scale \in Int
      /\ p * f <= g * f
      /\ g * f <= p * f + s * Scale
  BY <1>1, Z3
<1>4. RoundDown(p, f) <= RoundDown(g, f)
  BY <1>1, <1>3, DivMonotone DEF RoundDown
<1>5. RoundDown(g, f) <= RoundDown(p, f) + s
  <2> DEFINE pf == p * f
             gf == g * f
             up == pf + s * Scale
  <2>1. pf \in Int /\ gf \in Int /\ up \in Int /\ gf <= up
    BY <1>1, <1>3
  <2>2. up \div Scale = (pf \div Scale) + s
    <3> HIDE DEF pf
    <3>1. pf \in Int /\ s \in Int /\ Scale \in Nat \ {0}
      BY <1>1, <2>1
    <3> QED BY <3>1, DivShift, Zenon
  <2>3. gf \div Scale <= up \div Scale
    <3> HIDE DEF gf, up
    <3> QED BY <1>1, <2>1, DivMonotone
  <2> QED
    BY <2>2, <2>3 DEF RoundDown
<1>6. reverse(split, f) = [rate |-> split.rate, gross |-> RoundDown(g, f),
                           fee |-> RoundDown(p, f),
                           settlement |-> RoundDown(g, f) - RoundDown(p, f)]
  BY DEF reverse, g, p
<1> QED
  BY <1>1, <1>2, <1>4, <1>5, <1>6 DEF g, p, s

-----------------------------------------------------------------------------
(* Lists that only grow at their end.                                      *)

\* What Append does to the length and to each position.
LEMMA GrowFacts ==
  ASSUME NEW S, NEW s \in Seq(S), NEW e \in S
  PROVE  /\ Append(s, e) \in Seq(S) /\ Append(s, e) # <<>>
         /\ Len(Append(s, e)) = Len(s) + 1
         /\ \A i \in 1..Len(s) : Append(s, e)[i] = s[i]
         /\ Append(s, e)[Len(s) + 1] = e
  OBVIOUS

-----------------------------------------------------------------------------
(* Type correctness.                                                       *)

\* The amounts and the rate a settlement works with.
LEMMA SplitType ==
  ASSUME TypeOK, NEW c \in Contexts, NEW o \in OrderIds, Settles(c, o)
  PROVE  /\ RateFor(c) \in Int /\ total[o] \in Int
         /\ Split(c, o) \in [rate : Int, gross : Int, fee : Int, settlement : Int]
         /\ Split(c, o).rate = RateFor(c)
         /\ Split(c, o).gross = total[o]
         /\ Split(c, o).fee + Split(c, o).settlement = total[o]
         /\ 0 <= Split(c, o).fee /\ 0 <= Split(c, o).settlement
<1>1. RateFor(c) \in Int /\ total[o] \in Int
  BY TenantAssumption, RateAssumption DEF TypeOK, RateFor
<1>2. Computable(total[o], RateFor(c))
  BY DEF Settles
<1> QED
  BY <1>1, <1>2, CalculateSplits DEF Split

\* The split a reversal is computed from.
SettledSplit(o) ==
  [rate |-> snapshot[o].rate, gross |-> snapshot[o].fee + snapshot[o].settlement,
   fee |-> snapshot[o].fee, settlement |-> snapshot[o].settlement]

\* One step of transition with its trailing audit events keeps the types.
LEMMA ApplyType ==
  ASSUME TypeOK, NEW c \in Contexts, NEW o \in OrderIds, NEW s \in OrderStatus,
         NEW trailer \in Seq(AuditEvent), Apply(c, o, s, trailer)
  PROVE  /\ status' \in [OrderIds -> OrderStatus \cup {"absent"}]
         /\ tenant_id' = tenant_id /\ total' = total
         /\ snapshot' \in [OrderIds -> Snapshot \cup {NoSnapshot}]
         /\ history' \in [OrderIds -> Seq(OrderStateChange)]
         /\ ledger' \in [OrderIds -> Seq(LedgerEntry)]
         /\ audit' \in [OrderIds -> Seq(AuditEvent)]
<1> USE DEF TypeOK
<1>1. status[o] \in OrderStatus
  BY DEF Apply, transition_to, CanTransition
<1>2. StatusChanged(status[o], s) \in AuditEvent
  BY <1>1 DEF StatusChanged, AuditEvent
<1>3. status' \in [OrderIds -> OrderStatus \cup {"absent"}]
  BY DEF Apply, transition_to
<1>4. history' \in [OrderIds -> Seq(OrderStateChange)]
  <2>1. [from |-> status[o], to |-> s, by |-> "service"] \in OrderStateChange
    BY <1>1 DEF OrderStateChange, Changers
  <2> QED
    BY <2>1 DEF Apply, transition_to
<1>5. tenant_id' = tenant_id /\ total' = total
  BY DEF Apply
<1>6. CASE s = "completed" /\ Settles(c, o)
  <2>1. Settled(Split(c, o)) \in AuditEvent
    BY <1>6, SplitType DEF Settled, AuditEvent
  <2>2. audit' \in [OrderIds -> Seq(AuditEvent)]
    BY <1>2, <1>6, <2>1 DEF Apply
  <2>3. _settle_commission(c, o)
    BY <1>6 DEF Apply
  <2>4. snapshot' \in [OrderIds -> Snapshot \cup {NoSnapshot}]
    BY <1>6, <2>3, SplitType DEF _settle_commission, Snapshot
  <2>5. ledger' \in [OrderIds -> Seq(LedgerEntry)]
    <3>1. [tenant |-> tenant_id[o], gross |-> Split(c, o).gross,
           fee |-> Split(c, o).fee, settlement |-> Split(c, o).settlement,
           rate |-> Split(c, o).rate] \in LedgerEntry
      BY <1>6, SplitType DEF LedgerEntry
    <3> QED
      BY <2>3, <3>1 DEF _settle_commission
  <2> QED
    BY <1>3, <1>4, <1>5, <2>2, <2>4, <2>5
<1>7. CASE ~(s = "completed" /\ Settles(c, o))
  <2>1. audit' \in [OrderIds -> Seq(AuditEvent)]
    BY <1>2, <1>7 DEF Apply
  <2>2. UNCHANGED <<snapshot, ledger>>
    BY <1>7 DEF Apply
  <2> QED
    BY <1>3, <1>4, <1>5, <2>1, <2>2
<1> QED
  BY <1>6, <1>7

\* Every step keeps the types.
LEMMA TypeInductive == TypeOK /\ [Next]_vars => TypeOK'
<1> SUFFICES ASSUME TypeOK, [Next]_vars PROVE TypeOK'
  OBVIOUS
<1>1. ASSUME NEW o \in OrderIds, NEW c \in Contexts,
             NEW owner \in Tenants \cup {NoTenant}, NEW a \in Amounts,
             Register(c, o, owner, a)
      PROVE  TypeOK'
  <2>1. _bind_tenant(c, owner) \in Tenants \cup {NoTenant}
    BY TenantAssumption DEF _bind_tenant
  <2>2. a \in Int /\ Created \in AuditEvent
    BY InputAssumption DEF AuditEvent
  <2> QED
    BY <1>1, <2>1, <2>2 DEF Register, TypeOK, OrderStatus
<1>2. ASSUME NEW o \in OrderIds, NEW c \in Contexts, NEW s \in OrderStatus,
             Transition(c, o, s)
      PROVE  TypeOK'
  <2>1. Apply(c, o, s, <<>>) /\ UNCHANGED refundCalls /\ <<>> \in Seq(AuditEvent)
    BY <1>2 DEF Transition
  <2> QED
    BY <2>1, ApplyType DEF TypeOK
<1>3. ASSUME NEW o \in OrderIds, NEW c \in Contexts, Complete(c, o)
      PROVE  TypeOK'
  <2>1. "completed" \in OrderStatus
    BY DEF OrderStatus
  <2>2. Apply(c, o, "completed", <<>>) /\ UNCHANGED refundCalls /\ <<>> \in Seq(AuditEvent)
    BY <1>3 DEF Complete
  <2> QED
    BY <2>1, <2>2, ApplyType DEF TypeOK
<1>4. ASSUME NEW o \in OrderIds, NEW c \in Contexts, NEW r \in RefundOutcomes,
             Cancel(c, o, r)
      PROVE  TypeOK'
  <2> DEFINE trailer == IF r = "raises" THEN <<>> ELSE <<Cancelled(r = "ref")>>
  <2>1. Cancelled(r = "ref") \in AuditEvent
    BY DEF Cancelled, AuditEvent
  <2>2. trailer \in Seq(AuditEvent) /\ "cancelled" \in OrderStatus
    BY <2>1 DEF OrderStatus
  <2>3. Apply(c, o, "cancelled", trailer)
    BY <1>4 DEF Cancel
  <2>4. refundCalls' \in [OrderIds -> Nat]
    BY <1>4 DEF Cancel, TypeOK
  <2> QED
    BY <2>2, <2>3, <2>4, ApplyType DEF TypeOK
<1>5. ASSUME NEW o \in OrderIds, NEW f \in Fractions, RecordCommissionReversal(o, f)
      PROVE  TypeOK'
  <2> DEFINE rev == reverse(SettledSplit(o), f)
  <2>1. /\ snapshot[o] \in Snapshot /\ f \in Int /\ Scale \in Nat \ {0}
        /\ tenant_id[o] \in Tenants \cup {NoTenant}
    BY <1>5, InputAssumption, ScaleAssumption DEF RecordCommissionReversal, TypeOK
  <2>2. rev.gross \in Int /\ rev.fee \in Int /\ rev.settlement \in Int
    BY <2>1, DivFloor DEF reverse, SettledSplit, RoundDown, Snapshot
  <2>3. snapshot[o].rate \in Int
    BY <2>1 DEF Snapshot
  <2>4. /\ Reversed(f, rev.fee) \in AuditEvent
        /\ [tenant |-> tenant_id[o], gross |-> -rev.gross, fee |-> -rev.fee,
            settlement |-> -rev.settlement, rate |-> snapshot[o].rate] \in LedgerEntry
    <3> HIDE DEF rev
    <3> QED BY <2>1, <2>2, <2>3 DEF Reversed, AuditEvent, LedgerEntry
  <2>5. /\ ledger' = [ledger EXCEPT ![o] = Append(@,
             [tenant |-> tenant_id[o], gross |-> -rev.gross, fee |-> -rev.fee,
              settlement |-> -rev.settlement, rate |-> snapshot[o].rate])]
        /\ audit' = [audit EXCEPT ![o] = Append(@, Reversed(f, rev.fee))]
        /\ UNCHANGED <<status, tenant_id, total, snapshot, history, refundCalls>>
    BY <1>5 DEF RecordCommissionReversal, SettledSplit
  <2> HIDE DEF rev
  <2> QED
    BY <2>4, <2>5 DEF TypeOK
<1>6. ASSUME NEW o \in OrderIds, ConfirmPayment(o) \/ StartService(o)
      PROVE  TypeOK'
  <2>1. PICK s \in {"confirmed", "in_progress"} : transition_to(o, s, "fulfillment")
    BY <1>6 DEF ConfirmPayment, StartService
  <2>2. s \in OrderStatus /\ status[o] \in OrderStatus
    BY <2>1 DEF OrderStatus, transition_to, CanTransition
  <2>3. [from |-> status[o], to |-> s, by |-> "fulfillment"] \in OrderStateChange
    BY <2>2 DEF OrderStateChange, Changers
  <2>4. /\ status' \in [OrderIds -> OrderStatus \cup {"absent"}]
        /\ history' \in [OrderIds -> Seq(OrderStateChange)]
    BY <2>1, <2>2, <2>3 DEF transition_to, TypeOK
  <2>5. UNCHANGED <<tenant_id, total, snapshot, ledger, audit, refundCalls>>
    BY <1>6 DEF ConfirmPayment, StartService
  <2> QED
    BY <2>4, <2>5 DEF TypeOK
<1>7. CASE UNCHANGED vars
  BY <1>7 DEF vars, TypeOK
<1> QED
  BY <1>1, <1>2, <1>3, <1>4, <1>5, <1>6, <1>7 DEF Next, OrderStep

\* The type invariant of orders, ledger and audit trail holds in every reachable
\* state.
THEOREM TypeCorrect == Spec => []TypeOK
<1>1. Init => TypeOK
  BY InputAssumption DEF Init, TypeOK
<1> QED
  BY <1>1, TypeInductive, PTL DEF Spec

-----------------------------------------------------------------------------
(* Settlement.  SettlementIntegrity is inductive: an order whose status can *)
(* still change is not completed, so by the invariant its ledger is empty,  *)
(* and the one step that completes it writes the first entry.               *)

\* What the transition table says of the two ends of an edge.
LEMMA TransitionTable ==
  ASSUME NEW from, NEW to, CanTransition(from, to)
  PROVE  /\ from \in CANCELLABLE_STATES
         /\ to \in OrderStatus /\ to # "draft"
<1>1. from \in OrderStatus /\ to \in VALID_TRANSITIONS[from]
  BY DEF CanTransition
<1>2. from # "completed" /\ from # "cancelled"
  BY <1>1 DEF VALID_TRANSITIONS
<1>3. from \in CANCELLABLE_STATES
  BY <1>1, <1>2 DEF OrderStatus, CANCELLABLE_STATES
<1>4. to \in OrderStatus /\ to # "draft"
  <2>1. CASE from = "draft"
    BY <1>1, <2>1 DEF VALID_TRANSITIONS, OrderStatus
  <2>2. CASE from = "reserved"
    BY <1>1, <2>2 DEF VALID_TRANSITIONS, OrderStatus
  <2>3. CASE from = "confirmed"
    BY <1>1, <2>3 DEF VALID_TRANSITIONS, OrderStatus
  <2>4. CASE from = "in_progress"
    BY <1>1, <2>4 DEF VALID_TRANSITIONS, OrderStatus
  <2>5. CASE from = "payment_pending"
    BY <1>1, <2>5 DEF VALID_TRANSITIONS, OrderStatus
  <2> QED
    BY <1>3, <2>1, <2>2, <2>3, <2>4, <2>5 DEF CANCELLABLE_STATES
<1> QED
  BY <1>3, <1>4

\* A status that transition_to leaves is neither terminal nor absent.
LEMMA TransitionLeavesOpenStatus ==
  ASSUME NEW o \in OrderIds, NEW s, NEW by, transition_to(o, s, by)
  PROVE  /\ status[o] \in CANCELLABLE_STATES
         /\ status[o] \notin {"absent", "completed", "cancelled"}
         /\ status' = [status EXCEPT ![o] = s]
         /\ s \in OrderStatus /\ s # "absent" /\ s # "draft"
<1>1. CanTransition(status[o], s) /\ status' = [status EXCEPT ![o] = s]
  BY DEF transition_to
<1>2. status[o] \in CANCELLABLE_STATES /\ s \in OrderStatus /\ s # "draft"
  BY <1>1, TransitionTable
<1> QED
  BY <1>1, <1>2 DEF CANCELLABLE_STATES, OrderStatus

\* A status change, with the settlement it may trigger, keeps SettlementIntegrity.
LEMMA ApplySettles ==
  ASSUME TypeOK, SettlementIntegrity, NEW c \in Contexts, NEW o \in OrderIds,
         NEW s \in OrderStatus, NEW trailer, Apply(c, o, s, trailer)
  PROVE  SettlementIntegrity'
<1> SUFFICES ASSUME NEW x \in OrderIds PROVE SettlementIntegrity!(x)'
  BY DEF SettlementIntegrity
<1>0. SettlementIntegrity!(x)
  BY DEF SettlementIntegrity
<1>1. /\ status[o] \notin {"absent", "completed", "cancelled"}
      /\ status' = [status EXCEPT ![o] = s] /\ UNCHANGED <<tenant_id, total>>
  BY TransitionLeavesOpenStatus DEF Apply
<1>2. snapshot[o] = NoSnapshot /\ ledger[o] = <<>>
  BY <1>1 DEF SettlementIntegrity
<1>3. CASE s = "completed" /\ Settles(c, o)
  <2> DEFINE split == Split(c, o)
             snap == [rate |-> split.rate, fee |-> split.fee,
                      settlement |-> split.settlement]
             paid == [tenant |-> tenant_id[o], gross |-> split.gross,
                      fee |-> split.fee, settlement |-> split.settlement,
                      rate |-> split.rate]
  <2>1. /\ snapshot' = [snapshot EXCEPT ![o] = snap]
        /\ ledger' = [ledger EXCEPT ![o] = Append(@, paid)]
    BY <1>3 DEF Apply, _settle_commission
  <2>2. CASE x = o
    <3>1. /\ split.gross = total[o] /\ split.fee + split.settlement = total[o]
          /\ 0 <= split.fee /\ 0 <= split.settlement
          /\ snap \in Snapshot
      BY <1>3, SplitType DEF Snapshot
    <3>2. snap # NoSnapshot
      BY <3>1, InputAssumption
    <3>3. /\ ledger'[o] = <<paid>> /\ snapshot'[o] = snap /\ status'[o] = "completed"
          /\ total'[o] = total[o] /\ tenant_id'[o] = tenant_id[o]
      BY <1>1, <1>2, <1>3, <2>1 DEF TypeOK
    <3>4. Len(ledger'[o]) = 1 /\ ledger'[o][1] = paid /\ ledger'[o] # <<>>
      BY <3>3
    <3> HIDE DEF split
    <3> QED
      BY <2>2, <3>1, <3>2, <3>3, <3>4 DEF Balanced
  <2>3. CASE x # o
    BY <1>0, <1>1, <2>1, <2>3 DEF TypeOK
  <2> QED
    BY <2>2, <2>3
<1>4. CASE ~(s = "completed" /\ Settles(c, o))
  <2>1. UNCHANGED <<snapshot, ledger>>
    BY <1>4 DEF Apply
  <2>2. CASE x = o
    BY <1>2, <2>1, <2>2
  <2>3. CASE x # o
    BY <1>0, <1>1, <2>1, <2>3 DEF TypeOK
  <2> QED
    BY <2>2, <2>3
<1> QED
  BY <1>3, <1>4

\* A reversal of a settled order stays within its settlement.
LEMMA ReversalKeepsSettlement ==
  ASSUME TypeOK, SettlementIntegrity, NEW o \in OrderIds, NEW f \in Fractions,
         RecordCommissionReversal(o, f)
  PROVE  SettlementIntegrity'
<1> SUFFICES ASSUME NEW x \in OrderIds PROVE SettlementIntegrity!(x)'
  BY DEF SettlementIntegrity
<1>0. SettlementIntegrity!(x) /\ SettlementIntegrity!(o)
  BY DEF SettlementIntegrity
<1> DEFINE rev  == reverse(SettledSplit(o), f)
           back == [tenant |-> tenant_id[o], gross |-> -rev.gross, fee |-> -rev.fee,
                    settlement |-> -rev.settlement, rate |-> snapshot[o].rate]
           paid == ledger[o][1]
<1>1. /\ ledger' = [ledger EXCEPT ![o] = Append(@, back)]
      /\ UNCHANGED <<status, tenant_id, total, snapshot>>
      /\ snapshot[o] # NoSnapshot /\ ValidFraction(f)
  BY DEF RecordCommissionReversal, SettledSplit
<1>2. CASE x # o
  BY <1>0, <1>1, <1>2 DEF TypeOK
<1>3. CASE x = o
  <2>1. /\ ledger[o] # <<>> /\ ledger[o] \in Seq(LedgerEntry)
        /\ Len(ledger[o]) \in Nat \ {0} /\ paid \in LedgerEntry
    BY <1>0, <1>1 DEF TypeOK
  <2>2. /\ snapshot[o] = [rate |-> paid.rate, fee |-> paid.fee,
                          settlement |-> paid.settlement]
        /\ Balanced(paid) /\ 0 <= paid.fee /\ 0 <= paid.settlement
        /\ paid.tenant = tenant_id[o]
    BY <1>0, <2>1
  <2>3. /\ SettledSplit(o) \in [rate : Int, gross : Int, fee : Int, settlement : Int]
        /\ SettledSplit(o).fee = paid.fee
        /\ SettledSplit(o).settlement = paid.settlement
        /\ SettledSplit(o).fee + SettledSplit(o).settlement = SettledSplit(o).gross
    <3> HIDE DEF paid
    <3> QED BY <2>1, <2>2 DEF SettledSplit, LedgerEntry, Balanced
  <2>4. f \in Int
    BY InputAssumption
  <2>5. /\ rev.fee \in Int /\ rev.settlement \in Int /\ rev.gross \in Int
        /\ rev.fee + rev.settlement = rev.gross
        /\ 0 <= rev.fee /\ rev.fee <= paid.fee
        /\ 0 <= rev.settlement /\ rev.settlement <= paid.settlement
    <3> HIDE DEF paid
    <3> QED BY <1>1, <2>2, <2>3, <2>4, ReverseWithin
  <2>6. paid.fee \in Int /\ paid.settlement \in Int
    BY <2>1 DEF LedgerEntry
  <2>7. /\ Balanced(back) /\ back.tenant = tenant_id[o]
        /\ -paid.fee <= back.fee /\ back.fee <= 0
        /\ -paid.settlement <= back.settlement /\ back.settlement <= 0
        /\ back \in LedgerEntry
    <3>1. tenant_id[o] \in Tenants \cup {NoTenant} /\ snapshot[o].rate \in Int
      BY <1>1 DEF TypeOK, Snapshot
    <3> HIDE DEF rev, paid
    <3> QED BY <2>5, <2>6, <3>1 DEF Balanced, LedgerEntry
  <2> HIDE DEF back
  <2>8. /\ ledger'[o] = Append(ledger[o], back)
        /\ ledger'[o] # <<>> /\ ledger'[o][1] = paid
        /\ Len(ledger'[o]) = Len(ledger[o]) + 1
        /\ \A i \in 2..Len(ledger[o]) : ledger'[o][i] = ledger[o][i]
        /\ ledger'[o][Len(ledger[o]) + 1] = back
    <3>1. ledger'[o] = Append(ledger[o], back)
      BY <1>1 DEF TypeOK
    <3> QED
      BY <2>1, <2>7, <3>1, GrowFacts
  <2>9. \A i \in 2..Len(ledger'[o]) :
          /\ Balanced(ledger'[o][i]) /\ ledger'[o][i].tenant = paid.tenant
          /\ -paid.fee <= ledger'[o][i].fee /\ ledger'[o][i].fee <= 0
          /\ -paid.settlement <= ledger'[o][i].settlement
          /\ ledger'[o][i].settlement <= 0
    <3> SUFFICES ASSUME NEW i \in 2..Len(ledger'[o]) PROVE <2>9!(i)
      OBVIOUS
    <3>1. CASE i = Len(ledger[o]) + 1
      BY <2>2, <2>7, <2>8, <3>1
    <3>2. CASE i # Len(ledger[o]) + 1
      <4>1. i \in 2..Len(ledger[o])
        BY <2>1, <2>8, <3>2
      <4> QED
        BY <1>0, <2>1, <2>8, <4>1
    <3> QED
      BY <3>1, <3>2
  <2> QED
    BY <1>0, <1>1, <1>3, <2>1, <2>8, <2>9
<1> QED
  BY <1>2, <1>3

\* Transition, Complete and Cancel are Apply with a status and a trailer.
LEMMA StatusStepIsApply ==
  ASSUME NEW c \in Contexts, NEW o \in OrderIds,
         \/ \E s \in OrderStatus : Transition(c, o, s)
         \/ Complete(c, o)
         \/ \E r \in RefundOutcomes : Cancel(c, o, r)
  PROVE  \E s \in OrderStatus, trailer \in Seq(AuditEvent) : Apply(c, o, s, trailer)
<1>0. /\ "completed" \in OrderStatus /\ "cancelled" \in OrderStatus
      /\ <<>> \in Seq(AuditEvent)
  BY DEF OrderStatus
<1>1. CASE (\E s \in OrderStatus : Transition(c, o, s)) \/ Complete(c, o)
  BY <1>0, <1>1 DEF Transition, Complete
<1>2. ASSUME NEW r \in RefundOutcomes, Cancel(c, o, r)
      PROVE  \E trailer \in Seq(AuditEvent) : Apply(c, o, "cancelled", trailer)
  <2> DEFINE trailer == IF r = "raises" THEN <<>> ELSE <<Cancelled(r = "ref")>>
  <2>1. Cancelled(r = "ref") \in AuditEvent
    BY DEF Cancelled, AuditEvent
  <2>2. trailer \in Seq(AuditEvent) /\ Apply(c, o, "cancelled", trailer)
    BY <1>2, <2>1 DEF Cancel
  <2> HIDE DEF trailer
  <2> QED
    BY <2>2
<1> QED
  BY <1>0, <1>1, <1>2

\* Fulfilment steps touch status and history only.
LEMMA FulfillmentStep ==
  ASSUME NEW o \in OrderIds, ConfirmPayment(o) \/ StartService(o)
  PROVE  /\ \E s \in {"confirmed", "in_progress"} : transition_to(o, s, "fulfillment")
         /\ UNCHANGED <<tenant_id, total, snapshot, ledger, audit, refundCalls>>
  BY DEF ConfirmPayment, StartService

\* SettlementIntegrity is inductive.
LEMMA SettlementInductive ==
  TypeOK /\ SettlementIntegrity /\ [Next]_vars => SettlementIntegrity'
<1> SUFFICES ASSUME TypeOK, SettlementIntegrity, [Next]_vars
             PROVE  SettlementIntegrity'
  OBVIOUS
<1>1. ASSUME NEW o \in OrderIds, NEW c \in Contexts,
             NEW owner \in Tenants \cup {NoTenant}, NEW a \in Amounts,
             Register(c, o, owner, a)
      PROVE  SettlementIntegrity'
  <2> SUFFICES ASSUME NEW x \in OrderIds PROVE SettlementIntegrity!(x)'
    BY DEF SettlementIntegrity
  <2>0. SettlementIntegrity!(x)
    BY DEF SettlementIntegrity
  <2>1. CASE x = o
    BY <1>1, <2>0, <2>1 DEF Register
  <2>2. CASE x # o
    <3>1. status'[x] = status[x] /\ total'[x] = total[x] /\ tenant_id'[x] = tenant_id[x]
      BY <1>1, <2>2 DEF Register, TypeOK
    <3> QED
      BY <1>1, <2>0, <3>1 DEF Register
  <2> QED
    BY <2>1, <2>2
<1>2. ASSUME NEW o \in OrderIds, NEW c \in Contexts,
             NEW s \in OrderStatus, NEW trailer \in Seq(AuditEvent), Apply(c, o, s, trailer)
      PROVE  SettlementIntegrity'
  BY <1>2, ApplySettles
<1>3. ASSUME NEW o \in OrderIds, NEW f \in Fractions, RecordCommissionReversal(o, f)
      PROVE  SettlementIntegrity'
  BY <1>3, ReversalKeepsSettlement
<1>4. ASSUME NEW o \in OrderIds, ConfirmPayment(o) \/ StartService(o)
      PROVE  SettlementIntegrity'
  <2> SUFFICES ASSUME NEW x \in OrderIds PROVE SettlementIntegrity!(x)'
    BY DEF SettlementIntegrity
  <2>0. SettlementIntegrity!(x)
    BY DEF SettlementIntegrity
  <2>1. PICK s : transition_to(o, s, "fulfillment")
    BY <1>4, FulfillmentStep
  <2>2. UNCHANGED <<tenant_id, total, snapshot, ledger>>
    BY <1>4, FulfillmentStep
  <2>3. CASE x = o
    <3>1. ledger[x] = <<>>
      BY <2>0, <2>1, <2>3, TransitionLeavesOpenStatus
    <3> QED
      BY <2>0, <2>2, <3>1
  <2>4. CASE x # o
    <3>1. status'[x] = status[x]
      BY <2>1, <2>4, TransitionLeavesOpenStatus DEF TypeOK
    <3> QED
      BY <2>0, <2>2, <3>1
  <2> QED
    BY <2>3, <2>4
<1>5. CASE UNCHANGED vars
  BY <1>5 DEF vars, SettlementIntegrity
<1> QED
  BY <1>1, <1>2, <1>3, <1>4, <1>5, StatusStepIsApply DEF Next, OrderStep

\* An order is settled at most once, only when completed, to its own tenant and
\* for its own amount; reversals stay within what was settled.  For every amount,
\* rate and fraction the callers may use.
THEOREM SettlementIsSound == Spec => []SettlementIntegrity
<1>1. Init => SettlementIntegrity
  BY DEF Init, SettlementIntegrity
<1> QED
  BY <1>1, TypeCorrect, SettlementInductive, PTL DEF Spec

-----------------------------------------------------------------------------
(* The contract rate.  _settle_commission charges the rate of the tenant   *)
(* BOUND to the request; it is the order's own because find_by_id rejects  *)
(* other tenants' orders and, under bound contexts, every order has an     *)
(* owner.                                                                  *)

\* Every saved order belongs to a tenant when no operation runs unbound.
Owned ==
  NoTenant \notin Contexts =>
    \A o \in OrderIds : status[o] # "absent" => tenant_id[o] \in Tenants

\* Every step keeps the orders owned.
LEMMA OwnedInductive == TypeOK /\ Owned /\ [Next]_vars => Owned'
<1> SUFFICES ASSUME TypeOK, Owned, [Next]_vars, NoTenant \notin Contexts,
                    NEW x \in OrderIds, status'[x] # "absent"
             PROVE  tenant_id'[x] \in Tenants
  BY DEF Owned
<1>1. ASSUME NEW o \in OrderIds, NEW c \in Contexts,
             NEW owner \in Tenants \cup {NoTenant}, NEW a \in Amounts,
             Register(c, o, owner, a)
      PROVE  tenant_id'[x] \in Tenants
  <2>1. _bind_tenant(c, owner) \in Tenants
    BY TenantAssumption DEF _bind_tenant
  <2> QED
    BY <1>1, <2>1 DEF Register, TypeOK, Owned
<1>2. ASSUME NEW o \in OrderIds, NEW s, NEW by, transition_to(o, s, by),
             tenant_id' = tenant_id
      PROVE  tenant_id'[x] \in Tenants
  BY <1>2, TransitionLeavesOpenStatus DEF TypeOK, Owned
<1>3. CASE UNCHANGED <<status, tenant_id>>
  BY <1>3 DEF Owned
<1>4. ASSUME NEW o \in OrderIds, NEW c \in Contexts,
             NEW s \in OrderStatus, NEW trailer \in Seq(AuditEvent), Apply(c, o, s, trailer)
      PROVE  tenant_id'[x] \in Tenants
  BY <1>2, <1>4 DEF Apply
<1> QED
  BY <1>1, <1>2, <1>3, <1>4, StatusStepIsApply, FulfillmentStep
  DEF Next, OrderStep, RecordCommissionReversal, vars

\* A completed order's rate is settled in the completing step and kept after it.
LEMMA RateInductive ==
  TypeOK /\ Owned /\ SettlementIntegrity /\ SettledAtContractRate /\ [Next]_vars
    => SettledAtContractRate'
<1> SUFFICES ASSUME TypeOK, Owned, SettlementIntegrity, SettledAtContractRate,
                    [Next]_vars, NoTenant \notin Contexts,
                    NEW x \in OrderIds, status'[x] = "completed"
             PROVE  LET rate == TenantRate[tenant_id'[x]]
                    IN  IF Computable(total'[x], rate)
                        THEN snapshot'[x] # NoSnapshot /\ snapshot'[x].rate = rate
                        ELSE snapshot'[x] = NoSnapshot
  BY DEF SettledAtContractRate
<1> DEFINE Goal == LET rate == TenantRate[tenant_id'[x]]
                   IN  IF Computable(total'[x], rate)
                       THEN snapshot'[x] # NoSnapshot /\ snapshot'[x].rate = rate
                       ELSE snapshot'[x] = NoSnapshot
<1>1. ASSUME status[x] = "completed", tenant_id'[x] = tenant_id[x],
             total'[x] = total[x], snapshot'[x] = snapshot[x]
      PROVE  Goal
  BY <1>1 DEF SettledAtContractRate
<1>2. ASSUME NEW o \in OrderIds, NEW c \in Contexts,
             NEW owner \in Tenants \cup {NoTenant}, NEW a \in Amounts,
             Register(c, o, owner, a)
      PROVE  Goal
  <2>1. x # o
    BY <1>2 DEF Register, TypeOK
  <2> QED
    BY <1>1, <1>2, <2>1 DEF Register, TypeOK
<1>3. ASSUME NEW o \in OrderIds, NEW c \in Contexts,
             NEW s \in OrderStatus, NEW trailer \in Seq(AuditEvent), Apply(c, o, s, trailer)
      PROVE  Goal
  <2>1. /\ status[o] \notin {"absent", "completed", "cancelled"}
        /\ status' = [status EXCEPT ![o] = s] /\ UNCHANGED <<tenant_id, total>>
    BY <1>3, TransitionLeavesOpenStatus DEF Apply
  <2>2. CASE x # o
    <3>1. status[x] = "completed" /\ tenant_id'[x] = tenant_id[x] /\ total'[x] = total[x]
      BY <2>1, <2>2 DEF TypeOK
    <3>2. snapshot'[x] = snapshot[x]
      BY <1>3, <2>2 DEF Apply, _settle_commission, TypeOK
    <3> QED
      BY <1>1, <3>1, <3>2
  <2>3. CASE x = o
    <3>1. s = "completed"
      BY <2>1, <2>3 DEF TypeOK
    <3>2. tenant_id[o] = c /\ c \in Tenants /\ RateFor(c) = TenantRate[tenant_id[o]]
      BY <1>3, <2>1, TenantAssumption DEF Apply, Found, _check_tenant, Owned, RateFor
    <3>3. snapshot[o] = NoSnapshot
      BY <2>1 DEF SettlementIntegrity
    <3>4. CASE Settles(c, o)
      <4> DEFINE snap == [rate |-> Split(c, o).rate, fee |-> Split(c, o).fee,
                          settlement |-> Split(c, o).settlement]
      <4>1. snapshot'[o] = snap
        BY <1>3, <3>1, <3>4 DEF Apply, _settle_commission, TypeOK
      <4>2. snap \in Snapshot /\ snap.rate = RateFor(c)
        BY <3>4, SplitType DEF Snapshot
      <4>3. snap # NoSnapshot
        BY <4>2, InputAssumption
      <4> HIDE DEF snap
      <4> QED
        BY <2>1, <2>3, <3>2, <3>4, <4>1, <4>2, <4>3 DEF Settles
    <3>5. CASE ~Settles(c, o)
      <4>1. snapshot' = snapshot
        BY <1>3, <3>5 DEF Apply
      <4> QED
        BY <2>1, <2>3, <3>2, <3>3, <3>5, <4>1 DEF Settles
    <3> QED
      BY <3>4, <3>5
  <2> QED
    BY <2>2, <2>3
<1>4. ASSUME NEW o \in OrderIds, ConfirmPayment(o) \/ StartService(o)
      PROVE  Goal
  <2>1. PICK s \in {"confirmed", "in_progress"} : transition_to(o, s, "fulfillment")
    BY <1>4, FulfillmentStep
  <2>2. x # o /\ status[x] = "completed"
    BY <2>1, TransitionLeavesOpenStatus DEF TypeOK
  <2> QED
    BY <1>1, <1>4, <2>2, FulfillmentStep
<1>5. CASE UNCHANGED <<status, tenant_id, total, snapshot>>
  BY <1>1, <1>5
<1> QED
  BY <1>2, <1>3, <1>4, <1>5, StatusStepIsApply
  DEF Next, OrderStep, RecordCommissionReversal, vars

\* Through the API, a completed order is settled at the contract rate of its own
\* tenant, exactly when amount and rate allow a split at all.
THEOREM ContractRateIsCharged == Spec => []SettledAtContractRate
<1>1. Init => Owned /\ SettledAtContractRate
  BY DEF Init, Owned, SettledAtContractRate
<1> QED
  BY <1>1, TypeCorrect, SettlementIsSound, OwnedInductive, RateInductive, PTL DEF Spec

-----------------------------------------------------------------------------
(* Refunds.                                                                *)

\* RefundAtMostOnce is inductive beside SettlementIntegrity.
LEMMA RefundInductive ==
  TypeOK /\ SettlementIntegrity /\ RefundAtMostOnce /\ [Next]_vars => RefundAtMostOnce'
<1> SUFFICES ASSUME TypeOK, SettlementIntegrity, RefundAtMostOnce, [Next]_vars,
                    NEW x \in OrderIds
             PROVE  RefundAtMostOnce!(x)'
  BY DEF RefundAtMostOnce
<1>0. RefundAtMostOnce!(x) /\ refundCalls[x] \in Nat
  BY DEF RefundAtMostOnce, TypeOK
<1>1. ASSUME status'[x] = status[x], ledger'[x] = ledger[x],
             refundCalls'[x] = refundCalls[x]
      PROVE  RefundAtMostOnce!(x)'
  BY <1>0, <1>1
<1>2. ASSUME NEW o \in OrderIds, NEW c \in Contexts,
             NEW owner \in Tenants \cup {NoTenant}, NEW a \in Amounts,
             Register(c, o, owner, a)
      PROVE  RefundAtMostOnce!(x)'
  <2>1. CASE x = o
    BY <1>0, <1>2, <2>1 DEF Register, TypeOK
  <2>2. CASE x # o
    BY <1>1, <1>2, <2>2 DEF Register, TypeOK
  <2> QED
    BY <2>1, <2>2
<1>3. ASSUME NEW o \in OrderIds, NEW c \in Contexts,
             (\E s \in OrderStatus : Transition(c, o, s)) \/ Complete(c, o)
      PROVE  RefundAtMostOnce!(x)'
  <2>1. PICK s \in OrderStatus : Apply(c, o, s, <<>>)
    BY <1>3 DEF Transition, Complete, OrderStatus
  <2>2. refundCalls' = refundCalls
    BY <1>3 DEF Transition, Complete
  <2>3. /\ status[o] \notin {"absent", "completed", "cancelled"}
        /\ status' = [status EXCEPT ![o] = s]
    BY <2>1, TransitionLeavesOpenStatus DEF Apply
  <2>4. CASE x = o
    BY <1>0, <2>2, <2>3, <2>4
  <2>5. CASE x # o
    <3>1. ledger'[x] = ledger[x] /\ status'[x] = status[x]
      BY <2>1, <2>3, <2>5 DEF Apply, _settle_commission, TypeOK
    <3> QED
      BY <1>1, <2>2, <3>1
  <2> QED
    BY <2>4, <2>5
<1>4. ASSUME NEW o \in OrderIds, NEW c \in Contexts, NEW r \in RefundOutcomes,
             Cancel(c, o, r)
      PROVE  RefundAtMostOnce!(x)'
  <2>1. /\ transition_to(o, "cancelled", "service") /\ ledger' = ledger
        /\ refundCalls' = [refundCalls EXCEPT ![o] = @ + IF r = "unwired" THEN 0 ELSE 1]
    BY <1>4 DEF Cancel, Apply
  <2>2. /\ status[o] \notin {"absent", "completed", "cancelled"}
        /\ status' = [status EXCEPT ![o] = "cancelled"]
    BY <2>1, TransitionLeavesOpenStatus
  <2>3. CASE x = o
    <3>1. refundCalls[x] = 0 /\ ledger[x] = <<>>
      <4>1. SettlementIntegrity!(x)
        BY DEF SettlementIntegrity
      <4>2. ledger[x] = <<>>
        BY <2>2, <2>3, <4>1
      <4> QED
        BY <1>0, <2>2, <2>3, <4>2
    <3>2. refundCalls'[x] \in {0, 1} /\ status'[x] = "cancelled" /\ ledger'[x] = <<>>
      BY <2>1, <2>2, <2>3, <3>1 DEF TypeOK
    <3> QED
      BY <3>2
  <2>4. CASE x # o
    BY <1>1, <2>1, <2>2, <2>4 DEF TypeOK
  <2> QED
    BY <2>3, <2>4
<1>5. ASSUME NEW o \in OrderIds, NEW f \in Fractions, RecordCommissionReversal(o, f)
      PROVE  RefundAtMostOnce!(x)'
  <2>1. UNCHANGED <<status, refundCalls>> /\ snapshot[o] # NoSnapshot
    BY <1>5 DEF RecordCommissionReversal
  <2>2. CASE x = o
    BY <1>0, <2>1, <2>2 DEF SettlementIntegrity
  <2>3. CASE x # o
    <3>1. ledger'[x] = ledger[x]
      BY <1>5, <2>3 DEF RecordCommissionReversal, TypeOK
    <3> QED
      BY <1>1, <2>1, <3>1
  <2> QED
    BY <2>2, <2>3
<1>6. ASSUME NEW o \in OrderIds, ConfirmPayment(o) \/ StartService(o)
      PROVE  RefundAtMostOnce!(x)'
  <2>1. PICK s : transition_to(o, s, "fulfillment")
    BY <1>6, FulfillmentStep
  <2>2. UNCHANGED <<ledger, refundCalls>>
    BY <1>6, FulfillmentStep
  <2>3. /\ status[o] \notin {"absent", "completed", "cancelled"}
        /\ status' = [status EXCEPT ![o] = s]
    BY <2>1, TransitionLeavesOpenStatus
  <2> QED
    BY <1>0, <1>1, <2>2, <2>3 DEF TypeOK
<1>7. CASE UNCHANGED vars
  BY <1>1, <1>7 DEF vars
<1> QED
  BY <1>2, <1>3, <1>4, <1>5, <1>6, <1>7 DEF Next, OrderStep

\* The refund callback of cancel runs at most once per order, and never for an
\* order whose commission was settled.
THEOREM RefundsAreUnique == Spec => []RefundAtMostOnce
<1>1. Init => RefundAtMostOnce
  BY DEF Init, RefundAtMostOnce
<1> QED
  BY <1>1, TypeCorrect, SettlementIsSound, RefundInductive, PTL DEF Spec

-----------------------------------------------------------------------------
(* History.                                                                *)

\* transition_to extends the history by one edge that starts where it ended.
LEMMA TransitionExtendsPath ==
  ASSUME TypeOK, HistoryIsPath, NEW o \in OrderIds, NEW s, NEW by \in Changers,
         transition_to(o, s, by)
  PROVE  HistoryIsPath'
<1> SUFFICES ASSUME NEW x \in OrderIds PROVE HistoryIsPath!(x)'
  BY DEF HistoryIsPath
<1>0. HistoryIsPath!(x)
  BY DEF HistoryIsPath
<1> DEFINE change == [from |-> status[o], to |-> s, by |-> by]
           h == history[o]
           h2 == Append(h, change)
<1>1. /\ status' = [status EXCEPT ![o] = s] /\ history' = [history EXCEPT ![o] = h2]
      /\ CanTransition(status[o], s) /\ s # "absent"
      /\ status[o] # "absent" /\ status[o] \in OrderStatus /\ s \in OrderStatus
  BY TransitionLeavesOpenStatus DEF transition_to, CanTransition
<1>2. CASE x # o
  BY <1>0, <1>1, <1>2 DEF TypeOK
<1>3. CASE x = o
  <2>1. h \in Seq(OrderStateChange) /\ change \in OrderStateChange /\ Len(h) \in Nat
    <3>1. change \in OrderStateChange
      BY <1>1 DEF OrderStateChange
    <3>2. h \in Seq(OrderStateChange)
      BY DEF TypeOK
    <3> QED
      BY <3>1, <3>2
  <2>2. IsPath(h, status[o])
    BY <1>0, <1>1, <1>3
  <2>3. status'[o] = s /\ history'[o] = h2
    BY <1>1 DEF TypeOK
  <2> HIDE DEF change, h
  <2>4. /\ h2 # <<>> /\ Len(h2) = Len(h) + 1
        /\ \A i \in 1..Len(h) : h2[i] = h[i]
        /\ h2[Len(h) + 1] = change
    BY <2>1, GrowFacts
  <2>5. change.from = status[o] /\ change.to = s
    BY DEF change
  <2> HIDE DEF h2
  <2>6. \A i \in 1..Len(h2) : CanTransition(h2[i].from, h2[i].to)
    <3> SUFFICES ASSUME NEW i \in 1..Len(h2) PROVE CanTransition(h2[i].from, h2[i].to)
      OBVIOUS
    <3>1. CASE i = Len(h) + 1
      BY <1>1, <2>4, <2>5, <3>1
    <3>2. CASE i \in 1..Len(h)
      BY <2>2, <2>4, <3>2 DEF IsPath
    <3> QED
      BY <2>1, <2>4, <3>1, <3>2
  <2>7. \A i \in 1..Len(h2) : i > 1 => h2[i].from = h2[i-1].to
    <3> SUFFICES ASSUME NEW i \in 1..Len(h2), i > 1 PROVE h2[i].from = h2[i-1].to
      OBVIOUS
    <3>1. CASE i = Len(h) + 1
      <4>1. h # <<>> /\ i - 1 = Len(h) /\ Len(h) \in 1..Len(h)
        BY <2>1, <3>1
      <4>2. h[Len(h)].to = status[o]
        BY <2>2, <4>1 DEF IsPath
      <4> QED
        BY <2>4, <2>5, <3>1, <4>1, <4>2
    <3>2. CASE i \in 1..Len(h)
      <4>1. i - 1 \in 1..Len(h)
        BY <2>1, <3>2
      <4> QED
        BY <2>2, <2>4, <3>2, <4>1 DEF IsPath
    <3> QED
      BY <2>1, <2>4, <3>1, <3>2
  <2>8. h2[1].from = "draft" /\ h2[Len(h2)].to = s
    <3>1. CASE h = <<>>
      BY <2>2, <2>4, <2>5, <3>1 DEF IsPath
    <3>2. CASE h # <<>>
      <4>1. 1 \in 1..Len(h)
        BY <2>1, <3>2
      <4> QED
        BY <2>2, <2>4, <2>5, <3>2, <4>1 DEF IsPath
    <3> QED
      BY <3>1, <3>2
  <2>9. IsPath(h2, s)
    BY <2>4, <2>6, <2>7, <2>8 DEF IsPath
  <2> QED
    BY <1>1, <1>3, <2>3, <2>9
<1> QED
  BY <1>2, <1>3

\* Whoever changes an order, service or fulfilment, its history is a path of the
\* documented state machine that ends in its status.
THEOREM HistoriesArePaths == Spec => []HistoryIsPath
<1>1. Init => HistoryIsPath
  BY DEF Init, HistoryIsPath
<1>2. TypeOK /\ HistoryIsPath /\ [Next]_vars => HistoryIsPath'
  <2> SUFFICES ASSUME TypeOK, HistoryIsPath, [Next]_vars PROVE HistoryIsPath'
    OBVIOUS
  <2>1. ASSUME NEW o \in OrderIds, NEW c \in Contexts,
               NEW owner \in Tenants \cup {NoTenant}, NEW a \in Amounts,
               Register(c, o, owner, a)
        PROVE  HistoryIsPath'
    <3> SUFFICES ASSUME NEW x \in OrderIds PROVE HistoryIsPath!(x)'
      BY DEF HistoryIsPath
    <3>0. HistoryIsPath!(x)
      BY DEF HistoryIsPath
    <3>1. CASE x = o
      <4>1. history'[x] = <<>> /\ status'[x] = "draft"
        BY <2>1, <3>0, <3>1 DEF Register, TypeOK
      <4> QED
        BY <4>1 DEF IsPath
    <3>2. CASE x # o
      BY <2>1, <3>0, <3>2 DEF Register, TypeOK
    <3> QED
      BY <3>1, <3>2
  <2>2. ASSUME NEW o \in OrderIds, NEW s, NEW by \in Changers, transition_to(o, s, by)
        PROVE  HistoryIsPath'
    BY <2>2, TransitionExtendsPath
  <2>3. ASSUME NEW o \in OrderIds, NEW c \in Contexts,
               NEW s \in OrderStatus, NEW trailer \in Seq(AuditEvent), Apply(c, o, s, trailer)
        PROVE  HistoryIsPath'
    BY <2>2, <2>3 DEF Apply, Changers
  <2>4. ASSUME NEW o \in OrderIds, ConfirmPayment(o) \/ StartService(o)
        PROVE  HistoryIsPath'
    BY <2>2, <2>4, FulfillmentStep DEF Changers
  <2>5. CASE UNCHANGED <<status, history>>
    BY <2>5 DEF HistoryIsPath
  <2> QED
    BY <2>1, <2>3, <2>4, <2>5, StatusStepIsApply
    DEF Next, OrderStep, RecordCommissionReversal, vars
<1> QED
  BY <1>1, <1>2, TypeCorrect, PTL DEF Spec

-----------------------------------------------------------------------------
(* Finality.                                                               *)

\* A list is a prefix of itself, of itself with an element appended, and of
\* itself with a list appended.
LEMMA PrefixFacts ==
  ASSUME NEW S, NEW s \in Seq(S), NEW e \in S, NEW t \in Seq(S)
  PROVE  /\ SubSeq(s, 1, Len(s)) = s
         /\ SubSeq(Append(s, e), 1, Len(s)) = s
         /\ SubSeq(s \o t, 1, Len(s)) = s
  OBVIOUS

\* An order no variable of which changes keeps its records.
LEMMA UntouchedKeeps ==
  ASSUME TypeOK, NEW x \in OrderIds,
         status'[x] = status[x], tenant_id'[x] = tenant_id[x], total'[x] = total[x],
         snapshot'[x] = snapshot[x], history'[x] = history[x],
         ledger'[x] = ledger[x], audit'[x] = audit[x]
  PROVE  KeepsRecords(x)
<1>1. /\ ledger[x] \in Seq(LedgerEntry) /\ audit[x] \in Seq(AuditEvent)
      /\ history[x] \in Seq(OrderStateChange)
  BY DEF TypeOK
<1>2. /\ SubSeq(ledger[x], 1, Len(ledger[x])) = ledger[x]
      /\ SubSeq(audit[x], 1, Len(audit[x])) = audit[x]
      /\ SubSeq(history[x], 1, Len(history[x])) = history[x]
  BY <1>1
<1> QED
  BY <1>2 DEF KeepsRecords

\* A status change, with the settlement it may trigger, only adds to the records
\* of its order: the order was open, so by SettlementIntegrity it had neither
\* snapshot nor ledger entry.
LEMMA ApplyKeeps ==
  ASSUME TypeOK, TypeOK', SettlementIntegrity, NEW c \in Contexts, NEW o \in OrderIds,
         NEW s \in OrderStatus, NEW trailer \in Seq(AuditEvent), Apply(c, o, s, trailer)
  PROVE  KeepsRecords(o)
<1>1. /\ status[o] \notin {"absent", "completed", "cancelled"}
      /\ status' = [status EXCEPT ![o] = s] /\ s # "absent"
      /\ tenant_id' = tenant_id /\ total' = total
  BY TransitionLeavesOpenStatus DEF Apply
<1>2. snapshot[o] = NoSnapshot /\ ledger[o] = <<>>
  BY <1>1 DEF SettlementIntegrity
<1>3. SubSeq(ledger'[o], 1, Len(ledger[o])) = ledger[o]
  <2>1. ledger'[o] \in Seq(LedgerEntry)
    BY DEF TypeOK
  <2> QED
    BY <1>2, <2>1
<1>4. SubSeq(history'[o], 1, Len(history[o])) = history[o]
  <2>1. history[o] \in Seq(OrderStateChange)
    BY DEF TypeOK
  <2>2. status[o] \in OrderStatus
    BY <1>1 DEF TypeOK
  <2>3. [from |-> status[o], to |-> s, by |-> "service"] \in OrderStateChange
    BY <2>2 DEF OrderStateChange, Changers
  <2>4. history'[o] = Append(history[o], [from |-> status[o], to |-> s, by |-> "service"])
    BY DEF Apply, transition_to, TypeOK
  <2> QED
    BY <2>1, <2>3, <2>4, PrefixFacts
<1>5. SubSeq(audit'[o], 1, Len(audit[o])) = audit[o]
  <2>1. audit[o] \in Seq(AuditEvent) /\ status[o] \in OrderStatus
    BY <1>1 DEF TypeOK
  <2>2. StatusChanged(status[o], s) \in AuditEvent
    BY <2>1 DEF StatusChanged, AuditEvent
  <2>3. \E t \in Seq(AuditEvent) : audit'[o] = audit[o] \o t
    <3>1. CASE s = "completed" /\ Settles(c, o)
      <4>1. Settled(Split(c, o)) \in AuditEvent
        BY <3>1, SplitType DEF Settled, AuditEvent
      <4>2. audit'[o] = audit[o] \o <<StatusChanged(status[o], s), Settled(Split(c, o))>>
        BY <3>1 DEF Apply, TypeOK
      <4>3. <<StatusChanged(status[o], s), Settled(Split(c, o))>> \in Seq(AuditEvent)
        BY <2>2, <4>1
      <4> QED
        BY <4>2, <4>3, Zenon
    <3>2. CASE ~(s = "completed" /\ Settles(c, o))
      <4>1. audit'[o] = audit[o] \o (<<StatusChanged(status[o], s)>> \o trailer)
        BY <3>2 DEF Apply, TypeOK
      <4>2. <<StatusChanged(status[o], s)>> \o trailer \in Seq(AuditEvent)
        BY <2>2
      <4> QED
        BY <4>1, <4>2
    <3> QED
      BY <3>1, <3>2
  <2> QED
    BY <2>1, <2>3
<1> QED
  BY <1>1, <1>2, <1>3, <1>4, <1>5 DEF KeepsRecords, TypeOK

\* No step of the service, of fulfilment or of a reversal rewrites a record.
LEMMA EveryStepKeeps ==
  ASSUME TypeOK, TypeOK', SettlementIntegrity, Next, NEW x \in OrderIds
  PROVE  KeepsRecords(x)
<1>1. ASSUME NEW o \in OrderIds, NEW c \in Contexts,
             NEW owner \in Tenants \cup {NoTenant}, NEW a \in Amounts,
             Register(c, o, owner, a)
      PROVE  KeepsRecords(x)
  <2>1. CASE x = o
    <3>1. /\ ledger[x] \in Seq(LedgerEntry) /\ audit[x] \in Seq(AuditEvent)
          /\ history[x] \in Seq(OrderStateChange) /\ Created \in AuditEvent
      BY DEF TypeOK, AuditEvent
    <3>2. /\ status[x] = "absent" /\ UNCHANGED <<snapshot, history, ledger>>
          /\ audit'[x] = Append(audit[x], Created)
      BY <1>1, <2>1 DEF Register, TypeOK
    <3>3. SubSeq(audit'[x], 1, Len(audit[x])) = audit[x]
      BY <3>1, <3>2, PrefixFacts
    <3>4. /\ SubSeq(ledger'[x], 1, Len(ledger[x])) = ledger[x]
          /\ SubSeq(history'[x], 1, Len(history[x])) = history[x]
      BY <3>1, <3>2
    <3> QED
      BY <3>2, <3>3, <3>4 DEF KeepsRecords
  <2>2. CASE x # o
    BY <1>1, <2>2, UntouchedKeeps DEF Register, TypeOK
  <2> QED
    BY <2>1, <2>2
<1>2. ASSUME NEW o \in OrderIds, NEW c \in Contexts,
             NEW s \in OrderStatus, NEW trailer \in Seq(AuditEvent), Apply(c, o, s, trailer)
      PROVE  KeepsRecords(x)
  <2>1. CASE x = o
    BY <1>2, <2>1, ApplyKeeps
  <2>2. CASE x # o
    <3>1. snapshot'[x] = snapshot[x] /\ ledger'[x] = ledger[x]
      BY <1>2, <2>2 DEF Apply, _settle_commission, TypeOK
    <3>2. status'[x] = status[x] /\ history'[x] = history[x] /\ audit'[x] = audit[x]
      BY <1>2, <2>2 DEF Apply, transition_to, TypeOK
    <3>3. UNCHANGED <<tenant_id, total>>
      BY <1>2 DEF Apply
    <3> QED
      BY <3>1, <3>2, <3>3, UntouchedKeeps
  <2> QED
    BY <2>1, <2>2
<1>3. ASSUME NEW o \in OrderIds, NEW f \in Fractions, RecordCommissionReversal(o, f)
      PROVE  KeepsRecords(x)
  <2>0. UNCHANGED <<status, tenant_id, total, snapshot, history>>
    BY <1>3, SMTT(30) DEF RecordCommissionReversal
  <2>1. CASE x = o
    <3>1. /\ ledger[x] \in Seq(LedgerEntry) /\ audit[x] \in Seq(AuditEvent)
          /\ history[x] \in Seq(OrderStateChange)
          /\ ledger'[x] \in Seq(LedgerEntry) /\ audit'[x] \in Seq(AuditEvent)
      BY DEF TypeOK
    <3>2. /\ \E e : ledger'[x] = Append(ledger[x], e)
          /\ \E e : audit'[x] = Append(audit[x], e)
      BY <1>3, <2>1 DEF RecordCommissionReversal, TypeOK
    <3>3. PICK e : ledger'[x] = Append(ledger[x], e)
      BY <3>2
    <3>4. PICK d : audit'[x] = Append(audit[x], d)
      BY <3>2
    <3>5. SubSeq(ledger'[x], 1, Len(ledger[x])) = ledger[x]
      BY <3>1, <3>3
    <3>6. SubSeq(audit'[x], 1, Len(audit[x])) = audit[x]
      BY <3>1, <3>4
    <3>7. SubSeq(history'[x], 1, Len(history[x])) = history[x]
      BY <2>0, <3>1
    <3> QED
      BY <2>0, <3>5, <3>6, <3>7 DEF KeepsRecords
  <2>2. CASE x # o
    <3>1. ledger'[x] = ledger[x] /\ audit'[x] = audit[x]
      BY <1>3, <2>2 DEF RecordCommissionReversal, TypeOK
    <3> QED
      BY <2>0, <3>1, UntouchedKeeps
  <2> QED
    BY <2>1, <2>2
<1>4. ASSUME NEW o \in OrderIds, ConfirmPayment(o) \/ StartService(o)
      PROVE  KeepsRecords(x)
  <2>0. UNCHANGED <<tenant_id, total, snapshot, ledger, audit>>
    BY <1>4, FulfillmentStep
  <2>1. PICK s \in {"confirmed", "in_progress"} : transition_to(o, s, "fulfillment")
    BY <1>4, FulfillmentStep
  <2>2. /\ status[o] \notin {"absent", "completed", "cancelled"}
        /\ status' = [status EXCEPT ![o] = s] /\ s # "absent" /\ s \in OrderStatus
    BY <2>1, TransitionLeavesOpenStatus
  <2>3. CASE x = o
    <3>1. /\ ledger[x] \in Seq(LedgerEntry) /\ audit[x] \in Seq(AuditEvent)
          /\ history[x] \in Seq(OrderStateChange) /\ status[x] \in OrderStatus
      BY <2>2, <2>3 DEF TypeOK
    <3>2. [from |-> status[x], to |-> s, by |-> "fulfillment"] \in OrderStateChange
      BY <2>2, <3>1 DEF OrderStateChange, Changers
    <3>3. history'[x] = Append(history[x],
                               [from |-> status[x], to |-> s, by |-> "fulfillment"])
      BY <2>1, <2>3 DEF transition_to, TypeOK
    <3>4. SubSeq(history'[x], 1, Len(history[x])) = history[x]
      BY <3>1, <3>2, <3>3, PrefixFacts
    <3>5. /\ SubSeq(ledger'[x], 1, Len(ledger[x])) = ledger[x]
          /\ SubSeq(audit'[x], 1, Len(audit[x])) = audit[x]
      BY <2>0, <3>1
    <3>6. status'[x] # "absent"
      BY <2>2, <2>3 DEF TypeOK
    <3> QED
      BY <2>0, <2>2, <2>3, <3>4, <3>5, <3>6 DEF KeepsRecords
  <2>4. CASE x # o
    <3>1. status'[x] = status[x] /\ history'[x] = history[x]
      BY <2>1, <2>4 DEF transition_to, TypeOK
    <3> QED
      BY <2>0, <3>1, UntouchedKeeps
  <2> QED
    BY <2>3, <2>4
<1> QED
  BY <1>1, <1>2, <1>3, <1>4, StatusStepIsApply DEF Next, OrderStep

\* Ledger, audit trail and histories only ever grow, a captured snapshot and a
\* terminal status never change, and an order keeps its tenant and its price.
THEOREM HistoryIsFinal == Spec => RecordsAreFinal
<1>1. TypeOK /\ TypeOK' /\ SettlementIntegrity /\ [Next]_vars
        => [\A o \in OrderIds : KeepsRecords(o)]_vars
  BY EveryStepKeeps
<1> QED
  BY <1>1, TypeCorrect, SettlementIsSound, PTL DEF Spec, RecordsAreFinal

-----------------------------------------------------------------------------
(* OrderService implements OrderContract.  A status change between open    *)
(* statuses and a reversal are stuttering steps of the contract;           *)
(* completing and cancelling are its steps.                                *)

PhaseOf == [o \in OrderIds |-> Phase(status[o])]
Agreed == {TenantRate[t] : t \in Tenants} \cup {DefaultRate}

\* The phase of each status.
LEMMA PhaseFacts ==
  /\ Phase("absent") = "none"
  /\ \A s \in CANCELLABLE_STATES : Phase(s) = "open"
  /\ Phase("completed") = "completed" /\ Phase("cancelled") = "cancelled"
  BY DEF Phase, CANCELLABLE_STATES

\* The statuses transition_to can reach, by their phase.
LEMMA StatusByPhase ==
  ASSUME NEW s \in OrderStatus, s # "completed", s # "cancelled"
  PROVE  s \in CANCELLABLE_STATES
  BY DEF OrderStatus, CANCELLABLE_STATES

\* The phases after a step that gives order o the status s.
LEMMA PhaseUpdate ==
  ASSUME TypeOK, NEW o \in OrderIds, NEW s, status' = [status EXCEPT ![o] = s]
  PROVE  PhaseOf' = [PhaseOf EXCEPT ![o] = Phase(s)]
  BY DEF PhaseOf, TypeOK

\* What calculate computes is fair by the contract's definition.
LEMMA CalculateIsFair ==
  ASSUME TypeOK, NEW c \in Contexts, NEW o \in OrderIds, Settles(c, o)
  PROVE  Contract!FairPayout(
           [rate |-> Split(c, o).rate, fee |-> Split(c, o).fee,
            settlement |-> Split(c, o).settlement], total[o])
<1> DEFINE rate == RateFor(c)
           fee == Split(c, o).fee
<1>1. /\ rate \in Int /\ total[o] \in Int /\ fee \in Int
      /\ Split(c, o).rate = rate
      /\ fee + Split(c, o).settlement = total[o]
      /\ Split(c, o).settlement \in Int
      /\ 0 <= fee /\ 0 <= Split(c, o).settlement
  BY SplitType
<1>2. rate \in Agreed /\ 0 <= rate /\ rate <= Scale
  BY TenantAssumption DEF Settles, Computable, ValidRate, RateFor, Agreed
<1>3. fee = (total[o] * rate) \div Scale
  BY DEF Split, calculate, RoundDown
<1>4. Scale \in Nat \ {0} /\ total[o] * rate \in Int
  BY <1>1, ScaleAssumption
<1>5. fee * Scale <= total[o] * rate /\ total[o] * rate < fee * Scale + Scale
  BY <1>3, <1>4, DivFloor
<1>6. (fee + 1) * Scale = fee * Scale + Scale
  BY <1>1, <1>4
<1>7. Contract!FairFee(fee, total[o], rate)
  BY <1>5, <1>6 DEF Contract!FairFee
<1> QED
  BY <1>1, <1>2, <1>7 DEF Contract!FairPayout, Agreed

\* A status change is a step of the contract or a stutter.
LEMMA ApplyRefines ==
  ASSUME TypeOK, SettlementIntegrity, NEW c \in Contexts, NEW o \in OrderIds,
         NEW s \in OrderStatus, NEW trailer, Apply(c, o, s, trailer)
  PROVE  Contract!Next \/ UNCHANGED <<PhaseOf, total, snapshot>>
<1>1. /\ status[o] \in CANCELLABLE_STATES
      /\ status' = [status EXCEPT ![o] = s] /\ total' = total
  BY TransitionLeavesOpenStatus DEF Apply
<1>2. PhaseOf[o] = "open" /\ PhaseOf' = [PhaseOf EXCEPT ![o] = Phase(s)]
  BY <1>1, PhaseFacts, PhaseUpdate DEF PhaseOf
<1>3. PhaseOf \in [OrderIds -> {Phase(t) : t \in OrderStatus \cup {"absent"}}]
  BY DEF PhaseOf, TypeOK
<1>4. CASE s = "completed"
  <2>1. PhaseOf' = [PhaseOf EXCEPT ![o] = "completed"]
    BY <1>2, <1>4, PhaseFacts
  <2>2. CASE Settles(c, o)
    <3> DEFINE snap == [rate |-> Split(c, o).rate, fee |-> Split(c, o).fee,
                        settlement |-> Split(c, o).settlement]
    <3>1. snapshot' = [snapshot EXCEPT ![o] = snap]
      BY <1>4, <2>2 DEF Apply, _settle_commission
    <3>2. snapshot'[o] = snap
      BY <3>1 DEF TypeOK
    <3>3. Contract!FairPayout(snapshot'[o], total[o])
      BY <2>2, <3>2, CalculateIsFair
    <3> QED
      BY <1>1, <1>2, <2>1, <3>1, <3>2, <3>3
      DEF Contract!Next, Contract!Complete, PhaseOf
  <2>3. CASE ~Settles(c, o)
    <3>1. snapshot' = snapshot
      BY <2>3 DEF Apply
    <3> QED
      BY <1>1, <1>2, <2>1, <3>1 DEF Contract!Next, Contract!Complete, PhaseOf
  <2> QED
    BY <2>2, <2>3
<1>5. CASE s = "cancelled"
  <2>1. PhaseOf' = [PhaseOf EXCEPT ![o] = "cancelled"] /\ snapshot' = snapshot
    BY <1>2, <1>5, PhaseFacts DEF Apply
  <2> QED
    BY <1>1, <1>2, <2>1 DEF Contract!Next, Contract!Cancel, PhaseOf
<1>6. CASE s # "completed" /\ s # "cancelled"
  <2>1. Phase(s) = "open" /\ snapshot' = snapshot
    BY <1>6, StatusByPhase, PhaseFacts DEF Apply
  <2>2. PhaseOf' = PhaseOf
    BY <1>2, <1>3, <2>1
  <2> QED
    BY <1>1, <2>1, <2>2
<1> QED
  BY <1>4, <1>5, <1>6

\* Every behaviour of the order service, whatever the tenants, rates, amounts and
\* refund callback, is a behaviour of the contract: one end per order, one fair
\* payout, only on completion.
THEOREM ServiceImplementsContract == Spec => ImplementsContract
<1>1. Init => Contract!Init
  BY PhaseFacts DEF Init, Contract!Init, PhaseOf
<1>2. TypeOK /\ SettlementIntegrity /\ [Next]_vars => [Contract!Next]_(Contract!vars)
  <2> SUFFICES ASSUME TypeOK, SettlementIntegrity, [Next]_vars
               PROVE  Contract!Next \/ UNCHANGED <<PhaseOf, total, snapshot>>
    BY DEF Contract!vars, PhaseOf
  <2>1. ASSUME NEW o \in OrderIds, NEW c \in Contexts,
               NEW owner \in Tenants \cup {NoTenant}, NEW a \in Amounts,
               Register(c, o, owner, a)
        PROVE  Contract!Next
    <3>1. PhaseOf[o] = "none" /\ PhaseOf' = [PhaseOf EXCEPT ![o] = "open"]
      <4>1. Phase("draft") = "open"
        BY PhaseFacts DEF CANCELLABLE_STATES
      <4>2. status[o] = "absent" /\ status' = [status EXCEPT ![o] = "draft"]
        BY <2>1 DEF Register
      <4>3. PhaseOf[o] = "none"
        BY <4>2, PhaseFacts DEF PhaseOf
      <4>4. PhaseOf' = [PhaseOf EXCEPT ![o] = Phase("draft")]
        BY <4>2, PhaseUpdate
      <4> QED
        BY <4>1, <4>3, <4>4
    <3> QED
      BY <2>1, <3>1 DEF Register, Contract!Next, Contract!Open, PhaseOf
  <2>2. ASSUME NEW o \in OrderIds, NEW c \in Contexts,
               NEW s \in OrderStatus, NEW trailer \in Seq(AuditEvent), Apply(c, o, s, trailer)
        PROVE  Contract!Next \/ UNCHANGED <<PhaseOf, total, snapshot>>
    BY <2>2, ApplyRefines
  <2>3. ASSUME NEW o \in OrderIds, ConfirmPayment(o) \/ StartService(o)
        PROVE  UNCHANGED <<PhaseOf, total, snapshot>>
    <3>1. PICK s \in {"confirmed", "in_progress"} : transition_to(o, s, "fulfillment")
      BY <2>3, FulfillmentStep
    <3>2. status[o] \in CANCELLABLE_STATES /\ status' = [status EXCEPT ![o] = s]
      BY <3>1, TransitionLeavesOpenStatus
    <3>3. PhaseOf[o] = "open" /\ PhaseOf' = [PhaseOf EXCEPT ![o] = "open"]
      BY <3>1, <3>2, PhaseFacts, PhaseUpdate DEF PhaseOf, CANCELLABLE_STATES
    <3>4. PhaseOf' = PhaseOf
      BY <3>3 DEF PhaseOf
    <3> QED
      BY <2>3, <3>4, FulfillmentStep
  <2>4. CASE UNCHANGED <<status, total, snapshot>>
    BY <2>4 DEF PhaseOf
  <2> QED
    BY <2>1, <2>2, <2>3, <2>4, StatusStepIsApply
    DEF Next, OrderStep, RecordCommissionReversal, vars
<1> QED
  BY <1>1, <1>2, TypeCorrect, SettlementIsSound, PTL
  DEF Spec, ImplementsContract, Contract!Spec
-----------------------------------------------------------------------------
(* The audit trail beside the history and the ledger.  A list is matched   *)
(* with another by the ranks of the entries selected from it, and a list   *)
(* that grows at its end gives its old entries the ranks they had.         *)

\* A subset of 1..n that gains n + 1: the newcomer is last, the others stay.
LEMMA RankGrows ==
  ASSUME NEW n \in Nat, NEW K \in SUBSET (1..n)
  PROVE  /\ IsFiniteSet(K) /\ Cardinality(K) \in Nat
         /\ Cardinality(K \cup {n + 1}) = Cardinality(K) + 1
         /\ Rank(K \cup {n + 1}, n + 1) = Cardinality(K) + 1
         /\ \A i \in K : /\ Rank(K \cup {n + 1}, i) = Rank(K, i)
                         /\ Rank(K, i) \in 1..Cardinality(K)
<1>1. IsFiniteSet(1..n)
  BY FS_Interval
<1>2. IsFiniteSet(K) /\ Cardinality(K) \in Nat
  BY <1>1, FS_Subset, FS_CardinalityType
<1>3. Cardinality(K \cup {n + 1}) = Cardinality(K) + 1
  <2>1. n + 1 \notin K
    OBVIOUS
  <2> QED
    BY <1>2, <2>1, FS_AddElement
<1>4. {j \in K \cup {n + 1} : j <= n + 1} = K \cup {n + 1}
  <2>1. \A j \in K : j <= n + 1
    OBVIOUS
  <2>2. n + 1 <= n + 1
    OBVIOUS
  <2> QED
    BY <2>1, <2>2, Zenon
<1>5. ASSUME NEW i \in K
      PROVE  /\ Rank(K \cup {n + 1}, i) = Rank(K, i)
             /\ Rank(K, i) \in 1..Cardinality(K)
  <2> DEFINE L == {j \in K : j <= i}
  <2>1. {j \in K \cup {n + 1} : j <= i} = L
    OBVIOUS
  <2>2. L \subseteq K /\ i \in L
    OBVIOUS
  <2>3. Rank(K \cup {n + 1}, i) = Rank(K, i)
    BY <2>1 DEF Rank
  <2>4. Rank(K, i) = Cardinality(L)
    BY DEF Rank
  <2> HIDE DEF L
  <2>5. IsFiniteSet(L) /\ Cardinality(L) <= Cardinality(K)
    BY <1>2, <2>2, FS_Subset
  <2>6. Cardinality(L) \in Nat /\ Cardinality(L) # 0
    BY <2>2, <2>5, FS_CardinalityType, FS_EmptySet
  <2> QED
    BY <1>2, <2>3, <2>4, <2>5, <2>6
<1> QED
  BY <1>2, <1>3, <1>4, <1>5 DEF Rank

\* The positions of the events of these names in a, of the changes by who in h.
Events(a, names) == {i \in 1..Len(a) : a[i].event \in names}
Changes(h, who) == {i \in 1..Len(h) : h[i].by = who}

LEMMA EventsGrow ==
  ASSUME NEW S, NEW a \in Seq(S), NEW e \in S, NEW names
  PROVE  /\ Events(Append(a, e), names) =
              IF e.event \in names THEN Events(a, names) \cup {Len(a) + 1} ELSE Events(a, names)
         /\ Len(a) \in Nat /\ Events(a, names) \in SUBSET (1..Len(a))
         /\ \A i \in Events(a, names) : Append(a, e)[i] = a[i]
         /\ Append(a, e)[Len(a) + 1] = e
<1>1. /\ Len(a) \in Nat /\ Len(Append(a, e)) = Len(a) + 1
      /\ \A i \in 1..Len(a) : Append(a, e)[i] = a[i]
      /\ Append(a, e)[Len(a) + 1] = e
  BY GrowFacts
<1> QED
  BY <1>1 DEF Events

LEMMA ChangesGrow ==
  ASSUME NEW S, NEW h \in Seq(S), NEW e \in S, NEW who
  PROVE  /\ Changes(Append(h, e), who) =
              IF e.by = who THEN Changes(h, who) \cup {Len(h) + 1} ELSE Changes(h, who)
         /\ Len(h) \in Nat /\ Changes(h, who) \in SUBSET (1..Len(h))
         /\ \A i \in Changes(h, who) : Append(h, e)[i] = h[i]
         /\ Append(h, e)[Len(h) + 1] = e
<1>1. /\ Len(h) \in Nat /\ Len(Append(h, e)) = Len(h) + 1
      /\ \A i \in 1..Len(h) : Append(h, e)[i] = h[i]
      /\ Append(h, e)[Len(h) + 1] = e
  BY GrowFacts
<1> QED
  BY <1>1 DEF Changes

\* AuditMatchesHistory and AuditMatchesLedger, of the lists of one order.
StatusEvents(a) == Events(a, {"order.status_changed"})
MoneyEvents(a) == Events(a, {"commission.settled", "commission.reversed"})

Tells(a, h) ==
  /\ \A j \in StatusEvents(a) : \E i \in 1..Len(h) : TellsOf(a[j], h[i])
  /\ \A i \in Changes(h, "service") : \E j \in StatusEvents(a) : TellsOf(a[j], h[i])
  /\ \A j, k \in StatusEvents(a), i, l \in 1..Len(h) :
       j < k /\ TellsOf(a[j], h[i]) /\ TellsOf(a[k], h[l]) => i < l

\* A change to a status that is new to the history.
NewTo(h, c) == \A i \in 1..Len(h) : h[i].to # c.to

Books(a, l) ==
  /\ Cardinality(MoneyEvents(a)) = Len(l)
  /\ \A j \in MoneyEvents(a) :
       LET i == Rank(MoneyEvents(a), j)
       IN  /\ (a[j].event = "commission.settled") <=> (i = 1)
           /\ l[i].fee = IF i = 1 THEN a[j].fee ELSE -a[j].fee

LEMMA OneOrderAtATime ==
  /\ AuditMatchesHistory <=> \A o \in OrderIds : Tells(audit[o], history[o])
  /\ AuditMatchesLedger <=> \A o \in OrderIds : Books(audit[o], ledger[o])
<1>1. \A o : /\ Logged(o, {"order.status_changed"}) = StatusEvents(audit[o])
             /\ Logged(o, {"commission.settled", "commission.reversed"}) = MoneyEvents(audit[o])
             /\ ChangedBy(o, "service") = Changes(history[o], "service")
  BY DEF Logged, ChangedBy, StatusEvents, MoneyEvents, Events, Changes
<1>2. AuditMatchesHistory <=> \A o \in OrderIds : Tells(audit[o], history[o])
  BY <1>1 DEF AuditMatchesHistory, Tells
<1>3. AuditMatchesLedger <=> \A o \in OrderIds : Books(audit[o], ledger[o])
  BY <1>1 DEF AuditMatchesLedger, Books
<1> QED
  BY <1>2, <1>3

\* An event of another kind changes neither.
LEMMA OtherEvent ==
  ASSUME NEW S, NEW a \in Seq(S), NEW e \in S, NEW names, e.event \notin names
  PROVE  /\ Events(Append(a, e), names) = Events(a, names)
         /\ \A i \in Events(a, names) : Append(a, e)[i] = a[i]
  BY EventsGrow

LEMMA TellsOtherEvent ==
  ASSUME NEW S, NEW a \in Seq(S), NEW e \in S, NEW h, Tells(a, h),
         e.event # "order.status_changed"
  PROVE  Tells(Append(a, e), h)
<1>1. /\ StatusEvents(Append(a, e)) = StatusEvents(a)
      /\ \A i \in StatusEvents(a) : Append(a, e)[i] = a[i]
  <2>1. e.event \notin {"order.status_changed"}
    OBVIOUS
  <2> QED
    BY <2>1, OtherEvent DEF StatusEvents
<1> DEFINE b == Append(a, e)
<1> HIDE DEF b
<1>2. StatusEvents(b) = StatusEvents(a) /\ \A i \in StatusEvents(a) : b[i] = a[i]
  BY <1>1 DEF b
<1>3. Tells(b, h)
  BY <1>2 DEF Tells
<1> QED
  BY <1>3 DEF b

\* No event tells of a change to a status the history did not know.
LEMMA NothingToldAhead ==
  ASSUME NEW a, NEW h, NEW c, Tells(a, h), NewTo(h, c)
  PROVE  \A j \in StatusEvents(a) : ~ TellsOf(a[j], c)
  BY DEF Tells, NewTo, TellsOf

LEMMA TellsOtherChange ==
  ASSUME NEW S, NEW h \in Seq(S), NEW c \in S, NEW a, Tells(a, h), c.by # "service",
         NewTo(h, c)
  PROVE  Tells(a, Append(h, c))
<1> DEFINE g == Append(h, c)
           n == Len(h)
<1>1. /\ Changes(g, "service") = Changes(h, "service")
      /\ \A i \in Changes(h, "service") : g[i] = h[i]
  BY ChangesGrow
<1>2. /\ n \in Nat /\ Len(g) = n + 1 /\ g[n + 1] = c
      /\ \A i \in 1..n : g[i] = h[i]
  BY GrowFacts
<1>3. \A j \in StatusEvents(a) : ~ TellsOf(a[j], g[n + 1])
  BY <1>2, NothingToldAhead
<1>4. /\ \A j \in StatusEvents(a) : \E i \in 1..n : TellsOf(a[j], h[i])
      /\ \A i \in Changes(h, "service") : \E j \in StatusEvents(a) : TellsOf(a[j], h[i])
      /\ \A j, k \in StatusEvents(a), i, l \in 1..n :
           j < k /\ TellsOf(a[j], h[i]) /\ TellsOf(a[k], h[l]) => i < l
  BY DEF Tells
<1> HIDE DEF g, n
<1>5. \A i \in 1..(n + 1) : i \in 1..n \/ i = n + 1
  BY <1>2
<1>6. \A j \in StatusEvents(a) : \E i \in 1..Len(g) : TellsOf(a[j], g[i])
  BY <1>2, <1>4
<1>7. \A i \in Changes(g, "service") : \E j \in StatusEvents(a) : TellsOf(a[j], g[i])
  BY <1>1, <1>4
<1>8. ASSUME NEW j \in StatusEvents(a), NEW k \in StatusEvents(a),
             NEW i \in 1..(n + 1), NEW l \in 1..(n + 1),
             j < k, TellsOf(a[j], g[i]), TellsOf(a[k], g[l])
      PROVE  i < l
  <2>1. i \in 1..n /\ l \in 1..n
    BY <1>3, <1>5, <1>8
  <2>2. TellsOf(a[j], h[i]) /\ TellsOf(a[k], h[l])
    BY <1>2, <1>8, <2>1
  <2> QED
    BY <1>4, <1>8, <2>1, <2>2
<1>9. Tells(a, g)
  BY <1>2, <1>6, <1>7, <1>8 DEF Tells
<1> QED
  BY <1>9 DEF g

LEMMA BooksOtherEvent ==
  ASSUME NEW S, NEW a \in Seq(S), NEW e \in S, NEW l, Books(a, l),
         e.event \notin {"commission.settled", "commission.reversed"}
  PROVE  Books(Append(a, e), l)
<1>1. /\ MoneyEvents(Append(a, e)) = MoneyEvents(a)
      /\ \A i \in MoneyEvents(a) : Append(a, e)[i] = a[i]
  BY OtherEvent DEF MoneyEvents
<1> QED
  BY <1>1, Zenon DEF Books

\* A change of the service and the event that tells it.
LEMMA TellsChange ==
  ASSUME NEW S, NEW a \in Seq(S), NEW e \in S, NEW T, NEW h \in Seq(T), NEW c \in T,
         Tells(a, h), e.event = "order.status_changed", c.by = "service",
         c.from = e.from, c.to = e.to, NewTo(h, c)
  PROVE  Tells(Append(a, e), Append(h, c))
<1> DEFINE K == Changes(h, "service")
           L == StatusEvents(a)
           m == Len(h)
           n == Len(a)
           b == Append(a, e)
           g == Append(h, c)
<1>1. Changes(g, "service") = K \cup {m + 1} /\ K \in SUBSET (1..m)
  BY ChangesGrow
<1>2. /\ StatusEvents(b) = L \cup {n + 1} /\ n \in Nat /\ L \in SUBSET (1..n)
      /\ (\A i \in L : b[i] = a[i]) /\ b[n + 1] = e
  BY EventsGrow DEF StatusEvents
<1>3. /\ m \in Nat /\ Len(g) = m + 1 /\ g[m + 1] = c
      /\ \A i \in 1..m : g[i] = h[i]
  BY GrowFacts
<1>4. TellsOf(e, c)
  BY DEF TellsOf
<1>5. \A j \in L : ~ TellsOf(a[j], c)
  BY NothingToldAhead
<1>6. \A i \in 1..m : ~ TellsOf(e, h[i])
  BY DEF NewTo, TellsOf
<1>7. /\ \A j \in L : \E i \in 1..m : TellsOf(a[j], h[i])
      /\ \A i \in K : \E j \in L : TellsOf(a[j], h[i])
      /\ \A j, k \in L, i, l \in 1..m :
           j < k /\ TellsOf(a[j], h[i]) /\ TellsOf(a[k], h[l]) => i < l
  BY DEF Tells
<1> HIDE DEF K, L, m, n, b, g
<1>8. /\ \A i \in 1..(m + 1) : i \in 1..m \/ i = m + 1
      /\ \A j \in L \cup {n + 1} : j \in L \/ j = n + 1
      /\ m + 1 \in 1..(m + 1) /\ \A i \in 1..m : i \in 1..(m + 1)
  BY <1>3
<1>9. ASSUME NEW j \in L \cup {n + 1} PROVE \E i \in 1..(m + 1) : TellsOf(b[j], g[i])
  <2>1. CASE j \in L
    BY <1>2, <1>3, <1>7, <1>8, <2>1
  <2>2. CASE j = n + 1
    BY <1>2, <1>3, <1>4, <1>8, <2>2
  <2> QED
    BY <1>8, <2>1, <2>2
<1>10. ASSUME NEW i \in K \cup {m + 1}
       PROVE  \E j \in L \cup {n + 1} : TellsOf(b[j], g[i])
  <2>1. CASE i \in K
    BY <1>1, <1>2, <1>3, <1>7, <2>1
  <2>2. CASE i = m + 1
    BY <1>2, <1>3, <1>4, <2>2
  <2> QED
    BY <2>1, <2>2
<1>11. ASSUME NEW j \in L \cup {n + 1}, NEW k \in L \cup {n + 1},
              NEW i \in 1..(m + 1), NEW l \in 1..(m + 1),
              j < k, TellsOf(b[j], g[i]), TellsOf(b[k], g[l])
       PROVE  i < l
  <2>1. j \in L
    BY <1>2, <1>8, <1>11
  <2>2. i \in 1..m /\ TellsOf(a[j], h[i])
    BY <1>2, <1>3, <1>5, <1>8, <1>11, <2>1
  <2>3. CASE k \in L
    <3>1. l \in 1..m /\ TellsOf(a[k], h[l])
      BY <1>2, <1>3, <1>5, <1>8, <1>11, <2>3
    <3> QED
      BY <1>7, <1>11, <2>1, <2>2, <2>3, <3>1
  <2>4. CASE k = n + 1
    <3>1. l = m + 1
      BY <1>2, <1>3, <1>6, <1>8, <1>11, <2>4
    <3> QED
      BY <1>3, <2>2, <3>1
  <2> QED
    BY <1>8, <2>3, <2>4
<1>12. Tells(b, g)
  <2>1. /\ \A j \in StatusEvents(b) : \E i \in 1..Len(g) : TellsOf(b[j], g[i])
        /\ \A i \in Changes(g, "service") : \E j \in StatusEvents(b) : TellsOf(b[j], g[i])
    BY <1>1, <1>2, <1>3, <1>9, <1>10
  <2>2. \A j, k \in StatusEvents(b), i, l \in 1..Len(g) :
          j < k /\ TellsOf(b[j], g[i]) /\ TellsOf(b[k], g[l]) => i < l
    BY <1>2, <1>3, <1>11
  <2> QED
    BY <2>1, <2>2 DEF Tells
<1> QED
  BY <1>12 DEF b, g

\* A ledger entry and the event that books it.
LEMMA BooksEntry ==
  ASSUME NEW S, NEW a \in Seq(S), NEW e \in S, NEW T, NEW l \in Seq(T), NEW p \in T,
         Books(a, l), e.event \in {"commission.settled", "commission.reversed"},
         (e.event = "commission.settled") <=> (l = <<>>),
         p.fee = IF l = <<>> THEN e.fee ELSE -e.fee
  PROVE  Books(Append(a, e), Append(l, p))
<1> DEFINE L == MoneyEvents(a)
           n == Len(a)
           b == Append(a, e)
           q == Append(l, p)
           k == Len(l)
<1>1. /\ MoneyEvents(b) = L \cup {n + 1} /\ n \in Nat /\ L \in SUBSET (1..n)
      /\ (\A i \in L : b[i] = a[i]) /\ b[n + 1] = e
  BY EventsGrow DEF MoneyEvents
<1>2. /\ k \in Nat /\ Len(q) = k + 1 /\ (\A i \in 1..k : q[i] = l[i]) /\ q[k + 1] = p
      /\ l = <<>> <=> k = 0
  BY GrowFacts
<1>3. /\ Cardinality(L) = k
      /\ \A j \in L : /\ (a[j].event = "commission.settled") <=> (Rank(L, j) = 1)
                      /\ l[Rank(L, j)].fee = IF Rank(L, j) = 1 THEN a[j].fee ELSE -a[j].fee
  BY DEF Books
<1> HIDE DEF L, n, b, q, k
<1> DEFINE LL == L \cup {n + 1}
<1>4. /\ Cardinality(LL) = k + 1 /\ Rank(LL, n + 1) = k + 1
      /\ \A j \in L : Rank(LL, j) = Rank(L, j) /\ Rank(L, j) \in 1..k
  BY <1>1, <1>3, RankGrows
<1>5. (\A j \in LL : j \in L \/ j = n + 1) /\ MoneyEvents(b) = LL
  BY <1>1
<1> HIDE DEF LL
<1>6. ASSUME NEW j \in LL
      PROVE  /\ (b[j].event = "commission.settled") <=> (Rank(LL, j) = 1)
             /\ q[Rank(LL, j)].fee = IF Rank(LL, j) = 1 THEN b[j].fee ELSE -b[j].fee
  <2>1. CASE j \in L
    <3>1. /\ Rank(LL, j) = Rank(L, j) /\ q[Rank(L, j)] = l[Rank(L, j)] /\ b[j] = a[j]
      BY <1>1, <1>2, <1>4, <2>1
    <3>2. /\ (a[j].event = "commission.settled") <=> (Rank(L, j) = 1)
          /\ l[Rank(L, j)].fee = IF Rank(L, j) = 1 THEN a[j].fee ELSE -a[j].fee
      BY <1>3, <2>1
    <3> QED
      BY <3>1, <3>2
  <2>2. CASE j = n + 1
    <3>1. Rank(LL, j) = k + 1 /\ b[j] = e /\ q[k + 1] = p
      BY <1>1, <1>2, <1>4, <2>2
    <3>2. k + 1 = 1 <=> l = <<>>
      BY <1>2
    <3> QED
      BY <3>1, <3>2
  <2> QED
    BY <1>5, <2>1, <2>2
<1>7. Books(b, q)
  BY <1>5, <1>2, <1>4, <1>6 DEF Books
<1> QED
  BY <1>7 DEF b, q

\* Transition, Complete and Cancel add at most order.cancelled to what Apply logs.
Trailers == {<<>>} \cup {<<Cancelled(b)>> : b \in BOOLEAN}

LEMMA StatusStepTrailer ==
  ASSUME NEW c \in Contexts, NEW o \in OrderIds,
         \/ \E s \in OrderStatus : Transition(c, o, s)
         \/ Complete(c, o)
         \/ \E r \in RefundOutcomes : Cancel(c, o, r)
  PROVE  \E s \in OrderStatus, trailer \in Trailers : Apply(c, o, s, trailer)
<1>1. "completed" \in OrderStatus /\ "cancelled" \in OrderStatus /\ <<>> \in Trailers
  BY DEF OrderStatus, Trailers
<1>2. CASE (\E s \in OrderStatus : Transition(c, o, s)) \/ Complete(c, o)
  BY <1>1, <1>2 DEF Transition, Complete
<1>3. ASSUME NEW r \in RefundOutcomes, Cancel(c, o, r)
      PROVE  \E trailer \in Trailers : Apply(c, o, "cancelled", trailer)
  <2> DEFINE trailer == IF r = "raises" THEN <<>> ELSE <<Cancelled(r = "ref")>>
  <2>1. trailer \in Trailers /\ Apply(c, o, "cancelled", trailer)
    BY <1>3 DEF Cancel, Trailers
  <2> HIDE DEF trailer
  <2> QED
    BY <2>1
<1> QED
  BY <1>1, <1>2, <1>3

LEMMA ConcatIsAppend ==
  ASSUME NEW S, NEW s \in Seq(S), NEW d \in S, NEW e \in S
  PROVE  /\ s \o <<d, e>> = Append(Append(s, d), e)
         /\ s \o (<<d>> \o <<>>) = Append(s, d)
         /\ s \o (<<d>> \o <<e>>) = Append(Append(s, d), e)
  OBVIOUS

\* What a status change writes: history, then audit trail, then ledger.
LEMMA ApplyWrites ==
  ASSUME TypeOK, NEW c \in Contexts, NEW o \in OrderIds, NEW s \in OrderStatus,
         NEW trailer \in Trailers, Apply(c, o, s, trailer)
  PROVE  LET change == [from |-> status[o], to |-> s, by |-> "service"]
             told   == Append(audit[o], StatusChanged(status[o], s))
             split  == Split(c, o)
             paid   == [tenant |-> tenant_id[o], gross |-> split.gross, fee |-> split.fee,
                        settlement |-> split.settlement, rate |-> split.rate]
         IN  /\ change \in OrderStateChange /\ StatusChanged(status[o], s) \in AuditEvent
             /\ history'[o] = Append(history[o], change)
             /\ \/ /\ s = "completed" /\ Settles(c, o)
                   /\ Settled(split) \in AuditEvent /\ paid \in LedgerEntry
                   /\ audit'[o] = Append(told, Settled(split))
                   /\ ledger'[o] = Append(ledger[o], paid)
                \/ /\ ledger'[o] = ledger[o]
                   /\ \/ audit'[o] = told
                      \/ \E b \in BOOLEAN : /\ audit'[o] = Append(told, Cancelled(b))
                                            /\ Cancelled(b) \in AuditEvent
             /\ \A x \in OrderIds : x # o =>
                  history'[x] = history[x] /\ audit'[x] = audit[x] /\ ledger'[x] = ledger[x]
<1> DEFINE change == [from |-> status[o], to |-> s, by |-> "service"]
           e      == StatusChanged(status[o], s)
           split  == Split(c, o)
           paid   == [tenant |-> tenant_id[o], gross |-> split.gross, fee |-> split.fee,
                      settlement |-> split.settlement, rate |-> split.rate]
<1>1. status[o] \in OrderStatus
  BY DEF Apply, transition_to, CanTransition
<1>2. e \in AuditEvent /\ change \in OrderStateChange
  BY <1>1 DEF StatusChanged, AuditEvent, OrderStateChange, Changers
<1>3. /\ history' = [history EXCEPT ![o] = Append(@, change)]
      /\ history'[o] = Append(history[o], change)
  BY DEF Apply, transition_to, TypeOK
<1>4. audit[o] \in Seq(AuditEvent)
  BY DEF TypeOK
<1>5. \A x \in OrderIds : x # o =>
        history'[x] = history[x] /\ audit'[x] = audit[x] /\ ledger'[x] = ledger[x]
  BY <1>3 DEF Apply, _settle_commission, TypeOK
<1>6. CASE s = "completed" /\ Settles(c, o)
  <2>1. Settled(split) \in AuditEvent /\ paid \in LedgerEntry
    BY <1>6, SplitType DEF Settled, AuditEvent, LedgerEntry, TypeOK
  <2>2. audit'[o] = audit[o] \o <<e, Settled(split)>>
    BY <1>6 DEF Apply, TypeOK
  <2>3. ledger'[o] = Append(ledger[o], paid)
    BY <1>6 DEF Apply, _settle_commission, TypeOK
  <2> HIDE DEF e, split, paid, change
  <2>4. audit'[o] = Append(Append(audit[o], e), Settled(split))
    BY <1>2, <1>4, <2>1, <2>2, ConcatIsAppend
  <2> QED
    BY <1>2, <1>3, <1>5, <1>6, <2>1, <2>3, <2>4 DEF e, split, paid, change
<1>7. CASE ~ (s = "completed" /\ Settles(c, o))
  <2>1. audit'[o] = audit[o] \o (<<e>> \o trailer)
    BY <1>7 DEF Apply, TypeOK
  <2>2. ledger' = ledger
    BY <1>7 DEF Apply
  <2> HIDE DEF e, change
  <2>3. CASE trailer = <<>>
    <3>1. audit'[o] = Append(audit[o], e)
      BY <1>2, <1>4, <2>1, <2>3, ConcatIsAppend
    <3> QED
      BY <1>2, <1>3, <1>5, <2>2, <3>1 DEF e, change
  <2>4. ASSUME NEW b \in BOOLEAN, trailer = <<Cancelled(b)>> 
        PROVE  audit'[o] = Append(Append(audit[o], e), Cancelled(b)) /\ Cancelled(b) \in AuditEvent
    <3>1. Cancelled(b) \in AuditEvent
      BY DEF Cancelled, AuditEvent
    <3> QED
      BY <1>2, <1>4, <2>1, <2>4, <3>1, ConcatIsAppend
  <2>5. CASE trailer # <<>>
    <3>1. \E b \in BOOLEAN : trailer = <<Cancelled(b)>>
      BY <2>5 DEF Trailers
    <3>2. \E b \in BOOLEAN : /\ audit'[o] = Append(Append(audit[o], e), Cancelled(b))
                             /\ Cancelled(b) \in AuditEvent
      BY <2>4, <3>1
    <3> QED
      BY <1>2, <1>3, <1>5, <2>2, <3>2 DEF e, change
  <2> QED
    BY <2>3, <2>5
<1> QED
  BY <1>6, <1>7

LEMMA LastOfAppend ==
  ASSUME NEW S, NEW s \in Seq(S), NEW e, Append(s, e) \in Seq(S)
  PROVE  e \in S
<1>1. /\ Len(s) \in Nat /\ Len(Append(s, e)) = Len(s) + 1
      /\ Append(s, e)[Len(s) + 1] = e
  BY AppendFacts
<1> QED
  BY <1>1

\* How far along its life an order of this status is.
Level(st) ==
  CASE st = "absent"          -> 0
    [] st = "draft"           -> 1
    [] st = "reserved"        -> 2
    [] st = "confirmed"       -> 3
    [] st = "in_progress"     -> 4
    [] st = "payment_pending" -> 5
    [] OTHER                  -> 6

\* No order is behind a status it has had: an order reaches a status once.
Onward ==
  \A o \in OrderIds : \A i \in 1..Len(history[o]) :
    Level(history[o][i].to) <= Level(status[o])

LEMMA TransitionsLeadOnward ==
  ASSUME NEW from, NEW to, CanTransition(from, to)
  PROVE  Level(from) \in Nat /\ Level(to) \in Nat /\ Level(from) < Level(to)
<1>1. from \in OrderStatus /\ to \in VALID_TRANSITIONS[from]
  BY DEF CanTransition
<1>2. CASE from = "draft"
  BY <1>1, <1>2 DEF VALID_TRANSITIONS, Level
<1>3. CASE from = "reserved"
  BY <1>1, <1>3 DEF VALID_TRANSITIONS, Level
<1>4. CASE from = "confirmed"
  BY <1>1, <1>4 DEF VALID_TRANSITIONS, Level
<1>5. CASE from = "in_progress"
  BY <1>1, <1>5 DEF VALID_TRANSITIONS, Level
<1>6. CASE from = "payment_pending"
  BY <1>1, <1>6 DEF VALID_TRANSITIONS, Level
<1>7. from \in CANCELLABLE_STATES
  BY TransitionTable
<1> QED
  BY <1>2, <1>3, <1>4, <1>5, <1>6, <1>7 DEF CANCELLABLE_STATES

\* transition_to reaches a status that is new to the order's history.
LEMMA TransitionIsNew ==
  ASSUME TypeOK, Onward, NEW o \in OrderIds, NEW s, NEW by, transition_to(o, s, by)
  PROVE  /\ NewTo(history[o], [from |-> status[o], to |-> s, by |-> by])
         /\ \A x \in OrderIds : \A i \in 1..Len(history'[x]) :
              Level(history'[x][i].to) <= Level(status'[x])
<1> DEFINE c == [from |-> status[o], to |-> s, by |-> by]
<1>1. /\ CanTransition(status[o], s) /\ status' = [status EXCEPT ![o] = s]
      /\ history' = [history EXCEPT ![o] = Append(@, c)]
  BY DEF transition_to
<1>2. Level(status[o]) \in Nat /\ Level(s) \in Nat /\ Level(status[o]) < Level(s)
  BY <1>1, TransitionsLeadOnward
<1>3. \A st : Level(st) \in Nat
  BY DEF Level
<1>4. NewTo(history[o], c)
  BY <1>2 DEF Onward, NewTo
<1>5. /\ history'[o] = Append(history[o], c) /\ status'[o] = s
      /\ \A x \in OrderIds : x # o => history'[x] = history[x] /\ status'[x] = status[x]
  BY <1>1 DEF TypeOK
<1>6. history[o] \in Seq(OrderStateChange \cup {c}) /\ c \in OrderStateChange \cup {c}
  BY DEF TypeOK
<1>7. c.to = s
  OBVIOUS
<1> HIDE DEF c
<1>8. /\ Len(history[o]) \in Nat /\ Len(Append(history[o], c)) = Len(history[o]) + 1
      /\ \A i \in 1..Len(history[o]) : Append(history[o], c)[i] = history[o][i]
      /\ Append(history[o], c)[Len(history[o]) + 1] = c
  BY <1>6, GrowFacts
<1>9. ASSUME NEW i \in 1..Len(history'[o]) PROVE Level(history'[o][i].to) <= Level(s)
  <2>1. CASE i \in 1..Len(history[o])
    <3>1. Level(history[o][i].to) <= Level(status[o])
      BY <2>1 DEF Onward
    <3>2. history'[o][i] = history[o][i]
      BY <1>5, <1>8, <2>1
    <3> HIDE DEF Level
    <3> QED
      BY <1>2, <1>3, <3>1, <3>2
  <2>2. CASE i = Len(history[o]) + 1
    BY <1>2, <1>5, <1>7, <1>8, <2>2
  <2> QED
    BY <1>5, <1>8, <2>1, <2>2
<1>10. ASSUME NEW x \in OrderIds, NEW i \in 1..Len(history'[x])
       PROVE  Level(history'[x][i].to) <= Level(status'[x])
  <2>1. CASE x = o
    BY <1>5, <1>9, <2>1
  <2>2. CASE x # o
    BY <1>5, <2>2 DEF Onward
  <2> QED
    BY <2>1, <2>2
<1> QED
  BY <1>4, <1>10 DEF c

LEMMA OnwardInductive ==
  TypeOK /\ HistoryIsPath /\ Onward /\ [Next]_vars => Onward'
<1> SUFFICES ASSUME TypeOK, HistoryIsPath, Onward, [Next]_vars PROVE Onward'
  OBVIOUS
<1>1. ASSUME NEW o \in OrderIds, NEW s, NEW by, transition_to(o, s, by) PROVE Onward'
  BY <1>1, TransitionIsNew DEF Onward
<1>2. ASSUME NEW o \in OrderIds, NEW c \in Contexts,
             NEW owner \in Tenants \cup {NoTenant}, NEW a \in Amounts, Register(c, o, owner, a)
      PROVE  Onward'
  <2>1. /\ status[o] = "absent" /\ status' = [status EXCEPT ![o] = "draft"]
        /\ history' = history
    BY <1>2 DEF Register
  <2>2. history[o] = <<>>
    BY <2>1 DEF HistoryIsPath
  <2>3. Len(<<>>) = 0
    OBVIOUS
  <2> QED
    BY <2>1, <2>2, <2>3 DEF Onward, TypeOK
<1>3. ASSUME status' = status, history' = history PROVE Onward'
  BY <1>3 DEF Onward
<1>4. ASSUME NEW o \in OrderIds, NEW f \in Fractions, RecordCommissionReversal(o, f)
      PROVE  Onward'
  BY <1>3, <1>4 DEF RecordCommissionReversal
<1>5. ASSUME NEW o \in OrderIds, ConfirmPayment(o) \/ StartService(o) PROVE Onward'
  BY <1>1, <1>5, FulfillmentStep
<1>6. ASSUME NEW o \in OrderIds, NEW c \in Contexts,
             \/ \E s \in OrderStatus : Transition(c, o, s)
             \/ Complete(c, o)
             \/ \E r \in RefundOutcomes : Cancel(c, o, r)
      PROVE  Onward'
  <2>1. PICK s \in OrderStatus, trailer \in Trailers : Apply(c, o, s, trailer)
    BY <1>6, StatusStepTrailer
  <2> QED
    BY <1>1, <2>1 DEF Apply
<1>7. CASE UNCHANGED vars
  BY <1>3, <1>7 DEF vars
<1> QED
  BY <1>2, <1>4, <1>5, <1>6, <1>7 DEF Next, OrderStep

LEMMA OrdersGoOnward == Spec => []Onward
<1>1. Init => Onward
  BY DEF Init, Onward
<1> QED
  BY <1>1, TypeCorrect, HistoriesArePaths, OnwardInductive, PTL DEF Spec

LEMMA InitMatches == Init => AuditMatchesHistory /\ AuditMatchesLedger
<1> SUFFICES ASSUME Init PROVE \A o \in OrderIds : /\ Tells(audit[o], history[o])
                                                   /\ Books(audit[o], ledger[o])
  BY OneOrderAtATime
<1>1. StatusEvents(<<>>) = {} /\ MoneyEvents(<<>>) = {} /\ Changes(<<>>, "service") = {}
  BY DEF StatusEvents, MoneyEvents, Events, Changes
<1>2. Tells(<<>>, <<>>) /\ Books(<<>>, <<>>)
  BY <1>1, FS_EmptySet DEF Tells, Books
<1> QED
  BY <1>2 DEF Init

\* Every step that writes one of the three lists of an order writes the others
\* with it.
LEMMA AuditInductive ==
  TypeOK /\ SettlementIntegrity /\ Onward /\ AuditMatchesHistory /\ AuditMatchesLedger
  /\ [Next]_vars
    => AuditMatchesHistory' /\ AuditMatchesLedger'
<1> SUFFICES ASSUME TypeOK, SettlementIntegrity, Onward, AuditMatchesHistory,
                    AuditMatchesLedger, [Next]_vars
             PROVE  \A x \in OrderIds : /\ Tells(audit'[x], history'[x])
                                        /\ Books(audit'[x], ledger'[x])
  <2>1. ASSUME \A x \in OrderIds : /\ Tells(audit'[x], history'[x])
                                   /\ Books(audit'[x], ledger'[x])
        PROVE  AuditMatchesHistory' /\ AuditMatchesLedger'
    <3>1. (/\ AuditMatchesHistory <=> \A o \in OrderIds : Tells(audit[o], history[o])
           /\ AuditMatchesLedger <=> \A o \in OrderIds : Books(audit[o], ledger[o]))'
      BY OneOrderAtATime, PTL
    <3> QED
      BY <2>1, <3>1
  <2> QED
    BY <2>1
<1>1. ASSUME NEW x \in OrderIds PROVE Tells(audit[x], history[x]) /\ Books(audit[x], ledger[x])
  BY OneOrderAtATime
<1>2. ASSUME NEW x \in OrderIds
      PROVE  /\ audit[x] \in Seq(AuditEvent) /\ history[x] \in Seq(OrderStateChange)
             /\ ledger[x] \in Seq(LedgerEntry)
  BY DEF TypeOK
<1>3. ASSUME NEW x \in OrderIds,
             audit'[x] = audit[x] /\ history'[x] = history[x] /\ ledger'[x] = ledger[x]
      PROVE  Tells(audit'[x], history'[x]) /\ Books(audit'[x], ledger'[x])
  BY <1>1, <1>3
<1>4. ASSUME NEW o \in OrderIds, NEW c \in Contexts,
             NEW owner \in Tenants \cup {NoTenant}, NEW a \in Amounts,
             Register(c, o, owner, a), NEW x \in OrderIds
      PROVE  Tells(audit'[x], history'[x]) /\ Books(audit'[x], ledger'[x])
  <2>1. /\ audit' = [audit EXCEPT ![o] = Append(@, Created)]
        /\ history' = history /\ ledger' = ledger
    BY <1>4 DEF Register
  <2>2. CASE x # o
    BY <1>3, <2>1, <2>2 DEF TypeOK
  <2>3. CASE x = o
    <3>1. Created \in AuditEvent /\ Created.event = "order.created"
      BY DEF AuditEvent, Created
    <3>2. audit'[x] = Append(audit[x], Created)
      BY <2>1, <2>3 DEF TypeOK
    <3>3. Tells(Append(audit[x], Created), history[x])
      BY <1>1, <1>2, <3>1, TellsOtherEvent
    <3>4. Books(Append(audit[x], Created), ledger[x])
      BY <1>1, <1>2, <3>1, BooksOtherEvent
    <3> QED
      BY <2>1, <3>2, <3>3, <3>4
  <2> QED
    BY <2>2, <2>3
<1>5. ASSUME NEW o \in OrderIds, NEW c \in Contexts, NEW s \in OrderStatus,
             NEW trailer \in Trailers, Apply(c, o, s, trailer), NEW x \in OrderIds
      PROVE  Tells(audit'[x], history'[x]) /\ Books(audit'[x], ledger'[x])
  <2>1. CASE x # o
    BY <1>3, <1>5, <2>1, ApplyWrites
  <2>2. CASE x = o
    <3> DEFINE change == [from |-> status[o], to |-> s, by |-> "service"]
               e == StatusChanged(status[o], s)
               told == Append(audit[o], e)
               split == Split(c, o)
               paid == [tenant |-> tenant_id[o], gross |-> split.gross, fee |-> split.fee,
                        settlement |-> split.settlement, rate |-> split.rate]
               settled == Settled(split)
    <3>1. /\ change \in OrderStateChange /\ e \in AuditEvent
          /\ history'[o] = Append(history[o], change)
          /\ \/ /\ settled \in AuditEvent /\ paid \in LedgerEntry
                /\ audit'[o] = Append(told, settled)
                /\ ledger'[o] = Append(ledger[o], paid)
             \/ /\ ledger'[o] = ledger[o]
                /\ \/ audit'[o] = told
                   \/ \E b \in BOOLEAN : /\ audit'[o] = Append(told, Cancelled(b))
                                         /\ Cancelled(b) \in AuditEvent
      BY <1>5, ApplyWrites
    <3>2. /\ e.event = "order.status_changed" /\ e.from = change.from /\ e.to = change.to
          /\ change.by = "service"
      BY DEF StatusChanged
    <3>3. /\ settled.event = "commission.settled" /\ settled.fee = paid.fee
      BY DEF Settled
    <3>4. \A b : Cancelled(b).event = "order.cancelled"
      BY DEF Cancelled
    <3>12. NewTo(history[o], change)
      BY <1>5, TransitionIsNew DEF Apply
    <3>5. ledger[o] = <<>>
      <4>1. status[o] # "completed"
        BY <1>5, TransitionLeavesOpenStatus DEF Apply
      <4> QED
        BY <4>1 DEF SettlementIntegrity
    <3> HIDE DEF change, e, told, split, paid, settled
    <3>6. told \in Seq(AuditEvent)
      BY <1>2, <3>1, GrowFacts DEF told
    <3>7. Tells(told, Append(history[o], change))
      BY <1>1, <1>2, <3>1, <3>2, <3>12, TellsChange DEF told
    <3>8. Books(told, ledger[o])
      BY <1>1, <1>2, <3>1, <3>2, BooksOtherEvent DEF told
    <3>9. ASSUME settled \in AuditEvent, paid \in LedgerEntry,
                 audit'[o] = Append(told, settled), ledger'[o] = Append(ledger[o], paid)
          PROVE  Tells(audit'[o], history'[o]) /\ Books(audit'[o], ledger'[o])
      <4>1. Tells(Append(told, settled), Append(history[o], change))
        BY <3>3, <3>6, <3>7, <3>9, TellsOtherEvent
      <4>2. Books(Append(told, settled), Append(ledger[o], paid))
        <5>1. /\ settled.event \in {"commission.settled", "commission.reversed"}
              /\ (settled.event = "commission.settled") <=> (ledger[o] = <<>>)
              /\ paid.fee = IF ledger[o] = <<>> THEN settled.fee ELSE -settled.fee
          BY <3>3, <3>5
        <5> QED
          BY <1>2, <3>6, <3>8, <3>9, <5>1, BooksEntry
      <4> QED
        BY <3>1, <3>9, <4>1, <4>2
    <3>10. ASSUME NEW b \in BOOLEAN, audit'[o] = Append(told, Cancelled(b)),
                  Cancelled(b) \in AuditEvent, ledger'[o] = ledger[o]
           PROVE  Tells(audit'[o], history'[o]) /\ Books(audit'[o], ledger'[o])
      <4>1. Tells(Append(told, Cancelled(b)), Append(history[o], change))
        BY <3>4, <3>6, <3>7, <3>10, TellsOtherEvent
      <4>2. Books(Append(told, Cancelled(b)), ledger[o])
        <5>1. Cancelled(b).event \notin {"commission.settled", "commission.reversed"}
          BY <3>4
        <5> QED
          BY <3>6, <3>8, <3>10, <5>1, BooksOtherEvent
      <4> QED
        BY <3>1, <3>10, <4>1, <4>2
    <3>11. ASSUME audit'[o] = told, ledger'[o] = ledger[o]
           PROVE  Tells(audit'[o], history'[o]) /\ Books(audit'[o], ledger'[o])
      BY <3>1, <3>7, <3>8, <3>11
    <3> QED
      BY <2>2, <3>1, <3>9, <3>10, <3>11
  <2> QED
    BY <2>1, <2>2
<1>6. ASSUME NEW o \in OrderIds, NEW f \in Fractions, RecordCommissionReversal(o, f),
             NEW x \in OrderIds
      PROVE  Tells(audit'[x], history'[x]) /\ Books(audit'[x], ledger'[x])
  <2> DEFINE rev == reverse(SettledSplit(o), f)
             back == [tenant |-> tenant_id[o], gross |-> -rev.gross, fee |-> -rev.fee,
                      settlement |-> -rev.settlement, rate |-> snapshot[o].rate]
             e == Reversed(f, rev.fee)
  <2>1. /\ ledger' = [ledger EXCEPT ![o] = Append(@, back)]
        /\ audit' = [audit EXCEPT ![o] = Append(@, e)]
        /\ history' = history /\ snapshot[o] # NoSnapshot
    BY <1>6 DEF RecordCommissionReversal, SettledSplit
  <2>2. CASE x # o
    BY <1>3, <2>1, <2>2 DEF TypeOK
  <2>3. CASE x = o
    <3>1. TypeOK'
      BY TypeInductive
    <3>2. ledger'[o] = Append(ledger[o], back) /\ audit'[o] = Append(audit[o], e)
      BY <2>1 DEF TypeOK
    <3>3. ledger[o] # <<>>
      BY <2>1 DEF SettlementIntegrity
    <3>4. e.event = "commission.reversed" /\ e.fee = rev.fee /\ back.fee = -e.fee
      BY DEF Reversed
    <3> HIDE DEF e, back
    <3>5. e \in AuditEvent /\ back \in LedgerEntry
      <4>1. /\ Append(audit[o], e) \in Seq(AuditEvent)
            /\ Append(ledger[o], back) \in Seq(LedgerEntry)
        BY <3>1, <3>2 DEF TypeOK
      <4>2. audit[o] \in Seq(AuditEvent) /\ ledger[o] \in Seq(LedgerEntry)
        BY <1>2
      <4> QED
        BY <4>1, <4>2, LastOfAppend
    <3>6. Tells(Append(audit[o], e), history[o])
      BY <1>1, <1>2, <3>4, <3>5, TellsOtherEvent
    <3>7. Books(Append(audit[o], e), Append(ledger[o], back))
      <4>1. /\ e.event \in {"commission.settled", "commission.reversed"}
            /\ (e.event = "commission.settled") <=> (ledger[o] = <<>>)
            /\ back.fee = IF ledger[o] = <<>> THEN e.fee ELSE -e.fee
        BY <3>3, <3>4
      <4> QED
        BY <1>1, <1>2, <3>5, <4>1, BooksEntry
    <3> QED
      BY <2>1, <2>3, <3>2, <3>6, <3>7
  <2> QED
    BY <2>2, <2>3
<1>7. ASSUME NEW o \in OrderIds, ConfirmPayment(o) \/ StartService(o), NEW x \in OrderIds
      PROVE  Tells(audit'[x], history'[x]) /\ Books(audit'[x], ledger'[x])
  <2>1. PICK s \in {"confirmed", "in_progress"} : transition_to(o, s, "fulfillment")
    BY <1>7, FulfillmentStep
  <2>2. audit' = audit /\ ledger' = ledger
    BY <1>7, FulfillmentStep
  <2> DEFINE change == [from |-> status[o], to |-> s, by |-> "fulfillment"]
  <2>3. history' = [history EXCEPT ![o] = Append(@, change)]
    BY <2>1 DEF transition_to
  <2>4. CASE x # o
    BY <1>3, <2>2, <2>3, <2>4 DEF TypeOK
  <2>5. CASE x = o
    <3>1. /\ history'[o] = Append(history[o], change) /\ change.by # "service"
          /\ NewTo(history[o], change)
      BY <2>1, <2>3, TransitionIsNew DEF TypeOK
    <3>2. history[o] \in Seq(OrderStateChange \cup {change}) /\ change \in OrderStateChange \cup {change}
      BY <1>2
    <3> HIDE DEF change
    <3>3. Tells(audit[o], Append(history[o], change))
      BY <1>1, <3>1, <3>2, TellsOtherChange
    <3> QED
      BY <1>1, <2>2, <2>5, <3>1, <3>3
  <2> QED
    BY <2>4, <2>5
<1>8. CASE UNCHANGED vars
  BY <1>3, <1>8 DEF vars
<1> QED
  BY <1>4, <1>5, <1>6, <1>7, <1>8, StatusStepTrailer DEF Next, OrderStep

\* The audit trail of an order invents no status change, tells none twice, keeps
\* their order and tells every one the order service made, whatever fulfilment
\* does to the shared object.  An order never comes back to a status, so an event
\* tells of one change at most.
THEOREM AuditTellsHistory == Spec => []AuditMatchesHistory
<1>1. Init => AuditMatchesHistory /\ AuditMatchesLedger
  BY InitMatches
<1> QED
  BY <1>1, TypeCorrect, SettlementIsSound, OrdersGoOnward, AuditInductive, PTL DEF Spec

\* Every ledger entry has its commission event in the audit trail and every such
\* event its entry, in the same order and with the same fee.
THEOREM AuditTellsLedger == Spec => []AuditMatchesLedger
<1>1. Init => AuditMatchesHistory /\ AuditMatchesLedger
  BY InitMatches
<1> QED
  BY <1>1, TypeCorrect, SettlementIsSound, OrdersGoOnward, AuditInductive, PTL DEF Spec
-----------------------------------------------------------------------------
(* Daily reconciliation.  Every entry balances, so every sum of entries    *)
(* does; and the tenants' views partition the ledger, because every entry  *)
(* goes to the tenant of its order.                                        *)

\* The ledger is finite, and each of its entries balances and has an owner.
LEMMA LedgerEntries ==
  ASSUME TypeOK, SettlementIntegrity, Owned
  PROVE  /\ IsFiniteSet(Positions)
         /\ \A p \in Positions :
              /\ EntryAt(p).gross \in Int /\ EntryAt(p).fee \in Int
              /\ EntryAt(p).settlement \in Int
              /\ Balanced(EntryAt(p))
              /\ NoTenant \notin Contexts => EntryAt(p).tenant \in Tenants
<1>1. IsFiniteSet(Positions)
  <2> DEFINE Of(o) == {<<o, i>> : i \in 1..Len(ledger[o])}
             All == {Of(o) : o \in OrderIds}
             g == [o \in OrderIds |-> Of(o)]
  <2>1. ASSUME NEW o \in OrderIds PROVE IsFiniteSet(Of(o))
    <3>1. Of(o) = {o} \X (1..Len(ledger[o]))
      OBVIOUS
    <3>2. Len(ledger[o]) \in Nat
      BY DEF TypeOK
    <3>3. IsFiniteSet({o}) /\ IsFiniteSet(1..Len(ledger[o]))
      <4>1. 1 \in Int /\ Len(ledger[o]) \in Int
        BY <3>2
      <4> QED
        BY <4>1, FS_Singleton, FS_Interval
    <3>4. IsFiniteSet({o} \X (1..Len(ledger[o])))
      BY <3>3, FS_Product
    <3> QED
      BY <3>1, <3>4
  <2>2. g \in Surjection(OrderIds, All)
    BY DEF Surjection
  <2>3. (\A T \in All : IsFiniteSet(T)) /\ Positions = UNION All
    BY <2>1 DEF Positions
  <2> HIDE DEF g, All
  <2>4. IsFiniteSet(All)
    BY <2>2, LedgerAssumption, FS_Surjection
  <2> QED
    BY <2>3, <2>4, FS_UNION
<1>2. ASSUME NEW p \in Positions
      PROVE  /\ EntryAt(p).gross \in Int /\ EntryAt(p).fee \in Int
             /\ EntryAt(p).settlement \in Int
             /\ Balanced(EntryAt(p))
             /\ NoTenant \notin Contexts => EntryAt(p).tenant \in Tenants
  <2>0. PICK o \in OrderIds : \E i \in 1..Len(ledger[o]) : p = <<o, i>>
    BY DEF Positions
  <2>1. PICK i \in 1..Len(ledger[o]) : p = <<o, i>>
    BY <2>0
  <2> DEFINE e == ledger[o][i]
  <2>2. EntryAt(p) = e
    BY <2>1 DEF EntryAt
  <2>3. ledger[o] \in Seq(LedgerEntry) /\ e \in LedgerEntry /\ ledger[o] # <<>>
    BY DEF TypeOK
  <2>4. e.gross \in Int /\ e.fee \in Int /\ e.settlement \in Int
    BY <2>3 DEF LedgerEntry
  <2>5. /\ status[o] = "completed" /\ ledger[o][1].tenant = tenant_id[o] /\ Balanced(ledger[o][1])
        /\ \A k \in 2..Len(ledger[o]) :
             Balanced(ledger[o][k]) /\ ledger[o][k].tenant = ledger[o][1].tenant
    BY <2>3 DEF SettlementIntegrity
  <2>6. Balanced(e) /\ e.tenant = tenant_id[o]
    <3>1. i = 1 \/ i \in 2..Len(ledger[o])
      OBVIOUS
    <3> QED
      BY <2>5, <3>1
  <2>7. NoTenant \notin Contexts => e.tenant \in Tenants
    BY <2>5, <2>6 DEF Owned
  <2> QED
    BY <2>2, <2>4, <2>6, <2>7
<1> QED
  BY <1>1, <1>2

LEMMA EntriesAddUp ==
  ASSUME TypeOK, SettlementIntegrity, Owned
  PROVE  ReconciliationAddsUp
<1> DEFINE G(S) == [p \in S |-> EntryAt(p).gross]
           F(S) == [p \in S |-> EntryAt(p).fee]
           P(S) == [p \in S |-> EntryAt(p).settlement]
<1>1. ASSUME NEW t
      PROVE  /\ EntriesInScope(t) \in SUBSET Positions /\ IsFiniteSet(EntriesInScope(t))
  <2>1. EntriesInScope(t) \in SUBSET Positions
    BY DEF EntriesInScope, entries_for_tenant
  <2> QED
    BY <2>1, LedgerEntries, FS_Subset
<1>2. ASSUME NEW t PROVE Balanced(daily_reconciliation_balance(t))
  <2> DEFINE S == EntriesInScope(t)
             b == daily_reconciliation_balance(t)
             g == G(S)
             f == F(S)
             p == P(S)
  <2>1. /\ b.gross = SumFunctionOnSet(g, S) /\ b.fee = SumFunctionOnSet(f, S)
        /\ b.settlement = SumFunctionOnSet(p, S)
    BY DEF daily_reconciliation_balance, SumFunction
  <2>2. \A x \in S : f[x] \in Int /\ p[x] \in Int /\ g[x] = f[x] + p[x]
    <3> SUFFICES ASSUME NEW x \in S PROVE f[x] \in Int /\ p[x] \in Int /\ g[x] = f[x] + p[x]
      OBVIOUS
    <3>1. x \in Positions
      BY <1>1
    <3> QED
      BY <3>1, LedgerEntries DEF Balanced
  <2>3. IsFiniteSet(S)
    BY <1>1
  <2> HIDE DEF S, b, g, f, p
  <2>4. SumFunctionOnSet(g, S) = SumFunctionOnSet(f, S) + SumFunctionOnSet(p, S)
    BY <2>2, <2>3, SumPlus
  <2> QED
    BY <2>1, <2>4 DEF Balanced, b
<1>3. ASSUME NoTenant \notin Contexts
      PROVE  platform_fee_total(NoTenant) = SumFunction([t \in Tenants |-> platform_fee_total(t)])
  <2> DEFINE f == F(Positions)
             c == [p \in Positions |-> EntryAt(p).tenant]
             h == [t \in Tenants |-> platform_fee_total(t)]
  <2>1. platform_fee_total(NoTenant) = SumFunctionOnSet(f, Positions)
    BY DEF platform_fee_total, daily_reconciliation_balance, EntriesInScope, SumFunction
  <2>2. SumFunction(h) = SumFunctionOnSet(h, Tenants)
    BY DEF SumFunction
  <2>3. \A x \in Positions : f[x] \in Int /\ c[x] \in Tenants
    BY <1>3, LedgerEntries
  <2>4. ASSUME NEW t \in Tenants
        PROVE  h[t] = SumFunctionOnSet(f, Class(Positions, c, t))
    <3> DEFINE S == Class(Positions, c, t)
               k == F(S)
    <3>1. EntriesInScope(t) = S
      BY TenantAssumption DEF EntriesInScope, entries_for_tenant, Class
    <3>2. h[t] = SumFunctionOnSet(k, S)
      BY <3>1 DEF platform_fee_total, daily_reconciliation_balance, SumFunction
    <3>3. \A x \in S : f[x] \in Int /\ k[x] = f[x]
      BY <2>3 DEF Class
    <3>4. IsFiniteSet(S)
      BY <1>1, <3>1
    <3>5. SumFunctionOnSet(k, S) = SumFunctionOnSet(f, S)
      <4> HIDE DEF S, k, f
      <4> QED
        BY <3>3, <3>4, SumSame
    <3> QED
      BY <3>2, <3>5
  <2>5. IsFiniteSet(Positions) /\ IsFiniteSet(Tenants)
    BY LedgerEntries, LedgerAssumption
  <2> HIDE DEF f, c, h
  <2>6. SumFunctionOnSet(h, Tenants) = SumFunctionOnSet(f, Positions)
    BY <2>3, <2>4, <2>5, SumParts
  <2> QED
    BY <2>1, <2>2, <2>6 DEF h
<1> QED
  BY <1>2, <1>3 DEF ReconciliationAddsUp

\* What daily_reconciliation_balance and platform_fee_total return always adds up:
\* each view balances, and under bound contexts the tenants' fees are all the fees.
THEOREM ReconciliationAlwaysAddsUp == Spec => []ReconciliationAddsUp
<1>1. Init => Owned
  BY DEF Init, Owned
<1>2. TypeOK /\ SettlementIntegrity /\ Owned => ReconciliationAddsUp
  BY EntriesAddUp
<1> QED
  BY <1>1, <1>2, TypeCorrect, SettlementIsSound, OwnedInductive, PTL DEF Spec
-----------------------------------------------------------------------------
(* Partial reversals.  The gross and the fee of a reversal are each         *)
(* rounded down, so they never take back more than the fraction asked for;  *)
(* the tenant's column is their difference, and one reversal takes at most  *)
(* (Scale - 1) / Scale of a cent more from it than its fraction.            *)

\* The nets g, f, p of what was settled as G, F, P, after n reversals that asked
\* for q in all.
Within(n, q, G, F, P, g, f, p) ==
  /\ Scale * (G - g) <= G * q /\ Scale * (F - f) <= F * q
  /\ Scale * (P - p) <= P * q + n * (Scale - 1)
  /\ n = 0 => q = 0 /\ g = G /\ f = F /\ p = P
  /\ n = 1 /\ q = Scale => g = 0 /\ f = 0 /\ p = 0

LEMMA WithinStep ==
  ASSUME NEW n \in Nat, NEW q \in Int, NEW G \in Nat, NEW F \in Nat, NEW P \in Nat,
         NEW g \in Int, NEW f \in Int, NEW p \in Int, G = F + P,
         Within(n, q, G, F, P, g, f, p), NEW x \in Int
  PROVE  Within(n + 1, q + x, G, F, P, g - RoundDown(G, x), f - RoundDown(F, x),
                p - (RoundDown(G, x) - RoundDown(F, x)))
<1> DEFINE r == RoundDown(G, x)
           s == RoundDown(F, x)
<1>1. Scale \in Int /\ Scale > 0 /\ G * x \in Int /\ F * x \in Int
  BY ScaleAssumption
<1>2. /\ r \in Int /\ s \in Int
      /\ r * Scale <= G * x /\ s * Scale <= F * x /\ F * x < s * Scale + Scale
  <2> DEFINE a == G * x
             b == F * x
  <2>1. r = a \div Scale /\ s = b \div Scale
    BY DEF RoundDown
  <2> HIDE DEF a, b, r, s
  <2>2. a \in Int /\ b \in Int
    BY <1>1 DEF a, b
  <2>3. /\ r \in Int /\ s \in Int
        /\ r * Scale <= a /\ s * Scale <= b /\ b < s * Scale + Scale
    BY <2>1, <2>2, ScaleAssumption, DivFloor
  <2> QED
    BY <2>3 DEF a, b
<1>3. ASSUME n = 0, q + x = Scale PROVE r = G /\ s = F
  <2>1. x = Scale
    BY <1>1, <1>3 DEF Within
  <2>2. (G * Scale) \div Scale = G /\ (F * Scale) \div Scale = F
    BY <1>1, Z3
  <2> QED
    BY <2>1, <2>2 DEF RoundDown
<1> HIDE DEF r, s
<1>4. Scale * (G - (g - r)) <= G * (q + x)
  <2>1. Scale * (G - g) <= G * q
    BY DEF Within
  <2>2. Scale * (G - (g - r)) = Scale * (G - g) + r * Scale /\ G * (q + x) = G * q + G * x
    BY <1>1, <1>2, Z3
  <2> QED
    BY <1>1, <1>2, <2>1, <2>2, Z3
<1>5. Scale * (F - (f - s)) <= F * (q + x)
  <2>1. Scale * (F - f) <= F * q
    BY DEF Within
  <2>2. Scale * (F - (f - s)) = Scale * (F - f) + s * Scale /\ F * (q + x) = F * q + F * x
    BY <1>1, <1>2, Z3
  <2> QED
    BY <1>1, <1>2, <2>1, <2>2, Z3
<1>6. Scale * (P - (p - (r - s))) <= P * (q + x) + (n + 1) * (Scale - 1)
  <2>1. Scale * (P - p) <= P * q + n * (Scale - 1)
    BY DEF Within
  <2>2. Scale * (P - (p - (r - s))) = (Scale * (P - p)) + (r * Scale - s * Scale)
    BY <1>1, <1>2, Z3
  <2>3. /\ P * (q + x) = P * q + (G * x - F * x)
        /\ (n + 1) * (Scale - 1) = (n * (Scale - 1)) + (Scale - 1)
    BY <1>1, <1>2, Z3
  <2>4. r * Scale - s * Scale <= (G * x - F * x) + (Scale - 1)
    BY <1>1, <1>2, Z3
  <2> QED
    BY <1>1, <1>2, <2>1, <2>2, <2>3, <2>4, Z3
<1>7. n + 1 = 1 /\ q + x = Scale => g - r = 0 /\ f - s = 0 /\ p - (r - s) = 0
  <2> SUFFICES ASSUME n = 0, q + x = Scale PROVE g - r = 0 /\ f - s = 0 /\ p - (r - s) = 0
    OBVIOUS
  <2>1. g = G /\ f = F /\ p = P
    BY DEF Within
  <2> QED
    BY <1>3, <2>1
<1>8. Within(n + 1, q + x, G, F, P, g - r, f - s, p - (r - s))
  BY <1>4, <1>5, <1>6, <1>7 DEF Within
<1> QED
  BY <1>8 DEF r, s

LEMMA WithinMeans ==
  ASSUME NEW n \in Nat, NEW q \in Int, NEW G \in Nat, NEW F \in Nat, NEW P \in Nat,
         NEW g \in Int, NEW f \in Int, NEW p \in Int,
         Within(n, q, G, F, P, g, f, p), q <= Scale
  PROVE  g >= 0 /\ f >= 0 /\ (n > 0 => p > -n)
<1>1. Scale \in Int /\ Scale > 0
  BY ScaleAssumption
<1>2. G * q <= G * Scale /\ F * q <= F * Scale /\ P * q <= P * Scale
  BY <1>1, Z3
<1>3. Scale * g >= 0 /\ Scale * f >= 0
  BY <1>1, <1>2, Z3 DEF Within
<1>4. g >= 0 /\ f >= 0
  BY <1>1, <1>3, Z3
<1>5. ASSUME n > 0 PROVE p > -n
  <2>1. Scale * (P - p) <= P * Scale + n * (Scale - 1)
    BY <1>1, <1>2, Z3 DEF Within
  <2>2. Scale * (p + n) >= n
    BY <1>1, <2>1, Z3
  <2>3. Scale * (p + n) > 0
    BY <1>1, <1>5, <2>2, Z3
  <2>4. p + n > 0
    BY <1>1, <2>3, Z3
  <2> QED
    BY <2>4
<1> QED
  BY <1>4, <1>5

\* The value of an audit event and of a ledger entry in each of the sums.
FractionOf == [e \in AuditEvent |-> IF e.event = "commission.reversed" THEN e.fraction ELSE 0]
Grosses == [p \in LedgerEntry |-> p.gross]
Fees == [p \in LedgerEntry |-> p.fee]
Settlements == [p \in LedgerEntry |-> p.settlement]

ReversedEvents(a) == Events(a, {"commission.reversed"})

\* The lists of one order: nothing reversed before the settlement, and what is
\* left of the settlement afterwards.
Fair(a, l) ==
  IF l = <<>>
  THEN Cardinality(ReversedEvents(a)) = 0 /\ SeqSum(FractionOf, a) = 0
  ELSE Within(Cardinality(ReversedEvents(a)), SeqSum(FractionOf, a),
              l[1].gross, l[1].fee, l[1].settlement,
              SeqSum(Grosses, l), SeqSum(Fees, l), SeqSum(Settlements, l))

LEMMA ValueTypes ==
  /\ FractionOf \in [AuditEvent -> Int]
  /\ Grosses \in [LedgerEntry -> Int] /\ Fees \in [LedgerEntry -> Int]
  /\ Settlements \in [LedgerEntry -> Int]
<1>1. ASSUME NEW e \in AuditEvent, e.event = "commission.reversed" PROVE e.fraction \in Int
  BY <1>1 DEF AuditEvent, Created
<1>2. FractionOf \in [AuditEvent -> Int]
  BY <1>1 DEF FractionOf
<1>3. Grosses \in [LedgerEntry -> Int] /\ Fees \in [LedgerEntry -> Int]
  BY DEF Grosses, Fees, LedgerEntry
<1>4. Settlements \in [LedgerEntry -> Int]
  BY DEF Settlements, LedgerEntry
<1> QED
  BY <1>2, <1>3, <1>4

LEMMA SumTypes ==
  ASSUME NEW a \in Seq(AuditEvent), NEW l \in Seq(LedgerEntry)
  PROVE  /\ Cardinality(ReversedEvents(a)) \in Nat /\ SeqSum(FractionOf, a) \in Int
         /\ SeqSum(Grosses, l) \in Int /\ SeqSum(Fees, l) \in Int
         /\ SeqSum(Settlements, l) \in Int
<1>1. SeqSum(FractionOf, a) \in Int
  BY ValueTypes, ValuesFacts
<1>2. SeqSum(Grosses, l) \in Int
  BY ValueTypes, ValuesFacts
<1>3. SeqSum(Fees, l) \in Int
  BY ValueTypes, ValuesFacts
<1>4. SeqSum(Settlements, l) \in Int
  BY ValueTypes, ValuesFacts
<1>5. Len(a) \in Nat /\ ReversedEvents(a) \in SUBSET (1..Len(a))
  BY DEF ReversedEvents, Events
<1>6. Cardinality(ReversedEvents(a)) \in Nat
  BY <1>5, RankGrows
<1> QED
  BY <1>1, <1>2, <1>3, <1>4, <1>6

\* What an event adds to the number of reversals and to what they asked for.
LEMMA AskedGrows ==
  ASSUME NEW a \in Seq(AuditEvent), NEW e \in AuditEvent
  PROVE  /\ e.event # "commission.reversed" =>
              /\ Cardinality(ReversedEvents(Append(a, e))) = Cardinality(ReversedEvents(a))
              /\ SeqSum(FractionOf, Append(a, e)) = SeqSum(FractionOf, a)
         /\ e.event = "commission.reversed" =>
              /\ Cardinality(ReversedEvents(Append(a, e))) = Cardinality(ReversedEvents(a)) + 1
              /\ SeqSum(FractionOf, Append(a, e)) = SeqSum(FractionOf, a) + e.fraction
<1>1. SeqSum(FractionOf, Append(a, e)) = SeqSum(FractionOf, a) + FractionOf[e]
  BY ValueTypes, SeqSumAppend
<1>2. FractionOf[e] = IF e.event = "commission.reversed" THEN e.fraction ELSE 0
  BY DEF FractionOf
<1>3. SeqSum(FractionOf, a) \in Int
  BY ValueTypes, ValuesFacts
<1>4. /\ ReversedEvents(Append(a, e)) = IF e.event = "commission.reversed"
                                        THEN ReversedEvents(a) \cup {Len(a) + 1}
                                        ELSE ReversedEvents(a)
      /\ Len(a) \in Nat /\ ReversedEvents(a) \in SUBSET (1..Len(a))
  <2> DEFINE names == {"commission.reversed"}
  <2>1. e.event \in names <=> e.event = "commission.reversed"
    OBVIOUS
  <2> HIDE DEF names
  <2>2. /\ Events(Append(a, e), names) =
             IF e.event \in names THEN Events(a, names) \cup {Len(a) + 1} ELSE Events(a, names)
        /\ Len(a) \in Nat /\ Events(a, names) \in SUBSET (1..Len(a))
    BY EventsGrow
  <2>3. \A c : ReversedEvents(c) = Events(c, names)
    BY DEF ReversedEvents, names
  <2> QED
    BY <2>1, <2>2, <2>3
<1>5. Cardinality(ReversedEvents(a) \cup {Len(a) + 1}) = Cardinality(ReversedEvents(a)) + 1
  BY <1>4, RankGrows
<1> QED
  BY <1>1, <1>2, <1>3, <1>4, <1>5

LEMMA FairOtherEvent ==
  ASSUME NEW a \in Seq(AuditEvent), NEW e \in AuditEvent, NEW l,
         Fair(a, l), e.event # "commission.reversed"
  PROVE  Fair(Append(a, e), l)
<1>1. /\ Cardinality(ReversedEvents(Append(a, e))) = Cardinality(ReversedEvents(a))
      /\ SeqSum(FractionOf, Append(a, e)) = SeqSum(FractionOf, a)
  BY AskedGrows
<1> QED
  BY <1>1, Zenon DEF Fair

LEMMA FairSettlement ==
  ASSUME NEW a \in Seq(AuditEvent), NEW p \in LedgerEntry, Fair(a, <<>>)
  PROVE  Fair(a, Append(<<>>, p))
<1> DEFINE l == Append(<<>>, p)
<1>1. l # <<>> /\ l[1] = p /\ <<>> \in Seq(LedgerEntry)
  OBVIOUS
<1>2. /\ SeqSum(Grosses, l) = SeqSum(Grosses, <<>>) + Grosses[p]
  BY <1>1, ValueTypes, SeqSumAppend
<1>3. /\ SeqSum(Fees, l) = SeqSum(Fees, <<>>) + Fees[p]
  BY <1>1, ValueTypes, SeqSumAppend
<1>4. /\ SeqSum(Settlements, l) = SeqSum(Settlements, <<>>) + Settlements[p]
  BY <1>1, ValueTypes, SeqSumAppend
<1>5. p.gross \in Int /\ p.fee \in Int /\ p.settlement \in Int
  BY DEF LedgerEntry
<1>6. /\ SeqSum(Grosses, l) = p.gross /\ SeqSum(Fees, l) = p.fee
      /\ SeqSum(Settlements, l) = p.settlement
  BY <1>2, <1>3, <1>4, <1>5, SeqSumEmpty DEF Grosses, Fees, Settlements
<1>7. Cardinality(ReversedEvents(a)) = 0 /\ SeqSum(FractionOf, a) = 0
  BY DEF Fair
<1>8. Within(0, 0, p.gross, p.fee, p.settlement, p.gross, p.fee, p.settlement)
  BY <1>5, ScaleAssumption DEF Within
<1> HIDE DEF l
<1>9. Fair(a, l)
  BY <1>1, <1>6, <1>7, <1>8 DEF Fair
<1> QED
  BY <1>9 DEF l

LEMMA FairReversal ==
  ASSUME NEW a \in Seq(AuditEvent), NEW e \in AuditEvent,
         NEW l \in Seq(LedgerEntry), NEW p \in LedgerEntry, Fair(a, l), l # <<>>,
         e.event = "commission.reversed",
         Balanced(l[1]), 0 <= l[1].fee, 0 <= l[1].settlement,
         p.gross = -RoundDown(l[1].gross, e.fraction),
         p.fee = -RoundDown(l[1].fee, e.fraction),
         p.settlement = -(RoundDown(l[1].gross, e.fraction) - RoundDown(l[1].fee, e.fraction))
  PROVE  Fair(Append(a, e), Append(l, p))
<1> DEFINE n == Cardinality(ReversedEvents(a))
           q == SeqSum(FractionOf, a)
           x == e.fraction
           G == l[1].gross
           F == l[1].fee
           P == l[1].settlement
           g == SeqSum(Grosses, l)
           f == SeqSum(Fees, l)
           s == SeqSum(Settlements, l)
           r == RoundDown(G, x)
           t == RoundDown(F, x)
           b == Append(a, e)
           m == Append(l, p)
<1>1. n \in Nat /\ q \in Int /\ g \in Int /\ f \in Int /\ s \in Int
  BY SumTypes
<1>2. l[1] \in LedgerEntry /\ m # <<>> /\ m[1] = l[1]
  OBVIOUS
<1>3. G \in Nat /\ F \in Nat /\ P \in Nat /\ G = F + P
  <2>1. G \in Int /\ F \in Int /\ P \in Int
    BY <1>2 DEF LedgerEntry
  <2> QED
    BY <2>1 DEF Balanced
<1>4. x \in Int
  <2>1. FractionOf[e] = x
    BY DEF FractionOf
  <2> QED
    BY <2>1, ValueTypes
<1>5. /\ Cardinality(ReversedEvents(b)) = n + 1 /\ SeqSum(FractionOf, b) = q + x
  BY AskedGrows
<1>6. r \in Int /\ t \in Int
  <2> HIDE DEF G, F, x
  <2>1. G * x \in Int /\ F * x \in Int
    BY <1>3, <1>4
  <2> QED
    BY <2>1, ScaleAssumption, DivFloor DEF RoundDown
<1>7. p.gross = -r /\ p.fee = -t /\ p.settlement = -(r - t)
  OBVIOUS
<1>8. SeqSum(Grosses, m) = g + p.gross
  <2>1. SeqSum(Grosses, m) = g + Grosses[p]
    BY ValueTypes, SeqSumAppend
  <2> QED
    BY <2>1 DEF Grosses
<1>9. SeqSum(Fees, m) = f + p.fee
  <2>1. SeqSum(Fees, m) = f + Fees[p]
    BY ValueTypes, SeqSumAppend
  <2> QED
    BY <2>1 DEF Fees
<1>10. SeqSum(Settlements, m) = s + p.settlement
  <2>1. SeqSum(Settlements, m) = s + Settlements[p]
    BY ValueTypes, SeqSumAppend
  <2> QED
    BY <2>1 DEF Settlements
<1>11. Within(n, q, G, F, P, g, f, s)
  BY DEF Fair
<1>12. Within(n + 1, q + x, G, F, P, g - r, f - t, s - (r - t))
  <2> HIDE DEF n, q, G, F, P, g, f, s, x
  <2> QED
    BY <1>1, <1>3, <1>4, <1>11, WithinStep
<1> HIDE DEF n, q, x, G, F, P, g, f, s, r, t
<1>13. /\ SeqSum(Grosses, m) = g - r /\ SeqSum(Fees, m) = f - t
       /\ SeqSum(Settlements, m) = s - (r - t)
  BY <1>1, <1>6, <1>7, <1>8, <1>9, <1>10
<1>14. m[1].gross = G /\ m[1].fee = F /\ m[1].settlement = P
  BY <1>2 DEF G, F, P
<1> HIDE DEF b, m
<1>15. Fair(b, m)
  BY <1>2, <1>5, <1>12, <1>13, <1>14 DEF Fair
<1> QED
  BY <1>15 DEF b, m

\* The sums of the property are these sums.
LEMMA SumsOfOrder ==
  ASSUME TypeOK, NEW o \in OrderIds
  PROVE  /\ Reversals(o) = ReversedEvents(audit[o]) /\ Asked(o) = SeqSum(FractionOf, audit[o])
         /\ Net(o, "gross") = SeqSum(Grosses, ledger[o])
         /\ Net(o, "fee") = SeqSum(Fees, ledger[o])
         /\ Net(o, "settlement") = SeqSum(Settlements, ledger[o])
<1> DEFINE a == audit[o]
           l == ledger[o]
<1>1. a \in Seq(AuditEvent) /\ l \in Seq(LedgerEntry) /\ \A i \in 1..Len(l) : l[i] \in LedgerEntry
  BY DEF TypeOK
<1>2. Reversals(o) = ReversedEvents(a)
  BY DEF Reversals, Logged, ReversedEvents, Events
<1>3. Asked(o) = SeqSum(FractionOf, a)
  <2> DEFINE S == 1..Len(a)
             T == ReversedEvents(a)
             f == Values(FractionOf, a)
             g == [i \in T |-> a[i].fraction]
  <2>1. /\ \A i \in S : f[i] = FractionOf[a[i]] /\ f[i] \in Int
        /\ IsFiniteSet(S)
    BY <1>1, ValueTypes, ValuesFacts
  <2>2. T \in SUBSET S /\ IsFiniteSet(T)
    <3>1. T \in SUBSET S
      BY DEF ReversedEvents, Events
    <3> QED
      BY <2>1, <3>1, FS_Subset
  <2>3. \A i \in S : a[i] \in AuditEvent
    BY <1>1
  <2>4. \A i \in S : i \in T <=> a[i].event = "commission.reversed"
    BY DEF ReversedEvents, Events
  <2>5. \A i \in S \ T : f[i] = 0
    BY <2>1, <2>3, <2>4 DEF FractionOf
  <2>6. \A i \in T : f[i] \in Int /\ g[i] = f[i]
    BY <2>1, <2>2, <2>3, <2>4 DEF FractionOf
  <2>7. Asked(o) = SumFunctionOnSet(g, T) /\ SeqSum(FractionOf, a) = SumFunctionOnSet(f, S)
    BY <1>2 DEF Asked, SumFunction, SeqSum
  <2> HIDE DEF S, T, f, g
  <2>8. SumFunctionOnSet(g, T) = SumFunctionOnSet(f, T)
    BY <2>2, <2>6, SumSame
  <2>9. SumFunctionOnSet(f, S) = SumFunctionOnSet(f, T)
    BY <2>1, <2>2, <2>5, SumWithoutZeros
  <2> QED
    BY <2>7, <2>8, <2>9
<1>4. Net(o, "gross") = SeqSum(Grosses, l)
  <2>1. [i \in 1..Len(l) |-> l[i]["gross"]] = Values(Grosses, l)
    BY <1>1 DEF Values, Grosses
  <2> QED
    BY <2>1 DEF Net, SumFunction, SeqSum, Values
<1>5. Net(o, "fee") = SeqSum(Fees, l)
  <2>1. [i \in 1..Len(l) |-> l[i]["fee"]] = Values(Fees, l)
    BY <1>1 DEF Values, Fees
  <2> QED
    BY <2>1 DEF Net, SumFunction, SeqSum, Values
<1>6. Net(o, "settlement") = SeqSum(Settlements, l)
  <2>1. [i \in 1..Len(l) |-> l[i]["settlement"]] = Values(Settlements, l)
    BY <1>1 DEF Values, Settlements
  <2> QED
    BY <2>1 DEF Net, SumFunction, SeqSum, Values
<1> QED
  BY <1>2, <1>3, <1>4, <1>5, <1>6

AllFair == \A o \in OrderIds : Fair(audit[o], ledger[o])

LEMMA FairMeans ==
  ASSUME TypeOK, SettlementIntegrity, AllFair
  PROVE  PartialReversalsStayWithinSettlement
<1> SUFFICES ASSUME NEW o \in OrderIds, Asked(o) <= Scale
             PROVE  LET n == Cardinality(Reversals(o))
                    IN  /\ Net(o, "gross") >= 0 /\ Net(o, "fee") >= 0
                        /\ n > 0 => Net(o, "settlement") > -n
                        /\ n = 1 /\ Asked(o) = Scale =>
                             Net(o, "gross") = 0 /\ Net(o, "fee") = 0 /\ Net(o, "settlement") = 0
  BY DEF PartialReversalsStayWithinSettlement
<1> DEFINE n == Cardinality(Reversals(o))
           q == Asked(o)
           g == Net(o, "gross")
           f == Net(o, "fee")
           s == Net(o, "settlement")
           l == ledger[o]
<1>1. audit[o] \in Seq(AuditEvent) /\ l \in Seq(LedgerEntry)
  BY DEF TypeOK
<1>2. n \in Nat /\ q \in Int /\ g \in Int /\ f \in Int /\ s \in Int
  BY <1>1, SumTypes, SumsOfOrder
<1>3. CASE l = <<>>
  <2>1. n = 0
    BY <1>3, SumsOfOrder DEF AllFair, Fair
  <2>2. g = 0 /\ f = 0
    BY <1>3, SumsOfOrder, SeqSumEmpty
  <2> QED
    BY <2>1, <2>2
<1>4. CASE l # <<>>
  <2> DEFINE G == l[1].gross
             F == l[1].fee
             P == l[1].settlement
  <2>1. Within(n, q, G, F, P, g, f, s)
    BY <1>4, SumsOfOrder DEF AllFair, Fair
  <2>2. G \in Nat /\ F \in Nat /\ P \in Nat
    <3>1. G \in Int /\ F \in Int /\ P \in Int
      <4>1. l[1] \in LedgerEntry
        <5> HIDE DEF l
        <5> QED
          BY <1>1, <1>4
      <4> QED
        BY <4>1 DEF LedgerEntry
    <3>2. F + P = G /\ 0 <= F /\ 0 <= P
      BY <1>4 DEF SettlementIntegrity, Balanced
    <3> QED
      BY <3>1, <3>2
  <2>3. q <= Scale
    OBVIOUS
  <2> HIDE DEF n, q, g, f, s, G, F, P
  <2>4. g >= 0 /\ f >= 0 /\ (n > 0 => s > -n)
    BY <1>2, <2>1, <2>2, <2>3, WithinMeans
  <2>5. n = 1 /\ q = Scale => g = 0 /\ f = 0 /\ s = 0
    BY <2>1 DEF Within
  <2> QED
    BY <2>4, <2>5 DEF n, q, g, f, s
<1> QED
  BY <1>3, <1>4

LEMMA FairInductive ==
  TypeOK /\ SettlementIntegrity /\ AllFair /\ [Next]_vars => AllFair'
<1> SUFFICES ASSUME TypeOK, SettlementIntegrity, AllFair, [Next]_vars, NEW x \in OrderIds
             PROVE  Fair(audit'[x], ledger'[x])
  BY DEF AllFair
<1>1. \A y \in OrderIds : Fair(audit[y], ledger[y])
  BY DEF AllFair
<1>2. ASSUME NEW y \in OrderIds
      PROVE  audit[y] \in Seq(AuditEvent) /\ ledger[y] \in Seq(LedgerEntry)
  BY DEF TypeOK
<1>3. ASSUME audit'[x] = audit[x] /\ ledger'[x] = ledger[x]
      PROVE  Fair(audit'[x], ledger'[x])
  BY <1>1, <1>3
<1>4. ASSUME NEW o \in OrderIds, NEW c \in Contexts,
             NEW owner \in Tenants \cup {NoTenant}, NEW a \in Amounts,
             Register(c, o, owner, a)
      PROVE  Fair(audit'[x], ledger'[x])
  <2>1. audit' = [audit EXCEPT ![o] = Append(@, Created)] /\ ledger' = ledger
    BY <1>4 DEF Register
  <2>2. CASE x # o
    BY <1>3, <2>1, <2>2 DEF TypeOK
  <2>3. CASE x = o
    <3>1. Created \in AuditEvent /\ Created.event # "commission.reversed"
      BY DEF AuditEvent, Created
    <3>2. audit'[x] = Append(audit[x], Created)
      BY <2>1, <2>3 DEF TypeOK
    <3>3. Fair(Append(audit[x], Created), ledger[x])
      BY <1>1, <1>2, <3>1, FairOtherEvent
    <3> QED
      BY <2>1, <3>2, <3>3
  <2> QED
    BY <2>2, <2>3
<1>5. ASSUME NEW o \in OrderIds, NEW c \in Contexts, NEW s \in OrderStatus,
             NEW trailer \in Trailers, Apply(c, o, s, trailer)
      PROVE  Fair(audit'[x], ledger'[x])
  <2>1. CASE x # o
    BY <1>3, <1>5, <2>1, ApplyWrites
  <2>2. CASE x = o
    <3> DEFINE e == StatusChanged(status[o], s)
               told == Append(audit[o], e)
               split == Split(c, o)
               paid == [tenant |-> tenant_id[o], gross |-> split.gross, fee |-> split.fee,
                        settlement |-> split.settlement, rate |-> split.rate]
               settled == Settled(split)
    <3>1. /\ e \in AuditEvent
          /\ \/ /\ settled \in AuditEvent /\ paid \in LedgerEntry
                /\ audit'[o] = Append(told, settled)
                /\ ledger'[o] = Append(ledger[o], paid)
             \/ /\ ledger'[o] = ledger[o]
                /\ \/ audit'[o] = told
                   \/ \E b \in BOOLEAN : /\ audit'[o] = Append(told, Cancelled(b))
                                         /\ Cancelled(b) \in AuditEvent
      BY <1>5, ApplyWrites
    <3>2. /\ e.event # "commission.reversed" /\ settled.event # "commission.reversed"
          /\ \A b : Cancelled(b).event # "commission.reversed"
      BY DEF StatusChanged, Settled, Cancelled
    <3>3. ledger[o] = <<>>
      <4>1. status[o] # "completed"
        BY <1>5, TransitionLeavesOpenStatus DEF Apply
      <4> QED
        BY <4>1 DEF SettlementIntegrity
    <3> HIDE DEF e, told, split, paid, settled
    <3>4. told \in Seq(AuditEvent)
      BY <1>2, <3>1, GrowFacts DEF told
    <3>5. Fair(told, ledger[o])
      BY <1>1, <1>2, <3>1, <3>2, FairOtherEvent DEF told
    <3>6. ASSUME settled \in AuditEvent, paid \in LedgerEntry,
                 audit'[o] = Append(told, settled), ledger'[o] = Append(ledger[o], paid)
          PROVE  Fair(audit'[o], ledger'[o])
      <4>1. Fair(Append(told, settled), <<>>) /\ Append(told, settled) \in Seq(AuditEvent)
        BY <3>2, <3>3, <3>4, <3>5, <3>6, FairOtherEvent, GrowFacts
      <4>2. Fair(Append(told, settled), Append(<<>>, paid))
        BY <3>6, <4>1, FairSettlement
      <4> QED
        BY <3>3, <3>6, <4>2
    <3>7. ASSUME NEW b \in BOOLEAN, audit'[o] = Append(told, Cancelled(b)),
                 Cancelled(b) \in AuditEvent, ledger'[o] = ledger[o]
          PROVE  Fair(audit'[o], ledger'[o])
      BY <3>2, <3>4, <3>5, <3>7, FairOtherEvent
    <3> QED
      BY <2>2, <3>1, <3>5, <3>6, <3>7
  <2> QED
    BY <2>1, <2>2
<1>6. ASSUME NEW o \in OrderIds, NEW f \in Fractions, RecordCommissionReversal(o, f)
      PROVE  Fair(audit'[x], ledger'[x])
  <2> DEFINE rev == reverse(SettledSplit(o), f)
             back == [tenant |-> tenant_id[o], gross |-> -rev.gross, fee |-> -rev.fee,
                      settlement |-> -rev.settlement, rate |-> snapshot[o].rate]
             e == Reversed(f, rev.fee)
             paid == ledger[o][1]
  <2>1. /\ ledger' = [ledger EXCEPT ![o] = Append(@, back)]
        /\ audit' = [audit EXCEPT ![o] = Append(@, e)]
        /\ snapshot[o] # NoSnapshot
    BY <1>6 DEF RecordCommissionReversal, SettledSplit
  <2>2. CASE x # o
    BY <1>3, <2>1, <2>2 DEF TypeOK
  <2>3. CASE x = o
    <3>1. TypeOK'
      BY TypeInductive
    <3>2. ledger'[o] = Append(ledger[o], back) /\ audit'[o] = Append(audit[o], e)
      BY <2>1 DEF TypeOK
    <3>3. /\ ledger[o] # <<>> /\ Balanced(paid) /\ 0 <= paid.fee /\ 0 <= paid.settlement
          /\ snapshot[o] = [rate |-> paid.rate, fee |-> paid.fee, settlement |-> paid.settlement]
      BY <2>1 DEF SettlementIntegrity
    <3>4. SettledSplit(o).gross = paid.gross /\ SettledSplit(o).fee = paid.fee
      <4> HIDE DEF paid
      <4> QED
        BY <3>3 DEF SettledSplit, Balanced
    <3>5. e.event = "commission.reversed" /\ e.fraction = f
      BY DEF Reversed
    <3>6. /\ rev.gross = RoundDown(paid.gross, f) /\ rev.fee = RoundDown(paid.fee, f)
          /\ rev.settlement = RoundDown(paid.gross, f) - RoundDown(paid.fee, f)
      <4> HIDE DEF paid
      <4> QED
        BY <3>4 DEF reverse
    <3>7. /\ back.gross = -RoundDown(paid.gross, e.fraction)
          /\ back.fee = -RoundDown(paid.fee, e.fraction)
          /\ back.settlement = -(RoundDown(paid.gross, e.fraction) - RoundDown(paid.fee, e.fraction))
      <4> HIDE DEF e, rev, paid
      <4> QED
        BY <3>5, <3>6
    <3> HIDE DEF e, back
    <3>8. e \in AuditEvent /\ back \in LedgerEntry
      <4>1. /\ Append(audit[o], e) \in Seq(AuditEvent)
            /\ Append(ledger[o], back) \in Seq(LedgerEntry)
        BY <3>1, <3>2 DEF TypeOK
      <4>2. audit[o] \in Seq(AuditEvent) /\ ledger[o] \in Seq(LedgerEntry)
        BY <1>2
      <4> QED
        BY <4>1, <4>2, LastOfAppend
    <3>9. Fair(Append(audit[o], e), Append(ledger[o], back))
      BY <1>1, <1>2, <3>3, <3>5, <3>7, <3>8, FairReversal
    <3> QED
      BY <2>3, <3>2, <3>9
  <2> QED
    BY <2>2, <2>3
<1>7. ASSUME NEW o \in OrderIds, ConfirmPayment(o) \/ StartService(o)
      PROVE  Fair(audit'[x], ledger'[x])
  <2>1. audit' = audit /\ ledger' = ledger
    BY <1>7, FulfillmentStep
  <2> QED
    BY <1>3, <2>1
<1>8. CASE UNCHANGED vars
  BY <1>3, <1>8 DEF vars
<1> QED
  BY <1>4, <1>5, <1>6, <1>7, <1>8, StatusStepTrailer DEF Next, OrderStep

\* Reversals that ask for no more than the whole leave no column of gross or fee
\* below zero and overdraw the tenant by less than a cent each, whatever the
\* amounts, the rates, the fractions and the number of reversals.
THEOREM ReversalsStayWithinSettlement == Spec => []PartialReversalsStayWithinSettlement
<1>1. Init => AllFair
  <2>1. ReversedEvents(<<>>) = {}
    BY DEF ReversedEvents, Events
  <2>2. Fair(<<>>, <<>>)
    BY <2>1, FS_EmptySet, SeqSumEmpty DEF Fair
  <2> QED
    BY <2>2 DEF Init, AllFair
<1>2. TypeOK /\ SettlementIntegrity /\ AllFair => PartialReversalsStayWithinSettlement
  BY FairMeans
<1> QED
  BY <1>1, <1>2, TypeCorrect, SettlementIsSound, FairInductive, PTL DEF Spec

-----------------------------------------------------------------------------
(* Registry and bindings.                                                  *)

\* The part of the type invariant that is about registry and requests.
RequestTypes ==
  /\ _by_id   \in [Tenants -> Candidates \cup {Unknown}]
  /\ _by_slug \in [Slugs -> Candidates \cup {Unknown}]
  /\ address  \in [Requests -> Slugs \cup Tenants \cup {NoSlug}]
  /\ context  \in [Requests -> Tenants \cup {NoTenant}]

\* What the theorems below rest on: a request in flight is bound to the tenant its
\* address finds.
BindingInv == RequestTypes /\ ContextIsCurrent

\* Whom _resolve finds is whom the address finds.
LEMMA ResolveFindsAddressee ==
  ASSUME NEW slug \in Slugs \cup {NoSlug}, NEW header \in Tenants \cup {NoTenant},
         RequestTypes, _resolve(slug, header) # Unknown
  PROVE  /\ Addressee(slug, header) \in Slugs \cup Tenants
         /\ Addressee(slug, header) # NoSlug
         /\ _resolve(slug, header) = Lookup(Addressee(slug, header))
         /\ _resolve(slug, header) \in Candidates
         /\ _resolve(slug, header).id \in Tenants
  BY RequestAssumption, TenantAssumption
     DEF RequestTypes, Tenant, _resolve, get_by_id, get_by_slug, Addressee, Lookup

\* After a registration every known address finds what it found before.
LEMMA RegisterKeepsLookups ==
  ASSUME BindingInv, NEW tenant \in Candidates, register(tenant)
  PROVE  BindingInv'
<1>1. /\ tenant.id \in Tenants /\ tenant.slug \in Slugs /\ tenant # Unknown
  BY RequestAssumption DEF Tenant
<1>2. RequestTypes'
  BY <1>1 DEF BindingInv, RequestTypes, register, Enters
<1>3. ContextIsCurrent'
  <2>1. SUFFICES ASSUME NEW r \in Requests, address[r] # NoSlug
                 PROVE  /\ Lookup(address[r])' = Lookup(address[r])
                        /\ address'[r] = address[r] /\ context'[r] = context[r]
    BY DEF BindingInv, ContextIsCurrent, register, Enters
  <2>2. address[r] \in Slugs \cup Tenants /\ Lookup(address[r]) # Unknown
    BY <2>1 DEF BindingInv, RequestTypes, ContextIsCurrent
  <2>3. QED
    BY <1>1, <2>2 DEF BindingInv, RequestTypes, register, Enters, Lookup
<1>4. QED
  BY <1>2, <1>3 DEF BindingInv

\* dispatch binds the tenant its request was sent to.
LEMMA DispatchBinds ==
  ASSUME BindingInv, NEW r \in Requests, NEW slug \in Slugs \cup {NoSlug},
         NEW header \in Tenants \cup {NoTenant}, dispatch(r, slug, header)
  PROVE  BindingInv'
<1> DEFINE tenant == _resolve(slug, header)
           a == Addressee(slug, header)
<1>1. /\ a \in Slugs \cup Tenants /\ a # NoSlug
      /\ tenant = Lookup(a) /\ tenant # Unknown /\ tenant.active /\ tenant.id \in Tenants
  BY ResolveFindsAddressee DEF dispatch, BindingInv
<1>2. /\ address' = [address EXCEPT ![r] = a]
      /\ context' = [context EXCEPT ![r] = tenant.id]
      /\ UNCHANGED <<_by_id, _by_slug>>
  BY DEF dispatch
<1> HIDE DEF tenant, a
<1>3. RequestTypes'
  BY <1>1, <1>2 DEF BindingInv, RequestTypes
<1>4. ContextIsCurrent'
  BY <1>1, <1>2 DEF BindingInv, RequestTypes, ContextIsCurrent, Lookup
<1>5. QED
  BY <1>3, <1>4 DEF BindingInv

\* Every step keeps the bindings current.
LEMMA BindingInductive == BindingInv /\ [RequestNext]_allVars => BindingInv'
<1> SUFFICES ASSUME BindingInv, [RequestNext]_allVars PROVE BindingInv'
  OBVIOUS
<1>1. CASE \E tenant \in Candidates : register(tenant)
  BY <1>1, RegisterKeepsLookups
<1>2. CASE \E r \in Requests :
             \E slug \in Slugs \cup {NoSlug}, header \in Tenants \cup {NoTenant} :
               dispatch(r, slug, header)
  BY <1>2, DispatchBinds
<1>3. ASSUME NEW r \in Requests, Serve(r) PROVE BindingInv'
  <2>1. /\ address' = [address EXCEPT ![r] = NoSlug]
        /\ context' = [context EXCEPT ![r] = NoTenant]
        /\ UNCHANGED <<_by_id, _by_slug>>
    BY <1>3 DEF Serve
  <2>2. QED
    BY <2>1 DEF BindingInv, RequestTypes, ContextIsCurrent, Lookup
<1>4. CASE UNCHANGED requestVars
  BY <1>4 DEF requestVars, BindingInv, RequestTypes, ContextIsCurrent, Lookup
<1>5. QED
  BY <1>1, <1>2, <1>3, <1>4 DEF RequestNext, BackOffice, allVars

\* The invariant of the bindings holds throughout.
LEMMA BindingHolds == RequestSpec => []BindingInv
<1>1. RequestInit => BindingInv
  BY RequestAssumption, TenantAssumption
     DEF RequestInit, BindingInv, RequestTypes, ContextIsCurrent
<1>2. QED
  BY <1>1, BindingInductive, PTL DEF RequestSpec

\* Resolution does not go stale: TenantRegistry.register never changes what a slug
\* or an id finds, so a binding is current for as long as its request runs.
THEOREM BindingsStayCurrent == RequestSpec => []ContextIsCurrent
  BY BindingHolds, PTL DEF BindingInv

-----------------------------------------------------------------------------
(* The composition implements OrderService.                                *)

\* A route run for a request in flight is an operation of the service under a
\* registered tenant.
LEMMA ServeIsOrderStep ==
  ASSUME BindingInv, NEW r \in Requests, Serve(r), vars' # vars
  PROVE  \E o \in OrderIds : context[r] \in Tenants /\ OrderStep(context[r], o)
<1>1. context[r] \in Tenants
  <2>1. address[r] # NoSlug /\ Lookup(address[r]) # Unknown
        /\ Lookup(address[r]).id = context[r] /\ address[r] \in Slugs \cup Tenants
    BY DEF BindingInv, RequestTypes, ContextIsCurrent, Serve
  <2>2. Lookup(address[r]) \in Candidates
    BY <2>1 DEF BindingInv, RequestTypes, Lookup
  <2>3. QED
    BY <2>1, <2>2, RequestAssumption DEF Tenant
<1>2. PICK o \in OrderIds : Route(context[r], o)
  BY DEF Serve, current_tenant
<1>3. OrderStep(context[r], o)
  BY <1>1, <1>2 DEF Route, OrderStep
<1>4. QED
  BY <1>1, <1>3

\* Every step of the composition is a step of OrderService or leaves it alone.
LEMMA StepImplementsService ==
  ASSUME BindingInv, [RequestNext]_allVars PROVE [Next]_vars
<1>1. ASSUME NEW r \in Requests, Serve(r), vars' # vars PROVE Next
  BY <1>1, ServeIsOrderStep, RequestAssumption DEF Next
<1>2. ASSUME NEW o \in OrderIds, BackOffice(o) PROVE Next
  BY <1>2 DEF BackOffice, Next
<1>3. CASE vars' = vars
  BY <1>3
<1>4. QED
  BY <1>1, <1>2, <1>3 DEF RequestNext, register, Enters, dispatch, allVars

\* Registry, middleware and order routes together implement OrderService with
\* bound contexts, so its theorems hold of the API.
THEOREM RequestsImplementService == RequestSpec => ImplementsOrderService
<1>1. RequestInit => Init
  BY DEF RequestInit
<1>2. QED
  BY <1>1, BindingHolds, StepImplementsService, PTL
     DEF RequestSpec, ImplementsOrderService, Spec

\* The registry, the requests and the orders behind them keep their types.
THEOREM RequestTypesCorrect == RequestSpec => []RequestTypeOK
<1>1. BindingInv /\ TypeOK => RequestTypeOK
  BY DEF BindingInv, RequestTypes, RequestTypeOK
<1>2. QED
  BY <1>1, BindingHolds, RequestsImplementService, TypeCorrect, PTL
     DEF ImplementsOrderService

\* Whatever requests are in flight and whoever is registered meanwhile, a completed
\* order was settled at its own tenant's contract rate, if at all.
THEOREM ApiChargesContractRate == RequestSpec => []SettledAtContractRate
  BY RequestsImplementService, ContractRateIsCharged, PTL DEF ImplementsOrderService
-----------------------------------------------------------------------------
(* The tenant boundary of requests.                                        *)

\* A route leaves every other order alone, and the order it changes is the bound
\* tenant's when it is done.
LEMMA RouteStaysInside ==
  ASSUME TypeOK, Owned, NEW c \in Tenants, NEW o \in OrderIds, Route(c, o),
         NEW x \in OrderIds, OrderState(x)' # OrderState(x)
  PROVE  tenant_id'[x] = c
<1>0. c \in Contexts /\ NoTenant \notin Contexts
  BY RequestAssumption, TenantAssumption
<1>1. ASSUME NEW a \in Amounts, Register(c, o, c, a) PROVE tenant_id'[x] = c
  <2>1. x = o
    BY <1>1 DEF Register, OrderState, TypeOK
  <2>2. tenant_id' = [tenant_id EXCEPT ![o] = c]
    BY <1>0, <1>1, TenantAssumption DEF Register, _bind_tenant
  <2>3. QED
    BY <2>1, <2>2 DEF TypeOK
<1>2. ASSUME NEW s, NEW trailer, Apply(c, o, s, trailer),
             refundCalls' = [refundCalls EXCEPT ![o] = refundCalls'[o]]
      PROVE  tenant_id'[x] = c
  <2>1. /\ status'[x] = status[x] \/ x = o
        /\ history'[x] = history[x] \/ x = o
        /\ snapshot'[x] = snapshot[x] \/ x = o
        /\ ledger'[x] = ledger[x] \/ x = o
        /\ audit'[x] = audit[x] \/ x = o
        /\ refundCalls'[x] = refundCalls[x] \/ x = o
        /\ UNCHANGED <<tenant_id, total>>
    BY <1>2 DEF Apply, transition_to, _settle_commission, TypeOK
  <2>2. x = o
    BY <2>1 DEF OrderState
  <2>3. tenant_id[o] = c
    <3>1. Found(c, o)
      BY <1>2 DEF Apply
    <3>2. QED
      BY <1>0, <3>1, TenantAssumption DEF Found, _check_tenant, Owned
  <2>4. QED
    BY <2>1, <2>2, <2>3
<1>3. ASSUME NEW s, Apply(c, o, s, <<>>), UNCHANGED refundCalls
      PROVE  tenant_id'[x] = c
  <2>1. refundCalls' = [refundCalls EXCEPT ![o] = refundCalls'[o]]
    BY <1>3 DEF TypeOK
  <2>2. QED
    BY <1>2, <1>3, <2>1
<1>4. ASSUME NEW r \in RefundOutcomes, Cancel(c, o, r) PROVE tenant_id'[x] = c
  <2>1. refundCalls' = [refundCalls EXCEPT ![o] = refundCalls'[o]]
    BY <1>4 DEF Cancel, TypeOK
  <2>2. QED
    BY <1>2, <1>4, <2>1 DEF Cancel
<1>5. QED
  BY <1>1, <1>3, <1>4 DEF Route, Transition, Complete

\* The step of OnlyAddressedTenant.
LEMMA EveryStepStaysInside ==
  ASSUME BindingInv, TypeOK, Owned, [RequestNext]_allVars,
         NEW r \in Requests, Ends(r), NEW x \in OrderIds,
         OrderState(x)' # OrderState(x)
  PROVE  Lookup(address[r]) # Unknown /\ tenant_id'[x] = Lookup(address[r]).id
<1>1. Serve(r)
  <2>1. ~ \E tenant \in Candidates : register(tenant)
    BY DEF Ends, register, Enters
  <2>2. ASSUME NEW q \in Requests, NEW slug, NEW header, dispatch(q, slug, header)
        PROVE  FALSE
    BY <2>2 DEF dispatch, Ends, BindingInv, RequestTypes
  <2>3. ASSUME NEW q \in Requests, Serve(q) PROVE q = r
    BY <2>3 DEF Serve, Ends, BindingInv, RequestTypes
  <2>4. requestVars' # requestVars
    BY DEF Ends, requestVars
  <2>5. QED
    BY <2>1, <2>2, <2>3, <2>4 DEF RequestNext, BackOffice, allVars
<1>2. vars' # vars
  BY DEF vars, OrderState
<1>3. context[r] \in Tenants
  BY <1>1, <1>2, ServeIsOrderStep
<1>4. PICK o \in OrderIds : Route(context[r], o)
  BY <1>1, <1>2 DEF Serve, current_tenant
<1>5. tenant_id'[x] = context[r]
  BY <1>3, <1>4, RouteStaysInside
<1>6. QED
  BY <1>5 DEF BindingInv, ContextIsCurrent, Ends

\* TenantResolutionMiddleware: no request, whatever else is in flight, changes an
\* order of a tenant other than the one it was sent to.
THEOREM RequestsStayInside == RequestSpec => OnlyAddressedTenant
<1>1. Spec => []Owned
  <2>1. Init => Owned
    BY DEF Init, Owned
  <2>2. QED
    BY <2>1, TypeCorrect, OwnedInductive, PTL DEF Spec
<1>2. BindingInv /\ TypeOK /\ Owned /\ [RequestNext]_allVars =>
        [\A r \in Requests : Ends(r) =>
           \A o \in OrderIds : OrderState(o)' # OrderState(o) =>
             /\ Lookup(address[r]) # Unknown
             /\ tenant_id'[o] = Lookup(address[r]).id]_allVars
  BY EveryStepStaysInside
<1>3. QED
  BY <1>1, <1>2, BindingHolds, RequestsImplementService, TypeCorrect, PTL
     DEF RequestSpec, OnlyAddressedTenant, ImplementsOrderService
=============================================================================
