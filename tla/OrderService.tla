----------------------------- MODULE OrderService -----------------------------
(***************************************************************************)
(* Orders, commission settlement and the audit trail they leave:           *)
(* orders/order_service.py over orders/order_repository.py,                *)
(* commissions/, tenancy context and the order routes of the API, plus     *)
(* orders/fulfillment.py, which changes the same Order objects.            *)
(*                                                                         *)
(* Every handler in api/routes_order.py is an async function that never    *)
(* awaits, so one request is one step; the steps of different requests,    *)
(* tenants and back-office callers interleave freely.  A rejected request  *)
(* (404, CrossTenantAccessError, 409) that changes nothing is a step the   *)
(* guards exclude; one that fails half way is modelled with what it left   *)
(* behind.                                                                 *)
(*                                                                         *)
(* The ledger and the audit log are each one list in the code; the model   *)
(* keeps the part of each list that belongs to an order, because nothing   *)
(* in this component reads the relative order of two orders' entries.      *)
(***************************************************************************)
EXTENDS CommissionEngine, OrderLifecycle, FiniteSets

CONSTANTS
  OrderIds,        \* order_ids that callers create
  Tenants,         \* registered tenants
  NoTenant,        \* no bound context, or an empty tenant_id
  Contexts,        \* the tenant contexts operations run under
  TenantRate,      \* Tenant.commission_rate; the registry does not validate it
  DefaultRate,     \* CommissionEngine's default rate
  Amounts,         \* total_amount_cents of created orders; the schema is a plain int
  Fractions,       \* the reversal fractions callers ask for
  RefundOutcomes,  \* how the refund_callback of this wiring can end
  NoSnapshot,      \* commission_snapshot is None
  MaxReversals     \* bound: reversals recorded for one order

Snapshot == [rate : Int, fee : Int, settlement : Int]

LedgerEntry ==
  [tenant : Tenants \cup {NoTenant}, gross : Int, fee : Int, settlement : Int,
   rate : Int]

ASSUME TenantAssumption ==
  /\ NoTenant \notin Tenants
  /\ Contexts \subseteq Tenants \cup {NoTenant}

ASSUME RateAssumption ==
  /\ TenantRate \in [Tenants -> Int]
  /\ DefaultRate \in Int /\ ValidRate(DefaultRate)

ASSUME InputAssumption ==
  /\ Amounts \subseteq Int
  /\ Fractions \subseteq Int
  /\ RefundOutcomes \subseteq {"unwired", "ref", "empty", "raises"}
  /\ MaxReversals \in Nat
  /\ NoSnapshot \notin Snapshot

VARIABLES
  status,        \* Order.status; "absent" until the order is saved
  tenant_id,     \* Order.tenant_id
  total,         \* Order.total_amount_cents
  snapshot,      \* Order.commission_snapshot
  history,       \* Order.history
  ledger,        \* the order's entries in CommissionLedger._entries
  audit,         \* the order's entries in the AuditLogger
  refundCalls    \* calls of refund_callback made for the order (gateway side)

vars == <<status, tenant_id, total, snapshot, history, ledger, audit, refundCalls>>

-----------------------------------------------------------------------------
(* The audit events of the service, reduced to what they record.           *)

\* Variants: the status is read after the change; the refund flag is left out; the
\* fee is logged with the sign of the ledger entry.
StatusChangedAfterwards(f, t) == [event |-> "order.status_changed", from |-> t, to |-> t]
CancelledWithoutFlag(refunded) == [event |-> "order.cancelled"]
ReversedSigned(f, fee) == [event |-> "commission.reversed", fraction |-> f, fee |-> -fee]

Created            == [event |-> "order.created"]
StatusChanged(f, t) == [event |-> "order.status_changed", from |-> f, to |-> t]
Cancelled(refunded) == [event |-> "order.cancelled", refunded |-> refunded]
Settled(split)     == [event |-> "commission.settled", rate |-> split.rate,
                       fee |-> split.fee, settlement |-> split.settlement]
Reversed(f, fee)   == [event |-> "commission.reversed", fraction |-> f, fee |-> fee]

-----------------------------------------------------------------------------
(* The tenant boundary.                                                    *)

\* Variant: the repository trusts its caller.
NoCheck(c, owner) == TRUE

\* _check_tenant: an unbound context, or an order without tenant, passes.
_check_tenant(c, owner) == c = NoTenant \/ owner \in {NoTenant, c}

\* find_by_id under context c returns the order.
Found(c, o) == status[o] # "absent" /\ _check_tenant(c, tenant_id[o])

\* _bind_tenant: an explicit tenant_id wins over the bound context.
_bind_tenant(c, owner) == IF owner # NoTenant THEN owner ELSE c

\* The rate _settle_commission charges: that of the BOUND tenant.
RateFor(c) == IF c = NoTenant THEN DefaultRate ELSE TenantRate[c]

-----------------------------------------------------------------------------
(* The operations.                                                         *)

Init ==
  /\ status      = [o \in OrderIds |-> "absent"]
  /\ tenant_id   = [o \in OrderIds |-> NoTenant]
  /\ total       = [o \in OrderIds |-> 0]
  /\ snapshot    = [o \in OrderIds |-> NoSnapshot]
  /\ history     = [o \in OrderIds |-> <<>>]
  /\ ledger      = [o \in OrderIds |-> <<>>]
  /\ audit       = [o \in OrderIds |-> <<>>]
  /\ refundCalls = [o \in OrderIds |-> 0]

\* register; create_order always passes owner = c.
Register(c, o, owner, amount) ==
  LET t == _bind_tenant(c, owner)
  IN  /\ status[o] = "absent"
      /\ _check_tenant(c, t)
      /\ status'    = [status EXCEPT ![o] = "draft"]
      /\ tenant_id' = [tenant_id EXCEPT ![o] = t]
      /\ total'     = [total EXCEPT ![o] = amount]
      /\ audit'     = [audit EXCEPT ![o] = Append(@, Created)]
      /\ UNCHANGED <<snapshot, history, ledger, refundCalls>>

\* Variant: the change is recorded after the status was assigned.
RecordedLate(o, s, by) ==
  /\ status[o] # "absent"
  /\ CanTransition(status[o], s)
  /\ status'  = [status EXCEPT ![o] = s]
  /\ history' = [history EXCEPT ![o] = Append(@, [from |-> s, to |-> s, by |-> by])]

\* Order.transition_to on the shared Order object.
transition_to(o, s, by) ==
  /\ status[o] # "absent"
  /\ CanTransition(status[o], s)
  /\ status'  = [status EXCEPT ![o] = s]
  /\ history' = [history EXCEPT ![o] =
                   Append(@, [from |-> status[o], to |-> s, by |-> by])]

Split(c, o) == calculate(total[o], RateFor(c))

\* _settle_commission returns normally; otherwise it raised before any effect.
Settles(c, o) == Computable(total[o], RateFor(c))

\* Variant: the entry is posted to the bound tenant, not to the order's.
SettleBoundTenant(c, o) ==
  LET split == Split(c, o)
  IN  /\ snapshot' = [snapshot EXCEPT ![o] =
           [rate |-> split.rate, fee |-> split.fee, settlement |-> split.settlement]]
      /\ ledger' = [ledger EXCEPT ![o] = Append(@,
           [tenant |-> c, gross |-> split.gross, fee |-> split.fee,
            settlement |-> split.settlement, rate |-> split.rate])]

\* _settle_commission: the snapshot is set, then the entry is posted.
_settle_commission(c, o) ==
  LET split == Split(c, o)
  IN  /\ snapshot' = [snapshot EXCEPT ![o] =
           [rate |-> split.rate, fee |-> split.fee, settlement |-> split.settlement]]
      /\ ledger' = [ledger EXCEPT ![o] = Append(@,
           [tenant |-> tenant_id[o], gross |-> split.gross, fee |-> split.fee,
            settlement |-> split.settlement, rate |-> split.rate])]

\* transition to s with everything it triggers; the calls after it in the same
\* handler add the audit events of trailer.
Apply(c, o, s, trailer) ==
  LET settles == s = "completed" /\ Settles(c, o)
  IN  /\ Found(c, o)
      /\ transition_to(o, s, "service")
      /\ IF settles THEN _settle_commission(c, o) ELSE UNCHANGED <<snapshot, ledger>>
      /\ audit' = [audit EXCEPT ![o] =
           @ \o IF settles THEN <<StatusChanged(status[o], s), Settled(Split(c, o))>>
                           ELSE <<StatusChanged(status[o], s)>> \o trailer]
      /\ UNCHANGED <<tenant_id, total>>

\* POST /{order_id}/transition: any status the table allows, "cancelled" and
\* "completed" included.
Transition(c, o, s) == Apply(c, o, s, <<>>) /\ UNCHANGED refundCalls

\* POST /{order_id}/complete
Complete(c, o) == Apply(c, o, "completed", <<>>) /\ UNCHANGED refundCalls

\* Variant: the refund runs before the transition is validated.
RefundFirst(c, o, outcome) ==
  /\ Found(c, o)
  /\ IF CanTransition(status[o], "cancelled")
     THEN Apply(c, o, "cancelled", <<Cancelled(outcome = "ref")>>)
     ELSE UNCHANGED <<status, tenant_id, total, snapshot, history, ledger, audit>>
  /\ refundCalls' = [refundCalls EXCEPT ![o] = @ + IF outcome = "unwired" THEN 0 ELSE 1]

\* POST /{order_id}/cancel: the callback runs after the status is saved; if it
\* raises, order.cancelled is never logged.
Cancel(c, o, outcome) ==
  /\ Apply(c, o, "cancelled",
           IF outcome = "raises" THEN <<>> ELSE <<Cancelled(outcome = "ref")>>)
  /\ refundCalls' = [refundCalls EXCEPT ![o] = @ + IF outcome = "unwired" THEN 0 ELSE 1]

\* record_commission_reversal: the caller holds the order; no tenant check.
RecordCommissionReversal(o, f) ==
  LET snap    == snapshot[o]
      settled == [rate |-> snap.rate, gross |-> snap.fee + snap.settlement,
                  fee |-> snap.fee, settlement |-> snap.settlement]
      rev     == reverse(settled, f)
      entry   == [tenant |-> tenant_id[o], gross |-> -rev.gross, fee |-> -rev.fee,
                  settlement |-> -rev.settlement, rate |-> snap.rate]
  IN  /\ snap # NoSnapshot
      /\ ValidFraction(f)
      /\ Balanced(entry)
      /\ Len(ledger[o]) <= MaxReversals
      /\ ledger' = [ledger EXCEPT ![o] = Append(@, entry)]
      /\ audit'  = [audit EXCEPT ![o] = Append(@, Reversed(f, rev.fee))]
      /\ UNCHANGED <<status, tenant_id, total, snapshot, history, refundCalls>>

\* FulfillmentService.confirm_payment and start_service: transition_to on the
\* shared object, an event in the service's own list, neither save nor audit.
ConfirmPayment(o) ==
  /\ transition_to(o, "confirmed", "fulfillment")
  /\ UNCHANGED <<tenant_id, total, snapshot, ledger, audit, refundCalls>>

StartService(o) ==
  /\ transition_to(o, "in_progress", "fulfillment")
  /\ UNCHANGED <<tenant_id, total, snapshot, ledger, audit, refundCalls>>

OrderStep(c, o) ==
  \/ \E owner \in Tenants \cup {NoTenant}, a \in Amounts : Register(c, o, owner, a)
  \/ \E s \in OrderStatus : Transition(c, o, s)
  \/ Complete(c, o)
  \/ \E r \in RefundOutcomes : Cancel(c, o, r)

Next ==
  \E o \in OrderIds :
    \/ \E c \in Contexts : OrderStep(c, o)
    \/ \E f \in Fractions : RecordCommissionReversal(o, f)
    \/ ConfirmPayment(o)
    \/ StartService(o)

Spec == Init /\ [][Next]_vars

-----------------------------------------------------------------------------
(* Properties.                                                             *)

AuditEvent ==
  {Created}
  \cup [event : {"order.status_changed"}, from : OrderStatus, to : OrderStatus]
  \cup [event : {"order.cancelled"}, refunded : BOOLEAN]
  \cup [event : {"commission.settled"}, rate : Int, fee : Int, settlement : Int]
  \cup [event : {"commission.reversed"}, fraction : Int, fee : Int]

\* The type invariant of the order objects, the ledger and the audit trail.
TypeOK ==
  /\ status      \in [OrderIds -> OrderStatus \cup {"absent"}]
  /\ tenant_id   \in [OrderIds -> Tenants \cup {NoTenant}]
  /\ total       \in [OrderIds -> Int]
  /\ snapshot    \in [OrderIds -> Snapshot \cup {NoSnapshot}]
  /\ history     \in [OrderIds -> Seq(OrderStateChange)]
  /\ ledger      \in [OrderIds -> Seq(LedgerEntry)]
  /\ audit       \in [OrderIds -> Seq(AuditEvent)]
  /\ refundCalls \in [OrderIds -> Nat]

\* Whoever calls transition_to, the recorded history of an order is a path of
\* the state machine of order_lifecycle.py from draft to the current status.
HistoryIsPath ==
  \A o \in OrderIds :
    IF status[o] = "absent" THEN history[o] = <<>> ELSE IsPath(history[o], status[o])

\* Where the audit trail of an order has an event of these names, and where its
\* history has a change made by this caller.
Logged(o, names) == {i \in 1..Len(audit[o]) : audit[o][i].event \in names}
ChangedBy(o, who) == {i \in 1..Len(history[o]) : history[o][i].by = who}

\* The position of i among the members of K: 1 for the first.
Rank(K, i) == Cardinality({j \in K : j <= i})

\* Event e of the audit trail tells of change c of the history.
TellsOf(e, c) == e.from = c.from /\ e.to = c.to

\* order_service.py's claim of auditing: the audit trail invents no status change,
\* tells none twice and keeps their order, and every change that transition()
\* made is told, whoever else changes the shared object in between.
AuditMatchesHistory ==
  \A o \in OrderIds :
    LET changes == 1..Len(history[o])
        logged  == Logged(o, {"order.status_changed"})
    IN  /\ \A j \in logged : \E i \in changes : TellsOf(audit[o][j], history[o][i])
        /\ \A i \in ChangedBy(o, "service") :
             \E j \in logged : TellsOf(audit[o][j], history[o][i])
        /\ \A j, k \in logged, i, l \in changes :
             /\ j < k
             /\ TellsOf(audit[o][j], history[o][i])
             /\ TellsOf(audit[o][k], history[o][l])
             => i < l

\* An order is settled at most once and only when completed: its first ledger
\* entry is the settlement its snapshot records, to its tenant, for its amount and
\* with a fee between nothing and everything; every later entry takes back no
\* more than that settlement paid, in each column.
SettlementIntegrity ==
  \A o \in OrderIds :
    /\ snapshot[o] = NoSnapshot <=> ledger[o] = <<>>
    /\ ledger[o] # <<>> =>
         LET paid == ledger[o][1]
         IN  /\ status[o] = "completed"
             /\ snapshot[o] = [rate |-> paid.rate, fee |-> paid.fee,
                               settlement |-> paid.settlement]
             /\ paid.tenant = tenant_id[o] /\ paid.gross = total[o] /\ Balanced(paid)
             /\ 0 <= paid.fee /\ 0 <= paid.settlement
             /\ \A i \in 2..Len(ledger[o]) :
                  LET back == ledger[o][i]
                  IN  /\ Balanced(back) /\ back.tenant = paid.tenant
                      /\ -paid.fee <= back.fee /\ back.fee <= 0
                      /\ -paid.settlement <= back.settlement /\ back.settlement <= 0

\* Under bound contexts (every API request) a completed order is settled exactly
\* when the amount and its OWN tenant's contract rate allow a split, and at that
\* rate; the tenant boundary of the repository is what makes this true.
SettledAtContractRate ==
  NoTenant \notin Contexts =>
    \A o \in OrderIds : status[o] = "completed" =>
      LET rate == TenantRate[tenant_id[o]]
      IN  IF Computable(total[o], rate)
          THEN snapshot[o] # NoSnapshot /\ snapshot[o].rate = rate
          ELSE snapshot[o] = NoSnapshot

\* The commission entries of the audit trail and the ledger tell the same story:
\* one audit entry per ledger entry, in the same order, with the same fee.
AuditMatchesLedger ==
  \A o \in OrderIds :
    LET logged == Logged(o, {"commission.settled", "commission.reversed"})
    IN  /\ Cardinality(logged) = Len(ledger[o])
        /\ \A j \in logged :
             LET i == Rank(logged, j)
             IN  /\ (audit[o][j].event = "commission.settled") <=> (i = 1)
                 /\ ledger[o][i].fee = IF i = 1 THEN audit[o][j].fee ELSE -audit[o][j].fee

\* The refund workflow runs at most once for an order, and money is never both
\* refunded by cancellation and settled to the tenant.
RefundAtMostOnce ==
  \A o \in OrderIds :
    /\ refundCalls[o] <= 1
    /\ refundCalls[o] > 0 => status[o] = "cancelled" /\ ledger[o] = <<>>

KeepsRecords(o) ==
  /\ SubSeq(ledger'[o], 1, Len(ledger[o])) = ledger[o]
  /\ SubSeq(audit'[o], 1, Len(audit[o])) = audit[o]
  /\ SubSeq(history'[o], 1, Len(history[o])) = history[o]
  /\ snapshot[o] # NoSnapshot => snapshot'[o] = snapshot[o]
  /\ status[o] \in {"completed", "cancelled"} => status'[o] = status[o]
  /\ status[o] # "absent" => /\ status'[o] # "absent"
                             /\ tenant_id'[o] = tenant_id[o]
                             /\ total'[o] = total[o]

\* What no step may do: rewrite or drop ledger, audit or history entries,
\* change a captured snapshot ("later changes ... must not alter historical
\* settlements"), move an order out of a terminal status, or move it to
\* another tenant or price.
RecordsAreFinal == [][\A o \in OrderIds : KeepsRecords(o)]_vars

\* The order service implements the contract of OrderContract.
Phase(s) ==
  CASE s = "absent" -> "none"
    [] s \in CANCELLABLE_STATES -> "open"
    [] OTHER -> s

Contract ==
  INSTANCE OrderContract WITH
    phase       <- [o \in OrderIds |-> Phase(status[o])],
    amount      <- total,
    payout      <- snapshot,
    NoPayout    <- NoSnapshot,
    AgreedRates <- {TenantRate[t] : t \in Tenants} \cup {DefaultRate}

\* Every behaviour of the service, faulty settlements and unaudited fulfilment
\* steps included, is one the contract of OrderContract allows.
ImplementsContract == Contract!Spec

-----------------------------------------------------------------------------
(* What the documentation says and the code does not keep.                 *)

\* order_lifecycle.py: "Every state change produces an audit log entry"; those of
\* FulfillmentService, which changes the shared object itself, produce none.
EveryChangeIsAudited ==
  \A o \in OrderIds : \A i \in 1..Len(history[o]) :
    \E j \in Logged(o, {"order.status_changed"}) : TellsOf(audit[o][j], history[o][i])
=============================================================================
