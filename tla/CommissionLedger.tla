--------------------------- MODULE CommissionLedger ---------------------------
(***************************************************************************)
(* The tenant-scoped queries of commissions/commission_ledger.py over the  *)
(* entries OrderService appends, and what daily reconciliation relies on.  *)
(***************************************************************************)
EXTENDS OrderService, FiniteSetsExt

ASSUME LedgerAssumption == IsFiniteSet(OrderIds) /\ IsFiniteSet(Tenants)

\* Positions <<order, index>> of the ledger entries.
Positions == UNION {{<<o, i>> : i \in 1..Len(ledger[o])} : o \in OrderIds}
EntryAt(p) == ledger[p[1]][p[2]]

entries_for_tenant(t) == {p \in Positions : EntryAt(p).tenant = t}

\* Variant: the tenant filter is forgotten.
UnfilteredTotals(t) == Positions

\* `... if tenant_id else self._entries`: no tenant means every entry.
EntriesInScope(t) == IF t = NoTenant THEN Positions ELSE entries_for_tenant(t)

daily_reconciliation_balance(t) ==
  LET S == EntriesInScope(t)
  IN  [gross      |-> SumFunction([p \in S |-> EntryAt(p).gross]),
       fee        |-> SumFunction([p \in S |-> EntryAt(p).fee]),
       settlement |-> SumFunction([p \in S |-> EntryAt(p).settlement])]

platform_fee_total(t) == daily_reconciliation_balance(t).fee

-----------------------------------------------------------------------------
\* Daily reconciliation adds up: every tenant's view balances, and the views of
\* the tenants together are the whole ledger (no entry is in two views, and,
\* when every operation runs under a bound tenant, none is in no view).
ReconciliationAddsUp ==
  /\ \A t \in Tenants \cup {NoTenant} : Balanced(daily_reconciliation_balance(t))
  /\ NoTenant \notin Contexts =>
       platform_fee_total(NoTenant) =
         SumFunction([t \in Tenants |-> platform_fee_total(t)])

Reversals(o) == Logged(o, {"commission.reversed"})
Asked(o) == SumFunction([i \in Reversals(o) |-> audit[o][i].fraction])

Net(o, field) == SumFunction([i \in 1..Len(ledger[o]) |-> ledger[o][i][field]])

\* Partial reversals whose fractions add up to at most the whole never take back
\* more gross or fee than was settled.  The tenant's column is the difference of
\* two roundings, so it may be overdrawn, by less than one cent per reversal; a
\* single reversal of the whole brings every column back to zero.
PartialReversalsStayWithinSettlement ==
  \A o \in OrderIds :
    LET n == Cardinality(Reversals(o))
    IN  Asked(o) <= Scale =>
          /\ Net(o, "gross") >= 0 /\ Net(o, "fee") >= 0
          /\ n > 0 => Net(o, "settlement") > -n
          /\ n = 1 /\ Asked(o) = Scale =>
               Net(o, "gross") = 0 /\ Net(o, "fee") = 0 /\ Net(o, "settlement") = 0
=============================================================================
