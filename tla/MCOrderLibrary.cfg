\* The library wiring: a refund callback, batch callers without a tenant.
SPECIFICATION Spec
CONSTANTS
  Scale = 100
  OrderIds = {o1}
  parish = parish
  home = home
  cemetery = cemetery
  Tenants = {parish, home, cemetery}
  NoTenant = NoTenant
  Contexts = {parish, home, cemetery, NoTenant}
  TenantRate <- Rates
  DefaultRate = 10
  Amounts <- LibraryAmounts
  Fractions = {0, 25, 33, 50, 100, 101}
  RefundOutcomes = {"unwired", "ref", "empty", "raises"}
  NoSnapshot = NoSnapshot
  MaxReversals = 3
INVARIANTS
  HistoryIsPath
  SettlementIntegrity
  AuditMatchesLedger
  RefundAtMostOnce
  PartialReversalsStayWithinSettlement
PROPERTY ImplementsContract
CHECK_DEADLOCK FALSE
