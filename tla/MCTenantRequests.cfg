\* The API: requests under the tenant the middleware binds, no refund callback.
SPECIFICATION RequestSpec
CONSTANTS
  Scale = 100
  OrderIds = {o1, o2}
  parish = parish
  home = home
  cemetery = cemetery
  saintmary = saintmary
  rest = rest
  Tenants = {parish, home, cemetery}
  NoTenant = NoTenant
  Contexts = {parish, home, cemetery}
  TenantRate <- Rates
  DefaultRate = 10
  Amounts = {13}
  Fractions = {100}
  RefundOutcomes = {"unwired"}
  NoSnapshot = NoSnapshot
  MaxReversals = 1
  Requests = {q1, q2}
  Slugs = {saintmary, rest}
  NoSlug = NoSlug
  Candidates <- Offered
  Unknown = Unknown
SYMMETRY Symmetry
INVARIANTS
  RequestTypeOK
  AuditMatchesHistory
  SettledAtContractRate
  ReconciliationAddsUp
  ContextIsCurrent
PROPERTIES
  RecordsAreFinal
  OnlyAddressedTenant
  ImplementsOrderService
CHECK_DEADLOCK FALSE
