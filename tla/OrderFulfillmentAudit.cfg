\* Fulfilment steps between the requests of the API.
SPECIFICATION Spec
CONSTANTS
  Scale = 100
  OrderIds = {o1}
  parish = parish
  home = home
  cemetery = cemetery
  Tenants = {parish, home, cemetery}
  NoTenant = NoTenant
  Contexts = {parish, home, cemetery}
  TenantRate <- Rates
  DefaultRate = 10
  Amounts <- ApiAmounts
  Fractions = {50, 100}
  RefundOutcomes = {"unwired"}
  NoSnapshot = NoSnapshot
  MaxReversals = 1
INVARIANT EveryChangeIsAudited
CHECK_DEADLOCK FALSE
