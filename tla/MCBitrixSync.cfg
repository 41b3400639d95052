SPECIFICATION Spec
CONSTANTS
  parish = parish
  home = home
  o1 = o1
  o2 = o2
  o3 = o3
  o4 = o4
  Tenants = {parish, home}
  Repository <- MCRepository
  OwnerOf <- MCOwnerOf
  FreeText <- MCFreeText
  Blocked = {o2}
  NoDeal = NoDeal
  Lags = {0, 1}
  MaxTime = 2
  MaxChanges <- MCMaxChanges
  MaxFailures = 1
INVARIANTS
  NothingMissed
PROPERTIES
  OnlyScrubbedCrosses
  MirrorCatchesUp
