\* One statement of one tenant's migration fails.
SPECIFICATION Spec
CONSTANTS
  Tenants = {parish, home}
  NoSchema = NoSchema
  LastRevision = 2
  Statements = 2
  HasDown = {1, 2}
  Loaders = {TRUE}
  Rerunnable = {1, 2}
  MaxFailures = 1
  MaxRestarts = 0
  MaxDowngrades = 0
  MaxRecords = 2
INVARIANT FailureIsContained
