\* Two tenants and two revisions, with and without a loader; one refused
\* statement, one death of the process, one rollback.
SPECIFICATION OnboardingSpec
CONSTANTS
  Tenants = {parish, home}
  NoSchema = NoSchema
  LastRevision = 2
  Statements = 2
  HasDown = {1, 2}
  Loaders = {TRUE, FALSE}
  Rerunnable = {1, 2}
  MaxFailures = 1
  MaxRestarts = 1
  MaxDowngrades = 1
  MaxRecords = 1
  Slugs = {s1}
  NoSlug = NoSlug
INVARIANTS
  RecordsTellTheTruth
  ReturnMeansDone
  AnnouncedIsComplete
PROPERTIES
  Isolated
  MigrationCompletes
