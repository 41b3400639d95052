\* Two callers, on one event loop or in a thread each, either of which may write to
\* what it has logged; enough entries and alterations to rebuild a chain.
SPECIFICATION VerifierSpec
CONSTANTS
  Writers = {t1, t2}
  Mutators = {t1}
  Loops = {TRUE, FALSE}
  MaxEntries = 3
  MaxEdits = 3
INVARIANTS
  ChainIntact
  LinksPointBack
  ExactWithCheckpoint
  LocatesAlteration
  FalseAlarmHasACause
CHECK_DEADLOCK FALSE
