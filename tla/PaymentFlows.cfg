\* Two orders in every payment mode, mixed splits included; a lost answer, a
\* repeated call, declined cards, callers with and without keys.
SPECIFICATION FairSpec
CONSTANTS
  Orders = {o1, o2}
  Totals = {2}
  KeyedCallers = {TRUE, FALSE}
  Statuses = {"succeeded", "unlisted", "declined"}
  MaxIntents = 3
  MaxLost = 1
  MaxRepeats = 1
INVARIANTS
  MoneyMovesOnce
  TokensAreBacked
  
PROPERTY AcceptedIntentsAreAudited
CHECK_DEADLOCK FALSE
