\* Two notifications, or one enqueued twice by a retrying caller; duplicated
\* tasks, late reports, a worker that dies.
SPECIFICATION FairSpec
CONSTANTS
  Ids = {"n1", "n2"}
  Workers = {w1, w2}
  MAX_DELIVERY_ATTEMPTS = 3
  MaxEnqueues = 2
  MaxDeaths = 1
INVARIANTS
  Accounted
  PolicyKept
PROPERTY Drained
CHECK_DEADLOCK FALSE
