\* Replays, lost answers, crashes inside a request and expiry of claims.
SPECIFICATION WebhookFairSpec
CONSTANTS
  succeeded = succeeded
  dispute = dispute
  Events = {succeeded, dispute}
  Ignored = {dispute}
  Tolerance = 2
  Retention = 3
  Skew = 1
  MaxTime = 8
  MaxCrashes = 1
INVARIANTS
  DispatchedOncePerRun
  AckedIsHandled
PROPERTY HandledUnlessStale
CHECK_DEADLOCK FALSE
