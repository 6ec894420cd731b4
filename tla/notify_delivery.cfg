SPECIFICATION FairSpec
CONSTANTS
  NoProcess = NoProcess
  Row = {n1, k1}
  Keyed = {k1}
  Flaky = TRUE
  Process = {p1, p2}
  BatchSize = 2
  MaxAttempts = 2
INVARIANT
  NotificationsHonest
PROPERTY
  PendingIsSettled
