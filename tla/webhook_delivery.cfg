SPECIFICATION FairSpec
CONSTANTS
  d1 = d1
  d2 = d2
  s1 = s1
  NoProcess = NoProcess
  Row = {d1, d2}
  Process = {p1, p2}
  Subscription = {s1}
  SubscriptionOf <- OneSubscriber
  BatchSize = 2
  MaxAttempts = 2
INVARIANT
  DeliveryHonest
PROPERTIES
  OnlyActiveServed
  PendingIsSettled
