SPECIFICATION FairSpec
CONSTANTS
  Event = {e1, e2, e3}
  Worker = {w1, w2}
  NoEvent = NoEvent
  BatchSize = 2
INVARIANTS
  PublishedWasSent
  CausalOrder
PROPERTY
  EventuallyPublished
CHECK_DEADLOCK FALSE
