SPECIFICATION Spec
CONSTANTS
  Asset = {a1}
  Staff = {s1, s2}
  Nobody = nobody
  AssetCall = {c1, c2}
  MaxAssetOps = 6
  Licence = {l1}
  Holder = {h1, h2}
  Seat = {1, 2, 3, 4}
  Unlimited = unlimited
  Counts = {1, 2, unlimited}
  SeatCall = {c1, c2}
  MaxSeatOps = 6
  Sheet = {t1}
  SheetCall = {c1, c2}
  Hour = {1, 2}
  MaxSheetOps = 7
  File = {f1, f2}
  Photo = {x1}
  Avatar = {x2}
  Document = {}
  NoFile = nofile
  Sizes = {"right", "wrong"}
  ConfirmCall = {c1, c2}
  Sweeper = {w1}
  MaxConfirms = 2
  MaxFaults = 1
  Device = {d1}
  App = {app1}
  Replica = {p1, p2}
  SyncRun = {y1, y2}
  ScanRun = {n1, n2}
  HostOf <- MCHostOf
  p1 = p1
  p2 = p2
  y1 = y1
  y2 = y2
  n1 = n1
  n2 = n2
  Officer = {o1, o2}
  MaxFinding = 5
  Reports <- MCReports
  MaxEvents = 4
  Spread = 1
  Window = 3
  Limit = 2
  Second = 2
  MaxTime = 7
  MaxTries = 5
  Attempt = {c1, c2}
  MaxAttempts = 4
  Stream = {s1, s2, s3}
  News = {m1, m2}
  Note = {n1, n2, n3}
  Topic = {"t"}
  Milli = 2
  PageSize = 1
  MaxTick = 3
  MaxChoices = 2
  Ticket = {1, 2, 3, 4}
  SortKey <- MCSortKey
  ListLimit = 1
INVARIANTS
  TypeOK
  AssetBooks
  SeatBooks
  FileBooks
  FindingsOnce
  LimiterKeepsWindow
  RepeatHasCause
  StreamsHeard
  ListsFaithful
PROPERTIES
  DecisionsLast
CHECK_DEADLOCK FALSE
