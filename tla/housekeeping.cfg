SPECIFICATION Spec
CONSTANTS
  File = {f1, f2}
  Photo = {}
  Avatar = {}
  Document = {x1}
  NoFile = nofile
  Sizes = {"right", "wrong"}
  ConfirmCall = {c1}
  Sweeper = {w1}
  MaxConfirms = 2
  MaxFaults = 1
  Device = {d1}
  App = {}
  Replica = {p1}
  SyncRun = {y1, y2}
  ScanRun = {}
  HostOf <- MCHostOf
  p1 = p1
  y1 = y1
  y2 = y2
  Officer = {o1}
  MaxFinding = 5
  Reports <- MCReports
  MaxEvents = 3
  Syncer = {p1, p2}
  MaxDay = 3
  MaxShots = 2
  MaxLosses = 2
  Ticket = {r1, r2, r3}
  Poison = {r3}
  Batch = 2
  MaxSlips = 1
INVARIANT
  BaselineSound
PROPERTIES
  OrphansAreSwept
  IssueIsRecorded
  BaselineComesBack
  BatchesGetThrough
CHECK_DEADLOCK FALSE
