------------------------- MODULE ComplianceFindings -------------------------
(***************************************************************************)
(* Compliance findings: the device sync that follows Intune's delta feed   *)
(* (GraphSyncService), the shadow-IT scan of detected applications against *)
(* the software catalogue (ShadowItDetectionService), and the officers who *)
(* acknowledge and resolve what they find (ComplianceService).             *)
(*                                                                         *)
(* Every API process schedules the crons itself and keeps its delta link   *)
(* in memory; a finding is looked for and then inserted, with no index to  *)
(* keep two of them apart.  Nothing keeps two runs of one process apart    *)
(* either: a scan is started by the cron and by any POST shadow-it/scan,   *)
(* and a sync that outlasts its interval overlaps the next.  A device      *)
(* stands for one page of the feed.                                        *)
(***************************************************************************)
EXTENDS Naturals, FiniteSets

CONSTANTS
  Device,
  App,
  Replica,      \* API processes
  SyncRun,      \* device syncs that can be under way at the same time
  ScanRun,      \* shadow-it scans that can be, of the cron or by request
  HostOf,       \* the process each of them runs in
  Officer,      \* requests in flight that acknowledge or resolve
  MaxFinding,   \* bound: findings
  Reports,      \* bound: the issues Intune may report of a device
  MaxEvents     \* bound: changes of devices and of the catalogue, officers'
                \* requests, failing Graph calls and restarts altogether

Issue     == {"noncompliant", "unencrypted"}
FindingId == 1..MaxFinding
Nothing   == [status |-> "none"]

ASSUME FindingAssumption ==
  /\ Reports \subseteq SUBSET Issue
  /\ MaxFinding \in Nat /\ MaxEvents \in Nat
  /\ IsFiniteSet(SyncRun) /\ IsFiniteSet(ScanRun) /\ SyncRun \cap ScanRun = {}
  /\ HostOf \in [SyncRun \cup ScanRun -> Replica]

VARIABLES
  device,     \* Intune: what is wrong with each device
  feed,       \* per process: the devices the next delta query reports
  job,        \* per sync or scan: where it is
  white,      \* software_catalog: the whitelisted applications
  finding,    \* compliance_findings
  ruling,     \* what each officer's request has read
  events,     \* counted against MaxEvents
  overruled   \* history: requests whose finding changed since they read it

findingVars ==
  <<device, feed, job, white, finding, ruling, events, overruled>>

Run   == SyncRun \cup ScanRun
Ready == [pc |-> "idle"]

\* The source key: device and sorted issues, or the application.
Source == [of: Device, issues: SUBSET Issue] \cup [of: App]

Finding == [status: {"open", "acknowledged", "resolved"}, source: Source]

\* A sync has devices to go through and collects those that change meanwhile: the
\* delta link it will be given reports them next time.
SyncType ==
  {Ready}
    \cup [pc: {"sync"}, later: SUBSET Device, todo: SUBSET Device]
    \cup [pc: {"raise"}, later: SUBSET Device, todo: SUBSET Device, source: Source]

ScanType ==
  {Ready}
    \cup [pc: {"scan"}, todo: SUBSET App, catalog: SUBSET App]
    \cup [pc: {"flag"}, todo: SUBSET App, catalog: SUBSET App, source: Source]

RulingType == {Ready} \cup [pc: {"acknowledge", "resolve"}, id: FindingId]

IsFinding(i)  == finding[i] # Nothing
RowsFor(s)    == {i \in FindingId : IsFinding(i) /\ finding[i].source = s}
OpenFor(s)    == {i \in RowsFor(s) : finding[i].status = "open"}

\* source is varchar(60): the key of a device with both issues does not fit.
Fits(s) == "issues" \notin DOMAIN s \/ Cardinality(s.issues) < 2

FindingsInit ==
  /\ device = [d \in Device |-> {}]
  /\ feed = [p \in Replica |-> Device]
  /\ job = [j \in Run |-> Ready]
  /\ white = {}
  /\ finding = [i \in FindingId |-> Nothing]
  /\ ruling = [o \in Officer |-> Ready]
  /\ events = 0
  /\ overruled = {}

-----------------------------------------------------------------------------
Event == events < MaxEvents /\ events' = events + 1

\* Intune's side.
DeviceChanges(d) ==
  /\ Event
  /\ \E r \in Reports \ {device[d]} : device' = [device EXCEPT ![d] = r]
  /\ feed' = [p \in Replica |-> feed[p] \cup {d}]
  /\ job' = [j \in Run |-> IF job[j].pc \in {"sync", "raise"}
                            THEN [job[j] EXCEPT !.later = @ \cup {d}] ELSE job[j]]
  /\ UNCHANGED <<white, finding, ruling, overruled>>

\* The catalogue is abstracted to its whitelisted applications: one that is not
\* in it, under review or blacklisted differs in its finding's severity only.
WriteSoftware(listed) ==
  /\ Event
  /\ white' = listed
  /\ UNCHANGED <<device, feed, job, finding, ruling, overruled>>

\* addSoftware: a name that has no entry yet
AddSoftware(a) == a \notin white /\ WriteSoftware(white \cup {a})

\* updateSoftware: the listing of an entry changes
UpdateSoftware(a) ==
  \/ a \notin white /\ WriteSoftware(white \cup {a})
  \/ a \in white /\ WriteSoftware(white \ {a})

-----------------------------------------------------------------------------
\* A run's bookkeeping leaves the officers and the environment alone.
JobStep(j, k) ==
  /\ job' = [job EXCEPT ![j] = k]
  /\ UNCHANGED <<device, white, ruling, overruled>>

\* syncDevices: from the delta link of the process, or from the start without one
SyncBegin(y) ==
  /\ job[y] = Ready /\ feed[HostOf[y]] # {}
  /\ JobStep(y, [pc |-> "sync", later |-> {}, todo |-> feed[HostOf[y]]])
  /\ UNCHANGED <<feed, finding, events>>

\* Mutant: only open findings count as known.
SyncDeviceOpenOnly(y, d) ==
  LET s    == [of |-> d, issues |-> device[d]]
      rest == job[y].todo \ {d}
  IN /\ job[y].pc = "sync" /\ d \in job[y].todo
     /\ JobStep(y, IF device[d] = {} \/ OpenFor(s) # {}
                   THEN [job[y] EXCEPT !.todo = rest]
                   ELSE [pc |-> "raise", later |-> job[y].later, todo |-> rest, source |-> s])
     /\ UNCHANGED <<feed, finding, events>>

\* processDeviceBatch: a device without issues, or with a finding of the same
\* source in any status, is passed over
SyncDevice(y, d) ==
  LET s    == [of |-> d, issues |-> device[d]]
      rest == job[y].todo \ {d}
  IN /\ job[y].pc = "sync" /\ d \in job[y].todo
     /\ JobStep(y, IF device[d] = {} \/ RowsFor(s) # {}
                   THEN [job[y] EXCEPT !.todo = rest]
                   ELSE [pc |-> "raise", later |-> job[y].later, todo |-> rest, source |-> s])
     /\ UNCHANGED <<feed, finding, events>>

\* A new id; which one makes no difference.
InsertFinding(s) ==
  \E i \in FindingId :
    /\ \A k \in FindingId : IsFinding(k) <=> k < i
    /\ finding' = [finding EXCEPT ![i] = [status |-> "open", source |-> s]]

\* processDeviceBatch: the INSERT
SyncInsert(y) ==
  /\ job[y].pc = "raise" /\ Fits(job[y].source)
  /\ InsertFinding(job[y].source)
  /\ JobStep(y, [pc |-> "sync", later |-> job[y].later, todo |-> job[y].todo])
  /\ UNCHANGED <<feed, events>>

\* The key does not fit its column: the whole sync fails, and the delta link
\* stays what it was.
SyncTooLong(y) ==
  /\ job[y].pc = "raise" /\ ~Fits(job[y].source)
  /\ JobStep(y, Ready)
  /\ UNCHANGED <<feed, finding, events>>

\* Mutant: the link is taken over although the sync failed.
SyncFailsForward(y) ==
  /\ job[y].pc \in {"sync", "raise"}
  /\ Event
  /\ JobStep(y, Ready)
  /\ feed' = [feed EXCEPT ![HostOf[y]] = job[y].later]
  /\ UNCHANGED finding

SyncFails(y) ==
  /\ job[y].pc \in {"sync", "raise"}
  /\ Event
  /\ JobStep(y, Ready)
  /\ UNCHANGED <<feed, finding>>

\* The last page carries the new delta link.
SyncEnd(y) ==
  /\ job[y].pc = "sync" /\ job[y].todo = {}
  /\ JobStep(y, Ready)
  /\ feed' = [feed EXCEPT ![HostOf[y]] = job[y].later]
  /\ UNCHANGED <<finding, events>>

\* A restart forgets the link and whatever was running.
Restart(p) ==
  /\ Event
  /\ feed' = [feed EXCEPT ![p] = Device]
  /\ job' = [j \in Run |-> IF HostOf[j] = p THEN Ready ELSE job[j]]
  /\ UNCHANGED <<device, white, finding, ruling, overruled>>

-----------------------------------------------------------------------------
\* detectShadowIt, by the cron or by request: the catalogue is loaded once for
\* the whole scan
ScanBegin(n) ==
  /\ job[n] = Ready
  /\ JobStep(n, [pc |-> "scan", todo |-> App, catalog |-> white])
  /\ UNCHANGED <<feed, finding, events>>

\* Mutant: a known application is flagged again.
ScanAppUnchecked(n, a) ==
  LET rest == job[n].todo \ {a}
  IN /\ job[n].pc = "scan" /\ a \in job[n].todo
     /\ JobStep(n, IF a \in job[n].catalog
                   THEN [job[n] EXCEPT !.todo = rest]
                   ELSE [pc |-> "flag", todo |-> rest, catalog |-> job[n].catalog,
                         source |-> [of |-> a]])
     /\ UNCHANGED <<feed, finding, events>>

\* processBatch: whitelisted applications, and those with an open finding, are
\* passed over; an acknowledged one is flagged again
ScanApp(n, a) ==
  LET rest == job[n].todo \ {a}
  IN /\ job[n].pc = "scan" /\ a \in job[n].todo
     /\ JobStep(n, IF a \in job[n].catalog \/ OpenFor([of |-> a]) # {}
                   THEN [job[n] EXCEPT !.todo = rest]
                   ELSE [pc |-> "flag", todo |-> rest, catalog |-> job[n].catalog,
                         source |-> [of |-> a]])
     /\ UNCHANGED <<feed, finding, events>>

ScanInsert(n) ==
  /\ job[n].pc = "flag"
  /\ InsertFinding(job[n].source)
  /\ JobStep(n, [pc |-> "scan", todo |-> job[n].todo, catalog |-> job[n].catalog])
  /\ UNCHANGED <<feed, events>>

\* Done, or a Graph call failed: what was inserted stays.
ScanEnd(n) ==
  /\ job[n].pc = "scan"
  /\ IF job[n].todo = {} THEN UNCHANGED events ELSE Event
  /\ JobStep(n, Ready)
  /\ UNCHANGED <<feed, finding>>

-----------------------------------------------------------------------------
RuleRead(o, pc, i) ==
  /\ ruling[o] = Ready
  /\ Event
  /\ ruling' = [ruling EXCEPT ![o] = [pc |-> pc, id |-> i]]
  /\ UNCHANGED <<device, feed, job, white, finding, overruled>>

\* Mutant: a resolved finding may be acknowledged.
AcknowledgeReadAny(o, i) ==
  IsFinding(i) /\ RuleRead(o, "acknowledge", i)

\* acknowledgeFinding: getFinding and its check
AcknowledgeRead(o, i) ==
  finding[i].status = "open" /\ RuleRead(o, "acknowledge", i)

\* resolveFinding: getFinding and its check
ResolveRead(o, i) ==
  IsFinding(i) /\ finding[i].status # "resolved" /\ RuleRead(o, "resolve", i)

\* Mutant: the status of the request goes into the column.
RuleWriteRaw(o) ==
  /\ ruling[o] # Ready
  /\ finding' = [finding EXCEPT ![ruling[o].id].status = ruling[o].pc]
  /\ ruling' = [ruling EXCEPT ![o] = Ready]
  /\ UNCHANGED <<device, feed, job, white, events, overruled>>

\* setFindingStatus: by id; an accepted risk counts as resolved
RuleWrite(o) ==
  /\ ruling[o] # Ready
  /\ LET i == ruling[o].id
     IN  /\ finding' = [finding EXCEPT ![i].status =
                          IF ruling[o].pc = "resolve" THEN "resolved" ELSE "acknowledged"]
         /\ overruled' = (overruled \cup {q \in Officer : ruling[q] # Ready /\ ruling[q].id = i}) \ {o}
  /\ ruling' = [ruling EXCEPT ![o] = Ready]
  /\ UNCHANGED <<device, feed, job, white, events>>

SyncGoesOn(y) ==
  \/ SyncBegin(y) \/ (\E d \in Device : SyncDevice(y, d))
  \/ SyncInsert(y) \/ SyncTooLong(y) \/ SyncEnd(y)

ScanGoesOn(n) == (\E a \in App : ScanApp(n, a)) \/ ScanInsert(n) \/ ScanEnd(n)

FindingsNext ==
  \/ \E d \in Device : DeviceChanges(d)
  \/ \E a \in App : AddSoftware(a) \/ UpdateSoftware(a)
  \/ \E y \in SyncRun : SyncGoesOn(y) \/ SyncFails(y)
  \/ \E n \in ScanRun : ScanBegin(n) \/ ScanGoesOn(n)
  \/ \E p \in Replica : Restart(p)
  \/ \E o \in Officer, i \in FindingId : AcknowledgeRead(o, i) \/ ResolveRead(o, i)
  \/ \E o \in Officer : RuleWrite(o)

FindingsSpec == FindingsInit /\ [][FindingsNext]_findingVars

\* The cron keeps starting syncs, and what runs goes on.
FindingsFairness ==
  /\ \A y \in SyncRun : WF_findingVars(SyncGoesOn(y))
  /\ \A n \in ScanRun : WF_findingVars(ScanGoesOn(n))

-----------------------------------------------------------------------------
\* The shapes of the tables, the jobs and the requests (compliance.ts).
FindingsTypeOK ==
  /\ device \in [Device -> SUBSET Issue]
  /\ feed \in [Replica -> SUBSET Device]
  /\ \A y \in SyncRun : job[y] \in SyncType
  /\ \A n \in ScanRun : job[n] \in ScanType
  /\ white \subseteq App
  /\ finding \in [FindingId -> Finding \cup {Nothing}]
  /\ ruling \in [Officer -> RulingType]
  /\ overruled \subseteq Officer

\* A device and its issues are recorded once for every sync that looked before
\* the first of them inserted, so never more often than syncs are under way at one
\* time, and never again: not after a restart, a failed sync or a resolution
\* (graph-sync.service.ts:112-129).
DeviceRecordedOnce ==
  \A d \in Device, r \in SUBSET Issue :
    Cardinality(RowsFor([of |-> d, issues |-> r])) <= Cardinality(SyncRun)

\* An application has at most as many open findings as scans are under way at
\* one time, in one process or in several (shadow-it-detection.service.ts:115-137).
AppFlaggedOnce ==
  \A a \in App : Cardinality(OpenFor([of |-> a])) <= Cardinality(ScanRun)

\* No run repeats a finding it could have seen, of a device or of an application:
\* one that runs alone finds each thing once, however long the series.
FindingsOnce == DeviceRecordedOnce /\ AppFlaggedOnce

\* A resolved finding is reopened only by a request that read it before it was
\* resolved (compliance.service.ts:105-113, 129-136).
ResolutionStands ==
  [][\A i \in FindingId :
       finding[i].status = "resolved" /\ finding'[i].status # "resolved" =>
         \E o \in overruled : ruling[o] # Ready /\ ruling[o].id = i]_findingVars

\* While every source key fits its column, a device whose issues last is
\* recorded in the end, whatever fails on the way: the delta link moves on only
\* after a complete sync (graph-sync.service.ts:82-95).
IssueIsRecorded ==
  (\A d \in Device : [](Cardinality(device[d]) < 2)) =>
    \A d \in Device, r \in SUBSET Issue \ {{}} :
      <>[](device[d] = r) => <>(RowsFor([of |-> d, issues |-> r]) # {})
=============================================================================
