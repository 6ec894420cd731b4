# OpsHub API: TLA+ models, checks and proofs

OpsHub is an internal operations platform: employees request access, leave,
overtime, onboarding, offboarding and catalogue items; approvers, some of them
through delegations, decide; the system grants, revokes, notifies and reports.
The API (`apps/api`) and the worker (`apps/worker`) are NestJS processes over one
PostgreSQL database (READ COMMITTED) and an optional Redis. This directory holds
the TLA+ development that goes with that code: modules translated from the source,
TLC runs on small instances, and TLAPS proofs for every value of the constants.
`PROJECT.json` maps each definition to the lines it stands for.

## 1. Inventory

### Components, state, operations

| Component | State | Operations | Model |
|---|---|---|---|
| Request engine (`libs/platform/src/requests`) | `request_items`, `request_approvals`, the domain row of the type | `submit`, `approve`, `reject`, `cancel`, `expire`, `findExpired`, `list`, `addComment` | `RequestEngine`, `PagedList` |
| Type definitions (`*.type-def.ts`) | chain of steps, permissions, hooks | `onApprove`, `onStepApproved`, `onReject`, `onExpire`, `afterApprove` | `RequestTypes` |
| Delegations (`platform/authz`) | `approval_delegations` | create, revoke, window opens and closes | `RequestEngine` |
| Request expiry cron (`apps/worker`) | the fetched ids | scan, expire one by one | `RequestEngine` |
| Domain events (`platform/outbox`, worker relay) | `outbox_events`, an SQS queue | enqueue in the caller's transaction, poll, send, mark | `EventRelay` |
| Outbox relay base class | row status, attempts, due time, locks, loop flags | `relay`: lock a batch, process, record, commit | `OutboxRelay` |
| Webhooks | `webhook_subscriptions`, `webhook_deliveries` | fan-out, deliver, back off, (de)activate, delete, retry | `WebhookRelay` |
| Notifications | `notification_outbox`, `in_app_notifications`, `notification_preferences`, Redis channels | schedule, wake, dispatch, push; opt out, list, mark as read | `NotificationRelay`, `NotificationInbox` |
| Email | `email_outbox` | relay only; nothing schedules an email | shares `OutboxRelay` |
| Sessions (`identity`, `platform/auth`) | `refresh_tokens`, access tokens, Redis deny keys | login, refresh, logout, JWT check | `AuthSessions` |
| Employee status | `employees.status`, deny key | `updateStatus`, offboarding request | `AuthSessions`; what the request deletes is in `DomainRequests`, `AssetRegister`, `PermissionCache` |
| Permissions and roles (`authz`) | roles, assignments, permission cache, role claims | resolve, assign, revoke, sync from Entra, edit roles | `PermissionCache` |
| Access requests | `access_requests`, `access_grants` | three-write `submit`, `approve`, `reject`, legacy path, `revokeGrant` | `DomainRequests` |
| Workforce | `leave_requests`, `overtime_entries`, `timesheets`, `shift_logs` | create, review, `cancelLeave`, on- and offboarding submissions; timesheets handed in and reviewed | `DomainRequests`, `Timesheets` |
| Assets | `assets`, `asset_assignments`, outbox events | create, assign, unassign, retire, return by offboarding | `AssetRegister` |
| Licences | `software_licenses`, `license_assignments` | create, update, delete, assign, revoke | `LicenceSeats` |
| File storage | `stored_files`, S3, the storage key columns | presign, upload, confirm, link, hourly purge | `FileStore` |
| Compliance | `software_catalog`, `compliance_findings`, delta link in memory | device sync, shadow-IT scan, acknowledge, resolve | `ComplianceFindings` |
| Security posture | `secure_score_snapshots`, `baseline_checks` | daily and manual sync | `SecurityPosture` |
| SLA breach cron, batch limits | `sla_breached_at`, the fetched batch | scan with LIMIT, one transaction per row | `RequestSweeps` |
| SSE streams (`notification-pubsub`) | handler sets, the shared Redis subscription | connect, subscribe, push, close | `LiveStream` |
| Idempotency interceptor | cached answers | look up, run, store | `Idempotency` |
| Rate limiter | a sorted set per bucket | trim, admit, refuse | `RateLimit` |
| Service catalogue | `catalog_items` | `submitRequest`; item editing not modelled | `DomainRequests` (submission) |
| Audit, reports, AI, plumbing | | inserts, aggregation, provider calls | not modelled |

### How the components interact

A domain service writes its row and submits to the engine. The engine decides in a
transaction that also writes the approval, runs the type's hook, enqueues a domain
event (`OutboxService`), a notification (`NotificationSchedulerService`) and, through
the fan-out, webhook deliveries. Three pollers take these further: the worker's
relay hands events to SQS; the relays of the API processes, which compete for rows
with `FOR UPDATE SKIP LOCKED`, store and push notifications and POST webhooks. A
Redis signal wakes the notification relay early; the timer is the safety net. Crons
in the worker expire requests, mark SLA breaches and purge files. Approving an
offboarding request and `EmployeeService.updateStatus` both end an employee's
sessions.

### What is hard here

* Every engine operation loads the row, checks it and only then opens the
  transaction, whose UPDATE names the row by id alone: decisions interleave on stale
  reads.
* `created_at` is the time at which a transaction started, so the outbox is not
  read in commit order; sends, marks and answers can be lost separately.
* A relay transaction spans a batch whose side effects cannot be rolled back.
* Refresh rotation, offboarding and re-activation are sequences of statements on two
  stores without a transaction.
* Role administration writes assignments, claims and a cache one after the other,
  while resolvers read the tables and fill that cache in two steps.
* A submission is three commits, and a row without its request's id is decided
  without the engine; the engine's hooks overwrite domain rows by id.
* Assets, licences, timesheets and findings are checked in one statement and written
  in another; some side effects (events, S3 deletes) follow in a third.
* Crons run in every process, keep state in memory and take limited batches.
* Timers retry what failed; something must guarantee that they get there.

`PROJECT.json` lists the hazards with their lines and the properties aimed at them.

## 2. Modules

```
RequestTypes ── RequestEngine ──── RequestEngineProofs (MCRequestEngine)
                   │  refines (any number of calls)
RequestLifecycle ──┘
EventRelay ─────── EventRelayProofs
OutboxRelay ────── OutboxRelayProofs
  ├─ WebhookRelay ─────── WebhookRelayProofs      (MCWebhookRelay)
  └─ NotificationRelay ── NotificationRelayProofs
AuthSessions ───── AuthSessionsProofs             (MCAuthSessions)
PermissionCache ── PermissionCacheProofs          (MCPermissionCache)
RequestTypes ───── DomainRequests ─┐              (MCDomainRequests)
AssetRegister, LicenceSeats,       │
Timesheets, FileStore,             │
ComplianceFindings, RateLimit,     ├── ServiceProofs
Idempotency, LiveStream,           │
NotificationInbox, PagedList ──────┤              (MCServices)
SecurityPosture ───────────────────┘
FileStore, ComplianceFindings,
SecurityPosture, RequestSweeps                    (MCHousekeeping)
```

**RequestTypes** is the data the engine reads from the registered type definitions:
chain length, permission per step, and what each hook writes to the domain row.

**RequestEngine** has the tables as functions of the request id (`status`,
`currentStep`, `resolved`, `approvals`, `domain`, `grants`), the outbox rows of
each request in the order in which the relay reads them, the scheduled notifications,
the active delegations and the calls in flight. A call is a record of what its local
variables hold. `LoadForDecision` and `LoadForCancel` are the read and its checks,
`Authorize` the delegation, separation-of-duties and permission checks. `Begin` opens
the transaction: it fixes the `created_at` its outbox row will have and so appends a
place for that row, which nobody sees before the commit. `ApproveStep`, `ApproveFinal`,
`Reject`, `Cancel` and `Expire` are the commits, which work on the step the call READ
and on whatever the row holds by then, and fill the place; `crossed` is history and
says that an earlier transaction on the request was still open then. `Fail` ends a call
without effect, a denial, a rolled back transaction or a crash, and `RollBack` drops
its place. The cron is a call of its own (`SweepScan`, `SweepTake`, `Begin`, `Expire`,
`WorkerRestart`).

**RequestLifecycle** is what the engine promises with any number of callers: each looks
at a request while it is open, remembers the step it saw, and decides at most once on
what it saw, wherever the request has got to by then. Only somebody who saw the last
step can approve. What a caller has looked at is `seen`; in the engine, the call.

**EventRelay** gives each event a `created` time when its transaction begins and
makes it visible when that commits. A worker's batch is the set of the oldest
visible unpublished rows; `Publish` and `Mark` handle its head, `AnswerLost` is a
send that arrived and whose answer did not, `StopRun` ends the run.

**OutboxRelay** is `AbstractOutboxRelay`: `Call` and `CallImmediate` are the guarded
entry, `Fetch` locks a batch, `Processed` collects one result, `Commit` writes them,
`Rollback` and `Crash` lose them. **WebhookRelay** adds subscriptions (whose rows the
join of the SELECT locks too), the subscriber's server and the administrator.
**NotificationRelay** adds the producer's transaction, the wake signal that is sent
before that transaction commits, the in-app table written on another connection, and
the post-commit tasks.

**AuthSessions** has the refresh tokens with their parents and families, the access
tokens alive, the two kinds of Redis deny keys, and one action per statement of
`login`, `refresh`, `logout` and `updateStatus`. `StatusSame` is `updateStatus` to the
status the employee has, which reports success and does nothing more. Any number of
status changes overlap, each may fail at any statement (`AdminFail`), and
`OffboardByRequest`, the database part of the offboarding hook, comes at any moment.
`unsettled` is history: the employees whose last status change was cut short, met
another one half done (`HalfDone`), or was an offboarding request; the next change that
meets nobody settles them. `contested` is the families in which two refreshes were
under way at once.

**PermissionCache** has the three tables of `db/schema/authz.ts`, the cache entry and the
role claims of each user, and the requests in flight. A request is resolved first
(`ResolveHit`, or `ResolveMiss` and `ResolveFill`), then acts: `AssignRead` reads the
role, the actor is resolved again, `AssignRow` inserts; `RevokeRead` and `RevokeRow`;
`SyncPlan`, `SyncGrant`, `SyncRevoke` for an Entra login; each followed by `ClaimsRead`,
`ClaimsWrite` and `Invalidate`. Role edits touch neither claims nor cache, and neither
does `Offboards`, the DELETE of all assignments of an employee by the approved offboarding
request. Any statement may fail (`CallFails`), assignments expire (`Lapse`), and so do
cache entries. A cache entry is the empty set or a singleton; its value is the set of keys
of the permission map. `origin`, `raced`, `staleCache` and `staleClaims` are history: what
was put into circulation other than by a grant, whose reads have been overtaken, and for
which users a lag is accounted for.

**DomainRequests** composes the domain services with what they see of the engine: the
domain row and the engine row of each id, the grants and which of them are revoked,
the employees offboarded. `LeaveCheck`/`LeaveInsert`, `OvertimeInsert`, `AccessInsert`
are followed by `EngineSubmit` and `Backlink`, and `DomainCallFails` may cut the call
short anywhere. `ReviewRead` chooses between the engine (`EngineLoad`) and the legacy
path; `InboxLoad` is the door that bypasses the domain service; `StepDecided` and
`RequestDecided` are the engine's transactions with the hook inside, written for the
row as it was read. Who may decide is `RequestEngine`'s subject and left out here.
`stale`, `legacy`, `withdrawn`, `blind` and `late` are history and name the causes by
which rows may part from their requests.

**AssetRegister**, **LicenceSeats** and **Timesheets** have one action per statement (or
transaction) of each service operation; a request in flight holds what it has read.
`behind`/`crossed`, `undercut` and `overwritten` record that a read had been overtaken.
`Offboard` is the asset part of the offboarding hook.

**FileStore** has the row, the S3 object and the linking column of each file. A
confirmation is `ConfirmPhoto`, `ConfirmAvatar` or `ConfirmLeaveDocument` followed by
the steps of `confirmUpload`, the look-up of the replaced file and the link. Times are
abstracted to three ages: the URL is valid, it is not, older than the purge's cutoff.

**ComplianceFindings** has Intune's devices, each process's feed since its delta link, the
device syncs and shadow-IT scans under way, each in its process (`HostOf`), and the
findings with their source key. Nothing keeps two of them apart, in one process or in
several: a scan is also started by request, and a sync may outlast its interval. In
**SecurityPosture** the state is the snapshot and the fetch, delete and insert of the
baseline, in **RequestSweeps** the two limited batches over requests, with a set `Poison`
of rows that fail every time.

**RateLimit** is the Lua script (`Trimmed`, `RequestAdmitted`, `RequestRefused`) with
scores that are Redis's clock plus an offset in `0..Spread`: only differences between
scores count, so `Spread` bounds both the skew of the processes and the delay of a
script. **Idempotency** is one key of one user. **LiveStream** is the handler registry
of one channel over a first-in-first-out connection to Redis, with the streams of one
user. A notification is stored (`NoticeStored`, and counted from then on) before the
relay's batch commits and publishes it (`NoticePushed`); `NoticeUnpushed` is a batch
that rolls back, a relay that dies, a PUBLISH that fails or one that falls into a
reconnection of the subscriber.

**NotificationInbox** has one employee's preferences and notifications and a client that
pages through them with the cursors it is given. `SendCheck` and `SendInsert` are what
the relay does for a row, reduced to the preference and the INSERT. The clock counts
ticks, `Milli` of them to the millisecond in which a cursor is expressed. **PagedList** is
the offset-paged inbox of requests: `RowsRead` and `CountRead` are the two statements
of `list`, and the client asks for the next page while it is told there is one. The
clients themselves are not in the repository; they follow the answers literally.

Naming: definitions whose comment begins with "Mutant" are deliberate faults. The
runs do not use them; substituting one for the definition it imitates must make the
property named in `PROJECT.json` fail.

## 3. Runs

| Run | Instance | Checks |
|---|---|---|
| `engine_concurrent` | one two-step access request, two API calls and the cron, one delegation to the requester, transactions that open and end in any order | `ChainApproved`, `OutcomeAnnounced`, `RowConsistent` |
| `engine_expiry` | a three-step onboarding and a single-step leave request, one API call beside the cron | `OverdueIsClosed`, `LifecycleSpec` (refinement) |
| `engine_never_expires` | the worker's registry as deployed (empty) | violates `OverdueIsClosed` |
| `events_relay` | three events, two workers, batches of two | `PublishedWasSent`, `CausalOrder`, `EventuallyPublished` |
| `webhook_delivery` | two deliveries, two processes, two attempts | `DeliveryHonest` (`TypeOK`, `StatusIsEarned`, `NoDuplicateWithoutFault`), `OnlyActiveServed`, `PendingIsSettled` |
| `notify_delivery` | a keyed and an unkeyed row, two processes, two attempts | `NotificationsHonest` (`TypeOK`, `DispatchedIsStored`, `PushIsDurable`), `PendingIsSettled` |
| `auth_rotation` | three sessions, two calls in flight, one administrator, failing status changes, offboarding requests | `ParentRevoked`, `FamilyIsSound` (`OneLivePerFamily`, `TheftEndsFamily`) |
| `auth_offboarding` | two sessions, two calls in flight, two administrators, failing status changes, offboarding requests | `OffboardedIsLockedOut`, `ActiveIsNotLocked` |
| `authz_cache` | two users, two roles and a new one, two requests in flight, two changes (offboarding requests among them) and any number of checks | `NoEscalation`, `CopiesInSync` (`CacheCoherent`, `ClaimsInSync`), `ReconcileExact`, `RevocationTakesEffect` |
| `domain_requests` | two requests of any type, two employees, two calls in flight, five operations | `RowsConsistent` (`DomainTypeOK`, `RowFollowsRequest`), `GrantsEnd` (`OneGrant`, `OffboardedLosesGrants`), `NoDoubleBooking`, `DecisionStands` |
| `services` | ten services, most with two requests in flight (three streams; two scans in one API process, two syncs in two; one client of each paged list) | `TypeOK` of all; assets: `AssetBooks` (`HolderHasRow`, `BooksMatchShelf`, `EventsTellState`); licences: `SeatBooks` (`OverbookingIsBounded`, `DuplicateSeatsBounded`, `NoOrphanSeats`); timesheets and findings: `DecisionsLast` (`VerdictStands`, `ResolutionStands`); files: `FileBooks` (`EarlyFilesKeepObject`, `LinkedIsCompleted`, `LeakHasCause`); findings: `FindingsOnce` (`DeviceRecordedOnce`, `AppFlaggedOnce`); edge: `LimiterKeepsWindow` (`BurstIsBounded`, `RetryAfterSuffices`), `RepeatHasCause`, `StreamsHeard` (`NothingMissed`, `SubscribedWhileHeard`, `DeafHasCause`); lists: `ListsFaithful` (`NoneTwice`, `NoneSkipped`, `OptOutHolds`, `SkipsHaveCause`, `RepeatsHaveCause`) |
| `housekeeping` | the timer-driven parts: purge, device sync (two in one process), posture sync (two at a time), two batch jobs over three requests of which one always fails | `BaselineSound` (`PostureTypeOK`, `BaselineIsOneCycle`), `OrphansAreSwept`, `IssueIsRecorded`, `BaselineComesBack`, `BatchesGetThrough` (`SweepsTypeOK`, `LateIsAnnounced`, `OverdueIsExpired`) |

A property followed by others in parentheses is their conjunction; each conjunct has a
mutant of its own that breaks it. Every invariant and action property of the runs is
also proved (section 4), except `SweepsTypeOK`; the properties with a `~>` are not.

### What they show

* **Decisions.** However decisions, cancellations and expiry interleave on stale
  reads, an approval and its effects (grant, approved domain row, event) exist only
  with an authorised approval on record for every step (`ChainApproved`). Who replays
  the events in `created_at` order ends in the row's status, or at an event that was
  committed while an earlier transaction on the request was open, and a decision that
  stands was notified (`OutcomeAnnounced`). The columns of the row agree with each
  other (`RowConsistent`). An overdue request is closed in the end (`OverdueIsClosed`),
  and the engine implements the abstract life cycle: every change is made by a call
  that read the request while it was open, once, and approves only from the last step.
  That a resolution is final is not among its promises (section 5).
* **Events.** Nothing is marked that was not sent, and an event whose transaction
  could see another one's row never reaches the queue before it, although rows
  appear behind ones already relayed and two workers send the same batch.
* **Deliveries.** A recorded result is earned, a duplicate has a cause, a
  deactivated subscriber gets nothing (because the join locks its row), and a row
  with attempts left is settled. A push to a browser is for a durable row.
* **Sessions.** A rotated session is revoked under every interleaving. A family has one
  live session and detected reuse ends it, unless two refreshes of it were ever under
  way at once. An employee whose offboarding was reported done has no accepted access
  token left, whatever calls were in flight, and a re-activated one is not denied, unless
  the last status change was cut short, overlapped another or came from an offboarding
  request.
* **Permissions.** Granting roles never creates permissions, although the check works
  on cached and earlier reads. The cache and the claims differ from the tables only
  after a role edit or deletion, an expiry, an approved offboarding request, a failed
  call or a race, and the TTL ends
  the cache's lag. An undisturbed sync leaves exactly the asserted global
  assignments, an expired one counting as present.
* **Domain rows.** However a submission is cut short and whichever door a decision
  comes through, the row tells what became of its request, a decision stands and a
  request gives one grant, except through a commit on a stale read, the legacy path or
  `cancelLeave`. What an offboarding revokes stays revoked; only a request that was
  still open can grant again.
* **Books.** An asset marked as assigned has its open assignment row under every
  interleaving, and without overlapping requests books and shelf agree exactly. With N
  requests in flight a licence is overbooked by fewer than N seats and one employee
  holds at most N. Verdicts and resolutions are overwritten by overtaken reads only.
* **Files.** The purge never takes the object of a file confirmed within a day, and
  everything unconfirmed is swept; objects leak after a size mismatch or a failed
  delete and not otherwise.
* **Copies of Graph.** A device's issues are recorded at most once for each sync that can
  be under way at one time, and an application has at most as many open findings as scans
  can be: a run that could have seen a finding does not repeat it. In the end an issue is
  always recorded, through failures and restarts, as long as source keys fit; the
  baseline is the result of one sync unless two overlapped, and comes back after a
  sync that stopped half way.
* **Edge.** In any stretch of a window less the clocks' spread at most `Limit` requests
  are admitted, and waiting for Retry-After suffices. A handler runs twice only for the
  reasons listed in `Idempotency`. When Redis has answered everything, a channel is
  subscribed exactly while it has a handler set, and a live stream knows of all that was
  pushed, except while it was subscribing. What is never pushed, the client must fetch.
* **Lists.** A client that follows the cursors of its notifications sees each one once,
  whatever arrives and is read meanwhile, except ones of the very millisecond in which a
  page ended. A walk by offsets misses no more rows than have left the list meanwhile
  and repeats no more than have joined it, provided no other row has the same sort key.
  After an opt-out only notifications already checked still arrive.
* **Batches.** Rows that fail every time cannot keep other rows from being announced
  or expired while there are fewer of them than a batch holds.

### What the properties do not cover

* Two transactions that begin in the same microsecond have the same `created_at`, and
  the relay then orders them as it likes; the models take the stamps as distinct.
* `ChainApproved` counts a self-approval through a delegation as signed, and checks a
  delegation at `Authorize`, as the code does: one that ends afterwards is not noticed.
* `OverdueIsClosed` holds with the types registered in the worker, which they are not
  (`engine_never_expires`); `OverdueIsExpired` of the batches holds while fewer rows
  fail every time than a batch takes, which for the same reason does not describe the
  worker as deployed, where every row fails.
* `DecisionStands` exempts commits on stale reads, legacy decisions and `cancelLeave`;
  `VerdictStands` and `ResolutionStands` exempt calls that read before the change. Those
  races are the code's, and the properties say that nothing else has their effect.
* The offboarding hook's transaction is one step in `DomainRequests`: what commits between
  its UPDATE of `access_grants` and its COMMIT counts as granted after it.
* One idempotency key used on two routes is not modelled; the key is one route's.
* `BaselineComesBack` takes Graph's list of controls as not empty; for an empty one the
  code inserts nothing (`graph-secure-score.service.ts:135`).
* The deny keys are in `AuthSessions`, the permission cache and the claims in
  `PermissionCache`: no property relates the two, although stale permissions of an
  offboarded employee only matter with an access token that is still accepted.

`MCServices` and `MCHousekeeping` put several modules into one run. The modules share no
variable and every property is a conjunction of properties of single modules, so a product
of their behaviours would show nothing that one of them does not have alone: each
behaviour of the run wakes one part, chosen in the initial state, and the states add up
instead of multiplying.

### Bounds

Requests, rows, sessions and calls are independent of one another except through the state
shown, so the smallest instance in which two actors meet on one row and a third intervenes
(the cron, the administrator, a second worker) exhibits each race. Chains have their real
length. Two attempts and batches of two exercise first, last and excess attempt, and a
batch that is full. `BatchSize`, `MaxAttempts`, `Session`, `ApiCall`, `SyncRun` and
`ScanRun` are the bounds; nothing else is cut off. In `authz_cache`, `MaxChanges` allows
two administrative or offboarding requests (a grant or sync and what overtakes it) among
any number of plain checks, `MaxRow` is as many assignments as these can add up to, and
`Edits`, `Grants`, `Wanted` and `Ops` list the inputs offered; they include a role that
carries the wildcard and one edited while it is being granted. `webhook_delivery` has one
subscriber, because the contention to look at is two processes and an administrator on one
subscription. Symmetry is used in the `auth_*` runs, in `engine_concurrent` and in
`domain_requests`, which have no liveness.

`MaxOps`, `MaxAssetOps`, `MaxSeatOps`, `MaxSheetOps`, `MaxConfirms`, `MaxEvents`,
`MaxTries` and `MaxAttempts` bound how many operations a behaviour has; each admits an
operation, one that overtakes it and what either leaves behind for a third. `MaxFaults`,
`MaxLosses` and `MaxSlips` bound failures. `Limit` = 2, `Window` = 3 and `Second` = 2 make
the window roll over twice within `MaxTime`, with whole seconds that do not divide the
window. `Batch` = 2 against three requests makes the LIMIT bite. Pages hold one row, so
that three notifications and four requests make several pages; `Milli` = 2 puts two
notifications into one millisecond, two requests share a sort key, and `MaxTick` and
`MaxChoices` bound the clock and the changes of the preferences. Leave documents are
confirmed in `housekeeping`, photos and avatars in `services`.

### Fairness

Users, administrators and producers owe nothing. The pollers are re-run by timers
for as long as their process lives: weak fairness of their steps. In the engine and
the event relay a failure or restart may undo progress that is tried again minutes
later, and strong fairness of the retried step says that it does not fail every
time. In the outbox relays, where a rollback undoes a whole batch, the assumption is
that rollbacks and crashes which lose work end some day (`FaultsEnd`). Both say no
more than that a database that is down for ever delivers nothing. In
`PermissionCache` a request in flight ends, if only by failing, and Redis drops an
entry whose TTL has passed. In `housekeeping` time passes, the timers fire and a job
that runs goes on (weak fairness, of every sync and scan by itself, since none waits for
another), with finitely many faults. No request of a user is fair.

## 4. Proofs

All theorems hold for any sets of requests, users, events, workers, sessions, rows and
calls, any chains, permissions, limits and batch sizes, under the named assumptions of
the modules, which only state what the constants are (the sets are finite where a
property counts them, the bounds are naturals). Each follows the same argument: a
property P is seldom inductive, because a request acts on what it read earlier and
nothing in the tables tells that this still holds; so an invariant adds, for every
request in flight, what its reads are still worth, or which history variable names the
event that made them worthless. One lemma starts it, one lemma per action or group of
actions keeps it, and it implies P.

**Requests.**

* `RequestEngineProofs`: `TypeCorrect`, `ChainApprovedAlways`, `RowConsistentAlways`,
  `OutcomeAnnouncedAlways`. `ChainApproved` is not inductive: an approval commits on a
  step read earlier, and nothing in the row says that the steps before it were approved.
  The invariant `ChainInv` adds that every step below the current one is signed
  (`StepsEarned`), that this was so for every step a call in flight has read
  (`ReadsEarned`; it stays so because approvals are never deleted), and that a cleared
  call passed the checks for the step it read (`ClearedChecked`). `AnnounceInv` is about
  the outbox in `created_at` order: behind the place of an open transaction every event
  is `crossed` (`Sound`), so that when that transaction commits in front of them, or goes
  away, the event read last is still the row's or known to be overtaken (`Announces`);
  and only a request that exists is called (`CallsOpen`).
  `EngineImplementsLifecycle`: every step of the engine, with any number of calls in
  flight, is a step of `RequestLifecycle` or a stutter.
* `ServiceProofs`, domain rows: `RowsConsistentAlways`, `NoDoubleBookingAlways`,
  `GrantsEndAlways`, `DecisionStandsAlways`. `DomainInv` adds per call what it has read
  and may rely on (`CallHolds`), and per item that a row and its request belong
  together (`Paired`), that the row tells what the request's status says (`Told`), that
  nothing is granted on a request that is still open (`GrantedOnce`), and that what an
  employee was granted is revoked once they are gone (`EndsWithJob`).

**Relays.**

* `EventRelayProofs`: `RelayTypeCorrect`, `PublishedWasSentAlways`,
  `CausalOrderAlways`. The invariant adds that a row visible to a transaction has an
  earlier `created` (`ClockOrder`), that an event being marked was sent, and that
  what precedes a row of a batch is sent or in the same batch (`BatchClosed`).
* `OutboxRelayProofs` proves of the shared polling loop, once for both subclasses, that
  a row in hand is locked by the process that has it and stays pending with an attempt
  left until that transaction ends (`LockInv`: what `FOR UPDATE SKIP LOCKED` buys).
  `WebhookRelayProofs`: `DeliveryHonestAlways`, `OnlyActiveServedAlways`. `WebhookInv`
  adds that a row accepted and still pending is about to be committed by the process
  that locked it or lost its result to a fault (`AcceptedInv`), and that the subscription
  of a locked row is active (`ServedInv`: the join locks both rows).
  `NotificationRelayProofs`: `NotificationsHonestAlways`. `NotifyInv` adds that what a
  run is about to commit, and what it will push afterwards, is already true (`WorkInv`).

**Identity.**

* `AuthSessionsProofs`: `SessionTypeCorrect`, `ParentRevokedAlways`,
  `OffboardedIsLockedOutAlways`, `ActiveIsNotLockedAlways`, `FamilyIsSoundAlways`, for any
  number of calls and of status changes that overlap and fail. The second and third rest,
  for employees who are not `unsettled`, on a change being alone between its UPDATE and
  its end and finding the status it wrote (`AdminConsistent`), on every way a token can
  still be minted being shut (`Shut`), and on a change that is about to clear the key of
  anybody who became active with one (`KeyIsCleared`). The last says of families that are
  not `contested` that at most one refresh is under way (`OneRefreshEach`) and that it
  holds the only live token between its steps (`RotationExclusive`).
* `PermissionCacheProofs`: `CacheTypeOKAlways`, `NoEscalationAlways`,
  `CopiesInSyncAlways`, `ReconcileExactAlways`. `IInv` adds what a grant in flight may
  rely on: the role it is about to insert has no permission beyond those it was checked
  for, except ones a role edit has put into `origin` since; roles a sync still has to
  grant are within `origin`; and no assignment or request refers to a role that is yet
  to be created. `SyncInv` adds that what a request has read of its user (the resolver's
  permissions, the roles it will write to the claims, the plan of a sync) is still so,
  unless somebody changed that user's assignments since (`raced`).

**Services** (all in `ServiceProofs`).

* `AssetBooksAlways`. `BooksInv` adds that an assignment or retirement in flight which
  nobody has overtaken still finds its asset in stock (`ReadsFresh`), so that the row it
  writes is the only open one, and that an asset yet to be created has neither holder
  nor event (`UnbornUntold`).
* `SeatBooksAlways`. `SeatsInv` counts, for every licence and every holder, the seats
  there are together with the requests about to insert one: by the time the last has
  counted, each of them has used up one of the requests in flight.
* `VerdictStandsAlways` (`SheetsInv`: the status a call read let it do what it is about
  to do) and `ResolutionStandsAlways`, and `DecisionsLastAlways` for both in
  `MCServices`.
* `FindingsOnceAlways`. `FindingsInv` counts the findings of a source together with the
  syncs or scans that found none and are about to insert it: at most as many as can be
  under way.
* `FileBooksAlways`. `FilesInv` adds what two confirmations of one file have seen
  (`SeenAlike`) and why an object may be gone or left behind.
* `BaselineSoundAlways`. `PostureInv` counts the syncs between DELETE and INSERT.
* `RepeatHasCauseAlways`. `RunsInv`: while there is no cause, a request that missed did
  so before the first run, and the answer of that run is stored or about to be.
* `LimiterKeepsWindowAlways`. `LimiterInv` says that every admission still inside the
  window has an entry of its own, with a score not before it (`Remembered`); the
  admissions of a window therefore inject into the entries, which are at most `Limit`.
  That needs the clocks to lie less than a window apart (`RateAssumption`).
* `StreamsHeardAlways`. `StreamsInv` says that the LAST command on the wire agrees with
  the handler registry, whatever has not been answered before it (`WireInv`), and that a
  stream still connecting knows all that was pushed but what is in its `gap` (`HeardInv`).
* `ListsFaithfulAlways`. For the inbox: what was shown lies at or above the cursor, what
  is still due below it (`Halfway`). For the paged lists: the rank of a due row that was
  not shown falls below the offset only when rows before it left, that of a shown row
  rises above it only when rows arrived (`Accounted`).
* `TypeOKAlways`: the types of all ten. The interceptor's is inductive only with the
  count `AttemptsCount` (runs and runs to come are at most the requests sent), the
  streams' with what each stream knows. The lemma `PartsStep` says that a step of
  `MCServices` is a step of each service or leaves it alone, so that the theorems on
  single services carry over.

Proving found four places where a module's assumptions or types said less than the
proofs need or more than is true: a posture with `MaxDay = 0` did not have its type,
`LiveStream` needed that no stream is named like an UNSUBSCRIBE, and `Idempotency` and
`NotificationInbox` that their sets are finite.

Only model-checked: everything about liveness (TLAPS has no rules for fairness and
`ENABLED`): `OverdueIsClosed`, `EventuallyPublished`, `PendingIsSettled` of both relays,
`RevocationTakesEffect`, `OrphansAreSwept`, `IssueIsRecorded`, `BaselineComesBack` and
`BatchesGetThrough`, whose one safety part, the types of `RequestSweeps`, is checked
with it.

## 5. Where the code and its words differ

With a run (`PROJECT.json`, findings): `engine_never_expires`: the worker registers no
type definition, so `expire` throws for every request.

Met while modelling, without a run of their own.

*Requests.* A stale decision overwrites a resolution, and two final approvals insert
two grants (`request-engine.service.ts:185`). Of two transactions that race on a request
the relay may read the events in the other order than they were committed in, so that a
consumer ends in another status than the row (`outbox-relay.service.ts:39`). A requester
with an incoming delegation is checked as the delegator and may approve their own request
(`request-engine.service.ts:143`); `ChainApproved` counts that as signed, and does not
look at a delegation that ends between the check and the commit.
An approved offboarding request deletes the employee's role assignments and follows up
neither claims nor cache (`offboarding.type-def.ts:72-74`), so that for as long as both
live they show roles that are gone.
`cancelLeave` leaves the engine's request open, so that a later approval revives the
leave, and it compares no owner. Access can be granted to an employee offboarded
meanwhile. A breach is announced for a request decided since the SELECT. The expiry of
a catalogue request is its item's `slaHours`. `myQueue` is said to list "requests
awaiting the caller's action" (`requests.controller.ts:92`) but matches `pending` only:
a request in review is in nobody's queue, since no caller sets an assignee.

*Notifications and streams.* The idempotency key is compared with a UUID column
(`notification-relay.service.ts:120`), so every keyed notification is given up. What
arrives between the unread count and the subscription reaches no stream, nor does a push
lost between the commit and the subscriber (`notification-relay.service.ts:126-135`), as
the controller tells its clients (`notification-sse.controller.ts:25-26`); a failed
SUBSCRIBE leaves its handler set behind, so that nobody subscribes again until the set
has been emptied; a client that closes before the close handler is registered leaks its
handler. A notification created in the millisecond in which a page ended, but after it
in the order, is skipped (`notification.drizzle-repository.ts:48`). Resetting a type's preference is
said to "re-enable both channels" (`notification-preferences.controller.ts:51`), but a
muting `*` row then applies; setting only the email channel of a type creates a row
whose in-app channel is on and overrides a muting `*`.

*Assets and files.* An offboarded employee's asset goes back in stock with `assigned_to`
still set ("null when in stock", `assets.ts:25`), and `assign` then refuses it. A
retirement's event is written after and outside its UPDATE. `StorageService.findById` is
called with a storage key where the id is a UUID, so replacing a photo, avatar or
document fails, `deleteAvatar` never clears the column (`employee.service.ts:183`) and
`deleteFile` is unreachable. A failed S3 delete is not retried by the next sweep
(`storage-cleanup.cron.ts:21`), nor does the purge come for the object of a size mismatch
(`storage.service.ts:165`).

*Compliance and posture.* The source key of a device with both issues has 68 characters
for a `varchar(60)` and makes the whole sync fail each time. A device finding that was
resolved is not raised again, and an acknowledged shadow-IT finding is raised again by
every scan until it is open. Two scans at once, the cron's and a requested one
(`compliance.controller.ts:221-226`) or those of two processes, both flag an application.
A day can have several Secure Score snapshots: `onConflictDoNothing` has no constraint to
conflict with (`graph-secure-score.service.ts:66`).

*Idempotency.* Concurrent duplicates both run; an answer without a body is never
replayed.

*Sessions, permissions and relays.* Two refreshes of one token both
succeed, since `findByHash` and `revokeById` are separate statements (such a family is
`contested` in the model); a resolver that read before a revocation fills the
cache after it, although the comment in `assignRole` says that enforcement is
immediate; re-granting a role whose assignment has expired returns the expired row
and grants nothing, and a sync takes that row for the role; `deleteRole` leaves the
role in the claims of its holders; the engine's `cancel` leaves the
domain row pending (no type definition has `onCancel`); the worker's event relay
takes no row locks although the schema's comment says it does; a retried delivery
that had used its attempts stays pending, since `retryDelivery` keeps `attempts`; a
notification whose first dispatch was rolled back is found as a duplicate and never
pushed; a refresh past its checks mints a session after reuse detection revoked the
family; an offboarding that fails after the status update is reported as done when
repeated; an approved offboarding request sets no deny key; an offboarding and a
re-activation that interleave leave an active employee denied.

## 6. Not modelled, and the plan

Left out for good: wording and layout of messages, signing and HTTP transport,
Microsoft Graph, SES and S3 beyond their answers, the AI provider, reports, audit
inserts, configuration and logging. Assignees are left out because no caller passes
one; comments, because nothing depends on them.

Also left out: creating webhook subscriptions, catalogue items and delegations' validation
and profile edits (single-row writes without a second actor to meet), and `afterApprove`
(its Graph calls leave nothing in the modelled state).

Next:

1. Theorems: `SweepsTypeOK`.
2. A common abstract specification of the check-then-write registers (assets,
   timesheets, findings) with any number of callers, in the manner of `RequestLifecycle`,
   refined by each of them.
