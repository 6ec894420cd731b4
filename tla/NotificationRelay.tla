-------------------------- MODULE NotificationRelay -------------------------
(***************************************************************************)
(* In-app notifications: NotificationSchedulerService writes a row of      *)
(* notification_outbox in the caller's transaction, NotificationRelay-     *)
(* Service turns it into a row of in_app_notifications and, once its own   *)
(* transaction has committed, pushes it to the browser over Redis.         *)
(*                                                                         *)
(* The in-app row is inserted on a connection of its own, not in the       *)
(* relay's transaction: it survives a rollback, and the next attempt finds *)
(* it by source_event_id.                                                  *)
(***************************************************************************)
EXTENDS OutboxRelay

CONSTANTS
  Keyed,  \* rows with an idempotency key (a text such as request_approved:<id>)
  Flaky   \* whether statements of a dispatch may fail for no lasting reason

ASSUME NotificationAssumption == Keyed \subseteq Row /\ Flaky \in BOOLEAN

VARIABLES
  signal,  \* a wake message that Redis has not delivered yet
  open,    \* rows inserted by a transaction that has not committed
  stored,  \* in_app_notifications, by outbox row
  muted,   \* rows the recipient's preferences suppressed
  tasks,   \* post-commit tasks a run has collected
  pushed   \* notifications pushed to the browser

feed  == <<stored, muted, pushed>>
vars  == <<rvars, signal, open, stored, muted, tasks, pushed>>

Init ==
  /\ RelayInit
  /\ signal = [p \in Process |-> FALSE]
  /\ open   = {}
  /\ stored = {}
  /\ muted  = {}
  /\ tasks  = [p \in Process |-> {}]
  /\ pushed = {}

-----------------------------------------------------------------------------
(* The producer.                                                           *)

\* schedule(): the INSERT, and a wake signal that does not wait for COMMIT.
\* Redis may be down or not configured: then no signal is sent.
Schedule(r) ==
  /\ status[r] = "absent" /\ r \notin open
  /\ open' = open \cup {r}
  /\ signal' \in {signal, [p \in Process |-> TRUE]}
  /\ UNCHANGED <<rvars, feed, tasks>>

\* Mutant: the transaction's row is inserted once more.
CommitCallerTwice(r) ==
  /\ r \in open
  /\ Insert(r)
  /\ UNCHANGED <<signal, open, feed, tasks>>

CommitCaller(r) ==
  /\ r \in open
  /\ open' = open \ {r}
  /\ Insert(r)
  /\ UNCHANGED <<signal, feed, tasks>>

-----------------------------------------------------------------------------
(* The relay.                                                              *)

Tick(p) == Call(p) /\ UNCHANGED <<signal, open, feed, tasks>>

Woken(p) ==
  /\ signal[p]
  /\ signal' = [signal EXCEPT ![p] = FALSE]
  /\ Call(p)
  /\ UNCHANGED <<open, feed, tasks>>

TickImmediate(p) == CallImmediate(p) /\ UNCHANGED <<signal, open, feed, tasks>>

FetchBatch(p) == Fetch(p, Row) /\ UNCHANGED <<signal, open, feed, tasks>>

\* isInAppEnabled says no: the row counts as dispatched.
Suppress(p, r) ==
  /\ Processed(p, r, "sent")
  /\ muted' = muted \cup {r}
  /\ UNCHANGED <<signal, open, stored, pushed, tasks>>

\* Mutant: the insert is not awaited (and is lost).
DispatchNotAwaited(p, r) ==
  /\ r \notin Keyed
  /\ Processed(p, r, "sent")
  /\ UNCHANGED <<signal, open, feed, tasks>>

\* send(): insert unless a row with this source_event_id exists; only a new
\* row yields a post-commit task.
Dispatch(p, r) ==
  /\ r \notin Keyed
  /\ Processed(p, r, "sent")
  /\ stored' = stored \cup {r}
  /\ tasks'  = [tasks EXCEPT ![p] = @ \cup ({r} \ stored)]
  /\ UNCHANGED <<signal, open, muted, pushed>>

\* source_event_id is a UUID column and the relay looks a keyed row up by its
\* key: PostgreSQL rejects that query every time.  Any other row can only fail
\* on a database error, before or after the in-app row was inserted.
DispatchFails(p, r) ==
  /\ r \in Keyed \/ Flaky
  /\ Processed(p, r, "error")
  /\ \/ UNCHANGED stored
     \/ r \notin Keyed /\ stored' = stored \cup {r}
  /\ UNCHANGED <<signal, open, muted, pushed, tasks>>

\* Mutant: tasks are run although the transaction did not commit.
RollbackPushes(p) ==
  /\ Rollback(p)
  /\ pushed' = pushed \cup tasks[p]
  /\ tasks' = [tasks EXCEPT ![p] = {}]
  /\ UNCHANGED <<signal, open, stored, muted>>

RollbackBatch(p) ==
  /\ Rollback(p)
  /\ tasks' = [tasks EXCEPT ![p] = {}]
  /\ UNCHANGED <<signal, open, feed>>

CrashProcess(p) ==
  /\ Crash(p)
  /\ tasks' = [tasks EXCEPT ![p] = {}]
  /\ UNCHANGED <<signal, open, feed>>

\* COMMIT, then the post-commit tasks: PUBLISH to the user's channel.
CommitBatch(p) ==
  /\ Commit(p, Row)
  /\ pushed' = pushed \cup tasks[p]
  /\ tasks'  = [tasks EXCEPT ![p] = {}]
  /\ UNCHANGED <<signal, open, stored, muted>>

\* The same, but the process dies or Redis fails before the tasks have run.
CommitUnpushed(p) ==
  /\ tasks[p] # {}
  /\ Commit(p, Row)
  /\ tasks' = [tasks EXCEPT ![p] = {}]
  /\ UNCHANGED <<signal, open, feed>>

-----------------------------------------------------------------------------
ProcessNext(p) ==
  \/ Tick(p) \/ Woken(p) \/ TickImmediate(p) \/ FetchBatch(p)
  \/ CommitBatch(p) \/ CommitUnpushed(p) \/ RollbackBatch(p) \/ CrashProcess(p)
  \/ \E r \in Row : Suppress(p, r) \/ Dispatch(p, r) \/ DispatchFails(p, r)

Next ==
  \/ \E p \in Process : ProcessNext(p)
  \/ \E r \in Row : Schedule(r) \/ CommitCaller(r)

Spec == Init /\ [][Next]_vars

\* A started run goes on, and Redis delivers the signals it accepted.
LoopFairness ==
  \A p \in Process :
    /\ WF_vars(Woken(p))
    /\ WF_vars(TickImmediate(p) \/ FetchBatch(p) \/ CommitBatch(p) \/ CommitUnpushed(p))
    /\ \A r \in Row :
         WF_vars(Suppress(p, r) \/ Dispatch(p, r) \/ DispatchFails(p, r))

\* Rollbacks and crashes undo a run that has not read its batch yet or has
\* rows in hand (without rows a rollback changes no more than a COMMIT does);
\* some day they stop.
FaultsEnd ==
  <>[][\A p \in Process :
         pc[p] = "fetch" \/ (\E r \in Row : owner[r] = p)
           => ~RollbackBatch(p) /\ ~CrashProcess(p)]_vars

\* The cron timer ticks every five seconds in every process.
CronFairness == \A p \in Process : WF_vars(pc[p] = "idle" /\ Tick(p))

FairSpec == Spec /\ LoopFairness /\ CronFairness /\ FaultsEnd

-----------------------------------------------------------------------------
(* Properties.                                                             *)

\* The relay's state is well formed; a task is for a row being processed.
TypeOK ==
  /\ RelayTypeOK
  /\ signal \in [Process -> BOOLEAN]
  /\ open \subseteq {r \in Row : status[r] = "absent"}
  /\ tasks \in [Process -> SUBSET Row]
  /\ stored \cup muted \cup pushed \subseteq Row

\* A dispatched row has its in-app notification, unless the recipient opted
\* out; a given-up one has used its attempts.
DispatchedIsStored ==
  \A r \in Row :
    /\ status[r] = "sent" => r \in stored \cup muted
    /\ status[r] = "failed" => attempts[r] = MaxAttempts

\* "Post-commit tasks run AFTER the transaction commits so downstream
\* consumers never receive an event before the DB write is durable": a pushed
\* notification is stored and its outbox row is dispatched for good.
PushIsDurable == \A r \in pushed : r \in stored /\ status[r] = "sent"

\* What the outbox shows is what happened: a row is dispatched with its
\* notification and once only, and a push follows the commit
\* (notification-relay.service.ts over abstract-outbox-relay.ts).
NotificationsHonest == TypeOK /\ DispatchedIsStored /\ PushIsDurable

\* The cron as catch-all: a committed row is dispatched or given up.
PendingIsSettled ==
  \A r \in Row : status[r] = "pending" ~> status[r] \in {"sent", "failed"}
=============================================================================
