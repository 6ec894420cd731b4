---------------------- MODULE NotificationRelayProofs -----------------------
(***************************************************************************)
(* Proofs about in-app notifications, for any number of outbox rows and    *)
(* API processes, on top of what OutboxRelayProofs shows of the polling    *)
(* loop.                                                                   *)
(***************************************************************************)
EXTENDS NotificationRelay, OutboxRelayProofs

\* The variables of the notification part have their types, and a row of an open
\* caller's transaction is not in the table.
FeedInv ==
  /\ signal \in [Process -> BOOLEAN]
  /\ open \subseteq {r \in Row : status[r] = "absent"}
  /\ tasks \in [Process -> SUBSET Row]
  /\ stored \cup muted \cup pushed \subseteq Row

\* What a run is about to commit is already true: a row it will mark sent has its
\* notification or was suppressed, and a task it collected is for such a row
\* (notification-relay.service.ts:101-140, abstract-outbox-relay.ts:113-142).
WorkInv ==
  \A p \in Process, r \in Row :
    /\ result[p][r] = "sent" => r \in stored \cup muted
    /\ r \in tasks[p] => result[p][r] = "sent" /\ r \in stored

NotifyInv == RelayInv /\ FeedInv /\ DispatchedIsStored /\ WorkInv /\ PushIsDurable

LEMMA InitNotify == Init => NotifyInv
<1> SUFFICES ASSUME Init
             PROVE  NotifyInv
  OBVIOUS
<1>1. RelayInv
  BY InitRelay DEF Init
<1>2. FeedInv
  BY DEF Init, FeedInv
<1>3. DispatchedIsStored
  BY DEF Init, RelayInit, DispatchedIsStored
<1>4. WorkInv /\ PushIsDurable
  BY DEF Init, RelayInit, NoResult, WorkInv, PushIsDurable
<1> QED
  BY <1>1, <1>2, <1>3, <1>4 DEF NotifyInv

\* schedule() changes nothing the relay can see; the wake signal goes out before
\* the caller's transaction commits.
LEMMA ScheduleNotify ==
  ASSUME NotifyInv, NEW r \in Row, Schedule(r)
  PROVE  NotifyInv'
<1>1. /\ status[r] = "absent" /\ open' = open \cup {r}
      /\ signal' \in {signal, [p \in Process |-> TRUE]}
      /\ UNCHANGED <<rvars, stored, muted, pushed, tasks>>
  BY DEF Schedule, feed
<1>2. RelayInv' /\ UNCHANGED <<status, attempts, result>>
  BY <1>1, IdleRelay DEF NotifyInv, rvars
<1>3. signal' \in [Process -> BOOLEAN]
  BY <1>1 DEF NotifyInv, FeedInv
<1>4. FeedInv'
  BY <1>1, <1>2, <1>3 DEF NotifyInv, FeedInv
<1> QED
  BY <1>1, <1>2, <1>4 DEF NotifyInv, DispatchedIsStored, WorkInv, PushIsDurable

\* The caller's COMMIT makes a new row visible, which no run can have touched.
LEMMA CallerNotify ==
  ASSUME NotifyInv, NEW r \in Row, CommitCaller(r)
  PROVE  NotifyInv'
<1>1. /\ Insert(r) /\ status[r] = "absent" /\ open' = open \ {r}
      /\ status' = [status EXCEPT ![r] = "pending"]
      /\ UNCHANGED <<attempts, result, signal, stored, muted, pushed, tasks>>
  BY DEF CommitCaller, Insert, loop, feed
<1>2. RelayInv'
  BY <1>1, InsertRelay DEF NotifyInv
<1>3. FeedInv'
  BY <1>1 DEF NotifyInv, FeedInv, RelayInv, RelayTypeOK
<1>4. DispatchedIsStored' /\ PushIsDurable'
  BY <1>1 DEF NotifyInv, FeedInv, RelayInv, RelayTypeOK, DispatchedIsStored, PushIsDurable
<1> QED
  BY <1>1, <1>2, <1>3, <1>4 DEF NotifyInv, WorkInv

\* Starting a run and reading its batch change neither rows nor notifications.
LEMMA QuietNotify ==
  ASSUME NotifyInv, NEW p \in Process,
         Tick(p) \/ Woken(p) \/ TickImmediate(p) \/ FetchBatch(p)
  PROVE  NotifyInv'
<1>1. UNCHANGED <<status, attempts, result, open, stored, muted, pushed, tasks>>
  BY DEF Tick, Woken, TickImmediate, FetchBatch, Call, CallImmediate, Fetch, table, feed
<1>2. RelayInv'
  BY CallRelay, FetchRelay DEF NotifyInv, Tick, Woken, TickImmediate, FetchBatch
<1>3. signal' \in [Process -> BOOLEAN]
  BY DEF NotifyInv, FeedInv, Tick, Woken, TickImmediate, FetchBatch
<1> QED
  BY <1>1, <1>2, <1>3 DEF NotifyInv, FeedInv, DispatchedIsStored, WorkInv, PushIsDurable

\* A processed row that is to be marked sent was suppressed or stored; a task is
\* collected only for a notification this run has inserted.
LEMMA DispatchNotify ==
  ASSUME NotifyInv, NEW p \in Process, NEW r \in Row,
         Suppress(p, r) \/ Dispatch(p, r) \/ DispatchFails(p, r)
  PROVE  NotifyInv'
<1>1. PICK res \in {"sent", "error"} :
        /\ Processed(p, r, res)
        /\ res = "sent" => r \in stored' \cup muted'
        /\ \/ tasks' = tasks
           \/ /\ res = "sent" /\ r \in stored'
              /\ tasks' = [tasks EXCEPT ![p] = @ \cup ({r} \ stored)]
  BY DEF Suppress, Dispatch, DispatchFails
<1>2. /\ UNCHANGED <<status, attempts, signal, open, pushed>>
      /\ stored' \in {stored, stored \cup {r}} /\ muted' \in {muted, muted \cup {r}}
  BY DEF Suppress, Dispatch, DispatchFails, Processed, table
<1>3. RelayInv' /\ Records(p, r, res)
  BY <1>1, ProcessedRelay DEF NotifyInv
<1>4. result[p][r] = "none"
  BY <1>1 DEF Processed, NotifyInv, RelayInv, LockInv
<1>5. FeedInv'
  <2>1. tasks' \in [Process -> SUBSET Row]
    BY <1>1 DEF NotifyInv, FeedInv
  <2> QED
    BY <1>2, <2>1 DEF NotifyInv, FeedInv
<1>6. DispatchedIsStored' /\ PushIsDurable'
  BY <1>2 DEF NotifyInv, DispatchedIsStored, PushIsDurable
<1>7. ASSUME NEW q \in Process, NEW x \in Row
      PROVE  /\ result'[q][x] = "sent" => x \in stored' \cup muted'
             /\ x \in tasks'[q] => result'[q][x] = "sent" /\ x \in stored'
  <2>1. result'[q][x] = IF q = p /\ x = r THEN res ELSE result[q][x]
    BY <1>3 DEF Records
  <2>2. \/ x \in tasks'[q] => x \in tasks[q]
        \/ q = p /\ x = r /\ res = "sent" /\ r \in stored'
    BY <1>1 DEF NotifyInv, FeedInv
  <2>3. x \in tasks[q] => ~(q = p /\ x = r)
    BY <1>4 DEF NotifyInv, WorkInv
  <2>4. /\ result[q][x] = "sent" => x \in stored \cup muted
        /\ x \in tasks[q] => result[q][x] = "sent" /\ x \in stored
    BY DEF NotifyInv, WorkInv
  <2> QED
    BY <1>1, <1>2, <2>1, <2>2, <2>3, <2>4
<1>8. WorkInv'
  BY <1>7 DEF WorkInv
<1> QED
  BY <1>3, <1>5, <1>6, <1>8 DEF NotifyInv

\* A COMMIT marks sent the rows that have their notification; the tasks that run
\* after it push rows that are marked sent for good, because a row that is not
\* pending is never locked again.
LEMMA CommitNotify ==
  ASSUME NotifyInv, NEW p \in Process, CommitBatch(p) \/ CommitUnpushed(p)
  PROVE  NotifyInv'
<1>1. /\ Commit(p, Row) /\ tasks' = [tasks EXCEPT ![p] = {}]
      /\ pushed' \in {pushed, pushed \cup tasks[p]}
      /\ UNCHANGED <<signal, open, stored, muted>>
  BY DEF CommitBatch, CommitUnpushed, feed
<1>2. /\ RelayInv' /\ Ends(p)
      /\ \A r \in Row :
           /\ result[p][r] = "none" => status'[r] = status[r] /\ attempts'[r] = attempts[r]
           /\ result[p][r] = "sent" => status'[r] = "sent" /\ attempts'[r] = attempts[r]
           /\ result[p][r] = "error" =>
                /\ attempts'[r] = attempts[r] + 1 /\ status'[r] \in {"pending", "failed"}
                /\ status'[r] = "failed" => attempts'[r] = MaxAttempts
  BY <1>1, CommitRelay DEF NotifyInv
<1>3. \A q \in Process, x \in Row :
        result'[q][x] = IF q = p THEN "none" ELSE result[q][x]
  BY <1>2, EndsLocks DEF NotifyInv
<1>4. \A r \in Row : /\ result[p][r] \in {"none", "sent", "error"}
                     /\ result[p][r] # "none" => status[r] = "pending"
  BY OutboxAssumption DEF NotifyInv, RelayInv, RelayTypeOK, LockInv
<1>5. FeedInv'
  BY <1>1, <1>2, <1>4 DEF NotifyInv, FeedInv
<1>6. DispatchedIsStored'
  BY <1>1, <1>2, <1>4 DEF NotifyInv, DispatchedIsStored, WorkInv
<1>7. WorkInv'
  BY <1>1, <1>3 DEF NotifyInv, FeedInv, WorkInv
<1>8. PushIsDurable'
  <2> SUFFICES ASSUME NEW r \in pushed'
               PROVE  r \in stored /\ status'[r] = "sent"
    BY <1>1 DEF PushIsDurable
  <2>1. CASE r \in pushed
    <3>1. r \in Row /\ r \in stored /\ status[r] = "sent"
      BY <2>1 DEF NotifyInv, FeedInv, PushIsDurable
    <3> QED
      BY <1>2, <1>4, <3>1
  <2>2. CASE r \in tasks[p]
    <3>1. r \in Row /\ result[p][r] = "sent" /\ r \in stored
      BY <2>2 DEF NotifyInv, FeedInv, WorkInv
    <3> QED
      BY <1>2, <3>1
  <2> QED
    BY <1>1, <2>1, <2>2
<1> QED
  BY <1>2, <1>5, <1>6, <1>7, <1>8 DEF NotifyInv

\* A rollback or a crash drops the tasks of the run with its results.
LEMMA UndoneNotify ==
  ASSUME NotifyInv, NEW p \in Process, RollbackBatch(p) \/ CrashProcess(p)
  PROVE  NotifyInv'
<1>1. /\ Rollback(p) \/ Crash(p)
      /\ tasks' = [tasks EXCEPT ![p] = {}]
      /\ UNCHANGED <<signal, open, stored, muted, pushed>>
  BY DEF RollbackBatch, CrashProcess, feed
<1>2. RelayInv' /\ Ends(p) /\ UNCHANGED <<status, attempts>>
  BY <1>1, UndoneRelay DEF NotifyInv
<1>3. \A q \in Process, x \in Row :
        result'[q][x] = IF q = p THEN "none" ELSE result[q][x]
  BY <1>2, EndsLocks DEF NotifyInv
<1>4. FeedInv'
  BY <1>1, <1>2 DEF NotifyInv, FeedInv
<1>5. WorkInv'
  BY <1>1, <1>3 DEF NotifyInv, FeedInv, WorkInv
<1> QED
  BY <1>1, <1>2, <1>4, <1>5 DEF NotifyInv, DispatchedIsStored, PushIsDurable

LEMMA NextNotify == NotifyInv /\ [Next]_vars => NotifyInv'
<1> SUFFICES ASSUME NotifyInv, [Next]_vars
             PROVE  NotifyInv'
  OBVIOUS
<1>1. CASE UNCHANGED vars
  <2>1. UNCHANGED <<rvars, signal, open, stored, muted, tasks, pushed>>
    BY <1>1 DEF vars
  <2>2. RelayInv' /\ UNCHANGED <<status, attempts, result>>
    BY <2>1, IdleRelay DEF NotifyInv, rvars
  <2> QED
    BY <2>1, <2>2 DEF NotifyInv, FeedInv, DispatchedIsStored, WorkInv, PushIsDurable
<1>2. CASE \E p \in Process : ProcessNext(p)
  BY <1>2, QuietNotify, DispatchNotify, CommitNotify, UndoneNotify DEF ProcessNext
<1>3. CASE \E r \in Row : Schedule(r) \/ CommitCaller(r)
  BY <1>3, ScheduleNotify, CallerNotify
<1> QED
  BY <1>1, <1>2, <1>3 DEF Next

\* A notification marked dispatched is in the recipient's inbox or was opted out
\* of, one marked failed has used up maxAttempts, and the browser is told only of
\* rows that are committed and stay so, whatever fails in between
\* (notification-relay.service.ts over abstract-outbox-relay.ts:103-152).
THEOREM NotificationsHonestAlways == Spec => []NotificationsHonest
<1>1. NotifyInv => NotificationsHonest
  BY DEF NotifyInv, NotificationsHonest, TypeOK, RelayInv, FeedInv
<1> QED
  BY InitNotify, NextNotify, <1>1, PTL DEF Spec
=============================================================================
