---------------------------- MODULE OutboxRelay -----------------------------
(***************************************************************************)
(* AbstractOutboxRelay: the polling loop that the notification, email and  *)
(* webhook relays inherit, run by several processes over one outbox table. *)
(*                                                                         *)
(* One run of relay() is a transaction that locks a batch (FOR UPDATE SKIP *)
(* LOCKED), processes its rows one after the other and records each result *)
(* in the transaction; side effects of processing are outside of it.  Rows *)
(* of a batch are processed in any order: nothing depends on it.  A row's  *)
(* attempts cannot change while it is locked, so the value read by the     *)
(* SELECT is the value of the row at commit.                               *)
(*                                                                         *)
(* The actions are parameterised by what a subclass supplies: the rows its *)
(* WHERE clause admits, and when a failed row is due again.                *)
(***************************************************************************)
EXTENDS Naturals, FiniteSets

CONSTANTS
  Row,          \* rows of the outbox table
  Process,      \* API processes running the relay
  NoProcess,    \* the row is not locked
  MaxAttempts,  \* maxAttempts
  BatchSize     \* batchSize

ASSUME OutboxAssumption ==
  /\ NoProcess \notin Process
  /\ MaxAttempts \in Nat \ {0}
  /\ BatchSize \in Nat \ {0}

VARIABLES
  status,    \* committed status ("absent" before the row exists)
  attempts,  \* committed attempts
  due,       \* scheduled_at / next_attempt_at is not in the future
  owner,     \* the process whose transaction holds the row lock
  pc,        \* idle; fetch and work: isRelaying
  wake,      \* wakeOnComplete
  immediate, \* a setImmediate callback is queued
  batch,     \* rows fetched and not processed yet
  result     \* what the open transaction will write for each row

table == <<status, attempts, due>>
loop  == <<pc, wake, immediate, batch, result>>
rvars == <<status, attempts, due, owner, pc, wake, immediate, batch, result>>

NoResult == [r \in Row |-> "none"]

RelayInit ==
  /\ status    = [r \in Row |-> "absent"]
  /\ attempts  = [r \in Row |-> 0]
  /\ due       = [r \in Row |-> FALSE]
  /\ owner     = [r \in Row |-> NoProcess]
  /\ pc        = [p \in Process |-> "idle"]
  /\ wake      = [p \in Process |-> FALSE]
  /\ immediate = [p \in Process |-> FALSE]
  /\ batch     = [p \in Process |-> {}]
  /\ result    = [p \in Process |-> NoResult]

-----------------------------------------------------------------------------
(* The table.                                                              *)

\* The producer's transaction commits; every caller schedules for now.
Insert(r) ==
  /\ status[r] = "absent"
  /\ status' = [status EXCEPT ![r] = "pending"]
  /\ due'    = [due EXCEPT ![r] = TRUE]
  /\ UNCHANGED <<attempts, owner, loop>>

\* The backoff of a failed attempt elapses.
ComesDue(r) ==
  /\ status[r] # "absent" /\ ~due[r]
  /\ due' = [due EXCEPT ![r] = TRUE]
  /\ UNCHANGED <<status, attempts, owner, loop>>

-----------------------------------------------------------------------------
(* relay().                                                                *)

\* Called by the cron timer or by a wake signal.
Call(p) ==
  /\ IF pc[p] = "idle"
       THEN pc' = [pc EXCEPT ![p] = "fetch"] /\ UNCHANGED wake
       ELSE wake' = [wake EXCEPT ![p] = TRUE] /\ UNCHANGED pc
  /\ UNCHANGED <<table, owner, immediate, batch, result>>

\* The callback that the finally block queued calls relay() too.
CallImmediate(p) ==
  /\ immediate[p]
  /\ immediate' = [immediate EXCEPT ![p] = FALSE]
  /\ IF pc[p] = "idle"
       THEN pc' = [pc EXCEPT ![p] = "fetch"] /\ UNCHANGED wake
       ELSE wake' = [wake EXCEPT ![p] = TRUE] /\ UNCHANGED pc
  /\ UNCHANGED <<table, owner, batch, result>>

\* Mutant: the WHERE clause does not look at attempts.
ReadyUnbounded == {r \in Row : status[r] = "pending" /\ due[r]}

\* The conditions all WHERE clauses have in common.
Ready == {r \in Row : status[r] = "pending" /\ attempts[r] < MaxAttempts /\ due[r]}

\* Mutant: the SELECT does not lock (and does not skip locked rows).
FetchUnlocked(p, admitted) ==
  /\ pc[p] = "fetch"
  /\ \E B \in SUBSET (Ready \cap admitted) :
       /\ B = Ready \cap admitted \/ Cardinality(B) = BatchSize
       /\ Cardinality(B) <= BatchSize
       /\ batch' = [batch EXCEPT ![p] = B]
  /\ pc' = [pc EXCEPT ![p] = "work"]
  /\ UNCHANGED <<table, owner, wake, immediate, result>>

\* fetchBatch: FOR UPDATE SKIP LOCKED, at most batchSize rows.
Fetch(p, admitted) ==
  LET free == {r \in Ready \cap admitted : owner[r] = NoProcess}
  IN  /\ pc[p] = "fetch"
      /\ \E B \in SUBSET free :
           /\ B = free \/ Cardinality(B) = BatchSize
           /\ Cardinality(B) <= BatchSize
           /\ batch' = [batch EXCEPT ![p] = B]
           /\ owner' = [r \in Row |-> IF r \in B THEN p ELSE owner[r]]
      /\ pc' = [pc EXCEPT ![p] = "work"]
      /\ UNCHANGED <<table, wake, immediate, result>>

\* processRow returned (markSent) or threw (markFailed).
Processed(p, r, res) ==
  /\ pc[p] = "work" /\ r \in batch[p]
  /\ batch'  = [batch EXCEPT ![p] = @ \ {r}]
  /\ result' = [result EXCEPT ![p][r] = res]
  /\ UNCHANGED <<table, owner, pc, wake, immediate>>

\* The finally block, once the transaction has ended one way or the other.
Finally(p) ==
  /\ pc'        = [pc EXCEPT ![p] = "idle"]
  /\ wake'      = [wake EXCEPT ![p] = FALSE]
  /\ immediate' = [immediate EXCEPT ![p] = @ \/ wake[p]]
  /\ batch'     = [batch EXCEPT ![p] = {}]
  /\ result'    = [result EXCEPT ![p] = NoResult]
  /\ owner'     = [r \in Row |-> IF owner[r] = p THEN NoProcess ELSE owner[r]]

\* Mutants: a row is given up one attempt too late; at its first failure.
NewStatusLate(n) == IF n > MaxAttempts THEN "failed" ELSE "pending"
NewStatusFirst(n) == IF n >= 1 THEN "failed" ELSE "pending"

NewStatus(n) == IF n >= MaxAttempts THEN "failed" ELSE "pending"

\* COMMIT: the batch is done and its results become visible.  dueAgain are
\* the rows a failed attempt leaves due (no backoff, or given up).
Commit(p, dueAgain) ==
  LET res == result[p]
  IN  /\ pc[p] = "work" /\ batch[p] = {}
      /\ status'   = [r \in Row |->
           IF res[r] = "sent" THEN "sent"
           ELSE IF res[r] = "error" THEN NewStatus(attempts[r] + 1)
           ELSE status[r]]
      /\ attempts' = [r \in Row |->
           IF res[r] = "error" THEN attempts[r] + 1 ELSE attempts[r]]
      /\ due'      = [r \in Row |->
           IF res[r] = "error" THEN r \in dueAgain ELSE due[r]]
      /\ Finally(p)

\* A statement of the transaction fails: markFailed fails too, because the
\* transaction is aborted, and relay() rejects after its finally block.
Rollback(p) ==
  /\ pc[p] # "idle"
  /\ Finally(p)
  /\ UNCHANGED table

\* The process dies and is started again.
Crash(p) ==
  /\ pc[p] # "idle"
  /\ pc'        = [pc EXCEPT ![p] = "idle"]
  /\ wake'      = [wake EXCEPT ![p] = FALSE]
  /\ immediate' = [immediate EXCEPT ![p] = FALSE]
  /\ batch'     = [batch EXCEPT ![p] = {}]
  /\ result'    = [result EXCEPT ![p] = NoResult]
  /\ owner'     = [r \in Row |-> IF owner[r] = p THEN NoProcess ELSE owner[r]]
  /\ UNCHANGED table

-----------------------------------------------------------------------------
(* Properties of the machinery, whatever the subclass does.                *)

\* Rows, locks and loop state are well formed; a process holds the locks of
\* the rows it has in hand and of those whose result it is about to commit.
RelayTypeOK ==
  /\ status \in [Row -> {"absent", "pending", "sent", "failed"}]
  /\ attempts \in [Row -> 0..MaxAttempts]
  /\ due \in [Row -> BOOLEAN]
  /\ owner \in [Row -> Process \cup {NoProcess}]
  /\ pc \in [Process -> {"idle", "fetch", "work"}]
  /\ wake \in [Process -> BOOLEAN]
  /\ immediate \in [Process -> BOOLEAN]
  /\ batch \in [Process -> SUBSET Row]
  /\ result \in [Process -> [Row -> {"none", "sent", "error"}]]
=============================================================================
