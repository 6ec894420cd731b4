----------------------------- MODULE EventRelay -----------------------------
(***************************************************************************)
(* The transactional outbox of domain events: business transactions insert *)
(* outbox_events rows, and each worker process polls the unpublished rows, *)
(* hands them to SQS one by one and marks them published.                  *)
(*                                                                         *)
(* created_at is the time at which the inserting transaction STARTED, so a *)
(* row can appear behind rows that were relayed already.  The SELECT takes *)
(* no lock and there may be several workers (a rolling deployment is one). *)
(* A batch is a set here: the code's array is that set in created_at order.*)
(***************************************************************************)
EXTENDS Naturals, FiniteSets

CONSTANTS
  Event,      \* outbox_events rows
  Worker,     \* worker processes
  NoEvent,    \* no event is waiting for its UPDATE
  BatchSize   \* BATCH_SIZE

ASSUME RelayAssumption ==
  /\ NoEvent \notin Event
  /\ BatchSize \in Nat \ {0}

VARIABLES
  created,    \* created_at of each event (0: its transaction has not begun)
  clock,      \* the database clock, in transactions begun
  committed,  \* rows other transactions can see
  prior,      \* history: the rows visible when the event's transaction began
  published,  \* rows with published = true
  sent,       \* events handed to the queue at least once
  batch,      \* rows each worker has fetched and not finished with
  marking     \* the event a worker has handed over and not marked yet

vars == <<created, clock, committed, prior, published, sent, batch, marking>>

Init ==
  /\ created   = [e \in Event |-> 0]
  /\ clock     = 0
  /\ committed = {}
  /\ prior     = [e \in Event |-> {}]
  /\ published = {}
  /\ sent      = {}
  /\ batch     = [w \in Worker |-> {}]
  /\ marking   = [w \in Worker |-> NoEvent]

-----------------------------------------------------------------------------
(* The business transaction that carries the event (OutboxService.enqueue).*)

Begin(e) ==
  /\ created[e] = 0
  /\ clock'   = clock + 1
  /\ created' = [created EXCEPT ![e] = clock + 1]
  /\ prior'   = [prior EXCEPT ![e] = committed]
  /\ UNCHANGED <<committed, published, sent, batch, marking>>

\* A transaction that rolls back leaves no row: it is one that never commits.
Commit(e) ==
  /\ created[e] # 0
  /\ e \notin committed
  /\ committed' = committed \cup {e}
  /\ UNCHANGED <<created, clock, prior, published, sent, batch, marking>>

-----------------------------------------------------------------------------
(* OutboxRelayService.relay.                                               *)

Unpublished == committed \ published

\* ORDER BY created_at LIMIT BATCH_SIZE.
OldestFirst(B) ==
  /\ B = Unpublished \/ Cardinality(B) = BatchSize
  /\ \A e \in B, d \in Unpublished \ B : created[e] < created[d]

\* An empty result ends the run at once and changes nothing.
Fetch(w) ==
  /\ batch[w] = {}
  /\ \E B \in SUBSET Unpublished :
       /\ B # {} /\ Cardinality(B) <= BatchSize
       /\ OldestFirst(B)
       /\ batch' = [batch EXCEPT ![w] = B]
  /\ UNCHANGED <<created, clock, committed, prior, published, sent, marking>>

IsHead(w, e) ==
  /\ e \in batch[w]
  /\ \A d \in batch[w] : created[e] <= created[d]

\* Mutant: the row is marked before it is sent.
PublishMarkedFirst(w) ==
  /\ marking[w] = NoEvent
  /\ \E e \in batch[w] :
       /\ IsHead(w, e)
       /\ published' = published \cup {e}
       /\ marking'   = [marking EXCEPT ![w] = e]
  /\ UNCHANGED <<created, clock, committed, prior, sent, batch>>

\* SQS accepts the head of the batch (without a queue it is only logged).
Publish(w) ==
  /\ marking[w] = NoEvent
  /\ \E e \in batch[w] :
       /\ IsHead(w, e)
       /\ sent'    = sent \cup {e}
       /\ marking' = [marking EXCEPT ![w] = e]
  /\ UNCHANGED <<created, clock, committed, prior, published, batch>>

\* Mutant: the UPDATE is missing.
MarkNothing(w) ==
  /\ marking[w] # NoEvent
  /\ batch'     = [batch EXCEPT ![w] = @ \ {marking[w]}]
  /\ marking'   = [marking EXCEPT ![w] = NoEvent]
  /\ UNCHANGED <<created, clock, committed, prior, published, sent>>

Mark(w) ==
  /\ marking[w] # NoEvent
  /\ published' = published \cup {marking[w]}
  /\ batch'     = [batch EXCEPT ![w] = @ \ {marking[w]}]
  /\ marking'   = [marking EXCEPT ![w] = NoEvent]
  /\ UNCHANGED <<created, clock, committed, prior, sent>>

\* Mutant: an event that cannot be sent is skipped, the batch goes on.
SkipHead(w) ==
  /\ \E e \in batch[w] : IsHead(w, e) /\ batch' = [batch EXCEPT ![w] = @ \ {e}]
  /\ marking' = [marking EXCEPT ![w] = NoEvent]
  /\ UNCHANGED <<created, clock, committed, prior, published, sent>>

\* SQS or the database fails, or the worker dies: the run ends there.
StopRun(w) ==
  /\ batch[w] # {}
  /\ batch'   = [batch EXCEPT ![w] = {}]
  /\ marking' = [marking EXCEPT ![w] = NoEvent]
  /\ UNCHANGED <<created, clock, committed, prior, published, sent>>

\* SQS has accepted the message, but the answer is lost and send() throws.
AnswerLost(w) ==
  /\ marking[w] = NoEvent
  /\ \E e \in batch[w] : IsHead(w, e) /\ sent' = sent \cup {e}
  /\ batch' = [batch EXCEPT ![w] = {}]
  /\ UNCHANGED <<created, clock, committed, prior, published, marking>>

-----------------------------------------------------------------------------
Next ==
  \/ \E e \in Event : Begin(e) \/ Commit(e)
  \/ \E w \in Worker :
       Fetch(w) \/ Publish(w) \/ Mark(w) \/ StopRun(w) \/ AnswerLost(w)

Spec == Init /\ [][Next]_vars

\* The interval timer starts a run every five seconds.  Runs may fail, but
\* SQS and the database do not fail every single time (strong fairness).
RelayFairness ==
  \A w \in Worker : WF_vars(Fetch(w)) /\ SF_vars(Publish(w)) /\ SF_vars(Mark(w))

FairSpec == Spec /\ RelayFairness

-----------------------------------------------------------------------------
(* Properties.                                                             *)

\* Rows are visible only after their transaction began, and a worker marks
\* only an event of its own batch.
TypeOK ==
  /\ created \in [Event -> Nat]
  /\ clock \in Nat
  /\ committed \subseteq {e \in Event : created[e] # 0}
  /\ prior \in [Event -> SUBSET Event]
  /\ published \subseteq committed
  /\ sent \subseteq committed
  /\ batch \in [Worker -> SUBSET committed]
  /\ marking \in [Worker -> Event \cup {NoEvent}]
  /\ \A w \in Worker : marking[w] # NoEvent => marking[w] \in batch[w]

\* "Guarantees at-least-once delivery", its safety half: whatever fails or
\* races, a row marked published has been handed to the queue.
PublishedWasSent == published \subseteq sent

\* Cause before effect: if d's row was committed when e's transaction began,
\* the queue does not see e before it has seen d, whatever the number of
\* workers, failed runs and late commits.
CausalOrder == \A e \in sent : prior[e] \subseteq sent

\* "Guarantees at-least-once delivery", its liveness half: a committed event
\* is published in the end.
EventuallyPublished == \A e \in Event : e \in committed ~> e \in published
=============================================================================
