--------------------------- MODULE RequestSweeps ----------------------------
(***************************************************************************)
(* The worker's two batch jobs over request_items: SlaBreachCron announces *)
(* requests past their SLA deadline, RequestExpiryCron closes those past   *)
(* their expiry.  Both take a batch with LIMIT and without ORDER BY, go    *)
(* through it row by row, log a row that fails and try it again some tick  *)
(* later.  RequestEngine has the expiry of a single request in detail;     *)
(* here the question is whether the batches get to every request when some *)
(* rows fail each time.                                                    *)
(***************************************************************************)
EXTENDS Naturals, FiniteSets

CONSTANTS
  Ticket,     \* request ids
  Poison,     \* requests whose transaction or TypeDef lookup always fails
  Batch,      \* LIMIT of the two queries (100 in the code)
  MaxSlips    \* bound: failures and restarts of the worker that pass

ASSUME SweepsAssumption ==
  /\ IsFiniteSet(Ticket) /\ Poison \subseteq Ticket
  /\ Batch \in Nat \ {0}
  /\ MaxSlips \in Nat

VARIABLES
  ticket,    \* status: unborn, open, decided or expired
  slaPast,   \* requests whose sla_deadline has passed
  dueDate,   \* requests whose expires_at has passed
  breached,  \* sla_breached_at set, and the requester's notification with it
  slaBatch,  \* rows the SLA tick has fetched and not handled
  expBatch,  \* ids the expiry tick has fetched and not handled
  slips      \* transient failures so far

sweepVars == <<ticket, slaPast, dueDate, breached, slaBatch, expBatch, slips>>

SweepsInit ==
  /\ ticket = [r \in Ticket |-> "unborn"]
  /\ slaPast = {} /\ dueDate = {} /\ breached = {}
  /\ slaBatch = {} /\ expBatch = {}
  /\ slips = 0

OpenTickets == {r \in Ticket : ticket[r] = "open"}

Submitted(r) ==
  /\ ticket[r] = "unborn"
  /\ ticket' = [ticket EXCEPT ![r] = "open"]
  /\ UNCHANGED <<slaPast, dueDate, breached, slaBatch, expBatch, slips>>

Decided(r) ==
  /\ ticket[r] = "open"
  /\ ticket' = [ticket EXCEPT ![r] = "decided"]
  /\ UNCHANGED <<slaPast, dueDate, breached, slaBatch, expBatch, slips>>

SlaPasses(r) ==
  /\ ticket[r] # "unborn" /\ r \notin slaPast
  /\ slaPast' = slaPast \cup {r}
  /\ UNCHANGED <<ticket, dueDate, breached, slaBatch, expBatch, slips>>

\* Usually after the SLA deadline; a catalogue item can set an earlier expiry.
DueDatePasses(r) ==
  /\ ticket[r] # "unborn" /\ r \notin dueDate
  /\ dueDate' = dueDate \cup {r}
  /\ UNCHANGED <<ticket, slaPast, breached, slaBatch, expBatch, slips>>

\* Mutant: the LIMIT is forgotten.
BatchesAll(S) == {S}

\* LIMIT without ORDER BY: any rows, as many as there are up to the limit.
Batches(S) ==
  {B \in SUBSET S : Cardinality(B) = IF Cardinality(S) < Batch THEN Cardinality(S) ELSE Batch}

-----------------------------------------------------------------------------
SlaDue == (OpenTickets \cap slaPast) \ breached

\* The tick's SELECT; `running` keeps a second tick out until the batch is done.
SlaScan ==
  /\ slaBatch = {} /\ SlaDue # {}
  /\ slaBatch' \in Batches(SlaDue)
  /\ UNCHANGED <<ticket, slaPast, dueDate, breached, expBatch, slips>>

\* Mutant: a row that fails takes the rest of the batch with it.
SlaAnnounceAborts(r) ==
  /\ r \in slaBatch
  /\ slaBatch' = IF r \in Poison THEN {} ELSE slaBatch \ {r}
  /\ breached' = IF r \in Poison THEN breached ELSE breached \cup {r}
  /\ UNCHANGED <<ticket, slaPast, dueDate, expBatch, slips>>

\* One row: flag and notification in one transaction.  The row is updated by
\* id, so that a request decided since the SELECT is announced all the same.
SlaAnnounce(r) ==
  /\ r \in slaBatch
  /\ slaBatch' = slaBatch \ {r}
  /\ breached' = IF r \in Poison THEN breached ELSE breached \cup {r}
  /\ UNCHANGED <<ticket, slaPast, dueDate, expBatch, slips>>

SlaSlips(r) ==
  /\ r \in slaBatch
  /\ slips < MaxSlips
  /\ slips' = slips + 1
  /\ slaBatch' = slaBatch \ {r}
  /\ UNCHANGED <<ticket, slaPast, dueDate, breached, expBatch>>

-----------------------------------------------------------------------------
ExpDue == OpenTickets \cap dueDate

\* Mutant: the batch stops at the first row that fails.
ExpireOneAborts(r) ==
  /\ r \in expBatch
  /\ expBatch' = IF r \in Poison THEN {} ELSE expBatch \ {r}
  /\ ticket' = IF ticket[r] = "open" /\ r \notin Poison
                 THEN [ticket EXCEPT ![r] = "expired"] ELSE ticket
  /\ UNCHANGED <<slaPast, dueDate, breached, slaBatch, slips>>

\* findExpired(100).
ExpiryScan ==
  /\ expBatch = {} /\ ExpDue # {}
  /\ expBatch' \in Batches(ExpDue)
  /\ UNCHANGED <<ticket, slaPast, dueDate, breached, slaBatch, slips>>

\* engine.expire of one id, or the catch around it.
ExpireOne(r) ==
  /\ r \in expBatch
  /\ expBatch' = expBatch \ {r}
  /\ ticket' = IF ticket[r] = "open" /\ r \notin Poison
                 THEN [ticket EXCEPT ![r] = "expired"] ELSE ticket
  /\ UNCHANGED <<slaPast, dueDate, breached, slaBatch, slips>>

ExpirySlips(r) ==
  /\ r \in expBatch
  /\ slips < MaxSlips
  /\ slips' = slips + 1
  /\ expBatch' = expBatch \ {r}
  /\ UNCHANGED <<ticket, slaPast, dueDate, breached, slaBatch>>

\* The worker restarts: both batches are forgotten.
SweepsRestart ==
  /\ slaBatch \cup expBatch # {}
  /\ slips < MaxSlips
  /\ slips' = slips + 1
  /\ slaBatch' = {} /\ expBatch' = {}
  /\ UNCHANGED <<ticket, slaPast, dueDate, breached>>

-----------------------------------------------------------------------------
SlaTick == SlaScan \/ \E r \in Ticket : SlaAnnounce(r)

ExpiryTick == ExpiryScan \/ \E r \in Ticket : ExpireOne(r)

SweepsNext ==
  \/ \E r \in Ticket : Submitted(r) \/ Decided(r) \/ SlaPasses(r) \/ DueDatePasses(r)
  \/ SlaTick \/ ExpiryTick
  \/ \E r \in Ticket : SlaSlips(r) \/ ExpirySlips(r)
  \/ SweepsRestart

SweepsSpec == SweepsInit /\ [][SweepsNext]_sweepVars

\* Timers re-run both jobs for as long as the worker lives.
SweepsFairness == WF_sweepVars(SlaTick) /\ WF_sweepVars(ExpiryTick)

-----------------------------------------------------------------------------
(* Properties.                                                             *)

\* The shapes of the rows and of a tick; a tick handles at most LIMIT rows.
SweepsTypeOK ==
  /\ ticket \in [Ticket -> {"unborn", "open", "decided", "expired"}]
  /\ slaPast \subseteq Ticket /\ dueDate \subseteq Ticket
  /\ breached \subseteq slaPast \ Poison
  /\ Cardinality(slaBatch) <= Batch /\ Cardinality(expBatch) <= Batch
  /\ slips \in 0..MaxSlips

\* While fewer requests fail every time than a batch holds, each late request
\* is announced to its requester or decided: the failing rows, which every
\* SELECT finds again, cannot crowd it out for good (SlaBreachCron.process).
LateIsAnnounced ==
  Cardinality(Poison) < Batch =>
    \A r \in Ticket \ Poison :
      (r \in SlaDue) ~> (r \in breached \/ ticket[r] # "open")

\* Under the same condition an overdue request is closed (RequestExpiryCron).
OverdueIsExpired ==
  Cardinality(Poison) < Batch =>
    \A r \in Ticket \ Poison : (r \in ExpDue) ~> (ticket[r] # "open")

\* The two batch jobs keep within their LIMIT and get through their work
\* (SlaBreachCron, RequestExpiryCron).
BatchesGetThrough == []SweepsTypeOK /\ LateIsAnnounced /\ OverdueIsExpired
=============================================================================
