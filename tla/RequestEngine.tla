---------------------------- MODULE RequestEngine ---------------------------
(***************************************************************************)
(* The request engine (libs/platform/src/requests) over PostgreSQL, with   *)
(* the approval delegations it consults and the worker's expiry cron.      *)
(*                                                                         *)
(* Every state transition has the same shape in the code: load the row,    *)
(* check it, check the caller, and only then open a transaction that       *)
(* updates the row by its id alone.  The load, the checks, the BEGIN and   *)
(* the COMMIT are separate actions here, with any number of calls in       *)
(* flight between them.  What a transaction writes appears in one action,  *)
(* its commit, because PostgreSQL makes it atomic.                         *)
(*                                                                         *)
(* An outbox row's created_at defaults to now(), which is the time its     *)
(* transaction BEGAN, and it is all the relay orders the rows by.          *)
(*                                                                         *)
(* Abstractions.  An id of Request stands for a request together with its  *)
(* type and requester, which never change.  authz.check is a fixed         *)
(* relation.  A delegation is a pair that is active or is not.  Assignees  *)
(* are left out: no caller passes one and no TypeDef resolves one.         *)
(***************************************************************************)
EXTENDS RequestTypes, Sequences, FiniteSets

CONSTANTS
  Request,      \* request ids
  User,         \* employees
  NoUser,       \* "no delegator" (delegatedFromId = null)
  TypeOf,       \* the type each request is submitted with
  RequesterOf,  \* the employee each request is submitted by
  Holds,        \* the permissions each user holds (AuthzService.check)
  ApiCall,      \* HTTP calls that can be in flight at the same time
  Cron,         \* the expiry cron's own call to the engine
  WorkerTypes,  \* types registered in the worker's RequestRegistry
  Delegable     \* delegations <<from, to>> users may create (a bound)

ASSUME EngineAssumption ==
  /\ TypeOf \in [Request -> RequestType]
  /\ RequesterOf \in [Request -> User]
  /\ Holds \in [User -> SUBSET Permission]
  /\ NoUser \notin User
  /\ Cron \notin ApiCall
  /\ WorkerTypes \subseteq RequestType
  /\ Delegable \subseteq User \X User

VARIABLES
  status,       \* request_items.status ("none" before the row exists)
  currentStep,  \* request_items.current_step
  resolved,     \* request_items.resolved_at is not null
  approvals,    \* request_approvals
  domain,       \* status of the domain row the payload points at
  grants,       \* number of access_grants rows the request produced
  outbox,       \* outbox rows of each request, by created_at
  notes,        \* notifications scheduled for the requester, by kind
  delegations,  \* the delegations whose window covers now
  call,         \* the engine calls in flight and what each has read
  overdue,      \* requests whose expires_at has passed
  sweep         \* ids the expiry cron has fetched and not yet handled

row   == <<status, currentStep, resolved>>
hooks == <<domain, grants>>
facts == <<approvals, outbox, notes>>
clock == <<delegations, overdue, sweep>>
vars  == <<status, currentStep, resolved, approvals, domain, grants, outbox,
           notes, delegations, call, overdue, sweep>>

Open       == {"pending", "in_review"}
Terminal   == {"approved", "rejected", "cancelled", "expired"}
Call       == ApiCall \cup {Cron}
Steps(r)   == 1..MaxStep(TypeOf[r])

Event ==
  {"request.submitted", "request.step_approved", "request.approved",
   "request.rejected", "request.cancelled", "request.expired"}

Approval ==
  [req: Request, step: 1..3, approver: User, via: User \cup {NoUser},
   decision: {"approved", "rejected"}]

\* A row, or the place kept for the row of a transaction that is open; crossed
\* (history): an earlier transaction was still open when this one committed.
OutboxRow == [event: Event \cup {"none"}, tx: SUBSET Call, crossed: BOOLEAN]

\* What a call has in its local variables once it has loaded the row.
Busy ==
  [pc: {"read", "cleared", "begun"},
   op: {"approve", "reject", "cancel", "expire"},
   req: Request, step: 1..3,
   actor: User \cup {NoUser}, via: User \cup {NoUser}]

Idle == [pc |-> "idle"]

Init ==
  /\ status      = [r \in Request |-> "none"]
  /\ currentStep = [r \in Request |-> 1]
  /\ resolved    = [r \in Request |-> FALSE]
  /\ approvals   = {}
  /\ domain      = [r \in Request |-> "none"]
  /\ grants      = [r \in Request |-> 0]
  /\ outbox      = [r \in Request |-> <<>>]
  /\ notes       = [r \in Request |-> {}]
  /\ delegations = {}
  /\ call        = [c \in Call |-> Idle]
  /\ overdue     = {}
  /\ sweep       = {}

-----------------------------------------------------------------------------
(* Submission: one transaction, with the outbox event.                     *)
Committed(e, crossed) == [event |-> e, tx |-> {}, crossed |-> crossed]

Submit(r) ==
  /\ status[r] = "none"
  /\ status'      = [status EXCEPT ![r] = "pending"]
  /\ domain'      = [domain EXCEPT ![r] = OnSubmitDomain(TypeOf[r])]
  /\ outbox'      = [outbox EXCEPT ![r] =
                      Append(@, Committed("request.submitted", FALSE))]
  /\ UNCHANGED <<currentStep, resolved, approvals, grants, notes, clock, call>>

-----------------------------------------------------------------------------
(* approve and reject, up to the transaction.                              *)

\* getOrFail and assertApprovable: the call goes on with the step it read.
LoadForDecision(c, op, r, u) ==
  /\ call[c] = Idle
  /\ op \in {"approve", "reject"}
  /\ status[r] \in Open
  /\ call' = [call EXCEPT ![c] =
       [pc |-> "read", op |-> op, req |-> r, step |-> currentStep[r],
        actor |-> u, via |-> NoUser]]
  /\ UNCHANGED <<row, facts, hooks, clock>>

\* findActiveDelegationTo: any one of the caller's active incoming
\* delegations (LIMIT 1 without an order), or none.
ActiveDelegation(u) ==
  LET from == {d[1] : d \in {e \in delegations : e[2] = u}}
  IN  IF from = {} THEN {NoUser} ELSE from

SodSubject(u, v) == IF v = NoUser THEN u ELSE v

SodOk(r, u, v) == RequesterOf[r] # SodSubject(u, v)

\* Union semantics: the caller or the delegator holds the step's permission.
MayDecide(r, s, u, v) ==
  LET p == RequiredPermission(TypeOf[r], s)
  IN  p \in Holds[u] \/ (v # NoUser /\ p \in Holds[v])

Authorize(c) ==
  /\ call[c].pc = "read"
  /\ \E v \in ActiveDelegation(call[c].actor) :
       /\ SodOk(call[c].req, call[c].actor, v)
       /\ MayDecide(call[c].req, call[c].step, call[c].actor, v)
       /\ call' = [call EXCEPT ![c].pc = "cleared", ![c].via = v]
  /\ UNCHANGED <<row, facts, hooks, clock>>

\* What a sequence becomes without its p-th element.
Without(s, p) == [i \in 1..(Len(s) - 1) |-> IF i < p THEN s[i] ELSE s[i + 1]]

\* The call's open transaction leaves its place among the outbox rows.
RollBack(c) ==
  IF call[c].pc # "begun" THEN UNCHANGED outbox
  ELSE \E p \in DOMAIN outbox[call[c].req] :
         /\ outbox[call[c].req][p].tx = {c}
         /\ outbox' = [outbox EXCEPT ![call[c].req] = Without(@, p)]

\* A denial, a database error, a rolled back transaction or a crash: the
\* call ends and has written nothing.
Fail(c) ==
  /\ call[c] # Idle
  /\ RollBack(c)
  /\ call' = [call EXCEPT ![c] = Idle]
  /\ UNCHANGED <<row, approvals, notes, hooks, clock>>

-----------------------------------------------------------------------------
(* The transactions.  The UPDATE names the row by id only.                 *)

\* The call has passed its checks.
Cleared(c, op) == call[c].pc \in {"cleared", "begun"} /\ call[c].op = op

\* Its transaction is open.
InTransaction(c, op) == call[c].pc = "begun" /\ call[c].op = op

Place(c) == [event |-> "none", tx |-> {c}, crossed |-> FALSE]

\* Mutant: the event takes the time of the request.
BeginUndated(c) ==
  /\ call[c].pc = "cleared"
  /\ call' = [call EXCEPT ![c].pc = "begun"]
  /\ outbox' = [outbox EXCEPT ![call[c].req] = <<Place(c)>> \o @]
  /\ UNCHANGED <<row, approvals, notes, hooks, clock>>

\* The transaction opens, later than all that opened before it.
Begin(c) ==
  /\ call[c].pc = "cleared"
  /\ call' = [call EXCEPT ![c].pc = "begun"]
  /\ outbox' = [outbox EXCEPT ![call[c].req] = Append(@, Place(c))]
  /\ UNCHANGED <<row, approvals, notes, hooks, clock>>

\* Mutant: resolved_at is not reset when a request goes (back) to review.
UpdateItemKeepResolved(r, st, s, done) ==
  /\ status'      = [status EXCEPT ![r] = st]
  /\ currentStep' = [currentStep EXCEPT ![r] = s]
  /\ resolved'    = [resolved EXCEPT ![r] = @ \/ done]

UpdateItem(r, st, s, done) ==
  /\ status'      = [status EXCEPT ![r] = st]
  /\ currentStep' = [currentStep EXCEPT ![r] = s]
  /\ resolved'    = [resolved EXCEPT ![r] = done]

RecordDecision(k, decision) ==
  approvals' = approvals \cup
    {[req |-> k.req, step |-> k.step, approver |-> k.actor, via |-> k.via,
      decision |-> decision]}

\* Mutant: cancellation publishes no event.
EnqueueNoCancel(c, e) ==
  \E p \in DOMAIN outbox[call[c].req] :
    /\ outbox[call[c].req][p].tx = {c}
    /\ outbox' = [outbox EXCEPT ![call[c].req][p] =
         Committed(IF e = "request.cancelled" THEN "none" ELSE e, FALSE)]

\* Some transaction on the request that began before this one is still open.
EarlierOpen(r, p) == \E q \in 1..(p - 1) : outbox[r][q].tx # {}

\* The row takes the place its transaction has kept for it.
Enqueue(c, e) ==
  \E p \in DOMAIN outbox[call[c].req] :
    /\ outbox[call[c].req][p].tx = {c}
    /\ outbox' = [outbox EXCEPT ![call[c].req][p] =
         Committed(e, EarlierOpen(call[c].req, p))]

\* Notifications are unique by idempotency key (ON CONFLICT DO NOTHING).
Notify(r, n) == notes' = [notes EXCEPT ![r] = @ \cup {n}]

\* Only AccessRequestTypeDef has an onStepApproved hook.
StepNote(r) == IF TypeOf[r] = "access_request" THEN {"step"} ELSE {}

\* Mutant: approval as in single-step mode.
IsFinalStepFirst(r, s) == s >= 1

\* The step the call READ is the last of the chain.
IsFinalStep(r, s) == s >= MaxStep(TypeOf[r])

ApproveStep(c) ==
  LET k == call[c]
      r == k.req
  IN  /\ InTransaction(c, "approve")
      /\ ~IsFinalStep(r, k.step)
      /\ UpdateItem(r, "in_review", k.step + 1, FALSE)
      /\ RecordDecision(k, "approved")
      /\ notes' = [notes EXCEPT ![r] = @ \cup StepNote(r)]
      /\ Enqueue(c, "request.step_approved")
      /\ call' = [call EXCEPT ![c] = Idle]
      /\ UNCHANGED <<hooks, clock>>

ApproveFinal(c) ==
  LET k == call[c]
      r == k.req
      t == TypeOf[r]
  IN  /\ InTransaction(c, "approve")
      /\ IsFinalStep(r, k.step)
      /\ UpdateItem(r, "approved", k.step, TRUE)
      /\ RecordDecision(k, "approved")
      /\ domain' = [domain EXCEPT ![r] = OnApproveDomain(t, @)]
      /\ grants' = [grants EXCEPT ![r] = @ + GrantsOnApprove(t)]
      /\ Notify(r, "approved")
      /\ Enqueue(c, "request.approved")
      /\ call' = [call EXCEPT ![c] = Idle]
      /\ UNCHANGED clock

Reject(c) ==
  LET k == call[c]
      r == k.req
  IN  /\ InTransaction(c, "reject")
      /\ UpdateItem(r, "rejected", currentStep[r], TRUE)
      /\ RecordDecision(k, "rejected")
      /\ domain' = [domain EXCEPT ![r] = OnRejectDomain(TypeOf[r], @)]
      /\ Notify(r, "rejected")
      /\ Enqueue(c, "request.rejected")
      /\ call' = [call EXCEPT ![c] = Idle]
      /\ UNCHANGED <<grants, clock>>

\* cancel: the requester, or a holder of rbac.manage.
LoadForCancel(c, r, u) ==
  /\ call[c] = Idle
  /\ u = RequesterOf[r] \/ "rbac.manage" \in Holds[u]
  /\ status[r] \in Open
  /\ call' = [call EXCEPT ![c] =
       [pc |-> "cleared", op |-> "cancel", req |-> r, step |-> currentStep[r],
        actor |-> u, via |-> NoUser]]
  /\ UNCHANGED <<row, facts, hooks, clock>>

Cancel(c) ==
  LET r == call[c].req
  IN  /\ InTransaction(c, "cancel")
      /\ UpdateItem(r, "cancelled", currentStep[r], TRUE)
      /\ domain' = [domain EXCEPT ![r] = OnCancelDomain(TypeOf[r], @)]
      /\ Enqueue(c, "request.cancelled")
      /\ call' = [call EXCEPT ![c] = Idle]
      /\ UNCHANGED <<approvals, grants, notes, clock>>

-----------------------------------------------------------------------------
(* The expiry cron of the worker process.                                  *)

\* Mutant: only requests nobody has looked at yet are expired.
SweepScanPending ==
  /\ sweep = {} /\ call[Cron] = Idle
  /\ sweep' = {r \in overdue : status[r] = "pending"}
  /\ sweep' # {}
  /\ UNCHANGED <<row, facts, hooks, delegations, overdue, call>>

\* findExpired.
SweepScan ==
  /\ sweep = {} /\ call[Cron] = Idle
  /\ sweep' = {r \in overdue : status[r] \in Open}
  /\ sweep' # {}
  /\ UNCHANGED <<row, facts, hooks, delegations, overdue, call>>

\* One iteration of the loop up to expire's transaction: a request that is
\* no longer open is passed over, and so is one whose type the worker's
\* registry does not know (registry.get throws, the cron logs and goes on).
SweepTake(r) ==
  /\ r \in sweep /\ call[Cron] = Idle
  /\ sweep' = sweep \ {r}
  /\ call' = IF status[r] \in Open /\ TypeOf[r] \in WorkerTypes
               THEN [call EXCEPT ![Cron] =
                      [pc |-> "cleared", op |-> "expire", req |-> r,
                       step |-> currentStep[r], actor |-> NoUser, via |-> NoUser]]
               ELSE call
  /\ UNCHANGED <<row, facts, hooks, delegations, overdue>>

Expire ==
  LET r == call[Cron].req
  IN  /\ InTransaction(Cron, "expire")
      /\ UpdateItem(r, "expired", currentStep[r], TRUE)
      /\ domain' = [domain EXCEPT ![r] = OnExpireDomain(TypeOf[r], @)]
      /\ Enqueue(Cron, "request.expired")
      /\ call' = [call EXCEPT ![Cron] = Idle]
      /\ UNCHANGED <<approvals, grants, notes, clock>>

\* The worker restarts: its fetched batch is gone, a call of it rolls back.
WorkerRestart ==
  /\ sweep # {}
  /\ sweep' = {}
  /\ RollBack(Cron)
  /\ call' = [call EXCEPT ![Cron] = Idle]
  /\ UNCHANGED <<row, approvals, notes, hooks, delegations, overdue>>

\* Every type has an expiry, so every request's deadline passes some day.
PassDeadline(r) ==
  /\ status[r] # "none"
  /\ r \notin overdue
  /\ overdue' = overdue \cup {r}
  /\ UNCHANGED <<row, facts, hooks, delegations, call, sweep>>

-----------------------------------------------------------------------------
(* Delegations: created for a window that opens, ended by the window       *)
(* closing or by their creator.                                            *)
DelegationStarts(d) ==
  /\ d \in Delegable \ delegations
  /\ d[1] # d[2]
  /\ delegations' = delegations \cup {d}
  /\ UNCHANGED <<row, facts, hooks, overdue, call, sweep>>

DelegationEnds(d) ==
  /\ d \in delegations
  /\ delegations' = delegations \ {d}
  /\ UNCHANGED <<row, facts, hooks, overdue, call, sweep>>

-----------------------------------------------------------------------------
ApiNext(c) ==
  \/ \E r \in Request, u \in User :
       \/ \E op \in {"approve", "reject"} : LoadForDecision(c, op, r, u)
       \/ LoadForCancel(c, r, u)
  \/ Authorize(c)
  \/ Begin(c)
  \/ ApproveStep(c)
  \/ ApproveFinal(c)
  \/ Reject(c)
  \/ Cancel(c)
  \/ Fail(c)

CronNext ==
  \/ SweepScan
  \/ \E r \in Request : SweepTake(r)
  \/ Begin(Cron)
  \/ Expire
  \/ Fail(Cron)
  \/ WorkerRestart

Next ==
  \/ \E r \in Request : Submit(r) \/ PassDeadline(r)
  \/ \E d \in Delegable : DelegationStarts(d) \/ DelegationEnds(d)
  \/ \E c \in ApiCall : ApiNext(c)
  \/ CronNext

Spec == Init /\ [][Next]_vars

(***************************************************************************)
(* The cron is re-run by a timer for as long as the worker lives, so its   *)
(* steps are fair.  A restart or a failed transaction can undo progress,   *)
(* and what it undoes is tried again five minutes later: strong fairness   *)
(* says that this does not go wrong every time.  Users owe nothing.        *)
(***************************************************************************)
CronFairness ==
  /\ WF_vars(SweepScan)
  /\ \A r \in Request : SF_vars(SweepTake(r))
  /\ SF_vars(Begin(Cron))
  /\ SF_vars(Expire)

FairSpec == Spec /\ CronFairness

-----------------------------------------------------------------------------
(* Properties.                                                             *)

\* Every table holds well-formed rows, the current step is a step of the
\* type's chain, and only the cron runs expire.
TypeOK ==
  /\ status \in [Request -> {"none"} \cup Open \cup Terminal]
  /\ currentStep \in [Request -> 1..3]
  /\ \A r \in Request : currentStep[r] \in Steps(r)
  /\ resolved \in [Request -> BOOLEAN]
  /\ approvals \subseteq Approval
  /\ domain \in [Request -> DomainStatus]
  /\ grants \in [Request -> Nat]
  /\ outbox \in [Request -> Seq(OutboxRow)]
  /\ notes \in [Request -> SUBSET {"step", "approved", "rejected"}]
  /\ delegations \subseteq User \X User
  /\ call \in [Call -> Busy \cup {Idle}]
  /\ \A c \in ApiCall : call[c] # Idle =>
       /\ call[c].op # "expire"
       /\ call[c].actor \in User
       /\ call[c].step \in Steps(call[c].req)
  /\ call[Cron] # Idle => Cleared(Cron, "expire")
  /\ overdue \subseteq Request
  /\ sweep \subseteq Request

\* Some recorded decision approved step s of request r, taken by someone who
\* held that step's permission (or stood in for someone who did) and who did
\* not act in the requester's own name.
Signed(r, s) ==
  \E a \in approvals :
    /\ a.req = r /\ a.step = s /\ a.decision = "approved"
    /\ SodOk(r, a.approver, a.via)
    /\ MayDecide(r, s, a.approver, a.via)

ChainUpTo(r, n) == \A s \in 1..n : Signed(r, s)

\* The final approval of r was committed at some time, whatever came after.
EverApproved(r) ==
  \/ \E i \in DOMAIN outbox[r] : outbox[r][i].event = "request.approved"
  \/ grants[r] > 0
  \/ domain[r] = "approved"

\* However calls interleave on stale reads, a final approval and its effects
\* (the access grant, the approved domain row, the published event) exist only
\* if EVERY step of the type's chain has an authorised approval on record.
ChainApproved ==
  \A r \in Request : EverApproved(r) => ChainUpTo(r, MaxStep(TypeOf[r]))

EventOf(st) ==
  [pending   |-> "request.submitted",
   in_review |-> "request.step_approved",
   approved  |-> "request.approved",
   rejected  |-> "request.rejected",
   cancelled |-> "request.cancelled",
   expired   |-> "request.expired"][st]

\* The last of the request's events in the order the relay reads them in
\* (outbox-relay.service.ts:39) is the i-th row.
ReadLast(r, i) ==
  /\ outbox[r][i].event # "none"
  /\ \A j \in DOMAIN outbox[r] : j > i => outbox[r][j].event = "none"

\* The engine's "atomic" promise, over any interleaving of calls and of their
\* transactions: whoever replays a request's outbox events in the order the
\* relay has ends in the status of the row, however stale the reads behind it,
\* unless the event read last was committed while an earlier transaction on the
\* request was open, and so may have been overwritten by it.  And the requester
\* has been sent a notification of a decision that stands.
OutcomeAnnounced ==
  \A r \in Request :
    /\ status[r] # "none" =>
         \E i \in DOMAIN outbox[r] :
           /\ ReadLast(r, i)
           /\ outbox[r][i].event = EventOf(status[r]) \/ outbox[r][i].crossed
    /\ status[r] \in {"approved", "rejected"} => status[r] \in notes[r]

\* The columns of a request row agree with each other even after a stale
\* transaction overwrote some of them: resolved_at is set exactly on resolved
\* rows, an approved row stands at its last step, a row in review is past its
\* first one and a pending row is at it.
RowConsistent ==
  \A r \in Request :
    /\ resolved[r] <=> status[r] \in Terminal
    /\ status[r] = "approved" => currentStep[r] = MaxStep(TypeOf[r])
    /\ status[r] = "in_review" => currentStep[r] > 1
    /\ status[r] \in {"none", "pending"} => currentStep[r] = 1

\* The expiry cron: a request past its deadline does not stay open for ever.
OverdueIsClosed ==
  \A r \in Request :
    (r \in overdue /\ status[r] \in Open) ~> (status[r] \notin Open)

\* What a call in flight has looked at.
Snapshot(k) == IF k = Idle THEN Idle ELSE [req |-> k.req, step |-> k.step]

Lifecycle == INSTANCE RequestLifecycle WITH
  LastStep <- [r \in Request |-> MaxStep(TypeOf[r])],
  Caller   <- Call,
  Nothing  <- Idle,
  seen     <- [c \in Call |-> Snapshot(call[c])]

\* With any number of calls in flight the engine implements the life cycle:
\* every change of a request is made by a call that has read it open, once, and
\* approves only from the last step (request-engine.service.ts:127-163).
LifecycleSpec == Lifecycle!Spec
=============================================================================
