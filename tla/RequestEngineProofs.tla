------------------------ MODULE RequestEngineProofs -------------------------
(***************************************************************************)
(* Proofs about RequestEngine for any set of requests, users, calls in     *)
(* flight, delegations and permission assignments.                         *)
(***************************************************************************)
EXTENDS RequestEngine, TLAPS

\* The chain of every type has between one and three steps.
LEMMA MaxStepType == \A t : MaxStep(t) \in 1..3
BY DEF MaxStep

\* The domain hooks write statuses of the domain tables.
LEMMA DomainHookType ==
  ASSUME NEW t, NEW d \in DomainStatus
  PROVE  /\ OnSubmitDomain(t) \in DomainStatus
         /\ OnApproveDomain(t, d) \in DomainStatus
         /\ OnRejectDomain(t, d) \in DomainStatus
         /\ OnExpireDomain(t, d) \in DomainStatus
         /\ OnCancelDomain(t, d) \in DomainStatus
BY DEF OnSubmitDomain, OnApproveDomain, OnRejectDomain, OnExpireDomain,
       OnCancelDomain, DomainStatus, HasDomainRow

\* A call in flight is not the idle record, and a call that has a program
\* counter of its own is in flight.
LEMMA IdleIsNotBusy ==
  /\ Idle \notin Busy
  /\ Idle.pc = "idle"
  /\ \A k \in Busy : k.pc # "idle"
BY DEF Idle, Busy

\* The actor that clears a call's checks is a user or no one.
LEMMA ActiveDelegationType ==
  ASSUME TypeOK, NEW u
  PROVE  ActiveDelegation(u) \subseteq User \cup {NoUser}
BY DEF TypeOK, ActiveDelegation

LEMMA WithoutType ==
  ASSUME NEW S, NEW s \in Seq(S), NEW p \in 1..Len(s)
  PROVE  /\ Without(s, p) \in Seq(S)
         /\ Len(Without(s, p)) = Len(s) - 1
         /\ \A i \in 1..(Len(s) - 1) :
              Without(s, p)[i] = IF i < p THEN s[i] ELSE s[i + 1]
<1>1. \A i \in 1..(Len(s) - 1) : s[i] \in S /\ s[i + 1] \in S
  OBVIOUS
<1>2. Len(s) \in Nat /\ Len(s) - 1 \in Nat
  OBVIOUS
<1>3. Without(s, p) \in [1..(Len(s) - 1) -> S]
  BY <1>1 DEF Without
<1>4. Without(s, p) \in Seq(S) /\ Len(Without(s, p)) = Len(s) - 1
  BY <1>2, <1>3
<1> QED BY <1>4 DEF Without

\* The writes to the outbox keep it made of rows: a transaction that begins, ...
LEMMA PlaceType ==
  ASSUME TypeOK, NEW c \in Call, NEW r \in Request,
         outbox' = [outbox EXCEPT ![r] = Append(@, Place(c))]
  PROVE  outbox' \in [Request -> Seq(OutboxRow)]
<1>1. Place(c) \in OutboxRow
  BY DEF Place, OutboxRow
<1> QED BY <1>1 DEF TypeOK

LEMMA CommittedType ==
  ASSUME NEW e \in Event, NEW b \in BOOLEAN
  PROVE  Committed(e, b) \in OutboxRow
BY DEF Committed, OutboxRow

\* ... one that commits ...
LEMMA EnqueueType ==
  ASSUME TypeOK, NEW c \in Call, call[c].req \in Request, NEW e \in Event, Enqueue(c, e)
  PROVE  outbox' \in [Request -> Seq(OutboxRow)]
<1>1. PICK r \in Request : r = call[c].req
  OBVIOUS
<1>2. PICK p \in DOMAIN outbox[r] :
        outbox' = [outbox EXCEPT ![r][p] = Committed(e, EarlierOpen(r, p))]
  BY <1>1 DEF Enqueue
<1>3. Committed(e, EarlierOpen(r, p)) \in OutboxRow
  BY CommittedType DEF EarlierOpen
<1> DEFINE w == Committed(e, EarlierOpen(r, p))
<1>4. outbox' = [outbox EXCEPT ![r][p] = w] /\ w \in OutboxRow
  BY <1>2, <1>3
<1> HIDE DEF w
<1>5. outbox[r] \in Seq(OutboxRow) /\ p \in 1..Len(outbox[r])
  BY DEF TypeOK
<1>6. [outbox[r] EXCEPT ![p] = w] \in Seq(OutboxRow)
  BY <1>4, <1>5
<1>7. outbox' = [outbox EXCEPT ![r] = [outbox[r] EXCEPT ![p] = w]]
  BY <1>4
<1> QED BY <1>6, <1>7 DEF TypeOK

\* ... and one that rolls back.
LEMMA RollBackType ==
  ASSUME TypeOK, NEW c \in Call, call[c] # Idle, RollBack(c)
  PROVE  outbox' \in [Request -> Seq(OutboxRow)]
<1>1. PICK r \in Request : r = call[c].req
  BY DEF TypeOK, Busy
<1>2. CASE outbox' = outbox
  BY <1>2 DEF TypeOK
<1>3. CASE outbox' # outbox
  <2>1. PICK p \in DOMAIN outbox[r] :
          outbox' = [outbox EXCEPT ![r] = Without(outbox[r], p)]
    BY <1>1, <1>3 DEF RollBack
  <2>2. outbox[r] \in Seq(OutboxRow) /\ p \in 1..Len(outbox[r])
    BY <2>1 DEF TypeOK
  <2>3. Without(outbox[r], p) \in Seq(OutboxRow)
    BY <2>2, WithoutType
  <2> QED BY <2>1, <2>3 DEF TypeOK
<1> QED BY <1>2, <1>3

-----------------------------------------------------------------------------
(* Type correctness, action by action.                                     *)

LEMMA InitTypeOK == Init => TypeOK
BY EngineAssumption, MaxStepType
   DEF Init, TypeOK, Open, Terminal, Steps, DomainStatus, Call, OutboxRow

LEMMA SubmitTypeOK ==
  ASSUME TypeOK, NEW r \in Request, Submit(r)
  PROVE  TypeOK'
<1>1. domain' \in [Request -> DomainStatus]
  BY EngineAssumption DEF TypeOK, Submit, OnSubmitDomain, DomainStatus, HasDomainRow
<1>2. outbox' \in [Request -> Seq(OutboxRow)]
  <2>1. Committed("request.submitted", FALSE) \in OutboxRow
    BY CommittedType DEF Event
  <2> DEFINE w == Committed("request.submitted", FALSE)
  <2>2. outbox' = [outbox EXCEPT ![r] = Append(@, w)] /\ w \in OutboxRow
    BY <2>1 DEF Submit
  <2> HIDE DEF w
  <2> QED BY <2>2 DEF TypeOK
<1> QED
  BY <1>1, <1>2 DEF TypeOK, Submit, Open, Steps, clock, Cleared

\* A step that only changes a call, and leaves it well formed.
LEMMA CallOnlyTypeOK ==
  ASSUME TypeOK, UNCHANGED <<row, approvals, notes, hooks, clock>>,
         outbox' \in [Request -> Seq(OutboxRow)],
         NEW c \in ApiCall, NEW k,
         \/ k = Idle
         \/ /\ k \in Busy
            /\ k.op # "expire" /\ k.actor \in User /\ k.step \in Steps(k.req),
         call' = [call EXCEPT ![c] = k]
  PROVE  TypeOK'
<1>1. c # Cron /\ c \in Call
  BY EngineAssumption DEF Call
<1>2. call' \in [Call -> Busy \cup {Idle}]
  BY <1>1 DEF TypeOK
<1>3. call'[Cron] = call[Cron]
  BY <1>1 DEF TypeOK, Call
<1>4. \A d \in ApiCall : call'[d] # Idle =>
        /\ call'[d].op # "expire"
        /\ call'[d].actor \in User
        /\ call'[d].step \in Steps(call'[d].req)
  BY <1>1 DEF TypeOK, Call
<1> QED
  BY <1>2, <1>3, <1>4
     DEF TypeOK, row, hooks, clock, Steps, Cleared

LEMMA LoadForDecisionTypeOK ==
  ASSUME TypeOK, NEW c \in ApiCall, NEW op, NEW r \in Request, NEW u \in User,
         LoadForDecision(c, op, r, u)
  PROVE  TypeOK'
<1> DEFINE k == [pc |-> "read", op |-> op, req |-> r, step |-> currentStep[r],
                 actor |-> u, via |-> NoUser]
<1>1. k \in Busy /\ k.op # "expire" /\ k.actor \in User /\ k.step \in Steps(k.req)
  BY DEF LoadForDecision, Busy, TypeOK
<1>2. call' = [call EXCEPT ![c] = k] /\ UNCHANGED <<row, facts, hooks, clock>>
  BY DEF LoadForDecision
<1>3. UNCHANGED <<approvals, notes>> /\ outbox' \in [Request -> Seq(OutboxRow)]
  BY <1>2 DEF facts, TypeOK
<1> HIDE DEF k
<1> QED
  BY <1>1, <1>2, <1>3, CallOnlyTypeOK

LEMMA LoadForCancelTypeOK ==
  ASSUME TypeOK, NEW c \in ApiCall, NEW r \in Request, NEW u \in User,
         LoadForCancel(c, r, u)
  PROVE  TypeOK'
<1> DEFINE k == [pc |-> "cleared", op |-> "cancel", req |-> r,
                 step |-> currentStep[r], actor |-> u, via |-> NoUser]
<1>1. k \in Busy /\ k.op # "expire" /\ k.actor \in User /\ k.step \in Steps(k.req)
  BY DEF LoadForCancel, Busy, TypeOK
<1>2. call' = [call EXCEPT ![c] = k] /\ UNCHANGED <<row, facts, hooks, clock>>
  BY DEF LoadForCancel
<1>3. UNCHANGED <<approvals, notes>> /\ outbox' \in [Request -> Seq(OutboxRow)]
  BY <1>2 DEF facts, TypeOK
<1> HIDE DEF k
<1> QED
  BY <1>1, <1>2, <1>3, CallOnlyTypeOK

\* A call whose program counter is not "idle" is in flight.
LEMMA InFlight ==
  ASSUME TypeOK, NEW c \in Call, call[c].pc # "idle"
  PROVE  call[c] \in Busy
BY IdleIsNotBusy DEF TypeOK

LEMMA AuthorizeTypeOK ==
  ASSUME TypeOK, NEW c \in ApiCall, Authorize(c)
  PROVE  TypeOK'
<1>1. PICK v \in ActiveDelegation(call[c].actor) :
        call' = [call EXCEPT ![c].pc = "cleared", ![c].via = v]
  BY DEF Authorize
<1>2. c \in Call /\ call[c] \in Busy /\ call[c] # Idle
  BY InFlight, IdleIsNotBusy DEF Authorize, Call
<1>3. v \in User \cup {NoUser}
  BY <1>1, ActiveDelegationType
<1> DEFINE k == [call[c] EXCEPT !.pc = "cleared", !.via = v]
<1>4. call' = [call EXCEPT ![c] = k]
  BY <1>1, <1>2 DEF TypeOK
<1>5. k \in Busy /\ k.op = call[c].op /\ k.actor = call[c].actor
      /\ k.step = call[c].step /\ k.req = call[c].req
  BY <1>2, <1>3 DEF Busy
<1>6. k.op # "expire" /\ k.actor \in User /\ k.step \in Steps(k.req)
  BY <1>2, <1>5 DEF TypeOK
<1>7. UNCHANGED <<row, approvals, notes, hooks, clock>> /\ outbox' \in [Request -> Seq(OutboxRow)]
  BY DEF Authorize, facts, TypeOK
<1> HIDE DEF k
<1> QED
  BY <1>4, <1>5, <1>6, <1>7, CallOnlyTypeOK

\* A call that opens its transaction stays what it is.
LEMMA BeginCall ==
  ASSUME TypeOK, NEW c \in Call, Begin(c)
  PROVE  \E k \in Busy :
           /\ call' = [call EXCEPT ![c] = k]
           /\ k = [call[c] EXCEPT !.pc = "begun"]
           /\ call[c] \in Busy /\ k.pc = "begun"
           /\ k.op = call[c].op /\ k.actor = call[c].actor /\ k.via = call[c].via
           /\ k.step = call[c].step /\ k.req = call[c].req
<1>1. call[c] \in Busy
  BY InFlight DEF Begin
<1> DEFINE k == [call[c] EXCEPT !.pc = "begun"]
<1>2. call' = [call EXCEPT ![c] = k]
  BY <1>1 DEF Begin, TypeOK
<1>3. /\ k \in Busy /\ k.pc = "begun"
      /\ k.op = call[c].op /\ k.actor = call[c].actor /\ k.via = call[c].via
      /\ k.step = call[c].step /\ k.req = call[c].req
  BY <1>1 DEF Busy
<1> QED BY <1>1, <1>2, <1>3

LEMMA BeginTypeOK ==
  ASSUME TypeOK, NEW c \in Call, Begin(c)
  PROVE  TypeOK'
<1>1. PICK k \in Busy :
        /\ call' = [call EXCEPT ![c] = k] /\ call[c] \in Busy /\ k.pc = "begun"
        /\ k.op = call[c].op /\ k.actor = call[c].actor
        /\ k.step = call[c].step /\ k.req = call[c].req
  BY BeginCall
<1>2. UNCHANGED <<row, approvals, notes, hooks, clock>>
  BY DEF Begin
<1>3. call[c].req \in Request /\ call[c] # Idle
  BY <1>1, IdleIsNotBusy DEF Busy
<1>4. outbox' \in [Request -> Seq(OutboxRow)]
  BY <1>3, PlaceType DEF Begin
<1>5. CASE c \in ApiCall
  <2>1. k.op # "expire" /\ k.actor \in User /\ k.step \in Steps(k.req)
    BY <1>1, <1>3, <1>5 DEF TypeOK
  <2> QED BY <1>1, <1>2, <1>4, <1>5, <2>1, CallOnlyTypeOK
<1>6. CASE c = Cron
  <2>1. k.op = "expire"
    BY <1>1, <1>3, <1>6 DEF TypeOK, Cleared
  <2>2. /\ call' \in [Call -> Busy \cup {Idle}]
        /\ \A d \in ApiCall : call'[d] = call[d]
        /\ call'[Cron] = k
    BY <1>1, <1>6, EngineAssumption DEF TypeOK, Call
  <2>3. Cleared(Cron, "expire")'
    BY <1>1, <2>1, <2>2 DEF Cleared
  <2> QED BY <1>2, <1>4, <2>2, <2>3 DEF TypeOK, row, hooks, clock, Steps
<1> QED BY <1>5, <1>6 DEF Call

LEMMA FailTypeOK ==
  ASSUME TypeOK, NEW c \in Call, Fail(c)
  PROVE  TypeOK'
<1>0. outbox' \in [Request -> Seq(OutboxRow)] /\ UNCHANGED <<row, approvals, notes, hooks, clock>>
  BY RollBackType DEF Fail
<1>1. CASE c \in ApiCall
  BY <1>0, <1>1, CallOnlyTypeOK DEF Fail
<1>2. CASE c = Cron
  <2>1. /\ call' \in [Call -> Busy \cup {Idle}]
        /\ \A d \in ApiCall : call'[d] = call[d]
        /\ call'[Cron] = Idle
    BY <1>2, EngineAssumption DEF Fail, TypeOK, Call
  <2> QED BY <1>0, <2>1 DEF TypeOK, row, hooks, clock, Steps
<1> QED
  BY <1>1, <1>2 DEF Call

\* What every transaction has in common: a call that passed its checks ends,
\* one request row is updated to a status and a step of its chain, and one
\* event is enqueued.
LEMMA CommitTypeOK ==
  ASSUME TypeOK, NEW c \in Call,
         NEW r \in Request, NEW st \in Open \cup Terminal, NEW s \in Steps(r),
         NEW done \in BOOLEAN, NEW e \in Event,
         r = call[c].req, UpdateItem(r, st, s, done), Enqueue(c, e),
         call' = [call EXCEPT ![c] = Idle],
         approvals' \subseteq Approval,
         domain' \in [Request -> DomainStatus],
         grants' \in [Request -> Nat],
         notes' \in [Request -> SUBSET {"step", "approved", "rejected"}],
         UNCHANGED clock
  PROVE  TypeOK'
<1>1. outbox' \in [Request -> Seq(OutboxRow)]
  BY EnqueueType
<1>2. /\ status' \in [Request -> {"none"} \cup Open \cup Terminal]
      /\ resolved' \in [Request -> BOOLEAN]
      /\ \A q \in Request : currentStep'[q] \in Steps(q)
      /\ currentStep' \in [Request -> 1..3]
  <2>1. status' \in [Request -> {"none"} \cup Open \cup Terminal]
    BY DEF TypeOK, UpdateItem
  <2>2. resolved' \in [Request -> BOOLEAN]
    BY Zenon DEF TypeOK, UpdateItem
  <2>3. s \in 1..3
    BY MaxStepType DEF Steps
  <2>4. currentStep' \in [Request -> 1..3]
    BY <2>3 DEF TypeOK, UpdateItem
  <2>5. \A q \in Request : currentStep'[q] \in Steps(q)
    BY DEF TypeOK, UpdateItem
  <2> QED
    BY <2>1, <2>2, <2>4, <2>5
<1>3. /\ call' \in [Call -> Busy \cup {Idle}]
      /\ \A d \in ApiCall : call'[d] # Idle => call'[d] = call[d]
      /\ call'[Cron] # Idle => call'[Cron] = call[Cron]
  BY DEF TypeOK, Call
<1>4. \A d \in ApiCall : call'[d] # Idle =>
       /\ call'[d].op # "expire"
       /\ call'[d].actor \in User
       /\ call'[d].step \in Steps(call'[d].req)
  BY <1>3 DEF TypeOK
<1>5. call'[Cron] # Idle => Cleared(Cron, "expire")'
  BY <1>3 DEF TypeOK, Cleared
<1> QED
  BY <1>1, <1>2, <1>3, <1>4, <1>5 DEF TypeOK, clock, Steps

\* A call whose transaction is open has passed its checks.
LEMMA OpenIsCleared == \A c, op : InTransaction(c, op) => Cleared(c, op)
BY DEF InTransaction, Cleared

\* A cleared API call: what its local variables hold.
LEMMA ClearedCall ==
  ASSUME TypeOK, NEW c \in ApiCall, NEW op, Cleared(c, op)
  PROVE  /\ c \in Call /\ call[c] \in Busy /\ call[c] # Idle
         /\ call[c].req \in Request
         /\ call[c].actor \in User
         /\ call[c].via \in User \cup {NoUser}
         /\ call[c].step \in Steps(call[c].req)
         /\ call[c].step \in 1..3
<1>1. c \in Call /\ call[c] \in Busy /\ call[c] # Idle
  BY InFlight, IdleIsNotBusy DEF Cleared, Call
<1> QED
  BY <1>1 DEF TypeOK, Busy

\* The approval row a cleared call inserts.
LEMMA DecisionType ==
  ASSUME TypeOK, NEW c \in ApiCall, NEW op, Cleared(c, op),
         NEW decision \in {"approved", "rejected"},
         RecordDecision(call[c], decision)
  PROVE  approvals' \subseteq Approval
BY ClearedCall DEF RecordDecision, Approval, TypeOK

LEMMA ApproveStepTypeOK ==
  ASSUME TypeOK, NEW c \in ApiCall, ApproveStep(c)
  PROVE  TypeOK'
<1> DEFINE k == call[c]
           r == k.req
<1>0. Cleared(c, "approve")
  BY OpenIsCleared DEF ApproveStep
<1>1. c \in Call /\ r \in Request /\ k.step \in Steps(r) /\ k.step \in 1..3
  BY <1>0, ClearedCall
<1>2. k.step + 1 \in Steps(r)
  BY <1>1, MaxStepType DEF ApproveStep, IsFinalStep, Steps
<1>3. approvals' \subseteq Approval
  BY <1>0, DecisionType DEF ApproveStep
<1>4. notes' \in [Request -> SUBSET {"step", "approved", "rejected"}]
  BY <1>1 DEF ApproveStep, TypeOK, StepNote
<1>5. /\ domain' \in [Request -> DomainStatus]
      /\ grants' \in [Request -> Nat]
      /\ UNCHANGED clock
      /\ call' = [call EXCEPT ![c] = Idle]
      /\ UpdateItem(r, "in_review", k.step + 1, FALSE)
      /\ Enqueue(c, "request.step_approved")
  BY DEF ApproveStep, TypeOK, hooks
<1>6. "in_review" \in Open \cup Terminal /\ "request.step_approved" \in Event
  BY DEF Open, Event
<1> QED
  BY <1>1, <1>2, <1>3, <1>4, <1>5, <1>6, CommitTypeOK

LEMMA ApproveFinalTypeOK ==
  ASSUME TypeOK, NEW c \in ApiCall, ApproveFinal(c)
  PROVE  TypeOK'
<1> DEFINE k == call[c]
           r == k.req
<1>0. Cleared(c, "approve")
  BY OpenIsCleared DEF ApproveFinal
<1>1. c \in Call /\ r \in Request /\ k.step \in Steps(r)
  BY <1>0, ClearedCall
<1>2. approvals' \subseteq Approval
  BY <1>0, DecisionType DEF ApproveFinal
<1>3. notes' \in [Request -> SUBSET {"step", "approved", "rejected"}]
  BY <1>1 DEF ApproveFinal, TypeOK, Notify
<1>4. domain' \in [Request -> DomainStatus]
  BY <1>1 DEF ApproveFinal, TypeOK, OnApproveDomain, DomainStatus
<1>5. grants' \in [Request -> Nat]
  BY <1>1 DEF ApproveFinal, TypeOK, GrantsOnApprove
<1>6. /\ UNCHANGED clock
      /\ call' = [call EXCEPT ![c] = Idle]
      /\ UpdateItem(r, "approved", k.step, TRUE)
      /\ Enqueue(c, "request.approved")
  BY DEF ApproveFinal
<1>7. "approved" \in Open \cup Terminal /\ "request.approved" \in Event
  BY DEF Terminal, Event
<1> QED
  BY <1>1, <1>2, <1>3, <1>4, <1>5, <1>6, <1>7, CommitTypeOK

LEMMA RejectTypeOK ==
  ASSUME TypeOK, NEW c \in ApiCall, Reject(c)
  PROVE  TypeOK'
<1> DEFINE r == call[c].req
<1>0. Cleared(c, "reject")
  BY OpenIsCleared DEF Reject
<1>1. c \in Call /\ r \in Request
  BY <1>0, ClearedCall
<1>2. approvals' \subseteq Approval
  BY <1>0, DecisionType DEF Reject
<1>3. notes' \in [Request -> SUBSET {"step", "approved", "rejected"}]
  BY <1>1 DEF Reject, TypeOK, Notify
<1>4. domain' \in [Request -> DomainStatus]
  BY <1>1 DEF Reject, TypeOK, OnRejectDomain, DomainStatus
<1>5. /\ UNCHANGED clock
      /\ call' = [call EXCEPT ![c] = Idle]
      /\ UpdateItem(r, "rejected", currentStep[r], TRUE)
      /\ Enqueue(c, "request.rejected")
      /\ grants' \in [Request -> Nat]
  BY DEF Reject, TypeOK
<1>6. /\ "rejected" \in Open \cup Terminal
      /\ "request.rejected" \in Event
      /\ currentStep[r] \in Steps(r)
  BY <1>1 DEF Terminal, Event, TypeOK
<1> QED
  BY <1>1, <1>2, <1>3, <1>4, <1>5, <1>6, CommitTypeOK

LEMMA CancelTypeOK ==
  ASSUME TypeOK, NEW c \in ApiCall, Cancel(c)
  PROVE  TypeOK'
<1> DEFINE r == call[c].req
<1>0. Cleared(c, "cancel")
  BY OpenIsCleared DEF Cancel
<1>1. c \in Call /\ r \in Request
  BY <1>0, ClearedCall
<1>2. domain' \in [Request -> DomainStatus]
  BY <1>1 DEF Cancel, TypeOK, OnCancelDomain
<1>3. /\ UNCHANGED clock
      /\ call' = [call EXCEPT ![c] = Idle]
      /\ UpdateItem(r, "cancelled", currentStep[r], TRUE)
      /\ Enqueue(c, "request.cancelled")
      /\ grants' \in [Request -> Nat]
      /\ approvals' \subseteq Approval
      /\ notes' \in [Request -> SUBSET {"step", "approved", "rejected"}]
  BY DEF Cancel, TypeOK
<1>4. /\ "cancelled" \in Open \cup Terminal
      /\ "request.cancelled" \in Event
      /\ currentStep[r] \in Steps(r)
  BY <1>1 DEF Terminal, Event, TypeOK
<1> QED
  BY <1>1, <1>2, <1>3, <1>4, CommitTypeOK

LEMMA ExpireTypeOK ==
  ASSUME TypeOK, Expire
  PROVE  TypeOK'
<1> DEFINE r == call[Cron].req
<1>1. Cron \in Call /\ call[Cron] \in Busy /\ r \in Request
  <2>1. Cron \in Call /\ call[Cron].pc # "idle"
    BY DEF Expire, InTransaction, Call
  <2>2. call[Cron] \in Busy
    BY <2>1, InFlight
  <2> QED
    BY <2>1, <2>2 DEF Busy
<1>2. domain' \in [Request -> DomainStatus]
  BY <1>1 DEF Expire, TypeOK, OnExpireDomain, DomainStatus, HasDomainRow
<1>3. /\ UNCHANGED clock
      /\ call' = [call EXCEPT ![Cron] = Idle]
      /\ UpdateItem(r, "expired", currentStep[r], TRUE)
      /\ Enqueue(Cron, "request.expired")
      /\ grants' \in [Request -> Nat]
      /\ approvals' \subseteq Approval
      /\ notes' \in [Request -> SUBSET {"step", "approved", "rejected"}]
  BY DEF Expire, TypeOK
<1>4. /\ "expired" \in Open \cup Terminal
      /\ "request.expired" \in Event
      /\ currentStep[r] \in Steps(r)
  BY <1>1 DEF Terminal, Event, TypeOK
<1> QED
  BY <1>1, <1>2, <1>3, <1>4, CommitTypeOK

LEMMA SweepTypeOK ==
  ASSUME TypeOK,
         \/ SweepScan
         \/ \E r \in Request : SweepTake(r)
         \/ WorkerRestart
  PROVE  TypeOK'
<1>0. \A c \in ApiCall : c # Cron
  BY EngineAssumption
<1>1. CASE SweepScan
  BY <1>1 DEF SweepScan, TypeOK, row, facts, hooks, Steps, Cleared
<1>2. ASSUME NEW r \in Request, SweepTake(r) PROVE TypeOK'
  <2> DEFINE k == [pc |-> "cleared", op |-> "expire", req |-> r,
                   step |-> currentStep[r], actor |-> NoUser, via |-> NoUser]
  <2>1. k \in Busy /\ k.op = "expire" /\ k.pc \in {"cleared", "begun"}
    BY DEF Busy, TypeOK
  <2>2. call' = [call EXCEPT ![Cron] = k] \/ call' = call
    BY <1>2 DEF SweepTake
  <2> HIDE DEF k
  <2>3. /\ call' \in [Call -> Busy \cup {Idle}]
        /\ \A c \in ApiCall : call'[c] = call[c]
        /\ call'[Cron] # Idle => Cleared(Cron, "expire")'
    BY <1>0, <2>1, <2>2 DEF TypeOK, Call, Cleared
  <2> QED
    BY <1>2, <2>3 DEF SweepTake, TypeOK, row, facts, hooks, Steps
<1>3. CASE WorkerRestart
  <2>1. /\ call' \in [Call -> Busy \cup {Idle}]
        /\ \A c \in ApiCall : call'[c] = call[c]
        /\ call'[Cron] = Idle
    BY <1>0, <1>3 DEF WorkerRestart, TypeOK, Call
  <2>2. outbox' \in [Request -> Seq(OutboxRow)]
    <3>1. CASE call[Cron] = Idle
      BY <1>3, <3>1, IdleIsNotBusy DEF WorkerRestart, RollBack, TypeOK
    <3>2. CASE call[Cron] # Idle
      BY <1>3, <3>2, RollBackType DEF WorkerRestart, Call
    <3> QED BY <3>1, <3>2
  <2> QED
    BY <1>3, <2>1, <2>2 DEF WorkerRestart, TypeOK, row, hooks, Steps
<1> QED
  BY <1>1, <1>2, <1>3

LEMMA EnvironmentTypeOK ==
  ASSUME TypeOK,
         \/ \E r \in Request : PassDeadline(r)
         \/ \E d \in Delegable : DelegationStarts(d) \/ DelegationEnds(d)
  PROVE  TypeOK'
<1>1. ASSUME NEW r \in Request, PassDeadline(r) PROVE TypeOK'
  BY <1>1 DEF PassDeadline, TypeOK, row, facts, hooks, Steps, Cleared
<1>2. ASSUME NEW d \in Delegable, DelegationStarts(d) \/ DelegationEnds(d) PROVE TypeOK'
  BY <1>2, EngineAssumption
     DEF DelegationStarts, DelegationEnds, TypeOK, row, facts, hooks, Steps, Cleared
<1> QED
  BY <1>1, <1>2

LEMMA NextTypeOK == TypeOK /\ [Next]_vars => TypeOK'
<1> SUFFICES ASSUME TypeOK, [Next]_vars PROVE TypeOK'
  OBVIOUS
<1>1. ASSUME NEW r \in Request, Submit(r) PROVE TypeOK'
  BY <1>1, SubmitTypeOK
<1>2. ASSUME NEW c \in ApiCall, ApiNext(c) PROVE TypeOK'
  <2>1. c \in Call
    BY DEF Call
  <2> QED
    BY <1>2, <2>1, LoadForDecisionTypeOK, LoadForCancelTypeOK, AuthorizeTypeOK,
       BeginTypeOK, ApproveStepTypeOK, ApproveFinalTypeOK, RejectTypeOK, CancelTypeOK, FailTypeOK
       DEF ApiNext
<1>3. CASE CronNext
  <2>1. Cron \in Call
    BY DEF Call
  <2> QED
    BY <1>3, <2>1, SweepTypeOK, BeginTypeOK, ExpireTypeOK, FailTypeOK DEF CronNext
<1>4. CASE UNCHANGED vars
  BY <1>4 DEF vars, TypeOK, Steps, Cleared
<1> QED
  BY <1>1, <1>2, <1>3, <1>4, EnvironmentTypeOK DEF Next

\* Every table of the engine stays well formed: a request's current step is
\* always a step of its type's chain, and so is every step a call has read.
THEOREM TypeCorrect == Spec => []TypeOK
BY InitTypeOK, NextTypeOK, PTL DEF Spec

-----------------------------------------------------------------------------
(* The approval chain.  ChainApproved is not inductive: a final approval   *)
(* rests on the step its call READ, perhaps long ago.  The strengthening   *)
(* says that every step number in the system, in a row or in a call's      *)
(* local variables, has been earned, and that a cleared approval has       *)
(* passed the checks its row will be judged by.                            *)

StepsEarned ==
  \A r \in Request : ChainUpTo(r, currentStep[r] - 1)

ReadsEarned ==
  \A c \in ApiCall : call[c] # Idle => ChainUpTo(call[c].req, call[c].step - 1)

ClearedChecked ==
  \A c \in ApiCall : Cleared(c, "approve") =>
    /\ SodOk(call[c].req, call[c].actor, call[c].via)
    /\ MayDecide(call[c].req, call[c].step, call[c].actor, call[c].via)

ChainInv == TypeOK /\ StepsEarned /\ ReadsEarned /\ ClearedChecked /\ ChainApproved

\* Approval rows are never deleted, so a signature stays.
LEMMA SignedStays ==
  ASSUME approvals \subseteq approvals', NEW r, NEW n, ChainUpTo(r, n)
  PROVE  ChainUpTo(r, n)'
BY Zenon DEF ChainUpTo, Signed

\* A chain signed up to s - 1 and signed at s is signed up to s.
LEMMA ChainExtends ==
  ASSUME NEW r, NEW s \in 1..3, ChainUpTo(r, s - 1), Signed(r, s)
  PROVE  ChainUpTo(r, s)
BY DEF ChainUpTo

\* The final approval of q is among its outbox rows.
ApprovalRow(q) == \E i \in DOMAIN outbox[q] : outbox[q][i].event = "request.approved"

\* Enqueuing any event but the final approval does not make a request look
\* finally approved, ...
LEMMA OtherEvent ==
  ASSUME TypeOK, NEW c \in Call, call[c].req \in Request, NEW e \in Event,
         e # "request.approved", Enqueue(c, e), NEW q \in Request, ApprovalRow(q)'
  PROVE  ApprovalRow(q)
<1>1. PICK r \in Request : r = call[c].req
  OBVIOUS
<1>2. PICK p \in DOMAIN outbox[r] :
        outbox' = [outbox EXCEPT ![r][p] = Committed(e, EarlierOpen(r, p))]
  BY <1>1 DEF Enqueue
<1> DEFINE w == Committed(e, EarlierOpen(r, p))
<1>3. outbox' = [outbox EXCEPT ![r][p] = w] /\ w.event = e
  BY <1>2 DEF Committed
<1> HIDE DEF w
<1>4. outbox[r] \in Seq(OutboxRow) /\ outbox[q] \in Seq(OutboxRow)
  BY DEF TypeOK
<1>5. CASE q = r
  <2>1. outbox'[q] = [outbox[q] EXCEPT ![p] = w]
    BY <1>3, <1>5 DEF TypeOK
  <2>2. PICK i \in DOMAIN outbox'[q] : outbox'[q][i].event = "request.approved"
    BY DEF ApprovalRow
  <2>3. i \in DOMAIN outbox[q] /\ i # p
    BY <1>2, <1>3, <1>4, <1>5, <2>1, <2>2
  <2>4. outbox'[q][i] = outbox[q][i]
    BY <1>4, <2>1, <2>3
  <2> QED BY <2>2, <2>3, <2>4 DEF ApprovalRow
<1>6. CASE q # r
  BY <1>3, <1>6 DEF TypeOK, ApprovalRow
<1> QED BY <1>5, <1>6

\* ... nor does a row or a place of another event at the end of the rows, ...
LEMMA OtherPlace ==
  ASSUME TypeOK, NEW r \in Request, NEW w \in OutboxRow, w.event # "request.approved",
         outbox' = [outbox EXCEPT ![r] = Append(@, w)],
         NEW q \in Request, ApprovalRow(q)'
  PROVE  ApprovalRow(q)
<1>1. outbox[q] \in Seq(OutboxRow)
  BY DEF TypeOK
<1>2. CASE q = r
  <2>1. outbox'[q] = Append(outbox[q], w)
    BY <1>2 DEF TypeOK
  <2>2. PICK i \in DOMAIN outbox'[q] : outbox'[q][i].event = "request.approved"
    BY DEF ApprovalRow
  <2>3. i \in 1..Len(outbox[q]) \/ i = Len(outbox[q]) + 1
    BY <1>1, <2>1, <2>2
  <2>4. CASE i = Len(outbox[q]) + 1
    BY <1>1, <2>1, <2>2, <2>4
  <2>5. CASE i \in 1..Len(outbox[q])
    BY <1>1, <2>1, <2>2, <2>5 DEF ApprovalRow
  <2> QED
    BY <2>3, <2>4, <2>5
<1>3. CASE q # r
  BY <1>3 DEF TypeOK, ApprovalRow
<1> QED
  BY <1>2, <1>3

\* ... nor does a transaction that rolls back.
LEMMA RolledBack ==
  ASSUME TypeOK, NEW c \in Call, RollBack(c), NEW q \in Request, ApprovalRow(q)'
  PROVE  ApprovalRow(q)
<1>1. CASE outbox' = outbox
  BY <1>1 DEF ApprovalRow
<1>2. CASE outbox' # outbox
  <2>1. call[c] \in Busy
    BY <1>2, InFlight, IdleIsNotBusy DEF RollBack
  <2>2. PICK r \in Request : r = call[c].req
    BY <2>1 DEF Busy
  <2>3. PICK p \in DOMAIN outbox[r] :
          outbox' = [outbox EXCEPT ![r] = Without(outbox[r], p)]
    BY <1>2, <2>2 DEF RollBack
  <2>4. outbox[r] \in Seq(OutboxRow) /\ p \in 1..Len(outbox[r])
    BY <2>3 DEF TypeOK
  <2>5. CASE q = r
    <3>1. outbox'[q] = Without(outbox[q], p)
      BY <2>3, <2>5 DEF TypeOK
    <3>2. PICK i \in DOMAIN outbox'[q] : outbox'[q][i].event = "request.approved"
      BY DEF ApprovalRow
    <3>3. i \in 1..(Len(outbox[q]) - 1)
      BY <3>1, <3>2 DEF Without
    <3>4. outbox'[q][i] = IF i < p THEN outbox[q][i] ELSE outbox[q][i + 1]
      BY <2>4, <2>5, <3>1, <3>3, WithoutType
    <3>5. i \in DOMAIN outbox[q] /\ i + 1 \in DOMAIN outbox[q]
      BY <2>4, <2>5, <3>3
    <3> QED BY <3>2, <3>4, <3>5 DEF ApprovalRow
  <2>6. CASE q # r
    BY <2>3, <2>6 DEF TypeOK, ApprovalRow
  <2> QED BY <2>5, <2>6
<1> QED BY <1>1, <1>2

\* A step that records no final approval and forgets no signature keeps
\* ChainApproved.
LEMMA NoNewApproval ==
  ASSUME ChainApproved, approvals \subseteq approvals',
         \A r \in Request : EverApproved(r)' => EverApproved(r)
  PROVE  ChainApproved'
<1> SUFFICES ASSUME NEW r \in Request, EverApproved(r)'
             PROVE  ChainUpTo(r, MaxStep(TypeOf[r]))'
  BY DEF ChainApproved
<1>1. ChainUpTo(r, MaxStep(TypeOf[r]))
  BY DEF ChainApproved
<1> QED
  BY <1>1, SignedStays

\* A step that records no decision and hands out no new call.
LEMMA QuietStep ==
  ASSUME ChainInv, TypeOK', approvals' = approvals, currentStep' = currentStep,
         \A q \in Request : EverApproved(q)' => EverApproved(q),
         \A c \in ApiCall : call'[c] = call[c] \/ call'[c] = Idle
  PROVE  ChainInv'
<1>2. StepsEarned'
  BY SignedStays DEF ChainInv, StepsEarned
<1>3. ReadsEarned'
  <2> SUFFICES ASSUME NEW c \in ApiCall, call'[c] # Idle
               PROVE  ChainUpTo(call[c].req, call[c].step - 1)' /\ call'[c] = call[c]
    BY DEF ReadsEarned, ChainUpTo, Signed
  <2>1. call'[c] = call[c]
    OBVIOUS
  <2> QED
    BY <2>1, SignedStays DEF ChainInv, ReadsEarned, ChainUpTo, Signed
<1>4. ClearedChecked'
  BY IdleIsNotBusy DEF ChainInv, ClearedChecked, Cleared, SodOk, SodSubject, MayDecide
<1>5. ChainApproved'
  BY NoNewApproval DEF ChainInv
<1> QED
  BY <1>2, <1>3, <1>4, <1>5 DEF ChainInv

\* A load puts the row's current step, which is earned, into the call.
LEMMA LoadChain ==
  ASSUME ChainInv, TypeOK', NEW c \in ApiCall, NEW k \in Busy,
         call' = [call EXCEPT ![c] = k],
         k.step = currentStep[k.req],
         ~(k.pc \in {"cleared", "begun"} /\ k.op = "approve"),
         UNCHANGED <<row, facts, hooks>>
  PROVE  ChainInv'
<1>1. approvals' = approvals /\ currentStep' = currentStep
      /\ outbox' = outbox /\ grants' = grants /\ domain' = domain
  BY DEF row, facts, hooks
<1>2. StepsEarned'
  BY <1>1, SignedStays DEF ChainInv, StepsEarned
<1>3. call'[c] = k /\ \A d \in ApiCall : d # c => call'[d] = call[d]
  BY DEF ChainInv, TypeOK, Call
<1>4. ReadsEarned'
  <2>1. ChainUpTo(k.req, k.step - 1)
    BY DEF ChainInv, StepsEarned, Busy
  <2>2. ASSUME NEW d \in ApiCall, call'[d] # Idle
        PROVE  ChainUpTo(call'[d].req, call'[d].step - 1)
    BY <1>3, <2>1, <2>2 DEF ChainInv, ReadsEarned
  <2> QED
    BY <1>1, <2>2 DEF ReadsEarned, ChainUpTo, Signed
<1>5. ClearedChecked'
  BY <1>3 DEF ChainInv, ClearedChecked, Cleared, SodOk, SodSubject, MayDecide
<1>6. ChainApproved'
  BY <1>1, NoNewApproval DEF ChainInv, EverApproved
<1> QED
  BY <1>2, <1>4, <1>5, <1>6 DEF ChainInv

\* A call that opens its transaction has passed its checks before.
LEMMA BeginChain ==
  ASSUME ChainInv, TypeOK', NEW c \in Call, Begin(c)
  PROVE  ChainInv'
<1>0. TypeOK
  BY DEF ChainInv
<1>1. PICK k \in Busy :
        /\ call' = [call EXCEPT ![c] = k]
        /\ call[c] \in Busy /\ k.pc = "begun"
        /\ k.op = call[c].op /\ k.actor = call[c].actor /\ k.via = call[c].via
        /\ k.step = call[c].step /\ k.req = call[c].req
  BY <1>0, BeginCall
<1>2. call'[c] = k /\ \A d \in ApiCall : d # c => call'[d] = call[d]
  BY <1>0, <1>1 DEF TypeOK, Call
<1>3. approvals' = approvals /\ currentStep' = currentStep
      /\ grants' = grants /\ domain' = domain
  BY DEF Begin, row, hooks
<1>4. \A q \in Request : EverApproved(q)' => EverApproved(q)
  <2>1. PICK r \in Request : r = call[c].req
    BY <1>1 DEF Busy
  <2>2. outbox' = [outbox EXCEPT ![r] = Append(@, Place(c))]
    BY <2>1 DEF Begin
  <2>3. Place(c) \in OutboxRow /\ Place(c).event # "request.approved"
    BY DEF Place, OutboxRow
  <2>4. \A q \in Request : ApprovalRow(q)' => ApprovalRow(q)
    BY <1>0, <2>2, <2>3, OtherPlace
  <2> QED BY <1>3, <2>4 DEF EverApproved, ApprovalRow
<1>5. StepsEarned'
  BY <1>3, SignedStays DEF ChainInv, StepsEarned
<1>6. ReadsEarned'
  <2>1. ASSUME NEW d \in ApiCall, call'[d] # Idle
        PROVE  ChainUpTo(call'[d].req, call'[d].step - 1)
    BY <1>1, <1>2, <2>1, IdleIsNotBusy DEF ChainInv, ReadsEarned
  <2> QED
    BY <1>3, <2>1 DEF ReadsEarned, ChainUpTo, Signed
<1>7. ClearedChecked'
  <2>1. ASSUME NEW d \in ApiCall, Cleared(d, "approve")'
        PROVE  /\ SodOk(call'[d].req, call'[d].actor, call'[d].via)
               /\ MayDecide(call'[d].req, call'[d].step, call'[d].actor, call'[d].via)
    <3>1. CASE d # c
      BY <1>2, <2>1, <3>1 DEF ChainInv, ClearedChecked, Cleared
    <3>2. CASE d = c
      <4>1. Cleared(c, "approve")
        BY <1>1, <1>2, <2>1, <3>2 DEF Cleared, Begin
      <4> QED BY <1>1, <1>2, <3>2, <4>1 DEF ChainInv, ClearedChecked
    <3> QED BY <3>1, <3>2
  <2> QED
    BY <2>1 DEF ClearedChecked, SodOk, SodSubject, MayDecide
<1>8. ChainApproved'
  BY <1>3, <1>4, NoNewApproval DEF ChainInv
<1> QED
  BY <1>5, <1>6, <1>7, <1>8 DEF ChainInv

LEMMA AuthorizeChain ==
  ASSUME ChainInv, TypeOK', NEW c \in ApiCall, Authorize(c)
  PROVE  ChainInv'
<1>1. PICK v \in ActiveDelegation(call[c].actor) :
        /\ SodOk(call[c].req, call[c].actor, v)
        /\ MayDecide(call[c].req, call[c].step, call[c].actor, v)
        /\ call' = [call EXCEPT ![c].pc = "cleared", ![c].via = v]
  BY DEF Authorize
<1>2. c \in Call /\ call[c] \in Busy /\ call[c] # Idle
  BY InFlight, IdleIsNotBusy DEF Authorize, Call, ChainInv
<1>3. /\ call'[c] = [call[c] EXCEPT !.pc = "cleared", !.via = v]
      /\ \A d \in ApiCall : d # c => call'[d] = call[d]
  BY <1>1, <1>2 DEF ChainInv, TypeOK, Call
<1>4. /\ call'[c].req = call[c].req /\ call'[c].step = call[c].step
      /\ call'[c].actor = call[c].actor /\ call'[c].via = v
  BY <1>2, <1>3 DEF Busy
<1>5. approvals' = approvals /\ currentStep' = currentStep
      /\ outbox' = outbox /\ grants' = grants /\ domain' = domain
  BY DEF Authorize, row, facts, hooks
<1>6. StepsEarned'
  BY <1>5, SignedStays DEF ChainInv, StepsEarned
<1>7. ReadsEarned'
  <2>1. ASSUME NEW d \in ApiCall, call'[d] # Idle
        PROVE  ChainUpTo(call'[d].req, call'[d].step - 1)
    BY <1>2, <1>3, <1>4, <2>1 DEF ChainInv, ReadsEarned
  <2> QED
    BY <1>5, <2>1 DEF ReadsEarned, ChainUpTo, Signed
<1>8. ClearedChecked'
  <2>1. ASSUME NEW d \in ApiCall, d # c, Cleared(d, "approve")'
        PROVE  /\ SodOk(call'[d].req, call'[d].actor, call'[d].via)
               /\ MayDecide(call'[d].req, call'[d].step, call'[d].actor, call'[d].via)
    BY <1>3, <2>1 DEF ChainInv, ClearedChecked, Cleared
  <2>2. /\ SodOk(call'[c].req, call'[c].actor, call'[c].via)
        /\ MayDecide(call'[c].req, call'[c].step, call'[c].actor, call'[c].via)
    BY <1>1, <1>4
  <2> QED
    BY <2>1, <2>2 DEF ClearedChecked, SodOk, SodSubject, MayDecide
<1>9. ChainApproved'
  BY <1>5, NoNewApproval DEF ChainInv, EverApproved
<1> QED
  BY <1>6, <1>7, <1>8, <1>9 DEF ChainInv

\* A transaction: a call ends, signatures stay, the row's step is earned and
\* a final approval has its chain.
LEMMA CommitChain ==
  ASSUME ChainInv, TypeOK', NEW c \in Call,
         call' = [call EXCEPT ![c] = Idle],
         approvals \subseteq approvals',
         StepsEarned', ChainApproved'
  PROVE  ChainInv'
<1>1. \A d \in ApiCall : call'[d] = call[d] \/ call'[d] = Idle
  BY DEF ChainInv, TypeOK, Call
<1>2. ReadsEarned'
  <2>1. ASSUME NEW d \in ApiCall, call'[d] # Idle
        PROVE  ChainUpTo(call[d].req, call[d].step - 1) /\ call'[d] = call[d]
    BY <1>1, <2>1 DEF ChainInv, ReadsEarned
  <2> QED
    BY <2>1 DEF ReadsEarned, ChainUpTo, Signed
<1>3. ClearedChecked'
  BY <1>1, IdleIsNotBusy
     DEF ChainInv, ClearedChecked, Cleared, SodOk, SodSubject, MayDecide
<1> QED
  BY <1>2, <1>3 DEF ChainInv

\* The row an approval transaction inserts signs the step the call read.
LEMMA ApprovalSigns ==
  ASSUME ChainInv, NEW c \in ApiCall, Cleared(c, "approve"),
         RecordDecision(call[c], "approved"),
         NEW r, NEW s, r = call[c].req, s = call[c].step
  PROVE  /\ approvals \subseteq approvals'
         /\ ChainUpTo(r, s)'
<1> DEFINE k == call[c]
<1>0. TypeOK
  BY DEF ChainInv
<1>1. k # Idle /\ r \in Request /\ s \in 1..3
  BY <1>0, ClearedCall
<1>2. approvals \subseteq approvals'
  BY DEF RecordDecision
<1>3. SodOk(r, k.actor, k.via) /\ MayDecide(r, s, k.actor, k.via)
  BY DEF ChainInv, ClearedChecked
<1>4. ChainUpTo(r, s - 1)
  BY <1>1 DEF ChainInv, ReadsEarned
<1>5. ASSUME NEW i \in 1..s PROVE \E a \in approvals' :
        /\ a.req = r /\ a.step = i /\ a.decision = "approved"
        /\ SodOk(r, a.approver, a.via)
        /\ MayDecide(r, i, a.approver, a.via)
  <2>1. CASE i = s
    <3> DEFINE a == [req |-> r, step |-> s, approver |-> k.actor, via |-> k.via,
                     decision |-> "approved"]
    <3>1. a \in approvals'
      BY DEF RecordDecision
    <3>2. /\ a.req = r /\ a.step = i /\ a.decision = "approved"
          /\ SodOk(r, a.approver, a.via)
          /\ MayDecide(r, i, a.approver, a.via)
      BY <1>3, <2>1
    <3> HIDE DEF a
    <3> QED
      BY <3>1, <3>2
  <2>2. CASE i # s
    <3>1. i \in 1..(s - 1)
      BY <1>1, <2>2
    <3> QED
      BY <1>2, <1>4, <3>1 DEF ChainUpTo, Signed
  <2> QED
    BY <2>1, <2>2
<1>6. ChainUpTo(r, s)'
  BY <1>5 DEF ChainUpTo, Signed, SodOk, SodSubject, MayDecide
<1> QED
  BY <1>2, <1>6

LEMMA ApproveStepChain ==
  ASSUME ChainInv, TypeOK', NEW c \in ApiCall, ApproveStep(c)
  PROVE  ChainInv'
<1>0. TypeOK /\ Cleared(c, "approve") /\ RecordDecision(call[c], "approved")
  BY OpenIsCleared DEF ApproveStep, ChainInv
<1>1. PICK r, s : r = call[c].req /\ s = call[c].step
  OBVIOUS
<1>2. c \in Call /\ r \in Request /\ s \in 1..3
  BY <1>0, <1>1, ClearedCall
<1>3. approvals \subseteq approvals' /\ ChainUpTo(r, s)'
  BY <1>0, <1>1, ApprovalSigns
<1>4. StepsEarned'
  <2>1. ASSUME NEW q \in Request PROVE ChainUpTo(q, currentStep[q] - 1)'
    <3>1. CASE q = r
      <4>1. currentStep'[q] = s + 1 /\ (s + 1) - 1 = s
        BY <1>1, <1>2, <3>1 DEF ApproveStep, UpdateItem, ChainInv, TypeOK
      <4> QED
        BY <1>3, <3>1, <4>1 DEF ChainUpTo
    <3>2. CASE q # r
      <4>1. currentStep'[q] = currentStep[q]
        BY <1>1, <1>2, <3>2 DEF ApproveStep, UpdateItem, ChainInv, TypeOK
      <4>2. ChainUpTo(q, currentStep[q] - 1)
        BY DEF ChainInv, StepsEarned
      <4> QED
        BY <1>3, <4>1, <4>2 DEF ChainUpTo, Signed
    <3> QED
      BY <3>1, <3>2
  <2> QED
    BY <2>1 DEF StepsEarned, ChainUpTo
<1>5. ChainApproved'
  <2>1. Enqueue(c, "request.step_approved") /\ domain' = domain /\ grants' = grants
    BY <1>1 DEF ApproveStep, hooks
  <2>2. "request.step_approved" \in Event
    BY DEF Event
  <2>3. \A q \in Request : ApprovalRow(q)' => ApprovalRow(q)
    BY <1>0, <1>1, <1>2, <2>1, <2>2, OtherEvent
  <2>4. \A q \in Request : EverApproved(q)' => EverApproved(q)
    BY <2>1, <2>3 DEF EverApproved, ApprovalRow
  <2> QED
    BY <1>3, <2>4, NoNewApproval DEF ChainInv
<1>6. call' = [call EXCEPT ![c] = Idle]
  BY DEF ApproveStep
<1> QED
  BY <1>2, <1>3, <1>4, <1>5, <1>6, CommitChain

LEMMA ApproveFinalChain ==
  ASSUME ChainInv, TypeOK', NEW c \in ApiCall, ApproveFinal(c)
  PROVE  ChainInv'
<1>0. TypeOK /\ Cleared(c, "approve") /\ RecordDecision(call[c], "approved")
  BY OpenIsCleared DEF ApproveFinal, ChainInv
<1>1. PICK r, s : r = call[c].req /\ s = call[c].step
  OBVIOUS
<1>2. c \in Call /\ r \in Request /\ s \in 1..3 /\ s \in Steps(r)
  BY <1>0, <1>1, ClearedCall
<1>3. approvals \subseteq approvals' /\ ChainUpTo(r, s)'
  BY <1>0, <1>1, ApprovalSigns
<1>4. s = MaxStep(TypeOf[r])
  BY <1>1, <1>2, MaxStepType DEF ApproveFinal, IsFinalStep, Steps
<1>5. StepsEarned'
  <2>1. ASSUME NEW q \in Request PROVE ChainUpTo(q, currentStep[q] - 1)'
    <3>1. CASE q = r
      <4>1. currentStep'[q] = s
        BY <1>1, <1>2, <3>1 DEF ApproveFinal, UpdateItem, ChainInv, TypeOK
      <4> QED
        BY <1>2, <1>3, <3>1, <4>1 DEF ChainUpTo
    <3>2. CASE q # r
      <4>1. currentStep'[q] = currentStep[q]
        BY <1>1, <1>2, <3>2 DEF ApproveFinal, UpdateItem, ChainInv, TypeOK
      <4>2. ChainUpTo(q, currentStep[q] - 1)
        BY DEF ChainInv, StepsEarned
      <4> QED
        BY <1>3, <4>1, <4>2 DEF ChainUpTo, Signed
    <3> QED
      BY <3>1, <3>2
  <2> QED
    BY <2>1 DEF StepsEarned, ChainUpTo
<1>6. ChainApproved'
  <2> SUFFICES ASSUME NEW q \in Request, EverApproved(q)'
               PROVE  ChainUpTo(q, MaxStep(TypeOf[q]))'
    BY DEF ChainApproved
  <2>1. CASE q = r
    BY <1>3, <1>4, <2>1
  <2>2. CASE q # r
    <3>1. outbox'[q] = outbox[q] /\ domain'[q] = domain[q] /\ grants'[q] = grants[q]
      <4>1. outbox'[q] = outbox[q]
        BY <1>0, <1>1, <1>2, <2>2 DEF ApproveFinal, Enqueue, TypeOK
      <4>2. domain'[q] = domain[q] /\ grants'[q] = grants[q]
        BY <1>0, <1>1, <1>2, <2>2 DEF ApproveFinal, TypeOK
      <4> QED BY <4>1, <4>2
    <3>2. EverApproved(q)
      BY <3>1 DEF EverApproved
    <3> QED
      BY <1>3, <3>2, SignedStays DEF ChainInv, ChainApproved
  <2> QED
    BY <2>1, <2>2
<1>7. call' = [call EXCEPT ![c] = Idle]
  BY DEF ApproveFinal
<1> QED
  BY <1>2, <1>3, <1>5, <1>6, <1>7, CommitChain

\* Transactions that resolve a request other than by approving it.
LEMMA OtherResolutionChain ==
  ASSUME ChainInv, TypeOK', NEW c \in Call, NEW r \in Request, NEW st, NEW e \in Event,
         r = call[c].req, UpdateItem(r, st, currentStep[r], TRUE),
         e # "request.approved", Enqueue(c, e),
         \A q \in Request : domain'[q] = "approved" => domain[q] = "approved",
         grants' = grants, approvals \subseteq approvals',
         call' = [call EXCEPT ![c] = Idle]
  PROVE  ChainInv'
<1>0. TypeOK
  BY DEF ChainInv
<1>1. \A q \in Request : currentStep'[q] = currentStep[q]
  BY <1>0 DEF UpdateItem, TypeOK
<1>2. StepsEarned'
  BY <1>1 DEF ChainInv, StepsEarned, ChainUpTo, Signed
<1>3. \A q \in Request : EverApproved(q)' => EverApproved(q)
  <2>1. \A q \in Request : ApprovalRow(q)' => ApprovalRow(q)
    BY <1>0, OtherEvent
  <2> QED BY <2>1 DEF EverApproved, ApprovalRow
<1>4. ChainApproved'
  BY <1>3, NoNewApproval DEF ChainInv
<1> QED
  BY <1>2, <1>4, CommitChain

LEMMA RejectChain ==
  ASSUME ChainInv, TypeOK', NEW c \in ApiCall, Reject(c)
  PROVE  ChainInv'
<1>0. TypeOK /\ Cleared(c, "reject")
  BY OpenIsCleared DEF Reject, ChainInv
<1>1. PICK r : r = call[c].req
  OBVIOUS
<1>2. c \in Call /\ r \in Request
  BY <1>0, <1>1, ClearedCall
<1>3. /\ UpdateItem(r, "rejected", currentStep[r], TRUE)
      /\ Enqueue(c, "request.rejected")
      /\ grants' = grants /\ approvals \subseteq approvals'
      /\ call' = [call EXCEPT ![c] = Idle]
  BY <1>1 DEF Reject, RecordDecision
<1>4. \A q \in Request : domain'[q] = "approved" => domain[q] = "approved"
  BY <1>0, <1>1, <1>2 DEF Reject, OnRejectDomain, TypeOK
<1>5. "request.rejected" \in Event
  BY DEF Event
<1> QED
  BY <1>1, <1>2, <1>3, <1>4, <1>5, OtherResolutionChain

LEMMA CancelChain ==
  ASSUME ChainInv, TypeOK', NEW c \in ApiCall, Cancel(c)
  PROVE  ChainInv'
<1>0. TypeOK /\ Cleared(c, "cancel")
  BY OpenIsCleared DEF Cancel, ChainInv
<1>1. PICK r : r = call[c].req
  OBVIOUS
<1>2. c \in Call /\ r \in Request
  BY <1>0, <1>1, ClearedCall
<1>3. /\ UpdateItem(r, "cancelled", currentStep[r], TRUE)
      /\ Enqueue(c, "request.cancelled")
      /\ grants' = grants /\ approvals \subseteq approvals'
      /\ call' = [call EXCEPT ![c] = Idle]
  BY <1>1 DEF Cancel
<1>4. \A q \in Request : domain'[q] = "approved" => domain[q] = "approved"
  BY <1>0, <1>1, <1>2 DEF Cancel, OnCancelDomain, TypeOK
<1>5. "request.cancelled" \in Event
  BY DEF Event
<1> QED
  BY <1>1, <1>2, <1>3, <1>4, <1>5, OtherResolutionChain

LEMMA ExpireChain ==
  ASSUME ChainInv, TypeOK', Expire
  PROVE  ChainInv'
<1>0. TypeOK
  BY DEF ChainInv
<1>1. PICK r : r = call[Cron].req
  OBVIOUS
<1>2. Cron \in Call /\ r \in Request
  <2>1. Cron \in Call /\ call[Cron].pc # "idle"
    BY DEF Expire, InTransaction, Call
  <2> QED
    BY <1>0, <1>1, <2>1, InFlight DEF Busy
<1>3. /\ UpdateItem(r, "expired", currentStep[r], TRUE)
      /\ Enqueue(Cron, "request.expired")
      /\ grants' = grants /\ approvals \subseteq approvals'
      /\ call' = [call EXCEPT ![Cron] = Idle]
  BY <1>1 DEF Expire
<1>4. \A q \in Request : domain'[q] = "approved" => domain[q] = "approved"
  BY <1>0, <1>1, <1>2 DEF Expire, OnExpireDomain, HasDomainRow, TypeOK
<1>5. "request.expired" \in Event
  BY DEF Event
<1> QED
  BY <1>1, <1>2, <1>3, <1>4, <1>5, OtherResolutionChain

LEMMA SubmitChain ==
  ASSUME ChainInv, TypeOK', NEW r \in Request, Submit(r)
  PROVE  ChainInv'
<1>0. TypeOK
  BY DEF ChainInv
<1> DEFINE w == Committed("request.submitted", FALSE)
<1>1. /\ outbox' = [outbox EXCEPT ![r] = Append(@, w)]
      /\ w \in OutboxRow /\ w.event # "request.approved"
  BY CommittedType DEF Submit, Event, Committed
<1> HIDE DEF w
<1>2. approvals' = approvals /\ currentStep' = currentStep /\ call' = call /\ grants' = grants
  BY DEF Submit
<1>3. \A q \in Request : domain'[q] = "approved" => domain[q] = "approved"
  BY <1>0 DEF Submit, OnSubmitDomain, TypeOK
<1>4. \A q \in Request : EverApproved(q)' => EverApproved(q)
  <2>1. \A q \in Request : ApprovalRow(q)' => ApprovalRow(q)
    BY <1>0, <1>1, OtherPlace
  <2> QED BY <1>2, <1>3, <2>1 DEF EverApproved, ApprovalRow
<1>5. ChainApproved'
  BY <1>2, <1>4, NoNewApproval DEF ChainInv
<1>6. StepsEarned' /\ ReadsEarned' /\ ClearedChecked'
  BY <1>2 DEF ChainInv, StepsEarned, ReadsEarned, ClearedChecked, ChainUpTo, Signed,
              Cleared, SodOk, SodSubject, MayDecide
<1> QED
  BY <1>5, <1>6 DEF ChainInv

LEMMA InitChain == Init => ChainInv
<1> SUFFICES ASSUME Init PROVE ChainInv
  OBVIOUS
<1>1. TypeOK
  BY InitTypeOK
<1>2. \A c \in ApiCall : call[c] = Idle
  BY DEF Init, Call
<1>3. StepsEarned
  BY DEF Init, StepsEarned, ChainUpTo
<1>4. ReadsEarned /\ ClearedChecked
  BY <1>2, IdleIsNotBusy DEF ReadsEarned, ClearedChecked, Cleared
<1>5. ChainApproved
  BY DEF Init, ChainApproved, EverApproved
<1> QED
  BY <1>1, <1>3, <1>4, <1>5 DEF ChainInv

LEMMA NextChain == ChainInv /\ [Next]_vars => ChainInv'
<1> SUFFICES ASSUME ChainInv, [Next]_vars PROVE ChainInv'
  OBVIOUS
<1>0. TypeOK'
  BY NextTypeOK DEF ChainInv
<1>1. ASSUME NEW r \in Request, Submit(r) PROVE ChainInv'
  BY <1>0, <1>1, SubmitChain
<1>2. ASSUME NEW c \in ApiCall, NEW op, NEW r \in Request, NEW u \in User,
             LoadForDecision(c, op, r, u)
      PROVE  ChainInv'
  <2> DEFINE k == [pc |-> "read", op |-> op, req |-> r, step |-> currentStep[r],
                   actor |-> u, via |-> NoUser]
  <2>1. k \in Busy /\ k.step = currentStep[k.req] /\ k.pc = "read"
    BY <1>2 DEF LoadForDecision, Busy, ChainInv, TypeOK
  <2>2. call' = [call EXCEPT ![c] = k] /\ UNCHANGED <<row, facts, hooks>>
    BY <1>2 DEF LoadForDecision
  <2> HIDE DEF k
  <2> QED
    BY <1>0, <2>1, <2>2, LoadChain
<1>3. ASSUME NEW c \in ApiCall, NEW r \in Request, NEW u \in User,
             LoadForCancel(c, r, u)
      PROVE  ChainInv'
  <2> DEFINE k == [pc |-> "cleared", op |-> "cancel", req |-> r,
                   step |-> currentStep[r], actor |-> u, via |-> NoUser]
  <2>1. k \in Busy /\ k.step = currentStep[k.req] /\ k.op # "approve"
    BY <1>3 DEF LoadForCancel, Busy, ChainInv, TypeOK
  <2>2. call' = [call EXCEPT ![c] = k] /\ UNCHANGED <<row, facts, hooks>>
    BY <1>3 DEF LoadForCancel
  <2> HIDE DEF k
  <2> QED
    BY <1>0, <2>1, <2>2, LoadChain
<1>a. ASSUME NEW c \in Call, RollBack(c), UNCHANGED hooks
      PROVE  \A q \in Request : EverApproved(q)' => EverApproved(q)
  <2>1. \A q \in Request : ApprovalRow(q)' => ApprovalRow(q)
    BY <1>a, RolledBack DEF ChainInv
  <2> QED BY <1>a, <2>1 DEF EverApproved, ApprovalRow, hooks
<1>4. ASSUME NEW c \in Call, Fail(c) PROVE ChainInv'
  <2>1. approvals' = approvals /\ currentStep' = currentStep /\ RollBack(c) /\ UNCHANGED hooks
    BY <1>4 DEF Fail, row
  <2>2. \A d \in ApiCall : call'[d] = call[d] \/ call'[d] = Idle
    BY <1>4 DEF Fail, ChainInv, TypeOK, Call
  <2> QED
    BY <1>0, <1>a, <2>1, <2>2, QuietStep
<1>5. ASSUME NEW c \in ApiCall, ApiNext(c) PROVE ChainInv'
  <2>1. c \in Call
    BY DEF Call
  <2> QED
    BY <1>0, <1>2, <1>3, <1>4, <1>5, <2>1, AuthorizeChain, BeginChain, ApproveStepChain,
       ApproveFinalChain, RejectChain, CancelChain DEF ApiNext
<1>b. ASSUME UNCHANGED <<row, facts, hooks>>, \A d \in ApiCall : call'[d] = call[d]
      PROVE  ChainInv'
  <2>1. approvals' = approvals /\ currentStep' = currentStep
        /\ \A q \in Request : EverApproved(q)' => EverApproved(q)
    BY <1>b DEF row, facts, hooks, EverApproved
  <2> QED BY <1>0, <1>b, <2>1, QuietStep
<1>6. ASSUME SweepScan \/ (\E r \in Request : SweepTake(r)) PROVE ChainInv'
  <2>1. UNCHANGED <<row, facts, hooks>>
    BY <1>6 DEF SweepScan, SweepTake
  <2>2. \A d \in ApiCall : call'[d] = call[d]
    BY <1>6, EngineAssumption DEF SweepScan, SweepTake, ChainInv, TypeOK, Call
  <2> QED
    BY <1>b, <2>1, <2>2
<1>7. ASSUME WorkerRestart PROVE ChainInv'
  <2>1. /\ approvals' = approvals /\ currentStep' = currentStep
        /\ Cron \in Call /\ RollBack(Cron) /\ UNCHANGED hooks
    BY <1>7 DEF WorkerRestart, row, Call
  <2>2. \A d \in ApiCall : call'[d] = call[d]
    BY <1>7, EngineAssumption DEF WorkerRestart, ChainInv, TypeOK, Call
  <2> QED
    BY <1>0, <1>a, <2>1, <2>2, QuietStep
<1>8. CASE CronNext
  <2>1. Cron \in Call
    BY DEF Call
  <2> QED
    BY <1>0, <1>4, <1>6, <1>7, <1>8, <2>1, BeginChain, ExpireChain DEF CronNext
<1>9. ASSUME \/ \E r \in Request : PassDeadline(r)
             \/ \E d \in Delegable : DelegationStarts(d) \/ DelegationEnds(d)
             \/ UNCHANGED vars
      PROVE  ChainInv'
  <2>1. UNCHANGED <<row, facts, hooks>> /\ call' = call
    BY <1>9 DEF PassDeadline, DelegationStarts, DelegationEnds, vars, row, facts, hooks
  <2> QED
    BY <1>b, <2>1
<1> QED
  BY <1>1, <1>5, <1>8, <1>9 DEF Next

\* However approve, reject, cancel and expire calls interleave, and whatever
\* delegations come and go meanwhile: a request whose final approval was ever
\* committed has an authorised approval on record for every step of its chain.
THEOREM ChainApprovedAlways == Spec => []ChainApproved
<1>1. ChainInv => ChainApproved
  BY DEF ChainInv
<1> QED
  BY <1>1, InitChain, NextChain, PTL DEF Spec

-----------------------------------------------------------------------------
(* The columns of a row agree.  Inductive with the type invariant: every   *)
(* transaction sets status, step and resolved_at together.                 *)

\* A transaction that leaves the row it updates consistent.
LEMMA UpdateConsistent ==
  ASSUME TypeOK, RowConsistent, NEW r \in Request, NEW st, NEW s, NEW done \in BOOLEAN,
         UpdateItem(r, st, s, done),
         done <=> st \in Terminal,
         st = "approved" => s = MaxStep(TypeOf[r]),
         st = "in_review" => s > 1,
         st \notin {"none", "pending"}
  PROVE  RowConsistent'
<1> SUFFICES ASSUME NEW q \in Request
             PROVE  /\ resolved'[q] <=> status'[q] \in Terminal
                    /\ status'[q] = "approved" => currentStep'[q] = MaxStep(TypeOf[q])
                    /\ status'[q] = "in_review" => currentStep'[q] > 1
                    /\ status'[q] \in {"none", "pending"} => currentStep'[q] = 1
  BY DEF RowConsistent
<1>1. CASE q = r
  <2>1. status'[q] = st /\ currentStep'[q] = s /\ resolved'[q] = done
    BY <1>1 DEF UpdateItem, TypeOK
  <2> QED
    BY <1>1, <2>1
<1>2. CASE q # r
  <2>1. /\ status'[q] = status[q] /\ currentStep'[q] = currentStep[q]
        /\ resolved'[q] = resolved[q]
    BY <1>2 DEF UpdateItem, TypeOK
  <2> QED
    BY <2>1 DEF RowConsistent
<1> QED
  BY <1>1, <1>2

\* The same for the transactions that resolve the request.
LEMMA ResolveConsistent ==
  ASSUME TypeOK, RowConsistent, NEW r \in Request, NEW st \in Terminal, NEW s,
         UpdateItem(r, st, s, TRUE),
         st = "approved" => s = MaxStep(TypeOf[r])
  PROVE  RowConsistent'
<1>1. st \notin {"none", "pending", "in_review"}
  BY DEF Terminal
<1>2. TRUE <=> st \in Terminal
  OBVIOUS
<1> QED
  BY <1>1, <1>2, UpdateConsistent

LEMMA InitRowConsistent == Init => RowConsistent
BY DEF Init, RowConsistent, Terminal

LEMMA NextRowConsistent == TypeOK /\ RowConsistent /\ [Next]_vars => RowConsistent'
<1> SUFFICES ASSUME TypeOK, RowConsistent, [Next]_vars PROVE RowConsistent'
  OBVIOUS
<1>0. ASSUME UNCHANGED row PROVE RowConsistent'
  BY <1>0 DEF row, RowConsistent
<1>1. ASSUME NEW r \in Request, Submit(r) PROVE RowConsistent'
  BY <1>1 DEF Submit, RowConsistent, TypeOK, Terminal
<1>2. ASSUME NEW c \in ApiCall, ApproveStep(c) PROVE RowConsistent'
  <2>1. Cleared(c, "approve") /\ UpdateItem(call[c].req, "in_review", call[c].step + 1, FALSE)
    BY <1>2, OpenIsCleared DEF ApproveStep
  <2>2. call[c].req \in Request /\ call[c].step \in 1..3
    BY <2>1, ClearedCall
  <2>3. call[c].step + 1 > 1 /\ "in_review" \notin Terminal
    BY <2>2 DEF Terminal
  <2> QED
    BY <2>1, <2>2, <2>3, UpdateConsistent
<1>3. ASSUME NEW c \in ApiCall, ApproveFinal(c) PROVE RowConsistent'
  <2>1. Cleared(c, "approve") /\ UpdateItem(call[c].req, "approved", call[c].step, TRUE)
    BY <1>3, OpenIsCleared DEF ApproveFinal
  <2>2. call[c].req \in Request /\ call[c].step \in Steps(call[c].req)
    BY <2>1, ClearedCall
  <2>3. call[c].step = MaxStep(TypeOf[call[c].req]) /\ "approved" \in Terminal
    BY <1>3, <2>2, MaxStepType DEF ApproveFinal, IsFinalStep, Steps, Terminal
  <2> QED
    BY <2>1, <2>2, <2>3, ResolveConsistent
<1>4. ASSUME NEW c \in ApiCall, Reject(c) PROVE RowConsistent'
  <2>1. /\ Cleared(c, "reject")
        /\ UpdateItem(call[c].req, "rejected", currentStep[call[c].req], TRUE)
    BY <1>4, OpenIsCleared DEF Reject
  <2>2. call[c].req \in Request /\ "rejected" \in Terminal
    BY <2>1, ClearedCall DEF Terminal
  <2> QED
    BY <2>1, <2>2, ResolveConsistent
<1>5. ASSUME NEW c \in ApiCall, Cancel(c) PROVE RowConsistent'
  <2>1. /\ Cleared(c, "cancel")
        /\ UpdateItem(call[c].req, "cancelled", currentStep[call[c].req], TRUE)
    BY <1>5, OpenIsCleared DEF Cancel
  <2>2. call[c].req \in Request /\ "cancelled" \in Terminal
    BY <2>1, ClearedCall DEF Terminal
  <2> QED
    BY <2>1, <2>2, ResolveConsistent
<1>6. ASSUME Expire PROVE RowConsistent'
  <2>1. /\ Cron \in Call /\ call[Cron].pc # "idle"
        /\ UpdateItem(call[Cron].req, "expired", currentStep[call[Cron].req], TRUE)
    BY <1>6 DEF Expire, InTransaction, Call
  <2>2. call[Cron].req \in Request /\ "expired" \in Terminal
    BY <2>1, InFlight DEF Busy, Terminal
  <2> QED
    BY <2>1, <2>2, ResolveConsistent
<1>7. ASSUME NEW c \in ApiCall, ApiNext(c) PROVE RowConsistent'
  BY <1>0, <1>2, <1>3, <1>4, <1>5, <1>7
     DEF ApiNext, LoadForDecision, LoadForCancel, Authorize, Begin, Fail
<1>8. CASE CronNext
  BY <1>0, <1>6, <1>8 DEF CronNext, SweepScan, SweepTake, WorkerRestart, Begin, Fail
<1>9. CASE UNCHANGED vars
  BY <1>0, <1>9 DEF vars, row
<1> QED
  BY <1>0, <1>1, <1>7, <1>8, <1>9
     DEF Next, PassDeadline, DelegationStarts, DelegationEnds

\* The status, step and resolution time of every request row agree under every
\* interleaving, stale overwrites included.
THEOREM RowConsistentAlways == Spec => []RowConsistent
BY InitRowConsistent, NextRowConsistent, TypeCorrect, PTL DEF Spec

-----------------------------------------------------------------------------
(* What is announced is what the row says.  OutcomeAnnounced is not        *)
(* inductive: an open transaction is going to put its event at the place   *)
(* it keeps, before rows that are committed by then.  The strengthening    *)
(* says that such rows are marked as crossed (Sound), and that there is    *)
(* no place for a request that does not exist.                             *)

Sound(s) ==
  \A i \in DOMAIN s : s[i].tx # {} =>
    /\ s[i].event = "none"
    /\ \A j \in DOMAIN s : (i < j /\ s[j].event # "none") => s[j].crossed

\* The event read last in s is e, or was committed while an earlier transaction
\* was open.
Announces(s, e) ==
  \E i \in DOMAIN s :
    /\ s[i].event # "none"
    /\ \A j \in DOMAIN s : j > i => s[j].event = "none"
    /\ s[i].event = e \/ s[i].crossed

\* A transaction that begins comes last and has announced nothing yet.
LEMMA PlaceKeeps ==
  ASSUME NEW s \in Seq(OutboxRow), NEW w \in OutboxRow, w.event = "none", Sound(s)
  PROVE  /\ Sound(Append(s, w))
         /\ \A e : Announces(s, e) => Announces(Append(s, w), e)
<1> DEFINE t == Append(s, w)
<1>1. /\ Len(s) \in Nat /\ DOMAIN s = 1..Len(s) /\ DOMAIN t = 1..(Len(s) + 1)
      /\ \A i \in 1..Len(s) : t[i] = s[i]
      /\ t[Len(s) + 1] = w
  OBVIOUS
<1> HIDE DEF t
<1>2. Sound(t)
  <2> SUFFICES ASSUME NEW i \in DOMAIN t, t[i].tx # {}
               PROVE  /\ t[i].event = "none"
                      /\ \A j \in DOMAIN t : (i < j /\ t[j].event # "none") => t[j].crossed
    BY DEF Sound
  <2>1. CASE i = Len(s) + 1
    BY <1>1, <2>1
  <2>2. CASE i \in 1..Len(s)
    <3>1. s[i].tx # {} /\ i \in DOMAIN s
      BY <1>1, <2>2
    <3>2. /\ s[i].event = "none"
          /\ \A j \in DOMAIN s : (i < j /\ s[j].event # "none") => s[j].crossed
      BY <3>1 DEF Sound
    <3> QED BY <1>1, <2>2, <3>2
  <2> QED BY <1>1, <2>1, <2>2
<1>3. ASSUME NEW e, Announces(s, e) PROVE Announces(t, e)
  <2>1. PICK i \in DOMAIN s :
          /\ s[i].event # "none"
          /\ \A j \in DOMAIN s : j > i => s[j].event = "none"
          /\ s[i].event = e \/ s[i].crossed
    BY <1>3 DEF Announces
  <2>2. i \in DOMAIN t /\ t[i] = s[i]
    BY <1>1
  <2>3. \A j \in DOMAIN t : j > i => t[j].event = "none"
    BY <1>1, <2>1
  <2> QED BY <2>1, <2>2, <2>3 DEF Announces
<1> QED BY <1>2, <1>3 DEF t

\* A transaction that commits announces its event, unless one that began after
\* it has committed before it, and then that one is marked.
LEMMA CommitKeeps ==
  ASSUME NEW s \in Seq(OutboxRow), NEW p \in DOMAIN s, s[p].tx # {}, Sound(s),
         NEW w \in OutboxRow, w.tx = {}, w.event # "none",
         (\E q \in 1..(p - 1) : s[q].tx # {}) => w.crossed
  PROVE  /\ Sound([s EXCEPT ![p] = w])
         /\ \A e : Announces(s, e) => Announces([s EXCEPT ![p] = w], w.event)
<1> DEFINE t == [s EXCEPT ![p] = w]
<1>1. /\ Len(s) \in Nat /\ DOMAIN s = 1..Len(s) /\ DOMAIN t = DOMAIN s
      /\ t[p] = w /\ \A i \in DOMAIN s : i # p => t[i] = s[i]
  OBVIOUS
<1> HIDE DEF t
<1>2. Sound(t)
  <2> SUFFICES ASSUME NEW i \in DOMAIN t, t[i].tx # {}
               PROVE  /\ t[i].event = "none"
                      /\ \A j \in DOMAIN t : (i < j /\ t[j].event # "none") => t[j].crossed
    BY DEF Sound
  <2>1. i # p /\ t[i] = s[i] /\ i \in DOMAIN s
    BY <1>1
  <2>2. /\ s[i].event = "none"
        /\ \A j \in DOMAIN s : (i < j /\ s[j].event # "none") => s[j].crossed
    BY <2>1 DEF Sound
  <2>3. ASSUME NEW j \in DOMAIN t, i < j, t[j].event # "none" PROVE t[j].crossed
    <3>1. CASE j = p
      <4>1. i \in 1..(p - 1)
        BY <1>1, <2>1, <2>3, <3>1
      <4>2. \E q \in 1..(p - 1) : s[q].tx # {}
        BY <2>1, <4>1
      <4> QED BY <1>1, <3>1, <4>2
    <3>2. CASE j # p
      BY <1>1, <2>2, <2>3, <3>2
    <3> QED BY <3>1, <3>2
  <2> QED BY <2>1, <2>2, <2>3
<1>3. ASSUME NEW e, Announces(s, e) PROVE Announces(t, w.event)
  <2>1. PICK i \in DOMAIN s :
          /\ s[i].event # "none"
          /\ \A j \in DOMAIN s : j > i => s[j].event = "none"
          /\ s[i].event = e \/ s[i].crossed
    BY <1>3 DEF Announces
  <2>2. s[p].event = "none"
        /\ \A j \in DOMAIN s : (p < j /\ s[j].event # "none") => s[j].crossed
    BY DEF Sound
  <2>3. i # p
    BY <2>1, <2>2
  <2>4. CASE i < p
    <3>1. p \in DOMAIN t /\ t[p].event = w.event /\ t[p].event # "none"
      BY <1>1
    <3>2. \A j \in DOMAIN t : j > p => t[j].event = "none"
      BY <1>1, <2>1, <2>4
    <3> QED BY <3>1, <3>2 DEF Announces
  <2>5. CASE p < i
    <3>1. i \in DOMAIN t /\ t[i] = s[i] /\ t[i].crossed
      BY <1>1, <2>1, <2>2, <2>3, <2>5
    <3>2. \A j \in DOMAIN t : j > i => t[j].event = "none"
      BY <1>1, <2>1, <2>5
    <3> QED BY <2>1, <3>1, <3>2 DEF Announces
  <2> QED BY <1>1, <2>3, <2>4, <2>5
<1> QED BY <1>2, <1>3 DEF t

\* A transaction that rolls back has announced nothing.
LEMMA WithoutKeeps ==
  ASSUME NEW s \in Seq(OutboxRow), NEW p \in DOMAIN s, s[p].tx # {}, Sound(s)
  PROVE  /\ Sound(Without(s, p))
         /\ \A e : Announces(s, e) => Announces(Without(s, p), e)
<1> DEFINE t == Without(s, p)
           old(i) == IF i < p THEN i ELSE i + 1
<1>1. p \in 1..Len(s) /\ Len(s) \in Nat /\ DOMAIN s = 1..Len(s)
  OBVIOUS
<1>2. DOMAIN t = 1..(Len(s) - 1)
  BY DEF Without
<1>3. \A i \in 1..(Len(s) - 1) : t[i] = s[old(i)] /\ old(i) \in 1..Len(s)
  BY <1>1 DEF Without
<1>4. \A i, j \in 1..(Len(s) - 1) : i < j => old(i) < old(j)
  BY <1>1
<1> HIDE DEF t, old
<1>5. Sound(t)
  <2> SUFFICES ASSUME NEW i \in DOMAIN t, t[i].tx # {}
               PROVE  /\ t[i].event = "none"
                      /\ \A j \in DOMAIN t : (i < j /\ t[j].event # "none") => t[j].crossed
    BY DEF Sound
  <2>1. t[i] = s[old(i)] /\ old(i) \in DOMAIN s
    BY <1>1, <1>2, <1>3
  <2>2. /\ s[old(i)].event = "none"
        /\ \A j \in DOMAIN s : (old(i) < j /\ s[j].event # "none") => s[j].crossed
    BY <2>1 DEF Sound
  <2>3. ASSUME NEW j \in DOMAIN t, i < j, t[j].event # "none" PROVE t[j].crossed
    BY <1>1, <1>2, <1>3, <1>4, <2>2, <2>3
  <2> QED BY <2>1, <2>2, <2>3
<1>6. ASSUME NEW e, Announces(s, e) PROVE Announces(t, e)
  <2>1. PICK i \in DOMAIN s :
          /\ s[i].event # "none"
          /\ \A j \in DOMAIN s : j > i => s[j].event = "none"
          /\ s[i].event = e \/ s[i].crossed
    BY <1>6 DEF Announces
  <2>2. i # p
    BY <2>1 DEF Sound
  <2> DEFINE n == IF i < p THEN i ELSE i - 1
  <2>3. n \in 1..(Len(s) - 1) /\ old(n) = i
    BY <1>1, <2>2 DEF old
  <2> HIDE DEF n
  <2>4. n \in DOMAIN t /\ t[n] = s[i]
    BY <1>2, <1>3, <2>3
  <2>5. ASSUME NEW j \in DOMAIN t, j > n PROVE t[j].event = "none"
    <3>1. old(j) > i /\ old(j) \in DOMAIN s /\ t[j] = s[old(j)]
      BY <1>1, <1>2, <1>3, <1>4, <2>3, <2>5
    <3> QED BY <2>1, <3>1
  <2> QED BY <2>1, <2>4, <2>5 DEF Announces
<1> QED BY <1>5, <1>6 DEF t

Trail(r) ==
  /\ Sound(outbox[r])
  /\ status[r] = "none" => outbox[r] = <<>>
  /\ status[r] # "none" => Announces(outbox[r], EventOf(status[r]))

Notified(r) == status[r] \in {"approved", "rejected"} => status[r] \in notes[r]

CallsOpen == \A c \in Call : call[c] # Idle => status[call[c].req] # "none"

AnnounceInv ==
  TypeOK /\ CallsOpen /\ \A r \in Request : Trail(r) /\ Notified(r)

LEMMA AnnounceInvHolds == AnnounceInv => OutcomeAnnounced
<1> SUFFICES ASSUME AnnounceInv, NEW r \in Request
             PROVE  /\ status[r] # "none" =>
                         \E i \in DOMAIN outbox[r] :
                           /\ ReadLast(r, i)
                           /\ outbox[r][i].event = EventOf(status[r]) \/ outbox[r][i].crossed
                    /\ status[r] \in {"approved", "rejected"} => status[r] \in notes[r]
  BY DEF OutcomeAnnounced
<1>1. Trail(r) /\ Notified(r)
  BY DEF AnnounceInv
<1>2. ASSUME status[r] # "none"
      PROVE  \E i \in DOMAIN outbox[r] :
               /\ ReadLast(r, i)
               /\ outbox[r][i].event = EventOf(status[r]) \/ outbox[r][i].crossed
  <2> DEFINE ev == EventOf(status[r])
  <2>1. Announces(outbox[r], ev)
    BY <1>1, <1>2 DEF Trail
  <2> HIDE DEF ev
  <2>2. \E i \in DOMAIN outbox[r] : ReadLast(r, i) /\ (outbox[r][i].event = ev \/ outbox[r][i].crossed)
    BY <2>1 DEF Announces, ReadLast
  <2> QED BY <2>2 DEF ev
<1> QED BY <1>1, <1>2 DEF Notified

\* A transaction that sets request r to st and announces st.
LEMMA CommitTrail ==
  ASSUME AnnounceInv, TypeOK', NEW c \in Call, NEW r \in Request, r = call[c].req,
         call[c] # Idle, NEW st \in Open \cup Terminal, NEW e \in Event, EventOf(st) = e,
         status' = [status EXCEPT ![r] = st], Enqueue(c, e),
         call' = [call EXCEPT ![c] = Idle],
         \A q \in Request : notes[q] \subseteq notes'[q],
         st \in {"approved", "rejected"} => st \in notes'[r]
  PROVE  AnnounceInv'
<1>0. TypeOK /\ st # "none" /\ e # "none"
  BY DEF AnnounceInv, Open, Terminal, Event
<1>1. PICK p \in DOMAIN outbox[r] :
        /\ outbox[r][p].tx = {c}
        /\ outbox' = [outbox EXCEPT ![r][p] = Committed(e, EarlierOpen(r, p))]
  BY DEF Enqueue
<1> DEFINE w == Committed(e, EarlierOpen(r, p))
<1>2. /\ outbox' = [outbox EXCEPT ![r] = [outbox[r] EXCEPT ![p] = w]]
      /\ w.tx = {} /\ w.event = e
      /\ (\E q \in 1..(p - 1) : outbox[r][q].tx # {}) => w.crossed
  BY <1>1 DEF Committed, EarlierOpen
<1>3. w \in OutboxRow
  BY CommittedType DEF EarlierOpen
<1> HIDE DEF w
<1>4. outbox[r] \in Seq(OutboxRow) /\ outbox[r][p].tx # {}
  BY <1>0, <1>1 DEF TypeOK
<1>5. /\ outbox'[r] = [outbox[r] EXCEPT ![p] = w] /\ status'[r] = st
      /\ \A q \in Request : q # r => outbox'[q] = outbox[q] /\ status'[q] = status[q]
  BY <1>0, <1>2 DEF TypeOK
<1>6. Trail(r) /\ Announces(outbox[r], EventOf(status[r]))
  <2>1. status[r] # "none"
    BY DEF AnnounceInv, CallsOpen
  <2> QED BY <2>1 DEF AnnounceInv, Trail
<1>7. Sound(outbox'[r]) /\ Announces(outbox'[r], e)
  <2>1. Sound(outbox[r])
    BY <1>6 DEF Trail
  <2>2. /\ Sound([outbox[r] EXCEPT ![p] = w])
        /\ \A d : Announces(outbox[r], d) => Announces([outbox[r] EXCEPT ![p] = w], w.event)
    BY <1>0, <1>2, <1>3, <1>4, <2>1, CommitKeeps
  <2> QED BY <1>2, <1>5, <1>6, <2>2
<1>8. ASSUME NEW q \in Request PROVE Trail(q)'
  <2>1. CASE q = r
    BY <1>0, <1>5, <1>7, <2>1 DEF Trail, Sound, Announces, EventOf
  <2>2. CASE q # r
    <3>1. Trail(q)
      BY DEF AnnounceInv
    <3> QED BY <1>5, <2>2, <3>1 DEF Trail, Sound, Announces, EventOf
  <2> QED BY <2>1, <2>2
<1>9. ASSUME NEW q \in Request PROVE Notified(q)'
  <2>1. Notified(q) /\ notes[q] \subseteq notes'[q]
    BY DEF AnnounceInv
  <2> QED BY <1>5, <2>1 DEF Notified
<1>10. CallsOpen'
  <2>1. \A d \in Call : call'[d] = call[d] \/ call'[d] = Idle
    BY <1>0 DEF TypeOK
  <2> SUFFICES ASSUME NEW d \in Call, call'[d] # Idle PROVE status'[call'[d].req] # "none"
    BY DEF CallsOpen
  <2>2. PICK q : q = call[d].req
    OBVIOUS
  <2>3. call'[d] = call[d] /\ status[q] # "none" /\ q \in Request
    BY <1>0, <2>1, <2>2 DEF AnnounceInv, CallsOpen, TypeOK, Busy
  <2> QED BY <1>0, <1>5, <2>2, <2>3
<1> QED BY <1>8, <1>9, <1>10 DEF AnnounceInv

\* A step that leaves statuses, events and notifications alone.
LEMMA QuietTrail ==
  ASSUME AnnounceInv, TypeOK', status' = status, outbox' = outbox, notes' = notes,
         \A d \in Call : call'[d] # Idle => status[call'[d].req] # "none"
  PROVE  AnnounceInv'
<1>1. \A q \in Request : Trail(q)' /\ Notified(q)'
  BY DEF AnnounceInv, Trail, Notified, Sound, Announces, EventOf
<1>2. CallsOpen'
  BY DEF CallsOpen
<1> QED BY <1>1, <1>2 DEF AnnounceInv

\* A transaction that opens, or that is rolled back.
LEMMA UnannouncedTrail ==
  ASSUME AnnounceInv, TypeOK', NEW c \in Call, status' = status, notes' = notes,
         Begin(c) \/ (RollBack(c) /\ call' = [call EXCEPT ![c] = Idle])
  PROVE  AnnounceInv'
<1>0. TypeOK
  BY DEF AnnounceInv
<1>1. CallsOpen'
  <2>1. CASE Begin(c)
    <3>1. PICK k \in Busy : call' = [call EXCEPT ![c] = k] /\ k.req = call[c].req /\ call[c] \in Busy
      BY <1>0, <2>1, BeginCall
    <3>2. call[c] # Idle
      BY <3>1, IdleIsNotBusy
    <3>3. \A d \in Call : call'[d] # Idle => call[d] # Idle /\ call'[d].req = call[d].req
      BY <1>0, <3>1, <3>2 DEF TypeOK
    <3> QED BY <3>3 DEF AnnounceInv, CallsOpen
  <2>2. CASE RollBack(c) /\ call' = [call EXCEPT ![c] = Idle]
    <3>1. \A d \in Call : call'[d] # Idle => call'[d] = call[d]
      BY <1>0, <2>2 DEF TypeOK
    <3> QED BY <3>1 DEF AnnounceInv, CallsOpen
  <2> QED BY <2>1, <2>2
<1>2. ASSUME NEW q \in Request PROVE Trail(q)'
  <2>0. Trail(q) /\ outbox[q] \in Seq(OutboxRow)
    BY <1>0 DEF AnnounceInv, TypeOK
  <2>1. CASE outbox'[q] = outbox[q]
    BY <2>0, <2>1 DEF Trail, Sound, Announces, EventOf
  <2>2. CASE outbox'[q] # outbox[q]
    <3>1. call[c] \in Busy
      BY <1>0, <2>2, InFlight, IdleIsNotBusy DEF Begin, RollBack
    <3>2. PICK r \in Request : r = call[c].req
      BY <3>1 DEF Busy
    <3>3. \/ outbox' = [outbox EXCEPT ![r] = Append(@, Place(c))]
          \/ \E p \in DOMAIN outbox[r] :
               outbox[r][p].tx = {c} /\ outbox' = [outbox EXCEPT ![r] = Without(outbox[r], p)]
      BY <2>2, <3>2 DEF Begin, RollBack
    <3>4. q = r /\ status[q] # "none"
      <4>1. q = r
        BY <1>0, <2>2, <3>3 DEF TypeOK
      <4> QED BY <3>1, <3>2, <4>1, IdleIsNotBusy DEF AnnounceInv, CallsOpen
    <3>5. /\ Sound(outbox'[q])
          /\ \A e : Announces(outbox[q], e) => Announces(outbox'[q], e)
      <4>1. Sound(outbox[q])
        BY <2>0 DEF Trail
      <4>2. CASE outbox' = [outbox EXCEPT ![r] = Append(@, Place(c))]
        <5>1. Place(c) \in OutboxRow /\ Place(c).event = "none"
          BY DEF Place, OutboxRow
        <5>2. outbox'[q] = Append(outbox[q], Place(c))
          BY <1>0, <3>4, <4>2 DEF TypeOK
        <5> QED BY <2>0, <4>1, <5>1, <5>2, PlaceKeeps
      <4>3. ASSUME NEW p \in DOMAIN outbox[r], outbox[r][p].tx = {c},
                   outbox' = [outbox EXCEPT ![r] = Without(outbox[r], p)]
            PROVE  /\ Sound(outbox'[q])
                   /\ \A e : Announces(outbox[q], e) => Announces(outbox'[q], e)
        <5>1. outbox'[q] = Without(outbox[q], p) /\ outbox[q][p].tx # {}
          BY <1>0, <3>4, <4>3 DEF TypeOK
        <5> QED BY <2>0, <3>4, <4>1, <5>1, WithoutKeeps
      <4> QED BY <3>3, <4>2, <4>3
    <3> DEFINE ev == EventOf(status[q])
    <3>6. Announces(outbox'[q], ev)
      BY <2>0, <3>4, <3>5 DEF Trail
    <3> QED BY <3>4, <3>5, <3>6 DEF Trail, Sound, Announces, EventOf
  <2> QED BY <2>1, <2>2
<1>3. \A q \in Request : Notified(q)'
  BY DEF AnnounceInv, Notified
<1> QED BY <1>1, <1>2, <1>3 DEF AnnounceInv

LEMMA SubmitTrail ==
  ASSUME AnnounceInv, TypeOK', NEW r \in Request, Submit(r)
  PROVE  AnnounceInv'
<1>0. TypeOK /\ outbox[r] = <<>> /\ notes' = notes
  BY DEF AnnounceInv, Trail, Submit
<1> DEFINE w == Committed("request.submitted", FALSE)
<1>1. outbox' = [outbox EXCEPT ![r] = Append(@, w)] /\ status' = [status EXCEPT ![r] = "pending"]
  BY DEF Submit
<1>2. w.event = "request.submitted" /\ w.tx = {}
  BY DEF Committed
<1> HIDE DEF w
<1>3. /\ outbox'[r] = <<w>> /\ status'[r] = "pending"
      /\ \A q \in Request : q # r => outbox'[q] = outbox[q] /\ status'[q] = status[q]
  BY <1>0, <1>1 DEF TypeOK
<1>4. ASSUME NEW q \in Request PROVE Trail(q)' /\ Notified(q)'
  <2>0. Trail(q) /\ Notified(q)
    BY DEF AnnounceInv
  <2>1. CASE q = r
    <3>1. DOMAIN outbox'[q] = {1} /\ outbox'[q][1] = w
      BY <1>3, <2>1
    <3>2. Sound(outbox'[q]) /\ Announces(outbox'[q], "request.submitted")
      BY <1>2, <3>1 DEF Sound, Announces
    <3>3. EventOf("pending") = "request.submitted"
      BY DEF EventOf
    <3> QED BY <1>3, <2>1, <3>2, <3>3 DEF Trail, Notified, Sound, Announces, EventOf
  <2>2. CASE q # r
    BY <1>0, <1>3, <2>0, <2>2 DEF Trail, Notified, Sound, Announces, EventOf
  <2> QED BY <2>1, <2>2
<1>5. CallsOpen'
  <2> SUFFICES ASSUME NEW d \in Call, call[d] # Idle PROVE status'[call[d].req] # "none"
    BY DEF CallsOpen, Submit
  <2>1. PICK q : q = call[d].req
    OBVIOUS
  <2>2. status[q] # "none" /\ q \in Request
    BY <1>0, <2>1 DEF AnnounceInv, CallsOpen, TypeOK, Busy
  <2> QED BY <1>3, <2>1, <2>2
<1> QED BY <1>4, <1>5 DEF AnnounceInv

\* The events that the engine's transactions enqueue belong to the statuses
\* they write.
LEMMA EventOfStatus ==
  /\ EventOf("pending") = "request.submitted"
  /\ EventOf("in_review") = "request.step_approved"
  /\ EventOf("approved") = "request.approved"
  /\ EventOf("rejected") = "request.rejected"
  /\ EventOf("cancelled") = "request.cancelled"
  /\ EventOf("expired") = "request.expired"
BY DEF EventOf

LEMMA InitAnnounced == Init => AnnounceInv
<1> SUFFICES ASSUME Init PROVE AnnounceInv
  OBVIOUS
<1>1. TypeOK
  BY InitTypeOK
<1>2. \A r \in Request : status[r] = "none" /\ outbox[r] = <<>>
  BY DEF Init
<1>3. \A r \in Request : Trail(r) /\ Notified(r)
  BY <1>2 DEF Trail, Notified, Sound
<1>4. CallsOpen
  BY DEF Init, CallsOpen
<1> QED BY <1>1, <1>3, <1>4 DEF AnnounceInv

LEMMA NextAnnounced == AnnounceInv /\ [Next]_vars => AnnounceInv'
<1> SUFFICES ASSUME AnnounceInv, [Next]_vars PROVE AnnounceInv'
  OBVIOUS
<1>0. TypeOK /\ TypeOK'
  BY NextTypeOK DEF AnnounceInv
<1>e. /\ {"request.step_approved", "request.approved", "request.rejected",
          "request.cancelled", "request.expired"} \subseteq Event
      /\ {"in_review", "approved", "rejected", "cancelled", "expired"}
           \subseteq Open \cup Terminal
  BY DEF Event, Open, Terminal
<1>1. ASSUME NEW r \in Request, Submit(r) PROVE AnnounceInv'
  BY <1>0, <1>1, SubmitTrail
<1>2. ASSUME NEW c \in ApiCall, ApproveStep(c) PROVE AnnounceInv'
  <2>1. c \in Call /\ call[c] # Idle /\ call[c].req \in Request
    BY <1>0, <1>2, OpenIsCleared, ClearedCall DEF ApproveStep
  <2>2. \A q \in Request : notes[q] \subseteq notes'[q]
    BY <1>0, <1>2, <2>1 DEF ApproveStep, TypeOK
  <2> QED
    BY <1>0, <1>2, <2>1, <2>2, <1>e, CommitTrail, EventOfStatus DEF ApproveStep, UpdateItem
<1>3. ASSUME NEW c \in ApiCall, ApproveFinal(c) PROVE AnnounceInv'
  <2>1. c \in Call /\ call[c] # Idle /\ call[c].req \in Request
    BY <1>0, <1>3, OpenIsCleared, ClearedCall DEF ApproveFinal
  <2>2. /\ \A q \in Request : notes[q] \subseteq notes'[q]
        /\ "approved" \in notes'[call[c].req]
    BY <1>0, <1>3, <2>1 DEF ApproveFinal, Notify, TypeOK
  <2> QED
    BY <1>0, <1>3, <2>1, <2>2, <1>e, CommitTrail, EventOfStatus DEF ApproveFinal, UpdateItem
<1>4. ASSUME NEW c \in ApiCall, Reject(c) PROVE AnnounceInv'
  <2>1. c \in Call /\ call[c] # Idle /\ call[c].req \in Request
    BY <1>0, <1>4, OpenIsCleared, ClearedCall DEF Reject
  <2>2. /\ \A q \in Request : notes[q] \subseteq notes'[q]
        /\ "rejected" \in notes'[call[c].req]
    BY <1>0, <1>4, <2>1 DEF Reject, Notify, TypeOK
  <2> QED
    BY <1>0, <1>4, <2>1, <2>2, <1>e, CommitTrail, EventOfStatus DEF Reject, UpdateItem
<1>5. ASSUME NEW c \in ApiCall, Cancel(c) PROVE AnnounceInv'
  <2>1. c \in Call /\ call[c] # Idle /\ call[c].req \in Request
    BY <1>0, <1>5, OpenIsCleared, ClearedCall DEF Cancel
  <2> QED
    BY <1>0, <1>5, <2>1, <1>e, CommitTrail, EventOfStatus DEF Cancel, UpdateItem
<1>6. ASSUME Expire PROVE AnnounceInv'
  <2>1. Cron \in Call /\ call[Cron].pc # "idle"
    BY <1>6 DEF Expire, InTransaction, Call
  <2>2. call[Cron].req \in Request /\ call[Cron] # Idle
    BY <1>0, <2>1, InFlight, IdleIsNotBusy DEF Busy
  <2> QED
    BY <1>0, <1>6, <2>1, <2>2, <1>e, CommitTrail, EventOfStatus DEF Expire, UpdateItem
<1>7. ASSUME NEW c \in Call, Begin(c) \/ Fail(c) PROVE AnnounceInv'
  BY <1>0, <1>7, UnannouncedTrail DEF Begin, Fail, row
<1>8. ASSUME UNCHANGED <<row, facts>>,
             \A d \in Call : call'[d] # Idle =>
               \/ call[d] # Idle /\ call'[d].req = call[d].req
               \/ status[call'[d].req] \in Open
      PROVE  AnnounceInv'
  <2>1. \A d \in Call : call'[d] # Idle => status[call'[d].req] # "none"
    BY <1>8 DEF AnnounceInv, CallsOpen, Open
  <2> QED BY <1>0, <1>8, <2>1, QuietTrail DEF row, facts
<1>9. ASSUME NEW c \in ApiCall, ApiNext(c) PROVE AnnounceInv'
  <2>1. c \in Call
    BY DEF Call
  <2>2. ASSUME NEW r \in Request, NEW u \in User,
               (\E op : LoadForDecision(c, op, r, u)) \/ LoadForCancel(c, r, u)
        PROVE  AnnounceInv'
    <3>1. UNCHANGED <<row, facts>> /\ status[r] \in Open
      BY <2>2 DEF LoadForDecision, LoadForCancel
    <3>2. \A d \in Call : call'[d] = call[d] \/ call'[d].req = r
      BY <1>0, <2>1, <2>2 DEF LoadForDecision, LoadForCancel, TypeOK
    <3>3. \A d \in Call : call'[d] # Idle =>
            \/ call[d] # Idle /\ call'[d].req = call[d].req
            \/ status[call'[d].req] \in Open
      BY <3>1, <3>2
    <3> QED BY <1>8, <3>1, <3>3
  <2>3. ASSUME Authorize(c) PROVE AnnounceInv'
    <3>1. UNCHANGED <<row, facts>> /\ call[c] \in Busy
      BY <1>0, <2>1, <2>3, InFlight DEF Authorize
    <3>2. PICK v : call' = [call EXCEPT ![c].pc = "cleared", ![c].via = v]
      BY <2>3 DEF Authorize
    <3>3. call'[c].req = call[c].req /\ \A d \in Call : d # c => call'[d] = call[d]
      BY <1>0, <2>1, <3>1, <3>2 DEF TypeOK, Busy
    <3>4. \A d \in Call : call'[d] # Idle => call[d] # Idle /\ call'[d].req = call[d].req
      BY <3>1, <3>3, IdleIsNotBusy
    <3> QED BY <1>8, <3>1, <3>4
  <2> QED
    BY <1>2, <1>3, <1>4, <1>5, <1>7, <1>9, <2>1, <2>2, <2>3 DEF ApiNext
<1>10. ASSUME SweepScan \/ (\E r \in Request : SweepTake(r)) PROVE AnnounceInv'
  <2>1. UNCHANGED <<row, facts>>
    BY <1>10 DEF SweepScan, SweepTake
  <2>2. \A d \in Call : call'[d] # Idle =>
          \/ call[d] # Idle /\ call'[d].req = call[d].req
          \/ status[call'[d].req] \in Open
    <3>1. CASE SweepScan
      BY <3>1 DEF SweepScan
    <3>2. ASSUME NEW r \in Request, SweepTake(r)
          PROVE  \A d \in Call : call'[d] = call[d] \/ (call'[d].req = r /\ status[r] \in Open)
      <4>1. CASE call' = call
        BY <4>1
      <4>2. CASE call' # call
        <5> DEFINE k == [pc |-> "cleared", op |-> "expire", req |-> r,
                         step |-> currentStep[r], actor |-> NoUser, via |-> NoUser]
        <5>1. status[r] \in Open /\ call' = [call EXCEPT ![Cron] = k] /\ k.req = r
          BY <3>2, <4>2 DEF SweepTake
        <5> HIDE DEF k
        <5> QED BY <1>0, <5>1 DEF TypeOK
      <4> QED BY <4>1, <4>2
    <3> QED BY <1>10, <3>1, <3>2
  <2> QED BY <1>8, <2>1, <2>2
<1>11. ASSUME WorkerRestart PROVE AnnounceInv'
  <2>1. Cron \in Call
    BY DEF Call
  <2> QED BY <1>0, <1>11, <2>1, UnannouncedTrail DEF WorkerRestart, row
<1>12. CASE CronNext
  <2>1. Cron \in Call
    BY DEF Call
  <2> QED BY <1>6, <1>7, <1>10, <1>11, <1>12, <2>1 DEF CronNext
<1>13. ASSUME \/ \E r \in Request : PassDeadline(r)
              \/ \E d \in Delegable : DelegationStarts(d) \/ DelegationEnds(d)
              \/ UNCHANGED vars
       PROVE  AnnounceInv'
  <2>1. UNCHANGED <<row, facts>> /\ call' = call
    BY <1>13 DEF PassDeadline, DelegationStarts, DelegationEnds, vars, row, facts
  <2> QED BY <1>8, <2>1
<1> QED
  BY <1>1, <1>9, <1>12, <1>13 DEF Next

\* Whoever replays the outbox events of a request in the order the relay reads
\* them in ends in the status its row has, unless the event read last was
\* committed across an earlier open transaction, and a decision that stands has
\* been notified, however decisions overwrite each other
\* (request-engine.service.ts: approve, reject, cancel and expire).
THEOREM OutcomeAnnouncedAlways == Spec => []OutcomeAnnounced
<1>1. Spec => []AnnounceInv
  BY InitAnnounced, NextAnnounced, PTL DEF Spec
<1> QED BY <1>1, AnnounceInvHolds, PTL

-----------------------------------------------------------------------------
(* The engine implements the request life cycle, with any number of calls  *)
(* in flight: a load is a look at the request, a transaction a decision on *)
(* what was seen, and a failure a look away.                               *)

Seen == [c \in Call |-> Snapshot(call[c])]

LEMMA SeenStep ==
  ASSUME TypeOK, NEW c \in Call, NEW k, call' = [call EXCEPT ![c] = k]
  PROVE  Seen' = [Seen EXCEPT ![c] = Snapshot(k)]
<1>1. \A d \in Call : call'[d] = IF d = c THEN k ELSE call[d]
  BY DEF TypeOK
<1>2. \A d \in Call : Snapshot(call'[d]) = IF d = c THEN Snapshot(k) ELSE Snapshot(call[d])
  BY <1>1
<1>3. Seen' = [d \in Call |-> Snapshot(call'[d])]
  BY DEF Seen, Snapshot
<1> HIDE DEF Snapshot
<1> QED BY <1>2, <1>3 DEF Seen

\* A call that goes on with the request and step it has is not noticed.
LEMMA SeenStays ==
  ASSUME TypeOK, NEW c \in Call, call[c] \in Busy, NEW k \in Busy,
         call' = [call EXCEPT ![c] = k], k.req = call[c].req, k.step = call[c].step
  PROVE  Seen' = Seen
<1>1. Snapshot(k) = Snapshot(call[c])
  BY IdleIsNotBusy DEF Snapshot
<1>2. Seen' = [Seen EXCEPT ![c] = Snapshot(k)]
  BY SeenStep
<1> QED BY <1>1, <1>2 DEF Seen

LEMMA SeenInFlight ==
  ASSUME NEW c \in Call, call[c] \in Busy
  PROVE  /\ Seen[c] # Idle
         /\ Seen[c].req = call[c].req /\ Seen[c].step = call[c].step
<1>1. Seen[c] = [req |-> call[c].req, step |-> call[c].step]
  BY IdleIsNotBusy DEF Seen, Snapshot
<1>2. DOMAIN Idle = {"pc"} /\ DOMAIN Seen[c] = {"req", "step"}
  BY <1>1 DEF Idle
<1>3. Seen[c] # Idle
  BY <1>2
<1> QED BY <1>1, <1>3

LEMMA SnapshotIdle == Snapshot(Idle) = Idle
BY DEF Snapshot

\* A transaction's call, as the life cycle sees it.
LEMMA Decides ==
  ASSUME TypeOK, NEW c \in Call, call[c].pc = "begun",
         call' = [call EXCEPT ![c] = Idle]
  PROVE  /\ call[c].req \in Request
         /\ Seen[c] # Idle
         /\ Seen[c].req = call[c].req /\ Seen[c].step = call[c].step
         /\ Seen' = [Seen EXCEPT ![c] = Idle]
<1>1. call[c] \in Busy
  BY InFlight
<1>2. Seen' = [Seen EXCEPT ![c] = Idle]
  BY SeenStep, SnapshotIdle
<1> QED BY <1>1, <1>2, SeenInFlight DEF Busy

LEMMA CloseMaps ==
  ASSUME TypeOK, NEW c \in Call, NEW o \in {"rejected", "cancelled", "expired"},
         NEW op, InTransaction(c, op),
         UpdateItem(call[c].req, o, currentStep[call[c].req], TRUE),
         call' = [call EXCEPT ![c] = Idle]
  PROVE  Lifecycle!Next
<1>1. /\ call[c].req \in Request
      /\ Seen[c] # Idle /\ Seen[c].req = call[c].req
      /\ Seen' = [Seen EXCEPT ![c] = Idle]
  BY Decides DEF InTransaction
<1>2. status' = [status EXCEPT ![Seen[c].req] = o] /\ currentStep' = currentStep
  BY <1>1 DEF UpdateItem, TypeOK
<1>3. Lifecycle!Close(c, o)
  BY <1>1, <1>2 DEF Lifecycle!Close, Seen
<1> QED BY <1>3 DEF Lifecycle!Next

LEMMA LookMaps ==
  ASSUME TypeOK, NEW c \in Call, NEW r \in Request, NEW k \in Busy,
         call[c] = Idle, status[r] \in Open,
         call' = [call EXCEPT ![c] = k], k.req = r, k.step = currentStep[r],
         UNCHANGED row
  PROVE  Lifecycle!Next
<1>1. Snapshot(k) = [req |-> r, step |-> currentStep[r]]
  BY IdleIsNotBusy DEF Snapshot
<1>2. Seen' = [Seen EXCEPT ![c] = [req |-> r, step |-> currentStep[r]]]
  BY <1>1, SeenStep
<1>3. Seen[c] = Idle
  BY SnapshotIdle DEF Seen
<1>4. Lifecycle!Look(c, r)
  BY <1>2, <1>3 DEF Lifecycle!Look, Lifecycle!Open, Open, Seen, row
<1> QED BY <1>4 DEF Lifecycle!Next

LEMMA LookAwayMaps ==
  ASSUME TypeOK, NEW c \in Call, call' = [call EXCEPT ![c] = Idle], UNCHANGED row
  PROVE  Lifecycle!Next
<1>1. Seen' = [Seen EXCEPT ![c] = Idle]
  BY SeenStep, SnapshotIdle
<1>2. Lifecycle!LookAway(c)
  BY <1>1 DEF Lifecycle!LookAway, Seen, row
<1> QED BY <1>2 DEF Lifecycle!Next

LEMMA InitLifecycle == Init => Lifecycle!Init
BY DEF Init, Lifecycle!Init, Snapshot

LEMMA NextLifecycle ==
  TypeOK /\ [Next]_vars => [Lifecycle!Next]_<<status, currentStep, Seen>>
<1> SUFFICES ASSUME TypeOK, [Next]_vars
             PROVE  Lifecycle!Next \/ UNCHANGED <<status, currentStep, Seen>>
  OBVIOUS
<1>1. ASSUME NEW r \in Request, Submit(r) PROVE Lifecycle!Next
  <2>1. Seen' = Seen
    BY <1>1 DEF Submit, Seen, Snapshot
  <2>2. Lifecycle!Submit(r)
    BY <1>1, <2>1 DEF Submit, Lifecycle!Submit, Seen
  <2> QED BY <2>2 DEF Lifecycle!Next
<1>2. ASSUME NEW c \in Call, NEW r \in Request, NEW u, NEW op, LoadForDecision(c, op, r, u),
             u \in User
      PROVE  Lifecycle!Next
  <2> DEFINE k == [pc |-> "read", op |-> op, req |-> r, step |-> currentStep[r],
                   actor |-> u, via |-> NoUser]
  <2>1. k \in Busy /\ k.req = r /\ k.step = currentStep[r]
    BY <1>2 DEF LoadForDecision, Busy, TypeOK
  <2>2. /\ call' = [call EXCEPT ![c] = k] /\ UNCHANGED row
        /\ call[c] = Idle /\ status[r] \in Open
    BY <1>2 DEF LoadForDecision
  <2> HIDE DEF k
  <2> QED BY <2>1, <2>2, LookMaps
<1>3. ASSUME NEW c \in Call, NEW r \in Request, NEW u \in User, LoadForCancel(c, r, u)
      PROVE  Lifecycle!Next
  <2> DEFINE k == [pc |-> "cleared", op |-> "cancel", req |-> r,
                   step |-> currentStep[r], actor |-> u, via |-> NoUser]
  <2>1. k \in Busy /\ k.req = r /\ k.step = currentStep[r]
    BY <1>3 DEF LoadForCancel, Busy, TypeOK
  <2>2. /\ call' = [call EXCEPT ![c] = k] /\ UNCHANGED row
        /\ call[c] = Idle /\ status[r] \in Open
    BY <1>3 DEF LoadForCancel
  <2> HIDE DEF k
  <2> QED BY <2>1, <2>2, LookMaps
<1>4. ASSUME NEW c \in Call, Authorize(c)
      PROVE  UNCHANGED <<status, currentStep, Seen>>
  <2>1. PICK v \in ActiveDelegation(call[c].actor) :
          call' = [call EXCEPT ![c].pc = "cleared", ![c].via = v]
    BY <1>4 DEF Authorize
  <2> DEFINE k == [call[c] EXCEPT !.pc = "cleared", !.via = v]
  <2>2. call[c] \in Busy /\ v \in User \cup {NoUser}
    BY <1>4, <2>1, InFlight, ActiveDelegationType DEF Authorize
  <2>3. call' = [call EXCEPT ![c] = k]
    BY <2>1, <2>2 DEF TypeOK
  <2>4. k \in Busy /\ k.req = call[c].req /\ k.step = call[c].step
    BY <2>2 DEF Busy
  <2> HIDE DEF k
  <2>5. Seen' = Seen
    BY <2>2, <2>3, <2>4, SeenStays
  <2> QED BY <1>4, <2>5 DEF Authorize, row
<1>5. ASSUME NEW c \in Call, Begin(c)
      PROVE  UNCHANGED <<status, currentStep, Seen>>
  <2>1. PICK k \in Busy :
          /\ call' = [call EXCEPT ![c] = k] /\ call[c] \in Busy
          /\ k.step = call[c].step /\ k.req = call[c].req
    BY <1>5, BeginCall
  <2>2. Seen' = Seen
    BY <2>1, SeenStays
  <2> QED BY <1>5, <2>2 DEF Begin, row
<1>6. ASSUME NEW c \in Call, Fail(c) PROVE Lifecycle!Next
  BY <1>6, LookAwayMaps DEF Fail
<1>7. ASSUME NEW c \in Call, ApproveStep(c), call[c].step \in 1..3 PROVE Lifecycle!Next
  <2>1. /\ call[c].req \in Request
        /\ Seen[c] # Idle /\ Seen[c].req = call[c].req /\ Seen[c].step = call[c].step
        /\ Seen' = [Seen EXCEPT ![c] = Idle]
    BY <1>7, Decides DEF ApproveStep, InTransaction
  <2>2. /\ status' = [status EXCEPT ![Seen[c].req] = "in_review"]
        /\ currentStep' = [currentStep EXCEPT ![Seen[c].req] = Seen[c].step + 1]
    BY <1>7, <2>1 DEF ApproveStep, UpdateItem
  <2>3. Seen[c].step < MaxStep(TypeOf[Seen[c].req])
    BY <1>7, <2>1, MaxStepType DEF ApproveStep, IsFinalStep
  <2>4. Lifecycle!Advance(c)
    BY <2>1, <2>2, <2>3 DEF Lifecycle!Advance, Seen
  <2> QED BY <2>4 DEF Lifecycle!Next
<1>8. ASSUME NEW c \in Call, ApproveFinal(c), call[c].step \in Steps(call[c].req)
      PROVE  Lifecycle!Next
  <2>1. /\ call[c].req \in Request
        /\ Seen[c] # Idle /\ Seen[c].req = call[c].req /\ Seen[c].step = call[c].step
        /\ Seen' = [Seen EXCEPT ![c] = Idle]
    BY <1>8, Decides DEF ApproveFinal, InTransaction
  <2>2. /\ status' = [status EXCEPT ![Seen[c].req] = "approved"]
        /\ currentStep' = [currentStep EXCEPT ![Seen[c].req] = Seen[c].step]
    BY <1>8, <2>1 DEF ApproveFinal, UpdateItem
  <2>3. Seen[c].step = MaxStep(TypeOf[Seen[c].req])
    BY <1>8, <2>1, MaxStepType DEF ApproveFinal, IsFinalStep, Steps
  <2>4. Lifecycle!Approve(c)
    BY <2>1, <2>2, <2>3 DEF Lifecycle!Approve, Seen
  <2> QED BY <2>4 DEF Lifecycle!Next
<1>9. ASSUME NEW c \in Call, Reject(c) \/ Cancel(c) PROVE Lifecycle!Next
  BY <1>9, CloseMaps DEF Reject, Cancel
<1>10. ASSUME Expire PROVE Lifecycle!Next
  BY <1>10, CloseMaps DEF Expire, Call
<1>11. ASSUME NEW c \in ApiCall, ApiNext(c)
       PROVE  Lifecycle!Next \/ UNCHANGED <<status, currentStep, Seen>>
  <2>1. c \in Call
    BY DEF Call
  <2>2. ASSUME ApproveStep(c) \/ ApproveFinal(c)
        PROVE  call[c].step \in 1..3 /\ call[c].step \in Steps(call[c].req)
    BY <2>2, OpenIsCleared, ClearedCall DEF ApproveStep, ApproveFinal
  <2> QED
    BY <1>2, <1>3, <1>4, <1>5, <1>6, <1>7, <1>8, <1>9, <1>11, <2>1, <2>2 DEF ApiNext
<1>12. ASSUME NEW r \in Request, SweepTake(r)
       PROVE  Lifecycle!Next \/ UNCHANGED <<status, currentStep, Seen>>
  <2>1. CASE call' = call
    BY <1>12, <2>1 DEF SweepTake, row, Seen, Snapshot
  <2>2. CASE call' # call
    <3> DEFINE k == [pc |-> "cleared", op |-> "expire", req |-> r,
                     step |-> currentStep[r], actor |-> NoUser, via |-> NoUser]
    <3>1. k \in Busy /\ k.req = r /\ k.step = currentStep[r]
      BY DEF Busy, TypeOK
    <3>2. /\ call' = [call EXCEPT ![Cron] = k] /\ UNCHANGED row
          /\ call[Cron] = Idle /\ status[r] \in Open /\ Cron \in Call
      BY <1>12, <2>2 DEF SweepTake, Call
    <3> HIDE DEF k
    <3> QED BY <3>1, <3>2, LookMaps
  <2> QED BY <2>1, <2>2
<1>13. CASE CronNext
  <2>1. Cron \in Call
    BY DEF Call
  <2>2. ASSUME SweepScan PROVE UNCHANGED <<status, currentStep, Seen>>
    BY <2>2 DEF SweepScan, row, Seen, Snapshot
  <2>3. ASSUME WorkerRestart PROVE Lifecycle!Next
    BY <2>1, <2>3, LookAwayMaps DEF WorkerRestart
  <2> QED BY <1>5, <1>6, <1>10, <1>12, <1>13, <2>1, <2>2, <2>3 DEF CronNext
<1>14. ASSUME \/ \E r \in Request : PassDeadline(r)
              \/ \E d \in Delegable : DelegationStarts(d) \/ DelegationEnds(d)
              \/ UNCHANGED vars
       PROVE  UNCHANGED <<status, currentStep, Seen>>
  BY <1>14 DEF PassDeadline, DelegationStarts, DelegationEnds, vars, row, Seen, Snapshot
<1> QED
  BY <1>1, <1>11, <1>13, <1>14 DEF Next

\* However many calls are in flight: a request changes only by a call that has
\* read it while it was open, that decides on the step it read, once per read,
\* and approves only from the last step (request-engine.service.ts:127-163).
THEOREM EngineImplementsLifecycle == Spec => LifecycleSpec
<1>1. TypeOK /\ [Next]_vars =>
        [Lifecycle!Next]_<<status, currentStep, [c \in Call |-> Snapshot(call[c])]>>
  BY NextLifecycle DEF Seen
<1> QED
  BY <1>1, InitLifecycle, TypeCorrect, PTL DEF Spec, LifecycleSpec, Lifecycle!Spec
=============================================================================
