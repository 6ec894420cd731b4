--------------------------- MODULE DomainRequests ---------------------------
(***************************************************************************)
(* The domain side of the request engine: access requests and their        *)
(* grants, leave and overtime (AccessRequestService, WorkforceService),    *)
(* and the submissions that have no row of their own.                      *)
(*                                                                         *)
(* A submission writes the domain row, has the engine write its request    *)
(* and then stores the request's id in the row: three commits.  A review   *)
(* that finds a row without that id takes the "legacy" path and decides    *)
(* the row without the engine.  The engine decides by its own row alone,   *)
(* and its hooks overwrite the domain row by id.                           *)
(*                                                                         *)
(* Of the engine only what the domain rows see is here: load, check the    *)
(* status, commit by id.  Who may decide is RequestEngine's subject.       *)
(***************************************************************************)
EXTENDS RequestTypes, FiniteSets

CONSTANTS
  Item,        \* ids: a domain row, and the request its payload points from
  Employee,
  Day,         \* bound: the days leave can be asked for
  DomainCall,  \* requests in flight
  MaxOps       \* bound: operations altogether

ASSUME DomainAssumption ==
  /\ Day \subseteq Nat
  /\ MaxOps \in Nat

VARIABLES
  dom,        \* access_requests, leave_requests, overtime_entries
  eng,        \* request_items
  grants,     \* access_grants of each access request: how many rows
  revoked,    \* the grants among them with revoked_at set
  gone,       \* employees an approved request has offboarded
  dcall,      \* what each call in flight has read
  ops,        \* operations so far
  stale,      \* history: requests committed on a read that had gone stale
  legacy,     \* history: rows decided without the engine
  withdrawn,  \* history: leave taken back by cancelLeave
  blind,      \* history: leave inserted although it overlapped by then
  late        \* history: requests granted to an employee offboarded before

tables  == <<dom, eng, grants, revoked, gone>>
history == <<stale, legacy, withdrawn, blind, late>>
domVars == <<tables, dcall, ops, history>>

NoRow    == [status |-> "none"]
RowKind  == {t \in RequestType : HasDomainRow(t)}
EngOpen  == {"pending", "in_review"}
DIdle    == [pc |-> "idle"]

AccessRow ==
  [kind: {"access_request"}, emp: Employee, linked: BOOLEAN,
   status: {"pending", "approved", "rejected", "expired"}]

LeaveRow ==
  [kind: {"leave_request"}, emp: Employee, from: Day, to: Day, linked: BOOLEAN,
   status: {"pending", "approved", "rejected", "cancelled"}]

OvertimeRow ==
  [kind: {"overtime"}, emp: Employee, linked: BOOLEAN,
   status: {"pending", "approved", "rejected"}]

\* leaver: the employee an offboarding is about, nobody for the other types
EngRow ==
  [kind: RequestType, step: 1..3, leaver: SUBSET Employee,
   status: EngOpen \cup {"approved", "rejected", "cancelled", "expired"}]

DomInit ==
  /\ dom = [i \in Item |-> NoRow]
  /\ eng = [i \in Item |-> NoRow]
  /\ grants = [i \in Item |-> 0]
  /\ revoked = [i \in Item |-> {}] /\ gone = {}
  /\ dcall = [c \in DomainCall |-> DIdle]
  /\ ops = 0
  /\ stale = {} /\ legacy = {} /\ withdrawn = {} /\ blind = {} /\ late = {}

\* A call begins with its first statement.
Begin(c, k) ==
  /\ dcall[c] = DIdle
  /\ ops < MaxOps
  /\ ops' = ops + 1
  /\ dcall' = [dcall EXCEPT ![c] = k]

Goes(c, k) == dcall' = [dcall EXCEPT ![c] = k] /\ UNCHANGED ops

Ends(c) == Goes(c, DIdle)

\* newId(): an id no row has.
Fresh(i) == dom[i] = NoRow /\ eng[i] = NoRow

NewRequest(t, leaver) == [kind |-> t, step |-> 1, status |-> "pending", leaver |-> leaver]

-----------------------------------------------------------------------------
(* Submission.                                                             *)

\* Mutant: leave that ends on the first day asked for does not overlap.
OverlapsStrictly(e, a, b) ==
  \E i \in Item :
    /\ dom[i] # NoRow /\ dom[i].kind = "leave_request"
    /\ dom[i].emp = e
    /\ dom[i].status \in {"pending", "approved"}
    /\ dom[i].from < b /\ dom[i].to > a

\* hasOverlappingLeave.
Overlaps(e, a, b) ==
  \E i \in Item :
    /\ dom[i] # NoRow /\ dom[i].kind = "leave_request"
    /\ dom[i].emp = e
    /\ dom[i].status \in {"pending", "approved"}
    /\ dom[i].from <= b /\ dom[i].to >= a

NewRow(t, e) == [kind |-> t, emp |-> e, status |-> "pending", linked |-> FALSE]

NewLeave(e, a, b) ==
  [kind |-> "leave_request", emp |-> e, from |-> a, to |-> b, status |-> "pending",
   linked |-> FALSE]

\* createLeave, up to the overlap check.
LeaveCheck(c, e, a, b) ==
  /\ a <= b
  /\ ~Overlaps(e, a, b)
  /\ Begin(c, [pc |-> "checked", emp |-> e, from |-> a, to |-> b])
  /\ UNCHANGED <<tables, history>>

LeaveInsert(c, i) ==
  LET k == dcall[c] IN
  /\ k.pc = "checked"
  /\ Fresh(i)
  /\ dom' = [dom EXCEPT ![i] = NewLeave(k.emp, k.from, k.to)]
  /\ blind' = IF Overlaps(k.emp, k.from, k.to) THEN blind \cup {i} ELSE blind
  /\ Goes(c, [pc |-> "created", item |-> i])
  /\ UNCHANGED <<eng, grants, revoked, gone, stale, legacy, withdrawn, late>>

RowInsert(c, i, t, e) ==
  /\ Fresh(i)
  /\ dom' = [dom EXCEPT ![i] = NewRow(t, e)]
  /\ Begin(c, [pc |-> "created", item |-> i])
  /\ UNCHANGED <<eng, grants, revoked, gone, history>>

\* createOvertime and AccessRequestService.submit begin with their insert.
OvertimeInsert(c, i, e) == RowInsert(c, i, "overtime", e)

AccessInsert(c, i, e) == RowInsert(c, i, "access_request", e)

\* engine.submit, in a transaction of its own.
EngineSubmit(c) ==
  LET i == dcall[c].item IN
  /\ dcall[c].pc = "created"
  /\ eng' = [eng EXCEPT ![i] = NewRequest(dom[i].kind, {})]
  /\ Goes(c, [pc |-> "submitted", item |-> i])
  /\ UNCHANGED <<dom, grants, revoked, gone, history>>

\* The last commit of a submission: the request's id goes into the row.
Backlink(c) ==
  /\ dcall[c].pc = "submitted"
  /\ dom' = [dom EXCEPT ![dcall[c].item].linked = TRUE]
  /\ Ends(c)
  /\ UNCHANGED <<eng, grants, revoked, gone, history>>

\* Submissions without a domain row are the engine's transaction alone.
SubmitDirect(c, i, t, leaver) ==
  /\ Fresh(i)
  /\ dcall[c] = DIdle /\ ops < MaxOps
  /\ eng' = [eng EXCEPT ![i] = NewRequest(t, leaver)]
  /\ ops' = ops + 1
  /\ UNCHANGED <<dom, grants, revoked, gone, dcall, history>>

SubmitOnboarding(c, i) == SubmitDirect(c, i, "onboarding", {})

SubmitOffboarding(c, i) == \E e \in Employee : SubmitDirect(c, i, "offboarding", {e})

\* The catalogue's submitRequest; whether the item is active is left out.
SubmitCatalogRequest(c, i) == SubmitDirect(c, i, "catalog_request", {})

-----------------------------------------------------------------------------
(* Decisions.                                                              *)

\* The row is pending, and its request id says which way the call goes on.
ReviewRead(c, i, t, op) ==
  /\ dom[i] # NoRow /\ dom[i].kind = t
  /\ dom[i].status = "pending"
  /\ Begin(c, [pc |-> IF dom[i].linked THEN "route" ELSE "legacy",
               item |-> i, op |-> op])
  /\ UNCHANGED <<tables, history>>

ReviewLeave(c, i) ==
  \E op \in {"approve", "reject"} : ReviewRead(c, i, "leave_request", op)

ReviewOvertime(c, i) ==
  \E op \in {"approve", "reject"} : ReviewRead(c, i, "overtime", op)

ApproveAccess(c, i) == ReviewRead(c, i, "access_request", "approve")

RejectAccess(c, i) == ReviewRead(c, i, "access_request", "reject")

\* The engine's load and its status check.
EngineLoad(c) ==
  /\ dcall[c].pc = "route"
  /\ eng[dcall[c].item].status \in EngOpen
  /\ Goes(c, [pc |-> "decide", item |-> dcall[c].item, op |-> dcall[c].op,
              seen |-> eng[dcall[c].item]])
  /\ UNCHANGED <<tables, history>>

\* Mutant: a rejected request may be approved after all.
InboxLoadRejected(c, i, op) ==
  /\ \/ eng[i].status \in EngOpen
     \/ /\ eng[i].status = "rejected" /\ op = "approve"
        /\ eng[i].step >= MaxStep(eng[i].kind)
  /\ Begin(c, [pc |-> "decide", item |-> i, op |-> op, seen |-> eng[i]])
  /\ UNCHANGED <<tables, history>>

\* /requests/:id/approve, reject, cancel, and the expiry cron of the worker:
\* the engine without the domain service in front of it.
InboxLoad(c, i, op) ==
  /\ eng[i].status \in EngOpen
  /\ Begin(c, [pc |-> "decide", item |-> i, op |-> op, seen |-> eng[i]])
  /\ UNCHANGED <<tables, history>>

\* Mutant: no TypeDef implements onReject.
HookStatusNoReject(t, op, d) ==
  [approve |-> OnApproveDomain(t, d), reject |-> d,
   cancel |-> OnCancelDomain(t, d), expire |-> OnExpireDomain(t, d)][op]

\* What the TypeDef's hook makes of the domain row's status.
HookStatus(t, op, d) ==
  [approve |-> OnApproveDomain(t, d), reject |-> OnRejectDomain(t, d),
   cancel |-> OnCancelDomain(t, d), expire |-> OnExpireDomain(t, d)][op]

Outcome(op) ==
  [approve |-> "approved", reject |-> "rejected",
   cancel |-> "cancelled", expire |-> "expired"][op]

\* The transaction is written for the request as it was read.
CommitNotes(c) ==
  /\ stale' = IF eng[dcall[c].item] # dcall[c].seen
                THEN stale \cup {dcall[c].item} ELSE stale
  /\ UNCHANGED <<legacy, withdrawn, blind>>

\* n grants of request i are inserted, its requester still being here or not.
Granted(i, n) ==
  /\ grants' = [grants EXCEPT ![i] = @ + n]
  /\ late' = IF n > 0 /\ dom[i].emp \in gone THEN late \cup {i} ELSE late

\* Mutant: offboarding leaves access grants alone.
RevokedWithNone(leaver) == revoked

\* OffboardingTypeDef.onApprove: every active grant of the employee is revoked.
RevokedWith(leaver) ==
  [j \in Item |-> IF grants[j] > 0 /\ dom[j].emp \in leaver THEN 1..grants[j] ELSE revoked[j]]

\* Mutant: onApprove runs at every step of the chain.
StepDecidedGrants(c) ==
  LET k == dcall[c] IN
  /\ k.pc = "decide" /\ k.op = "approve"
  /\ k.seen.step < MaxStep(k.seen.kind)
  /\ eng' = [eng EXCEPT ![k.item].status = "in_review",
                        ![k.item].step = k.seen.step + 1]
  /\ Granted(k.item, GrantsOnApprove(k.seen.kind))
  /\ CommitNotes(c)
  /\ Ends(c)
  /\ UNCHANGED <<dom, revoked, gone>>

\* A step that is not the last: the row moves on, no hook writes.
StepDecided(c) ==
  LET k == dcall[c] IN
  /\ k.pc = "decide" /\ k.op = "approve"
  /\ k.seen.step < MaxStep(k.seen.kind)
  /\ eng' = [eng EXCEPT ![k.item].status = "in_review",
                        ![k.item].step = k.seen.step + 1]
  /\ CommitNotes(c)
  /\ Ends(c)
  /\ UNCHANGED <<dom, grants, revoked, gone, late>>

\* The last step, or a request that ends otherwise: the hook runs inside.
RequestDecided(c) ==
  LET k == dcall[c]
      i == k.item
      t == k.seen.kind
      leaver == IF k.op = "approve" THEN k.seen.leaver ELSE {}
  IN
  /\ k.pc = "decide"
  /\ k.op = "approve" => k.seen.step >= MaxStep(t)
  /\ eng' = [eng EXCEPT ![i].status = Outcome(k.op)]
  /\ dom' = IF HasDomainRow(t)
              THEN [dom EXCEPT ![i].status = HookStatus(t, k.op, @)] ELSE dom
  /\ Granted(i, IF k.op = "approve" THEN GrantsOnApprove(t) ELSE 0)
  /\ gone' = gone \cup leaver
  /\ revoked' = RevokedWith(leaver)
  /\ CommitNotes(c)
  /\ Ends(c)

\* The path for rows without a request id: the row alone is decided.
LegacyDecided(c, t, g) ==
  LET k == dcall[c] IN
  /\ k.pc = "legacy"
  /\ dom[k.item].kind = t
  /\ dom' = [dom EXCEPT ![k.item].status = Outcome(k.op)]
  /\ Granted(k.item, g)
  /\ legacy' = legacy \cup {k.item}
  /\ Ends(c)
  /\ UNCHANGED <<eng, revoked, gone, stale, withdrawn, blind>>

SetLeaveStatus(c) == LegacyDecided(c, "leave_request", 0)

SetOvertimeStatus(c) == LegacyDecided(c, "overtime", 0)

\* The row and its grant in one transaction.
AccessApproved(c) == dcall[c].pc = "legacy" /\ dcall[c].op = "approve"
                     /\ LegacyDecided(c, "access_request", 1)

AccessRejected(c) == dcall[c].pc = "legacy" /\ dcall[c].op = "reject"
                     /\ LegacyDecided(c, "access_request", 0)

-----------------------------------------------------------------------------
(* Taking back.                                                            *)

\* cancelLeave: the engine's request is not told.
LeaveCancelRead(c, i) ==
  /\ dom[i] # NoRow /\ dom[i].kind = "leave_request"
  /\ dom[i].status \in {"pending", "approved"}
  /\ Begin(c, [pc |-> "cancel", item |-> i])
  /\ UNCHANGED <<tables, history>>

\* Mutant: a status that the enum of the column does not have.
LeaveCancelledBadEnum(c) ==
  /\ dcall[c].pc = "cancel"
  /\ dom' = [dom EXCEPT ![dcall[c].item].status = "withdrawn"]
  /\ withdrawn' = withdrawn \cup {dcall[c].item}
  /\ Ends(c)
  /\ UNCHANGED <<eng, grants, revoked, gone, stale, legacy, blind, late>>

LeaveCancelled(c) ==
  /\ dcall[c].pc = "cancel"
  /\ dom' = [dom EXCEPT ![dcall[c].item].status = "cancelled"]
  /\ withdrawn' = withdrawn \cup {dcall[c].item}
  /\ Ends(c)
  /\ UNCHANGED <<eng, grants, revoked, gone, stale, legacy, blind, late>>

\* revokeGrant.
RevokeRead(c, i, g) ==
  /\ g \in 1..grants[i] \ revoked[i]
  /\ Begin(c, [pc |-> "revoke", item |-> i, grant |-> g])
  /\ UNCHANGED <<tables, history>>

GrantRevoked(c) ==
  /\ dcall[c].pc = "revoke"
  /\ revoked' = [revoked EXCEPT ![dcall[c].item] = @ \cup {dcall[c].grant}]
  /\ Ends(c)
  /\ UNCHANGED <<dom, eng, grants, gone, history>>

\* A denial, an error or a crash: what was committed stays.
DomainCallFails(c) ==
  /\ dcall[c] # DIdle
  /\ Ends(c)
  /\ UNCHANGED <<tables, history>>

-----------------------------------------------------------------------------
Submissions(c) ==
  \/ \E e \in Employee, a, b \in Day : LeaveCheck(c, e, a, b)
  \/ \E i \in Item : LeaveInsert(c, i)
  \/ \E i \in Item, e \in Employee : OvertimeInsert(c, i, e) \/ AccessInsert(c, i, e)
  \/ \E i \in Item :
       SubmitOnboarding(c, i) \/ SubmitOffboarding(c, i) \/ SubmitCatalogRequest(c, i)
  \/ EngineSubmit(c)
  \/ Backlink(c)

Reviews(c) ==
  \/ \E i \in Item :
       ReviewLeave(c, i) \/ ReviewOvertime(c, i) \/ ApproveAccess(c, i) \/ RejectAccess(c, i)
  \/ EngineLoad(c)
  \/ SetLeaveStatus(c) \/ SetOvertimeStatus(c) \/ AccessApproved(c) \/ AccessRejected(c)

Inbox(c) ==
  \/ \E i \in Item, op \in {"approve", "reject", "cancel", "expire"} : InboxLoad(c, i, op)
  \/ StepDecided(c)
  \/ RequestDecided(c)

Retractions(c) ==
  \/ \E i \in Item : LeaveCancelRead(c, i)
  \/ LeaveCancelled(c)
  \/ \E i \in Item, g \in 1..MaxOps : RevokeRead(c, i, g)
  \/ GrantRevoked(c)

DomainNext ==
  \E c \in DomainCall :
    Submissions(c) \/ Reviews(c) \/ Inbox(c) \/ Retractions(c) \/ DomainCallFails(c)

DomainSpec == DomInit /\ [][DomainNext]_domVars

-----------------------------------------------------------------------------
(* Properties.                                                             *)

\* Rows are well formed, a request was written after the row it points at,
\* and a row's link after the request (the order of submit and createLeave).
DomainTypeOK ==
  /\ dom \in [Item -> AccessRow \cup LeaveRow \cup OvertimeRow \cup {NoRow}]
  /\ eng \in [Item -> EngRow \cup {NoRow}]
  /\ \A i \in Item :
       /\ grants[i] \in Nat /\ revoked[i] \subseteq 1..grants[i]
       /\ eng[i] # NoRow /\ HasDomainRow(eng[i].kind) => dom[i] # NoRow
       /\ dom[i] # NoRow /\ dom[i].linked => eng[i] # NoRow
  /\ gone \subseteq Employee
  /\ ops \in 0..MaxOps

\* The status of a row whose request went through the engine alone.
Expected(i) ==
  IF eng[i].status \in EngOpen \cup {"cancelled"} THEN "pending"
  ELSE IF eng[i].status = "expired" THEN OnExpireDomain(eng[i].kind, "pending")
  ELSE eng[i].status

\* The domain row tells what became of its request, linked or not, however
\* its submission was cut short.  Only three things part them: a decision
\* committed on a stale read, a decision of the legacy path, and leave that
\* cancelLeave took back behind the engine's back.
RowFollowsRequest ==
  \A i \in Item :
    eng[i] # NoRow /\ HasDomainRow(eng[i].kind)
      /\ i \notin stale \cup legacy \cup withdrawn
      => dom[i].status = Expected(i)

\* Domain rows keep their shape and tell what became of their requests
\* (the hooks of the type definitions, called by RequestEngineService).
RowsConsistent == DomainTypeOK /\ RowFollowsRequest

\* An access request gives at most one grant, so that access an administrator
\* has revoked does not come back, as long as no decision of it was committed
\* on a stale read and none went past the engine.
OneGrant ==
  \A i \in Item : grants[i] > 1 => i \in stale \cup legacy

\* Two leaves of one employee that share a day are both in force only when
\* one was inserted on an outdated overlap check, or one of them had been
\* cancelled or decided and came back by a second decision.
NoDoubleBooking ==
  \A i, j \in Item :
    i # j
    /\ (\A x \in {i, j} :
          /\ dom[x] # NoRow /\ dom[x].kind = "leave_request"
          /\ dom[x].status \in {"pending", "approved"})
    /\ dom[i].emp = dom[j].emp
    /\ dom[i].from <= dom[j].to /\ dom[j].from <= dom[i].to
    => {i, j} \cap (blind \cup withdrawn \cup stale \cup legacy) # {}

\* An offboarded employee holds a live grant only if it was granted after the
\* offboarding, on a request that was still open (the approval does not look at
\* the requester's status).  What was granted before is revoked, whoever else
\* decides, revokes or resubmits meanwhile (offboarding.type-def.ts:76-80).
OffboardedLosesGrants ==
  \A i \in Item :
    grants[i] > Cardinality(revoked[i]) /\ dom[i].emp \in gone => i \in late

\* Access is granted once and ends: with a revocation, or with its holder's
\* employment (access-request.type-def.ts, offboarding.type-def.ts).
GrantsEnd == OneGrant /\ OffboardedLosesGrants

\* What was decided about a domain row stays decided, whichever of the three
\* doors (review, inbox, cron) later calls come through: only a stale commit, a
\* decision of the legacy path or cancelLeave changes it.
DecisionStands ==
  [][\A i \in Item :
       dom[i].status \notin {"none", "pending"} /\ dom'[i].status # dom[i].status =>
         i \in stale' \cup legacy' \cup withdrawn']_domVars
=============================================================================
