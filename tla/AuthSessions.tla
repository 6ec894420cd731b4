---------------------------- MODULE AuthSessions ----------------------------
(***************************************************************************)
(* Sessions: refresh tokens that are rotated on every use (AuthService),   *)
(* the Redis deny keys that JwtStrategy consults, and the status changes   *)
(* that shut an employee out (EmployeeService.updateStatus and the         *)
(* offboarding request's onApprove).                                       *)
(*                                                                         *)
(* A session is a refresh_tokens row together with the access token that   *)
(* carries its id.  None of these operations but the offboarding request's *)
(* runs in a transaction: every statement is a step of its own.  Redis is  *)
(* up throughout (without it there are no deny keys and access tokens      *)
(* simply live until they expire).                                         *)
(***************************************************************************)
EXTENDS Naturals, FiniteSets

CONSTANTS
  Session,             \* session ids (a bound on how many are minted)
  NoSession,
  Employee,
  NoEmployee,
  ApiCall,             \* login, refresh and logout calls in flight
  Admin                \* status changes in flight

ASSUME SessionAssumption ==
  NoSession \notin Session /\ NoEmployee \notin Employee

VARIABLES
  empStatus,  \* employees.status
  holder,     \* refresh_tokens.employee_id (NoEmployee: not minted yet)
  family,     \* refresh_tokens.family_id, named by the login's session
  parent,     \* history: the session whose rotation minted this one
  revoked,    \* refresh_tokens.revoked
  jwt,        \* sessions whose access token has not expired
  denied,     \* revoked:session:<id> keys in Redis
  locked,     \* revoked:employee:<id> keys in Redis
  call,       \* what each API call has read
  admin,      \* what each status change has left to do
  offboarded, \* history: employees an offboarding of whom reported success
  thefts,     \* history: families in which reuse was detected
  unsettled,  \* history: employees whose last status change was cut short,
              \* overlapped another or came from an offboarding request
  contested   \* history: families in which two refreshes were under way at once

tokens == <<holder, family, parent>>
hist   == <<offboarded, thefts, unsettled, contested>>
vars   == <<empStatus, holder, family, parent, revoked, jwt, denied, locked,
            call, admin, offboarded, thefts, unsettled, contested>>

Minted   == {s \in Session : holder[s] # NoEmployee}
OfEmp(e) == {s \in Session : holder[s] = e}
OfFam(f) == {s \in Minted : family[s] = f}

EmployeeStatus == {"active", "on_leave", "offboarded"}

Idle == [pc |-> "idle"]

\* What an API call and a status change keep between their steps.
Busy ==
  [pc: {"mint", "theft", "revoke", "check", "logout", "deny"},
   emp: Employee, sess: Session \cup {NoSession}]

Change ==
  [pc: {"update", "revokeAll", "lock", "unlock"},
   emp: Employee, to: EmployeeStatus]

Init ==
  /\ empStatus  = [e \in Employee |-> "active"]
  /\ holder     = [s \in Session |-> NoEmployee]
  /\ family     = [s \in Session |-> NoSession]
  /\ parent     = [s \in Session |-> NoSession]
  /\ revoked    = {}
  /\ jwt        = {}
  /\ denied     = {}
  /\ locked     = {}
  /\ call       = [c \in ApiCall |-> Idle]
  /\ admin      = [a \in Admin |-> Idle]
  /\ offboarded = {}
  /\ thefts     = {}
  /\ unsettled  = {}
  /\ contested  = {}

-----------------------------------------------------------------------------
(* AuthService.                                                            *)

At(c, pc, e, s) ==
  call' = [call EXCEPT ![c] = [pc |-> pc, emp |-> e, sess |-> s]]

\* devLogin, entraLogin: the employee is read and must not be offboarded.
Login(c, e) ==
  /\ call[c] = Idle
  /\ empStatus[e] # "offboarded"
  /\ At(c, "mint", e, NoSession)
  /\ UNCHANGED <<empStatus, tokens, revoked, jwt, denied, locked, admin, hist>>

\* A refresh of a session of family f, between findByHash and its answer.
Refreshing(c, f) ==
  /\ call[c].pc \in {"theft", "revoke", "check", "mint"}
  /\ call[c].sess # NoSession
  /\ family[call[c].sess] = f

\* Mutant: nobody looks whether the token was revoked.
RefreshReadAny(c, s) ==
  /\ call[c] = Idle
  /\ s \in Minted
  /\ At(c, "revoke", holder[s], s)
  /\ contested' = contested \cup
       {f \in {family[s]} : \E d \in ApiCall : Refreshing(d, f)}
  /\ UNCHANGED <<empStatus, tokens, revoked, jwt, denied, locked, admin,
                 offboarded, thefts, unsettled>>

\* refresh: findByHash.  An expired token ends the call (Fail).
RefreshRead(c, s) ==
  /\ call[c] = Idle
  /\ s \in Minted
  /\ At(c, IF s \in revoked THEN "theft" ELSE "revoke", holder[s], s)
  /\ contested' = contested \cup
       {f \in {family[s]} : \E d \in ApiCall : Refreshing(d, f)}
  /\ UNCHANGED <<empStatus, tokens, revoked, jwt, denied, locked, admin,
                 offboarded, thefts, unsettled>>

\* Mutant: only the replayed token is revoked.
RevokeFamilyOne(c) ==
  /\ call[c].pc = "theft"
  /\ revoked' = revoked \cup {call[c].sess}
  /\ thefts'  = thefts \cup {family[call[c].sess]}
  /\ call'    = [call EXCEPT ![c] = Idle]
  /\ UNCHANGED <<empStatus, tokens, jwt, denied, locked, admin,
                 offboarded, unsettled, contested>>

\* A revoked token was replayed: revokeFamily.
RevokeFamily(c) ==
  /\ call[c].pc = "theft"
  /\ revoked' = revoked \cup OfFam(family[call[c].sess])
  /\ thefts'  = thefts \cup {family[call[c].sess]}
  /\ call'    = [call EXCEPT ![c] = Idle]
  /\ UNCHANGED <<empStatus, tokens, jwt, denied, locked, admin,
                 offboarded, unsettled, contested>>

\* Mutant: the new session is issued without revoking the old one.
RevokeNone(c) ==
  /\ call[c].pc = "revoke"
  /\ call' = [call EXCEPT ![c].pc = "check"]
  /\ UNCHANGED <<empStatus, tokens, revoked, jwt, denied, locked, admin, hist>>

RevokeOld(c) ==
  /\ call[c].pc = "revoke"
  /\ revoked' = revoked \cup {call[c].sess}
  /\ call'    = [call EXCEPT ![c].pc = "check"]
  /\ UNCHANGED <<empStatus, tokens, jwt, denied, locked, admin, hist>>

\* findById and assertActive.
CheckEmployee(c) ==
  /\ call[c].pc = "check"
  /\ empStatus[call[c].emp] # "offboarded"
  /\ call' = [call EXCEPT ![c].pc = "mint"]
  /\ UNCHANGED <<empStatus, tokens, revoked, jwt, denied, locked, admin, hist>>

\* mintTokens: a row in the old session's family, or in a new one.
Mint(c, s) ==
  LET old == call[c].sess
  IN  /\ call[c].pc = "mint"
      /\ s \notin Minted
      /\ holder' = [holder EXCEPT ![s] = call[c].emp]
      /\ family' = [family EXCEPT ![s] = IF old = NoSession THEN s ELSE family[old]]
      /\ parent' = [parent EXCEPT ![s] = old]
      /\ jwt'    = jwt \cup {s}
      /\ call'   = [call EXCEPT ![c] = Idle]
      /\ UNCHANGED <<empStatus, revoked, denied, locked, admin, hist>>

\* logout: a session that is revoked already is left alone.
LogoutRead(c, s) ==
  /\ call[c] = Idle
  /\ s \in Minted \ revoked
  /\ At(c, "logout", holder[s], s)
  /\ UNCHANGED <<empStatus, tokens, revoked, jwt, denied, locked, admin, hist>>

LogoutRevoke(c) ==
  /\ call[c].pc = "logout"
  /\ revoked' = revoked \cup {call[c].sess}
  /\ call'    = [call EXCEPT ![c].pc = "deny"]
  /\ UNCHANGED <<empStatus, tokens, jwt, denied, locked, admin, hist>>

\* The key lives exactly as long as the access token still does.
LogoutDeny(c) ==
  /\ call[c].pc = "deny"
  /\ denied' = denied \cup ({call[c].sess} \cap jwt)
  /\ call'   = [call EXCEPT ![c] = Idle]
  /\ UNCHANGED <<empStatus, tokens, revoked, jwt, locked, admin, hist>>

\* An error answer, a database error or a crash: earlier steps stay done.
Fail(c) ==
  /\ call[c] # Idle
  /\ call' = [call EXCEPT ![c] = Idle]
  /\ UNCHANGED <<empStatus, tokens, revoked, jwt, denied, locked, admin, hist>>

JwtExpires(s) ==
  /\ s \in jwt
  /\ jwt'    = jwt \ {s}
  /\ denied' = denied \ {s}
  /\ UNCHANGED <<empStatus, tokens, revoked, locked, call, admin, hist>>

-----------------------------------------------------------------------------
(* EmployeeService.updateStatus.                                           *)

\* Status changes other than a's that have written e's status and are not done.
HalfDone(a, e) ==
  \E b \in Admin \ {a} : admin[b].pc \in {"revokeAll", "lock", "unlock"} /\ admin[b].emp = e

\* findById; a status the employee already has is reported as done, ...
StatusSame(a, e, to) ==
  /\ admin[a] = Idle
  /\ empStatus[e] = to
  /\ offboarded' = IF to = "offboarded" THEN offboarded \cup {e} ELSE offboarded
  /\ unsettled'  = IF HalfDone(a, e) THEN unsettled \cup {e} ELSE unsettled
  /\ UNCHANGED <<empStatus, tokens, revoked, jwt, denied, locked, call, admin,
                 thefts, contested>>

\* ... any other is written in a second statement.
StatusRead(a, e, to) ==
  /\ admin[a] = Idle
  /\ empStatus[e] # to
  /\ admin' = [admin EXCEPT ![a] = [pc |-> "update", emp |-> e, to |-> to]]
  /\ UNCHANGED <<empStatus, tokens, revoked, jwt, denied, locked, call, hist>>

AfterUpdate(to) == IF to = "offboarded" THEN "revokeAll" ELSE "unlock"

StatusUpdate(a) ==
  LET e  == admin[a].emp
      to == admin[a].to
  IN  /\ admin[a].pc = "update"
      /\ empStatus'  = [empStatus EXCEPT ![e] = to]
      /\ offboarded' = offboarded \ {e}
      /\ unsettled'  = IF HalfDone(a, e) THEN unsettled \cup {e} ELSE unsettled \ {e}
      /\ admin' = [admin EXCEPT ![a] =
           IF to = "on_leave" THEN Idle ELSE [@ EXCEPT !.pc = AfterUpdate(to)]]
      /\ UNCHANGED <<tokens, revoked, jwt, denied, locked, call, thefts, contested>>

\* revokeAllForEmployee.
RevokeAll(a) ==
  /\ admin[a].pc = "revokeAll"
  /\ revoked' = revoked \cup OfEmp(admin[a].emp)
  /\ admin'   = [admin EXCEPT ![a].pc = "lock"]
  /\ UNCHANGED <<empStatus, tokens, jwt, denied, locked, call, hist>>

\* Mutant: only the sessions that exist now get a deny key.
LockSessions(a) ==
  LET e == admin[a].emp
  IN  /\ admin[a].pc = "lock"
      /\ denied'     = denied \cup (OfEmp(e) \cap jwt)
      /\ offboarded' = offboarded \cup {e}
      /\ admin'      = [admin EXCEPT ![a] = Idle]
      /\ UNCHANGED <<empStatus, tokens, revoked, jwt, locked, call,
                     thefts, unsettled, contested>>

\* The 24 h key; then the audit record and the answer.
Lock(a) ==
  LET e == admin[a].emp
  IN  /\ admin[a].pc = "lock"
      /\ locked'     = locked \cup {e}
      /\ offboarded' = offboarded \cup {e}
      /\ admin'      = [admin EXCEPT ![a] = Idle]
      /\ UNCHANGED <<empStatus, tokens, revoked, jwt, denied, call,
                     thefts, unsettled, contested>>

\* Mutant: re-activation leaves the key.
UnlockNothing(a) ==
  /\ admin[a].pc = "unlock"
  /\ admin' = [admin EXCEPT ![a] = Idle]
  /\ UNCHANGED <<empStatus, tokens, revoked, jwt, denied, locked, call, hist>>

Unlock(a) ==
  /\ admin[a].pc = "unlock"
  /\ locked' = locked \ {admin[a].emp}
  /\ admin'  = [admin EXCEPT ![a] = Idle]
  /\ UNCHANGED <<empStatus, tokens, revoked, jwt, denied, call, hist>>

\* A statement fails or the process dies: the statements before it stay done.
AdminFail(a) ==
  /\ admin[a] # Idle
  /\ admin' = [admin EXCEPT ![a] = Idle]
  /\ unsettled' = IF admin[a].pc = "update" THEN unsettled
                                           ELSE unsettled \cup {admin[a].emp}
  /\ UNCHANGED <<empStatus, tokens, revoked, jwt, denied, locked, call,
                 offboarded, thefts, contested>>

\* The 24 h are over.  They outlast every access token of an employee who
\* cannot log in any more, and every call that was about to mint one.
LockExpires(e) ==
  /\ e \in locked
  /\ empStatus[e] = "offboarded" =>
       /\ OfEmp(e) \cap jwt = {}
       /\ \A c \in ApiCall : call[c].pc = "mint" => call[c].emp # e
  /\ locked' = locked \ {e}
  /\ UNCHANGED <<empStatus, tokens, revoked, jwt, denied, call, admin, hist>>

\* OffboardingTypeDef.onApprove: one transaction, and no deny key.
OffboardByRequest(e) ==
  /\ empStatus'  = [empStatus EXCEPT ![e] = "offboarded"]
  /\ revoked'    = revoked \cup OfEmp(e)
  /\ offboarded' = offboarded \cup {e}
  /\ unsettled'  = unsettled \cup {e}
  /\ UNCHANGED <<tokens, jwt, denied, locked, call, admin, thefts, contested>>

-----------------------------------------------------------------------------
ApiNext(c) ==
  \/ \E e \in Employee : Login(c, e)
  \/ \E s \in Session : RefreshRead(c, s) \/ LogoutRead(c, s) \/ Mint(c, s)
  \/ RevokeFamily(c) \/ RevokeOld(c) \/ CheckEmployee(c)
  \/ LogoutRevoke(c) \/ LogoutDeny(c) \/ Fail(c)

AdminNext(a) ==
  \/ \E e \in Employee, to \in EmployeeStatus : StatusSame(a, e, to) \/ StatusRead(a, e, to)
  \/ StatusUpdate(a) \/ RevokeAll(a) \/ Lock(a) \/ Unlock(a) \/ AdminFail(a)

Next ==
  \/ \E c \in ApiCall : ApiNext(c)
  \/ \E a \in Admin : AdminNext(a)
  \/ \E s \in Session : JwtExpires(s)
  \/ \E e \in Employee : LockExpires(e) \/ OffboardByRequest(e)

Spec == Init /\ [][Next]_vars

-----------------------------------------------------------------------------
(* Properties.                                                             *)

\* Rows and calls are well formed; rotation stays in the family and with the
\* employee.
TypeOK ==
  /\ empStatus \in [Employee -> EmployeeStatus]
  /\ holder \in [Session -> Employee \cup {NoEmployee}]
  /\ family \in [Session -> Session \cup {NoSession}]
  /\ parent \in [Session -> Minted \cup {NoSession}]
  /\ revoked \cup jwt \subseteq Minted
  /\ denied \subseteq jwt
  /\ locked \cup offboarded \cup unsettled \subseteq Employee
  /\ call \in [ApiCall -> Busy \cup {Idle}]
  /\ \A c \in ApiCall : call[c] # Idle =>
       IF call[c].sess = NoSession THEN call[c].pc = "mint"
                                   ELSE holder[call[c].sess] = call[c].emp
  /\ admin \in [Admin -> Change \cup {Idle}]
  /\ \A s \in Session : parent[s] # NoSession =>
       holder[s] = holder[parent[s]] /\ family[s] = family[parent[s]]

\* However refresh calls interleave, a session that was rotated out is
\* revoked: whoever presents it again sets off theft detection.
ParentRevoked == \A s \in Session : parent[s] # NoSession => parent[s] \in revoked

\* "Offboarding: immediately revokes all active refresh token sessions AND
\* fast-revokes outstanding access tokens": once an offboarding has reported
\* success, JwtStrategy accepts no access token of that employee, not even
\* one minted by a refresh that was in flight, unless the status change was cut
\* short, overlapped another, or was a request's, which sets no deny key.
OffboardedIsLockedOut ==
  \A e \in offboarded \ unsettled :
    empStatus[e] = "offboarded" =>
      \A s \in OfEmp(e) \cap jwt : e \in locked \/ s \in denied

\* "Re-activating: clears the Redis revocation key so the employee can log in
\* again": an active employee no status change is pending for is not locked,
\* with the same exceptions; the next change that goes through ends them.
ActiveIsNotLocked ==
  \A e \in Employee \ unsettled :
    /\ empStatus[e] = "active"
    /\ \A a \in Admin : admin[a] # Idle => admin[a].emp # e
    => e \notin locked

\* "revokes the old session and issues a new one in the same family": no
\* family has two sessions that can be refreshed.
OneLivePerFamily ==
  \A s, t \in Minted \ revoked :
    family[s] = family[t] => s = t \/ family[s] \in contested

\* "If a revoked token is replayed, the entire family is revoked": a family
\* in which reuse was detected has no session left that can be refreshed.
TheftEndsFamily == \A f \in thefts \ contested : OfFam(f) \subseteq revoked

\* What AuthService.refresh says of token rotation holds of every family in
\* which no two refreshes were ever under way at once (rotation is not atomic:
\* two of them may both find the old token good), whatever logouts, offboardings,
\* failures and calls on other families come in between.
FamilyIsSound == OneLivePerFamily /\ TheftEndsFamily
=============================================================================
