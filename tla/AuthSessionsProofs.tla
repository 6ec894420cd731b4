------------------------- MODULE AuthSessionsProofs -------------------------
(***************************************************************************)
(* Rotation and offboarding, for any number of sessions, employees and     *)
(* concurrent calls.                                                       *)
(***************************************************************************)
EXTENDS AuthSessions, TLAPS

\* A refresh that is past its UPDATE has revoked the session it rotates.
RotatedRevoked ==
  \A c \in ApiCall :
    call[c] # Idle /\ call[c].pc \in {"check", "mint"} /\ call[c].sess # NoSession
      => call[c].sess \in revoked

RotationInv == TypeOK /\ RotatedRevoked /\ ParentRevoked

\* There are no sessions and no calls at the start.
LEMMA RotationInit == Init => RotationInv
  BY SessionAssumption DEF Init, RotationInv, TypeOK, RotatedRevoked, ParentRevoked,
     Minted, Idle, EmployeeStatus

\* The steps of a call that only change what the call remembers.
LEMMA CallStep ==
  ASSUME RotationInv, NEW c \in ApiCall,
         \/ \E e \in Employee : Login(c, e)
         \/ \E s \in Session : RefreshRead(c, s) \/ LogoutRead(c, s)
         \/ CheckEmployee(c) \/ Fail(c)
  PROVE  RotationInv'
<1> USE SessionAssumption DEF RotationInv, Minted, Idle, Busy, At
<1>1. /\ UNCHANGED <<empStatus, tokens, revoked, jwt, denied, locked, admin>>
      /\ UNCHANGED <<offboarded, unsettled, thefts>>
  BY DEF Login, RefreshRead, LogoutRead, CheckEmployee, Fail, hist
<1>2. ParentRevoked'
  BY <1>1 DEF ParentRevoked, tokens
<1>3. CASE \E e \in Employee : Login(c, e)
  BY <1>1, <1>2, <1>3 DEF Login, TypeOK, RotatedRevoked, tokens, hist
<1>4. CASE \E s \in Session : RefreshRead(c, s)
  BY <1>1, <1>2, <1>4 DEF RefreshRead, TypeOK, RotatedRevoked, tokens, hist
<1>5. CASE \E s \in Session : LogoutRead(c, s)
  BY <1>1, <1>2, <1>5 DEF LogoutRead, TypeOK, RotatedRevoked, tokens, hist
<1>6. CASE CheckEmployee(c)
  BY <1>1, <1>2, <1>6 DEF CheckEmployee, TypeOK, RotatedRevoked, tokens, hist
<1>7. CASE Fail(c)
  BY <1>1, <1>2, <1>7 DEF Fail, TypeOK, RotatedRevoked, tokens, hist
<1> QED BY <1>3, <1>4, <1>5, <1>6, <1>7

\* The steps of a call that revoke or deny sessions.
LEMMA RevokeStep ==
  ASSUME RotationInv, NEW c \in ApiCall,
         RevokeFamily(c) \/ RevokeOld(c) \/ LogoutRevoke(c) \/ LogoutDeny(c)
  PROVE  RotationInv'
<1> USE SessionAssumption DEF RotationInv, Minted, Idle, Busy
<1>1. CASE RevokeFamily(c)
  BY <1>1 DEF RevokeFamily, OfFam, TypeOK, RotatedRevoked, ParentRevoked, tokens
<1>2. CASE RevokeOld(c)
  BY <1>2 DEF RevokeOld, TypeOK, RotatedRevoked, ParentRevoked, tokens, hist
<1>3. CASE LogoutRevoke(c)
  BY <1>3 DEF LogoutRevoke, TypeOK, RotatedRevoked, ParentRevoked, tokens, hist
<1>4. CASE LogoutDeny(c)
  BY <1>4 DEF LogoutDeny, TypeOK, RotatedRevoked, ParentRevoked, tokens, hist
<1> QED BY <1>1, <1>2, <1>3, <1>4

\* Minting: the only step that adds a session.
LEMMA MintStep ==
  ASSUME RotationInv, NEW c \in ApiCall, NEW s \in Session, Mint(c, s)
  PROVE  RotationInv'
<1> DEFINE old == call[c].sess
<1> USE SessionAssumption DEF RotationInv, Minted, Idle, Busy
<1>1. /\ call[c] \in Busy /\ call[c].emp \in Employee
      /\ old \in Session \cup {NoSession}
      /\ old # NoSession => holder[old] = call[c].emp /\ old \in revoked
      /\ s # old
  BY DEF Mint, TypeOK, RotatedRevoked
<1>2. /\ holder' = [holder EXCEPT ![s] = call[c].emp]
      /\ family' = [family EXCEPT ![s] = IF old = NoSession THEN s ELSE family[old]]
      /\ parent' = [parent EXCEPT ![s] = old]
      /\ jwt' = jwt \cup {s}
      /\ call' = [call EXCEPT ![c] = Idle]
      /\ UNCHANGED <<empStatus, revoked, denied, locked, admin, offboarded, unsettled>>
      /\ holder[s] = NoEmployee
  BY DEF Mint, hist
<1> HIDE DEF old
<1>3. Minted' = Minted \cup {s}
  BY <1>1, <1>2 DEF TypeOK
<1>4. \A t \in Session : parent[t] # s
  BY <1>2 DEF TypeOK
<1>5. holder' \in [Session -> Employee \cup {NoEmployee}]
  BY <1>1, <1>2 DEF TypeOK
<1>6. family' \in [Session -> Session \cup {NoSession}]
  BY <1>1, <1>2 DEF TypeOK
<1>7. parent' \in [Session -> Minted' \cup {NoSession}]
  BY <1>1, <1>2, <1>3 DEF TypeOK
<1>8. \A t \in Session : parent'[t] # NoSession =>
        holder'[t] = holder'[parent'[t]] /\ family'[t] = family'[parent'[t]]
  BY <1>1, <1>2, <1>4 DEF TypeOK
<1>9. call' \in [ApiCall -> Busy \cup {Idle}]
  BY <1>2 DEF TypeOK
<1>10. \A d \in ApiCall : call'[d] # Idle =>
         IF call'[d].sess = NoSession THEN call'[d].pc = "mint"
                                      ELSE holder'[call'[d].sess] = call'[d].emp
  BY <1>1, <1>2 DEF TypeOK
<1>11. TypeOK'
  BY <1>2, <1>3, <1>5, <1>6, <1>7, <1>8, <1>9, <1>10 DEF TypeOK
<1>12. RotatedRevoked' /\ ParentRevoked'
  BY <1>1, <1>2 DEF TypeOK, RotatedRevoked, ParentRevoked
<1> QED BY <1>11, <1>12

\* Everything else: status changes, expiry, offboarding by request.
LEMMA OtherStep ==
  ASSUME RotationInv,
         \/ \E a \in Admin : AdminNext(a)
         \/ \E s \in Session : JwtExpires(s)
         \/ \E e \in Employee : LockExpires(e) \/ OffboardByRequest(e)
  PROVE  RotationInv'
<1> USE SessionAssumption DEF RotationInv, Minted, Idle, Change, EmployeeStatus
<1>1. UNCHANGED <<holder, family, parent, call>>
  BY DEF AdminNext, StatusSame, StatusRead, StatusUpdate, RevokeAll, Lock, Unlock, AdminFail,
     JwtExpires, LockExpires, OffboardByRequest, tokens
<1>2. revoked \subseteq revoked' /\ revoked' \subseteq Minted
  BY DEF AdminNext, StatusSame, StatusRead, StatusUpdate, RevokeAll, Lock, Unlock, AdminFail,
     JwtExpires, LockExpires, OffboardByRequest, tokens, OfEmp, TypeOK
<1>3. RotatedRevoked' /\ ParentRevoked'
  BY <1>1, <1>2 DEF RotatedRevoked, ParentRevoked
<1>4. jwt' \subseteq jwt /\ denied' \subseteq jwt'
  BY DEF AdminNext, StatusSame, StatusRead, StatusUpdate, RevokeAll, Lock, Unlock, AdminFail,
     JwtExpires, LockExpires, OffboardByRequest, tokens, TypeOK
<1>5. /\ empStatus' \in [Employee -> EmployeeStatus]
      /\ locked' \cup offboarded' \cup unsettled' \subseteq Employee
      /\ admin' \in [Admin -> Change \cup {Idle}]
  <2>1. CASE \E a \in Admin : AdminNext(a)
    <3>1. PICK a \in Admin : AdminNext(a)
      BY <2>1
    <3>2. CASE \E e \in Employee, to \in EmployeeStatus :
                 StatusSame(a, e, to) \/ StatusRead(a, e, to)
      BY <3>2 DEF StatusSame, StatusRead, TypeOK, hist
    <3>3. CASE StatusUpdate(a)
      BY <3>3 DEF StatusUpdate, AfterUpdate, TypeOK
    <3>4. CASE RevokeAll(a)
      BY <3>4 DEF RevokeAll, TypeOK, hist
    <3>5. CASE Lock(a)
      BY <3>5 DEF Lock, TypeOK
    <3>6. CASE Unlock(a)
      BY <3>6 DEF Unlock, TypeOK, hist
    <3>7. CASE AdminFail(a)
      BY <3>7 DEF AdminFail, TypeOK, hist
    <3> QED BY <3>1, <3>2, <3>3, <3>4, <3>5, <3>6, <3>7 DEF AdminNext
  <2>2. CASE \E s \in Session : JwtExpires(s)
    BY <2>2 DEF JwtExpires, TypeOK, hist
  <2>3. CASE \E e \in Employee : LockExpires(e) \/ OffboardByRequest(e)
    BY <2>3 DEF LockExpires, OffboardByRequest, TypeOK, hist
  <2> QED BY <2>1, <2>2, <2>3
<1>6. TypeOK'
  BY <1>1, <1>2, <1>4, <1>5 DEF TypeOK
<1> QED BY <1>3, <1>6

\* The rotation invariant is inductive.
LEMMA RotationInductive == RotationInv /\ [Next]_vars => RotationInv'
<1> SUFFICES ASSUME RotationInv, [Next]_vars PROVE RotationInv'
  OBVIOUS
<1>1. CASE UNCHANGED vars
  BY <1>1 DEF vars, RotationInv, TypeOK, RotatedRevoked, ParentRevoked, Minted
<1>2. CASE \E c \in ApiCall : ApiNext(c)
  <2>1. PICK c \in ApiCall : ApiNext(c)
    BY <1>2
  <2>2. CASE \/ \E e \in Employee : Login(c, e)
             \/ \E s \in Session : RefreshRead(c, s) \/ LogoutRead(c, s)
             \/ CheckEmployee(c) \/ Fail(c)
    BY <2>2, CallStep
  <2>3. CASE \E s \in Session : Mint(c, s)
    BY <2>3, MintStep
  <2>4. CASE RevokeFamily(c) \/ RevokeOld(c) \/ LogoutRevoke(c) \/ LogoutDeny(c)
    BY <2>4, RevokeStep
  <2> QED BY <2>1, <2>2, <2>3, <2>4 DEF ApiNext
<1>3. CASE \/ \E a \in Admin : AdminNext(a)
           \/ \E s \in Session : JwtExpires(s)
           \/ \E e \in Employee : LockExpires(e) \/ OffboardByRequest(e)
  BY <1>3, OtherStep
<1> QED BY <1>1, <1>2, <1>3 DEF Next

\* The rotation invariant holds in every reachable state.
THEOREM RotationInvariant == Spec => []RotationInv
BY RotationInit, RotationInductive, PTL DEF Spec

\* The session tables and the calls' local state are well formed.
THEOREM SessionTypeCorrect == Spec => []TypeOK
BY RotationInvariant, PTL DEF RotationInv

\* A session that was rotated out is revoked, however refreshes interleave.
THEOREM ParentRevokedAlways == Spec => []ParentRevoked
BY RotationInvariant, PTL DEF RotationInv
-----------------------------------------------------------------------------
(***************************************************************************)
(* Offboarding.  The lock is established by the LAST of three steps, calls *)
(* in flight can mint in between, and the key expires: so the invariant    *)
(* says of an offboarded employee that the key is there, or a status       *)
(* change is about to set it, or there is nothing left that it would deny. *)
(* Status changes may overlap and fail; the invariant speaks of employees  *)
(* whose last one did neither, for whom at most one change is half done    *)
(* and agrees with the status it wrote.                                    *)
(***************************************************************************)

Half(a) == admin[a].pc \in {"revokeAll", "lock", "unlock"}

Locking(a, e) == admin[a].pc \in {"revokeAll", "lock"} /\ admin[a].emp = e

Quiet(e) ==
  /\ OfEmp(e) \cap jwt = {}
  /\ \A c \in ApiCall : call[c].pc = "mint" => call[c].emp # e

AdminConsistent ==
  \A a \in Admin :
    Half(a) /\ admin[a].emp \notin unsettled =>
      /\ \A b \in Admin : Half(b) /\ admin[b].emp = admin[a].emp => b = a
      /\ admin[a].pc \in {"revokeAll", "lock"} =>
           /\ empStatus[admin[a].emp] = "offboarded"
           /\ admin[a].emp \notin offboarded
      /\ admin[a].pc = "unlock" => empStatus[admin[a].emp] = "active"

Shut ==
  \A e \in Employee \ unsettled :
    empStatus[e] = "offboarded" =>
      e \in locked \/ Quiet(e) \/ \E a \in Admin : Locking(a, e)

\* Re-activation.  A key outlives the status it was set for (an offboarded
\* employee put on leave keeps it), so the invariant is about what happens on
\* the way to "active": whoever becomes active with a key has a status change
\* that is about to clear it.
KeyIsCleared ==
  \A e \in Employee \ unsettled :
    empStatus[e] = "active" /\ e \in locked =>
      \E a \in Admin : admin[a].pc = "unlock" /\ admin[a].emp = e

LockInv == AdminConsistent /\ Shut /\ KeyIsCleared

\* The steps of the API calls keep offboarded employees shut out: logins and
\* refreshes check the status, and what was about to mint is not quiet.
LEMMA LockApiStep ==
  ASSUME RotationInv, LockInv, NEW c \in ApiCall, ApiNext(c)
  PROVE  LockInv'
<1> USE SessionAssumption DEF Idle
<1>1. UNCHANGED <<empStatus, locked, admin, offboarded, unsettled>>
  BY DEF ApiNext, Login, RefreshRead, LogoutRead, Mint, RevokeFamily, RevokeOld,
     CheckEmployee, LogoutRevoke, LogoutDeny, Fail, hist
<1>2. AdminConsistent' /\ KeyIsCleared'
  BY <1>1 DEF LockInv, AdminConsistent, KeyIsCleared, Half
<1>3. ASSUME NEW e \in Employee, empStatus[e] = "offboarded", Quiet(e) PROVE Quiet(e)'
  <2>1. CASE \E s \in Session : Mint(c, s)
    BY <1>3, <2>1 DEF Mint, Quiet, OfEmp, RotationInv, TypeOK, Busy
  <2>2. CASE \E f \in Employee : Login(c, f)
    BY <1>3, <2>2 DEF Login, At, Quiet, OfEmp, RotationInv, TypeOK, tokens
  <2>3. CASE \E s \in Session : RefreshRead(c, s) \/ LogoutRead(c, s)
    BY <1>3, <2>3 DEF RefreshRead, LogoutRead, At, Quiet, OfEmp, RotationInv, TypeOK, tokens
  <2>4. CASE CheckEmployee(c)
    BY <1>3, <2>4 DEF CheckEmployee, Quiet, OfEmp, RotationInv, TypeOK, Busy, tokens
  <2>5. CASE RevokeFamily(c) \/ RevokeOld(c) \/ LogoutRevoke(c) \/ LogoutDeny(c) \/ Fail(c)
    BY <1>3, <2>5 DEF RevokeFamily, RevokeOld, LogoutRevoke, LogoutDeny, Fail, Quiet,
       OfEmp, RotationInv, TypeOK, Busy, tokens
  <2> QED BY <2>1, <2>2, <2>3, <2>4, <2>5 DEF ApiNext
<1>4. Shut'
  BY <1>1, <1>3 DEF LockInv, Shut, Locking
<1> QED BY <1>2, <1>4 DEF LockInv

\* Expiry and the administrators' steps take no session away from anyone and
\* give none: who has nothing to deny keeps it that way.
LEMMA StaysQuiet ==
  ASSUME UNCHANGED <<holder, call>>, jwt' \subseteq jwt, NEW e \in Employee, Quiet(e)
  PROVE  Quiet(e)'
BY DEF Quiet, OfEmp

\* A status that is reported as it is, or read: only a report of success beside
\* an unfinished change matters, and that unsettles the employee.
LEMMA LockReadStep ==
  ASSUME RotationInv, LockInv, NEW a \in Admin, NEW e \in Employee,
         NEW to \in EmployeeStatus, StatusSame(a, e, to) \/ StatusRead(a, e, to)
  PROVE  LockInv'
<1> USE SessionAssumption DEF Idle, Half
<1>1. UNCHANGED <<empStatus, holder, call, jwt, locked>>
  BY DEF StatusSame, StatusRead, tokens
<1>2. CASE StatusSame(a, e, to)
  <2>1. /\ admin[a] = Idle /\ UNCHANGED admin
        /\ offboarded' \subseteq offboarded \cup {e} /\ unsettled \subseteq unsettled'
        /\ HalfDone(a, e) => e \in unsettled'
    BY <1>2 DEF StatusSame
  <2>2. AdminConsistent'
    BY <1>1, <2>1 DEF LockInv, AdminConsistent, HalfDone
  <2>3. Shut' /\ KeyIsCleared'
    BY <1>1, <2>1, StaysQuiet DEF LockInv, Shut, KeyIsCleared, Locking
  <2> QED BY <2>2, <2>3 DEF LockInv
<1>3. CASE StatusRead(a, e, to)
  <2>1. /\ admin[a] = Idle /\ UNCHANGED <<offboarded, unsettled>>
        /\ admin' = [admin EXCEPT ![a] = [pc |-> "update", emp |-> e, to |-> to]]
    BY <1>3 DEF StatusRead, hist
  <2>2. /\ ~Half(a) /\ ~Half(a)'
        /\ \A b \in Admin : b # a => admin'[b] = admin[b]
    BY <2>1 DEF RotationInv, TypeOK
  <2>3. AdminConsistent'
    BY <1>1, <2>1, <2>2 DEF LockInv, AdminConsistent
  <2>4. Shut' /\ KeyIsCleared'
    BY <1>1, <2>1, <2>2, StaysQuiet DEF LockInv, Shut, KeyIsCleared, Locking
  <2> QED BY <2>3, <2>4 DEF LockInv
<1> QED BY <1>2, <1>3

\* The UPDATE: whoever writes the status while nobody else is half way settles it.
LEMMA LockUpdateStep ==
  ASSUME RotationInv, LockInv, NEW a \in Admin, StatusUpdate(a)
  PROVE  LockInv'
<1> USE SessionAssumption DEF Idle, Half
<1> DEFINE k == admin[a]
<1>1. /\ k \in Change /\ k.emp \in Employee /\ k.to \in EmployeeStatus
      /\ k.pc = "update"
  BY DEF StatusUpdate, RotationInv, TypeOK, Change
<1>2. /\ empStatus'  = [empStatus EXCEPT ![k.emp] = k.to]
      /\ offboarded' = offboarded \ {k.emp}
      /\ unsettled'  = IF HalfDone(a, k.emp) THEN unsettled \cup {k.emp}
                                             ELSE unsettled \ {k.emp}
      /\ UNCHANGED <<holder, call, jwt, locked>>
  BY DEF StatusUpdate, tokens
<1>3. /\ k.to = "on_leave" => admin'[a] = Idle
      /\ k.to = "offboarded" => admin'[a].pc = "revokeAll" /\ admin'[a].emp = k.emp
      /\ k.to = "active" => admin'[a].pc = "unlock" /\ admin'[a].emp = k.emp
      /\ \A b \in Admin : b # a => admin'[b] = admin[b]
  BY <1>1 DEF StatusUpdate, AfterUpdate, RotationInv, TypeOK, Change, EmployeeStatus
<1>4. /\ empStatus'[k.emp] = k.to
      /\ \A e \in Employee : e # k.emp =>
           empStatus'[e] = empStatus[e] /\ (e \in unsettled' <=> e \in unsettled)
  BY <1>1, <1>2 DEF RotationInv, TypeOK
<1>5. k.emp \notin unsettled' =>
        \A b \in Admin : b # a /\ Half(b) => admin[b].emp # k.emp
  BY <1>2 DEF HalfDone
<1>6. \A b \in Admin : Half(b) => admin[b].emp \in Employee
  BY DEF RotationInv, TypeOK, Change
<1> HIDE DEF k
<1>7. AdminConsistent'
  <2> SUFFICES ASSUME NEW b \in Admin, Half(b)', admin'[b].emp \notin unsettled'
               PROVE  /\ \A d \in Admin : Half(d)' /\ admin'[d].emp = admin'[b].emp => d = b
                      /\ admin'[b].pc \in {"revokeAll", "lock"} =>
                           /\ empStatus'[admin'[b].emp] = "offboarded"
                           /\ admin'[b].emp \notin offboarded'
                      /\ admin'[b].pc = "unlock" => empStatus'[admin'[b].emp] = "active"
    BY DEF AdminConsistent
  <2>1. CASE b = a
    BY <1>1, <1>2, <1>3, <1>4, <1>5, <2>1 DEF EmployeeStatus
  <2>2. CASE b # a
    <3>1. admin'[b] = admin[b] /\ Half(b) /\ admin[b].emp # k.emp
      BY <1>3, <1>5, <2>2
    <3>2. /\ admin[b].emp \in Employee /\ admin[b].emp \notin unsettled
          /\ empStatus'[admin[b].emp] = empStatus[admin[b].emp]
      BY <1>4, <1>6, <3>1
    <3>3. \A d \in Admin : Half(d)' /\ admin'[d].emp = admin'[b].emp => d # a /\ Half(d)
      BY <1>1, <1>3, <3>1 DEF EmployeeStatus
    <3> QED BY <1>2, <1>3, <3>1, <3>2, <3>3 DEF LockInv, AdminConsistent
  <2> QED BY <2>1, <2>2
<1>8. Shut'
  <2> SUFFICES ASSUME NEW e \in Employee, e \notin unsettled', empStatus'[e] = "offboarded"
               PROVE  e \in locked' \/ Quiet(e)' \/ \E b \in Admin : Locking(b, e)'
    BY DEF Shut
  <2>1. CASE e = k.emp
    BY <1>3, <1>4, <2>1 DEF Locking
  <2>2. CASE e # k.emp
    <3>1. e \in locked \/ Quiet(e) \/ \E b \in Admin : Locking(b, e)
      BY <1>4, <2>2 DEF LockInv, Shut
    <3> QED BY <1>1, <1>2, <1>3, <2>2, <3>1, StaysQuiet DEF Locking, k
  <2> QED BY <2>1, <2>2
<1>9. KeyIsCleared'
  <2> SUFFICES ASSUME NEW e \in Employee, e \notin unsettled', empStatus'[e] = "active",
                      e \in locked'
               PROVE  \E b \in Admin : admin'[b].pc = "unlock" /\ admin'[b].emp = e
    BY DEF KeyIsCleared
  <2>1. CASE e = k.emp
    BY <1>3, <1>4, <2>1
  <2>2. CASE e # k.emp
    <3>1. \E b \in Admin : admin[b].pc = "unlock" /\ admin[b].emp = e
      BY <1>2, <1>4, <2>2 DEF LockInv, KeyIsCleared
    <3> QED BY <1>1, <1>3, <2>2, <3>1 DEF k
  <2> QED BY <2>1, <2>2
<1> QED BY <1>7, <1>8, <1>9 DEF LockInv

\* What follows the UPDATE, or is left out when the change dies.
LEMMA LockFollowStep ==
  ASSUME RotationInv, LockInv, NEW a \in Admin,
         RevokeAll(a) \/ Lock(a) \/ Unlock(a) \/ AdminFail(a)
  PROVE  LockInv'
<1> USE SessionAssumption DEF Idle, Half
<1>1. UNCHANGED <<empStatus, holder, call, jwt>>
  BY DEF RevokeAll, Lock, Unlock, AdminFail, tokens
<1>2. \A b \in Admin : b # a => admin'[b] = admin[b]
  BY DEF RevokeAll, Lock, Unlock, AdminFail, RotationInv, TypeOK
<1>3. admin[a] \in Change /\ admin[a].emp \in Employee
  BY DEF RevokeAll, Lock, Unlock, AdminFail, RotationInv, TypeOK, Change
<1>4. CASE RevokeAll(a)
  <2>1. /\ admin[a].pc = "revokeAll" /\ UNCHANGED <<locked, offboarded, unsettled>>
        /\ admin'[a].pc = "lock" /\ admin'[a].emp = admin[a].emp
    BY <1>3, <1>4 DEF RevokeAll, hist, RotationInv, TypeOK, Change
  <2>2. AdminConsistent'
    BY <1>1, <1>2, <2>1 DEF LockInv, AdminConsistent
  <2>3. Shut' /\ KeyIsCleared'
    BY <1>1, <1>2, <2>1, StaysQuiet DEF LockInv, Shut, KeyIsCleared, Locking
  <2> QED BY <2>2, <2>3 DEF LockInv
<1>5. CASE Lock(a)
  <2>1. /\ admin[a].pc = "lock" /\ UNCHANGED unsettled /\ ~Half(a)'
        /\ locked' = locked \cup {admin[a].emp}
        /\ offboarded' = offboarded \cup {admin[a].emp}
    BY <1>5 DEF Lock, RotationInv, TypeOK
  <2>2. AdminConsistent'
    BY <1>1, <1>2, <2>1 DEF LockInv, AdminConsistent
  <2>3. Shut' /\ KeyIsCleared'
    BY <1>1, <1>2, <2>1, StaysQuiet DEF LockInv, AdminConsistent, Shut, KeyIsCleared, Locking
  <2> QED BY <2>2, <2>3 DEF LockInv
<1>6. CASE Unlock(a)
  <2>1. /\ admin[a].pc = "unlock" /\ UNCHANGED <<offboarded, unsettled>> /\ ~Half(a)'
        /\ locked' = locked \ {admin[a].emp}
    BY <1>6 DEF Unlock, RotationInv, TypeOK, hist
  <2>2. AdminConsistent'
    BY <1>1, <1>2, <2>1 DEF LockInv, AdminConsistent
  <2>3. Shut' /\ KeyIsCleared'
    BY <1>1, <1>2, <2>1, StaysQuiet DEF LockInv, AdminConsistent, Shut, KeyIsCleared, Locking
  <2> QED BY <2>2, <2>3 DEF LockInv
<1>7. CASE AdminFail(a)
  <2>1. /\ UNCHANGED <<locked, offboarded>> /\ ~Half(a)'
        /\ unsettled \subseteq unsettled'
        /\ Half(a) => admin[a].emp \in unsettled'
    BY <1>3, <1>7 DEF AdminFail, RotationInv, TypeOK, Change
  <2>2. AdminConsistent'
    BY <1>1, <1>2, <2>1 DEF LockInv, AdminConsistent
  <2>3. Shut' /\ KeyIsCleared'
    BY <1>1, <1>2, <2>1, StaysQuiet DEF LockInv, Shut, KeyIsCleared, Locking
  <2> QED BY <2>2, <2>3 DEF LockInv
<1> QED BY <1>4, <1>5, <1>6, <1>7

\* Expiry of tokens and keys, and offboarding by request.
LEMMA LockOtherStep ==
  ASSUME RotationInv, LockInv,
         \/ \E s \in Session : JwtExpires(s)
         \/ \E e \in Employee : LockExpires(e) \/ OffboardByRequest(e)
  PROVE  LockInv'
<1> USE DEF Half
<1>1. UNCHANGED <<holder, call, admin>> /\ jwt' \subseteq jwt /\ locked' \subseteq locked
  BY DEF JwtExpires, LockExpires, OffboardByRequest, tokens
<1>2. CASE \E s \in Session : JwtExpires(s)
  BY <1>1, <1>2, StaysQuiet DEF JwtExpires, LockInv, AdminConsistent, Shut, KeyIsCleared,
     Locking, hist
<1>3. CASE \E e \in Employee : LockExpires(e)
  <2>1. UNCHANGED <<empStatus, offboarded, unsettled>>
    BY <1>3 DEF LockExpires, hist
  <2>2. AdminConsistent' /\ KeyIsCleared'
    BY <1>1, <2>1 DEF LockInv, AdminConsistent, KeyIsCleared
  <2>3. Shut'
    BY <1>1, <1>3, <2>1, StaysQuiet DEF LockExpires, LockInv, Shut, Locking, Quiet
  <2> QED BY <2>2, <2>3 DEF LockInv
<1>4. CASE \E e \in Employee : OffboardByRequest(e)
  <2>1. PICK e \in Employee : OffboardByRequest(e)
    BY <1>4
  <2>2. /\ unsettled' = unsettled \cup {e} /\ offboarded' = offboarded \cup {e}
        /\ UNCHANGED locked
        /\ \A f \in Employee : f # e => empStatus'[f] = empStatus[f]
    BY <2>1 DEF OffboardByRequest, RotationInv, TypeOK
  <2>3. \A b \in Admin : Half(b) => admin[b].emp \in Employee
    BY SessionAssumption DEF RotationInv, TypeOK, Change, Idle
  <2>4. AdminConsistent'
    BY <1>1, <2>2, <2>3 DEF LockInv, AdminConsistent
  <2>5. Shut' /\ KeyIsCleared'
    BY <1>1, <2>2, StaysQuiet DEF LockInv, Shut, KeyIsCleared, Locking
  <2> QED BY <2>4, <2>5 DEF LockInv
<1> QED BY <1>2, <1>3, <1>4

\* The lock invariant holds in every reachable state.
LEMMA LockInvariant == Spec => []LockInv
<1>1. Init => LockInv
  BY DEF Init, LockInv, AdminConsistent, Shut, KeyIsCleared, Half, Idle
<1>2. RotationInv /\ LockInv /\ [Next]_vars => LockInv'
  <2> SUFFICES ASSUME RotationInv, LockInv, [Next]_vars PROVE LockInv'
    OBVIOUS
  <2>1. CASE UNCHANGED vars
    BY <2>1 DEF vars, LockInv, AdminConsistent, Shut, KeyIsCleared, Half, Locking, Quiet, OfEmp
  <2>2. CASE \E a \in Admin : AdminNext(a)
    BY <2>2, LockReadStep, LockUpdateStep, LockFollowStep DEF AdminNext
  <2>3. CASE Next /\ ~ \E a \in Admin : AdminNext(a)
    BY <2>3, LockApiStep, LockOtherStep DEF Next
  <2> QED BY <2>1, <2>2, <2>3
<1> QED BY <1>1, <1>2, RotationInvariant, PTL DEF Spec

\* An offboarding that reported success shuts the employee out (employee.service.ts,
\* jwt.strategy.ts), whatever logins and refreshes were in flight and however many
\* administrators there are, unless the employee's last status change was cut short,
\* overlapped another or was a request's.
THEOREM OffboardedIsLockedOutAlways == Spec => []OffboardedIsLockedOut
<1>1. RotationInv /\ LockInv => OffboardedIsLockedOut
  BY DEF RotationInv, TypeOK, LockInv, AdminConsistent, Half, Shut, Locking, Quiet,
     OffboardedIsLockedOut
<1> QED BY <1>1, RotationInvariant, LockInvariant, PTL

\* An active employee whose status nobody is changing can use the API: no deny key
\* survives a re-activation (employee.service.ts) that went through and overlapped
\* no other change.
THEOREM ActiveIsNotLockedAlways == Spec => []ActiveIsNotLocked
<1>1. LockInv => ActiveIsNotLocked
  BY DEF LockInv, KeyIsCleared, ActiveIsNotLocked, Idle
<1> QED BY <1>1, LockInvariant, PTL
-----------------------------------------------------------------------------
(***************************************************************************)
(* Token families.  In a family in which no two refreshes were ever under  *)
(* way at once, a refresh that has read a live token holds the only live   *)
(* one until it has minted the next, and a family in which reuse was       *)
(* detected is in nobody's hands.                                          *)
(***************************************************************************)

\* A refresh on its way from the token it read to the one it will mint.
Rotating(c) == call[c].pc \in {"revoke", "check", "mint"} /\ call[c].sess # NoSession

\* A family is named by the session of its login, and reuse is detected in
\* families that exist.
FamiliesNamed == (\A s \in Minted : family[s] \in Minted) /\ thefts \subseteq Minted

OneRefreshEach ==
  \A c, d \in ApiCall, f \in Session :
    Refreshing(c, f) /\ Refreshing(d, f) => c = d \/ f \in contested

RotationExclusive ==
  \A c \in ApiCall : Rotating(c) /\ family[call[c].sess] \notin contested =>
    /\ family[call[c].sess] \notin thefts
    /\ call[c].pc = "revoke" => OfFam(family[call[c].sess]) \subseteq revoked \cup {call[c].sess}
    /\ call[c].pc # "revoke" => OfFam(family[call[c].sess]) \subseteq revoked

FamilyInv ==
  FamiliesNamed /\ OneRefreshEach /\ RotationExclusive /\ OneLivePerFamily /\ TheftEndsFamily

\* A refresh is of a session that exists.
LEMMA RefreshesMinted ==
  ASSUME RotationInv, NEW c \in ApiCall, Rotating(c) \/ \E f : Refreshing(c, f)
  PROVE  call[c].sess \in Minted /\ family[call[c].sess] \in Session \cup {NoSession}
BY SessionAssumption DEF RotationInv, TypeOK, Minted, Rotating, Refreshing, Idle, Busy

\* Steps that leave the sessions in place and may revoke more of them, without
\* touching a call in flight.
LEMMA FamilyQuiet ==
  ASSUME FamilyInv, UNCHANGED <<holder, family, call, thefts, contested>>,
         revoked \subseteq revoked'
  PROVE  FamilyInv'
<1>1. UNCHANGED Minted /\ \A f : OfFam(f)' = OfFam(f)
  BY DEF Minted, OfFam
<1>2. FamiliesNamed' /\ RotationExclusive'
  BY <1>1 DEF FamilyInv, FamiliesNamed, RotationExclusive, Rotating
<1>3. OneLivePerFamily' /\ TheftEndsFamily'
  BY <1>1 DEF FamilyInv, OneLivePerFamily, TheftEndsFamily
<1>4. OneRefreshEach'
  BY DEF FamilyInv, OneRefreshEach, Refreshing
<1> QED BY <1>2, <1>3, <1>4 DEF FamilyInv

\* Calls that end, log in or log out touch no family.
LEMMA FamilyAway ==
  ASSUME RotationInv, FamilyInv, NEW c \in ApiCall,
         \/ \E e \in Employee : Login(c, e)
         \/ \E s \in Session : LogoutRead(c, s)
         \/ LogoutDeny(c) \/ Fail(c)
  PROVE  FamilyInv'
<1> USE SessionAssumption DEF Idle
<1>1. UNCHANGED <<holder, family, revoked, thefts, contested>>
  BY DEF Login, LogoutRead, LogoutDeny, Fail, tokens, hist
<1>2. UNCHANGED Minted /\ \A f : OfFam(f)' = OfFam(f)
  BY <1>1 DEF Minted, OfFam
<1>3. /\ ~Rotating(c)' /\ \A f : ~Refreshing(c, f)'
      /\ \A d \in ApiCall : d # c => call'[d] = call[d]
  BY DEF Rotating, Refreshing, Login, LogoutRead, LogoutDeny, Fail, At, RotationInv, TypeOK
<1>4. OneRefreshEach'
  BY <1>1, <1>3 DEF FamilyInv, OneRefreshEach, Refreshing
<1>5. RotationExclusive'
  BY <1>1, <1>2, <1>3 DEF FamilyInv, RotationExclusive, Rotating
<1> QED
  BY <1>1, <1>2, <1>4, <1>5 DEF FamilyInv, FamiliesNamed, OneLivePerFamily, TheftEndsFamily

\* Reading a token: if it is live it is the only live one of its family, and
\* whoever else is refreshing there makes the family contested.
LEMMA FamilyRead ==
  ASSUME RotationInv, FamilyInv, NEW c \in ApiCall, NEW s \in Session, RefreshRead(c, s)
  PROVE  FamilyInv'
<1> USE SessionAssumption DEF Idle
<1>1. /\ UNCHANGED <<holder, family, revoked, thefts>>
      /\ s \in Minted /\ call[c] = Idle /\ contested \subseteq contested'
      /\ (\E d \in ApiCall : Refreshing(d, family[s])) => family[s] \in contested'
  BY DEF RefreshRead, tokens
<1>2. UNCHANGED Minted /\ \A f : OfFam(f)' = OfFam(f)
  BY <1>1 DEF Minted, OfFam
<1>3. /\ call'[c].sess = s
      /\ call'[c].pc = IF s \in revoked THEN "theft" ELSE "revoke"
      /\ \A d \in ApiCall : d # c => call'[d] = call[d]
  BY DEF RefreshRead, At, RotationInv, TypeOK
<1>4. OneRefreshEach'
  <2> SUFFICES ASSUME NEW x \in ApiCall, NEW y \in ApiCall, NEW f \in Session,
                      Refreshing(x, f)', Refreshing(y, f)', x # y
               PROVE  f \in contested'
    BY DEF OneRefreshEach
  <2>1. CASE x # c /\ y # c
    BY <1>1, <1>3, <2>1 DEF FamilyInv, OneRefreshEach, Refreshing
  <2>2. CASE x = c \/ y = c
    <3>1. f = family[s] /\ \E d \in ApiCall : Refreshing(d, f)
      BY <1>1, <1>3, <2>2 DEF Refreshing
    <3> QED BY <1>1, <3>1
  <2> QED BY <2>1, <2>2
<1>5. RotationExclusive'
  <2> SUFFICES ASSUME NEW d \in ApiCall, Rotating(d)', family'[call'[d].sess] \notin contested'
               PROVE  /\ family'[call'[d].sess] \notin thefts'
                      /\ call'[d].pc = "revoke" =>
                           OfFam(family[call'[d].sess]) \subseteq revoked \cup {call'[d].sess}
                      /\ call'[d].pc # "revoke" => OfFam(family[call'[d].sess]) \subseteq revoked
    BY <1>1, <1>2 DEF RotationExclusive
  <2>1. CASE d # c
    BY <1>1, <1>3, <2>1 DEF FamilyInv, RotationExclusive, Rotating
  <2>2. CASE d = c
    <3>1. s \notin revoked /\ call'[d].pc = "revoke" /\ family[s] \notin contested
      BY <1>1, <1>3, <2>2 DEF Rotating
    <3> QED
      BY <1>1, <1>3, <2>2, <3>1 DEF FamilyInv, OneLivePerFamily, TheftEndsFamily, OfFam
  <2> QED BY <2>1, <2>2
<1> QED
  BY <1>1, <1>2, <1>4, <1>5 DEF FamilyInv, FamiliesNamed, OneLivePerFamily, TheftEndsFamily

\* Revoking the token that is rotated or logged out, and checking its employee.
LEMMA FamilyRevoke ==
  ASSUME RotationInv, FamilyInv, NEW c \in ApiCall,
         RevokeOld(c) \/ LogoutRevoke(c) \/ CheckEmployee(c)
  PROVE  FamilyInv'
<1> USE SessionAssumption DEF Idle, Busy
<1>1. UNCHANGED <<holder, family, thefts, contested>> /\ revoked \subseteq revoked'
  BY DEF RevokeOld, LogoutRevoke, CheckEmployee, tokens, hist
<1>2. UNCHANGED Minted /\ \A f : OfFam(f)' = OfFam(f)
  BY <1>1 DEF Minted, OfFam
<1>3. \A d \in ApiCall : d # c => call'[d] = call[d]
  BY DEF RevokeOld, LogoutRevoke, CheckEmployee, RotationInv, TypeOK
<1>4. ASSUME \/ Rotating(c)'
             \/ \E f : Refreshing(c, f)'
      PROVE  /\ Rotating(c) /\ call'[c].sess = call[c].sess /\ call'[c].pc # "revoke"
             /\ call[c].pc = "revoke" => revoked' = revoked \cup {call[c].sess}
  BY <1>4 DEF Rotating, Refreshing, RevokeOld, LogoutRevoke, CheckEmployee, RotationInv, TypeOK
<1>5. OneRefreshEach'
  <2>1. \A d \in ApiCall, f \in Session : Refreshing(d, f)' => Refreshing(d, f)
    BY <1>1, <1>3, <1>4 DEF Refreshing, Rotating
  <2> QED BY <1>1, <2>1 DEF FamilyInv, OneRefreshEach
<1>6. RotationExclusive'
  <2> SUFFICES ASSUME NEW d \in ApiCall, Rotating(d)', family[call'[d].sess] \notin contested
               PROVE  /\ family[call'[d].sess] \notin thefts
                      /\ call'[d].pc = "revoke" =>
                           OfFam(family[call'[d].sess]) \subseteq revoked' \cup {call'[d].sess}
                      /\ call'[d].pc # "revoke" => OfFam(family[call'[d].sess]) \subseteq revoked'
    BY <1>1, <1>2 DEF RotationExclusive
  <2>1. CASE d # c
    BY <1>1, <1>3, <2>1 DEF FamilyInv, RotationExclusive, Rotating
  <2>2. CASE d = c
    BY <1>1, <1>4, <2>2 DEF FamilyInv, RotationExclusive
  <2> QED BY <2>1, <2>2
<1> QED
  BY <1>1, <1>2, <1>5, <1>6 DEF FamilyInv, FamiliesNamed, OneLivePerFamily, TheftEndsFamily

\* A replayed token ends its family.
LEMMA FamilyTheft ==
  ASSUME RotationInv, FamilyInv, NEW c \in ApiCall, RevokeFamily(c)
  PROVE  FamilyInv'
<1> USE SessionAssumption DEF Idle, Busy
<1> DEFINE f == family[call[c].sess]
<1>1. /\ UNCHANGED <<holder, family, contested>>
      /\ revoked' = revoked \cup OfFam(f) /\ thefts' = thefts \cup {f}
      /\ call' = [call EXCEPT ![c] = Idle] /\ call[c].pc = "theft"
  BY DEF RevokeFamily, tokens
<1>2. UNCHANGED Minted /\ \A g : OfFam(g)' = OfFam(g)
  BY <1>1 DEF Minted, OfFam
<1>3. call[c].sess \in Minted /\ Refreshing(c, f)
  BY <1>1 DEF RotationInv, TypeOK, Minted, Refreshing
<1>4. f \in Minted
  BY <1>3 DEF FamilyInv, FamiliesNamed
<1> HIDE DEF f
<1>5. /\ ~Rotating(c)' /\ \A g : ~Refreshing(c, g)'
      /\ \A d \in ApiCall : d # c => call'[d] = call[d]
  BY <1>1 DEF Rotating, Refreshing, RotationInv, TypeOK
<1>6. OneRefreshEach'
  BY <1>1, <1>5 DEF FamilyInv, OneRefreshEach, Refreshing
<1>7. RotationExclusive'
  <2> SUFFICES ASSUME NEW d \in ApiCall, Rotating(d)', family[call'[d].sess] \notin contested
               PROVE  /\ family[call'[d].sess] \notin thefts'
                      /\ call'[d].pc = "revoke" =>
                           OfFam(family[call'[d].sess]) \subseteq revoked' \cup {call'[d].sess}
                      /\ call'[d].pc # "revoke" => OfFam(family[call'[d].sess]) \subseteq revoked'
    BY <1>1, <1>2 DEF RotationExclusive
  <2>1. d # c /\ call'[d] = call[d] /\ Rotating(d) /\ Refreshing(d, family[call[d].sess])
    BY <1>5 DEF Rotating, Refreshing
  <2>2. family[call[d].sess] # f
    BY <1>3, <1>4, <2>1 DEF FamilyInv, OneRefreshEach, Minted
  <2> QED
    BY <1>1, <2>1, <2>2 DEF FamilyInv, RotationExclusive
<1>8. FamiliesNamed'
  BY <1>1, <1>2, <1>4 DEF FamilyInv, FamiliesNamed
<1>9. OneLivePerFamily' /\ TheftEndsFamily'
  BY <1>1, <1>2 DEF FamilyInv, OneLivePerFamily, TheftEndsFamily
<1> QED BY <1>6, <1>7, <1>8, <1>9 DEF FamilyInv

\* Minting: into a family of its own, or into one that has no live session left.
LEMMA FamilyMint ==
  ASSUME RotationInv, FamilyInv, NEW c \in ApiCall, NEW s \in Session, Mint(c, s)
  PROVE  FamilyInv'
<1> DEFINE old == call[c].sess
           f == IF old = NoSession THEN s ELSE family[old]
<1> USE SessionAssumption DEF Idle, Busy
<1>1. /\ holder' = [holder EXCEPT ![s] = call[c].emp]
      /\ family' = [family EXCEPT ![s] = f]
      /\ call' = [call EXCEPT ![c] = Idle]
      /\ UNCHANGED <<revoked, thefts, contested>>
      /\ s \notin Minted /\ call[c].pc = "mint"
  BY DEF Mint, hist
<1>2. /\ call[c].emp \in Employee /\ old \in Session \cup {NoSession}
      /\ old # NoSession => old \in Minted
  BY <1>1 DEF RotationInv, TypeOK, Minted
<1>3. Minted' = Minted \cup {s}
  BY <1>1, <1>2 DEF Minted, RotationInv, TypeOK
<1>4. family'[s] = f /\ \A t \in Minted : family'[t] = family[t]
  BY <1>1 DEF Minted, RotationInv, TypeOK
<1>5. f \in Minted \cup {s}
  BY <1>2 DEF FamilyInv, FamiliesNamed
<1>6. f \notin contested => f \notin thefts /\ OfFam(f) \subseteq revoked
  <2>1. CASE old = NoSession
    BY <1>1, <2>1 DEF FamilyInv, FamiliesNamed, OfFam
  <2>2. CASE old # NoSession
    BY <1>1, <1>2, <2>2 DEF FamilyInv, RotationExclusive, Rotating
  <2> QED BY <2>1, <2>2
<1>7. \A d \in ApiCall : d # c /\ Refreshing(d, f) => f \in contested
  <2> SUFFICES ASSUME NEW d \in ApiCall, d # c, Refreshing(d, f) PROVE f \in contested
    OBVIOUS
  <2>1. call[d].sess \in Minted /\ family[call[d].sess] = f
    BY RefreshesMinted DEF Refreshing
  <2>2. f # s /\ f \in Session
    BY <1>1, <2>1 DEF FamilyInv, FamiliesNamed, Minted
  <2>3. Refreshing(c, f)
    BY <1>1, <2>2 DEF Refreshing
  <2> QED BY <2>2, <2>3 DEF FamilyInv, OneRefreshEach
<1> HIDE DEF f
<1>8. /\ ~Rotating(c)' /\ \A g : ~Refreshing(c, g)'
      /\ \A d \in ApiCall : d # c => call'[d] = call[d]
  BY <1>1 DEF Rotating, Refreshing, RotationInv, TypeOK
<1>9. \A g : \A d \in ApiCall : Refreshing(d, g)' => d # c /\ Refreshing(d, g)
  <2> SUFFICES ASSUME NEW d \in ApiCall, NEW g, Refreshing(d, g)'
               PROVE  d # c /\ Refreshing(d, g)
    OBVIOUS
  <2>1. d # c /\ call'[d] = call[d]
    BY <1>8
  <2>2. call[d].sess \in Minted
    BY <2>1 DEF Refreshing, RotationInv, TypeOK, Minted
  <2> QED BY <1>4, <2>1, <2>2 DEF Refreshing
<1>10. OneRefreshEach'
  BY <1>1, <1>9 DEF FamilyInv, OneRefreshEach
<1>11. RotationExclusive'
  <2>1. ASSUME NEW d \in ApiCall, Rotating(d)', (family[call[d].sess] \notin contested)'
        PROVE  /\ (family[call[d].sess] \notin thefts)'
               /\ (call[d].pc = "revoke" =>
                     OfFam(family[call[d].sess]) \subseteq revoked \cup {call[d].sess})'
               /\ (call[d].pc # "revoke" => OfFam(family[call[d].sess]) \subseteq revoked)'
    <3>1. d # c /\ call'[d] = call[d] /\ Rotating(d)
      BY <1>8, <2>1 DEF Rotating
    <3>2. call[d].sess \in Minted /\ family'[call[d].sess] = family[call[d].sess]
      BY <1>4, <3>1, RefreshesMinted
    <3>3. family[call[d].sess] \notin contested
      BY <1>1, <2>1, <3>1, <3>2
    <3>4. family[call[d].sess] # f
      BY <1>7, <3>1, <3>3 DEF Rotating, Refreshing
    <3>5. OfFam(family[call[d].sess])' = OfFam(family[call[d].sess])
      BY <1>3, <1>4, <3>1, <3>2, <3>4 DEF OfFam
    <3>6. /\ family[call[d].sess] \notin thefts
          /\ call[d].pc = "revoke" =>
               OfFam(family[call[d].sess]) \subseteq revoked \cup {call[d].sess}
          /\ call[d].pc # "revoke" => OfFam(family[call[d].sess]) \subseteq revoked
      BY <3>1, <3>3 DEF FamilyInv, RotationExclusive
    <3> QED BY <1>1, <3>1, <3>2, <3>5, <3>6
  <2> QED BY <2>1 DEF RotationExclusive
<1>12. FamiliesNamed'
  BY <1>1, <1>3, <1>4, <1>5 DEF FamilyInv, FamiliesNamed
<1>13. f \notin contested => \A t \in Minted : family[t] = f => t \in revoked
  BY <1>6 DEF OfFam
<1>14. OneLivePerFamily'
  BY <1>1, <1>3, <1>4, <1>13 DEF FamilyInv, OneLivePerFamily
<1>15. TheftEndsFamily'
  BY <1>1, <1>3, <1>4, <1>6 DEF FamilyInv, TheftEndsFamily, OfFam
<1> QED BY <1>10, <1>11, <1>12, <1>14, <1>15 DEF FamilyInv

\* Rotation keeps one live token per family, and reuse ends the family
\* (auth.service.ts), in every family in which no two refreshes were ever under way
\* at once, for any number of calls; status changes, offboardings, failures and
\* expiry may happen at any moment in between.
THEOREM FamilyIsSoundAlways == Spec => []FamilyIsSound
<1>1. Init => FamilyInv
  <2> SUFFICES ASSUME Init PROVE FamilyInv
    OBVIOUS
  <2>1. Minted = {} /\ thefts = {}
    BY SessionAssumption DEF Init, Minted
  <2>2. RotationExclusive /\ OneRefreshEach
    BY DEF Init, RotationExclusive, OneRefreshEach, Rotating, Refreshing, Idle
  <2> QED
    BY <2>1, <2>2 DEF FamilyInv, FamiliesNamed, OneLivePerFamily, TheftEndsFamily
<1>2. RotationInv /\ FamilyInv /\ [Next]_vars => FamilyInv'
  <2> SUFFICES ASSUME RotationInv, FamilyInv, [Next]_vars PROVE FamilyInv'
    OBVIOUS
  <2>1. CASE UNCHANGED vars
    BY <2>1, FamilyQuiet DEF vars
  <2>2. CASE \E c \in ApiCall : ApiNext(c)
    BY <2>2, FamilyAway, FamilyRead, FamilyRevoke, FamilyTheft, FamilyMint DEF ApiNext
  <2>3. CASE \/ \E a \in Admin : AdminNext(a)
             \/ \E s \in Session : JwtExpires(s)
             \/ \E e \in Employee : LockExpires(e) \/ OffboardByRequest(e)
    <3>1. /\ UNCHANGED <<holder, family, call, thefts, contested>>
          /\ revoked \subseteq revoked'
      BY <2>3 DEF AdminNext, StatusSame, StatusRead, StatusUpdate, RevokeAll, Lock, Unlock,
         AdminFail, JwtExpires, LockExpires, OffboardByRequest, tokens, hist
    <3> QED
      BY <3>1, FamilyQuiet
  <2> QED BY <2>1, <2>2, <2>3 DEF Next
<1>3. FamilyInv => FamilyIsSound
  BY DEF FamilyInv, FamilyIsSound
<1> QED BY <1>1, <1>2, <1>3, RotationInvariant, PTL DEF Spec
=============================================================================
