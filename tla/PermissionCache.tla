--------------------------- MODULE PermissionCache ---------------------------
(***************************************************************************)
(* Who may do what: roles, role assignments, the permission cache that     *)
(* AuthzService.resolve fills and the administrators' operations clear,    *)
(* and the role claims copied into the employee row (AuthzAdminService).   *)
(*                                                                         *)
(* No administrative operation runs in a transaction, and a resolver reads *)
(* the tables and writes the cache in two steps: every statement is a step *)
(* of its own.  The inputs of an operation are chosen when it first uses   *)
(* them.  Permission scopes matter only to syncUserRolesByKeys, which      *)
(* touches global assignments alone; the cache is abstracted to the keys   *)
(* of the permission map.                                                  *)
(***************************************************************************)
EXTENDS Naturals, FiniteSets

CONSTANTS
  User, NoUser,
  Role, NoRole,
  Perm,        \* permission keys, the three below among them
  Wild,        \* '*'
  RoleAssign,  \* 'role.assign'
  RbacManage,  \* 'rbac.manage'
  System,      \* roles seeded as system roles
  Seeded,      \* the roles there are at first
  InitPerms,   \* role_permissions at first
  InitRow,     \* user_role_assignments at first
  MaxRow,      \* bound: assignments at a time
  Edits,       \* bound: the <<role, permissions>> create and edit offer
  Grants,      \* bound: the <<user, role, scope>> administrators grant
  Wanted,      \* bound: the <<user, role keys>> the identity provider asserts
  Call,        \* HTTP requests in flight
  Ops,         \* bound: the operations each of them may perform
  MaxChanges   \* bound: requests altogether, those that only use permissions apart

Op    == {"use", "assign", "revoke", "create", "edit", "remove", "sync"}
Scope == {"global", "scoped"}
RowId == 1..MaxRow
NoRow == [user |-> NoUser]
Row   == [user: User, role: Role, scope: Scope, end: {"never", "later", "past"}]

ASSUME CacheAssumption ==
  /\ NoUser \notin User /\ NoRole \notin Role
  /\ {Wild, RoleAssign, RbacManage} \subseteq Perm
  /\ System \subseteq Seeded /\ Seeded \subseteq Role
  /\ InitPerms \in [Role -> SUBSET Perm]
  /\ \A r \in Role \ Seeded : InitPerms[r] = {}
  /\ MaxRow \in Nat
  /\ InitRow \in [RowId -> Row \cup {NoRow}]
  /\ \A i \in RowId : InitRow[i] # NoRow => InitRow[i].role \in Seeded
  /\ Edits \subseteq Role \X SUBSET Perm
  /\ Grants \subseteq User \X Role \X Scope
  /\ Wanted \subseteq User \X SUBSET Role
  /\ Ops \in [Call -> SUBSET Op]
  /\ MaxChanges \in Nat

VARIABLES
  status,     \* roles: "unborn", "live" or "deleted" (ids are not reused)
  permsOf,    \* role_permissions
  row,        \* user_role_assignments by id
  cache,      \* authz:perms:<user>: at most one set of permission keys
  claims,     \* employees.roles
  call,       \* what each request has read
  changes,    \* requests so far that may change something
  origin,     \* history: permissions that seed, IdP or a role edit gave out
  raced,      \* history: calls whose subject changed since they read it
  staleCache, \* history: users whose cache may lag behind the tables
  staleClaims \* history: users whose claims may lag behind the tables

tables == <<status, permsOf, row>>
hist   == <<raced, staleCache, staleClaims>>
vars   == <<status, permsOf, row, cache, claims, call, changes, origin,
            raced, staleCache, staleClaims>>

IsRow(i)       == row[i] # NoRow
RowsOf(u)      == {i \in RowId : row[i].user = u}
Active(u)      == {i \in RowsOf(u) : row[i].end # "past"}
LiveRoles(u)   == {row[i].role : i \in Active(u)}
Effective(u)   == UNION {permsOf[r] : r \in LiveRoles(u)}
GlobalRows(u)  == {i \in RowsOf(u) : row[i].scope = "global"}
GlobalRoles(u) == {row[i].role : i \in GlobalRows(u)}
LiveRole       == {r \in Role : status[r] = "live"}

Blank ==
  [pc |-> "idle", op |-> "use", actor |-> NoUser, perms |-> {}, seen |-> {},
   user |-> NoUser, role |-> NoRole, scope |-> "global", id |-> 0,
   want |-> {}, add |-> {}, del |-> {}, keys |-> {}]

\* Ids nobody knows are as good as new ones.
Unused ==
  {i \in RowId : ~IsRow(i) /\ \A c \in Call : i # call[c].id /\ i \notin call[c].del}

\* The pc at which a resolver has read the tables and not yet filled the cache.
Filling == {"fill1", "fill2"}
\* The pcs at which an operation may have changed its user's assignments.
Writing == {"grant", "revoke", "claims", "write", "drop"}

CallType ==
  [pc: {"idle", "guard", "act", "again", "insert", "delete"}
         \cup Filling \cup Writing,
   op: Op, actor: User \cup {NoUser}, perms: SUBSET Perm, seen: SUBSET Perm,
   user: User \cup {NoUser}, role: Role \cup {NoRole}, scope: Scope,
   id: Nat, want: SUBSET Role, add: SUBSET Role, del: SUBSET RowId,
   keys: SUBSET Role]

Init ==
  /\ status = [r \in Role |-> IF r \in Seeded THEN "live" ELSE "unborn"]
  /\ permsOf = InitPerms
  /\ row = InitRow
  /\ cache = [u \in User |-> {}]
  /\ claims = [u \in User |-> LiveRoles(u)]
  /\ call = [c \in Call |-> Blank]
  /\ changes = 0
  /\ origin = UNION {Effective(u) : u \in User}
  /\ raced = {} /\ staleCache = {} /\ staleClaims = {}

-----------------------------------------------------------------------------
\* History.  Whose assignments or permissions does this step change?
Changed ==
  {u \in User : \/ RowsOf(u)' # RowsOf(u)
                \/ LiveRoles(u)' # LiveRoles(u)
                \/ Effective(u)' # Effective(u)}

Subject(d) == IF call[d].pc \in Filling THEN call[d].actor ELSE call[d].user

Races(c) ==
  raced' = raced \cup {d \in Call \ {c} : Subject(d) \in Changed}

\* A change that no operation follows up: the passing of time, a role edit, an
\* approved offboarding request.
Loosens(users) ==
  /\ staleCache' = staleCache \cup users
  /\ staleClaims' = staleClaims \cup users

Goto(c, pc) == call' = [call EXCEPT ![c].pc = pc]
Finish(c)   == call' = [call EXCEPT ![c] = Blank]
May(c, p)   == {p, Wild} \cap call[c].perms # {}

\* Mutant: the wildcard is not looked for among the role's permissions.
CanGrantWild(c) == call[c].seen \ {Wild} \subseteq call[c].perms

\* The subset test of assertCanGrantRole.
CanGrant(c) == Wild \in call[c].perms \/ call[c].seen \subseteq call[c].perms

-----------------------------------------------------------------------------
Counted == changes < MaxChanges /\ changes' = changes + 1

\* A request to a guarded endpoint: PolicyGuard resolves the caller first.
Request(c) ==
  /\ call[c].pc = "idle"
  /\ \E u \in User, op \in Ops[c] \ {"sync"} :
       /\ \/ op = "use" /\ UNCHANGED changes
          \/ op # "use" /\ Counted
       /\ call' = [call EXCEPT ![c] = [Blank EXCEPT !.pc = "guard", !.op = op,
                                                    !.actor = u]]
  /\ UNCHANGED <<tables, cache, claims, origin, hist>>

Proceed(pc) == IF pc \in {"guard", "fill1"} THEN "act" ELSE "insert"
Fetched(pc) == IF pc = "guard" THEN "fill1" ELSE "fill2"

\* resolve: the cached permissions, ...
ResolveHit(c) ==
  /\ call[c].pc \in {"guard", "again"}
  /\ \E e \in cache[call[c].actor] :
       call' = [call EXCEPT ![c].perms = e, ![c].pc = Proceed(@)]
  /\ UNCHANGED <<changes, tables, cache, claims, origin, hist>>

\* ... or those the tables hold, ...
ResolveMiss(c) ==
  /\ call[c].pc \in {"guard", "again"}
  /\ cache[call[c].actor] = {}
  /\ call' = [call EXCEPT ![c].perms = Effective(call[c].actor),
                          ![c].pc = Fetched(@)]
  /\ raced' = raced \ {c}
  /\ UNCHANGED <<changes, tables, cache, claims, origin, staleCache, staleClaims>>

\* ... which a later statement stores for the next callers.
ResolveFill(c) ==
  LET u == call[c].actor IN
  /\ call[c].pc \in Filling
  /\ cache' = [cache EXCEPT ![u] = {call[c].perms}]
  /\ call' = [call EXCEPT ![c].pc = Proceed(@)]
  /\ staleCache' = IF c \in raced THEN staleCache \cup {u} ELSE staleCache \ {u}
  /\ raced' = raced \ {c}
  /\ UNCHANGED <<changes, tables, claims, origin, staleClaims>>

\* check: any endpoint outside this module, granted or denied.
Use(c) ==
  /\ call[c].pc = "act" /\ call[c].op = "use"
  /\ Finish(c)
  /\ UNCHANGED <<changes, tables, cache, claims, origin, hist>>

\* PolicyGuard and assertCanGrantRole refuse.
Refuse(c) ==
  /\ \/ /\ call[c].pc = "act" /\ call[c].op \in {"assign", "revoke"}
        /\ ~May(c, RoleAssign)
     \/ /\ call[c].pc = "act" /\ call[c].op \in {"create", "edit", "remove"}
        /\ ~May(c, RbacManage)
     \/ call[c].pc = "insert" /\ ~CanGrant(c)
  /\ Finish(c)
  /\ UNCHANGED <<changes, tables, cache, claims, origin, hist>>

-----------------------------------------------------------------------------
\* assignRole: the role is read, then the actor is resolved a second time.
AssignRead(c) ==
  /\ call[c].pc = "act" /\ call[c].op = "assign" /\ May(c, RoleAssign)
  /\ \E g \in Grants :
       /\ g[2] \in LiveRole
       /\ call' = [call EXCEPT ![c].pc = "again", ![c].user = g[1],
                               ![c].role = g[2], ![c].scope = g[3],
                               ![c].seen = permsOf[g[2]], ![c].perms = {}]
  /\ UNCHANGED <<changes, tables, cache, claims, origin, hist>>

Equivalent(u, r, s) ==
  \E i \in RowsOf(u) : row[i].role = r /\ row[i].scope = s

\* The repository's assign: an equivalent row, even one that has expired, is
\* left as it is; the foreign key refuses a role deleted meanwhile.
Inserts(u, r, s, end) ==
  \/ Equivalent(u, r, s) /\ UNCHANGED row
  \/ /\ ~Equivalent(u, r, s) /\ r \in LiveRole
     /\ \E i \in Unused :
          /\ \A j \in Unused : i <= j
          /\ row' = [row EXCEPT ![i] = [user |-> u, role |-> r, scope |-> s,
                                        end |-> end]]

AssignRow(c) ==
  /\ call[c].pc = "insert" /\ CanGrant(c)
  /\ \E end \in {"never", "later"} :
       Inserts(call[c].user, call[c].role, call[c].scope, end)
  /\ call' = [call EXCEPT ![c] = [Blank EXCEPT !.pc = "claims", !.op = "assign",
                                               !.user = call[c].user]]
  /\ UNCHANGED <<changes, status, permsOf, cache, claims, origin, staleCache, staleClaims>>
  /\ Races(c)

\* revokeAssignment: find the assignment, then delete it by its id.
RevokeRead(c) ==
  /\ call[c].pc = "act" /\ call[c].op = "revoke" /\ May(c, RoleAssign)
  /\ \E i \in RowId :
       /\ IsRow(i)
       /\ call' = [call EXCEPT ![c] = [Blank EXCEPT !.pc = "delete",
                     !.op = "revoke", !.user = row[i].user, !.id = i]]
  /\ UNCHANGED <<changes, tables, cache, claims, origin, hist>>

\* Mutant: the claims and the cache are left alone.
RevokeRowOnly(c) ==
  /\ call[c].pc = "delete"
  /\ row' = [i \in RowId |-> IF i = call[c].id THEN NoRow ELSE row[i]]
  /\ Finish(c)
  /\ UNCHANGED <<changes, status, permsOf, cache, claims, origin, staleCache, staleClaims>>
  /\ Races(c)

RevokeRow(c) ==
  /\ call[c].pc = "delete"
  /\ row' = [i \in RowId |-> IF i = call[c].id THEN NoRow ELSE row[i]]
  /\ call' = [call EXCEPT ![c].pc = "claims", ![c].id = 0]
  /\ UNCHANGED <<changes, status, permsOf, cache, claims, origin, staleCache, staleClaims>>
  /\ Races(c)

-----------------------------------------------------------------------------
\* Mutant: a scoped assignment passes for the global one.
SyncPlanAnyScope(c) ==
  /\ Counted
  /\ call[c].pc = "idle" /\ "sync" \in Ops[c]
  /\ \E w \in Wanted :
       LET u == w[1]
           desired == w[2] \cap LiveRole
       IN  /\ call' = [call EXCEPT ![c] = [Blank EXCEPT
                 !.pc = "grant", !.op = "sync", !.user = u, !.want = desired,
                 !.add = desired \ {row[i].role : i \in RowsOf(u)},
                 !.del = {i \in GlobalRows(u) : row[i].role \notin desired}]]
           /\ origin' = origin \cup UNION {permsOf[r] : r \in desired}
  /\ raced' = raced \ {c}
  /\ UNCHANGED <<tables, cache, claims, staleCache, staleClaims>>

\* syncUserRolesByKeys, from an Entra login: no guard; what the identity
\* provider asserts is compared with the assignments once ...
SyncPlan(c) ==
  /\ Counted
  /\ call[c].pc = "idle" /\ "sync" \in Ops[c]
  /\ \E w \in Wanted :
       LET u == w[1]
           desired == w[2] \cap LiveRole
       IN  /\ call' = [call EXCEPT ![c] = [Blank EXCEPT
                 !.pc = "grant", !.op = "sync", !.user = u, !.want = desired,
                 !.add = desired \ GlobalRoles(u),
                 !.del = {i \in GlobalRows(u) : row[i].role \notin desired}]]
           /\ origin' = origin \cup UNION {permsOf[r] : r \in desired}
  /\ raced' = raced \ {c}
  /\ UNCHANGED <<tables, cache, claims, staleCache, staleClaims>>

\* ... the missing roles are granted one by one ...
SyncGrant(c) ==
  /\ call[c].pc = "grant"
  /\ \E r \in call[c].add :
       /\ Inserts(call[c].user, r, "global", "never")
       /\ call' = [call EXCEPT ![c].add = @ \ {r}]
  /\ UNCHANGED <<changes, status, permsOf, cache, claims, origin, staleCache, staleClaims>>
  /\ Races(c)

SyncGranted(c) ==
  /\ call[c].pc = "grant" /\ call[c].add = {}
  /\ Goto(c, "revoke")
  /\ UNCHANGED <<changes, tables, cache, claims, origin, hist>>

\* ... and the global ones no longer asserted are revoked one by one.
SyncRevoke(c) ==
  /\ call[c].pc = "revoke"
  /\ \E i \in call[c].del :
       /\ row' = [row EXCEPT ![i] = NoRow]
       /\ call' = [call EXCEPT ![c].del = @ \ {i}]
  /\ UNCHANGED <<changes, status, permsOf, cache, claims, origin, staleCache, staleClaims>>
  /\ Races(c)

SyncRevoked(c) ==
  /\ call[c].pc = "revoke" /\ call[c].del = {}
  /\ Goto(c, "claims")
  /\ UNCHANGED <<changes, tables, cache, claims, origin, hist>>

-----------------------------------------------------------------------------
\* Mutant: expired assignments count.
ClaimsReadAll(c) ==
  /\ call[c].pc = "claims"
  /\ call' = [call EXCEPT ![c].pc = "write", ![c].want = {},
                          ![c].keys = {row[i].role : i \in RowsOf(call[c].user)}]
  /\ raced' = raced \ {c}
  /\ UNCHANGED <<changes, tables, cache, claims, origin, staleCache, staleClaims>>

\* syncEmployeeRoleClaims reads the active roles and writes them in a second
\* statement; then the permission cache is cleared.
ClaimsRead(c) ==
  /\ call[c].pc = "claims"
  /\ call' = [call EXCEPT ![c].pc = "write", ![c].want = {},
                          ![c].keys = LiveRoles(call[c].user)]
  /\ raced' = raced \ {c}
  /\ UNCHANGED <<changes, tables, cache, claims, origin, staleCache, staleClaims>>

ClaimsWrite(c) ==
  LET u == call[c].user IN
  /\ call[c].pc = "write"
  /\ claims' = [claims EXCEPT ![u] = call[c].keys]
  /\ call' = [call EXCEPT ![c].pc = "drop", ![c].keys = {}]
  /\ staleClaims' = IF c \in raced THEN staleClaims \cup {u}
                                   ELSE staleClaims \ {u}
  /\ raced' = raced \ {c}
  /\ UNCHANGED <<changes, tables, cache, origin, staleCache>>

Invalidate(c) ==
  LET u == call[c].user IN
  /\ call[c].pc = "drop"
  /\ cache' = [cache EXCEPT ![u] = {}]
  /\ staleCache' = staleCache \ {u}
  /\ Finish(c)
  /\ UNCHANGED <<changes, tables, claims, origin, raced, staleClaims>>

-----------------------------------------------------------------------------
\* Role definitions: no claim and no cache entry is touched.
CreateRole(c) ==
  /\ call[c].pc = "act" /\ call[c].op = "create" /\ May(c, RbacManage)
  /\ \E e \in Edits :
       /\ status[e[1]] = "unborn"
       /\ status' = [status EXCEPT ![e[1]] = "live"]
       /\ permsOf' = [permsOf EXCEPT ![e[1]] = e[2]]
  /\ Finish(c)
  /\ UNCHANGED <<changes, row, cache, claims, origin, hist>>

SetRolePermissions(c) ==
  /\ call[c].pc = "act" /\ call[c].op = "edit" /\ May(c, RbacManage)
  /\ \E e \in Edits :
       /\ e[1] \in LiveRole
       /\ permsOf' = [permsOf EXCEPT ![e[1]] = e[2]]
       /\ origin' = origin \cup e[2]
  /\ Finish(c)
  /\ UNCHANGED <<changes, status, row, cache, claims>>
  /\ Races(c) /\ Loosens(Changed)

DeleteRole(c) ==
  /\ call[c].pc = "act" /\ call[c].op = "remove" /\ May(c, RbacManage)
  /\ \E r \in LiveRole \ System :
       /\ status' = [status EXCEPT ![r] = "deleted"]
       /\ permsOf' = [permsOf EXCEPT ![r] = {}]
       /\ row' = [i \in RowId |->
                    IF IsRow(i) /\ row[i].role = r THEN NoRow ELSE row[i]]
  /\ Finish(c)
  /\ UNCHANGED <<changes, cache, claims, origin>>
  /\ Races(c) /\ Loosens(Changed)

-----------------------------------------------------------------------------
\* Any statement may fail (a lost connection, a violated constraint, a missing
\* row): what the call has written stays.
CallFails(c) ==
  /\ call[c].pc # "idle"
  /\ Finish(c)
  /\ IF call[c].pc \in Writing THEN Loosens({call[c].user})
                               ELSE UNCHANGED <<staleCache, staleClaims>>
  /\ raced' = raced \ {c}
  /\ UNCHANGED <<changes, tables, cache, claims, origin>>

\* A time-boxed assignment ends.
Lapse(i) ==
  /\ IsRow(i) /\ row[i].end = "later"
  /\ row' = [row EXCEPT ![i].end = "past"]
  /\ UNCHANGED <<changes, status, permsOf, cache, claims, call, origin>>
  /\ raced' = raced \cup {d \in Call : Subject(d) \in Changed}
  /\ Loosens(Changed)

\* An offboarding request is approved: its transaction deletes the employee's
\* assignments, and neither the claims nor the cache are followed up.
Offboards(u) ==
  /\ Counted
  /\ RowsOf(u) # {}
  /\ row' = [i \in RowId |-> IF i \in RowsOf(u) THEN NoRow ELSE row[i]]
  /\ UNCHANGED <<status, permsOf, cache, claims, call, origin>>
  /\ raced' = raced \cup {d \in Call : Subject(d) \in Changed}
  /\ Loosens(Changed)

\* Mutant: cache entries have no TTL.
CacheNeverExpires(u) == u \notin User /\ UNCHANGED vars

\* The TTL of a cache entry.
CacheExpires(u) ==
  /\ cache[u] # {}
  /\ cache' = [cache EXCEPT ![u] = {}]
  /\ staleCache' = staleCache \ {u}
  /\ UNCHANGED <<changes, tables, claims, call, origin, raced, staleClaims>>

Resolver(c) == ResolveHit(c) \/ ResolveMiss(c) \/ ResolveFill(c)

CallStep(c) ==
  \/ Resolver(c) \/ Use(c) \/ Refuse(c)
  \/ AssignRead(c) \/ AssignRow(c) \/ RevokeRead(c) \/ RevokeRow(c)
  \/ SyncGrant(c) \/ SyncGranted(c) \/ SyncRevoke(c) \/ SyncRevoked(c)
  \/ ClaimsRead(c) \/ ClaimsWrite(c) \/ Invalidate(c)
  \/ CreateRole(c) \/ SetRolePermissions(c) \/ DeleteRole(c)
  \/ CallFails(c)

Next ==
  \/ \E c \in Call : Request(c) \/ SyncPlan(c) \/ CallStep(c)
  \/ \E i \in RowId : Lapse(i)
  \/ \E u \in User : Offboards(u) \/ CacheExpires(u)

\* A request in flight ends; a cache entry outlives its TTL only if renewed.
Fairness ==
  /\ \A c \in Call : WF_vars(CallStep(c))
  /\ \A u \in User : WF_vars(CacheExpires(u))

Spec == Init /\ [][Next]_vars /\ Fairness

-----------------------------------------------------------------------------
TypeOK ==
  /\ status \in [Role -> {"unborn", "live", "deleted"}]
  /\ permsOf \in [Role -> SUBSET Perm]
  /\ row \in [RowId -> Row \cup {NoRow}]
  /\ cache \in [User -> SUBSET SUBSET Perm]
  /\ claims \in [User -> SUBSET Role]
  /\ call \in [Call -> CallType]
  /\ changes \in 0..MaxChanges
  /\ origin \subseteq Perm
  /\ raced \subseteq Call
  /\ staleCache \subseteq User /\ staleClaims \subseteq User

\* No one gains a permission by being granted roles.  Until someone holds the
\* wildcard, every permission that a user has, or that the cache says they
\* have, came from the seed, the identity provider or the edit of a role:
\* assertCanGrantRole, although it decides on a cached answer and on a role
\* that may be edited before the row is inserted, lets nothing else through.
NoEscalation ==
  Wild \notin origin =>
    \A u \in User : /\ Effective(u) \subseteq origin
                    /\ UNION cache[u] \subseteq origin

\* A cache entry differs from the tables only while an operation on that user
\* has yet to clear it, or after a change nobody invalidates for (a role edit
\* or deletion, an expiry, an approved offboarding request, a failed call) or a
\* fill that raced with a change.
CacheCoherent ==
  \A u \in User : \A e \in cache[u] :
    \/ e = Effective(u)
    \/ u \in staleCache
    \/ \E c \in Call : call[c].user = u /\ call[c].pc \in Writing

\* The roles an access token will carry are the active assignments, except
\* while an operation on that user is under way, or after a change nobody
\* follows up or a lost update between two operations.
ClaimsInSync ==
  \A u \in User :
    \/ claims[u] = LiveRoles(u)
    \/ u \in staleClaims
    \/ \E c \in Call : call[c].user = u /\ call[c].pc \in Writing \ {"drop"}

\* The two copies of what the tables say, the permission cache and the roles of
\* the access token, lag behind them only for the stated reasons
\* (authz.service.ts, authz-admin.service.ts).
CopiesInSync == CacheCoherent /\ ClaimsInSync

\* Unless someone else changed the user's assignments meanwhile, a sync leaves
\* exactly the asserted roles as global assignments, whatever was there.
ReconcileExact ==
  \A c \in Call :
    call[c].op = "sync" /\ call[c].pc = "claims" /\ c \notin raced
      => GlobalRoles(call[c].user) = call[c].want

\* A permission taken away for good is eventually not served from the cache,
\* however a resolver's fill and an invalidation interleave: the TTL is the
\* safety net.
RevocationTakesEffect ==
  \A u \in User, p \in Perm :
    <>[](p \notin Effective(u)) => <>[](p \notin UNION cache[u])
=============================================================================
