------------------------ MODULE PermissionCacheProofs ------------------------
(***************************************************************************)
(* Two results for any users, roles, seed and number of requests in        *)
(* flight.  Granting roles never creates permissions: the strengthening    *)
(* says what a grant that has passed its check, or that the identity       *)
(* provider asked for, may still rely on (whatever was added to the role   *)
(* since is in origin).  And the copies of the tables lag behind them only *)
(* for the named causes: the strengthening says what each request in       *)
(* flight may still believe of what it read.                               *)
(***************************************************************************)
EXTENDS PermissionCache, TLAPS

Resolving == {"guard", "fill1", "act", "again", "fill2", "insert"}
Granting  == {"again", "fill2", "insert"}

CallInv(k) ==
  /\ k.pc \in Resolving => k.actor \in User
  /\ k.pc \in Granting \cup Writing \cup {"delete"} => k.user \in User
  /\ k.pc \in Granting => /\ k.role \in Role
                          /\ status[k.role] # "unborn"
                          /\ permsOf[k.role] \subseteq k.seen \cup origin
  /\ \A r \in k.add : status[r] # "unborn" /\ permsOf[r] \subseteq origin

\* An assignment counts from the start as long as it is not expired.
RowInv(x) ==
  /\ status[x.role] # "unborn"
  /\ Wild \notin origin /\ x.end # "past" => permsOf[x.role] \subseteq origin

IInv ==
  /\ TypeOK
  /\ \A c \in Call : CallInv(call[c])
  /\ \A i \in RowId : IsRow(i) => RowInv(row[i])
  /\ Wild \notin origin => /\ \A u \in User : UNION cache[u] \subseteq origin
                           /\ \A c \in Call : call[c].perms \subseteq origin

-----------------------------------------------------------------------------
\* The rows of a user are rows, and resolve returns permission keys.
LEMMA EffectiveType ==
  ASSUME TypeOK, NEW u \in User
  PROVE  LiveRoles(u) \subseteq Role /\ Effective(u) \subseteq Perm
<1>1. \A i \in RowsOf(u) : row[i] \in Row
  BY CacheAssumption DEF TypeOK, RowsOf, NoRow
<1>2. LiveRoles(u) \subseteq Role
  BY <1>1 DEF LiveRoles, Active, Row
<1> QED BY <1>2 DEF TypeOK, Effective

\* resolve returns nothing that the active assignments do not carry.
LEMMA EffectiveBound ==
  ASSUME TypeOK, NEW u \in User, NEW S,
         \A i \in RowId : IsRow(i) /\ row[i].end # "past"
                            => permsOf[row[i].role] \subseteq S
  PROVE  Effective(u) \subseteq S
<1>1. \A i \in Active(u) : permsOf[row[i].role] \subseteq S
  BY CacheAssumption DEF TypeOK, RowsOf, Active, NoRow, IsRow
<1> QED BY <1>1 DEF Effective, LiveRoles

\* An idle request.
LEMMA BlankType == Blank \in CallType /\ CallInv(Blank) /\ Blank.perms = {}
BY DEF Blank, CallType, CallInv, Op, Scope, Filling, Writing, Resolving, Granting

\* The strengthening implies what it is for.
LEMMA IInvImplies == IInv => NoEscalation
<1> SUFFICES ASSUME IInv, Wild \notin origin, NEW u \in User
             PROVE  Effective(u) \subseteq origin
  BY DEF NoEscalation, IInv
<1>1. \A i \in RowId : IsRow(i) /\ row[i].end # "past"
                         => permsOf[row[i].role] \subseteq origin
  BY DEF IInv, RowInv
<1> QED BY <1>1, EffectiveBound DEF IInv

\* A step of one request that leaves the role definitions and origin alone.
LEMMA Frame ==
  ASSUME IInv,
         NEW c \in Call, NEW k \in CallType,
         CallInv(k), Wild \notin origin => k.perms \subseteq origin,
         call' = [call EXCEPT ![c] = k],
         UNCHANGED <<status, permsOf, origin>>,
         row' \in [RowId -> Row \cup {NoRow}],
         \A i \in RowId : row'[i] \in {NoRow, row[i]} \/ RowInv(row'[i]),
         cache' \in [User -> SUBSET SUBSET Perm],
         Wild \notin origin => \A u \in User : UNION cache'[u] \subseteq origin,
         claims' \in [User -> SUBSET Role],
         changes' \in 0..MaxChanges,
         raced' \subseteq Call, staleCache' \subseteq User,
         staleClaims' \subseteq User
  PROVE  IInv'
<1>1. TypeOK'
  BY DEF IInv, TypeOK
<1>2. \A d \in Call : CallInv(call[d])'
  <2> SUFFICES ASSUME NEW d \in Call PROVE CallInv(call[d])'
    OBVIOUS
  <2>1. call'[d] = k \/ call'[d] = call[d]
    BY DEF IInv, TypeOK
  <2> QED BY <2>1 DEF IInv, CallInv
<1>3. \A i \in RowId : IsRow(i)' => RowInv(row[i])'
  BY DEF IInv, RowInv, IsRow
<1>4. Wild \notin origin' => \A d \in Call : call'[d].perms \subseteq origin'
  BY DEF IInv, TypeOK
<1> QED BY <1>1, <1>2, <1>3, <1>4 DEF IInv

-----------------------------------------------------------------------------
\* The strengthening holds of the seed.
LEMMA InitIInv == Init => IInv
<1> SUFFICES ASSUME Init PROVE IInv
  OBVIOUS
<1>1. /\ status \in [Role -> {"unborn", "live", "deleted"}]
      /\ permsOf \in [Role -> SUBSET Perm]
      /\ row \in [RowId -> Row \cup {NoRow}]
  BY CacheAssumption DEF Init
<1>2. \A u \in User : LiveRoles(u) \subseteq Role /\ Effective(u) \subseteq Perm
  <2> TAKE u \in User
  <2>1. \A i \in RowsOf(u) : row[i] \in Row
    BY <1>1, CacheAssumption DEF RowsOf, NoRow
  <2>2. LiveRoles(u) \subseteq Role
    BY <2>1 DEF LiveRoles, Active, Row
  <2> QED BY <2>2, <1>1 DEF Effective
<1>3. TypeOK
  <2>1. origin \subseteq Perm /\ claims \in [User -> SUBSET Role]
    BY <1>2 DEF Init
  <2>2. call \in [Call -> CallType]
    BY BlankType DEF Init
  <2> QED BY <1>1, <2>1, <2>2, CacheAssumption DEF Init, TypeOK
<1>4. \A c \in Call : CallInv(call[c]) /\ call[c].perms = {}
  BY BlankType DEF Init
<1>5. \A i \in RowId : IsRow(i) => RowInv(row[i])
  <2> SUFFICES ASSUME NEW i \in RowId, IsRow(i) PROVE RowInv(row[i])
    OBVIOUS
  <2>1. row[i] \in Row /\ row[i].role \in Seeded
    BY <1>1, CacheAssumption DEF Init, IsRow
  <2>2. status[row[i].role] = "live"
    BY <2>1 DEF Init, Row
  <2>3. ASSUME row[i].end # "past" PROVE permsOf[row[i].role] \subseteq origin
    <3>1. row[i].user \in User /\ i \in Active(row[i].user)
      BY <2>1, <2>3 DEF Active, RowsOf, Row
    <3>2. permsOf[row[i].role] \subseteq Effective(row[i].user)
      BY <3>1 DEF Effective, LiveRoles
    <3> QED BY <3>1, <3>2 DEF Init
  <2> QED BY <2>2, <2>3 DEF RowInv
<1>6. \A u \in User : UNION cache[u] \subseteq origin
  BY DEF Init
<1> QED BY <1>3, <1>4, <1>5, <1>6 DEF IInv

-----------------------------------------------------------------------------
\* What a step may leave alone, in the form Frame asks for.
LEMMA Unchanged ==
  ASSUME IInv
  PROVE  /\ UNCHANGED row => /\ row' \in [RowId -> Row \cup {NoRow}]
                             /\ \A i \in RowId : row'[i] \in {NoRow, row[i]}
         /\ UNCHANGED cache =>
              /\ cache' \in [User -> SUBSET SUBSET Perm]
              /\ Wild \notin origin => \A u \in User : UNION cache'[u] \subseteq origin
         /\ UNCHANGED claims => claims' \in [User -> SUBSET Role]
         /\ UNCHANGED changes => changes' \in 0..MaxChanges
         /\ UNCHANGED raced => raced' \subseteq Call
         /\ UNCHANGED staleCache => staleCache' \subseteq User
         /\ UNCHANGED staleClaims => staleClaims' \subseteq User
BY DEF IInv, TypeOK

\* What is known of a request in flight.
LEMMA KnownCall ==
  ASSUME IInv, NEW c \in Call
  PROVE  /\ call[c] \in CallType /\ CallInv(call[c])
         /\ Wild \notin origin => call[c].perms \subseteq origin
BY DEF IInv, TypeOK

\* Steps that end a request and touch no table, claim or cache entry.
LEMMA EndStep ==
  ASSUME IInv, NEW c \in Call, Finish(c),
         UNCHANGED <<tables, cache, claims, origin, changes>>,
         raced' \subseteq Call, staleCache' \subseteq User,
         staleClaims' \subseteq User
  PROVE  IInv'
<1>1. call' = [call EXCEPT ![c] = Blank]
  BY DEF Finish
<1> QED BY <1>1, BlankType, Unchanged, Frame DEF tables

\* A request arrives.
LEMMA RequestStep ==
  ASSUME IInv, NEW c \in Call, Request(c)
  PROVE  IInv'
<1>1. PICK u \in User, op \in Ops[c] \ {"sync"} :
        /\ UNCHANGED changes \/ Counted
        /\ call' = [call EXCEPT ![c] = [Blank EXCEPT !.pc = "guard", !.op = op,
                                                     !.actor = u]]
  BY DEF Request
<1> DEFINE k == [Blank EXCEPT !.pc = "guard", !.op = op, !.actor = u]
<1>2. op \in Op
  BY CacheAssumption
<1>4. changes' \in 0..MaxChanges
  BY <1>1, CacheAssumption DEF Counted, IInv, TypeOK
<1>3. k \in CallType /\ CallInv(k) /\ k.perms = {}
  BY <1>2, BlankType
  DEF Blank, CallType, CallInv, Filling, Writing, Resolving, Granting
<1> HIDE DEF k
<1> QED BY <1>1, <1>3, <1>4, Unchanged, Frame DEF Request, tables, hist, k

\* resolve returns, and caches, only what is in circulation.
LEMMA ResolverStep ==
  ASSUME IInv, NEW c \in Call, Resolver(c)
  PROVE  IInv'
<1> DEFINE u == call[c].actor
<1>0. call[c] \in CallType /\ CallInv(call[c])
  BY KnownCall
<1>1. CASE ResolveHit(c)
  <2>1. PICK e \in cache[u] :
          call' = [call EXCEPT ![c].perms = e, ![c].pc = Proceed(@)]
    BY <1>1 DEF ResolveHit
  <2> DEFINE k == [call[c] EXCEPT !.perms = e, !.pc = Proceed(call[c].pc)]
  <2>2. u \in User
    BY <1>0, <1>1 DEF ResolveHit, CallInv, Resolving
  <2>3. e \subseteq Perm /\ (Wild \notin origin => e \subseteq origin)
    BY <2>1, <2>2 DEF IInv, TypeOK
  <2>4. call' = [call EXCEPT ![c] = k]
    BY <2>1, <1>0 DEF IInv, TypeOK, CallType
  <2>5. k \in CallType /\ CallInv(k) /\ k.perms = e
    BY <1>0, <1>1, <2>3
    DEF ResolveHit, Proceed, CallType, CallInv, Filling, Writing, Resolving, Granting
  <2> HIDE DEF k
  <2> QED BY <1>1, <2>3, <2>4, <2>5, Unchanged, Frame DEF ResolveHit, tables, hist
<1>2. CASE ResolveMiss(c)
  <2> DEFINE k == [call[c] EXCEPT !.perms = Effective(u), !.pc = Fetched(call[c].pc)]
  <2>1. u \in User
    BY <1>0, <1>2 DEF ResolveMiss, CallInv, Resolving
  <2>2. Effective(u) \subseteq Perm
    BY <2>1, EffectiveType DEF IInv
  <2>3. Wild \notin origin => Effective(u) \subseteq origin
    BY <2>1, IInvImplies DEF NoEscalation
  <2>4. call' = [call EXCEPT ![c] = k]
    BY <1>2, <1>0 DEF ResolveMiss, IInv, TypeOK, CallType
  <2>5. k \in CallType /\ CallInv(k) /\ k.perms = Effective(u)
    BY <1>0, <1>2, <2>2
    DEF ResolveMiss, Fetched, CallType, CallInv, Filling, Writing, Resolving, Granting
  <2>6. raced' \subseteq Call
    BY <1>2 DEF ResolveMiss, IInv, TypeOK
  <2> HIDE DEF k
  <2> QED BY <1>2, <2>3, <2>4, <2>5, <2>6, Unchanged, Frame DEF ResolveMiss, tables
<1>3. CASE ResolveFill(c)
  <2> DEFINE k == [call[c] EXCEPT !.pc = Proceed(call[c].pc)]
  <2>1. call' = [call EXCEPT ![c] = k]
    BY <1>3, <1>0 DEF ResolveFill, IInv, TypeOK, CallType
  <2>2. k \in CallType /\ CallInv(k) /\ k.perms = call[c].perms
    BY <1>0, <1>3
    DEF ResolveFill, Proceed, CallType, CallInv, Filling, Writing, Resolving, Granting
  <2>3. /\ cache' \in [User -> SUBSET SUBSET Perm]
        /\ Wild \notin origin => \A v \in User : UNION cache'[v] \subseteq origin
    <3>1. call[c].perms \subseteq Perm
      BY <1>0 DEF CallType
    <3>2. \A v \in User : cache'[v] = cache[v] \/ cache'[v] = {call[c].perms}
      BY <1>3 DEF ResolveFill, IInv, TypeOK
    <3>3. cache' \in [User -> SUBSET SUBSET Perm]
      BY <1>3, <3>1 DEF ResolveFill, IInv, TypeOK
    <3> QED BY <3>2, <3>3, KnownCall DEF IInv
  <2>4. raced' \subseteq Call /\ staleCache' \subseteq User
    <3>1. u \in User
      BY <1>0, <1>3 DEF ResolveFill, CallInv, Resolving, Filling
    <3> QED BY <1>3, <3>1 DEF ResolveFill, IInv, TypeOK
  <2> HIDE DEF k
  <2> QED BY <1>3, <2>1, <2>2, <2>3, <2>4, KnownCall, Unchanged, Frame
          DEF ResolveFill, tables
<1> QED BY <1>1, <1>2, <1>3 DEF Resolver
-----------------------------------------------------------------------------
\* assign writes a row that is an assignment of a role there is.
LEMMA InsertsRow ==
  ASSUME IInv, NEW u \in User, NEW r \in Role, NEW s \in Scope,
         NEW end \in {"never", "later"}, Inserts(u, r, s, end),
         status[r] # "unborn", Wild \notin origin => permsOf[r] \subseteq origin
  PROVE  /\ row' \in [RowId -> Row \cup {NoRow}]
         /\ \A i \in RowId : row'[i] \in {NoRow, row[i]} \/ RowInv(row'[i])
<1>1. CASE UNCHANGED row
  BY <1>1, Unchanged
<1>2. CASE \E i \in Unused : row' = [row EXCEPT ![i] =
                 [user |-> u, role |-> r, scope |-> s, end |-> end]]
  <2> DEFINE x == [user |-> u, role |-> r, scope |-> s, end |-> end]
  <2>1. PICK i \in RowId : row' = [row EXCEPT ![i] = x]
    BY <1>2 DEF Unused
  <2>2. x \in Row /\ RowInv(x)
    BY DEF Row, RowInv
  <2> HIDE DEF x
  <2> QED BY <2>1, <2>2 DEF IInv, TypeOK
<1> QED BY <1>1, <1>2 DEF Inserts

\* assignRole: the check on the actor's cached permissions is enough, even if
\* the role is edited before the row is inserted.
LEMMA AssignStep ==
  ASSUME IInv, NEW c \in Call, AssignRead(c) \/ AssignRow(c)
  PROVE  IInv'
<1>0. call[c] \in CallType /\ CallInv(call[c])
  BY KnownCall
<1>1. CASE AssignRead(c)
  <2>1. PICK g \in Grants :
          /\ g[2] \in LiveRole
          /\ call' = [call EXCEPT ![c].pc = "again", ![c].user = g[1],
                                  ![c].role = g[2], ![c].scope = g[3],
                                  ![c].seen = permsOf[g[2]], ![c].perms = {}]
    BY <1>1 DEF AssignRead
  <2> DEFINE k == [call[c] EXCEPT !.pc = "again", !.user = g[1], !.role = g[2],
                     !.scope = g[3], !.seen = permsOf[g[2]], !.perms = {}]
  <2>2. /\ g[1] \in User /\ g[2] \in Role /\ g[3] \in Scope
        /\ permsOf[g[2]] \subseteq Perm /\ status[g[2]] = "live"
    BY <2>1, CacheAssumption DEF LiveRole, IInv, TypeOK
  <2>3. call' = [call EXCEPT ![c] = k]
    BY <2>1, <1>0 DEF IInv, TypeOK, CallType
  <2>4. k \in CallType /\ k.perms = {}
    BY <1>0, <2>2 DEF CallType
  <2>5. CallInv(k)
    BY <1>0, <1>1, <2>2
    DEF AssignRead, CallType, CallInv, Filling, Writing, Resolving, Granting
  <2> HIDE DEF k
  <2> QED BY <1>1, <2>3, <2>4, <2>5, Unchanged, Frame DEF AssignRead, tables, hist
<1>2. CASE AssignRow(c)
  <2> DEFINE k == [Blank EXCEPT !.pc = "claims", !.op = "assign",
                                !.user = call[c].user]
  <2>1. /\ call[c].user \in User /\ call[c].role \in Role
        /\ call[c].scope \in Scope /\ status[call[c].role] # "unborn"
        /\ permsOf[call[c].role] \subseteq call[c].seen \cup origin
    BY <1>0, <1>2 DEF AssignRow, CallType, CallInv, Granting
  <2>2. Wild \notin origin => permsOf[call[c].role] \subseteq origin
    BY <1>2, <2>1, KnownCall DEF AssignRow, CanGrant
  <2>3. PICK end \in {"never", "later"} :
          Inserts(call[c].user, call[c].role, call[c].scope, end)
    BY <1>2 DEF AssignRow
  <2>4. /\ row' \in [RowId -> Row \cup {NoRow}]
        /\ \A i \in RowId : row'[i] \in {NoRow, row[i]} \/ RowInv(row'[i])
    BY <2>1, <2>2, <2>3, InsertsRow
  <2>5. k \in CallType /\ CallInv(k) /\ k.perms = {}
    BY <2>1, BlankType
    DEF Blank, CallType, CallInv, Op, Filling, Writing, Resolving, Granting
  <2>6. raced' \subseteq Call
    BY <1>2 DEF AssignRow, Races, IInv, TypeOK
  <2>7. call' = [call EXCEPT ![c] = k]
    BY <1>2 DEF AssignRow
  <2> HIDE DEF k
  <2> QED BY <1>2, <2>4, <2>5, <2>6, <2>7, Unchanged, Frame DEF AssignRow
<1> QED BY <1>1, <1>2

\* Deleting assignments is always safe.
LEMMA RevokeStep ==
  ASSUME IInv, NEW c \in Call, RevokeRead(c) \/ RevokeRow(c)
  PROVE  IInv'
<1>0. call[c] \in CallType /\ CallInv(call[c])
  BY KnownCall
<1>1. CASE RevokeRead(c)
  <2>1. PICK i \in RowId :
          /\ IsRow(i)
          /\ call' = [call EXCEPT ![c] = [Blank EXCEPT !.pc = "delete",
                        !.op = "revoke", !.user = row[i].user, !.id = i]]
    BY <1>1 DEF RevokeRead
  <2> DEFINE k == [Blank EXCEPT !.pc = "delete", !.op = "revoke",
                                !.user = row[i].user, !.id = i]
  <2>2. row[i].user \in User /\ i \in Nat
    BY <2>1, CacheAssumption DEF IInv, TypeOK, IsRow, Row, RowId
  <2>3. k \in CallType /\ CallInv(k) /\ k.perms = {}
    BY <2>2, BlankType
    DEF Blank, CallType, CallInv, Op, Filling, Writing, Resolving, Granting
  <2> HIDE DEF k
  <2> QED BY <1>1, <2>1, <2>3, Unchanged, Frame DEF RevokeRead, tables, hist, k
<1>2. CASE RevokeRow(c)
  <2> DEFINE k == [call[c] EXCEPT !.pc = "claims", !.id = 0]
  <2>1. call' = [call EXCEPT ![c] = k]
    BY <1>2, <1>0 DEF RevokeRow, IInv, TypeOK, CallType
  <2>2. k \in CallType /\ CallInv(k) /\ k.perms = call[c].perms
    BY <1>0, <1>2
    DEF RevokeRow, CallType, CallInv, Filling, Writing, Resolving, Granting
  <2>3. /\ row' \in [RowId -> Row \cup {NoRow}]
        /\ \A i \in RowId : row'[i] \in {NoRow, row[i]}
    BY <1>2 DEF RevokeRow, IInv, TypeOK
  <2>4. raced' \subseteq Call
    BY <1>2 DEF RevokeRow, Races, IInv, TypeOK
  <2> HIDE DEF k
  <2> QED BY <1>2, <2>1, <2>2, <2>3, <2>4, KnownCall, Unchanged, Frame DEF RevokeRow
<1> QED BY <1>1, <1>2
-----------------------------------------------------------------------------
\* The identity provider's roles enter origin when the sync is planned; a
\* larger origin only weakens what is asked of everything else.
LEMMA PlanStep ==
  ASSUME IInv, NEW c \in Call, SyncPlan(c)
  PROVE  IInv'
<1>1. PICK w \in Wanted :
        LET u == w[1]
            desired == w[2] \cap LiveRole
        IN  /\ call' = [call EXCEPT ![c] = [Blank EXCEPT
                  !.pc = "grant", !.op = "sync", !.user = u, !.want = desired,
                  !.add = desired \ GlobalRoles(u),
                  !.del = {i \in GlobalRows(u) : row[i].role \notin desired}]]
            /\ origin' = origin \cup UNION {permsOf[r] : r \in desired}
  BY DEF SyncPlan
<1> DEFINE u == w[1]
           desired == w[2] \cap LiveRole
           k == [Blank EXCEPT
                  !.pc = "grant", !.op = "sync", !.user = u, !.want = desired,
                  !.add = desired \ GlobalRoles(u),
                  !.del = {i \in GlobalRows(u) : row[i].role \notin desired}]
<1>2. u \in User /\ desired \subseteq Role
  BY CacheAssumption DEF LiveRole
<1>3. call' = [call EXCEPT ![c] = k]
  BY <1>1
<1>4. /\ k \in CallType /\ k.pc = "grant" /\ k.user = u /\ k.perms = {}
      /\ k.add \subseteq desired
  BY <1>2, BlankType DEF Blank, CallType, Op, Writing, GlobalRows, RowsOf
<1>5. origin \subseteq origin' /\ origin' \subseteq Perm
  BY <1>1, <1>2 DEF IInv, TypeOK
<1>6. \A r \in desired : status[r] # "unborn" /\ permsOf[r] \subseteq origin'
  BY <1>1 DEF LiveRole
<1> HIDE DEF k, desired, u
<1>7. UNCHANGED <<status, permsOf, row, cache, claims, staleCache, staleClaims>>
  BY DEF SyncPlan, tables
<1>8. TypeOK'
  <2>1. changes' \in 0..MaxChanges
    BY CacheAssumption DEF SyncPlan, Counted, IInv, TypeOK
  <2>2. raced' \subseteq Call
    BY DEF SyncPlan, IInv, TypeOK
  <2> QED BY <1>3, <1>4, <1>5, <1>7, <2>1, <2>2 DEF IInv, TypeOK
<1>9. \A d \in Call : CallInv(call[d])'
  <2> SUFFICES ASSUME NEW d \in Call PROVE CallInv(call[d])'
    OBVIOUS
  <2>1. CASE d = c
    <3>1. call'[d] = k
      BY <1>3, <2>1 DEF IInv, TypeOK
    <3> QED BY <3>1, <1>2, <1>4, <1>6, <1>7
            DEF CallInv, Resolving, Granting, Writing
  <2>2. CASE d # c
    <3>1. call'[d] = call[d]
      BY <1>3, <2>2 DEF IInv, TypeOK
    <3> QED BY <3>1, <1>5, <1>7 DEF IInv, CallInv
  <2> QED BY <2>1, <2>2
<1>10. \A i \in RowId : IsRow(i)' => RowInv(row[i])'
  BY <1>5, <1>7 DEF IInv, RowInv, IsRow
<1>11. Wild \notin origin' => /\ \A v \in User : UNION cache'[v] \subseteq origin'
                              /\ \A d \in Call : call'[d].perms \subseteq origin'
  <2>1. \A d \in Call : call'[d] = k \/ call'[d] = call[d]
    BY <1>3 DEF IInv, TypeOK
  <2> QED BY <2>1, <1>4, <1>5, <1>7 DEF IInv
<1> QED BY <1>8, <1>9, <1>10, <1>11 DEF IInv

\* The steps of a sync after its plan.
LEMMA SyncStep ==
  ASSUME IInv, NEW c \in Call,
         SyncGrant(c) \/ SyncGranted(c) \/ SyncRevoke(c) \/ SyncRevoked(c)
  PROVE  IInv'
<1>0. call[c] \in CallType /\ CallInv(call[c])
  BY KnownCall
<1>1. CASE SyncGrant(c)
  <2>1. PICK r \in call[c].add :
          /\ Inserts(call[c].user, r, "global", "never")
          /\ call' = [call EXCEPT ![c].add = @ \ {r}]
    BY <1>1 DEF SyncGrant
  <2> DEFINE k == [call[c] EXCEPT !.add = call[c].add \ {r}]
  <2>2. /\ call[c].user \in User /\ r \in Role /\ "global" \in Scope
        /\ status[r] # "unborn" /\ permsOf[r] \subseteq origin
    BY <1>0, <1>1, <2>1 DEF SyncGrant, CallType, CallInv, Writing, Scope
  <2>3. call' = [call EXCEPT ![c] = k]
    BY <2>1, <1>0 DEF IInv, TypeOK, CallType
  <2>4. k \in CallType /\ CallInv(k) /\ k.perms = call[c].perms
    BY <1>0 DEF CallType, CallInv, Filling, Writing, Resolving, Granting
  <2>5. /\ row' \in [RowId -> Row \cup {NoRow}]
        /\ \A i \in RowId : row'[i] \in {NoRow, row[i]} \/ RowInv(row'[i])
    BY <2>1, <2>2, InsertsRow
  <2>6. raced' \subseteq Call
    BY <1>1 DEF SyncGrant, Races, IInv, TypeOK
  <2> HIDE DEF k
  <2> QED BY <1>1, <2>3, <2>4, <2>5, <2>6, KnownCall, Unchanged, Frame DEF SyncGrant
<1>2. CASE SyncRevoke(c)
  <2>1. PICK i \in call[c].del :
          /\ row' = [row EXCEPT ![i] = NoRow]
          /\ call' = [call EXCEPT ![c].del = @ \ {i}]
    BY <1>2 DEF SyncRevoke
  <2> DEFINE k == [call[c] EXCEPT !.del = call[c].del \ {i}]
  <2>2. call' = [call EXCEPT ![c] = k]
    BY <2>1, <1>0 DEF IInv, TypeOK, CallType
  <2>3. k \in CallType /\ CallInv(k) /\ k.perms = call[c].perms
    BY <1>0 DEF CallType, CallInv, Filling, Writing, Resolving, Granting
  <2>4. /\ row' \in [RowId -> Row \cup {NoRow}]
        /\ \A j \in RowId : row'[j] \in {NoRow, row[j]}
    BY <2>1 DEF IInv, TypeOK
  <2>5. raced' \subseteq Call
    BY <1>2 DEF SyncRevoke, Races, IInv, TypeOK
  <2> HIDE DEF k
  <2> QED BY <1>2, <2>2, <2>3, <2>4, <2>5, KnownCall, Unchanged, Frame DEF SyncRevoke
<1>3. CASE SyncGranted(c) \/ SyncRevoked(c)
  <2>1. PICK pc \in {"revoke", "claims"} : Goto(c, pc) /\ call[c].pc \in Writing
    BY <1>3 DEF SyncGranted, SyncRevoked, Writing
  <2> DEFINE k == [call[c] EXCEPT !.pc = pc]
  <2>2. call' = [call EXCEPT ![c] = k]
    BY <2>1, <1>0 DEF Goto, IInv, TypeOK, CallType
  <2>3. k \in CallType /\ CallInv(k) /\ k.perms = call[c].perms
    BY <1>0, <2>1 DEF CallType, CallInv, Filling, Writing, Resolving, Granting
  <2> HIDE DEF k
  <2> QED BY <1>3, <2>2, <2>3, KnownCall, Unchanged, Frame
          DEF SyncGranted, SyncRevoked, tables, hist
<1> QED BY <1>1, <1>2, <1>3
-----------------------------------------------------------------------------
\* The claims and the cache after an operation.
LEMMA FollowUpStep ==
  ASSUME IInv, NEW c \in Call, ClaimsRead(c) \/ ClaimsWrite(c) \/ Invalidate(c)
  PROVE  IInv'
<1> DEFINE u == call[c].user
<1>0. call[c] \in CallType /\ CallInv(call[c]) /\ u \in User
  BY KnownCall DEF ClaimsRead, ClaimsWrite, Invalidate, CallInv, Writing
<1>1. CASE ClaimsRead(c)
  <2> DEFINE k == [call[c] EXCEPT !.pc = "write", !.want = {},
                                  !.keys = LiveRoles(u)]
  <2>1. LiveRoles(u) \subseteq Role
    BY <1>0, EffectiveType DEF IInv
  <2>2. call' = [call EXCEPT ![c] = k]
    BY <1>1, <1>0 DEF ClaimsRead, IInv, TypeOK, CallType
  <2>3. k \in CallType /\ CallInv(k) /\ k.perms = call[c].perms
    BY <1>0, <2>1 DEF CallType, CallInv, Filling, Writing, Resolving, Granting
  <2>4. raced' \subseteq Call
    BY <1>1 DEF ClaimsRead, IInv, TypeOK
  <2> HIDE DEF k
  <2> QED BY <1>1, <2>2, <2>3, <2>4, KnownCall, Unchanged, Frame
          DEF ClaimsRead, tables
<1>2. CASE ClaimsWrite(c)
  <2> DEFINE k == [call[c] EXCEPT !.pc = "drop", !.keys = {}]
  <2>1. call' = [call EXCEPT ![c] = k]
    BY <1>2, <1>0 DEF ClaimsWrite, IInv, TypeOK, CallType
  <2>2. k \in CallType /\ CallInv(k) /\ k.perms = call[c].perms
    BY <1>0 DEF CallType, CallInv, Filling, Writing, Resolving, Granting
  <2>3. claims' \in [User -> SUBSET Role]
    BY <1>0, <1>2 DEF ClaimsWrite, CallType, IInv, TypeOK
  <2>4. raced' \subseteq Call /\ staleClaims' \subseteq User
    BY <1>0, <1>2 DEF ClaimsWrite, IInv, TypeOK
  <2> HIDE DEF k
  <2> QED BY <1>2, <2>1, <2>2, <2>3, <2>4, KnownCall, Unchanged, Frame
          DEF ClaimsWrite, tables
<1>3. CASE Invalidate(c)
  <2>1. call' = [call EXCEPT ![c] = Blank]
    BY <1>3 DEF Invalidate, Finish
  <2>2. /\ cache' \in [User -> SUBSET SUBSET Perm]
        /\ \A v \in User : cache'[v] = {} \/ cache'[v] = cache[v]
    BY <1>3 DEF Invalidate, IInv, TypeOK
  <2>3. Wild \notin origin => \A v \in User : UNION cache'[v] \subseteq origin
    BY <2>2 DEF IInv
  <2>4. staleCache' \subseteq User
    BY <1>3 DEF Invalidate, IInv, TypeOK
  <2> QED BY <1>3, <2>1, <2>2, <2>3, <2>4, BlankType, Unchanged, Frame
          DEF Invalidate, tables
<1> QED BY <1>1, <1>2, <1>3

\* A role definition changes.  The others keep theirs, and the new one is in
\* origin, or empty, or belongs to a role nobody could refer to before.
LEMMA RoleStep ==
  ASSUME IInv, NEW c \in Call, NEW r \in Role, NEW e \in SUBSET Perm,
         Finish(c), UNCHANGED <<cache, claims, changes>>,
         status' \in [Role -> {"unborn", "live", "deleted"}],
         \A q \in Role : status[q] # "unborn" => status'[q] # "unborn",
         permsOf' = [permsOf EXCEPT ![r] = e],
         e \subseteq origin' \/ status[r] = "unborn",
         origin \subseteq origin', origin' \subseteq Perm,
         row' \in [RowId -> Row \cup {NoRow}],
         \A i \in RowId : row'[i] \in {NoRow, row[i]},
         raced' \subseteq Call, staleCache' \subseteq User,
         staleClaims' \subseteq User
  PROVE  IInv'
<1>1. call' = [call EXCEPT ![c] = Blank]
  BY DEF Finish
<1>2. \A d \in Call : call'[d] = Blank \/ call'[d] = call[d]
  BY <1>1 DEF IInv, TypeOK
<1>3. TypeOK'
  BY <1>1, BlankType DEF IInv, TypeOK
<1>4. \A q \in Role : status[q] # "unborn" =>
        /\ status'[q] # "unborn"
        /\ permsOf'[q] = permsOf[q] \/ permsOf'[q] \subseteq origin'
  BY DEF IInv, TypeOK
<1>5. \A d \in Call : CallInv(call[d])'
  <2> SUFFICES ASSUME NEW d \in Call PROVE CallInv(call[d])'
    OBVIOUS
  <2>1. CASE call'[d] = Blank
    BY <2>1 DEF CallInv, Blank, Resolving, Granting, Writing
  <2>2. CASE call'[d] = call[d]
    <3>1. call[d] \in CallType /\ CallInv(call[d])
      BY KnownCall
    <3>2. call[d].pc \in Granting =>
            permsOf'[call[d].role] \subseteq call[d].seen \cup origin'
      BY <3>1, <1>4 DEF CallInv
    <3>3. \A q \in call[d].add :
            status'[q] # "unborn" /\ permsOf'[q] \subseteq origin'
      BY <3>1, <1>4 DEF CallInv, CallType
    <3> QED BY <2>2, <3>1, <3>2, <3>3, <1>4 DEF CallInv
  <2> QED BY <2>1, <2>2, <1>2
<1>6. \A i \in RowId : IsRow(i)' => RowInv(row[i])'
  <2> SUFFICES ASSUME NEW i \in RowId, IsRow(i)' PROVE RowInv(row[i])'
    OBVIOUS
  <2>1. row'[i] = row[i] /\ row[i] \in Row /\ RowInv(row[i])
    BY DEF IInv, TypeOK, IsRow
  <2>2. row[i].role \in Role
    BY <2>1 DEF Row
  <2> QED BY <2>1, <2>2, <1>4 DEF RowInv
<1>7. Wild \notin origin' => /\ \A u \in User : UNION cache'[u] \subseteq origin'
                             /\ \A d \in Call : call'[d].perms \subseteq origin'
  BY <1>2, BlankType DEF IInv
<1> QED BY <1>3, <1>5, <1>6, <1>7 DEF IInv

\* createRole: nobody refers to the new role yet.
LEMMA CreateStep ==
  ASSUME IInv, NEW c \in Call, CreateRole(c)
  PROVE  IInv'
<1>1. PICK e \in Edits :
        /\ status[e[1]] = "unborn"
        /\ status' = [status EXCEPT ![e[1]] = "live"]
        /\ permsOf' = [permsOf EXCEPT ![e[1]] = e[2]]
  BY DEF CreateRole
<1>2. e[1] \in Role /\ e[2] \in SUBSET Perm
  BY CacheAssumption
<1>3. /\ status' \in [Role -> {"unborn", "live", "deleted"}]
      /\ \A q \in Role : status[q] # "unborn" => status'[q] # "unborn"
  BY <1>1 DEF IInv, TypeOK
<1>4. origin' = origin /\ origin \subseteq Perm
  BY DEF CreateRole, IInv, TypeOK
<1> QED BY <1>1, <1>2, <1>3, <1>4, Unchanged, RoleStep DEF CreateRole, hist

\* setRolePermissions puts what it adds into circulation.
LEMMA EditStep ==
  ASSUME IInv, NEW c \in Call, SetRolePermissions(c)
  PROVE  IInv'
<1>1. PICK e \in Edits :
        /\ permsOf' = [permsOf EXCEPT ![e[1]] = e[2]]
        /\ origin' = origin \cup e[2]
  BY DEF SetRolePermissions
<1>2. e[1] \in Role /\ e[2] \in SUBSET Perm
  BY CacheAssumption
<1>3. /\ status' \in [Role -> {"unborn", "live", "deleted"}]
      /\ \A q \in Role : status[q] # "unborn" => status'[q] # "unborn"
  BY DEF SetRolePermissions, IInv, TypeOK
<1>4. origin \subseteq origin' /\ origin' \subseteq Perm /\ e[2] \subseteq origin'
  BY <1>1, <1>2 DEF IInv, TypeOK
<1>5. raced' \subseteq Call /\ staleCache' \subseteq User /\ staleClaims' \subseteq User
  BY DEF SetRolePermissions, Races, Loosens, Changed, IInv, TypeOK
<1> QED BY <1>1, <1>2, <1>3, <1>4, <1>5, Unchanged, RoleStep DEF SetRolePermissions

\* deleteRole empties the role and cascades to its assignments.
LEMMA DeleteStep ==
  ASSUME IInv, NEW c \in Call, DeleteRole(c)
  PROVE  IInv'
<1>1. PICK r \in LiveRole \ System :
        /\ status' = [status EXCEPT ![r] = "deleted"]
        /\ permsOf' = [permsOf EXCEPT ![r] = {}]
        /\ row' = [i \in RowId |->
                     IF IsRow(i) /\ row[i].role = r THEN NoRow ELSE row[i]]
  BY DEF DeleteRole
<1>2. r \in Role /\ {} \in SUBSET Perm
  BY DEF LiveRole
<1>3. /\ status' \in [Role -> {"unborn", "live", "deleted"}]
      /\ \A q \in Role : status[q] # "unborn" => status'[q] # "unborn"
  BY <1>1 DEF IInv, TypeOK
<1>4. origin' = origin /\ origin \subseteq Perm
  BY DEF DeleteRole, IInv, TypeOK
<1>5. raced' \subseteq Call /\ staleCache' \subseteq User /\ staleClaims' \subseteq User
  BY DEF DeleteRole, Races, Loosens, Changed, IInv, TypeOK
<1>6. /\ row' \in [RowId -> Row \cup {NoRow}]
      /\ \A i \in RowId : row'[i] \in {NoRow, row[i]}
  BY <1>1 DEF IInv, TypeOK
<1>7. UNCHANGED <<cache, claims, changes>> /\ Finish(c)
  BY DEF DeleteRole
<1> QED BY <1>1, <1>2, <1>3, <1>4, <1>5, <1>6, <1>7, RoleStep

\* Requests that end without a change of their own.
LEMMA OtherCallStep ==
  ASSUME IInv, NEW c \in Call, Use(c) \/ Refuse(c) \/ CallFails(c)
  PROVE  IInv'
<1>1. CASE Use(c) \/ Refuse(c)
  <2>1. Finish(c) /\ UNCHANGED <<changes, tables, cache, claims, origin, hist>>
    BY <1>1 DEF Use, Refuse
  <2> QED BY <2>1, Unchanged, EndStep DEF hist
<1>2. CASE CallFails(c)
  <2>1. call[c].pc \in Writing => call[c].user \in User
    BY KnownCall DEF CallInv
  <2>2. raced' \subseteq Call /\ staleCache' \subseteq User /\ staleClaims' \subseteq User
    BY <1>2, <2>1 DEF CallFails, Loosens, IInv, TypeOK
  <2> QED BY <1>2, <2>2, EndStep DEF CallFails
<1> QED BY <1>1, <1>2

\* Time: an assignment ends, a cache entry goes.
LEMMA TimeStep ==
  ASSUME IInv, (\E i \in RowId : Lapse(i)) \/ (\E u \in User : CacheExpires(u))
  PROVE  IInv'
<1>1. ASSUME NEW i \in RowId, Lapse(i) PROVE IInv'
  <2> DEFINE x == [row[i] EXCEPT !.end = "past"]
  <2>1. row[i] \in Row /\ x \in Row /\ x.role = row[i].role /\ x.end = "past"
    BY <1>1 DEF Lapse, IsRow, IInv, TypeOK, Row
  <2>2. row' = [row EXCEPT ![i] = x]
    BY <1>1 DEF Lapse
  <2>3. RowInv(x)
    BY <1>1, <2>1 DEF Lapse, IInv, RowInv
  <2> HIDE DEF x
  <2>4. UNCHANGED <<status, permsOf, cache, claims, call, origin, changes>>
    BY <1>1 DEF Lapse
  <2>5. raced' \subseteq Call /\ staleCache' \subseteq User /\ staleClaims' \subseteq User
    BY <1>1 DEF Lapse, Loosens, Changed, IInv, TypeOK
  <2>6. TypeOK'
    BY <2>1, <2>2, <2>4, <2>5 DEF IInv, TypeOK
  <2>7. \A j \in RowId : IsRow(j)' => RowInv(row[j])'
    BY <2>2, <2>3, <2>4 DEF IInv, TypeOK, RowInv, IsRow
  <2> QED BY <2>4, <2>6, <2>7 DEF IInv, CallInv
<1>2. ASSUME NEW u \in User, CacheExpires(u) PROVE IInv'
  <2>1. UNCHANGED <<status, permsOf, row, claims, call, origin, changes>>
    BY <1>2 DEF CacheExpires, tables
  <2>2. /\ cache' \in [User -> SUBSET SUBSET Perm]
        /\ \A v \in User : cache'[v] = {} \/ cache'[v] = cache[v]
    BY <1>2 DEF CacheExpires, IInv, TypeOK
  <2>3. TypeOK'
    BY <1>2, <2>1, <2>2 DEF CacheExpires, IInv, TypeOK
  <2> QED BY <2>1, <2>2, <2>3 DEF IInv, CallInv, RowInv, IsRow
<1> QED BY <1>1, <1>2

\* An approved offboarding request only deletes assignments.
LEMMA OffboardsStep ==
  ASSUME IInv, NEW u \in User, Offboards(u)
  PROVE  IInv'
<1>1. UNCHANGED <<status, permsOf, cache, claims, call, origin>>
  BY DEF Offboards
<1>2. /\ row' \in [RowId -> Row \cup {NoRow}]
      /\ \A i \in RowId : row'[i] \in {NoRow, row[i]}
  BY DEF Offboards, IInv, TypeOK
<1>3. raced' \subseteq Call /\ staleCache' \subseteq User /\ staleClaims' \subseteq User
  BY DEF Offboards, Loosens, Changed, IInv, TypeOK
<1>4. changes' \in 0..MaxChanges
  BY CacheAssumption DEF Offboards, Counted, IInv, TypeOK
<1>5. TypeOK'
  BY <1>1, <1>2, <1>3, <1>4 DEF IInv, TypeOK
<1>6. \A i \in RowId : IsRow(i)' => RowInv(row[i])'
  BY <1>1, <1>2 DEF IInv, RowInv, IsRow
<1> QED BY <1>1, <1>5, <1>6 DEF IInv, CallInv

\* Every step preserves the strengthening.
LEMMA NextIInv == IInv /\ [Next]_vars => IInv'
<1> SUFFICES ASSUME IInv, [Next]_vars PROVE IInv'
  OBVIOUS
<1>1. ASSUME NEW c \in Call, Request(c) \/ SyncPlan(c) \/ CallStep(c) PROVE IInv'
  BY <1>1, RequestStep, PlanStep, ResolverStep, OtherCallStep, AssignStep,
     RevokeStep, SyncStep, FollowUpStep, CreateStep, EditStep, DeleteStep
  DEF CallStep
<1>2. CASE UNCHANGED vars
  BY <1>2 DEF vars, IInv, TypeOK, CallInv, RowInv, IsRow
<1> QED BY <1>1, <1>2, TimeStep, OffboardsStep DEF Next

-----------------------------------------------------------------------------
\* For any users, roles, seed and number of concurrent requests: until someone
\* holds the wildcard, grants hand out only what the seed, the identity
\* provider or the edit of a role put into circulation, in the tables and in
\* the cache that resolve serves from.
THEOREM NoEscalationAlways == Spec => []NoEscalation
<1>1. IInv => NoEscalation
  BY IInvImplies
<1> QED BY <1>1, InitIInv, NextIInv, PTL DEF Spec

\* The state stays within its types.
THEOREM CacheTypeOKAlways == Spec => []TypeOK
<1>1. IInv => TypeOK
  BY DEF IInv
<1> QED BY <1>1, InitIInv, NextIInv, PTL DEF Spec

-----------------------------------------------------------------------------
\* What a request in flight may still rely on.  What it read of its subject
\* holds until someone else changes that user's assignments; the rows it is
\* about to delete are gone, or are still the ones it read.
FillKnown(c) ==
  call[c].pc \in Filling /\ c \notin raced
    => call[c].perms = Effective(call[c].actor)

KeysKnown(c) ==
  call[c].pc = "write" /\ c \notin raced => call[c].keys = LiveRoles(call[c].user)

RevokeKnown(c) ==
  call[c].pc = "delete" =>
    /\ call[c].op = "revoke" /\ call[c].id \in RowId
    /\ IsRow(call[c].id) => row[call[c].id].user = call[c].user

\* The plan of a sync: what is left to add and to delete.
Planned(c) ==
  /\ call[c].add \subseteq call[c].want
  /\ call[c].pc # "grant" => call[c].add = {}
  /\ call[c].pc = "claims" => call[c].del = {}
  /\ \A i \in call[c].del :
       IsRow(i) => row[i].user = call[c].user /\ row[i].role \notin call[c].want

PlanExact(c) ==
  /\ \A r \in call[c].want \ call[c].add :
       \E i \in RowsOf(call[c].user) : row[i].scope = "global" /\ row[i].role = r
  /\ \A i \in RowsOf(call[c].user) :
       row[i].scope = "global" => row[i].role \in call[c].want \/ i \in call[c].del

PlanKnown(c) ==
  /\ call[c].pc \in {"grant", "revoke"} => call[c].op = "sync"
  /\ call[c].op = "sync" /\ call[c].pc \in {"grant", "revoke", "claims"} =>
       Planned(c) /\ (c \notin raced => PlanExact(c))

Knows(c) == FillKnown(c) /\ KeysKnown(c) /\ RevokeKnown(c) /\ PlanKnown(c)

KnowInv == \A c \in Call : Knows(c)

\* The invariant that keeps the copies in step with the tables.
SyncInv == IInv /\ KnowInv /\ CopiesInSync

\* No step gives an existing assignment another user, role or scope, or the id
\* of a deleted one that a request still knows to a new one.
RowsKept ==
  \A i \in RowId : IsRow(i)' =>
    \/ /\ IsRow(i) /\ row'[i].user = row[i].user
       /\ row'[i].role = row[i].role /\ row'[i].scope = row[i].scope
    \/ i \in Unused

-----------------------------------------------------------------------------
\* A step that leaves assignments and role definitions alone changes nobody.
LEMMA NobodyChanged ==
  ASSUME UNCHANGED <<permsOf, row>>
  PROVE  Changed = {} /\ RowsKept
BY DEF Changed, RowsOf, LiveRoles, Active, Effective, RowsKept, IsRow

\* A step on the assignments of one user changes no other.
LEMMA OneChanged ==
  ASSUME TypeOK, NEW v, UNCHANGED permsOf,
         \A i \in RowId : \/ row'[i] = row[i]
                          \/ /\ row[i].user \in {v, NoUser}
                             /\ row'[i].user \in {v, NoUser}
  PROVE  Changed \subseteq {v}
<1> SUFFICES ASSUME NEW u \in User, u # v PROVE u \notin Changed
  BY DEF Changed
<1>0. u # NoUser
  BY CacheAssumption
<1>1. RowsOf(u)' = RowsOf(u) /\ \A i \in RowsOf(u) : row'[i] = row[i]
  BY <1>0 DEF RowsOf
<1>2. Active(u)' = Active(u) /\ \A i \in Active(u) : row'[i] = row[i]
  BY <1>1 DEF Active
<1>3. LiveRoles(u)' = LiveRoles(u)
  BY <1>2 DEF LiveRoles
<1>4. Effective(u)' = Effective(u)
  BY <1>3 DEF Effective
<1> QED BY <1>1, <1>3, <1>4 DEF Changed

\* What another request knows, it still knows, or it has been raced.
LEMMA OthersKnow ==
  ASSUME IInv, NEW d \in Call, Knows(d), call'[d] = call[d], RowsKept,
         d \in raced => d \in raced', Subject(d) \in Changed => d \in raced'
  PROVE  Knows(d)'
<1>0. call[d] \in CallType /\ CallInv(call[d])
  BY KnownCall
<1>1. FillKnown(d)'
  <2> SUFFICES ASSUME call[d].pc \in Filling, d \notin raced'
               PROVE  call'[d].perms = Effective(call[d].actor)'
    BY DEF FillKnown
  <2>1. PICK u \in User : u = call[d].actor
    BY <1>0 DEF CallInv, Filling, Resolving
  <2>2. call[d].perms = Effective(u)
    BY <2>1 DEF Knows, FillKnown
  <2>3. u \notin Changed
    BY <2>1 DEF Subject
  <2>4. Effective(u)' = Effective(u)
    BY <2>3 DEF Changed
  <2> QED BY <2>1, <2>2, <2>4
<1>2. KeysKnown(d)'
  <2> SUFFICES ASSUME call[d].pc = "write", d \notin raced'
               PROVE  call'[d].keys = LiveRoles(call[d].user)'
    BY DEF KeysKnown
  <2>1. PICK u \in User : u = call[d].user
    BY <1>0 DEF CallInv, Writing
  <2>2. call[d].keys = LiveRoles(u)
    BY <2>1 DEF Knows, KeysKnown
  <2>3. u \notin Changed
    BY <2>1 DEF Subject, Filling
  <2>4. LiveRoles(u)' = LiveRoles(u)
    BY <2>3 DEF Changed
  <2> QED BY <2>1, <2>2, <2>4
<1>3. \A i \in RowId : i \in Unused => i # call[d].id /\ i \notin call[d].del
  BY DEF Unused
<1>4. RevokeKnown(d)'
  BY <1>3 DEF Knows, RevokeKnown, RowsKept
<1>5. ASSUME call[d].op = "sync", call[d].pc \in {"grant", "revoke", "claims"}
      PROVE  Planned(d)' /\ (d \notin raced' => PlanExact(d)')
  <2>1. Planned(d) /\ (d \notin raced => PlanExact(d))
    BY <1>5 DEF Knows, PlanKnown
  <2>2. call[d].del \subseteq RowId
    BY <1>0 DEF CallType
  <2>3. Planned(d)'
    BY <2>1, <2>2, <1>3 DEF Planned, RowsKept
  <2>4. ASSUME d \notin raced' PROVE PlanExact(d)'
    <3>1. PICK u \in User : u = call[d].user
      BY <1>0, <1>5 DEF CallInv, Writing
    <3>2. RowsOf(u)' = RowsOf(u)
      BY <2>4, <3>1, <1>5 DEF Subject, Changed, Filling
    <3>3. \A i \in RowsOf(u) : IsRow(i) /\ IsRow(i)'
      BY <3>2, CacheAssumption DEF RowsOf, IsRow, NoRow
    <3>4. \A i \in RowsOf(u) : row'[i].role = row[i].role /\ row'[i].scope = row[i].scope
      BY <3>3 DEF RowsKept, RowsOf, Unused
    <3>5. PlanExact(d)
      BY <2>1, <2>4
    <3> QED BY <3>1, <3>2, <3>4, <3>5 DEF PlanExact
  <2> QED BY <2>3, <2>4
<1>6. PlanKnown(d)'
  BY <1>5 DEF Knows, PlanKnown
<1> QED BY <1>1, <1>2, <1>4, <1>6 DEF Knows

\* The same for all requests but the one that takes the step.
LEMMA AllKnow ==
  ASSUME IInv, KnowInv, NEW c \in Call, RowsKept, Knows(c)',
         \A d \in Call \ {c} : /\ call'[d] = call[d]
                               /\ d \in raced => d \in raced'
                               /\ Subject(d) \in Changed => d \in raced'
  PROVE  KnowInv'
BY OthersKnow DEF KnowInv

\* The copies stay in step if whoever changes is followed up or given up.
LEMMA Coherent ==
  ASSUME CopiesInSync, UNCHANGED <<cache, claims>>,
         staleCache \subseteq staleCache', staleClaims \subseteq staleClaims',
         \A u \in Changed :
           \/ u \in staleCache' /\ u \in staleClaims'
           \/ \E c \in Call : call'[c].user = u /\ call'[c].pc \in Writing \ {"drop"},
         \A d \in Call : call[d].pc \in Writing =>
           \/ call[d].user \in staleCache' /\ call[d].user \in staleClaims'
           \/ /\ call'[d].user = call[d].user
              /\ call'[d].pc \in Writing
              /\ call[d].pc # "drop" => call'[d].pc # "drop"
  PROVE  CopiesInSync'
<1>1. ASSUME NEW u \in User, u \notin Changed
      PROVE  Effective(u)' = Effective(u) /\ LiveRoles(u)' = LiveRoles(u)
  BY <1>1 DEF Changed
<1>2. CacheCoherent'
  <2> SUFFICES ASSUME NEW u \in User, NEW e \in cache[u], u \notin staleCache',
                      ~ \E c \in Call : call'[c].user = u /\ call'[c].pc \in Writing
               PROVE  e = Effective(u)'
    BY DEF CacheCoherent
  <2>1. u \notin Changed
    OBVIOUS
  <2>2. e = Effective(u)
    BY DEF CopiesInSync, CacheCoherent
  <2> QED BY <1>1, <2>1, <2>2
<1>3. ClaimsInSync'
  <2> SUFFICES ASSUME NEW u \in User, u \notin staleClaims',
                      ~ \E c \in Call : /\ call'[c].user = u
                                        /\ call'[c].pc \in Writing \ {"drop"}
               PROVE  claims[u] = LiveRoles(u)'
    BY DEF ClaimsInSync
  <2>1. u \notin Changed
    OBVIOUS
  <2>2. claims[u] = LiveRoles(u)
    BY DEF CopiesInSync, ClaimsInSync
  <2> QED BY <1>1, <2>1, <2>2
<1> QED BY <1>2, <1>3 DEF CopiesInSync

\* A step of one request that reads, or that ends it.
LEMMA QuietStep ==
  ASSUME IInv, KnowInv, CopiesInSync, NEW c \in Call,
         UNCHANGED <<permsOf, row, cache, claims>>,
         \A d \in Call \ {c} : call'[d] = call[d],
         raced \ {c} \subseteq raced',
         staleCache \subseteq staleCache', staleClaims \subseteq staleClaims',
         Knows(c)',
         call[c].pc \in Writing =>
           \/ call[c].user \in staleCache' /\ call[c].user \in staleClaims'
           \/ /\ call'[c].user = call[c].user
              /\ call'[c].pc \in Writing
              /\ call[c].pc # "drop" => call'[c].pc # "drop"
  PROVE  KnowInv' /\ CopiesInSync'
<1>1. Changed = {} /\ RowsKept
  BY NobodyChanged
<1>2. KnowInv'
  BY <1>1, AllKnow
<1>3. \A d \in Call : call[d].pc \in Writing =>
           \/ call[d].user \in staleCache' /\ call[d].user \in staleClaims'
           \/ /\ call'[d].user = call[d].user
              /\ call'[d].pc \in Writing
              /\ call[d].pc # "drop" => call'[d].pc # "drop"
  OBVIOUS
<1> QED BY <1>1, <1>2, <1>3, Coherent

\* A step of one request on the assignments of its user, which it follows up.
LEMMA FollowedStep ==
  ASSUME IInv, KnowInv, CopiesInSync, NEW c \in Call, NEW v,
         UNCHANGED <<permsOf, cache, claims, staleCache, staleClaims>>, Races(c),
         \A d \in Call \ {c} : call'[d] = call[d],
         Changed \subseteq {v}, RowsKept, Knows(c)',
         call'[c].user = v, call'[c].pc \in Writing \ {"drop"},
         call[c].pc \in Writing => call[c].user = v
  PROVE  KnowInv' /\ CopiesInSync'
<1>1. KnowInv'
  BY AllKnow DEF Races
<1>2. \A d \in Call : call[d].pc \in Writing =>
           /\ call'[d].user = call[d].user
           /\ call'[d].pc \in Writing
           /\ call[d].pc # "drop" => call'[d].pc # "drop"
  OBVIOUS
<1>3. \A u \in Changed :
        \E d \in Call : call'[d].user = u /\ call'[d].pc \in Writing \ {"drop"}
  OBVIOUS
<1> QED BY <1>1, <1>2, <1>3, Coherent

-----------------------------------------------------------------------------
\* A request that is idle, or that has yet to act, relies on nothing.
LEMMA NothingKnown ==
  ASSUME NEW c, call'[c].pc \in {"idle", "guard", "act", "again", "insert", "drop"}
  PROVE  Knows(c)'
BY DEF Knows, FillKnown, KeysKnown, RevokeKnown, PlanKnown, Filling

\* Only the request that takes a step moves.
LEMMA Moved ==
  ASSUME IInv, NEW c \in Call, NEW k, call' = [call EXCEPT ![c] = k]
  PROVE  call'[c] = k /\ \A d \in Call \ {c} : call'[d] = call[d]
BY DEF IInv, TypeOK

\* Steps of the guard, and the ends of requests.
LEMMA GuardSync ==
  ASSUME SyncInv, NEW c \in Call,
         Request(c) \/ ResolveHit(c) \/ ResolveMiss(c) \/ Use(c) \/ Refuse(c)
           \/ AssignRead(c)
  PROVE  KnowInv' /\ CopiesInSync'
<1> USE DEF SyncInv
<1>0. call \in [Call -> CallType] /\ call[c] \in CallType
  BY DEF IInv, TypeOK
<1>1. /\ UNCHANGED <<permsOf, row, cache, claims, staleCache, staleClaims>>
      /\ raced \ {c} \subseteq raced' /\ call[c].pc \notin Writing
  BY DEF Request, ResolveHit, ResolveMiss, Use, Refuse, AssignRead, tables, hist, Writing
<1>2. CASE ResolveMiss(c)
  <2> DEFINE k == [call[c] EXCEPT !.perms = Effective(call[c].actor),
                                  !.pc = Fetched(call[c].pc)]
  <2>1. call' = [call EXCEPT ![c] = k]
    BY <1>2, <1>0 DEF ResolveMiss, CallType
  <2>2. /\ k.perms = Effective(call[c].actor) /\ k.actor = call[c].actor
        /\ k.pc \in Filling
    BY <1>0 DEF CallType, Fetched, Filling
  <2> HIDE DEF k
  <2>3. call'[c] = k /\ \A d \in Call \ {c} : call'[d] = call[d]
    BY <2>1, Moved
  <2>4. PICK u \in User : u = call[c].actor
    BY <1>2, KnownCall DEF CallInv, ResolveMiss, Resolving
  <2>5. Effective(u)' = Effective(u)
    BY <1>1 DEF Effective, LiveRoles, Active, RowsOf
  <2>6. FillKnown(c)'
    BY <2>2, <2>3, <2>4, <2>5 DEF FillKnown
  <2>7. Knows(c)'
    BY <2>2, <2>3, <2>6 DEF Knows, KeysKnown, RevokeKnown, PlanKnown, Filling
  <2> QED BY <1>1, <2>3, <2>7, QuietStep
<1>3. CASE Request(c) \/ ResolveHit(c) \/ Use(c) \/ Refuse(c) \/ AssignRead(c)
  <2>1. /\ \A d \in Call \ {c} : call'[d] = call[d]
        /\ call'[c].pc \in {"idle", "guard", "act", "again", "insert"}
    <3>1. CASE Request(c)
      BY <1>0, <3>1 DEF Request, Blank
    <3>2. CASE ResolveHit(c)
      BY <1>0, <3>2 DEF ResolveHit, Proceed, CallType
    <3>3. CASE Use(c) \/ Refuse(c)
      BY <1>0, <3>3 DEF Use, Refuse, Finish, Blank
    <3>4. CASE AssignRead(c)
      <4>1. PICK g :
              call' = [call EXCEPT ![c].pc = "again", ![c].user = g[1],
                                   ![c].role = g[2], ![c].scope = g[3],
                                   ![c].seen = permsOf[g[2]], ![c].perms = {}]
        BY <3>4 DEF AssignRead
      <4> DEFINE k == [call[c] EXCEPT !.pc = "again", !.user = g[1], !.role = g[2],
                         !.scope = g[3], !.seen = permsOf[g[2]], !.perms = {}]
      <4>2. call' = [call EXCEPT ![c] = k] /\ k.pc = "again"
        BY <1>0, <4>1 DEF CallType
      <4> HIDE DEF k
      <4> QED BY <4>2, Moved
    <3> QED BY <1>3, <3>1, <3>2, <3>3, <3>4
  <2> QED BY <1>1, <2>1, NothingKnown, QuietStep
<1> QED BY <1>2, <1>3

\* revokeAssignment reads the row, and a failure gives the user up.
LEMMA RevokeReadSync ==
  ASSUME SyncInv, NEW c \in Call, RevokeRead(c)
  PROVE  KnowInv' /\ CopiesInSync'
<1> USE DEF SyncInv
<1>1. PICK i \in RowId :
        /\ IsRow(i)
        /\ call' = [call EXCEPT ![c] = [Blank EXCEPT !.pc = "delete",
                     !.op = "revoke", !.user = row[i].user, !.id = i]]
  BY DEF RevokeRead
<1> DEFINE k == [Blank EXCEPT !.pc = "delete", !.op = "revoke",
                              !.user = row[i].user, !.id = i]
<1>2. /\ UNCHANGED <<permsOf, row, cache, claims, raced, staleCache, staleClaims>>
      /\ call[c].pc \notin Writing
  BY DEF RevokeRead, tables, hist, Writing
<1>3. k.pc = "delete" /\ k.op = "revoke" /\ k.user = row[i].user /\ k.id = i
  BY DEF Blank
<1> HIDE DEF k
<1>4. call'[c] = k /\ \A d \in Call \ {c} : call'[d] = call[d]
  BY <1>1, Moved DEF k
<1>5. Knows(c)'
  BY <1>2, <1>3, <1>4 DEF Knows, FillKnown, KeysKnown, RevokeKnown, PlanKnown, Filling
<1> QED BY <1>2, <1>4, <1>5, QuietStep

LEMMA FailsSync ==
  ASSUME SyncInv, NEW c \in Call, CallFails(c)
  PROVE  KnowInv' /\ CopiesInSync'
<1> USE DEF SyncInv
<1>1. /\ UNCHANGED <<permsOf, row, cache, claims>> /\ raced' = raced \ {c}
      /\ staleCache \subseteq staleCache' /\ staleClaims \subseteq staleClaims'
      /\ call[c].pc \in Writing =>
           call[c].user \in staleCache' /\ call[c].user \in staleClaims'
  BY DEF CallFails, Loosens, tables
<1>2. call'[c] = Blank /\ \A d \in Call \ {c} : call'[d] = call[d]
  BY Moved DEF CallFails, Finish
<1>3. Knows(c)'
  BY <1>2, NothingKnown DEF Blank
<1> QED BY <1>1, <1>2, <1>3, QuietStep

\* ResolveFill stores what the tables still say, or the user is marked.
LEMMA FillSync ==
  ASSUME SyncInv, NEW c \in Call, ResolveFill(c)
  PROVE  KnowInv' /\ CopiesInSync'
<1> USE DEF SyncInv
<1>0. call \in [Call -> CallType] /\ call[c] \in CallType
  BY DEF IInv, TypeOK
<1>1. PICK u \in User : u = call[c].actor
  BY KnownCall DEF CallInv, ResolveFill, Resolving, Filling
<1>2. /\ UNCHANGED <<permsOf, row, claims, staleClaims>> /\ raced' = raced \ {c}
      /\ call[c].pc \in Filling
      /\ cache' = [cache EXCEPT ![u] = {call[c].perms}]
      /\ staleCache' = IF c \in raced THEN staleCache \cup {u} ELSE staleCache \ {u}
  BY <1>1 DEF ResolveFill, tables
<1>3. /\ \A d \in Call \ {c} : call'[d] = call[d]
      /\ call'[c].pc \in {"act", "insert"}
  BY <1>0 DEF ResolveFill, Proceed, CallType
<1>4. KnowInv'
  BY <1>2, <1>3, NothingKnown, NobodyChanged, AllKnow
<1>5. \A d \in Call : call[d].pc \in Writing => call'[d] = call[d]
  BY <1>2, <1>3 DEF Filling, Writing
<1>6. \A v \in User : Effective(v)' = Effective(v) /\ LiveRoles(v)' = LiveRoles(v)
  BY <1>2 DEF Effective, LiveRoles, Active, RowsOf
<1>7. c \notin raced => call[c].perms = Effective(u)
  BY <1>1, <1>2 DEF KnowInv, Knows, FillKnown
<1>8. CacheCoherent'
  <2> SUFFICES ASSUME NEW v \in User, NEW e \in cache'[v], v \notin staleCache',
                      ~ \E d \in Call : call'[d].user = v /\ call'[d].pc \in Writing
               PROVE  e = Effective(v)'
    BY DEF CacheCoherent
  <2>1. CASE v = u
    <3>1. e = call[c].perms
      BY <1>2, <2>1 DEF IInv, TypeOK
    <3> QED BY <3>1, <2>1, <1>2, <1>6, <1>7
  <2>2. CASE v # u
    <3>1. e \in cache[v] /\ v \notin staleCache
      BY <1>2, <2>2 DEF IInv, TypeOK
    <3>2. e = Effective(v)
      BY <3>1, <1>5 DEF CopiesInSync, CacheCoherent
    <3> QED BY <3>2, <1>6
  <2> QED BY <2>1, <2>2
<1>9. ClaimsInSync'
  <2> SUFFICES ASSUME NEW v \in User, v \notin staleClaims',
                      ~ \E d \in Call : /\ call'[d].user = v
                                        /\ call'[d].pc \in Writing \ {"drop"}
               PROVE  claims'[v] = LiveRoles(v)'
    BY DEF ClaimsInSync
  <2>1. claims[v] = LiveRoles(v)
    BY <1>2, <1>5 DEF CopiesInSync, ClaimsInSync
  <2> QED BY <2>1, <1>2, <1>6
<1> QED BY <1>4, <1>8, <1>9 DEF CopiesInSync

-----------------------------------------------------------------------------
\* assign adds a row of this user at an id nobody knows, unless an equivalent
\* one is there: either way the user then has the role in that scope.
LEMMA InsertsOne ==
  ASSUME IInv, NEW v \in User, NEW r, NEW s, NEW end, Inserts(v, r, s, end),
         UNCHANGED permsOf
  PROVE  /\ Changed \subseteq {v} /\ RowsKept
         /\ \E i \in RowId : row'[i].user = v /\ row'[i].role = r /\ row'[i].scope = s
         /\ \A i \in RowId : \/ row'[i] = row[i]
                             \/ /\ ~IsRow(i) /\ i \in Unused
                                /\ row'[i].role = r
<1>1. CASE UNCHANGED row /\ Equivalent(v, r, s)
  <2>1. Changed = {} /\ RowsKept
    BY <1>1, NobodyChanged
  <2> QED BY <1>1, <2>1 DEF Equivalent, RowsOf
<1>2. CASE \E i \in Unused : row' = [row EXCEPT ![i] =
                 [user |-> v, role |-> r, scope |-> s, end |-> end]]
  <2> DEFINE x == [user |-> v, role |-> r, scope |-> s, end |-> end]
  <2>1. PICK i \in Unused : row' = [row EXCEPT ![i] = x]
    BY <1>2
  <2>2. x.user = v /\ x.role = r /\ x.scope = s
    OBVIOUS
  <2> HIDE DEF x
  <2>3. i \in RowId /\ row[i] = NoRow
    BY <2>1 DEF Unused, IsRow
  <2>4. row'[i] = x /\ \A j \in RowId \ {i} : row'[j] = row[j]
    BY <2>1, <2>3 DEF IInv, TypeOK
  <2>5. row[i].user = NoUser
    BY <2>3 DEF NoRow
  <2>6. Changed \subseteq {v}
    BY <2>2, <2>4, <2>5, OneChanged DEF IInv
  <2>7. RowsKept
    BY <2>1, <2>4 DEF RowsKept, IsRow
  <2> QED BY <2>1, <2>2, <2>3, <2>4, <2>6, <2>7 DEF IsRow
<1> QED BY <1>1, <1>2 DEF Inserts

\* Deleting a row of this user, if it is still there.
LEMMA DeletesOne ==
  ASSUME IInv, NEW v \in User, NEW i \in RowId, IsRow(i) => row[i].user = v,
         row'[i] = NoRow, \A j \in RowId \ {i} : row'[j] = row[j],
         UNCHANGED permsOf
  PROVE  Changed \subseteq {v} /\ RowsKept
<1>1. row[i].user \in {v, NoUser} /\ row'[i].user \in {v, NoUser}
  BY DEF IsRow, NoRow
<1>2. Changed \subseteq {v}
  BY <1>1, OneChanged DEF IInv
<1> QED BY <1>2 DEF RowsKept, IsRow

\* assignRole and revokeAssignment go on to the claims.
LEMMA AssignSync ==
  ASSUME SyncInv, NEW c \in Call, AssignRow(c)
  PROVE  KnowInv' /\ CopiesInSync'
<1> USE DEF SyncInv
<1>1. PICK v \in User : v = call[c].user
  BY KnownCall DEF CallInv, AssignRow, Granting
<1> DEFINE k == [Blank EXCEPT !.pc = "claims", !.op = "assign", !.user = v]
<1>2. k.pc = "claims" /\ k.op = "assign" /\ k.user = v
  BY DEF Blank
<1> HIDE DEF k
<1>3. call'[c] = k /\ \A d \in Call \ {c} : call'[d] = call[d]
  BY <1>1, Moved DEF AssignRow, k
<1>4. PICK end : Inserts(v, call[c].role, call[c].scope, end)
  BY <1>1 DEF AssignRow
<1>5. /\ UNCHANGED <<permsOf, cache, claims, staleCache, staleClaims>>
      /\ Races(c) /\ call[c].pc \notin Writing
  BY DEF AssignRow, Writing
<1>6. Changed \subseteq {v} /\ RowsKept
  BY <1>4, <1>5, InsertsOne
<1>7. Knows(c)'
  BY <1>2, <1>3 DEF Knows, FillKnown, KeysKnown, RevokeKnown, PlanKnown, Filling
<1>8. call'[c].user = v /\ call'[c].pc \in Writing \ {"drop"}
  BY <1>2, <1>3 DEF Writing
<1> QED BY <1>3, <1>5, <1>6, <1>7, <1>8, FollowedStep

LEMMA RevokeSync ==
  ASSUME SyncInv, NEW c \in Call, RevokeRow(c)
  PROVE  KnowInv' /\ CopiesInSync'
<1> USE DEF SyncInv
<1>0. call \in [Call -> CallType] /\ call[c] \in CallType
  BY DEF IInv, TypeOK
<1>1. PICK v \in User : v = call[c].user
  BY KnownCall DEF CallInv, RevokeRow
<1>2. PICK i \in RowId : i = call[c].id /\ (IsRow(i) => row[i].user = v)
  BY <1>1 DEF RevokeRow, KnowInv, Knows, RevokeKnown
<1>3. call[c].op = "revoke"
  BY DEF RevokeRow, KnowInv, Knows, RevokeKnown
<1>4. /\ call'[c].pc = "claims" /\ call'[c].op = "revoke" /\ call'[c].user = v
      /\ \A d \in Call \ {c} : call'[d] = call[d]
  BY <1>0, <1>1, <1>3 DEF RevokeRow, CallType
<1>5. /\ UNCHANGED <<permsOf, cache, claims, staleCache, staleClaims>>
      /\ Races(c) /\ call[c].pc \notin Writing
      /\ row'[i] = NoRow /\ \A j \in RowId \ {i} : row'[j] = row[j]
  BY <1>2 DEF RevokeRow, Writing
<1>6. Changed \subseteq {v} /\ RowsKept
  BY <1>2, <1>5, DeletesOne
<1>7. Knows(c)'
  BY <1>4 DEF Knows, FillKnown, KeysKnown, RevokeKnown, PlanKnown, Filling
<1>8. call'[c].pc \in Writing \ {"drop"}
  BY <1>4 DEF Writing
<1> QED BY <1>4, <1>5, <1>6, <1>7, <1>8, FollowedStep

-----------------------------------------------------------------------------
\* syncUserRolesByKeys: the plan is exact when it is made ...
LEMMA PlanSync ==
  ASSUME SyncInv, NEW c \in Call, SyncPlan(c)
  PROVE  KnowInv' /\ CopiesInSync'
<1> USE DEF SyncInv
<1>1. PICK w \in Wanted :
        call' = [call EXCEPT ![c] = [Blank EXCEPT
           !.pc = "grant", !.op = "sync", !.user = w[1],
           !.want = w[2] \cap LiveRole,
           !.add = (w[2] \cap LiveRole) \ GlobalRoles(w[1]),
           !.del = {i \in GlobalRows(w[1]) : row[i].role \notin w[2] \cap LiveRole}]]
  BY DEF SyncPlan
<1> DEFINE W == w[2] \cap LiveRole
           A == W \ GlobalRoles(w[1])
           D == {i \in GlobalRows(w[1]) : row[i].role \notin W}
           k == [Blank EXCEPT !.pc = "grant", !.op = "sync", !.user = w[1],
                              !.want = W, !.add = A, !.del = D]
<1>2. PICK u \in User : u = w[1]
  BY CacheAssumption
<1>3. k.pc = "grant" /\ k.op = "sync" /\ k.user = u /\ k.want = W /\ k.add = A /\ k.del = D
  BY <1>2 DEF Blank
<1>4. call'[c] = k /\ \A d \in Call \ {c} : call'[d] = call[d]
  <2> HIDE DEF k
  <2> QED BY <1>1, Moved DEF k
<1> HIDE DEF k
<1>5. /\ UNCHANGED <<permsOf, row, cache, claims, staleCache, staleClaims>>
      /\ raced' = raced \ {c} /\ call[c].pc \notin Writing
  BY DEF SyncPlan, tables, Writing
<1>6. /\ A \subseteq W
      /\ \A i \in D : row[i].user = u /\ row[i].role \notin W
      /\ \A r \in W \ A : \E i \in RowsOf(u) : row[i].scope = "global" /\ row[i].role = r
      /\ \A i \in RowsOf(u) : row[i].scope = "global" => row[i].role \in W \/ i \in D
  BY <1>2 DEF GlobalRoles, GlobalRows, RowsOf
<1> HIDE DEF A, D, W
<1>7. Planned(c)'
  BY <1>3, <1>4, <1>5, <1>6 DEF Planned
<1>8. PlanExact(c)'
  BY <1>3, <1>4, <1>5, <1>6 DEF PlanExact, RowsOf
<1>9. Knows(c)'
  BY <1>3, <1>4, <1>7, <1>8 DEF Knows, FillKnown, KeysKnown, RevokeKnown, PlanKnown, Filling
<1> QED BY <1>4, <1>5, <1>9, QuietStep

\* ... every grant and every revocation keeps it exact ...
LEMMA GrantSync ==
  ASSUME SyncInv, NEW c \in Call, SyncGrant(c)
  PROVE  KnowInv' /\ CopiesInSync'
<1> USE DEF SyncInv
<1>0. call \in [Call -> CallType] /\ call[c] \in CallType
  BY DEF IInv, TypeOK
<1>1. PICK v \in User : v = call[c].user
  BY KnownCall DEF CallInv, SyncGrant, Writing
<1>2. PICK r \in call[c].add :
        /\ Inserts(v, r, "global", "never")
        /\ call' = [call EXCEPT ![c].add = @ \ {r}]
  BY <1>1 DEF SyncGrant
<1>3. /\ UNCHANGED <<permsOf, cache, claims, staleCache, staleClaims>>
      /\ Races(c) /\ call[c].pc = "grant" /\ call[c].op = "sync"
  BY DEF SyncGrant, KnowInv, Knows, PlanKnown
<1>4. /\ \A d \in Call \ {c} : call'[d] = call[d]
      /\ call'[c].pc = "grant" /\ call'[c].op = "sync" /\ call'[c].user = v
      /\ call'[c].want = call[c].want /\ call'[c].del = call[c].del
      /\ call'[c].add = call[c].add \ {r}
  BY <1>0, <1>1, <1>2, <1>3 DEF CallType
<1>5. /\ Changed \subseteq {v} /\ RowsKept
      /\ \E i \in RowId : row'[i].user = v /\ row'[i].role = r /\ row'[i].scope = "global"
      /\ \A i \in RowId : \/ row'[i] = row[i]
                          \/ ~IsRow(i) /\ i \in Unused /\ row'[i].role = r
  BY <1>2, <1>3, InsertsOne
<1>6. Planned(c) /\ (c \notin raced => PlanExact(c))
  BY <1>3 DEF KnowInv, Knows, PlanKnown
<1>7. call[c].del \subseteq RowId /\ \A i \in call[c].del : i \notin Unused
  BY <1>0 DEF CallType, Unused
<1>8. Planned(c)'
  BY <1>1, <1>4, <1>5, <1>6, <1>7 DEF Planned, IsRow
<1>9. ASSUME c \notin raced' PROVE PlanExact(c)'
  <2>1. PlanExact(c) /\ r \in call[c].want
    BY <1>9, <1>6, <1>3 DEF Races, Planned
  <2>2. \A i \in RowsOf(v) : row'[i] = row[i]
    BY <1>5, CacheAssumption DEF RowsOf, IsRow, NoRow
  <2>3. \A q \in call[c].want \ call'[c].add :
          \E i \in RowId : row'[i].user = v /\ row'[i].scope = "global" /\ row'[i].role = q
    <3> TAKE q \in call[c].want \ call'[c].add
    <3>1. CASE q = r
      BY <3>1, <1>5
    <3>2. CASE q # r
      BY <3>2, <2>1, <2>2, <1>1, <1>4 DEF PlanExact, RowsOf
    <3> QED BY <3>1, <3>2
  <2>4. \A i \in RowId : row'[i].user = v /\ row'[i].scope = "global"
                           => row'[i].role \in call[c].want \/ i \in call[c].del
    BY <2>1, <1>1, <1>5 DEF PlanExact, RowsOf
  <2> QED BY <2>3, <2>4, <1>4 DEF PlanExact, RowsOf
<1>10. Knows(c)'
  BY <1>4, <1>8, <1>9 DEF Knows, FillKnown, KeysKnown, RevokeKnown, PlanKnown, Filling
<1>11. call'[c].pc \in Writing \ {"drop"}
  BY <1>4 DEF Writing
<1> QED BY <1>1, <1>3, <1>4, <1>5, <1>10, <1>11, FollowedStep

LEMMA SyncRevokeSync ==
  ASSUME SyncInv, NEW c \in Call, SyncRevoke(c)
  PROVE  KnowInv' /\ CopiesInSync'
<1> USE DEF SyncInv
<1>0. call \in [Call -> CallType] /\ call[c] \in CallType
  BY DEF IInv, TypeOK
<1>1. PICK v \in User : v = call[c].user
  BY KnownCall DEF CallInv, SyncRevoke, Writing
<1>2. PICK i \in call[c].del :
        /\ row' = [row EXCEPT ![i] = NoRow]
        /\ call' = [call EXCEPT ![c].del = @ \ {i}]
  BY DEF SyncRevoke
<1>3. /\ UNCHANGED <<permsOf, cache, claims, staleCache, staleClaims>>
      /\ Races(c) /\ call[c].pc = "revoke" /\ call[c].op = "sync"
  BY DEF SyncRevoke, KnowInv, Knows, PlanKnown
<1>4. /\ \A d \in Call \ {c} : call'[d] = call[d]
      /\ call'[c].pc = "revoke" /\ call'[c].op = "sync" /\ call'[c].user = v
      /\ call'[c].want = call[c].want /\ call'[c].add = call[c].add
      /\ call'[c].del = call[c].del \ {i}
  BY <1>0, <1>1, <1>2, <1>3 DEF CallType
<1>5. Planned(c) /\ (c \notin raced => PlanExact(c))
  BY <1>3 DEF KnowInv, Knows, PlanKnown
<1>6. /\ i \in RowId /\ row'[i] = NoRow /\ \A j \in RowId \ {i} : row'[j] = row[j]
      /\ IsRow(i) => row[i].user = v /\ row[i].role \notin call[c].want
  BY <1>0, <1>1, <1>2, <1>5 DEF CallType, Planned, IInv, TypeOK
<1>7. Changed \subseteq {v} /\ RowsKept
  BY <1>3, <1>6, DeletesOne
<1>8. Planned(c)'
  BY <1>0, <1>1, <1>3, <1>4, <1>5, <1>6 DEF Planned, IsRow, CallType
<1>9. ASSUME c \notin raced' PROVE PlanExact(c)'
  <2>1. PlanExact(c)
    BY <1>3, <1>5, <1>9 DEF Races
  <2>2. \A j \in RowsOf(v) : IsRow(j)
    BY CacheAssumption DEF RowsOf, IsRow, NoRow
  <2>3. \A q \in call[c].want \ call[c].add :
          \E j \in RowId : row'[j].user = v /\ row'[j].scope = "global" /\ row'[j].role = q
    <3> TAKE q \in call[c].want \ call[c].add
    <3>1. PICK j \in RowsOf(v) : row[j].scope = "global" /\ row[j].role = q
      BY <2>1, <1>1 DEF PlanExact
    <3>2. j # i
      BY <3>1, <2>2, <1>6
    <3> QED BY <3>1, <3>2, <1>6 DEF RowsOf
  <2>4. \A j \in RowId : row'[j].user = v /\ row'[j].scope = "global"
                           => row'[j].role \in call[c].want \/ j \in call[c].del \ {i}
    <3> SUFFICES ASSUME NEW j \in RowId, row'[j].user = v, row'[j].scope = "global"
                 PROVE  row'[j].role \in call[c].want \/ j \in call[c].del \ {i}
      OBVIOUS
    <3>1. j # i
      BY <1>6, CacheAssumption DEF NoRow
    <3> QED BY <3>1, <2>1, <1>1, <1>6 DEF PlanExact, RowsOf
  <2> QED BY <2>3, <2>4, <1>4 DEF PlanExact, RowsOf
<1>10. Knows(c)'
  BY <1>4, <1>8, <1>9 DEF Knows, FillKnown, KeysKnown, RevokeKnown, PlanKnown, Filling
<1>11. call'[c].pc \in Writing \ {"drop"}
  BY <1>4 DEF Writing
<1> QED BY <1>1, <1>3, <1>4, <1>7, <1>10, <1>11, FollowedStep

\* ... and the ends of the two loops find nothing left to add or to delete.
LEMMA LoopEndSync ==
  ASSUME SyncInv, NEW c \in Call, SyncGranted(c) \/ SyncRevoked(c)
  PROVE  KnowInv' /\ CopiesInSync'
<1> USE DEF SyncInv
<1>0. call \in [Call -> CallType] /\ call[c] \in CallType
  BY DEF IInv, TypeOK
<1>1. /\ UNCHANGED <<permsOf, row, cache, claims, raced, staleCache, staleClaims>>
      /\ call[c].pc \in {"grant", "revoke"}
      /\ call[c].pc = "grant" => call[c].add = {}
      /\ call[c].pc = "revoke" => call[c].del = {}
  BY DEF SyncGranted, SyncRevoked, tables, hist
<1>2. /\ \A d \in Call \ {c} : call'[d] = call[d]
      /\ call'[c].pc = IF call[c].pc = "grant" THEN "revoke" ELSE "claims"
      /\ call'[c].op = call[c].op /\ call'[c].user = call[c].user
      /\ call'[c].want = call[c].want /\ call'[c].add = call[c].add
      /\ call'[c].del = call[c].del
  BY <1>0 DEF SyncGranted, SyncRevoked, Goto, CallType
<1>3. Planned(c) /\ (c \notin raced => PlanExact(c)) /\ call[c].op = "sync"
  BY <1>1 DEF KnowInv, Knows, PlanKnown
<1>4. Planned(c)'
  BY <1>1, <1>2, <1>3 DEF Planned, IsRow
<1>5. c \notin raced => PlanExact(c)'
  BY <1>1, <1>2, <1>3 DEF PlanExact, RowsOf
<1>6. Knows(c)'
  BY <1>1, <1>2, <1>3, <1>4, <1>5
  DEF Knows, FillKnown, KeysKnown, RevokeKnown, PlanKnown, Filling
<1>7. call'[c].pc \in Writing /\ call'[c].pc # "drop"
  BY <1>2 DEF Writing
<1> QED BY <1>1, <1>2, <1>6, <1>7, QuietStep

-----------------------------------------------------------------------------
\* The claims are read, ...
LEMMA ClaimsReadSync ==
  ASSUME SyncInv, NEW c \in Call, ClaimsRead(c)
  PROVE  KnowInv' /\ CopiesInSync'
<1> USE DEF SyncInv
<1>0. call \in [Call -> CallType] /\ call[c] \in CallType
  BY DEF IInv, TypeOK
<1>1. PICK u \in User : u = call[c].user
  BY KnownCall DEF CallInv, ClaimsRead, Writing
<1>2. /\ UNCHANGED <<permsOf, row, cache, claims, staleCache, staleClaims>>
      /\ raced' = raced \ {c} /\ call[c].pc = "claims"
  BY DEF ClaimsRead, tables
<1>3. /\ \A d \in Call \ {c} : call'[d] = call[d]
      /\ call'[c].pc = "write" /\ call'[c].user = u /\ call'[c].keys = LiveRoles(u)
  BY <1>0, <1>1 DEF ClaimsRead, CallType
<1>4. LiveRoles(u)' = LiveRoles(u)
  BY <1>2 DEF LiveRoles, Active, RowsOf
<1>5. Knows(c)'
  BY <1>3, <1>4 DEF Knows, FillKnown, KeysKnown, RevokeKnown, PlanKnown, Filling
<1>6. call'[c].pc \in Writing /\ call'[c].pc # "drop"
  BY <1>3 DEF Writing
<1> QED BY <1>1, <1>2, <1>3, <1>5, <1>6, QuietStep

\* ... written as they still are in the tables, or the user is marked, ...
LEMMA ClaimsWriteSync ==
  ASSUME SyncInv, NEW c \in Call, ClaimsWrite(c)
  PROVE  KnowInv' /\ CopiesInSync'
<1> USE DEF SyncInv
<1>0. call \in [Call -> CallType] /\ call[c] \in CallType
  BY DEF IInv, TypeOK
<1>1. PICK u \in User : u = call[c].user
  BY KnownCall DEF CallInv, ClaimsWrite, Writing
<1>2. /\ UNCHANGED <<permsOf, row, cache, staleCache>> /\ raced' = raced \ {c}
      /\ call[c].pc = "write"
      /\ claims' = [claims EXCEPT ![u] = call[c].keys]
      /\ staleClaims' = IF c \in raced THEN staleClaims \cup {u} ELSE staleClaims \ {u}
  BY <1>1 DEF ClaimsWrite, tables
<1>3. /\ \A d \in Call \ {c} : call'[d] = call[d]
      /\ call'[c].pc = "drop" /\ call'[c].user = u
  BY <1>0, <1>1 DEF ClaimsWrite, CallType
<1>4. KnowInv'
  BY <1>2, <1>3, NothingKnown, NobodyChanged, AllKnow
<1>5. \A v \in User : Effective(v)' = Effective(v) /\ LiveRoles(v)' = LiveRoles(v)
  BY <1>2 DEF Effective, LiveRoles, Active, RowsOf
<1>6. c \notin raced => call[c].keys = LiveRoles(u)
  BY <1>1, <1>2 DEF KnowInv, Knows, KeysKnown
<1>7. CacheCoherent'
  <2> SUFFICES ASSUME NEW v \in User, NEW e \in cache[v], v \notin staleCache,
                      ~ \E d \in Call : call'[d].user = v /\ call'[d].pc \in Writing
               PROVE  e = Effective(v)'
    BY <1>2 DEF CacheCoherent
  <2>1. \A d \in Call : call[d].pc \in Writing =>
          call'[d].user = call[d].user /\ call'[d].pc \in Writing
    BY <1>1, <1>3 DEF Writing
  <2>2. e = Effective(v)
    BY <2>1 DEF CopiesInSync, CacheCoherent
  <2> QED BY <2>2, <1>5
<1>8. ClaimsInSync'
  <2> SUFFICES ASSUME NEW v \in User, v \notin staleClaims',
                      ~ \E d \in Call : /\ call'[d].user = v
                                        /\ call'[d].pc \in Writing \ {"drop"}
               PROVE  claims'[v] = LiveRoles(v)'
    BY DEF ClaimsInSync
  <2>1. CASE v = u
    <3>1. claims'[v] = call[c].keys
      BY <1>2, <2>1 DEF IInv, TypeOK
    <3> QED BY <3>1, <2>1, <1>2, <1>5, <1>6
  <2>2. CASE v # u
    <3>1. claims'[v] = claims[v] /\ v \notin staleClaims
      BY <1>2, <2>2 DEF IInv, TypeOK
    <3>2. \A d \in Call : call[d].user = v => call'[d] = call[d]
      BY <1>1, <1>3, <2>2
    <3>3. claims[v] = LiveRoles(v)
      BY <3>1, <3>2 DEF CopiesInSync, ClaimsInSync
    <3> QED BY <3>1, <3>3, <1>5
  <2> QED BY <2>1, <2>2
<1> QED BY <1>4, <1>7, <1>8 DEF CopiesInSync

\* ... and an entry that has gone cannot be out of date.
LEMMA EntryGone ==
  ASSUME IInv, CopiesInSync, NEW u \in User,
         UNCHANGED <<permsOf, row, claims, staleClaims>>,
         cache' = [cache EXCEPT ![u] = {}], staleCache' = staleCache \ {u},
         \A d \in Call : \/ call'[d] = call[d]
                         \/ call[d].pc = "drop" /\ call[d].user = u
  PROVE  CopiesInSync'
<1>1. \A v \in User : Effective(v)' = Effective(v) /\ LiveRoles(v)' = LiveRoles(v)
  BY DEF Effective, LiveRoles, Active, RowsOf
<1>2. CacheCoherent'
  <2> SUFFICES ASSUME NEW v \in User, NEW e \in cache'[v], v \notin staleCache',
                      ~ \E d \in Call : call'[d].user = v /\ call'[d].pc \in Writing
               PROVE  e = Effective(v)'
    BY DEF CacheCoherent
  <2>1. v # u /\ e \in cache[v] /\ v \notin staleCache
    BY DEF IInv, TypeOK
  <2>2. e = Effective(v)
    BY <2>1 DEF CopiesInSync, CacheCoherent
  <2> QED BY <2>2, <1>1
<1>3. ClaimsInSync'
  <2> SUFFICES ASSUME NEW v \in User, v \notin staleClaims,
                      ~ \E d \in Call : /\ call'[d].user = v
                                        /\ call'[d].pc \in Writing \ {"drop"}
               PROVE  claims[v] = LiveRoles(v)'
    BY DEF ClaimsInSync
  <2>1. claims[v] = LiveRoles(v)
    BY DEF CopiesInSync, ClaimsInSync
  <2> QED BY <2>1, <1>1
<1> QED BY <1>2, <1>3 DEF CopiesInSync

LEMMA InvalidateSync ==
  ASSUME SyncInv, NEW c \in Call, Invalidate(c)
  PROVE  KnowInv' /\ CopiesInSync'
<1> USE DEF SyncInv
<1>1. PICK u \in User : u = call[c].user
  BY KnownCall DEF CallInv, Invalidate, Writing
<1>2. /\ UNCHANGED <<permsOf, row, claims, staleClaims, raced>> /\ call[c].pc = "drop"
      /\ cache' = [cache EXCEPT ![u] = {}] /\ staleCache' = staleCache \ {u}
  BY <1>1 DEF Invalidate, tables
<1>3. call'[c] = Blank /\ \A d \in Call \ {c} : call'[d] = call[d]
  BY Moved DEF Invalidate, Finish
<1>4. Knows(c)'
  BY <1>3, NothingKnown DEF Blank
<1>5. KnowInv'
  BY <1>2, <1>3, <1>4, NobodyChanged, AllKnow
<1>6. CopiesInSync'
  BY <1>1, <1>2, <1>3, EntryGone
<1> QED BY <1>5, <1>6

-----------------------------------------------------------------------------
\* A change of a role definition, after which nobody is told: whoever it
\* concerns is marked.
LEMMA GivenUpStep ==
  ASSUME SyncInv, NEW c \in Call, call[c].pc = "act", Finish(c), RowsKept,
         UNCHANGED <<cache, claims>>, raced \subseteq raced',
         \A d \in Call \ {c} : Subject(d) \in Changed => d \in raced',
         staleCache \subseteq staleCache', staleClaims \subseteq staleClaims',
         Changed \subseteq staleCache', Changed \subseteq staleClaims'
  PROVE  KnowInv' /\ CopiesInSync'
<1> USE DEF SyncInv
<1>1. call'[c] = Blank /\ \A d \in Call \ {c} : call'[d] = call[d]
  BY Moved DEF Finish
<1>2. Knows(c)'
  BY <1>1, NothingKnown DEF Blank
<1>3. KnowInv'
  BY <1>1, <1>2, AllKnow
<1>4. \A d \in Call : call[d].pc \in Writing => call'[d] = call[d]
  BY <1>1 DEF Writing
<1> QED BY <1>3, <1>4, Coherent

\* createRole marks nobody: no assignment can refer to a role before it exists.
LEMMA CreateSync ==
  ASSUME SyncInv, NEW c \in Call, CreateRole(c)
  PROVE  KnowInv' /\ CopiesInSync'
<1> USE DEF SyncInv
<1>1. PICK e \in Edits :
        status[e[1]] = "unborn" /\ permsOf' = [permsOf EXCEPT ![e[1]] = e[2]]
  BY DEF CreateRole
<1>2. /\ UNCHANGED <<row, cache, claims, raced, staleCache, staleClaims>>
      /\ call[c].pc = "act" /\ Finish(c)
  BY DEF CreateRole, hist
<1>3. RowsKept
  BY <1>2 DEF RowsKept, IsRow
<1>4. Changed = {}
  <2> SUFFICES ASSUME NEW u \in User PROVE u \notin Changed
    BY DEF Changed
  <2>1. RowsOf(u)' = RowsOf(u) /\ LiveRoles(u)' = LiveRoles(u)
    BY <1>2 DEF RowsOf, LiveRoles, Active
  <2>2. \A i \in Active(u) : IsRow(i) /\ i \in RowId
    BY CacheAssumption DEF Active, RowsOf, IsRow, NoRow
  <2>3. \A i \in Active(u) : row[i].role # e[1]
    BY <2>2, <1>1 DEF IInv, RowInv
  <2>4. LiveRoles(u) \subseteq Role
    BY EffectiveType DEF IInv
  <2>5. \A r \in LiveRoles(u) : permsOf'[r] = permsOf[r]
    BY <2>3, <2>4, <1>1 DEF LiveRoles, IInv, TypeOK
  <2>6. Effective(u)' = Effective(u)
    BY <2>1, <2>5 DEF Effective
  <2> QED BY <2>1, <2>6 DEF Changed
<1> QED BY <1>2, <1>3, <1>4, GivenUpStep

LEMMA EditSync ==
  ASSUME SyncInv, NEW c \in Call, SetRolePermissions(c)
  PROVE  KnowInv' /\ CopiesInSync'
<1>1. /\ UNCHANGED <<row, cache, claims>> /\ call[c].pc = "act" /\ Finish(c)
      /\ Races(c) /\ Loosens(Changed)
  BY DEF SetRolePermissions
<1>2. RowsKept
  BY <1>1 DEF RowsKept, IsRow
<1> QED BY <1>1, <1>2, GivenUpStep DEF Races, Loosens

LEMMA DeleteSync ==
  ASSUME SyncInv, NEW c \in Call, DeleteRole(c)
  PROVE  KnowInv' /\ CopiesInSync'
<1>1. /\ UNCHANGED <<cache, claims>> /\ call[c].pc = "act" /\ Finish(c)
      /\ Races(c) /\ Loosens(Changed)
      /\ \A i \in RowId : row'[i] \in {NoRow, row[i]}
  BY DEF DeleteRole
<1>2. RowsKept
  BY <1>1 DEF RowsKept, IsRow
<1> QED BY <1>1, <1>2, GivenUpStep DEF Races, Loosens

\* An expiry marks whoever it concerns, request in flight or not.
LEMMA LapseSync ==
  ASSUME SyncInv, NEW i \in RowId, Lapse(i)
  PROVE  KnowInv' /\ CopiesInSync'
<1> USE DEF SyncInv
<1>1. /\ UNCHANGED <<permsOf, cache, claims, call>> /\ Loosens(Changed)
      /\ raced' = raced \cup {d \in Call : Subject(d) \in Changed}
      /\ IsRow(i) /\ row' = [row EXCEPT ![i].end = "past"]
  BY DEF Lapse
<1>2. row[i] \in Row /\ row \in [RowId -> Row \cup {NoRow}]
  BY <1>1 DEF IInv, TypeOK, IsRow
<1>3. /\ row'[i].user = row[i].user /\ row'[i].role = row[i].role
      /\ row'[i].scope = row[i].scope
      /\ \A j \in RowId \ {i} : row'[j] = row[j]
  BY <1>1, <1>2 DEF Row
<1>4. RowsKept
  BY <1>1, <1>3 DEF RowsKept, IsRow
<1>5. KnowInv'
  BY <1>1, <1>4, OthersKnow DEF KnowInv
<1> QED BY <1>1, <1>5, Coherent DEF Loosens

\* An approved offboarding request marks whoever it concerns.
LEMMA OffboardsSync ==
  ASSUME SyncInv, NEW u \in User, Offboards(u)
  PROVE  KnowInv' /\ CopiesInSync'
<1> USE DEF SyncInv
<1>1. /\ UNCHANGED <<permsOf, cache, claims, call>> /\ Loosens(Changed)
      /\ raced' = raced \cup {d \in Call : Subject(d) \in Changed}
      /\ \A i \in RowId : row'[i] \in {NoRow, row[i]}
  BY DEF Offboards
<1>2. RowsKept
  BY <1>1 DEF RowsKept, IsRow
<1>3. KnowInv'
  BY <1>1, <1>2, OthersKnow DEF KnowInv
<1> QED BY <1>1, <1>3, Coherent DEF Loosens

LEMMA ExpirySync ==
  ASSUME SyncInv, NEW u \in User, CacheExpires(u)
  PROVE  KnowInv' /\ CopiesInSync'
<1> USE DEF SyncInv
<1>1. /\ UNCHANGED <<permsOf, row, claims, staleClaims, raced, call>>
      /\ cache' = [cache EXCEPT ![u] = {}] /\ staleCache' = staleCache \ {u}
  BY DEF CacheExpires, tables
<1>2. KnowInv'
  BY <1>1, NobodyChanged, OthersKnow DEF KnowInv
<1>3. CopiesInSync'
  BY <1>1, EntryGone
<1> QED BY <1>2, <1>3

\* At first nothing is cached and the claims are the assignments.
LEMMA InitSync == Init => SyncInv
<1> SUFFICES ASSUME Init PROVE SyncInv
  OBVIOUS
<1>1. KnowInv
  BY DEF Init, Blank, KnowInv, Knows, FillKnown, KeysKnown, RevokeKnown, PlanKnown, Filling
<1>2. CopiesInSync
  BY DEF Init, CopiesInSync, CacheCoherent, ClaimsInSync
<1> QED BY <1>1, <1>2, InitIInv DEF SyncInv

\* Every step preserves it.
LEMMA NextSync == SyncInv /\ [Next]_vars => SyncInv'
<1> SUFFICES ASSUME SyncInv, [Next]_vars PROVE KnowInv' /\ CopiesInSync'
  BY NextIInv DEF SyncInv
<1>1. ASSUME NEW c \in Call, Request(c) \/ SyncPlan(c) \/ CallStep(c)
      PROVE  KnowInv' /\ CopiesInSync'
  BY <1>1, GuardSync, RevokeReadSync, FailsSync, FillSync, AssignSync, RevokeSync,
     PlanSync, GrantSync, SyncRevokeSync, LoopEndSync, ClaimsReadSync,
     ClaimsWriteSync, InvalidateSync, CreateSync, EditSync, DeleteSync
  DEF CallStep, Resolver
<1>2. CASE UNCHANGED vars
  <2>1. /\ UNCHANGED <<permsOf, row, cache, claims, call>>
        /\ UNCHANGED <<raced, staleCache, staleClaims>>
    BY <1>2 DEF vars
  <2>2. KnowInv'
    BY <2>1, NobodyChanged, OthersKnow DEF KnowInv, SyncInv
  <2>3. CopiesInSync'
    BY <2>1, NobodyChanged, Coherent DEF SyncInv
  <2> QED BY <2>2, <2>3
<1> QED BY <1>1, <1>2, LapseSync, OffboardsSync, ExpirySync DEF Next

-----------------------------------------------------------------------------
\* For any users, roles and number of concurrent requests, and although no
\* administrative operation is a transaction: the permission cache and the
\* role claims lag behind the tables only while an operation on that user is
\* still to follow up, or after one of the named causes.
THEOREM CopiesInSyncAlways == Spec => []CopiesInSync
<1>1. SyncInv => CopiesInSync
  BY DEF SyncInv
<1> QED BY <1>1, InitSync, NextSync, PTL DEF Spec

\* A sync that nobody interfered with ends with exactly the roles the identity
\* provider asserted as the user's global assignments.
THEOREM ReconcileExactAlways == Spec => []ReconcileExact
<1>1. SyncInv => ReconcileExact
  <2> SUFFICES ASSUME SyncInv, NEW c \in Call, call[c].op = "sync",
                      call[c].pc = "claims", c \notin raced
               PROVE  GlobalRoles(call[c].user) = call[c].want
    BY DEF ReconcileExact
  <2>1. Planned(c) /\ PlanExact(c)
    BY DEF SyncInv, KnowInv, Knows, PlanKnown
  <2> QED BY <2>1 DEF Planned, PlanExact, GlobalRoles, GlobalRows
<1> QED BY <1>1, InitSync, NextSync, PTL DEF Spec
=============================================================================
