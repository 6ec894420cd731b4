------------------------- MODULE OutboxRelayProofs --------------------------
(***************************************************************************)
(* What the polling loop of AbstractOutboxRelay guarantees to every        *)
(* subclass, for any number of rows and processes: a row in hand is locked *)
(* by the process that has it, and stays pending with an attempt left      *)
(* until that process's transaction ends.                                  *)
(***************************************************************************)
EXTENDS OutboxRelay, TLAPS

\* FOR UPDATE SKIP LOCKED (abstract-outbox-relay.ts:113-117): a row a process is
\* working on, or whose result it is about to commit, is locked by it; a row has
\* no result before it is processed; and a locked row is as the SELECT found it.
LockInv ==
  /\ \A p \in Process, r \in Row :
       r \in batch[p] \/ result[p][r] # "none" => owner[r] = p
  /\ \A p \in Process : \A r \in batch[p] : result[p][r] = "none"
  /\ \A r \in Row :
       owner[r] # NoProcess =>
         pc[owner[r]] = "work" /\ status[r] = "pending" /\ attempts[r] < MaxAttempts

RelayInv == RelayTypeOK /\ LockInv

\* No row is locked, in hand or given a result at the start.
LEMMA InitRelay == RelayInit => RelayInv
BY OutboxAssumption DEF RelayInit, RelayInv, RelayTypeOK, LockInv, NoResult

\* A row the producer commits is new and so in nobody's hands; a backoff that
\* elapses concerns the due time only.
LEMMA InsertRelay ==
  ASSUME RelayInv, NEW r \in Row, Insert(r) \/ ComesDue(r)
  PROVE  RelayInv'
<1>1. RelayTypeOK'
  BY DEF RelayInv, RelayTypeOK, Insert, ComesDue, loop
<1>2. LockInv'
  BY DEF RelayInv, RelayTypeOK, LockInv, Insert, ComesDue, loop
<1> QED
  BY <1>1, <1>2 DEF RelayInv

\* A call of relay() starts a run only if none is under way.
LEMMA CallRelay ==
  ASSUME RelayInv, NEW p \in Process, Call(p) \/ CallImmediate(p)
  PROVE  RelayInv'
<1>1. RelayTypeOK'
  BY DEF RelayInv, RelayTypeOK, Call, CallImmediate, table
<1>2. /\ UNCHANGED <<status, attempts, owner, batch, result>>
      /\ \A q \in Process : pc[q] = "work" => pc'[q] = "work"
  BY DEF RelayInv, RelayTypeOK, Call, CallImmediate, table
<1>3. LockInv'
  BY <1>2, OutboxAssumption DEF RelayInv, RelayTypeOK, LockInv
<1> QED
  BY <1>1, <1>3 DEF RelayInv

\* A run that has yet to read its batch holds nothing.
LEMMA FetchingHoldsNothing ==
  ASSUME RelayInv, NEW p \in Process, pc[p] # "work"
  PROVE  /\ batch[p] = {} /\ \A r \in Row : result[p][r] = "none"
         /\ \A r \in Row : owner[r] # p
BY OutboxAssumption DEF RelayInv, RelayTypeOK, LockInv

\* The batch is taken from the rows that are ready and free.
LEMMA FetchedRows ==
  ASSUME NEW p \in Process, NEW admitted, Fetch(p, admitted)
  PROVE  \E B \in SUBSET {r \in Ready \cap admitted : owner[r] = NoProcess} :
           /\ batch' = [batch EXCEPT ![p] = B]
           /\ owner' = [r \in Row |-> IF r \in B THEN p ELSE owner[r]]
BY DEF Fetch

LEMMA FetchRelay ==
  ASSUME RelayInv, NEW p \in Process, NEW admitted, Fetch(p, admitted)
  PROVE  RelayInv'
<1>1. PICK B \in SUBSET {r \in Ready \cap admitted : owner[r] = NoProcess} :
        /\ batch' = [batch EXCEPT ![p] = B]
        /\ owner' = [r \in Row |-> IF r \in B THEN p ELSE owner[r]]
  BY FetchedRows
<1>2. /\ pc[p] = "fetch" /\ pc' = [pc EXCEPT ![p] = "work"]
      /\ UNCHANGED <<status, attempts, due, wake, immediate, result>>
  BY DEF Fetch, table
<1>3. B \subseteq Row /\ \A r \in B : /\ status[r] = "pending"
                                      /\ attempts[r] < MaxAttempts
                                      /\ owner[r] = NoProcess
  BY DEF Ready
<1>4. RelayTypeOK'
  BY <1>1, <1>2, <1>3 DEF RelayInv, RelayTypeOK
<1>5. /\ \A r \in Row : result[p][r] = "none"
      /\ \A r \in Row : owner[r] # p
  BY <1>2, FetchingHoldsNothing
<1>6. \A r \in Row : owner'[r] = IF r \in B THEN p ELSE owner[r]
  BY <1>1
<1>7. \A q \in Process : batch'[q] = (IF q = p THEN B ELSE batch[q])
                         /\ pc'[q] = (IF q = p THEN "work" ELSE pc[q])
  BY <1>1, <1>2 DEF RelayInv, RelayTypeOK
<1>8. ASSUME NEW q \in Process, NEW r \in Row, r \in batch'[q] \/ result'[q][r] # "none"
      PROVE  owner'[r] = q
  <2>1. CASE q = p
    BY <1>2, <1>5, <1>6, <1>7, <1>8, <2>1
  <2>2. CASE q # p
    <3>1. owner[r] = q
      BY <1>2, <1>7, <1>8, <2>2 DEF RelayInv, LockInv
    <3> QED
      BY <1>3, <1>6, <3>1, OutboxAssumption
  <2> QED
    BY <2>1, <2>2
<1>9. \A q \in Process : \A r \in batch'[q] : result'[q][r] = "none"
  BY <1>2, <1>3, <1>5, <1>7 DEF RelayInv, LockInv
<1>10. ASSUME NEW r \in Row, owner'[r] # NoProcess
       PROVE  pc'[owner'[r]] = "work" /\ status'[r] = "pending" /\ attempts'[r] < MaxAttempts
  <2>1. CASE r \in B
    BY <1>2, <1>3, <1>6, <1>7, <2>1
  <2>2. CASE r \notin B
    <3>1. owner'[r] = owner[r] /\ owner[r] \in Process
      BY <1>6, <1>10, <2>2 DEF RelayInv, RelayTypeOK
    <3> QED
      BY <1>2, <1>7, <1>10, <3>1 DEF RelayInv, LockInv
  <2> QED
    BY <2>1, <2>2
<1>11. LockInv'
  BY <1>8, <1>9, <1>10 DEF LockInv
<1> QED
  BY <1>4, <1>11 DEF RelayInv

\* Row r leaves the batch of p and has result res in its open transaction.
Records(p, r, res) ==
  /\ \A q \in Process : batch'[q] = IF q = p THEN batch[p] \ {r} ELSE batch[q]
  /\ \A q \in Process, x \in Row :
       result'[q][x] = IF q = p /\ x = r THEN res ELSE result[q][x]

\* Processing moves a row from the batch to the results under the same lock.
LEMMA ProcessedRelay ==
  ASSUME RelayInv, NEW p \in Process, NEW r \in Row, NEW res \in {"sent", "error"},
         Processed(p, r, res)
  PROVE  RelayInv' /\ owner[r] = p /\ status[r] = "pending" /\ Records(p, r, res)
<1>1. /\ r \in batch[p]
      /\ UNCHANGED <<status, attempts, due, owner, pc, wake, immediate>>
      /\ batch' = [batch EXCEPT ![p] = @ \ {r}]
      /\ result' = [result EXCEPT ![p][r] = res]
  BY DEF Processed, table
<1>2. \A q \in Process : batch'[q] = IF q = p THEN batch[p] \ {r} ELSE batch[q]
  BY <1>1 DEF RelayInv, RelayTypeOK
<1>3. \A q \in Process, x \in Row :
        result'[q][x] = IF q = p /\ x = r THEN res ELSE result[q][x]
  BY <1>1 DEF RelayInv, RelayTypeOK
<1>4. owner[r] = p /\ status[r] = "pending"
  BY <1>1, OutboxAssumption DEF RelayInv, LockInv
<1>5. RelayTypeOK'
  BY <1>1 DEF RelayInv, RelayTypeOK
<1>6. LockInv'
  BY <1>1, <1>2, <1>3, <1>4 DEF RelayInv, RelayTypeOK, LockInv
<1> QED
  BY <1>2, <1>3, <1>4, <1>5, <1>6 DEF RelayInv, Records

\* However a transaction ends, it drops the locks, the batch and the results of
\* its process; a row it had no result for keeps its columns.
Ends(p) ==
  /\ pc'     = [pc EXCEPT ![p] = "idle"]
  /\ batch'  = [batch EXCEPT ![p] = {}]
  /\ result' = [result EXCEPT ![p] = NoResult]
  /\ owner'  = [r \in Row |-> IF owner[r] = p THEN NoProcess ELSE owner[r]]
  /\ \A r \in Row : result[p][r] = "none" =>
                      status'[r] = status[r] /\ attempts'[r] = attempts[r]

LEMMA EndsType ==
  ASSUME RelayTypeOK, NEW p \in Process, Ends(p)
  PROVE  /\ owner' \in [Row -> Process \cup {NoProcess}]
         /\ pc' \in [Process -> {"idle", "fetch", "work"}]
         /\ batch' \in [Process -> SUBSET Row]
         /\ result' \in [Process -> [Row -> {"none", "sent", "error"}]]
<1>1. NoResult \in [Row -> {"none", "sent", "error"}]
  BY DEF NoResult
<1>2. owner' \in [Row -> Process \cup {NoProcess}]
  BY DEF RelayTypeOK, Ends
<1>3. pc' \in [Process -> {"idle", "fetch", "work"}] /\ batch' \in [Process -> SUBSET Row]
  BY DEF RelayTypeOK, Ends
<1>4. result' \in [Process -> [Row -> {"none", "sent", "error"}]]
  BY <1>1 DEF RelayTypeOK, Ends
<1> QED
  BY <1>2, <1>3, <1>4

LEMMA EndsLocks ==
  ASSUME RelayInv, NEW p \in Process, Ends(p)
  PROVE  /\ LockInv'
         /\ \A q \in Process : batch'[q] = IF q = p THEN {} ELSE batch[q]
         /\ \A q \in Process, x \in Row :
              result'[q][x] = IF q = p THEN "none" ELSE result[q][x]
         /\ \A r \in Row : owner'[r] = IF owner[r] = p THEN NoProcess ELSE owner[r]
<1>1. \A q \in Process : /\ batch'[q] = (IF q = p THEN {} ELSE batch[q])
                         /\ pc'[q] = (IF q = p THEN "idle" ELSE pc[q])
  BY DEF RelayInv, RelayTypeOK, Ends
<1>2. \A q \in Process, x \in Row :
        result'[q][x] = IF q = p THEN "none" ELSE result[q][x]
  BY DEF RelayInv, RelayTypeOK, Ends, NoResult
<1>3. \A r \in Row : owner'[r] = IF owner[r] = p THEN NoProcess ELSE owner[r]
  BY DEF Ends
<1>4. ASSUME NEW q \in Process, NEW r \in Row, r \in batch'[q] \/ result'[q][r] # "none"
      PROVE  owner'[r] = q
  <2>1. q # p /\ owner[r] = q
    BY <1>1, <1>2, <1>4 DEF RelayInv, LockInv
  <2> QED
    BY <1>3, <2>1
<1>5. \A q \in Process : \A r \in batch'[q] : result'[q][r] = "none"
  BY <1>1, <1>2 DEF RelayInv, RelayTypeOK, LockInv
<1>6. ASSUME NEW r \in Row, owner'[r] # NoProcess
      PROVE  pc'[owner'[r]] = "work" /\ status'[r] = "pending" /\ attempts'[r] < MaxAttempts
  <2>1. owner'[r] = owner[r] /\ owner[r] # p /\ owner[r] \in Process
    BY <1>3, <1>6 DEF RelayInv, RelayTypeOK
  <2>2. result[p][r] = "none"
    BY <2>1 DEF RelayInv, LockInv
  <2>3. status'[r] = status[r] /\ attempts'[r] = attempts[r]
    BY <2>2 DEF Ends
  <2> QED
    BY <1>1, <1>6, <2>1, <2>3 DEF RelayInv, LockInv
<1> QED
  BY <1>1, <1>2, <1>3, <1>4, <1>5, <1>6 DEF LockInv

\* The loop's flags are truth values; the finally block queues another run if one
\* was asked for meanwhile (abstract-outbox-relay.ts:143-150).
LEMMA FinallyFlags ==
  ASSUME RelayTypeOK, NEW p \in Process, Finally(p)
  PROVE  wake' \in [Process -> BOOLEAN] /\ immediate' \in [Process -> BOOLEAN]
<1> DEFINE b == immediate[p] \/ wake[p]
<1>1. b \in BOOLEAN
  OBVIOUS
<1>2. wake' = [wake EXCEPT ![p] = FALSE] /\ immediate' = [immediate EXCEPT ![p] = b]
  BY DEF Finally
<1> HIDE DEF b
<1> QED
  BY <1>1, <1>2 DEF RelayTypeOK

\* A rollback or a crash leaves the table as it was.
LEMMA UndoneRelay ==
  ASSUME RelayInv, NEW p \in Process, Rollback(p) \/ Crash(p)
  PROVE  RelayInv' /\ Ends(p) /\ UNCHANGED <<status, attempts>>
<1>1. UNCHANGED <<status, attempts, due>>
  BY DEF Rollback, Crash, table
<1>2. Ends(p)
  BY <1>1 DEF Rollback, Crash, Finally, Ends
<1>3. RelayTypeOK'
  <2>1. /\ owner' \in [Row -> Process \cup {NoProcess}]
        /\ pc' \in [Process -> {"idle", "fetch", "work"}]
        /\ batch' \in [Process -> SUBSET Row]
        /\ result' \in [Process -> [Row -> {"none", "sent", "error"}]]
    BY <1>2, EndsType DEF RelayInv
  <2>3. CASE Rollback(p)
    BY <1>1, <2>1, <2>3, FinallyFlags DEF RelayInv, RelayTypeOK, Rollback
  <2>4. CASE Crash(p)
    BY <1>1, <2>1, <2>4 DEF RelayInv, RelayTypeOK, Crash
  <2> QED
    BY <2>3, <2>4
<1> QED
  BY <1>1, <1>2, <1>3, EndsLocks DEF RelayInv

\* A COMMIT writes exactly the rows that have a result: a success makes a row
\* sent, a failure counts an attempt, and gives the row up at maxAttempts.
LEMMA CommitRelay ==
  ASSUME RelayInv, NEW p \in Process, NEW again, Commit(p, again)
  PROVE  /\ RelayInv' /\ Ends(p)
         /\ \A r \in Row :
              /\ result[p][r] = "none" => status'[r] = status[r] /\ attempts'[r] = attempts[r]
              /\ result[p][r] = "sent" => status'[r] = "sent" /\ attempts'[r] = attempts[r]
              /\ result[p][r] = "error" =>
                   /\ attempts'[r] = attempts[r] + 1 /\ status'[r] \in {"pending", "failed"}
                   /\ status'[r] = "failed" => attempts'[r] = MaxAttempts
<1>1. \A r \in Row :
        /\ status'[r] = IF result[p][r] = "sent" THEN "sent"
                        ELSE IF result[p][r] = "error" THEN NewStatus(attempts[r] + 1)
                        ELSE status[r]
        /\ attempts'[r] = IF result[p][r] = "error" THEN attempts[r] + 1 ELSE attempts[r]
  BY DEF Commit
<1>2. \A r \in Row : result[p][r] # "none" => attempts[r] + 1 \in 1..MaxAttempts
  <2> SUFFICES ASSUME NEW r \in Row, result[p][r] # "none"
               PROVE  attempts[r] + 1 \in 1..MaxAttempts
    OBVIOUS
  <2>1. owner[r] = p
    BY DEF RelayInv, LockInv
  <2>2. attempts[r] < MaxAttempts /\ attempts[r] \in 0..MaxAttempts
    BY <2>1, OutboxAssumption DEF RelayInv, RelayTypeOK, LockInv
  <2> QED
    BY <2>2, OutboxAssumption
<1>3. \A r \in Row :
        /\ result[p][r] = "none" => status'[r] = status[r] /\ attempts'[r] = attempts[r]
        /\ result[p][r] = "sent" => status'[r] = "sent" /\ attempts'[r] = attempts[r]
        /\ result[p][r] = "error" =>
             /\ attempts'[r] = attempts[r] + 1 /\ status'[r] \in {"pending", "failed"}
             /\ status'[r] = "failed" => attempts'[r] = MaxAttempts
  BY <1>1, <1>2, OutboxAssumption DEF NewStatus
<1>4. Ends(p)
  BY <1>3 DEF Commit, Finally, Ends
<1>5. RelayTypeOK'
  <2>1. status' \in [Row -> {"absent", "pending", "sent", "failed"}]
    BY <1>3 DEF Commit, RelayInv, RelayTypeOK, NewStatus
  <2>2. attempts' \in [Row -> 0..MaxAttempts]
    <3> SUFFICES ASSUME NEW r \in Row
                 PROVE  (IF result[p][r] = "error" THEN attempts[r] + 1 ELSE attempts[r])
                          \in 0..MaxAttempts
      BY DEF Commit
    <3> QED
      BY <1>2 DEF RelayInv, RelayTypeOK
  <2>3. due' \in [Row -> BOOLEAN]
    <3>1. \A r \in Row : (r \in again) \in BOOLEAN
      OBVIOUS
    <3>2. \A r \in Row : due[r] \in BOOLEAN
      BY DEF RelayInv, RelayTypeOK
    <3>3. \A r \in Row :
            (IF result[p][r] = "error" THEN r \in again ELSE due[r]) \in BOOLEAN
      BY <3>1, <3>2, Zenon
    <3>4. due' = [r \in Row |-> IF result[p][r] = "error" THEN r \in again ELSE due[r]]
      BY DEF Commit
    <3> QED
      BY <3>3, <3>4, Zenon
  <2>4. /\ owner' \in [Row -> Process \cup {NoProcess}]
        /\ pc' \in [Process -> {"idle", "fetch", "work"}]
        /\ batch' \in [Process -> SUBSET Row]
        /\ result' \in [Process -> [Row -> {"none", "sent", "error"}]]
    BY <1>4, EndsType DEF RelayInv
  <2>5. wake' \in [Process -> BOOLEAN] /\ immediate' \in [Process -> BOOLEAN]
    BY FinallyFlags DEF RelayInv, Commit
  <2> QED
    BY <2>1, <2>2, <2>3, <2>4, <2>5 DEF RelayTypeOK
<1> QED
  BY <1>3, <1>4, <1>5, EndsLocks DEF RelayInv

\* An administrator's change of a row nobody has locked.
LEMMA FreeRowRelay ==
  ASSUME RelayInv, NEW r \in Row, owner[r] = NoProcess,
         NEW st \in {"pending", "sent", "failed"}, NEW d \in BOOLEAN,
         status' = [status EXCEPT ![r] = st], due' = [due EXCEPT ![r] = d],
         UNCHANGED <<attempts, owner, loop>>
  PROVE  RelayInv'
BY DEF RelayInv, RelayTypeOK, LockInv, loop

\* Steps that leave the relay alone.
LEMMA IdleRelay ==
  ASSUME RelayInv, UNCHANGED rvars
  PROVE  RelayInv'
BY DEF RelayInv, RelayTypeOK, LockInv, rvars
=============================================================================
