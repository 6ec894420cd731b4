------------------------- MODULE WebhookRelayProofs -------------------------
(***************************************************************************)
(* Proofs about webhook deliveries, for any number of deliveries,          *)
(* subscriptions and API processes, on top of what OutboxRelayProofs shows *)
(* of the polling loop.                                                    *)
(***************************************************************************)
EXTENDS WebhookRelay, OutboxRelayProofs

\* What the subscriber accepted and what the table or an open transaction says
\* of it (webhook-relay.service.ts:73-131): a row on its way to "sent" was
\* accepted, and a pending row was accepted only if that is about to be
\* committed or the result was lost.
AcceptedInv ==
  \A r \in Row :
    /\ status[r] = "absent" => r \notin accepted
    /\ \A p \in Process : result[p][r] = "sent" => r \in accepted
    /\ status[r] = "pending" /\ r \in accepted =>
         r \in excused \/ \E p \in Process : result[p][r] = "sent"

\* The relay's SELECT locks the subscription rows too: one that is being served
\* is active.
ServedInv == \A r \in Row : owner[r] # NoProcess => SubscriptionOf[r] \in active

SubscriberInv == active \subseteq Subscription \ deleted /\ accepted \subseteq received

WebhookInv == RelayInv /\ SubscriberInv /\ StatusIsEarned /\ AcceptedInv /\ ServedInv

\* A worker has a delivery in hand that was accepted before only if a fault or a
\* person caused it: the row is locked, so nobody else is about to commit it.
LEMMA HandIsExcused ==
  ASSUME RelayInv, AcceptedInv
  PROVE  NoDuplicateWithoutFault
<1> SUFFICES ASSUME NEW p \in Process, NEW r \in batch[p], r \in accepted
             PROVE  r \in excused
  BY DEF NoDuplicateWithoutFault
<1>1. r \in Row /\ owner[r] = p /\ status[r] = "pending" /\ result[p][r] = "none"
  BY OutboxAssumption DEF RelayInv, RelayTypeOK, LockInv
<1>2. \A q \in Process : result[q][r] = "none"
  BY <1>1 DEF RelayInv, LockInv
<1> QED
  BY <1>1, <1>2 DEF AcceptedInv

LEMMA InitWebhook == Init => WebhookInv
<1> SUFFICES ASSUME Init
             PROVE  WebhookInv
  OBVIOUS
<1>1. RelayInv
  BY InitRelay DEF Init
<1>2. SubscriberInv
  BY DEF Init, SubscriberInv
<1>3. StatusIsEarned /\ AcceptedInv
  BY DEF Init, RelayInit, NoResult, StatusIsEarned, AcceptedInv
<1>4. ServedInv
  BY DEF Init, RelayInit, ServedInv
<1> QED
  BY <1>1, <1>2, <1>3, <1>4 DEF WebhookInv

\* A fan-out commits a new row, which nobody can have received; a backoff that
\* elapses and a call of relay() change neither rows nor locks.
LEMMA FanoutWebhook ==
  ASSUME WebhookInv, NEW r \in Row, Fanout(r)
  PROVE  WebhookInv'
<1>1. /\ Insert(r) /\ status[r] = "absent"
      /\ UNCHANGED <<attempts, owner, result, active, deleted, received, accepted, excused>>
      /\ status' = [status EXCEPT ![r] = "pending"]
  BY DEF Fanout, Insert, loop, subs, world
<1>2. RelayInv'
  BY <1>1, InsertRelay DEF WebhookInv
<1>3. StatusIsEarned' /\ AcceptedInv'
  BY <1>1 DEF WebhookInv, RelayInv, RelayTypeOK, StatusIsEarned, AcceptedInv
<1> QED
  BY <1>1, <1>2, <1>3 DEF WebhookInv, SubscriberInv, ServedInv

LEMMA QuietWebhook ==
  ASSUME WebhookInv,
         \/ \E r \in Row : Elapse(r)
         \/ \E p \in Process : Tick(p) \/ TickImmediate(p)
  PROVE  WebhookInv'
<1>1. UNCHANGED <<status, attempts, owner, result, active, deleted, received, accepted, excused>>
  BY DEF Elapse, ComesDue, Tick, TickImmediate, Call, CallImmediate, table, loop, subs, world
<1>2. RelayInv'
  BY InsertRelay, CallRelay DEF WebhookInv, Elapse, Tick, TickImmediate
<1> QED
  BY <1>1, <1>2 DEF WebhookInv, SubscriberInv, StatusIsEarned, AcceptedInv, ServedInv

\* A batch is read from active subscriptions (webhook-relay.service.ts:42-71).
LEMMA FetchWebhook ==
  ASSUME WebhookInv, NEW p \in Process, FetchBatch(p)
  PROVE  WebhookInv'
<1> DEFINE admitted == {r \in Row : /\ SubscriptionOf[r] \in active
                                    /\ Serving(SubscriptionOf[r]) = {}}
<1>1. Fetch(p, admitted)
  BY DEF FetchBatch
<1>2. UNCHANGED <<status, attempts, result, active, deleted, received, accepted, excused>>
  BY <1>1 DEF FetchBatch, Fetch, table, subs, world
<1>3. RelayInv'
  BY <1>1, FetchRelay DEF WebhookInv
<1>4. PICK B \in SUBSET {r \in Ready \cap admitted : owner[r] = NoProcess} :
        owner' = [r \in Row |-> IF r \in B THEN p ELSE owner[r]]
  BY <1>1, FetchedRows
<1>5. ServedInv'
  BY <1>2, <1>4 DEF WebhookInv, ServedInv
<1> QED
  BY <1>2, <1>3, <1>5 DEF WebhookInv, SubscriberInv, StatusIsEarned, AcceptedInv

\* A POST: a 2xx answer is noted in the transaction; any other outcome excuses the
\* row, because the server may have accepted it all the same.
LEMMA PostWebhook ==
  ASSUME WebhookInv, NEW p \in Process, NEW r \in Row, PostOk(p, r) \/ PostFails(p, r)
  PROVE  WebhookInv'
<1>1. PICK res \in {"sent", "error"} :
        /\ Processed(p, r, res)
        /\ res = "sent" => r \in accepted' /\ excused' = excused
        /\ res = "error" => excused' = excused \cup {r}
        /\ accepted' \in {accepted, accepted \cup {r}} /\ accepted' \subseteq received'
  BY DEF PostOk, PostFails, world, WebhookInv, SubscriberInv
<1>2. UNCHANGED <<status, attempts, owner, active, deleted>>
  BY DEF PostOk, PostFails, Processed, table, subs
<1>3. RelayInv' /\ status[r] = "pending" /\ Records(p, r, res)
  BY <1>1, ProcessedRelay DEF WebhookInv
<1>4. result[p][r] = "none"
  BY <1>1 DEF Processed, WebhookInv, RelayInv, LockInv
<1>5. StatusIsEarned'
  BY <1>1, <1>2 DEF WebhookInv, StatusIsEarned
<1>6. ASSUME NEW x \in Row
      PROVE  /\ status'[x] = "absent" => x \notin accepted'
             /\ \A q \in Process : result'[q][x] = "sent" => x \in accepted'
             /\ status'[x] = "pending" /\ x \in accepted' =>
                  x \in excused' \/ \E q \in Process : result'[q][x] = "sent"
  <2>1. CASE x = r
    BY <1>1, <1>2, <1>3, <2>1 DEF WebhookInv, AcceptedInv, Records
  <2>2. CASE x # r
    BY <1>1, <1>2, <1>3, <2>2 DEF WebhookInv, AcceptedInv, Records
  <2> QED
    BY <2>1, <2>2
<1>7. AcceptedInv'
  BY <1>6 DEF AcceptedInv
<1> QED
  BY <1>1, <1>2, <1>3, <1>5, <1>7 DEF WebhookInv, SubscriberInv, ServedInv

\* A COMMIT makes delivered what was accepted, and gives up what failed for the
\* last time (webhook-relay.service.ts:106-131).
LEMMA CommitWebhook ==
  ASSUME WebhookInv, NEW p \in Process, CommitBatch(p)
  PROVE  WebhookInv'
<1> DEFINE again == {r \in Row : NewStatus(attempts[r] + 1) = "failed"}
<1>1. /\ Commit(p, again) /\ excused' = excused \ Done(p)
      /\ UNCHANGED <<active, deleted, received, accepted>>
  BY DEF CommitBatch, subs, world
<1> HIDE DEF again
<1>2. /\ RelayInv' /\ Ends(p)
      /\ \A r \in Row :
           /\ result[p][r] = "none" => status'[r] = status[r] /\ attempts'[r] = attempts[r]
           /\ result[p][r] = "sent" => status'[r] = "sent" /\ attempts'[r] = attempts[r]
           /\ result[p][r] = "error" =>
                /\ attempts'[r] = attempts[r] + 1 /\ status'[r] \in {"pending", "failed"}
                /\ status'[r] = "failed" => attempts'[r] = MaxAttempts
  BY <1>1, CommitRelay DEF WebhookInv
<1>3. /\ \A q \in Process, x \in Row :
           result'[q][x] = IF q = p THEN "none" ELSE result[q][x]
      /\ \A r \in Row : owner'[r] = IF owner[r] = p THEN NoProcess ELSE owner[r]
  BY <1>2, EndsLocks DEF WebhookInv
<1>4. \A r \in Row : result[p][r] \in {"none", "sent", "error"}
  BY DEF WebhookInv, RelayInv, RelayTypeOK
<1>5. StatusIsEarned'
  BY <1>1, <1>2, <1>4 DEF WebhookInv, StatusIsEarned, AcceptedInv
<1>6. ASSUME NEW x \in Row
      PROVE  /\ status'[x] = "absent" => x \notin accepted'
             /\ \A q \in Process : result'[q][x] = "sent" => x \in accepted'
             /\ status'[x] = "pending" /\ x \in accepted' =>
                  x \in excused' \/ \E q \in Process : result'[q][x] = "sent"
  <2>1. CASE result[p][x] = "sent"
    BY <1>1, <1>2, <1>3, <2>1 DEF WebhookInv, AcceptedInv
  <2>2. CASE result[p][x] = "none"
    BY <1>1, <1>2, <1>3, <2>2 DEF WebhookInv, AcceptedInv, Done
  <2>3. CASE result[p][x] = "error"
    <3>1. owner[x] = p /\ status[x] = "pending"
      BY <2>3, OutboxAssumption DEF WebhookInv, RelayInv, LockInv
    <3>2. \A q \in Process : result[q][x] # "sent"
      BY <2>3, <3>1 DEF WebhookInv, RelayInv, LockInv
    <3> QED
      BY <1>1, <1>2, <1>3, <2>3, <3>1, <3>2 DEF WebhookInv, AcceptedInv, Done
  <2> QED
    BY <1>4, <2>1, <2>2, <2>3
<1>7. AcceptedInv'
  BY <1>6 DEF AcceptedInv
<1>8. ServedInv'
  BY <1>1, <1>3 DEF WebhookInv, ServedInv
<1> QED
  BY <1>1, <1>2, <1>5, <1>7, <1>8 DEF WebhookInv, SubscriberInv

\* A rollback or a crash loses the results of the batch: what the server accepted
\* of it is sent again, and excused.
LEMMA UndoneWebhook ==
  ASSUME WebhookInv, NEW p \in Process, RollbackBatch(p) \/ CrashProcess(p)
  PROVE  WebhookInv'
<1>1. /\ Rollback(p) \/ Crash(p)
      /\ excused' = excused \cup Done(p)
      /\ UNCHANGED <<active, deleted, received, accepted>>
  BY DEF RollbackBatch, CrashProcess, subs, world
<1>2. RelayInv' /\ Ends(p) /\ UNCHANGED <<status, attempts>>
  BY <1>1, UndoneRelay DEF WebhookInv
<1>3. /\ \A q \in Process, x \in Row :
           result'[q][x] = IF q = p THEN "none" ELSE result[q][x]
      /\ \A r \in Row : owner'[r] = IF owner[r] = p THEN NoProcess ELSE owner[r]
  BY <1>2, EndsLocks DEF WebhookInv
<1>4. StatusIsEarned'
  BY <1>1, <1>2 DEF WebhookInv, StatusIsEarned
<1>5. AcceptedInv'
  BY <1>1, <1>2, <1>3 DEF WebhookInv, AcceptedInv, Done
<1>6. ServedInv'
  BY <1>1, <1>3 DEF WebhookInv, ServedInv
<1> QED
  BY <1>1, <1>2, <1>4, <1>5, <1>6 DEF WebhookInv, SubscriberInv

\* retryDelivery waits for the row lock (webhooks.service.ts:99-107).
LEMMA RetryWebhook ==
  ASSUME WebhookInv, NEW r \in Row, RetryDelivery(r)
  PROVE  WebhookInv'
<1>1. /\ status[r] # "absent" /\ owner[r] = NoProcess
      /\ status' = [status EXCEPT ![r] = "pending"] /\ due' = [due EXCEPT ![r] = TRUE]
      /\ excused' = excused \cup {r}
      /\ UNCHANGED <<attempts, owner, loop, active, deleted, received, accepted>>
  BY DEF RetryDelivery, subs, world
<1>2. RelayInv'
  BY <1>1, FreeRowRelay DEF WebhookInv
<1>3. result' = result
  BY <1>1 DEF loop
<1>4. StatusIsEarned' /\ AcceptedInv'
  BY <1>1, <1>3 DEF WebhookInv, RelayInv, RelayTypeOK, StatusIsEarned, AcceptedInv
<1> QED
  BY <1>1, <1>2, <1>4 DEF WebhookInv, SubscriberInv, ServedInv

\* An UPDATE or DELETE of a subscription waits while a process is serving it.
LEMMA AdminWebhook ==
  ASSUME WebhookInv, NEW s \in Subscription,
         Delete(s) \/ \E on \in BOOLEAN : SetActive(s, on)
  PROVE  WebhookInv'
<1>1. /\ Serving(s) = {} /\ s \notin deleted
      /\ UNCHANGED <<rvars, received, accepted, excused>>
      /\ \/ active' = active \cup {s} /\ deleted' = deleted
         \/ active' = active \ {s} /\ deleted' \in {deleted, deleted \cup {s}}
  BY DEF Delete, SetActive, world
<1>2. RelayInv'
  BY <1>1, IdleRelay DEF WebhookInv
<1>3. UNCHANGED <<status, attempts, owner, result>>
  BY <1>1 DEF rvars
<1>4. SubscriberInv'
  BY <1>1 DEF WebhookInv, SubscriberInv
<1>5. ServedInv'
  <2> SUFFICES ASSUME NEW r \in Row, owner[r] # NoProcess
               PROVE  SubscriptionOf[r] \in active'
    BY <1>3 DEF ServedInv
  <2>1. SubscriptionOf[r] # s
    BY <1>1 DEF Serving
  <2> QED
    BY <1>1, <2>1 DEF WebhookInv, ServedInv
<1> QED
  BY <1>1, <1>2, <1>3, <1>4, <1>5 DEF WebhookInv, StatusIsEarned, AcceptedInv

LEMMA NextWebhook == WebhookInv /\ [Next]_vars => WebhookInv'
<1> SUFFICES ASSUME WebhookInv, [Next]_vars
             PROVE  WebhookInv'
  OBVIOUS
<1>1. CASE UNCHANGED vars
  <2>1. UNCHANGED <<rvars, active, deleted, received, accepted, excused>>
    BY <1>1 DEF vars, subs, world
  <2>2. RelayInv' /\ UNCHANGED <<status, attempts, owner, result>>
    BY <2>1, IdleRelay DEF WebhookInv, rvars
  <2> QED
    BY <2>1, <2>2 DEF WebhookInv, SubscriberInv, StatusIsEarned, AcceptedInv, ServedInv
<1>2. CASE \E p \in Process : ProcessNext(p)
  BY <1>2, QuietWebhook, FetchWebhook, PostWebhook, CommitWebhook, UndoneWebhook
  DEF ProcessNext
<1>3. CASE \E r \in Row : Fanout(r) \/ Elapse(r)
  BY <1>3, FanoutWebhook, QuietWebhook
<1>4. CASE AdminNext
  BY <1>4, RetryWebhook, AdminWebhook DEF AdminNext
<1> QED
  BY <1>1, <1>2, <1>3, <1>4 DEF Next

\* The delivery log is true of what happened, with any number of relays polling:
\* a row is shown delivered only if the server accepted it and failed only after
\* maxAttempts, and no relay sends on top of another (webhook-relay.service.ts:
\* 42-131 over abstract-outbox-relay.ts:103-152).
THEOREM DeliveryHonestAlways == Spec => []DeliveryHonest
<1>1. WebhookInv => DeliveryHonest
  BY HandIsExcused DEF WebhookInv, DeliveryHonest, TypeOK, RelayInv, SubscriberInv
<1> QED
  BY InitWebhook, NextWebhook, <1>1, PTL DEF Spec

\* Once a subscription is switched off or deleted its server gets no POST any
\* more: the lock of the subscription row makes the administrator wait for the
\* batches in hand.
THEOREM OnlyActiveServedAlways == Spec => OnlyActiveServed
<1>1. ASSUME WebhookInv, NEW p \in Process, NEW r \in Row, r \in batch[p]
      PROVE  SubscriptionOf[r] \in active
  BY <1>1, OutboxAssumption DEF WebhookInv, RelayInv, LockInv, ServedInv
<1>2. WebhookInv /\ [Next]_vars =>
        [\A p \in Process, r \in Row :
           r \in batch[p] /\ r \notin batch'[p] /\ pc'[p] = "work"
             => SubscriptionOf[r] \in active]_vars
  BY <1>1
<1> QED
  BY InitWebhook, NextWebhook, <1>2, PTL DEF Spec, OnlyActiveServed
=============================================================================
