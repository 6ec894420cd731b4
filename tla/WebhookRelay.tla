---------------------------- MODULE WebhookRelay ----------------------------
(***************************************************************************)
(* Webhook deliveries: the fan-out of an event into webhook_deliveries,    *)
(* WebhookRelayService on top of the outbox relay, and the administrator's *)
(* operations of WebhooksService.                                          *)
(*                                                                         *)
(* The relay's SELECT joins the subscription and says FOR UPDATE without   *)
(* OF, so it locks the subscription rows too: SKIP LOCKED passes over      *)
(* every delivery of a subscription another process is serving, and an     *)
(* UPDATE or DELETE of the subscription waits for the relay's transaction. *)
(***************************************************************************)
EXTENDS OutboxRelay

CONSTANTS
  Subscription,
  SubscriptionOf  \* the subscription each delivery row is for

ASSUME WebhookAssumption == SubscriptionOf \in [Row -> Subscription]

VARIABLES
  active,    \* the subscription exists and is active
  deleted,   \* the subscription was deleted (its deliveries stay)
  received,  \* deliveries the subscriber's server got at least once
  accepted,  \* deliveries it answered with 2xx at least once
  excused    \* history: rows whose result was lost, or that were retried

subs  == <<active, deleted>>
world == <<received, accepted>>
vars  == <<rvars, subs, world, excused>>

Init ==
  /\ RelayInit
  /\ active   = Subscription
  /\ deleted  = {}
  /\ received = {}
  /\ accepted = {}
  /\ excused  = {}

\* The processes that hold the lock of subscription s.
Serving(s) == {owner[r] : r \in {q \in Row : SubscriptionOf[q] = s}} \ {NoProcess}

-----------------------------------------------------------------------------
\* WebhookEnqueueService.fanout, as part of a request's transaction.
Fanout(r) ==
  /\ SubscriptionOf[r] \in active
  /\ Insert(r)
  /\ UNCHANGED <<subs, world, excused>>

Elapse(r) == ComesDue(r) /\ UNCHANGED <<subs, world, excused>>

Tick(p) ==
  /\ Call(p)
  /\ UNCHANGED <<subs, world, excused>>

TickImmediate(p) == CallImmediate(p) /\ UNCHANGED <<subs, world, excused>>

FetchBatch(p) ==
  /\ Fetch(p, {r \in Row : /\ SubscriptionOf[r] \in active
                           /\ Serving(SubscriptionOf[r]) = {}})
  /\ UNCHANGED <<subs, world, excused>>

\* The POST is answered with 2xx.
PostOk(p, r) ==
  /\ Processed(p, r, "sent")
  /\ received' = received \cup {r}
  /\ accepted' = accepted \cup {r}
  /\ UNCHANGED <<subs, excused>>

\* Another status, no connection, or the 10 s timeout; the server may have
\* received and even accepted the request.
PostFails(p, r) ==
  /\ Processed(p, r, "error")
  /\ \/ UNCHANGED world
     \/ received' = received \cup {r} /\ UNCHANGED accepted
     \/ received' = received \cup {r} /\ accepted' = accepted \cup {r}
  /\ excused' = excused \cup {r}
  /\ UNCHANGED subs

\* The rows the open transaction has marked delivered.
Done(p) == {r \in Row : result[p][r] = "sent"}

\* markFailed: a row given up is due at once, any other after its backoff.
CommitBatch(p) ==
  /\ Commit(p, {r \in Row : NewStatus(attempts[r] + 1) = "failed"})
  /\ excused' = excused \ Done(p)
  /\ UNCHANGED <<subs, world>>

RollbackBatch(p) ==
  /\ Rollback(p)
  /\ excused' = excused \cup Done(p)
  /\ UNCHANGED <<subs, world>>

CrashProcess(p) ==
  /\ Crash(p)
  /\ excused' = excused \cup Done(p)
  /\ UNCHANGED <<subs, world>>

-----------------------------------------------------------------------------
(* WebhooksService.                                                        *)

\* Mutant: the relay would lock the delivery rows only (FOR UPDATE OF).
SetActiveUnlocked(s, on) ==
  /\ s \notin deleted
  /\ active' = IF on THEN active \cup {s} ELSE active \ {s}
  /\ UNCHANGED <<rvars, deleted, world, excused>>

SetActive(s, on) ==
  /\ s \notin deleted
  /\ Serving(s) = {}
  /\ active' = IF on THEN active \cup {s} ELSE active \ {s}
  /\ UNCHANGED <<rvars, deleted, world, excused>>

Delete(s) ==
  /\ s \notin deleted
  /\ Serving(s) = {}
  /\ active'  = active \ {s}
  /\ deleted' = deleted \cup {s}
  /\ UNCHANGED <<rvars, world, excused>>

\* retryDelivery: any row, whatever its status; attempts are kept.
RetryDelivery(r) ==
  /\ status[r] # "absent"
  /\ owner[r] = NoProcess
  /\ status'  = [status EXCEPT ![r] = "pending"]
  /\ due'     = [due EXCEPT ![r] = TRUE]
  /\ excused' = excused \cup {r}
  /\ UNCHANGED <<attempts, owner, loop, subs, world>>

-----------------------------------------------------------------------------
ProcessNext(p) ==
  \/ Tick(p) \/ TickImmediate(p) \/ FetchBatch(p) \/ CommitBatch(p)
  \/ RollbackBatch(p) \/ CrashProcess(p)
  \/ \E r \in Row : PostOk(p, r) \/ PostFails(p, r)

AdminNext ==
  \/ \E r \in Row : RetryDelivery(r)
  \/ \E s \in Subscription : Delete(s) \/ \E on \in BOOLEAN : SetActive(s, on)

Next ==
  \/ \E p \in Process : ProcessNext(p)
  \/ \E r \in Row : Fanout(r) \/ Elapse(r)
  \/ AdminNext

Spec == Init /\ [][Next]_vars

\* A started run goes on and a backoff elapses.
LoopFairness ==
  /\ \A r \in Row : WF_vars(Elapse(r))
  /\ \A p \in Process :
       /\ WF_vars(TickImmediate(p) \/ FetchBatch(p) \/ CommitBatch(p))
       /\ \A r \in Row : WF_vars(PostOk(p, r) \/ PostFails(p, r))

\* Rollbacks and crashes undo a run that has not read its batch yet or has
\* rows in hand (without rows a rollback changes no more than a COMMIT does);
\* some day they stop.
FaultsEnd ==
  <>[][\A p \in Process :
         pc[p] = "fetch" \/ (\E r \in Row : owner[r] = p)
           => ~RollbackBatch(p) /\ ~CrashProcess(p)]_vars

\* The cron timer ticks every ten seconds in every process.
CronFairness == \A p \in Process : WF_vars(pc[p] = "idle" /\ Tick(p))

FairSpec == Spec /\ LoopFairness /\ CronFairness /\ FaultsEnd

-----------------------------------------------------------------------------
(* Properties.                                                             *)

\* The relay's state is well formed and no delivery is on record as accepted
\* that was never received.
TypeOK ==
  /\ RelayTypeOK
  /\ active \subseteq Subscription \ deleted
  /\ accepted \subseteq received

\* A delivery shown as delivered was answered with 2xx, and one shown as
\* failed has used up its attempts, whatever was rolled back in between.
StatusIsEarned ==
  \A r \in Row :
    /\ status[r] = "sent" => r \in accepted
    /\ status[r] = "failed" => attempts[r] = MaxAttempts

\* Deactivating or deleting a subscription takes effect: from then on its
\* server gets no POST, not even from a batch fetched before.
OnlyActiveServed ==
  [][\A p \in Process, r \in Row :
       r \in batch[p] /\ r \notin batch'[p] /\ pc'[p] = "work"
         => SubscriptionOf[r] \in active]_vars

\* With any number of processes polling, a delivery the subscriber accepted
\* is sent again only because its result was lost (an error answer, a
\* rollback, a crash) or because somebody retried it.
NoDuplicateWithoutFault ==
  \A p \in Process : \A r \in batch[p] : r \in accepted => r \in excused

\* What the delivery log shows is what happened: a status is earned, a counter
\* stays within its attempts, and no worker sends a delivery on top of another
\* (webhook-relay.service.ts over abstract-outbox-relay.ts).
DeliveryHonest == TypeOK /\ StatusIsEarned /\ NoDuplicateWithoutFault

\* A due delivery that has attempts left is settled in the end, unless its
\* subscription goes away.
PendingIsSettled ==
  \A r \in Row :
    (status[r] = "pending" /\ attempts[r] < MaxAttempts)
      ~> (status[r] # "pending" \/ SubscriptionOf[r] \notin active)
=============================================================================
