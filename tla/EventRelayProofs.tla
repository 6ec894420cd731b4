-------------------------- MODULE EventRelayProofs --------------------------
(***************************************************************************)
(* At-least-once and cause-before-effect, for any number of events and     *)
(* workers and any batch size.                                             *)
(*                                                                         *)
(* CausalOrder is not inductive: it must be known that a fetched batch is  *)
(* closed under causes, which in turn rests on created_at agreeing with    *)
(* the causal order.                                                       *)
(***************************************************************************)
EXTENDS EventRelay, TLAPS

\* What was visible when a transaction began is older than the transaction.
ClockOrder ==
  /\ \A e \in Event : created[e] <= clock
  /\ \A e \in Event : \A d \in prior[e] : d \in committed /\ created[d] < created[e]

\* An event whose UPDATE is outstanding has been handed over.
MarkingWasSent == \A w \in Worker : marking[w] # NoEvent => marking[w] \in sent

\* The causes of a fetched event are in the same batch or were sent before.
BatchClosed ==
  \A w \in Worker : \A e \in batch[w] : prior[e] \subseteq batch[w] \cup sent

RelayInv ==
  TypeOK /\ ClockOrder /\ PublishedWasSent /\ MarkingWasSent /\ BatchClosed /\ CausalOrder

\* The initial state satisfies the invariant: nothing was begun or sent.
LEMMA RelayInit == Init => RelayInv
  BY RelayAssumption DEF Init, RelayInv, TypeOK, ClockOrder, PublishedWasSent,
     MarkingWasSent, BatchClosed, CausalOrder

\* The inserting transactions preserve the invariant.
LEMMA TransactionStep ==
  ASSUME RelayInv, NEW e \in Event, Begin(e) \/ Commit(e)
  PROVE  RelayInv'
<1>1. CASE Begin(e)
  <2> USE <1>1
  <2>1. TypeOK' /\ PublishedWasSent' /\ MarkingWasSent'
    BY DEF RelayInv, TypeOK, PublishedWasSent, MarkingWasSent, Begin
  <2>2. ClockOrder'
    BY DEF RelayInv, TypeOK, ClockOrder, Begin
  <2>3. e \notin committed
    BY DEF RelayInv, TypeOK, Begin
  <2>4. BatchClosed' /\ CausalOrder'
    BY <2>3 DEF RelayInv, TypeOK, BatchClosed, CausalOrder, Begin
  <2> QED BY <2>1, <2>2, <2>4 DEF RelayInv
<1>2. CASE Commit(e)
  BY <1>2 DEF RelayInv, TypeOK, ClockOrder, PublishedWasSent, MarkingWasSent,
     BatchClosed, CausalOrder, Commit
<1> QED BY <1>1, <1>2

\* The head of a batch has no unsent cause: causes are older, and the head is
\* the oldest event of its batch.
LEMMA HeadHasNoUnsentCause ==
  ASSUME RelayInv, NEW w \in Worker, NEW e \in batch[w], IsHead(w, e)
  PROVE  e \in committed /\ e \in Event /\ prior[e] \subseteq sent
<1>1. e \in committed /\ e \in Event /\ created[e] \in Nat
  BY DEF RelayInv, TypeOK
<1>2. ASSUME NEW d \in prior[e] PROVE d \in sent
  <2>1. created[d] < created[e] /\ d \in Event /\ created[d] \in Nat
    BY <1>1, <1>2 DEF RelayInv, TypeOK, ClockOrder
  <2>2. d \notin batch[w]
    BY <1>1, <2>1 DEF IsHead
  <2> QED BY <1>2, <2>2 DEF RelayInv, BatchClosed
<1> QED BY <1>1, <1>2

\* A step of a worker preserves the invariant.
LEMMA WorkerStep ==
  ASSUME RelayInv, NEW w \in Worker,
         Fetch(w) \/ Publish(w) \/ Mark(w) \/ StopRun(w) \/ AnswerLost(w)
  PROVE  RelayInv'
<1>1. CASE Fetch(w)
  <2>1. PICK B \in SUBSET Unpublished :
          OldestFirst(B) /\ batch' = [batch EXCEPT ![w] = B]
    BY <1>1 DEF Fetch
  <2>2. UNCHANGED <<created, clock, committed, prior, published, sent, marking>>
    BY <1>1 DEF Fetch
  <2>3. marking[w] = NoEvent
    BY <1>1 DEF Fetch, RelayInv, TypeOK
  <2>4. batch' \in [Worker -> SUBSET committed]
    BY <2>1 DEF RelayInv, TypeOK, Unpublished
  <2>5. TypeOK' /\ ClockOrder' /\ PublishedWasSent' /\ MarkingWasSent' /\ CausalOrder'
    BY <2>1, <2>2, <2>3, <2>4 DEF RelayInv, TypeOK, ClockOrder, PublishedWasSent,
       MarkingWasSent, CausalOrder
  <2>6. ASSUME NEW e \in B, NEW d \in prior[e] PROVE d \in B \cup sent
    <3>1. e \in Event /\ d \in Event /\ d \in committed /\ created[d] < created[e]
      BY <2>6 DEF RelayInv, TypeOK, ClockOrder, Unpublished
    <3>2. CASE d \in published
      BY <3>2 DEF RelayInv, PublishedWasSent
    <3>3. CASE d \notin published
      <4>1. d \in Unpublished
        BY <3>1, <3>3 DEF Unpublished
      <4>2. ~(created[e] < created[d])
        BY <3>1 DEF RelayInv, TypeOK
      <4> QED BY <2>1, <2>6, <4>1, <4>2 DEF OldestFirst
    <3> QED BY <3>2, <3>3
  <2>7. BatchClosed'
    BY <2>1, <2>2, <2>6 DEF RelayInv, TypeOK, BatchClosed
  <2> QED BY <2>5, <2>7 DEF RelayInv
<1>2. CASE Publish(w)
  <2>1. PICK e \in batch[w] :
          /\ IsHead(w, e)
          /\ sent' = sent \cup {e}
          /\ marking' = [marking EXCEPT ![w] = e]
    BY <1>2 DEF Publish
  <2>2. e \in committed /\ e \in Event /\ prior[e] \subseteq sent
    BY <2>1, HeadHasNoUnsentCause
  <2>3. UNCHANGED <<created, clock, committed, prior, published, batch>>
    BY <1>2 DEF Publish
  <2> QED
    BY <2>1, <2>2, <2>3, RelayAssumption DEF RelayInv, TypeOK, ClockOrder,
       PublishedWasSent, MarkingWasSent, BatchClosed, CausalOrder
<1>3. CASE Mark(w)
  <2> DEFINE e == marking[w]
  <2>1. e \in sent /\ e \in committed /\ e \in batch[w]
    BY <1>3 DEF Mark, RelayInv, TypeOK, MarkingWasSent
  <2>2. TypeOK' /\ ClockOrder' /\ PublishedWasSent' /\ MarkingWasSent' /\ CausalOrder'
    BY <1>3, <2>1 DEF Mark, RelayInv, TypeOK, ClockOrder, PublishedWasSent,
       MarkingWasSent, CausalOrder
  <2>3. BatchClosed'
    BY <1>3, <2>1 DEF Mark, RelayInv, TypeOK, BatchClosed
  <2> QED BY <2>2, <2>3 DEF RelayInv
<1>4. CASE StopRun(w)
  BY <1>4 DEF StopRun, RelayInv, TypeOK, ClockOrder, PublishedWasSent,
     MarkingWasSent, BatchClosed, CausalOrder
<1>5. CASE AnswerLost(w)
  <2>1. PICK e \in batch[w] : IsHead(w, e) /\ sent' = sent \cup {e}
    BY <1>5 DEF AnswerLost
  <2>2. e \in committed /\ e \in Event /\ prior[e] \subseteq sent
    BY <2>1, HeadHasNoUnsentCause
  <2>3. /\ marking[w] = NoEvent
        /\ batch' = [batch EXCEPT ![w] = {}]
        /\ UNCHANGED <<created, clock, committed, prior, published, marking>>
    BY <1>5 DEF AnswerLost
  <2> QED
    BY <2>1, <2>2, <2>3 DEF RelayInv, TypeOK, ClockOrder,
       PublishedWasSent, MarkingWasSent, BatchClosed, CausalOrder
<1> QED BY <1>1, <1>2, <1>3, <1>4, <1>5

\* The invariant is inductive.
LEMMA RelayInductive == RelayInv /\ [Next]_vars => RelayInv'
<1> SUFFICES ASSUME RelayInv, [Next]_vars PROVE RelayInv'
  OBVIOUS
<1>1. CASE UNCHANGED vars
  BY <1>1 DEF vars, RelayInv, TypeOK, ClockOrder, PublishedWasSent,
     MarkingWasSent, BatchClosed, CausalOrder
<1>2. CASE Next
  BY <1>2, TransactionStep, WorkerStep DEF Next
<1> QED BY <1>1, <1>2

\* The inductive invariant holds in every reachable state.
THEOREM RelayInvariant == Spec => []RelayInv
BY RelayInit, RelayInductive, PTL DEF Spec

\* The tables and the workers' local state are well formed.
THEOREM RelayTypeCorrect == Spec => []TypeOK
BY RelayInvariant, PTL DEF RelayInv

\* At-least-once, the safety half: a row marked published was handed over.
THEOREM PublishedWasSentAlways == Spec => []PublishedWasSent
BY RelayInvariant, PTL DEF RelayInv

\* Events reach the queue cause before effect, for any number of workers.
THEOREM CausalOrderAlways == Spec => []CausalOrder
BY RelayInvariant, PTL DEF RelayInv
=============================================================================
