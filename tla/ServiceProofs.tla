---------------------------- MODULE ServiceProofs ---------------------------
(***************************************************************************)
(* Proofs about the services that requests drive and about the domain side *)
(* of requests.  They share neither tables nor memory, so each service has *)
(* an invariant and theorems of its own; the last section puts those of    *)
(* MCServices together.  The theorems hold for any number of rows,         *)
(* employees, processes and requests in flight.                            *)
(***************************************************************************)
EXTENDS MCServices, SecurityPosture, DomainRequests, FiniteSetTheorems, TLAPS

-----------------------------------------------------------------------------
(* The idempotency interceptor (Idempotency).                              *)

\* As long as nothing has gone wrong, one run of the handler is all there was:
\* requests that missed did so before it, and its answer is in the cache or on
\* its way there (idempotency.interceptor.ts).
OneRun ==
  excuse = {} =>
    /\ runs \in {0, 1}
    /\ \A c \in Attempt : attempt[c].pc = "run" => attempt[c].seen = 0
    /\ runs = 0 => stored = "none" /\ \A c \in Attempt : attempt[c].pc # "store"
    /\ runs = 1 => stored # "none" \/ \E c \in Attempt : attempt[c].pc = "store"

RunsInv ==
  /\ body \in {"json", "empty"} /\ stored \in {"none", body}
  /\ attempt \in [Attempt -> {Away} \cup [pc: {"run"}, seen: Nat] \cup [pc: {"store"}]]
  /\ runs \in Nat
  /\ OneRun

LEMMA InitRuns == IdemInit => RunsInv
BY DEF IdemInit, RunsInv, OneRun, Away

LEMMA NextRuns == RunsInv /\ [IdemNext]_idemVars => RunsInv'
<1> SUFFICES ASSUME RunsInv, [IdemNext]_idemVars
             PROVE  RunsInv'
  OBVIOUS
<1> USE DEF RunsInv, OneRun, Away
<1>1. ASSUME NEW c \in Attempt, Replay(c) \/ Bypass(c)
      PROVE  RunsInv'
  BY <1>1 DEF Replay, Bypass
<1>2. ASSUME NEW c \in Attempt, Miss(c)
      PROVE  RunsInv'
  <2> DEFINE overlap == IF \E d \in Attempt : attempt[d].pc = "store" THEN {"overlap"} ELSE {}
             empty == IF stored = "empty" THEN {"empty body"} ELSE {}
  <2>1. /\ stored # "json" /\ UNCHANGED <<body, stored, runs>>
        /\ attempt' = [attempt EXCEPT ![c] = [pc |-> "run", seen |-> runs]]
        /\ excuse' = (excuse \cup overlap) \cup empty
    BY <1>2 DEF Miss
  <2>2. excuse' = {} => excuse = {} /\ overlap = {} /\ empty = {}
    <3> HIDE DEF overlap, empty
    <3> QED
      BY <2>1
  <2>3. excuse' = {} =>
          /\ excuse = {} /\ stored # "empty"
          /\ ~\E d \in Attempt : attempt[d].pc = "store"
    BY <2>2
  <2> HIDE DEF overlap, empty
  <2> QED
    BY <2>1, <2>3
<1>3. ASSUME NEW c \in Attempt, HandlerDone(c)
      PROVE  RunsInv'
  BY <1>3 DEF HandlerDone, Handled
<1>4. ASSUME NEW c \in Attempt, HandlerThrows(c)
      PROVE  RunsInv'
  BY <1>4 DEF HandlerThrows, Handled
<1>5. ASSUME NEW c \in Attempt, Store(c)
      PROVE  RunsInv'
  BY <1>5 DEF Store
<1>6. ASSUME NEW c \in Attempt, StoreLost(c)
      PROVE  RunsInv'
  BY <1>6 DEF StoreLost
<1>7. CASE Forgotten
  BY <1>7 DEF Forgotten
<1>8. CASE UNCHANGED idemVars
  BY <1>8 DEF idemVars
<1> QED
  BY <1>1, <1>2, <1>3, <1>4, <1>5, <1>6, <1>7, <1>8 DEF IdemNext

\* The handler runs a second time for a key only with a cause: an overlap, a
\* failure, a fault of Redis, an expired entry or an empty answer
\* (idempotency.interceptor.ts).
THEOREM RepeatHasCauseAlways == IdemSpec => []RepeatHasCause
<1>1. RunsInv => RepeatHasCause
  BY DEF RunsInv, OneRun, RepeatHasCause
<1> QED
  BY InitRuns, NextRuns, <1>1, PTL DEF IdemSpec

-----------------------------------------------------------------------------
(* The server-sent event streams of one user (LiveStream).                 *)

\* The last command on the wire agrees with the handler registry: that is what
\* the subscription will be once Redis has answered.  A stream waits exactly
\* for the one SUBSCRIBE it has sent.
WireInv ==
  /\ \A i \in 1..Len(wire) : wire[i] \in Stream => stream[wire[i]] = "waiting"
  /\ \A i, j \in 1..Len(wire) : wire[i] = wire[j] /\ wire[i] \in Stream => i = j
  /\ wire # <<>> => (wire[Len(wire)] \in Stream <=> hasSet)
  /\ wire = <<>> /\ ~refused => (subscribed <=> hasSet)

\* What a stream that is still connecting knows, and who may turn out deaf.
HeardInv ==
  /\ ~refused => \A s \in Stream :
       stream[s] \in {"counted", "waiting", "live"} => pushed \subseteq known[s] \cup gap[s]
  /\ \A s \in Stream : stream[s] = "waiting" /\ ~hasSet => s \in parted

StreamTypes ==
  /\ stream \in [Stream -> {"new", "counted", "waiting", "live", "deaf", "closed"}]
  /\ handlers \subseteq Stream /\ (handlers # {} => hasSet)
  /\ \A s \in Stream : stream[s] = "live" <=> s \in handlers
  /\ wire \in Seq(Stream \cup {"unsubscribe"})
  /\ pushed \cup unpushed \subseteq posted /\ posted \subseteq News
  /\ known \in [Stream -> SUBSET posted] /\ gap \in [Stream -> SUBSET pushed]

StreamsInv == StreamTypes /\ WireInv /\ HeardInv /\ DeafHasCause

LEMMA InitStreams == StreamsInit => StreamsInv
BY DEF StreamsInit, StreamsInv, StreamTypes, WireInv, HeardInv, DeafHasCause

\* What is shorter by one than the last command is empty.
LEMMA LastCommand ==
  ASSUME NEW S, NEW w \in Seq(S), NEW v \in Seq(S), Len(v) = Len(w) - 1
  PROVE  v = <<>> => Len(w) = 1
OBVIOUS

\* Commands are answered in the order they were sent ...
LEMMA WireAnswered ==
  ASSUME StreamsInv, wire # <<>>, wire' = Tail(wire), UNCHANGED hasSet,
         \A s \in Stream : s # Head(wire) => stream'[s] = stream[s],
         refused' \/ (subscribed' <=> Head(wire) \in Stream)
  PROVE  WireInv' /\ wire' \in Seq(Stream \cup {"unsubscribe"})
<1> USE DEF StreamsInv, StreamTypes, WireInv
<1>1. wire \in Seq(Stream \cup {"unsubscribe"}) /\ Len(wire) > 0 /\ Len(wire) \in Nat
  OBVIOUS
<1>2. /\ wire' \in Seq(Stream \cup {"unsubscribe"}) /\ Len(wire') = Len(wire) - 1
      /\ \A i \in 1..Len(wire') : wire'[i] = wire[i + 1] /\ i + 1 \in 2..Len(wire)
      /\ Head(wire) = wire[1]
  BY <1>1
<1>3. \A i \in 1..Len(wire') : wire'[i] \in Stream =>
        stream'[wire'[i]] = "waiting"
  <2> TAKE i \in 1..Len(wire')
  <2>1. wire[i + 1] \in Stream => wire[i + 1] # wire[1]
    BY <1>1, <1>2
  <2> QED BY <2>1, <1>1, <1>2
<1>4. \A i, j \in 1..Len(wire') : wire'[i] = wire'[j] /\ wire'[i] \in Stream => i = j
  <2> TAKE i, j \in 1..Len(wire')
  <2>1. wire'[i] = wire[i + 1] /\ wire'[j] = wire[j + 1]
    BY <1>2
  <2>2. wire[i + 1] = wire[j + 1] /\ wire[i + 1] \in Stream => i + 1 = j + 1
    BY <1>1, <1>2
  <2> QED BY <2>1, <2>2, <1>2
<1>5. wire' # <<>> => wire'[Len(wire')] = wire[Len(wire)]
  BY <1>1, <1>2
<1>6. wire' = <<>> => Len(wire) = 1
  <2> HIDE DEF StreamsInv, StreamTypes, WireInv
  <2> QED BY <1>1, <1>2, LastCommand
<1>8. wire' # <<>> => (wire'[Len(wire')] \in Stream <=> hasSet')
  BY <1>1, <1>5
<1>7. ASSUME wire' = <<>>, ~refused' PROVE subscribed' <=> hasSet'
  <2>1. Len(wire) = 1
    BY <1>6, <1>7
  <2>2. Head(wire) \in Stream <=> hasSet
    BY <1>1, <1>2, <2>1 DEF StreamsInv, WireInv
  <2>3. subscribed' <=> Head(wire) \in Stream
    BY <1>7
  <2> QED BY <2>2, <2>3
<1> HIDE DEF StreamsInv, StreamTypes
<1> QED BY <1>2, <1>3, <1>4, <1>7, <1>8 DEF WireInv

\* ... and sent in the order of the changes of the registry.
LEMMA WireSent ==
  ASSUME StreamsInv, NEW e \in Stream \cup {"unsubscribe"}, wire' = Append(wire, e),
         \A s \in Stream : stream[s] = "waiting" => stream'[s] = "waiting",
         e \in Stream => stream[e] # "waiting" /\ stream'[e] = "waiting",
         hasSet' <=> e \in Stream
  PROVE  WireInv' /\ wire' \in Seq(Stream \cup {"unsubscribe"})
<1> USE DEF StreamsInv, StreamTypes, WireInv
<1>1. /\ wire' \in Seq(Stream \cup {"unsubscribe"}) /\ Len(wire') = Len(wire) + 1
      /\ Len(wire) \in Nat
      /\ \A i \in 1..Len(wire) : wire'[i] = wire[i]
      /\ wire'[Len(wire) + 1] = e
  OBVIOUS
<1>2. \A i \in 1..Len(wire') : i \in 1..Len(wire) \/ i = Len(wire) + 1
  BY <1>1
<1>3. \A i \in 1..Len(wire) : wire[i] \in Stream => wire[i] # e
  BY <1>1
<1>4. \A i \in 1..Len(wire') : wire'[i] \in Stream => stream'[wire'[i]] = "waiting"
  BY <1>1, <1>2
<1>5. \A i, j \in 1..Len(wire') : wire'[i] = wire'[j] /\ wire'[i] \in Stream => i = j
  BY <1>1, <1>2, <1>3
<1>6. wire' # <<>> /\ wire'[Len(wire')] = e
  BY <1>1
<1> QED BY <1>1, <1>4, <1>5, <1>6

LEMMA NextStreams == StreamsInv /\ [StreamsNext]_streamVars => StreamsInv'
<1> SUFFICES ASSUME StreamsInv, [StreamsNext]_streamVars PROVE StreamsInv'
  OBVIOUS
<1>1. ASSUME NEW s \in Stream, Connect(s) \/ SubscribeJoin(s) PROVE StreamsInv'
  <2>1. WireInv'
    BY <1>1 DEF notices, Connect, SubscribeJoin, StreamsInv, StreamTypes, WireInv
  <2>2. StreamTypes' /\ HeardInv' /\ DeafHasCause'
    BY <1>1 DEF notices, Connect, SubscribeJoin, StreamsInv, StreamTypes, HeardInv, DeafHasCause
  <2> QED BY <2>1, <2>2 DEF StreamsInv
<1>2. ASSUME NEW s \in Stream, SubscribeFirst(s) PROVE StreamsInv'
  <2>1. WireInv' /\ wire' \in Seq(Stream \cup {"unsubscribe"})
    BY <1>2, WireSent DEF notices, SubscribeFirst, StreamsInv, StreamTypes
  <2>2. StreamTypes' /\ HeardInv' /\ DeafHasCause'
    BY <1>2, <2>1 DEF notices, SubscribeFirst, StreamsInv, StreamTypes, HeardInv, DeafHasCause
  <2> QED BY <2>1, <2>2 DEF StreamsInv
<1>3. ASSUME NEW s \in Stream, Answered(s) \/ Refused(s) PROVE StreamsInv'
  <2>1. WireInv' /\ wire' \in Seq(Stream \cup {"unsubscribe"})
    BY <1>3, WireAnswered DEF notices, Answered, Refused, StreamsInv, StreamTypes
  <2>2. stream[s] = "waiting"
    BY <1>3 DEF notices, Answered, Refused, StreamsInv, StreamTypes, WireInv
  <2>3. CASE Answered(s)
    BY <2>1, <2>2, <2>3 DEF notices, Answered, StreamsInv, StreamTypes, HeardInv, DeafHasCause
  <2>4. CASE Refused(s)
    BY <2>1, <2>2, <2>4 DEF notices, Refused, StreamsInv, StreamTypes, HeardInv, DeafHasCause
  <2> QED BY <1>3, <2>3, <2>4
<1>4. ASSUME Unsubscribed PROVE StreamsInv'
  <2>1. WireInv' /\ wire' \in Seq(Stream \cup {"unsubscribe"})
    BY <1>4, WireAnswered, StreamAssumption DEF Unsubscribed
  <2> QED BY <1>4, <2>1 DEF notices, Unsubscribed, StreamsInv, StreamTypes, HeardInv, DeafHasCause
<1>5. ASSUME NEW s \in Stream, StreamClosed(s) PROVE StreamsInv'
  <2>1. WireInv' /\ wire' \in Seq(Stream \cup {"unsubscribe"})
    <3>1. CASE hasSet'
      <4>1. UNCHANGED <<wire, refused, subscribed>> /\ handlers # {}
        BY <1>5, <3>1 DEF StreamClosed
      <4>2. hasSet
        BY <4>1 DEF StreamsInv, StreamTypes
      <4>3. \A x \in Stream : stream[x] = "waiting" => stream'[x] = "waiting"
        BY <1>5 DEF StreamClosed, StreamsInv, StreamTypes
      <4> QED BY <3>1, <4>1, <4>2, <4>3 DEF StreamsInv, StreamTypes, WireInv
    <3>2. CASE ~hasSet'
      BY <1>5, <3>2, WireSent, StreamAssumption DEF notices, StreamClosed, StreamsInv, StreamTypes
    <3> QED BY <3>1, <3>2
  <2>2. StreamTypes' /\ HeardInv' /\ DeafHasCause'
    BY <1>5, <2>1 DEF notices, StreamClosed, StreamsInv, StreamTypes, HeardInv, DeafHasCause
  <2> QED BY <2>1, <2>2 DEF StreamsInv
<1>6. ASSUME NEW n \in News, NoticePushed(n) PROVE StreamsInv'
  <2>1. WireInv' /\ DeafHasCause'
    BY <1>6 DEF NoticePushed, StreamsInv, WireInv, DeafHasCause
  <2> DEFINE hearing == IF subscribed THEN handlers ELSE {}
  <2>2. /\ UNCHANGED <<stream, hasSet, handlers, wire, subscribed, posted, unpushed, refused, parted>>
        /\ pushed' = pushed \cup {n} /\ n \in posted
        /\ known' = [s \in Stream |-> IF s \in hearing THEN known[s] \cup {n} ELSE known[s]]
        /\ gap' = [s \in Stream |-> IF s \in Connecting THEN gap[s] \cup {n} ELSE gap[s]]
    BY <1>6 DEF NoticePushed, Learn
  <2>3. wire = <<>> /\ ~refused => \A s \in handlers : s \in hearing
    BY DEF StreamsInv, StreamTypes, WireInv
  <2>4. /\ \A s \in Stream : stream[s] \in {"counted", "waiting"} => s \in Connecting
        /\ wire # <<>> => \A s \in handlers : s \in Connecting
    BY DEF StreamsInv, StreamTypes, Connecting
  <2> HIDE DEF hearing
  <2>5. StreamTypes'
    <3>1. \A s \in Stream : known'[s] \in SUBSET posted' /\ gap'[s] \in SUBSET pushed'
      BY <2>2 DEF StreamsInv, StreamTypes
    <3> QED BY <2>2, <3>1 DEF StreamsInv, StreamTypes
  <2>6. HeardInv'
    <3> SUFFICES ASSUME ~refused, NEW s \in Stream, stream[s] \in {"counted", "waiting", "live"}
                 PROVE  pushed' \subseteq known'[s] \cup gap'[s]
      BY <2>2 DEF StreamsInv, HeardInv
    <3>1. pushed \subseteq known[s] \cup gap[s]
      BY DEF StreamsInv, HeardInv
    <3>2. s \in hearing \/ s \in Connecting
      BY <2>3, <2>4 DEF StreamsInv, StreamTypes
    <3> QED BY <2>2, <3>1, <3>2
  <2> QED BY <2>1, <2>5, <2>6 DEF StreamsInv
<1>8. ASSUME NEW n \in News, NoticeStored(n) \/ NoticeUnpushed(n) PROVE StreamsInv'
  <2>1. WireInv' /\ DeafHasCause' /\ HeardInv'
    BY <1>8 DEF NoticeStored, NoticeUnpushed, StreamsInv, WireInv, HeardInv, DeafHasCause
  <2>2. StreamTypes'
    BY <1>8 DEF NoticeStored, NoticeUnpushed, StreamsInv, StreamTypes
  <2> QED BY <2>1, <2>2 DEF StreamsInv
<1>7. CASE UNCHANGED streamVars
  BY <1>7 DEF streamVars, notices, StreamsInv, StreamTypes, WireInv, HeardInv, DeafHasCause
<1> QED BY <1>1, <1>2, <1>3, <1>4, <1>5, <1>6, <1>7, <1>8 DEF StreamsNext

\* In whatever order any number of streams connect, subscribe and leave, whatever
\* Redis answers when, and whichever notifications are pushed late or not at all:
\* who is listening hears what is pushed, the subscription follows the handlers,
\* and a deaf stream has one of the two causes (notification-pubsub.service.ts).
THEOREM StreamsHeardAlways == StreamsSpec => []StreamsHeard
<1>1. StreamsInv => StreamsHeard
  BY DEF StreamsInv, StreamTypes, WireInv, HeardInv, StreamsHeard, NothingMissed,
         SubscribedWhileHeard
<1> QED BY <1>1, InitStreams, NextStreams, PTL DEF StreamsSpec

-----------------------------------------------------------------------------
(* Licences and their seats (LicenseService).                              *)

\* A number of seats within another.
Within(m, n) == n = Unlimited \/ (m # Unlimited /\ m <= n)

\* Requests that looked for a seat of this employee and found none.
Doubling(l, e) ==
  {c \in SeatCall : /\ seatCall[c].pc \in {"count", "insert"}
                    /\ seatCall[c].lic = l /\ seatCall[c].emp = e}

\* What a request read of a seat count has been purchased once, and it counts
\* only against a number.
CountsKnown ==
  /\ \A l \in Licence : Within(licence[l].seats, peakSeats[l])
  /\ \A c \in SeatCall :
       /\ seatCall[c].pc \in AssignPc => Within(seatCall[c].seats, peakSeats[seatCall[c].lic])
       /\ seatCall[c].pc = "count" => seatCall[c].seats # Unlimited

\* The seats in use and those about to be inserted together.
Overbooked(l) ==
  peakSeats[l] # Unlimited =>
    UsedSeats(l) + Cardinality(CallsAt(l, {"insert"})) < peakSeats[l] + Cardinality(SeatCall)

Doubled(l, e) ==
  Cardinality(SeatsOf(l, e)) + Cardinality(Doubling(l, e)) <= Cardinality(SeatCall)

Emptied(l) ==
  l \notin undercut /\ (licence[l].state = "deleted" \/ CallsAt(l, {"delete"}) # {})
    => ActiveSeats(l) = {}

SeatsInv ==
  /\ LicencesTypeOK /\ CountsKnown
  /\ \A l \in Licence : Overbooked(l) /\ Emptied(l) /\ \A e \in Holder : Doubled(l, e)

\* Requests and rows are finitely many.
LEMMA SeatsFinite ==
  /\ \A T \in SUBSET Seat : IsFiniteSet(T) /\ Cardinality(T) \in Nat
  /\ \A T \in SUBSET SeatCall :
       IsFiniteSet(T) /\ Cardinality(T) \in Nat /\ Cardinality(T) <= Cardinality(SeatCall)
  /\ Cardinality(SeatCall) \in Nat \ {0}
<1>1. \A T \in SUBSET Seat : IsFiniteSet(T) /\ Cardinality(T) \in Nat
  BY SeatAssumption, FS_Subset, FS_CardinalityType
<1>2. \A T \in SUBSET SeatCall :
        IsFiniteSet(T) /\ Cardinality(T) \in Nat /\ Cardinality(T) <= Cardinality(SeatCall)
  BY SeatAssumption, FS_Subset, FS_CardinalityType
<1>3. Cardinality(SeatCall) \in Nat \ {0}
  BY SeatAssumption, FS_CardinalityType, FS_EmptySet
<1> QED BY <1>1, <1>2, <1>3

\* The numbers of SeatsInv, as numbers.
LEMMA SeatNumbers ==
  ASSUME NEW l
  PROVE  /\ UsedSeats(l) \in Nat /\ Cardinality(CallsAt(l, {"insert"})) \in Nat
         /\ Cardinality(CallsAt(l, {"insert"})) <= Cardinality(SeatCall)
         /\ \A e : /\ Cardinality(SeatsOf(l, e)) \in Nat
                   /\ Cardinality(Doubling(l, e)) \in Nat
                   /\ Cardinality(Doubling(l, e)) <= Cardinality(SeatCall)
<1>1. ActiveSeats(l) \in SUBSET Seat /\ CallsAt(l, {"insert"}) \in SUBSET SeatCall
  BY DEF ActiveSeats, CallsAt
<1>2. \A e : SeatsOf(l, e) \in SUBSET Seat /\ Doubling(l, e) \in SUBSET SeatCall
  BY DEF SeatsOf, ActiveSeats, Doubling
<1> QED BY <1>1, <1>2, SeatsFinite DEF UsedSeats

\* A request that is under way.
LEMMA SeatCallShape ==
  ASSUME LicencesTypeOK, NEW c \in SeatCall
  PROVE  /\ seatCall[c].pc \in AssignPc =>
              seatCall[c] \in [pc: AssignPc, lic: Licence, emp: Holder,
                               seats: Nat \cup {Unlimited}]
         /\ seatCall[c].pc \in DeletePc => seatCall[c] \in [pc: DeletePc, lic: Licence]
BY DEF LicencesTypeOK, SeatCallType, SeatIdle, AssignPc, DeletePc

\* The history of seat counts never falls.
LEMMA HigherWithin ==
  ASSUME NEW m \in Nat \cup {Unlimited}, NEW n \in Nat \cup {Unlimited}
  PROVE  /\ HigherCount(m, n) \in Nat \cup {Unlimited}
         /\ Within(m, HigherCount(m, n)) /\ Within(n, HigherCount(m, n))
BY SeatAssumption DEF HigherCount, Within

LEMMA WithinTrans ==
  ASSUME NEW k \in Nat \cup {Unlimited}, NEW m \in Nat \cup {Unlimited},
         NEW n \in Nat \cup {Unlimited}, Within(k, m), Within(m, n)
  PROVE  Within(k, n)
BY SeatAssumption DEF Within

LEMMA InitSeats == LicenceInit => SeatsInv
<1> SUFFICES ASSUME LicenceInit PROVE SeatsInv
  OBVIOUS
<1>1. LicencesTypeOK
  BY DEF LicenceInit, LicencesTypeOK, SeatCallType
<1>2. CountsKnown
  BY SeatAssumption DEF LicenceInit, CountsKnown, Within, SeatIdle, AssignPc
<1>3. \A l : ActiveSeats(l) = {} /\ \A pcs : "idle" \notin pcs => CallsAt(l, pcs) = {}
  BY DEF LicenceInit, ActiveSeats, NoSeat, CallsAt, SeatIdle
<1>4. \A l, e : SeatsOf(l, e) = {} /\ Doubling(l, e) = {}
  BY <1>3 DEF SeatsOf, Doubling, LicenceInit, SeatIdle
<1>5. \A l \in Licence : Overbooked(l) /\ \A e \in Holder : Doubled(l, e)
  BY <1>3, <1>4, FS_EmptySet, SeatsFinite DEF LicenceInit, Overbooked, Doubled, UsedSeats
<1>6. \A l \in Licence : Emptied(l)
  BY <1>3 DEF Emptied
<1> QED BY <1>1, <1>2, <1>5, <1>6 DEF SeatsInv

-----------------------------------------------------------------------------
\* createLicense and updateLicense.
LEMMA WriteSeats ==
  ASSUME SeatsInv, NEW l \in Licence, CreateLicence(l) \/ UpdateLicence(l)
  PROVE  SeatsInv'
<1>1. PICK n \in Counts : LicenceWrite(l, n)
  BY DEF CreateLicence, UpdateLicence
<1> DEFINE h == HigherCount(peakSeats[l], n)
<1>2. /\ licence' = [licence EXCEPT ![l] = [state |-> "live", seats |-> n]]
      /\ peakSeats' = [peakSeats EXCEPT ![l] = h]
      /\ UNCHANGED <<seat, seatCall, undercut>>
      /\ seatOps' = seatOps + 1
  BY <1>1 DEF LicenceWrite, SeatOp
<1>3. n \in Nat \cup {Unlimited} /\ peakSeats[l] \in Nat \cup {Unlimited}
  BY SeatAssumption DEF SeatsInv, LicencesTypeOK
<1>4. h \in Nat \cup {Unlimited} /\ Within(peakSeats[l], h) /\ Within(n, h)
  BY <1>3, HigherWithin
<1> HIDE DEF h
<1>5. LicencesTypeOK'
  BY <1>2, <1>3, <1>4 DEF SeatsInv, LicencesTypeOK, SeatCallType
<1>6. \A m \in Licence : Within(peakSeats[m], peakSeats'[m])
  BY <1>2, <1>4, SeatAssumption DEF SeatsInv, LicencesTypeOK, Within
<1>7. CountsKnown'
  <2>1. \A m \in Licence : Within(licence'[m].seats, peakSeats'[m])
    BY <1>2, <1>4 DEF SeatsInv, LicencesTypeOK, CountsKnown
  <2>2. \A c \in SeatCall : seatCall[c].pc \in AssignPc =>
          Within(seatCall[c].seats, peakSeats'[seatCall[c].lic])
    <3> TAKE c \in SeatCall
    <3> HAVE seatCall[c].pc \in AssignPc
    <3>1. /\ seatCall[c].lic \in Licence /\ seatCall[c].seats \in Nat \cup {Unlimited}
          /\ Within(seatCall[c].seats, peakSeats[seatCall[c].lic])
      BY SeatCallShape DEF SeatsInv, CountsKnown
    <3>2. /\ peakSeats[seatCall[c].lic] \in Nat \cup {Unlimited}
          /\ peakSeats'[seatCall[c].lic] \in Nat \cup {Unlimited}
      BY <3>1, <1>5 DEF SeatsInv, LicencesTypeOK
    <3> QED BY <3>1, <3>2, <1>6, WithinTrans
  <2> QED BY <1>2, <2>1, <2>2 DEF SeatsInv, CountsKnown
<1>8. ASSUME NEW m \in Licence
      PROVE  Overbooked(m)' /\ Emptied(m)' /\ \A e \in Holder : Doubled(m, e)'
  <2>1. /\ ActiveSeats(m)' = ActiveSeats(m)
        /\ \A pcs : CallsAt(m, pcs)' = CallsAt(m, pcs)
        /\ \A e : SeatsOf(m, e)' = SeatsOf(m, e) /\ Doubling(m, e)' = Doubling(m, e)
    BY <1>2 DEF ActiveSeats, CallsAt, SeatsOf, Doubling
  <2>2. Emptied(m)'
    BY <1>2, <2>1 DEF SeatsInv, Emptied, LicencesTypeOK
  <2>3. \A e \in Holder : Doubled(m, e)'
    BY <2>1 DEF SeatsInv, Doubled
  <2>4. Overbooked(m)'
    <3>1. peakSeats[m] \in Nat \cup {Unlimited} /\ peakSeats'[m] \in Nat \cup {Unlimited}
      BY <1>5 DEF SeatsInv, LicencesTypeOK
    <3>2. peakSeats'[m] # Unlimited => peakSeats[m] # Unlimited /\ peakSeats[m] <= peakSeats'[m]
      BY <1>6 DEF Within
    <3>3. Overbooked(m) /\ UsedSeats(m)' = UsedSeats(m)
      BY <2>1 DEF SeatsInv, UsedSeats
    <3> QED BY <2>1, <3>1, <3>2, <3>3, SeatNumbers, SeatsFinite DEF Overbooked
  <2> QED BY <2>2, <2>3, <2>4
<1> QED BY <1>5, <1>7, <1>8 DEF SeatsInv

\* A request moves on without touching a seat: it comes to inserting only after
\* its count, to counting only after its search, to deleting only after its
\* count of none.
LEMMA CallSeats ==
  ASSUME SeatsInv, NEW c \in SeatCall, NEW k \in SeatCallType, SeatMove(c, k),
         UNCHANGED <<seat, peakSeats, undercut>>, seatOps' \in Nat,
         licence' \in [Licence -> [state: {"unborn", "live", "deleted"},
                                   seats: Nat \cup {Unlimited}]],
         \A l \in Licence : /\ licence'[l].seats = licence[l].seats
                            /\ licence'[l].state = "deleted" =>
                                 licence[l].state = "deleted" \/ c \in CallsAt(l, {"delete"}),
         k.pc \in AssignPc => Within(k.seats, peakSeats[k.lic]),
         k.pc = "count" => k.seats # Unlimited,
         k.pc = "insert" =>
           peakSeats[k.lic] = Unlimited \/ UsedSeats(k.lic) < peakSeats[k.lic],
         k.pc \in {"count", "insert"} =>
           SeatsOf(k.lic, k.emp) = {} \/ c \in Doubling(k.lic, k.emp),
         k.pc = "delete" => ActiveSeats(k.lic) = {}
  PROVE  SeatsInv'
<1>0. seatCall'[c] = k /\ \A d \in SeatCall \ {c} : seatCall'[d] = seatCall[d]
  BY DEF SeatMove, SeatsInv, LicencesTypeOK
<1>1. LicencesTypeOK'
  BY DEF SeatMove, SeatsInv, LicencesTypeOK
<1>2. CountsKnown'
  BY <1>0 DEF SeatsInv, CountsKnown
<1>3. ASSUME NEW m \in Licence
      PROVE  Overbooked(m)' /\ Emptied(m)' /\ \A e \in Holder : Doubled(m, e)'
  <2>1. /\ ActiveSeats(m)' = ActiveSeats(m) /\ UsedSeats(m)' = UsedSeats(m)
        /\ \A e : SeatsOf(m, e)' = SeatsOf(m, e)
    BY DEF ActiveSeats, SeatsOf, UsedSeats
  <2>2. Emptied(m)'
    <3>1. \A d \in CallsAt(m, {"delete"})' : d \in CallsAt(m, {"delete"}) \/ ActiveSeats(m) = {}
      BY <1>0 DEF CallsAt
    <3> QED BY <2>1, <3>1 DEF SeatsInv, Emptied
  <2>3. ASSUME NEW e \in Holder PROVE Doubled(m, e)'
    <3>1. CASE SeatsOf(m, e) = {}
      <4>1. Doubling(m, e)' \in SUBSET SeatCall
        BY DEF Doubling
      <4> QED BY <2>1, <3>1, <4>1, FS_EmptySet, SeatsFinite DEF Doubled
    <3>2. CASE SeatsOf(m, e) # {}
      <4>1. Doubling(m, e)' \in SUBSET Doubling(m, e) /\ Doubling(m, e) \in SUBSET SeatCall
        BY <1>0, <3>2 DEF Doubling
      <4>2. Cardinality(Doubling(m, e)') <= Cardinality(Doubling(m, e))
        BY <4>1, SeatsFinite, FS_Subset
      <4>3. Doubled(m, e) /\ Cardinality(Doubling(m, e)') \in Nat
        BY <4>1, SeatsFinite DEF SeatsInv
      <4> QED BY <2>1, <4>2, <4>3, SeatNumbers, SeatsFinite DEF Doubled
    <3> QED BY <3>1, <3>2
  <2>4. ASSUME peakSeats[m] # Unlimited PROVE Overbooked(m)'
    <3>0. peakSeats[m] \in Nat /\ CallsAt(m, {"insert"})' \in SUBSET SeatCall
      BY <2>4 DEF SeatsInv, LicencesTypeOK, CallsAt
    <3>1. CASE UsedSeats(m) < peakSeats[m]
      BY <2>1, <3>0, <3>1, SeatsFinite, SeatNumbers DEF Overbooked
    <3>2. CASE ~(UsedSeats(m) < peakSeats[m])
      <4>1. /\ CallsAt(m, {"insert"})' \in SUBSET CallsAt(m, {"insert"})
            /\ CallsAt(m, {"insert"}) \in SUBSET SeatCall
        BY <1>0, <2>4, <3>2 DEF CallsAt
      <4>2. Cardinality(CallsAt(m, {"insert"})') <= Cardinality(CallsAt(m, {"insert"}))
        BY <4>1, SeatsFinite, FS_Subset
      <4>3. Overbooked(m) /\ Cardinality(CallsAt(m, {"insert"})') \in Nat
        BY <3>0, SeatsFinite DEF SeatsInv
      <4> QED BY <2>1, <2>4, <3>0, <4>2, <4>3, SeatNumbers, SeatsFinite DEF Overbooked
    <3> QED BY <3>1, <3>2
  <2> QED BY <2>2, <2>3, <2>4 DEF Overbooked
<1> QED BY <1>1, <1>2, <1>3 DEF SeatsInv

\* assignLicense up to its insert, and deleteLicense.
LEMMA MoveSeats ==
  ASSUME SeatsInv, NEW c \in SeatCall,
         AssignRead(c) \/ AssignDup(c) \/ AssignCount(c)
           \/ DeleteRead(c) \/ DeleteCount(c) \/ DeleteLicence(c)
  PROVE  SeatsInv'
<1> DEFINE k == seatCall'[c]
<1>0. LicencesTypeOK /\ CountsKnown /\ seatOps \in Nat
  BY DEF SeatsInv, LicencesTypeOK
<1>1. UNCHANGED <<seat, peakSeats, undercut>> /\ seatOps' \in Nat
  BY <1>0 DEF AssignRead, AssignDup, AssignCount, DeleteRead, DeleteCount, DeleteLicence, SeatOp
<1>2. CASE AssignRead(c)
  <2>1. PICK l \in Licence, e \in Holder :
          SeatMove(c, [pc |-> "dup", lic |-> l, emp |-> e, seats |-> licence[l].seats])
    BY <1>2 DEF AssignRead
  <2> DEFINE r == [pc |-> "dup", lic |-> l, emp |-> e, seats |-> licence[l].seats]
  <2>2. r \in SeatCallType
    BY <1>0 DEF LicencesTypeOK, SeatCallType, AssignPc
  <2>3. UNCHANGED licence /\ Within(licence[l].seats, peakSeats[l])
    BY <1>0, <1>2 DEF AssignRead, CountsKnown
  <2>4. r.pc = "dup" /\ r.lic = l /\ r.seats = licence[l].seats
    OBVIOUS
  <2> HIDE DEF r
  <2>5. SeatMove(c, r)
    BY <2>1 DEF r
  <2> QED BY <1>0, <1>1, <2>2, <2>3, <2>4, <2>5, CallSeats DEF LicencesTypeOK
<1>3. CASE AssignDup(c)
  <2>1. /\ UNCHANGED licence /\ seatCall[c].pc = "dup"
        /\ seatCall[c] \in [pc: AssignPc, lic: Licence, emp: Holder,
                            seats: Nat \cup {Unlimited}]
        /\ Within(seatCall[c].seats, peakSeats[seatCall[c].lic])
    BY <1>0, <1>3, SeatCallShape DEF AssignDup, CountsKnown, AssignPc
  <2>2. CASE SeatsOf(seatCall[c].lic, seatCall[c].emp) # {}
    <3>1. SeatMove(c, SeatIdle) /\ SeatIdle \in SeatCallType
      BY <1>3, <2>2 DEF AssignDup, SeatCallType
    <3>2. SeatIdle.pc = "idle"
      BY DEF SeatIdle
    <3> QED BY <1>0, <1>1, <2>1, <3>1, <3>2, CallSeats DEF LicencesTypeOK, AssignPc
  <2>3. CASE SeatsOf(seatCall[c].lic, seatCall[c].emp) = {}
    <3> DEFINE pc == IF seatCall[c].seats = Unlimited THEN "insert" ELSE "count"
               r == [seatCall[c] EXCEPT !.pc = pc]
    <3>1. SeatMove(c, r)
      BY <1>3, <2>3 DEF AssignDup
    <3>2. r \in SeatCallType
      BY <2>1 DEF SeatCallType, AssignPc
    <3>3. r.pc = pc /\ r.lic = seatCall[c].lic /\ r.emp = seatCall[c].emp
          /\ r.seats = seatCall[c].seats
      BY <2>1
    <3>4. pc \in {"count", "insert"} /\ (pc = "count" => seatCall[c].seats # Unlimited)
      OBVIOUS
    <3>5. pc = "insert" => peakSeats[seatCall[c].lic] = Unlimited
      BY <2>1 DEF Within
    <3> HIDE DEF r, pc
    <3> QED BY <1>0, <1>1, <2>1, <2>3, <3>1, <3>2, <3>3, <3>4, <3>5, CallSeats
            DEF LicencesTypeOK
  <2> QED BY <2>2, <2>3
<1>4. CASE AssignCount(c)
  <2>1. /\ UNCHANGED licence /\ seatCall[c].pc = "count"
        /\ seatCall[c] \in [pc: AssignPc, lic: Licence, emp: Holder,
                            seats: Nat \cup {Unlimited}]
        /\ Within(seatCall[c].seats, peakSeats[seatCall[c].lic])
        /\ seatCall[c].seats # Unlimited
    BY <1>0, <1>4, SeatCallShape DEF AssignCount, CountsKnown, AssignPc
  <2>2. CASE UsedSeats(seatCall[c].lic) >= seatCall[c].seats
    <3>1. SeatMove(c, SeatIdle) /\ SeatIdle \in SeatCallType
      BY <1>4, <2>2 DEF AssignCount, SeatCallType
    <3>2. SeatIdle.pc = "idle"
      BY DEF SeatIdle
    <3> QED BY <1>0, <1>1, <2>1, <3>1, <3>2, CallSeats DEF LicencesTypeOK, AssignPc
  <2>3. CASE ~(UsedSeats(seatCall[c].lic) >= seatCall[c].seats)
    <3> DEFINE r == [seatCall[c] EXCEPT !.pc = "insert"]
    <3>1. SeatMove(c, r)
      BY <1>4, <2>3 DEF AssignCount
    <3>2. r \in SeatCallType
      BY <2>1 DEF SeatCallType, AssignPc
    <3>3. /\ r.pc = "insert" /\ r.lic = seatCall[c].lic /\ r.emp = seatCall[c].emp
          /\ r.seats = seatCall[c].seats
      BY <2>1
    <3> HIDE DEF r
    <3>4. /\ peakSeats[seatCall[c].lic] \in Nat \cup {Unlimited}
          /\ seatCall[c].seats \in Nat
      BY <1>0, <2>1 DEF LicencesTypeOK
    <3>5. \/ peakSeats[seatCall[c].lic] = Unlimited
          \/ UsedSeats(seatCall[c].lic) < peakSeats[seatCall[c].lic]
      BY <2>1, <2>3, <3>4, SeatNumbers DEF Within
    <3>6. c \in Doubling(seatCall[c].lic, seatCall[c].emp)
      BY <2>1 DEF Doubling
    <3> QED BY <1>0, <1>1, <2>1, <3>1, <3>2, <3>3, <3>5, <3>6, CallSeats DEF LicencesTypeOK
  <2> QED BY <2>2, <2>3
<1>5. CASE DeleteRead(c)
  <2>1. PICK l \in Licence : SeatMove(c, [pc |-> "seats", lic |-> l])
    BY <1>5 DEF DeleteRead
  <2> DEFINE r == [pc |-> "seats", lic |-> l]
  <2>2. r \in SeatCallType /\ r.pc = "seats" /\ UNCHANGED licence
    BY <1>5 DEF DeleteRead, SeatCallType, DeletePc
  <2> HIDE DEF r
  <2>3. SeatMove(c, r)
    BY <2>1 DEF r
  <2> QED BY <1>0, <1>1, <2>2, <2>3, CallSeats DEF LicencesTypeOK, AssignPc
<1>6. CASE DeleteCount(c)
  <2>1. /\ UNCHANGED licence /\ seatCall[c] \in [pc: DeletePc, lic: Licence]
    BY <1>0, <1>6, SeatCallShape DEF DeleteCount, DeletePc
  <2>2. CASE UsedSeats(seatCall[c].lic) > 0
    <3>1. SeatMove(c, SeatIdle) /\ SeatIdle \in SeatCallType
      BY <1>6, <2>2 DEF DeleteCount, SeatCallType
    <3>2. SeatIdle.pc = "idle"
      BY DEF SeatIdle
    <3> QED BY <1>0, <1>1, <2>1, <3>1, <3>2, CallSeats DEF LicencesTypeOK, AssignPc
  <2>3. CASE ~(UsedSeats(seatCall[c].lic) > 0)
    <3> DEFINE r == [seatCall[c] EXCEPT !.pc = "delete"]
    <3>1. SeatMove(c, r)
      BY <1>6, <2>3 DEF DeleteCount
    <3>2. r \in SeatCallType /\ r.pc = "delete" /\ r.lic = seatCall[c].lic
      BY <2>1 DEF SeatCallType, DeletePc
    <3> HIDE DEF r
    <3>3. ActiveSeats(seatCall[c].lic) = {}
      <4>1. Cardinality(ActiveSeats(seatCall[c].lic)) = 0
        BY <2>3, SeatNumbers DEF UsedSeats
      <4>2. ActiveSeats(seatCall[c].lic) \in SUBSET Seat
        BY DEF ActiveSeats
      <4> QED BY <4>1, <4>2, SeatsFinite, FS_EmptySet
    <3> QED BY <1>0, <1>1, <2>1, <3>1, <3>2, <3>3, CallSeats DEF LicencesTypeOK, AssignPc
  <2> QED BY <2>2, <2>3
<1>7. CASE DeleteLicence(c)
  <2>1. SeatMove(c, SeatIdle) /\ SeatIdle \in SeatCallType /\ SeatIdle.pc = "idle"
    BY <1>7 DEF DeleteLicence, SeatCallType, SeatIdle
  <2>2. /\ seatCall[c].pc = "delete" /\ seatCall[c].lic \in Licence
        /\ licence' = [licence EXCEPT ![seatCall[c].lic].state = "deleted"]
    BY <1>0, <1>7, SeatCallShape DEF DeleteLicence, DeletePc
  <2>3. c \in CallsAt(seatCall[c].lic, {"delete"})
    BY <2>2 DEF CallsAt
  <2>4. /\ licence' \in [Licence -> [state: {"unborn", "live", "deleted"},
                                     seats: Nat \cup {Unlimited}]]
        /\ \A l \in Licence :
             /\ licence'[l].seats = licence[l].seats
             /\ l # seatCall[c].lic => licence'[l] = licence[l]
    BY <1>0, <2>2 DEF LicencesTypeOK
  <2>5. \A l \in Licence : licence'[l].state = "deleted" =>
          licence[l].state = "deleted" \/ c \in CallsAt(l, {"delete"})
    BY <2>3, <2>4
  <2> QED BY <1>1, <2>1, <2>4, <2>5, CallSeats DEF AssignPc
<1> QED BY <1>2, <1>3, <1>4, <1>5, <1>6, <1>7

\* assignLicense inserts: what it was about to do is done.
LEMMA InsertSeats ==
  ASSUME SeatsInv, NEW c \in SeatCall, AssignInsert(c)
  PROVE  SeatsInv'
<1>0. LicencesTypeOK
  BY DEF SeatsInv
<1>1. /\ seatCall[c].pc = "insert"
      /\ seatCall[c] \in [pc: AssignPc, lic: Licence, emp: Holder, seats: Nat \cup {Unlimited}]
  BY <1>0, SeatCallShape DEF AssignInsert, AssignPc
<1>2. PICK l \in Licence, h \in Holder : l = seatCall[c].lic /\ h = seatCall[c].emp
  BY <1>1
<1>3. PICK s \in Seat :
        /\ seat[s] = NoSeat
        /\ seat' = [seat EXCEPT ![s] = [state |-> "active", lic |-> l, emp |-> h]]
  BY <1>2 DEF AssignInsert
<1>4. /\ undercut' = IF LicenceLive(l) /\ CallsAt(l, {"delete"}) = {}
                       THEN undercut ELSE undercut \cup {l}
      /\ SeatMove(c, SeatIdle) /\ UNCHANGED <<licence, seatOps, peakSeats>>
  BY <1>2 DEF AssignInsert
<1> DEFINE x == [state |-> "active", lic |-> l, emp |-> h]
<1>5. x \in SeatRow /\ x.state = "active" /\ x.lic = l /\ x.emp = h
  BY DEF SeatRow
<1> HIDE DEF x
<1>6. seat'[s] = x /\ \A q \in Seat \ {s} : seat'[q] = seat[q]
  BY <1>0, <1>3 DEF LicencesTypeOK, x
<1>7. seatCall'[c] = SeatIdle /\ \A d \in SeatCall \ {c} : seatCall'[d] = seatCall[d]
  BY <1>0, <1>4 DEF SeatMove, LicencesTypeOK
<1>8. LicencesTypeOK'
  BY <1>0, <1>3, <1>4, <1>5 DEF LicencesTypeOK, SeatMove, SeatCallType, x
<1>9. CountsKnown'
  BY <1>4, <1>7 DEF SeatsInv, CountsKnown, SeatIdle, AssignPc
<1>10. seat[s].state = "unborn"
  BY <1>3 DEF NoSeat
<1>11. /\ s \notin ActiveSeats(l) /\ ActiveSeats(l)' = ActiveSeats(l) \cup {s}
       /\ \A m \in Licence \ {l} : ActiveSeats(m)' = ActiveSeats(m)
  BY <1>5, <1>6, <1>10 DEF ActiveSeats
<1>12. /\ SeatsOf(l, h)' = SeatsOf(l, h) \cup {s} /\ s \notin SeatsOf(l, h)
       /\ \A m \in Licence, e \in Holder : m # l \/ e # h => SeatsOf(m, e)' = SeatsOf(m, e)
  BY <1>5, <1>6, <1>10, <1>11 DEF SeatsOf, ActiveSeats
<1>13. /\ c \in CallsAt(l, {"insert"})
       /\ CallsAt(l, {"insert"})' = CallsAt(l, {"insert"}) \ {c}
       /\ \A m \in Licence \ {l} : CallsAt(m, {"insert"})' = CallsAt(m, {"insert"})
       /\ \A m \in Licence : CallsAt(m, {"delete"})' = CallsAt(m, {"delete"})
  BY <1>1, <1>2, <1>7 DEF CallsAt, SeatIdle
<1>14. /\ c \in Doubling(l, h) /\ Doubling(l, h)' = Doubling(l, h) \ {c}
       /\ \A m \in Licence, e \in Holder : m # l \/ e # h => Doubling(m, e)' = Doubling(m, e)
  BY <1>1, <1>2, <1>7 DEF Doubling, SeatIdle
<1>15. ASSUME NEW m \in Licence
       PROVE  Overbooked(m)' /\ Emptied(m)' /\ \A e \in Holder : Doubled(m, e)'
  <2>1. Emptied(m)'
    <3>1. CASE m = l
      BY <3>1, <1>4, <1>13 DEF Emptied, LicenceLive
    <3>2. CASE m # l
      BY <3>2, <1>4, <1>11, <1>13 DEF SeatsInv, Emptied
    <3> QED BY <3>1, <3>2
  <2>2. Overbooked(m)'
    <3>1. CASE m # l
      BY <3>1, <1>4, <1>11, <1>13 DEF SeatsInv, Overbooked, UsedSeats
    <3>2. CASE m = l
      <4>1. IsFiniteSet(ActiveSeats(l)) /\ IsFiniteSet(CallsAt(l, {"insert"}))
        BY SeatsFinite DEF ActiveSeats, CallsAt
      <4>2. UsedSeats(l)' = UsedSeats(l) + 1
        BY <4>1, <1>11, FS_AddElement DEF UsedSeats
      <4>3. Cardinality(CallsAt(l, {"insert"})') = Cardinality(CallsAt(l, {"insert"})) - 1
        BY <4>1, <1>13, FS_RemoveElement
      <4>4. Overbooked(l) /\ peakSeats'[l] = peakSeats[l]
        BY <1>4 DEF SeatsInv
      <4> QED BY <3>2, <4>2, <4>3, <4>4, SeatNumbers DEF Overbooked
    <3> QED BY <3>1, <3>2
  <2>3. ASSUME NEW e \in Holder PROVE Doubled(m, e)'
    <3>1. CASE m # l \/ e # h
      BY <3>1, <1>12, <1>14 DEF SeatsInv, Doubled
    <3>2. CASE m = l /\ e = h
      <4>1. IsFiniteSet(SeatsOf(l, h)) /\ IsFiniteSet(Doubling(l, h))
        BY SeatsFinite DEF SeatsOf, ActiveSeats, Doubling
      <4>2. Cardinality(SeatsOf(l, h)') = Cardinality(SeatsOf(l, h)) + 1
        BY <4>1, <1>12, FS_AddElement
      <4>3. Cardinality(Doubling(l, h)') = Cardinality(Doubling(l, h)) - 1
        BY <4>1, <1>14, FS_RemoveElement
      <4>4. Doubled(l, h)
        BY DEF SeatsInv
      <4> QED BY <3>2, <4>2, <4>3, <4>4, SeatNumbers DEF Doubled
    <3> QED BY <3>1, <3>2
  <2> QED BY <2>1, <2>2, <2>3
<1> QED BY <1>8, <1>9, <1>15 DEF SeatsInv

\* revokeAssignment only takes seats away.
LEMMA RevokeSeats ==
  ASSUME SeatsInv, NEW s \in Seat, SeatRevoke(s)
  PROVE  SeatsInv'
<1>0. LicencesTypeOK
  BY DEF SeatsInv
<1>1. /\ seat[s].state = "active" /\ seat' = [seat EXCEPT ![s].state = "revoked"]
      /\ seatOps' = seatOps + 1
      /\ UNCHANGED <<licence, seatCall, peakSeats, undercut>>
  BY DEF SeatRevoke, SeatOp
<1>2. seat[s] \in SeatRow
  BY <1>0, <1>1 DEF LicencesTypeOK, NoSeat
<1>3. /\ seat'[s] = [seat[s] EXCEPT !.state = "revoked"] /\ seat'[s] \in SeatRow
      /\ \A q \in Seat \ {s} : seat'[q] = seat[q]
  BY <1>0, <1>1, <1>2 DEF LicencesTypeOK, SeatRow
<1>4. LicencesTypeOK'
  BY <1>0, <1>1, <1>3 DEF LicencesTypeOK
<1>5. CountsKnown'
  BY <1>1 DEF SeatsInv, CountsKnown
<1>6. seat'[s].state = "revoked"
  BY <1>2, <1>3 DEF SeatRow
<1>7. ASSUME NEW m \in Licence
      PROVE  Overbooked(m)' /\ Emptied(m)' /\ \A e \in Holder : Doubled(m, e)'
  <2>1. /\ ActiveSeats(m)' \in SUBSET ActiveSeats(m) /\ ActiveSeats(m) \in SUBSET Seat
        /\ \A e : SeatsOf(m, e)' \in SUBSET SeatsOf(m, e) /\ SeatsOf(m, e) \in SUBSET Seat
    BY <1>3, <1>6 DEF ActiveSeats, SeatsOf
  <2>2. /\ \A pcs : CallsAt(m, pcs)' = CallsAt(m, pcs)
        /\ \A e : Doubling(m, e)' = Doubling(m, e)
    BY <1>1 DEF CallsAt, Doubling
  <2>3. /\ UsedSeats(m)' <= UsedSeats(m) /\ UsedSeats(m)' \in Nat
        /\ \A e : /\ Cardinality(SeatsOf(m, e)') <= Cardinality(SeatsOf(m, e))
                  /\ Cardinality(SeatsOf(m, e)') \in Nat
    BY <2>1, SeatsFinite, FS_Subset DEF UsedSeats
  <2>4. Emptied(m)'
    BY <1>1, <2>1, <2>2 DEF SeatsInv, Emptied
  <2>5. Overbooked(m)'
    <3>1. Overbooked(m) /\ peakSeats[m] \in Nat \cup {Unlimited} /\ peakSeats'[m] = peakSeats[m]
      BY <1>0, <1>1 DEF SeatsInv, LicencesTypeOK
    <3> QED BY <2>2, <2>3, <3>1, SeatNumbers, SeatsFinite DEF Overbooked
  <2>6. \A e \in Holder : Doubled(m, e)'
    <3> TAKE e \in Holder
    <3>1. Doubled(m, e)
      BY DEF SeatsInv
    <3> QED BY <2>2, <2>3, <3>1, SeatNumbers, SeatsFinite DEF Doubled
  <2> QED BY <2>4, <2>5, <2>6
<1> QED BY <1>4, <1>5, <1>7 DEF SeatsInv

LEMMA NextSeats == SeatsInv /\ [LicenceNext]_licenceVars => SeatsInv'
<1> SUFFICES ASSUME SeatsInv, [LicenceNext]_licenceVars PROVE SeatsInv'
  OBVIOUS
<1>1. CASE UNCHANGED licenceVars
  <2>1. UNCHANGED <<licence, seat, seatCall, seatOps, peakSeats, undercut>>
    BY <1>1 DEF licenceVars
  <2>2. \A l : /\ ActiveSeats(l)' = ActiveSeats(l) /\ UsedSeats(l)' = UsedSeats(l)
               /\ \A pcs : CallsAt(l, pcs)' = CallsAt(l, pcs)
               /\ \A e : SeatsOf(l, e)' = SeatsOf(l, e) /\ Doubling(l, e)' = Doubling(l, e)
    BY <2>1 DEF UsedSeats, ActiveSeats, SeatsOf, Doubling, CallsAt
  <2>3. LicencesTypeOK' /\ CountsKnown'
    BY <2>1 DEF SeatsInv, LicencesTypeOK, CountsKnown
  <2>4. \A l \in Licence : Overbooked(l)' /\ Emptied(l)' /\ \A e \in Holder : Doubled(l, e)'
    BY <2>1, <2>2 DEF SeatsInv, Overbooked, Emptied, Doubled
  <2> QED BY <2>3, <2>4 DEF SeatsInv
<1> QED BY <1>1, WriteSeats, RevokeSeats, MoveSeats, InsertSeats DEF LicenceNext, SeatCallStep

\* For any number of licences, employees and requests in flight: an assignment
\* that counts and inserts in two statements overbooks a licence, and doubles
\* an employee's seat, by no more than the requests in flight, and a deleted
\* licence keeps a seat only through one of the two races
\* (license.service.ts:67-106).
THEOREM SeatBooksAlways == LicenceSpec => []SeatBooks
<1>1. SeatsInv => SeatBooks
  <2> SUFFICES ASSUME SeatsInv PROVE SeatBooks
    OBVIOUS
  <2>1. OverbookingIsBounded
    <3> SUFFICES ASSUME NEW l \in Licence, peakSeats[l] # Unlimited
                 PROVE  UsedSeats(l) < peakSeats[l] + Cardinality(SeatCall)
      BY DEF OverbookingIsBounded
    <3>1. peakSeats[l] \in Nat /\ Overbooked(l)
      BY DEF SeatsInv, LicencesTypeOK
    <3> QED BY <3>1, SeatNumbers, SeatsFinite DEF Overbooked
  <2>2. DuplicateSeatsBounded
    <3> SUFFICES ASSUME NEW l \in Licence, NEW e \in Holder
                 PROVE  Cardinality(SeatsOf(l, e)) <= Cardinality(SeatCall)
      BY DEF DuplicateSeatsBounded
    <3>1. Cardinality(SeatsOf(l, e)) + Cardinality(Doubling(l, e)) <= Cardinality(SeatCall)
      BY DEF SeatsInv, Doubled
    <3>2. /\ Cardinality(SeatsOf(l, e)) \in Nat /\ Cardinality(Doubling(l, e)) \in Nat
          /\ Cardinality(SeatCall) \in Nat
      BY SeatNumbers, SeatsFinite
    <3> QED BY <3>1, <3>2
  <2>3. NoOrphanSeats
    BY DEF SeatsInv, Emptied, NoOrphanSeats
  <2> QED BY <2>1, <2>2, <2>3 DEF SeatBooks
<1> QED BY <1>1, InitSeats, NextSeats, PTL DEF LicenceSpec

-----------------------------------------------------------------------------
(* The domain side of the request engine (DomainRequests).                 *)

DomainRow == AccessRow \cup LeaveRow \cup OvertimeRow \cup {NoRow}

DomainCallType ==
  {DIdle}
    \cup [pc: {"checked"}, emp: Employee, from: Day, to: Day]
    \cup [pc: {"created", "submitted", "cancel"}, item: Item]
    \cup [pc: {"route", "legacy"}, item: Item, op: {"approve", "reject"}]
    \cup [pc: {"decide"}, item: Item, seen: EngRow,
          op: {"approve", "reject", "cancel", "expire"}]
    \cup [pc: {"revoke"}, item: Item, grant: Nat]

DomainTypes ==
  /\ dom \in [Item -> DomainRow] /\ eng \in [Item -> EngRow \cup {NoRow}]
  /\ grants \in [Item -> Nat] /\ revoked \in [Item -> SUBSET Nat]
  /\ dcall \in [DomainCall -> DomainCallType]
  /\ gone \subseteq Employee /\ ops \in 0..MaxOps

\* What a call relies on: rows are never deleted, and a row that was just
\* created has no request before its own submission writes it.
CallHolds(c) ==
  LET k == dcall[c] IN
  /\ k.pc = "created" =>
       /\ dom[k.item] # NoRow /\ eng[k.item] = NoRow
       /\ \A d \in DomainCall \ {c} : dcall[d].pc = "created" => dcall[d].item # k.item
  /\ k.pc \in {"submitted", "route"} => dom[k.item] # NoRow /\ eng[k.item] # NoRow
  /\ k.pc = "legacy" => dom[k.item] # NoRow
  /\ k.pc = "cancel" => dom[k.item] # NoRow /\ dom[k.item].kind = "leave_request"
  /\ k.pc = "decide" =>
       /\ k.seen.status \in EngOpen /\ eng[k.item] # NoRow
       /\ eng[k.item].kind = k.seen.kind /\ eng[k.item].leaver = k.seen.leaver
  /\ k.pc = "revoke" => k.grant \in 1..grants[k.item]

\* A row and its request belong together ...
Paired(i) ==
  /\ dom[i] # NoRow /\ eng[i] # NoRow => eng[i].kind = dom[i].kind
  /\ eng[i] # NoRow /\ HasDomainRow(eng[i].kind) => dom[i] # NoRow
  /\ dom[i] # NoRow /\ dom[i].linked => eng[i] # NoRow
  /\ eng[i] # NoRow /\ eng[i].kind # "offboarding" => eng[i].leaver = {}
  /\ revoked[i] \subseteq 1..grants[i]
  /\ dom[i] = NoRow => grants[i] = 0

\* ... the row says what the request says, even before there is one ...
Told(i) ==
  dom[i] # NoRow /\ i \notin stale \cup legacy \cup withdrawn =>
    dom[i].status = IF eng[i] = NoRow THEN "pending" ELSE Expected(i)

\* ... nothing is granted on it before it is approved ...
GrantedOnce(i) ==
  i \notin stale \cup legacy =>
    /\ grants[i] <= 1
    /\ eng[i] = NoRow \/ eng[i].status \in EngOpen => grants[i] = 0

\* ... and what its employee was granted ends with the employment.
EndsWithJob(i) ==
  dom[i] # NoRow /\ dom[i].emp \in gone /\ i \notin late => revoked[i] = 1..grants[i]

ItemHolds(i) == Paired(i) /\ Told(i) /\ GrantedOnce(i) /\ EndsWithJob(i)

DomainInv ==
  /\ DomainTypes
  /\ \A c \in DomainCall : CallHolds(c)
  /\ \A i \in Item : ItemHolds(i)
  /\ NoDoubleBooking

\* A row is never taken for a missing one, and its kind decides its statuses.
LEMMA RowKinds ==
  ASSUME NEW x \in DomainRow
  PROVE  /\ x # NoRow <=> x.status # "none"
         /\ x # NoRow => /\ HasDomainRow(x.kind) /\ x.emp \in Employee /\ x.kind \in RequestType
                         /\ x.kind = "leave_request" => x \in LeaveRow
                         /\ x.linked \in BOOLEAN
BY DEF DomainRow, AccessRow, LeaveRow, OvertimeRow, NoRow, HasDomainRow, RequestType

\* What a hook, a decision or a cancellation may write to a row.
LEMMA RowStatus ==
  ASSUME NEW x \in DomainRow, x # NoRow, NEW s,
         \/ s \in {"pending", "approved", "rejected", x.status}
         \/ x.kind = "leave_request" /\ s = "cancelled"
         \/ x.kind = "access_request" /\ s = "expired",
         x.kind = "overtime" => s # "cancelled" \/ s = x.status
  PROVE  /\ [x EXCEPT !.status = s] \in DomainRow /\ [x EXCEPT !.status = s] # NoRow
         /\ [x EXCEPT !.status = s].status = s
         /\ [x EXCEPT !.status = s].kind = x.kind /\ [x EXCEPT !.status = s].emp = x.emp
         /\ [x EXCEPT !.status = s].linked = x.linked
         /\ x.kind = "leave_request" => /\ [x EXCEPT !.status = s].from = x.from
                                        /\ [x EXCEPT !.status = s].to = x.to
<1>1. CASE x \in AccessRow
  BY <1>1 DEF DomainRow, AccessRow, NoRow
<1>2. CASE x \in LeaveRow
  BY <1>2 DEF DomainRow, LeaveRow, NoRow
<1>3. CASE x \in OvertimeRow
  BY <1>3 DEF DomainRow, OvertimeRow, NoRow
<1> QED BY <1>1, <1>2, <1>3 DEF DomainRow

LEMMA RowLinked ==
  ASSUME NEW x \in DomainRow, x # NoRow
  PROVE  /\ [x EXCEPT !.linked = TRUE] \in DomainRow /\ [x EXCEPT !.linked = TRUE] # NoRow
         /\ [x EXCEPT !.linked = TRUE].status = x.status
         /\ [x EXCEPT !.linked = TRUE].kind = x.kind
         /\ [x EXCEPT !.linked = TRUE].emp = x.emp
         /\ x.kind = "leave_request" => /\ [x EXCEPT !.linked = TRUE].from = x.from
                                        /\ [x EXCEPT !.linked = TRUE].to = x.to
<1>1. CASE x \in AccessRow
  BY <1>1 DEF DomainRow, AccessRow, NoRow
<1>2. CASE x \in LeaveRow
  BY <1>2 DEF DomainRow, LeaveRow, NoRow
<1>3. CASE x \in OvertimeRow
  BY <1>3 DEF DomainRow, OvertimeRow, NoRow
<1> QED BY <1>1, <1>2, <1>3 DEF DomainRow

\* The fields of a call, by where it is.
LEMMA CallFields ==
  ASSUME NEW k \in DomainCallType
  PROVE  /\ k.pc = "checked" => k.emp \in Employee /\ k.from \in Day /\ k.to \in Day
         /\ k.pc \in {"created", "submitted", "cancel", "route", "legacy", "decide", "revoke"}
              => k.item \in Item
         /\ k.pc \in {"route", "legacy"} => k.op \in {"approve", "reject"}
         /\ k.pc = "decide" => /\ k.op \in {"approve", "reject", "cancel", "expire"}
                               /\ k.seen \in EngRow
         /\ k.pc = "revoke" => k.grant \in Nat
BY DEF DomainCallType, DIdle

\* What steps do to rows: none is deleted, and nobody's kind changes.
Persists ==
  \A i \in Item :
    /\ dom[i] # NoRow => dom'[i] # NoRow /\ dom'[i].kind = dom[i].kind
    /\ eng[i] # NoRow => /\ eng'[i] # NoRow /\ eng'[i].kind = eng[i].kind
                         /\ eng'[i].leaver = eng[i].leaver
    /\ grants[i] <= grants'[i]

LEMMA CallsHold ==
  ASSUME DomainInv, NEW c \in DomainCall, Persists, grants' \in [Item -> Nat],
         CallHolds(c)',
         \A d \in DomainCall \ {c} :
           /\ dcall'[d] = dcall[d]
           /\ dcall[d].pc = "created" => /\ eng'[dcall[d].item] = NoRow
                                         /\ dcall'[c].pc = "created" =>
                                              dcall'[c].item # dcall[d].item
  PROVE  \A d \in DomainCall : CallHolds(d)'
<1> SUFFICES ASSUME NEW d \in DomainCall \ {c} PROVE CallHolds(d)'
  OBVIOUS
<1>1. dcall[d] \in DomainCallType /\ CallHolds(d) /\ dcall'[d] = dcall[d]
  BY DEF DomainInv, DomainTypes
<1> DEFINE i == dcall[d].item
<1>2. dcall[d].pc = "created" =>
        /\ dom'[i] # NoRow /\ eng'[i] = NoRow
        /\ \A e \in DomainCall \ {d} : dcall'[e].pc = "created" => dcall'[e].item # i
  BY <1>1, CallFields DEF CallHolds, Persists
<1>3. dcall[d].pc \in {"submitted", "route"} => dom'[i] # NoRow /\ eng'[i] # NoRow
  BY <1>1, CallFields DEF CallHolds, Persists
<1>4. /\ dcall[d].pc = "legacy" => dom'[i] # NoRow
      /\ dcall[d].pc = "cancel" => dom'[i] # NoRow /\ dom'[i].kind = "leave_request"
  BY <1>1, CallFields DEF CallHolds, Persists
<1>5. dcall[d].pc = "decide" =>
        /\ dcall[d].seen.status \in EngOpen /\ eng'[i] # NoRow
        /\ eng'[i].kind = dcall[d].seen.kind /\ eng'[i].leaver = dcall[d].seen.leaver
  BY <1>1, CallFields DEF CallHolds, Persists
<1>6. dcall[d].pc = "revoke" => dcall[d].grant \in 1..grants'[i]
  <2> HAVE dcall[d].pc = "revoke"
  <2>1. i \in Item /\ dcall[d].grant \in 1..grants[i]
    BY <1>1, CallFields DEF CallHolds
  <2>2. grants[i] \in Nat /\ grants'[i] \in Nat /\ grants[i] <= grants'[i]
    BY <2>1 DEF DomainInv, DomainTypes, Persists
  <2> QED BY <2>1, <2>2
<1> QED BY <1>1, <1>2, <1>3, <1>4, <1>5, <1>6 DEF CallHolds

\* A step on one item leaves the others as they were.
LEMMA ItemsHold ==
  ASSUME DomainInv, NEW i \in Item, ItemHolds(i)', UNCHANGED gone,
         \A j \in Item \ {i} :
           /\ dom'[j] = dom[j] /\ eng'[j] = eng[j]
           /\ grants'[j] = grants[j] /\ revoked'[j] = revoked[j]
           /\ j \in stale' <=> j \in stale
           /\ j \in legacy' <=> j \in legacy
           /\ j \in withdrawn' <=> j \in withdrawn
           /\ j \in late' <=> j \in late
  PROVE  \A j \in Item : ItemHolds(j)'
<1> SUFFICES ASSUME NEW j \in Item \ {i} PROVE ItemHolds(j)'
  OBVIOUS
<1>1. Paired(j) /\ Told(j) /\ GrantedOnce(j) /\ EndsWithJob(j)
  BY DEF DomainInv, ItemHolds
<1>2. Paired(j)' /\ GrantedOnce(j)'
  BY <1>1 DEF Paired, GrantedOnce
<1>3. Told(j)'
  BY <1>1 DEF Told, Expected
<1>4. EndsWithJob(j)'
  BY <1>1 DEF EndsWithJob
<1> QED BY <1>2, <1>3, <1>4 DEF ItemHolds

\* Leave comes into force once, unless something excuses its coming back.
LEMMA BookingsHold ==
  ASSUME DomainInv,
         blind \subseteq blind', withdrawn \subseteq withdrawn',
         stale \subseteq stale', legacy \subseteq legacy',
         \A i \in Item :
           dom'[i] # NoRow /\ dom'[i].kind = "leave_request"
             /\ dom'[i].status \in {"pending", "approved"}
             /\ i \notin blind' \cup withdrawn' \cup stale' \cup legacy'
           => /\ dom[i] # NoRow /\ dom[i].kind = "leave_request"
              /\ dom[i].status \in {"pending", "approved"}
              /\ dom'[i].emp = dom[i].emp
              /\ dom'[i].from = dom[i].from /\ dom'[i].to = dom[i].to
  PROVE  NoDoubleBooking'
BY DEF DomainInv, NoDoubleBooking

\* A step that reads, or that ends a call.
LEMMA QuietDomain ==
  ASSUME DomainInv, NEW c \in DomainCall, NEW k \in DomainCallType,
         dcall' = [dcall EXCEPT ![c] = k], k.pc # "created",
         UNCHANGED <<tables, history>>, ops' \in 0..MaxOps, CallHolds(c)'
  PROVE  DomainInv'
<1>1. /\ UNCHANGED <<dom, eng, grants, revoked, gone>>
      /\ UNCHANGED <<stale, legacy, withdrawn, blind, late>>
  BY DEF tables, history
<1>2. dcall'[c] = k /\ \A d \in DomainCall \ {c} : dcall'[d] = dcall[d]
  BY DEF DomainInv, DomainTypes
<1>3. DomainTypes'
  BY <1>1 DEF DomainInv, DomainTypes
<1>4. Persists /\ grants' \in [Item -> Nat]
  BY <1>1 DEF Persists, DomainInv, DomainTypes
<1>5. \A d \in DomainCall \ {c} : dcall[d].pc = "created" => eng'[dcall[d].item] = NoRow
  BY <1>1 DEF DomainInv, CallHolds
<1>6. \A d \in DomainCall : CallHolds(d)'
  BY <1>2, <1>4, <1>5, CallsHold
<1>7. \A i \in Item : ItemHolds(i)'
  BY <1>1 DEF DomainInv, ItemHolds, Paired, Told, Expected, GrantedOnce, EndsWithJob
<1>8. NoDoubleBooking'
  BY <1>1, BookingsHold
<1> QED BY <1>3, <1>6, <1>7, <1>8 DEF DomainInv

LEMMA IdleHolds ==
  /\ DIdle \in DomainCallType /\ DIdle.pc = "idle"
  /\ \A c : dcall'[c] = DIdle => CallHolds(c)'
BY DEF DIdle, DomainCallType, CallHolds

LEMMA DomainStart == DomInit => DomainInv
<1> SUFFICES ASSUME DomInit PROVE DomainInv
  OBVIOUS
<1>1. DomainTypes
  BY DomainAssumption, IdleHolds DEF DomInit, DomainTypes, DomainRow
<1>2. \A c \in DomainCall : CallHolds(c)
  BY IdleHolds DEF DomInit, CallHolds
<1>3. \A i \in Item : ItemHolds(i)
  BY DEF DomInit, ItemHolds, Paired, Told, GrantedOnce, EndsWithJob
<1>4. NoDoubleBooking
  BY DEF DomInit, NoDoubleBooking
<1> QED BY <1>1, <1>2, <1>3, <1>4 DEF DomainInv

\* The steps that only read.
LEMMA ReadDomain ==
  ASSUME DomainInv, NEW c \in DomainCall,
         \/ \E e \in Employee, a, b \in Day : LeaveCheck(c, e, a, b)
         \/ \E i \in Item : \/ ReviewLeave(c, i) \/ ReviewOvertime(c, i)
                            \/ ApproveAccess(c, i) \/ RejectAccess(c, i)
                            \/ LeaveCancelRead(c, i)
         \/ \E i \in Item, op \in {"approve", "reject", "cancel", "expire"} : InboxLoad(c, i, op)
         \/ EngineLoad(c)
         \/ \E i \in Item, g \in 1..MaxOps : RevokeRead(c, i, g)
         \/ DomainCallFails(c)
  PROVE  DomainInv'
<1>0. /\ ops \in 0..MaxOps /\ MaxOps \in Nat /\ dcall[c] \in DomainCallType /\ CallHolds(c)
      /\ \A i \in Item : eng[i] \in EngRow \cup {NoRow} /\ Paired(i)
      /\ \A k : dcall' = [dcall EXCEPT ![c] = k] => dcall'[c] = k
  BY DomainAssumption DEF DomainInv, DomainTypes, ItemHolds
<1>1. ASSUME NEW e \in Employee, NEW a \in Day, NEW b \in Day, LeaveCheck(c, e, a, b)
      PROVE  DomainInv'
  <2> DEFINE k == [pc |-> "checked", emp |-> e, from |-> a, to |-> b]
  <2>1. /\ dcall' = [dcall EXCEPT ![c] = k] /\ ops' \in 0..MaxOps
        /\ UNCHANGED <<tables, history>>
    BY <1>0, <1>1 DEF LeaveCheck, Begin
  <2>2. k \in DomainCallType /\ k.pc = "checked"
    BY DEF DomainCallType
  <2> HIDE DEF k
  <2>3. CallHolds(c)'
    BY <1>0, <2>1, <2>2 DEF CallHolds
  <2> QED BY <2>1, <2>2, <2>3, QuietDomain
<1>2. ASSUME NEW i \in Item, NEW t, NEW op \in {"approve", "reject"}, ReviewRead(c, i, t, op)
      PROVE  DomainInv'
  <2> DEFINE pc == IF dom[i].linked THEN "route" ELSE "legacy"
             k == [pc |-> pc, item |-> i, op |-> op]
  <2>1. /\ dcall' = [dcall EXCEPT ![c] = k] /\ ops' \in 0..MaxOps
        /\ UNCHANGED <<tables, history>> /\ dom[i] # NoRow
    BY <1>0, <1>2 DEF ReviewRead, Begin
  <2>2. pc \in {"route", "legacy"} /\ (pc = "route" => eng[i] # NoRow)
    BY <1>0, <2>1 DEF Paired
  <2>3. k \in DomainCallType /\ k.pc = pc /\ k.item = i
    BY <2>2 DEF DomainCallType
  <2> HIDE DEF k, pc
  <2>4. CallHolds(c)'
    BY <1>0, <2>1, <2>2, <2>3 DEF CallHolds, tables
  <2> QED BY <2>1, <2>2, <2>3, <2>4, QuietDomain
<1>3. ASSUME NEW i \in Item, NEW op \in {"approve", "reject", "cancel", "expire"},
             eng[i].status \in EngOpen, UNCHANGED <<tables, history>>, ops' \in 0..MaxOps,
             dcall' = [dcall EXCEPT ![c] = [pc |-> "decide", item |-> i, op |-> op,
                                            seen |-> eng[i]]]
      PROVE  DomainInv'
  <2> DEFINE k == [pc |-> "decide", item |-> i, op |-> op, seen |-> eng[i]]
  <2>1. eng[i] \in EngRow /\ eng[i] # NoRow
    BY <1>0, <1>3 DEF EngOpen, NoRow
  <2>2. k \in DomainCallType /\ k.pc = "decide" /\ k.item = i /\ k.seen = eng[i]
    BY <2>1 DEF DomainCallType
  <2> HIDE DEF k
  <2>3. dcall' = [dcall EXCEPT ![c] = k]
    BY <1>3 DEF k
  <2>4. CallHolds(c)'
    BY <1>0, <1>3, <2>1, <2>2, <2>3 DEF CallHolds, tables
  <2> QED BY <1>3, <2>2, <2>3, <2>4, QuietDomain
<1>4. ASSUME NEW i \in Item, LeaveCancelRead(c, i) PROVE DomainInv'
  <2> DEFINE k == [pc |-> "cancel", item |-> i]
  <2>1. /\ dcall' = [dcall EXCEPT ![c] = k] /\ ops' \in 0..MaxOps
        /\ UNCHANGED <<tables, history>> /\ dom[i] # NoRow /\ dom[i].kind = "leave_request"
    BY <1>0, <1>4 DEF LeaveCancelRead, Begin
  <2>2. k \in DomainCallType /\ k.pc = "cancel" /\ k.item = i
    BY DEF DomainCallType
  <2> HIDE DEF k
  <2>3. CallHolds(c)'
    BY <1>0, <2>1, <2>2 DEF CallHolds, tables
  <2> QED BY <2>1, <2>2, <2>3, QuietDomain
<1>5. ASSUME NEW i \in Item, NEW g \in 1..MaxOps, RevokeRead(c, i, g) PROVE DomainInv'
  <2> DEFINE k == [pc |-> "revoke", item |-> i, grant |-> g]
  <2>1. /\ dcall' = [dcall EXCEPT ![c] = k] /\ ops' \in 0..MaxOps
        /\ UNCHANGED <<tables, history>> /\ g \in 1..grants[i]
    BY <1>0, <1>5 DEF RevokeRead, Begin
  <2>2. k \in DomainCallType /\ k.pc = "revoke" /\ k.item = i /\ k.grant = g
    BY DEF DomainCallType
  <2> HIDE DEF k
  <2>3. CallHolds(c)'
    BY <1>0, <2>1, <2>2 DEF CallHolds, tables
  <2> QED BY <2>1, <2>2, <2>3, QuietDomain
<1>6. ASSUME DomainCallFails(c) PROVE DomainInv'
  BY <1>0, <1>6, IdleHolds, QuietDomain DEF DomainCallFails, Ends, Goes
<1>7. ASSUME EngineLoad(c) PROVE DomainInv'
  <2>1. dcall[c].item \in Item /\ dcall[c].op \in {"approve", "reject"}
    BY <1>0, <1>7, CallFields DEF EngineLoad
  <2> QED BY <1>0, <1>3, <1>7, <2>1 DEF EngineLoad, Goes
<1>8. ASSUME NEW i \in Item, NEW op \in {"approve", "reject", "cancel", "expire"},
             InboxLoad(c, i, op)
      PROVE  DomainInv'
  <2>1. /\ eng[i].status \in EngOpen /\ UNCHANGED <<tables, history>>
        /\ dcall' = [dcall EXCEPT ![c] = [pc |-> "decide", item |-> i, op |-> op,
                                         seen |-> eng[i]]]
    BY <1>8 DEF InboxLoad, Begin
  <2>2. ops' \in 0..MaxOps
    BY <1>0, <1>8 DEF InboxLoad, Begin
  <2> QED BY <1>3, <2>1, <2>2
<1>9. ASSUME NEW i \in Item, ReviewLeave(c, i) \/ ReviewOvertime(c, i)
                               \/ ApproveAccess(c, i) \/ RejectAccess(c, i)
      PROVE  DomainInv'
  BY <1>2, <1>9 DEF ReviewLeave, ReviewOvertime, ApproveAccess, RejectAccess
<1> QED BY <1>1, <1>4, <1>5, <1>6, <1>7, <1>8, <1>9

-----------------------------------------------------------------------------
\* One call c writes its item i: x becomes the row, y the request, n the number
\* of grants and v those revoked, and the call goes on as k.
ItemWrite(c, i, k, x, y, n, v) ==
  /\ k \in DomainCallType /\ dcall' = [dcall EXCEPT ![c] = k]
  /\ ops' \in 0..MaxOps /\ UNCHANGED gone
  /\ x \in DomainRow /\ dom' = [dom EXCEPT ![i] = x]
  /\ y \in EngRow \cup {NoRow} /\ eng' = [eng EXCEPT ![i] = y]
  /\ n \in Nat /\ grants' = [grants EXCEPT ![i] = n] /\ grants[i] <= n
  /\ v \in SUBSET Nat /\ revoked' = [revoked EXCEPT ![i] = v]
  /\ stale \subseteq stale' /\ stale' \subseteq stale \cup {i}
  /\ legacy \subseteq legacy' /\ legacy' \subseteq legacy \cup {i}
  /\ withdrawn \subseteq withdrawn' /\ withdrawn' \subseteq withdrawn \cup {i}
  /\ blind \subseteq blind'
  /\ late \subseteq late' /\ late' \subseteq late \cup {i}

\* Rows are not deleted, and a request is not taken from under a submission.
RowsKept(c, i, k, x, y) ==
  /\ dom[i] # NoRow => x # NoRow /\ x.kind = dom[i].kind
  /\ eng[i] # NoRow => y # NoRow /\ y.kind = eng[i].kind /\ y.leaver = eng[i].leaver
  /\ k.pc # "created"
  /\ \A d \in DomainCall \ {c} : dcall[d].pc = "created" /\ dcall[d].item = i => y = NoRow

\* Leave that is in force was so before, on the same days.
NoNewLeave(i, x) ==
  x # NoRow /\ x.kind = "leave_request" /\ x.status \in {"pending", "approved"}
    /\ i \notin blind' \cup withdrawn' \cup stale' \cup legacy'
  => /\ dom[i] # NoRow /\ dom[i].kind = "leave_request"
     /\ dom[i].status \in {"pending", "approved"}
     /\ x.emp = dom[i].emp /\ x.from = dom[i].from /\ x.to = dom[i].to

LEMMA ItemStep ==
  ASSUME DomainInv, NEW c \in DomainCall, NEW i \in Item, NEW k, NEW x, NEW y, NEW n, NEW v,
         ItemWrite(c, i, k, x, y, n, v), RowsKept(c, i, k, x, y), NoNewLeave(i, x),
         CallHolds(c)', ItemHolds(i)'
  PROVE  DomainInv'
<1>1. /\ dcall'[c] = k /\ \A d \in DomainCall \ {c} : dcall'[d] = dcall[d]
      /\ dom'[i] = x /\ eng'[i] = y /\ grants'[i] = n /\ revoked'[i] = v
      /\ \A j \in Item \ {i} : /\ dom'[j] = dom[j] /\ eng'[j] = eng[j]
                               /\ grants'[j] = grants[j] /\ revoked'[j] = revoked[j]
  BY DEF ItemWrite, DomainInv, DomainTypes
<1>2. DomainTypes'
  BY DEF ItemWrite, DomainInv, DomainTypes
<1>3. Persists
  <2> SUFFICES ASSUME NEW j \in Item \ {i} PROVE grants[j] <= grants'[j]
    BY <1>1 DEF Persists, RowsKept, ItemWrite
  <2> QED BY <1>1 DEF ItemWrite, DomainInv, DomainTypes
<1>4. \A d \in DomainCall \ {c} : dcall[d].pc = "created" =>
        /\ eng'[dcall[d].item] = NoRow
        /\ dcall'[c].pc = "created" => dcall'[c].item # dcall[d].item
  <2> TAKE d \in DomainCall \ {c}
  <2> HAVE dcall[d].pc = "created"
  <2>1. dcall[d].item \in Item /\ eng[dcall[d].item] = NoRow
    BY CallFields DEF DomainInv, DomainTypes, CallHolds
  <2> QED BY <1>1, <2>1 DEF RowsKept
<1>5. \A d \in DomainCall : CallHolds(d)'
  BY <1>1, <1>2, <1>3, <1>4, CallsHold DEF DomainTypes
<1>6. \A j \in Item : ItemHolds(j)'
  BY <1>1, ItemsHold DEF ItemWrite
<1>7. NoDoubleBooking'
  BY <1>1, BookingsHold DEF ItemWrite, NoNewLeave
<1> QED BY <1>2, <1>5, <1>6, <1>7 DEF DomainInv

\* What is known of an item, and of the call that works on it.
LEMMA ItemTypes ==
  ASSUME DomainInv, NEW i \in Item
  PROVE  /\ dom[i] \in DomainRow /\ eng[i] \in EngRow \cup {NoRow}
         /\ grants[i] \in Nat /\ revoked[i] \in SUBSET Nat
         /\ Paired(i) /\ Told(i) /\ GrantedOnce(i) /\ EndsWithJob(i)
         /\ dom = [dom EXCEPT ![i] = dom[i]] /\ eng = [eng EXCEPT ![i] = eng[i]]
         /\ grants = [grants EXCEPT ![i] = grants[i]]
         /\ revoked = [revoked EXCEPT ![i] = revoked[i]]
BY DEF DomainInv, DomainTypes, ItemHolds

LEMMA CallItem ==
  ASSUME DomainInv, NEW c \in DomainCall
  PROVE  /\ dcall[c] \in DomainCallType /\ CallHolds(c) /\ ops \in 0..MaxOps /\ MaxOps \in Nat
         /\ \A k : dcall' = [dcall EXCEPT ![c] = k] => dcall'[c] = k
BY DomainAssumption DEF DomainInv, DomainTypes

\* createLeave, createOvertime and submit insert a row at an id nothing has.
LEMMA InsertDomain ==
  ASSUME DomainInv, NEW c \in DomainCall, NEW i \in Item, Fresh(i),
         NEW x \in DomainRow, x # NoRow, x.status = "pending", x.linked = FALSE,
         dom' = [dom EXCEPT ![i] = x], ops' \in 0..MaxOps,
         dcall' = [dcall EXCEPT ![c] = [pc |-> "created", item |-> i]],
         UNCHANGED <<eng, grants, revoked, gone, stale, legacy, withdrawn, late>>
  PROVE  /\ CallHolds(c)' /\ ItemHolds(i)' /\ DomainTypes' /\ Persists
         /\ \A d \in DomainCall : CallHolds(d)'
         /\ \A j \in Item : ItemHolds(j)'
<1> DEFINE k == [pc |-> "created", item |-> i]
<1>1. k \in DomainCallType /\ k.pc = "created" /\ k.item = i
  BY DEF DomainCallType
<1> HIDE DEF k
<1>2. dcall' = [dcall EXCEPT ![c] = k]
  BY DEF k
<1>3. /\ dcall'[c] = k /\ \A d \in DomainCall \ {c} : dcall'[d] = dcall[d]
      /\ dom'[i] = x /\ \A j \in Item \ {i} : dom'[j] = dom[j]
  BY <1>2 DEF DomainInv, DomainTypes
<1>4. DomainTypes'
  BY <1>1, <1>2 DEF DomainInv, DomainTypes
<1>5. Persists
  <2>1. \A j \in Item : grants[j] <= grants'[j]
    BY DEF DomainInv, DomainTypes
  <2> QED BY <2>1, <1>3 DEF Persists, Fresh
<1>6. \A d \in DomainCall \ {c} : dcall[d].pc = "created" =>
        /\ eng'[dcall[d].item] = NoRow
        /\ dcall'[c].pc = "created" => dcall'[c].item # dcall[d].item
  BY <1>1, <1>3 DEF Fresh, DomainInv, CallHolds
<1>7. CallHolds(c)'
  BY <1>1, <1>3, <1>6 DEF CallHolds, Fresh
<1>8. \A d \in DomainCall : CallHolds(d)'
  BY <1>3, <1>4, <1>5, <1>6, <1>7, CallsHold DEF DomainTypes
<1>9. ItemHolds(i)'
  <2>1. grants[i] = 0 /\ revoked[i] \subseteq 1..grants[i]
    BY ItemTypes DEF Fresh, Paired
  <2>2. revoked[i] = {} /\ 1..grants[i] = {}
    BY <2>1
  <2>3. Paired(i)' /\ Told(i)' /\ GrantedOnce(i)' /\ EndsWithJob(i)'
    BY <2>1, <2>2, <1>3 DEF Fresh, Paired, Told, GrantedOnce, EndsWithJob
  <2> QED BY <2>3 DEF ItemHolds
<1>10. \A j \in Item : ItemHolds(j)'
  BY <1>3, <1>9, ItemsHold
<1> QED BY <1>4, <1>5, <1>7, <1>8, <1>9, <1>10

LEMMA CreateDomain ==
  ASSUME DomainInv, NEW c \in DomainCall, NEW i \in Item,
         \/ LeaveInsert(c, i)
         \/ \E e \in Employee : OvertimeInsert(c, i, e) \/ AccessInsert(c, i, e)
  PROVE  DomainInv'
<1>0. ops \in 0..MaxOps /\ MaxOps \in Nat /\ dcall[c] \in DomainCallType
  BY CallItem
<1>1. CASE LeaveInsert(c, i)
  <2> DEFINE k == dcall[c]
             x == NewLeave(k.emp, k.from, k.to)
  <2>1. /\ k.emp \in Employee /\ k.from \in Day /\ k.to \in Day
    BY <1>0, <1>1, CallFields DEF LeaveInsert
  <2>2. /\ x \in DomainRow /\ x # NoRow /\ x.status = "pending" /\ x.linked = FALSE
        /\ x.kind = "leave_request" /\ x.emp = k.emp /\ x.from = k.from /\ x.to = k.to
    BY <2>1 DEF NewLeave, DomainRow, LeaveRow, NoRow
  <2> HIDE DEF x
  <2>3. /\ Fresh(i) /\ dom' = [dom EXCEPT ![i] = x] /\ ops' \in 0..MaxOps
        /\ dcall' = [dcall EXCEPT ![c] = [pc |-> "created", item |-> i]]
        /\ UNCHANGED <<eng, grants, revoked, gone, stale, legacy, withdrawn, late>>
        /\ blind' = IF Overlaps(k.emp, k.from, k.to) THEN blind \cup {i} ELSE blind
    BY <1>0, <1>1 DEF LeaveInsert, Goes, x
  <2>4. /\ DomainTypes' /\ \A d \in DomainCall : CallHolds(d)'
        /\ \A j \in Item : ItemHolds(j)'
    BY <2>2, <2>3, InsertDomain
  <2>5. dom'[i] = x /\ \A j \in Item \ {i} : dom'[j] = dom[j]
    BY <2>3 DEF DomainInv, DomainTypes
  <2>6. NoDoubleBooking'
    <3>1. \A j \in Item \ {i} :
            /\ dom[j] # NoRow /\ dom[j].kind = "leave_request"
            /\ dom[j].status \in {"pending", "approved"} /\ dom[j].emp = x.emp
            /\ dom[j].from <= x.to /\ x.from <= dom[j].to
            => i \in blind'
      <4> SUFFICES ASSUME NEW j \in Item \ {i}, dom[j] # NoRow,
                          dom[j].kind = "leave_request",
                          dom[j].status \in {"pending", "approved"}, dom[j].emp = x.emp,
                          dom[j].from <= x.to, x.from <= dom[j].to
                   PROVE  i \in blind'
        OBVIOUS
      <4>1. dom[j] \in LeaveRow
        BY ItemTypes, RowKinds
      <4>2. dom[j].from \in Nat /\ dom[j].to \in Nat /\ x.from \in Nat /\ x.to \in Nat
        BY <2>1, <2>2, <4>1, DomainAssumption DEF LeaveRow
      <4>3. Overlaps(k.emp, k.from, k.to)
        BY <2>2, <4>2 DEF Overlaps
      <4> QED BY <2>3, <4>3
    <3>2. blind \subseteq blind'
      BY <2>3
    <3>3. NoDoubleBooking
      BY DEF DomainInv
    <3> QED BY <2>3, <2>5, <3>1, <3>2, <3>3 DEF NoDoubleBooking
  <2> QED BY <2>4, <2>6 DEF DomainInv
<1>2. ASSUME NEW e \in Employee, NEW t \in {"overtime", "access_request"}, RowInsert(c, i, t, e)
      PROVE  DomainInv'
  <2> DEFINE x == NewRow(t, e)
  <2>1. /\ x \in DomainRow /\ x # NoRow /\ x.status = "pending" /\ x.linked = FALSE
        /\ x.kind = t
    BY DEF NewRow, DomainRow, AccessRow, OvertimeRow, NoRow
  <2> HIDE DEF x
  <2>2. /\ Fresh(i) /\ dom' = [dom EXCEPT ![i] = x] /\ ops' \in 0..MaxOps
        /\ dcall' = [dcall EXCEPT ![c] = [pc |-> "created", item |-> i]]
        /\ UNCHANGED <<eng, grants, revoked, gone, stale, legacy, withdrawn, late, blind>>
    BY <1>0, <1>2 DEF RowInsert, Begin, history, x
  <2>3. /\ DomainTypes' /\ \A d \in DomainCall : CallHolds(d)'
        /\ \A j \in Item : ItemHolds(j)'
    BY <2>1, <2>2, InsertDomain
  <2>4. dom'[i] = x /\ \A j \in Item \ {i} : dom'[j] = dom[j]
    BY <2>2 DEF DomainInv, DomainTypes
  <2>5. NoDoubleBooking'
    BY <2>1, <2>2, <2>4, BookingsHold
  <2> QED BY <2>3, <2>5 DEF DomainInv
<1> QED BY <1>1, <1>2 DEF OvertimeInsert, AccessInsert

\* The engine's transaction and the link back.
LEMMA EngineDomain ==
  ASSUME DomainInv, NEW c \in DomainCall, EngineSubmit(c) \/ Backlink(c)
  PROVE  DomainInv'
<1> PICK i \in Item : dcall[c].item = i
  BY CallItem, CallFields DEF EngineSubmit, Backlink
<1>0. /\ dcall[c] \in DomainCallType /\ CallHolds(c) /\ ops' \in 0..MaxOps
  BY CallItem DEF EngineSubmit, Backlink, Goes, Ends
<1>1. /\ dom[i] \in DomainRow /\ eng[i] \in EngRow \cup {NoRow}
      /\ grants[i] \in Nat /\ revoked[i] \in SUBSET Nat /\ grants[i] <= grants[i]
      /\ Paired(i) /\ Told(i) /\ GrantedOnce(i) /\ EndsWithJob(i)
      /\ dom = [dom EXCEPT ![i] = dom[i]] /\ eng = [eng EXCEPT ![i] = eng[i]]
      /\ grants = [grants EXCEPT ![i] = grants[i]]
      /\ revoked = [revoked EXCEPT ![i] = revoked[i]]
  BY <1>0, ItemTypes
<1>2. CASE EngineSubmit(c)
  <2> DEFINE k == [pc |-> "submitted", item |-> i]
             y == NewRequest(dom[i].kind, {})
  <2>1. /\ dom[i] # NoRow /\ eng[i] = NoRow
        /\ \A d \in DomainCall \ {c} : dcall[d].pc = "created" => dcall[d].item # i
    BY <1>0, <1>2 DEF EngineSubmit, CallHolds
  <2>2. /\ k \in DomainCallType /\ k.pc = "submitted" /\ k.item = i
    BY <1>0 DEF DomainCallType
  <2>3. /\ y \in EngRow /\ y # NoRow /\ y.status = "pending" /\ y.leaver = {}
        /\ y.kind = dom[i].kind
    BY <1>1, <2>1, RowKinds DEF NewRequest, EngRow, EngOpen, NoRow
  <2> HIDE DEF k, y
  <2>4. /\ dcall' = [dcall EXCEPT ![c] = k] /\ eng' = [eng EXCEPT ![i] = y]
        /\ UNCHANGED <<dom, grants, revoked, gone, stale, legacy, withdrawn, blind, late>>
    BY <1>2 DEF EngineSubmit, Goes, history, k, y
  <2>5. dcall'[c] = k /\ eng'[i] = y /\ dom'[i] = dom[i]
        /\ grants'[i] = grants[i] /\ revoked'[i] = revoked[i]
    BY <1>0, <2>4, CallItem DEF DomainInv, DomainTypes
  <2>6. CallHolds(c)'
    BY <2>1, <2>2, <2>3, <2>4, <2>5 DEF CallHolds
  <2>7. ItemHolds(i)'
    <3>1. Paired(i)' /\ GrantedOnce(i)' /\ EndsWithJob(i)'
      BY <1>1, <2>1, <2>3, <2>4, <2>5 DEF Paired, GrantedOnce, EndsWithJob
    <3>2. Told(i)'
      BY <1>1, <2>1, <2>3, <2>4, <2>5 DEF Told, Expected, EngOpen
    <3> QED BY <3>1, <3>2 DEF ItemHolds
  <2>8. /\ ItemWrite(c, i, k, dom[i], y, grants[i], revoked[i])
        /\ RowsKept(c, i, k, dom[i], y) /\ NoNewLeave(i, dom[i])
    BY <1>0, <1>1, <2>1, <2>2, <2>3, <2>4 DEF ItemWrite, RowsKept, NoNewLeave
  <2> QED BY <2>6, <2>7, <2>8, ItemStep
<1>3. CASE Backlink(c)
  <2> DEFINE x == [dom[i] EXCEPT !.linked = TRUE]
  <2>1. dom[i] # NoRow /\ eng[i] # NoRow
    BY <1>0, <1>3 DEF Backlink, CallHolds
  <2>2. /\ x \in DomainRow /\ x # NoRow /\ x.status = dom[i].status
        /\ x.kind = dom[i].kind /\ x.emp = dom[i].emp
        /\ x.kind = "leave_request" => x.from = dom[i].from /\ x.to = dom[i].to
    BY <1>1, <2>1, RowLinked
  <2>3. dom' = [dom EXCEPT ![i] = x]
    BY <1>0, <1>3 DEF Backlink, DomainInv, DomainTypes
  <2> HIDE DEF x
  <2>4. /\ dcall' = [dcall EXCEPT ![c] = DIdle]
        /\ UNCHANGED <<eng, grants, revoked, gone, stale, legacy, withdrawn, blind, late>>
    BY <1>3 DEF Backlink, Ends, Goes, history
  <2>5. dcall'[c] = DIdle /\ dom'[i] = x /\ eng'[i] = eng[i]
        /\ grants'[i] = grants[i] /\ revoked'[i] = revoked[i]
    BY <1>0, <2>3, <2>4, CallItem DEF DomainInv, DomainTypes
  <2>6. ItemHolds(i)'
    <3>1. Paired(i)' /\ GrantedOnce(i)' /\ EndsWithJob(i)'
      BY <1>1, <2>1, <2>2, <2>4, <2>5 DEF Paired, GrantedOnce, EndsWithJob
    <3>2. Told(i)'
      BY <1>1, <2>1, <2>2, <2>4, <2>5 DEF Told, Expected
    <3> QED BY <3>1, <3>2 DEF ItemHolds
  <2>7. \A d \in DomainCall \ {c} : dcall[d].pc = "created" => dcall[d].item # i
    BY <2>1 DEF DomainInv, CallHolds
  <2>8. DIdle \in DomainCallType /\ DIdle.pc # "created" /\ CallHolds(c)'
    BY <2>5, IdleHolds
  <2>9. /\ ItemWrite(c, i, DIdle, x, eng[i], grants[i], revoked[i])
        /\ RowsKept(c, i, DIdle, x, eng[i]) /\ NoNewLeave(i, x)
    BY <1>0, <1>1, <2>1, <2>2, <2>3, <2>4, <2>7, <2>8 DEF ItemWrite, RowsKept, NoNewLeave
  <2> QED BY <2>6, <2>8, <2>9, ItemStep
<1> QED BY <1>2, <1>3

\* Onboarding, offboarding and catalogue requests have no row of their own.
LEMMA DirectDomain ==
  ASSUME DomainInv, NEW c \in DomainCall, NEW i \in Item,
         SubmitOnboarding(c, i) \/ SubmitOffboarding(c, i) \/ SubmitCatalogRequest(c, i)
  PROVE  DomainInv'
<1>0. /\ dcall[c] \in DomainCallType /\ ops \in 0..MaxOps /\ MaxOps \in Nat
      /\ dom[i] \in DomainRow /\ grants[i] \in Nat /\ revoked[i] \in SUBSET Nat
      /\ grants[i] <= grants[i] /\ Paired(i) /\ GrantedOnce(i)
      /\ dom = [dom EXCEPT ![i] = dom[i]] /\ grants = [grants EXCEPT ![i] = grants[i]]
      /\ revoked = [revoked EXCEPT ![i] = revoked[i]]
  BY CallItem, ItemTypes
<1>1. PICK t \in {"onboarding", "offboarding", "catalog_request"}, l \in SUBSET Employee :
        SubmitDirect(c, i, t, l) /\ (t # "offboarding" => l = {})
  BY DEF SubmitOnboarding, SubmitOffboarding, SubmitCatalogRequest
<1> DEFINE y == NewRequest(t, l)
<1>2. /\ y \in EngRow /\ y # NoRow /\ y.kind = t /\ y.leaver = l /\ y.status = "pending"
      /\ ~HasDomainRow(t)
  BY DEF NewRequest, EngRow, EngOpen, NoRow, RequestType, HasDomainRow
<1> HIDE DEF y
<1>3. /\ dom[i] = NoRow /\ eng[i] = NoRow /\ dcall[c] = DIdle /\ dcall' = dcall
      /\ eng' = [eng EXCEPT ![i] = y] /\ ops' \in 0..MaxOps
      /\ UNCHANGED <<dom, grants, revoked, gone, stale, legacy, withdrawn, blind, late>>
  BY <1>0, <1>1 DEF SubmitDirect, Fresh, history, y
<1>4. /\ eng'[i] = y /\ dcall' = [dcall EXCEPT ![c] = DIdle] /\ dcall'[c] = DIdle
  BY <1>3 DEF DomainInv, DomainTypes
<1>5. DIdle \in DomainCallType /\ DIdle.pc # "created" /\ CallHolds(c)'
  BY <1>4, IdleHolds
<1>6. ItemHolds(i)'
  <2>1. Paired(i)' /\ GrantedOnce(i)' /\ EndsWithJob(i)'
    BY <1>0, <1>1, <1>2, <1>3, <1>4 DEF Paired, GrantedOnce, EndsWithJob
  <2>2. Told(i)'
    BY <1>3 DEF Told
  <2> QED BY <2>1, <2>2 DEF ItemHolds
<1>7. \A d \in DomainCall \ {c} : dcall[d].pc = "created" => dcall[d].item # i
  BY <1>3 DEF DomainInv, CallHolds
<1>8. /\ ItemWrite(c, i, DIdle, dom[i], y, grants[i], revoked[i])
      /\ RowsKept(c, i, DIdle, dom[i], y) /\ NoNewLeave(i, dom[i])
  BY <1>0, <1>2, <1>3, <1>4, <1>5, <1>7 DEF ItemWrite, RowsKept, NoNewLeave
<1> QED BY <1>5, <1>6, <1>8, ItemStep

\* A step of the chain that is not the last.
LEMMA StepDomain ==
  ASSUME DomainInv, NEW c \in DomainCall, StepDecided(c)
  PROVE  DomainInv'
<1> PICK i \in Item : dcall[c].item = i
  BY CallItem, CallFields DEF StepDecided
<1>0. /\ dcall[c] \in DomainCallType /\ CallHolds(c) /\ ops \in 0..MaxOps
      /\ dom[i] \in DomainRow /\ eng[i] \in EngRow \cup {NoRow}
      /\ grants[i] \in Nat /\ revoked[i] \in SUBSET Nat
      /\ grants[i] <= grants[i] /\ Paired(i) /\ Told(i) /\ GrantedOnce(i) /\ EndsWithJob(i)
      /\ dom = [dom EXCEPT ![i] = dom[i]] /\ grants = [grants EXCEPT ![i] = grants[i]]
      /\ revoked = [revoked EXCEPT ![i] = revoked[i]]
  BY CallItem, ItemTypes
<1>1. PICK s \in EngRow : s = dcall[c].seen
  BY <1>0, CallFields DEF StepDecided
<1>2. /\ s.step < MaxStep(s.kind) /\ s.step + 1 \in 1..3
      /\ s.status \in EngOpen /\ eng[i] \in EngRow /\ eng[i] # NoRow
  BY <1>0, <1>1 DEF StepDecided, CallHolds, MaxStep, EngRow
<1> DEFINE y == [eng[i] EXCEPT !.status = "in_review", !.step = s.step + 1]
<1>3. /\ y \in EngRow /\ y # NoRow /\ y.kind = eng[i].kind /\ y.leaver = eng[i].leaver
      /\ y.status = "in_review"
  BY <1>2 DEF EngRow, EngOpen, NoRow
<1>4. /\ dcall' = [dcall EXCEPT ![c] = DIdle] /\ eng' = [eng EXCEPT ![i] = y]
      /\ UNCHANGED <<ops, dom, grants, revoked, gone, legacy, withdrawn, blind, late>>
      /\ stale' = IF eng[i] # s THEN stale \cup {i} ELSE stale
  BY <1>1 DEF StepDecided, Ends, Goes, CommitNotes, DomainInv, DomainTypes
<1> HIDE DEF y
<1>5. dcall'[c] = DIdle /\ eng'[i] = y
  BY <1>4 DEF DomainInv, DomainTypes
<1>6. DIdle \in DomainCallType /\ DIdle.pc # "created" /\ CallHolds(c)'
  BY <1>5, IdleHolds
<1>7. ItemHolds(i)'
  <2>1. Paired(i)' /\ EndsWithJob(i)'
    BY <1>0, <1>2, <1>3, <1>4, <1>5 DEF Paired, EndsWithJob
  <2>2. i \notin stale' => i \notin stale /\ eng[i] = s
    BY <1>4
  <2>3. GrantedOnce(i)'
    BY <1>0, <1>2, <1>4, <1>5, <2>2 DEF GrantedOnce
  <2>4. Told(i)'
    BY <1>0, <1>2, <1>3, <1>4, <1>5, <2>2 DEF Told, Expected, EngOpen
  <2> QED BY <2>1, <2>3, <2>4 DEF ItemHolds
<1>8. \A d \in DomainCall \ {c} : dcall[d].pc = "created" => dcall[d].item # i
  BY <1>2 DEF DomainInv, CallHolds
<1>9. /\ ItemWrite(c, i, DIdle, dom[i], y, grants[i], revoked[i])
      /\ RowsKept(c, i, DIdle, dom[i], y) /\ NoNewLeave(i, dom[i])
  BY <1>0, <1>3, <1>4, <1>6, <1>8 DEF ItemWrite, RowsKept, NoNewLeave
<1> QED BY <1>6, <1>7, <1>9, ItemStep

\* The path past the engine.
LEMMA LegacyDomain ==
  ASSUME DomainInv, NEW c \in DomainCall, NEW t \in RowKind, NEW g \in {0, 1},
         LegacyDecided(c, t, g)
  PROVE  DomainInv'
<1> PICK i \in Item : dcall[c].item = i
  BY CallItem, CallFields DEF LegacyDecided
<1>0. /\ dcall[c] \in DomainCallType /\ CallHolds(c) /\ ops \in 0..MaxOps
      /\ dom[i] \in DomainRow /\ eng[i] \in EngRow \cup {NoRow}
      /\ grants[i] \in Nat /\ revoked[i] \in SUBSET Nat
      /\ Paired(i) /\ Told(i) /\ GrantedOnce(i) /\ EndsWithJob(i)
      /\ eng = [eng EXCEPT ![i] = eng[i]] /\ revoked = [revoked EXCEPT ![i] = revoked[i]]
  BY CallItem, ItemTypes
<1>1. dom[i] # NoRow /\ dcall[c].op \in {"approve", "reject"}
  BY <1>0, CallFields DEF LegacyDecided, CallHolds
<1>2. PICK s \in {"approved", "rejected"} : s = Outcome(dcall[c].op)
  BY <1>1 DEF Outcome
<1> DEFINE x == [dom[i] EXCEPT !.status = s]
           n == grants[i] + g
<1>3. /\ x \in DomainRow /\ x # NoRow /\ x.status = s /\ x.kind = dom[i].kind
      /\ x.emp = dom[i].emp /\ x.linked = dom[i].linked
      /\ x.kind = "leave_request" => x.from = dom[i].from /\ x.to = dom[i].to
  BY <1>0, <1>1, RowStatus
<1>4. n \in Nat /\ grants[i] <= n /\ (g = 0 => n = grants[i])
  BY <1>0
<1>5. /\ dcall' = [dcall EXCEPT ![c] = DIdle] /\ dom' = [dom EXCEPT ![i] = x]
      /\ grants' = [grants EXCEPT ![i] = n]
      /\ UNCHANGED <<ops, eng, revoked, gone, stale, withdrawn, blind>>
      /\ legacy' = legacy \cup {i}
      /\ late' = IF g > 0 /\ dom[i].emp \in gone THEN late \cup {i} ELSE late
  BY <1>2 DEF LegacyDecided, Ends, Goes, Granted, DomainInv, DomainTypes
<1> HIDE DEF x, n
<1>6. dcall'[c] = DIdle /\ dom'[i] = x /\ grants'[i] = n
  BY <1>5 DEF DomainInv, DomainTypes
<1>7. DIdle \in DomainCallType /\ DIdle.pc # "created" /\ CallHolds(c)'
  BY <1>6, IdleHolds
<1>8. ItemHolds(i)'
  <2>1. revoked[i] \subseteq 1..n
    BY <1>0, <1>4 DEF Paired
  <2>2. Paired(i)'
    BY <1>0, <1>1, <1>3, <1>5, <1>6, <2>1 DEF Paired
  <2>3. Told(i)' /\ GrantedOnce(i)'
    BY <1>5 DEF Told, GrantedOnce
  <2>4. EndsWithJob(i)'
    BY <1>0, <1>1, <1>3, <1>4, <1>5, <1>6 DEF EndsWithJob
  <2> QED BY <2>2, <2>3, <2>4 DEF ItemHolds
<1>9. /\ ItemWrite(c, i, DIdle, x, eng[i], n, revoked[i])
      /\ RowsKept(c, i, DIdle, x, eng[i]) /\ NoNewLeave(i, x)
  <2>1. \A d \in DomainCall \ {c} :
          dcall[d].pc = "created" /\ dcall[d].item = i => eng[i] = NoRow
    BY DEF DomainInv, CallHolds
  <2>2. ItemWrite(c, i, DIdle, x, eng[i], n, revoked[i])
    BY <1>0, <1>3, <1>4, <1>5, <1>7 DEF ItemWrite
  <2>3. RowsKept(c, i, DIdle, x, eng[i]) /\ NoNewLeave(i, x)
    BY <1>0, <1>1, <1>3, <1>5, <1>7, <2>1 DEF RowsKept, NoNewLeave
  <2> QED BY <2>2, <2>3
<1> QED BY <1>7, <1>8, <1>9, ItemStep

\* cancelLeave and revokeGrant.
LEMMA RetractDomain ==
  ASSUME DomainInv, NEW c \in DomainCall, LeaveCancelled(c) \/ GrantRevoked(c)
  PROVE  DomainInv'
<1> PICK i \in Item : dcall[c].item = i
  BY CallItem, CallFields DEF LeaveCancelled, GrantRevoked
<1>0. /\ dcall[c] \in DomainCallType /\ CallHolds(c) /\ ops \in 0..MaxOps
      /\ dom[i] \in DomainRow /\ eng[i] \in EngRow \cup {NoRow}
      /\ grants[i] \in Nat /\ revoked[i] \in SUBSET Nat /\ grants[i] <= grants[i]
      /\ Paired(i) /\ Told(i) /\ GrantedOnce(i) /\ EndsWithJob(i)
      /\ eng = [eng EXCEPT ![i] = eng[i]] /\ revoked = [revoked EXCEPT ![i] = revoked[i]]
      /\ dom = [dom EXCEPT ![i] = dom[i]] /\ grants = [grants EXCEPT ![i] = grants[i]]
  BY CallItem, ItemTypes
<1>1. \A d \in DomainCall \ {c} : dcall[d].pc = "created" /\ dcall[d].item = i => eng[i] = NoRow
  BY DEF DomainInv, CallHolds
<1>2. CASE LeaveCancelled(c)
  <2>1. dom[i] # NoRow /\ dom[i].kind = "leave_request"
    BY <1>0, <1>2 DEF LeaveCancelled, CallHolds
  <2> DEFINE x == [dom[i] EXCEPT !.status = "cancelled"]
  <2>2. /\ x \in DomainRow /\ x # NoRow /\ x.status = "cancelled" /\ x.kind = dom[i].kind
        /\ x.emp = dom[i].emp /\ x.linked = dom[i].linked
    BY <1>0, <2>1, RowStatus
  <2>3. /\ dcall' = [dcall EXCEPT ![c] = DIdle] /\ dom' = [dom EXCEPT ![i] = x]
        /\ UNCHANGED <<ops, eng, grants, revoked, gone, stale, legacy, blind, late>>
        /\ withdrawn' = withdrawn \cup {i}
    BY <1>2 DEF LeaveCancelled, Ends, Goes, DomainInv, DomainTypes
  <2> HIDE DEF x
  <2>4. dcall'[c] = DIdle /\ dom'[i] = x
    BY <2>3 DEF DomainInv, DomainTypes
  <2>5. DIdle \in DomainCallType /\ DIdle.pc # "created" /\ CallHolds(c)'
    BY <2>4, IdleHolds
  <2>6. ItemHolds(i)'
    <3>1. Paired(i)' /\ GrantedOnce(i)' /\ EndsWithJob(i)'
      BY <1>0, <2>1, <2>2, <2>3, <2>4 DEF Paired, GrantedOnce, EndsWithJob
    <3>2. Told(i)'
      BY <2>3 DEF Told
    <3> QED BY <3>1, <3>2 DEF ItemHolds
  <2>7. ItemWrite(c, i, DIdle, x, eng[i], grants[i], revoked[i])
    BY <1>0, <2>2, <2>3, <2>5 DEF ItemWrite
  <2>8. RowsKept(c, i, DIdle, x, eng[i]) /\ NoNewLeave(i, x)
    BY <1>0, <1>1, <2>1, <2>2, <2>5 DEF RowsKept, NoNewLeave
  <2> QED BY <2>5, <2>6, <2>7, <2>8, ItemStep
<1>3. CASE GrantRevoked(c)
  <2> DEFINE v == revoked[i] \cup {dcall[c].grant}
  <2>1. v \in SUBSET Nat /\ v \subseteq 1..grants[i] /\ revoked[i] \subseteq v
    BY <1>0, <1>3 DEF GrantRevoked, CallHolds, Paired
  <2>2. /\ dcall' = [dcall EXCEPT ![c] = DIdle] /\ revoked' = [revoked EXCEPT ![i] = v]
        /\ UNCHANGED <<ops, dom, eng, grants, gone, stale, legacy, withdrawn, blind, late>>
    BY <1>3 DEF GrantRevoked, Ends, Goes, history, DomainInv, DomainTypes
  <2> HIDE DEF v
  <2>3. dcall'[c] = DIdle /\ revoked'[i] = v
    BY <2>2 DEF DomainInv, DomainTypes
  <2>4. DIdle \in DomainCallType /\ DIdle.pc # "created" /\ CallHolds(c)'
    BY <2>3, IdleHolds
  <2>5. ItemHolds(i)'
    <3>1. Paired(i)' /\ GrantedOnce(i)'
      BY <1>0, <2>1, <2>2, <2>3 DEF Paired, GrantedOnce
    <3>2. Told(i)'
      BY <1>0, <2>2 DEF Told, Expected
    <3>3. EndsWithJob(i)'
      BY <1>0, <2>1, <2>2, <2>3 DEF EndsWithJob
    <3> QED BY <3>1, <3>2, <3>3 DEF ItemHolds
  <2>6. ItemWrite(c, i, DIdle, dom[i], eng[i], grants[i], v)
    BY <1>0, <2>1, <2>2, <2>4 DEF ItemWrite
  <2>7. RowsKept(c, i, DIdle, dom[i], eng[i]) /\ NoNewLeave(i, dom[i])
    BY <1>0, <1>1, <2>4 DEF RowsKept, NoNewLeave
  <2> QED BY <2>4, <2>5, <2>6, <2>7, ItemStep
<1> QED BY <1>2, <1>3

\* The last decision: the hook writes the row and the grant with the request,
\* and an offboarding revokes the grants of its employee on every row.
LEMMA DecideDomain ==
  ASSUME DomainInv, NEW c \in DomainCall, RequestDecided(c)
  PROVE  DomainInv'
<1> PICK i \in Item : dcall[c].item = i
  BY CallItem, CallFields DEF RequestDecided
<1>0. /\ dcall[c] \in DomainCallType /\ CallHolds(c) /\ ops \in 0..MaxOps
      /\ dom[i] \in DomainRow /\ eng[i] \in EngRow \cup {NoRow}
      /\ grants[i] \in Nat /\ revoked[i] \in SUBSET Nat
      /\ Paired(i) /\ Told(i) /\ GrantedOnce(i) /\ EndsWithJob(i)
  BY CallItem, ItemTypes
<1>1. PICK s \in EngRow, op \in {"approve", "reject", "cancel", "expire"} :
        s = dcall[c].seen /\ op = dcall[c].op
  BY <1>0, CallFields DEF RequestDecided
<1> PICK t \in RequestType, l \in SUBSET Employee : t = s.kind /\ l = s.leaver
  BY DEF EngRow
<1>2. /\ s.status \in EngOpen /\ eng[i] \in EngRow /\ eng[i] # NoRow
      /\ eng[i].kind = t /\ eng[i].leaver = l
  BY <1>0, <1>1 DEF RequestDecided, CallHolds
<1>3. /\ HasDomainRow(t) => dom[i] # NoRow
      /\ dom[i] # NoRow => dom[i].kind = t /\ HasDomainRow(t)
      /\ t # "offboarding" => l = {}
  BY <1>0, <1>2, RowKinds DEF Paired
<1> DEFINE y == [eng[i] EXCEPT !.status = Outcome(op)]
           h == HookStatus(t, op, dom[i].status)
           x == IF HasDomainRow(t) THEN [dom[i] EXCEPT !.status = h] ELSE dom[i]
           n == grants[i] + (IF op = "approve" THEN GrantsOnApprove(t) ELSE 0)
           L == IF op = "approve" THEN l ELSE {}
<1>4. /\ dcall' = [dcall EXCEPT ![c] = DIdle] /\ eng' = [eng EXCEPT ![i] = y]
      /\ grants' = [grants EXCEPT ![i] = n] /\ revoked' = RevokedWith(L)
      /\ gone' = gone \cup L /\ UNCHANGED <<ops, legacy, withdrawn, blind>>
      /\ stale' = IF eng[i] # s THEN stale \cup {i} ELSE stale
  BY <1>1 DEF RequestDecided, Ends, Goes, Granted, CommitNotes, DomainInv, DomainTypes
<1>5. dom' = [dom EXCEPT ![i] = x]
  BY <1>1 DEF RequestDecided, DomainInv, DomainTypes
<1>6. late' = IF n > grants[i] /\ dom[i].emp \in gone THEN late \cup {i} ELSE late
  BY <1>0, <1>1 DEF RequestDecided, Granted, GrantsOnApprove
<1>7. /\ y \in EngRow /\ y # NoRow /\ y.kind = t /\ y.leaver = l
      /\ y.status = Outcome(op) /\ y.status \notin EngOpen
  BY <1>2 DEF EngRow, EngOpen, NoRow, Outcome
<1>8. HasDomainRow(t) =>
        /\ op \in {"approve", "reject"} => h = Outcome(op)
        /\ op = "expire" => h = OnExpireDomain(t, "pending")
        /\ op = "cancel" => h = dom[i].status
  <2> HAVE HasDomainRow(t)
  <2>1. OnExpireDomain(t, dom[i].status) = OnExpireDomain(t, "pending")
    BY DEF OnExpireDomain
  <2>2. CASE op = "approve"
    BY <2>2 DEF HookStatus, Outcome, OnApproveDomain
  <2>3. CASE op = "reject"
    BY <2>3 DEF HookStatus, Outcome, OnRejectDomain
  <2>4. CASE op = "cancel"
    BY <2>4 DEF HookStatus, OnCancelDomain
  <2>5. CASE op = "expire"
    BY <2>1, <2>5 DEF HookStatus
  <2> QED BY <2>2, <2>3, <2>4, <2>5
<1>9. /\ x \in DomainRow /\ (x = NoRow <=> dom[i] = NoRow)
      /\ dom[i] # NoRow => /\ x.status = h /\ x.kind = dom[i].kind /\ x.emp = dom[i].emp
                           /\ x.linked = dom[i].linked
                           /\ x.kind = "leave_request" => /\ x.from = dom[i].from
                                                          /\ x.to = dom[i].to
  <2>1. CASE ~HasDomainRow(t)
    BY <1>0, <1>3, <2>1
  <2>2. CASE HasDomainRow(t)
    <3>1. dom[i] # NoRow /\ dom[i].kind = t
      BY <1>3, <2>2
    <3>2. /\ \/ h \in {"pending", "approved", "rejected", dom[i].status}
             \/ t = "leave_request" /\ h = "cancelled"
             \/ t = "access_request" /\ h = "expired"
          /\ t = "overtime" => h # "cancelled" \/ h = dom[i].status
      BY <1>8, <2>2 DEF Outcome, OnExpireDomain, HasDomainRow
    <3> HIDE DEF h
    <3> QED BY <1>0, <2>2, <3>1, <3>2, RowStatus
  <2> QED BY <2>1, <2>2
<1>10. /\ n \in Nat /\ grants[i] <= n /\ n <= grants[i] + 1
       /\ n > grants[i] => dom[i] # NoRow
       /\ L \in SUBSET Employee /\ (dom[i] # NoRow => L = {})
  BY <1>0, <1>3 DEF GrantsOnApprove, HasDomainRow
<1> HIDE DEF x, y, h, n, L
<1>11. /\ dcall'[c] = DIdle /\ \A d \in DomainCall \ {c} : dcall'[d] = dcall[d]
       /\ dom'[i] = x /\ eng'[i] = y /\ grants'[i] = n
       /\ \A j \in Item \ {i} : /\ dom'[j] = dom[j] /\ eng'[j] = eng[j]
                                /\ grants'[j] = grants[j]
  BY <1>4, <1>5 DEF DomainInv, DomainTypes
<1>12. \A j \in Item :
         revoked'[j] = IF grants[j] > 0 /\ dom[j].emp \in L THEN 1..grants[j] ELSE revoked[j]
  BY <1>4 DEF RevokedWith
<1>13. DomainTypes'
  <2>1. revoked' \in [Item -> SUBSET Nat]
    BY <1>4, <1>12 DEF RevokedWith, DomainInv, DomainTypes
  <2> QED BY <1>4, <1>5, <1>7, <1>9, <1>10, <2>1, IdleHolds DEF DomainInv, DomainTypes
<1>14. Persists
  <2>1. \A j \in Item : grants[j] <= grants'[j]
    BY <1>10, <1>11 DEF DomainInv, DomainTypes
  <2> QED BY <1>2, <1>7, <1>9, <1>11, <2>1 DEF Persists
<1>15. \A d \in DomainCall : CallHolds(d)'
  <2>1. DIdle.pc # "created" /\ CallHolds(c)'
    BY <1>11, IdleHolds
  <2>2. \A d \in DomainCall \ {c} : dcall[d].pc = "created" => eng'[dcall[d].item] = NoRow
    <3> TAKE d \in DomainCall \ {c}
    <3> HAVE dcall[d].pc = "created"
    <3>1. dcall[d].item \in Item /\ eng[dcall[d].item] = NoRow
      BY CallFields DEF DomainInv, DomainTypes, CallHolds
    <3> QED BY <1>2, <1>11, <3>1
  <2> QED BY <1>11, <1>13, <1>14, <2>1, <2>2, CallsHold DEF DomainTypes
<1>16. i \notin stale' => i \notin stale /\ eng[i] = s
  BY <1>4
<1>17. dom[i] # NoRow /\ i \notin stale' \cup legacy' \cup withdrawn' => dom[i].status = "pending"
  BY <1>0, <1>2, <1>4, <1>16 DEF Told, Expected
<1>18. ItemHolds(i)'
  <2>1. revoked'[i] \subseteq 1..n
    BY <1>0, <1>10, <1>12 DEF Paired
  <2>2. dom[i] = NoRow => n = 0
    BY <1>0, <1>10 DEF Paired
  <2>3. Paired(i)'
    BY <1>0, <1>2, <1>3, <1>7, <1>9, <1>11, <2>1, <2>2 DEF Paired
  <2>4. Told(i)'
    <3> SUFFICES ASSUME dom[i] # NoRow, i \notin stale' \cup legacy' \cup withdrawn'
                 PROVE  h = Expected(i)'
      BY <1>7, <1>9, <1>11 DEF Told
    <3>1. dom[i].status = "pending" /\ HasDomainRow(t)
      BY <1>3, <1>17
    <3> QED BY <1>7, <1>8, <1>11, <3>1 DEF Expected, Outcome, EngOpen
  <2>5. GrantedOnce(i)'
    <3> SUFFICES ASSUME i \notin stale' \cup legacy' PROVE n <= 1
      BY <1>7, <1>11 DEF GrantedOnce
    <3>1. grants[i] = 0
      BY <1>0, <1>2, <1>4, <1>16 DEF GrantedOnce
    <3> QED BY <1>10, <3>1
  <2>6. EndsWithJob(i)'
    <3> SUFFICES ASSUME dom[i] # NoRow, dom[i].emp \in gone, i \notin late'
                 PROVE  revoked'[i] = 1..n
      BY <1>4, <1>9, <1>10, <1>11 DEF EndsWithJob
    <3>1. L = {} /\ ~(n > grants[i]) /\ i \notin late
      BY <1>6, <1>10
    <3>2. n = grants[i] /\ revoked'[i] = revoked[i]
      BY <1>0, <1>10, <1>12, <3>1
    <3> QED BY <1>0, <3>1, <3>2 DEF EndsWithJob
  <2> QED BY <2>3, <2>4, <2>5, <2>6 DEF ItemHolds
<1>19. ASSUME NEW j \in Item \ {i} PROVE ItemHolds(j)'
  <2>1. /\ dom[j] \in DomainRow /\ grants[j] \in Nat
        /\ Paired(j) /\ Told(j) /\ GrantedOnce(j) /\ EndsWithJob(j)
    BY ItemTypes
  <2>2. /\ j \in stale' <=> j \in stale
        /\ j \in legacy' <=> j \in legacy
        /\ j \in withdrawn' <=> j \in withdrawn
        /\ j \in late' <=> j \in late
    BY <1>4, <1>6
  <2>3. revoked'[j] \subseteq 1..grants[j]
    BY <1>12, <2>1 DEF Paired
  <2>4. Paired(j)' /\ GrantedOnce(j)'
    BY <1>11, <2>1, <2>2, <2>3 DEF Paired, GrantedOnce
  <2>5. Told(j)'
    BY <1>11, <2>1, <2>2 DEF Told, Expected
  <2>6. EndsWithJob(j)'
    <3> SUFFICES ASSUME dom[j] # NoRow, dom[j].emp \in gone \cup L, j \notin late
                 PROVE  revoked'[j] = 1..grants[j]
      BY <1>4, <1>11, <2>2 DEF EndsWithJob
    <3>1. CASE grants[j] > 0 /\ dom[j].emp \in L
      BY <1>12, <3>1
    <3>2. CASE ~(grants[j] > 0) /\ dom[j].emp \in L
      <4>1. grants[j] = 0 /\ revoked'[j] = revoked[j]
        BY <1>12, <2>1, <3>2
      <4>2. 1..grants[j] = {} /\ revoked[j] \subseteq 1..grants[j]
        BY <2>1, <4>1 DEF Paired
      <4> QED BY <4>1, <4>2
    <3>3. CASE dom[j].emp \notin L
      BY <1>12, <2>1, <3>3 DEF EndsWithJob
    <3> QED BY <3>1, <3>2, <3>3
  <2> QED BY <2>4, <2>5, <2>6 DEF ItemHolds
<1>20. NoDoubleBooking'
  <2>1. dom'[i] # NoRow /\ i \notin blind' \cup withdrawn' \cup stale' \cup legacy'
        => dom[i] # NoRow /\ dom[i].status = "pending"
    BY <1>9, <1>11, <1>17
  <2>2. /\ blind \subseteq blind' /\ withdrawn \subseteq withdrawn'
        /\ stale \subseteq stale' /\ legacy \subseteq legacy'
    BY <1>4
  <2>3. \A j \in Item :
          dom'[j] # NoRow /\ dom'[j].kind = "leave_request"
            /\ dom'[j].status \in {"pending", "approved"}
            /\ j \notin blind' \cup withdrawn' \cup stale' \cup legacy'
          => /\ dom[j] # NoRow /\ dom[j].kind = "leave_request"
             /\ dom[j].status \in {"pending", "approved"}
             /\ dom'[j].emp = dom[j].emp
             /\ dom'[j].from = dom[j].from /\ dom'[j].to = dom[j].to
    BY <1>9, <1>11, <2>1
  <2> QED BY <2>2, <2>3, BookingsHold
<1> QED BY <1>13, <1>15, <1>18, <1>19, <1>20 DEF DomainInv

LEMMA NextDomain == DomainInv /\ [DomainNext]_domVars => DomainInv'
<1> SUFFICES ASSUME DomainInv, [DomainNext]_domVars PROVE DomainInv'
  OBVIOUS
<1>1. CASE UNCHANGED domVars
  <2>1. /\ UNCHANGED <<dom, eng, grants, revoked, gone, dcall, ops>>
        /\ UNCHANGED <<stale, legacy, withdrawn, blind, late>>
    BY <1>1 DEF domVars, tables, history
  <2>2. DomainTypes'
    BY <2>1 DEF DomainInv, DomainTypes
  <2>3. \A c \in DomainCall : CallHolds(c)'
    BY <2>1 DEF DomainInv, CallHolds
  <2>4. \A i \in Item : ItemHolds(i)'
    BY <2>1 DEF DomainInv, ItemHolds, Paired, Told, Expected, GrantedOnce, EndsWithJob
  <2>5. NoDoubleBooking'
    BY <2>1, BookingsHold
  <2> QED BY <2>2, <2>3, <2>4, <2>5 DEF DomainInv
<1>2. ASSUME NEW c \in DomainCall, Submissions(c) PROVE DomainInv'
  BY <1>2, ReadDomain, CreateDomain, DirectDomain, EngineDomain DEF Submissions
<1>3. ASSUME NEW c \in DomainCall, Reviews(c) PROVE DomainInv'
  <2>1. {"leave_request", "overtime", "access_request"} \subseteq RowKind
    BY DEF RowKind, RequestType, HasDomainRow
  <2>2. ASSUME SetLeaveStatus(c) \/ SetOvertimeStatus(c) \/ AccessApproved(c) \/ AccessRejected(c)
        PROVE  DomainInv'
    BY <2>1, <2>2, LegacyDomain
       DEF SetLeaveStatus, SetOvertimeStatus, AccessApproved, AccessRejected
  <2> QED BY <1>3, <2>2, ReadDomain DEF Reviews
<1>4. ASSUME NEW c \in DomainCall, Inbox(c) PROVE DomainInv'
  BY <1>4, ReadDomain, StepDomain, DecideDomain DEF Inbox
<1>5. ASSUME NEW c \in DomainCall, Retractions(c) PROVE DomainInv'
  BY <1>5, ReadDomain, RetractDomain DEF Retractions
<1>6. ASSUME NEW c \in DomainCall, DomainCallFails(c) PROVE DomainInv'
  BY <1>6, ReadDomain
<1> QED BY <1>1, <1>2, <1>3, <1>4, <1>5, <1>6 DEF DomainNext

\* For any number of rows, employees, days and requests in flight: rows keep
\* their shape, and the domain row tells what became of its request but for a
\* stale commit, a decision past the engine, or leave taken back
\* (the hooks of the type definitions, called by RequestEngineService).
THEOREM RowsConsistentAlways == DomainSpec => []RowsConsistent
<1>1. DomainInv => RowsConsistent
  <2> SUFFICES ASSUME DomainInv PROVE RowsConsistent
    OBVIOUS
  <2>1. DomainTypeOK
    <3>1. \A i \in Item :
            /\ grants[i] \in Nat /\ revoked[i] \subseteq 1..grants[i]
            /\ eng[i] # NoRow /\ HasDomainRow(eng[i].kind) => dom[i] # NoRow
            /\ dom[i] # NoRow /\ dom[i].linked => eng[i] # NoRow
      BY ItemTypes DEF Paired
    <3> QED BY <3>1 DEF DomainTypeOK, DomainInv, DomainTypes, DomainRow
  <2>2. RowFollowsRequest
    BY ItemTypes DEF RowFollowsRequest, Paired, Told
  <2> QED BY <2>1, <2>2 DEF RowsConsistent
<1> QED BY <1>1, DomainStart, NextDomain, PTL DEF DomainSpec

\* Whatever requests are in flight, two leaves of one employee share a day only
\* behind an outdated overlap check or a second decision (createLeave's check
\* and insert are two statements, workforce.service.ts).
THEOREM NoDoubleBookingAlways == DomainSpec => []NoDoubleBooking
<1>1. DomainInv => NoDoubleBooking
  BY DEF DomainInv
<1> QED BY <1>1, DomainStart, NextDomain, PTL DEF DomainSpec

\* However decisions, revocations and resubmissions interleave, access is granted
\* once and ends with a revocation or with its holder's employment
\* (access-request.type-def.ts, offboarding.type-def.ts).
THEOREM GrantsEndAlways == DomainSpec => []GrantsEnd
<1>1. DomainInv => GrantsEnd
  <2> SUFFICES ASSUME DomainInv PROVE GrantsEnd
    OBVIOUS
  <2>1. OneGrant
    <3> SUFFICES ASSUME NEW i \in Item, grants[i] > 1, i \notin stale \cup legacy
                 PROVE  FALSE
      BY DEF OneGrant
    <3>1. grants[i] \in Nat /\ GrantedOnce(i)
      BY ItemTypes
    <3> QED BY <3>1 DEF GrantedOnce
  <2>2. OffboardedLosesGrants
    <3> SUFFICES ASSUME NEW i \in Item, grants[i] > Cardinality(revoked[i]),
                        dom[i].emp \in gone, i \notin late
                 PROVE  FALSE
      BY DEF OffboardedLosesGrants
    <3>1. grants[i] \in Nat /\ Paired(i) /\ EndsWithJob(i)
      BY ItemTypes
    <3>2. CASE dom[i] = NoRow
      <4>1. grants[i] = 0 /\ revoked[i] = {}
        BY <3>1, <3>2 DEF Paired
      <4> QED BY <4>1, FS_EmptySet
    <3>3. CASE dom[i] # NoRow
      <4>1. revoked[i] = 1..grants[i]
        BY <3>1, <3>3 DEF EndsWithJob
      <4>2. Cardinality(1..grants[i]) = grants[i]
        BY <3>1, FS_Interval
      <4> QED BY <3>1, <4>1, <4>2
    <3> QED BY <3>2, <3>3
  <2> QED BY <2>1, <2>2 DEF GrantsEnd
<1> QED BY <1>1, DomainStart, NextDomain, PTL DEF DomainSpec

\* What is never taken back: the excuses, the rows, and the outcome of a request,
\* which only a commit on a stale read may replace.
OutcomesKept ==
  /\ stale \subseteq stale' /\ legacy \subseteq legacy' /\ withdrawn \subseteq withdrawn'
  /\ \A i \in Item :
       eng[i] # NoRow /\ eng[i].status \notin EngOpen /\ i \notin stale' => eng'[i] = eng[i]

LEMMA KeepOutcomes == DomainInv /\ [DomainNext]_domVars => OutcomesKept
<1> SUFFICES ASSUME DomainInv, [DomainNext]_domVars PROVE OutcomesKept
  OBVIOUS
<1>1. CASE UNCHANGED eng /\ UNCHANGED <<stale, legacy, withdrawn>>
  BY <1>1 DEF OutcomesKept
<1>2. ASSUME NEW c \in DomainCall, EngineSubmit(c) PROVE OutcomesKept
  <2>1. dcall[c].item \in Item /\ eng[dcall[c].item] = NoRow
    BY <1>2, CallItem, CallFields DEF EngineSubmit, CallHolds
  <2> QED BY <1>2, <2>1 DEF EngineSubmit, history, OutcomesKept, DomainInv, DomainTypes
<1>3. ASSUME NEW c \in DomainCall, NEW i \in Item, NEW t, NEW l, SubmitDirect(c, i, t, l)
      PROVE  OutcomesKept
  BY <1>3 DEF SubmitDirect, Fresh, history, OutcomesKept, DomainInv, DomainTypes
<1>4. ASSUME NEW c \in DomainCall, StepDecided(c) \/ RequestDecided(c)
      PROVE  OutcomesKept
  <2>1. /\ dcall[c].item \in Item /\ dcall[c].seen.status \in EngOpen
        /\ stale' = IF eng[dcall[c].item] # dcall[c].seen
                      THEN stale \cup {dcall[c].item} ELSE stale
        /\ UNCHANGED <<legacy, withdrawn>>
        /\ \A j \in Item \ {dcall[c].item} : eng'[j] = eng[j]
    BY <1>4, CallItem, CallFields
       DEF StepDecided, RequestDecided, CommitNotes, CallHolds, DomainInv, DomainTypes
  <2> QED BY <2>1 DEF OutcomesKept
<1>5. ASSUME NEW c \in DomainCall, NEW t, NEW g, LegacyDecided(c, t, g) PROVE OutcomesKept
  BY <1>5 DEF LegacyDecided, OutcomesKept
<1>6. ASSUME NEW c \in DomainCall, LeaveCancelled(c) PROVE OutcomesKept
  BY <1>6 DEF LeaveCancelled, OutcomesKept
<1>7. ASSUME NEW c \in DomainCall, Submissions(c) PROVE OutcomesKept
  BY <1>1, <1>2, <1>3, <1>7
     DEF Submissions, LeaveCheck, LeaveInsert, OvertimeInsert, AccessInsert, RowInsert,
         SubmitOnboarding, SubmitOffboarding, SubmitCatalogRequest, Backlink,
         tables, history
<1>8. ASSUME NEW c \in DomainCall, Reviews(c) PROVE OutcomesKept
  BY <1>1, <1>5, <1>8
     DEF Reviews, ReviewLeave, ReviewOvertime, ApproveAccess, RejectAccess, ReviewRead,
         EngineLoad, SetLeaveStatus, SetOvertimeStatus, AccessApproved, AccessRejected,
         tables, history
<1>9. ASSUME NEW c \in DomainCall, Inbox(c) \/ Retractions(c) \/ DomainCallFails(c)
      PROVE  OutcomesKept
  BY <1>1, <1>4, <1>6, <1>9
     DEF Inbox, InboxLoad, Retractions, LeaveCancelRead, RevokeRead, GrantRevoked,
         DomainCallFails, tables, history
<1> QED BY <1>1, <1>7, <1>8, <1>9 DEF DomainNext, domVars, tables, history

\* What was decided about a domain row stays decided, whichever door later calls
\* come through, for any number of calls (request-engine.service.ts and the
\* services in front of it).
THEOREM DecisionStandsAlways == DomainSpec => DecisionStands
<1> DEFINE Stands ==
             \A i \in Item :
               dom[i].status \notin {"none", "pending"} /\ dom'[i].status # dom[i].status =>
                 i \in stale' \cup legacy' \cup withdrawn'
<1>1. DomainInv /\ DomainInv' /\ [DomainNext]_domVars => Stands
  <2> SUFFICES ASSUME DomainInv, DomainInv', [DomainNext]_domVars, NEW i \in Item,
                      dom[i].status \notin {"none", "pending"},
                      i \notin stale' \cup legacy' \cup withdrawn'
               PROVE  dom'[i].status = dom[i].status
    OBVIOUS
  <2>1. OutcomesKept
    BY KeepOutcomes
  <2>2. /\ dom[i] \in DomainRow /\ Told(i) /\ Paired(i) /\ dom[i] # NoRow
        /\ i \notin stale \cup legacy \cup withdrawn
    BY <2>1, ItemTypes, RowKinds DEF OutcomesKept
  <2>3. eng[i] # NoRow /\ eng[i].status \notin EngOpen /\ dom[i].status = Expected(i)
    BY <2>2 DEF Told, Expected
  <2>4. eng'[i] = eng[i]
    BY <2>1, <2>3 DEF OutcomesKept
  <2>5. Told(i)' /\ Paired(i)'
    BY DEF DomainInv, ItemHolds
  <2>6. HasDomainRow(eng[i].kind)
    BY <2>2, <2>3, RowKinds DEF Paired
  <2>7. dom'[i] # NoRow
    BY <2>3, <2>4, <2>5, <2>6 DEF Paired
  <2>8. dom'[i].status = Expected(i)'
    BY <2>3, <2>4, <2>5, <2>7 DEF Told
  <2> QED BY <2>3, <2>4, <2>8 DEF Expected
<1>2. DomainInv /\ DomainInv' /\ [DomainNext]_domVars => [Stands]_domVars
  BY <1>1
<1> QED BY <1>2, DomainStart, NextDomain, PTL DEF DomainSpec, DecisionStands

-----------------------------------------------------------------------------
(* Uploads (FileStore).                                                    *)

\* How far confirmations have got, and with which file.
Confirming ==
  {<<confirm[c].file, confirm[c].pc>> : c \in {d \in ConfirmCall : confirm[d] # NotBegun}}

\* Somebody saw the object and liked it, or saw it and did not.
Accepted(f) ==
  file[f].status = "completed" \/ \E pc \in {"complete", "replace", "link"} : <<f, pc>> \in Confirming

Discarded(f) == <<f, "discard">> \in Confirming

\* While a file is uploaded once, all that saw its object agree about it, and an
\* object that is gone does not come back: its URL has expired.
SeenAlike(f) ==
  f \notin rewritten =>
    /\ Accepted(f) => object[f] # "wrong" /\ (object[f] = "none" => file[f].age # "fresh")
    /\ Discarded(f) => object[f] # "right" /\ (object[f] = "none" => file[f].age # "fresh")
    /\ ~(Accepted(f) /\ Discarded(f))

\* A file that is linked, or about to be, is completed.
LinkKnown(f) ==
  f \notin rewritten /\ ((\E x \in Entity : link[x] = f) \/ \E pc \in {"replace", "link"} : <<f, pc>> \in Confirming)
  => file[f].status = "completed"

\* A file completed in time is out of reach of every sweep, begun or to come.
EarlyKnown(f) ==
  /\ f \in keptEarly => /\ file[f].status \in {"completed", "deleted"} /\ object[f] # "none"
                        /\ \A w \in Sweeper : f \notin sweep[w].rows
  /\ <<f, "complete">> \in Confirming /\ file[f].age # "old" => object[f] # "none"

\* A sweep takes old files, and has deleted their objects or given up on them.
SweptKnown(f) ==
  /\ \A w \in Sweeper : /\ f \in sweep[w].rows => file[f].age = "old"
                        /\ f \in sweep[w].gone => /\ file[f].age = "old"
                                                  /\ object[f] = "none" \/ f \in stuck
  /\ file[f].status = "deleted" /\ f \notin stuck => object[f] = "none" /\ file[f].age # "fresh"

FileHolds(f) == SeenAlike(f) /\ LinkKnown(f) /\ EarlyKnown(f) /\ SweptKnown(f)

FilesInv == FilesTypeOK /\ \A f \in File : FileHolds(f)

LEMMA FilesStart == FilesInit => FilesInv
<1> SUFFICES ASSUME FilesInit PROVE FilesInv
  OBVIOUS
<1>1. FilesTypeOK
  BY FileAssumption DEF FilesInit, FilesTypeOK, FileRow, Age, ConfirmType, NotBegun
<1>2. Confirming = {}
  BY DEF FilesInit, Confirming
<1>3. \A f \in File : ~Accepted(f) /\ ~Discarded(f)
  BY <1>2 DEF Accepted, Discarded, FilesInit
<1>4. \A f \in File : LinkKnown(f)
  BY <1>2, FileAssumption DEF LinkKnown, FilesInit
<1>5. \A f \in File : EarlyKnown(f) /\ SweptKnown(f)
  BY <1>2 DEF EarlyKnown, SweptKnown, FilesInit
<1> QED BY <1>1, <1>3, <1>4, <1>5 DEF FilesInv, FileHolds, SeenAlike

\* The steps of a confirmation: it goes on, ends, or begins.
LEMMA ConfirmGoes ==
  ASSUME FilesTypeOK, NEW c \in ConfirmCall, NEW f \in File, confirm[c].pc # "idle",
         confirm[c].file = f,
         NEW p \in {"file", "head", "complete", "discard", "replace", "link"}, Step(c, p)
  PROVE  /\ confirm' \in [ConfirmCall -> ConfirmType]
         /\ Confirming' \subseteq Confirming \cup {<<f, p>>}
<1>1. /\ confirm[c] \in ConfirmType \ {NotBegun}
      /\ confirm' = [confirm EXCEPT ![c] = [confirm[c] EXCEPT !.pc = p]]
  BY DEF FilesTypeOK, Step, NotBegun
<1> DEFINE k == [confirm[c] EXCEPT !.pc = p]
<1>2. k \in ConfirmType /\ k.pc = p /\ k.file = f
  BY <1>1 DEF ConfirmType, NotBegun
<1> HIDE DEF k
<1>3. /\ confirm' \in [ConfirmCall -> ConfirmType] /\ confirm'[c] = k
      /\ \A d \in ConfirmCall \ {c} : confirm'[d] = confirm[d]
  BY <1>1, <1>2 DEF FilesTypeOK, k
<1> QED BY <1>2, <1>3 DEF Confirming

LEMMA ConfirmLeaves ==
  ASSUME FilesTypeOK, NEW c \in ConfirmCall, Leave(c)
  PROVE  /\ confirm' \in [ConfirmCall -> ConfirmType]
         /\ Confirming' \subseteq Confirming
<1>1. /\ confirm' \in [ConfirmCall -> ConfirmType] /\ confirm'[c] = NotBegun
      /\ \A d \in ConfirmCall \ {c} : confirm'[d] = confirm[d]
  BY DEF FilesTypeOK, Leave, ConfirmType
<1> QED BY <1>1 DEF Confirming

LEMMA ConfirmFiles ==
  ASSUME FilesTypeOK, NEW c \in ConfirmCall, confirm[c].pc # "idle"
  PROVE  confirm[c].file \in File
BY DEF FilesTypeOK, ConfirmType, NotBegun

\* A step of a confirmation that reads.
LEMMA ReadFiles ==
  ASSUME FilesInv, NEW f \in File, NEW p,
         UNCHANGED <<file, object, link, sweep, faults, keptEarly, rewritten, stuck>>,
         confirm' \in [ConfirmCall -> ConfirmType], confirms' \in Nat,
         Confirming' \subseteq Confirming \cup {<<f, p>>},
         \/ p \in {"file", "head"}
         \/ p = "complete" /\ object[f] = "right"
              /\ (~Discarded(f) \/ f \in rewritten)
         \/ p = "discard" /\ object[f] = "wrong"
              /\ (~Accepted(f) \/ f \in rewritten)
         \/ p \in {"replace", "link"}
              /\ (file[f].status = "completed" \/ f \in rewritten)
  PROVE  FilesInv'
<1>1. FilesTypeOK'
  BY DEF FilesInv, FilesTypeOK
<1> SUFFICES ASSUME NEW g \in File PROVE FileHolds(g)'
  BY <1>1 DEF FilesInv
<1>2. SeenAlike(g) /\ LinkKnown(g) /\ EarlyKnown(g) /\ SweptKnown(g)
  BY DEF FilesInv, FileHolds
<1>3. SeenAlike(g)'
  <2>0. \A pc : <<g, pc>> \in Confirming' => <<g, pc>> \in Confirming \/ (g = f /\ pc = p)
    OBVIOUS
  <2>1. Accepted(g)' => Accepted(g) \/ (g = f /\ p \in {"complete", "replace", "link"})
    BY <2>0 DEF Accepted
  <2>2. Discarded(g)' => Discarded(g) \/ (g = f /\ p = "discard")
    BY <2>0 DEF Discarded
  <2>3. file[g].status = "completed" => Accepted(g)
    BY DEF Accepted
  <2> QED BY <1>2, <2>1, <2>2, <2>3 DEF SeenAlike
<1>4. LinkKnown(g)'
  BY <1>2 DEF LinkKnown
<1>5. EarlyKnown(g)'
  BY <1>2 DEF EarlyKnown
<1>6. SweptKnown(g)'
  BY <1>2 DEF SweptKnown
<1> QED BY <1>3, <1>4, <1>5, <1>6 DEF FileHolds

\* What is known of a file, and what a confirmation that got somewhere tells.
LEMMA FileKnown ==
  ASSUME FilesInv, NEW f \in File
  PROVE  /\ file[f] \in FileRow /\ object[f] \in {"none"} \cup Sizes
         /\ SeenAlike(f) /\ LinkKnown(f) /\ EarlyKnown(f) /\ SweptKnown(f)
BY DEF FilesInv, FilesTypeOK, FileHolds

LEMMA ConfirmKnown ==
  ASSUME FilesInv, NEW c \in ConfirmCall, confirm[c].pc # "idle"
  PROVE  /\ confirm[c].file \in File /\ confirm[c].entity \in Entity
         /\ <<confirm[c].file, confirm[c].pc>> \in Confirming
BY DEF FilesInv, FilesTypeOK, ConfirmType, NotBegun, Confirming

LEMMA BeginFiles ==
  ASSUME FilesInv, NEW c \in ConfirmCall, NEW X \in SUBSET Entity, ConfirmBegin(c, X)
  PROVE  FilesInv'
<1>1. PICK x \in X, f \in File :
        confirm' = [confirm EXCEPT ![c] =
                      [pc |-> "file", entity |-> x, file |-> f, old |-> link[x]]]
  BY DEF ConfirmBegin
<1> DEFINE k == [pc |-> "file", entity |-> x, file |-> f, old |-> link[x]]
<1>2. k \in ConfirmType /\ k.pc = "file" /\ k.file = f
  BY DEF FilesInv, FilesTypeOK, ConfirmType
<1> HIDE DEF k
<1>3. /\ confirm' = [confirm EXCEPT ![c] = k] /\ confirm' \in [ConfirmCall -> ConfirmType]
      /\ confirm'[c] = k /\ \A d \in ConfirmCall \ {c} : confirm'[d] = confirm[d]
  BY <1>1, <1>2 DEF FilesInv, FilesTypeOK, k
<1>4. Confirming' \subseteq Confirming \cup {<<f, "file">>}
  BY <1>2, <1>3 DEF Confirming
<1>5. /\ UNCHANGED <<file, object, link, sweep, faults, keptEarly, rewritten, stuck>>
      /\ confirms' \in Nat
  BY DEF ConfirmBegin, FilesInv, FilesTypeOK
<1> QED BY <1>3, <1>4, <1>5, ReadFiles

\* The confirmations that look at the row or at the object.
LEMMA LookFiles ==
  ASSUME FilesInv, NEW c \in ConfirmCall,
         ConfirmFile(c) \/ ConfirmHead(c) \/ ConfirmReplace(c)
  PROVE  FilesInv'
<1>0. FilesTypeOK /\ confirm[c].pc # "idle"
  BY DEF FilesInv, ConfirmFile, ConfirmHead, ConfirmReplace
<1> PICK f \in File : f = confirm[c].file /\ <<f, confirm[c].pc>> \in Confirming
  BY <1>0, ConfirmKnown
<1>1. /\ UNCHANGED <<file, object, link, sweep, faults, keptEarly, rewritten, stuck>>
      /\ confirms' \in Nat
  BY <1>0 DEF ConfirmFile, ConfirmHead, ConfirmReplace, FilesTypeOK
<1>2. CASE Leave(c)
  BY <1>0, <1>1, <1>2, ConfirmLeaves, ReadFiles
<1>3. ASSUME NEW p \in {"head", "complete", "discard", "replace", "link"}, Step(c, p),
             \/ p = "head"
             \/ p = "complete" /\ object[f] = "right"
             \/ p = "discard" /\ object[f] = "wrong"
             \/ p \in {"replace", "link"}
                  /\ (file[f].status = "completed" \/ f \in rewritten)
      PROVE  FilesInv'
  <2>1. /\ confirm' \in [ConfirmCall -> ConfirmType]
        /\ Confirming' \subseteq Confirming \cup {<<f, p>>}
    BY <1>0, <1>3, ConfirmGoes
  <2>2. f \notin rewritten =>
          /\ object[f] = "right" => ~Discarded(f)
          /\ object[f] = "wrong" => ~Accepted(f)
    BY FileKnown DEF SeenAlike
  <2> HIDE DEF Step
  <2> QED BY <1>1, <1>3, <2>1, <2>2, ReadFiles
<1>4. CASE ConfirmFile(c)
  BY <1>2, <1>3, <1>4 DEF ConfirmFile
<1>5. CASE ConfirmHead(c)
  BY <1>2, <1>3, <1>5 DEF ConfirmHead
<1>6. CASE ConfirmReplace(c)
  <2>1. <<f, "replace">> \in Confirming
    BY <1>6 DEF ConfirmReplace
  <2>2. file[f].status = "completed" \/ f \in rewritten
    BY <2>1, FileKnown DEF LinkKnown
  <2> QED BY <1>2, <1>3, <1>6, <2>2 DEF ConfirmReplace
<1> QED BY <1>4, <1>5, <1>6

LEMMA CompleteFiles ==
  ASSUME FilesInv, NEW c \in ConfirmCall, ConfirmComplete(c)
  PROVE  FilesInv'
<1>0. FilesTypeOK /\ confirm[c].pc = "complete"
  BY DEF FilesInv, ConfirmComplete
<1> PICK f \in File : f = confirm[c].file /\ <<f, "complete">> \in Confirming
  BY <1>0, ConfirmKnown
<1>1. /\ file' = [file EXCEPT ![f].status = "completed"]
      /\ keptEarly' = IF file[f].age = "old" THEN keptEarly ELSE keptEarly \cup {f}
      /\ Step(c, "replace")
      /\ UNCHANGED <<object, link, sweep, confirms, faults, rewritten, stuck>>
  BY DEF ConfirmComplete
<1>2. /\ confirm' \in [ConfirmCall -> ConfirmType]
      /\ Confirming' \subseteq Confirming \cup {<<f, "replace">>}
  BY <1>0, <1>1, ConfirmGoes
<1>3. /\ file'[f] = [file[f] EXCEPT !.status = "completed"] /\ file[f] \in FileRow
      /\ file' \in [File -> FileRow] /\ \A g \in File \ {f} : file'[g] = file[g]
  BY <1>0, <1>1 DEF FilesTypeOK, FileRow
<1>4. /\ file'[f].status = "completed" /\ file'[f].age = file[f].age
      /\ \A g \in File : file'[g].age = file[g].age
  BY <1>3 DEF FileRow
<1>5. FilesTypeOK'
  BY <1>0, <1>1, <1>2, <1>3 DEF FilesTypeOK
<1> SUFFICES ASSUME NEW g \in File PROVE FileHolds(g)'
  BY <1>5 DEF FilesInv
<1>6. SeenAlike(g) /\ LinkKnown(g) /\ EarlyKnown(g) /\ SweptKnown(g)
  BY FileKnown
<1>7. \A pc : <<g, pc>> \in Confirming' =>
        <<g, pc>> \in Confirming \/ (g = f /\ pc = "replace")
  BY <1>2
<1>8. SeenAlike(g)'
  <2>1. Accepted(g)' => Accepted(g)
    BY <1>3, <1>7 DEF Accepted
  <2>2. Discarded(g)' => Discarded(g)
    BY <1>7 DEF Discarded
  <2> QED BY <1>1, <1>4, <1>6, <2>1, <2>2 DEF SeenAlike
<1>9. LinkKnown(g)'
  BY <1>1, <1>3, <1>4, <1>6, <1>7 DEF LinkKnown
<1>10. EarlyKnown(g)'
  <2>1. g = f /\ file[f].age # "old" =>
          object[f] # "none" /\ \A w \in Sweeper : f \notin sweep[w].rows
    BY <1>6 DEF EarlyKnown, SweptKnown
  <2> QED BY <1>1, <1>3, <1>4, <1>6, <1>7, <2>1 DEF EarlyKnown
<1>11. SweptKnown(g)'
  BY <1>1, <1>3, <1>4, <1>6 DEF SweptKnown
<1> QED BY <1>8, <1>9, <1>10, <1>11 DEF FileHolds

LEMMA DiscardFiles ==
  ASSUME FilesInv, NEW c \in ConfirmCall, ConfirmDiscard(c)
  PROVE  FilesInv'
<1>0. FilesTypeOK /\ confirm[c].pc = "discard"
  BY DEF FilesInv, ConfirmDiscard
<1> PICK f \in File : f = confirm[c].file /\ <<f, "discard">> \in Confirming
  BY <1>0, ConfirmKnown
<1>1. /\ file' = [file EXCEPT ![f].status = "deleted"] /\ stuck' = stuck \cup {f}
      /\ Leave(c)
      /\ UNCHANGED <<object, link, sweep, confirms, faults, keptEarly, rewritten>>
  BY DEF ConfirmDiscard
<1>2. /\ confirm' \in [ConfirmCall -> ConfirmType] /\ Confirming' \subseteq Confirming
  BY <1>0, <1>1, ConfirmLeaves
<1>3. /\ file'[f] = [file[f] EXCEPT !.status = "deleted"] /\ file[f] \in FileRow
      /\ file' \in [File -> FileRow] /\ \A g \in File \ {f} : file'[g] = file[g]
  BY <1>0, <1>1 DEF FilesTypeOK, FileRow
<1>4. /\ file'[f].status = "deleted"
      /\ \A g \in File : file'[g].age = file[g].age
  BY <1>3 DEF FileRow
<1>5. FilesTypeOK'
  BY <1>0, <1>1, <1>2, <1>3 DEF FilesTypeOK
<1> SUFFICES ASSUME NEW g \in File PROVE FileHolds(g)'
  BY <1>5 DEF FilesInv
<1>6. SeenAlike(g) /\ LinkKnown(g) /\ EarlyKnown(g) /\ SweptKnown(g)
  BY FileKnown
<1>7. SeenAlike(g)'
  <2>1. Accepted(g)' => Accepted(g)
    BY <1>2, <1>3, <1>4 DEF Accepted
  <2>2. Discarded(g)' => Discarded(g)
    BY <1>2 DEF Discarded
  <2> QED BY <1>1, <1>4, <1>6, <2>1, <2>2 DEF SeenAlike
<1>8. LinkKnown(g)'
  <2>1. f \notin rewritten => ~Accepted(f)
    BY FileKnown DEF SeenAlike, Discarded
  <2>2. f \notin rewritten =>
          /\ \A x \in Entity : link[x] # f
          /\ \A pc \in {"replace", "link"} : <<f, pc>> \notin Confirming
    BY <2>1, FileKnown DEF LinkKnown, Accepted
  <2> QED BY <1>1, <1>2, <1>3, <1>6, <2>2 DEF LinkKnown
<1>9. EarlyKnown(g)'
  BY <1>1, <1>2, <1>3, <1>4, <1>6 DEF EarlyKnown
<1>10. SweptKnown(g)'
  BY <1>1, <1>3, <1>4, <1>6 DEF SweptKnown
<1> QED BY <1>7, <1>8, <1>9, <1>10 DEF FileHolds

LEMMA LinkFiles ==
  ASSUME FilesInv, NEW c \in ConfirmCall, ConfirmLink(c)
  PROVE  FilesInv'
<1>0. FilesTypeOK /\ confirm[c].pc = "link"
  BY DEF FilesInv, ConfirmLink
<1> PICK f \in File, x \in Entity : /\ f = confirm[c].file /\ x = confirm[c].entity
                                    /\ <<f, "link">> \in Confirming
  BY <1>0, ConfirmKnown
<1>1. /\ link' = [link EXCEPT ![x] = f] /\ Leave(c)
      /\ UNCHANGED <<file, object, sweep, confirms, faults, keptEarly, rewritten, stuck>>
  BY DEF ConfirmLink
<1>2. /\ confirm' \in [ConfirmCall -> ConfirmType] /\ Confirming' \subseteq Confirming
  BY <1>0, <1>1, ConfirmLeaves
<1>3. FilesTypeOK' /\ \A y \in Entity : link'[y] = IF y = x THEN f ELSE link[y]
  BY <1>0, <1>1, <1>2 DEF FilesTypeOK
<1> SUFFICES ASSUME NEW g \in File PROVE FileHolds(g)'
  BY <1>3 DEF FilesInv
<1>4. SeenAlike(g) /\ LinkKnown(g) /\ EarlyKnown(g) /\ SweptKnown(g)
  BY FileKnown
<1>5. SeenAlike(g)'
  <2>1. (Accepted(g)' => Accepted(g)) /\ (Discarded(g)' => Discarded(g))
    BY <1>1, <1>2 DEF Accepted, Discarded
  <2> QED BY <1>1, <1>4, <2>1 DEF SeenAlike
<1>6. LinkKnown(g)'
  BY <1>1, <1>2, <1>3, <1>4 DEF LinkKnown
<1>7. EarlyKnown(g)' /\ SweptKnown(g)'
  BY <1>1, <1>2, <1>4 DEF EarlyKnown, SweptKnown
<1> QED BY <1>5, <1>6, <1>7 DEF FileHolds

\* A new row, an upload, and the passing of time.
LEMMA ClientFiles ==
  ASSUME FilesInv, NEW f \in File, Presign(f) \/ Upload(f) \/ Grow(f)
  PROVE  FilesInv'
<1>0. FilesTypeOK
  BY DEF FilesInv
<1>1. UNCHANGED <<link, confirm, sweep, confirms, faults, keptEarly, stuck>>
  BY DEF Presign, Upload, Grow
<1>2. Confirming' = Confirming
  BY <1>1 DEF Confirming
<1>3. file[f] \in FileRow
  BY <1>0 DEF FilesTypeOK
<1>4. CASE Upload(f)
  <2> PICK z \in Sizes : object[f] # z /\ object' = [object EXCEPT ![f] = z]
    BY <1>4 DEF Upload
  <2>1. /\ file[f].status # "none" /\ file[f].age = "fresh" /\ file' = file
        /\ rewritten' = IF object[f] = "none" THEN rewritten ELSE rewritten \cup {f}
        /\ \A g \in File : object'[g] = IF g = f THEN z ELSE object[g]
        /\ z \in {"right", "wrong"}
    BY <1>0, <1>4, FileAssumption DEF Upload, FilesTypeOK
  <2>2. FilesTypeOK'
    BY <1>0, <1>1, <2>1 DEF FilesTypeOK
  <2> SUFFICES ASSUME NEW g \in File PROVE FileHolds(g)'
    BY <2>2 DEF FilesInv
  <2>3. SeenAlike(g) /\ LinkKnown(g) /\ EarlyKnown(g) /\ SweptKnown(g)
    BY FileKnown
  <2>4. (Accepted(g)' => Accepted(g)) /\ (Discarded(g)' => Discarded(g))
    BY <1>2, <2>1 DEF Accepted, Discarded
  <2>5. SeenAlike(g)' /\ LinkKnown(g)'
    BY <1>1, <1>2, <2>1, <2>3, <2>4 DEF SeenAlike, LinkKnown
  <2>6. EarlyKnown(g)' /\ SweptKnown(g)'
    BY <1>1, <1>2, <2>1, <2>3 DEF EarlyKnown, SweptKnown
  <2> QED BY <2>5, <2>6 DEF FileHolds
<1>5. ASSUME NEW r \in FileRow, file' = [file EXCEPT ![f] = r],
             UNCHANGED <<object, rewritten>>,
             \/ r.status = "pending" /\ file[f].status = "none" /\ r.age = file[f].age
             \/ r.status = file[f].status /\ file[f].age # "old" /\ r.age # "fresh"
      PROVE  FilesInv'
  <2>1. \A g \in File : file'[g] = IF g = f THEN r ELSE file[g]
    BY <1>0, <1>5 DEF FilesTypeOK
  <2>2. \A g \in File : /\ file'[g].status = IF g = f THEN r.status ELSE file[g].status
                        /\ file'[g].age = IF g = f THEN r.age ELSE file[g].age
    BY <2>1
  <2>3. FilesTypeOK'
    BY <1>0, <1>1, <1>5 DEF FilesTypeOK
  <2> SUFFICES ASSUME NEW g \in File PROVE FileHolds(g)'
    BY <2>3 DEF FilesInv
  <2>4. SeenAlike(g) /\ LinkKnown(g) /\ EarlyKnown(g) /\ SweptKnown(g)
    BY FileKnown
  <2>5. (Accepted(g)' => Accepted(g)) /\ (Discarded(g)' => Discarded(g))
    BY <1>2, <1>5, <2>2 DEF Accepted, Discarded
  <2>6. SeenAlike(g)' /\ LinkKnown(g)'
    BY <1>1, <1>2, <1>5, <2>2, <2>4, <2>5 DEF SeenAlike, LinkKnown
  <2>7. EarlyKnown(g)'
    BY <1>1, <1>2, <1>5, <2>2, <2>4 DEF EarlyKnown
  <2>8. SweptKnown(g)'
    BY <1>1, <1>5, <2>2, <2>4 DEF SweptKnown
  <2> QED BY <2>6, <2>7, <2>8 DEF FileHolds
<1>6. CASE Presign(f)
  <2> DEFINE r == [file[f] EXCEPT !.status = "pending"]
  <2>1. /\ file[f].status = "none" /\ file' = [file EXCEPT ![f] = r]
        /\ UNCHANGED <<object, rewritten>>
    BY <1>6 DEF Presign
  <2>2. r \in FileRow /\ r.status = "pending" /\ r.age = file[f].age
    BY <1>3 DEF FileRow
  <2> HIDE DEF r
  <2> QED BY <1>5, <2>1, <2>2
<1>7. CASE Grow(f)
  <2> DEFINE r == [file[f] EXCEPT !.age = IF file[f].age = "fresh" THEN "expired" ELSE "old"]
  <2>1. /\ file[f].age # "old" /\ file' = [file EXCEPT ![f] = r]
        /\ UNCHANGED <<object, rewritten>>
    BY <1>7 DEF Grow
  <2>2. r \in FileRow /\ r.status = file[f].status /\ r.age # "fresh"
    BY <1>3 DEF FileRow, Age
  <2> HIDE DEF r
  <2> QED BY <1>5, <2>1, <2>2
<1> QED BY <1>4, <1>6, <1>7

\* The purge.
LEMMA SweepFiles ==
  ASSUME FilesInv, NEW w \in Sweeper, SweepGoesOn(w) \/ SweepCrash(w)
  PROVE  FilesInv'
<1>0. FilesTypeOK
  BY DEF FilesInv
<1>1. UNCHANGED <<link, confirm, confirms, keptEarly, rewritten>>
  BY DEF SweepGoesOn, SweepRead, SweepObject, SweepUpdate, SweepCrash
<1>2. Confirming' = Confirming
  BY <1>1 DEF Confirming
<1>3. CASE SweepRead(w)
  <2> DEFINE rows == {f \in File : Old(f)}
  <2>1. /\ UNCHANGED <<file, object, faults, stuck>>
        /\ sweep' = [sweep EXCEPT ![w] = [pc |-> "delete", rows |-> rows, gone |-> {}]]
    BY <1>3 DEF SweepRead
  <2>2. \A f \in rows : file[f].status = "pending" /\ file[f].age = "old"
    BY DEF Old
  <2> HIDE DEF rows
  <2>3. rows \in SUBSET File
    BY DEF rows
  <2>4. \A v \in Sweeper : /\ sweep'[v].rows = IF v = w THEN rows ELSE sweep[v].rows
                           /\ sweep'[v].gone = IF v = w THEN {} ELSE sweep[v].gone
    BY <1>0, <2>1 DEF FilesTypeOK
  <2>5. FilesTypeOK'
    BY <1>0, <1>1, <2>1, <2>3 DEF FilesTypeOK
  <2> SUFFICES ASSUME NEW g \in File PROVE FileHolds(g)'
    BY <2>5 DEF FilesInv
  <2>6. SeenAlike(g) /\ LinkKnown(g) /\ EarlyKnown(g) /\ SweptKnown(g)
    BY FileKnown
  <2>7. SeenAlike(g)' /\ LinkKnown(g)'
    BY <1>1, <1>2, <2>1, <2>6 DEF SeenAlike, LinkKnown, Accepted, Discarded
  <2>8. EarlyKnown(g)'
    BY <1>1, <1>2, <2>1, <2>2, <2>4, <2>6 DEF EarlyKnown
  <2>9. SweptKnown(g)'
    BY <2>1, <2>2, <2>4, <2>6 DEF SweptKnown
  <2> QED BY <2>7, <2>8, <2>9 DEF FileHolds
<1>4. ASSUME NEW f \in File, SweepObject(w, f) PROVE FilesInv'
  <2>1. /\ sweep[w] \in [pc: {"idle", "delete"}, rows: SUBSET File, gone: SUBSET File]
        /\ f \in sweep[w].rows /\ UNCHANGED file
        /\ sweep' = [sweep EXCEPT ![w] = [sweep[w] EXCEPT !.gone = sweep[w].gone \cup {f}]]
    BY <1>0, <1>4 DEF SweepObject, FilesTypeOK
  <2>2. \A v \in Sweeper :
          /\ sweep'[v].rows = sweep[v].rows
          /\ sweep'[v].gone = IF v = w THEN sweep[v].gone \cup {f} ELSE sweep[v].gone
    BY <1>0, <2>1 DEF FilesTypeOK
  <2>3. /\ stuck \subseteq stuck' /\ stuck' \subseteq File /\ faults' \in Nat
        /\ \A g \in File : object'[g] = object[g] \/ (g = f /\ object'[g] = "none")
        /\ object'[f] = "none" \/ f \in stuck'
        /\ object' \in [File -> {"none"} \cup Sizes]
    BY <1>0, <1>4 DEF SweepObject, FilesTypeOK
  <2>4. sweep' \in [Sweeper -> [pc: {"idle", "delete"}, rows: SUBSET File, gone: SUBSET File]]
    BY <1>0, <2>1 DEF FilesTypeOK
  <2>5. FilesTypeOK'
    BY <1>0, <1>1, <2>1, <2>3, <2>4 DEF FilesTypeOK
  <2>6. file[f].age = "old" /\ f \notin keptEarly
    BY <2>1, FileKnown DEF SweptKnown, EarlyKnown
  <2> SUFFICES ASSUME NEW g \in File PROVE FileHolds(g)'
    BY <2>5 DEF FilesInv
  <2>7. SeenAlike(g) /\ LinkKnown(g) /\ EarlyKnown(g) /\ SweptKnown(g)
    BY FileKnown
  <2>8. LinkKnown(g)'
    BY <1>1, <1>2, <2>1, <2>7 DEF LinkKnown
  <2>9. SeenAlike(g)'
    <3>1. (Accepted(g)' => Accepted(g)) /\ (Discarded(g)' => Discarded(g))
      BY <1>2, <2>1 DEF Accepted, Discarded
    <3> QED BY <1>1, <2>1, <2>3, <2>6, <2>7, <3>1 DEF SeenAlike
  <2>10. EarlyKnown(g)'
    BY <1>1, <1>2, <2>1, <2>2, <2>3, <2>6, <2>7 DEF EarlyKnown
  <2>11. SweptKnown(g)'
    BY <2>1, <2>2, <2>3, <2>6, <2>7 DEF SweptKnown
  <2> QED BY <2>8, <2>9, <2>10, <2>11 DEF FileHolds
<1>5. CASE SweepUpdate(w)
  <2> DEFINE hit(f) == f \in sweep[w].rows /\ Old(f)
  <2>1. /\ UNCHANGED <<object, faults, stuck>> /\ sweep[w].gone = sweep[w].rows
        /\ sweep' = [sweep EXCEPT ![w] = [pc |-> "idle", rows |-> {}, gone |-> {}]]
        /\ file' = [f \in File |-> IF hit(f) THEN [file[f] EXCEPT !.status = "deleted"]
                                   ELSE file[f]]
    BY <1>5 DEF SweepUpdate
  <2>2. \A f \in File : hit(f) => /\ f \in sweep[w].gone /\ file[f].status = "pending"
                                  /\ file[f].age = "old"
    BY <2>1 DEF Old
  <2>3. \A f \in File : /\ file'[f].status = IF hit(f) THEN "deleted" ELSE file[f].status
                        /\ file'[f].age = file[f].age /\ file'[f] \in FileRow
    BY <1>0, <2>1 DEF FilesTypeOK, FileRow
  <2> HIDE DEF hit
  <2>4. \A v \in Sweeper : /\ sweep'[v].rows = IF v = w THEN {} ELSE sweep[v].rows
                           /\ sweep'[v].gone = IF v = w THEN {} ELSE sweep[v].gone
    BY <1>0, <2>1 DEF FilesTypeOK
  <2>5. FilesTypeOK'
    <3>1. file' \in [File -> FileRow]
      BY <2>1, <2>3
    <3> QED BY <1>0, <1>1, <2>1, <3>1 DEF FilesTypeOK
  <2> SUFFICES ASSUME NEW g \in File PROVE FileHolds(g)'
    BY <2>5 DEF FilesInv
  <2>6. SeenAlike(g) /\ LinkKnown(g) /\ EarlyKnown(g) /\ SweptKnown(g)
    BY FileKnown
  <2>7. SeenAlike(g)'
    <3>1. (Accepted(g)' => Accepted(g)) /\ (Discarded(g)' => Discarded(g))
      BY <1>2, <2>3 DEF Accepted, Discarded
    <3> QED BY <1>1, <2>1, <2>3, <2>6, <3>1 DEF SeenAlike
  <2>8. LinkKnown(g)'
    BY <1>1, <1>2, <2>2, <2>3, <2>6 DEF LinkKnown
  <2>9. EarlyKnown(g)'
    BY <1>1, <1>2, <2>1, <2>3, <2>4, <2>6 DEF EarlyKnown
  <2>10. SweptKnown(g)'
    BY <2>1, <2>2, <2>3, <2>4, <2>6 DEF SweptKnown
  <2> QED BY <2>7, <2>8, <2>9, <2>10 DEF FileHolds
<1>6. CASE SweepCrash(w)
  <2>1. /\ UNCHANGED <<file, object, stuck>> /\ faults' \in Nat
        /\ sweep' = [sweep EXCEPT ![w] = [pc |-> "idle", rows |-> {}, gone |-> {}]]
    BY <1>0, <1>6 DEF SweepCrash, FilesTypeOK
  <2>2. \A v \in Sweeper : /\ sweep'[v].rows = IF v = w THEN {} ELSE sweep[v].rows
                           /\ sweep'[v].gone = IF v = w THEN {} ELSE sweep[v].gone
    BY <1>0, <2>1 DEF FilesTypeOK
  <2>3. FilesTypeOK'
    BY <1>0, <1>1, <2>1 DEF FilesTypeOK
  <2> SUFFICES ASSUME NEW g \in File PROVE FileHolds(g)'
    BY <2>3 DEF FilesInv
  <2>4. SeenAlike(g) /\ LinkKnown(g) /\ EarlyKnown(g) /\ SweptKnown(g)
    BY FileKnown
  <2>5. SeenAlike(g)' /\ LinkKnown(g)'
    BY <1>1, <1>2, <2>1, <2>4 DEF SeenAlike, LinkKnown, Accepted, Discarded
  <2>6. EarlyKnown(g)' /\ SweptKnown(g)'
    BY <1>1, <1>2, <2>1, <2>2, <2>4 DEF EarlyKnown, SweptKnown
  <2> QED BY <2>5, <2>6 DEF FileHolds
<1> QED BY <1>3, <1>4, <1>5, <1>6 DEF SweepGoesOn

LEMMA NextFiles == FilesInv /\ [FilesNext]_fileVars => FilesInv'
<1> SUFFICES ASSUME FilesInv, [FilesNext]_fileVars PROVE FilesInv'
  OBVIOUS
<1>1. CASE UNCHANGED fileVars
  <2>1. UNCHANGED <<file, object, link, confirm, sweep, confirms, faults, keptEarly,
                    rewritten, stuck>>
    BY <1>1 DEF fileVars
  <2>2. Confirming' = Confirming
    BY <2>1 DEF Confirming
  <2> QED BY <2>1, <2>2 DEF FilesInv, FilesTypeOK, FileHolds, SeenAlike, LinkKnown,
                            EarlyKnown, SweptKnown, Accepted, Discarded
<1>2. ASSUME NEW c \in ConfirmCall, ConfirmStep(c) PROVE FilesInv'
  <2>1. {Photo, Avatar, Document} \subseteq SUBSET Entity
    BY DEF Entity
  <2>2. CASE ConfirmPhoto(c) \/ ConfirmAvatar(c) \/ ConfirmLeaveDocument(c)
    BY <2>1, <2>2, BeginFiles DEF ConfirmPhoto, ConfirmAvatar, ConfirmLeaveDocument
  <2> QED BY <1>2, <2>2, LookFiles, CompleteFiles, DiscardFiles, LinkFiles DEF ConfirmStep
<1> QED BY <1>1, <1>2, ClientFiles, SweepFiles DEF FilesNext

\* For any number of files, entities, confirmations and workers: the purge never
\* takes the object of a file confirmed in time, a linked file stays completed
\* unless its client uploaded twice, and an object is left behind only after a
\* size mismatch or a failed delete (storage.service.ts, storage-cleanup.cron.ts).
THEOREM FileBooksAlways == FilesSpec => []FileBooks
<1>1. FilesInv => FileBooks
  <2> SUFFICES ASSUME FilesInv PROVE FileBooks
    OBVIOUS
  <2>1. EarlyFilesKeepObject
    BY FileKnown DEF EarlyFilesKeepObject, EarlyKnown, FilesInv, FilesTypeOK
  <2>2. LinkedIsCompleted
    BY FileKnown DEF LinkedIsCompleted, LinkKnown, FilesInv, FilesTypeOK
  <2>3. LeakHasCause
    BY FileKnown DEF LeakHasCause, SweptKnown
  <2> QED BY <2>1, <2>2, <2>3 DEF FileBooks
<1> QED BY <1>1, FilesStart, NextFiles, PTL DEF FilesSpec

-----------------------------------------------------------------------------
(* Compliance findings (ComplianceFindings).                               *)

DeviceSource == [of: Device, issues: SUBSET Issue]
AppSource    == [of: App]

SyncKind ==
  {Ready}
    \cup [pc: {"sync"}, later: SUBSET Device, todo: SUBSET Device]
    \cup [pc: {"raise"}, later: SUBSET Device, todo: SUBSET Device, source: DeviceSource]

ScanKind ==
  {Ready}
    \cup [pc: {"scan"}, todo: SUBSET App, catalog: SUBSET App]
    \cup [pc: {"flag"}, todo: SUBSET App, catalog: SUBSET App, source: AppSource]

JobKind == SyncKind \cup ScanKind

\* A sync is after devices, a scan after applications.
JobsKnown ==
  /\ job \in [Run -> JobKind]
  /\ \A y \in SyncRun : job[y] \in SyncKind
  /\ \A n \in ScanRun : job[n] \in ScanKind

\* The runs that look for a source, and those of them that found nothing and are
\* about to insert it.
Runs(s)    == IF s \in DeviceSource THEN SyncRun ELSE ScanRun
Raising(s) == {j \in Runs(s) : job[j].pc \in {"raise", "flag"} /\ job[j].source = s}

\* What keeps a source from being raised again: any finding of a device's issues
\* (graph-sync.service.ts:112-129), an open one of an application
\* (shadow-it-detection.service.ts:115-137).
Standing(s) == IF s \in DeviceSource THEN RowsFor(s) ELSE OpenFor(s)

\* Every row is the insert of a run of its own that had looked before it.
RaisedOnce(s) == Cardinality(Standing(s)) + Cardinality(Raising(s)) <= Cardinality(Runs(s))

\* An officer rules on a finding, on an unresolved one unless another has ruled.
RulingKnown(o) ==
  ruling[o] # Ready =>
    /\ finding[ruling[o].id] # Nothing
    /\ o \notin overruled => finding[ruling[o].id].status # "resolved"

FindingsInv ==
  /\ FindingsTypeOK
  /\ JobsKnown
  /\ \A o \in Officer : RulingKnown(o)
  /\ \A s \in Source : RaisedOnce(s)

LEMMA SourcesApart ==
  /\ Source = DeviceSource \cup AppSource
  /\ \A s \in AppSource : s \notin DeviceSource
<1>1. Source = DeviceSource \cup AppSource
  BY DEF Source, DeviceSource, AppSource
<1>2. \A s \in DeviceSource : DOMAIN s = {"of", "issues"}
  BY DEF DeviceSource
<1>3. \A s \in AppSource : DOMAIN s = {"of"}
  BY DEF AppSource
<1>4. {"of"} # {"of", "issues"}
  OBVIOUS
<1> QED BY <1>1, <1>2, <1>3, <1>4

LEMMA FindingNumbers ==
  ASSUME NEW s
  PROVE  /\ IsFiniteSet(Standing(s)) /\ Cardinality(Standing(s)) \in Nat
         /\ IsFiniteSet(Raising(s)) /\ Cardinality(Raising(s)) \in Nat
         /\ Cardinality(Raising(s)) <= Cardinality(Runs(s)) /\ Cardinality(Runs(s)) \in Nat
<1>1. Standing(s) \in SUBSET FindingId /\ Raising(s) \in SUBSET Runs(s)
  BY DEF Standing, OpenFor, RowsFor, Raising
<1>2. IsFiniteSet(FindingId) /\ IsFiniteSet(Runs(s))
  BY FindingAssumption, FS_Interval DEF FindingId, Runs
<1> QED BY <1>1, <1>2, FS_Subset, FS_CardinalityType

LEMMA FindingsStart == FindingsInit => FindingsInv
<1> SUFFICES ASSUME FindingsInit PROVE FindingsInv
  OBVIOUS
<1>1. FindingsTypeOK
  BY DEF FindingsInit, FindingsTypeOK, SyncType, ScanType, RulingType, Run
<1>2. JobsKnown /\ \A o \in Officer : RulingKnown(o)
  BY DEF FindingsInit, JobsKnown, JobKind, SyncKind, ScanKind, RulingKnown, Run
<1>3. ASSUME NEW s \in Source PROVE RaisedOnce(s)
  <2>1. Standing(s) = {} /\ Raising(s) = {}
    BY DEF FindingsInit, Standing, OpenFor, RowsFor, IsFinding, Raising, Runs, Run, Ready, Nothing
  <2> QED BY <2>1, FS_EmptySet, FindingNumbers DEF RaisedOnce
<1> QED BY <1>1, <1>2, <1>3 DEF FindingsInv

\* Fewer rows, fewer runs about to insert.
LEMMA OnceShrinks ==
  ASSUME NEW s, RaisedOnce(s), Standing(s)' \subseteq Standing(s), Raising(s)' \subseteq Raising(s)
  PROVE  RaisedOnce(s)'
<1>1. /\ IsFiniteSet(Standing(s)) /\ IsFiniteSet(Raising(s))
      /\ Cardinality(Standing(s)) \in Nat /\ Cardinality(Raising(s)) \in Nat
      /\ Cardinality(Runs(s)) \in Nat
  BY FindingNumbers
<1>2. /\ Cardinality(Standing(s)') <= Cardinality(Standing(s))
      /\ Cardinality(Raising(s)') <= Cardinality(Raising(s))
      /\ Cardinality(Standing(s)') \in Nat /\ Cardinality(Raising(s)') \in Nat
  BY <1>1, FS_Subset, FS_CardinalityType
<1> QED BY <1>1, <1>2 DEF RaisedOnce, Runs

\* Where a run goes while the findings stay: it is about to insert only a source
\* nothing stands for.
RunGoes(j, k) ==
  /\ k \in JobKind /\ (j \in SyncRun => k \in SyncKind) /\ (j \in ScanRun => k \in ScanKind)
  /\ k.pc \in {"raise", "flag"} => (Standing(k.source) = {})

LEMMA KindsAreTypes == SyncKind \subseteq SyncType /\ ScanKind \subseteq ScanType
BY DEF SyncKind, SyncType, ScanKind, ScanType, DeviceSource, AppSource, Source

LEMMA JobMoves ==
  ASSUME FindingsInv, NEW j \in Run, NEW k, RunGoes(j, k), job' = [job EXCEPT ![j] = k],
         UNCHANGED finding
  PROVE  (\A s \in Source : RaisedOnce(s)') /\ JobsKnown'
<1>1. /\ job'[j] = k /\ \A i \in Run \ {j} : job'[i] = job[i]
      /\ job' \in [Run -> JobKind]
  BY DEF FindingsInv, JobsKnown, RunGoes
<1>2. JobsKnown'
  BY <1>1 DEF FindingsInv, JobsKnown, RunGoes, Run
<1>3. ASSUME NEW s \in Source PROVE RaisedOnce(s)'
  <2>1. Standing(s)' = Standing(s) /\ Runs(s)' = Runs(s) /\ Runs(s) \subseteq Run
    BY DEF Standing, OpenFor, RowsFor, IsFinding, Runs, Run
  <2>2. CASE k.pc \in {"raise", "flag"} /\ k.source = s
    <3>1. Standing(s)' = {}
      BY <2>1, <2>2 DEF RunGoes
    <3>2. Raising(s)' \in SUBSET Runs(s)
      BY <2>1 DEF Raising
    <3>3. IsFiniteSet(Runs(s)) /\ Cardinality(Runs(s)) \in Nat
      BY FindingAssumption, FS_CardinalityType DEF Runs
    <3>4. /\ Cardinality(Raising(s)') <= Cardinality(Runs(s))
          /\ Cardinality(Raising(s)') \in Nat
      BY <3>2, <3>3, FS_Subset, FS_CardinalityType
    <3>5. Cardinality(Standing(s)') = 0
      BY <3>1, FS_EmptySet
    <3> QED BY <2>1, <3>3, <3>4, <3>5 DEF RaisedOnce
  <2>3. CASE ~(k.pc \in {"raise", "flag"} /\ k.source = s)
    <3>1. Raising(s)' \subseteq Raising(s)
      BY <1>1, <2>1, <2>3 DEF Raising
    <3> QED BY <2>1, <3>1, OnceShrinks DEF FindingsInv
  <2> QED BY <2>2, <2>3
<1> QED BY <1>2, <1>3

\* A step of a run that leaves the findings as they are.
LEMMA JobFindings ==
  ASSUME FindingsInv, NEW j \in Run, NEW k, RunGoes(j, k), JobStep(j, k),
         feed' \in [Replica -> SUBSET Device], UNCHANGED finding
  PROVE  FindingsInv'
<1>1. job' = [job EXCEPT ![j] = k] /\ UNCHANGED <<device, white, ruling, overruled>>
  BY DEF JobStep
<1>2. (\A s \in Source : RaisedOnce(s)') /\ JobsKnown'
  BY <1>1, JobMoves
<1>3. FindingsTypeOK'
  BY <1>1, <1>2, KindsAreTypes DEF FindingsInv, FindingsTypeOK, JobsKnown
<1>4. \A o \in Officer : RulingKnown(o)'
  BY <1>1 DEF FindingsInv, RulingKnown
<1> QED BY <1>2, <1>3, <1>4 DEF FindingsInv

\* A step that moves several runs at once and brings none of them to an insert.
LEMMA JobsQuiet ==
  ASSUME FindingsInv, JobsKnown', UNCHANGED <<finding, white, ruling, overruled>>,
         \A j \in Run : job'[j].pc \in {"raise", "flag"} =>
           job[j].pc \in {"raise", "flag"} /\ job'[j].source = job[j].source,
         device' \in [Device -> SUBSET Issue], feed' \in [Replica -> SUBSET Device]
  PROVE  FindingsInv'
<1>1. FindingsTypeOK'
  BY KindsAreTypes DEF FindingsInv, FindingsTypeOK, JobsKnown
<1>2. \A o \in Officer : RulingKnown(o)'
  BY DEF FindingsInv, RulingKnown
<1>3. ASSUME NEW s \in Source PROVE RaisedOnce(s)'
  <2>1. Standing(s)' = Standing(s)
    BY DEF Standing, OpenFor, RowsFor, IsFinding
  <2>2. Raising(s)' \subseteq Raising(s)
    BY DEF Raising, Runs, Run
  <2> QED BY <2>1, <2>2, OnceShrinks DEF FindingsInv
<1> QED BY <1>1, <1>2, <1>3 DEF FindingsInv

\* What a sync holds, by where it is, and what a scan does.
LEMMA SyncFields ==
  ASSUME NEW k \in SyncKind
  PROVE  /\ k.pc \in {"idle", "sync", "raise"}
         /\ k.pc # "idle" => (k.todo \in SUBSET Device /\ k.later \in SUBSET Device)
         /\ k.pc = "raise" => (k.source \in DeviceSource)
         /\ k.pc = "sync" => \A S \in SUBSET Device :
              [k EXCEPT !.todo = S] \in SyncKind /\ [k EXCEPT !.todo = S].pc = "sync"
BY DEF SyncKind, Ready

LEMMA ScanFields ==
  ASSUME NEW k \in ScanKind
  PROVE  /\ k.pc \in {"idle", "scan", "flag"}
         /\ k.pc # "idle" => (k.todo \in SUBSET App /\ k.catalog \in SUBSET App)
         /\ k.pc = "flag" => (k.source \in AppSource)
         /\ k.pc = "scan" => \A S \in SUBSET App :
              [k EXCEPT !.todo = S] \in ScanKind /\ [k EXCEPT !.todo = S].pc = "scan"
BY DEF ScanKind, Ready

\* A run that ends is about to insert nothing.
LEMMA ReadyGoes == \A j : RunGoes(j, Ready)
BY DEF RunGoes, JobKind, SyncKind, ScanKind, Ready

\* The steps of a sync that insert nothing.
LEMMA SyncFindings ==
  ASSUME FindingsInv, NEW y \in SyncRun,
         \/ SyncBegin(y) \/ (\E d \in Device : SyncDevice(y, d))
         \/ SyncTooLong(y) \/ SyncEnd(y) \/ SyncFails(y)
  PROVE  FindingsInv'
<1>0. /\ job[y] \in SyncKind /\ feed \in [Replica -> SUBSET Device]
      /\ device \in [Device -> SUBSET Issue]
      /\ y \in Run /\ y \notin ScanRun /\ HostOf[y] \in Replica
  BY FindingAssumption DEF FindingsInv, FindingsTypeOK, JobsKnown, Run
<1>1. SyncKind \subseteq JobKind
  BY DEF JobKind
<1>2. CASE SyncBegin(y)
  <2> DEFINE k == [pc |-> "sync", later |-> {}, todo |-> feed[HostOf[y]]]
  <2>1. k \in SyncKind /\ k.pc = "sync"
    BY <1>0 DEF SyncKind
  <2>2. JobStep(y, k) /\ feed' = feed /\ UNCHANGED finding
    BY <1>2 DEF SyncBegin
  <2> HIDE DEF k
  <2>3. RunGoes(y, k)
    BY <1>0, <1>1, <2>1 DEF RunGoes
  <2> QED BY <1>0, <2>2, <2>3, JobFindings
<1>3. ASSUME NEW d \in Device, SyncDevice(y, d) PROVE FindingsInv'
  <2> DEFINE s == [of |-> d, issues |-> device[d]]
             rest == job[y].todo \ {d}
             k1 == [job[y] EXCEPT !.todo = rest]
             k2 == [pc |-> "raise", later |-> job[y].later, todo |-> rest, source |-> s]
  <2>1. /\ job[y].pc = "sync" /\ feed' \in [Replica -> SUBSET Device] /\ UNCHANGED finding
        /\ JobStep(y, IF device[d] = {} \/ RowsFor(s) # {} THEN k1 ELSE k2)
    BY <1>0, <1>3 DEF SyncDevice
  <2>2. s \in DeviceSource
    BY <1>0 DEF DeviceSource
  <2>3. rest \in SUBSET Device /\ job[y].later \in SUBSET Device
    BY <1>0, <2>1, SyncFields
  <2>4. k1 \in SyncKind /\ k1.pc = "sync"
    BY <1>0, <2>1, <2>3, SyncFields
  <2> HIDE DEF s, rest
  <2>5. k2 \in SyncKind /\ k2.source = s
    BY <2>2, <2>3 DEF SyncKind
  <2> HIDE DEF k1, k2
  <2>6. CASE device[d] = {} \/ RowsFor(s) # {}
    <3>1. RunGoes(y, k1)
      BY <1>0, <1>1, <2>4 DEF RunGoes
    <3> QED BY <1>0, <2>1, <2>6, <3>1, JobFindings
  <2>7. CASE ~(device[d] = {} \/ RowsFor(s) # {})
    <3>1. Standing(k2.source) = {}
      BY <2>2, <2>5, <2>7 DEF Standing
    <3>2. RunGoes(y, k2)
      BY <1>0, <1>1, <2>5, <3>1 DEF RunGoes
    <3> QED BY <1>0, <2>1, <2>7, <3>2, JobFindings
  <2> QED BY <2>6, <2>7
<1>4. CASE SyncTooLong(y) \/ SyncFails(y) \/ SyncEnd(y)
  <2>1. JobStep(y, Ready) /\ UNCHANGED finding
    BY <1>4 DEF SyncTooLong, SyncFails, SyncEnd
  <2>2. \/ feed' = feed
        \/ job[y].pc = "sync" /\ feed' = [feed EXCEPT ![HostOf[y]] = job[y].later]
    BY <1>4 DEF SyncTooLong, SyncFails, SyncEnd
  <2>3. feed' \in [Replica -> SUBSET Device]
    BY <1>0, <2>2, SyncFields
  <2> QED BY <1>0, <2>1, <2>3, ReadyGoes, JobFindings
<1> QED BY <1>2, <1>3, <1>4

\* The steps of a scan that insert nothing.
LEMMA ScanFindings ==
  ASSUME FindingsInv, NEW n \in ScanRun,
         ScanBegin(n) \/ (\E a \in App : ScanApp(n, a)) \/ ScanEnd(n)
  PROVE  FindingsInv'
<1>0. /\ job[n] \in ScanKind /\ feed \in [Replica -> SUBSET Device] /\ white \subseteq App
      /\ n \in Run /\ n \notin SyncRun
  BY FindingAssumption DEF FindingsInv, FindingsTypeOK, JobsKnown, Run
<1>1. feed' \in [Replica -> SUBSET Device] /\ UNCHANGED finding
  BY <1>0 DEF ScanBegin, ScanApp, ScanEnd
<1>a. ScanKind \subseteq JobKind
  BY DEF JobKind
<1>2. CASE ScanBegin(n)
  <2> DEFINE k == [pc |-> "scan", todo |-> App, catalog |-> white]
  <2>1. k \in ScanKind /\ k.pc = "scan"
    BY <1>0 DEF ScanKind
  <2>2. JobStep(n, k)
    BY <1>2 DEF ScanBegin
  <2> HIDE DEF k
  <2>3. RunGoes(n, k)
    BY <1>0, <1>a, <2>1 DEF RunGoes
  <2> QED BY <1>0, <1>1, <2>2, <2>3, JobFindings
<1>3. ASSUME NEW a \in App, ScanApp(n, a) PROVE FindingsInv'
  <2> DEFINE s == [of |-> a]
             rest == job[n].todo \ {a}
             k1 == [job[n] EXCEPT !.todo = rest]
             k2 == [pc |-> "flag", todo |-> rest, catalog |-> job[n].catalog, source |-> s]
  <2>1. /\ job[n].pc = "scan"
        /\ JobStep(n, IF a \in job[n].catalog \/ OpenFor(s) # {} THEN k1 ELSE k2)
    BY <1>3 DEF ScanApp
  <2>2. s \in AppSource
    BY DEF AppSource
  <2>3. rest \in SUBSET App /\ job[n].catalog \in SUBSET App
    BY <1>0, <2>1, ScanFields
  <2>4. k1 \in ScanKind /\ k1.pc = "scan"
    BY <1>0, <2>1, <2>3, ScanFields
  <2> HIDE DEF s, rest
  <2>5. k2 \in ScanKind /\ k2.source = s
    BY <2>2, <2>3 DEF ScanKind
  <2> HIDE DEF k1, k2
  <2>6. CASE a \in job[n].catalog \/ OpenFor(s) # {}
    <3>1. RunGoes(n, k1)
      BY <1>0, <1>a, <2>4 DEF RunGoes
    <3> QED BY <1>0, <1>1, <2>1, <2>6, <3>1, JobFindings
  <2>7. CASE ~(a \in job[n].catalog \/ OpenFor(s) # {})
    <3>1. Standing(k2.source) = {}
      BY <2>2, <2>5, <2>7, SourcesApart DEF Standing
    <3>2. RunGoes(n, k2)
      BY <1>0, <1>a, <2>5, <3>1 DEF RunGoes
    <3> QED BY <1>0, <1>1, <2>1, <2>7, <3>2, JobFindings
  <2> QED BY <2>6, <2>7
<1>4. CASE ScanEnd(n)
  BY <1>0, <1>1, <1>4, ReadyGoes, JobFindings DEF ScanEnd
<1> QED BY <1>2, <1>3, <1>4

\* Intune reports a device, and a process restarts: several runs at once.
LEMMA RunsMove ==
  ASSUME FindingsInv,
         (\E d \in Device : DeviceChanges(d)) \/ (\E p \in Replica : Restart(p))
  PROVE  FindingsInv'
<1>0. /\ FindingsTypeOK /\ JobsKnown
  BY DEF FindingsInv
<1>1. ASSUME NEW d \in Device, DeviceChanges(d) PROVE FindingsInv'
  <2>1. /\ UNCHANGED <<finding, white, ruling, overruled>>
        /\ device' \in [Device -> SUBSET Issue] /\ feed' \in [Replica -> SUBSET Device]
    BY <1>0, <1>1, FindingAssumption DEF DeviceChanges, FindingsTypeOK
  <2> DEFINE more(j) == [job[j] EXCEPT !.later = @ \cup {d}]
  <2>2. job' = [j \in Run |-> IF job[j].pc \in {"sync", "raise"} THEN more(j) ELSE job[j]]
    BY <1>1 DEF DeviceChanges
  <2>3. ASSUME NEW j \in SyncRun, job[j].pc \in {"sync", "raise"}
        PROVE  /\ more(j) \in SyncKind
               /\ more(j).pc = "raise" => job[j].pc = "raise" /\ more(j).source = job[j].source
               /\ more(j).pc # "flag"
    <3>1. job[j] \in SyncKind
      BY <1>0 DEF JobsKnown
    <3> QED BY <2>3, <3>1 DEF SyncKind, Ready
  <2>4. \A j \in ScanRun : job[j].pc \notin {"sync", "raise"}
    BY <1>0, ScanFields DEF JobsKnown
  <2> HIDE DEF more
  <2>5. JobsKnown'
    BY <1>0, <2>2, <2>3, <2>4 DEF JobsKnown, Run, JobKind
  <2>6. \A j \in Run : job'[j].pc \in {"raise", "flag"} =>
          job[j].pc \in {"raise", "flag"} /\ job'[j].source = job[j].source
    BY <2>2, <2>3, <2>4 DEF Run
  <2> QED BY <2>1, <2>5, <2>6, JobsQuiet
<1>2. ASSUME NEW p \in Replica, Restart(p) PROVE FindingsInv'
  <2>1. /\ UNCHANGED <<finding, white, ruling, overruled, device>>
        /\ feed' \in [Replica -> SUBSET Device]
        /\ job' = [j \in Run |-> IF HostOf[j] = p THEN Ready ELSE job[j]]
    BY <1>0, <1>2 DEF Restart, FindingsTypeOK
  <2>2. Ready \in SyncKind /\ Ready \in ScanKind /\ Ready.pc = "idle"
    BY DEF SyncKind, ScanKind, Ready
  <2>3. JobsKnown'
    BY <1>0, <2>1, <2>2 DEF JobsKnown, Run, JobKind
  <2>4. \A j \in Run : job'[j].pc \in {"raise", "flag"} =>
          job[j].pc \in {"raise", "flag"} /\ job'[j].source = job[j].source
    BY <2>1, <2>2
  <2> QED BY <1>0, <2>1, <2>3, <2>4, JobsQuiet DEF FindingsTypeOK
<1> QED BY <1>1, <1>2

\* An insert: one run less that is about to, one row more.
LEMMA InsertFindings ==
  ASSUME FindingsInv, NEW p \in Run,
         (p \in SyncRun /\ SyncInsert(p)) \/ (p \in ScanRun /\ ScanInsert(p))
  PROVE  FindingsInv'
<1>0. /\ job \in [Run -> JobKind] /\ JobsKnown /\ FindingsTypeOK
      /\ job[p].pc \in {"raise", "flag"}
  BY DEF FindingsInv, JobsKnown, SyncInsert, ScanInsert
<1>a. job[p].source \in Source /\ p \in Runs(job[p].source)
  <2>1. CASE p \in SyncRun /\ SyncInsert(p)
    BY <1>0, <2>1, SyncFields, SourcesApart DEF SyncInsert, JobsKnown, Runs
  <2>2. CASE p \in ScanRun /\ ScanInsert(p)
    BY <1>0, <2>2, ScanFields, SourcesApart DEF ScanInsert, JobsKnown, Runs
  <2> QED BY <2>1, <2>2
<1> PICK s0 \in Source : s0 = job[p].source /\ p \in Runs(s0)
  BY <1>a
<1>1. PICK i \in FindingId :
        /\ finding[i] = Nothing
        /\ finding' = [finding EXCEPT ![i] = [status |-> "open", source |-> s0]]
  <2>1. InsertFinding(s0)
    BY DEF SyncInsert, ScanInsert
  <2>2. PICK i \in FindingId :
          /\ \A j \in FindingId : IsFinding(j) <=> j < i
          /\ finding' = [finding EXCEPT ![i] = [status |-> "open", source |-> s0]]
    BY <2>1 DEF InsertFinding
  <2>3. ~(i < i)
    BY DEF FindingId
  <2> QED BY <2>2, <2>3 DEF IsFinding
<1>2. PICK k \in JobKind :
        /\ k.pc \in {"sync", "scan"} /\ JobStep(p, k)
        /\ (p \in SyncRun => k \in SyncKind) /\ (p \in ScanRun => k \in ScanKind)
  <2>0. SyncRun \cap ScanRun = {}
    BY FindingAssumption
  <2>1. CASE p \in SyncRun /\ SyncInsert(p)
    <3>1. [pc |-> "sync", later |-> job[p].later, todo |-> job[p].todo] \in SyncKind
      BY <1>0, <2>1, SyncFields DEF SyncInsert, JobsKnown, SyncKind
    <3> QED BY <2>0, <2>1, <3>1 DEF SyncInsert, JobKind
  <2>2. CASE p \in ScanRun /\ ScanInsert(p)
    <3>1. [pc |-> "scan", todo |-> job[p].todo, catalog |-> job[p].catalog] \in ScanKind
      BY <1>0, <2>2, ScanFields DEF ScanInsert, JobsKnown, ScanKind
    <3> QED BY <2>0, <2>2, <3>1 DEF ScanInsert, JobKind
  <2> QED BY <2>1, <2>2
<1>3. /\ UNCHANGED <<device, feed, white, ruling, overruled>>
      /\ job' = [job EXCEPT ![p] = k]
  BY <1>2 DEF JobStep, SyncInsert, ScanInsert
<1>4. /\ job'[p] = k /\ \A q \in Run \ {p} : job'[q] = job[q]
      /\ job' \in [Run -> JobKind]
  BY <1>0, <1>3
<1>b. JobsKnown'
  BY <1>0, <1>2, <1>4 DEF JobsKnown, Run
<1> DEFINE f == [status |-> "open", source |-> s0]
<1>5. f \in Finding /\ f.status = "open" /\ f.source = s0 /\ f # Nothing
  BY DEF Finding, Nothing
<1> HIDE DEF f
<1>6. \A j \in FindingId : finding'[j] = IF j = i THEN f ELSE finding[j]
  BY <1>0, <1>1 DEF FindingsTypeOK, f
<1>7. FindingsTypeOK'
  <2>1. finding' \in [FindingId -> Finding \cup {Nothing}]
    BY <1>0, <1>1, <1>5 DEF FindingsTypeOK, f
  <2> QED BY <1>0, <1>3, <1>b, <2>1, KindsAreTypes DEF FindingsTypeOK, JobsKnown
<1>8. ASSUME NEW o \in Officer PROVE RulingKnown(o)'
  <2>1. ruling[o] # Ready => ruling[o].id \in FindingId /\ ruling[o].id # i
    BY <1>0, <1>1 DEF FindingsInv, FindingsTypeOK, RulingType, RulingKnown
  <2> QED BY <1>3, <1>6, <2>1 DEF FindingsInv, RulingKnown
<1>9. ASSUME NEW s \in Source PROVE RaisedOnce(s)'
  <2>1. CASE s # s0
    <3>1. Standing(s)' = Standing(s)
      BY <1>1, <1>5, <1>6, <2>1 DEF Standing, OpenFor, RowsFor, IsFinding
    <3>2. Raising(s)' \subseteq Raising(s)
      BY <1>2, <1>4 DEF Raising, Runs, Run
    <3> QED BY <3>1, <3>2, OnceShrinks DEF FindingsInv
  <2>2. CASE s = s0
    <3>1. i \notin Standing(s) /\ Standing(s)' = Standing(s) \cup {i}
      BY <1>1, <1>5, <1>6, <2>2 DEF Standing, OpenFor, RowsFor, IsFinding
    <3>2. p \in Raising(s) /\ Raising(s)' = Raising(s) \ {p}
      BY <1>0, <1>2, <1>4, <2>2 DEF Raising, Runs, Run
    <3>3. RaisedOnce(s)
      BY DEF FindingsInv
    <3>4. /\ IsFiniteSet(Standing(s)) /\ IsFiniteSet(Raising(s))
          /\ Cardinality(Standing(s)) \in Nat /\ Cardinality(Raising(s)) \in Nat
          /\ Cardinality(Runs(s)) \in Nat /\ Runs(s)' = Runs(s)
      BY FindingNumbers DEF Runs
    <3>5. Cardinality(Standing(s)') = Cardinality(Standing(s)) + 1
      BY <3>1, <3>4, FS_AddElement
    <3>6. Cardinality(Raising(s)') = Cardinality(Raising(s)) - 1
      BY <3>2, <3>4, FS_RemoveElement
    <3> QED BY <3>3, <3>4, <3>5, <3>6 DEF RaisedOnce
  <2> QED BY <2>1, <2>2
<1> QED BY <1>b, <1>7, <1>8, <1>9 DEF FindingsInv

\* The environment: the catalogue, and an officer who reads a finding.
LEMMA OutsideFindings ==
  ASSUME FindingsInv,
         \/ \E a \in App : AddSoftware(a) \/ UpdateSoftware(a)
         \/ \E o \in Officer, i \in FindingId : AcknowledgeRead(o, i) \/ ResolveRead(o, i)
  PROVE  FindingsInv'
<1>0. FindingsTypeOK
  BY DEF FindingsInv
<1>1. UNCHANGED <<job, finding, overruled>>
  BY DEF AddSoftware, UpdateSoftware, WriteSoftware, AcknowledgeRead, ResolveRead, RuleRead
<1>2. JobsKnown'
  BY <1>1 DEF FindingsInv, JobsKnown
<1>3. ASSUME NEW s \in Source PROVE RaisedOnce(s)'
  <2>1. Standing(s)' = Standing(s) /\ Raising(s)' = Raising(s)
    BY <1>1 DEF Standing, OpenFor, RowsFor, IsFinding, Raising
  <2> QED BY <2>1, OnceShrinks DEF FindingsInv
<1>4. ASSUME NEW o \in Officer, NEW i \in FindingId, AcknowledgeRead(o, i) \/ ResolveRead(o, i)
      PROVE  FindingsInv'
  <2> PICK pc \in {"acknowledge", "resolve"} :
        ruling' = [ruling EXCEPT ![o] = [pc |-> pc, id |-> i]]
    BY <1>4 DEF AcknowledgeRead, ResolveRead, RuleRead
  <2>1. UNCHANGED <<device, feed, white>>
    BY <1>4 DEF AcknowledgeRead, ResolveRead, RuleRead
  <2>2. finding[i] # Nothing /\ finding[i].status # "resolved"
    BY <1>4 DEF AcknowledgeRead, ResolveRead, IsFinding, Nothing
  <2> DEFINE r == [pc |-> pc, id |-> i]
  <2>3. r \in RulingType /\ r.id = i
    BY DEF RulingType
  <2>4. /\ ruling' \in [Officer -> RulingType] /\ ruling'[o] = r
        /\ \A q \in Officer \ {o} : ruling'[q] = ruling[q]
    BY <1>0, <2>3 DEF FindingsTypeOK
  <2> HIDE DEF r
  <2>5. FindingsTypeOK'
    BY <1>0, <1>1, <2>1, <2>4 DEF FindingsTypeOK
  <2>6. \A q \in Officer : RulingKnown(q)'
    BY <1>1, <2>2, <2>3, <2>4 DEF FindingsInv, RulingKnown
  <2> QED BY <1>2, <1>3, <2>5, <2>6 DEF FindingsInv
<1>5. ASSUME \E a \in App : AddSoftware(a) \/ UpdateSoftware(a)
      PROVE  FindingsInv'
  <2>1. /\ UNCHANGED ruling /\ device' \in [Device -> SUBSET Issue]
        /\ feed' \in [Replica -> SUBSET Device] /\ white' \subseteq App
    BY <1>0, <1>5 DEF AddSoftware, UpdateSoftware, WriteSoftware, FindingsTypeOK
  <2>2. FindingsTypeOK'
    BY <1>0, <1>1, <2>1 DEF FindingsTypeOK
  <2>3. \A q \in Officer : RulingKnown(q)'
    BY <1>1, <2>1 DEF FindingsInv, RulingKnown
  <2> QED BY <1>2, <1>3, <2>2, <2>3 DEF FindingsInv
<1> QED BY <1>4, <1>5

\* setFindingStatus: a finding that is written stays one and leaves "open".
LEMMA RuleFindings ==
  ASSUME FindingsInv, NEW o \in Officer, RuleWrite(o)
  PROVE  FindingsInv'
<1>0. FindingsTypeOK /\ RulingKnown(o) /\ ruling[o] # Ready
  BY DEF FindingsInv, RuleWrite
<1> PICK i \in FindingId : i = ruling[o].id
  BY <1>0 DEF FindingsTypeOK, RulingType
<1>1. PICK st \in {"acknowledged", "resolved"} :
        finding' = [finding EXCEPT ![i].status = st]
  BY DEF RuleWrite
<1>2. /\ UNCHANGED <<device, feed, job, white>>
      /\ ruling' = [ruling EXCEPT ![o] = Ready]
      /\ overruled' = (overruled \cup {q \in Officer : ruling[q] # Ready /\ ruling[q].id = i})
                        \ {o}
  BY DEF RuleWrite
<1> DEFINE f == [finding[i] EXCEPT !.status = st]
<1>3. finding[i] \in Finding
  BY <1>0 DEF RulingKnown, FindingsTypeOK
<1>4. f \in Finding /\ f.status = st /\ f.source = finding[i].source /\ f # Nothing
  BY <1>3 DEF Finding, Nothing
<1> HIDE DEF f
<1>5. \A j \in FindingId : finding'[j] = IF j = i THEN f ELSE finding[j]
  BY <1>0, <1>1 DEF FindingsTypeOK, f
<1>6. FindingsTypeOK'
  <2>1. finding' \in [FindingId -> Finding \cup {Nothing}]
    BY <1>0, <1>1, <1>4 DEF FindingsTypeOK, f
  <2>2. ruling' \in [Officer -> RulingType]
    BY <1>0, <1>2 DEF FindingsTypeOK, RulingType
  <2> QED BY <1>0, <1>2, <2>1, <2>2 DEF FindingsTypeOK
<1>7. ASSUME NEW q \in Officer PROVE RulingKnown(q)'
  <2>1. ruling'[q] = IF q = o THEN Ready ELSE ruling[q]
    BY <1>0, <1>2 DEF FindingsTypeOK
  <2>2. CASE q = o
    BY <2>1, <2>2 DEF RulingKnown
  <2>3. CASE q # o /\ ruling[q] # Ready
    <3>1. ruling[q].id \in FindingId /\ RulingKnown(q)
      BY <1>0, <2>3 DEF FindingsInv, FindingsTypeOK, RulingType
    <3>2. ruling[q].id = i => q \in overruled'
      BY <1>2, <2>3
    <3>3. q \notin overruled' => q \notin overruled
      BY <1>2, <2>3
    <3> QED BY <1>4, <1>5, <2>1, <2>3, <3>1, <3>2, <3>3 DEF RulingKnown
  <2>4. CASE q # o /\ ruling[q] = Ready
    BY <2>1, <2>4 DEF RulingKnown
  <2> QED BY <2>2, <2>3, <2>4
<1>8. ASSUME NEW s \in Source PROVE RaisedOnce(s)'
  <2>1. Raising(s)' = Raising(s)
    BY <1>2 DEF Raising
  <2>2. finding[i] # Nothing
    BY <1>0 DEF RulingKnown
  <2>3. Standing(s)' \subseteq Standing(s)
    BY <1>4, <1>5, <2>2 DEF Standing, OpenFor, RowsFor, IsFinding
  <2> QED BY <2>1, <2>3, OnceShrinks DEF FindingsInv
<1>9. JobsKnown'
  BY <1>2 DEF FindingsInv, JobsKnown
<1> QED BY <1>6, <1>7, <1>8, <1>9 DEF FindingsInv

LEMMA NextFindings == FindingsInv /\ [FindingsNext]_findingVars => FindingsInv'
<1> SUFFICES ASSUME FindingsInv, [FindingsNext]_findingVars PROVE FindingsInv'
  OBVIOUS
<1>1. CASE UNCHANGED findingVars
  <2>1. UNCHANGED <<device, feed, job, white, finding, ruling, events, overruled>>
    BY <1>1 DEF findingVars
  <2>2. FindingsTypeOK' /\ JobsKnown' /\ \A o \in Officer : RulingKnown(o)'
    BY <2>1 DEF FindingsInv, FindingsTypeOK, JobsKnown, RulingKnown
  <2>3. ASSUME NEW s \in Source PROVE RaisedOnce(s)'
    <3>1. Standing(s)' = Standing(s) /\ Raising(s)' = Raising(s)
      BY <2>1 DEF Standing, OpenFor, RowsFor, IsFinding, Raising
    <3> QED BY <3>1, OnceShrinks DEF FindingsInv
  <2> QED BY <2>2, <2>3 DEF FindingsInv
<1>2. ASSUME NEW y \in SyncRun, SyncGoesOn(y) \/ SyncFails(y) PROVE FindingsInv'
  <2>1. y \in Run
    BY DEF Run
  <2> QED BY <1>2, <2>1, SyncFindings, InsertFindings DEF SyncGoesOn
<1>3. ASSUME NEW n \in ScanRun, ScanBegin(n) \/ ScanGoesOn(n) PROVE FindingsInv'
  <2>1. n \in Run
    BY DEF Run
  <2> QED BY <1>3, <2>1, ScanFindings, InsertFindings DEF ScanGoesOn
<1> QED BY <1>1, <1>2, <1>3, RunsMove, OutsideFindings, RuleFindings DEF FindingsNext

\* For any number of processes, of syncs and scans under way in them, of devices,
\* applications and officers, through restarts, failed syncs and resolutions: a
\* device's issues are recorded, and an application flagged, at most as often as
\* runs were at it at one time (graph-sync.service.ts:112-129,
\* shadow-it-detection.service.ts:115-137).
THEOREM FindingsOnceAlways == FindingsSpec => []FindingsOnce
<1>1. FindingsInv => FindingsOnce
  <2> SUFFICES ASSUME FindingsInv PROVE FindingsOnce
    OBVIOUS
  <2>1. ASSUME NEW s \in Source
        PROVE  Cardinality(Standing(s)) <= Cardinality(Runs(s))
    <3>1. RaisedOnce(s)
      BY DEF FindingsInv
    <3> QED BY <3>1, FindingNumbers DEF RaisedOnce
  <2>2. ASSUME NEW d \in Device, NEW r \in SUBSET Issue
        PROVE  Cardinality(RowsFor([of |-> d, issues |-> r])) <= Cardinality(SyncRun)
    <3>1. [of |-> d, issues |-> r] \in DeviceSource
      BY DEF DeviceSource
    <3> QED BY <2>1, <3>1, SourcesApart DEF Standing, Runs
  <2>3. ASSUME NEW a \in App
        PROVE  Cardinality(OpenFor([of |-> a])) <= Cardinality(ScanRun)
    <3>1. [of |-> a] \in AppSource
      BY DEF AppSource
    <3> QED BY <2>1, <3>1, SourcesApart DEF Standing, Runs
  <2> QED BY <2>2, <2>3 DEF FindingsOnce, DeviceRecordedOnce, AppFlaggedOnce
<1> QED BY <1>1, FindingsStart, NextFindings, PTL DEF FindingsSpec

\* A resolved finding is reopened only by a request that had read it before it
\* was resolved, for any number of officers (compliance.service.ts:105-136).
THEOREM ResolutionStandsAlways == FindingsSpec => ResolutionStands
<1> DEFINE Stands ==
             \A i \in FindingId :
               finding[i].status = "resolved" /\ finding'[i].status # "resolved" =>
                 \E o \in overruled : ruling[o] # Ready /\ ruling[o].id = i
<1>1. ASSUME FindingsInv, [FindingsNext]_findingVars PROVE Stands
  <2> SUFFICES ASSUME NEW i \in FindingId, finding[i].status = "resolved",
                      finding'[i].status # "resolved"
               PROVE  \E o \in overruled : ruling[o] # Ready /\ ruling[o].id = i
    OBVIOUS
  <2>1. CASE UNCHANGED finding
    BY <2>1
  <2>2. ASSUME NEW s, InsertFinding(s) PROVE FALSE
    <3>1. PICK j \in FindingId :
            /\ \A k \in FindingId : IsFinding(k) <=> k < j
            /\ finding' = [finding EXCEPT ![j] = [status |-> "open", source |-> s]]
      BY <2>2 DEF InsertFinding
    <3>2. ~(j < j)
      BY DEF FindingId
    <3>3. finding[j] = Nothing
      BY <3>1, <3>2 DEF IsFinding
    <3>4. finding'[i] = finding[i]
      BY <1>1, <3>1, <3>3 DEF FindingsInv, FindingsTypeOK, Nothing
    <3> QED BY <3>4
  <2>3. ASSUME NEW o \in Officer, RuleWrite(o)
        PROVE  \E q \in overruled : ruling[q] # Ready /\ ruling[q].id = i
    <3>1. ruling[o] # Ready /\ ruling[o].id = i
      BY <1>1, <2>3 DEF RuleWrite, FindingsInv, FindingsTypeOK
    <3>2. o \in overruled
      BY <1>1, <3>1 DEF FindingsInv, RulingKnown
    <3> QED BY <3>1, <3>2
  <2>4. \/ UNCHANGED finding \/ (\E s : InsertFinding(s)) \/ \E o \in Officer : RuleWrite(o)
    <3>1. ASSUME \/ \E y \in SyncRun : SyncGoesOn(y) \/ SyncFails(y)
                 \/ \E n \in ScanRun : ScanBegin(n) \/ ScanGoesOn(n)
                 \/ \E p \in Replica : Restart(p)
          PROVE  UNCHANGED finding \/ \E s : InsertFinding(s)
      BY <3>1 DEF SyncGoesOn, SyncFails, Restart, ScanBegin, ScanGoesOn, SyncBegin, SyncDevice,
                  SyncInsert, SyncTooLong, SyncEnd, ScanApp, ScanInsert, ScanEnd
    <3>2. ASSUME \/ \E d \in Device : DeviceChanges(d)
                 \/ \E a \in App : AddSoftware(a) \/ UpdateSoftware(a)
                 \/ \E o \in Officer, j \in FindingId : AcknowledgeRead(o, j) \/ ResolveRead(o, j)
          PROVE  UNCHANGED finding
      BY <3>2 DEF DeviceChanges, AddSoftware, UpdateSoftware, WriteSoftware, AcknowledgeRead,
                  ResolveRead, RuleRead
    <3> QED BY <1>1, <3>1, <3>2 DEF FindingsNext, findingVars
  <2> QED BY <2>1, <2>2, <2>3, <2>4
<1>2. FindingsInv /\ [FindingsNext]_findingVars => [Stands]_findingVars
  BY <1>1
<1> QED BY <1>2, FindingsStart, NextFindings, PTL DEF FindingsSpec, ResolutionStands

-----------------------------------------------------------------------------
(* The rate limiter (RateLimit).                                           *)

\* A request let through less than a window ago, as far as any process's clock
\* can tell, still has its entry in the sorted set: neither a trim nor the
\* expiry of the key has dropped it.
Remembered ==
  \A a \in admitted :
    a.at + Window > redisNow + Spread =>
      \E e \in entries : e.try = a.try /\ e.score >= a.at

LimiterInv ==
  /\ redisNow \in Nat /\ keyEnd \in Nat /\ tries \in Nat
  /\ entries \subseteq [score: Nat, try: Nat]
  /\ IsFiniteSet(entries) /\ Cardinality(entries) <= Limit
  /\ admitted \subseteq [at: Nat, try: Nat] /\ IsFiniteSet(admitted)
  /\ \A a \in admitted : a.at <= redisNow /\ a.try < tries /\ a.at + Window <= keyEnd
  /\ \A a, b \in admitted : a.try = b.try => a = b
  /\ Remembered
  /\ LimiterKeepsWindow

LEMMA CeilingReaches ==
  ASSUME NEW n \in Nat, NEW s \in Nat \ {0}
  PROVE  /\ (n + s - 1) \div s \in Nat
         /\ ((n + s - 1) \div s) * s \in Nat /\ ((n + s - 1) \div s) * s >= n
OBVIOUS

\* The first entry by score is what ZRANGE finds.
LEMMA OldestIsFirst ==
  ASSUME NEW S \in SUBSET [score: Nat, try: Nat], S # {}
  PROVE  \E e \in S : Oldest(S) = e.score
<1> DEFINE T == {e.score : e \in S}
<1>1. T \subseteq Nat /\ T # {}
  OBVIOUS
<1> DEFINE Less == {p \in Nat \X Nat : p[1] < p[2]}
<1>2. PICK m \in T : \A y \in T : ~ (<<y, m>> \in Less)
  <2>1. IsWellFoundedOn(Less, Nat)
    BY NatLessThanWellFounded, Zenon DEF OpToRel
  <2> HIDE DEF T, Less
  <2> QED BY <1>1, <2>1, WFMin
<1>3. \A y \in T : ~ (y < m)
  <2> HIDE DEF T
  <2> QED BY <1>1, <1>2
<1>4. \A e \in S : e.score \in T
  OBVIOUS
<1>5. \A e \in S : m <= e.score
  <2> HIDE DEF T
  <2> QED BY <1>1, <1>3, <1>4
<1>6. Oldest(S) \in T
  BY <1>5 DEF Oldest
<1> QED BY <1>6

LEMMA TrimIsPart ==
  ASSUME LimiterInv, NEW now
  PROVE  /\ Held \subseteq entries
         /\ Trimmed(Held, now) \subseteq entries
         /\ IsFiniteSet(Trimmed(Held, now))
         /\ Cardinality(Trimmed(Held, now)) \in Nat
         /\ Cardinality(Trimmed(Held, now)) <= Limit
<1>1. Held \subseteq entries /\ Trimmed(Held, now) \subseteq entries
  BY DEF Held, Trimmed
<1>2. IsFiniteSet(Trimmed(Held, now)) /\ Cardinality(Trimmed(Held, now)) <= Cardinality(entries)
  BY <1>1, FS_Subset DEF LimiterInv
<1>3. Cardinality(Trimmed(Held, now)) \in Nat /\ Cardinality(entries) \in Nat
  BY <1>2, FS_CardinalityType DEF LimiterInv
<1> QED BY <1>1, <1>2, <1>3, RateAssumption DEF LimiterInv

\* Trimming, at any process's clock, keeps the entries that matter.
LEMMA TrimRemembers ==
  ASSUME LimiterInv, NEW d \in 0..Spread, NEW a \in admitted,
         a.at + Window > redisNow + Spread
  PROVE  \E e \in Trimmed(Held, redisNow + d) : e.try = a.try /\ e.score >= a.at
<1>1. PICK e \in entries : e.try = a.try /\ e.score >= a.at
  BY DEF LimiterInv, Remembered
<1>2. a.at \in Nat /\ e.score \in Nat /\ redisNow \in Nat /\ keyEnd \in Nat /\ a.at + Window <= keyEnd
  BY DEF LimiterInv
<1>3. ~ (redisNow >= keyEnd)
  BY <1>2, RateAssumption
<1>4. e \in Held
  BY <1>1, <1>3 DEF Held
<1>5. e.score + Window > redisNow + d
  BY <1>1, <1>2, RateAssumption
<1> QED BY <1>1, <1>4, <1>5 DEF Trimmed

\* The requests that a script running now could still see.
Recent == {a \in admitted : a.at + Window > redisNow + Spread}

\* There are no more of them than entries left after the trim: each has its own.
LEMMA FewRecent ==
  ASSUME LimiterInv, NEW d \in 0..Spread
  PROVE  /\ IsFiniteSet(Recent) /\ Cardinality(Recent) \in Nat
         /\ Cardinality(Recent) <= Cardinality(Trimmed(Held, redisNow + d))
<1> DEFINE left == Trimmed(Held, redisNow + d)
           own == [a \in Recent |-> CHOOSE e \in left : e.try = a.try]
<1>1. \A a \in Recent : own[a] \in left /\ own[a].try = a.try
  BY TrimRemembers DEF Recent
<1>2. \A a, b \in Recent : a.try = b.try => a = b
  BY DEF LimiterInv, Recent
<1>3. IsFiniteSet(left)
  BY TrimIsPart
<1>4. own \in [Recent -> left]
  BY <1>1
<1> HIDE DEF left, own
<1>5. own \in Injection(Recent, left)
  BY <1>1, <1>2, <1>4 DEF Injection, IsInjective
<1>6. IsFiniteSet(Recent) /\ Cardinality(Recent) <= Cardinality(left)
  BY <1>3, <1>5, FS_Injection
<1>7. Cardinality(Recent) \in Nat
  BY <1>6, FS_CardinalityType
<1> QED BY <1>6, <1>7 DEF left

LEMMA InitLimiter == RateInit => LimiterInv
<1> SUFFICES ASSUME RateInit
             PROVE  LimiterInv
  OBVIOUS
<1>1. \A t : {a \in admitted : t <= a.at /\ a.at < t + (Window - Spread)} = {}
  BY DEF RateInit
<1>2. BurstIsBounded
  BY <1>1, FS_EmptySet, RateAssumption DEF BurstIsBounded
<1> QED BY <1>2, FS_EmptySet, RateAssumption
        DEF RateInit, LimiterInv, Remembered, LimiterKeepsWindow, RetryAfterSuffices

LEMMA AdmittedKeepsLimiter ==
  ASSUME LimiterInv, NEW d \in 0..Spread, RequestAdmitted(d)
  PROVE  LimiterInv'
<1> DEFINE now == redisNow + d
           left == Trimmed(Held, now)
           entry == [score |-> now, try |-> tries]
           request == [at |-> redisNow, try |-> tries]
<1>1. /\ entries' = left \cup {entry} /\ admitted' = admitted \cup {request}
      /\ Cardinality(left) < Limit /\ keyEnd' = redisNow + Window
      /\ tries' = tries + 1 /\ redisNow' = redisNow /\ retryOk' = retryOk
  BY DEF RequestAdmitted
<1>2. /\ redisNow \in Nat /\ tries \in Nat /\ now \in Nat /\ Window \in Nat /\ Spread \in Nat
      /\ Limit \in Nat /\ d >= 0 /\ Spread < Window
  BY RateAssumption DEF LimiterInv
<1>3. entry.score = now /\ entry.try = tries /\ entry \in [score: Nat, try: Nat]
  BY <1>2
<1>4. request.at = redisNow /\ request.try = tries /\ request \in [at: Nat, try: Nat]
  BY <1>2
<1>5. left \subseteq entries /\ IsFiniteSet(left) /\ Cardinality(left) \in Nat
  BY TrimIsPart
<1>6. \A a \in admitted : a.at + Window > redisNow + Spread =>
        \E e \in left : e.try = a.try /\ e.score >= a.at
  BY TrimRemembers
<1>7. /\ IsFiniteSet(Recent) /\ Cardinality(Recent) \in Nat
      /\ Cardinality(Recent) <= Cardinality(left)
  BY FewRecent
<1>8. now >= redisNow
  BY <1>2
<1> HIDE DEF now, left, entry, request
<1>9. IsFiniteSet(entries') /\ Cardinality(entries') <= Limit
  <2>1. IsFiniteSet(left \cup {entry}) /\ Cardinality(left \cup {entry}) <= Cardinality(left) + 1
    BY <1>5, FS_AddElement
  <2>2. Cardinality(left \cup {entry}) \in Nat
    BY <2>1, FS_CardinalityType
  <2> QED BY <1>1, <1>2, <1>5, <2>1, <2>2
<1>10. IsFiniteSet(admitted')
  BY <1>1, FS_AddElement DEF LimiterInv
<1>11. /\ entries' \subseteq [score: Nat, try: Nat] /\ admitted' \subseteq [at: Nat, try: Nat]
       /\ redisNow' \in Nat /\ keyEnd' \in Nat /\ tries' \in Nat
  BY <1>1, <1>2, <1>3, <1>4, <1>5 DEF LimiterInv
<1>12. \A a \in admitted' : a.at <= redisNow' /\ a.try < tries' /\ a.at + Window <= keyEnd'
  <2> TAKE a \in admitted'
  <2>1. CASE a = request
    BY <1>1, <1>2, <1>4, <2>1
  <2>2. CASE a \in admitted
    <3>1. a.at \in Nat /\ a.try \in Nat /\ a.at <= redisNow /\ a.try < tries
      BY <2>2 DEF LimiterInv
    <3> QED BY <1>1, <1>2, <3>1
  <2> QED BY <1>1, <2>1, <2>2
<1>13. \A a, b \in admitted' : a.try = b.try => a = b
  <2>1. \A a \in admitted : a.try # tries
    BY <1>2 DEF LimiterInv
  <2> QED BY <1>1, <1>4, <2>1 DEF LimiterInv
<1>14. Remembered'
  <2> SUFFICES ASSUME NEW a \in admitted', a.at + Window > redisNow + Spread
               PROVE  \E e \in entries' : e.try = a.try /\ e.score >= a.at
    BY <1>1 DEF Remembered
  <2>1. CASE a = request
    BY <1>1, <1>3, <1>4, <1>8, <2>1
  <2>2. CASE a \in admitted
    BY <1>1, <1>6, <2>2
  <2> QED BY <1>1, <2>1, <2>2
<1>15. BurstIsBounded'
  <2> SUFFICES ASSUME NEW t \in 0..MaxTime
               PROVE  Cardinality({a \in admitted' : t <= a.at /\ a.at < t + (Window - Spread)}) <= Limit
    BY DEF BurstIsBounded
  <2> DEFINE old == {a \in admitted : t <= a.at /\ a.at < t + (Window - Spread)}
             new == {a \in admitted' : t <= a.at /\ a.at < t + (Window - Spread)}
  <2>1. Cardinality(old) <= Limit
    BY DEF LimiterInv, LimiterKeepsWindow, BurstIsBounded
  <2>2. CASE t <= redisNow /\ redisNow < t + (Window - Spread)
    <3>1. old \subseteq Recent
      <4> SUFFICES ASSUME NEW a \in admitted, t <= a.at
                   PROVE  a.at + Window > redisNow + Spread
        BY DEF Recent
      <4>1. a.at \in Nat
        BY DEF LimiterInv
      <4> QED BY <1>2, <2>2, <4>1
    <3>2. new \subseteq Recent \cup {request}
      <4>1. \A a \in new : a = request \/ a \in old
        BY <1>1
      <4> HIDE DEF old, new
      <4> QED BY <3>1, <4>1
    <3> HIDE DEF old, new
    <3>3. /\ IsFiniteSet(Recent \cup {request})
          /\ Cardinality(Recent \cup {request}) <= Cardinality(Recent) + 1
      <4> DEFINE n == Cardinality(Recent \cup {request})
      <4>1. IsFiniteSet(Recent \cup {request}) /\ n \in {Cardinality(Recent), Cardinality(Recent) + 1}
        BY <1>7, FS_AddElement, Zenon
      <4> HIDE DEF n
      <4>2. n <= Cardinality(Recent) + 1
        BY <1>7, <4>1
      <4> QED BY <4>1, <4>2 DEF n
    <3>4. IsFiniteSet(new) /\ Cardinality(new) <= Cardinality(Recent \cup {request})
      BY <3>2, <3>3, FS_Subset
    <3>5. Cardinality(new) \in Nat /\ Cardinality(Recent \cup {request}) \in Nat
      BY <3>3, <3>4, FS_CardinalityType
    <3>6. Cardinality(new) <= Limit
      BY <1>1, <1>2, <1>5, <1>7, <3>3, <3>4, <3>5
    <3> QED BY <3>6 DEF new
  <2>3. CASE ~ (t <= redisNow /\ redisNow < t + (Window - Spread))
    <3>1. new = old
      BY <1>1, <1>4, <2>3
    <3> QED BY <2>1, <3>1
  <2> QED BY <2>2, <2>3
<1>16. RetryAfterSuffices'
  BY <1>1 DEF LimiterInv, LimiterKeepsWindow, RetryAfterSuffices
<1> QED BY <1>9, <1>10, <1>11, <1>12, <1>13, <1>14, <1>15, <1>16
        DEF LimiterInv, LimiterKeepsWindow

\* Who waits as long as he is told finds the oldest entry gone.
LEMMA WaitFindsRoom ==
  ASSUME NEW left \in SUBSET [score: Nat, try: Nat], IsFiniteSet(left),
         Cardinality(left) = Limit, NEW now \in Nat, left = Trimmed(left, now)
  PROVE  Cardinality(Trimmed(left, now + RetryAfter(left, now) * Second)) < Limit
<1> DEFINE later == now + RetryAfter(left, now) * Second
           rest == Trimmed(left, later)
<1>1. left # {}
  BY FS_EmptySet, RateAssumption
<1>2. PICK e \in left : Oldest(left) = e.score
  BY <1>1, OldestIsFirst
<1>3. e.score \in Nat /\ e.score + Window > now
  BY DEF Trimmed
<1>4. e.score + Window - now \in Nat
  BY <1>3, RateAssumption
<1>5. RetryAfter(left, now) = ((e.score + Window - now) + Second - 1) \div Second
  BY <1>2, <1>3 DEF RetryAfter
<1>6. RetryAfter(left, now) * Second \in Nat /\ RetryAfter(left, now) * Second >= e.score + Window - now
  BY <1>4, <1>5, CeilingReaches, RateAssumption
<1>7. later \in Nat /\ ~ (e.score + Window > later)
  BY <1>3, <1>6, RateAssumption
<1> HIDE DEF later
<1>8. rest \subseteq left /\ e \notin rest
  BY <1>7 DEF Trimmed
<1> HIDE DEF rest
<1>9. IsFiniteSet(rest) /\ Cardinality(rest) <= Cardinality(left) /\ Cardinality(rest) # Cardinality(left)
  BY <1>2, <1>8, FS_Subset
<1>10. Cardinality(rest) \in Nat /\ Limit \in Nat
  BY <1>9, FS_CardinalityType, RateAssumption
<1> QED BY <1>9, <1>10 DEF rest, later

LEMMA RefusedKeepsLimiter ==
  ASSUME LimiterInv, NEW d \in 0..Spread, RequestRefused(d)
  PROVE  LimiterInv'
<1> DEFINE now == redisNow + d
           left == Trimmed(Held, now)
<1>1. /\ entries' = left /\ Cardinality(left) >= Limit /\ tries' = tries + 1
      /\ retryOk' = (retryOk /\ Cardinality(Trimmed(left, now + RetryAfter(left, now) * Second)) < Limit)
      /\ redisNow' = redisNow /\ keyEnd' = keyEnd /\ admitted' = admitted
  BY DEF RequestRefused
<1>2. /\ left \subseteq entries /\ IsFiniteSet(left) /\ Cardinality(left) \in Nat
      /\ Cardinality(left) <= Limit
  BY TrimIsPart
<1>3. \A a \in admitted : a.at + Window > redisNow + Spread =>
        \E e \in left : e.try = a.try /\ e.score >= a.at
  BY TrimRemembers
<1>4. left = Trimmed(left, now)
  BY DEF Trimmed
<1>5. now \in Nat /\ Limit \in Nat
  BY RateAssumption DEF LimiterInv
<1> HIDE DEF now, left
<1>6. Cardinality(left) = Limit /\ left \in SUBSET [score: Nat, try: Nat]
  BY <1>1, <1>2, <1>5 DEF LimiterInv
<1>7. Cardinality(Trimmed(left, now + RetryAfter(left, now) * Second)) < Limit
  BY <1>2, <1>4, <1>5, <1>6, WaitFindsRoom
<1>8. RetryAfterSuffices'
  BY <1>1, <1>7 DEF LimiterInv, LimiterKeepsWindow, RetryAfterSuffices
<1>9. Remembered' /\ BurstIsBounded'
  BY <1>1, <1>3 DEF Remembered, LimiterInv, LimiterKeepsWindow, BurstIsBounded
<1>10. \A a \in admitted' : a.at <= redisNow' /\ a.try < tries' /\ a.at + Window <= keyEnd'
  BY <1>1 DEF LimiterInv
<1> QED BY <1>1, <1>2, <1>6, <1>8, <1>9, <1>10 DEF LimiterInv, LimiterKeepsWindow

LEMMA NextLimiter == LimiterInv /\ [RateNext]_rateVars => LimiterInv'
<1> SUFFICES ASSUME LimiterInv, [RateNext]_rateVars
             PROVE  LimiterInv'
  OBVIOUS
<1>1. ASSUME RequestUnlimited
      PROVE  LimiterInv'
  BY <1>1 DEF RequestUnlimited, LimiterInv, Remembered, LimiterKeepsWindow, BurstIsBounded,
              RetryAfterSuffices
<1>2. ASSUME TimePasses
      PROVE  LimiterInv'
  BY <1>2, RateAssumption
     DEF TimePasses, LimiterInv, Remembered, LimiterKeepsWindow, BurstIsBounded, RetryAfterSuffices
<1>3. CASE UNCHANGED rateVars
  BY <1>3 DEF rateVars, LimiterInv, Remembered, LimiterKeepsWindow, BurstIsBounded,
              RetryAfterSuffices
<1> QED BY <1>1, <1>2, <1>3, AdmittedKeepsLimiter, RefusedKeepsLimiter DEF RateNext

\* For any limit, window, number of requests and clocks that lie less than a
\* window apart, no burst exceeds the limit and every Retry-After handed out was
\* long enough (rate-limit.guard.ts).  The invariant adds that every request
\* still inside the window has its entry, so that the entries after a trim are
\* at least as many as the requests they stand for.
THEOREM LimiterKeepsWindowAlways == RateSpec => []LimiterKeepsWindow
<1>1. LimiterInv => LimiterKeepsWindow
  BY DEF LimiterInv
<1> QED BY <1>1, InitLimiter, NextLimiter, PTL DEF RateSpec

-----------------------------------------------------------------------------
(* Timesheets (Timesheets).                                                *)

\* A call in flight was let in by the status it read: it hands in what it saw as
\* a draft or as rejected, and reviews what it saw as submitted.
LetIn(k) ==
  \/ k.to = "submitted" /\ k.seen.status \in {"draft", "rejected"}
  \/ k.to \in {"approved", "rejected"} /\ k.seen.status = "submitted"

SheetsInv ==
  /\ SheetsTypeOK
  /\ sheetCall \in [SheetCall -> {AtDesk} \cup
       [pc: {"read"}, sheet: Sheet, to: {"submitted", "approved", "rejected"}, seen: SheetRow]]
  /\ \A c \in SheetCall : sheetCall[c].pc = "read" => LetIn(sheetCall[c])

LEMMA InitSheets == SheetsInit => SheetsInv
BY SheetAssumption
   DEF SheetsInit, SheetsInv, SheetsTypeOK, SheetRow, NoSheet, AtDesk

LEMMA ReadKeepsSheets ==
  ASSUME SheetsInv, NEW c \in SheetCall, NEW t \in Sheet,
         NEW to \in {"submitted", "approved", "rejected"}, SheetRead(c, t, to),
         \/ to = "submitted" /\ sheet[t].status \in {"draft", "rejected"}
         \/ to \in {"approved", "rejected"} /\ sheet[t].status = "submitted"
  PROVE  SheetsInv' /\ sheet' = sheet
<1> DEFINE k == [pc |-> "read", sheet |-> t, to |-> to, seen |-> sheet[t]]
<1>1. /\ sheetCall' = [sheetCall EXCEPT ![c] = k] /\ sheet' = sheet /\ shifts' = shifts
      /\ sheetOps' \in 0..MaxSheetOps
  BY SheetAssumption DEF SheetRead, SheetOp, SheetsInv, SheetsTypeOK
<1>2. k \in [pc: {"read"}, sheet: Sheet, to: {"submitted", "approved", "rejected"}, seen: SheetRow]
  BY DEF SheetsInv, SheetsTypeOK
<1>3. LetIn(k)
  BY DEF LetIn
<1> HIDE DEF k
<1>4. SheetsTypeOK'
  BY <1>1 DEF SheetsInv, SheetsTypeOK
<1>5. \A d \in SheetCall : sheetCall'[d] = IF d = c THEN k ELSE sheetCall[d]
  BY <1>1 DEF SheetsInv
<1>6. \A d \in SheetCall : sheetCall'[d].pc = "read" => LetIn(sheetCall'[d])
  BY <1>3, <1>5 DEF SheetsInv
<1>7. sheetCall' \in [SheetCall -> {AtDesk} \cup
        [pc: {"read"}, sheet: Sheet, to: {"submitted", "approved", "rejected"}, seen: SheetRow]]
  BY <1>1, <1>2 DEF SheetsInv
<1> QED BY <1>1, <1>4, <1>6, <1>7 DEF SheetsInv, LetIn

\* A write whose read still holds goes one way through the statuses.
LEMMA WriteKeepsSheets ==
  ASSUME SheetsInv, NEW c \in SheetCall, SetTimesheetStatus(c)
  PROVE  /\ SheetsInv'
         /\ \A t \in Sheet :
              sheet[t].status \in {"approved", "rejected"} /\ sheet'[t] # sheet[t] =>
                \/ sheet[t].status = "rejected" /\ sheet'[t].status = "submitted"
                \/ t \in overwritten'
<1> DEFINE k == sheetCall[c]
           row == [status |-> k.to, approved |-> k.to = "approved"]
<1>1. k.pc = "read" /\ k.sheet \in Sheet /\ k.to \in {"submitted", "approved", "rejected"} /\ LetIn(k)
  BY DEF SetTimesheetStatus, SheetsInv, AtDesk
<1>2. /\ sheet' = [sheet EXCEPT ![k.sheet] = row] /\ sheetCall' = [sheetCall EXCEPT ![c] = AtDesk]
      /\ shifts' = shifts /\ sheetOps' = sheetOps
  BY DEF SetTimesheetStatus
<1>3. sheet[k.sheet] # k.seen => k.sheet \in overwritten'
  BY DEF SetTimesheetStatus
<1>4. row \in SheetRow /\ row.status = k.to /\ (row.approved <=> row.status = "approved")
  BY <1>1 DEF SheetRow
<1>5. sheet[k.sheet] = k.seen =>
        \/ k.to = "submitted" /\ sheet[k.sheet].status \in {"draft", "rejected"}
        \/ sheet[k.sheet].status = "submitted"
  BY <1>1 DEF LetIn
<1> HIDE DEF k, row
<1>6. \A t \in Sheet : sheet'[t] = IF t = k.sheet THEN row ELSE sheet[t]
  BY <1>2 DEF SheetsInv, SheetsTypeOK
<1>7. SheetsTypeOK'
  <2>1. sheet' \in [Sheet -> SheetRow]
    BY <1>2, <1>4 DEF SheetsInv, SheetsTypeOK
  <2>2. \A t \in Sheet : sheet'[t].approved <=> sheet'[t].status = "approved"
    BY <1>4, <1>6, Zenon DEF SheetsInv, SheetsTypeOK
  <2> QED BY <1>2, <2>1, <2>2 DEF SheetsInv, SheetsTypeOK
<1>8. \A d \in SheetCall : sheetCall'[d] = IF d = c THEN AtDesk ELSE sheetCall[d]
  BY <1>2 DEF SheetsInv
<1>9. \A d \in SheetCall : sheetCall'[d].pc = "read" => LetIn(sheetCall'[d])
  BY <1>8 DEF SheetsInv, AtDesk
<1>10. sheetCall' \in [SheetCall -> {AtDesk} \cup
         [pc: {"read"}, sheet: Sheet, to: {"submitted", "approved", "rejected"}, seen: SheetRow]]
  BY <1>2 DEF SheetsInv
<1>11. SheetsInv'
  BY <1>7, <1>9, <1>10 DEF SheetsInv, LetIn
<1> QED BY <1>3, <1>4, <1>5, <1>6, <1>11

LEMMA NextSheets ==
  ASSUME SheetsInv, [SheetsNext]_sheetVars
  PROVE  /\ SheetsInv'
         /\ \A t \in Sheet :
              sheet[t].status \in {"approved", "rejected"} /\ sheet'[t] # sheet[t] =>
                \/ sheet[t].status = "rejected" /\ sheet'[t].status = "submitted"
                \/ t \in overwritten'
<1>1. ASSUME NEW t \in Sheet, CreateTimesheet(t)
      PROVE  /\ SheetsInv'
             /\ \A u \in Sheet : sheet'[u] # sheet[u] => sheet[u].status = "none"
  <2>1. /\ sheet[t] = NoSheet /\ sheet' = [sheet EXCEPT ![t].status = "draft"]
        /\ sheetCall' = sheetCall /\ shifts' = shifts /\ sheetOps' \in 0..MaxSheetOps
    BY <1>1, SheetAssumption DEF CreateTimesheet, SheetOp, SheetsInv, SheetsTypeOK
  <2>2. /\ sheet' \in [Sheet -> SheetRow]
        /\ \A u \in Sheet : sheet'[u] = IF u = t THEN [sheet[u] EXCEPT !.status = "draft"] ELSE sheet[u]
    BY <2>1 DEF SheetsInv, SheetsTypeOK, SheetRow
  <2>3. \A u \in Sheet : sheet'[u].approved <=> sheet'[u].status = "approved"
    <3> TAKE u \in Sheet
    <3>1. CASE u = t
      <4>1. sheet'[u].status = "draft" /\ sheet'[u].approved = sheet[u].approved /\ sheet[u] = NoSheet
        BY <2>1, <2>2, <3>1 DEF SheetsInv, SheetsTypeOK, SheetRow
      <4> QED BY <4>1 DEF NoSheet
    <3>2. CASE u # t
      BY <2>2, <3>2, Zenon DEF SheetsInv, SheetsTypeOK
    <3> QED BY <3>1, <3>2
  <2>4. SheetsTypeOK'
    BY <2>1, <2>2, <2>3 DEF SheetsInv, SheetsTypeOK
  <2>5. \A u \in Sheet : sheet'[u] # sheet[u] => sheet[u].status = "none"
    BY <2>1, <2>2 DEF NoSheet
  <2> QED BY <2>1, <2>4, <2>5 DEF SheetsInv, LetIn
<1>2. ASSUME NEW a \in Hour, NEW b \in Hour, CreateShiftLog(a, b)
      PROVE  SheetsInv' /\ sheet' = sheet
  <2>1. /\ shifts' = shifts \cup {<<a, b>>} /\ <<a, b>> \in Shift
        /\ sheet' = sheet /\ sheetCall' = sheetCall /\ sheetOps' \in 0..MaxSheetOps
    BY <1>2, SheetAssumption DEF CreateShiftLog, SheetOp, Shift, SheetsInv, SheetsTypeOK
  <2> QED BY <2>1 DEF SheetsInv, SheetsTypeOK, LetIn
<1>3. ASSUME NEW c \in SheetCall, NEW t \in Sheet, SubmitTimesheet(c, t) \/ ReviewTimesheet(c, t)
      PROVE  SheetsInv' /\ sheet' = sheet
  BY <1>3, ReadKeepsSheets DEF SubmitTimesheet, ReviewTimesheet
<1>4. ASSUME NEW c \in SheetCall, SheetCallFails(c)
      PROVE  SheetsInv' /\ sheet' = sheet
  <2>1. /\ sheetCall' = [sheetCall EXCEPT ![c] = AtDesk]
        /\ sheet' = sheet /\ shifts' = shifts /\ sheetOps' = sheetOps
    BY <1>4 DEF SheetCallFails
  <2>2. \A d \in SheetCall : sheetCall'[d] = IF d = c THEN AtDesk ELSE sheetCall[d]
    BY <2>1 DEF SheetsInv
  <2>3. \A d \in SheetCall : sheetCall'[d].pc = "read" => LetIn(sheetCall'[d])
    BY <2>2 DEF SheetsInv, AtDesk
  <2>4. SheetsTypeOK'
    BY <2>1 DEF SheetsInv, SheetsTypeOK
  <2>5. sheetCall' \in [SheetCall -> {AtDesk} \cup
          [pc: {"read"}, sheet: Sheet, to: {"submitted", "approved", "rejected"}, seen: SheetRow]]
    BY <2>1 DEF SheetsInv
  <2> QED BY <2>1, <2>3, <2>4, <2>5 DEF SheetsInv, LetIn
<1>5. CASE UNCHANGED sheetVars
  BY <1>5 DEF sheetVars, SheetsInv, SheetsTypeOK, LetIn
<1>6. CASE \E t \in Sheet : CreateTimesheet(t)
  BY <1>1, <1>6
<1>7. CASE (\E a, b \in Hour : CreateShiftLog(a, b)) \/
           \E c \in SheetCall :
             (\E t \in Sheet : SubmitTimesheet(c, t) \/ ReviewTimesheet(c, t)) \/ SheetCallFails(c)
  BY <1>2, <1>3, <1>4, <1>7
<1>8. CASE \E c \in SheetCall : SetTimesheetStatus(c)
  BY <1>8, WriteKeepsSheets
<1> QED BY <1>5, <1>6, <1>7, <1>8 DEF SheetsNext

\* For any timesheets and requests in flight: a reviewer's verdict changes only
\* by the employee handing a rejected timesheet in again, or by a call that had
\* read the row before the verdict (workforce.service.ts:70-100).  The invariant
\* adds that the status a call read let it do what it is about to do.
THEOREM VerdictStandsAlways == SheetsSpec => VerdictStands
<1>1. SheetsSpec => []SheetsInv
  BY InitSheets, NextSheets, PTL DEF SheetsSpec
<1>2. SheetsInv /\ [SheetsNext]_sheetVars =>
        [\A t \in Sheet :
           sheet[t].status \in {"approved", "rejected"} /\ sheet'[t] # sheet[t] =>
             \/ sheet[t].status = "rejected" /\ sheet'[t].status = "submitted"
             \/ t \in overwritten']_sheetVars
  BY NextSheets
<1> QED BY <1>1, <1>2, PTL DEF SheetsSpec, VerdictStands

-----------------------------------------------------------------------------
(* The copy of the security baseline (SecurityPosture).                    *)

Inserting == {p \in Syncer : syncing[p].pc = "insert"}

\* A row is the work of one sync, which is no longer about to insert.
RowsAreEarned ==
  \A d \in Date : checks[d] + Cardinality(Inserting) <= Cardinality(Syncer)

\* Unless the last DELETE found another sync about to insert, the table is empty
\* while one is, and there is but one.
OneAtWork ==
  ~mixed => /\ Inserting # {} => checks = NoChecks
            /\ \A p, q \in Inserting : p = q

PostureInv ==
  /\ PostureTypeOK
  /\ \A p \in Syncer : syncing[p].pc # "idle" => syncing[p].day \in Date
  /\ RowsAreEarned /\ OneAtWork /\ BaselineIsOneCycle

LEMMA InsertingCounts ==
  /\ IsFiniteSet(Inserting) /\ Cardinality(Inserting) \in Nat
  /\ Cardinality(Inserting) <= Cardinality(Syncer) /\ Cardinality(Syncer) \in Nat
  /\ Inserting # {} => Cardinality(Inserting) >= 1
<1>1. IsFiniteSet(Syncer) /\ Inserting \in SUBSET Syncer
  BY PostureAssumption DEF Inserting
<1>2. IsFiniteSet(Inserting) /\ Cardinality(Inserting) <= Cardinality(Syncer)
  BY <1>1, FS_Subset
<1>3. Cardinality(Inserting) \in Nat /\ Cardinality(Syncer) \in Nat
  BY <1>1, <1>2, FS_CardinalityType
<1>4. Inserting # {} => Cardinality(Inserting) # 0
  BY <1>2, FS_EmptySet
<1> QED BY <1>2, <1>3, <1>4

LEMMA InitPosture == PostureInit => PostureInv
<1> SUFFICES ASSUME PostureInit
             PROVE  PostureInv
  OBVIOUS
<1>1. Inserting = {}
  BY DEF PostureInit, Inserting, NotSyncing
<1>2. Cardinality(Inserting) = 0 /\ Cardinality(Syncer) \in Nat /\ Cardinality(Syncer) # 0
  BY <1>1, FS_EmptySet, FS_CardinalityType, PostureAssumption
<1>3. PostureTypeOK
  <2>1. day \in Date /\ 0 \in 0..day /\ 0 \in 0..MaxShots /\ 0 \in 0..Cardinality(Syncer)
    BY <1>2, PostureAssumption DEF PostureInit, Date
  <2>2. /\ shots \in [Date -> 0..MaxShots] /\ checks \in [Date -> 0..Cardinality(Syncer)]
        /\ mixed \in BOOLEAN
    BY <2>1 DEF PostureInit, NoChecks
  <2>3. syncing \in [Syncer -> [pc: {"idle", "fetch", "delete", "insert"}, day: 0..day]]
    BY <2>1 DEF PostureInit, NotSyncing
  <2> QED BY <2>1, <2>2, <2>3 DEF PostureTypeOK
<1>4. \A d \in Date : checks[d] = 0
  BY DEF PostureInit, NoChecks
<1>5. RowsAreEarned /\ BaselineIsOneCycle
  BY <1>2, <1>4 DEF RowsAreEarned, BaselineIsOneCycle
<1>6. OneAtWork
  BY <1>1 DEF OneAtWork
<1>7. \A p \in Syncer : syncing[p].pc = "idle"
  BY DEF PostureInit, NotSyncing
<1> QED BY <1>3, <1>5, <1>6, <1>7 DEF PostureInv

\* One sync goes to another phase; how many are about to insert follows.
LEMMA PhaseChange ==
  ASSUME PostureInv, NEW p \in Syncer,
         NEW k \in [pc: {"idle", "fetch", "delete", "insert"}, day: 0..day],
         syncing' = [syncing EXCEPT ![p] = k], k.pc # "idle" => k.day \in Date, day' = day
  PROVE  /\ syncing' \in [Syncer -> [pc: {"idle", "fetch", "delete", "insert"}, day: 0..day']]
         /\ \A q \in Syncer : syncing'[q].pc # "idle" => syncing'[q].day \in Date
         /\ k.pc # "insert" => Inserting' = Inserting \ {p}
         /\ k.pc = "insert" => Inserting' = Inserting \cup {p}
<1>1. \A q \in Syncer : syncing'[q] = IF q = p THEN k ELSE syncing[q]
  BY DEF PostureInv, PostureTypeOK
<1>2. Inserting' = {q \in Syncer : syncing'[q].pc = "insert"}
  BY DEF Inserting
<1>3. k.pc # "insert" => Inserting' = Inserting \ {p}
  BY <1>1, <1>2 DEF Inserting
<1>4. k.pc = "insert" => Inserting' = Inserting \cup {p}
  BY <1>1, <1>2 DEF Inserting
<1> QED BY <1>1, <1>3, <1>4 DEF PostureInv, PostureTypeOK

\* Steps that leave the table alone and insert nothing later.
LEMMA QuietPosture ==
  ASSUME PostureInv, NEW p \in Syncer,
         NEW k \in [pc: {"idle", "fetch", "delete"}, day: 0..day],
         syncing' = [syncing EXCEPT ![p] = k], k.pc # "idle" => k.day \in Date,
         UNCHANGED <<day, checks, mixed>>, shots' \in [Date -> 0..MaxShots]
  PROVE  PostureInv'
<1>1. /\ syncing' \in [Syncer -> [pc: {"idle", "fetch", "delete", "insert"}, day: 0..day']]
      /\ \A q \in Syncer : syncing'[q].pc # "idle" => syncing'[q].day \in Date
      /\ Inserting' = Inserting \ {p}
  BY PhaseChange
<1>2. /\ Cardinality(Inserting') \in Nat /\ Cardinality(Inserting) \in Nat
      /\ Cardinality(Inserting') <= Cardinality(Inserting) /\ Cardinality(Syncer) \in Nat
  <2>1. IsFiniteSet(Inserting') /\ Cardinality(Inserting') <= Cardinality(Inserting)
    BY <1>1, InsertingCounts, FS_Subset
  <2> QED BY <2>1, InsertingCounts, FS_CardinalityType
<1>3. PostureTypeOK'
  BY <1>1 DEF PostureInv, PostureTypeOK
<1>4. RowsAreEarned'
  <2> SUFFICES ASSUME NEW d \in Date
               PROVE  checks[d] + Cardinality(Inserting') <= Cardinality(Syncer)
    BY DEF RowsAreEarned
  <2>1. checks[d] + Cardinality(Inserting) <= Cardinality(Syncer) /\ checks[d] \in Nat
    BY DEF PostureInv, RowsAreEarned, PostureTypeOK
  <2> QED BY <1>2, <2>1
<1>5. OneAtWork' /\ BaselineIsOneCycle'
  BY <1>1 DEF PostureInv, OneAtWork, BaselineIsOneCycle
<1> QED BY <1>1, <1>3, <1>4, <1>5 DEF PostureInv

LEMMA DeleteKeepsPosture ==
  ASSUME PostureInv, NEW p \in Syncer, BaselineDelete(p)
  PROVE  PostureInv'
<1> DEFINE k == [syncing[p] EXCEPT !.pc = "insert"]
<1>1. /\ syncing' = [syncing EXCEPT ![p] = k] /\ checks' = NoChecks
      /\ mixed' = \E q \in Syncer \ {p} : syncing[q].pc = "insert"
      /\ day' = day /\ shots' = shots
  BY DEF BaselineDelete
<1>2. /\ k \in [pc: {"idle", "fetch", "delete", "insert"}, day: 0..day]
      /\ k.pc = "insert" /\ k.day \in Date
  BY DEF BaselineDelete, PostureInv, PostureTypeOK
<1> HIDE DEF k
<1>3. /\ syncing' \in [Syncer -> [pc: {"idle", "fetch", "delete", "insert"}, day: 0..day']]
      /\ \A q \in Syncer : syncing'[q].pc # "idle" => syncing'[q].day \in Date
      /\ Inserting' = Inserting \cup {p}
  BY <1>1, <1>2, PhaseChange
<1>4. \A d \in Date : checks'[d] = 0
  BY <1>1 DEF NoChecks
<1>5. Cardinality(Syncer) \in Nat /\ Cardinality(Inserting') \in Nat
      /\ Cardinality(Inserting') <= Cardinality(Syncer)
  <2>1. IsFiniteSet(Syncer) /\ Inserting' \in SUBSET Syncer
    BY <1>3, PostureAssumption DEF Inserting
  <2>2. IsFiniteSet(Inserting') /\ Cardinality(Inserting') <= Cardinality(Syncer)
    BY <2>1, FS_Subset
  <2> QED BY <2>1, <2>2, FS_CardinalityType
<1>6. PostureTypeOK'
  <2>1. checks' \in [Date -> 0..Cardinality(Syncer)]
    BY <1>1, <1>5 DEF NoChecks
  <2> QED BY <1>1, <1>3, <2>1 DEF PostureInv, PostureTypeOK
<1>7. RowsAreEarned'
  BY <1>4, <1>5 DEF RowsAreEarned
<1>8. OneAtWork'
  BY <1>1, <1>3 DEF OneAtWork, Inserting
<1>9. BaselineIsOneCycle'
  BY <1>4 DEF BaselineIsOneCycle
<1> QED BY <1>3, <1>6, <1>7, <1>8, <1>9 DEF PostureInv

LEMMA InsertKeepsPosture ==
  ASSUME PostureInv, NEW p \in Syncer, BaselineInsert(p)
  PROVE  PostureInv'
<1> DEFINE e == syncing[p].day
<1>1. /\ syncing' = [syncing EXCEPT ![p] = NotSyncing] /\ checks' = [checks EXCEPT ![e] = @ + 1]
      /\ day' = day /\ shots' = shots /\ mixed' = mixed
  BY DEF BaselineInsert
<1>2. p \in Inserting /\ e \in Date
  BY DEF BaselineInsert, Inserting, PostureInv
<1>3. /\ NotSyncing \in [pc: {"idle", "fetch", "delete", "insert"}, day: 0..day]
      /\ NotSyncing.pc = "idle"
  BY PostureAssumption DEF NotSyncing, PostureInv, PostureTypeOK, Date
<1>4. /\ syncing' \in [Syncer -> [pc: {"idle", "fetch", "delete", "insert"}, day: 0..day']]
      /\ \A q \in Syncer : syncing'[q].pc # "idle" => syncing'[q].day \in Date
      /\ Inserting' = Inserting \ {p}
  BY <1>1, <1>3, PhaseChange
<1> HIDE DEF e
<1>5. \A d \in Date : checks'[d] = (IF d = e THEN checks[d] + 1 ELSE checks[d]) /\ checks[d] \in Nat
  BY <1>1 DEF PostureInv, PostureTypeOK
<1>6. /\ Cardinality(Inserting') = Cardinality(Inserting) - 1
      /\ Cardinality(Inserting) \in Nat /\ Cardinality(Inserting') \in Nat
      /\ Cardinality(Syncer) \in Nat
  <2>1. IsFiniteSet(Inserting') /\ Cardinality(Inserting') = Cardinality(Inserting) - 1
    BY <1>2, <1>4, InsertingCounts, FS_RemoveElement
  <2> QED BY <2>1, InsertingCounts, FS_CardinalityType
<1>7. RowsAreEarned'
  <2> SUFFICES ASSUME NEW d \in Date
               PROVE  checks'[d] + Cardinality(Inserting') <= Cardinality(Syncer)
    BY DEF RowsAreEarned
  <2>1. checks[d] + Cardinality(Inserting) <= Cardinality(Syncer)
    BY DEF PostureInv, RowsAreEarned
  <2> QED BY <1>5, <1>6, <2>1
<1>8. PostureTypeOK'
  <2>1. \A d \in Date : checks'[d] \in 0..Cardinality(Syncer)
    <3> TAKE d \in Date
    <3>1. checks'[d] + Cardinality(Inserting') <= Cardinality(Syncer)
      BY <1>7 DEF RowsAreEarned
    <3> QED BY <1>5, <1>6, <3>1
  <2>2. checks' \in [Date -> 0..Cardinality(Syncer)]
    BY <1>1, <2>1 DEF PostureInv, PostureTypeOK
  <2> QED BY <1>1, <1>4, <2>2 DEF PostureInv, PostureTypeOK
<1>9. OneAtWork' /\ BaselineIsOneCycle'
  <2>1. ~mixed => Inserting' = {} /\ \A d \in Date : checks[d] = 0
    BY <1>2, <1>4 DEF PostureInv, OneAtWork, NoChecks
  <2>2. ~mixed => \A d \in Date : checks'[d] = IF d = e THEN 1 ELSE 0
    BY <1>5, <2>1
  <2> QED BY <1>1, <2>1, <2>2 DEF OneAtWork, BaselineIsOneCycle
<1> QED BY <1>4, <1>7, <1>8, <1>9 DEF PostureInv

LEMMA NextPosture == PostureInv /\ [PostureNext]_postureVars => PostureInv'
<1> SUFFICES ASSUME PostureInv, [PostureNext]_postureVars
             PROVE  PostureInv'
  OBVIOUS
<1>1. day \in Date /\ MaxShots \in Nat /\ 0 \in 0..day /\ day \in 0..day
  BY PostureAssumption DEF PostureInv, PostureTypeOK, Date
<1>2. CASE NextDay
  <2>1. /\ day' = day + 1 /\ day' \in Date /\ day \in Nat
        /\ UNCHANGED <<shots, checks, syncing, losses, mixed>>
    BY <1>1, <1>2, PostureAssumption DEF NextDay, Date
  <2>2. PostureTypeOK'
    <3>1. 0..day \subseteq 0..day'
      BY <2>1
    <3>2. syncing' \in [Syncer -> [pc: {"idle", "fetch", "delete", "insert"}, day: 0..day']]
      BY <2>1, <3>1 DEF PostureInv, PostureTypeOK
    <3> QED BY <2>1, <3>2 DEF PostureInv, PostureTypeOK
  <2> QED BY <2>1, <2>2
          DEF PostureInv, RowsAreEarned, OneAtWork, BaselineIsOneCycle, Inserting
<1>3. ASSUME NEW p \in Syncer, ScoreSync(p)
      PROVE  PostureInv'
  <2>1. shots' \in [Date -> 0..MaxShots]
    BY <1>1, <1>3 DEF ScoreSync, PostureInv, PostureTypeOK
  <2> QED BY <1>1, <1>3, <2>1, QuietPosture DEF ScoreSync
<1>4. ASSUME NEW p \in Syncer, BaselineFetch(p)
      PROVE  PostureInv'
  BY <1>1, <1>4, QuietPosture DEF BaselineFetch, PostureInv, PostureTypeOK
<1>5. ASSUME NEW p \in Syncer, SyncLost(p)
      PROVE  PostureInv'
  BY <1>1, <1>5, QuietPosture DEF SyncLost, NotSyncing, PostureInv, PostureTypeOK
<1>6. CASE UNCHANGED postureVars
  BY <1>6 DEF postureVars, PostureInv, PostureTypeOK, RowsAreEarned, OneAtWork,
              BaselineIsOneCycle, Inserting
<1> QED BY <1>2, <1>3, <1>4, <1>5, <1>6, DeleteKeepsPosture, InsertKeepsPosture
        DEF PostureNext, PostureGoesOn

\* For any number of syncs that overlap, fail or stop half way: the baseline is
\* the result of one of them, unless one had yet to insert when another deleted
\* (graph-secure-score.service.ts:118-137).  The invariant adds that, unless so,
\* the table is empty while a sync is about to insert.
THEOREM BaselineSoundAlways == PostureSpec => []BaselineSound
<1>1. PostureInv => BaselineSound
  BY DEF PostureInv, BaselineSound
<1> QED BY <1>1, InitPosture, NextPosture, PTL DEF PostureSpec

-----------------------------------------------------------------------------
(* The notification inbox (NotificationInbox).                             *)

TourRecord == [pc: {"away", "next", "done"}, filter: Filter, cursor: 0..MaxTick,
               due: SUBSET Note, shown: SUBSET Note, again: SUBSET Note, cuts: SUBSET Nat]

\* The next page takes up below the cursor: what has been shown lies at or above
\* it, and so does what is due, unless it fell into a millisecond a page ended in.
Halfway ==
  tour.pc = "next" =>
    /\ \A n \in tour.shown : note[n].at >= Milli * tour.cursor
    /\ \A n \in tour.due : \/ n \in tour.shown \/ note[n].at \div Milli \in tour.cuts
                           \/ note[n].at < Milli * tour.cursor

TourHolds ==
  /\ tour \in TourRecord
  /\ \A n \in tour.due : Passes(n, tour.filter)
  /\ Halfway /\ NoneTwice /\ NoneSkipped

InboxInv == InboxTypeOK /\ TourHolds /\ OptOutHolds

LEMMA MilliCuts ==
  ASSUME NEW a \in Nat, NEW t \in Nat, NEW m \in Nat \ {0}, a <= t
  PROVE  /\ t \div m \in Nat /\ t \div m <= t /\ m * (t \div m) <= t
         /\ a \div m = t \div m \/ a < m * (t \div m)
OBVIOUS

\* Notifications come, and are read, behind the client's back.
LEMMA NotesGoOn ==
  ASSUME InboxInv,
         \A n \in Stored : n \in Stored' /\ note'[n].at = note[n].at,
         tour' \in TourRecord, tour'.due \subseteq tour.due,
         \A n \in tour'.due : Passes(n, tour.filter)',
         tour'.pc = tour.pc, tour'.filter = tour.filter, tour'.cursor = tour.cursor,
         tour'.shown = tour.shown, tour'.again = tour.again, tour'.cuts = tour.cuts
  PROVE  /\ TourHolds'
         /\ tour'.pc \in {"away", "next", "done"} /\ tour'.filter \in Filter
         /\ tour'.cursor \in 0..MaxTick
         /\ \A ns \in {tour'.due, tour'.shown, tour'.again} : ns \subseteq Stored'
<1>1. \A ns \in {tour.due, tour.shown, tour.again} : ns \subseteq Stored
  BY DEF InboxInv, InboxTypeOK
<1>2. \A n \in tour.due \cup tour.shown : note'[n].at = note[n].at
  BY <1>1
<1>3. Halfway'
  BY <1>2 DEF InboxInv, TourHolds, Halfway
<1>4. NoneTwice' /\ NoneSkipped'
  BY <1>2 DEF InboxInv, TourHolds, NoneTwice, NoneSkipped
<1>5. \A n \in tour'.due : Passes(n, tour.filter)'
  OBVIOUS
<1>6. \A ns \in {tour'.due, tour'.shown, tour'.again} : ns \subseteq Stored'
  BY <1>1
<1> QED BY <1>3, <1>4, <1>5, <1>6 DEF InboxInv, InboxTypeOK, TourHolds

\* The last item of a page by ORDER BY created_at DESC.
LEMMA LastOfPage ==
  ASSUME InboxInv, NEW page \in SUBSET Note, page # {}
  PROVE  \E t \in 0..MaxTick :
           /\ CursorOf(page) = t \div Milli
           /\ \E n \in page : note[n].at = t
           /\ \A n \in page : note[n].at >= t
<1> DEFINE T == {note[n].at : n \in page}
           Less == {p \in Nat \X Nat : p[1] < p[2]}
<1>1. T \subseteq 0..MaxTick /\ T \subseteq Nat /\ T # {}
  BY InboxAssumption DEF InboxInv, InboxTypeOK
<1>2. PICK m \in T : \A y \in T : ~ (<<y, m>> \in Less)
  <2>1. IsWellFoundedOn(Less, Nat)
    BY NatLessThanWellFounded, Zenon DEF OpToRel
  <2> HIDE DEF T, Less
  <2> QED BY <1>1, <2>1, WFMin
<1>3. \A y \in T : ~ (y < m)
  <2> HIDE DEF T
  <2> QED BY <1>1, <1>2
<1>4. \A n \in page : note[n].at \in T
  OBVIOUS
<1>5. \E n \in page : note[n].at = m
  OBVIOUS
<1>6. m \in 0..MaxTick /\ \A n \in page : note[n].at >= m
  <2> HIDE DEF T
  <2>1. m \in 0..MaxTick /\ m \in Nat
    BY <1>1
  <2>2. \A y \in T : y >= m
    BY <1>1, <1>3, <2>1
  <2> QED BY <1>4, <2>1, <2>2
<1> DEFINE Last(t) == (\E n \in page : note[n].at = t) /\ (\A n \in page : note[n].at >= t)
           t0 == CHOOSE t \in 0..MaxTick : Last(t)
<1>7. t0 \in 0..MaxTick /\ Last(t0)
  <2>1. \E t \in 0..MaxTick : Last(t)
    BY <1>5, <1>6
  <2> HIDE DEF Last
  <2> QED BY <2>1
<1>8. CursorOf(page) = t0 \div Milli
  BY DEF CursorOf
<1> QED BY <1>7, <1>8

\* The client shows a page.  What it may ask for next is below what it has seen.
LEMMA PageKeepsTour ==
  ASSUME InboxInv, NEW f \in Filter, NEW R \in SUBSET Note, NEW t \in TourRecord, Page(f, R, t),
         UNCHANGED <<tick, note, pref, choices, overtaken>>,
         t.again = {}, t.shown \subseteq Stored, \A n \in R : Passes(n, f),
         \A n \in t.due : Passes(n, f),
         \A n \in t.shown, m \in R : note[n].at > note[m].at,
         \A n \in t.due : \/ n \in t.shown \/ note[n].at \div Milli \in t.cuts
                          \/ n \in R
  PROVE  InboxInv'
<1>1. PICK page \in FirstOf(R) :
        tour' = [t EXCEPT
          !.pc = IF HasMore(R) THEN "next" ELSE "done",
          !.filter = f,
          !.cursor = IF HasMore(R) THEN CursorOf(page) ELSE 0,
          !.cuts = IF HasMore(R) THEN @ \cup {CursorOf(page)} ELSE @,
          !.shown = @ \cup page,
          !.again = @ \cup (t.shown \cap page)]
  BY DEF Page
<1>2. /\ tour'.pc = (IF HasMore(R) THEN "next" ELSE "done") /\ tour'.filter = f
      /\ tour'.due = t.due
      /\ tour'.shown = t.shown \cup page /\ tour'.again = t.again \cup (t.shown \cap page)
      /\ tour'.cursor = (IF HasMore(R) THEN CursorOf(page) ELSE 0)
      /\ tour'.cuts = (IF HasMore(R) THEN t.cuts \cup {CursorOf(page)} ELSE t.cuts)
  BY <1>1 DEF TourRecord
<1>3. /\ page \subseteq R
      /\ Cardinality(page) = IF Cardinality(R) > PageSize THEN PageSize ELSE Cardinality(R)
      /\ \A n \in page, m \in R \ page : note[n].at >= note[m].at
  BY DEF FirstOf
<1>4. IsFiniteSet(R) /\ IsFiniteSet(page)
  BY <1>3, InboxAssumption, FS_Subset
<1>5. tour'.again = {}
  <2>1. t.shown \cap page = {}
    <3> SUFFICES ASSUME NEW n \in t.shown, n \in page
                 PROVE  FALSE
      OBVIOUS
    <3>1. note[n].at \in Nat /\ note[n].at > note[n].at
      BY <1>3, InboxAssumption DEF InboxInv, InboxTypeOK, Stored
    <3> QED BY <3>1
  <2> QED BY <1>2, <2>1
<1>6. /\ \A n \in R : n \in Stored
      /\ tour'.due \subseteq Stored /\ tour'.shown \subseteq Stored
      /\ \A n \in tour'.due : Passes(n, tour'.filter)
  BY <1>2, <1>3 DEF Passes, TourRecord
<1>7. \A n \in Note : note[n].at \in Nat
  BY InboxAssumption DEF InboxInv, InboxTypeOK
<1>8. CASE HasMore(R)
  <2>1. page # {}
    BY <1>3, <1>8, FS_EmptySet, InboxAssumption DEF HasMore
  <2>2. PICK last \in 0..MaxTick :
          /\ CursorOf(page) = last \div Milli
          /\ \E n \in page : note[n].at = last
          /\ \A n \in page : note[n].at >= last
    BY <1>3, <2>1, LastOfPage
  <2> DEFINE ms == CursorOf(page)
  <2>3. last \in Nat /\ Milli \in Nat \ {0}
    BY InboxAssumption
  <2>4. ms \in 0..MaxTick /\ Milli * ms <= last
    <3>1. last \div Milli \in Nat /\ last \div Milli <= last /\ Milli * (last \div Milli) <= last
      BY <2>3, MilliCuts
    <3>2. ms \in Nat /\ ms <= last /\ Milli * ms <= last
      BY <2>2, <3>1
    <3> HIDE DEF ms
    <3> QED BY <3>2, InboxAssumption
  <2>5. ms \in Nat /\ Milli * ms \in Nat
    BY <2>3, <2>4
  <2>6. tour'.pc = "next" /\ tour'.cursor = ms /\ tour'.cuts = t.cuts \cup {ms}
    BY <1>2, <1>8
  <2>7. tour' \in TourRecord
    BY <1>2, <1>3, <1>5, <2>4, <2>5, <2>6, <1>1 DEF TourRecord
  <2>8. \A n \in tour'.shown : note[n].at >= Milli * ms
    <3> TAKE n \in tour'.shown
    <3>1. CASE n \in page
      BY <1>3, <1>7, <2>2, <2>3, <2>4, <2>5, <3>1
    <3>2. CASE n \in t.shown
      <4>1. PICK m \in page : note[m].at = last
        BY <2>2
      <4>2. note[n].at > last /\ note[n].at \in Nat
        BY <1>3, <1>7, <3>2, <4>1 DEF TourRecord
      <4> QED BY <2>3, <2>4, <2>5, <4>2
    <3> QED BY <1>2, <3>1, <3>2
  <2>9. \A n \in tour'.due : \/ n \in tour'.shown \/ note[n].at \div Milli \in tour'.cuts
                             \/ note[n].at < Milli * ms
    <3> TAKE n \in tour'.due
    <3>1. CASE n \in R \ page
      <4>1. note[n].at <= last /\ note[n].at \in Nat
        BY <1>3, <1>7, <2>2, <3>1
      <4>2. note[n].at \div Milli = ms \/ note[n].at < Milli * ms
        BY <2>2, <2>3, <4>1, MilliCuts
      <4> QED BY <2>6, <4>2
    <3>2. CASE n \in t.shown \/ note[n].at \div Milli \in t.cuts \/ n \in page
      BY <1>2, <2>6, <3>2
    <3> QED BY <1>2, <3>1, <3>2
  <2> HIDE DEF ms
  <2>10. Halfway'
    BY <2>6, <2>8, <2>9 DEF Halfway
  <2>11. TourHolds'
    BY <1>5, <1>6, <2>6, <2>7, <2>10 DEF TourHolds, NoneTwice, NoneSkipped, Passes, Stored
  <2>12. InboxTypeOK'
    BY <1>5, <1>6, <2>7 DEF InboxInv, InboxTypeOK, TourRecord, Stored
  <2> QED BY <2>11, <2>12 DEF InboxInv, OptOutHolds
<1>9. CASE ~HasMore(R)
  <2>1. Cardinality(R) \in Nat
    BY <1>4, FS_CardinalityType
  <2>2. Cardinality(page) = Cardinality(R)
    BY <1>3, <1>9, <2>1, InboxAssumption DEF HasMore
  <2>3. page = R
    BY <1>3, <1>4, <2>2, FS_Subset
  <2>4. tour'.pc = "done" /\ tour'.cursor = 0 /\ tour'.cuts = t.cuts
    BY <1>2, <1>9
  <2>5. tour' \in TourRecord
    <3>1. 0 \in 0..MaxTick
      BY InboxAssumption
    <3> QED BY <1>1, <1>2, <1>3, <1>5, <2>4, <3>1 DEF TourRecord
  <2>6. \A n \in tour'.due : n \in tour'.shown \/ note[n].at \div Milli \in tour'.cuts
    BY <1>2, <2>3, <2>4
  <2>7. TourHolds'
    BY <1>5, <1>6, <2>4, <2>5, <2>6 DEF TourHolds, Halfway, NoneTwice, NoneSkipped, Passes, Stored
  <2>8. InboxTypeOK'
    BY <1>5, <1>6, <2>5 DEF InboxInv, InboxTypeOK, TourRecord, Stored
  <2> QED BY <2>7, <2>8 DEF InboxInv, OptOutHolds
<1> QED BY <1>8, <1>9

LEMMA FirstPageKeepsInbox ==
  ASSUME InboxInv, NEW f \in Filter, FirstPage(f)
  PROVE  InboxInv'
<1> DEFINE R == {n \in Note : Passes(n, f)}
           t == [NoTour EXCEPT !.due = R]
<1>1. Page(f, R, t) /\ UNCHANGED <<tick, note, pref, choices, overtaken>>
  BY DEF FirstPage
<1>2. /\ t \in TourRecord /\ t.again = {} /\ t.shown = {} /\ t.due = R
  BY InboxAssumption DEF NoTour, TourRecord, Filter
<1>3. R \in SUBSET Note /\ \A n \in R : Passes(n, f)
  OBVIOUS
<1> HIDE DEF R, t
<1> QED BY <1>1, <1>2, <1>3, PageKeepsTour

LEMMA NextPageKeepsInbox ==
  ASSUME InboxInv, NextPage
  PROVE  InboxInv'
<1> DEFINE f == tour.filter
           R == {n \in Note : Passes(n, f) /\ Below(n, tour.cursor)}
<1>1. Page(f, R, tour) /\ UNCHANGED <<tick, note, pref, choices, overtaken>> /\ tour.pc = "next"
  BY DEF NextPage
<1>2. /\ tour \in TourRecord /\ tour.again = {} /\ tour.shown \subseteq Stored /\ f \in Filter
      /\ \A n \in tour.due : Passes(n, f)
  BY DEF InboxInv, InboxTypeOK, TourHolds, NoneTwice
<1>3. \A n \in Note : note[n].at \in Nat
  BY InboxAssumption DEF InboxInv, InboxTypeOK
<1>4. tour.cursor \in Nat /\ Milli * tour.cursor \in Nat
  BY InboxAssumption DEF InboxInv, InboxTypeOK
<1>5. \A n \in tour.shown, m \in R : note[n].at > note[m].at
  <2> TAKE n \in tour.shown, m \in R
  <2>1. note[n].at >= Milli * tour.cursor /\ note[m].at < Milli * tour.cursor /\ n \in Note /\ m \in Note
    BY <1>1, <1>2 DEF InboxInv, TourHolds, Halfway, Below, TourRecord
  <2> QED BY <1>3, <1>4, <2>1
<1>6. \A n \in tour.due : \/ n \in tour.shown \/ note[n].at \div Milli \in tour.cuts
                          \/ n \in R
  BY <1>1, <1>2 DEF InboxInv, TourHolds, Halfway, Below, TourRecord
<1>7. R \in SUBSET Note /\ \A n \in R : Passes(n, f)
  OBVIOUS
<1> HIDE DEF R, f
<1> QED BY <1>1, <1>2, <1>5, <1>6, <1>7, PageKeepsTour

LEMMA InitInbox == InboxInit => InboxInv
<1> SUFFICES ASSUME InboxInit
             PROVE  InboxInv
  OBVIOUS
<1>1. 0 \in 0..MaxTick /\ 0 \in 0..MaxChoices /\ "*" \in Key /\ "all" \in Filter
  BY InboxAssumption DEF Key, Filter
<1>2. InboxTypeOK
  BY <1>1 DEF InboxInit, InboxTypeOK, Unsent, NoPref, NoTour
<1>3. tour \in TourRecord
  BY <1>1 DEF InboxInit, NoTour, TourRecord
<1>4. TourHolds
  BY <1>3 DEF InboxInit, NoTour, TourHolds, Halfway, NoneTwice, NoneSkipped
<1>5. OptOutHolds
  BY DEF InboxInit, OptOutHolds, Unsent
<1> QED BY <1>2, <1>4, <1>5 DEF InboxInv

LEMMA ChoosesKeepsInbox ==
  ASSUME InboxInv, NEW k \in Key, NEW row \in [there: BOOLEAN, inApp: BOOLEAN], Chooses(k, row)
  PROVE  InboxInv'
<1>1. /\ choices' \in 0..MaxChoices /\ pref' = [pref EXCEPT ![k] = row]
      /\ overtaken' = {n \in Note : note[n].state = "checked"}
      /\ UNCHANGED <<tick, note, tour>>
  BY InboxAssumption DEF Chooses, InboxInv, InboxTypeOK
<1>2. pref' \in [Key -> [there : BOOLEAN, inApp : BOOLEAN]]
  BY <1>1 DEF InboxInv, InboxTypeOK
<1>3. InboxTypeOK'
  BY <1>1, <1>2 DEF InboxInv, InboxTypeOK, Stored
<1>4. TourHolds'
  BY <1>1 DEF InboxInv, TourHolds, Halfway, NoneTwice, NoneSkipped, Passes, Stored
<1>5. OptOutHolds'
  BY <1>1 DEF OptOutHolds
<1> QED BY <1>3, <1>4, <1>5 DEF InboxInv

LEMMA SendCheckKeepsInbox ==
  ASSUME InboxInv, NEW n \in Note, NEW k \in Topic, SendCheck(n, k)
  PROVE  InboxInv'
<1> DEFINE to == IF Enabled(k) THEN "checked" ELSE "muted"
<1>1. /\ note[n].state = "new"
      /\ note' = [note EXCEPT ![n].state = to, ![n].topic = k]
      /\ UNCHANGED <<tick, pref, choices, tour, overtaken>>
  BY DEF SendCheck
<1>2. to \in {"checked", "muted"} /\ k \in Key
  BY DEF Key
<1>3. /\ note' \in [Note -> [state : {"new", "checked", "muted", "stored"}, topic : Key,
                             at : 0..MaxTick, read : BOOLEAN]]
      /\ \A m \in Note \ {n} : note'[m] = note[m]
      /\ note'[n].state = to /\ note'[n].topic = k
  <2> HIDE DEF to
  <2> QED BY <1>1, <1>2 DEF InboxInv, InboxTypeOK
<1>4. \A m \in Stored : m # n /\ m \in Stored' /\ note'[m].at = note[m].at /\ note'[m].read = note[m].read
  BY <1>1, <1>3 DEF Stored
<1>5. \A m \in tour'.due : Passes(m, tour.filter)'
  BY <1>1, <1>4 DEF InboxInv, TourHolds, Passes
<1>6. TourHolds' /\ InboxTypeOK'
  <2>1. /\ TourHolds'
        /\ \A ns \in {tour'.due, tour'.shown, tour'.again} : ns \subseteq Stored'
    BY <1>1, <1>4, <1>5, NotesGoOn DEF InboxInv, TourHolds
  <2> QED BY <1>1, <1>3, <2>1 DEF InboxInv, InboxTypeOK
<1>7. OptOutHolds'
  <2>1. to = "checked" => ~ (pref[k].there /\ ~pref[k].inApp)
    BY DEF Enabled
  <2> HIDE DEF to
  <2> QED BY <1>1, <1>3, <2>1 DEF InboxInv, OptOutHolds
<1> QED BY <1>6, <1>7 DEF InboxInv

LEMMA SendInsertKeepsInbox ==
  ASSUME InboxInv, NEW n \in Note, SendInsert(n)
  PROVE  InboxInv'
<1>1. /\ note[n].state = "checked"
      /\ note' = [note EXCEPT ![n].state = "stored", ![n].at = tick]
      /\ overtaken' = overtaken \ {n} /\ UNCHANGED <<tick, pref, choices, tour>>
  BY DEF SendInsert
<1>2. /\ note' \in [Note -> [state : {"new", "checked", "muted", "stored"}, topic : Key,
                             at : 0..MaxTick, read : BOOLEAN]]
      /\ \A m \in Note \ {n} : note'[m] = note[m]
      /\ note'[n].state = "stored"
  BY <1>1 DEF InboxInv, InboxTypeOK
<1>3. \A m \in Stored : m # n /\ m \in Stored' /\ note'[m].at = note[m].at /\ note'[m].read = note[m].read
  BY <1>1, <1>2 DEF Stored
<1>4. \A m \in tour'.due : Passes(m, tour.filter)'
  BY <1>1, <1>3 DEF InboxInv, TourHolds, Passes
<1>5. TourHolds' /\ InboxTypeOK'
  <2>1. /\ TourHolds'
        /\ \A ns \in {tour'.due, tour'.shown, tour'.again} : ns \subseteq Stored'
    BY <1>1, <1>3, <1>4, NotesGoOn DEF InboxInv, TourHolds
  <2> QED BY <1>1, <1>2, <2>1 DEF InboxInv, InboxTypeOK
<1>6. OptOutHolds'
  BY <1>1, <1>2 DEF InboxInv, OptOutHolds
<1> QED BY <1>5, <1>6 DEF InboxInv

\* Marking some stored notifications as read.
LEMMA ReadingKeepsInbox ==
  ASSUME InboxInv, NEW ns \in SUBSET Note, \A n \in ns : n \in Stored,
         note' \in [Note -> [state : {"new", "checked", "muted", "stored"}, topic : Key,
                             at : 0..MaxTick, read : BOOLEAN]],
         \A n \in ns : /\ note'[n].state = "stored" /\ note'[n].at = note[n].at
                       /\ note'[n].read = TRUE,
         \A n \in Note \ ns : note'[n] = note[n],
         tour' = AfterReading(ns), UNCHANGED <<tick, pref, choices, overtaken>>
  PROVE  InboxInv'
<1>1. tour \in TourRecord
  BY DEF InboxInv, TourHolds
<1>2. /\ tour' \in TourRecord /\ tour'.due \subseteq tour.due
      /\ tour.filter = "unread" => tour'.due = tour.due \ ns
      /\ tour'.pc = tour.pc /\ tour'.filter = tour.filter /\ tour'.cursor = tour.cursor
      /\ tour'.shown = tour.shown /\ tour'.again = tour.again /\ tour'.cuts = tour.cuts
  <2>1. CASE tour.filter = "unread"
    <3>1. tour' = [tour EXCEPT !.due = tour.due \ ns]
      BY <1>1, <2>1 DEF AfterReading, TourRecord
    <3> QED BY <1>1, <2>1, <3>1 DEF TourRecord
  <2>2. CASE tour.filter # "unread"
    <3>1. tour' = [tour EXCEPT !.due = tour.due]
      BY <1>1, <2>2 DEF AfterReading, TourRecord
    <3> QED BY <1>1, <2>2, <3>1 DEF TourRecord
  <2> QED BY <2>1, <2>2
<1>3. \A n \in Stored : n \in Stored' /\ note'[n].at = note[n].at
  BY DEF Stored
<1>4. \A n \in tour'.due : Passes(n, tour.filter)'
  <2> SUFFICES ASSUME NEW n \in tour'.due
               PROVE  n \in Stored' /\ (tour.filter = "all" \/ (tour.filter = "read") = note'[n].read)
    BY <1>2 DEF Passes
  <2>1. /\ n \in Stored /\ n \in Stored' /\ n \in Note
        /\ tour.filter = "all" \/ (tour.filter = "read") = note[n].read
    BY <1>2, <1>3 DEF InboxInv, TourHolds, Passes, Stored
  <2>2. CASE n \in ns
    <3>1. tour.filter # "unread" /\ note'[n].read = TRUE
      BY <1>2, <2>2
    <3>2. tour.filter \in {"all", "read"}
      BY <1>1, <3>1 DEF TourRecord, Filter
    <3> QED BY <2>1, <3>1, <3>2
  <2>3. CASE n \notin ns
    BY <2>1, <2>3
  <2> QED BY <2>2, <2>3
<1>5. TourHolds' /\ InboxTypeOK'
  <2>1. /\ TourHolds' /\ tour'.pc \in {"away", "next", "done"} /\ tour'.filter \in Filter
        /\ tour'.cursor \in 0..MaxTick
        /\ \A ms \in {tour'.due, tour'.shown, tour'.again} : ms \subseteq Stored'
    BY <1>2, <1>3, <1>4, NotesGoOn
  <2> QED BY <2>1 DEF InboxInv, InboxTypeOK
<1>6. OptOutHolds'
  BY DEF InboxInv, OptOutHolds
<1> QED BY <1>5, <1>6 DEF InboxInv

LEMMA NextInbox == InboxInv /\ [InboxNext]_inboxVars => InboxInv'
<1> SUFFICES ASSUME InboxInv, [InboxNext]_inboxVars
             PROVE  InboxInv'
  OBVIOUS
<1>1. ASSUME NEW k \in Key, (\E b \in BOOLEAN : Upsert(k, b)) \/ UpsertEmail(k) \/ Reset(k)
      PROVE  InboxInv'
  <2>1. PICK row \in [there: BOOLEAN, inApp: BOOLEAN] : Chooses(k, row)
    BY <1>1 DEF Upsert, UpsertEmail, Reset, NoPref, InboxInv, InboxTypeOK
  <2> QED BY <2>1, ChoosesKeepsInbox
<1>2. ASSUME NEW n \in Note, MarkRead(n)
      PROVE  InboxInv'
  <2>1. n \in Stored /\ tour' = AfterReading({n}) /\ UNCHANGED <<tick, pref, choices, overtaken>>
    BY <1>2 DEF MarkRead
  <2>2. note' = [note EXCEPT ![n].read = TRUE]
    BY <1>2 DEF MarkRead
  <2>3. /\ note' \in [Note -> [state : {"new", "checked", "muted", "stored"}, topic : Key,
                               at : 0..MaxTick, read : BOOLEAN]]
        /\ note'[n].state = note[n].state /\ note'[n].at = note[n].at /\ note'[n].read = TRUE
        /\ \A m \in Note \ {n} : note'[m] = note[m]
    BY <2>2 DEF InboxInv, InboxTypeOK
  <2> DEFINE ns == {n}
  <2>4. /\ ns \in SUBSET Note /\ \A m \in ns : m \in Stored
        /\ tour' = AfterReading(ns)
        /\ \A m \in ns : note'[m].state = "stored" /\ note'[m].at = note[m].at /\ note'[m].read = TRUE
        /\ \A m \in Note \ ns : note'[m] = note[m]
    BY <2>1, <2>3 DEF Stored
  <2> HIDE DEF ns
  <2> QED BY <2>1, <2>3, <2>4, ReadingKeepsInbox
<1>3. ASSUME MarkAllRead
      PROVE  InboxInv'
  <2> DEFINE ns == {n \in Stored : ~note[n].read}
  <2>1. /\ note' = [n \in Note |-> IF n \in ns THEN [note[n] EXCEPT !.read = TRUE] ELSE note[n]]
        /\ tour' = AfterReading(ns) /\ UNCHANGED <<tick, pref, choices, overtaken>>
    BY <1>3 DEF MarkAllRead
  <2>2. ns \in SUBSET Note /\ \A n \in ns : n \in Stored /\ note[n].state = "stored"
    BY DEF Stored
  <2> HIDE DEF ns
  <2>3. /\ note' \in [Note -> [state : {"new", "checked", "muted", "stored"}, topic : Key,
                               at : 0..MaxTick, read : BOOLEAN]]
        /\ \A n \in ns : /\ note'[n].state = note[n].state /\ note'[n].at = note[n].at
                         /\ note'[n].read = TRUE
        /\ \A m \in Note \ ns : note'[m] = note[m]
    BY <2>1, <2>2 DEF InboxInv, InboxTypeOK
  <2> QED BY <2>1, <2>2, <2>3, ReadingKeepsInbox
<1>4. ASSUME ClockTicks
      PROVE  InboxInv'
  <2>1. tick' \in 0..MaxTick /\ UNCHANGED <<note, pref, choices, tour, overtaken>>
    <3>1. /\ tick < MaxTick /\ tick' = tick + 1 /\ tick \in 0..MaxTick /\ MaxTick \in Nat
          /\ UNCHANGED <<note, pref, choices, tour, overtaken>>
      BY <1>4, InboxAssumption DEF ClockTicks, InboxInv, InboxTypeOK
    <3> QED BY <3>1
  <2>2. InboxTypeOK'
    BY <2>1 DEF InboxInv, InboxTypeOK, Stored
  <2>3. TourHolds'
    BY <2>1 DEF InboxInv, TourHolds, Halfway, NoneTwice, NoneSkipped, Passes, Stored
  <2> QED BY <2>1, <2>2, <2>3 DEF InboxInv, OptOutHolds
<1>5. CASE UNCHANGED inboxVars
  BY <1>5 DEF inboxVars, InboxInv, InboxTypeOK, TourHolds, Halfway, NoneTwice, NoneSkipped,
              OptOutHolds, Passes, Stored
<1> QED BY <1>1, <1>2, <1>3, <1>4, <1>5, SendCheckKeepsInbox, SendInsertKeepsInbox,
           FirstPageKeepsInbox, NextPageKeepsInbox
        DEF InboxNext

-----------------------------------------------------------------------------
(* The paged lists (PagedList).                                            *)

WalkRecord == [pc: {"away", "count", "next", "done"}, filter: ListFilter, offset: Nat,
               rows: SUBSET Ticket, due: SUBSET Ticket, shown: SUBSET Ticket,
               again: SUBSET Ticket, left: Nat, arrived: Nat]

\* The rows of M that come before r in every order of the list, for a row that
\* shares its sort key with no other.
Before(r, M) == {q \in M : SortKey[q] > SortKey[r]}
Rank(r, M)   == Cardinality(Before(r, M))

\* Due rows the walk w will not show, and rows it has shown or will show twice,
\* when it has come to offset o of the list M.
Skipped(w, M, o) == {r \in w.due \ w.shown : Alone(r) /\ Rank(r, M) < o}
Repeats(w, M, o) ==
  {r \in w.shown : Alone(r) /\ (r \in w.again \/ (r \in M /\ Rank(r, M) >= o))}

\* The offset the next page starts at.
Reached(w) == IF w.pc = "count" THEN w.offset + ListLimit ELSE w.offset

Accounted(w, M) ==
  /\ w.due \subseteq M
  /\ Cardinality(Skipped(w, M, Reached(w))) <= w.left
  /\ Cardinality(Repeats(w, M, Reached(w))) <= w.arrived

ListInv ==
  /\ ListTypeOK /\ walk \in WalkRecord /\ walk.again \subseteq walk.shown
  /\ \A r \in walk.shown : \/ Satisfies(ticket[r], walk.filter)
                           \/ ticket[r] = "approved"
  /\ walk.pc = "count" => Cardinality(walk.rows) <= ListLimit
  /\ walk.pc \in {"next", "count"} => Accounted(walk, Listed(walk.filter))
  /\ WalkAccounted

LEMMA FiniteRows ==
  ASSUME NEW S \in SUBSET Ticket
  PROVE  IsFiniteSet(S) /\ Cardinality(S) \in Nat
BY ListAssumption, FS_Subset, FS_CardinalityType

LEMMA FewerRows ==
  ASSUME NEW S \in SUBSET Ticket, NEW T \in SUBSET Ticket, S \subseteq T
  PROVE  Cardinality(S) <= Cardinality(T) /\ (Cardinality(S) = Cardinality(T) => S = T)
<1>1. IsFiniteSet(T)
  BY FiniteRows
<1> QED BY <1>1, FS_Subset

LEMMA OneMoreRow ==
  ASSUME NEW S \in SUBSET Ticket, NEW T \in SUBSET Ticket, \A a, b \in S \ T : a = b
  PROVE  Cardinality(S) <= Cardinality(T) + 1
<1>1. IsFiniteSet(T) /\ Cardinality(T) \in Nat /\ Cardinality(S) \in Nat
  BY FiniteRows
<1>2. CASE S \subseteq T
  BY <1>1, <1>2, FewerRows
<1>3. CASE ~ (S \subseteq T)
  <2>1. PICK x \in S : x \notin T
    BY <1>3
  <2> DEFINE U == T \cup {x}
  <2>2. U \in SUBSET Ticket /\ S \subseteq U
    BY <2>1
  <2>3. Cardinality(U) = Cardinality(T) + 1
    BY <1>1, <2>1, FS_AddElement
  <2> HIDE DEF U
  <2> QED BY <1>1, <2>2, <2>3, FewerRows
<1> QED BY <1>2, <1>3

LEMMA RankIsNat ==
  ASSUME NEW M \in SUBSET Ticket, NEW r \in Ticket
  PROVE  Before(r, M) \in SUBSET M /\ Rank(r, M) \in Nat
BY FiniteRows DEF Before, Rank

\* No two rows with keys of their own are at the same place.
LEMMA RankIsPlace ==
  ASSUME NEW M \in SUBSET Ticket, NEW a \in M, NEW b \in M, Alone(a), Alone(b),
         Rank(a, M) = Rank(b, M)
  PROVE  a = b
<1>1. SUFFICES ASSUME a # b
               PROVE  FALSE
  OBVIOUS
<1>2. SortKey[a] \in Nat /\ SortKey[b] \in Nat /\ SortKey[a] # SortKey[b]
  BY <1>1, ListAssumption DEF Alone
<1>3. ASSUME NEW x \in M, NEW y \in M, SortKey[x] > SortKey[y], Rank(x, M) = Rank(y, M)
      PROVE  FALSE
  <2>1. \A q \in M : SortKey[q] \in Nat
    BY ListAssumption
  <2>2. Before(x, M) \subseteq Before(y, M) /\ x \in Before(y, M) /\ x \notin Before(x, M)
    BY <1>3, <2>1 DEF Before
  <2>3. Before(x, M) \in SUBSET Ticket /\ Before(y, M) \in SUBSET Ticket
    BY DEF Before
  <2> QED BY <1>3, <2>2, <2>3, FewerRows DEF Rank
<1>4. SortKey[a] > SortKey[b] \/ SortKey[b] > SortKey[a]
  BY <1>2
<1> QED BY <1>3, <1>4

\* A row that joins the list moves the others down by at most one place.
LEMMA RankMoves ==
  ASSUME NEW M \in SUBSET Ticket, NEW x \in Ticket, NEW r \in Ticket, x \notin M
  PROVE  Rank(r, M \cup {x}) \in {Rank(r, M), Rank(r, M) + 1}
<1>1. IsFiniteSet(Before(r, M))
  BY RankIsNat, FiniteRows
<1>2. CASE SortKey[x] > SortKey[r]
  <2>1. Before(r, M \cup {x}) = Before(r, M) \cup {x} /\ x \notin Before(r, M)
    BY <1>2 DEF Before
  <2> QED BY <1>1, <2>1, FS_AddElement DEF Rank
<1>3. CASE ~ (SortKey[x] > SortKey[r])
  <2>1. Before(r, M \cup {x}) = Before(r, M)
    BY <1>3 DEF Before
  <2> QED BY <2>1 DEF Rank
<1> QED BY <1>2, <1>3

\* What a page that starts at offset o shows, of rows with a key of their own,
\* are those at the places from o up to the limit.
LEMMA PageIsPlaces ==
  ASSUME NEW M \in SUBSET Ticket, NEW o \in Nat, NEW p \in PagesOf(M, o)
  PROVE  /\ p \subseteq M /\ Cardinality(p) <= ListLimit
         /\ \A r \in p : Alone(r) => Rank(r, M) >= o /\ Rank(r, M) < o + ListLimit
         /\ \A r \in M \ p : Alone(r) /\ Rank(r, M) < o + ListLimit => Rank(r, M) < o
<1>1. PICK s \in SUBSET (M \ p) :
        /\ Cardinality(s) = Least(o, Cardinality(M))
        /\ Cardinality(p) = Least(ListLimit, Cardinality(M) - Cardinality(s))
        /\ \A a \in s, b \in M \ s : SortKey[a] >= SortKey[b]
        /\ \A a \in p, b \in M \ (s \cup p) : SortKey[a] >= SortKey[b]
  BY DEF PagesOf
<1>2. /\ p \in SUBSET Ticket /\ s \in SUBSET Ticket /\ s \cup p \in SUBSET Ticket
      /\ p \subseteq M /\ s \cap p = {}
  BY DEF PagesOf
<1>3. /\ Cardinality(M) \in Nat /\ Cardinality(s) \in Nat /\ Cardinality(p) \in Nat
      /\ Cardinality(s \cup p) \in Nat /\ ListLimit \in Nat
  BY <1>2, FiniteRows, ListAssumption
<1>4. Cardinality(s) <= o /\ Cardinality(s) <= Cardinality(M) /\ Cardinality(p) <= ListLimit
      /\ (Cardinality(s) < o => Cardinality(s) = Cardinality(M))
      /\ (Cardinality(p) < ListLimit => Cardinality(s) + Cardinality(p) = Cardinality(M))
  BY <1>1, <1>3 DEF Least
<1>5. Cardinality(s \cup p) = Cardinality(s) + Cardinality(p)
  <2>1. IsFiniteSet(s) /\ IsFiniteSet(p)
    BY <1>2, FiniteRows
  <2>2. Cardinality(s \cup p) = Cardinality(s) + Cardinality(p) - Cardinality(s \cap p)
    BY <2>1, FS_Union
  <2>3. Cardinality(s \cap p) = 0
    BY <1>2, FS_EmptySet
  <2> QED BY <1>3, <2>2, <2>3
<1>6. \A q \in Ticket : SortKey[q] \in Nat
  BY ListAssumption
<1>7. ASSUME NEW r \in p, Alone(r)
      PROVE  Rank(r, M) >= o /\ Rank(r, M) < o + ListLimit
  <2>1. s \subseteq Before(r, M)
    <3> SUFFICES ASSUME NEW a \in s
                 PROVE  a \in M /\ SortKey[a] > SortKey[r]
      BY DEF Before
    <3>1. a \in M /\ r \in M \ s /\ a # r /\ a \in Ticket /\ r \in Ticket
      BY <1>2
    <3>2. SortKey[a] >= SortKey[r]
      BY <1>1, <3>1
    <3>3. SortKey[a] # SortKey[r]
      BY <1>7, <3>1 DEF Alone
    <3> QED BY <1>6, <3>1, <3>2, <3>3
  <2>2. Before(r, M) \subseteq s \cup p /\ r \notin Before(r, M)
    <3>1. \A q \in M \ (s \cup p) : SortKey[r] >= SortKey[q] /\ q \in Ticket /\ r \in Ticket
      BY <1>1, <1>2
    <3> QED BY <1>2, <1>6, <3>1 DEF Before
  <2>3. Before(r, M) \in SUBSET Ticket /\ Rank(r, M) \in Nat
    BY <1>2, RankIsNat
  <2>4. Cardinality(s) <= Rank(r, M)
    BY <1>2, <2>1, <2>3, FewerRows DEF Rank
  <2>5. Rank(r, M) <= Cardinality(s \cup p) /\ Rank(r, M) # Cardinality(s \cup p)
    BY <1>2, <2>2, <2>3, FewerRows DEF Rank
  <2>6. Cardinality(s) = o
    <3>1. CASE Cardinality(s) < o
      <4>1. s = M
        BY <1>2, <1>3, <1>4, <3>1, FewerRows
      <4> QED BY <1>2, <4>1
    <3> QED BY <1>3, <1>4, <3>1
  <2> QED BY <1>3, <1>4, <1>5, <2>3, <2>4, <2>5, <2>6
<1>8. ASSUME NEW r \in M \ p, Alone(r), Rank(r, M) < o + ListLimit
      PROVE  Rank(r, M) < o
  <2>0. Before(r, M) \in SUBSET Ticket /\ Before(r, M) \in SUBSET M /\ Rank(r, M) \in Nat
        /\ r \notin Before(r, M) /\ r \in Ticket
    BY <1>6, RankIsNat DEF Before
  <2>1. CASE r \in s
    <3>1. Before(r, M) \subseteq s
      <4>1. \A q \in M \ s : SortKey[r] >= SortKey[q] /\ q \in Ticket
        BY <1>1, <2>1
      <4> QED BY <1>6, <2>0, <4>1 DEF Before
    <3>2. Rank(r, M) <= Cardinality(s) /\ Rank(r, M) # Cardinality(s)
      BY <1>2, <2>0, <2>1, <3>1, FewerRows DEF Rank
    <3> QED BY <1>3, <1>4, <2>0, <3>2
  <2>2. CASE r \notin s
    <3>1. s \cup p \subseteq Before(r, M)
      <4> SUFFICES ASSUME NEW a \in s \cup p
                   PROVE  a \in M /\ SortKey[a] > SortKey[r]
        BY DEF Before
      <4>1. a \in M /\ a # r /\ a \in Ticket /\ r \in M \ s /\ r \in M \ (s \cup p)
        BY <1>2, <2>2
      <4>2. SortKey[a] >= SortKey[r]
        BY <1>1, <4>1
      <4>3. SortKey[a] # SortKey[r]
        BY <1>8, <4>1 DEF Alone
      <4> QED BY <1>6, <2>0, <4>1, <4>2, <4>3
    <3>2. Cardinality(s) + Cardinality(p) <= Rank(r, M)
      BY <1>2, <1>5, <2>0, <3>1, FewerRows DEF Rank
    <3>3. Rank(r, M) <= Cardinality(M) /\ Rank(r, M) # Cardinality(M)
      BY <2>0, FewerRows DEF Rank
    <3>4. Cardinality(s) = o /\ Cardinality(p) = ListLimit
      BY <1>3, <1>4, <2>0, <3>2, <3>3
    <3> QED BY <1>8, <1>3, <2>0, <3>2, <3>4
  <2> QED BY <2>1, <2>2
<1> QED BY <1>2, <1>4, <1>7, <1>8

LEMMA RankIsBelow ==
  ASSUME NEW M \in SUBSET Ticket, NEW r \in M
  PROVE  Rank(r, M) < Cardinality(M)
<1>1. Before(r, M) \in SUBSET Ticket /\ Before(r, M) \subseteq M /\ r \notin Before(r, M)
  BY ListAssumption DEF Before
<1>2. Cardinality(M) \in Nat /\ Rank(r, M) \in Nat
  BY FiniteRows, RankIsNat
<1>3. Rank(r, M) <= Cardinality(M) /\ Rank(r, M) # Cardinality(M)
  BY <1>1, FewerRows DEF Rank
<1> QED BY <1>2, <1>3

LEMMA InitList == ListInit => ListInv
<1> SUFFICES ASSUME ListInit
             PROVE  ListInv
  OBVIOUS
<1>1. ListTypeOK /\ walk \in WalkRecord
  BY DEF ListInit, ListTypeOK, NoWalk, ListFilter, WalkRecord
<1>2. {r \in walk.again : Alone(r)} = {} /\ Cardinality({}) = 0
  BY FS_EmptySet DEF ListInit, NoWalk
<1>3. WalkAccounted
  BY <1>2 DEF ListInit, NoWalk, WalkAccounted, SkipsHaveCause, RepeatsHaveCause
<1> QED BY <1>1, <1>3 DEF ListInit, NoWalk, ListInv

\* A row joins the list, moves on in it, or leaves it.
LEMMA RowWrittenKeepsList ==
  ASSUME ListInv, NEW r \in Ticket, NEW status \in {"pending", "approved"},
         RowWritten(r, status),
         \/ ticket[r] = "none" /\ status = "pending"
         \/ ticket[r] = "pending" /\ status = "approved"
  PROVE  ListInv'
<1> DEFINE f == walk.filter
           M == Listed(f)
           N == {q \in Ticket : Satisfies(ticket'[q], f)}
           was == Satisfies(ticket[r], f)
           is == Satisfies(status, f)
           o == Reached(walk)
<1>1. /\ ticket' = [ticket EXCEPT ![r] = status] /\ ticket \in [Ticket -> {"none", "pending", "approved"}]
      /\ ticket' \in [Ticket -> {"none", "pending", "approved"}]
  BY DEF RowWritten, ListInv, ListTypeOK
<1>2. \A q \in Ticket : ticket'[q] = IF q = r THEN status ELSE ticket[q]
  BY <1>1
<1>3. walk \in WalkRecord /\ walk.again \subseteq walk.shown
  BY DEF ListInv
<1>4. ASSUME NEW q \in walk.shown
      PROVE  /\ Satisfies(ticket'[q], f) \/ ticket'[q] = "approved"
             /\ q = r => was
  <2>1. (Satisfies(ticket[q], f) \/ ticket[q] = "approved") /\ q \in Ticket
    BY <1>3 DEF ListInv, WalkRecord
  <2> QED BY <1>2, <2>1 DEF Satisfies
<1>5. CASE walk.pc \in {"away", "done"}
  <2>1. walk' = walk
    BY <1>5 DEF RowWritten
  <2> QED BY <1>1, <1>3, <1>4, <1>5, <2>1
          DEF ListInv, ListTypeOK, WalkAccounted, SkipsHaveCause, RepeatsHaveCause
<1>6. CASE walk.pc \in {"next", "count"}
  <2>1. /\ walk' \in WalkRecord
        /\ walk'.pc = walk.pc /\ walk'.filter = f /\ walk'.offset = walk.offset
        /\ walk'.rows = walk.rows /\ walk'.shown = walk.shown /\ walk'.again = walk.again
        /\ walk'.left = (IF was /\ ~is THEN walk.left + 1 ELSE walk.left)
        /\ walk'.arrived = (IF is /\ ~was THEN walk.arrived + 1 ELSE walk.arrived)
        /\ walk'.due = (IF is THEN walk.due ELSE walk.due \ {r})
    <3> HIDE DEF was, is
    <3>1. walk' = [walk EXCEPT !.left = IF was /\ ~is THEN @ + 1 ELSE @,
                               !.arrived = IF is /\ ~was THEN @ + 1 ELSE @,
                               !.due = IF is THEN @ ELSE @ \ {r}]
      BY <1>6 DEF RowWritten, was, is
    <3>2. walk.left \in Nat /\ walk.arrived \in Nat /\ walk.due \in SUBSET Ticket
      BY <1>3 DEF WalkRecord
    <3> DEFINE left2 == IF was /\ ~is THEN walk.left + 1 ELSE walk.left
               arrived2 == IF is /\ ~was THEN walk.arrived + 1 ELSE walk.arrived
               due2 == IF is THEN walk.due ELSE walk.due \ {r}
    <3>3. left2 \in Nat /\ arrived2 \in Nat /\ due2 \in SUBSET Ticket
      BY <3>2
    <3>4. walk' = [walk EXCEPT !.left = left2, !.arrived = arrived2, !.due = due2]
      BY <3>1
    <3> HIDE DEF left2, arrived2, due2
    <3>5. /\ walk' \in WalkRecord
          /\ walk'.pc = walk.pc /\ walk'.filter = f /\ walk'.offset = walk.offset
          /\ walk'.rows = walk.rows /\ walk'.shown = walk.shown /\ walk'.again = walk.again
          /\ walk'.left = left2 /\ walk'.arrived = arrived2 /\ walk'.due = due2
      BY <1>3, <3>3, <3>4 DEF WalkRecord
    <3> QED BY <3>5 DEF left2, arrived2, due2
  <2>2. /\ walk.due \subseteq M
        /\ Cardinality(Skipped(walk, M, o)) <= walk.left
        /\ Cardinality(Repeats(walk, M, o)) <= walk.arrived
    BY <1>6 DEF ListInv, Accounted
  <2>3. /\ M \in SUBSET Ticket /\ N \in SUBSET Ticket /\ walk.due \in SUBSET Ticket
        /\ walk.shown \in SUBSET Ticket /\ walk.left \in Nat /\ walk.arrived \in Nat
        /\ walk.offset \in Nat
    BY <1>3 DEF Listed, WalkRecord
  <2>4. o \in Nat /\ Reached(walk') = o
    BY <2>1, <2>3, ListAssumption DEF Reached
  <2>5. /\ Skipped(walk, M, o) \in SUBSET Ticket /\ Repeats(walk, M, o) \in SUBSET Ticket
        /\ Skipped(walk', N, o) \in SUBSET Ticket /\ Repeats(walk', N, o) \in SUBSET Ticket
    BY <2>1, <2>3 DEF Skipped, Repeats, WalkRecord
  <2>6. \A q \in Ticket \ {r} : q \in N <=> q \in M
    BY <1>2 DEF Listed
  <2>7. (r \in N <=> is) /\ (r \in M <=> was)
    BY <1>2 DEF Listed
  <2> HIDE DEF M, N, o
  <2>8. /\ walk'.due \subseteq N
        /\ Cardinality(Skipped(walk', N, o)) <= walk'.left
        /\ Cardinality(Repeats(walk', N, o)) <= walk'.arrived
    <3>1. CASE was <=> is
      <4>1. N = M
        BY <2>3, <2>6, <2>7, <3>1
      <4>2. walk'.due = walk.due /\ walk'.left = walk.left /\ walk'.arrived = walk.arrived
        <5> HIDE DEF was, is
        <5> QED BY <2>1, <2>2, <2>7, <3>1
      <4> QED BY <2>1, <2>2, <4>1, <4>2 DEF Skipped, Repeats
    <3>2. CASE is /\ ~was
      <4>1. N = M \cup {r} /\ r \notin M /\ r \notin walk.shown
        BY <1>4, <2>3, <2>6, <2>7, <3>2
      <4>2. walk'.due = walk.due /\ walk'.left = walk.left /\ walk'.arrived = walk.arrived + 1
        <5> HIDE DEF was, is
        <5> QED BY <2>1, <3>2
      <4>3. \A x \in Ticket : /\ Rank(x, M) \in Nat /\ Rank(x, N) \in Nat
                              /\ Rank(x, N) \in {Rank(x, M), Rank(x, M) + 1}
        BY <2>3, <4>1, RankMoves, RankIsNat
      <4>4. Skipped(walk', N, o) \subseteq Skipped(walk, M, o)
        BY <2>1, <2>3, <2>4, <4>2, <4>3 DEF Skipped
      <4>5. \A x \in Repeats(walk', N, o) \ Repeats(walk, M, o) :
              x \in M /\ Alone(x) /\ Rank(x, M) = o - 1
        <5> TAKE x \in Repeats(walk', N, o) \ Repeats(walk, M, o)
        <5>1. x \in walk.shown /\ Alone(x) /\ x \in N /\ Rank(x, N) >= o /\ x # r /\ x \in Ticket
          BY <2>1, <2>3, <4>1 DEF Repeats
        <5>2. x \in M /\ ~ (Rank(x, M) >= o)
          BY <4>1, <5>1 DEF Repeats
        <5> QED BY <2>4, <4>3, <5>1, <5>2
      <4>6. \A x, y \in Repeats(walk', N, o) \ Repeats(walk, M, o) : x = y
        BY <2>3, <4>5, RankIsPlace
      <4>7. /\ Cardinality(Skipped(walk', N, o)) <= Cardinality(Skipped(walk, M, o))
            /\ Cardinality(Repeats(walk', N, o)) <= Cardinality(Repeats(walk, M, o)) + 1
        BY <2>5, <4>4, <4>6, FewerRows, OneMoreRow
      <4>8. /\ Cardinality(Skipped(walk', N, o)) \in Nat /\ Cardinality(Skipped(walk, M, o)) \in Nat
            /\ Cardinality(Repeats(walk', N, o)) \in Nat /\ Cardinality(Repeats(walk, M, o)) \in Nat
        BY <2>5, FiniteRows
      <4> QED BY <2>2, <2>3, <4>1, <4>2, <4>7, <4>8
    <3>3. CASE was /\ ~is
      <4>1. M = N \cup {r} /\ r \notin N
        BY <2>3, <2>6, <2>7, <3>3
      <4>2. /\ walk'.due = walk.due \ {r} /\ walk'.left = walk.left + 1
            /\ walk'.arrived = walk.arrived
        <5> HIDE DEF was, is
        <5> QED BY <2>1, <3>3
      <4>3. \A x \in Ticket : /\ Rank(x, M) \in Nat /\ Rank(x, N) \in Nat
                              /\ Rank(x, M) \in {Rank(x, N), Rank(x, N) + 1}
        BY <2>3, <4>1, RankMoves, RankIsNat
      <4>4. Repeats(walk', N, o) \subseteq Repeats(walk, M, o)
        <5> SUFFICES ASSUME NEW x \in Repeats(walk', N, o)
                     PROVE  x \in Repeats(walk, M, o)
          OBVIOUS
        <5>1. x \in walk.shown /\ Alone(x) /\ x \in Ticket
              /\ (x \in walk.again \/ (x \in N /\ Rank(x, N) >= o))
          BY <2>1, <2>3 DEF Repeats
        <5>2. Rank(x, N) >= o => Rank(x, M) >= o
          <6>1. Rank(x, M) \in Nat /\ Rank(x, N) \in Nat /\ Rank(x, M) \in {Rank(x, N), Rank(x, N) + 1}
            BY <4>3, <5>1
          <6> QED BY <2>4, <6>1
        <5>3. x \in walk.again \/ (x \in M /\ Rank(x, M) >= o)
          BY <4>1, <5>1, <5>2
        <5> QED BY <5>1, <5>3 DEF Repeats
      <4>5. \A x \in Skipped(walk', N, o) \ Skipped(walk, M, o) :
              x \in M /\ Alone(x) /\ Rank(x, M) = o
        <5> TAKE x \in Skipped(walk', N, o) \ Skipped(walk, M, o)
        <5>1. x \in walk.due /\ x \notin walk.shown /\ Alone(x) /\ Rank(x, N) < o /\ x \in Ticket
          BY <2>1, <2>3, <4>2 DEF Skipped
        <5>2. x \in M /\ ~ (Rank(x, M) < o)
          BY <2>2, <5>1 DEF Skipped
        <5> QED BY <2>4, <4>3, <5>1, <5>2
      <4>6. \A x, y \in Skipped(walk', N, o) \ Skipped(walk, M, o) : x = y
        BY <2>3, <4>5, RankIsPlace
      <4>7. /\ Cardinality(Repeats(walk', N, o)) <= Cardinality(Repeats(walk, M, o))
            /\ Cardinality(Skipped(walk', N, o)) <= Cardinality(Skipped(walk, M, o)) + 1
        BY <2>5, <4>4, <4>6, FewerRows, OneMoreRow
      <4>8. /\ Cardinality(Skipped(walk', N, o)) \in Nat /\ Cardinality(Skipped(walk, M, o)) \in Nat
            /\ Cardinality(Repeats(walk', N, o)) \in Nat /\ Cardinality(Repeats(walk, M, o)) \in Nat
        BY <2>5, FiniteRows
      <4> QED BY <2>2, <2>3, <4>1, <4>2, <4>7, <4>8
    <3> QED BY <3>1, <3>2, <3>3
  <2>9. Accounted(walk, Listed(walk.filter))'
    <3>1. Listed(walk.filter)' = N
      BY <2>1 DEF Listed, N
    <3> QED BY <2>4, <2>8, <3>1 DEF Accounted
  <2>10. WalkAccounted'
    <3>1. Cardinality({q \in walk.again : Alone(q)}) <= walk.arrived
      BY DEF ListInv, WalkAccounted, RepeatsHaveCause
    <3>2. {q \in walk.again : Alone(q)} \in SUBSET Ticket
      BY <1>3 DEF WalkRecord
    <3>3. Cardinality({q \in walk.again : Alone(q)}) \in Nat
      BY <3>2, FiniteRows
    <3>4. walk'.arrived >= walk.arrived
      <4> HIDE DEF was, is
      <4> QED BY <2>1, <2>3
    <3>5. walk'.arrived \in Nat
      BY <2>1 DEF WalkRecord
    <3>6. Cardinality({q \in walk.again : Alone(q)}) <= walk'.arrived
      BY <2>3, <3>1, <3>3, <3>4, <3>5
    <3> QED BY <1>6, <2>1, <3>6 DEF WalkAccounted, SkipsHaveCause, RepeatsHaveCause
  <2>11. ListTypeOK'
    BY <1>1, <2>1 DEF ListTypeOK, WalkRecord
  <2>12. \A q \in walk'.shown : Satisfies(ticket'[q], walk'.filter) \/ ticket'[q] = "approved"
    BY <1>4, <2>1
  <2> HIDE DEF was, is
  <2>13. walk'.pc = "count" => Cardinality(walk'.rows) <= ListLimit
    BY <2>1 DEF ListInv
  <2> QED BY <1>3, <2>1, <2>9, <2>10, <2>11, <2>12, <2>13 DEF ListInv
<1> QED BY <1>3, <1>5, <1>6 DEF WalkRecord

\* The rows of a page are read, for a walk w that is due what it should be.
LEMMA RowsReadKeepsList ==
  ASSUME ListInv, NEW w \in WalkRecord, RowsRead(w), w.again \subseteq w.shown,
         \A r \in w.shown : Satisfies(ticket[r], w.filter) \/ ticket[r] = "approved",
         w.due \subseteq Listed(w.filter),
         Cardinality(Skipped(w, Listed(w.filter), w.offset)) <= w.left,
         Cardinality(Repeats(w, Listed(w.filter), w.offset)) <= w.arrived
  PROVE  ListInv'
<1> DEFINE M == Listed(w.filter)
<1>1. PICK p \in PagesOf(M, w.offset) :
        walk' = [w EXCEPT !.pc = "count", !.rows = p, !.shown = @ \cup p,
                          !.again = @ \cup (w.shown \cap p)]
  BY DEF RowsRead
<1>2. ticket' = ticket /\ ticket \in [Ticket -> {"none", "pending", "approved"}]
  BY DEF RowsRead, ListInv, ListTypeOK
<1>3. /\ M \in SUBSET Ticket /\ w.offset \in Nat /\ w.left \in Nat /\ w.arrived \in Nat
      /\ w.due \in SUBSET Ticket /\ w.shown \in SUBSET Ticket /\ w.again \in SUBSET Ticket
      /\ w.filter \in ListFilter /\ w.pc \in {"away", "count", "next", "done"}
  BY DEF Listed, WalkRecord
<1>4. Listed(w.filter)' = M /\ \A r \in M : Satisfies(ticket[r], w.filter)
  BY <1>2 DEF Listed
<1>5. w.due \subseteq M /\ Cardinality(Skipped(w, M, w.offset)) <= w.left
      /\ Cardinality(Repeats(w, M, w.offset)) <= w.arrived
  OBVIOUS
<1>6. /\ p \subseteq M /\ Cardinality(p) <= ListLimit
      /\ \A r \in p : Alone(r) => Rank(r, M) >= w.offset /\ Rank(r, M) < w.offset + ListLimit
      /\ \A r \in M \ p : Alone(r) /\ Rank(r, M) < w.offset + ListLimit => Rank(r, M) < w.offset
  <2>1. M \in SUBSET Ticket /\ w.offset \in Nat /\ p \in PagesOf(M, w.offset)
    BY <1>1, <1>3
  <2> HIDE DEF M
  <2> QED BY <2>1, PageIsPlaces
<1> HIDE DEF M
<1>7. /\ walk' \in WalkRecord /\ walk'.pc = "count" /\ walk'.rows = p
      /\ walk'.shown = w.shown \cup p /\ walk'.again = w.again \cup (w.shown \cap p)
      /\ walk'.filter = w.filter /\ walk'.offset = w.offset /\ walk'.due = w.due
      /\ walk'.left = w.left /\ walk'.arrived = w.arrived
  <2>1. p \in SUBSET Ticket
    BY <1>3, <1>6
  <2> QED BY <1>1, <1>3, <2>1 DEF WalkRecord
<1> DEFINE o == w.offset + ListLimit
<1>8. o \in Nat /\ Reached(walk') = o /\ o >= w.offset
  BY <1>3, <1>7, ListAssumption DEF Reached
<1> HIDE DEF o
<1>9. \A r \in Ticket : Rank(r, M) \in Nat
  BY <1>3, RankIsNat
<1>10. Skipped(walk', M, o) \subseteq Skipped(w, M, w.offset)
  <2> SUFFICES ASSUME NEW r \in Skipped(walk', M, o)
               PROVE  r \in Skipped(w, M, w.offset)
    OBVIOUS
  <2>1. r \in w.due /\ r \notin w.shown /\ r \notin p /\ Alone(r) /\ Rank(r, M) < o
    BY <1>7 DEF Skipped
  <2>2. Rank(r, M) < w.offset
    BY <1>5, <1>6, <2>1 DEF o
  <2> QED BY <2>1, <2>2 DEF Skipped
<1>11. Repeats(walk', M, o) \subseteq Repeats(w, M, w.offset)
  <2> SUFFICES ASSUME NEW r \in Repeats(walk', M, o)
               PROVE  r \in Repeats(w, M, w.offset)
    OBVIOUS
  <2>1. /\ r \in w.shown \cup p /\ Alone(r) /\ r \in Ticket
        /\ r \in w.again \cup (w.shown \cap p) \/ (r \in M /\ Rank(r, M) >= o)
    BY <1>3, <1>6, <1>7 DEF Repeats
  <2>2. CASE r \in w.again
    BY <2>1, <2>2 DEF Repeats
  <2>3. CASE r \in w.shown \cap p
    BY <1>6, <2>1, <2>3 DEF Repeats
  <2>4. CASE r \in M /\ Rank(r, M) >= o
    <3>1. r \notin p
      BY <1>6, <1>8, <1>9, <2>1, <2>4 DEF o
    <3>2. r \in w.shown /\ Rank(r, M) >= w.offset
      BY <1>3, <1>8, <1>9, <2>1, <2>4, <3>1
    <3> QED BY <2>1, <2>4, <3>2 DEF Repeats
  <2> QED BY <2>1, <2>2, <2>3, <2>4
<1>12. /\ Skipped(w, M, w.offset) \in SUBSET Ticket /\ Repeats(w, M, w.offset) \in SUBSET Ticket
       /\ Skipped(walk', M, o) \in SUBSET Ticket /\ Repeats(walk', M, o) \in SUBSET Ticket
       /\ {r \in walk'.again : Alone(r)} \in SUBSET Ticket
  BY <1>3, <1>7 DEF Skipped, Repeats, WalkRecord
<1>13. walk'.again \subseteq walk'.shown
  BY <1>7
<1>14. {r \in walk'.again : Alone(r)} \subseteq Repeats(walk', M, o)
  BY <1>13 DEF Repeats
<1>15. /\ Cardinality(Skipped(walk', M, o)) <= walk'.left
       /\ Cardinality(Repeats(walk', M, o)) <= walk'.arrived
       /\ Cardinality({r \in walk'.again : Alone(r)}) <= walk'.arrived
  <2>1. /\ Cardinality(Skipped(walk', M, o)) <= Cardinality(Skipped(w, M, w.offset))
        /\ Cardinality(Repeats(walk', M, o)) <= Cardinality(Repeats(w, M, w.offset))
        /\ Cardinality({r \in walk'.again : Alone(r)}) <= Cardinality(Repeats(walk', M, o))
    BY <1>10, <1>11, <1>12, <1>14, FewerRows
  <2>2. /\ Cardinality(Skipped(walk', M, o)) \in Nat /\ Cardinality(Skipped(w, M, w.offset)) \in Nat
        /\ Cardinality(Repeats(walk', M, o)) \in Nat /\ Cardinality(Repeats(w, M, w.offset)) \in Nat
        /\ Cardinality({r \in walk'.again : Alone(r)}) \in Nat
    BY <1>12, FiniteRows
  <2> QED BY <1>3, <1>5, <1>7, <2>1, <2>2
<1>16. Accounted(walk, Listed(walk.filter))'
  <2>1. Listed(walk.filter)' = M
    BY <1>4, <1>7
  <2> QED BY <1>5, <1>7, <1>8, <1>15, <2>1 DEF Accounted
<1>17. WalkAccounted'
  BY <1>7, <1>15 DEF WalkAccounted, SkipsHaveCause, RepeatsHaveCause
<1>18. ListTypeOK'
  BY <1>2, <1>7 DEF ListTypeOK, WalkRecord
<1>19. \A r \in walk'.shown : Satisfies(ticket'[r], walk'.filter) \/ ticket'[r] = "approved"
  BY <1>2, <1>4, <1>6, <1>7
<1> QED BY <1>6, <1>7, <1>13, <1>16, <1>17, <1>18, <1>19 DEF ListInv

LEMMA WalkStartsKeepsList ==
  ASSUME ListInv, NEW f \in ListFilter, WalkStarts(f)
  PROVE  ListInv'
<1> DEFINE w == [NoWalk EXCEPT !.filter = f, !.due = Listed(f)]
<1>1. RowsRead(w)
  BY DEF WalkStarts
<1>2. /\ w \in WalkRecord /\ w.due = Listed(f) /\ w.filter = f /\ w.offset = 0 /\ w.shown = {}
      /\ w.again = {} /\ w.left = 0 /\ w.arrived = 0
  BY DEF NoWalk, WalkRecord, Listed
<1> HIDE DEF w
<1>3. Skipped(w, Listed(f), 0) = {}
  <2>1. \A r \in Ticket : Rank(r, Listed(f)) \in Nat
    BY RankIsNat DEF Listed
  <2>2. \A r \in Ticket : ~ (Rank(r, Listed(f)) < 0)
    BY <2>1
  <2> QED BY <1>2, <2>2 DEF Skipped, WalkRecord
<1>4. Repeats(w, Listed(f), 0) = {}
  BY <1>2 DEF Repeats
<1>5. Cardinality({}) = 0
  BY FS_EmptySet
<1>6. /\ Cardinality(Skipped(w, Listed(f), 0)) <= 0
      /\ Cardinality(Repeats(w, Listed(f), 0)) <= 0
  BY <1>3, <1>4, <1>5
<1> QED BY <1>1, <1>2, <1>6, RowsReadKeepsList

LEMMA WalkGoesOnKeepsList ==
  ASSUME ListInv, WalkGoesOn
  PROVE  ListInv'
<1>1. RowsRead(walk) /\ walk.pc = "next" /\ Reached(walk) = walk.offset
  BY DEF WalkGoesOn, Reached
<1>2. Accounted(walk, Listed(walk.filter))
  BY <1>1 DEF ListInv
<1> QED BY <1>1, <1>2, RowsReadKeepsList DEF ListInv, Accounted

\* At the end of a walk nothing lies beyond what it has come to.
LEMMA CountReadKeepsList ==
  ASSUME ListInv, CountRead
  PROVE  ListInv'
<1> DEFINE M == Listed(walk.filter)
           more == HasNextPage(Cardinality(M))
           offset2 == IF more THEN walk.offset + ListLimit ELSE walk.offset
           pc2 == IF more THEN "next" ELSE "done"
<1>1. /\ walk.pc = "count" /\ ticket' = ticket
      /\ walk' = [walk EXCEPT !.pc = pc2, !.offset = offset2, !.rows = {}]
  BY DEF CountRead
<1>2. walk \in WalkRecord /\ Accounted(walk, M)
  BY <1>1 DEF ListInv
<1>3. /\ walk.offset \in Nat /\ offset2 \in Nat /\ walk.rows \in SUBSET Ticket /\ M \in SUBSET Ticket
      /\ walk.due \in SUBSET Ticket /\ walk.left \in Nat /\ ListLimit \in Nat
  BY <1>2, ListAssumption DEF WalkRecord, Listed
<1>4. ~more => ~ (walk.offset + Cardinality(walk.rows) < Cardinality(M))
  BY DEF HasNextPage
<1>5. pc2 \in {"next", "done"} /\ (pc2 = "next" <=> more)
  OBVIOUS
<1>6. Reached(walk) = walk.offset + ListLimit /\ (more => offset2 = walk.offset + ListLimit)
  BY <1>1 DEF Reached
<1> HIDE DEF M, more, offset2, pc2
<1>7. /\ walk' \in WalkRecord /\ walk'.pc = pc2 /\ walk'.rows = {} /\ walk'.offset = offset2
      /\ walk'.shown = walk.shown /\ walk'.again = walk.again /\ walk'.filter = walk.filter
      /\ walk'.due = walk.due /\ walk'.left = walk.left /\ walk'.arrived = walk.arrived
  BY <1>1, <1>2, <1>3, <1>5 DEF WalkRecord
<1>8. Listed(walk.filter)' = M
  BY <1>1, <1>7 DEF M, Listed
<1>9. walk'.pc = "next" => Accounted(walk, Listed(walk.filter))'
  <2> SUFFICES ASSUME more
               PROVE  Accounted(walk', M)
    BY <1>5, <1>7, <1>8 DEF Accounted, Skipped, Repeats
  <2>1. Reached(walk') = Reached(walk)
    BY <1>5, <1>6, <1>7 DEF Reached
  <2> QED BY <1>2, <1>7, <2>1 DEF Accounted, Skipped, Repeats
<1>10. SkipsHaveCause'
  <2> SUFFICES ASSUME ~more
               PROVE  Cardinality({r \in walk.due \ walk.shown : Alone(r)}) <= walk.left
    BY <1>5, <1>7 DEF SkipsHaveCause
  <2> DEFINE missed == {r \in walk.due \ walk.shown : Alone(r)}
             o == Reached(walk)
  <2>1. Cardinality(walk.rows) <= ListLimit /\ Cardinality(walk.rows) \in Nat /\ Cardinality(M) \in Nat
    BY <1>1, <1>3, FiniteRows DEF ListInv
  <2>2. Cardinality(M) <= o
    BY <1>3, <1>4, <1>6, <2>1
  <2>3. \A r \in M : Rank(r, M) < o
    <3> TAKE r \in M
    <3>1. Rank(r, M) < Cardinality(M) /\ Rank(r, M) \in Nat
      BY <1>3, RankIsBelow, RankIsNat
    <3> QED BY <1>3, <1>6, <2>1, <2>2, <3>1
  <2>4. missed \subseteq Skipped(walk, M, o)
    BY <1>2, <2>3 DEF Skipped, Accounted
  <2>5. missed \in SUBSET Ticket /\ Skipped(walk, M, o) \in SUBSET Ticket
    BY <1>3 DEF Skipped
  <2>6. Cardinality(Skipped(walk, M, o)) <= walk.left
    BY <1>2 DEF Accounted
  <2> HIDE DEF missed, o
  <2>7. Cardinality(missed) <= Cardinality(Skipped(walk, M, o))
    BY <2>4, <2>5, FewerRows
  <2>8. Cardinality(missed) \in Nat /\ Cardinality(Skipped(walk, M, o)) \in Nat
    BY <2>5, FiniteRows
  <2>9. Cardinality(missed) <= walk.left
    BY <1>3, <2>6, <2>7, <2>8
  <2> QED BY <2>9 DEF missed
<1>11. WalkAccounted'
  BY <1>7, <1>10 DEF ListInv, WalkAccounted, RepeatsHaveCause
<1>12. ListTypeOK'
  <2>1. ticket' = ticket /\ ticket \in [Ticket -> {"none", "pending", "approved"}]
    BY <1>1 DEF ListInv, ListTypeOK
  <2> QED BY <1>7, <2>1 DEF ListTypeOK, WalkRecord
<1> QED BY <1>1, <1>5, <1>7, <1>9, <1>11, <1>12 DEF ListInv

LEMMA NextList == ListInv /\ [ListNext]_listVars => ListInv'
<1> SUFFICES ASSUME ListInv, [ListNext]_listVars
             PROVE  ListInv'
  OBVIOUS
<1>1. ASSUME NEW r \in Ticket, TicketSubmitted(r) \/ TicketApproved(r)
      PROVE  ListInv'
  BY <1>1, RowWrittenKeepsList DEF TicketSubmitted, TicketApproved
<1>2. CASE UNCHANGED listVars
  <2>1. ticket' = ticket /\ walk' = walk
    BY <1>2 DEF listVars
  <2>2. Accounted(walk, Listed(walk.filter))' <=> Accounted(walk, Listed(walk.filter))
    BY <2>1 DEF Accounted, Listed, Skipped, Repeats, Reached
  <2> QED BY <2>1, <2>2
          DEF ListInv, ListTypeOK, WalkAccounted, SkipsHaveCause, RepeatsHaveCause
<1> QED BY <1>1, <1>2, WalkStartsKeepsList, WalkGoesOnKeepsList, CountReadKeepsList DEF ListNext

-----------------------------------------------------------------------------
(* Assets (AssetRegister).                                                 *)

\* What a request has read: an asset that exists and, for an assignment, an
\* employee; if nobody wrote the asset since (behind), it is still free, so that
\* the checks of assign and retire (asset.service.ts:67-70, 125-128) still stand.
ReadsFresh ==
  \A c \in AssetCall :
    assetCall[c] # AssetIdle =>
      LET a == assetCall[c].asset
      IN  /\ asset[a].status # "none"
          /\ assetCall[c].pc = "assign" => assetCall[c].emp \in Staff
          /\ assetCall[c].pc \in {"assign", "retire"} /\ c \notin behind
               => asset[a].status = "in_stock"

\* An asset that has yet to be created has neither holder nor event: its first
\* event will be that of its creation (asset.service.ts:29-44).
UnbornUntold ==
  \A a \in Asset :
    asset[a].status = "none" => asset[a].to = Nobody /\ told[a] = InStock

\* The inductive invariant.
BooksInv == AssetsTypeOK /\ AssetBooks /\ ReadsFresh /\ UnbornUntold

USE DEF InStock, NoneHeld

\* A request in flight names an asset and an employee or nobody.
LEMMA CallShape ==
  ASSUME NEW k \in AssetCallType
  PROVE  \/ k = AssetIdle /\ k.pc = "idle"
         \/ /\ k # AssetIdle
            /\ k.pc \in {"assign", "unassign", "retire", "announce"}
            /\ k.asset \in Asset /\ k.emp \in Staff \cup {Nobody}
            /\ k = [pc |-> k.pc, asset |-> k.asset, emp |-> k.emp]
<1>1. CASE k = AssetIdle
  BY <1>1 DEF AssetIdle
<1>2. CASE k \in [pc: WritePc \cup {"announce"}, asset: Asset, emp: Staff \cup {Nobody}]
  BY <1>2 DEF AssetIdle, WritePc
<1> QED
  BY <1>1, <1>2 DEF AssetCallType

\* The invariant holds of the empty register.
LEMMA InitBooks == AssetInit => BooksInv
<1> SUFFICES ASSUME AssetInit PROVE BooksInv
  OBVIOUS
<1>1. AssetsTypeOK
  BY AssetAssumption DEF AssetInit, AssetsTypeOK, AssetRow, AssetCallType
<1>2. AssetBooks
  BY AssetAssumption DEF AssetInit, AssetBooks, HolderHasRow, BooksMatchShelf,
     EventsTellState, OpenRows
<1>3. ReadsFresh /\ UnbornUntold
  BY DEF AssetInit, ReadsFresh, UnbornUntold
<1> QED
  BY <1>1, <1>2, <1>3 DEF BooksInv

\* The shape of the state is kept by every step (asset.service.ts).
LEMMA StepType ==
  ASSUME BooksInv, AssetNext
  PROVE  AssetsTypeOK'
<1> USE DEF BooksInv
<1>1. ASSUME NEW a \in Asset, CreateAsset(a) PROVE AssetsTypeOK'
  BY <1>1, AssetAssumption DEF CreateAsset, AssetOp, AssetsTypeOK, AssetRow
<1>2. ASSUME NEW e \in Staff, Offboard(e) PROVE AssetsTypeOK'
  <2> DEFINE back == {a \in Asset : held[a][e] > 0}
  <2>1. asset' \in [Asset -> AssetRow]
    <3> SUFFICES ASSUME NEW a \in Asset
                 PROVE  (IF a \in back THEN [asset[a] EXCEPT !.status = "in_stock"]
                         ELSE asset[a]) \in AssetRow
      BY <1>2 DEF Offboard
    <3> QED
      BY DEF AssetsTypeOK, AssetRow
  <2>2. held' \in [Asset -> [Staff -> Nat]]
    BY <1>2 DEF Offboard, AssetsTypeOK
  <2>3. behind' \subseteq AssetCall /\ untold' \subseteq Asset
    BY <1>2 DEF Offboard, AssetsTypeOK, Reading
  <2> QED
    BY <1>2, <2>1, <2>2, <2>3 DEF Offboard, AssetOp, AssetsTypeOK
<1>3. ASSUME NEW c \in AssetCall, AssetCallStep(c) PROVE AssetsTypeOK'
  <2> DEFINE k == assetCall[c]
             new == assetCall'[c]
  <2>0. k \in AssetCallType
    BY DEF AssetsTypeOK
  <2>a. k = AssetIdle \/ (k.asset \in Asset /\ k.emp \in Staff \cup {Nobody})
    BY <2>0, CallShape
  <2>b. k.pc # "idle" => k # AssetIdle
    BY DEF AssetIdle
  <2>1. ASSUME NEW a \in Asset, NEW e \in Staff, AssetAssignRead(c, a, e) PROVE AssetsTypeOK'
    BY <2>1 DEF AssetAssignRead, Reads, AssetOp, AssetsTypeOK, AssetCallType, WritePc
  <2>2. ASSUME NEW a \in Asset, AssetUnassignRead(c, a) \/ AssetRetireRead(c, a) PROVE AssetsTypeOK'
    BY <2>2 DEF AssetUnassignRead, AssetRetireRead, Reads, AssetOp, AssetsTypeOK,
       AssetCallType, WritePc
  <2>3. CASE AssetAssign(c)
    <3>1. k.asset \in Asset /\ k.emp \in Staff
      BY <2>3, <2>a, <2>b DEF AssetAssign, ReadsFresh
    <3>2. held' \in [Asset -> [Staff -> Nat]]
      BY <2>3, <3>1 DEF AssetAssign, AssetsTypeOK
    <3>3. [status |-> "assigned", to |-> k.emp] \in AssetRow
      BY <3>1 DEF AssetRow
    <3> QED
      BY <2>3, <3>1, <3>2, <3>3 DEF AssetAssign, Writes, Reading, AssetsTypeOK, AssetCallType
  <2>4. CASE AssetUnassign(c)
    <3>1. k.asset \in Asset
      BY <2>4, <2>a, <2>b DEF AssetUnassign
    <3>2. InStock \in AssetRow /\ NoneHeld \in [Staff -> Nat]
      BY DEF AssetRow
    <3> QED
      BY <2>4, <3>1, <3>2 DEF AssetUnassign, Writes, Reading, AssetsTypeOK, AssetCallType
  <2>5. CASE AssetRetire(c)
    <3>1. k.asset \in Asset /\ k.emp \in Staff \cup {Nobody}
      BY <2>5, <2>a, <2>b DEF AssetRetire
    <3>2. [status |-> "retired", to |-> Nobody] \in AssetRow
      BY DEF AssetRow
    <3>3. [k EXCEPT !.pc = "announce"] \in AssetCallType
      BY <2>0, <2>5, <3>1, CallShape DEF AssetCallType, AssetRetire, AssetIdle
    <3> QED
      BY <2>5, <3>1, <3>2, <3>3 DEF AssetRetire, Writes, Reading, AssetsTypeOK
  <2>6. CASE AssetRetireEvent(c)
    <3>1. k.asset \in Asset
      BY <2>6, <2>a, <2>b DEF AssetRetireEvent
    <3>2. [status |-> "retired", to |-> Nobody] \in AssetRow
      BY DEF AssetRow
    <3> QED
      BY <2>6, <3>1, <3>2 DEF AssetRetireEvent, AssetsTypeOK, AssetCallType
  <2>7. CASE AssetCallFails(c)
    BY <2>7 DEF AssetCallFails, AssetsTypeOK, AssetCallType
  <2> QED
    BY <1>3, <2>1, <2>2, <2>3, <2>4, <2>5, <2>6, <2>7 DEF AssetCallStep
<1> QED
  BY <1>1, <1>2, <1>3 DEF AssetNext

\* Reading an asset keeps the books; what the read found is what assign and
\* retire check for, since no asset is marked as assigned to nobody.
LEMMA ReadBooks ==
  ASSUME BooksInv, NEW c \in AssetCall, NEW a \in Asset,
         \/ \E e \in Staff : AssetAssignRead(c, a, e)
         \/ AssetUnassignRead(c, a) \/ AssetRetireRead(c, a)
  PROVE  AssetBooks' /\ ReadsFresh' /\ UnbornUntold'
<1> USE DEF BooksInv
<1>1. UNCHANGED <<asset, held, told, offboarded, behind, crossed, untold>>
  BY DEF AssetAssignRead, AssetUnassignRead, AssetRetireRead, Reads
<1>2. AssetBooks' /\ UnbornUntold'
  BY <1>1 DEF AssetBooks, HolderHasRow, BooksMatchShelf, EventsTellState, OpenRows, UnbornUntold
<1>3. PICK pc \in WritePc, e \in Staff \cup {Nobody} :
        /\ assetCall' = [assetCall EXCEPT ![c] = [pc |-> pc, asset |-> a, emp |-> e]]
        /\ pc = "assign" => e \in Staff /\ asset[a].to = Nobody
                            /\ asset[a].status \notin {"none", "retired"}
        /\ pc = "unassign" => asset[a].to # Nobody
        /\ pc = "retire" => asset[a].status \notin {"none", "retired", "assigned"}
  BY DEF AssetAssignRead, AssetUnassignRead, AssetRetireRead, Reads, WritePc
<1>4. asset[a].status \in {"none", "in_stock", "assigned", "retired"}
  BY DEF AssetsTypeOK, AssetRow
<1>5. asset[a].status # "none"
  BY <1>3 DEF UnbornUntold, WritePc
<1>6. pc \in {"assign", "retire"} => asset[a].status = "in_stock"
  BY <1>3, <1>4, AssetAssumption DEF AssetBooks, HolderHasRow
<1>7. ReadsFresh'
  <2> SUFFICES ASSUME NEW d \in AssetCall, assetCall'[d] # AssetIdle
               PROVE  /\ asset[assetCall'[d].asset].status # "none"
                      /\ assetCall'[d].pc = "assign" => assetCall'[d].emp \in Staff
                      /\ assetCall'[d].pc \in {"assign", "retire"} /\ d \notin behind
                           => asset[assetCall'[d].asset].status = "in_stock"
    BY <1>1 DEF ReadsFresh
  <2>1. CASE d = c
    BY <2>1, <1>3, <1>5, <1>6 DEF AssetsTypeOK
  <2>2. CASE d # c
    BY <2>2, <1>3 DEF AssetsTypeOK, ReadsFresh
  <2> QED
    BY <2>1, <2>2
<1> QED
  BY <1>2, <1>7

\* After a step that writes asset a, marks its readers and ends or advances call
\* c, what the other requests have read is as fresh as it is said to be.
LEMMA WriteFresh ==
  ASSUME BooksInv, NEW c \in AssetCall, NEW a \in Asset, NEW row \in AssetRow,
         Writes(c, a, row), row.status # "none",
         NEW k, assetCall' = [assetCall EXCEPT ![c] = k],
         k = AssetIdle \/ (k # AssetIdle /\ k.pc = "announce" /\ k.asset = a)
  PROVE  ReadsFresh'
<1> USE DEF BooksInv
<1> SUFFICES ASSUME NEW d \in AssetCall, assetCall'[d] # AssetIdle
             PROVE  /\ asset'[assetCall'[d].asset].status # "none"
                    /\ assetCall'[d].pc = "assign" => assetCall'[d].emp \in Staff
                    /\ assetCall'[d].pc \in {"assign", "retire"} /\ d \notin behind'
                         => asset'[assetCall'[d].asset].status = "in_stock"
  BY DEF ReadsFresh
<1>1. asset' = [asset EXCEPT ![a] = row] /\ asset \in [Asset -> AssetRow]
  BY DEF Writes, AssetsTypeOK
<1>2. CASE d = c
  BY <1>1, <1>2 DEF AssetsTypeOK
<1>3. CASE d # c
  <2>1. assetCall'[d] = assetCall[d] /\ assetCall[d] \in AssetCallType
    BY <1>3 DEF AssetsTypeOK
  <2>2. assetCall[d].asset \in Asset
    BY <2>1, CallShape
  <2>3. CASE assetCall[d].asset = a
    BY <1>1, <1>3, <2>1, <2>3 DEF ReadsFresh, Writes, Reading, WritePc
  <2>4. CASE assetCall[d].asset # a
    BY <1>1, <1>3, <2>1, <2>2, <2>4 DEF ReadsFresh, Writes
  <2> QED
    BY <2>3, <2>4
<1> QED
  BY <1>2, <1>3

\* assign (asset.service.ts:60-95): on a read that still stands the asset has no
\* open row yet, so the one written is the only one.
LEMMA AssignBooks ==
  ASSUME BooksInv, NEW c \in AssetCall, AssetAssign(c)
  PROVE  AssetBooks' /\ ReadsFresh' /\ UnbornUntold'
<1> USE DEF BooksInv
<1> DEFINE a == assetCall[c].asset
           e == assetCall[c].emp
           row == [status |-> "assigned", to |-> e]
<1>1. assetCall[c] # AssetIdle
  BY DEF AssetAssign, AssetIdle
<1>2. a \in Asset /\ e \in Staff /\ assetCall[c].pc = "assign"
  BY <1>1, CallShape DEF AssetsTypeOK, ReadsFresh, AssetAssign
<1>3. row \in AssetRow
  BY <1>2 DEF AssetRow
<1>4. /\ asset' = [asset EXCEPT ![a] = row] /\ asset \in [Asset -> AssetRow]
      /\ held' = [held EXCEPT ![a] = [held[a] EXCEPT ![e] = held[a][e] + 1]]
      /\ held \in [Asset -> [Staff -> Nat]]
      /\ told' = [told EXCEPT ![a] = row] /\ told \in [Asset -> AssetRow]
      /\ untold' = untold \ {a} /\ offboarded' = offboarded
      /\ crossed' = IF c \in behind THEN crossed \cup {a} ELSE crossed
  BY DEF AssetAssign, Writes, AssetsTypeOK
<1>5. HolderHasRow'
  <2> SUFFICES ASSUME NEW b \in Asset, asset'[b].status = "assigned"
               PROVE  asset'[b].to \in Staff /\ held'[b][asset'[b].to] > 0
    BY DEF HolderHasRow
  <2>1. CASE b = a
    BY <1>2, <1>4, <2>1
  <2>2. CASE b # a
    BY <1>2, <1>4, <2>2 DEF AssetBooks, HolderHasRow
  <2> QED
    BY <2>1, <2>2
<1>6. BooksMatchShelf'
  <2> SUFFICES ASSUME NEW b \in Asset, b \notin crossed'
               PROVE  /\ {x \in Staff : held'[b][x] > 0}
                           = IF asset'[b].status = "assigned" THEN {asset'[b].to} ELSE {}
                      /\ \A x \in Staff : held'[b][x] <= 1
                      /\ \/ asset'[b].to \in offboarded' \cup {Nobody}
                         \/ asset'[b].status = "assigned"
    BY DEF BooksMatchShelf, OpenRows
  <2>1. b \notin crossed
    BY <1>4
  <2>2. CASE b = a
    <3>1. c \notin behind
      BY <1>4, <2>2
    <3>2. asset[a].status = "in_stock"
      BY <1>1, <1>2, <3>1 DEF ReadsFresh
    <3>3. {x \in Staff : held[a][x] > 0} = {}
      BY <1>2, <2>1, <2>2, <3>2 DEF AssetBooks, BooksMatchShelf, OpenRows
    <3>4. \A x \in Staff : held[a][x] = 0
      BY <1>2, <1>4, <3>3
    <3>5. \A x \in Staff : held'[a][x] = IF x = e THEN 1 ELSE 0
      BY <1>2, <1>4, <3>4
    <3>6. asset'[a].status = "assigned" /\ asset'[a].to = e
      BY <1>2, <1>4
    <3> QED
      BY <1>2, <2>2, <3>5, <3>6
  <2>3. CASE b # a
    <3>1. asset'[b] = asset[b] /\ held'[b] = held[b]
      BY <1>2, <1>4, <2>3
    <3> QED
      BY <1>4, <2>1, <3>1 DEF AssetBooks, BooksMatchShelf, OpenRows
  <2> QED
    BY <2>2, <2>3
<1>7. EventsTellState'
  BY <1>2, <1>4 DEF AssetBooks, EventsTellState
<1>8. UnbornUntold'
  BY <1>2, <1>4 DEF UnbornUntold
<1>9. ReadsFresh'
  <2>1. Writes(c, a, row) /\ assetCall' = [assetCall EXCEPT ![c] = AssetIdle] /\ row.status # "none"
    BY DEF AssetAssign
  <2> QED
    BY <1>2, <1>3, <2>1, WriteFresh
<1> QED
  BY <1>5, <1>6, <1>7, <1>8, <1>9 DEF AssetBooks

\* unassign (asset.service.ts:97-121) closes every open row, so that even an
\* overtaken one leaves the asset with its books in order.
LEMMA UnassignBooks ==
  ASSUME BooksInv, NEW c \in AssetCall, AssetUnassign(c)
  PROVE  AssetBooks' /\ ReadsFresh' /\ UnbornUntold'
<1> USE DEF BooksInv
<1> DEFINE a == assetCall[c].asset
<1>1. assetCall[c] # AssetIdle
  BY DEF AssetUnassign, AssetIdle
<1>2. a \in Asset
  BY <1>1, CallShape DEF AssetsTypeOK
<1>3. InStock \in AssetRow /\ InStock.status # "none"
  BY DEF AssetRow
<1>4. /\ asset' = [asset EXCEPT ![a] = InStock] /\ asset \in [Asset -> AssetRow]
      /\ held' = [held EXCEPT ![a] = NoneHeld] /\ held \in [Asset -> [Staff -> Nat]]
      /\ told' = [told EXCEPT ![a] = InStock] /\ told \in [Asset -> AssetRow]
      /\ untold' = untold \ {a} /\ offboarded' = offboarded
      /\ crossed' = IF c \in behind THEN crossed \cup {a} ELSE crossed
  BY DEF AssetUnassign, Writes, AssetsTypeOK
<1>5. HolderHasRow'
  BY <1>2, <1>4 DEF AssetBooks, HolderHasRow
<1>6. BooksMatchShelf'
  <2> SUFFICES ASSUME NEW b \in Asset, b \notin crossed'
               PROVE  /\ {x \in Staff : held'[b][x] > 0}
                           = IF asset'[b].status = "assigned" THEN {asset'[b].to} ELSE {}
                      /\ \A x \in Staff : held'[b][x] <= 1
                      /\ \/ asset'[b].to \in offboarded' \cup {Nobody}
                         \/ asset'[b].status = "assigned"
    BY DEF BooksMatchShelf, OpenRows
  <2>1. CASE b = a
    BY <1>2, <1>4, <2>1
  <2>2. CASE b # a
    <3>1. asset'[b] = asset[b] /\ held'[b] = held[b] /\ b \notin crossed
      BY <1>2, <1>4, <2>2
    <3> QED
      BY <1>4, <3>1 DEF AssetBooks, BooksMatchShelf, OpenRows
  <2> QED
    BY <2>1, <2>2
<1>7. EventsTellState' /\ UnbornUntold'
  BY <1>2, <1>4 DEF AssetBooks, EventsTellState, UnbornUntold
<1>8. ReadsFresh'
  <2>1. Writes(c, a, InStock) /\ assetCall' = [assetCall EXCEPT ![c] = AssetIdle]
    BY DEF AssetUnassign
  <2> QED
    BY <1>2, <1>3, <2>1, WriteFresh
<1> QED
  BY <1>5, <1>6, <1>7, <1>8 DEF AssetBooks

\* retire (asset.service.ts:123-148), its UPDATE: on a read that still stands
\* the asset is in stock and has no open row to leave behind.
LEMMA RetireBooks ==
  ASSUME BooksInv, NEW c \in AssetCall, AssetRetire(c)
  PROVE  AssetBooks' /\ ReadsFresh' /\ UnbornUntold'
<1> USE DEF BooksInv
<1> DEFINE a == assetCall[c].asset
           row == [status |-> "retired", to |-> Nobody]
           k == [assetCall[c] EXCEPT !.pc = "announce"]
<1>1. assetCall[c] # AssetIdle /\ assetCall[c].pc = "retire"
  BY DEF AssetRetire, AssetIdle
<1>2. /\ a \in Asset /\ assetCall[c].emp \in Staff \cup {Nobody}
      /\ assetCall[c] = [pc |-> assetCall[c].pc, asset |-> a, emp |-> assetCall[c].emp]
  BY <1>1, CallShape DEF AssetsTypeOK
<1>3. row \in AssetRow /\ row.status # "none"
  BY DEF AssetRow
<1>4. /\ asset' = [asset EXCEPT ![a] = row] /\ asset \in [Asset -> AssetRow]
      /\ held' = held /\ told' = told
      /\ untold' = untold \cup {a} /\ offboarded' = offboarded
      /\ crossed' = IF c \in behind THEN crossed \cup {a} ELSE crossed
  BY DEF AssetRetire, Writes, AssetsTypeOK
<1>5. HolderHasRow'
  BY <1>2, <1>4 DEF AssetBooks, HolderHasRow
<1>6. BooksMatchShelf'
  <2> SUFFICES ASSUME NEW b \in Asset, b \notin crossed'
               PROVE  /\ {x \in Staff : held'[b][x] > 0}
                           = IF asset'[b].status = "assigned" THEN {asset'[b].to} ELSE {}
                      /\ \A x \in Staff : held'[b][x] <= 1
                      /\ \/ asset'[b].to \in offboarded' \cup {Nobody}
                         \/ asset'[b].status = "assigned"
    BY DEF BooksMatchShelf, OpenRows
  <2>1. b \notin crossed
    BY <1>4
  <2>2. CASE b = a
    <3>1. asset[a].status = "in_stock"
      BY <1>1, <1>2, <1>4, <2>2 DEF ReadsFresh
    <3> QED
      BY <1>2, <1>4, <2>1, <2>2, <3>1 DEF AssetBooks, BooksMatchShelf, OpenRows
  <2>3. CASE b # a
    <3>1. asset'[b] = asset[b]
      BY <1>2, <1>4, <2>3
    <3> QED
      BY <1>4, <2>1, <3>1 DEF AssetBooks, BooksMatchShelf, OpenRows
  <2> QED
    BY <2>2, <2>3
<1>7. EventsTellState' /\ UnbornUntold'
  BY <1>2, <1>4 DEF AssetBooks, EventsTellState, UnbornUntold
<1>8. ReadsFresh'
  <2>1. Writes(c, a, row) /\ assetCall' = [assetCall EXCEPT ![c] = k]
    BY DEF AssetRetire
  <2>2. k # AssetIdle /\ k.pc = "announce" /\ k.asset = a
    BY <1>2 DEF AssetIdle
  <2> HIDE DEF k
  <2> QED
    BY <1>2, <1>3, <2>1, <2>2, WriteFresh
<1> QED
  BY <1>5, <1>6, <1>7, <1>8 DEF AssetBooks

\* retire, its event: it tells the row's state or leaves the asset untold.
LEMMA RetireEventBooks ==
  ASSUME BooksInv, NEW c \in AssetCall, AssetRetireEvent(c)
  PROVE  AssetBooks' /\ ReadsFresh' /\ UnbornUntold'
<1> USE DEF BooksInv
<1> DEFINE a == assetCall[c].asset
           row == [status |-> "retired", to |-> Nobody]
<1>1. assetCall[c] # AssetIdle
  BY DEF AssetRetireEvent, AssetIdle
<1>2. a \in Asset /\ asset[a].status # "none"
  BY <1>1, CallShape DEF AssetsTypeOK, ReadsFresh
<1>3. /\ UNCHANGED <<asset, held, offboarded, behind, crossed>>
      /\ told' = [told EXCEPT ![a] = row] /\ told \in [Asset -> AssetRow]
      /\ untold' = IF asset[a] = row THEN untold \ {a} ELSE untold \cup {a}
      /\ assetCall' = [assetCall EXCEPT ![c] = AssetIdle]
  BY DEF AssetRetireEvent, AssetsTypeOK
<1>4. HolderHasRow' /\ BooksMatchShelf'
  BY <1>3 DEF AssetBooks, HolderHasRow, BooksMatchShelf, OpenRows
<1>5. EventsTellState'
  <2> SUFFICES ASSUME NEW b \in Asset, b \notin untold', asset[b].status # "none"
               PROVE  told'[b] = asset[b]
    BY <1>3 DEF EventsTellState
  <2>1. CASE b = a
    BY <1>2, <1>3, <2>1
  <2>2. CASE b # a
    BY <1>2, <1>3, <2>2 DEF AssetBooks, EventsTellState
  <2> QED
    BY <2>1, <2>2
<1>6. UnbornUntold'
  BY <1>2, <1>3 DEF UnbornUntold
<1>7. ReadsFresh'
  BY <1>3 DEF ReadsFresh, AssetsTypeOK
<1> QED
  BY <1>4, <1>5, <1>6, <1>7 DEF AssetBooks

\* A request that fails has written nothing more.
LEMMA CallFailsBooks ==
  ASSUME BooksInv, NEW c \in AssetCall, AssetCallFails(c)
  PROVE  AssetBooks' /\ ReadsFresh' /\ UnbornUntold'
<1> USE DEF BooksInv
<1>1. AssetBooks' /\ UnbornUntold'
  BY DEF AssetCallFails, AssetBooks, HolderHasRow, BooksMatchShelf, EventsTellState,
     OpenRows, UnbornUntold
<1>2. ReadsFresh'
  BY DEF AssetCallFails, ReadsFresh, AssetsTypeOK
<1> QED
  BY <1>1, <1>2

\* create (asset.service.ts:29-44): nobody has read the asset yet.
LEMMA CreateBooks ==
  ASSUME BooksInv, NEW a \in Asset, CreateAsset(a)
  PROVE  AssetBooks' /\ ReadsFresh' /\ UnbornUntold'
<1> USE DEF BooksInv
<1>1. /\ asset[a].status = "none" /\ asset' = [asset EXCEPT ![a] = InStock]
      /\ asset \in [Asset -> AssetRow]
      /\ UNCHANGED <<held, told, assetCall, offboarded, behind, crossed, untold>>
  BY DEF CreateAsset, AssetsTypeOK
<1>2. HolderHasRow'
  BY <1>1 DEF AssetBooks, HolderHasRow
<1>3. BooksMatchShelf'
  BY <1>1 DEF AssetBooks, BooksMatchShelf, OpenRows
<1>4. EventsTellState' /\ UnbornUntold'
  BY <1>1 DEF AssetBooks, EventsTellState, UnbornUntold
<1>5. ReadsFresh'
  <2> SUFFICES ASSUME NEW d \in AssetCall, assetCall[d] # AssetIdle
               PROVE  /\ asset'[assetCall[d].asset].status # "none"
                      /\ assetCall[d].pc = "assign" => assetCall[d].emp \in Staff
                      /\ assetCall[d].pc \in {"assign", "retire"} /\ d \notin behind
                           => asset'[assetCall[d].asset].status = "in_stock"
    BY <1>1 DEF ReadsFresh
  <2>1. assetCall[d].asset \in Asset /\ assetCall[d].asset # a
    BY <1>1, CallShape DEF AssetsTypeOK, ReadsFresh
  <2> QED
    BY <1>1, <2>1 DEF ReadsFresh
<1> QED
  BY <1>2, <1>3, <1>4, <1>5 DEF AssetBooks

\* An approved offboarding (offboarding.type-def.ts:82-97) takes back what the
\* employee has open rows for, and only an asset with such a row names them as
\* its holder.
LEMMA OffboardBooks ==
  ASSUME BooksInv, NEW e \in Staff, Offboard(e)
  PROVE  AssetBooks' /\ ReadsFresh' /\ UnbornUntold'
<1> USE DEF BooksInv
<1> DEFINE back == {a \in Asset : held[a][e] > 0}
<1>1. /\ offboarded' = offboarded \cup {e}
      /\ held' = [a \in Asset |-> [held[a] EXCEPT ![e] = 0]]
      /\ held \in [Asset -> [Staff -> Nat]]
      /\ untold' = untold \cup back /\ behind' = behind \cup Reading(back)
      /\ UNCHANGED <<told, assetCall, crossed>>
  BY DEF Offboard, AssetsTypeOK
<1>2. \A b \in Asset : asset[b] \in AssetRow
  BY DEF AssetsTypeOK
<1>3. \A b \in Asset : b \notin back => asset'[b] = asset[b]
  BY DEF Offboard
<1>4. \A b \in back : asset'[b] = [asset[b] EXCEPT !.status = "in_stock"]
  BY DEF Offboard
<1>5. \A b \in back : asset'[b].status = "in_stock" /\ asset'[b].to = asset[b].to
  BY <1>2, <1>4 DEF AssetRow
<1>6. \A b \in Asset, x \in Staff : held'[b][x] = IF x = e THEN 0 ELSE held[b][x]
  BY <1>1
<1>7. \A b \in Asset : b \notin back => held[b][e] = 0
  BY <1>1
<1> HIDE DEF back
<1>8. HolderHasRow'
  <2> SUFFICES ASSUME NEW b \in Asset, asset'[b].status = "assigned"
               PROVE  asset'[b].to \in Staff /\ held'[b][asset'[b].to] > 0
    BY DEF HolderHasRow
  <2>1. b \notin back /\ asset'[b] = asset[b]
    BY <1>3, <1>5
  <2>2. asset[b].to \in Staff /\ held[b][asset[b].to] > 0
    BY <2>1 DEF AssetBooks, HolderHasRow
  <2> QED
    BY <1>6, <1>7, <2>1, <2>2
<1>9. BooksMatchShelf'
  <2> SUFFICES ASSUME NEW b \in Asset, b \notin crossed
               PROVE  /\ {x \in Staff : held'[b][x] > 0}
                           = IF asset'[b].status = "assigned" THEN {asset'[b].to} ELSE {}
                      /\ \A x \in Staff : held'[b][x] <= 1
                      /\ \/ asset'[b].to \in offboarded' \cup {Nobody}
                         \/ asset'[b].status = "assigned"
    BY <1>1 DEF BooksMatchShelf, OpenRows
  <2>1. /\ {x \in Staff : held[b][x] > 0}
             = IF asset[b].status = "assigned" THEN {asset[b].to} ELSE {}
        /\ \A x \in Staff : held[b][x] <= 1
        /\ asset[b].to \in offboarded \cup {Nobody} \/ asset[b].status = "assigned"
    BY DEF AssetBooks, BooksMatchShelf, OpenRows
  <2>2. CASE b \in back
    <3>1. held[b][e] > 0
      BY <2>2 DEF back
    <3>2. asset[b].to = e /\ \A x \in Staff : held[b][x] > 0 => x = e
      BY <2>1, <3>1
    <3>3. \A x \in Staff : held'[b][x] = 0
      BY <1>1, <1>6, <3>2
    <3> QED
      BY <1>1, <1>5, <2>2, <3>2, <3>3
  <2>3. CASE b \notin back
    <3>1. \A x \in Staff : held'[b][x] = held[b][x]
      BY <1>6, <1>7, <2>3
    <3>2. asset'[b] = asset[b]
      BY <1>3, <2>3
    <3> QED
      BY <1>1, <2>1, <3>1, <3>2
  <2> QED
    BY <2>2, <2>3
<1>10. EventsTellState'
  BY <1>1, <1>3 DEF AssetBooks, EventsTellState
<1>11. UnbornUntold'
  BY <1>1, <1>3, <1>5 DEF UnbornUntold
<1>12. ReadsFresh'
  <2> SUFFICES ASSUME NEW d \in AssetCall, assetCall[d] # AssetIdle
               PROVE  /\ asset'[assetCall[d].asset].status # "none"
                      /\ assetCall[d].pc = "assign" => assetCall[d].emp \in Staff
                      /\ assetCall[d].pc \in {"assign", "retire"} /\ d \notin behind'
                           => asset'[assetCall[d].asset].status = "in_stock"
    BY <1>1 DEF ReadsFresh
  <2>1. assetCall[d].asset \in Asset
    BY CallShape DEF AssetsTypeOK
  <2> QED
    BY <1>1, <1>3, <1>5, <2>1 DEF ReadsFresh
<1> QED
  BY <1>8, <1>9, <1>10, <1>11, <1>12 DEF AssetBooks

\* The invariant is inductive.
LEMMA NextBooks == BooksInv /\ [AssetNext]_assetVars => BooksInv'
<1> SUFFICES ASSUME BooksInv, [AssetNext]_assetVars PROVE BooksInv'
  OBVIOUS
<1>1. CASE AssetNext
  <2>1. AssetsTypeOK'
    BY <1>1, StepType
  <2>2. AssetBooks' /\ ReadsFresh' /\ UnbornUntold'
    BY <1>1, ReadBooks, AssignBooks, UnassignBooks, RetireBooks, RetireEventBooks,
       CallFailsBooks, CreateBooks, OffboardBooks DEF AssetNext, AssetCallStep
  <2> QED
    BY <2>1, <2>2 DEF BooksInv
<1>2. CASE UNCHANGED assetVars
  BY <1>2 DEF assetVars, BooksInv, AssetsTypeOK, AssetBooks, HolderHasRow, BooksMatchShelf,
     EventsTellState, OpenRows, ReadsFresh, UnbornUntold
<1> QED
  BY <1>1, <1>2

\* However assignments, returns, retirements and offboardings overlap and fail,
\* an asset's holder has an open row, books and shelf agree on every asset that
\* no overtaken request has written, and the events tell what the row says unless
\* it was changed without one (AssetService, OffboardingTypeDef.onApprove).
THEOREM AssetBooksAlways == AssetSpec => []AssetBooks
<1>1. BooksInv => AssetBooks
  BY DEF BooksInv
<1> QED
  BY <1>1, InitBooks, NextBooks, PTL DEF AssetSpec

-----------------------------------------------------------------------------
(* The services put together (MCServices): a behaviour is one of a single  *)
(* service, so that what each keeps by itself is kept.                     *)

\* The requests that are between the handler and the cache have had their run.
AttemptsCount ==
  /\ IdemTypeOK
  /\ runs + Cardinality({c \in Attempt : attempt[c].pc = "run"}) <= attempts
  /\ (\E c \in Attempt : attempt[c].pc = "store") => runs > 0

LEMMA RunsFinite ==
  /\ IsFiniteSet({c \in Attempt : attempt[c].pc = "run"})
  /\ Cardinality({c \in Attempt : attempt[c].pc = "run"}) \in Nat
BY AttemptAssumption, FS_Subset, FS_CardinalityType

LEMMA OneMoreOrLess ==
  ASSUME NEW S, IsFiniteSet(S), NEW c
  PROVE  /\ Cardinality(S \cup {c}) \in Nat /\ Cardinality(S \cup {c}) <= Cardinality(S) + 1
         /\ Cardinality(S \ {c}) \in Nat /\ Cardinality(S \ {c}) <= Cardinality(S)
         /\ c \in S => Cardinality(S \ {c}) + 1 = Cardinality(S)
<1>1. Cardinality(S) \in Nat
  BY FS_CardinalityType
<1>2. IsFiniteSet(S \cup {c}) /\ IsFiniteSet(S \ {c})
  BY FS_AddElement, FS_RemoveElement
<1>3. Cardinality(S \cup {c}) \in Nat /\ Cardinality(S \ {c}) \in Nat
  BY <1>2, FS_CardinalityType
<1>4. Cardinality(S \cup {c}) = IF c \in S THEN Cardinality(S) ELSE Cardinality(S) + 1
  BY FS_AddElement
<1>5. Cardinality(S \ {c}) = IF c \in S THEN Cardinality(S) - 1 ELSE Cardinality(S)
  BY FS_RemoveElement
<1> QED BY <1>1, <1>3, <1>4, <1>5

LEMMA AttemptsStart == IdemInit => AttemptsCount
<1> SUFFICES ASSUME IdemInit PROVE AttemptsCount
  OBVIOUS
<1>1. {c \in Attempt : attempt[c].pc = "run"} = {}
  BY DEF IdemInit, Away
<1>2. Cardinality({c \in Attempt : attempt[c].pc = "run"}) = 0
  BY <1>1, FS_EmptySet
<1> QED BY <1>2, AttemptAssumption DEF IdemInit, AttemptsCount, IdemTypeOK, Away

LEMMA AttemptsGoOn == RunsInv /\ AttemptsCount /\ [IdemNext]_idemVars => AttemptsCount'
<1> SUFFICES ASSUME RunsInv, AttemptsCount, [IdemNext]_idemVars
             PROVE  AttemptsCount'
  OBVIOUS
<1> DEFINE running == {c \in Attempt : attempt[c].pc = "run"}
<1>0. IsFiniteSet(running) /\ Cardinality(running) \in Nat
  BY RunsFinite
<1>1. /\ runs \in 0..MaxAttempts /\ attempts \in 0..MaxAttempts /\ MaxAttempts \in Nat
      /\ runs + Cardinality(running) <= attempts
      /\ stored \in {"none", body} /\ (stored # "none" => runs > 0)
      /\ (\E c \in Attempt : attempt[c].pc = "store") => runs > 0
  BY AttemptAssumption DEF AttemptsCount, IdemTypeOK
<1>2. attempt \in [Attempt -> {Away} \cup [pc: {"run"}, seen: Nat] \cup [pc: {"store"}]]
  BY DEF RunsInv
<1>3. ASSUME NEW c \in Attempt, NEW v, attempt' = [attempt EXCEPT ![c] = v]
      PROVE  /\ v.pc = "run" => running' = running \cup {c}
             /\ v.pc # "run" => running' = running \ {c}
  <2>1. \A d \in Attempt : attempt'[d] = IF d = c THEN v ELSE attempt[d]
    BY <1>2, <1>3
  <2>2. running' = {d \in Attempt : attempt'[d].pc = "run"}
    OBVIOUS
  <2> QED BY <2>1, <2>2
<1> HIDE DEF running
<1>4. ASSUME NEW c \in Attempt
      PROVE  /\ Cardinality(running \cup {c}) <= Cardinality(running) + 1
             /\ Cardinality(running \ {c}) <= Cardinality(running)
             /\ c \in running => Cardinality(running \ {c}) + 1 = Cardinality(running)
             /\ Cardinality(running \cup {c}) \in Nat /\ Cardinality(running \ {c}) \in Nat
  BY <1>0, OneMoreOrLess
<1>5. ASSUME /\ runs' \in Nat /\ attempts' \in 0..MaxAttempts
             /\ Cardinality(running') \in Nat /\ runs' + Cardinality(running') <= attempts',
             stored' \in {"none", body'}, stored' # "none" => runs' > 0,
             (\E c \in Attempt : attempt'[c].pc = "store") => runs' > 0
      PROVE  AttemptsCount'
  <2>1. runs' \in 0..MaxAttempts
    BY <1>1, <1>5
  <2> QED BY <1>5, <2>1 DEF AttemptsCount, IdemTypeOK, running
<1>6. ASSUME NEW c \in Attempt, Replay(c) \/ Bypass(c)
      PROVE  AttemptsCount'
  <2>1. running' = running
    BY <1>6 DEF Replay, Bypass, running
  <2> QED BY <1>0, <1>1, <1>5, <1>6, <2>1 DEF Replay, Bypass, Sent
<1>7. ASSUME NEW c \in Attempt, Miss(c)
      PROVE  AttemptsCount'
  <2>4. PICK v : v = [pc |-> "run", seen |-> runs]
    OBVIOUS
  <2>1. /\ attempts < MaxAttempts /\ attempts' = attempts + 1
        /\ attempt' = [attempt EXCEPT ![c] = v]
        /\ UNCHANGED <<body, stored, runs>>
    BY <1>7, <2>4 DEF Miss, Sent
  <2>3. v.pc = "run" /\ v.pc # "store"
    BY <2>4
  <2>5. running' = running \cup {c}
    BY <1>3, <2>1, <2>3
  <2>6. \A d \in Attempt : attempt'[d] = IF d = c THEN v ELSE attempt[d]
    BY <1>2, <2>1
  <2>7. \A d \in Attempt : attempt'[d].pc = "store" => attempt[d].pc = "store"
    BY <2>3, <2>6
  <2>8. (\E d \in Attempt : attempt'[d].pc = "store") => runs' > 0
    BY <1>1, <2>1, <2>7
  <2>9. /\ runs' \in Nat /\ attempts' \in 0..MaxAttempts
        /\ Cardinality(running') \in Nat /\ runs' + Cardinality(running') <= attempts'
    BY <1>0, <1>1, <1>4, <2>1, <2>5
  <2>10. stored' \in {"none", body'} /\ (stored' # "none" => runs' > 0)
    BY <1>1, <2>1
  <2> QED BY <1>5, <2>8, <2>9, <2>10
<1>8. ASSUME NEW c \in Attempt, HandlerDone(c) \/ HandlerThrows(c)
      PROVE  AttemptsCount'
  <2>1. PICK v \in {[pc |-> "store"], [pc |-> "away"]} :
          /\ attempt[c].pc = "run" /\ runs' = runs + 1
          /\ attempt' = [attempt EXCEPT ![c] = v]
          /\ UNCHANGED <<body, stored, attempts>>
    BY <1>8 DEF HandlerDone, HandlerThrows, Handled, Away
  <2>3. v.pc # "run"
    OBVIOUS
  <2>2. running' = running \ {c} /\ c \in running
    BY <1>3, <2>1, <2>3 DEF running
  <2> QED BY <1>0, <1>1, <1>4, <1>5, <2>1, <2>2
<1>9. ASSUME NEW c \in Attempt, Store(c) \/ StoreLost(c)
      PROVE  AttemptsCount'
  <2>5. PICK v : v = [pc |-> "away"]
    OBVIOUS
  <2>1. /\ attempt[c].pc = "store" /\ attempt' = [attempt EXCEPT ![c] = v]
        /\ stored' \in {body, stored}
    BY <1>9, <2>5 DEF Store, StoreLost, Away
  <2>4. v.pc # "run" /\ v.pc # "store"
    BY <2>5
  <2>6. running' = running \ {c}
    BY <1>3, <2>1, <2>4
  <2>3. UNCHANGED <<body, runs, attempts>> /\ runs > 0
    BY <1>1, <1>9, <2>1 DEF Store, StoreLost
  <2>8. (\E d \in Attempt : attempt'[d].pc = "store") => runs' > 0
    BY <2>3
  <2>9. /\ runs' \in Nat /\ attempts' \in 0..MaxAttempts
        /\ Cardinality(running') \in Nat /\ runs' + Cardinality(running') <= attempts'
    <3>1. runs' = runs /\ attempts' = attempts
      BY <2>3
    <3>2. Cardinality(running') \in Nat /\ Cardinality(running') <= Cardinality(running)
      BY <1>4, <2>6
    <3>3. /\ runs \in Nat /\ attempts \in 0..MaxAttempts /\ attempts \in Nat
          /\ runs + Cardinality(running) <= attempts
      BY <1>1
    <3> QED BY <1>0, <3>1, <3>2, <3>3
  <2>10. stored' \in {"none", body'} /\ (stored' # "none" => runs' > 0)
    BY <1>1, <2>1, <2>3
  <2> QED BY <1>5, <2>8, <2>9, <2>10
<1>10. CASE Forgotten \/ UNCHANGED idemVars
  <2>1. /\ stored' \in {"none", stored} /\ UNCHANGED <<body, attempt, runs, attempts>>
    BY <1>10 DEF Forgotten, idemVars
  <2>2. running' = running
    BY <2>1 DEF running
  <2> QED BY <1>0, <1>1, <1>5, <2>1, <2>2
<1> QED BY <1>6, <1>7, <1>8, <1>9, <1>10 DEF IdemNext

\* What the limiter's entries were made of.
BucketHolds ==
  /\ RateTypeOK /\ keyEnd \in Nat

LEMMA BucketStart == RateInit => BucketHolds
BY RateAssumption DEF RateInit, BucketHolds, RateTypeOK

LEMMA BucketGoesOn == BucketHolds /\ [RateNext]_rateVars => BucketHolds'
<1> SUFFICES ASSUME BucketHolds, [RateNext]_rateVars PROVE BucketHolds'
  OBVIOUS
<1> USE RateAssumption
<1>1. ASSUME NEW d \in 0..Spread, RequestAdmitted(d)
      PROVE  BucketHolds'
  <2> DEFINE left == Trimmed(Held, redisNow + d)
  <2>1. left \subseteq entries
    BY DEF Trimmed, Held
  <2>2. /\ tries < MaxTries /\ tries' = tries + 1 /\ keyEnd' = redisNow + Window
        /\ entries' = left \cup {[score |-> redisNow + d, try |-> tries]}
        /\ redisNow' = redisNow
    BY <1>1 DEF RequestAdmitted
  <2> HIDE DEF left
  <2>3. \A e \in entries' : e.score \in 0..(MaxTime + Spread) /\ e.try \in 0..MaxTries
    BY <2>1, <2>2 DEF BucketHolds, RateTypeOK
  <2> QED BY <2>2, <2>3 DEF BucketHolds, RateTypeOK
<1>2. ASSUME NEW d \in 0..Spread, RequestRefused(d)
      PROVE  BucketHolds'
  <2>1. entries' \subseteq entries
    BY <1>2 DEF RequestRefused, Trimmed, Held
  <2>2. tries < MaxTries /\ tries' = tries + 1 /\ UNCHANGED <<redisNow, keyEnd>>
    BY <1>2 DEF RequestRefused
  <2> QED BY <2>1, <2>2 DEF BucketHolds, RateTypeOK
<1>3. CASE RequestUnlimited
  BY <1>3 DEF RequestUnlimited, BucketHolds, RateTypeOK
<1>4. CASE TimePasses
  BY <1>4 DEF TimePasses, BucketHolds, RateTypeOK
<1>5. CASE UNCHANGED rateVars
  BY <1>5 DEF rateVars, BucketHolds, RateTypeOK
<1> QED BY <1>1, <1>2, <1>3, <1>4, <1>5 DEF RateNext

\* A step of the whole is a step of one service, at which the others rest.
LEMMA PartsStep ==
  [Next]_vars =>
    /\ [AssetNext]_assetVars /\ [LicenceNext]_licenceVars /\ [SheetsNext]_sheetVars
    /\ [FilesNext]_fileVars /\ [FindingsNext]_findingVars
    /\ [RateNext]_rateVars /\ [IdemNext]_idemVars
    /\ [StreamsNext]_streamVars /\ [InboxNext]_inboxVars /\ [ListNext]_listVars
<1> SUFFICES ASSUME [Next]_vars
             PROVE  /\ [AssetNext]_assetVars /\ [LicenceNext]_licenceVars /\ [SheetsNext]_sheetVars
                    /\ [FilesNext]_fileVars /\ [FindingsNext]_findingVars
                    /\ [RateNext]_rateVars /\ [IdemNext]_idemVars
                    /\ [StreamsNext]_streamVars /\ [InboxNext]_inboxVars /\ [ListNext]_listVars
  OBVIOUS
<1>2. [AssetNext]_assetVars /\ [LicenceNext]_licenceVars /\ [SheetsNext]_sheetVars
  BY DEF Next, RegistersNext, UploadsNext, EdgeNext, FeedsNext, vars, registers
<1>3. [FilesNext]_fileVars /\ [FindingsNext]_findingVars
  BY DEF Next, RegistersNext, UploadsNext, EdgeNext, FeedsNext, vars, uploads
<1>4. [RateNext]_rateVars /\ [IdemNext]_idemVars
  BY DEF Next, RegistersNext, UploadsNext, EdgeNext, FeedsNext, vars, edge
<1>5. [StreamsNext]_streamVars /\ [InboxNext]_inboxVars /\ [ListNext]_listVars
  BY DEF Next, RegistersNext, UploadsNext, EdgeNext, FeedsNext, vars, feeds
<1> QED BY <1>2, <1>3, <1>4, <1>5

ServicesInv ==
  /\ BooksInv /\ SeatsInv /\ SheetsInv /\ FilesInv /\ FindingsInv
  /\ BucketHolds /\ RunsInv /\ AttemptsCount /\ StreamsInv
  /\ InboxInv /\ ListInv

LEMMA ServicesStart == Init => ServicesInv
BY InitBooks, InitSeats, InitSheets, FilesStart, FindingsStart, BucketStart, InitRuns,
   AttemptsStart, InitStreams, InitInbox, InitList DEF Init, ServicesInv

LEMMA ServicesGoOn == ServicesInv /\ [Next]_vars => ServicesInv'
BY PartsStep, NextBooks, NextSeats, NextSheets, NextFiles, NextFindings, BucketGoesOn, NextRuns,
   AttemptsGoOn, NextStreams, NextInbox, NextList DEF ServicesInv

\* No service ever writes a value its schema does not have.  For the interceptor
\* this takes counting: a request that missed has its run still to come, so that
\* runs and waiting requests together stay below the requests sent.
THEOREM TypeOKAlways == Spec => []TypeOK
<1>1. ServicesInv => TypeOK
  BY DEF ServicesInv, TypeOK, BooksInv, SeatsInv, SheetsInv, FilesInv, FindingsInv, BucketHolds,
         AttemptsCount, StreamsInv, StreamTypes, StreamsTypeOK, InboxInv, ListInv
<1> QED BY <1>1, ServicesStart, ServicesGoOn, PTL DEF Spec

\* Whoever reads on by the cursor or the offset it was given, while notifications
\* arrive and are read and requests come and go, sees each row once, but for the
\* ones a property names (notification.drizzle-repository.ts:44-65,
\* request-engine.service.ts:432-493).  The invariant holds in the middle of a
\* walk: what has been shown lies before the place it has reached, and every row
\* that was pushed across that place is paid for by one that left or arrived.
THEOREM ListsFaithfulAlways == Spec => []ListsFaithful
<1>1. ServicesInv => ListsFaithful
  BY DEF ServicesInv, ListsFaithful, InboxInv, TourHolds, InboxFaithful, ListInv
<1> QED BY <1>1, ServicesStart, ServicesGoOn, PTL DEF Spec

\* A verdict on a timesheet and the resolution of a finding stand, in the whole
\* as in each service (workforce.service.ts:70-100, compliance.service.ts:105-136).
THEOREM DecisionsLastAlways == Spec => DecisionsLast
<1>1. Init => SheetsInit /\ FindingsInit
  BY DEF Init
<1>2. [Next]_vars => [SheetsNext]_sheetVars /\ [FindingsNext]_findingVars
  BY PartsStep
<1>3. Spec => SheetsSpec /\ FindingsSpec
  BY <1>1, <1>2, PTL DEF Spec, SheetsSpec, FindingsSpec
<1> QED BY <1>3, VerdictStandsAlways, ResolutionStandsAlways DEF DecisionsLast
=============================================================================
