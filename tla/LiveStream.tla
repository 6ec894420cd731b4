----------------------------- MODULE LiveStream -----------------------------
(***************************************************************************)
(* The server-sent event streams of one user in one API process            *)
(* (NotificationSseController) over the shared Redis subscriber connection *)
(* (NotificationPubSubService).                                            *)
(*                                                                         *)
(* All streams of a user share one SUBSCRIBE.  The first registers an      *)
(* empty handler set and waits for Redis; later ones see the set and join  *)
(* at once; the last to leave removes the set and sends UNSUBSCRIBE.  The  *)
(* connection is first in, first out.  JavaScript interleaves at awaits    *)
(* only, which are the borders of the actions.                             *)
(*                                                                         *)
(* A notification is stored by the relay on a connection of its own and    *)
(* published once the relay's batch has committed, which may be later,     *)
(* another process's doing, or never.                                      *)
(***************************************************************************)
EXTENDS Naturals, Sequences

CONSTANTS
  Stream,     \* browser connections of the user to this process
  News        \* notifications the relay has for the user

\* A command on the wire is a SUBSCRIBE, named by its stream, or an UNSUBSCRIBE.
ASSUME StreamAssumption == "unsubscribe" \notin Stream

VARIABLES
  stream,      \* where each stream is
  hasSet,      \* this.handlers has the channel
  handlers,    \* the set under it
  wire,        \* commands Redis has not answered yet
  subscribed,  \* Redis has the connection subscribed to the channel
  posted,      \* notifications stored so far
  pushed,      \* those that were published to the subscriber
  unpushed,    \* history: those whose publication was lost
  known,       \* notifications each stream knows of: counted or pushed
  refused,     \* history: a SUBSCRIBE failed
  parted,      \* history: streams during whose subscription another one left
  gap          \* history: what was published while the stream was connecting

notices == <<posted, pushed, unpushed>>

streamVars ==
  <<stream, hasSet, handlers, wire, subscribed, notices, known, refused, parted, gap>>

StreamsInit ==
  /\ stream = [s \in Stream |-> "new"]
  /\ hasSet = FALSE /\ handlers = {}
  /\ wire = <<>> /\ subscribed = FALSE
  /\ posted = {} /\ pushed = {} /\ unpushed = {}
  /\ known = [s \in Stream |-> {}]
  /\ refused = FALSE /\ parted = {}
  /\ gap = [s \in Stream |-> {}]

\* Mutant: the stream opens without the count.
ConnectUncounted(s) ==
  /\ stream[s] = "new"
  /\ stream' = [stream EXCEPT ![s] = "counted"]
  /\ UNCHANGED <<hasSet, handlers, wire, subscribed, notices, known, refused, parted, gap>>

\* unreadCount is read and sent as the `connected` event.
Connect(s) ==
  /\ stream[s] = "new"
  /\ stream' = [stream EXCEPT ![s] = "counted"]
  /\ known' = [known EXCEPT ![s] = posted]
  /\ UNCHANGED <<hasSet, handlers, wire, subscribed, notices, refused, parted, gap>>

\* subscribe, the first of the channel: the set is there before Redis answers.
SubscribeFirst(s) ==
  /\ stream[s] = "counted" /\ ~hasSet
  /\ hasSet' = TRUE /\ handlers' = {}
  /\ wire' = Append(wire, s)
  /\ stream' = [stream EXCEPT ![s] = "waiting"]
  /\ UNCHANGED <<subscribed, notices, known, refused, parted, gap>>

\* subscribe of a channel that has its set: no waiting.
SubscribeJoin(s) ==
  /\ stream[s] = "counted" /\ hasSet
  /\ handlers' = handlers \cup {s}
  /\ stream' = [stream EXCEPT ![s] = "live"]
  /\ UNCHANGED <<hasSet, wire, subscribed, notices, known, refused, parted, gap>>

\* Mutant: a set without handlers counts as gone.
AnsweredEmpty(s) ==
  /\ wire # <<>> /\ Head(wire) = s
  /\ wire' = Tail(wire)
  /\ subscribed' = TRUE
  /\ stream' = [stream EXCEPT ![s] = IF handlers # {} THEN "live" ELSE "deaf"]
  /\ handlers' = IF handlers # {} THEN handlers \cup {s} ELSE handlers
  /\ UNCHANGED <<hasSet, notices, known, refused, parted, gap>>

\* Redis answers a SUBSCRIBE, and the first stream goes on: if the set has
\* gone meanwhile, `handlers.get(channel)!` throws and the stream stays open
\* without a subscription, a heartbeat or a close handler.
Answered(s) ==
  /\ wire # <<>> /\ Head(wire) = s
  /\ wire' = Tail(wire)
  /\ subscribed' = TRUE
  /\ stream' = [stream EXCEPT ![s] = IF hasSet THEN "live" ELSE "deaf"]
  /\ handlers' = IF hasSet THEN handlers \cup {s} ELSE handlers
  /\ UNCHANGED <<hasSet, notices, known, refused, parted, gap>>

\* The SUBSCRIBE fails (maxRetriesPerRequest): the stream's handler is never
\* added, and the set stays, so that nobody subscribes again until it empties.
Refused(s) ==
  /\ wire # <<>> /\ Head(wire) = s
  /\ wire' = Tail(wire)
  /\ stream' = [stream EXCEPT ![s] = "deaf"]
  /\ refused' = TRUE
  /\ UNCHANGED <<hasSet, handlers, subscribed, notices, known, parted, gap>>

\* Redis answers an UNSUBSCRIBE.
Unsubscribed ==
  /\ wire # <<>> /\ Head(wire) = "unsubscribe"
  /\ wire' = Tail(wire)
  /\ subscribed' = FALSE
  /\ UNCHANGED <<stream, hasSet, handlers, notices, known, refused, parted, gap>>

\* Mutant: whoever leaves unsubscribes, others or not.
StreamClosedAll(s) ==
  /\ stream[s] = "live"
  /\ stream' = [stream EXCEPT ![s] = "closed"]
  /\ handlers' = handlers \ {s}
  /\ hasSet' = (handlers' # {})
  /\ wire' = Append(wire, "unsubscribe")
  /\ parted' = IF hasSet' THEN parted ELSE parted \cup {x \in Stream : stream[x] = "waiting"}
  /\ UNCHANGED <<subscribed, notices, known, refused, gap>>

\* Mutant: the handler stays in the set.
StreamClosedOnly(s) ==
  /\ stream[s] = "live"
  /\ stream' = [stream EXCEPT ![s] = "closed"]
  /\ UNCHANGED <<hasSet, handlers, wire, subscribed, notices, known, refused, parted, gap>>

\* The client closes a live stream: the unsubscribe function.  A client that
\* is gone before raw.on('close') is there is a stream that never leaves.
StreamClosed(s) ==
  /\ stream[s] = "live"
  /\ stream' = [stream EXCEPT ![s] = "closed"]
  /\ handlers' = handlers \ {s}
  /\ hasSet' = (handlers' # {})
  /\ wire' = IF hasSet' THEN wire ELSE Append(wire, "unsubscribe")
  /\ parted' = IF hasSet' THEN parted ELSE parted \cup {x \in Stream : stream[x] = "waiting"}
  /\ UNCHANGED <<subscribed, notices, known, refused, gap>>

\* The relay stores a notification: its row is there, and counted, at once.
NoticeStored(n) ==
  /\ n \in News \ posted
  /\ posted' = posted \cup {n}
  /\ UNCHANGED <<stream, hasSet, handlers, wire, subscribed, pushed, unpushed, known, refused, parted, gap>>

\* Streams whose subscription Redis may not have answered yet.
Connecting ==
  {s \in Stream : stream[s] \in {"counted", "waiting"}} \cup (IF wire = <<>> THEN {} ELSE handlers)

\* Streams of a set come to have the notification in a record of theirs.
Learn(f, S, n) == [s \in Stream |-> IF s \in S THEN f[s] \cup {n} ELSE f[s]]

\* Mutant: the push stops at the first handler.
NoticePushedOnce(n) ==
  /\ n \in posted \ (pushed \cup unpushed)
  /\ pushed' = pushed \cup {n}
  /\ \E S \in SUBSET handlers :
       /\ subscribed /\ handlers # {} <=> S # {}
       /\ \A s, x \in S : s = x
       /\ known' = Learn(known, S, n)
  /\ gap' = Learn(gap, Connecting, n)
  /\ UNCHANGED <<stream, hasSet, handlers, wire, subscribed, posted, unpushed, refused, parted>>

\* The relay's batch has committed, its task publishes, and every handler of
\* the subscribed channel writes to its stream.
NoticePushed(n) ==
  /\ n \in posted \ (pushed \cup unpushed)
  /\ pushed' = pushed \cup {n}
  /\ known' = Learn(known, IF subscribed THEN handlers ELSE {}, n)
  /\ gap' = Learn(gap, Connecting, n)
  /\ UNCHANGED <<stream, hasSet, handlers, wire, subscribed, posted, unpushed, refused, parted>>

\* Nothing is pushed: the batch rolls back (its retry finds the row and pushes
\* nothing), the relay dies, the PUBLISH fails, or it comes while ioredis is
\* reconnecting the subscriber, which it then subscribes again.
NoticeUnpushed(n) ==
  /\ n \in posted \ (pushed \cup unpushed)
  /\ unpushed' = unpushed \cup {n}
  /\ UNCHANGED <<stream, hasSet, handlers, wire, subscribed, posted, pushed, known, refused, parted, gap>>

StreamsNext ==
  \/ \E s \in Stream :
       \/ Connect(s) \/ SubscribeFirst(s) \/ SubscribeJoin(s)
       \/ Answered(s) \/ Refused(s)
       \/ StreamClosed(s)
  \/ Unsubscribed
  \/ \E n \in News : NoticeStored(n) \/ NoticePushed(n) \/ NoticeUnpushed(n)

StreamsSpec == StreamsInit /\ [][StreamsNext]_streamVars

-----------------------------------------------------------------------------
(* Properties.                                                             *)

\* The shapes of the handler registry and of the streams; the handlers are
\* those of the live streams (NotificationPubSubService.subscribe).
StreamsTypeOK ==
  /\ stream \in [Stream -> {"new", "counted", "waiting", "live", "deaf", "closed"}]
  /\ handlers \subseteq Stream /\ (handlers # {} => hasSet)
  /\ pushed \cup unpushed \subseteq posted /\ posted \subseteq News
  /\ \A s \in Stream : known[s] \subseteq posted /\ gap[s] \subseteq pushed
  /\ \A s \in Stream : stream[s] = "live" <=> s \in handlers

\* A live stream knows of every notification that is stored, counted or pushed,
\* except those still to be pushed, those whose push was lost and those pushed
\* while it was still subscribing, and unless some SUBSCRIBE has failed.  These
\* are what a client must fetch by itself (notification-sse.controller.ts:25-26).
NothingMissed ==
  ~refused => \A s \in Stream : stream[s] = "live" => pushed \subseteq known[s] \cup gap[s]

\* Once Redis has answered everything, handlers are registered exactly when
\* the connection is subscribed, in whatever order streams came and went.
SubscribedWhileHeard ==
  wire = <<>> /\ ~refused => (subscribed <=> hasSet)

\* A stream ends up without its subscription only because the last of the
\* others left while it was waiting for Redis, or because Redis refused.
DeafHasCause ==
  \A s \in Stream : stream[s] = "deaf" => s \in parted \/ refused

\* Who is listening hears what is pushed, the subscription follows the
\* handlers, and only a stated race can leave a stream deaf
\* (notification-pubsub.service.ts).
StreamsHeard == NothingMissed /\ SubscribedWhileHeard /\ DeafHasCause
=============================================================================
