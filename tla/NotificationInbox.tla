-------------------------- MODULE NotificationInbox --------------------------
(***************************************************************************)
(* One employee's in-app notifications: the channel preferences the relay  *)
(* asks before it stores one (NotificationPreferencesService), marking as  *)
(* read, and a client that pages through the list with the cursors it is   *)
(* given (NotificationDrizzleRepository.list).                             *)
(*                                                                         *)
(* created_at has microseconds, the cursor is made from a JavaScript Date, *)
(* which has milliseconds: the clock counts ticks, Milli of them to the    *)
(* millisecond.  How rows reach the relay, and deduplication, are the      *)
(* subject of NotificationRelay.                                           *)
(***************************************************************************)
EXTENDS Naturals, FiniteSets

CONSTANTS
  Note,        \* outbox rows for this employee
  Topic,       \* notification types
  Milli,       \* ticks of created_at in one millisecond of a cursor
  PageSize,    \* the limit of a page
  MaxTick,     \* bound: ticks of the clock
  MaxChoices   \* bound: changes of the preferences

ASSUME InboxAssumption ==
  /\ "*" \notin Topic /\ IsFiniteSet(Note)
  /\ Milli \in Nat \ {0} /\ PageSize \in Nat \ {0}
  /\ MaxTick \in Nat /\ MaxChoices \in Nat

VARIABLES
  tick,       \* the database's clock
  note,       \* each notification: progress, type, created_at, is_read
  pref,       \* notification_preferences: row there or not, in_app
  choices,    \* changes of the preferences so far
  tour,       \* the client's way through the pages
  overtaken   \* history: notifications checked before the latest change of pref

inboxVars == <<tick, note, pref, choices, tour, overtaken>>

Unsent  == [state |-> "new", topic |-> "*", at |-> 0, read |-> FALSE]
NoPref == [there |-> FALSE, inApp |-> TRUE]
Key    == Topic \cup {"*"}
Filter == {"all", "unread", "read"}

\* cursor is the millisecond to start below, or anything on the first page;
\* due, shown, again and cuts are history: what was there at the start and has
\* matched since, what was shown, shown twice, and the cursors handed out.
NoTour == [pc |-> "away", filter |-> "all", cursor |-> 0,
           due |-> {}, shown |-> {}, again |-> {}, cuts |-> {}]

InboxInit ==
  /\ tick = 0
  /\ note = [n \in Note |-> Unsent]
  /\ pref = [k \in Key |-> NoPref]
  /\ choices = 0
  /\ tour = NoTour
  /\ overtaken = {}

-----------------------------------------------------------------------------
Stored == {n \in Note : note[n].state = "stored"}

\* Mutant: the master switch comes before the type's own row.
EnabledMaster(k) ==
  IF pref["*"].there THEN pref["*"].inApp ELSE pref[k].there => pref[k].inApp

\* isEnabled: the type's own row, else the wildcard row, else yes
Enabled(k) ==
  IF pref[k].there THEN pref[k].inApp ELSE pref["*"].there => pref["*"].inApp

Chooses(k, row) ==
  /\ choices < MaxChoices
  /\ choices' = choices + 1
  /\ pref' = [pref EXCEPT ![k] = row]
  /\ overtaken' = {n \in Note : note[n].state = "checked"}
  /\ UNCHANGED <<tick, note, tour>>

\* upsert: a new row has every channel on that the request does not name; of an
\* existing row only the named channels change
Upsert(k, inApp) == Chooses(k, [there |-> TRUE, inApp |-> inApp])

UpsertEmail(k) == Chooses(k, [there |-> TRUE, inApp |-> pref[k].inApp])

\* reset: the row is deleted
Reset(k) == pref[k].there /\ Chooses(k, NoPref)

\* processRow asks the preferences; a suppressed row counts as dispatched.
SendCheck(n, k) ==
  /\ note[n].state = "new"
  /\ note' = [note EXCEPT ![n].state = IF Enabled(k) THEN "checked" ELSE "muted",
                          ![n].topic = k]
  /\ UNCHANGED <<tick, pref, choices, tour, overtaken>>

\* send: the INSERT, a transaction of its own
SendInsert(n) ==
  /\ note[n].state = "checked"
  /\ note' = [note EXCEPT ![n].state = "stored", ![n].at = tick]
  /\ overtaken' = overtaken \ {n}
  /\ UNCHANGED <<tick, pref, choices, tour>>

-----------------------------------------------------------------------------
Passes(n, f) == n \in Stored /\ (f = "all" \/ (f = "read") = note[n].read)

\* What remains due of a tour when some notifications become read.
AfterReading(ns) ==
  [tour EXCEPT !.due = IF tour.filter = "unread" THEN @ \ ns ELSE @]

\* Marking it again changes its time only.
MarkRead(n) ==
  /\ n \in Stored /\ ~note[n].read
  /\ note' = [note EXCEPT ![n].read = TRUE]
  /\ tour' = AfterReading({n})
  /\ UNCHANGED <<tick, pref, choices, overtaken>>

MarkAllRead ==
  LET unread == {n \in Stored : ~note[n].read}
  IN /\ unread # {}
     /\ note' = [n \in Note |-> IF n \in unread THEN [note[n] EXCEPT !.read = TRUE]
                                ELSE note[n]]
     /\ tour' = AfterReading(unread)
     /\ UNCHANGED <<tick, pref, choices, overtaken>>

\* Mutant: the cursor's own row is asked for again.
BelowOrAt(n, ms) == note[n].at <= Milli * ms

\* lt(createdAt, new Date(cursor)): the cursor is the start of a millisecond
Below(n, ms) == note[n].at < Milli * ms

\* Mutant: the extra row that tells of a next page is not fetched.
HasMoreNever(rows) == FALSE

\* one row more than the limit is fetched
HasMore(rows) == Cardinality(rows) > PageSize

\* ORDER BY created_at DESC LIMIT: the newest, any of those created together
FirstOf(rows) ==
  {p \in SUBSET rows :
     /\ Cardinality(p) = IF Cardinality(rows) > PageSize THEN PageSize ELSE Cardinality(rows)
     /\ \A n \in p, m \in rows \ p : note[n].at >= note[m].at}

\* toISOString of the last item drops the microseconds
CursorOf(page) ==
  (CHOOSE t \in 0..MaxTick :
     (\E n \in page : note[n].at = t) /\ (\A n \in page : note[n].at >= t)) \div Milli

Page(f, rows, t) ==
  \E page \in FirstOf(rows) :
    tour' = [t EXCEPT
      !.pc = IF HasMore(rows) THEN "next" ELSE "done",
      !.filter = f,
      !.cursor = IF HasMore(rows) THEN CursorOf(page) ELSE 0,
      !.cuts = IF HasMore(rows) THEN @ \cup {CursorOf(page)} ELSE @,
      !.shown = @ \cup page,
      !.again = @ \cup (t.shown \cap page)]

\* GET /notifications, first without a cursor, then with the one returned
FirstPage(f) ==
  LET rows == {n \in Note : Passes(n, f)}
  IN /\ tour.pc \in {"away", "done"}
     /\ Page(f, rows, [NoTour EXCEPT !.due = rows])
     /\ UNCHANGED <<tick, note, pref, choices, overtaken>>

NextPage ==
  /\ tour.pc = "next"
  /\ Page(tour.filter,
          {n \in Note : Passes(n, tour.filter) /\ Below(n, tour.cursor)}, tour)
  /\ UNCHANGED <<tick, note, pref, choices, overtaken>>

ClockTicks ==
  /\ tick < MaxTick
  /\ tick' = tick + 1
  /\ UNCHANGED <<note, pref, choices, tour, overtaken>>

InboxNext ==
  \/ \E k \in Key : (\E b \in BOOLEAN : Upsert(k, b)) \/ UpsertEmail(k) \/ Reset(k)
  \/ \E n \in Note : (\E k \in Topic : SendCheck(n, k)) \/ SendInsert(n) \/ MarkRead(n)
  \/ MarkAllRead
  \/ (\E f \in Filter : FirstPage(f)) \/ NextPage
  \/ ClockTicks

InboxSpec == InboxInit /\ [][InboxNext]_inboxVars

-----------------------------------------------------------------------------
\* The two tables and the client's cursor keep their shapes
\* (db/schema/notifications.ts).
InboxTypeOK ==
  /\ tick \in 0..MaxTick /\ choices \in 0..MaxChoices
  /\ note \in [Note -> [state : {"new", "checked", "muted", "stored"}, topic : Key,
                        at : 0..MaxTick, read : BOOLEAN]]
  /\ pref \in [Key -> [there : BOOLEAN, inApp : BOOLEAN]]
  /\ tour.pc \in {"away", "next", "done"} /\ tour.filter \in Filter
  /\ tour.cursor \in 0..MaxTick /\ overtaken \subseteq Note
  /\ \A ns \in {tour.due, tour.shown, tour.again} : ns \subseteq Stored

\* However notifications arrive and are read meanwhile, a tour through the pages
\* shows none twice (notification.drizzle-repository.ts:44-66).
NoneTwice == tour.again = {}

\* A tour that has come to its end has shown every notification that matched its
\* filter all the while, except ones of the very millisecond a page ended in:
\* reading what one pages through does not shift the pages.
NoneSkipped ==
  tour.pc = "done" =>
    \A n \in tour.due : n \in tour.shown \/ note[n].at \div Milli \in tour.cuts

\* Once in-app delivery of a type is switched off, whatever the master switch
\* says, only notifications the relay had checked before are still to come
\* (notification-preferences.service.ts:36-46).
OptOutHolds ==
  \A n \in Note :
    /\ note[n].state = "checked"
    /\ pref[note[n].topic].there /\ ~pref[note[n].topic].inApp
    => n \in overtaken

\* The inbox shows what it should: every page of it, and nothing opted out of
\* (NotificationsController, NotificationPreferencesController).
InboxFaithful == NoneTwice /\ NoneSkipped /\ OptOutHolds
=============================================================================
