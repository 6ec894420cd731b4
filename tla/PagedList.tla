------------------------------ MODULE PagedList ------------------------------
(***************************************************************************)
(* The unified inbox of requests (RequestEngine.list behind GET /requests) *)
(* and a client that walks through its pages by offset while requests are  *)
(* submitted and decided.  The rows and their number are read by separate  *)
(* statements.  The other lists of the API are built the same way.         *)
(*                                                                         *)
(* SortKey is the column a list is ordered by: created_at here, a date in  *)
(* the workforce lists, where many rows share one.  Loading the approvals  *)
(* of a page adds no row to it and is left out.                            *)
(***************************************************************************)
EXTENDS Naturals, FiniteSets

CONSTANTS
  Ticket,     \* requests that may be submitted
  SortKey,    \* the value each has in the ORDER BY column
  ListLimit   \* the limit the client asks for

ASSUME ListAssumption ==
  /\ IsFiniteSet(Ticket)
  /\ SortKey \in [Ticket -> Nat]
  /\ ListLimit \in Nat \ {0}

VARIABLES
  ticket,   \* the status of each request
  walk      \* the client's walk: the request in flight and what it has shown

listVars == <<ticket, walk>>

ListFilter == {"any", "pending", "approved"}

\* rows is the page in hand; due, shown, again, left and arrived are history:
\* what has been listed all the while, what was shown, what was shown twice,
\* and how many rows have left and joined the list since the walk began.
NoWalk == [pc |-> "away", filter |-> "any", offset |-> 0, rows |-> {},
           due |-> {}, shown |-> {}, again |-> {}, left |-> 0, arrived |-> 0]

ListInit ==
  /\ ticket = [r \in Ticket |-> "none"]
  /\ walk = NoWalk

-----------------------------------------------------------------------------
\* the WHERE clause; myQueue asks for pending ones too, as no caller of submit
\* names an assignee
Satisfies(status, f) == status # "none" /\ (f = "any" \/ status = f)

Listed(f) == {r \in Ticket : Satisfies(ticket[r], f)}

\* The row may join or leave the list that the client walks through.
RowWritten(r, status) ==
  LET was == Satisfies(ticket[r], walk.filter)
      is  == Satisfies(status, walk.filter)
  IN /\ ticket' = [ticket EXCEPT ![r] = status]
     /\ walk' = IF walk.pc \in {"away", "done"} THEN walk
                ELSE [walk EXCEPT !.left = IF was /\ ~is THEN @ + 1 ELSE @,
                                  !.arrived = IF is /\ ~was THEN @ + 1 ELSE @,
                                  !.due = IF is THEN @ ELSE @ \ {r}]

\* created_at is when a submission's transaction began: rows appear in any order
TicketSubmitted(r) == ticket[r] = "none" /\ RowWritten(r, "pending")

\* "approved" stands for every status a request moves on to
TicketApproved(r) == ticket[r] = "pending" /\ RowWritten(r, "approved")

Least(m, n) == IF m < n THEN m ELSE n

\* Mutant: one row more than the limit is read and kept.
PagesOneMore(M, offset) ==
  {p \in SUBSET M : \E s \in SUBSET (M \ p) :
     /\ Cardinality(s) = Least(offset, Cardinality(M))
     /\ Cardinality(p) = Least(ListLimit + 1, Cardinality(M) - Cardinality(s))
     /\ \A a \in s, b \in M \ s : SortKey[a] >= SortKey[b]
     /\ \A a \in p, b \in M \ (s \cup p) : SortKey[a] >= SortKey[b]}

\* ORDER BY ... DESC LIMIT OFFSET: equal keys come in any order, and need not
\* come in the same one twice
PagesOf(M, offset) ==
  {p \in SUBSET M : \E s \in SUBSET (M \ p) :
     /\ Cardinality(s) = Least(offset, Cardinality(M))
     /\ Cardinality(p) = Least(ListLimit, Cardinality(M) - Cardinality(s))
     /\ \A a \in s, b \in M \ s : SortKey[a] >= SortKey[b]
     /\ \A a \in p, b \in M \ (s \cup p) : SortKey[a] >= SortKey[b]}

\* the first statement of list, for the walk w
RowsRead(w) ==
  /\ \E p \in PagesOf(Listed(w.filter), w.offset) :
       walk' = [w EXCEPT !.pc = "count", !.rows = p, !.shown = @ \cup p,
                         !.again = @ \cup (w.shown \cap p)]
  /\ UNCHANGED ticket

WalkStarts(f) ==
  /\ walk.pc \in {"away", "done"}
  /\ RowsRead([NoWalk EXCEPT !.filter = f, !.due = Listed(f)])

WalkGoesOn == walk.pc = "next" /\ RowsRead(walk)

\* Mutant: the last row of the list is not counted.
HasNextPageShort(total) == walk.offset + Cardinality(walk.rows) + 1 < total

\* buildPageResult
HasNextPage(total) == walk.offset + Cardinality(walk.rows) < total

\* the second statement counts what is listed by then; the client asks for the
\* next page as long as it is told of one
CountRead ==
  LET more == HasNextPage(Cardinality(Listed(walk.filter)))
  IN /\ walk.pc = "count"
     /\ walk' = [walk EXCEPT !.pc = IF more THEN "next" ELSE "done",
                             !.offset = IF more THEN @ + ListLimit ELSE @,
                             !.rows = {}]
     /\ UNCHANGED ticket

ListNext ==
  \/ \E r \in Ticket : TicketSubmitted(r) \/ TicketApproved(r)
  \/ (\E f \in ListFilter : WalkStarts(f)) \/ WalkGoesOn
  \/ CountRead

ListSpec == ListInit /\ [][ListNext]_listVars

-----------------------------------------------------------------------------
\* The status column and the walk keep their shapes (db/schema/requests.ts).
ListTypeOK ==
  /\ ticket \in [Ticket -> {"none", "pending", "approved"}]
  /\ walk.pc \in {"away", "count", "next", "done"} /\ walk.filter \in ListFilter
  /\ walk.offset \in Nat /\ walk.left \in Nat /\ walk.arrived \in Nat
  /\ \A rs \in {walk.rows, walk.due, walk.shown, walk.again} : rs \subseteq Ticket

\* No other row has the same value in the ORDER BY column.
Alone(r) == \A q \in Ticket \ {r} : SortKey[q] # SortKey[r]

\* A walk that is told there is no next page has missed at most as many of the
\* rows listed all the while as have left the list meanwhile, although each page
\* and its count are read apart; rows that share their sort key are not promised
\* anything (request-engine.service.ts:454-465, pagination.ts:36-46).
SkipsHaveCause ==
  walk.pc = "done" =>
    Cardinality({r \in walk.due \ walk.shown : Alone(r)}) <= walk.left

\* And it has shown at most as many rows twice as have joined the list meanwhile
\* (request-engine.service.ts:454-460).
RepeatsHaveCause == Cardinality({r \in walk.again : Alone(r)}) <= walk.arrived

\* A walk through the pages of the inbox is only as inexact as the list has been
\* restless (requests.controller.ts:94-116).
WalkAccounted == SkipsHaveCause /\ RepeatsHaveCause
=============================================================================
