---------------------------- MODULE LicenceSeats ----------------------------
(***************************************************************************)
(* Software licences and their seats (LicenseService).                     *)
(*                                                                         *)
(* No operation runs in a transaction and no index or foreign key guards   *)
(* license_assignments, so every statement is a step of its own: an        *)
(* assignment reads the licence, looks for a seat of the same employee,    *)
(* counts the seats in use and inserts its row; a deletion counts and then *)
(* deletes.  Names, vendors, costs and the audit trail are left out.       *)
(***************************************************************************)
EXTENDS Naturals, FiniteSets

CONSTANTS
  Licence,
  Holder,      \* employees who may hold a seat
  Seat,        \* ids of license_assignments rows
  Unlimited,   \* seat_count null
  Counts,      \* bound: the seat counts an administrator enters
  SeatCall,    \* requests in flight
  MaxSeatOps   \* bound: operations altogether

NoSeat   == [state |-> "unborn"]
SeatRow  == [state: {"active", "revoked"}, lic: Licence, emp: Holder]

ASSUME SeatAssumption ==
  /\ Unlimited \notin Nat
  /\ Counts \subseteq Nat \cup {Unlimited}
  /\ IsFiniteSet(SeatCall) /\ SeatCall # {}
  /\ IsFiniteSet(Seat)
  /\ MaxSeatOps \in Nat

VARIABLES
  licence,    \* software_licenses: whether the row is there, its seat_count
  seat,       \* license_assignments
  seatCall,   \* what each request has read
  seatOps,    \* operations so far
  peakSeats,       \* history: the largest seat_count each licence has had
  undercut  \* history: licences deleted around an unfinished assignment

licenceVars == <<licence, seat, seatCall, seatOps, peakSeats, undercut>>

SeatIdle == [pc |-> "idle"]

\* pcs of an assignment that has yet to insert, in the order of the code
AssignPc == {"dup", "count", "insert"}
DeletePc == {"seats", "delete"}

SeatCallType ==
  {SeatIdle}
    \cup [pc: AssignPc, lic: Licence, emp: Holder, seats: Nat \cup {Unlimited}]
    \cup [pc: DeletePc, lic: Licence]

LicenceLive(l)         == licence[l].state = "live"
ActiveSeats(l)  == {s \in Seat : seat[s].state = "active" /\ seat[s].lic = l}
SeatsOf(l, e)   == {s \in ActiveSeats(l) : seat[s].emp = e}
UsedSeats(l)         == Cardinality(ActiveSeats(l))
CallsAt(l, pcs)      == {c \in SeatCall : seatCall[c].pc \in pcs /\ seatCall[c].lic = l}

LicenceInit ==
  /\ licence = [l \in Licence |-> [state |-> "unborn", seats |-> 0]]
  /\ seat = [s \in Seat |-> NoSeat]
  /\ seatCall = [c \in SeatCall |-> SeatIdle]
  /\ seatOps = 0
  /\ peakSeats = [l \in Licence |-> 0]
  /\ undercut = {}

-----------------------------------------------------------------------------
SeatOp      == seatOps < MaxSeatOps /\ seatOps' = seatOps + 1
SeatMove(c, k) == seatCall' = [seatCall EXCEPT ![c] = k]
HigherCount(m, n) == IF Unlimited \in {m, n} THEN Unlimited ELSE IF m < n THEN n ELSE m

LicenceWrite(l, n) ==
  /\ SeatOp
  /\ licence' = [licence EXCEPT ![l] = [state |-> "live", seats |-> n]]
  /\ peakSeats' = [peakSeats EXCEPT ![l] = HigherCount(@, n)]
  /\ UNCHANGED <<seat, seatCall, undercut>>

CreateLicence(l) ==
  /\ licence[l].state = "unborn"
  /\ \E n \in Counts : LicenceWrite(l, n)

\* update: the read before the UPDATE only tells a missing licence, as the
\* UPDATE itself does; seats in use beyond the new count stay in use.
UpdateLicence(l) ==
  /\ LicenceLive(l)
  /\ \E n \in Counts \ {licence[l].seats} : LicenceWrite(l, n)

\* assign: getById
AssignRead(c) ==
  /\ seatCall[c] = SeatIdle
  /\ SeatOp
  /\ \E l \in Licence, e \in Holder :
       /\ LicenceLive(l)
       /\ SeatMove(c, [pc |-> "dup", lic |-> l, emp |-> e, seats |-> licence[l].seats])
  /\ UNCHANGED <<licence, seat, peakSeats, undercut>>

\* Mutant: a seat the employee holds already is not looked for.
AssignDupUnchecked(c) ==
  /\ seatCall[c].pc = "dup"
  /\ SeatMove(c, [seatCall[c] EXCEPT !.pc =
       IF seatCall[c].seats = Unlimited THEN "insert" ELSE "count"])
  /\ UNCHANGED <<licence, seat, seatOps, peakSeats, undercut>>

\* assign: findActiveAssignment, and whether seats are counted at all
AssignDup(c) ==
  /\ seatCall[c].pc = "dup"
  /\ SeatMove(c,
       IF SeatsOf(seatCall[c].lic, seatCall[c].emp) # {} THEN SeatIdle
       ELSE [seatCall[c] EXCEPT !.pc =
               IF seatCall[c].seats = Unlimited THEN "insert" ELSE "count"])
  /\ UNCHANGED <<licence, seat, seatOps, peakSeats, undercut>>

\* Mutant: the last seat is given out twice.
AssignCountOffByOne(c) ==
  /\ seatCall[c].pc = "count"
  /\ SeatMove(c,
       IF UsedSeats(seatCall[c].lic) > seatCall[c].seats THEN SeatIdle
       ELSE [seatCall[c] EXCEPT !.pc = "insert"])
  /\ UNCHANGED <<licence, seat, seatOps, peakSeats, undercut>>

\* assign: countActiveSeats against the seat count read at the start
AssignCount(c) ==
  /\ seatCall[c].pc = "count"
  /\ SeatMove(c,
       IF UsedSeats(seatCall[c].lic) >= seatCall[c].seats THEN SeatIdle
       ELSE [seatCall[c] EXCEPT !.pc = "insert"])
  /\ UNCHANGED <<licence, seat, seatOps, peakSeats, undercut>>

\* assign: the row is inserted, whatever has happened to the licence since
AssignInsert(c) ==
  /\ seatCall[c].pc = "insert"
  /\ LET l == seatCall[c].lic
     IN  /\ \E s \in Seat :
              /\ seat[s] = NoSeat
              /\ seat' = [seat EXCEPT ![s] =
                            [state |-> "active", lic |-> l, emp |-> seatCall[c].emp]]
         /\ undercut' = IF LicenceLive(l) /\ CallsAt(l, {"delete"}) = {}
                          THEN undercut ELSE undercut \cup {l}
  /\ SeatMove(c, SeatIdle)
  /\ UNCHANGED <<licence, seatOps, peakSeats>>

\* Mutant: a revoked seat loses its row's columns.
SeatRevokeBlank(s) ==
  /\ seat[s].state = "active"
  /\ SeatOp
  /\ seat' = [seat EXCEPT ![s] = [state |-> "revoked"]]
  /\ UNCHANGED <<licence, seatCall, peakSeats, undercut>>

\* revoke: by id, in any state of the row or of its licence
SeatRevoke(s) ==
  /\ seat[s].state = "active"
  /\ SeatOp
  /\ seat' = [seat EXCEPT ![s].state = "revoked"]
  /\ UNCHANGED <<licence, seatCall, peakSeats, undercut>>

\* delete: getById
DeleteRead(c) ==
  /\ seatCall[c] = SeatIdle
  /\ SeatOp
  /\ \E l \in Licence : LicenceLive(l) /\ SeatMove(c, [pc |-> "seats", lic |-> l])
  /\ UNCHANGED <<licence, seat, peakSeats, undercut>>

\* Mutant: seats in use do not keep a licence from being deleted.
DeleteCountUnchecked(c) ==
  /\ seatCall[c].pc = "seats"
  /\ SeatMove(c, [seatCall[c] EXCEPT !.pc = "delete"])
  /\ UNCHANGED <<licence, seat, seatOps, peakSeats, undercut>>

\* delete: countActiveSeats
DeleteCount(c) ==
  /\ seatCall[c].pc = "seats"
  /\ SeatMove(c, IF UsedSeats(seatCall[c].lic) > 0 THEN SeatIdle
                 ELSE [seatCall[c] EXCEPT !.pc = "delete"])
  /\ UNCHANGED <<licence, seat, seatOps, peakSeats, undercut>>

\* delete: the licence row only; seats have no foreign key to follow
DeleteLicence(c) ==
  /\ seatCall[c].pc = "delete"
  /\ licence' = [licence EXCEPT ![seatCall[c].lic].state = "deleted"]
  /\ SeatMove(c, SeatIdle)
  /\ UNCHANGED <<seat, seatOps, peakSeats, undercut>>

SeatCallStep(c) ==
  \/ AssignRead(c) \/ AssignDup(c) \/ AssignCount(c) \/ AssignInsert(c)
  \/ DeleteRead(c) \/ DeleteCount(c) \/ DeleteLicence(c)

LicenceNext ==
  \/ \E l \in Licence : CreateLicence(l) \/ UpdateLicence(l)
  \/ \E s \in Seat : SeatRevoke(s)
  \/ \E c \in SeatCall : SeatCallStep(c)

LicenceSpec == LicenceInit /\ [][LicenceNext]_licenceVars

-----------------------------------------------------------------------------
\* The shapes of the two tables and of a request in flight (licenses.ts).
LicencesTypeOK ==
  /\ licence \in [Licence -> [state: {"unborn", "live", "deleted"},
                              seats: Nat \cup {Unlimited}]]
  /\ seat \in [Seat -> SeatRow \cup {NoSeat}]
  /\ seatCall \in [SeatCall -> SeatCallType]
  /\ seatOps \in Nat
  /\ peakSeats \in [Licence -> Nat \cup {Unlimited}]
  /\ undercut \subseteq Licence

\* Counting and inserting are not atomic (license.service.ts:99-106), so a
\* licence can be overbooked; but only by the requests that counted before the
\* last seat went, all but one of those in flight: with N concurrent requests
\* by at most N - 1 seats over the largest number ever purchased.
OverbookingIsBounded ==
  \A l \in Licence :
    peakSeats[l] # Unlimited => UsedSeats(l) < peakSeats[l] + Cardinality(SeatCall)

\* One employee holds a second seat of a licence only through requests that
\* looked for the first before it was inserted: never more seats than requests
\* in flight (license.service.ts:94-106).
DuplicateSeatsBounded ==
  \A l \in Licence, e \in Holder :
    Cardinality(SeatsOf(l, e)) <= Cardinality(SeatCall)

\* "Revoke all seats first": a deleted licence leaves active seats behind only
\* if one was inserted between the deletion's count and its DELETE or by a
\* request that had read the licence before (license.service.ts:67-76).
NoOrphanSeats ==
  \A l \in Licence :
    licence[l].state = "deleted" /\ l \notin undercut => ActiveSeats(l) = {}

\* How far the unlocked checks of LicenseService can be wrong: overbooked and
\* doubled seats are bounded by the requests in flight, orphans have a cause.
SeatBooks == OverbookingIsBounded /\ DuplicateSeatsBounded /\ NoOrphanSeats
=============================================================================
