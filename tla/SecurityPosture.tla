--------------------------- MODULE SecurityPosture ---------------------------
(***************************************************************************)
(* The daily copy of Microsoft's Secure Score and of the baseline controls *)
(* (GraphSecureScoreService), run by a cron in every API process and, on   *)
(* demand, by an administrator.                                            *)
(*                                                                         *)
(* A sync stores a snapshot of the score and then replaces the baseline:   *)
(* it fetches the controls, deletes every row and inserts the new ones, in *)
(* statements of their own.  The controls are abstracted to the day Graph  *)
(* last changed them.                                                      *)
(***************************************************************************)
EXTENDS Naturals, FiniteSets

CONSTANTS
  Syncer,      \* syncs that may run at the same time
  MaxDay,      \* bound: days
  MaxShots,    \* bound: snapshots of one day are counted up to this
  MaxLosses    \* bound: failing calls and crashes

ASSUME PostureAssumption ==
  /\ IsFiniteSet(Syncer) /\ Syncer # {}
  /\ MaxDay \in Nat \ {0} /\ MaxShots \in Nat /\ MaxLosses \in Nat

Date == 1..MaxDay

VARIABLES
  day,       \* today, and the latest state of the controls at Graph
  shots,     \* secure_score_snapshots of each day
  checks,    \* baseline_checks: copies of each day's controls
  syncing,   \* what each sync has fetched
  losses,    \* faults so far
  mixed      \* history: another sync had rows to insert at the last DELETE

postureVars == <<day, shots, checks, syncing, losses, mixed>>

NotSyncing == [pc |-> "idle", day |-> 0]
NoChecks   == [d \in Date |-> 0]

PostureInit ==
  /\ day = 1
  /\ shots = [d \in Date |-> 0]
  /\ checks = NoChecks
  /\ syncing = [p \in Syncer |-> NotSyncing]
  /\ losses = 0
  /\ mixed = FALSE

-----------------------------------------------------------------------------
NextDay ==
  /\ day < MaxDay /\ day' = day + 1
  /\ UNCHANGED <<shots, checks, syncing, losses, mixed>>

\* syncSecureScore: the latest score and its INSERT.  onConflictDoNothing has
\* nothing to conflict with: the id is new and score_date is not unique.
ScoreSync(p) ==
  /\ syncing[p] = NotSyncing
  /\ shots' = [shots EXCEPT ![day] = IF @ < MaxShots THEN @ + 1 ELSE @]
  /\ syncing' = [syncing EXCEPT ![p] = [pc |-> "fetch", day |-> day]]
  /\ UNCHANGED <<day, checks, losses, mixed>>

\* Mutant: the day is taken one too far.
BaselineFetchAhead(p) ==
  /\ syncing[p].pc = "fetch"
  /\ syncing' = [syncing EXCEPT ![p] = [pc |-> "delete", day |-> day + 1]]
  /\ UNCHANGED <<day, shots, checks, losses, mixed>>

\* syncBaselineChecks: the controls are fetched before anything is deleted
BaselineFetch(p) ==
  /\ syncing[p].pc = "fetch"
  /\ syncing' = [syncing EXCEPT ![p] = [pc |-> "delete", day |-> day]]
  /\ UNCHANGED <<day, shots, checks, losses, mixed>>

\* Mutant: the rows of the previous cycle stay.
BaselineDeleteNone(p) ==
  /\ syncing[p].pc = "delete"
  /\ syncing' = [syncing EXCEPT ![p].pc = "insert"]
  /\ mixed' = \E q \in Syncer \ {p} : syncing[q].pc = "insert"
  /\ UNCHANGED <<day, shots, checks, losses>>

\* syncBaselineChecks: DELETE without a WHERE
BaselineDelete(p) ==
  /\ syncing[p].pc = "delete"
  /\ checks' = NoChecks
  /\ syncing' = [syncing EXCEPT ![p].pc = "insert"]
  /\ mixed' = \E q \in Syncer \ {p} : syncing[q].pc = "insert"
  /\ UNCHANGED <<day, shots, losses>>

\* Mutant: the test for an empty response is the wrong way round.
BaselineInsertNone(p) ==
  /\ syncing[p].pc = "insert"
  /\ syncing' = [syncing EXCEPT ![p] = NotSyncing]
  /\ UNCHANGED <<day, shots, checks, losses, mixed>>

\* syncBaselineChecks: all rows of the response in one INSERT
BaselineInsert(p) ==
  /\ syncing[p].pc = "insert"
  /\ checks' = [checks EXCEPT ![syncing[p].day] = @ + 1]
  /\ syncing' = [syncing EXCEPT ![p] = NotSyncing]
  /\ UNCHANGED <<day, shots, losses, mixed>>

\* A Graph call or a statement fails, or the process stops; the cron logs it.
SyncLost(p) ==
  /\ syncing[p] # NotSyncing
  /\ losses < MaxLosses /\ losses' = losses + 1
  /\ syncing' = [syncing EXCEPT ![p] = NotSyncing]
  /\ UNCHANGED <<day, shots, checks, mixed>>

PostureGoesOn(p) ==
  \/ ScoreSync(p)
  \/ BaselineFetch(p) \/ BaselineDelete(p) \/ BaselineInsert(p)

PostureNext ==
  \/ NextDay
  \/ \E p \in Syncer : PostureGoesOn(p) \/ SyncLost(p)

PostureSpec == PostureInit /\ [][PostureNext]_postureVars

\* The cron fires every day, and a sync that runs goes on.
PostureFairness == WF_postureVars(NextDay) /\ \A p \in Syncer : WF_postureVars(PostureGoesOn(p))

-----------------------------------------------------------------------------
\* The shapes of the two tables and of a running sync (security-posture.ts).
PostureTypeOK ==
  /\ day \in Date
  /\ shots \in [Date -> 0..MaxShots]
  /\ checks \in [Date -> 0..Cardinality(Syncer)]
  /\ syncing \in [Syncer -> [pc: {"idle", "fetch", "delete", "insert"}, day: 0..day]]
  /\ mixed \in BOOLEAN

\* The baseline is the result of one sync: delete and insert are separate
\* (graph-secure-score.service.ts:118-137), so two syncs can leave their rows
\* side by side, but only if one had yet to insert when the other deleted.
BaselineIsOneCycle ==
  ~mixed => \A d, e \in Date : checks[d] <= 1 /\ (checks[d] > 0 /\ checks[e] > 0 => d = e)

\* The tables keep their shape, and the baseline is that of one sync
\* (GraphSecureScoreService.syncBaselineChecks).
BaselineSound == PostureTypeOK /\ BaselineIsOneCycle

\* A sync that stops between its DELETE and its INSERT leaves the table empty;
\* a later one fills it again.
BaselineComesBack == losses > 0 /\ checks = NoChecks ~> checks # NoChecks
=============================================================================
