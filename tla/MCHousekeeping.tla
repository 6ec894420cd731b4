--------------------------- MODULE MCHousekeeping ---------------------------
(***************************************************************************)
(* Instance for TLC of the parts that timers drive: the sweep of orphaned  *)
(* uploads, the compliance and posture syncs, and the worker's batch jobs  *)
(* over requests.                                                          *)
(*                                                                         *)
(* The parts share no table, no memory and no property, so that            *)
(* interleaving them would show no behaviour that one of them does not     *)
(* have alone.  A behaviour of this specification is one of a single part, *)
(* chosen at the start, while the others rest in their initial state.      *)
(***************************************************************************)
EXTENDS FileStore, ComplianceFindings, SecurityPosture, RequestSweeps

VARIABLE part  \* the part that is awake

vars == <<part, fileVars, findingVars, postureVars, sweepVars>>

Init ==
  /\ part \in {"files", "findings", "posture", "sweeps"}
  /\ FilesInit /\ FindingsInit /\ PostureInit /\ SweepsInit

FilesOnly(A) ==
  part = "files" /\ A /\ UNCHANGED <<part, findingVars, postureVars, sweepVars>>

FindingsOnly(A) ==
  part = "findings" /\ A /\ UNCHANGED <<part, fileVars, postureVars, sweepVars>>

PostureOnly(A) ==
  part = "posture" /\ A /\ UNCHANGED <<part, fileVars, findingVars, sweepVars>>

SweepsOnly(A) ==
  part = "sweeps" /\ A /\ UNCHANGED <<part, fileVars, findingVars, postureVars>>

Next ==
  \/ FilesOnly(FilesNext)
  \/ FindingsOnly(FindingsNext)
  \/ PostureOnly(PostureNext)
  \/ SweepsOnly(SweepsNext)

\* The fairness of the parts, for the part that is awake.
Fairness ==
  /\ \A f \in File : WF_vars(FilesOnly(Grow(f)))
  /\ \A w \in Sweeper : WF_vars(FilesOnly(SweepGoesOn(w)))
  /\ \A y \in SyncRun : WF_vars(FindingsOnly(SyncGoesOn(y)))
  /\ \A n \in ScanRun : WF_vars(FindingsOnly(ScanGoesOn(n)))
  /\ WF_vars(PostureOnly(NextDay))
  /\ \A p \in Syncer : WF_vars(PostureOnly(PostureGoesOn(p)))
  /\ WF_vars(SweepsOnly(SlaTick)) /\ WF_vars(SweepsOnly(ExpiryTick))

Spec == Init /\ [][Next]_vars /\ Fairness

\* What Intune may report: the empty set, one issue, or both.
MCReports == {{}, {"noncompliant"}, Issue}

CONSTANTS p1, y1, y2

\* One process: a sync that outlasts its interval overlaps the next.
MCHostOf == [j \in {y1, y2} |-> p1]
=============================================================================
