----------------------------- MODULE Timesheets -----------------------------
(***************************************************************************)
(* Timesheets and shift logs (WorkforceService).                           *)
(*                                                                         *)
(* A timesheet is handed in and reviewed outside the request engine: each  *)
(* operation reads the row, checks its status and updates it by id, in two *)
(* statements and without a transaction.  Shift logs are only inserted.    *)
(***************************************************************************)
EXTENDS Naturals

CONSTANTS
  Sheet,        \* timesheets
  SheetCall,    \* requests in flight
  Hour,         \* bound: the times a shift can start and end at
  MaxSheetOps   \* bound: operations altogether

ASSUME SheetAssumption == Hour \subseteq Nat /\ MaxSheetOps \in Nat

VARIABLES
  sheet,      \* timesheets: status and whether approved_by is set
  shifts,     \* shift_logs: start and end
  sheetCall,  \* what each request has read and is about to write
  sheetOps,   \* operations so far
  overwritten     \* history: timesheets written on a read that had gone stale

sheetVars == <<sheet, shifts, sheetCall, sheetOps, overwritten>>

SheetRow   == [status: {"none", "draft", "submitted", "approved", "rejected"},
               approved: BOOLEAN]
Shift      == {x \in Hour \X Hour : x[1] < x[2]}
NoSheet    == [status |-> "none", approved |-> FALSE]
AtDesk     == [pc |-> "idle"]

SheetsInit ==
  /\ sheet = [t \in Sheet |-> NoSheet]
  /\ shifts = {}
  /\ sheetCall = [c \in SheetCall |-> AtDesk]
  /\ sheetOps = 0
  /\ overwritten = {}

SheetOp == sheetOps < MaxSheetOps /\ sheetOps' = sheetOps + 1

CreateTimesheet(t) ==
  /\ sheet[t] = NoSheet
  /\ SheetOp
  /\ sheet' = [sheet EXCEPT ![t].status = "draft"]
  /\ UNCHANGED <<shifts, sheetCall, overwritten>>

\* createShiftLog: the interval is checked before the insert.
CreateShiftLog(a, b) ==
  /\ a < b
  /\ SheetOp
  /\ shifts' = shifts \cup {<<a, b>>}
  /\ UNCHANGED <<sheet, sheetCall, overwritten>>

SheetRead(c, t, to) ==
  /\ sheetCall[c] = AtDesk
  /\ SheetOp
  /\ sheetCall' = [sheetCall EXCEPT ![c] =
       [pc |-> "read", sheet |-> t, to |-> to, seen |-> sheet[t]]]
  /\ UNCHANGED <<sheet, shifts, overwritten>>

\* Mutant: a decided timesheet may be handed in again.
SubmitTimesheetAgain(c, t) ==
  sheet[t].status \in {"draft", "rejected", "approved"} /\ SheetRead(c, t, "submitted")

\* submitTimesheet: a draft, or a rejected one that has been corrected.
SubmitTimesheet(c, t) ==
  sheet[t].status \in {"draft", "rejected"} /\ SheetRead(c, t, "submitted")

\* reviewTimesheet
ReviewTimesheet(c, t) ==
  /\ sheet[t].status = "submitted"
  /\ \E to \in {"approved", "rejected"} : SheetRead(c, t, to)

\* Mutant: approved_by survives a later change of status.
SetTimesheetStatusKeeps(c) ==
  LET k == sheetCall[c] IN
  /\ k.pc = "read"
  /\ sheet' = [sheet EXCEPT ![k.sheet] =
       [status |-> k.to, approved |-> @.approved \/ k.to = "approved"]]
  /\ overwritten' = IF sheet[k.sheet] # k.seen THEN overwritten \cup {k.sheet} ELSE overwritten
  /\ sheetCall' = [sheetCall EXCEPT ![c] = AtDesk]
  /\ UNCHANGED <<shifts, sheetOps>>

\* setTimesheetStatus: approved_by is the reviewer of an approval, else null.
SetTimesheetStatus(c) ==
  LET k == sheetCall[c] IN
  /\ k.pc = "read"
  /\ sheet' = [sheet EXCEPT ![k.sheet] =
       [status |-> k.to, approved |-> k.to = "approved"]]
  /\ overwritten' = IF sheet[k.sheet] # k.seen THEN overwritten \cup {k.sheet} ELSE overwritten
  /\ sheetCall' = [sheetCall EXCEPT ![c] = AtDesk]
  /\ UNCHANGED <<shifts, sheetOps>>

SheetCallFails(c) ==
  /\ sheetCall[c] # AtDesk
  /\ sheetCall' = [sheetCall EXCEPT ![c] = AtDesk]
  /\ UNCHANGED <<sheet, shifts, sheetOps, overwritten>>

SheetsNext ==
  \/ \E t \in Sheet : CreateTimesheet(t)
  \/ \E a, b \in Hour : CreateShiftLog(a, b)
  \/ \E c \in SheetCall :
       \/ \E t \in Sheet : SubmitTimesheet(c, t) \/ ReviewTimesheet(c, t)
       \/ SetTimesheetStatus(c)
       \/ SheetCallFails(c)

SheetsSpec == SheetsInit /\ [][SheetsNext]_sheetVars

-----------------------------------------------------------------------------
(* Properties.                                                             *)

\* Rows are well formed; whatever order calls were written in, approved_by
\* is set on exactly the approved timesheets (setTimesheetStatus).
SheetsTypeOK ==
  /\ sheet \in [Sheet -> SheetRow]
  /\ \A t \in Sheet : sheet[t].approved <=> sheet[t].status = "approved"
  /\ shifts \subseteq Shift
  /\ sheetOps \in 0..MaxSheetOps

\* A decided timesheet keeps its decision, except that a rejected one can be
\* handed in again: a reviewer's verdict is overwritten only by a call that
\* had read the row before that verdict was given.
VerdictStands ==
  [][\A t \in Sheet :
       sheet[t].status \in {"approved", "rejected"} /\ sheet'[t] # sheet[t] =>
         \/ sheet[t].status = "rejected" /\ sheet'[t].status = "submitted"
         \/ t \in overwritten']_sheetVars
=============================================================================
