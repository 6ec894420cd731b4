----------------------------- MODULE MCServices -----------------------------
(***************************************************************************)
(* Instance for TLC of the services that requests drive and no timer has   *)
(* to move along: assets, licences, timesheets, uploaded files, compliance *)
(* findings, and at the API's edge the rate limiter, the idempotency       *)
(* interceptor, the notification streams and inbox, and the paged lists.   *)
(*                                                                         *)
(* They share neither tables nor memory, and each property is a            *)
(* conjunction of properties of single services, so that interleaving      *)
(* them would show no behaviour that one of them does not have alone.  A   *)
(* behaviour of this specification is one of a single service, chosen at   *)
(* the start, while the others rest in their initial state.                *)
(***************************************************************************)
EXTENDS AssetRegister, LicenceSeats, Timesheets, FileStore, ComplianceFindings,
        RateLimit, Idempotency, LiveStream, NotificationInbox, PagedList

VARIABLE part  \* the service that is awake

registers == <<assetVars, licenceVars, sheetVars>>
uploads   == <<fileVars, findingVars>>
edge      == <<rateVars, idemVars>>
feeds     == <<streamVars, inboxVars, listVars>>

vars == <<part, registers, uploads, edge, feeds>>

Init ==
  /\ part \in {"assets", "licences", "sheets", "files", "syncs", "scans",
               "rate", "idempotency", "streams", "inbox", "pages"}
  /\ AssetInit /\ LicenceInit /\ SheetsInit
  /\ FilesInit /\ FindingsInit
  /\ RateInit /\ IdemInit
  /\ StreamsInit /\ InboxInit /\ ListInit
  /\ part = "idempotency" \/ body = "json"

RegistersNext ==
  /\ \/ part = "assets" /\ AssetNext /\ UNCHANGED <<licenceVars, sheetVars>>
     \/ part = "licences" /\ LicenceNext /\ UNCHANGED <<assetVars, sheetVars>>
     \/ part = "sheets" /\ SheetsNext /\ UNCHANGED <<assetVars, licenceVars>>
  /\ UNCHANGED <<part, uploads, edge, feeds>>

\* Syncs find devices and scans find applications: neither reads the rows of the
\* other, and either is awake alone, with the officers and the restarts.
NoneRuns(R) == \A j \in R : job'[j] = Ready

UploadsNext ==
  /\ \/ part = "files" /\ FilesNext /\ UNCHANGED findingVars
     \/ part = "syncs" /\ FindingsNext /\ NoneRuns(ScanRun) /\ UNCHANGED fileVars
     \/ part = "scans" /\ FindingsNext /\ NoneRuns(SyncRun) /\ UNCHANGED fileVars
  /\ UNCHANGED <<part, registers, edge, feeds>>

EdgeNext ==
  /\ \/ part = "rate" /\ RateNext /\ UNCHANGED idemVars
     \/ part = "idempotency" /\ IdemNext /\ UNCHANGED rateVars
  /\ UNCHANGED <<part, registers, uploads, feeds>>

FeedsNext ==
  /\ \/ part = "streams" /\ StreamsNext /\ UNCHANGED <<inboxVars, listVars>>
     \/ part = "inbox" /\ InboxNext /\ UNCHANGED <<streamVars, listVars>>
     \/ part = "pages" /\ ListNext /\ UNCHANGED <<streamVars, inboxVars>>
  /\ UNCHANGED <<part, registers, uploads, edge>>

Next == RegistersNext \/ UploadsNext \/ EdgeNext \/ FeedsNext

Spec == Init /\ [][Next]_vars

\* What Intune may report: the empty set, one issue, or both.
MCReports == {{}, {"noncompliant"}, Issue}

CONSTANTS p1, p2, y1, y2, n1, n2

\* Two processes run the sync; one of them is scanning twice, by its cron and by
\* an administrator's request.
MCHostOf == [j \in {y1, y2, n1, n2} |-> IF j = y2 THEN p2 ELSE p1]

\* Two of the four requests share the value they are ordered by.
MCSortKey == <<1, 2, 3, 3>>

\* Each service's tables, requests and counters keep their shapes: no statement
\* writes a value its schema does not have.
TypeOK ==
  /\ AssetsTypeOK /\ LicencesTypeOK /\ SheetsTypeOK
  /\ FilesTypeOK /\ FindingsTypeOK
  /\ RateTypeOK /\ IdemTypeOK /\ StreamsTypeOK /\ InboxTypeOK /\ ListTypeOK

\* What a reviewer or an officer decided stands, except against a request that
\* had read the row before (workforce.service.ts:70-100, compliance.service.ts:105-136).
DecisionsLast == VerdictStands /\ ResolutionStands

\* A client that follows the cursors or the offsets it is given sees what there
\* is (notification.drizzle-repository.ts:44-65, request-engine.service.ts:432-493).
ListsFaithful == InboxFaithful /\ WalkAccounted
=============================================================================
