------------------------------ MODULE FileStore ------------------------------
(***************************************************************************)
(* Uploads: the stored_files row, the S3 object, the entity that links the *)
(* file (an asset's photo, an employee's avatar, a leave's document) and   *)
(* the hourly purge of uploads nobody confirmed.                           *)
(*                                                                         *)
(* A confirmation reads the entity, reads the file, asks S3 for the object *)
(* and updates the row by id; then it looks up the file it replaces, by    *)
(* StorageService.findById(<storage key>).  The id column is a uuid, so    *)
(* PostgreSQL rejects that query: an entity that has a file gets no other, *)
(* deleteAvatar cannot clear one, and deleteFile is never reached.         *)
(***************************************************************************)
EXTENDS Naturals, FiniteSets

CONSTANTS
  File,
  Photo, Avatar, Document,  \* assets, employees and leave requests
  NoFile,
  Sizes,        \* what a client may upload: of the declared size or not
  ConfirmCall,  \* confirmations in flight
  Sweeper,      \* worker processes, each with its own interval
  MaxConfirms,  \* bound: confirmations altogether
  MaxFaults     \* bound: failed S3 deletes and crashed sweeps

\* Whatever has a storage key column.
Entity == Photo \cup Avatar \cup Document

ASSUME FileAssumption ==
  /\ NoFile \notin File
  /\ Sizes \subseteq {"right", "wrong"}
  /\ MaxConfirms \in Nat /\ MaxFaults \in Nat

VARIABLES
  file,        \* stored_files: status and age
  object,      \* S3: nothing, or an object of the right or the wrong size
  link,        \* the storage key column of each entity
  confirm,     \* what each confirmation has read
  sweep,       \* what each sweep has read
  confirms,    \* confirmations so far
  faults,      \* faults so far
  keptEarly,   \* history: files completed within a day of their presign
  rewritten,   \* history: files uploaded twice within the life of their URL
  stuck        \* history: files whose object no sweep will come back for

fileVars ==
  <<file, object, link, confirm, sweep, confirms, faults, keptEarly, rewritten, stuck>>

\* Within the five minutes of the URL; older; older than the 24 hours of the purge.
Age == {"fresh", "expired", "old"}

FileRow  == [status: {"none", "pending", "completed", "deleted"}, age: Age]
NotBegun == [pc |-> "idle"]

ConfirmType ==
  {NotBegun}
    \cup [pc: {"file", "head", "complete", "discard", "replace", "link"},
          entity: Entity, file: File, old: File \cup {NoFile}]

FilesInit ==
  /\ file = [f \in File |-> [status |-> "none", age |-> "fresh"]]
  /\ object = [f \in File |-> "none"]
  /\ link = [x \in Entity |-> NoFile]
  /\ confirm = [c \in ConfirmCall |-> NotBegun]
  /\ sweep = [w \in Sweeper |-> [pc |-> "idle", rows |-> {}, gone |-> {}]]
  /\ confirms = 0 /\ faults = 0
  /\ keptEarly = {} /\ rewritten = {} /\ stuck = {}

-----------------------------------------------------------------------------
\* presignUpload: the pending row; size and type rules refuse a call or not.
Presign(f) ==
  /\ file[f].status = "none"
  /\ file' = [file EXCEPT ![f].status = "pending"]
  /\ UNCHANGED <<object, link, confirm, sweep, confirms, faults, keptEarly, rewritten, stuck>>

\* The client PUTs to the presigned URL, more than once if it likes.
Upload(f) ==
  /\ file[f].status # "none" /\ file[f].age = "fresh"
  /\ \E z \in Sizes : object[f] # z /\ object' = [object EXCEPT ![f] = z]
  /\ rewritten' = IF object[f] = "none" THEN rewritten ELSE rewritten \cup {f}
  /\ UNCHANGED <<file, link, confirm, sweep, confirms, faults, keptEarly, stuck>>

Grow(f) ==
  /\ file[f].status # "none" /\ file[f].age # "old"
  /\ file' = [file EXCEPT ![f].age = IF @ = "fresh" THEN "expired" ELSE "old"]
  /\ UNCHANGED <<object, link, confirm, sweep, confirms, faults, keptEarly, rewritten, stuck>>

-----------------------------------------------------------------------------
Step(c, pc)  == confirm' = [confirm EXCEPT ![c].pc = pc]
Leave(c)     == confirm' = [confirm EXCEPT ![c] = NotBegun]

\* The entity and the file it has.  Any file of the caller will do: the link to
\* an entity that it was presigned for is not compared.
ConfirmBegin(c, X) ==
  /\ confirm[c] = NotBegun
  /\ confirms < MaxConfirms /\ confirms' = confirms + 1
  /\ \E x \in X, f \in File :
       /\ file[f].status # "none"
       /\ confirm' = [confirm EXCEPT ![c] =
                        [pc |-> "file", entity |-> x, file |-> f, old |-> link[x]]]
  /\ UNCHANGED <<file, object, link, sweep, faults, keptEarly, rewritten, stuck>>

ConfirmPhoto(c) == ConfirmBegin(c, Photo)

ConfirmAvatar(c) == ConfirmBegin(c, Avatar)

ConfirmLeaveDocument(c) == ConfirmBegin(c, Document)

\* confirmUpload: the row.  Completed is an answer, deleted an error.
ConfirmFile(c) ==
  /\ confirm[c].pc = "file"
  /\ LET st == file[confirm[c].file].status
     IN  \/ st = "pending" /\ Step(c, "head")
         \/ st = "completed" /\ Step(c, "replace")
         \/ st = "deleted" /\ Leave(c)
  /\ UNCHANGED <<file, object, link, sweep, confirms, faults, keptEarly, rewritten, stuck>>

\* Mutant: an object that cannot be found counts as uploaded.
ConfirmHeadTrusting(c) ==
  /\ confirm[c].pc = "head"
  /\ IF object[confirm[c].file] = "wrong" THEN Step(c, "discard") ELSE Step(c, "complete")
  /\ UNCHANGED <<file, object, link, sweep, confirms, faults, keptEarly, rewritten, stuck>>

\* confirmUpload: HeadObject; a failure counts as "not uploaded".
ConfirmHead(c) ==
  /\ confirm[c].pc = "head"
  /\ LET o == object[confirm[c].file]
     IN  \/ o = "right" /\ Step(c, "complete")
         \/ o = "wrong" /\ Step(c, "discard")
         \/ Leave(c)
  /\ UNCHANGED <<file, object, link, sweep, confirms, faults, keptEarly, rewritten, stuck>>

\* Mutant: a status that the enum of the column does not have.
ConfirmCompleteBadEnum(c) ==
  LET f == confirm[c].file
  IN /\ confirm[c].pc = "complete"
     /\ file' = [file EXCEPT ![f].status = "confirmed"]
     /\ Step(c, "replace")
     /\ UNCHANGED <<object, link, sweep, confirms, faults, keptEarly, rewritten, stuck>>

\* confirmUpload: UPDATE ... WHERE id, whatever the status has become.
ConfirmComplete(c) ==
  LET f == confirm[c].file
  IN /\ confirm[c].pc = "complete"
     /\ file' = [file EXCEPT ![f].status = "completed"]
     /\ keptEarly' = IF file[f].age = "old" THEN keptEarly ELSE keptEarly \cup {f}
     /\ Step(c, "replace")
     /\ UNCHANGED <<object, link, sweep, confirms, faults, rewritten, stuck>>

\* confirmUpload: a size mismatch marks the row deleted; the sweep, which only
\* looks at pending rows, does not come back for the object.
ConfirmDiscard(c) ==
  LET f == confirm[c].file
  IN /\ confirm[c].pc = "discard"
     /\ file' = [file EXCEPT ![f].status = "deleted"]
     /\ stuck' = stuck \cup {f}
     /\ Leave(c)
     /\ UNCHANGED <<object, link, sweep, confirms, faults, keptEarly, rewritten>>

\* findById(<key>) fails when there is a file to replace, and the request with it.
ConfirmReplace(c) ==
  /\ confirm[c].pc = "replace"
  /\ IF confirm[c].old = NoFile THEN Step(c, "link") ELSE Leave(c)
  /\ UNCHANGED <<file, object, link, sweep, confirms, faults, keptEarly, rewritten, stuck>>

\* updatePhoto, updateLeaveDocument
ConfirmLink(c) ==
  /\ confirm[c].pc = "link"
  /\ link' = [link EXCEPT ![confirm[c].entity] = confirm[c].file]
  /\ Leave(c)
  /\ UNCHANGED <<file, object, sweep, confirms, faults, keptEarly, rewritten, stuck>>

-----------------------------------------------------------------------------
Old(f) == file[f].status = "pending" /\ file[f].age = "old"

\* Mutant: the cutoff is computed the wrong way round.
SweepReadNone(w) ==
  LET rows == {f \in File : file[f].status = "pending" /\ file[f].age = "none"}
  IN /\ sweep[w].pc = "idle" /\ rows # {}
     /\ sweep' = [sweep EXCEPT ![w] = [pc |-> "delete", rows |-> rows, gone |-> {}]]
     /\ UNCHANGED <<file, object, link, confirm, confirms, faults, keptEarly, rewritten, stuck>>

\* purgeOrphanedUploads: the pending rows older than the cutoff, once there are any
SweepRead(w) ==
  LET rows == {f \in File : Old(f)}
  IN /\ sweep[w].pc = "idle" /\ rows # {}
     /\ sweep' = [sweep EXCEPT ![w] = [pc |-> "delete", rows |-> rows, gone |-> {}]]
     /\ UNCHANGED <<file, object, link, confirm, confirms, faults, keptEarly, rewritten, stuck>>

\* Each S3 delete succeeds or its error is logged; allSettled waits for all.
SweepObject(w, f) ==
  /\ sweep[w].pc = "delete" /\ f \in sweep[w].rows \ sweep[w].gone
  /\ sweep' = [sweep EXCEPT ![w].gone = @ \cup {f}]
  /\ \/ object' = [object EXCEPT ![f] = "none"] /\ UNCHANGED <<faults, stuck>>
     \/ /\ faults < MaxFaults /\ faults' = faults + 1
        /\ stuck' = stuck \cup {f} /\ UNCHANGED object
  /\ UNCHANGED <<file, link, confirm, confirms, keptEarly, rewritten>>

\* Mutant: the UPDATE goes by the ids that were read.
SweepUpdateById(w) ==
  /\ sweep[w].pc = "delete" /\ sweep[w].gone = sweep[w].rows
  /\ file' = [f \in File |-> IF f \in sweep[w].rows
                             THEN [file[f] EXCEPT !.status = "deleted"] ELSE file[f]]
  /\ sweep' = [sweep EXCEPT ![w] = [pc |-> "idle", rows |-> {}, gone |-> {}]]
  /\ UNCHANGED <<object, link, confirm, confirms, faults, keptEarly, rewritten, stuck>>

\* Mutant: the rows are updated without waiting for the S3 deletes.
SweepUpdateEarly(w) ==
  /\ sweep[w].pc = "delete"
  /\ file' = [f \in File |-> IF f \in sweep[w].rows /\ Old(f)
                             THEN [file[f] EXCEPT !.status = "deleted"] ELSE file[f]]
  /\ sweep' = [sweep EXCEPT ![w] = [pc |-> "idle", rows |-> {}, gone |-> {}]]
  /\ UNCHANGED <<object, link, confirm, confirms, faults, keptEarly, rewritten, stuck>>

\* The UPDATE repeats the WHERE: a row confirmed since stays completed.
SweepUpdate(w) ==
  /\ sweep[w].pc = "delete" /\ sweep[w].gone = sweep[w].rows
  /\ file' = [f \in File |-> IF f \in sweep[w].rows /\ Old(f)
                             THEN [file[f] EXCEPT !.status = "deleted"] ELSE file[f]]
  /\ sweep' = [sweep EXCEPT ![w] = [pc |-> "idle", rows |-> {}, gone |-> {}]]
  /\ UNCHANGED <<object, link, confirm, confirms, faults, keptEarly, rewritten, stuck>>

\* The worker dies, or the UPDATE fails: the rows are still pending.
SweepCrash(w) ==
  /\ sweep[w].pc = "delete"
  /\ faults < MaxFaults /\ faults' = faults + 1
  /\ sweep' = [sweep EXCEPT ![w] = [pc |-> "idle", rows |-> {}, gone |-> {}]]
  /\ UNCHANGED <<file, object, link, confirm, confirms, keptEarly, rewritten, stuck>>

ConfirmStep(c) ==
  \/ ConfirmPhoto(c) \/ ConfirmAvatar(c) \/ ConfirmLeaveDocument(c)
  \/ ConfirmFile(c) \/ ConfirmHead(c) \/ ConfirmComplete(c)
  \/ ConfirmDiscard(c) \/ ConfirmReplace(c) \/ ConfirmLink(c)

SweepGoesOn(w) ==
  SweepRead(w) \/ (\E f \in File : SweepObject(w, f)) \/ SweepUpdate(w)

FilesNext ==
  \/ \E f \in File : Presign(f) \/ Upload(f) \/ Grow(f)
  \/ \E c \in ConfirmCall : ConfirmStep(c)
  \/ \E w \in Sweeper : SweepGoesOn(w) \/ SweepCrash(w)

FilesSpec == FilesInit /\ [][FilesNext]_fileVars

\* Time passes, and the interval keeps firing in every worker.
FilesFairness ==
  /\ \A f \in File : WF_fileVars(Grow(f))
  /\ \A w \in Sweeper : WF_fileVars(SweepGoesOn(w))

-----------------------------------------------------------------------------
\* The shapes of the row, the bucket and the requests (storage.types.ts).
FilesTypeOK ==
  /\ file \in [File -> FileRow]
  /\ object \in [File -> {"none"} \cup Sizes]
  /\ link \in [Entity -> File \cup {NoFile}]
  /\ confirm \in [ConfirmCall -> ConfirmType]
  /\ sweep \in [Sweeper -> [pc: {"idle", "delete"}, rows: SUBSET File, gone: SUBSET File]]
  /\ confirms \in Nat /\ faults \in Nat
  /\ keptEarly \subseteq File /\ rewritten \subseteq File /\ stuck \subseteq File

\* The purge reads rows, deletes objects and updates rows one after the other.
\* It never takes the object of a file that was completed within a day of its
\* presign (storage-cleanup.cron.ts:16): only one confirmed later than that can
\* end up completed without its object.
EarlyFilesKeepObject ==
  \A f \in keptEarly : object[f] # "none"

\* A linked file is completed and stays so, unless its client uploaded twice
\* and two confirmations saw the two objects (storage.service.ts:164-177).
LinkedIsCompleted ==
  \A x \in Entity :
    link[x] # NoFile => file[link[x]].status = "completed" \/ link[x] \in rewritten

\* A deleted row leaves an object behind only after a size mismatch or a failed
\* S3 delete, which the next sweep does not retry although the cron's comment
\* says so (storage-cleanup.cron.ts:21).
LeakHasCause ==
  \A f \in File :
    file[f].status = "deleted" /\ object[f] # "none" => f \in stuck

\* Rows, links and objects agree as far as StorageService can make them, with
\* no transaction over the three of them.
FileBooks == EarlyFilesKeepObject /\ LinkedIsCompleted /\ LeakHasCause

\* Every upload that nobody confirms is swept in the end, through failed deletes
\* and crashed workers (storage.service.ts:228).
OrphansAreSwept ==
  \A f \in File : file[f].status = "pending" ~> file[f].status # "pending"
=============================================================================
