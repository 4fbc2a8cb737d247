---------------------------- MODULE EvidenceFile ----------------------------
(***************************************************************************)
(* One technician evidence file, from the upload intent to the published   *)
(* photo: the routes of apps/api/src/routes/ops/evidenceFiles.ts, the      *)
(* finaliser and the sweep of                                              *)
(* apps/worker/src/processors/evidenceFinalize.ts.                         *)
(*                                                                         *)
(* Two stores that share no transaction: rows in PostgreSQL (the file and  *)
(* its three copies) and objects in the bucket.  Finalise jobs overlap:    *)
(* a job id only collapses requests of one five-minute bucket.  An action  *)
(* is the code between two awaits that touch shared state.                 *)
(***************************************************************************)
EXTENDS Naturals, FiniteSets

CONSTANTS
    Jobs,         \* evidence-finalize jobs that may be queued for the file
    Sweeper,      \* the evidence-sweep job (one at a time)
    MaxAttempts,  \* attempts BullMQ gives a finalise job
    MaxFaults,    \* bound: calls that fail and processes that die in a behaviour
    Uploads,      \* what the technician's device may send: "good", "bad"
    Env           \* kinds of surrounding events the instance enables

EnvKinds == {"standing", "cancel", "crash", "fault"}

ASSUME ConstantsAssumption ==
    /\ Sweeper \notin Jobs
    /\ MaxAttempts \in Nat \ {0}
    /\ MaxFaults \in Nat
    /\ Uploads \subseteq {"good", "bad"}
    /\ Env \subseteq EnvKinds

\* The copies of a file: the raw upload, the published photo, its thumbnail.
Locations == {"upload", "primary", "thumb"}
Published == {"primary", "thumb"}

VARIABLES
    \* rows of the database
    status,     \* EvidenceFile.status
    copy,       \* EvidenceFileCopy.status per location
    eligible,   \* the job is ACTIVE, the technician assigned to it and active
    old,        \* the file is PENDING since before the abandonment cut-off
    \* the bucket
    object,     \* object stored at each location's key
    urlLive,    \* a signed PUT URL of the file has not expired
    \* workers
    pc,         \* where each finalise job and the sweep stand
    attempt,    \* attempt a finalise job is in
    todo,       \* locations a worker still has to delete
    \* for the properties and bounds only
    faults,     \* failed calls and deaths so far
    withdrawn   \* some time after the upload began the job was closed or the technician withdrawn

dbVars     == <<status, copy, eligible, old>>
bucketVars == <<object, urlLive>>
workerVars == <<pc, attempt, todo>>
ghostVars  == <<faults, withdrawn>>
vars       == <<dbVars, bucketVars, workerVars, ghostVars>>

Workers == Jobs \cup {Sweeper}
Final   == {"AVAILABLE", "REJECTED"}

\* Program points.  A finalise job: none -> queued -> ... -> done.
Committing == {"commit", "commitThumb"}
Finalising == {"check", "fetch", "publish", "verify", "thumb", "lost"} \cup Committing
Deleting   == {"undoLate", "undoLost", "purge"}
JobPoints  == {"none", "queued", "reject", "done"} \cup Finalising \cup Deleting
SweepPoints == {"idle", "reject", "purge", "leftovers", "purgeLeft", "lateUploads"}

TypeOK ==
    /\ status \in {"NONE", "PENDING"} \cup Final
    /\ copy \in [Locations -> {"NONE", "PENDING", "VERIFIED", "DELETED"}]
    /\ eligible \in BOOLEAN
    /\ old \in BOOLEAN
    /\ object \in [Locations -> {"none", "good", "bad"}]
    /\ urlLive \in BOOLEAN
    /\ pc \in [Workers -> JobPoints \cup SweepPoints]
    /\ \A j \in Jobs : pc[j] \in JobPoints
    /\ pc[Sweeper] \in SweepPoints
    /\ attempt \in [Jobs -> 1 .. MaxAttempts]
    /\ todo \in [Workers -> SUBSET Locations]
    /\ faults \in Nat
    /\ withdrawn \in BOOLEAN

Init ==
    /\ status = "NONE"
    /\ copy = [l \in Locations |-> "NONE"]
    /\ eligible = TRUE
    /\ old = FALSE
    /\ object = [l \in Locations |-> "none"]
    /\ urlLive = FALSE
    /\ pc = [w \in Workers |-> IF w = Sweeper THEN "idle" ELSE "none"]
    /\ attempt = [j \in Jobs |-> 1]
    /\ todo = [w \in Workers |-> {}]
    /\ faults = 0
    /\ withdrawn = FALSE

\* A storage or database call may fail, a process may die.
MayFail == "fault" \in Env /\ faults < MaxFaults
MayDie  == "crash" \in Env /\ faults < MaxFaults

Goto(w, p) == pc' = [pc EXCEPT ![w] = p]

-----------------------------------------------------------------------------
(* The technician's device and the API. *)

\* POST files/init for a new submission: the file and its copies are recorded
\* under the Job lock and a PUT URL is signed.
InitUpload ==
    /\ status = "NONE"
    /\ eligible
    /\ status' = "PENDING"
    /\ copy' = [l \in Locations |-> "PENDING"]
    /\ urlLive' = TRUE
    /\ UNCHANGED <<eligible, old, object, workerVars, ghostVars>>

\* POST files/init again for the same submission: a fresh URL while PENDING.
ResumeUpload ==
    /\ status = "PENDING"
    /\ eligible
    /\ ~urlLive
    /\ urlLive' = TRUE
    /\ UNCHANGED <<dbVars, object, workerVars, ghostVars>>

\* The device PUTs to the signed URL, also after the file was closed.  It
\* sends the photo it started with.
PutUpload(u) ==
    /\ urlLive
    /\ object["upload"] \in {"none", u}
    /\ object' = [object EXCEPT !["upload"] = u]
    /\ UNCHANGED <<dbVars, urlLive, workerVars, ghostVars>>

\* POST complete: the upload is there, so a finalise job is queued.
Complete(j) ==
    /\ status = "PENDING"
    /\ eligible
    /\ object["upload"] # "none"
    /\ pc[j] = "none"
    /\ Goto(j, "queued")
    /\ UNCHANGED <<dbVars, bucketVars, attempt, todo, ghostVars>>

\* DELETE files/:fileId: compare-and-set; the API deletes no object.  The
\* technician must be assigned, but the job need not be active.
CancelUpload ==
    /\ "cancel" \in Env
    /\ status = "PENDING"
    /\ status' = "REJECTED"
    /\ UNCHANGED <<copy, eligible, old, bucketVars, workerVars, ghostVars>>

\* Job closeout or revocation of the assignment, both serialised by the Job
\* row; reopening the job and assigning the technician again.
ChangeStanding ==
    /\ "standing" \in Env
    /\ eligible' = ~eligible
    /\ withdrawn' = (withdrawn \/ (status # "NONE" /\ eligible))
    /\ UNCHANGED <<status, copy, old, bucketVars, workerVars, faults>>

\* The signed URL runs out; the file passes the abandonment cut-off.
ExpireUrl ==
    /\ urlLive
    /\ urlLive' = FALSE
    /\ UNCHANGED <<dbVars, object, workerVars, ghostVars>>

Age ==
    /\ status = "PENDING"
    /\ ~old
    /\ old' = TRUE
    /\ UNCHANGED <<status, copy, eligible, bucketVars, workerVars, ghostVars>>

-----------------------------------------------------------------------------
(* A finalise job. *)

\* loadFile: only a PENDING file is worked on.
LoadFile(j) ==
    /\ pc[j] = "queued"
    /\ Goto(j, IF status = "PENDING" THEN "check" ELSE "done")
    /\ UNCHANGED <<dbVars, bucketVars, attempt, todo, ghostVars>>

\* Step 1: still allowed to proceed?
CheckEligibility(j) ==
    /\ pc[j] = "check"
    /\ Goto(j, IF eligible THEN "fetch" ELSE "reject")
    /\ UNCHANGED <<dbVars, bucketVars, attempt, todo, ghostVars>>

\* Steps 2 and 3: read the staged object and validate it.  A missing or
\* unusable one rejects the file.
FetchUpload(j) ==
    /\ pc[j] = "fetch"
    /\ Goto(j, IF object["upload"] = "good" THEN "publish" ELSE "reject")
    /\ UNCHANGED <<dbVars, bucketVars, attempt, todo, ghostVars>>

\* Step 4: put the sanitised photo at the primary key.
PublishPrimary(j) ==
    /\ pc[j] = "publish"
    /\ object' = [object EXCEPT !["primary"] = "good"]
    /\ Goto(j, "verify")
    /\ UNCHANGED <<dbVars, urlLive, attempt, todo, ghostVars>>

\* Where a throw inside run() leads: another attempt, or rejection.
AfterThrow(j) ==
    IF attempt[j] < MaxAttempts
    THEN /\ attempt' = [attempt EXCEPT ![j] = @ + 1]
         /\ Goto(j, "queued")
    ELSE /\ Goto(j, "reject")
         /\ UNCHANGED attempt

\* The published object must be found, else the attempt fails.
VerifyPrimary(j) ==
    /\ pc[j] = "verify"
    /\ \/ /\ object["primary"] = "good"
          /\ Goto(j, "thumb")
          /\ UNCHANGED attempt
       \/ /\ object["primary"] = "none"
          /\ AfterThrow(j)
    /\ UNCHANGED <<dbVars, bucketVars, todo, ghostVars>>

\* Step 4b: the thumbnail, best effort; "commitThumb" when it was found stored.
PublishThumb(j) ==
    /\ pc[j] = "thumb"
    /\ \/ /\ object' = [object EXCEPT !["thumb"] = "good"]
          /\ \E p \in Committing : Goto(j, p)
       \/ /\ Goto(j, "commit")
          /\ UNCHANGED object
    /\ UNCHANGED <<dbVars, urlLive, attempt, todo, ghostVars>>

\* Step 5: under the Job lock, eligibility again and PENDING -> AVAILABLE by
\* compare-and-set, with the copies VERIFIED.
Commit(j) ==
    /\ pc[j] \in Committing
    /\ \/ /\ ~eligible
          /\ todo' = [todo EXCEPT ![j] = Published]
          /\ Goto(j, "undoLate")
          /\ UNCHANGED <<status, copy>>
       \/ /\ eligible
          /\ status # "PENDING"
          /\ Goto(j, "lost")
          /\ UNCHANGED <<status, copy, todo>>
       \/ /\ eligible
          /\ status = "PENDING"
          /\ status' = "AVAILABLE"
          /\ copy' = [copy EXCEPT !["primary"] = "VERIFIED",
                                  !["thumb"] = IF pc[j] = "commitThumb" THEN "VERIFIED" ELSE @]
          /\ todo' = [todo EXCEPT ![j] = {"upload"}]
          /\ Goto(j, "purge")
    /\ UNCHANGED <<eligible, old, bucketVars, attempt, ghostVars>>

\* Mutant: the loser removes what it published whoever won.
Lost_DeletesAlways(j) ==
    /\ pc[j] = "lost"
    /\ todo' = [todo EXCEPT ![j] = Published]
    /\ Goto(j, "undoLost")
    /\ UNCHANGED <<dbVars, bucketVars, attempt, ghostVars>>

\* The compare-and-set failed: unless the file is AVAILABLE the published
\* objects have no owner.
Lost(j) ==
    /\ pc[j] = "lost"
    /\ \/ /\ status = "AVAILABLE"
          /\ Goto(j, "done")
          /\ UNCHANGED todo
       \/ /\ status # "AVAILABLE"
          /\ todo' = [todo EXCEPT ![j] = Published]
          /\ Goto(j, "undoLost")
    /\ UNCHANGED <<dbVars, bucketVars, attempt, ghostVars>>

\* store.delete of the primary, then of the thumbnail; errors are swallowed.
\* A late finaliser goes on to reject the file, a loser is done.
Undo(j) ==
    /\ pc[j] \in {"undoLate", "undoLost"}
    /\ \E l \in todo[j] :
          /\ l = "primary" \/ "primary" \notin todo[j]
          /\ \/ object' = [object EXCEPT ![l] = "none"] /\ UNCHANGED faults
             \/ MayFail /\ faults' = faults + 1 /\ UNCHANGED object
          /\ todo' = [todo EXCEPT ![j] = @ \ {l}]
          /\ Goto(j, IF todo[j] # {l} THEN pc[j]
                     ELSE IF pc[j] = "undoLate" THEN "reject" ELSE "done")
    /\ UNCHANGED <<dbVars, urlLive, attempt, withdrawn>>

-----------------------------------------------------------------------------
(* rejectFile and purgeCopies, of a finaliser or of the sweep. *)

\* Where a worker stands once it has no copy left to purge.
AfterPurge(w) ==
    IF w # Sweeper THEN "done" ELSE IF pc[w] = "purgeLeft" THEN "lateUploads" ELSE "leftovers"

\* Mutant: the file is marked REJECTED without the compare-and-set.
Reject_NoCompareAndSet(w) ==
    /\ pc[w] = "reject"
    /\ status' = "REJECTED"
    /\ todo' = [todo EXCEPT ![w] = Locations]
    /\ Goto(w, "purge")
    /\ UNCHANGED <<copy, eligible, old, bucketVars, attempt, ghostVars>>

\* PENDING -> REJECTED by compare-and-set; only the winner purges.
Reject(w) ==
    /\ pc[w] = "reject"
    /\ \/ /\ status = "PENDING"
          /\ status' = "REJECTED"
          /\ todo' = [todo EXCEPT ![w] = Locations]
          /\ Goto(w, "purge")
       \/ /\ status # "PENDING"
          /\ Goto(w, AfterPurge(w))
          /\ UNCHANGED <<status, todo>>
    /\ UNCHANGED <<copy, eligible, old, bucketVars, attempt, ghostVars>>

\* One copy: its object is deleted, then the copy marked DELETED.  When either
\* call fails the copy is left for a later sweep.
Purge(w) ==
    /\ pc[w] \in {"purge", "purgeLeft"}
    /\ \E l \in todo[w] :
          /\ \/ /\ object' = [object EXCEPT ![l] = "none"]
                /\ copy' = [copy EXCEPT ![l] = "DELETED"]
                /\ UNCHANGED faults
             \/ /\ MayFail
                /\ faults' = faults + 1
                /\ object' \in {object, [object EXCEPT ![l] = "none"]}
                /\ UNCHANGED copy
          /\ todo' = [todo EXCEPT ![w] = @ \ {l}]
          /\ Goto(w, IF todo[w] = {l} THEN AfterPurge(w) ELSE pc[w])
    /\ UNCHANGED <<status, eligible, old, urlLive, attempt, withdrawn>>

-----------------------------------------------------------------------------
(* sweepAbandonedEvidenceUploads *)

\* Mutant: the sweep does not look at PENDING files.
SweepStart_NoAbandoned ==
    /\ pc[Sweeper] = "idle"
    /\ Goto(Sweeper, "leftovers")
    /\ UNCHANGED <<dbVars, bucketVars, attempt, todo, ghostVars>>

\* A PENDING file past the cut-off is to be rejected as abandoned.
SweepStart ==
    /\ pc[Sweeper] = "idle"
    /\ Goto(Sweeper, IF status = "PENDING" /\ old THEN "reject" ELSE "leftovers")
    /\ UNCHANGED <<dbVars, bucketVars, attempt, todo, ghostVars>>

\* Mutant: the raw upload of an AVAILABLE file is not looked for.
Leftovers_RejectedOnly ==
    {l \in Locations : status = "REJECTED" /\ copy[l] # "DELETED"}

\* Copies still stored of a REJECTED file, and the raw upload of an AVAILABLE one.
Leftovers ==
    {l \in Locations : /\ copy[l] # "DELETED"
                       /\ \/ status = "REJECTED"
                          \/ status = "AVAILABLE" /\ l = "upload"}

SweepLeftovers ==
    /\ pc[Sweeper] = "leftovers"
    /\ todo' = [todo EXCEPT ![Sweeper] = Leftovers]
    /\ Goto(Sweeper, IF Leftovers = {} THEN "lateUploads" ELSE "purgeLeft")
    /\ UNCHANGED <<dbVars, bucketVars, attempt, ghostVars>>

\* The raw key of a closed upload is deleted once more when its URL has run
\* out.  A failure is logged and left to the next sweep.
SweepLateUploads ==
    /\ pc[Sweeper] = "lateUploads"
    /\ IF copy["upload"] = "DELETED" /\ ~urlLive
       THEN \/ object' = [object EXCEPT !["upload"] = "none"] /\ UNCHANGED faults
            \/ MayFail /\ faults' = faults + 1 /\ UNCHANGED object
       ELSE UNCHANGED <<object, faults>>
    /\ Goto(Sweeper, "idle")
    /\ UNCHANGED <<dbVars, urlLive, attempt, todo, withdrawn>>

-----------------------------------------------------------------------------
(* Failures. *)

\* A call throws: inside run() the job gets another attempt or, after the
\* last one, rejects the file.  A failed loadFile is outside the catch.  When
\* rejectFile fails in the last attempt the catch calls it once more; if that
\* fails too, the job has failed.
Throw(j) ==
    /\ MayFail
    /\ faults' = faults + 1
    /\ \/ /\ pc[j] \in Finalising
          /\ AfterThrow(j)
       \/ /\ pc[j] \in {"queued", "reject"}
          /\ attempt[j] < MaxAttempts
          /\ AfterThrow(j)
       \/ /\ pc[j] \in {"queued", "reject"}
          /\ attempt[j] = MaxAttempts
          /\ \/ Goto(j, "done")
             \/ pc[j] = "reject" /\ UNCHANGED pc
          /\ UNCHANGED attempt
    /\ UNCHANGED <<dbVars, bucketVars, todo, withdrawn>>

\* The worker process dies.  Its finalise job is delivered again or given up
\* as stalled; a sweep that dies, or one of whose queries fails, is repeated
\* by its schedule.
Crash(w) ==
    /\ MayDie
    /\ faults' = faults + 1
    /\ pc[w] \notin {"none", "queued", "done", "idle"}
    /\ \/ w \in Jobs /\ pc' \in {[pc EXCEPT ![w] = p] : p \in {"queued", "done"}}
       \/ w = Sweeper /\ Goto(w, "idle")
    /\ todo' = [todo EXCEPT ![w] = {}]
    /\ UNCHANGED <<dbVars, bucketVars, attempt, withdrawn>>

-----------------------------------------------------------------------------
Finalise(j) ==
    \/ LoadFile(j) \/ CheckEligibility(j) \/ FetchUpload(j)
    \/ PublishPrimary(j) \/ VerifyPrimary(j) \/ PublishThumb(j)
    \/ Commit(j) \/ Lost(j) \/ Undo(j) \/ Reject(j) \/ Purge(j)

Sweep ==
    \/ SweepStart \/ Reject(Sweeper) \/ Purge(Sweeper)
    \/ SweepLeftovers \/ SweepLateUploads

Next ==
    \/ InitUpload \/ ResumeUpload \/ CancelUpload
    \/ \E u \in Uploads : PutUpload(u)
    \/ \E j \in Jobs : Complete(j) \/ Finalise(j) \/ Throw(j)
    \/ ChangeStanding \/ ExpireUrl \/ Age
    \/ Sweep
    \/ \E w \in Workers : Crash(w)

Spec == Init /\ [][Next]_vars

(* Time passes, the sweep is scheduled for ever (every 15 minutes), and a  *)
(* finaliser's awaits end.  Technicians, managers and failures get nothing.*)
FairSpec ==
    /\ Spec
    /\ WF_vars(ExpireUrl)
    /\ WF_vars(Age)
    /\ WF_vars(Sweep)
    /\ \A j \in Jobs : WF_vars(Finalise(j))

-----------------------------------------------------------------------------
(* Properties *)

\* A photo the gallery may hand out is in the bucket.
VerifiedIsStored ==
    \A l \in Locations : copy[l] = "VERIFIED" => object[l] = "good"

\* As long as nobody lost the right to the file, a copy marked VERIFIED has
\* its object: no retry, loser, rejection or sweep deletes what another
\* finaliser made available.
VerifiedIsStoredWhileEligible == ~withdrawn => VerifiedIsStored

\* Why: only copies of an AVAILABLE file are VERIFIED, ...
OnlyAvailableVerified ==
    \A l \in Locations : copy[l] = "VERIFIED" => status = "AVAILABLE" /\ l # "upload"

\* ... who deletes published objects does so for a REJECTED file or after the
\* technician was stopped, ...
DeletersEntitled ==
    /\ ~eligible /\ status # "NONE" => withdrawn
    /\ \A w \in Workers : pc[w] \in {"purge", "purgeLeft"} =>
          /\ status \in Final
          /\ status = "AVAILABLE" => todo[w] \subseteq {"upload"}
    /\ \A j \in Jobs :
          /\ pc[j] # "none" => status # "NONE"
          /\ pc[j] = "lost" => status \in Final
          /\ pc[j] = "undoLost" => status = "REJECTED"
          /\ pc[j] = "undoLate" => withdrawn

\* ... and what a finaliser is about to commit is stored until the file is
\* rejected.
PublishedStaysStored ==
    ~withdrawn /\ status # "REJECTED" =>
        \A j \in Jobs :
            /\ pc[j] \in {"thumb"} \cup Committing => object["primary"] = "good"
            /\ pc[j] = "commitThumb" => object["thumb"] = "good"

StoredInv ==
    /\ OnlyAvailableVerified
    /\ DeletersEntitled
    /\ PublishedStaysStored
    /\ VerifiedIsStoredWhileEligible

\* A file that was finalised stays finalised and one that was rejected or
\* cancelled stays rejected, whoever works on it late.
FinalStatusKept == [][status \notin Final]_status

\* The raw upload (with the location data of the camera) of a closed file is
\* finally gone, crashes and late PUTs notwithstanding.
RawUploadGone == [](status \in Final => <>[](object["upload"] = "none"))

\* No file stays PENDING for ever, whatever becomes of its finalisers.
PendingSettles == status = "PENDING" ~> status \in Final

=============================================================================
