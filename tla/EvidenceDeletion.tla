-------------------------- MODULE EvidenceDeletion --------------------------
(***************************************************************************)
(* The controlled deletion of one published evidence file:                 *)
(* the deletion runner (apps/worker/src/processors/evidenceDeletion.ts),   *)
(* the owners' requests and legal holds (ops/evidenceGovernance.ts), the   *)
(* backup of the photo (evidenceBackup.ts) and the repair of the primary   *)
(* from it (evidenceRestore.ts).                                           *)
(*                                                                         *)
(* Three stores share no transaction: the rows of PostgreSQL, the objects  *)
(* of the primary and the backup bucket, and the append-only ledger kept   *)
(* outside the database.  The database may be restored from an older       *)
(* backup; the processes are stopped for that.  What the governance lock   *)
(* covers is one action; elsewhere an action is the code between two       *)
(* awaits that touch shared state.                                         *)
(***************************************************************************)
EXTENDS Naturals, FiniteSets

CONSTANTS
    Holds,      \* legal holds that may be placed on the file's job or workspace
    Env,        \* kinds of surrounding events the instance enables
    MaxRequests,\* bound: deletion requests for the file
    MaxFaults,  \* bound: failing calls and dying processes
    MaxRestores \* bound: restores of an older database

EnvKinds == {"hold", "unledgered", "expire", "retain", "close", "backup", "crash", "fault", "restore"}

ASSUME ConstantsAssumption ==
    /\ MaxRequests \in Nat
    /\ MaxFaults \in Nat
    /\ MaxRestores \in Nat
    /\ Env \subseteq EnvKinds

Buckets == {"primary", "backup"}

\* The ledger's entries about the file and about the holds.
Requests    == 1 .. MaxRequests
Started(r)  == <<"FILE_DELETION_STARTED", r>>
Completed   == <<"FILE_DELETION_COMPLETED">>
Placed(h)   == <<"HOLD_PLACED", h>>
Released(h) == <<"HOLD_RELEASED", h>>
Entries == {Completed} \cup {Started(r) : r \in Requests}
             \cup {Placed(h) : h \in Holds} \cup {Released(h) : h \in Holds}

VARIABLES
    \* rows of the database
    status,    \* EvidenceFile.status; "GONE" when an older database lacks the row
    copy,      \* EvidenceFileCopy.status of the backup copy; "NONE" without a row
    rid,       \* the newest deletion request, 0 without one
    req,       \* EvidenceDeletionRequest.status of that request
    approval,  \* where the clock stands in its approval: "wait", "due", "expired"
    hold,      \* LegalHold per hold: "none", "active", "released"
    older,     \* the database backup a restore would go back to
    \* outside the database
    object,    \* is the photo stored, per bucket
    ledger,    \* entries of the ledger
    retained,  \* is the retention period of the file still running
    \* processes
    pc,        \* the deletion runner
    saw,       \* what its reconciliation read: is the deletion completed, is there a row
    writing,   \* holds whose placement is in the ledger and not yet in the database
    releasing, \* holds whose release is in the database and not yet in the ledger
    bpc,       \* the evidence-backup job
    rpc,       \* the operator's repair of the primary from the backup
    \* counters and history
    issued,    \* requests made so far
    faults,    \* failing calls and deaths so far
    restores,  \* restores so far
    guarded,   \* history: unreleased holds that were durable before the deletion began
    overrun,   \* history: buckets emptied since a hold became active
    late       \* history: a copy was written for a file no longer AVAILABLE

rows      == <<status, copy, rid, req, approval, hold>>
apiVars   == <<writing, releasing, issued>>
runVars   == <<pc, saw>>
copyVars  == <<bpc, rpc>>
ghostVars == <<guarded, overrun, late>>
vars == <<rows, older, object, ledger, retained, runVars, apiVars, copyVars,
          faults, restores, ghostVars>>

FileStates == {"GONE", "AVAILABLE", "DELETING", "DELETED"}
CopyStates == {"NONE", "PENDING", "VERIFYING", "VERIFIED", "FAILED", "DELETED"}
ReqStates  == {"NONE", "REQUESTED", "APPROVED", "REJECTED", "CANCELLED", "EXECUTING", "COMPLETED"}
Points     == {"idle", "gate", "reconcile", "recheck", "recPrimary", "recBackup", "recComplete",
               "recFinish", "recClose", "recHolds", "select", "begin", "start", "checkPrimary",
               "delPrimary", "checkBackup", "delBackup", "complete", "finish"}

Database == [status : FileStates, copy : CopyStates, rid : 0 .. MaxRequests, req : ReqStates,
             approval : {"wait", "due", "expired"}, hold : [Holds -> {"none", "active", "released"}]]

Now == [status |-> status, copy |-> copy, rid |-> rid, req |-> req, approval |-> approval, hold |-> hold]

TypeOK ==
    /\ Now \in Database
    /\ older \in Database
    /\ object \in [Buckets -> BOOLEAN]
    /\ ledger \subseteq Entries
    /\ retained \in BOOLEAN
    /\ pc \in Points
    /\ saw \in [completed : BOOLEAN, row : BOOLEAN]
    /\ writing \subseteq Holds /\ releasing \subseteq Holds
    /\ bpc \in {"idle", "claim", "copy", "put", "readback", "verify"}
    /\ rpc \in {"idle", "staged", "promote"}
    /\ issued \in 0 .. MaxRequests /\ faults \in 0 .. MaxFaults /\ restores \in 0 .. MaxRestores
    /\ guarded \subseteq Holds
    /\ overrun \subseteq Buckets
    /\ late \in BOOLEAN

\* A file the finaliser published, with or without its backup copy; the newest
\* database backup is from before the file.
Init ==
    /\ status = "AVAILABLE" /\ copy \in {"NONE", "VERIFIED"} /\ rid = 0 /\ req = "NONE" /\ approval = "wait"
    /\ hold = [h \in Holds |-> "none"]
    /\ older = [status |-> "GONE", copy |-> "NONE", rid |-> 0, req |-> "NONE", approval |-> "wait", hold |-> hold]
    /\ object = [b \in Buckets |-> b = "primary" \/ copy = "VERIFIED"]
    /\ ledger = {}
    /\ retained = FALSE
    /\ pc = "idle" /\ saw = [completed |-> FALSE, row |-> FALSE]
    /\ writing = {} /\ releasing = {}
    /\ bpc = "idle" /\ rpc = "idle"
    /\ issued = 0 /\ faults = 0 /\ restores = 0
    /\ guarded = {} /\ overrun = {} /\ late = FALSE

MayFail == "fault" \in Env /\ faults < MaxFaults
MayDie  == "crash" \in Env /\ faults < MaxFaults

\* countActiveHolds: holds on the workspace or the job, not released.
Held == \E h \in Holds : hold[h] = "active"

\* The ledger has a deletion started, of whatever request.
Begun == \E r \in Requests : Started(r) \in ledger

\* History: holds that become durable while nothing was begun guard the file.
Guard(new) == IF status = "AVAILABLE" /\ ~Begun THEN guarded \cup new ELSE guarded

-----------------------------------------------------------------------------
(* The owners: legal holds. *)

\* Ids are never used again.
Unused(h) == hold[h] = "none" /\ {Placed(h), Released(h)} \cap ledger = {}

\* POST holds, first half: the placement is appended to the ledger.
AppendHold(h) ==
    /\ "hold" \in Env
    /\ Unused(h)
    /\ ledger' = ledger \cup {Placed(h)}
    /\ writing' = writing \cup {h}
    /\ UNCHANGED <<rows, older, object, retained, runVars, releasing, issued, copyVars, faults, restores, ghostVars>>

\* Second half: the row, under the governance lock.  The runner may have
\* recreated it from the ledger meanwhile; then the insert fails.
CreateHold(h) ==
    /\ h \in writing
    /\ writing' = writing \ {h}
    /\ \/ /\ hold[h] = "none"
          /\ hold' = [hold EXCEPT ![h] = "active"]
          /\ guarded' = Guard({h})
          /\ overrun' = IF Held THEN overrun ELSE {}
       \/ /\ hold[h] # "none"
          /\ UNCHANGED <<hold, guarded, overrun>>
    /\ UNCHANGED <<status, copy, rid, req, approval, older, object, ledger, retained, runVars, releasing, issued,
                   copyVars, faults, restores, late>>

\* The API process dies between the two.
LoseHold(h) ==
    /\ MayDie
    /\ h \in writing
    /\ faults' = faults + 1
    /\ writing' = writing \ {h}
    /\ UNCHANGED <<rows, older, object, ledger, retained, runVars, releasing, issued, copyVars, restores, ghostVars>>

\* POST holds on an API without a ledger: the row alone.
PlaceUnledgered(h) ==
    /\ "unledgered" \in Env
    /\ Unused(h)
    /\ hold' = [hold EXCEPT ![h] = "active"]
    /\ overrun' = IF Held THEN overrun ELSE {}
    /\ UNCHANGED <<status, copy, rid, req, approval, older, object, ledger, retained, runVars, apiVars,
                   copyVars, faults, restores, guarded, late>>

\* POST holds/:id/release: the row first, then the ledger; the entry may be lost.
ReleaseHold(h) ==
    /\ hold[h] = "active"
    /\ hold' = [hold EXCEPT ![h] = "released"]
    /\ releasing' = releasing \cup {h}
    /\ guarded' = guarded \ {h}
    /\ overrun' = IF \E g \in Holds \ {h} : hold[g] = "active" THEN overrun ELSE {}
    /\ UNCHANGED <<status, copy, rid, req, approval, older, object, ledger, retained, runVars, writing, issued,
                   copyVars, faults, restores, late>>

AppendRelease(h) ==
    /\ h \in releasing
    /\ releasing' = releasing \ {h}
    /\ \/ ledger' = ledger \cup {Released(h)} /\ UNCHANGED faults
       \/ MayFail /\ faults' = faults + 1 /\ UNCHANGED ledger
    /\ UNCHANGED <<rows, older, object, retained, runVars, writing, issued, copyVars, restores, ghostVars>>

-----------------------------------------------------------------------------
(* The owners: deletion requests. *)

\* POST deletion-requests; activeFileId is unique, so one request is open.
RequestDeletion ==
    /\ status = "AVAILABLE" /\ ~Held /\ ~retained
    /\ req \in {"NONE", "REJECTED", "CANCELLED"}
    /\ issued < MaxRequests
    /\ issued' = issued + 1 /\ rid' = issued + 1
    /\ req' = "REQUESTED"
    /\ UNCHANGED <<status, copy, approval, hold, older, object, ledger, retained, runVars, writing, releasing,
                   copyVars, faults, restores, ghostVars>>

\* POST approve: sealed, with a waiting period and an expiry.
ApproveDeletion ==
    /\ req = "REQUESTED" /\ status = "AVAILABLE" /\ ~Held /\ ~retained
    /\ req' = "APPROVED" /\ approval' = "wait"
    /\ UNCHANGED <<status, copy, rid, hold, older, object, ledger, retained, runVars, apiVars,
                   copyVars, faults, restores, ghostVars>>

\* POST reject and POST cancel (closeRequest).
CloseRequest(to) ==
    /\ "close" \in Env
    /\ req \in (IF to = "REJECTED" THEN {"REQUESTED"} ELSE {"REQUESTED", "APPROVED"})
    /\ req' = to
    /\ UNCHANGED <<status, copy, rid, approval, hold, older, object, ledger, retained, runVars, apiVars,
                   copyVars, faults, restores, ghostVars>>

\* The waiting period ends; thirty days later the approval is no longer valid.
PassTime ==
    /\ req = "APPROVED"
    /\ \/ approval = "wait" /\ approval' = "due"
       \/ "expire" \in Env /\ approval = "due" /\ approval' = "expired"
    /\ UNCHANGED <<status, copy, rid, req, hold, older, object, ledger, retained, runVars, apiVars,
                   copyVars, faults, restores, ghostVars>>

\* The job is reopened or the policy lengthened, and the period ends again.
ChangeRetention ==
    /\ "retain" \in Env
    /\ retained' = ~retained
    /\ UNCHANGED <<rows, older, object, ledger, runVars, apiVars, copyVars, faults, restores, ghostVars>>

-----------------------------------------------------------------------------
(* The runner: hold synchronisation and reconciliation with the ledger. *)

Goto(p) == pc' = p

\* syncHoldLedger: placements and releases the ledger lacks are appended; an
\* append that fails is skipped.
SyncHolds ==
    /\ pc = "idle"
    /\ LET missing == {Placed(h) : h \in {g \in Holds : hold[g] # "none"}}
                        \cup {Released(h) : h \in {g \in Holds : hold[g] = "released"}}
       IN \E done \in SUBSET (missing \ ledger) :
            /\ \/ done = missing \ ledger /\ UNCHANGED faults
               \/ MayFail /\ done # missing \ ledger /\ faults' = faults + 1
            /\ ledger' = ledger \cup done
            /\ guarded' = Guard({h \in Holds : /\ hold[h] = "active"
                                               /\ Placed(h) \in done /\ Released(h) \notin ledger})
    /\ Goto("gate")
    /\ UNCHANGED <<rows, older, object, retained, saw, apiVars, copyVars, restores, overrun, late>>

\* Nothing is deleted until every placement is in the ledger.
DurableGate ==
    /\ pc = "gate"
    /\ Goto(IF \E h \in Holds : hold[h] # "none" /\ Placed(h) \notin ledger THEN "idle" ELSE "reconcile")
    /\ UNCHANGED <<rows, older, object, ledger, retained, saw, apiVars, copyVars, faults, restores, ghostVars>>

\* Mutant: only what the database still shows as begun is carried on.
ReadLedger_DeletingOnly ==
    /\ pc = "reconcile"
    /\ saw' = [completed |-> Completed \in ledger, row |-> status # "GONE"]
    /\ Goto(IF ~Begun \/ status # "DELETING" THEN "recHolds"
            ELSE IF saw'.row /\ ~saw'.completed THEN "recheck" ELSE "recPrimary")
    /\ UNCHANGED <<rows, older, object, ledger, retained, apiVars, copyVars, faults, restores, ghostVars>>

\* reconcileEvidenceLedger: a started deletion whose file is not DELETED is
\* carried on, with or without a row.
ReadLedger ==
    /\ pc = "reconcile"
    /\ saw' = [completed |-> Completed \in ledger, row |-> status # "GONE"]
    /\ Goto(IF ~Begun \/ status = "DELETED" THEN "recHolds"
            ELSE IF saw'.row /\ ~saw'.completed THEN "recheck" ELSE "recPrimary")
    /\ UNCHANGED <<rows, older, object, ledger, retained, apiVars, copyVars, faults, restores, ghostVars>>

\* A deletion that was only started yields to a hold.
RecheckHolds ==
    /\ pc = "recheck"
    /\ Goto(IF Held THEN "recHolds" ELSE "recPrimary")
    /\ UNCHANGED <<rows, older, object, ledger, retained, saw, apiVars, copyVars, faults, restores, ghostVars>>

\* store.delete and the look that the object is gone; a call that fails may
\* have deleted.  The executor gives up until the next run, reconciliation
\* goes on to the holds.
Empty(b, from, to, failed) ==
    /\ pc = from
    /\ \/ Goto(to) /\ object' = [object EXCEPT ![b] = FALSE] /\ UNCHANGED faults
       \/ /\ MayFail /\ faults' = faults + 1 /\ Goto(failed)
          /\ object' \in {object, [object EXCEPT ![b] = FALSE]}
    /\ overrun' = IF Held /\ object[b] /\ ~object'[b] THEN overrun \cup {b} ELSE overrun
    /\ UNCHANGED <<rows, older, ledger, retained, saw, apiVars, copyVars, restores, guarded, late>>

\* Mutant: the backup bucket is not emptied.
ReconcileObjects_PrimaryOnly ==
    Empty("primary", "recPrimary",
          IF ~saw.row THEN "recHolds" ELSE IF saw.completed THEN "recFinish" ELSE "recComplete",
          "recHolds")

\* removeObjects: both buckets, one look at the holds before them.
ReconcileObjects ==
    \/ Empty("primary", "recPrimary", "recBackup", "recHolds")
    \/ Empty("backup", "recBackup",
             IF ~saw.row THEN "recHolds" ELSE IF saw.completed THEN "recFinish" ELSE "recComplete",
             "recHolds")

\* An append to the ledger: idempotent, may fail.
Append(entry, from, to, failed) ==
    /\ pc = from
    /\ \/ ledger' = ledger \cup {entry} /\ Goto(to) /\ UNCHANGED faults
       \/ MayFail /\ faults' = faults + 1 /\ Goto(failed) /\ UNCHANGED ledger
    /\ UNCHANGED <<rows, older, object, retained, saw, apiVars, copyVars, restores, ghostVars>>

ReconcileComplete == Append(Completed, "recComplete", "recFinish", "recHolds")

\* finishInDb, one transaction: file and copies DELETED; the executor's also
\* completes its request.
FinishInDb(from, to, closing) ==
    /\ pc = from
    /\ Goto(to)
    /\ status' = IF status \in {"AVAILABLE", "DELETING"} THEN "DELETED" ELSE status
    /\ copy' = IF copy = "NONE" THEN "NONE" ELSE "DELETED"
    /\ req' = IF closing /\ req \in {"APPROVED", "EXECUTING"} THEN "COMPLETED" ELSE req
    /\ UNCHANGED <<rid, approval, hold, older, object, ledger, retained, saw, apiVars, copyVars, faults, restores, ghostVars>>

ReconcileFinish == FinishInDb("recFinish", "recClose", FALSE)

\* Request rows still open are closed.
ReconcileClose ==
    /\ pc = "recClose"
    /\ Goto("recHolds")
    /\ req' = IF req \in {"REQUESTED", "APPROVED", "EXECUTING"} THEN "COMPLETED" ELSE req
    /\ UNCHANGED <<status, copy, rid, approval, hold, older, object, ledger, retained, saw, apiVars,
                   copyVars, faults, restores, ghostVars>>

\* Mutant: only releases are applied, a hold the database lost stays lost.
ReconcileHolds_EndsOnly ==
    /\ pc = "recHolds"
    /\ Goto("select")
    /\ hold' = [h \in Holds |-> IF hold[h] = "active" /\ Released(h) \in ledger THEN "released" ELSE hold[h]]
    /\ UNCHANGED <<status, copy, rid, req, approval, older, object, ledger, retained, saw, apiVars,
                   copyVars, faults, restores, ghostVars>>

\* Holds the ledger knows are recreated, holds it saw released are ended.
ReconcileHolds ==
    /\ pc = "recHolds"
    /\ Goto("select")
    /\ hold' = [h \in Holds |->
                  IF hold[h] = "none" /\ Placed(h) \in ledger /\ Released(h) \notin ledger THEN "active"
                  ELSE IF hold[h] = "active" /\ Released(h) \in ledger THEN "released"
                  ELSE hold[h]]
    /\ guarded' = Guard({h \in Holds : hold[h] = "none" /\ hold'[h] = "active"})
    /\ overrun' = IF Held THEN overrun ELSE {}
    /\ UNCHANGED <<status, copy, rid, req, approval, older, object, ledger, retained, saw, apiVars,
                   copyVars, faults, restores, late>>

-----------------------------------------------------------------------------
(* The runner: executing a due request. *)

\* The request to run, if any; an approval that ran out is cancelled.
SelectRequest ==
    /\ pc = "select"
    /\ \/ /\ req = "EXECUTING" \/ (req = "APPROVED" /\ approval = "due")
          /\ Goto("begin")
          /\ UNCHANGED req
       \/ /\ req = "APPROVED" /\ approval = "expired"
          /\ req' = "CANCELLED"
          /\ Goto("idle")
       \/ /\ req \notin {"APPROVED", "EXECUTING"} \/ (req = "APPROVED" /\ approval = "wait")
          /\ Goto("idle")
          /\ UNCHANGED req
    /\ UNCHANGED <<status, copy, rid, approval, hold, older, object, ledger, retained, saw, apiVars,
                   copyVars, faults, restores, ghostVars>>

MayBegin == req = "APPROVED" /\ ~retained /\ status = "AVAILABLE"

\* Under the governance lock: no hold, retention over, APPROVED -> EXECUTING
\* and AVAILABLE -> DELETING; or the execution is taken up again.
BeginDeletion ==
    /\ pc = "begin"
    /\ \/ /\ ~Held /\ MayBegin
          /\ status' = "DELETING" /\ req' = "EXECUTING"
          /\ Goto("start")
       \/ /\ ~Held /\ req = "EXECUTING"
          /\ Goto("start")
          /\ UNCHANGED <<status, req>>
       \/ /\ Held \/ (req # "EXECUTING" /\ ~MayBegin)
          /\ Goto("idle")
          /\ UNCHANGED <<status, req>>
    /\ UNCHANGED <<copy, rid, approval, hold, older, object, ledger, retained, saw, apiVars,
                   copyVars, faults, restores, ghostVars>>

\* Mutant: the objects are deleted before the ledger knows.
RecordStart_Later ==
    /\ pc = "start"
    /\ Goto("checkPrimary")
    /\ UNCHANGED <<rows, older, object, ledger, retained, saw, apiVars, copyVars, faults, restores, ghostVars>>

\* The authorisation is recorded before any object is touched.  An entry of
\* another request at that place is a conflict.
RecordStart ==
    \/ /\ Begun => Started(rid) \in ledger
       /\ Append(Started(rid), "start", "checkPrimary", "idle")
    \/ /\ pc = "start" /\ Begun /\ Started(rid) \notin ledger
       /\ Goto("idle")
       /\ UNCHANGED <<rows, older, object, ledger, retained, saw, apiVars, copyVars, faults, restores, ghostVars>>

\* The holds are looked at again before each bucket.
CheckHolds(from, to) ==
    /\ pc = from
    /\ Goto(IF Held THEN "idle" ELSE to)
    /\ UNCHANGED <<rows, older, object, ledger, retained, saw, apiVars, copyVars, faults, restores, ghostVars>>

DeleteObjects ==
    \/ CheckHolds("checkPrimary", "delPrimary")
    \/ Empty("primary", "delPrimary", "checkBackup", "idle")
    \/ CheckHolds("checkBackup", "delBackup")
    \/ Empty("backup", "delBackup", "complete", "idle")

RecordComplete == Append(Completed, "complete", "finish", "idle")

\* Mutant: a file that is DELETED already needs no completion.
Finish_FirstOnly == FinishInDb("finish", "idle", status # "DELETED")

Finish == FinishInDb("finish", "idle", TRUE)

\* The runner dies, or a call outside its catches throws; it is run again.
RunnerDies ==
    /\ MayDie
    /\ pc # "idle"
    /\ faults' = faults + 1
    /\ Goto("idle")
    /\ UNCHANGED <<rows, older, object, ledger, retained, saw, apiVars, copyVars, restores, ghostVars>>

Run ==
    \/ SyncHolds \/ DurableGate
    \/ ReadLedger \/ RecheckHolds \/ ReconcileObjects \/ ReconcileComplete
    \/ ReconcileFinish \/ ReconcileClose \/ ReconcileHolds
    \/ SelectRequest \/ BeginDeletion \/ RecordStart \/ DeleteObjects
    \/ RecordComplete \/ Finish

-----------------------------------------------------------------------------
(* The backup of the photo, and the repair of the primary from it. *)

Wrote(b) ==
    /\ object' = [object EXCEPT ![b] = TRUE]
    /\ late' = (late \/ Begun)

\* replicateEvidenceFile reads the file ...
BackupStart ==
    /\ "backup" \in Env
    /\ bpc = "idle"
    /\ status = "AVAILABLE" /\ copy # "VERIFIED"
    /\ bpc' = "claim"
    /\ UNCHANGED <<rows, older, object, ledger, retained, runVars, apiVars, rpc, faults, restores, ghostVars>>

\* ... makes or claims the backup row, whatever the file has become ...
BackupClaim ==
    /\ bpc = "claim"
    /\ \/ copy \in {"NONE", "PENDING", "FAILED", "VERIFYING"} /\ copy' = "VERIFYING" /\ bpc' = "copy"
       \/ copy \in {"VERIFIED", "DELETED"} /\ bpc' = "idle" /\ UNCHANGED copy
    /\ UNCHANGED <<status, rid, req, approval, hold, older, object, ledger, retained, runVars, apiVars, rpc,
                   faults, restores, ghostVars>>

\* fail(): the row, if still being verified, becomes FAILED.
BackupFailed == copy' = (IF copy = "VERIFYING" THEN "FAILED" ELSE copy)

\* ... reads the primary ...
BackupRead ==
    /\ bpc = "copy"
    /\ \/ object["primary"] /\ bpc' = "put" /\ UNCHANGED copy
       \/ ~object["primary"] /\ bpc' = "idle" /\ BackupFailed
    /\ UNCHANGED <<status, rid, req, approval, hold, older, object, ledger, retained, runVars, apiVars, rpc,
                   faults, restores, ghostVars>>

\* ... writes the copy unless it is there ...
BackupPut ==
    /\ bpc = "put"
    /\ bpc' = "readback"
    /\ IF object["backup"] THEN UNCHANGED <<object, late>> ELSE Wrote("backup")
    /\ UNCHANGED <<rows, older, ledger, retained, runVars, apiVars, rpc, faults, restores, guarded, overrun>>

\* ... reads it back ...
BackupReadBack ==
    /\ bpc = "readback"
    /\ \/ object["backup"] /\ bpc' = "verify" /\ UNCHANGED copy
       \/ ~object["backup"] /\ bpc' = "idle" /\ BackupFailed
    /\ UNCHANGED <<status, rid, req, approval, hold, older, object, ledger, retained, runVars, apiVars, rpc,
                   faults, restores, ghostVars>>

\* ... and marks it VERIFIED if the file is still AVAILABLE.
BackupVerify ==
    /\ bpc = "verify"
    /\ bpc' = "idle"
    /\ copy' = IF copy = "VERIFYING" /\ status = "AVAILABLE" THEN "VERIFIED" ELSE copy
    /\ UNCHANGED <<status, rid, req, approval, hold, older, object, ledger, retained, runVars, apiVars, rpc,
                   faults, restores, ghostVars>>

\* A call throws and the row is marked FAILED, or the worker dies.
BackupStops ==
    /\ bpc # "idle"
    /\ \/ MayFail /\ bpc \in {"copy", "put", "readback", "verify"} /\ BackupFailed
       \/ MayDie /\ UNCHANGED copy
    /\ faults' = faults + 1
    /\ bpc' = "idle"
    /\ UNCHANGED <<status, rid, req, approval, hold, older, object, ledger, retained, runVars, apiVars, rpc,
                   restores, ghostVars>>

\* restoreEvidenceFile, run by an operator: the primary is missing and a
\* VERIFIED backup is there ...
RepairStart ==
    /\ "backup" \in Env
    /\ rpc = "idle"
    /\ status = "AVAILABLE" /\ copy = "VERIFIED"
    /\ ~object["primary"] /\ object["backup"]
    /\ rpc' = "staged"
    /\ UNCHANGED <<rows, older, object, ledger, retained, runVars, apiVars, bpc, faults, restores, ghostVars>>

\* ... the record must still be current ...
RepairRecheck ==
    /\ rpc = "staged"
    /\ rpc' = IF status = "AVAILABLE" /\ copy = "VERIFIED" THEN "promote" ELSE "idle"
    /\ UNCHANGED <<rows, older, object, ledger, retained, runVars, apiVars, bpc, faults, restores, ghostVars>>

\* ... and the staged bytes are put only where nothing is.
RepairPromote ==
    /\ rpc = "promote"
    /\ rpc' = "idle"
    /\ IF object["primary"] THEN UNCHANGED <<object, late>> ELSE Wrote("primary")
    /\ UNCHANGED <<rows, older, ledger, retained, runVars, apiVars, bpc, faults, restores, guarded, overrun>>

Replicate ==
    \/ BackupStart \/ BackupClaim \/ BackupRead \/ BackupPut \/ BackupReadBack \/ BackupVerify
Repair == RepairStart \/ RepairRecheck \/ RepairPromote

-----------------------------------------------------------------------------
(* The database is backed up and restored; the processes restart. *)

TakeBackup ==
    /\ "restore" \in Env /\ restores < MaxRestores
    /\ older' = Now
    /\ UNCHANGED <<rows, object, ledger, retained, runVars, apiVars, copyVars, faults, restores, ghostVars>>

RestoreDatabase ==
    /\ "restore" \in Env /\ restores < MaxRestores
    /\ restores' = restores + 1
    /\ status' = older.status /\ copy' = older.copy /\ rid' = older.rid /\ req' = older.req
    /\ approval' = older.approval /\ hold' = older.hold
    /\ pc' = "idle" /\ bpc' = "idle" /\ rpc' = "idle"
    /\ writing' = {} /\ releasing' = {}
    /\ UNCHANGED <<older, object, ledger, retained, saw, issued, faults, ghostVars>>

Next ==
    \/ \E h \in Holds : \/ AppendHold(h) \/ CreateHold(h) \/ LoseHold(h)
                        \/ PlaceUnledgered(h) \/ ReleaseHold(h) \/ AppendRelease(h)
    \/ RequestDeletion \/ ApproveDeletion
    \/ \E to \in {"REJECTED", "CANCELLED"} : CloseRequest(to)
    \/ PassTime \/ ChangeRetention
    \/ Run \/ RunnerDies
    \/ Replicate \/ BackupStops \/ Repair
    \/ TakeBackup \/ RestoreDatabase

Spec == Init /\ [][Next]_vars

(* The runner is scheduled and its awaits end; so do the API's.  Owners,   *)
(* operators, the clock, failures and restores get nothing.                *)
FairSpec ==
    /\ Spec
    /\ WF_vars(Run)
    /\ \A h \in Holds : WF_vars(CreateHold(h)) /\ WF_vars(AppendRelease(h))

-----------------------------------------------------------------------------
(* Properties *)

\* The photo is out of the primary bucket only after the ledger recorded that
\* this was authorised, and a file shown as DELETED has both entries: what a
\* crash or a restored database hides, the ledger still tells.
LossIsRecorded ==
    /\ ~object["primary"] => Begun
    /\ status = "DELETED" \/ Completed \in ledger => Begun /\ Completed \in ledger

\* A hold that was in the ledger before the deletion began keeps the photo,
\* through restores of a database that never heard of the hold, until an owner
\* releases it.
HoldGuards == guarded # {} => object["primary"] /\ ~Begun

\* When the ledger says that the deletion is complete, no bucket has the photo,
\* unless a backup or repair that began earlier wrote it afterwards.
CompletedIsGone == Completed \in ledger /\ ~late => \A b \in Buckets : ~object[b]

\* A hold stops a deletion on its way: once it is active, no more than the
\* bucket whose delete was already called is emptied.
HoldStopsDeletion == overrun # Buckets

\* A deletion the ledger saw started comes to its end, with the rows agreeing,
\* after crashes and after the restore of a database that knew nothing of it,
\* and a request that was begun is closed; a hold may be in the way of both.
DeletionEnds ==
    /\ Begun ~>
          \/ Held
          \/ status \in {"DELETED", "GONE"} /\ (late \/ \A b \in Buckets : ~object[b])
    /\ req = "EXECUTING" ~> req # "EXECUTING" \/ Held

=============================================================================
