----------------------- MODULE EvidenceDeletionProofs -----------------------
(***************************************************************************)
(* Theorems about EvidenceDeletion, for any number of holds, requests,     *)
(* failures, crashes and restores of the database.                         *)
(***************************************************************************)
EXTENDS EvidenceDeletion, TLAPS

\* The runner once it carries out a deletion the ledger has.
Carrying == {"recheck", "recPrimary", "recBackup", "recComplete", "recFinish", "recClose",
             "checkPrimary", "delPrimary", "checkBackup", "delBackup", "complete", "finish"}

\* The runner after it has reconciled the holds.
Reconciled == {"select", "begin", "start", "checkPrimary", "delPrimary", "checkBackup", "delBackup",
               "complete", "finish"}

\* A started deletion is in the ledger while the runner carries it out, and the
\* completion before the database is told.
RunnerBacked ==
    /\ pc \in Carrying => Begun
    /\ pc \in {"recFinish", "recClose", "finish"} \/ saw.completed => Completed \in ledger

\* What the rows, or those of an older database, show of a deletion.
RowsBacked ==
    /\ req # "NONE" => rid \in Requests
    /\ older.req # "NONE" => older.rid \in Requests
    /\ pc \in {"begin", "start"} => req # "NONE"
    /\ req = "EXECUTING" => status \in {"DELETING", "DELETED"}
    /\ older.req = "EXECUTING" => older.status \in {"DELETING", "DELETED"}
    /\ older.status = "DELETED" => Completed \in ledger

\* A hold that was released in an older database is released now, and what is
\* still to be written to the ledger or the database agrees with both.
HoldsBacked ==
    \A h \in Holds :
        /\ older.hold[h] = "released" => hold[h] = "released"
        /\ h \in releasing => hold[h] = "released"
        /\ h \in writing => Placed(h) \in ledger /\ (hold[h] = "none" => Released(h) \notin ledger)

\* A guarding hold is durable, and active again before a request is looked at.
GuardsDurable ==
    \A h \in guarded :
        /\ h \in Holds
        /\ Placed(h) \in ledger /\ Released(h) \notin ledger
        /\ hold[h] # "released"
        /\ pc \in Reconciled => hold[h] = "active"

\* Once the runner is past the holds, no hold guards and none can begin to.
StartUnguarded == pc = "start" => guarded = {} /\ status # "AVAILABLE"

Unbegun == guarded # {} => ~Begun

\* The functions among the variables.
Shapes ==
    /\ hold \in [Holds -> {"none", "active", "released"}]
    /\ older.hold \in [Holds -> {"none", "active", "released"}]
    /\ object \in [Buckets -> BOOLEAN]
    /\ issued \in Nat

DeletionInv ==
    /\ Shapes /\ RunnerBacked /\ RowsBacked /\ HoldsBacked
    /\ GuardsDurable /\ StartUnguarded /\ Unbegun /\ LossIsRecorded

-----------------------------------------------------------------------------
(* The ledger's entries. *)

LEMMA EntriesDistinct ==
    /\ \A h \in Holds : Completed # Placed(h) /\ Completed # Released(h)
    /\ \A g, h \in Holds : /\ Placed(g) # Released(h)
                           /\ Placed(g) = Placed(h) => g = h
                           /\ Released(g) = Released(h) => g = h
    /\ \A r \in Requests : Started(r) # Completed
    /\ \A r \in Requests, h \in Holds : Started(r) # Placed(h) /\ Started(r) # Released(h)
<1>1. QED
  BY DEF Completed, Placed, Released, Started

\* Entries about holds begin and complete nothing.
LEMMA HoldEntries ==
    ASSUME NEW new, \A e \in new : \E h \in Holds : e = Placed(h) \/ e = Released(h),
           ledger' = ledger \cup new
    PROVE  (Begun' <=> Begun) /\ (Completed \in ledger' <=> Completed \in ledger)
<1>1. QED
  BY EntriesDistinct DEF Begun

\* What is begun stays begun.
LEMMA BegunStays == ASSUME Begun, ledger \subseteq ledger' PROVE Begun'
<1>1. QED
  BY DEF Begun

-----------------------------------------------------------------------------
(* Steps. *)

\* What a step that touches neither the ledger nor the state of the deletion keeps.
LEMMA Elsewhere ==
    ASSUME DeletionInv,
           UNCHANGED <<pc, saw, ledger, rid, status, hold, guarded, older>>,
           object' \in [Buckets -> BOOLEAN], issued' \in Nat,
           object["primary"] => object'["primary"],
           writing' \subseteq writing, releasing' \subseteq releasing,
           req' = req \/ (req \notin {"NONE", "EXECUTING"} /\ req' \notin {"NONE", "EXECUTING"})
    PROVE  DeletionInv'
<1> USE DEF DeletionInv
<1>1. Shapes'
  BY DEF Shapes
<1>2. RunnerBacked'
  BY DEF RunnerBacked, Begun
<1>3. RowsBacked'
  BY DEF RowsBacked
<1>4. HoldsBacked'
  BY DEF HoldsBacked
<1>5. GuardsDurable'
  BY DEF GuardsDurable
<1>6. StartUnguarded'
  BY DEF StartUnguarded
<1>7. Unbegun'
  BY DEF Unbegun, Begun
<1>8. LossIsRecorded'
  BY DEF LossIsRecorded, Begun
<1>9. QED
  BY <1>1, <1>2, <1>3, <1>4, <1>5, <1>6, <1>7, <1>8

LEMMA AppendHoldKeeps == ASSUME DeletionInv, NEW h \in Holds, AppendHold(h) PROVE DeletionInv'
<1> USE DEF DeletionInv
<1>1. (Begun' <=> Begun) /\ (Completed \in ledger' <=> Completed \in ledger)
  BY HoldEntries DEF AppendHold
<1>2. hold[h] = "none" /\ Released(h) \notin ledger /\ h \notin guarded
  BY DEF AppendHold, Unused, GuardsDurable
<1>3. \A g \in Holds : /\ Placed(g) \in ledger' <=> Placed(g) \in ledger \/ g = h
                       /\ Released(g) \in ledger' <=> Released(g) \in ledger
  BY EntriesDistinct DEF AppendHold
<1>4. Shapes'
  BY <1>1, <1>2, <1>3 DEF AppendHold, Unused, rows, apiVars, runVars, copyVars, ghostVars, Shapes
<1>5. RunnerBacked'
  BY <1>1, <1>2, <1>3 DEF AppendHold, Unused, rows, apiVars, runVars, copyVars, ghostVars,
                          RunnerBacked, Carrying
<1>6. RowsBacked'
  BY <1>1, <1>2, <1>3 DEF AppendHold, Unused, rows, apiVars, runVars, copyVars, ghostVars,
                          RowsBacked
<1>7. HoldsBacked'
  BY <1>1, <1>2, <1>3 DEF AppendHold, Unused, rows, apiVars, runVars, copyVars, ghostVars,
                          HoldsBacked, Shapes
<1>8. GuardsDurable'
  BY <1>1, <1>2, <1>3 DEF AppendHold, Unused, rows, apiVars, runVars, copyVars, ghostVars,
                          GuardsDurable, HoldsBacked, Shapes, Reconciled
<1>9. StartUnguarded'
  BY <1>1, <1>2, <1>3 DEF AppendHold, Unused, rows, apiVars, runVars, copyVars, ghostVars,
                          StartUnguarded
<1>10. Unbegun'
  BY <1>1, <1>2, <1>3 DEF AppendHold, Unused, rows, apiVars, runVars, copyVars, ghostVars, Unbegun
<1>11. LossIsRecorded'
  BY <1>1, <1>2, <1>3 DEF AppendHold, Unused, rows, apiVars, runVars, copyVars, ghostVars,
                          LossIsRecorded
<1>12. QED
  BY <1>4, <1>5, <1>6, <1>7, <1>8, <1>9, <1>10, <1>11

LEMMA CreateHoldKeeps == ASSUME DeletionInv, NEW h \in Holds, CreateHold(h) PROVE DeletionInv'
<1> USE DEF DeletionInv
<1>1. (Begun' <=> Begun) /\ (Completed \in ledger' <=> Completed \in ledger)
  BY DEF CreateHold, Begun
<1>2. Shapes'
  BY <1>1 DEF CreateHold, Guard, rows, apiVars, runVars, copyVars, ghostVars, Shapes
<1>3. RunnerBacked'
  BY <1>1 DEF CreateHold, Guard, rows, apiVars, runVars, copyVars, ghostVars, RunnerBacked, Carrying
<1>4. RowsBacked'
  BY <1>1 DEF CreateHold, Guard, rows, apiVars, runVars, copyVars, ghostVars, RowsBacked
<1>5. HoldsBacked'
  BY <1>1, EntriesDistinct DEF CreateHold, Guard, rows, apiVars, runVars, copyVars, ghostVars,
                               HoldsBacked, Shapes
<1>6. GuardsDurable'
  BY <1>1, EntriesDistinct DEF CreateHold, Guard, rows, apiVars, runVars, copyVars, ghostVars,
                               GuardsDurable, HoldsBacked, Shapes, Reconciled
<1>7. StartUnguarded'
  BY <1>1 DEF CreateHold, Guard, rows, apiVars, runVars, copyVars, ghostVars, StartUnguarded
<1>8. Unbegun'
  BY <1>1 DEF CreateHold, Guard, rows, apiVars, runVars, copyVars, ghostVars, Unbegun, Guard
<1>9. LossIsRecorded'
  BY <1>1 DEF CreateHold, Guard, rows, apiVars, runVars, copyVars, ghostVars, LossIsRecorded
<1>10. QED
  BY <1>2, <1>3, <1>4, <1>5, <1>6, <1>7, <1>8, <1>9

LEMMA PlaceUnledgeredKeeps == ASSUME DeletionInv, NEW h \in Holds, PlaceUnledgered(h) PROVE DeletionInv'
<1> USE DEF DeletionInv
<1>1. (Begun' <=> Begun) /\ (Completed \in ledger' <=> Completed \in ledger)
  BY DEF PlaceUnledgered, Begun
<1>2. Shapes'
  BY <1>1 DEF PlaceUnledgered, Unused, rows, apiVars, runVars, copyVars, ghostVars, Shapes
<1>3. RunnerBacked'
  BY <1>1 DEF PlaceUnledgered, Unused, rows, apiVars, runVars, copyVars, ghostVars, RunnerBacked,
              Carrying
<1>4. RowsBacked'
  BY <1>1 DEF PlaceUnledgered, Unused, rows, apiVars, runVars, copyVars, ghostVars, RowsBacked
<1>5. HoldsBacked'
  BY <1>1, EntriesDistinct DEF PlaceUnledgered, Unused, rows, apiVars, runVars, copyVars, ghostVars,
                               HoldsBacked, Shapes
<1>6. GuardsDurable'
  BY <1>1, EntriesDistinct DEF PlaceUnledgered, Unused, rows, apiVars, runVars, copyVars, ghostVars,
                               GuardsDurable, HoldsBacked, Shapes, Reconciled
<1>7. StartUnguarded'
  BY <1>1 DEF PlaceUnledgered, Unused, rows, apiVars, runVars, copyVars, ghostVars, StartUnguarded
<1>8. Unbegun'
  BY <1>1 DEF PlaceUnledgered, Unused, rows, apiVars, runVars, copyVars, ghostVars, Unbegun
<1>9. LossIsRecorded'
  BY <1>1 DEF PlaceUnledgered, Unused, rows, apiVars, runVars, copyVars, ghostVars, LossIsRecorded
<1>10. QED
  BY <1>2, <1>3, <1>4, <1>5, <1>6, <1>7, <1>8, <1>9

LEMMA ReleaseHoldKeeps == ASSUME DeletionInv, NEW h \in Holds, ReleaseHold(h) PROVE DeletionInv'
<1> USE DEF DeletionInv
<1>1. (Begun' <=> Begun) /\ (Completed \in ledger' <=> Completed \in ledger)
  BY DEF ReleaseHold, Begun
<1>2. Shapes'
  BY <1>1 DEF ReleaseHold, rows, apiVars, runVars, copyVars, ghostVars, Shapes
<1>3. RunnerBacked'
  BY <1>1 DEF ReleaseHold, rows, apiVars, runVars, copyVars, ghostVars, RunnerBacked, Carrying
<1>4. RowsBacked'
  BY <1>1 DEF ReleaseHold, rows, apiVars, runVars, copyVars, ghostVars, RowsBacked
<1>5. HoldsBacked'
  BY <1>1, EntriesDistinct DEF ReleaseHold, rows, apiVars, runVars, copyVars, ghostVars,
                               HoldsBacked, Shapes
<1>6. GuardsDurable'
  BY <1>1, EntriesDistinct DEF ReleaseHold, rows, apiVars, runVars, copyVars, ghostVars,
                               GuardsDurable, HoldsBacked, Shapes, Reconciled
<1>7. StartUnguarded'
  BY <1>1 DEF ReleaseHold, rows, apiVars, runVars, copyVars, ghostVars, StartUnguarded
<1>8. Unbegun'
  BY <1>1 DEF ReleaseHold, rows, apiVars, runVars, copyVars, ghostVars, Unbegun
<1>9. LossIsRecorded'
  BY <1>1 DEF ReleaseHold, rows, apiVars, runVars, copyVars, ghostVars, LossIsRecorded
<1>10. QED
  BY <1>2, <1>3, <1>4, <1>5, <1>6, <1>7, <1>8, <1>9

LEMMA AppendReleaseKeeps == ASSUME DeletionInv, NEW h \in Holds, AppendRelease(h) PROVE DeletionInv'
<1> USE DEF DeletionInv
<1>1. (Begun' <=> Begun) /\ (Completed \in ledger' <=> Completed \in ledger)
  BY HoldEntries DEF AppendRelease, Begun
<1>2. hold[h] = "released"
  BY DEF AppendRelease, HoldsBacked
<1>3. \A g \in Holds : /\ Placed(g) \in ledger' <=> Placed(g) \in ledger
                       /\ Released(g) \in ledger' => Released(g) \in ledger \/ g = h
  BY EntriesDistinct DEF AppendRelease
<1>4. Shapes'
  BY <1>1, <1>2, <1>3 DEF AppendRelease, MayFail, rows, apiVars, runVars, copyVars, ghostVars,
                          Shapes
<1>5. RunnerBacked'
  BY <1>1, <1>2, <1>3 DEF AppendRelease, MayFail, rows, apiVars, runVars, copyVars, ghostVars,
                          RunnerBacked, Carrying
<1>6. RowsBacked'
  BY <1>1, <1>2, <1>3 DEF AppendRelease, MayFail, rows, apiVars, runVars, copyVars, ghostVars,
                          RowsBacked
<1>7. HoldsBacked'
  BY <1>1, <1>2, <1>3 DEF AppendRelease, MayFail, rows, apiVars, runVars, copyVars, ghostVars,
                          HoldsBacked, Shapes
<1>8. GuardsDurable'
  BY <1>1, <1>2, <1>3 DEF AppendRelease, MayFail, rows, apiVars, runVars, copyVars, ghostVars,
                          GuardsDurable, HoldsBacked, Shapes, Reconciled
<1>9. StartUnguarded'
  BY <1>1, <1>2, <1>3 DEF AppendRelease, MayFail, rows, apiVars, runVars, copyVars, ghostVars,
                          StartUnguarded
<1>10. Unbegun'
  BY <1>1, <1>2, <1>3 DEF AppendRelease, MayFail, rows, apiVars, runVars, copyVars, ghostVars,
                          Unbegun
<1>11. LossIsRecorded'
  BY <1>1, <1>2, <1>3 DEF AppendRelease, MayFail, rows, apiVars, runVars, copyVars, ghostVars,
                          LossIsRecorded
<1>12. QED
  BY <1>4, <1>5, <1>6, <1>7, <1>8, <1>9, <1>10, <1>11

LEMMA SyncHoldsKeeps == ASSUME DeletionInv, SyncHolds PROVE DeletionInv'
<1> USE DEF DeletionInv
<1>1. (Begun' <=> Begun) /\ (Completed \in ledger' <=> Completed \in ledger)
  BY HoldEntries DEF SyncHolds
<1>2. \A g \in Holds : /\ Placed(g) \in ledger => Placed(g) \in ledger'
                       /\ Released(g) \in ledger' => Released(g) \in ledger \/ hold[g] = "released"
  BY EntriesDistinct DEF SyncHolds
<1>3. \A g \in guarded' \ guarded : g \in Holds /\ hold[g] = "active" /\ Placed(g) \in ledger' /\ Released(g) \notin ledger
  BY DEF SyncHolds, Guard
<1>4. Shapes'
  BY <1>1, <1>2, <1>3 DEF SyncHolds, Goto, Guard, rows, apiVars, runVars, copyVars, ghostVars,
                          Shapes
<1>5. RunnerBacked'
  BY <1>1, <1>2, <1>3 DEF SyncHolds, Goto, Guard, rows, apiVars, runVars, copyVars, ghostVars,
                          RunnerBacked, Carrying
<1>6. RowsBacked'
  BY <1>1, <1>2, <1>3 DEF SyncHolds, Goto, Guard, rows, apiVars, runVars, copyVars, ghostVars,
                          RowsBacked
<1>7. HoldsBacked'
  BY <1>1, <1>2, <1>3 DEF SyncHolds, Goto, Guard, rows, apiVars, runVars, copyVars, ghostVars,
                          HoldsBacked, Shapes
<1>8. GuardsDurable'
  BY <1>1, <1>2, <1>3 DEF SyncHolds, Goto, Guard, rows, apiVars, runVars, copyVars, ghostVars,
                          GuardsDurable, HoldsBacked, Shapes, Reconciled
<1>9. StartUnguarded'
  BY <1>1, <1>2, <1>3 DEF SyncHolds, Goto, Guard, rows, apiVars, runVars, copyVars, ghostVars,
                          StartUnguarded
<1>10. Unbegun'
  BY <1>1, <1>2, <1>3 DEF SyncHolds, Goto, Guard, rows, apiVars, runVars, copyVars, ghostVars,
                          Unbegun
<1>11. LossIsRecorded'
  BY <1>1, <1>2, <1>3 DEF SyncHolds, Goto, Guard, rows, apiVars, runVars, copyVars, ghostVars,
                          LossIsRecorded
<1>12. QED
  BY <1>4, <1>5, <1>6, <1>7, <1>8, <1>9, <1>10, <1>11

LEMMA DurableGateKeeps == ASSUME DeletionInv, DurableGate PROVE DeletionInv'
<1> USE DEF DeletionInv
<1>1. (Begun' <=> Begun) /\ (Completed \in ledger' <=> Completed \in ledger)
  BY DEF DurableGate, Begun
<1>2. Shapes'
  BY <1>1 DEF DurableGate, Goto, rows, apiVars, runVars, copyVars, ghostVars, Shapes
<1>3. RunnerBacked'
  BY <1>1 DEF DurableGate, Goto, rows, apiVars, runVars, copyVars, ghostVars, RunnerBacked, Carrying
<1>4. RowsBacked'
  BY <1>1 DEF DurableGate, Goto, rows, apiVars, runVars, copyVars, ghostVars, RowsBacked
<1>5. HoldsBacked'
  BY <1>1, EntriesDistinct DEF DurableGate, Goto, rows, apiVars, runVars, copyVars, ghostVars,
                               HoldsBacked, Shapes
<1>6. GuardsDurable'
  BY <1>1, EntriesDistinct DEF DurableGate, Goto, rows, apiVars, runVars, copyVars, ghostVars,
                               GuardsDurable, HoldsBacked, Shapes, Reconciled
<1>7. StartUnguarded'
  BY <1>1 DEF DurableGate, Goto, rows, apiVars, runVars, copyVars, ghostVars, StartUnguarded
<1>8. Unbegun'
  BY <1>1 DEF DurableGate, Goto, rows, apiVars, runVars, copyVars, ghostVars, Unbegun
<1>9. LossIsRecorded'
  BY <1>1 DEF DurableGate, Goto, rows, apiVars, runVars, copyVars, ghostVars, LossIsRecorded
<1>10. QED
  BY <1>2, <1>3, <1>4, <1>5, <1>6, <1>7, <1>8, <1>9

LEMMA ReadLedgerKeeps == ASSUME DeletionInv, ReadLedger PROVE DeletionInv'
<1> USE DEF DeletionInv
<1>1. (Begun' <=> Begun) /\ (Completed \in ledger' <=> Completed \in ledger)
  BY DEF ReadLedger, Begun
<1>2. Shapes'
  BY <1>1 DEF ReadLedger, Goto, rows, apiVars, runVars, copyVars, ghostVars, Shapes
<1>3. RunnerBacked'
  BY <1>1 DEF ReadLedger, Goto, rows, apiVars, runVars, copyVars, ghostVars, RunnerBacked, Carrying
<1>4. RowsBacked'
  BY <1>1 DEF ReadLedger, Goto, rows, apiVars, runVars, copyVars, ghostVars, RowsBacked
<1>5. HoldsBacked'
  BY <1>1, EntriesDistinct DEF ReadLedger, Goto, rows, apiVars, runVars, copyVars, ghostVars,
                               HoldsBacked, Shapes
<1>6. GuardsDurable'
  BY <1>1, EntriesDistinct DEF ReadLedger, Goto, rows, apiVars, runVars, copyVars, ghostVars,
                               GuardsDurable, HoldsBacked, Shapes, Reconciled
<1>7. StartUnguarded'
  BY <1>1 DEF ReadLedger, Goto, rows, apiVars, runVars, copyVars, ghostVars, StartUnguarded
<1>8. Unbegun'
  BY <1>1 DEF ReadLedger, Goto, rows, apiVars, runVars, copyVars, ghostVars, Unbegun
<1>9. LossIsRecorded'
  BY <1>1 DEF ReadLedger, Goto, rows, apiVars, runVars, copyVars, ghostVars, LossIsRecorded
<1>10. QED
  BY <1>2, <1>3, <1>4, <1>5, <1>6, <1>7, <1>8, <1>9

LEMMA RecheckHoldsKeeps == ASSUME DeletionInv, RecheckHolds PROVE DeletionInv'
<1> USE DEF DeletionInv
<1>1. (Begun' <=> Begun) /\ (Completed \in ledger' <=> Completed \in ledger)
  BY DEF RecheckHolds, Begun
<1>2. Shapes'
  BY <1>1 DEF RecheckHolds, Goto, rows, apiVars, runVars, copyVars, ghostVars, Shapes
<1>3. RunnerBacked'
  BY <1>1 DEF RecheckHolds, Goto, rows, apiVars, runVars, copyVars, ghostVars, RunnerBacked,
              Carrying
<1>4. RowsBacked'
  BY <1>1 DEF RecheckHolds, Goto, rows, apiVars, runVars, copyVars, ghostVars, RowsBacked
<1>5. HoldsBacked'
  BY <1>1, EntriesDistinct DEF RecheckHolds, Goto, rows, apiVars, runVars, copyVars, ghostVars,
                               HoldsBacked, Shapes
<1>6. GuardsDurable'
  BY <1>1, EntriesDistinct DEF RecheckHolds, Goto, rows, apiVars, runVars, copyVars, ghostVars,
                               GuardsDurable, HoldsBacked, Shapes, Reconciled
<1>7. StartUnguarded'
  BY <1>1 DEF RecheckHolds, Goto, rows, apiVars, runVars, copyVars, ghostVars, StartUnguarded
<1>8. Unbegun'
  BY <1>1 DEF RecheckHolds, Goto, rows, apiVars, runVars, copyVars, ghostVars, Unbegun
<1>9. LossIsRecorded'
  BY <1>1 DEF RecheckHolds, Goto, rows, apiVars, runVars, copyVars, ghostVars, LossIsRecorded
<1>10. QED
  BY <1>2, <1>3, <1>4, <1>5, <1>6, <1>7, <1>8, <1>9

LEMMA ReconcileObjectsKeeps == ASSUME DeletionInv, ReconcileObjects PROVE DeletionInv'
<1> USE DEF DeletionInv
<1>1. (Begun' <=> Begun) /\ (Completed \in ledger' <=> Completed \in ledger)
  BY DEF ReconcileObjects, Begun, Empty
<1>2. Shapes'
  BY <1>1 DEF ReconcileObjects, Goto, Empty, Buckets, rows, apiVars, runVars, copyVars, ghostVars,
              Shapes
<1>3. RunnerBacked'
  BY <1>1 DEF ReconcileObjects, Goto, Empty, Buckets, rows, apiVars, runVars, copyVars, ghostVars,
              RunnerBacked, Carrying
<1>4. RowsBacked'
  BY <1>1 DEF ReconcileObjects, Goto, Empty, Buckets, rows, apiVars, runVars, copyVars, ghostVars,
              RowsBacked
<1>5. HoldsBacked'
  BY <1>1, EntriesDistinct DEF ReconcileObjects, Goto, Empty, Buckets, rows, apiVars, runVars,
                               copyVars, ghostVars, HoldsBacked, Shapes
<1>6. GuardsDurable'
  BY <1>1, EntriesDistinct DEF ReconcileObjects, Goto, Empty, Buckets, rows, apiVars, runVars,
                               copyVars, ghostVars, GuardsDurable, HoldsBacked, Shapes, Reconciled
<1>7. StartUnguarded'
  BY <1>1 DEF ReconcileObjects, Goto, Empty, Buckets, rows, apiVars, runVars, copyVars, ghostVars,
              StartUnguarded
<1>8. Unbegun'
  BY <1>1 DEF ReconcileObjects, Goto, Empty, Buckets, rows, apiVars, runVars, copyVars, ghostVars,
              Unbegun
<1>9. LossIsRecorded'
  BY <1>1 DEF ReconcileObjects, Goto, Empty, Buckets, rows, apiVars, runVars, copyVars, ghostVars,
              LossIsRecorded, RunnerBacked, Carrying
<1>10. QED
  BY <1>2, <1>3, <1>4, <1>5, <1>6, <1>7, <1>8, <1>9

LEMMA ReconcileFinishKeeps == ASSUME DeletionInv, ReconcileFinish PROVE DeletionInv'
<1> USE DEF DeletionInv
<1>1. (Begun' <=> Begun) /\ (Completed \in ledger' <=> Completed \in ledger)
  BY DEF ReconcileFinish, Begun, FinishInDb
<1>2. Shapes'
  BY <1>1 DEF ReconcileFinish, Goto, FinishInDb, rows, apiVars, runVars, copyVars, ghostVars, Shapes
<1>3. RunnerBacked'
  BY <1>1 DEF ReconcileFinish, Goto, FinishInDb, rows, apiVars, runVars, copyVars, ghostVars,
              RunnerBacked, Carrying
<1>4. RowsBacked'
  BY <1>1 DEF ReconcileFinish, Goto, FinishInDb, rows, apiVars, runVars, copyVars, ghostVars,
              RowsBacked, RunnerBacked
<1>5. HoldsBacked'
  BY <1>1, EntriesDistinct DEF ReconcileFinish, Goto, FinishInDb, rows, apiVars, runVars, copyVars,
                               ghostVars, HoldsBacked, Shapes
<1>6. GuardsDurable'
  BY <1>1, EntriesDistinct DEF ReconcileFinish, Goto, FinishInDb, rows, apiVars, runVars, copyVars,
                               ghostVars, GuardsDurable, HoldsBacked, Shapes, Reconciled
<1>7. StartUnguarded'
  BY <1>1 DEF ReconcileFinish, Goto, FinishInDb, rows, apiVars, runVars, copyVars, ghostVars,
              StartUnguarded
<1>8. Unbegun'
  BY <1>1 DEF ReconcileFinish, Goto, FinishInDb, rows, apiVars, runVars, copyVars, ghostVars,
              Unbegun
<1>9. LossIsRecorded'
  BY <1>1 DEF ReconcileFinish, Goto, FinishInDb, rows, apiVars, runVars, copyVars, ghostVars,
              LossIsRecorded, RunnerBacked, Carrying
<1>10. QED
  BY <1>2, <1>3, <1>4, <1>5, <1>6, <1>7, <1>8, <1>9

LEMMA ReconcileCloseKeeps == ASSUME DeletionInv, ReconcileClose PROVE DeletionInv'
<1> USE DEF DeletionInv
<1>1. (Begun' <=> Begun) /\ (Completed \in ledger' <=> Completed \in ledger)
  BY DEF ReconcileClose, Begun
<1>2. Shapes'
  BY <1>1 DEF ReconcileClose, Goto, rows, apiVars, runVars, copyVars, ghostVars, Shapes
<1>3. RunnerBacked'
  BY <1>1 DEF ReconcileClose, Goto, rows, apiVars, runVars, copyVars, ghostVars, RunnerBacked,
              Carrying
<1>4. RowsBacked'
  BY <1>1 DEF ReconcileClose, Goto, rows, apiVars, runVars, copyVars, ghostVars, RowsBacked
<1>5. HoldsBacked'
  BY <1>1, EntriesDistinct DEF ReconcileClose, Goto, rows, apiVars, runVars, copyVars, ghostVars,
                               HoldsBacked, Shapes
<1>6. GuardsDurable'
  BY <1>1, EntriesDistinct DEF ReconcileClose, Goto, rows, apiVars, runVars, copyVars, ghostVars,
                               GuardsDurable, HoldsBacked, Shapes, Reconciled
<1>7. StartUnguarded'
  BY <1>1 DEF ReconcileClose, Goto, rows, apiVars, runVars, copyVars, ghostVars, StartUnguarded
<1>8. Unbegun'
  BY <1>1 DEF ReconcileClose, Goto, rows, apiVars, runVars, copyVars, ghostVars, Unbegun
<1>9. LossIsRecorded'
  BY <1>1 DEF ReconcileClose, Goto, rows, apiVars, runVars, copyVars, ghostVars, LossIsRecorded
<1>10. QED
  BY <1>2, <1>3, <1>4, <1>5, <1>6, <1>7, <1>8, <1>9

LEMMA ReconcileHoldsKeeps == ASSUME DeletionInv, ReconcileHolds PROVE DeletionInv'
<1> USE DEF DeletionInv
<1>1. (Begun' <=> Begun) /\ (Completed \in ledger' <=> Completed \in ledger)
  BY DEF ReconcileHolds, Begun
<1>2. Shapes'
  BY <1>1 DEF ReconcileHolds, Goto, Guard, rows, apiVars, runVars, copyVars, ghostVars, Shapes
<1>3. RunnerBacked'
  BY <1>1 DEF ReconcileHolds, Goto, Guard, rows, apiVars, runVars, copyVars, ghostVars,
              RunnerBacked, Carrying
<1>4. RowsBacked'
  BY <1>1 DEF ReconcileHolds, Goto, Guard, rows, apiVars, runVars, copyVars, ghostVars, RowsBacked
<1>5. HoldsBacked'
  BY <1>1, EntriesDistinct DEF ReconcileHolds, Goto, Guard, rows, apiVars, runVars, copyVars,
                               ghostVars, HoldsBacked, Shapes
<1>6. GuardsDurable'
  BY <1>1, EntriesDistinct DEF ReconcileHolds, Goto, Guard, rows, apiVars, runVars, copyVars,
                               ghostVars, GuardsDurable, HoldsBacked, Shapes, Reconciled
<1>7. StartUnguarded'
  BY <1>1 DEF ReconcileHolds, Goto, Guard, rows, apiVars, runVars, copyVars, ghostVars,
              StartUnguarded
<1>8. Unbegun'
  BY <1>1 DEF ReconcileHolds, Goto, Guard, rows, apiVars, runVars, copyVars, ghostVars, Unbegun,
              Guard
<1>9. LossIsRecorded'
  BY <1>1 DEF ReconcileHolds, Goto, Guard, rows, apiVars, runVars, copyVars, ghostVars,
              LossIsRecorded
<1>10. QED
  BY <1>2, <1>3, <1>4, <1>5, <1>6, <1>7, <1>8, <1>9

LEMMA SelectRequestKeeps == ASSUME DeletionInv, SelectRequest PROVE DeletionInv'
<1> USE DEF DeletionInv
<1>1. (Begun' <=> Begun) /\ (Completed \in ledger' <=> Completed \in ledger)
  BY DEF SelectRequest, Begun
<1>2. Shapes'
  BY <1>1 DEF SelectRequest, Goto, rows, apiVars, runVars, copyVars, ghostVars, Shapes
<1>3. RunnerBacked'
  BY <1>1 DEF SelectRequest, Goto, rows, apiVars, runVars, copyVars, ghostVars, RunnerBacked,
              Carrying
<1>4. RowsBacked'
  BY <1>1 DEF SelectRequest, Goto, rows, apiVars, runVars, copyVars, ghostVars, RowsBacked
<1>5. HoldsBacked'
  BY <1>1, EntriesDistinct DEF SelectRequest, Goto, rows, apiVars, runVars, copyVars, ghostVars,
                               HoldsBacked, Shapes
<1>6. GuardsDurable'
  BY <1>1, EntriesDistinct DEF SelectRequest, Goto, rows, apiVars, runVars, copyVars, ghostVars,
                               GuardsDurable, HoldsBacked, Shapes, Reconciled
<1>7. StartUnguarded'
  BY <1>1 DEF SelectRequest, Goto, rows, apiVars, runVars, copyVars, ghostVars, StartUnguarded
<1>8. Unbegun'
  BY <1>1 DEF SelectRequest, Goto, rows, apiVars, runVars, copyVars, ghostVars, Unbegun
<1>9. LossIsRecorded'
  BY <1>1 DEF SelectRequest, Goto, rows, apiVars, runVars, copyVars, ghostVars, LossIsRecorded
<1>10. QED
  BY <1>2, <1>3, <1>4, <1>5, <1>6, <1>7, <1>8, <1>9

LEMMA BeginDeletionKeeps == ASSUME DeletionInv, BeginDeletion PROVE DeletionInv'
<1> USE DEF DeletionInv
<1>1. (Begun' <=> Begun) /\ (Completed \in ledger' <=> Completed \in ledger)
  BY DEF BeginDeletion, Begun
<1>2. Shapes'
  BY <1>1 DEF BeginDeletion, Goto, MayBegin, Held, rows, apiVars, runVars, copyVars, ghostVars,
              Shapes
<1>3. RunnerBacked'
  BY <1>1 DEF BeginDeletion, Goto, MayBegin, Held, rows, apiVars, runVars, copyVars, ghostVars,
              RunnerBacked, Carrying
<1>4. RowsBacked'
  BY <1>1 DEF BeginDeletion, Goto, MayBegin, Held, rows, apiVars, runVars, copyVars, ghostVars,
              RowsBacked, MayBegin
<1>5. HoldsBacked'
  BY <1>1, EntriesDistinct DEF BeginDeletion, Goto, MayBegin, Held, rows, apiVars, runVars,
                               copyVars, ghostVars, HoldsBacked, Shapes
<1>6. GuardsDurable'
  BY <1>1, EntriesDistinct DEF BeginDeletion, Goto, MayBegin, Held, rows, apiVars, runVars,
                               copyVars, ghostVars, GuardsDurable, HoldsBacked, Shapes, Reconciled
<1>7. StartUnguarded'
  BY <1>1 DEF BeginDeletion, Goto, MayBegin, Held, rows, apiVars, runVars, copyVars, ghostVars,
              StartUnguarded, GuardsDurable, RowsBacked, Reconciled
<1>8. Unbegun'
  BY <1>1 DEF BeginDeletion, Goto, MayBegin, Held, rows, apiVars, runVars, copyVars, ghostVars,
              Unbegun
<1>9. LossIsRecorded'
  BY <1>1 DEF BeginDeletion, Goto, MayBegin, Held, rows, apiVars, runVars, copyVars, ghostVars,
              LossIsRecorded
<1>10. QED
  BY <1>2, <1>3, <1>4, <1>5, <1>6, <1>7, <1>8, <1>9

LEMMA DeleteObjectsKeeps == ASSUME DeletionInv, DeleteObjects PROVE DeletionInv'
<1> USE DEF DeletionInv
<1>1. (Begun' <=> Begun) /\ (Completed \in ledger' <=> Completed \in ledger)
  BY DEF DeleteObjects, Begun, CheckHolds, Empty
<1>2. Shapes'
  BY <1>1 DEF DeleteObjects, Goto, CheckHolds, Empty, Buckets, rows, apiVars, runVars, copyVars,
              ghostVars, Shapes
<1>3. RunnerBacked'
  BY <1>1 DEF DeleteObjects, Goto, CheckHolds, Empty, Buckets, rows, apiVars, runVars, copyVars,
              ghostVars, RunnerBacked, Carrying
<1>4. RowsBacked'
  BY <1>1 DEF DeleteObjects, Goto, CheckHolds, Empty, Buckets, rows, apiVars, runVars, copyVars,
              ghostVars, RowsBacked
<1>5. HoldsBacked'
  BY <1>1, EntriesDistinct DEF DeleteObjects, Goto, CheckHolds, Empty, Buckets, rows, apiVars,
                               runVars, copyVars, ghostVars, HoldsBacked, Shapes
<1>6. GuardsDurable'
  BY <1>1, EntriesDistinct DEF DeleteObjects, Goto, CheckHolds, Empty, Buckets, rows, apiVars,
                               runVars, copyVars, ghostVars, GuardsDurable, HoldsBacked, Shapes,
                               Reconciled
<1>7. StartUnguarded'
  BY <1>1 DEF DeleteObjects, Goto, CheckHolds, Empty, Buckets, rows, apiVars, runVars, copyVars,
              ghostVars, StartUnguarded
<1>8. Unbegun'
  BY <1>1 DEF DeleteObjects, Goto, CheckHolds, Empty, Buckets, rows, apiVars, runVars, copyVars,
              ghostVars, Unbegun
<1>9. LossIsRecorded'
  BY <1>1 DEF DeleteObjects, Goto, CheckHolds, Empty, Buckets, rows, apiVars, runVars, copyVars,
              ghostVars, LossIsRecorded, RunnerBacked, Carrying
<1>10. QED
  BY <1>2, <1>3, <1>4, <1>5, <1>6, <1>7, <1>8, <1>9

LEMMA FinishKeeps == ASSUME DeletionInv, Finish PROVE DeletionInv'
<1> USE DEF DeletionInv
<1>1. (Begun' <=> Begun) /\ (Completed \in ledger' <=> Completed \in ledger)
  BY DEF Finish, Begun, FinishInDb
<1>2. Shapes'
  BY <1>1 DEF Finish, Goto, FinishInDb, rows, apiVars, runVars, copyVars, ghostVars, Shapes
<1>3. RunnerBacked'
  BY <1>1 DEF Finish, Goto, FinishInDb, rows, apiVars, runVars, copyVars, ghostVars, RunnerBacked,
              Carrying
<1>4. RowsBacked'
  BY <1>1 DEF Finish, Goto, FinishInDb, rows, apiVars, runVars, copyVars, ghostVars, RowsBacked,
              RunnerBacked
<1>5. HoldsBacked'
  BY <1>1, EntriesDistinct DEF Finish, Goto, FinishInDb, rows, apiVars, runVars, copyVars,
                               ghostVars, HoldsBacked, Shapes
<1>6. GuardsDurable'
  BY <1>1, EntriesDistinct DEF Finish, Goto, FinishInDb, rows, apiVars, runVars, copyVars,
                               ghostVars, GuardsDurable, HoldsBacked, Shapes, Reconciled
<1>7. StartUnguarded'
  BY <1>1 DEF Finish, Goto, FinishInDb, rows, apiVars, runVars, copyVars, ghostVars, StartUnguarded
<1>8. Unbegun'
  BY <1>1 DEF Finish, Goto, FinishInDb, rows, apiVars, runVars, copyVars, ghostVars, Unbegun
<1>9. LossIsRecorded'
  BY <1>1 DEF Finish, Goto, FinishInDb, rows, apiVars, runVars, copyVars, ghostVars, LossIsRecorded,
              RunnerBacked, Carrying
<1>10. QED
  BY <1>2, <1>3, <1>4, <1>5, <1>6, <1>7, <1>8, <1>9

LEMMA RunnerDiesKeeps == ASSUME DeletionInv, RunnerDies PROVE DeletionInv'
<1> USE DEF DeletionInv
<1>1. (Begun' <=> Begun) /\ (Completed \in ledger' <=> Completed \in ledger)
  BY DEF RunnerDies, Begun
<1>2. Shapes'
  BY <1>1 DEF RunnerDies, Goto, rows, apiVars, runVars, copyVars, ghostVars, Shapes
<1>3. RunnerBacked'
  BY <1>1 DEF RunnerDies, Goto, rows, apiVars, runVars, copyVars, ghostVars, RunnerBacked, Carrying
<1>4. RowsBacked'
  BY <1>1 DEF RunnerDies, Goto, rows, apiVars, runVars, copyVars, ghostVars, RowsBacked
<1>5. HoldsBacked'
  BY <1>1, EntriesDistinct DEF RunnerDies, Goto, rows, apiVars, runVars, copyVars, ghostVars,
                               HoldsBacked, Shapes
<1>6. GuardsDurable'
  BY <1>1, EntriesDistinct DEF RunnerDies, Goto, rows, apiVars, runVars, copyVars, ghostVars,
                               GuardsDurable, HoldsBacked, Shapes, Reconciled
<1>7. StartUnguarded'
  BY <1>1 DEF RunnerDies, Goto, rows, apiVars, runVars, copyVars, ghostVars, StartUnguarded
<1>8. Unbegun'
  BY <1>1 DEF RunnerDies, Goto, rows, apiVars, runVars, copyVars, ghostVars, Unbegun
<1>9. LossIsRecorded'
  BY <1>1 DEF RunnerDies, Goto, rows, apiVars, runVars, copyVars, ghostVars, LossIsRecorded
<1>10. QED
  BY <1>2, <1>3, <1>4, <1>5, <1>6, <1>7, <1>8, <1>9

LEMMA ReconcileCompleteKeeps == ASSUME DeletionInv, ReconcileComplete PROVE DeletionInv'
<1> USE DEF DeletionInv
<1>1. Begun /\ Begun' /\ ledger \subseteq ledger'
  BY BegunStays DEF ReconcileComplete, Append, RunnerBacked, Carrying
<1>2. ledger' \subseteq ledger \cup {Completed}
  BY DEF ReconcileComplete, Append
<1>3. Shapes'
  BY <1>1, <1>2 DEF ReconcileComplete, Goto, Append, rows, apiVars, runVars, copyVars, ghostVars,
                    Shapes
<1>4. RunnerBacked'
  BY <1>1, <1>2 DEF ReconcileComplete, Goto, Append, rows, apiVars, runVars, copyVars, ghostVars,
                    RunnerBacked, Carrying
<1>5. RowsBacked'
  BY <1>1, <1>2 DEF ReconcileComplete, Goto, Append, rows, apiVars, runVars, copyVars, ghostVars,
                    RowsBacked
<1>6. HoldsBacked'
  BY <1>1, <1>2, EntriesDistinct DEF ReconcileComplete, Goto, Append, rows, apiVars, runVars,
                                     copyVars, ghostVars, HoldsBacked, Shapes
<1>7. GuardsDurable'
  BY <1>1, <1>2, EntriesDistinct DEF ReconcileComplete, Goto, Append, rows, apiVars, runVars,
                                     copyVars, ghostVars, GuardsDurable, HoldsBacked, Shapes,
                                     Reconciled
<1>8. StartUnguarded'
  BY <1>1, <1>2 DEF ReconcileComplete, Goto, Append, rows, apiVars, runVars, copyVars, ghostVars,
                    StartUnguarded
<1>9. Unbegun'
  BY <1>1, <1>2 DEF ReconcileComplete, Goto, Append, rows, apiVars, runVars, copyVars, ghostVars,
                    Unbegun
<1>10. LossIsRecorded'
  BY <1>1, <1>2 DEF ReconcileComplete, Goto, Append, rows, apiVars, runVars, copyVars, ghostVars,
                    LossIsRecorded
<1>11. QED
  BY <1>3, <1>4, <1>5, <1>6, <1>7, <1>8, <1>9, <1>10

LEMMA RecordCompleteKeeps == ASSUME DeletionInv, RecordComplete PROVE DeletionInv'
<1> USE DEF DeletionInv
<1>1. Begun /\ Begun' /\ ledger \subseteq ledger'
  BY BegunStays DEF RecordComplete, Append, RunnerBacked, Carrying
<1>2. ledger' \subseteq ledger \cup {Completed}
  BY DEF RecordComplete, Append
<1>3. Shapes'
  BY <1>1, <1>2 DEF RecordComplete, Goto, Append, rows, apiVars, runVars, copyVars, ghostVars,
                    Shapes
<1>4. RunnerBacked'
  BY <1>1, <1>2 DEF RecordComplete, Goto, Append, rows, apiVars, runVars, copyVars, ghostVars,
                    RunnerBacked, Carrying
<1>5. RowsBacked'
  BY <1>1, <1>2 DEF RecordComplete, Goto, Append, rows, apiVars, runVars, copyVars, ghostVars,
                    RowsBacked
<1>6. HoldsBacked'
  BY <1>1, <1>2, EntriesDistinct DEF RecordComplete, Goto, Append, rows, apiVars, runVars, copyVars,
                                     ghostVars, HoldsBacked, Shapes
<1>7. GuardsDurable'
  BY <1>1, <1>2, EntriesDistinct DEF RecordComplete, Goto, Append, rows, apiVars, runVars, copyVars,
                                     ghostVars, GuardsDurable, HoldsBacked, Shapes, Reconciled
<1>8. StartUnguarded'
  BY <1>1, <1>2 DEF RecordComplete, Goto, Append, rows, apiVars, runVars, copyVars, ghostVars,
                    StartUnguarded
<1>9. Unbegun'
  BY <1>1, <1>2 DEF RecordComplete, Goto, Append, rows, apiVars, runVars, copyVars, ghostVars,
                    Unbegun
<1>10. LossIsRecorded'
  BY <1>1, <1>2 DEF RecordComplete, Goto, Append, rows, apiVars, runVars, copyVars, ghostVars,
                    LossIsRecorded
<1>11. QED
  BY <1>3, <1>4, <1>5, <1>6, <1>7, <1>8, <1>9, <1>10

LEMMA RecordStartKeeps == ASSUME DeletionInv, RecordStart PROVE DeletionInv'
<1> USE DEF DeletionInv
<1>1. ledger \subseteq ledger' /\ guarded = {} /\ guarded' = {} /\ ledger' \subseteq ledger \cup {Started(rid)}
  BY DEF RecordStart, Append, StartUnguarded, ghostVars
<1>2. rid \in Requests
  BY DEF RecordStart, Append, RowsBacked
<1>3. Begun => Begun'
  BY <1>1, BegunStays
<1>4. (Completed \in ledger' <=> Completed \in ledger)
  BY <1>1, <1>2, EntriesDistinct
<1>5. pc' \in Carrying => Begun'
  BY <1>2 DEF RecordStart, Append, Goto, Begun, Carrying
<1>6. Shapes'
  BY <1>1, <1>2, <1>3, <1>4, <1>5 DEF RecordStart, Goto, Append, rows, apiVars, runVars, copyVars,
                                      ghostVars, Shapes
<1>7. RunnerBacked'
  BY <1>1, <1>2, <1>3, <1>4, <1>5 DEF RecordStart, Goto, Append, rows, apiVars, runVars, copyVars,
                                      ghostVars, RunnerBacked, Carrying
<1>8. RowsBacked'
  BY <1>1, <1>2, <1>3, <1>4, <1>5 DEF RecordStart, Goto, Append, rows, apiVars, runVars, copyVars,
                                      ghostVars, RowsBacked
<1>9. HoldsBacked'
  BY <1>1, <1>2, <1>3, <1>4, <1>5, EntriesDistinct DEF RecordStart, Goto, Append, rows, apiVars,
                                                       runVars, copyVars, ghostVars, HoldsBacked,
                                                       Shapes
<1>10. GuardsDurable'
  BY <1>1, <1>2, <1>3, <1>4, <1>5, EntriesDistinct DEF RecordStart, Goto, Append, rows, apiVars,
                                                       runVars, copyVars, ghostVars, GuardsDurable,
                                                       HoldsBacked, Shapes, Reconciled
<1>11. StartUnguarded'
  BY <1>1, <1>2, <1>3, <1>4, <1>5 DEF RecordStart, Goto, Append, rows, apiVars, runVars, copyVars,
                                      ghostVars, StartUnguarded
<1>12. Unbegun'
  BY <1>1, <1>2, <1>3, <1>4, <1>5 DEF RecordStart, Goto, Append, rows, apiVars, runVars, copyVars,
                                      ghostVars, Unbegun
<1>13. LossIsRecorded'
  BY <1>1, <1>2, <1>3, <1>4, <1>5 DEF RecordStart, Goto, Append, rows, apiVars, runVars, copyVars,
                                      ghostVars, LossIsRecorded
<1>14. QED
  BY <1>6, <1>7, <1>8, <1>9, <1>10, <1>11, <1>12, <1>13

LEMMA TakeBackupKeeps == ASSUME DeletionInv, TakeBackup PROVE DeletionInv'
<1> USE DEF DeletionInv
<1>1. (Begun' <=> Begun) /\ (Completed \in ledger' <=> Completed \in ledger)
  BY DEF TakeBackup, Begun
<1>2. Shapes'
  BY <1>1 DEF TakeBackup, Now, rows, apiVars, runVars, copyVars, ghostVars, Shapes
<1>3. RunnerBacked'
  BY <1>1 DEF TakeBackup, Now, rows, apiVars, runVars, copyVars, ghostVars, RunnerBacked, Carrying
<1>4. RowsBacked'
  BY <1>1 DEF TakeBackup, Now, rows, apiVars, runVars, copyVars, ghostVars, RowsBacked,
              LossIsRecorded
<1>5. HoldsBacked'
  BY <1>1, EntriesDistinct DEF TakeBackup, Now, rows, apiVars, runVars, copyVars, ghostVars,
                               HoldsBacked, Shapes
<1>6. GuardsDurable'
  BY <1>1, EntriesDistinct DEF TakeBackup, Now, rows, apiVars, runVars, copyVars, ghostVars,
                               GuardsDurable, HoldsBacked, Shapes, Reconciled
<1>7. StartUnguarded'
  BY <1>1 DEF TakeBackup, Now, rows, apiVars, runVars, copyVars, ghostVars, StartUnguarded
<1>8. Unbegun'
  BY <1>1 DEF TakeBackup, Now, rows, apiVars, runVars, copyVars, ghostVars, Unbegun
<1>9. LossIsRecorded'
  BY <1>1 DEF TakeBackup, Now, rows, apiVars, runVars, copyVars, ghostVars, LossIsRecorded
<1>10. QED
  BY <1>2, <1>3, <1>4, <1>5, <1>6, <1>7, <1>8, <1>9

LEMMA RestoreDatabaseKeeps == ASSUME DeletionInv, RestoreDatabase PROVE DeletionInv'
<1> USE DEF DeletionInv
<1>1. (Begun' <=> Begun) /\ (Completed \in ledger' <=> Completed \in ledger)
  BY DEF RestoreDatabase, Begun
<1>2. Shapes'
  BY <1>1 DEF RestoreDatabase, rows, apiVars, runVars, copyVars, ghostVars, Shapes
<1>3. RunnerBacked'
  BY <1>1 DEF RestoreDatabase, rows, apiVars, runVars, copyVars, ghostVars, RunnerBacked, Carrying
<1>4. RowsBacked'
  BY <1>1 DEF RestoreDatabase, rows, apiVars, runVars, copyVars, ghostVars, RowsBacked
<1>5. HoldsBacked'
  BY <1>1, EntriesDistinct DEF RestoreDatabase, rows, apiVars, runVars, copyVars, ghostVars,
                               HoldsBacked, Shapes
<1>6. GuardsDurable'
  BY <1>1, EntriesDistinct DEF RestoreDatabase, rows, apiVars, runVars, copyVars, ghostVars,
                               GuardsDurable, HoldsBacked, Shapes, Reconciled
<1>7. StartUnguarded'
  BY <1>1 DEF RestoreDatabase, rows, apiVars, runVars, copyVars, ghostVars, StartUnguarded
<1>8. Unbegun'
  BY <1>1 DEF RestoreDatabase, rows, apiVars, runVars, copyVars, ghostVars, Unbegun
<1>9. LossIsRecorded'
  BY <1>1 DEF RestoreDatabase, rows, apiVars, runVars, copyVars, ghostVars, LossIsRecorded,
              RowsBacked
<1>10. QED
  BY <1>2, <1>3, <1>4, <1>5, <1>6, <1>7, <1>8, <1>9

LEMMA RequestDeletionKeeps == ASSUME DeletionInv, RequestDeletion PROVE DeletionInv'
<1> USE DEF DeletionInv, rows, apiVars, runVars, copyVars, ghostVars
<1>1. issued + 1 \in Requests /\ issued + 1 \in Nat
  BY ConstantsAssumption DEF RequestDeletion, Requests, Shapes
<1>2. (Begun' <=> Begun) /\ req \in {"NONE", "REJECTED", "CANCELLED"} /\ req' = "REQUESTED"
  BY DEF RequestDeletion, Begun
<1>3. Shapes'
  BY <1>1, <1>2 DEF RequestDeletion, Shapes
<1>4. RunnerBacked'
  BY <1>1, <1>2 DEF RequestDeletion, RunnerBacked
<1>5. RowsBacked'
  BY <1>1, <1>2 DEF RequestDeletion, RowsBacked
<1>6. HoldsBacked'
  BY <1>1, <1>2 DEF RequestDeletion, HoldsBacked
<1>7. GuardsDurable'
  BY <1>1, <1>2 DEF RequestDeletion, GuardsDurable
<1>8. StartUnguarded'
  BY <1>1, <1>2 DEF RequestDeletion, StartUnguarded
<1>9. Unbegun'
  BY <1>1, <1>2 DEF RequestDeletion, Unbegun
<1>10. LossIsRecorded'
  BY <1>1, <1>2 DEF RequestDeletion, LossIsRecorded
<1>11. QED
  BY <1>3, <1>4, <1>5, <1>6, <1>7, <1>8, <1>9, <1>10

LEMMA DeletionStep == DeletionInv /\ [Next]_vars => DeletionInv'
<1>1. ASSUME DeletionInv, Next PROVE DeletionInv'
  <2> USE DEF rows, apiVars, runVars, copyVars, ghostVars
  <2>1. ASSUME NEW h \in Holds, LoseHold(h) PROVE DeletionInv'
    BY <1>1, <2>1, Elsewhere DEF LoseHold, DeletionInv, Shapes
  <2>2. ASSUME ApproveDeletion PROVE DeletionInv'
    BY <1>1, <2>2, Elsewhere DEF ApproveDeletion, DeletionInv, Shapes
  <2>3. ASSUME NEW to \in {"REJECTED", "CANCELLED"}, CloseRequest(to) PROVE DeletionInv'
    BY <1>1, <2>3, Elsewhere DEF CloseRequest, DeletionInv, Shapes
  <2>4. ASSUME PassTime PROVE DeletionInv'
    BY <1>1, <2>4, Elsewhere DEF PassTime, DeletionInv, Shapes
  <2>5. ASSUME ChangeRetention PROVE DeletionInv'
    BY <1>1, <2>5, Elsewhere DEF ChangeRetention, DeletionInv, Shapes
  <2>6. ASSUME Replicate \/ BackupStops \/ Repair PROVE DeletionInv'
    BY <1>1, <2>6, Elsewhere DEF DeletionInv, Shapes, Replicate, BackupStops, Repair, Buckets,
                                 Wrote, BackupFailed,
       BackupStart, BackupClaim, BackupRead, BackupPut, BackupReadBack, BackupVerify,
       RepairStart, RepairRecheck, RepairPromote
  <2>7. QED
    BY <1>1, <2>1, <2>2, <2>3, <2>4, <2>5, <2>6, RequestDeletionKeeps,
       AppendHoldKeeps, CreateHoldKeeps, PlaceUnledgeredKeeps, ReleaseHoldKeeps, AppendReleaseKeeps, SyncHoldsKeeps, DurableGateKeeps, ReadLedgerKeeps, RecheckHoldsKeeps, ReconcileObjectsKeeps, ReconcileFinishKeeps, ReconcileCloseKeeps, ReconcileHoldsKeeps, SelectRequestKeeps, BeginDeletionKeeps, DeleteObjectsKeeps, FinishKeeps, RunnerDiesKeeps, ReconcileCompleteKeeps, RecordCompleteKeeps, RecordStartKeeps, TakeBackupKeeps, RestoreDatabaseKeeps
       DEF Next, Run
<1>2. ASSUME DeletionInv, UNCHANGED vars PROVE DeletionInv'
  BY <1>2, Elsewhere DEF vars, rows, apiVars, runVars, copyVars, ghostVars, DeletionInv, Shapes
<1>3. QED
  BY <1>1, <1>2

\* What the ledger holds is enough to know what may be gone, and a durable hold
\* keeps the photo, through crashes, failed calls and restores of the database.
THEOREM DeletionInvariant == Spec => []DeletionInv
<1>1. Init => DeletionInv
  <2> SUFFICES ASSUME Init PROVE DeletionInv
    OBVIOUS
  <2>1. Shapes
    BY DEF Init, Shapes, Buckets
  <2>2. object["primary"]
    BY DEF Init, Buckets
  <2>3. ~Begun /\ Completed \notin ledger
    BY DEF Init, Begun
  <2>4. RunnerBacked /\ RowsBacked
    BY DEF Init, RunnerBacked, Carrying, RowsBacked
  <2>5. HoldsBacked /\ GuardsDurable
    BY DEF Init, HoldsBacked, GuardsDurable
  <2>6. StartUnguarded /\ Unbegun
    BY DEF Init, StartUnguarded, Unbegun
  <2>7. LossIsRecorded
    BY <2>2, <2>3 DEF Init, LossIsRecorded
  <2>8. QED
    BY <2>1, <2>4, <2>5, <2>6, <2>7 DEF DeletionInv
<1>2. QED
  BY <1>1, DeletionStep, PTL DEF Spec

\* The photo leaves the primary bucket only when the ledger has the start of its
\* deletion, and a file shown as DELETED has both entries there.
THEOREM LossesAreRecorded == Spec => []LossIsRecorded
<1>1. QED
  BY DeletionInvariant, PTL DEF DeletionInv

\* A hold that was durable before the deletion began keeps the photo until it is
\* released (syncHoldLedger, the durable gate, reconcileHolds, beginDeletion).
THEOREM HoldsGuard == Spec => []HoldGuards
<1>1. DeletionInv => HoldGuards
  BY DEF DeletionInv, Unbegun, LossIsRecorded, HoldGuards
<1>2. QED
  BY <1>1, DeletionInvariant, PTL

-----------------------------------------------------------------------------
(* A deletion that is complete left nothing. *)

\* Until a copy is written for a file whose deletion has begun, the runner's
\* place tells which buckets it has emptied.
RunnerEmptied ==
    ~late =>
        /\ pc \in {"recBackup", "recComplete", "checkBackup", "delBackup", "complete"} => ~object["primary"]
        /\ pc \in {"recComplete", "complete"} => ~object["backup"]

EmptiedInv == DeletionInv /\ RunnerEmptied /\ CompletedIsGone

\* What keeps it: nothing is written once the deletion has begun, and the
\* runner's place and the completion stay, or go back.
LEMMA NothingWritten ==
    ASSUME RunnerEmptied, CompletedIsGone, late' = late,
           \A b \in Buckets : object'[b] => object[b],
           pc' = pc \/ pc' \notin {"recBackup", "recComplete", "checkBackup", "delBackup", "complete"},
           Completed \in ledger' => Completed \in ledger
    PROVE  RunnerEmptied' /\ CompletedIsGone'
<1>1. RunnerEmptied'
  BY DEF RunnerEmptied, Buckets
<1>2. CompletedIsGone'
  BY DEF CompletedIsGone
<1>3. QED
  BY <1>1, <1>2

LEMMA HoldLedgerEmptied ==
    ASSUME EmptiedInv, NEW h \in Holds,
           AppendHold(h) \/ CreateHold(h) \/ LoseHold(h) \/ PlaceUnledgered(h) \/ ReleaseHold(h) \/ AppendRelease(h)
    PROVE  RunnerEmptied' /\ CompletedIsGone'
<1>1. Completed \in ledger' => Completed \in ledger
  BY EntriesDistinct DEF AppendHold, CreateHold, LoseHold, PlaceUnledgered, ReleaseHold, AppendRelease
<1>2. late' = late /\ object' = object /\ pc' = pc
  BY DEF AppendHold, CreateHold, LoseHold, PlaceUnledgered, ReleaseHold, AppendRelease, runVars, ghostVars
<1>3. QED
  BY <1>1, <1>2, NothingWritten DEF EmptiedInv

LEMMA RequestsEmptied ==
    ASSUME EmptiedInv,
           \/ RequestDeletion \/ ApproveDeletion \/ PassTime \/ ChangeRetention
           \/ \E to \in {"REJECTED", "CANCELLED"} : CloseRequest(to)
           \/ TakeBackup \/ RestoreDatabase
    PROVE  RunnerEmptied' /\ CompletedIsGone'
<1>1. late' = late /\ object' = object /\ ledger' = ledger /\ (pc' = pc \/ pc' = "idle")
  BY DEF RequestDeletion, ApproveDeletion, PassTime, ChangeRetention, CloseRequest, TakeBackup, RestoreDatabase,
         runVars, ghostVars
<1>2. QED
  BY <1>1, NothingWritten DEF EmptiedInv

\* Steps of the runner that neither empty a bucket nor record the completion.
LEMMA RunnerElsewhere ==
    ASSUME EmptiedInv,
           \/ SyncHolds \/ DurableGate \/ ReadLedger \/ RecheckHolds \/ ReconcileFinish \/ ReconcileClose
           \/ ReconcileHolds \/ SelectRequest \/ BeginDeletion \/ RecordStart \/ Finish \/ RunnerDies
    PROVE  RunnerEmptied' /\ CompletedIsGone'
<1>1. late' = late /\ object' = object
  BY DEF SyncHolds, DurableGate, ReadLedger, RecheckHolds, ReconcileFinish, ReconcileClose, ReconcileHolds,
         SelectRequest, BeginDeletion, RecordStart, Append, Finish, FinishInDb, RunnerDies, ghostVars
<1>2. pc' \notin {"recBackup", "recComplete", "checkBackup", "delBackup", "complete"}
  BY DEF SyncHolds, DurableGate, ReadLedger, RecheckHolds, ReconcileFinish, ReconcileClose, ReconcileHolds,
         SelectRequest, BeginDeletion, RecordStart, Append, Finish, FinishInDb, RunnerDies, Goto
<1>3. Completed \in ledger' => Completed \in ledger
  <2>1. CASE SyncHolds
    <3>1. PICK done \in SUBSET ({Placed(h) : h \in Holds} \cup {Released(h) : h \in Holds}) :
             ledger' = ledger \cup done
      BY <2>1 DEF SyncHolds
    <3>2. QED
      BY <3>1, EntriesDistinct
  <2>2. CASE RecordStart
    <3>1. ledger' = ledger \/ ledger' = ledger \cup {Started(rid)}
      BY <2>2 DEF RecordStart, Append
    <3>2. Completed # Started(rid)
      BY DEF Completed, Started
    <3>3. QED
      BY <3>1, <3>2
  <2>3. CASE \/ DurableGate \/ ReadLedger \/ RecheckHolds \/ ReconcileFinish \/ ReconcileClose
             \/ ReconcileHolds \/ SelectRequest \/ BeginDeletion \/ Finish \/ RunnerDies
    BY <2>3 DEF DurableGate, ReadLedger, RecheckHolds, ReconcileFinish, ReconcileClose, ReconcileHolds,
                SelectRequest, BeginDeletion, Finish, FinishInDb, RunnerDies
  <2>4. QED
    BY <2>1, <2>2, <2>3
<1>4. QED
  BY <1>1, <1>2, <1>3, NothingWritten DEF EmptiedInv

\* Emptying a bucket (store.delete): the runner goes on only when it is empty.
LEMMA EmptyBucket ==
    ASSUME EmptiedInv, NEW b \in Buckets, NEW from, NEW to, NEW failed, Empty(b, from, to, failed),
           failed \notin {"recBackup", "recComplete", "checkBackup", "delBackup", "complete"},
           b = "primary" => to \notin {"recComplete", "complete"},
           b = "backup" => from \in {"recBackup", "delBackup"}
    PROVE  RunnerEmptied' /\ CompletedIsGone'
<1>1. late' = late /\ ledger' = ledger /\ object \in [Buckets -> BOOLEAN]
  BY DEF Empty, ghostVars, EmptiedInv, DeletionInv, Shapes
<1>2. \A c \in Buckets : object'[c] => object[c]
  BY <1>1 DEF Empty
<1>3. CASE pc' = failed
  BY <1>1, <1>2, <1>3, NothingWritten DEF EmptiedInv
<1>4. CASE pc' = to /\ object' = [object EXCEPT ![b] = FALSE]
  <2>1. ~object'[b] /\ pc = from
    BY <1>1, <1>4 DEF Empty
  <2>2. RunnerEmptied'
    BY <1>1, <1>2, <1>4, <2>1 DEF EmptiedInv, RunnerEmptied, Buckets
  <2>3. CompletedIsGone'
    BY <1>1, <1>2 DEF EmptiedInv, CompletedIsGone
  <2>4. QED
    BY <2>2, <2>3
<1>5. QED
  BY <1>3, <1>4 DEF Empty, Goto

LEMMA ObjectsEmptied ==
    ASSUME EmptiedInv, ReconcileObjects \/ DeleteObjects PROVE RunnerEmptied' /\ CompletedIsGone'
<1>1. CASE Empty("primary", "recPrimary", "recBackup", "recHolds")
  BY <1>1, EmptyBucket DEF Buckets
<1>2. CASE Empty("backup", "recBackup",
                 IF ~saw.row THEN "recHolds" ELSE IF saw.completed THEN "recFinish" ELSE "recComplete",
                 "recHolds")
  BY <1>2, EmptyBucket DEF Buckets
<1>3. CASE Empty("primary", "delPrimary", "checkBackup", "idle")
  BY <1>3, EmptyBucket DEF Buckets
<1>4. CASE Empty("backup", "delBackup", "complete", "idle")
  BY <1>4, EmptyBucket DEF Buckets
<1>5. CASE CheckHolds("checkPrimary", "delPrimary") \/ CheckHolds("checkBackup", "delBackup")
  <2>1. late' = late /\ ledger' = ledger /\ object' = object
    BY <1>5 DEF CheckHolds, ghostVars
  <2>2. RunnerEmptied'
    BY <1>5, <2>1 DEF CheckHolds, Goto, EmptiedInv, RunnerEmptied
  <2>3. CompletedIsGone'
    BY <2>1 DEF EmptiedInv, CompletedIsGone
  <2>4. QED
    BY <2>2, <2>3
<1>6. QED
  BY <1>1, <1>2, <1>3, <1>4, <1>5 DEF ReconcileObjects, DeleteObjects

LEMMA CompletionsEmptied ==
    ASSUME EmptiedInv, ReconcileComplete \/ RecordComplete PROVE RunnerEmptied' /\ CompletedIsGone'
<1>1. /\ late' = late /\ object' = object
      /\ pc \in {"recComplete", "complete"}
      /\ pc' \in {"recFinish", "recHolds", "finish", "idle"}
  BY DEF ReconcileComplete, RecordComplete, Append, Goto, ghostVars
<1>2. RunnerEmptied'
  BY <1>1 DEF RunnerEmptied
<1>3. CompletedIsGone'
  BY <1>1 DEF EmptiedInv, RunnerEmptied, CompletedIsGone, Buckets
<1>4. QED
  BY <1>2, <1>3

LEMMA CopiesEmptied ==
    ASSUME EmptiedInv, Replicate \/ BackupStops \/ Repair PROVE RunnerEmptied' /\ CompletedIsGone'
<1>1. ledger' = ledger /\ pc' = pc
  BY DEF Replicate, BackupStops, Repair, BackupStart, BackupClaim, BackupRead, BackupPut, BackupReadBack,
         BackupVerify, RepairStart, RepairRecheck, RepairPromote, runVars
<1>2. UNCHANGED <<late, object>> \/ late' = (late \/ Begun)
  BY DEF Replicate, BackupStops, Repair, BackupStart, BackupClaim, BackupRead, BackupPut, BackupReadBack,
         BackupVerify, RepairStart, RepairRecheck, RepairPromote, Wrote, ghostVars
<1>3. CASE UNCHANGED <<late, object>>
  BY <1>1, <1>3, NothingWritten DEF EmptiedInv
<1>4. CASE late' = (late \/ Begun)
  <2>1. CASE Begun
    BY <1>4, <2>1 DEF RunnerEmptied, CompletedIsGone
  <2>2. CASE ~Begun
    BY <1>1, <2>2 DEF EmptiedInv, DeletionInv, RunnerBacked, Carrying, LossIsRecorded, RunnerEmptied,
                      CompletedIsGone
  <2>3. QED
    BY <2>1, <2>2
<1>5. QED
  BY <1>2, <1>3, <1>4

LEMMA EmptiedStep == EmptiedInv /\ [Next]_vars => EmptiedInv'
<1>1. ASSUME EmptiedInv, Next PROVE RunnerEmptied' /\ CompletedIsGone'
  BY <1>1, HoldLedgerEmptied, RequestsEmptied, RunnerElsewhere, ObjectsEmptied, CompletionsEmptied, CopiesEmptied
     DEF Next, Run
<1>2. ASSUME EmptiedInv, UNCHANGED vars PROVE RunnerEmptied' /\ CompletedIsGone'
  BY <1>2, NothingWritten DEF EmptiedInv, vars, runVars, ghostVars
<1>3. EmptiedInv /\ [Next]_vars => DeletionInv'
  BY DeletionStep DEF EmptiedInv
<1>4. QED
  BY <1>1, <1>2, <1>3 DEF EmptiedInv

\* A deletion the ledger calls complete left the photo in neither bucket, through
\* crashes, failed deletes and restores of the database (removeObjects before
\* the FILE_DELETION_COMPLETED entry, in the executor and in reconciliation).
THEOREM CompletedLeavesNothing == Spec => []CompletedIsGone
<1>1. Init => RunnerEmptied /\ CompletedIsGone
  BY DEF Init, RunnerEmptied, CompletedIsGone
<1>2. DeletionInv /\ RunnerEmptied /\ CompletedIsGone /\ [Next]_vars => (RunnerEmptied /\ CompletedIsGone)'
  BY EmptiedStep DEF EmptiedInv
<1>3. QED
  BY <1>1, <1>2, DeletionInvariant, PTL DEF Spec

=============================================================================
