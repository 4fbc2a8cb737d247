------------------------- MODULE EvidenceFileProofs -------------------------
(***************************************************************************)
(* Theorems about EvidenceFile, for any number of finalise jobs, attempts  *)
(* and failures.                                                           *)
(***************************************************************************)
EXTENDS EvidenceFile, TLAPS

-----------------------------------------------------------------------------
(* Types. *)

LEMMA TypeInit == Init => TypeOK
<1> SUFFICES ASSUME Init PROVE TypeOK
  OBVIOUS
<1> USE ConstantsAssumption DEF ConstantsAssumption, Init, Locations, Workers
<1>1. pc \in [Workers -> JobPoints \cup SweepPoints]
  BY DEF JobPoints, SweepPoints
<1>2. \A j \in Jobs : pc[j] \in JobPoints
  BY DEF JobPoints
<1>3. pc[Sweeper] \in SweepPoints
  BY DEF SweepPoints
<1>4. attempt \in [Jobs -> 1 .. MaxAttempts]
  OBVIOUS
<1>5. todo \in [Workers -> SUBSET Locations]
  OBVIOUS
<1>6. copy \in [Locations -> {"NONE", "PENDING", "VERIFIED", "DELETED"}]
  OBVIOUS
<1>7. object \in [Locations -> {"none", "good", "bad"}]
  OBVIOUS
<1>8. QED
  BY <1>1, <1>2, <1>3, <1>4, <1>5, <1>6, <1>7 DEF TypeOK

LEMMA TypeStep == TypeOK /\ [Next]_vars => TypeOK'
<1> SUFFICES ASSUME TypeOK, [Next]_vars PROVE TypeOK'
  OBVIOUS
<1> USE ConstantsAssumption DEF ConstantsAssumption, TypeOK, Workers, Final, Locations, Published, Committing,
        Finalising, Deleting, JobPoints, SweepPoints, Goto, MayFail, MayDie,
        dbVars, bucketVars, workerVars, ghostVars
<1>1. ASSUME InitUpload PROVE TypeOK'
  BY <1>1 DEF InitUpload
<1>2. ASSUME ResumeUpload PROVE TypeOK'
  BY <1>2 DEF ResumeUpload
<1>3. ASSUME CancelUpload PROVE TypeOK'
  BY <1>3 DEF CancelUpload
<1>4. ASSUME NEW u \in Uploads, PutUpload(u) PROVE TypeOK'
  BY <1>4 DEF PutUpload
<1>5. ASSUME ChangeStanding PROVE TypeOK'
  BY <1>5 DEF ChangeStanding
<1>6. ASSUME ExpireUrl PROVE TypeOK'
  BY <1>6 DEF ExpireUrl
<1>7. ASSUME Age PROVE TypeOK'
  BY <1>7 DEF Age
<1>8. ASSUME NEW j \in Jobs, Complete(j) PROVE TypeOK'
  BY <1>8 DEF Complete
<1>9. ASSUME NEW j \in Jobs, LoadFile(j) PROVE TypeOK'
  BY <1>9 DEF LoadFile
<1>10. ASSUME NEW j \in Jobs, CheckEligibility(j) PROVE TypeOK'
  BY <1>10 DEF CheckEligibility
<1>11. ASSUME NEW j \in Jobs, FetchUpload(j) PROVE TypeOK'
  BY <1>11 DEF FetchUpload
<1>12. ASSUME NEW j \in Jobs, PublishPrimary(j) PROVE TypeOK'
  BY <1>12 DEF PublishPrimary
<1>13. ASSUME NEW j \in Jobs, VerifyPrimary(j) PROVE TypeOK'
  BY <1>13 DEF VerifyPrimary, AfterThrow
<1>14. ASSUME NEW j \in Jobs, PublishThumb(j) PROVE TypeOK'
  BY <1>14 DEF PublishThumb
<1>15. ASSUME NEW j \in Jobs, Commit(j) PROVE TypeOK'
  BY <1>15 DEF Commit
<1>16. ASSUME NEW j \in Jobs, Lost(j) PROVE TypeOK'
  BY <1>16 DEF Lost
<1>17. ASSUME NEW j \in Jobs, Undo(j) PROVE TypeOK'
  BY <1>17 DEF Undo
<1>18. ASSUME NEW j \in Jobs, Throw(j) PROVE TypeOK'
  BY <1>18 DEF Throw, AfterThrow
<1>19. ASSUME NEW w \in Workers, Reject(w) PROVE TypeOK'
  BY <1>19 DEF Reject, AfterPurge
<1>20. ASSUME NEW w \in Workers, Purge(w) PROVE TypeOK'
  BY <1>20 DEF Purge, AfterPurge
<1>21. ASSUME NEW w \in Workers, Crash(w) PROVE TypeOK'
  BY <1>21 DEF Crash
<1>22. ASSUME SweepStart PROVE TypeOK'
  BY <1>22 DEF SweepStart
<1>23. ASSUME SweepLeftovers PROVE TypeOK'
  BY <1>23 DEF SweepLeftovers, Leftovers
<1>24. ASSUME SweepLateUploads PROVE TypeOK'
  BY <1>24 DEF SweepLateUploads
<1>25. CASE UNCHANGED vars
  BY <1>25 DEF vars
<1>26. QED
  BY <1>1, <1>2, <1>3, <1>4, <1>5, <1>6, <1>7, <1>8, <1>9, <1>10, <1>11, <1>12, <1>13, <1>14,
     <1>15, <1>16, <1>17, <1>18, <1>19, <1>20, <1>21, <1>22, <1>23, <1>24, <1>25
  DEF Next, Finalise, Sweep, Workers

\* Every variable keeps its type through the API, the finalisers and the sweep.
THEOREM TypeCorrect == Spec => []TypeOK
<1>1. QED
  BY TypeInit, TypeStep, PTL DEF Spec

-----------------------------------------------------------------------------
(* What is available is stored. *)

LEMMA StoredStep == TypeOK /\ StoredInv /\ [Next]_vars => StoredInv'
<1> SUFFICES ASSUME TypeOK, StoredInv, [Next]_vars PROVE StoredInv'
  OBVIOUS
<1> USE ConstantsAssumption DEF ConstantsAssumption, TypeOK, StoredInv, Workers, Final, Locations,
        Committing, Finalising, Deleting, JobPoints, SweepPoints, dbVars, bucketVars, workerVars, ghostVars
<1>1. ASSUME InitUpload PROVE StoredInv'
  BY <1>1
  DEF InitUpload, OnlyAvailableVerified, DeletersEntitled, PublishedStaysStored,
       VerifiedIsStoredWhileEligible, VerifiedIsStored
<1>2. ASSUME ResumeUpload PROVE StoredInv'
  BY <1>2
  DEF ResumeUpload, OnlyAvailableVerified, DeletersEntitled, PublishedStaysStored,
       VerifiedIsStoredWhileEligible, VerifiedIsStored
<1>3. ASSUME CancelUpload PROVE StoredInv'
  BY <1>3
  DEF CancelUpload, OnlyAvailableVerified, DeletersEntitled, PublishedStaysStored,
       VerifiedIsStoredWhileEligible, VerifiedIsStored
<1>4. ASSUME NEW u \in Uploads, PutUpload(u) PROVE StoredInv'
  BY <1>4
  DEF PutUpload, OnlyAvailableVerified, DeletersEntitled, PublishedStaysStored,
       VerifiedIsStoredWhileEligible, VerifiedIsStored
<1>5. ASSUME ChangeStanding PROVE StoredInv'
  BY <1>5
  DEF ChangeStanding, OnlyAvailableVerified, DeletersEntitled, PublishedStaysStored,
       VerifiedIsStoredWhileEligible, VerifiedIsStored
<1>6. ASSUME ExpireUrl PROVE StoredInv'
  BY <1>6
  DEF ExpireUrl, OnlyAvailableVerified, DeletersEntitled, PublishedStaysStored,
       VerifiedIsStoredWhileEligible, VerifiedIsStored
<1>7. ASSUME Age PROVE StoredInv'
  BY <1>7
  DEF Age, OnlyAvailableVerified, DeletersEntitled, PublishedStaysStored,
       VerifiedIsStoredWhileEligible, VerifiedIsStored
<1>8. ASSUME NEW j \in Jobs, Complete(j) PROVE StoredInv'
  BY <1>8
  DEF Complete, Goto, OnlyAvailableVerified, DeletersEntitled, PublishedStaysStored,
       VerifiedIsStoredWhileEligible, VerifiedIsStored
<1>9. ASSUME NEW j \in Jobs, LoadFile(j) PROVE StoredInv'
  BY <1>9
  DEF LoadFile, Goto, OnlyAvailableVerified, DeletersEntitled, PublishedStaysStored,
       VerifiedIsStoredWhileEligible, VerifiedIsStored
<1>10. ASSUME NEW j \in Jobs, CheckEligibility(j) PROVE StoredInv'
  BY <1>10
  DEF CheckEligibility, Goto, OnlyAvailableVerified, DeletersEntitled, PublishedStaysStored,
       VerifiedIsStoredWhileEligible, VerifiedIsStored
<1>11. ASSUME NEW j \in Jobs, FetchUpload(j) PROVE StoredInv'
  BY <1>11
  DEF FetchUpload, Goto, OnlyAvailableVerified, DeletersEntitled, PublishedStaysStored,
       VerifiedIsStoredWhileEligible, VerifiedIsStored
<1>12. ASSUME NEW j \in Jobs, PublishPrimary(j) PROVE StoredInv'
  BY <1>12
  DEF PublishPrimary, Goto, OnlyAvailableVerified, DeletersEntitled, PublishedStaysStored,
       VerifiedIsStoredWhileEligible, VerifiedIsStored
<1>13. ASSUME NEW j \in Jobs, VerifyPrimary(j) PROVE StoredInv'
  BY <1>13
  DEF VerifyPrimary, AfterThrow, Goto, OnlyAvailableVerified, DeletersEntitled, PublishedStaysStored,
       VerifiedIsStoredWhileEligible, VerifiedIsStored
<1>14. ASSUME NEW j \in Jobs, PublishThumb(j) PROVE StoredInv'
  BY <1>14
  DEF PublishThumb, Goto, OnlyAvailableVerified, DeletersEntitled, PublishedStaysStored,
       VerifiedIsStoredWhileEligible, VerifiedIsStored
<1>15. ASSUME NEW j \in Jobs, Commit(j) PROVE StoredInv'
  <2> USE <1>15 DEF Commit, Goto
  <2>1. OnlyAvailableVerified'
    \* the new AVAILABLE file's VERIFIED copies are the published ones
    BY DEF OnlyAvailableVerified, Published
  <2>2. DeletersEntitled'
    \* the winner is left with the raw upload; a late job saw the job stopped
    <3>1. CASE ~eligible
      BY <3>1 DEF DeletersEntitled
    <3>2. CASE eligible /\ status # "PENDING"
      BY <3>2 DEF DeletersEntitled
    <3>3. CASE eligible /\ status = "PENDING"
      BY <3>3 DEF DeletersEntitled
    <3>4. QED
      BY <3>1, <3>2, <3>3
  <2>3. PublishedStaysStored'
    BY DEF PublishedStaysStored
  <2>4. VerifiedIsStoredWhileEligible'
    \* the job's own published objects are still stored
    BY DEF PublishedStaysStored, VerifiedIsStoredWhileEligible, VerifiedIsStored
  <2>5. QED
    BY <2>1, <2>2, <2>3, <2>4 DEF StoredInv
<1>16. ASSUME NEW j \in Jobs, Lost(j) PROVE StoredInv'
  BY <1>16
  DEF Lost, Goto, OnlyAvailableVerified, DeletersEntitled, PublishedStaysStored,
       VerifiedIsStoredWhileEligible, VerifiedIsStored
<1>17. ASSUME NEW j \in Jobs, Undo(j) PROVE StoredInv'
  <2> USE <1>17 DEF Undo, Goto
  <2>1. withdrawn \/ status = "REJECTED"
    BY DEF DeletersEntitled
  <2>2. OnlyAvailableVerified'
    BY DEF OnlyAvailableVerified
  <2>3. DeletersEntitled'
    BY DEF DeletersEntitled
  <2>4. PublishedStaysStored'
    BY <2>1 DEF PublishedStaysStored
  <2>5. VerifiedIsStoredWhileEligible'
    BY <2>1 DEF OnlyAvailableVerified, VerifiedIsStoredWhileEligible, VerifiedIsStored
  <2>6. QED
    BY <2>2, <2>3, <2>4, <2>5 DEF StoredInv
<1>18. ASSUME NEW j \in Jobs, Throw(j) PROVE StoredInv'
  BY <1>18
  DEF Throw, AfterThrow, Goto, OnlyAvailableVerified, DeletersEntitled, PublishedStaysStored,
       VerifiedIsStoredWhileEligible, VerifiedIsStored
<1>19. ASSUME NEW w \in Workers, Reject(w) PROVE StoredInv'
  <2> USE <1>19 DEF Reject, Goto
  <2>1. OnlyAvailableVerified'
    \* a PENDING file had no VERIFIED copy
    BY DEF OnlyAvailableVerified
  <2>2. DeletersEntitled'
    BY DEF DeletersEntitled, AfterPurge
  <2>3. PublishedStaysStored'
    BY DEF PublishedStaysStored, AfterPurge
  <2>4. VerifiedIsStoredWhileEligible'
    BY DEF VerifiedIsStoredWhileEligible, VerifiedIsStored
  <2>5. QED
    BY <2>1, <2>2, <2>3, <2>4 DEF StoredInv
<1>20. ASSUME NEW w \in Workers, Purge(w) PROVE StoredInv'
  <2> USE <1>20 DEF Purge, Goto
  <2>1. status = "REJECTED" \/ (status = "AVAILABLE" /\ todo[w] \subseteq {"upload"})
    BY DEF DeletersEntitled
  <2>2. OnlyAvailableVerified'
    BY DEF OnlyAvailableVerified
  <2>3. DeletersEntitled'
    BY DEF DeletersEntitled, AfterPurge
  <2>4. PublishedStaysStored'
    BY <2>1 DEF PublishedStaysStored, AfterPurge
  <2>5. VerifiedIsStoredWhileEligible'
    BY <2>1 DEF OnlyAvailableVerified, VerifiedIsStoredWhileEligible, VerifiedIsStored
  <2>6. QED
    BY <2>2, <2>3, <2>4, <2>5 DEF StoredInv
<1>21. ASSUME NEW w \in Workers, Crash(w) PROVE StoredInv'
  BY <1>21
  DEF Crash, Goto, OnlyAvailableVerified, DeletersEntitled, PublishedStaysStored,
       VerifiedIsStoredWhileEligible, VerifiedIsStored
<1>22. ASSUME SweepStart PROVE StoredInv'
  BY <1>22
  DEF SweepStart, Goto, OnlyAvailableVerified, DeletersEntitled, PublishedStaysStored,
       VerifiedIsStoredWhileEligible, VerifiedIsStored
<1>23. ASSUME SweepLeftovers PROVE StoredInv'
  BY <1>23
  DEF SweepLeftovers, Leftovers, Goto, OnlyAvailableVerified, DeletersEntitled, PublishedStaysStored,
       VerifiedIsStoredWhileEligible, VerifiedIsStored
<1>24. ASSUME SweepLateUploads PROVE StoredInv'
  BY <1>24
  DEF SweepLateUploads, Goto, OnlyAvailableVerified, DeletersEntitled, PublishedStaysStored,
       VerifiedIsStoredWhileEligible, VerifiedIsStored
<1>25. CASE UNCHANGED vars
  BY <1>25 DEF vars, OnlyAvailableVerified, DeletersEntitled, PublishedStaysStored,
       VerifiedIsStoredWhileEligible, VerifiedIsStored
<1>26. QED
  BY <1>1, <1>2, <1>3, <1>4, <1>5, <1>6, <1>7, <1>8, <1>9, <1>10, <1>11, <1>12, <1>13, <1>14,
     <1>15, <1>16, <1>17, <1>18, <1>19, <1>20, <1>21, <1>22, <1>23, <1>24, <1>25
  DEF Next, Finalise, Sweep, Workers

\* A photo the gallery may hand out stays in the bucket while nobody lost the
\* right to the file: no retry, loser, rejection or sweep deletes it.
THEOREM AvailableStaysStored == Spec => []VerifiedIsStoredWhileEligible
<1>1. Init => StoredInv
  BY ConstantsAssumption
  DEF ConstantsAssumption, Init, StoredInv, OnlyAvailableVerified, DeletersEntitled, PublishedStaysStored,
       VerifiedIsStoredWhileEligible, VerifiedIsStored,
      Workers, Committing
<1>2. TypeOK /\ StoredInv /\ [Next]_vars => StoredInv'
  BY StoredStep
<1>3. StoredInv => VerifiedIsStoredWhileEligible
  BY DEF StoredInv
<1>4. QED
  BY <1>1, <1>2, <1>3, TypeCorrect, PTL DEF Spec

-----------------------------------------------------------------------------
(* A closed file stays as it was closed. *)

\* AVAILABLE and REJECTED are never left: every write of the status is a
\* compare-and-set on PENDING (Commit, rejectFile, the DELETE route).
THEOREM ClosedStaysClosed == Spec => FinalStatusKept
<1>1. TypeOK /\ [Next]_vars => [status \notin Final]_status
  <2> SUFFICES ASSUME TypeOK, [Next]_vars, status' # status PROVE status \notin Final
    OBVIOUS
  <2> USE DEF Final, dbVars
  <2>1. ASSUME InitUpload PROVE status \notin Final
    BY <2>1 DEF InitUpload
  <2>2. ASSUME CancelUpload PROVE status \notin Final
    BY <2>2 DEF CancelUpload
  <2>3. ASSUME NEW j \in Jobs, Commit(j) PROVE status \notin Final
    BY <2>3 DEF Commit
  <2>4. ASSUME NEW w \in Workers, Reject(w) PROVE status \notin Final
    BY <2>4 DEF Reject
  <2>5. ASSUME ResumeUpload PROVE FALSE
    BY <2>5 DEF ResumeUpload
  <2>6. ASSUME NEW u \in Uploads, PutUpload(u) PROVE FALSE
    BY <2>6 DEF PutUpload
  <2>7. ASSUME ChangeStanding PROVE FALSE
    BY <2>7 DEF ChangeStanding
  <2>8. ASSUME ExpireUrl PROVE FALSE
    BY <2>8 DEF ExpireUrl
  <2>9. ASSUME Age PROVE FALSE
    BY <2>9 DEF Age
  <2>10. ASSUME NEW j \in Jobs, Complete(j) PROVE FALSE
    BY <2>10 DEF Complete
  <2>11. ASSUME NEW j \in Jobs, LoadFile(j) PROVE FALSE
    BY <2>11 DEF LoadFile
  <2>12. ASSUME NEW j \in Jobs, CheckEligibility(j) PROVE FALSE
    BY <2>12 DEF CheckEligibility
  <2>13. ASSUME NEW j \in Jobs, FetchUpload(j) PROVE FALSE
    BY <2>13 DEF FetchUpload
  <2>14. ASSUME NEW j \in Jobs, PublishPrimary(j) PROVE FALSE
    BY <2>14 DEF PublishPrimary
  <2>15. ASSUME NEW j \in Jobs, VerifyPrimary(j) PROVE FALSE
    BY <2>15 DEF VerifyPrimary
  <2>16. ASSUME NEW j \in Jobs, PublishThumb(j) PROVE FALSE
    BY <2>16 DEF PublishThumb
  <2>17. ASSUME NEW j \in Jobs, Lost(j) PROVE FALSE
    BY <2>17 DEF Lost
  <2>18. ASSUME NEW j \in Jobs, Undo(j) PROVE FALSE
    BY <2>18 DEF Undo
  <2>19. ASSUME NEW j \in Jobs, Throw(j) PROVE FALSE
    BY <2>19 DEF Throw
  <2>20. ASSUME NEW w \in Workers, Purge(w) PROVE FALSE
    BY <2>20 DEF Purge
  <2>21. ASSUME NEW w \in Workers, Crash(w) PROVE FALSE
    BY <2>21 DEF Crash
  <2>22. ASSUME SweepStart PROVE FALSE
    BY <2>22 DEF SweepStart
  <2>23. ASSUME SweepLeftovers PROVE FALSE
    BY <2>23 DEF SweepLeftovers
  <2>24. ASSUME SweepLateUploads PROVE FALSE
    BY <2>24 DEF SweepLateUploads
  <2>25. CASE UNCHANGED vars
    BY <2>25 DEF vars
  <2>26. QED
    BY <2>1, <2>2, <2>3, <2>4, <2>5, <2>6, <2>7, <2>8, <2>9, <2>10, <2>11, <2>12, <2>13, <2>14,
       <2>15, <2>16, <2>17, <2>18, <2>19, <2>20, <2>21, <2>22, <2>23, <2>24, <2>25
    DEF Next, Finalise, Sweep, Workers
<1>2. QED
  BY <1>1, TypeCorrect, PTL DEF Spec, FinalStatusKept
=============================================================================
