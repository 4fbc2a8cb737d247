------------------------- MODULE CampaignSendProofs -------------------------
(***************************************************************************)
(* Theorems about CampaignSend, for any leads, jobs, limits, page size and *)
(* surrounding events: types, the claim, the abstract slot of SendSlot     *)
(* which the batch implements, the operator's controls over a running      *)
(* batch and the AI usage counter.                                         *)
(***************************************************************************)
EXTENDS CampaignSlots, FiniteSetTheorems, TLAPS

-----------------------------------------------------------------------------
(* Types. *)

\* The field updates the code makes keep an outbox row an outbox row.
LEMMA RowUpdates ==
    /\ NoRow \in OutboxRows
    /\ \A r \in OutboxRows : r.status \in SendStatuses
    /\ \A r \in OutboxRows : [r EXCEPT !.owner = NoJob] \in OutboxRows
    /\ \A r \in OutboxRows, s \in SendStatuses : [r EXCEPT !.status = s] \in OutboxRows
    /\ \A j \in Jobs, d \in Days : [status |-> "SENDING", owner |-> j, day |-> d] \in OutboxRows
    /\ \A d \in Days : [status |-> "SENT", owner |-> NoJob, day |-> d] \in OutboxRows
<1> USE ConstantsAssumption DEF NoRow, OutboxRows, SendStatuses, Days
<1>1. NoRow \in OutboxRows
  OBVIOUS
<1>2. \A r \in OutboxRows, s \in SendStatuses : [r EXCEPT !.status = s] \in OutboxRows
  OBVIOUS
<1>3. /\ \A r \in OutboxRows : r.status \in SendStatuses
      /\ \A r \in OutboxRows : [r EXCEPT !.owner = NoJob] \in OutboxRows
    OBVIOUS
<1>4. /\ \A j \in Jobs, d \in Days : [status |-> "SENDING", owner |-> j, day |-> d] \in OutboxRows
      /\ \A d \in Days : [status |-> "SENT", owner |-> NoJob, day |-> d] \in OutboxRows
  OBVIOUS
<1>5. QED
  BY ONLY <1>1, <1>2, <1>3, <1>4

\* The database rows keep their types.
LEMMA RowsTyped == ASSUME TypeOK, [Next]_vars PROVE RowsTypeOK'
<1>1. row' \in [Leads -> OutboxRows] => RowsTypeOK'
  <2> USE DEF TypeOK, RowsTypeOK
  <2> SUFFICES ASSUME row' \in [Leads -> OutboxRows] PROVE RowsTypeOK'
    OBVIOUS
  <2>1. ASSUME NEW j \in Jobs, StartBatch(j) \/ AuthorizeBatch(j) \/ CheckCaps(j) \/ LoadPage(j)
                   \/ LoadSets(j) \/ PageDone(j) \/ StopAtLead(j) \/ TakeLead(j) \/ Send(j)
        PROVE RowsTypeOK'
    <3>1. UNCHANGED dbVars
      BY <2>1 DEF StartBatch, AuthorizeBatch, CheckCaps, LoadPage, LoadSets, PageDone,
                  StopAtLead, TakeLead, Send
    <3>2. QED
      BY <3>1 DEF dbVars
  <2>2. ASSUME NEW j \in Jobs, HoldDraft(j) PROVE RowsTypeOK'
    BY <2>2 DEF HoldDraft, DraftKinds
  <2>3. ASSUME NEW j \in Jobs, Claim(j) PROVE RowsTypeOK'
    BY <2>3 DEF Claim
  <2>4. ASSUME NEW j \in Jobs, MeterAi(j) PROVE RowsTypeOK'
    BY <2>4 DEF MeterAi
  <2>5. ASSUME NEW j \in Jobs, CallModel(j) PROVE RowsTypeOK'
    BY <2>5 DEF CallModel, DraftKinds
  <2>6. ASSUME NEW j \in Jobs, RefundAi(j) PROVE RowsTypeOK'
    BY <2>6 DEF RefundAi
  <2>7. ASSUME NEW j \in Jobs, Release(j) \/ RecordFailed(j) \/ Crash(j) PROVE RowsTypeOK'
    BY <2>7 DEF Release, RecordFailed, Crash
  <2>8. ASSUME NEW j \in Jobs, RecordSent(j) PROVE RowsTypeOK'
    BY <2>8 DEF RecordSent, LeadStages
  <2>9. ASSUME NEW m \in {"ACTIVE", "PAUSED", "COMPLETE"}, SetMission(m) PROVE RowsTypeOK'
    BY <2>9 DEF SetMission
  <2>10. ASSUME NEW l \in Leads, Suppress(l) \/ Bounce(l) PROVE RowsTypeOK'
    BY <2>10 DEF Suppress, Bounce
  <2>11. ASSUME NEW l \in Leads, Research(l) \/ Reply(l) PROVE RowsTypeOK'
    BY <2>11 DEF Research, Reply, LeadStages
  <2>12. ASSUME NEW l \in Leads, NEW s \in UserStages, SetStage(l, s) PROVE RowsTypeOK'
    BY <2>12, StagesAssumption DEF SetStage
  <2>13. ASSUME NEW l \in Leads, NEW v \in {"APPROVED", "REJECTED"}, ReviewDraft(l, v)
         PROVE RowsTypeOK'
    BY <2>13 DEF ReviewDraft, DraftKinds
  <2>14. ASSUME RetryFailed \/ SweepStale PROVE RowsTypeOK'
    BY <2>14 DEF RetryFailed, SweepStale
  <2>15. ASSUME NextDay PROVE RowsTypeOK'
    BY <2>15, ConstantsAssumption DEF NextDay, Days
  <2>16. CASE UNCHANGED vars
    BY <2>16 DEF vars, dbVars
  <2>17. QED
    BY <2>1, <2>2, <2>3, <2>4, <2>5, <2>6, <2>7, <2>8, <2>9, <2>10, <2>11, <2>12, <2>13,
       <2>14, <2>15, <2>16
    DEF Next, JobStep, Surroundings
<1>2. row' \in [Leads -> OutboxRows]
  <2>0. row \in [Leads -> OutboxRows] /\ today \in Days
    BY DEF TypeOK, RowsTypeOK
  <2>1. ASSUME NEW j \in Jobs, StartBatch(j) \/ AuthorizeBatch(j) \/ CheckCaps(j) \/ LoadPage(j)
                   \/ LoadSets(j) \/ PageDone(j) \/ StopAtLead(j) \/ TakeLead(j) \/ HoldDraft(j)
                   \/ MeterAi(j) \/ CallModel(j) \/ RefundAi(j) \/ Send(j)
        PROVE row' = row
    BY <2>1 DEF StartBatch, AuthorizeBatch, CheckCaps, LoadPage, LoadSets, PageDone, StopAtLead,
                TakeLead, HoldDraft, MeterAi, CallModel, RefundAi, Send, dbVars
  <2>2. ASSUME NEW j \in Jobs, Claim(j) PROVE row' \in [Leads -> OutboxRows]
    BY <2>2, <2>0, RowUpdates DEF Claim
  <2>3. ASSUME NEW j \in Jobs, Release(j) PROVE row' \in [Leads -> OutboxRows]
    BY <2>3, <2>0, RowUpdates DEF Release
  <2>4. ASSUME NEW j \in Jobs, RecordSent(j) PROVE row' \in [Leads -> OutboxRows]
    BY <2>4, <2>0, RowUpdates DEF RecordSent
  <2>5. ASSUME NEW j \in Jobs, RecordFailed(j) PROVE row' \in [Leads -> OutboxRows]
    <3>1. \A r \in OutboxRows : [[r EXCEPT !.status = "FAILED"] EXCEPT !.owner = NoJob] \in OutboxRows
      BY ConstantsAssumption DEF OutboxRows, SendStatuses
    <3>2. \A l \in Leads :
            \/ row'[l] = row[l]
            \/ row'[l] = [[row[l] EXCEPT !.status = "FAILED"] EXCEPT !.owner = NoJob]
            \/ row'[l] = [row[l] EXCEPT !.owner = NoJob]
      BY <2>5, <2>0 DEF RecordFailed
    <3>3. row' = [l \in Leads |-> row'[l]]
      BY <2>5, <2>0 DEF RecordFailed
    <3>4. QED
      BY <2>0, <3>1, <3>2, <3>3, RowUpdates
  <2>6. ASSUME NEW j \in Jobs, Crash(j) PROVE row' \in [Leads -> OutboxRows]
    BY <2>6, <2>0, RowUpdates DEF Crash
  <2>7. ASSUME NEW l \in Leads, Reply(l) \/ Bounce(l) PROVE row' \in [Leads -> OutboxRows]
    <3>1. PICK s \in SendStatuses : row' = [row EXCEPT ![l] = [row[l] EXCEPT !.status = s]]
      <4>1. row[l].status \in SendStatuses /\ {"REPLIED", "BOUNCED"} \subseteq SendStatuses
        BY <2>0, RowUpdates DEF SendStatuses
      <4>2. QED
        BY <2>7, <4>1 DEF Reply, Bounce
    <3>2. QED
      BY <2>0, <3>1, RowUpdates
  <2>8. ASSUME RetryFailed PROVE row' \in [Leads -> OutboxRows]
    BY <2>8, <2>0, RowUpdates DEF RetryFailed
  <2>9. ASSUME SweepStale PROVE row' \in [Leads -> OutboxRows]
    <3>1. \A r \in OutboxRows : [r EXCEPT !.status = "FAILED"] \in OutboxRows
      BY RowUpdates DEF SendStatuses
    <3>2. QED
      BY <2>9, <2>0, <3>1 DEF SweepStale
  <2>10. ASSUME \/ \E m \in {"ACTIVE", "PAUSED", "COMPLETE"} : SetMission(m)
                \/ \E l \in Leads : Suppress(l) \/ Research(l)
                \/ \E l \in Leads, s \in UserStages : SetStage(l, s)
                \/ \E l \in Leads, v \in {"APPROVED", "REJECTED"} : ReviewDraft(l, v)
                \/ NextDay
                \/ UNCHANGED vars
         PROVE row' = row
    BY <2>10 DEF SetMission, Suppress, Research, SetStage, ReviewDraft, NextDay, vars, dbVars
  <2>11. QED
    BY <2>0, <2>1, <2>2, <2>3, <2>4, <2>5, <2>6, <2>7, <2>8, <2>9, <2>10
    DEF Next, JobStep, Surroundings
<1>3. QED
  BY <1>1, <1>2

\* A batch that ends resets its local state; the other helpers move the job on.
LEMMA JobHelpers ==
    ASSUME JobsTypeOK, NEW j \in Jobs
    PROVE  /\ EndBatch(j) => JobsTypeOK'
           /\ NextLead(j) /\ UNCHANGED scanVars => JobsTypeOK'
<1>1. EndBatch(j) => JobsTypeOK'
  BY ConstantsAssumption DEF JobsTypeOK, EndBatch, Goto, BeforeClaim, Holding, DraftKinds
<1>2. NextLead(j) /\ UNCHANGED scanVars => JobsTypeOK'
  BY DEF JobsTypeOK, NextLead, Goto, BeforeClaim, Holding, scanVars
<1>3. QED
  BY <1>1, <1>2

\* A job's local state keeps its types.
LEMMA JobsTyped == ASSUME TypeOK, [Next]_vars PROVE JobsTypeOK'
<1> USE DEF TypeOK, JobsTypeOK, BeforeClaim, Holding
<1>1. ASSUME NEW j \in Jobs, StartBatch(j) PROVE JobsTypeOK'
  BY <1>1 DEF StartBatch, Goto, RowsTypeOK, Days
<1>2. ASSUME NEW j \in Jobs, AuthorizeBatch(j) \/ CheckCaps(j) \/ PageDone(j) \/ StopAtLead(j)
      PROVE JobsTypeOK'
  BY <1>2, JobHelpers DEF AuthorizeBatch, CheckCaps, PageDone, StopAtLead, Goto, scanVars
<1>3. ASSUME NEW j \in Jobs, LoadPage(j) PROVE JobsTypeOK'
  <2>1. CASE EndBatch(j)
    BY <2>1, JobHelpers
  <2>2. \A l \in Leads : CopyOf(l) \in DraftKinds /\ "NONE" \in DraftKinds
    BY DEF CopyOf, RowsTypeOK, DraftKinds
  <2>3. CASE ~EndBatch(j)
    <3>1. PICK S \in SUBSET Leads, c \in Leads :
            /\ page' = [page EXCEPT ![j] = S]
            /\ more' = [more EXCEPT ![j] = Cardinality(S) = PageSize]
            /\ cursor' = [cursor EXCEPT ![j] = c]
            /\ copies' = [copies EXCEPT ![j] = [l \in Leads |-> IF l \in S THEN CopyOf(l) ELSE "NONE"]]
            /\ pc' = [pc EXCEPT ![j] = "sets"]
            /\ UNCHANGED <<since, handled, blocked, inReview, cur>>
      BY <1>3, <2>3 DEF LoadPage, Goto
    <3>2. QED
      BY <3>1, <2>2
  <2>4. QED
    BY <2>1, <2>3
<1>4. ASSUME NEW j \in Jobs, LoadSets(j) PROVE JobsTypeOK'
  BY <1>4 DEF LoadSets, Goto, RowsTypeOK
<1>5. ASSUME NEW j \in Jobs, TakeLead(j) PROVE JobsTypeOK'
  <2>1. PICK l \in page[j] :
          \/ page' = [page EXCEPT ![j] = @ \ {l}] /\ UNCHANGED <<pc, cur>>
          \/ /\ pc' = [pc EXCEPT ![j] = IF copies[j][l] = "TAINTED" THEN "hold" ELSE "claim"]
             /\ cur' = [cur EXCEPT ![j] = l]
             /\ page' = page
    BY <1>5 DEF TakeLead, Goto
  <2>2. l \in Leads /\ UNCHANGED scanVars
    BY <1>5 DEF TakeLead, scanVars
  <2>3. CASE page' = [page EXCEPT ![j] = @ \ {l}] /\ UNCHANGED <<pc, cur>>
    BY <2>2, <2>3 DEF scanVars
  <2>4. CASE /\ pc' = [pc EXCEPT ![j] = IF copies[j][l] = "TAINTED" THEN "hold" ELSE "claim"]
             /\ cur' = [cur EXCEPT ![j] = l]
             /\ page' = page
    BY <2>2, <2>4 DEF scanVars
  <2>5. QED
    BY <2>1, <2>3, <2>4
<1>6. ASSUME NEW j \in Jobs, HoldDraft(j) \/ Release(j) \/ RecordFailed(j) PROVE JobsTypeOK'
  <2>1. NextLead(j) /\ UNCHANGED scanVars
    BY <1>6 DEF HoldDraft, Release, RecordFailed, scanVars
  <2>2. QED
    BY <2>1, JobHelpers DEF JobsTypeOK
<1>7. ASSUME NEW j \in Jobs, Claim(j) PROVE JobsTypeOK'
  <2>1. CASE EndBatch(j) \/ (NextLead(j) /\ UNCHANGED scanVars)
    BY <2>1, JobHelpers
  <2>2. CASE ~(EndBatch(j) \/ (NextLead(j) /\ UNCHANGED scanVars))
    <3>1. /\ pc[j] = "claim"
          /\ pc' = [pc EXCEPT ![j] = IF Generates(j, cur[j]) THEN "meter" ELSE "send"]
          /\ UNCHANGED <<scanVars, page, cur>>
      BY <1>7, <2>2 DEF Claim, Goto, scanVars
    <3>2. QED
      BY <3>1 DEF scanVars
  <2>3. QED
    BY <2>1, <2>2
<1>8. ASSUME NEW j \in Jobs, MeterAi(j) \/ CallModel(j) \/ RefundAi(j) \/ Send(j) PROVE JobsTypeOK'
  BY <1>8 DEF MeterAi, CallModel, RefundAi, Send, Goto, scanVars
<1>9. ASSUME NEW j \in Jobs, RecordSent(j) PROVE JobsTypeOK'
  <2>1. CASE NextLead(j)
    BY <1>9, <2>1, JobHelpers DEF RecordSent, scanVars
  <2>2. CASE ~NextLead(j)
    BY <1>9, <2>2 DEF RecordSent, Goto, scanVars
  <2>3. QED
    BY <2>1, <2>2
<1>10. ASSUME NEW j \in Jobs, Crash(j) PROVE JobsTypeOK'
  BY <1>10, JobHelpers DEF Crash
<1>11. CASE Surroundings \/ UNCHANGED vars
  <2>1. UNCHANGED jobVars
    BY <1>11 DEF Surroundings, SetMission, Suppress, Research, Reply, Bounce, SetStage, ReviewDraft,
                 RetryFailed, SweepStale, NextDay, vars
  <2>2. QED
    BY <2>1 DEF jobVars
<1>12. QED
  BY <1>1, <1>2, <1>3, <1>4, <1>5, <1>6, <1>7, <1>8, <1>9, <1>10, <1>11 DEF Next, JobStep

\* What the outside world saw keeps its types.
LEMMA SeenTyped == ASSUME TypeOK, [Next]_vars PROVE SeenTypeOK'
<1> USE DEF TypeOK, SeenTypeOK
<1>1. ASSUME NEW j \in Jobs, CallModel(j) \/ RefundAi(j) \/ Crash(j) PROVE SeenTypeOK'
  BY <1>1 DEF CallModel, RefundAi, Crash
<1>2. ASSUME NEW j \in Jobs, Send(j) PROVE SeenTypeOK'
  <2>2. cur[j] \in Leads
    BY <1>2 DEF Send, JobsTypeOK, Holding
  <2>3. QED
    BY <1>2, <2>2 DEF Send, RowsTypeOK
<1>3. ASSUME NEW m \in {"ACTIVE", "PAUSED", "COMPLETE"}, SetMission(m) PROVE SeenTypeOK'
  BY <1>3 DEF SetMission
<1>4. ASSUME RetryFailed PROVE SeenTypeOK'
  BY <1>4 DEF RetryFailed
<1>5. ASSUME NEW j \in Jobs, StartBatch(j) \/ AuthorizeBatch(j) \/ CheckCaps(j) \/ LoadPage(j)
                 \/ LoadSets(j) \/ PageDone(j) \/ StopAtLead(j) \/ TakeLead(j) \/ HoldDraft(j)
                 \/ Claim(j) \/ MeterAi(j) \/ Release(j) \/ RecordSent(j) \/ RecordFailed(j)
      PROVE UNCHANGED ghostVars
  BY <1>5 DEF StartBatch, AuthorizeBatch, CheckCaps, LoadPage, LoadSets, PageDone, StopAtLead, TakeLead,
              HoldDraft, Claim, MeterAi, Release, RecordSent, RecordFailed
<1>6. ASSUME \/ \E l \in Leads : Suppress(l) \/ Research(l) \/ Reply(l) \/ Bounce(l)
             \/ \E l \in Leads, s \in UserStages : SetStage(l, s)
             \/ \E l \in Leads, v \in {"APPROVED", "REJECTED"} : ReviewDraft(l, v)
             \/ SweepStale
             \/ NextDay
             \/ UNCHANGED vars
      PROVE UNCHANGED ghostVars
  BY <1>6 DEF Suppress, Research, Reply, Bounce, SetStage, ReviewDraft, SweepStale, NextDay, vars
<1>7. UNCHANGED ghostVars => SeenTypeOK'
  BY DEF ghostVars
<1>8. QED
  BY <1>1, <1>2, <1>3, <1>4, <1>5, <1>6, <1>7 DEF Next, JobStep, Surroundings

\* Every variable keeps its type through every step of a job and of its
\* surroundings.
THEOREM TypeCorrect == Spec => []TypeOK
<1>1. Init => TypeOK
  <2>1. Init => RowsTypeOK
    <3>1. NoRow \in OutboxRows
      BY RowUpdates
    <3>2. 1 \in Days
      BY ConstantsAssumption DEF Days
    <3>3. QED
      BY <3>1, <3>2, DraftsAssumption DEF Init, RowsTypeOK, LeadStages
  <2>2. Init => JobsTypeOK
    BY ConstantsAssumption DEF Init, JobsTypeOK, BeforeClaim, Holding, DraftKinds
  <2>3. Init => SeenTypeOK
    BY DEF Init, SeenTypeOK
  <2>4. QED
    BY <2>1, <2>2, <2>3 DEF TypeOK
<1>2. TypeOK /\ [Next]_vars => TypeOK'
  BY RowsTyped, JobsTyped, SeenTyped DEF TypeOK
<1>3. QED
  BY <1>1, <1>2, PTL DEF Spec

-----------------------------------------------------------------------------
(* The claim.  ClaimHeld, OneMailPerClear and LedgerMatchesOutbox are not   *)
(* inductive: they need to know who owns a row, that a free row has no      *)
(* message out, and how far the owner is.                                   *)

\* A row with an owner is the one its owner is busy with.
OwnerHolds ==
    \A l \in Leads, j \in Jobs : row[l].owner = j => pc[j] \in Holding /\ cur[j] = l

\* A lead without a row has no message out.
FreeRowUnmailed ==
    \A l \in Leads : row[l].status = "NONE" => row[l].owner = NoJob /\ l \notin mailed

\* Program points between the claim and the message.
Unsent == {"meter", "model", "refund", "release", "send"}

\* A job knows whether the message of its row is out until it gives up on it.
MailedAsFar ==
    \A j \in Jobs :
        /\ pc[j] \in Unsent => cur[j] \notin mailed
        /\ pc[j] = "record" => cur[j] \in mailed

\* One message per clear, the present row's included.
MailsCounted ==
    \A l \in Leads :
        /\ mails[l] <= clears[l] + (IF l \in mailed THEN 1 ELSE 0)
        /\ l \in mailed => mails[l] > 0

\* No job works on a row whose message is in the ledger.
LedgerSettled ==
    \A l \in Leads :
        /\ row[l].status \in {"SENT", "REPLIED"} => sentEvents[l] = 1
        /\ sentEvents[l] # 0 =>
              /\ sentEvents[l] = 1
              /\ mails[l] > 0
              /\ row[l].status \in {"SENT", "REPLIED", "BOUNCED"}
              /\ row[l].owner = NoJob

ClaimInv ==
    /\ ClaimHeld
    /\ OwnerHolds
    /\ FreeRowUnmailed
    /\ MailedAsFar
    /\ MailsCounted
    /\ LedgerSettled

\* A step that leaves the outbox, the ledger and the mail alone, and moves a
\* job only before its claim or between claim and message, keeps ClaimInv.
LEMMA QuietStep ==
    ASSUME TypeOK, ClaimInv,
           UNCHANGED <<row, sentEvents, mails, mailed, clears>>,
           \A k \in Jobs : \/ pc'[k] = pc[k] /\ cur'[k] = cur[k]
                           \/ pc[k] \notin Holding /\ pc'[k] \notin Holding
                           \/ pc[k] \in Unsent /\ pc'[k] \in Unsent /\ cur'[k] = cur[k]
    PROVE  ClaimInv'
<1>1. ClaimHeld' /\ OwnerHolds'
  BY DEF ClaimInv, ClaimHeld, OwnerHolds, Holding, Unsent
<1>2. FreeRowUnmailed' /\ MailsCounted' /\ LedgerSettled'
  BY DEF ClaimInv, FreeRowUnmailed, MailsCounted, LedgerSettled
<1>3. MailedAsFar'
  BY DEF ClaimInv, MailedAsFar, Holding, Unsent
<1>4. QED
  BY <1>1, <1>2, <1>3 DEF ClaimInv

\* The claim: the row was free, so no other job holds it and no message is out.
LEMMA ClaimStep == ASSUME TypeOK, ClaimInv, NEW j \in Jobs, Claim(j) PROVE ClaimInv'
<1>1. pc[j] = "claim" /\ cur[j] \in Leads /\ UNCHANGED <<sentEvents, mails, mailed, clears>>
  BY DEF Claim, TypeOK, JobsTypeOK, ghostVars
<1>2. CASE row' = row
  <2>1. pc'[j] \notin Holding
    BY <1>1, <1>2, ConstantsAssumption
    DEF Claim, EndBatch, NextLead, Goto, Holding, TypeOK, JobsTypeOK, RowsTypeOK, OutboxRows
  <2>2. \A k \in Jobs \ {j} : pc'[k] = pc[k] /\ cur'[k] = cur[k]
    BY DEF Claim, EndBatch, NextLead, Goto, TypeOK, JobsTypeOK
  <2>3. QED
    BY <1>1, <1>2, <2>1, <2>2, QuietStep DEF Holding
<1>3. CASE /\ row[cur[j]].status = "NONE"
           /\ row' = [row EXCEPT ![cur[j]] = [status |-> "SENDING", owner |-> j, day |-> today]]
           /\ pc' = [pc EXCEPT ![j] = IF Generates(j, cur[j]) THEN "meter" ELSE "send"]
           /\ cur' = cur
  <2> DEFINE l == cur[j]
  <2>1. /\ row[l].owner = NoJob /\ l \notin mailed /\ sentEvents[l] = 0
        /\ \A k \in Jobs : pc[k] \in Holding => cur[k] # l
    BY <1>1, <1>3, ConstantsAssumption
    DEF ClaimInv, ClaimHeld, FreeRowUnmailed, LedgerSettled, TypeOK, RowsTypeOK
  <2>2. /\ row'[l] = [status |-> "SENDING", owner |-> j, day |-> today]
        /\ \A m \in Leads \ {l} : row'[m] = row[m]
        /\ pc'[j] \in {"meter", "send"}
        /\ \A k \in Jobs \ {j} : pc'[k] = pc[k]
    BY <1>1, <1>3 DEF TypeOK, RowsTypeOK, JobsTypeOK
  <2>3. ClaimHeld'
    BY <1>1, <1>3, <2>1, <2>2 DEF ClaimInv, ClaimHeld, TypeOK, JobsTypeOK
  <2>4. OwnerHolds'
    BY <1>1, <1>3, <2>1, <2>2 DEF ClaimInv, OwnerHolds, Holding
  <2>5. FreeRowUnmailed' /\ MailsCounted'
    BY <1>1, <2>2 DEF ClaimInv, FreeRowUnmailed, MailsCounted
  <2>6. MailedAsFar'
    BY <1>1, <1>3, <2>1, <2>2 DEF ClaimInv, MailedAsFar
  <2>7. LedgerSettled'
    BY <1>1, <2>1, <2>2 DEF ClaimInv, LedgerSettled
  <2>8. QED
    BY <2>3, <2>4, <2>5, <2>6, <2>7 DEF ClaimInv
<1>4. QED
  BY <1>2, <1>3 DEF Claim, Goto

\* Giving the row back, recording the message and recording a failure end a
\* claim: afterwards the row has no owner and the job is past it.
LEMMA SettleStep ==
    ASSUME TypeOK, ClaimInv, NEW j \in Jobs, NextLead(j), pc[j] \in Holding,
           UNCHANGED <<mails, mailed, clears>>,
           NEW r, row' = [row EXCEPT ![cur[j]] = r], r.owner = NoJob,
           r.status = "NONE" => cur[j] \notin mailed,
           \/ sentEvents' = sentEvents /\ r.status \notin {"SENT", "REPLIED"}
           \/ /\ sentEvents' = [sentEvents EXCEPT ![cur[j]] = @ + 1]
              /\ r.status = "SENT"
              /\ cur[j] \in mailed
    PROVE  ClaimInv'
<1> DEFINE l == cur[j]
<1>1. /\ l \in Leads /\ row[l].owner = j
      /\ \A k \in Jobs : pc[k] \in Holding /\ cur[k] = l => k = j
  BY DEF ClaimInv, ClaimHeld, TypeOK, JobsTypeOK
<1>2. /\ row'[l] = r
      /\ \A m \in Leads \ {l} : row'[m] = row[m]
      /\ pc'[j] = "lead"
      /\ \A k \in Jobs \ {j} : pc'[k] = pc[k] /\ cur'[k] = cur[k]
  BY <1>1 DEF TypeOK, RowsTypeOK, JobsTypeOK, NextLead, Goto
<1>3. sentEvents[l] = 0
  BY <1>1, ConstantsAssumption DEF ClaimInv, LedgerSettled, TypeOK, RowsTypeOK
<1>4. ClaimHeld'
  BY <1>1, <1>2 DEF ClaimInv, ClaimHeld, Holding, TypeOK, JobsTypeOK
<1>5. OwnerHolds'
  BY <1>1, <1>2, ConstantsAssumption DEF ClaimInv, OwnerHolds
<1>6. FreeRowUnmailed' /\ MailsCounted'
  BY <1>1, <1>2 DEF ClaimInv, FreeRowUnmailed, MailsCounted
<1>7. MailedAsFar'
  BY <1>1, <1>2 DEF ClaimInv, MailedAsFar, Unsent
<1>8. LedgerSettled'
  <2>1. CASE sentEvents' = sentEvents /\ r.status \notin {"SENT", "REPLIED"}
    BY <1>1, <1>2, <1>3, <2>1 DEF ClaimInv, LedgerSettled
  <2>2. CASE /\ sentEvents' = [sentEvents EXCEPT ![l] = @ + 1]
             /\ r.status = "SENT"
             /\ l \in mailed
    <3>1. mails[l] > 0
      BY <1>1, <2>2 DEF ClaimInv, MailsCounted
    <3>2. /\ sentEvents'[l] = 1
          /\ \A m \in Leads \ {l} : sentEvents'[m] = sentEvents[m]
      BY <1>1, <1>3, <2>2 DEF TypeOK, RowsTypeOK
    <3>3. QED
      BY <1>1, <1>2, <2>2, <3>1, <3>2 DEF ClaimInv, LedgerSettled
  <2>3. QED
    BY <2>1, <2>2
<1>9. QED
  BY <1>4, <1>5, <1>6, <1>7, <1>8 DEF ClaimInv

\* The message leaves: the owner's row had none out, so the count goes up by
\* one and the row's message is out.
LEMMA SendStep == ASSUME TypeOK, ClaimInv, NEW j \in Jobs, Send(j) PROVE ClaimInv'
<1> DEFINE l == cur[j]
<1>1. /\ pc[j] = "send" /\ l \in Leads /\ row[l].owner = j /\ l \notin mailed
      /\ row[l].status \in {"SENDING", "BOUNCED"}
      /\ \A k \in Jobs : pc[k] \in Holding /\ cur[k] = l => k = j
  <2>1. pc[j] = "send" /\ l \in Leads
    BY DEF Send, Holding, TypeOK, JobsTypeOK
  <2>2. l \notin mailed
    BY <2>1 DEF ClaimInv, MailedAsFar, Unsent
  <2>3. /\ row[l].owner = j /\ row[l].status \in {"SENDING", "BOUNCED"}
        /\ \A k \in Jobs : pc[k] \in Holding /\ cur[k] = l => k = j
    BY <2>1 DEF ClaimInv, ClaimHeld, Holding
  <2>4. QED
    BY <2>1, <2>2, <2>3
<1>2. UNCHANGED <<row, cur, sentEvents, clears>>
  BY DEF Send, dbVars
<1>3. CASE /\ mails' = [mails EXCEPT ![l] = @ + 1]
           /\ mailed' = mailed \cup {l}
           /\ pc' = [pc EXCEPT ![j] = "record"]
  <2>1. ClaimHeld' /\ OwnerHolds'
    BY <1>1, <1>2, <1>3 DEF ClaimInv, ClaimHeld, OwnerHolds, Holding, TypeOK, JobsTypeOK
  <2>2. FreeRowUnmailed'
    BY <1>1, <1>2, <1>3 DEF ClaimInv, FreeRowUnmailed
  <2>3. MailedAsFar'
    BY <1>1, <1>2, <1>3 DEF ClaimInv, MailedAsFar, Unsent, Holding, TypeOK, JobsTypeOK
  <2>4. MailsCounted'
    BY <1>1, <1>2, <1>3 DEF ClaimInv, MailsCounted, TypeOK, SeenTypeOK
  <2>5. LedgerSettled'
    BY <1>1, <1>2, <1>3 DEF ClaimInv, LedgerSettled, TypeOK, SeenTypeOK
  <2>6. QED
    BY <2>1, <2>2, <2>3, <2>4, <2>5 DEF ClaimInv
<1>4. CASE UNCHANGED <<mails, mailed>> /\ pc' = [pc EXCEPT ![j] = "fail"]
  <2>1. ClaimHeld' /\ OwnerHolds'
    BY <1>1, <1>2, <1>4 DEF ClaimInv, ClaimHeld, OwnerHolds, Holding, TypeOK, JobsTypeOK
  <2>2. FreeRowUnmailed' /\ MailsCounted' /\ LedgerSettled'
    BY <1>2, <1>4 DEF ClaimInv, FreeRowUnmailed, MailsCounted, LedgerSettled
  <2>3. MailedAsFar'
    BY <1>2, <1>4 DEF ClaimInv, MailedAsFar, Unsent, TypeOK, JobsTypeOK
  <2>4. QED
    BY <2>1, <2>2, <2>3 DEF ClaimInv
<1>5. QED
  BY <1>3, <1>4 DEF Send, Goto

\* A crash frees the rows the job held and nothing else.
LEMMA CrashStep == ASSUME TypeOK, ClaimInv, NEW j \in Jobs, Crash(j) PROVE ClaimInv'
<1>1. /\ UNCHANGED <<sentEvents, mails, mailed, clears>>
      /\ pc'[j] = "idle"
      /\ \A k \in Jobs \ {j} : pc'[k] = pc[k] /\ cur'[k] = cur[k]
  BY DEF Crash, EndBatch, Goto, TypeOK, JobsTypeOK
<1>2. \A l \in Leads : /\ row'[l].status = row[l].status
                       /\ row'[l].owner = IF row[l].owner = j THEN NoJob ELSE row[l].owner
  BY DEF Crash, TypeOK, RowsTypeOK, OutboxRows
<1>3. ClaimHeld'
  BY <1>1, <1>2 DEF ClaimInv, ClaimHeld, Holding, TypeOK, JobsTypeOK
<1>4. OwnerHolds'
  BY <1>1, <1>2, ConstantsAssumption DEF ClaimInv, OwnerHolds
<1>5. FreeRowUnmailed' /\ MailsCounted' /\ LedgerSettled'
  BY <1>1, <1>2 DEF ClaimInv, FreeRowUnmailed, MailsCounted, LedgerSettled
<1>6. MailedAsFar'
  BY <1>1 DEF ClaimInv, MailedAsFar, Unsent
<1>7. QED
  BY <1>3, <1>4, <1>5, <1>6 DEF ClaimInv

\* Replies, bounces and the sweep change a row's status, never its owner, and
\* never make it free: a row in work stays SENDING or BOUNCED, one in the
\* ledger stays SENT, REPLIED or BOUNCED.
LEMMA StatusStep ==
    ASSUME TypeOK, ClaimInv, UNCHANGED <<sentEvents, jobVars, mails, mailed, clears>>,
           \A l \in Leads :
              /\ row'[l].owner = row[l].owner
              /\ \/ row'[l].status = row[l].status
                 \/ row[l].status = "SENT" /\ row'[l].status \in {"REPLIED", "BOUNCED"}
                 \/ row[l].status = "SENDING" /\ row'[l].status = "BOUNCED"
                 \/ /\ row[l].status = "SENDING" /\ row[l].owner = NoJob
                    /\ row'[l].status = "FAILED"
    PROVE  ClaimInv'
<1>1. ClaimHeld' /\ OwnerHolds'
  <2>1. UNCHANGED <<pc, cur>>
    BY DEF jobVars
  <2>2. \A j \in Jobs : pc[j] \in Holding => cur[j] \in Leads
    BY DEF TypeOK, JobsTypeOK
  <2>3. ClaimHeld'
    <3> SUFFICES ASSUME NEW j \in Jobs, pc'[j] \in Holding
                 PROVE  row'[cur'[j]].owner = j /\ row'[cur'[j]].status \in {"SENDING", "BOUNCED"}
      BY DEF ClaimHeld
    <3>1. /\ cur'[j] \in Leads /\ cur'[j] = cur[j]
          /\ row[cur[j]].owner = j
          /\ row[cur[j]].status \in {"SENDING", "BOUNCED"}
      BY <2>1, <2>2 DEF ClaimInv, ClaimHeld
    <3>2. QED
      BY <3>1, ConstantsAssumption
  <2>4. OwnerHolds'
    BY <2>1 DEF ClaimInv, OwnerHolds
  <2>5. QED
    BY <2>3, <2>4
<1>2. FreeRowUnmailed' /\ MailsCounted'
  BY DEF ClaimInv, FreeRowUnmailed, MailsCounted
<1>3. MailedAsFar'
  BY DEF ClaimInv, MailedAsFar, jobVars
<1>4. LedgerSettled'
  BY DEF ClaimInv, LedgerSettled
<1>5. QED
  BY <1>1, <1>2, <1>3, <1>4 DEF ClaimInv

\* retry-failed clears rows nobody works on, each of which counts one clear.
LEMMA ClearStep == ASSUME TypeOK, ClaimInv, RetryFailed PROVE ClaimInv'
<1>1. UNCHANGED <<sentEvents, pc, cur, mails>>
  BY DEF RetryFailed, jobVars
<1>2. \A l \in Leads \ Failed : row'[l] = row[l] /\ clears'[l] = clears[l] /\ (l \in mailed' <=> l \in mailed)
  BY DEF RetryFailed
<1>3. \A l \in Failed : /\ l \in Leads /\ row[l].status = "FAILED"
                        /\ row'[l] = NoRow /\ clears'[l] = clears[l] + 1 /\ l \notin mailed'
  BY DEF RetryFailed, Failed
<1>4. \A j \in Jobs : pc[j] \in Holding => cur[j] \in Leads \ Failed
  BY <1>3 DEF ClaimInv, ClaimHeld, TypeOK, JobsTypeOK
<1>5. ClaimHeld' /\ OwnerHolds'
  BY <1>1, <1>2, <1>3, <1>4, ConstantsAssumption DEF ClaimInv, ClaimHeld, OwnerHolds, NoRow
<1>6. FreeRowUnmailed' /\ MailsCounted'
  BY <1>1, <1>2, <1>3 DEF ClaimInv, FreeRowUnmailed, MailsCounted, NoRow, TypeOK, SeenTypeOK
<1>7. MailedAsFar'
  BY <1>1, <1>2, <1>4 DEF ClaimInv, MailedAsFar, Unsent, Holding
<1>8. LedgerSettled'
  BY <1>1, <1>2, <1>3 DEF ClaimInv, LedgerSettled, NoRow
<1>9. QED
  BY <1>5, <1>6, <1>7, <1>8 DEF ClaimInv

\* ClaimInv is inductive: every step of the batch and of its surroundings keeps it.
LEMMA ClaimInvStep == ASSUME TypeOK, ClaimInv, [Next]_vars PROVE ClaimInv'
<1>1. ASSUME NEW j \in Jobs, StartBatch(j) \/ AuthorizeBatch(j) \/ CheckCaps(j) \/ LoadPage(j)
                 \/ LoadSets(j) \/ PageDone(j) \/ StopAtLead(j) \/ TakeLead(j) \/ HoldDraft(j)
      PROVE ClaimInv'
  <2>1. UNCHANGED <<row, sentEvents, mails, mailed, clears>>
    BY <1>1 DEF StartBatch, AuthorizeBatch, CheckCaps, LoadPage, LoadSets, PageDone, StopAtLead,
                TakeLead, HoldDraft, dbVars, ghostVars
  <2>2. pc[j] \notin Holding /\ pc'[j] \notin Holding
    BY <1>1 DEF StartBatch, AuthorizeBatch, CheckCaps, LoadPage, LoadSets, PageDone, StopAtLead,
                TakeLead, HoldDraft, EndBatch, NextLead, Goto, Holding, TypeOK, JobsTypeOK
  <2>3. \A k \in Jobs \ {j} : pc'[k] = pc[k] /\ cur'[k] = cur[k]
    BY <1>1 DEF StartBatch, AuthorizeBatch, CheckCaps, LoadPage, LoadSets, PageDone, StopAtLead,
                TakeLead, HoldDraft, EndBatch, NextLead, Goto, TypeOK, JobsTypeOK
  <2>4. QED
    BY <2>1, <2>2, <2>3, QuietStep
<1>2. ASSUME NEW j \in Jobs, MeterAi(j) \/ CallModel(j) \/ RefundAi(j) PROVE ClaimInv'
  <2>1. UNCHANGED <<row, sentEvents, mails, mailed, clears, cur>>
    BY <1>2 DEF MeterAi, CallModel, RefundAi, ghostVars
  <2>2. /\ pc[j] \in Unsent /\ pc'[j] \in Unsent
        /\ \A k \in Jobs \ {j} : pc'[k] = pc[k]
    BY <1>2 DEF MeterAi, CallModel, RefundAi, Goto, Unsent, TypeOK, JobsTypeOK
  <2>3. QED
    BY <2>1, <2>2, QuietStep
<1>3. ASSUME NEW j \in Jobs, Claim(j) PROVE ClaimInv'
  BY <1>3, ClaimStep
<1>4. ASSUME NEW j \in Jobs, Release(j) \/ RecordFailed(j) PROVE ClaimInv'
  <2> DEFINE l == cur[j]
  <2>1. /\ NextLead(j) /\ pc[j] \in Holding
        /\ UNCHANGED <<mails, mailed, clears, sentEvents>>
    BY <1>4 DEF Release, RecordFailed, Holding, ghostVars
  <2>2. row[l] \in OutboxRows /\ row[l].status \in {"SENDING", "BOUNCED"}
    BY <2>1 DEF ClaimInv, ClaimHeld, TypeOK, RowsTypeOK, JobsTypeOK
  <2>3. pc[j] = "release" => l \notin mailed
    BY DEF ClaimInv, MailedAsFar, Unsent
  <2>4. PICK r : /\ row' = [row EXCEPT ![l] = r]
                 /\ r.owner = NoJob
                 /\ \/ r.status = "NONE" /\ pc[j] = "release"
                    \/ r.status \in {"FAILED", "SENDING", "BOUNCED"}
    <3>1. /\ NoRow.owner = NoJob /\ NoRow.status = "NONE"
          /\ [row[l] EXCEPT !.owner = NoJob].owner = NoJob
          /\ [row[l] EXCEPT !.owner = NoJob].status = row[l].status
          /\ [[row[l] EXCEPT !.status = "FAILED"] EXCEPT !.owner = NoJob].owner = NoJob
          /\ [[row[l] EXCEPT !.status = "FAILED"] EXCEPT !.owner = NoJob].status = "FAILED"
      BY <2>2 DEF NoRow, OutboxRows
    <3>2. \/ row' = [row EXCEPT ![l] = NoRow] /\ pc[j] = "release"
          \/ row' = [row EXCEPT ![l] = [row[l] EXCEPT !.owner = NoJob]]
          \/ row' = [row EXCEPT ![l] = [[row[l] EXCEPT !.status = "FAILED"] EXCEPT !.owner = NoJob]]
      BY <1>4, <2>1 DEF Release, RecordFailed, TypeOK, RowsTypeOK, JobsTypeOK
    <3>3. QED
      BY <2>2, <3>1, <3>2
  <2>5. QED
    BY <2>1, <2>3, <2>4, SettleStep
<1>5. ASSUME NEW j \in Jobs, RecordSent(j) PROVE ClaimInv'
  <2>1. pc[j] = "record" /\ cur[j] \in mailed /\ UNCHANGED <<mails, mailed, clears>>
    BY <1>5 DEF RecordSent, ClaimInv, MailedAsFar, ghostVars
  <2>2. CASE NextLead(j)
    <3> DEFINE r == [status |-> "SENT", owner |-> NoJob, day |-> today]
    <3>1. row' = [row EXCEPT ![cur[j]] = r] /\ sentEvents' = [sentEvents EXCEPT ![cur[j]] = @ + 1]
      BY <1>5, <2>1, <2>2 DEF RecordSent, NextLead, Goto, TypeOK, JobsTypeOK
    <3>2. r.owner = NoJob /\ r.status = "SENT"
      OBVIOUS
    <3>3. QED
      BY <2>1, <2>2, <3>1, <3>2, SettleStep DEF Holding
  <2>3. CASE UNCHANGED <<row, sentEvents, cur>> /\ pc' = [pc EXCEPT ![j] = "fail"]
    <3>1. ClaimHeld' /\ OwnerHolds'
      BY <2>1, <2>3 DEF ClaimInv, ClaimHeld, OwnerHolds, Holding, TypeOK, JobsTypeOK
    <3>2. FreeRowUnmailed' /\ MailsCounted' /\ LedgerSettled'
      BY <2>1, <2>3 DEF ClaimInv, FreeRowUnmailed, MailsCounted, LedgerSettled
    <3>3. MailedAsFar'
      BY <2>1, <2>3 DEF ClaimInv, MailedAsFar, Unsent, TypeOK, JobsTypeOK
    <3>4. QED
      BY <3>1, <3>2, <3>3 DEF ClaimInv
  <2>4. QED
    BY <1>5, <2>2, <2>3 DEF RecordSent, Goto
<1>6. ASSUME NEW j \in Jobs, Send(j) PROVE ClaimInv'
  BY <1>6, SendStep
<1>7. ASSUME NEW j \in Jobs, Crash(j) PROVE ClaimInv'
  BY <1>7, CrashStep
<1>8. ASSUME NEW l \in Leads, Reply(l) \/ Bounce(l) PROVE ClaimInv'
  <2>1. UNCHANGED <<sentEvents, jobVars, mails, mailed, clears>>
    BY <1>8 DEF Reply, Bounce, ghostVars
  <2>2. /\ \A m \in Leads \ {l} : row'[m] = row[m]
        /\ row'[l].owner = row[l].owner
        /\ \/ row'[l].status = row[l].status
           \/ row[l].status = "SENT" /\ row'[l].status \in {"REPLIED", "BOUNCED"}
           \/ row[l].status = "SENDING" /\ row'[l].status = "BOUNCED"
    BY <1>8 DEF Reply, Bounce, TypeOK, RowsTypeOK, OutboxRows
  <2>3. QED
    BY <2>1, <2>2, StatusStep
<1>9. ASSUME SweepStale PROVE ClaimInv'
  <2>1. UNCHANGED <<sentEvents, jobVars, mails, mailed, clears>>
    BY <1>9 DEF SweepStale, ghostVars
  <2>2. \A l \in Leads :
          /\ row'[l].owner = row[l].owner
          /\ \/ row'[l].status = row[l].status
             \/ /\ row[l].status = "SENDING" /\ row[l].owner = NoJob
                /\ row'[l].status = "FAILED"
    BY <1>9 DEF SweepStale, Stranded, TypeOK, RowsTypeOK, OutboxRows
  <2>3. QED
    BY <2>1, <2>2, StatusStep
<1>10. ASSUME RetryFailed PROVE ClaimInv'
  BY <1>10, ClearStep
<1>11. ASSUME \/ \E m \in {"ACTIVE", "PAUSED", "COMPLETE"} : SetMission(m)
              \/ \E l \in Leads : Suppress(l) \/ Research(l)
              \/ \E l \in Leads, s \in UserStages : SetStage(l, s)
              \/ \E l \in Leads, v \in {"APPROVED", "REJECTED"} : ReviewDraft(l, v)
              \/ NextDay
              \/ UNCHANGED vars
       PROVE ClaimInv'
  <2>1. UNCHANGED <<row, sentEvents, mails, mailed, clears, jobVars>>
    BY <1>11 DEF SetMission, Suppress, Research, SetStage, ReviewDraft, NextDay, vars, dbVars, ghostVars
  <2>2. QED
    BY <2>1, QuietStep DEF jobVars
<1>12. QED
  BY <1>1, <1>2, <1>3, <1>4, <1>5, <1>6, <1>7, <1>8, <1>9, <1>10, <1>11 DEF Next, JobStep, Surroundings

\* The claim is safe for any number of leads, jobs, crashes, failed
\* transactions and clears.
THEOREM ClaimInvariant == Spec => []ClaimInv
<1>1. Init => ClaimInv
  BY ConstantsAssumption
  DEF Init, ClaimInv, ClaimHeld, OwnerHolds, FreeRowUnmailed, MailedAsFar, MailsCounted, LedgerSettled,
      NoRow, Holding, Unsent
<1>2. TypeOK /\ ClaimInv /\ [Next]_vars => ClaimInv'
  BY ClaimInvStep
<1>3. QED
  BY <1>1, <1>2, TypeCorrect, PTL DEF Spec

\* A job past its claim owns the lead's row, and no second job works on it
\* (claimOutboxSlot).
THEOREM ClaimIsHeld == Spec => []ClaimHeld
<1>1. ClaimInv => ClaimHeld
  BY DEF ClaimInv
<1>2. QED
  BY <1>1, ClaimInvariant, PTL

\* A lead gets at most one message more than an operator cleared failures.
THEOREM MailedOncePerClear == Spec => []OneMailPerClear
<1>1. TypeOK /\ ClaimInv => OneMailPerClear
  <2> SUFFICES ASSUME TypeOK, ClaimInv, NEW l \in Leads PROVE mails[l] <= 1 + clears[l]
    BY DEF OneMailPerClear
  <2>1. mails[l] \in Nat /\ clears[l] \in Nat
    BY DEF TypeOK, SeenTypeOK
  <2>2. mails[l] <= clears[l] + (IF l \in mailed THEN 1 ELSE 0)
    BY DEF ClaimInv, MailsCounted
  <2>3. QED
    BY <2>1, <2>2
<1>2. QED
  BY <1>1, TypeCorrect, ClaimInvariant, PTL

\* Rows that say a message went out and the SENT events of the ledger agree.
THEOREM LedgerAgrees == Spec => []LedgerMatchesOutbox
<1>1. ClaimInv => LedgerMatchesOutbox
  BY DEF ClaimInv, LedgerSettled, LedgerMatchesOutbox
<1>2. QED
  BY <1>1, ClaimInvariant, PTL

-----------------------------------------------------------------------------
(* The abstract slot: every step of a batch or of its surroundings is a    *)
(* step of the slot or a stutter.                                          *)

\* The slots as the refinement mapping sees them.
slotMap == [l \in Leads |-> SlotOf(l)]

\* Steps that keep every lead's slot, and the mail and clear counts, are
\* stutters of the abstract specification.
LEMMA SlotStutter ==
    ASSUME UNCHANGED <<mails, clears>>, \A l \in Leads : SlotOf(l)' = SlotOf(l)
    PROVE  UNCHANGED Slots!vars
BY DEF Slots!vars

\* A row keeps its slot when its status moves between the ones in which the
\* row is neither free nor given up.
LEMMA SlotKept ==
    ASSUME NEW l \in Leads,
           \/ row'[l].status = row[l].status
           \/ row[l].status \notin {"NONE", "FAILED"} /\ row'[l].status \notin {"NONE", "FAILED"},
           l \in mailed' <=> l \in mailed
    PROVE  SlotOf(l)' = SlotOf(l)
BY DEF SlotOf

\* Each step that settles or takes a slot is the abstract action of its name.
LEMMA SlotStep == ASSUME TypeOK, ClaimInv, [Next]_vars PROVE [Slots!Next]_(Slots!vars)
<1> USE DEF slotMap
<1>1. ASSUME NEW j \in Jobs, StartBatch(j) \/ AuthorizeBatch(j) \/ CheckCaps(j) \/ LoadPage(j)
                 \/ LoadSets(j) \/ PageDone(j) \/ StopAtLead(j) \/ TakeLead(j) \/ HoldDraft(j)
                 \/ MeterAi(j) \/ CallModel(j) \/ RefundAi(j)
      PROVE UNCHANGED Slots!vars
  <2>1. UNCHANGED <<row, mails, mailed, clears>>
    BY <1>1 DEF StartBatch, AuthorizeBatch, CheckCaps, LoadPage, LoadSets, PageDone, StopAtLead,
                TakeLead, HoldDraft, MeterAi, CallModel, RefundAi, dbVars, ghostVars
  <2>2. QED
    BY <2>1 DEF Slots!vars, SlotOf
<1>2. ASSUME NEW j \in Jobs, Claim(j) PROVE [Slots!Next]_(Slots!vars)
  <2>0. PICK l \in Leads : l = cur[j]
    BY <1>2 DEF Claim, TypeOK, JobsTypeOK, Holding
  <2>1. l \in Leads /\ UNCHANGED <<mails, mailed, clears>>
    BY <2>0, <1>2 DEF Claim, TypeOK, JobsTypeOK, ghostVars
  <2>2. CASE row' = row
    BY <2>0, <2>1, <2>2 DEF Slots!vars, SlotOf
  <2>3. CASE /\ row[l].status = "NONE"
             /\ row' = [row EXCEPT ![l] = [status |-> "SENDING", owner |-> j, day |-> today]]
    <3>1. /\ SlotOf(l) = "OPEN" /\ SlotOf(l)' = "TAKEN"
          /\ \A m \in Leads \ {l} : SlotOf(m)' = SlotOf(m)
      BY <2>0, <2>1, <2>3 DEF SlotOf, ClaimInv, FreeRowUnmailed, TypeOK, RowsTypeOK
    <3>2. Slots!Take(l)
      BY <2>0, <2>1, <3>1 DEF Slots!Take
    <3>3. QED
      BY <2>0, <2>1, <3>2 DEF Slots!Next
  <2>4. QED
    BY <2>0, <1>2, <2>2, <2>3 DEF Claim
<1>3. ASSUME NEW j \in Jobs, Release(j) PROVE [Slots!Next]_(Slots!vars)
  <2>0. PICK l \in Leads : l = cur[j]
    BY <1>3 DEF Release, TypeOK, JobsTypeOK, Holding
  <2>1. /\ l \in Leads /\ l \notin mailed /\ UNCHANGED <<mails, mailed, clears>>
        /\ row[l].status \in {"SENDING", "BOUNCED"}
    BY <2>0, <1>3 DEF Release, ClaimInv, ClaimHeld, MailedAsFar, Holding, Unsent, TypeOK, JobsTypeOK, ghostVars
  <2>2. CASE row' = [row EXCEPT ![l] = NoRow]
    <3>1. /\ SlotOf(l) = "TAKEN" /\ SlotOf(l)' = "OPEN"
          /\ \A m \in Leads \ {l} : SlotOf(m)' = SlotOf(m)
      BY <2>0, <2>1, <2>2 DEF SlotOf, NoRow, TypeOK, RowsTypeOK
    <3>2. Slots!GiveBack(l)
      BY <2>0, <2>1, <3>1 DEF Slots!GiveBack
    <3>3. QED
      BY <2>0, <2>1, <3>2 DEF Slots!Next
  <2>3. CASE row' = [row EXCEPT ![l].owner = NoJob]
    <3>1. \A m \in Leads : row'[m].status = row[m].status
      BY <2>0, <2>1, <2>3 DEF TypeOK, RowsTypeOK, OutboxRows
    <3>2. QED
      BY <2>0, <2>1, <3>1, SlotKept, SlotStutter
  <2>4. QED
    BY <2>0, <1>3, <2>2, <2>3 DEF Release
<1>4. ASSUME NEW j \in Jobs, Send(j) PROVE [Slots!Next]_(Slots!vars)
  <2>0. PICK l \in Leads : l = cur[j]
    BY <1>4 DEF Send, TypeOK, JobsTypeOK, Holding
  <2>1. /\ l \in Leads /\ l \notin mailed /\ UNCHANGED <<row, clears>>
        /\ row[l].status \in {"SENDING", "BOUNCED"}
    BY <2>0, <1>4 DEF Send, ClaimInv, ClaimHeld, MailedAsFar, Holding, Unsent, TypeOK, JobsTypeOK, dbVars
  <2>2. CASE mails' = [mails EXCEPT ![l] = @ + 1] /\ mailed' = mailed \cup {l}
    <3>1. /\ SlotOf(l) = "TAKEN" /\ SlotOf(l)' = "MAILED"
          /\ \A m \in Leads \ {l} : SlotOf(m)' = SlotOf(m)
      BY <2>0, <2>1, <2>2 DEF SlotOf
    <3>2. Slots!Mail(l)
      BY <2>0, <2>1, <2>2, <3>1 DEF Slots!Mail
    <3>3. QED
      BY <2>0, <2>1, <3>2 DEF Slots!Next
  <2>3. CASE UNCHANGED <<mails, mailed>>
    BY <2>0, <2>1, <2>3 DEF Slots!vars, SlotOf
  <2>4. QED
    BY <2>0, <1>4, <2>2, <2>3 DEF Send
<1>5. ASSUME NEW j \in Jobs, RecordSent(j) PROVE UNCHANGED Slots!vars
  <2>1. /\ cur[j] \in Leads /\ UNCHANGED <<mails, mailed, clears>>
        /\ row[cur[j]].status \in {"SENDING", "BOUNCED"}
    BY <1>5 DEF RecordSent, ClaimInv, ClaimHeld, Holding, TypeOK, JobsTypeOK, ghostVars
  <2>2. \A l \in Leads : \/ row'[l].status = row[l].status
                         \/ l = cur[j] /\ row'[l].status = "SENT"
    BY <1>5, <2>1 DEF RecordSent, TypeOK, RowsTypeOK
  <2>3. QED
    BY <2>1, <2>2, SlotKept, SlotStutter
<1>6. ASSUME NEW j \in Jobs, RecordFailed(j) PROVE [Slots!Next]_(Slots!vars)
  <2>0. PICK l \in Leads : l = cur[j]
    BY <1>6 DEF RecordFailed, TypeOK, JobsTypeOK, Holding
  <2>1. /\ l \in Leads /\ UNCHANGED <<mails, mailed, clears>>
        /\ row[l].status \in {"SENDING", "BOUNCED"}
    BY <2>0, <1>6 DEF RecordFailed, ClaimInv, ClaimHeld, Holding, TypeOK, JobsTypeOK, ghostVars
  <2>2. \A m \in Leads \ {l} : row'[m] = row[m]
    BY <2>0, <1>6, <2>1 DEF RecordFailed, TypeOK, RowsTypeOK
  <2>3. CASE row'[l].status = "FAILED"
    <3>1. /\ SlotOf(l) \in {"TAKEN", "MAILED"} /\ SlotOf(l)' = "GIVEN_UP"
          /\ \A m \in Leads \ {l} : SlotOf(m)' = SlotOf(m)
      BY <2>1, <2>2, <2>3 DEF SlotOf
    <3>2. Slots!GiveUp({l})
      BY <2>1, <3>1 DEF Slots!GiveUp
    <3>3. QED
      BY <2>1, <3>2 DEF Slots!Next
  <2>4. CASE row'[l].status = row[l].status
    BY <2>1, <2>2, <2>4, SlotKept, SlotStutter
  <2>5. row'[l].status \in {"FAILED", row[l].status}
    <3>1. row \in [Leads -> OutboxRows] /\ row[l] \in OutboxRows
      BY <2>1 DEF TypeOK, RowsTypeOK
    <3>2. CASE row' = [row EXCEPT ![l].status = "FAILED", ![l].owner = NoJob]
      BY <2>1, <3>1, <3>2 DEF OutboxRows
    <3>3. CASE row' = [row EXCEPT ![l].owner = NoJob]
      BY <2>1, <3>1, <3>3 DEF OutboxRows
    <3>4. QED
      BY <2>0, <1>6, <3>2, <3>3 DEF RecordFailed
  <2>6. QED
    BY <2>3, <2>4, <2>5
<1>7. ASSUME NEW j \in Jobs, Crash(j) PROVE UNCHANGED Slots!vars
  <2>1. UNCHANGED <<mails, mailed, clears>>
    BY <1>7 DEF Crash
  <2>2. \A l \in Leads : row'[l].status = row[l].status
    BY <1>7 DEF Crash, TypeOK, RowsTypeOK, OutboxRows
  <2>3. QED
    BY <2>1, <2>2, SlotKept, SlotStutter
<1>8. ASSUME NEW k \in Leads, Reply(k) \/ Bounce(k) PROVE UNCHANGED Slots!vars
  <2>1. UNCHANGED <<mails, mailed, clears>>
    BY <1>8 DEF Reply, Bounce, ghostVars
  <2>2. \A l \in Leads : \/ row'[l].status = row[l].status
                         \/ /\ row[l].status \in {"SENT", "SENDING"}
                            /\ row'[l].status \in {"REPLIED", "BOUNCED"}
    BY <1>8 DEF Reply, Bounce, TypeOK, RowsTypeOK, OutboxRows
  <2>3. QED
    BY <2>1, <2>2, SlotKept, SlotStutter
<1>9. ASSUME RetryFailed PROVE Slots!Next
  <2> DEFINE S == {l \in Leads : slotMap[l] = "GIVEN_UP"}
  <2>1. S = Failed
    BY DEF Failed, SlotOf
  <2>2. /\ S # {} /\ \A l \in S : clears[l] < MaxClears
        /\ clears' = [l \in Leads |-> IF l \in S THEN clears[l] + 1 ELSE clears[l]]
        /\ mails' = mails
    BY <1>9, <2>1 DEF RetryFailed
  <2>3. \A l \in Leads : SlotOf(l)' = IF l \in S THEN "OPEN" ELSE SlotOf(l)
    BY <1>9, <2>1 DEF RetryFailed, SlotOf, NoRow
  <2>4. Slots!Reopen
    BY <2>2, <2>3 DEF Slots!Reopen
  <2>5. QED
    BY <2>4 DEF Slots!Next
<1>10. ASSUME SweepStale PROVE Slots!Next
  <2>1. PICK S \in (SUBSET Stranded) \ {{}} :
          row' = [l \in Leads |-> IF l \in S THEN [row[l] EXCEPT !.status = "FAILED"] ELSE row[l]]
    BY <1>10 DEF SweepStale
  <2>2. UNCHANGED <<mails, mailed, clears>>
    BY <1>10 DEF SweepStale, ghostVars
  <2>3. \A l \in Leads : row'[l].status = IF l \in S THEN "FAILED" ELSE row[l].status
    BY <2>1 DEF TypeOK, RowsTypeOK, OutboxRows
  <2>4. /\ \A l \in Leads : SlotOf(l)' = IF l \in S THEN "GIVEN_UP" ELSE SlotOf(l)
        /\ \A l \in S : l \in Leads /\ SlotOf(l) \in {"TAKEN", "MAILED"}
    BY <2>1, <2>2, <2>3 DEF SlotOf, Stranded
  <2>5. Slots!GiveUp(S)
    BY <2>1, <2>2, <2>4 DEF Slots!GiveUp
  <2>6. QED
    BY <2>4, <2>5 DEF Slots!Next
<1>11. ASSUME \/ \E m \in {"ACTIVE", "PAUSED", "COMPLETE"} : SetMission(m)
              \/ \E l \in Leads : Suppress(l) \/ Research(l)
              \/ \E l \in Leads, s \in UserStages : SetStage(l, s)
              \/ \E l \in Leads, v \in {"APPROVED", "REJECTED"} : ReviewDraft(l, v)
              \/ NextDay
              \/ UNCHANGED vars
       PROVE UNCHANGED Slots!vars
  <2>1. UNCHANGED <<row, mails, mailed, clears>>
    BY <1>11 DEF SetMission, Suppress, Research, SetStage, ReviewDraft, NextDay, vars, dbVars, ghostVars
  <2>2. QED
    BY <2>1 DEF Slots!vars, SlotOf
<1>12. QED
  BY <1>1, <1>2, <1>3, <1>4, <1>5, <1>6, <1>7, <1>8, <1>9, <1>10, <1>11 DEF Next, JobStep, Surroundings

\* The outbox keeps the promise of SendSlot for any number of leads and jobs:
\* a slot is taken before a message leaves, one leaves per taking, and only an
\* operator reopens a slot that was given up.
THEOREM SendImplementsSlot == Spec => ImplementsSendSlot
<1>1. Init => Slots!Init
  BY DEF Init, NoRow, Slots!Init, SlotOf
<1>2. TypeOK /\ ClaimInv /\ [Next]_vars => [Slots!Next]_(Slots!vars)
  BY SlotStep
<1>3. QED
  BY <1>1, <1>2, TypeCorrect, ClaimInvariant, PTL DEF Spec, Slots!Spec, ImplementsSendSlot

-----------------------------------------------------------------------------
(* The mission stop.                                                       *)

\* A job that sent a message after the stop is past its last mission check
\* and cannot pass another one while the mission is stopped.
OverrunInv ==
    \A j \in Jobs :
        /\ overrun[j] <= 1
        /\ overrun[j] # 0 => /\ mission # "ACTIVE"
                             /\ pc[j] \in {"idle", "page", "sets", "lead", "record", "fail"}

LEMMA OverrunStep ==
    ASSUME TypeOK, OverrunInv, [Next]_vars, "lostRead" \notin Env
    PROVE  OverrunInv'
<1> USE DEF TypeOK, JobsTypeOK, SeenTypeOK
<1>1. ASSUME NEW j \in Jobs, UNCHANGED <<mission, overrun>>,
             \A k \in Jobs \ {j} : pc'[k] = pc[k],
             overrun[j] # 0 => pc'[j] \in {"idle", "page", "sets", "lead", "record", "fail"}
      PROVE OverrunInv'
  BY <1>1 DEF OverrunInv
<1>2. ASSUME NEW j \in Jobs, StartBatch(j) \/ TakeLead(j) PROVE OverrunInv'
  <2>1. overrun[j] = 0
    BY <1>2 DEF StartBatch, TakeLead, MissionMayPass, OverrunInv
  <2>2. UNCHANGED <<mission, overrun>> /\ \A k \in Jobs \ {j} : pc'[k] = pc[k]
    BY <1>2 DEF StartBatch, TakeLead, Goto, dbVars, ghostVars
  <2>3. QED
    BY <1>1, <2>1, <2>2
<1>3. ASSUME NEW j \in Jobs, AuthorizeBatch(j) \/ CheckCaps(j) \/ LoadPage(j) \/ LoadSets(j)
                 \/ PageDone(j) \/ StopAtLead(j)
      PROVE OverrunInv'
  <2>1. UNCHANGED <<mission, overrun>> /\ \A k \in Jobs \ {j} : pc'[k] = pc[k]
    BY <1>3 DEF AuthorizeBatch, CheckCaps, LoadPage, LoadSets, PageDone, StopAtLead, EndBatch, Goto,
                dbVars, ghostVars
  <2>2. pc'[j] \in {"idle", "page", "sets", "lead"} \/ pc[j] = "authorize"
    BY <1>3 DEF AuthorizeBatch, CheckCaps, LoadPage, LoadSets, PageDone, StopAtLead, EndBatch, Goto
  <2>3. QED
    BY <1>1, <2>1, <2>2 DEF OverrunInv
<1>4. ASSUME NEW j \in Jobs, HoldDraft(j) \/ Claim(j) \/ MeterAi(j) \/ CallModel(j) \/ RefundAi(j)
                 \/ Release(j)
      PROVE OverrunInv'
  <2>1. UNCHANGED <<mission, overrun>> /\ \A k \in Jobs \ {j} : pc'[k] = pc[k]
    BY <1>4 DEF HoldDraft, Claim, MeterAi, CallModel, RefundAi, Release, NextLead, EndBatch, Goto, ghostVars
  <2>2. pc[j] \in {"hold", "claim", "meter", "model", "refund", "release"}
    BY <1>4 DEF HoldDraft, Claim, MeterAi, CallModel, RefundAi, Release
  <2>3. QED
    BY <1>1, <2>1, <2>2 DEF OverrunInv
<1>5. ASSUME NEW j \in Jobs, RecordSent(j) \/ RecordFailed(j) \/ Crash(j) PROVE OverrunInv'
  <2>1. UNCHANGED <<mission, overrun>> /\ \A k \in Jobs \ {j} : pc'[k] = pc[k]
    BY <1>5 DEF RecordSent, RecordFailed, Crash, NextLead, EndBatch, Goto, ghostVars
  <2>2. pc'[j] \in {"idle", "lead", "fail"}
    BY <1>5 DEF RecordSent, RecordFailed, Crash, NextLead, EndBatch, Goto
  <2>3. QED
    BY <1>1, <2>1, <2>2
<1>6. ASSUME NEW j \in Jobs, Send(j) PROVE OverrunInv'
  <2>1. /\ pc[j] = "send" /\ overrun[j] = 0 /\ mission' = mission
        /\ \A k \in Jobs \ {j} : pc'[k] = pc[k] /\ overrun'[k] = overrun[k]
    BY <1>6 DEF Send, Goto, OverrunInv, dbVars
  <2>2. \/ overrun'[j] = 0
        \/ overrun'[j] = 1 /\ mission # "ACTIVE" /\ pc'[j] = "record"
    BY <1>6, <2>1 DEF Send, Goto, MissionBlocks
  <2>3. QED
    BY <2>1, <2>2 DEF OverrunInv
<1>7. ASSUME NEW m \in {"ACTIVE", "PAUSED", "COMPLETE"}, SetMission(m) PROVE OverrunInv'
  BY <1>7 DEF SetMission, OverrunInv, jobVars
<1>8. ASSUME \/ \E l \in Leads : Suppress(l) \/ Research(l) \/ Reply(l) \/ Bounce(l)
             \/ \E l \in Leads, s \in UserStages : SetStage(l, s)
             \/ \E l \in Leads, v \in {"APPROVED", "REJECTED"} : ReviewDraft(l, v)
             \/ RetryFailed
             \/ SweepStale
             \/ NextDay
             \/ UNCHANGED vars
      PROVE OverrunInv'
  <2>1. UNCHANGED <<mission, overrun, pc>>
    BY <1>8 DEF Suppress, Research, Reply, Bounce, SetStage, ReviewDraft, RetryFailed, SweepStale, NextDay,
                vars, dbVars, jobVars, ghostVars
  <2>2. QED
    BY <2>1 DEF OverrunInv
<1>9. QED
  BY <1>2, <1>3, <1>4, <1>5, <1>6, <1>7, <1>8 DEF Next, JobStep, Surroundings

\* While mission reads succeed, a job sends at most the message it was busy
\* with when the mission stopped (getMissionSendBlockReason before each lead).
THEOREM StopHoldsBack ==
    ASSUME "lostRead" \notin Env
    PROVE  Spec => []PauseOverrunBounded
<1>1. Init => OverrunInv
  BY DEF Init, OverrunInv
<1>2. TypeOK /\ OverrunInv /\ [Next]_vars => OverrunInv'
  BY OverrunStep
<1>3. OverrunInv => PauseOverrunBounded
  BY DEF OverrunInv, PauseOverrunBounded
<1>4. QED
  BY <1>1, <1>2, <1>3, TypeCorrect, PTL DEF Spec

-----------------------------------------------------------------------------
(* Approval.                                                               *)

\* Whatever the mode, a job past its page checks holds no draft with a
\* secret; in approval mode it holds an approved one and generates nothing.
CopyInv ==
    /\ ApprovalRequired => aiUsed = 0
    /\ \A j \in Jobs :
          /\ ApprovalRequired => /\ pc[j] \notin {"meter", "model", "refund"}
                                 /\ \A l \in Leads : copies[j][l] \in {"NONE", "APPROVED", "TAINTED"}
          /\ pc[j] \in {"claim"} \cup Holding =>
                /\ copies[j][cur[j]] # "TAINTED"
                /\ ApprovalRequired => copies[j][cur[j]] = "APPROVED"

LEMMA CopyStep == ASSUME TypeOK, CopyInv, [Next]_vars PROVE CopyInv'
<1> USE DEF TypeOK, JobsTypeOK
<1>1. ASSUME NEW j \in Jobs, UNCHANGED aiUsed,
             \A k \in Jobs \ {j} : pc'[k] = pc[k] /\ cur'[k] = cur[k] /\ copies'[k] = copies[k],
             \/ copies'[j] = copies[j]
             \/ \A l \in Leads : copies'[j][l] = "NONE"
             \/ \A l \in Leads : ApprovalRequired => copies'[j][l] \in {"NONE", "APPROVED", "TAINTED"},
             pc'[j] \notin {"claim"} \cup Holding
      PROVE CopyInv'
  BY <1>1 DEF CopyInv, Holding
<1>2. ASSUME NEW j \in Jobs, EndBatch(j), UNCHANGED aiUsed PROVE CopyInv'
  <2>1. /\ \A k \in Jobs \ {j} : pc'[k] = pc[k] /\ cur'[k] = cur[k] /\ copies'[k] = copies[k]
        /\ \A l \in Leads : copies'[j][l] = "NONE"
        /\ pc'[j] = "idle"
    BY <1>2 DEF EndBatch, Goto
  <2>2. QED
    BY <1>1, <1>2, <2>1 DEF Holding
<1>3. ASSUME NEW j \in Jobs, NextLead(j), UNCHANGED <<copies, aiUsed>> PROVE CopyInv'
  <2>1. /\ \A k \in Jobs \ {j} : pc'[k] = pc[k] /\ cur'[k] = cur[k]
        /\ pc'[j] = "lead"
    BY <1>3 DEF NextLead, Goto
  <2>2. QED
    BY <1>1, <1>3, <2>1 DEF Holding
<1>4. ASSUME NEW j \in Jobs, StartBatch(j) \/ LoadSets(j) PROVE CopyInv'
  <2>1. /\ \A k \in Jobs \ {j} : pc'[k] = pc[k]
        /\ UNCHANGED <<aiUsed, cur, copies>>
        /\ pc'[j] \in {"authorize", "lead"}
    BY <1>4 DEF StartBatch, LoadSets, Goto, dbVars
  <2>2. QED
    BY <1>1, <2>1 DEF Holding
<1>5. ASSUME NEW j \in Jobs, AuthorizeBatch(j) \/ CheckCaps(j) \/ PageDone(j) \/ StopAtLead(j)
      PROVE CopyInv'
  <2>1. CASE EndBatch(j)
    BY <1>2, <1>5, <2>1 DEF AuthorizeBatch, CheckCaps, PageDone, StopAtLead, dbVars
  <2>2. CASE ~EndBatch(j)
    <3>1. /\ \A k \in Jobs \ {j} : pc'[k] = pc[k]
          /\ UNCHANGED <<aiUsed, cur, copies>>
          /\ pc'[j] \in {"caps", "page"}
      BY <1>5, <2>2 DEF AuthorizeBatch, CheckCaps, PageDone, StopAtLead, Goto, dbVars, scanVars
    <3>2. QED
      BY <1>1, <3>1 DEF Holding
  <2>3. QED
    BY <2>1, <2>2
<1>6. ASSUME NEW j \in Jobs, LoadPage(j) PROVE CopyInv'
  <2>1. CASE EndBatch(j)
    BY <1>2, <1>6, <2>1 DEF LoadPage, dbVars
  <2>2. CASE ~EndBatch(j)
    <3>1. PICK S \in SUBSET Leads :
            /\ copies' = [copies EXCEPT ![j] = [l \in Leads |-> IF l \in S THEN CopyOf(l) ELSE "NONE"]]
            /\ pc' = [pc EXCEPT ![j] = "sets"]
            /\ UNCHANGED <<cur, aiUsed>>
      BY <1>6, <2>2 DEF LoadPage, Goto, dbVars
    <3>2. \A l \in Leads : ApprovalRequired => copies'[j][l] \in {"NONE", "APPROVED", "TAINTED"}
      BY <3>1 DEF CopyOf
    <3>3. QED
      BY <1>1, <3>1, <3>2 DEF Holding
  <2>3. QED
    BY <2>1, <2>2
<1>7. ASSUME NEW j \in Jobs, TakeLead(j) PROVE CopyInv'
  <2>1. UNCHANGED <<copies, aiUsed>>
    BY <1>7 DEF TakeLead, scanVars, dbVars
  <2>2. CASE UNCHANGED <<pc, cur>>
    BY <2>1, <2>2 DEF CopyInv
  <2>3. CASE ~UNCHANGED <<pc, cur>>
    <3>1. PICK l \in page[j] :
            /\ ~Skips(j, l)
            /\ pc' = [pc EXCEPT ![j] = IF copies[j][l] = "TAINTED" THEN "hold" ELSE "claim"]
            /\ cur' = [cur EXCEPT ![j] = l]
      BY <1>7, <2>3 DEF TakeLead, Goto
    <3>2. l \in Leads /\ (ApprovalRequired => copies[j][l] \in {"APPROVED", "TAINTED"})
      BY <3>1 DEF Skips, Generates, CopyInv
    <3>3. QED
      BY <2>1, <3>1, <3>2 DEF CopyInv, Holding
  <2>4. QED
    BY <2>2, <2>3
<1>8. ASSUME NEW j \in Jobs, HoldDraft(j) \/ Release(j) \/ RecordFailed(j) PROVE CopyInv'
  BY <1>3, <1>8 DEF HoldDraft, Release, RecordFailed, scanVars
<1>9. ASSUME NEW j \in Jobs, Claim(j) PROVE CopyInv'
  <2>1. CASE EndBatch(j) \/ (NextLead(j) /\ UNCHANGED scanVars)
    BY <1>2, <1>3, <1>9, <2>1 DEF Claim, scanVars
  <2>2. CASE ~(EndBatch(j) \/ (NextLead(j) /\ UNCHANGED scanVars))
    <3>1. /\ pc[j] = "claim" /\ cur[j] \in Leads
          /\ pc' = [pc EXCEPT ![j] = IF Generates(j, cur[j]) THEN "meter" ELSE "send"]
          /\ UNCHANGED <<copies, cur, aiUsed>>
      BY <1>9, <2>2 DEF Claim, Goto, scanVars
    <3>2. QED
      BY <3>1 DEF CopyInv, Generates, Holding
  <2>3. QED
    BY <2>1, <2>2
<1>10. ASSUME NEW j \in Jobs, MeterAi(j) \/ CallModel(j) \/ RefundAi(j) PROVE CopyInv'
  <2>1. /\ ~ApprovalRequired
        /\ pc[j] \in Holding /\ UNCHANGED <<copies, cur>>
        /\ \A k \in Jobs \ {j} : pc'[k] = pc[k]
    BY <1>10 DEF MeterAi, CallModel, RefundAi, CopyInv, Goto, Holding, scanVars
  <2>2. QED
    BY <2>1 DEF CopyInv
<1>11. ASSUME NEW j \in Jobs, Send(j) PROVE CopyInv'
  <2>1. /\ pc[j] \in Holding /\ pc'[j] \in {"record", "fail"} /\ UNCHANGED <<copies, cur, aiUsed>>
        /\ \A k \in Jobs \ {j} : pc'[k] = pc[k]
    BY <1>11 DEF Send, Goto, Holding, scanVars, dbVars
  <2>2. QED
    BY <2>1 DEF CopyInv
<1>12. ASSUME NEW j \in Jobs, RecordSent(j) PROVE CopyInv'
  <2>1. CASE NextLead(j)
    BY <1>3, <1>12, <2>1 DEF RecordSent, scanVars
  <2>2. CASE ~NextLead(j)
    <3>1. /\ pc[j] \in Holding /\ pc'[j] = "fail" /\ UNCHANGED <<copies, cur, aiUsed>>
          /\ \A k \in Jobs \ {j} : pc'[k] = pc[k]
      BY <1>12, <2>2 DEF RecordSent, Goto, Holding, scanVars
    <3>2. QED
      BY <3>1 DEF CopyInv
  <2>3. QED
    BY <2>1, <2>2
<1>13. ASSUME NEW j \in Jobs, Crash(j) PROVE CopyInv'
  BY <1>2, <1>13 DEF Crash
<1>14. CASE Surroundings \/ UNCHANGED vars
  <2>1. UNCHANGED <<jobVars, aiUsed>>
    BY <1>14 DEF Surroundings, SetMission, Suppress, Research, Reply, Bounce, SetStage, ReviewDraft,
                 RetryFailed, SweepStale, NextDay, vars, dbVars
  <2>2. QED
    BY <2>1 DEF jobVars, CopyInv
<1>15. QED
  BY <1>4, <1>5, <1>6, <1>7, <1>8, <1>9, <1>10, <1>11, <1>12, <1>13, <1>14 DEF Next, JobStep

\* In approval mode only copy a person approved before the page was read
\* leaves and no AI is spent; a draft with a secret never leaves in any mode.
THEOREM OnlyReviewedLeaves == Spec => []OnlyReviewedCopyLeaves
<1>1. Init => CopyInv
  BY DEF Init, CopyInv, Holding
<1>2. TypeOK /\ CopyInv /\ [Next]_vars => CopyInv'
  BY CopyStep
<1>3. CopyInv => OnlyReviewedCopyLeaves
  BY DEF CopyInv, OnlyReviewedCopyLeaves, Holding
<1>4. QED
  BY <1>1, <1>2, <1>3, TypeCorrect, PTL DEF Spec
-----------------------------------------------------------------------------
(* The AI usage counter.                                                   *)

\* Jobs whose metered call is in progress.
InCall == {j \in Jobs : pc[j] \in {"model", "refund"}}

\* How the number of calls in progress changes when one job moves.
LEMMA InCallCount ==
    ASSUME TypeOK, NEW j \in Jobs, \A k \in Jobs \ {j} : pc'[k] = pc[k]
    PROVE  /\ Cardinality(InCall) \in Nat
           /\ (pc[j] \in {"model", "refund"} <=> pc'[j] \in {"model", "refund"})
                 => Cardinality(InCall') = Cardinality(InCall)
           /\ pc[j] \notin {"model", "refund"} /\ pc'[j] \in {"model", "refund"}
                 => Cardinality(InCall') = Cardinality(InCall) + 1
           /\ pc[j] \in {"model", "refund"} /\ pc'[j] \notin {"model", "refund"}
                 => Cardinality(InCall') = Cardinality(InCall) - 1
<1>1. IsFiniteSet(InCall) /\ Cardinality(InCall) \in Nat
  BY ConstantsAssumption, FS_Subset, FS_CardinalityType DEF InCall
<1>2. CASE pc[j] \in {"model", "refund"} /\ pc'[j] \in {"model", "refund"}
  <2>1. InCall' = InCall
    BY <1>2 DEF InCall
  <2>2. QED
    BY <1>1, <1>2, <2>1
<1>3. CASE pc[j] \in {"model", "refund"} /\ pc'[j] \notin {"model", "refund"}
  <2>1. InCall' = InCall \ {j} /\ j \in InCall
    BY <1>3 DEF InCall
  <2>2. Cardinality(InCall') = Cardinality(InCall) - 1
    BY <1>1, <2>1, FS_RemoveElement
  <2>3. QED
    BY <1>1, <1>3, <2>2
<1>4. CASE pc[j] \notin {"model", "refund"} /\ pc'[j] \in {"model", "refund"}
  <2>1. InCall' = InCall \cup {j} /\ j \notin InCall
    BY <1>4 DEF InCall
  <2>2. Cardinality(InCall') = Cardinality(InCall) + 1
    BY <1>1, <2>1, FS_AddElement
  <2>3. QED
    BY <1>1, <1>4, <2>2
<1>5. CASE pc[j] \notin {"model", "refund"} /\ pc'[j] \notin {"model", "refund"}
  <2>1. InCall' = InCall
    BY <1>5 DEF InCall
  <2>2. QED
    BY <1>1, <1>5, <2>1
<1>6. QED
  BY <1>2, <1>3, <1>4, <1>5

\* Reserving, keeping, reviewing, refunding and losing a call are the only
\* steps that move the counter, and each moves its counterpart along.
LEMMA LedgerStep == ASSUME TypeOK, AiLedgerBalanced, [Next]_vars PROVE AiLedgerBalanced'
<1> USE DEF TypeOK, RowsTypeOK, JobsTypeOK, SeenTypeOK
<1>0. AiLedgerBalanced <=> aiUsed = aiKept + aiReview + aiLost + Cardinality(InCall)
  BY DEF AiLedgerBalanced, InCall
<1>a. AiLedgerBalanced' <=> aiUsed' = aiKept' + aiReview' + aiLost' + Cardinality(InCall')
  BY DEF AiLedgerBalanced, InCall
<1>1. ASSUME NEW j \in Jobs, UNCHANGED <<aiUsed, aiKept, aiReview, aiLost>>,
             \A k \in Jobs \ {j} : pc'[k] = pc[k],
             pc[j] \notin {"model", "refund"}, pc'[j] \notin {"model", "refund"}
      PROVE AiLedgerBalanced'
  <2>1. Cardinality(InCall') = Cardinality(InCall)
    BY <1>1, InCallCount
  <2>2. QED
    BY <1>0, <1>a, <1>1, <2>1
<1>2. ASSUME NEW j \in Jobs, StartBatch(j) \/ AuthorizeBatch(j) \/ CheckCaps(j) \/ LoadPage(j)
                 \/ LoadSets(j) \/ PageDone(j) \/ StopAtLead(j) \/ TakeLead(j) \/ HoldDraft(j)
                 \/ Claim(j) \/ Release(j) \/ RecordSent(j) \/ RecordFailed(j)
      PROVE AiLedgerBalanced'
  <2>1. UNCHANGED <<aiUsed, aiKept, aiReview, aiLost>>
    BY <1>2 DEF StartBatch, AuthorizeBatch, CheckCaps, LoadPage, LoadSets, PageDone, StopAtLead, TakeLead,
                HoldDraft, Claim, Release, RecordSent, RecordFailed, dbVars, ghostVars
  <2>2. \A k \in Jobs \ {j} : pc'[k] = pc[k]
    BY <1>2 DEF StartBatch, AuthorizeBatch, CheckCaps, LoadPage, LoadSets, PageDone, StopAtLead, TakeLead,
                HoldDraft, Claim, Release, RecordSent, RecordFailed, NextLead, EndBatch, Goto
  <2>3. pc[j] \notin {"model", "refund"} /\ pc'[j] \notin {"model", "refund"}
    BY <1>2 DEF StartBatch, AuthorizeBatch, CheckCaps, LoadPage, LoadSets, PageDone, StopAtLead, TakeLead,
                HoldDraft, Claim, Release, RecordSent, RecordFailed, NextLead, EndBatch, Goto
  <2>4. QED
    BY <1>1, <2>1, <2>2, <2>3
<1>3. ASSUME NEW j \in Jobs, Send(j) PROVE AiLedgerBalanced'
  BY <1>1, <1>3 DEF Send, Goto, dbVars
<1>4. ASSUME NEW j \in Jobs, MeterAi(j) PROVE AiLedgerBalanced'
  <2>1. /\ \A k \in Jobs \ {j} : pc'[k] = pc[k]
        /\ pc[j] = "meter" /\ UNCHANGED <<aiKept, aiReview, aiLost>>
        /\ \/ aiUsed' = aiUsed + 1 /\ pc'[j] = "model"
           \/ aiUsed' = aiUsed /\ pc'[j] = "release"
    BY <1>4 DEF MeterAi, Goto, ghostVars
  <2>2. CASE pc'[j] = "model"
    <3>1. Cardinality(InCall) \in Nat /\ Cardinality(InCall') = Cardinality(InCall) + 1
      BY <2>1, <2>2, InCallCount
    <3>2. QED
      BY <1>0, <1>a, <2>1, <2>2, <3>1
  <2>3. CASE pc'[j] = "release"
    BY <1>1, <2>1, <2>3
  <2>4. QED
    BY <2>1, <2>2, <2>3
<1>5. ASSUME NEW j \in Jobs, CallModel(j) PROVE AiLedgerBalanced'
  <2>1. /\ \A k \in Jobs \ {j} : pc'[k] = pc[k]
        /\ pc[j] = "model" /\ UNCHANGED <<aiUsed, aiLost>>
        /\ \/ pc'[j] = "refund" /\ UNCHANGED <<aiKept, aiReview>>
           \/ pc'[j] = "release" /\ aiReview' = aiReview + 1 /\ aiKept' = aiKept
           \/ pc'[j] = "send" /\ aiKept' = aiKept + 1 /\ aiReview' = aiReview
    BY <1>5 DEF CallModel, Goto
  <2>2. CASE pc'[j] = "refund"
    <3>1. Cardinality(InCall') = Cardinality(InCall)
      BY <2>1, <2>2, InCallCount
    <3>2. QED
      BY <1>0, <1>a, <2>1, <2>2, <3>1
  <2>3. CASE pc'[j] \in {"release", "send"}
    <3>1. Cardinality(InCall) \in Nat /\ Cardinality(InCall') = Cardinality(InCall) - 1
      BY <2>1, <2>3, InCallCount
    <3>2. aiKept' + aiReview' = aiKept + aiReview + 1
      BY <2>1, <2>3
    <3>3. QED
      BY <1>0, <1>a, <2>1, <3>1, <3>2
  <2>4. QED
    BY <2>1, <2>2, <2>3
<1>6. ASSUME NEW j \in Jobs, RefundAi(j) PROVE AiLedgerBalanced'
  <2>1. /\ \A k \in Jobs \ {j} : pc'[k] = pc[k]
        /\ pc[j] = "refund" /\ pc'[j] = "release" /\ UNCHANGED <<aiKept, aiReview>>
        /\ \/ aiUsed' = aiUsed - 1 /\ aiLost' = aiLost
           \/ aiUsed' = aiUsed /\ aiLost' = aiLost + 1
    BY <1>6 DEF RefundAi, Goto
  <2>2. Cardinality(InCall) \in Nat /\ Cardinality(InCall') = Cardinality(InCall) - 1
    BY <2>1, InCallCount
  <2>3. QED
    BY <1>0, <1>a, <2>1, <2>2
<1>7. ASSUME NEW j \in Jobs, Crash(j) PROVE AiLedgerBalanced'
  <2>1. /\ \A k \in Jobs \ {j} : pc'[k] = pc[k]
        /\ pc'[j] = "idle" /\ UNCHANGED <<aiUsed, aiKept, aiReview>>
        /\ aiLost' = IF pc[j] \in {"model", "refund"} THEN aiLost + 1 ELSE aiLost
    BY <1>7 DEF Crash, EndBatch, Goto
  <2>2. CASE pc[j] \in {"model", "refund"}
    <3>1. Cardinality(InCall) \in Nat /\ Cardinality(InCall') = Cardinality(InCall) - 1
      BY <2>1, <2>2, InCallCount
    <3>2. QED
      BY <1>0, <1>a, <2>1, <2>2, <3>1
  <2>3. CASE pc[j] \notin {"model", "refund"}
    BY <1>1, <2>1, <2>3
  <2>4. QED
    BY <2>2, <2>3
<1>8. CASE Surroundings \/ UNCHANGED vars
  <2>1. UNCHANGED <<jobVars, aiUsed, aiKept, aiReview, aiLost>>
    BY <1>8 DEF Surroundings, SetMission, Suppress, Research, Reply, Bounce, SetStage, ReviewDraft,
                RetryFailed, SweepStale, NextDay, vars, dbVars, ghostVars
  <2>2. InCall' = InCall
    BY <2>1 DEF InCall, jobVars
  <2>3. QED
    BY <1>0, <1>a, <2>1, <2>2
<1>9. QED
  BY <1>2, <1>3, <1>4, <1>5, <1>6, <1>7, <1>8 DEF Next, JobStep

\* The month's AI counter equals the calls in progress plus the calls kept,
\* reviewed or lost, through crashes, refusals and failed refunds.
THEOREM AiLedgerKept == Spec => []AiLedgerBalanced
<1>1. Init => AiLedgerBalanced
  <2> SUFFICES ASSUME Init PROVE AiLedgerBalanced
    OBVIOUS
  <2>1. {j \in Jobs : pc[j] \in {"model", "refund"}} = {}
    BY DEF Init
  <2>2. Cardinality({j \in Jobs : pc[j] \in {"model", "refund"}}) = 0
    BY <2>1, FS_EmptySet
  <2>3. QED
    BY <2>2 DEF Init, AiLedgerBalanced
<1>2. TypeOK /\ AiLedgerBalanced /\ [Next]_vars => AiLedgerBalanced'
  BY LedgerStep
<1>3. QED
  BY <1>1, <1>2, TypeCorrect, PTL DEF Spec

-----------------------------------------------------------------------------
(* The caps.  A count of rows can rise without a claim: the message of a    *)
(* job whose row was claimed on another day, or bounced, is recorded today. *)
(* What cannot rise is the count together with the rows the jobs hold.      *)

Counts(r) == r.status \in {"SENT", "SENDING"}
HeldRows  == {l \in Leads : row[l].owner \in Jobs}

\* Rows that count or may come to count, of today and of the month.
DayExposure   == CapUsed(today) \cup HeldRows
MonthExposure == CapUsed(1) \cup HeldRows

\* Rows of the days before the batch began.
EarlierRows(j) == {l \in CapUsed(1) : row[l].day < since[j]}

\* Program points before the ceiling is looked at.
BeforeCaps == {"idle", "authorize", "caps"}

Dated ==
    /\ \A l \in Leads : row[l].day <= today /\ (Counts(row[l]) => row[l].day >= 1)
    /\ \A j \in Jobs : since[j] <= today

\* The ceiling held for the rows of earlier days when the batch looked at it.
CeilingSeen == \A j \in Jobs : pc[j] \notin BeforeCaps => Cardinality(EarlierRows(j)) < MonthlyLimit

CapsInv ==
    /\ Dated
    /\ CeilingSeen
    /\ Cardinality(DayExposure) <= DailyLimit + Cardinality(Jobs) - 1
    /\ Cardinality(MonthExposure) <= MonthlyLimit - 1 + DailyLimit + Cardinality(Jobs) - 1

LEMMA ExposureFinite ==
    /\ IsFiniteSet(HeldRows) /\ Cardinality(HeldRows) \in Nat
    /\ IsFiniteSet(DayExposure) /\ Cardinality(DayExposure) \in Nat
    /\ IsFiniteSet(MonthExposure) /\ Cardinality(MonthExposure) \in Nat
    /\ \A j : IsFiniteSet(EarlierRows(j)) /\ Cardinality(EarlierRows(j)) \in Nat
    /\ \A d : IsFiniteSet(CapUsed(d)) /\ Cardinality(CapUsed(d)) \in Nat
    /\ Cardinality(Jobs) \in Nat
<1>1. \A S \in SUBSET Leads : IsFiniteSet(S) /\ Cardinality(S) \in Nat
  BY ConstantsAssumption, FS_Subset, FS_CardinalityType
<1>2. /\ HeldRows \in SUBSET Leads /\ DayExposure \in SUBSET Leads /\ MonthExposure \in SUBSET Leads
      /\ \A j : EarlierRows(j) \in SUBSET Leads
      /\ \A d : CapUsed(d) \in SUBSET Leads
  BY DEF HeldRows, DayExposure, MonthExposure, EarlierRows, CapUsed
<1>3. Cardinality(Jobs) \in Nat
  BY ConstantsAssumption, FS_CardinalityType
<1>4. QED
  BY <1>1, <1>2, <1>3

LEMMA CupBound ==
    ASSUME NEW S, NEW T, IsFiniteSet(S), IsFiniteSet(T)
    PROVE  IsFiniteSet(S \cup T) /\ Cardinality(S \cup T) <= Cardinality(S) + Cardinality(T)
<1>1. IsFiniteSet(S \cap T)
  BY FS_Subset
<1>2. Cardinality(S) \in Nat /\ Cardinality(T) \in Nat /\ Cardinality(S \cap T) \in Nat
  BY <1>1, FS_CardinalityType
<1>3. /\ IsFiniteSet(S \cup T)
      /\ Cardinality(S \cup T) = Cardinality(S) + Cardinality(T) - Cardinality(S \cap T)
  BY FS_Union
<1>4. QED
  BY <1>2, <1>3

\* Jobs that hold rows hold one each.
LEMMA HeldByFew ==
    ASSUME ClaimInv, NEW Some \in SUBSET Jobs, \A l \in HeldRows : row[l].owner \in Some
    PROVE  Cardinality(HeldRows) <= Cardinality(Some)
<1> DEFINE f == [l \in HeldRows |-> row[l].owner]
<1>1. \A l \in HeldRows : cur[row[l].owner] = l
  BY DEF ClaimInv, OwnerHolds, HeldRows
<1>2. f \in Injection(HeldRows, Some)
  BY <1>1 DEF Injection, IsInjective
<1>3. IsFiniteSet(Some)
  BY ConstantsAssumption, FS_Subset
<1>4. QED
  BY <1>2, <1>3, FS_Injection

\* What keeps CapsInv: rows come to be held or counted only if they were, and
\* no batch passes the look at the ceiling.
LEMMA NoNewRow ==
    ASSUME TypeOK, CapsInv, today' = today,
           \A l \in Leads : \/ row'[l] = row[l]
                            \/ /\ row'[l].owner \in Jobs => row[l].owner \in Jobs
                               /\ Counts(row'[l]) =>
                                     \/ Counts(row[l]) /\ row'[l].day = row[l].day
                                     \/ row[l].owner \in Jobs /\ row'[l].day = today
                               /\ row'[l].day \in {0, row[l].day, today},
           \A j \in Jobs : \/ pc'[j] \in BeforeCaps /\ since'[j] \in {0, since[j], today}
                           \/ pc[j] \notin BeforeCaps /\ since'[j] = since[j]
    PROVE  CapsInv'
<1>0. /\ \A l \in Leads : row[l].day \in Nat
      /\ \A j \in Jobs : since[j] \in Nat
      /\ today \in Nat \ {0}
  BY ConstantsAssumption DEF TypeOK, RowsTypeOK, JobsTypeOK, OutboxRows, Days
<1>1. /\ HeldRows' \subseteq HeldRows
      /\ DayExposure' \subseteq DayExposure
      /\ MonthExposure' \subseteq MonthExposure
  BY <1>0 DEF HeldRows, DayExposure, MonthExposure, CapUsed, CapsInv, Dated, Counts
<1>2. Dated'
  BY <1>0 DEF CapsInv, Dated, Counts
<1>3. CeilingSeen'
  <2> SUFFICES ASSUME NEW j \in Jobs, pc'[j] \notin BeforeCaps
               PROVE  Cardinality(EarlierRows(j)') < MonthlyLimit
    BY DEF CeilingSeen
  <2>1. pc[j] \notin BeforeCaps /\ since'[j] = since[j] /\ since[j] <= today
    BY DEF CapsInv, Dated
  <2>2. ASSUME NEW l \in EarlierRows(j)' PROVE l \in EarlierRows(j)
    <3>1. /\ l \in Leads /\ Counts(row'[l]) /\ row'[l].day < since[j]
      BY <2>1, <2>2 DEF EarlierRows, CapUsed, Counts
    <3>2. Counts(row[l]) /\ row'[l].day = row[l].day
      BY <1>0, <2>1, <3>1
    <3>3. row[l].day >= 1
      BY <3>1, <3>2 DEF CapsInv, Dated
    <3>4. QED
      BY <3>1, <3>2, <3>3 DEF EarlierRows, CapUsed, Counts
  <2>3. Cardinality(EarlierRows(j)') <= Cardinality(EarlierRows(j))
    BY <2>2, ExposureFinite, FS_Subset
  <2>4. Cardinality(EarlierRows(j)') \in Nat
    BY <2>2, ExposureFinite, FS_Subset, FS_CardinalityType
  <2>5. QED
    BY <2>1, <2>3, <2>4, ExposureFinite, ConstantsAssumption DEF CapsInv, CeilingSeen
<1>4. /\ Cardinality(DayExposure') <= Cardinality(DayExposure)
      /\ Cardinality(MonthExposure') <= Cardinality(MonthExposure)
      /\ Cardinality(DayExposure') \in Nat /\ Cardinality(MonthExposure') \in Nat
  BY <1>1, ExposureFinite, FS_Subset, FS_CardinalityType
<1>5. QED
  BY <1>2, <1>3, <1>4, ExposureFinite, ConstantsAssumption DEF CapsInv

\* A claim counts its own row and finds a slot free (reserveDailySendSlot).
LEMMA ClaimCaps == ASSUME TypeOK, ClaimInv, CapsInv, NEW j \in Jobs, Claim(j) PROVE CapsInv'
<1> DEFINE l == cur[j]
<1>0. /\ l \in Leads /\ pc[j] = "claim" /\ today' = today /\ today \in Nat
      /\ row \in [Leads -> OutboxRows] /\ pc \in [Jobs -> BeforeClaim \cup Holding]
      /\ since \in [Jobs -> 0 .. MaxDay] /\ MaxDay \in Nat
  BY ConstantsAssumption DEF Claim, TypeOK, JobsTypeOK, RowsTypeOK, Days
<1>1. CASE row' = row
  <2>1. \A k \in Jobs : \/ pc'[k] \in BeforeCaps /\ since'[k] \in {0, since[k], today}
                        \/ pc[k] \notin BeforeCaps /\ since'[k] = since[k]
    BY <1>0, <1>1 DEF Claim, EndBatch, NextLead, Goto, BeforeCaps, scanVars
  <2>2. QED
    BY <1>0, <1>1, <2>1, NoNewRow
<1>2. CASE row' # row
  <2>1. /\ SlotFree(j) /\ row[l].status = "NONE"
        /\ row' = [row EXCEPT ![l] = [status |-> "SENDING", owner |-> j, day |-> today]]
        /\ UNCHANGED since
        /\ pc' = [pc EXCEPT ![j] = IF Generates(j, l) THEN "meter" ELSE "send"]
    BY <1>0, <1>2 DEF Claim, Goto, scanVars
  <2>2. \A m \in Leads : m # l => row'[m] = row[m]
    BY <1>0, <2>1
  <2>3. row'[l] = [status |-> "SENDING", owner |-> j, day |-> today]
    BY <1>0, <2>1
  <2>4. /\ \A m \in Leads : row[m].day \in Nat
        /\ since[j] \in Nat /\ since[j] <= today /\ today \in Nat \ {0}
    BY <1>0, ConstantsAssumption DEF OutboxRows, CapsInv, Dated, TypeOK, RowsTypeOK, Days
  <2>5. Dated'
    BY <1>0, <2>1, <2>2, <2>3, <2>4 DEF CapsInv, Dated
  <2>6. CeilingSeen'
    <3> SUFFICES ASSUME NEW k \in Jobs, pc'[k] \notin BeforeCaps
                 PROVE  Cardinality(EarlierRows(k)') < MonthlyLimit
      BY DEF CeilingSeen
    <3>1. pc[k] \notin BeforeCaps /\ since'[k] = since[k] /\ since[k] <= today
      BY <1>0, <2>1 DEF BeforeCaps, CapsInv, Dated
    <3>2. EarlierRows(k)' \subseteq EarlierRows(k)
      BY <1>0, <2>1, <2>2, <2>3, <2>4, <3>1 DEF EarlierRows, CapUsed
    <3>3. Cardinality(EarlierRows(k)') <= Cardinality(EarlierRows(k)) /\ Cardinality(EarlierRows(k)') \in Nat
      BY <3>2, ExposureFinite, FS_Subset, FS_CardinalityType
    <3>4. QED
      BY <3>1, <3>3, ExposureFinite, ConstantsAssumption DEF CapsInv, CeilingSeen
  <2>7. Cardinality(HeldRows) <= Cardinality(Jobs) - 1
    <3>1. \A m \in HeldRows : row[m].owner \in Jobs \ {j}
      BY <1>0 DEF HeldRows, ClaimInv, OwnerHolds, Holding
    <3>2. Cardinality(HeldRows) <= Cardinality(Jobs \ {j})
      BY <3>1, HeldByFew
    <3>3. Cardinality(Jobs \ {j}) = Cardinality(Jobs) - 1
      BY ConstantsAssumption, FS_RemoveElement
    <3>4. QED
      BY <3>2, <3>3
  <2>8. Cardinality(HeldRows \cup {l}) <= Cardinality(Jobs) /\ IsFiniteSet(HeldRows \cup {l})
        /\ Cardinality(HeldRows \cup {l}) \in Nat
    <3>1. IsFiniteSet(HeldRows) /\ Cardinality(HeldRows) \in Nat /\ Cardinality(Jobs) \in Nat
      BY ExposureFinite
    <3>2. /\ IsFiniteSet(HeldRows \cup {l})
          /\ Cardinality(HeldRows \cup {l}) =
                IF l \in HeldRows THEN Cardinality(HeldRows) ELSE Cardinality(HeldRows) + 1
      BY <3>1, FS_AddElement
    <3>3. QED
      BY <2>7, <3>1, <3>2
  <2>9. Cardinality(CapUsed(since[j])) <= DailyLimit - 1 /\ Cardinality(CapUsed(since[j])) \in Nat
    BY <2>1, ExposureFinite, ConstantsAssumption DEF SlotFree
  <2>10. Cardinality(EarlierRows(j)) <= MonthlyLimit - 1
    BY <1>0, ExposureFinite, ConstantsAssumption DEF CapsInv, CeilingSeen, BeforeCaps
  <2>11. Cardinality(DayExposure') <= DailyLimit + Cardinality(Jobs) - 1
    <3>1. DayExposure' \subseteq CapUsed(since[j]) \cup (HeldRows \cup {l})
      BY <1>0, <2>1, <2>2, <2>3, <2>4 DEF DayExposure, CapUsed, HeldRows
    <3>2. /\ IsFiniteSet(CapUsed(since[j]) \cup (HeldRows \cup {l}))
          /\ Cardinality(CapUsed(since[j]) \cup (HeldRows \cup {l}))
                <= Cardinality(CapUsed(since[j])) + Cardinality(HeldRows \cup {l})
      BY <2>8, ExposureFinite, CupBound
    <3>3. /\ Cardinality(DayExposure') <= Cardinality(CapUsed(since[j]) \cup (HeldRows \cup {l}))
          /\ Cardinality(DayExposure') \in Nat
          /\ Cardinality(CapUsed(since[j]) \cup (HeldRows \cup {l})) \in Nat
      BY <3>1, <3>2, FS_Subset, FS_CardinalityType
    <3>4. QED
      BY <2>8, <2>9, <3>2, <3>3, ConstantsAssumption, ExposureFinite
  <2>12. Cardinality(MonthExposure') <= MonthlyLimit - 1 + DailyLimit + Cardinality(Jobs) - 1
    <3> DEFINE used == CapUsed(since[j]) \cup EarlierRows(j)
               held == HeldRows \cup {l}
    <3>1. MonthExposure' \subseteq used \cup held
      BY <1>0, <2>1, <2>2, <2>3, <2>4 DEF MonthExposure, CapUsed, HeldRows, EarlierRows
    <3>2. /\ IsFiniteSet(used) /\ Cardinality(used) \in Nat
          /\ Cardinality(used) <= Cardinality(CapUsed(since[j])) + Cardinality(EarlierRows(j))
      BY ExposureFinite, CupBound, FS_CardinalityType
    <3> HIDE DEF used, held
    <3>3. IsFiniteSet(held) /\ Cardinality(held) <= Cardinality(Jobs) /\ Cardinality(held) \in Nat
      BY <2>8 DEF held
    <3>4. /\ IsFiniteSet(used \cup held) /\ Cardinality(used \cup held) \in Nat
          /\ Cardinality(used \cup held) <= Cardinality(used) + Cardinality(held)
      BY <3>2, <3>3, CupBound, FS_CardinalityType
    <3>5. Cardinality(MonthExposure') <= Cardinality(used \cup held) /\ Cardinality(MonthExposure') \in Nat
      BY <3>1, <3>4, FS_Subset, FS_CardinalityType
    <3>6. QED
      BY <2>9, <2>10, <3>2, <3>3, <3>4, <3>5, ConstantsAssumption, ExposureFinite
  <2>13. QED
    BY <2>5, <2>6, <2>11, <2>12 DEF CapsInv
<1>3. QED
  BY <1>1, <1>2

\* The look at the caps before a batch.
LEMMA CheckCapsCaps == ASSUME TypeOK, CapsInv, NEW j \in Jobs, CheckCaps(j) PROVE CapsInv'
<1>0. /\ UNCHANGED <<row, today>> /\ pc[j] = "caps" /\ pc \in [Jobs -> BeforeClaim \cup Holding]
      /\ since \in [Jobs -> 0 .. MaxDay] /\ MaxDay \in Nat
  BY ConstantsAssumption DEF CheckCaps, TypeOK, JobsTypeOK, dbVars
<1>1. CASE EndBatch(j)
  <2>1. \A k \in Jobs : \/ pc'[k] \in BeforeCaps /\ since'[k] \in {0, since[k], today}
                        \/ pc[k] \notin BeforeCaps /\ since'[k] = since[k]
    BY <1>0, <1>1 DEF EndBatch, Goto, BeforeCaps
  <2>2. QED
    BY <1>0, <2>1, NoNewRow
<1>2. CASE ~EndBatch(j)
  <2>1. Cardinality(CapUsed(1)) < MonthlyLimit /\ UNCHANGED since /\ pc' = [pc EXCEPT ![j] = "page"]
    BY <1>2 DEF CheckCaps, Goto, scanVars
  <2>2. Dated' /\ UNCHANGED <<DayExposure, MonthExposure>>
    BY <1>0, <2>1 DEF CapsInv, Dated, DayExposure, MonthExposure, CapUsed, HeldRows
  <2>3. CeilingSeen'
    <3> SUFFICES ASSUME NEW k \in Jobs, pc'[k] \notin BeforeCaps
                 PROVE  Cardinality(EarlierRows(k)') < MonthlyLimit
      BY DEF CeilingSeen
    <3>1. EarlierRows(k)' = EarlierRows(k)
      BY <1>0, <2>1 DEF EarlierRows, CapUsed
    <3>2. CASE k = j
      <4>1. EarlierRows(j) \subseteq CapUsed(1)
        BY DEF EarlierRows
      <4>2. Cardinality(EarlierRows(j)) <= Cardinality(CapUsed(1))
        BY <4>1, ExposureFinite, FS_Subset
      <4>3. QED
        BY <2>1, <3>1, <3>2, <4>2, ExposureFinite, ConstantsAssumption
    <3>3. CASE k # j
      BY <1>0, <2>1, <3>1, <3>3 DEF CapsInv, CeilingSeen
    <3>4. QED
      BY <3>2, <3>3
  <2>4. QED
    BY <2>2, <2>3 DEF CapsInv
<1>3. QED
  BY <1>1, <1>2

\* At midnight only the rows the jobs hold may still come to count.
LEMMA MidnightCaps == ASSUME TypeOK, ClaimInv, CapsInv, NextDay PROVE CapsInv'
<1>0. /\ UNCHANGED <<row, pc, since>> /\ today' = today + 1 /\ today \in Nat
      /\ \A l \in Leads : row[l].day \in Nat
      /\ \A j \in Jobs : since[j] \in Nat
  BY ConstantsAssumption DEF NextDay, TypeOK, RowsTypeOK, JobsTypeOK, OutboxRows, Days, jobVars
<1>1. Dated'
  BY <1>0 DEF CapsInv, Dated, Counts
<1>2. CeilingSeen' /\ MonthExposure' = MonthExposure
  BY <1>0 DEF CapsInv, CeilingSeen, EarlierRows, MonthExposure, CapUsed, HeldRows
<1>3. DayExposure' = HeldRows
  BY <1>0 DEF DayExposure, CapUsed, HeldRows, CapsInv, Dated
<1>4. Cardinality(HeldRows) <= Cardinality(Jobs)
  BY HeldByFew DEF HeldRows
<1>5. QED
  BY <1>1, <1>2, <1>3, <1>4, ExposureFinite, ConstantsAssumption DEF CapsInv

\* Every other step settles, frees or moves on what is held and counted.
LEMMA CapsStep == ASSUME TypeOK, ClaimInv, CapsInv, [Next]_vars PROVE CapsInv'
<1> DEFINE KeptRow(l) ==
             \/ row'[l] = row[l]
             \/ /\ row'[l].owner \in Jobs => row[l].owner \in Jobs
                /\ Counts(row'[l]) =>
                      \/ Counts(row[l]) /\ row'[l].day = row[l].day
                      \/ row[l].owner \in Jobs /\ row'[l].day = today
                /\ row'[l].day \in {0, row[l].day, today}
           MovedJob(k) ==
             \/ pc'[k] \in BeforeCaps /\ since'[k] \in {0, since[k], today}
             \/ pc[k] \notin BeforeCaps /\ since'[k] = since[k]
<1>0. /\ row \in [Leads -> OutboxRows] /\ NoJob \notin Jobs
      /\ pc \in [Jobs -> BeforeClaim \cup Holding] /\ since \in [Jobs -> 0 .. MaxDay]
      /\ \A j \in Jobs : pc[j] \in {"hold", "claim"} \cup Holding => cur[j] \in Leads
  BY ConstantsAssumption DEF TypeOK, RowsTypeOK, JobsTypeOK
<1>1. ASSUME NEW j \in Jobs, EndBatch(j) PROVE \A k \in Jobs : MovedJob(k)
  BY <1>0, <1>1 DEF EndBatch, Goto, BeforeCaps
<1>2. ASSUME NEW j \in Jobs, StartBatch(j) PROVE CapsInv'
  <2>1. \A k \in Jobs : MovedJob(k)
    BY <1>0, <1>2 DEF StartBatch, Goto, BeforeCaps
  <2>2. UNCHANGED <<row, today>>
    BY <1>2 DEF StartBatch, dbVars
  <2>3. QED
    BY <2>1, <2>2, NoNewRow
<1>3. ASSUME NEW j \in Jobs, AuthorizeBatch(j) \/ LoadPage(j) \/ LoadSets(j) \/ PageDone(j) \/ StopAtLead(j)
                 \/ TakeLead(j) \/ HoldDraft(j) \/ MeterAi(j) \/ CallModel(j) \/ RefundAi(j) \/ Send(j)
      PROVE CapsInv'
  <2>1. UNCHANGED <<row, today>>
    BY <1>3 DEF AuthorizeBatch, LoadPage, LoadSets, PageDone, StopAtLead, TakeLead, HoldDraft, MeterAi,
                CallModel, RefundAi, Send, dbVars
  <2>2. EndBatch(j) \/ (\A k \in Jobs : MovedJob(k))
    <3>1. CASE AuthorizeBatch(j)
      BY <1>0, <3>1 DEF AuthorizeBatch, Goto, BeforeCaps, scanVars
    <3>2. CASE LoadPage(j) \/ LoadSets(j) \/ PageDone(j) \/ StopAtLead(j) \/ TakeLead(j)
      BY <1>0, <3>2 DEF LoadPage, LoadSets, PageDone, StopAtLead, TakeLead, Goto, BeforeCaps, scanVars
    <3>3. CASE HoldDraft(j) \/ MeterAi(j) \/ CallModel(j) \/ RefundAi(j) \/ Send(j)
      BY <1>0, <3>3 DEF HoldDraft, MeterAi, CallModel, RefundAi, Send, NextLead, Goto, BeforeCaps, scanVars
    <3>4. QED
      BY <1>3, <3>1, <3>2, <3>3
  <2>3. QED
    BY <1>1, <2>1, <2>2, NoNewRow
<1>4. ASSUME NEW j \in Jobs, Release(j) \/ RecordSent(j) \/ RecordFailed(j) PROVE CapsInv'
  <2> DEFINE l == cur[j]
  <2>1. /\ l \in Leads /\ pc[j] \in {"release", "record", "fail"} /\ today' = today
        /\ UNCHANGED scanVars /\ (NextLead(j) \/ Goto(j, "fail"))
    BY <1>0, <1>4 DEF Release, RecordSent, RecordFailed, Holding
  <2>2. \A k \in Jobs : MovedJob(k)
    BY <1>0, <2>1 DEF NextLead, Goto, BeforeCaps, scanVars
  <2>3. row[l].owner = j /\ row[l] \in OutboxRows
    BY <1>0, <2>1 DEF ClaimInv, ClaimHeld, Holding
  <2>4. PICK r : /\ row' = [row EXCEPT ![l] = r] \/ row' = row
                 /\ r.owner = NoJob
                 /\ \/ r.day = row[l].day /\ (Counts(r) => Counts(row[l]))
                    \/ r.day = today
                    \/ r.day = 0 /\ ~Counts(r)
    <3>1. CASE Release(j)
      <4>1. row' = [row EXCEPT ![l] = NoRow] \/ row' = [row EXCEPT ![l] = [row[l] EXCEPT !.owner = NoJob]]
        BY <1>0, <2>1, <3>1 DEF Release
      <4>2. NoRow.owner = NoJob /\ NoRow.day = 0 /\ ~Counts(NoRow)
        BY DEF NoRow, Counts
      <4>3. /\ [row[l] EXCEPT !.owner = NoJob].owner = NoJob
            /\ [row[l] EXCEPT !.owner = NoJob].day = row[l].day
            /\ [row[l] EXCEPT !.owner = NoJob].status = row[l].status
        BY <2>3 DEF OutboxRows
      <4>4. QED
        BY <4>1, <4>2, <4>3 DEF Counts
    <3>2. CASE RecordSent(j)
      <4> DEFINE r == [status |-> "SENT", owner |-> NoJob, day |-> today]
      <4>1. row' = [row EXCEPT ![l] = r] \/ row' = row
        BY <3>2 DEF RecordSent
      <4>2. r.owner = NoJob /\ r.day = today
        OBVIOUS
      <4>3. QED
        BY <4>1, <4>2
    <3>3. CASE RecordFailed(j)
      <4>1. \/ row' = [row EXCEPT ![l] = [[row[l] EXCEPT !.status = "FAILED"] EXCEPT !.owner = NoJob]]
            \/ row' = [row EXCEPT ![l] = [row[l] EXCEPT !.owner = NoJob]]
        BY <1>0, <2>1, <3>3 DEF RecordFailed
      <4>2. /\ [row[l] EXCEPT !.owner = NoJob].owner = NoJob
            /\ [row[l] EXCEPT !.owner = NoJob].day = row[l].day
            /\ [row[l] EXCEPT !.owner = NoJob].status = row[l].status
        BY <2>3 DEF OutboxRows
      <4>3. /\ [[row[l] EXCEPT !.status = "FAILED"] EXCEPT !.owner = NoJob].owner = NoJob
            /\ [[row[l] EXCEPT !.status = "FAILED"] EXCEPT !.owner = NoJob].day = row[l].day
            /\ [[row[l] EXCEPT !.status = "FAILED"] EXCEPT !.owner = NoJob].status = "FAILED"
        BY <2>3 DEF OutboxRows
      <4>4. QED
        BY <4>1, <4>2, <4>3 DEF Counts
    <3>4. QED
      BY <1>4, <3>1, <3>2, <3>3
  <2>5. \A m \in Leads : KeptRow(m)
    BY <1>0, <2>1, <2>3, <2>4
  <2>6. QED
    BY <2>1, <2>2, <2>5, NoNewRow
<1>5. ASSUME NEW j \in Jobs, Crash(j) PROVE CapsInv'
  <2>1. \A r \in OutboxRows : /\ [r EXCEPT !.owner = NoJob].owner = NoJob
                              /\ [r EXCEPT !.owner = NoJob].day = r.day
                              /\ [r EXCEPT !.owner = NoJob].status = r.status
    BY DEF OutboxRows
  <2>2. \A l \in Leads : KeptRow(l)
    BY <1>0, <1>5, <2>1 DEF Crash, Counts
  <2>3. QED
    BY <1>1, <1>5, <2>2, NoNewRow DEF Crash
<1>6. ASSUME \/ \E l \in Leads : Reply(l) \/ Bounce(l)
             \/ RetryFailed
             \/ SweepStale
      PROVE CapsInv'
  <2>1. \A r \in OutboxRows, s \in SendStatuses : /\ [r EXCEPT !.status = s].owner = r.owner
                                                 /\ [r EXCEPT !.status = s].day = r.day
                                                 /\ [r EXCEPT !.status = s].status = s
    BY DEF OutboxRows
  <2>2. NoRow.owner = NoJob /\ NoRow.day = 0 /\ ~Counts(NoRow)
    BY DEF NoRow, Counts
  <2>3. \A l \in Leads : KeptRow(l)
    <3>1. CASE \E l \in Leads : Reply(l) \/ Bounce(l)
      <4>1. PICK l \in Leads : \/ row' = [row EXCEPT ![l] = [row[l] EXCEPT !.status = row[l].status]]
                               \/ row' = [row EXCEPT ![l] = [row[l] EXCEPT !.status = "REPLIED"]]
                               \/ row' = [row EXCEPT ![l] = [row[l] EXCEPT !.status = "BOUNCED"]]
        BY <1>0, <3>1 DEF Reply, Bounce
      <4>2. row[l] \in OutboxRows /\ \A m \in Leads : m # l => row'[m] = row[m]
        BY <1>0, <4>1
      <4>3. PICK s \in {row[l].status, "REPLIED", "BOUNCED"} : row'[l] = [row[l] EXCEPT !.status = s]
        BY <1>0, <4>1
      <4>4. row'[l].owner = row[l].owner /\ row'[l].day = row[l].day /\ row'[l].status = s
        <5>1. s \in SendStatuses
          BY <4>2 DEF OutboxRows, SendStatuses
        <5>2. QED
          BY <2>1, <4>2, <4>3, <5>1
      <4>5. KeptRow(l)
        BY <4>3, <4>4 DEF Counts
      <4>6. QED
        BY <4>2, <4>5
    <3>2. CASE RetryFailed
      BY <1>0, <2>2, <3>2 DEF RetryFailed
    <3>3. CASE SweepStale
      BY <1>0, <2>1, <3>3 DEF SweepStale, Counts, SendStatuses
    <3>4. QED
      BY <1>6, <3>1, <3>2, <3>3
  <2>4. UNCHANGED <<today, pc, since>>
    BY <1>6 DEF Reply, Bounce, RetryFailed, SweepStale, jobVars
  <2>5. \A k \in Jobs : MovedJob(k)
    BY <1>0, <2>4
  <2>6. QED
    BY <2>3, <2>4, <2>5, NoNewRow
<1>7. ASSUME \/ \E m \in {"ACTIVE", "PAUSED", "COMPLETE"} : SetMission(m)
             \/ \E l \in Leads : Suppress(l) \/ Research(l)
             \/ \E l \in Leads, s \in UserStages : SetStage(l, s)
             \/ \E l \in Leads, v \in {"APPROVED", "REJECTED"} : ReviewDraft(l, v)
             \/ UNCHANGED vars
      PROVE CapsInv'
  <2>1. UNCHANGED <<row, today, pc, since>>
    BY <1>7 DEF SetMission, Suppress, Research, SetStage, ReviewDraft, jobVars, vars, dbVars
  <2>2. QED
    BY <2>1, NoNewRow
<1>8. QED
  BY <1>2, <1>3, <1>4, <1>5, <1>6, <1>7, ClaimCaps, CheckCapsCaps, MidnightCaps DEF Next, JobStep, Surroundings

LEMMA CapsInit == Init => CapsInv
<1> SUFFICES ASSUME Init PROVE CapsInv
  OBVIOUS
<1>1. Dated
  BY ConstantsAssumption DEF Init, Dated, NoRow, Counts
<1>2. CeilingSeen
  BY DEF Init, CeilingSeen, BeforeCaps
<1>3. DayExposure = {} /\ MonthExposure = {}
  BY ConstantsAssumption DEF Init, DayExposure, MonthExposure, CapUsed, HeldRows, NoRow
<1>4. QED
  BY <1>1, <1>2, <1>3, FS_EmptySet, ExposureFinite, ConstantsAssumption DEF CapsInv

LEMMA CapsBound == CapsInv => DailyCapUpToMidnight /\ MonthlyOvershootBounded
<1> SUFFICES ASSUME CapsInv PROVE DailyCapUpToMidnight /\ MonthlyOvershootBounded
  OBVIOUS
<1> DEFINE day == {l \in Leads : row[l].status \in {"SENT", "SENDING"} /\ row[l].day = today}
<1>1. day \subseteq DayExposure /\ CapUsed(1) \subseteq MonthExposure
  BY DEF DayExposure, MonthExposure, CapUsed, CapsInv, Dated
<1>2. /\ Cardinality(day) <= Cardinality(DayExposure) /\ Cardinality(day) \in Nat
      /\ Cardinality(CapUsed(1)) <= Cardinality(MonthExposure) /\ Cardinality(CapUsed(1)) \in Nat
  BY <1>1, ExposureFinite, FS_Subset, FS_CardinalityType
<1>3. QED
  BY <1>2, ExposureFinite, ConstantsAssumption DEF CapsInv, DailyCapUpToMidnight, MonthlyOvershootBounded

\* The rows of a day exceed the cap at most by the messages the other jobs had
\* in flight (reserveDailySendSlot).
THEOREM DailyCapHolds == Spec => []DailyCapUpToMidnight
<1>1. TypeOK /\ ClaimInv /\ CapsInv /\ [Next]_vars => CapsInv'
  BY CapsStep
<1>2. QED
  BY <1>1, CapsInit, CapsBound, TypeCorrect, ClaimInvariant, PTL DEF Spec

\* The monthly ceiling, looked at once per batch, is overshot by at most a day's
\* cap and the messages the other jobs have in flight.
THEOREM MonthlyCeilingHolds == Spec => []MonthlyOvershootBounded
<1>1. TypeOK /\ ClaimInv /\ CapsInv /\ [Next]_vars => CapsInv'
  BY CapsStep
<1>2. QED
  BY <1>1, CapsInit, CapsBound, TypeCorrect, ClaimInvariant, PTL DEF Spec

=============================================================================
