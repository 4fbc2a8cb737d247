---------------------------- MODULE CampaignSend ----------------------------
(***************************************************************************)
(* The claim-first outbox of a campaign's initial send: sendCampaignBatch  *)
(* and its steps in apps/worker/src/processors/campaignSend.ts, together   *)
(* with everything that runs beside it and touches the same rows: the      *)
(* operator (mission stop button, retry-failed), people editing leads and  *)
(* drafts, the recipient (unsubscribe, reply, bounce), the stale-SENDING   *)
(* sweep, worker crashes and failed database transactions.                 *)
(*                                                                         *)
(* One campaign of one workspace.  A job is one run of the send-campaign   *)
(* queue processor; every action of a job is the code between two awaits   *)
(* that touch shared state.  Jobs run concurrently (worker concurrency 2,  *)
(* several replicas, BullMQ attempts 2) and may be started at any time.    *)
(***************************************************************************)
EXTENDS Integers, FiniteSets

CONSTANTS
    Leads,             \* lead ids of the campaign with an e-mail address, ordered as the paging orders them
    Jobs,              \* concurrent runs of the send-campaign processor
    NoJob,             \* the owner of an outbox row no running job holds
    DailyLimit,        \* effective daily send cap of the workspace
    MonthlyLimit,      \* monthly send ceiling, checked when a batch starts
    AiLimit,           \* plan limit of metered AI calls in the month
    PageSize,          \* PAGE of the paging loop
    ApprovalRequired,  \* whether only APPROVED drafts may be sent
    InitDrafts,        \* draft kinds a lead may start with
    UserStages,        \* stages a person may set on a lead by hand
    MaxDay,            \* bound: number of UTC days a behaviour spans
    MaxClears,         \* bound: times retry-failed may clear one lead's row
    Env                \* kinds of surrounding events the instance enables

EnvKinds == {"mission", "suppress", "stage", "research", "reply", "bounce",
             "review", "clear", "crash", "reject", "fault", "lostRead"}

ASSUME ConstantsAssumption ==
    /\ Leads \subseteq Nat \ {0}
    /\ IsFiniteSet(Leads)
    /\ IsFiniteSet(Jobs)
    /\ NoJob \notin Jobs
    /\ DailyLimit \in Nat \ {0}
    /\ MonthlyLimit \in Nat \ {0}
    /\ AiLimit \in Nat
    /\ PageSize \in Nat \ {0}
    /\ ApprovalRequired \in BOOLEAN
    /\ MaxDay \in Nat \ {0}
    /\ MaxClears \in Nat
    /\ Env \subseteq EnvKinds

LeadStages == {"NEW", "RESEARCHED", "OUTREACH_SENT", "REPLIED", "BOOKED", "CLOSED", "DEAD"}

ASSUME StagesAssumption == UserStages \subseteq LeadStages

\* Stages the batch's selection excludes.
HandledStages == {"OUTREACH_SENT", "REPLIED", "BOOKED", "CLOSED", "DEAD"}

\* A lead's newest draft: none, its status, or TAINTED for a sendable draft
\* whose text carries a secret (sensitiveKinds).
DraftKinds == {"NONE", "DRAFTED", "APPROVED", "POLICY_REVIEW", "REJECTED", "TAINTED"}

ASSUME DraftsAssumption == InitDrafts \subseteq DraftKinds /\ InitDrafts # {}

SendStatuses == {"NONE", "SENDING", "SENT", "FAILED", "REPLIED", "BOUNCED"}

VARIABLES
    \* rows of the database
    row,        \* OutreachSent row of each lead for sequence step 1
    stage,      \* Lead.stage
    draft,      \* newest OutreachDraft of each lead
    suppressed, \* leads whose address is on the suppression list
    mission,    \* Mission.status of the campaign
    aiUsed,     \* UsageRecord count of AI calls this month
    sentEvents, \* SENT rows of the contact ledger per lead
    today,      \* current UTC day
    \* a job's local state
    pc,         \* where each job stands
    since,      \* startOfToday the batch computed when it started
    cursor,     \* paging cursor
    more,       \* whether the page read was full
    page,       \* leads of the page not handled yet
    copies,     \* draft each lead of the page had when the page was read
    handled,    \* alreadySentLeadIds of the page
    blocked,    \* suppressed addresses of the page
    inReview,   \* policyReviewLeadIds of the page
    cur,        \* lead being handled
    \* what the outside world saw, for the properties only
    mails,      \* messages the provider accepted, per lead
    mailed,     \* leads whose present row's message was accepted
    clears,     \* times an operator cleared the lead's FAILED row
    overrun,    \* messages a job sent since the mission stopped being ACTIVE
    aiKept,     \* metered calls whose draft was generated and used
    aiReview,   \* metered calls whose draft was put aside for policy review
    aiLost      \* metered calls charged for nothing: a crash or a failed refund

dbVars    == <<row, stage, draft, suppressed, mission, aiUsed, sentEvents, today>>
jobVars   == <<pc, since, cursor, more, page, copies, handled, blocked, inReview, cur>>
ghostVars == <<mails, mailed, clears, overrun, aiKept, aiReview, aiLost>>
vars      == <<dbVars, jobVars, ghostVars>>

Days == 1 .. MaxDay

NoRow == [status |-> "NONE", owner |-> NoJob, day |-> 0]

\* Program points of a job.  From "meter" on it holds an outbox row.
BeforeClaim == {"idle", "authorize", "caps", "page", "sets", "lead", "hold", "claim"}
Holding     == {"meter", "model", "refund", "release", "send", "record", "fail"}

OutboxRows == [status : SendStatuses, owner : Jobs \cup {NoJob}, day : 0 .. MaxDay]

RowsTypeOK ==
    /\ row \in [Leads -> OutboxRows]
    /\ stage \in [Leads -> LeadStages]
    /\ draft \in [Leads -> DraftKinds]
    /\ suppressed \subseteq Leads
    /\ mission \in {"ACTIVE", "PAUSED", "COMPLETE"}
    /\ aiUsed \in Nat
    /\ sentEvents \in [Leads -> Nat]
    /\ today \in Days

JobsTypeOK ==
    /\ pc \in [Jobs -> BeforeClaim \cup Holding]
    /\ since \in [Jobs -> 0 .. MaxDay]
    /\ cursor \in [Jobs -> {0} \cup Leads]
    /\ more \in [Jobs -> BOOLEAN]
    /\ page \in [Jobs -> SUBSET Leads]
    /\ copies \in [Jobs -> [Leads -> DraftKinds]]
    /\ handled \in [Jobs -> SUBSET Leads]
    /\ blocked \in [Jobs -> SUBSET Leads]
    /\ inReview \in [Jobs -> SUBSET Leads]
    /\ cur \in [Jobs -> {0} \cup Leads]
    /\ \A j \in Jobs : pc[j] \in {"hold", "claim"} \cup Holding => cur[j] \in Leads

SeenTypeOK ==
    /\ mails \in [Leads -> Nat]
    /\ mailed \subseteq Leads
    /\ clears \in [Leads -> Nat]
    /\ overrun \in [Jobs -> Nat]
    /\ aiKept \in Nat
    /\ aiReview \in Nat
    /\ aiLost \in Nat

TypeOK == RowsTypeOK /\ JobsTypeOK /\ SeenTypeOK

Init ==
    /\ row = [l \in Leads |-> NoRow]
    /\ stage = [l \in Leads |-> "RESEARCHED"]
    /\ draft \in [Leads -> InitDrafts]
    /\ suppressed = {}
    /\ mission = "ACTIVE"
    /\ aiUsed = 0
    /\ sentEvents = [l \in Leads |-> 0]
    /\ today = 1
    /\ pc = [j \in Jobs |-> "idle"]
    /\ since = [j \in Jobs |-> 0]
    /\ cursor = [j \in Jobs |-> 0]
    /\ more = [j \in Jobs |-> FALSE]
    /\ page = [j \in Jobs |-> {}]
    /\ copies = [j \in Jobs |-> [l \in Leads |-> "NONE"]]
    /\ handled = [j \in Jobs |-> {}]
    /\ blocked = [j \in Jobs |-> {}]
    /\ inReview = [j \in Jobs |-> {}]
    /\ cur = [j \in Jobs |-> 0]
    /\ mails = [l \in Leads |-> 0]
    /\ mailed = {}
    /\ clears = [l \in Leads |-> 0]
    /\ overrun = [j \in Jobs |-> 0]
    /\ aiKept = 0
    /\ aiReview = 0
    /\ aiLost = 0

(***************************************************************************)
(* Helpers of the send path.                                               *)
(***************************************************************************)

\* Rows that count against a cap since day d: delivered and in flight.
CapUsed(d) == {l \in Leads : row[l].status \in {"SENT", "SENDING"} /\ row[l].day >= d}

\* Mutant: the cap is compared with <= instead of <.
SlotFree_OffByOne(j) == Cardinality(CapUsed(since[j])) <= DailyLimit

\* reserveDailySendSlot: the count taken under the workspace's advisory lock.
SlotFree(j) == Cardinality(CapUsed(since[j])) < DailyLimit

\* Answers of getMissionSendBlockReason; a failed read counts as "not blocked".
MissionBlocks == mission # "ACTIVE"
\* Mutant: the mission is checked when the campaign is launched, not here.
MissionMayPass_LaunchOnly == TRUE
MissionMayPass == mission = "ACTIVE" \/ "lostRead" \in Env

Goto(j, label) == pc' = [pc EXCEPT ![j] = label]

\* The job moves on to the next lead of its page.
NextLead(j) ==
    /\ Goto(j, "lead")
    /\ page' = [page EXCEPT ![j] = @ \ {cur[j]}]
    /\ cur' = [cur EXCEPT ![j] = 0]

\* The batch ends, normally or at a stop; its local state is gone.
EndBatch(j) ==
    /\ Goto(j, "idle")
    /\ since' = [since EXCEPT ![j] = 0]
    /\ cursor' = [cursor EXCEPT ![j] = 0]
    /\ more' = [more EXCEPT ![j] = FALSE]
    /\ page' = [page EXCEPT ![j] = {}]
    /\ copies' = [copies EXCEPT ![j] = [l \in Leads |-> "NONE"]]
    /\ handled' = [handled EXCEPT ![j] = {}]
    /\ blocked' = [blocked EXCEPT ![j] = {}]
    /\ inReview' = [inReview EXCEPT ![j] = {}]
    /\ cur' = [cur EXCEPT ![j] = 0]

scanVars == <<since, cursor, more, copies, handled, blocked, inReview>>

(***************************************************************************)
(* The batch: start, authorisation, caps, paging.                          *)
(***************************************************************************)

\* A queue job is delivered: configuration is loaded and the mission checked.
StartBatch(j) ==
    /\ pc[j] = "idle"
    /\ MissionMayPass
    /\ Goto(j, "authorize")
    /\ since' = [since EXCEPT ![j] = today]
    /\ UNCHANGED <<dbVars, cursor, more, page, copies, handled, blocked, inReview, cur, ghostVars>>

\* authorizeOutboundSend for the batch: platform, workspace and reputation
\* policy may refuse it; recipients are checked per page.
AuthorizeBatch(j) ==
    /\ pc[j] = "authorize"
    /\ \/ Goto(j, "caps") /\ UNCHANGED <<scanVars, page, cur>>
       \/ EndBatch(j)
    /\ UNCHANGED <<dbVars, ghostVars>>

\* Mutant: only the daily cap is looked at.
CheckCaps_DailyOnly(j) ==
    /\ pc[j] = "caps"
    /\ IF SlotFree(j)
       THEN Goto(j, "page") /\ UNCHANGED <<scanVars, page, cur>>
       ELSE EndBatch(j)
    /\ UNCHANGED <<dbVars, ghostVars>>

\* Daily and monthly fast path: a workspace at its cap skips the whole batch.
CheckCaps(j) ==
    /\ pc[j] = "caps"
    /\ IF SlotFree(j) /\ Cardinality(CapUsed(1)) < MonthlyLimit
       THEN Goto(j, "page") /\ UNCHANGED <<scanVars, page, cur>>
       ELSE EndBatch(j)
    /\ UNCHANGED <<dbVars, ghostVars>>

\* Mutant: the query includes unreviewed drafts in approval mode too.
CopyOf_AnyDraft(l) ==
    IF draft[l] \in {"DRAFTED", "APPROVED", "TAINTED"} THEN draft[l] ELSE "NONE"

\* Draft a lead of the page comes with: the newest one the query includes.
CopyOf(l) ==
    IF draft[l] \in (IF ApprovalRequired THEN {"APPROVED", "TAINTED"}
                                         ELSE {"DRAFTED", "APPROVED", "TAINTED"})
    THEN draft[l] ELSE "NONE"

\* The leads beyond the cursor that are still unsent, at most PageSize of
\* them, lowest ids first, together with their drafts.
LoadPage(j) ==
    /\ pc[j] = "page"
    /\ LET eligible == {l \in Leads : l > cursor[j] /\ stage[l] \notin HandledStages}
       IN  IF eligible = {}
           THEN EndBatch(j)
           ELSE \E S \in SUBSET eligible :
                  /\ \A l \in S, m \in eligible \ S : l < m
                  /\ \/ S = eligible /\ Cardinality(S) < PageSize
                     \/ Cardinality(S) = PageSize
                  /\ page' = [page EXCEPT ![j] = S]
                  /\ more' = [more EXCEPT ![j] = Cardinality(S) = PageSize]
                  /\ \E c \in S : /\ \A l \in S : l <= c
                                  /\ cursor' = [cursor EXCEPT ![j] = c]
                  /\ copies' = [copies EXCEPT ![j] = [l \in Leads |->
                                  IF l \in S THEN CopyOf(l) ELSE "NONE"]]
                  /\ Goto(j, "sets")
                  /\ UNCHANGED <<since, handled, blocked, inReview, cur>>
    /\ UNCHANGED <<dbVars, ghostVars>>

\* loadPageFastPathSets: the page's lookup sets, read once per page.
LoadSets(j) ==
    /\ pc[j] = "sets"
    /\ handled' = [handled EXCEPT ![j] =
                     {l \in page[j] : row[l].status \in {"SENT", "SENDING", "FAILED"}}]
    /\ blocked' = [blocked EXCEPT ![j] = page[j] \cap suppressed]
    /\ inReview' = [inReview EXCEPT ![j] = {l \in page[j] : draft[l] = "POLICY_REVIEW"}]
    /\ Goto(j, "lead")
    /\ UNCHANGED <<dbVars, since, cursor, more, page, copies, cur, ghostVars>>

\* Where the copy comes from (resolveDraftSource): a lead with neither a
\* reusable draft nor the right to generate one is skipped.
Generates(j, l) == copies[j][l] = "NONE" /\ l \notin inReview[j] /\ ~ApprovalRequired
Skips(j, l) ==
    \/ l \in handled[j]
    \/ l \in blocked[j]
    \/ copies[j][l] = "NONE" /\ ~Generates(j, l)

\* The page is used up: read the next one, or finish after a short page.
PageDone(j) ==
    /\ pc[j] = "lead"
    /\ page[j] = {}
    /\ IF more[j] THEN Goto(j, "page") /\ UNCHANGED <<scanVars, page, cur>>
                  ELSE EndBatch(j)
    /\ UNCHANGED <<dbVars, ghostVars>>

\* The mission is re-checked before each lead; a stop halts the batch.
StopAtLead(j) ==
    /\ pc[j] = "lead"
    /\ page[j] # {}
    /\ MissionBlocks
    /\ EndBatch(j)
    /\ UNCHANGED <<dbVars, ghostVars>>

\* The next lead in id order, checked against the page's sets and drafts.  An
\* invalid address, missing consent, the holdout or the pacing of its domain
\* may skip any lead.
TakeLead(j) ==
    /\ pc[j] = "lead"
    /\ MissionMayPass
    /\ \E l \in page[j] :
         /\ \A m \in page[j] : l <= m
         /\ \/ /\ page' = [page EXCEPT ![j] = @ \ {l}]
               /\ UNCHANGED <<pc, cur>>
            \/ /\ ~Skips(j, l)
               /\ Goto(j, IF copies[j][l] = "TAINTED" THEN "hold" ELSE "claim")
               /\ cur' = [cur EXCEPT ![j] = l]
               /\ UNCHANGED page
    /\ UNCHANGED <<dbVars, scanVars, ghostVars>>

\* A draft carrying a secret is put aside for review (best effort) and the
\* lead skipped.
HoldDraft(j) ==
    /\ pc[j] = "hold"
    /\ \/ draft' = [draft EXCEPT ![cur[j]] = "POLICY_REVIEW"]
       \/ "fault" \in Env /\ UNCHANGED draft
    /\ NextLead(j)
    /\ UNCHANGED <<row, stage, suppressed, mission, aiUsed, sentEvents, today, scanVars, ghostVars>>

(***************************************************************************)
(* The claim and what follows it, lead by lead.                            *)
(***************************************************************************)

\* Mutant: the claim upserts the row instead of relying on the unique key.
Claim_Upsert(j) ==
    /\ pc[j] = "claim"
    /\ LET l == cur[j] IN
       \/ /\ ~SlotFree(j)
          /\ EndBatch(j)
          /\ UNCHANGED row
       \/ /\ SlotFree(j)
          /\ row' = [row EXCEPT ![l] = [status |-> "SENDING", owner |-> j, day |-> today]]
          /\ Goto(j, IF Generates(j, l) THEN "meter" ELSE "send")
          /\ UNCHANGED <<scanVars, page, cur>>
    /\ UNCHANGED <<stage, draft, suppressed, mission, aiUsed, sentEvents, today, ghostVars>>

\* claimOutboxSlot: one transaction under the workspace's advisory lock
\* counts the day's rows and inserts the row the unique key allows once; a
\* paced domain refuses a lead as the key does.
Claim(j) ==
    /\ pc[j] = "claim"
    /\ LET l == cur[j] IN
       \/ /\ ~SlotFree(j)
          /\ EndBatch(j)
          /\ UNCHANGED row
       \/ /\ SlotFree(j)
          /\ NextLead(j)
          /\ UNCHANGED <<row, scanVars>>
       \/ /\ SlotFree(j)
          /\ row[l].status = "NONE"
          /\ row' = [row EXCEPT ![l] = [status |-> "SENDING", owner |-> j, day |-> today]]
          /\ Goto(j, IF Generates(j, l) THEN "meter" ELSE "send")
          /\ UNCHANGED <<scanVars, page, cur>>
    /\ UNCHANGED <<stage, draft, suppressed, mission, aiUsed, sentEvents, today, ghostVars>>

\* Mutant: a refused reservation takes the refund path.
MeterAi_RefundsRefusal(j) ==
    /\ pc[j] = "meter"
    /\ IF aiUsed < AiLimit
       THEN aiUsed' = aiUsed + 1 /\ Goto(j, "model")
       ELSE Goto(j, "refund") /\ UNCHANGED aiUsed
    /\ UNCHANGED <<row, stage, draft, suppressed, mission, sentEvents, today, scanVars, page, cur, ghostVars>>

\* checkAndIncrementAiUsage: one locked transaction; at the limit the claim
\* is given back.
MeterAi(j) ==
    /\ pc[j] = "meter"
    /\ IF aiUsed < AiLimit
       THEN aiUsed' = aiUsed + 1 /\ Goto(j, "model")
       ELSE Goto(j, "release") /\ UNCHANGED aiUsed
    /\ UNCHANGED <<row, stage, draft, suppressed, mission, sentEvents, today, scanVars, page, cur, ghostVars>>

\* The model call, the checks on its answer and the writes they lead to.
CallModel(j) ==
    /\ pc[j] = "model"
    /\ \/ \* unusable answer, an error, or a failed write after the draft was stored
          /\ draft' \in {draft, [draft EXCEPT ![cur[j]] = "DRAFTED"]}
          /\ Goto(j, "refund")
          /\ UNCHANGED <<aiKept, aiReview>>
       \/ \* the copy trips a policy check: kept for review, never sent
          /\ draft' = [draft EXCEPT ![cur[j]] = "POLICY_REVIEW"]
          /\ aiReview' = aiReview + 1
          /\ Goto(j, "release")
          /\ UNCHANGED aiKept
       \/ /\ draft' = [draft EXCEPT ![cur[j]] = "DRAFTED"]
          /\ aiKept' = aiKept + 1
          /\ Goto(j, "send")
          /\ UNCHANGED aiReview
    /\ UNCHANGED <<row, stage, suppressed, mission, aiUsed, sentEvents, today, scanVars, page, cur,
                   mails, mailed, clears, overrun, aiLost>>

\* refundAiUsage: best effort, never below zero.
RefundAi(j) ==
    /\ pc[j] = "refund"
    /\ \/ /\ aiUsed > 0
          /\ aiUsed' = aiUsed - 1
          /\ UNCHANGED aiLost
       \/ /\ "fault" \in Env
          /\ aiLost' = aiLost + 1
          /\ UNCHANGED aiUsed
    /\ Goto(j, "release")
    /\ UNCHANGED <<row, stage, draft, suppressed, mission, sentEvents, today, scanVars, page, cur,
                   mails, mailed, clears, overrun, aiKept, aiReview>>

\* release: nothing was sent, so the row is deleted (best effort).
Release(j) ==
    /\ pc[j] = "release"
    /\ \/ row' = [row EXCEPT ![cur[j]] = NoRow]
       \/ /\ "fault" \in Env
          /\ row' = [row EXCEPT ![cur[j]].owner = NoJob]
    /\ NextLead(j)
    /\ UNCHANGED <<stage, draft, suppressed, mission, aiUsed, sentEvents, today, scanVars, ghostVars>>

\* sendMail: the provider accepts the message or rejects it.
Send(j) ==
    /\ pc[j] = "send"
    /\ \/ /\ mails' = [mails EXCEPT ![cur[j]] = @ + 1]
          /\ mailed' = mailed \cup {cur[j]}
          /\ overrun' = [overrun EXCEPT ![j] = IF MissionBlocks THEN @ + 1 ELSE @]
          /\ Goto(j, "record")
       \/ /\ "reject" \in Env
          /\ Goto(j, "fail")
          /\ UNCHANGED <<mails, mailed, overrun>>
    /\ UNCHANGED <<dbVars, scanVars, page, cur, clears, aiKept, aiReview, aiLost>>

\* Mutant: the ledger event is written apart from the row, best effort.
RecordSent_LedgerApart(j) ==
    /\ pc[j] = "record"
    /\ LET l == cur[j] IN
          /\ row' = [row EXCEPT ![l] = [status |-> "SENT", owner |-> NoJob, day |-> today]]
          /\ stage' = [stage EXCEPT ![l] = "OUTREACH_SENT"]
          /\ \/ sentEvents' = [sentEvents EXCEPT ![l] = @ + 1]
             \/ UNCHANGED sentEvents
          /\ NextLead(j)
    /\ UNCHANGED <<draft, suppressed, mission, aiUsed, today, scanVars, ghostVars>>

\* One transaction: row SENT, lead stage, SENT event of the ledger.  Any
\* error in it is caught by the handler of a rejected message.
RecordSent(j) ==
    /\ pc[j] = "record"
    /\ LET l == cur[j] IN
       \/ /\ row' = [row EXCEPT ![l] = [status |-> "SENT", owner |-> NoJob, day |-> today]]
          /\ stage' = [stage EXCEPT ![l] = "OUTREACH_SENT"]
          /\ sentEvents' = [sentEvents EXCEPT ![l] = @ + 1]
          /\ NextLead(j)
       \/ /\ "fault" \in Env
          /\ Goto(j, "fail")
          /\ UNCHANGED <<row, stage, sentEvents, page, cur>>
    /\ UNCHANGED <<draft, suppressed, mission, aiUsed, today, scanVars, ghostVars>>

\* Mutant: the failed claim is deleted.
RecordFailed_Deletes(j) ==
    /\ pc[j] = "fail"
    /\ row' = [row EXCEPT ![cur[j]] = NoRow]
    /\ NextLead(j)
    /\ UNCHANGED <<stage, draft, suppressed, mission, aiUsed, sentEvents, today, scanVars, ghostVars>>

\* One best-effort transaction: row FAILED, whatever it was before.
RecordFailed(j) ==
    /\ pc[j] = "fail"
    /\ \/ row' = [row EXCEPT ![cur[j]].status = "FAILED", ![cur[j]].owner = NoJob]
       \/ /\ "fault" \in Env
          /\ row' = [row EXCEPT ![cur[j]].owner = NoJob]
    /\ NextLead(j)
    /\ UNCHANGED <<stage, draft, suppressed, mission, aiUsed, sentEvents, today, scanVars, ghostVars>>

\* The worker process dies, or the batch throws: the row it held stays as
\* it is and no job refers to it any more.
Crash(j) ==
    /\ "crash" \in Env
    /\ pc[j] # "idle"
    /\ EndBatch(j)
    /\ row' = [l \in Leads |-> IF row[l].owner = j THEN [row[l] EXCEPT !.owner = NoJob] ELSE row[l]]
    /\ aiLost' = IF pc[j] \in {"model", "refund"} THEN aiLost + 1 ELSE aiLost
    /\ UNCHANGED <<stage, draft, suppressed, mission, aiUsed, sentEvents, today,
                   mails, mailed, clears, overrun, aiKept, aiReview>>

(***************************************************************************)
(* What happens beside the jobs.                                           *)
(***************************************************************************)

\* The operator pauses, completes or resumes the mission.
SetMission(m) ==
    /\ "mission" \in Env
    /\ m # mission
    /\ mission' = m
    /\ overrun' = IF m = "ACTIVE" THEN [j \in Jobs |-> 0] ELSE overrun
    /\ UNCHANGED <<row, stage, draft, suppressed, aiUsed, sentEvents, today, jobVars,
                   mails, mailed, clears, aiKept, aiReview, aiLost>>

\* An unsubscribe, a complaint or a manual suppression of the address.
Suppress(l) ==
    /\ "suppress" \in Env
    /\ l \notin suppressed
    /\ suppressed' = suppressed \cup {l}
    /\ UNCHANGED <<row, stage, draft, mission, aiUsed, sentEvents, today, jobVars, ghostVars>>

\* A person moves the lead to a stage by hand (PATCH and bulk-stage).
SetStage(l, s) ==
    /\ "stage" \in Env
    /\ s \in UserStages
    /\ stage[l] # s
    /\ stage' = [stage EXCEPT ![l] = s]
    /\ UNCHANGED <<row, draft, suppressed, mission, aiUsed, sentEvents, today, jobVars, ghostVars>>

\* A research job ends: the stage is written whatever it was.
Research(l) ==
    /\ "research" \in Env
    /\ stage[l] # "RESEARCHED"
    /\ stage' = [stage EXCEPT ![l] = "RESEARCHED"]
    /\ UNCHANGED <<row, draft, suppressed, mission, aiUsed, sentEvents, today, jobVars, ghostVars>>

\* The mailbox sync records a reply: the stage moves forward only, and a
\* SENT row becomes REPLIED.
Reply(l) ==
    /\ "reply" \in Env
    /\ mails[l] > 0
    /\ stage' = [stage EXCEPT ![l] = IF @ \in {"NEW", "RESEARCHED", "OUTREACH_SENT"}
                                     THEN "REPLIED" ELSE @]
    /\ row' = [row EXCEPT ![l].status = IF @ = "SENT" THEN "REPLIED" ELSE @]
    /\ <<stage', row'>> # <<stage, row>>
    /\ UNCHANGED <<draft, suppressed, mission, aiUsed, sentEvents, today, jobVars, ghostVars>>

\* applyBounces with a hard bounce: SENT and SENDING rows become BOUNCED
\* and the address is suppressed.
Bounce(l) ==
    /\ "bounce" \in Env
    /\ mails[l] > 0
    /\ row[l].status # "NONE"
    /\ row' = [row EXCEPT ![l].status = IF @ \in {"SENT", "SENDING"} THEN "BOUNCED" ELSE @]
    /\ suppressed' = suppressed \cup {l}
    /\ <<row', suppressed'>> # <<row, suppressed>>
    /\ UNCHANGED <<stage, draft, mission, aiUsed, sentEvents, today, jobVars, ghostVars>>

\* A reviewer approves or rejects the newest draft; a draft that carries a
\* secret cannot be approved.
ReviewDraft(l, verdict) ==
    /\ "review" \in Env
    /\ draft[l] # "NONE"
    /\ draft[l] # verdict
    /\ draft[l] = "TAINTED" => verdict = "REJECTED"
    /\ draft' = [draft EXCEPT ![l] = verdict]
    /\ UNCHANGED <<row, stage, suppressed, mission, aiUsed, sentEvents, today, jobVars, ghostVars>>

Failed == {l \in Leads : row[l].status = "FAILED"}

\* POST /:id/retry-failed deletes every FAILED row of the campaign.
RetryFailed ==
    /\ "clear" \in Env
    /\ Failed # {}
    /\ \A l \in Failed : clears[l] < MaxClears
    /\ row' = [l \in Leads |-> IF l \in Failed THEN NoRow ELSE row[l]]
    /\ clears' = [l \in Leads |-> IF l \in Failed THEN clears[l] + 1 ELSE clears[l]]
    /\ mailed' = mailed \ Failed
    /\ UNCHANGED <<stage, draft, suppressed, mission, aiUsed, sentEvents, today, jobVars,
                   mails, overrun, aiKept, aiReview, aiLost>>

\* Mutant: the sweep's cutoff never matches a row claimed on the same day.
Stranded_OtherDays == {l \in Leads : /\ row[l].status = "SENDING" /\ row[l].owner = NoJob
                                     /\ row[l].day < today}

\* Rows left in SENDING by a job that is gone.  A live job settles its row
\* within its time-outs, far below the sweep's two hours.
Stranded == {l \in Leads : row[l].status = "SENDING" /\ row[l].owner = NoJob}

\* Mutant: the sweep frees the slot by deleting the rows.
SweepStale_Deletes ==
    /\ \E S \in (SUBSET Stranded) \ {{}} :
         row' = [l \in Leads |-> IF l \in S THEN NoRow ELSE row[l]]
    /\ UNCHANGED <<stage, draft, suppressed, mission, aiUsed, sentEvents, today, jobVars, ghostVars>>

\* recoverStaleSends: the stranded rows past the threshold become FAILED.
SweepStale ==
    /\ \E S \in (SUBSET Stranded) \ {{}} :
         row' = [l \in Leads |-> IF l \in S THEN [row[l] EXCEPT !.status = "FAILED"] ELSE row[l]]
    /\ UNCHANGED <<stage, draft, suppressed, mission, aiUsed, sentEvents, today, jobVars, ghostVars>>

\* Midnight UTC.
NextDay ==
    /\ today < MaxDay
    /\ today' = today + 1
    /\ UNCHANGED <<row, stage, draft, suppressed, mission, aiUsed, sentEvents, jobVars, ghostVars>>

JobStep(j) ==
    \/ AuthorizeBatch(j) \/ CheckCaps(j) \/ LoadPage(j) \/ LoadSets(j)
    \/ PageDone(j) \/ StopAtLead(j) \/ TakeLead(j) \/ HoldDraft(j)
    \/ Claim(j) \/ MeterAi(j) \/ CallModel(j) \/ RefundAi(j) \/ Release(j)
    \/ Send(j) \/ RecordSent(j) \/ RecordFailed(j)

Surroundings ==
    \/ \E m \in {"ACTIVE", "PAUSED", "COMPLETE"} : SetMission(m)
    \/ \E l \in Leads : Suppress(l) \/ Research(l) \/ Reply(l) \/ Bounce(l)
    \/ \E l \in Leads, s \in UserStages : SetStage(l, s)
    \/ \E l \in Leads, v \in {"APPROVED", "REJECTED"} : ReviewDraft(l, v)
    \/ RetryFailed
    \/ SweepStale
    \/ NextDay

Next ==
    \/ \E j \in Jobs : StartBatch(j) \/ JobStep(j) \/ Crash(j)
    \/ Surroundings

Spec == Init /\ [][Next]_vars

\* A running job keeps running until it ends or dies, and the maintenance
\* worker keeps sweeping; nobody promises to launch, reply or retry.
Fairness ==
    /\ \A j \in Jobs : WF_vars(JobStep(j))
    /\ WF_vars(SweepStale)

FairSpec == Spec /\ Fairness

(***************************************************************************)
(* Properties.                                                             *)
(***************************************************************************)

\* A job that is past its claim holds the lead's row, alone: it is the row's
\* owner and no second job works on the same lead.  AI spend, the message
\* and its record all happen under that claim (claimOutboxSlot).
ClaimHeld ==
    \A j \in Jobs : pc[j] \in Holding =>
        /\ row[cur[j]].owner = j
        /\ row[cur[j]].status \in {"SENDING", "BOUNCED"}

\* At most one message per claim of a lead's slot: a lead gets a further
\* message only after an operator cleared its FAILED row, whatever crashes,
\* retries, sweeps, races and stage edits happen in between.
OneMailPerClear == \A l \in Leads : mails[l] <= 1 + clears[l]

\* The contact ledger agrees with the outbox: a row that says the message
\* went out has its one SENT event, and a lead with that event keeps its row,
\* so no clear or sweep makes it sendable again (RecordSent).
LedgerMatchesOutbox ==
    \A l \in Leads :
        /\ row[l].status \in {"SENT", "REPLIED"} => sentEvents[l] = 1
        /\ sentEvents[l] # 0 =>
              /\ sentEvents[l] = 1
              /\ mails[l] > 0
              /\ row[l].status \in {"SENT", "REPLIED", "BOUNCED"}

\* The rows counted on one day exceed the cap at most by the messages that
\* were in flight at midnight in the other jobs (reserveDailySendSlot).
DailyCapUpToMidnight ==
    Cardinality({l \in Leads : row[l].status \in {"SENT", "SENDING"} /\ row[l].day = today})
        <= DailyLimit + Cardinality(Jobs) - 1

\* Every metered AI call is in progress, produced a draft that was used or put
\* aside for review, or was lost to a crash or a failed refund: no call is
\* refunded twice or leaks otherwise (checkAndIncrementAiUsage, refundAiUsage).
AiLedgerBalanced ==
    aiUsed = aiKept + aiReview + aiLost + Cardinality({j \in Jobs : pc[j] \in {"model", "refund"}})

\* Once the mission is stopped, a job sends at most the message it was busy with.
PauseOverrunBounded == \A j \in Jobs : overrun[j] <= 1

\* With approval required, the copy that leaves is one a person approved
\* before the page was read, no AI is spent, and a draft carrying a secret
\* never leaves in either mode (resolveDraftSource).
OnlyReviewedCopyLeaves ==
    /\ ApprovalRequired => aiUsed = 0
    /\ \A j \in Jobs : pc[j] \in {"send", "record"} =>
          /\ copies[j][cur[j]] # "TAINTED"
          /\ ApprovalRequired => copies[j][cur[j]] = "APPROVED"

\* The monthly ceiling, read once per batch, is overshot by at most one day's
\* cap (the comment at the monthly fast path) and the messages other jobs have
\* in flight, which a bounce may hide from the count for a moment; all days are
\* of one month.
MonthlyOvershootBounded ==
    Cardinality(CapUsed(1)) <= MonthlyLimit - 1 + DailyLimit + Cardinality(Jobs) - 1

\* Every claim is settled: by its job, or by the sweep if the job is gone.
ClaimsSettle == \A l \in Leads : row[l].status = "SENDING" ~> row[l].status # "SENDING"

(***************************************************************************)
(* What the code says of the send path and does not do.                    *)
(***************************************************************************)

\* A FAILED row is a message the provider did not accept (campaignSend.ts,
\* the catch of dispatchOutreachEmail).
FailedMeansRejected == \A l \in Leads : row[l].status = "FAILED" => l \notin mailed
=============================================================================
