---------------------------- MODULE FollowupTask ----------------------------
(***************************************************************************)
(* The follow-up sequence of one lead: sendFollowupTask of                 *)
(* apps/worker/src/processors/followups.ts with scheduleNextFollowup and   *)
(* cancelPendingFollowups of backend-core/src/services/followups.ts, the   *)
(* due scan that enqueues jobs, and what runs beside them: the mailbox     *)
(* sync that records replies, bounces and complaints, unsubscribes, the    *)
(* operator, the stale-SENDING sweep, worker deaths and failed             *)
(* transactions.  Step 1 of the sequence is the campaign's initial send    *)
(* (CampaignSend); the model starts when its SENT transaction committed.   *)
(***************************************************************************)
EXTENDS Integers, FiniteSets

CONSTANTS
    Workers,          \* concurrent runs of the send-followup processor
    MaxStep,          \* number of steps of the campaign's sequence
    Delay,            \* delayDays of a step
    Gap,              \* days in which a recipient counts as recently contacted
    MaxDay,           \* bound: number of days a behaviour spans
    MaxClears,        \* bound: times retry-failed may clear one step's row
    MaxDefers,        \* bound: times a task may be parked by a window or a cap
    MaxQueued,        \* bound: waiting jobs of one task, one per minute's scan
    FollowupEnv       \* kinds of surrounding events the instance enables

FollowupEnvKinds == {"reply", "bounce", "optout", "control", "clear",
                     "crash", "fault", "defer"}

ASSUME FollowupAssumption ==
    /\ MaxStep \in Nat \ {0}
    /\ Delay \in Nat
    /\ Gap \in Nat
    /\ MaxDay \in Nat \ {0}
    /\ MaxClears \in Nat
    /\ MaxDefers \in Nat
    /\ MaxQueued \in Nat \ {0}
    /\ FollowupEnv \subseteq FollowupEnvKinds

Steps      == 1 .. MaxStep
TaskSteps  == 2 .. MaxStep
RowStates  == {"NONE", "SENDING", "SENT", "FAILED", "REPLIED", "BOUNCED"}
TaskStates == {"NONE", "SCHEDULED", "PROCESSING", "SENT", "FAILED", "BLOCKED", "CANCELLED"}
Settled    == {"SENT", "FAILED", "BLOCKED", "CANCELLED"}
ClaimHeldAt == {"send", "record", "fail"}

VARIABLES
    \* rows of the database
    row,        \* OutreachSent.status of each step
    task,       \* FollowupTask.status of each step
    due,        \* FollowupTask.scheduledFor
    sentOn,     \* day of the SENT event in the contact ledger, 0 when there is none
    replyEvent, \* whether the ledger holds a REPLIED event of the address
    barred,     \* the address is suppressed, or Lead.stage is BOOKED, CLOSED or DEAD
    control,    \* OFF without Campaign.autoFollowupsEnabled, else whether the mission is ACTIVE or PAUSED
    today,      \* current day
    \* queue and processes
    queued,     \* waiting send-followup jobs of each step's task
    pc,         \* where each worker stands
    cur,        \* step whose task the worker took
    pending,    \* steps recorded SENT whose scheduleNextFollowup call is to come
    bouncing,   \* kind of the bounce the mailbox sync is handling
    \* for the properties only
    mails,      \* messages the provider accepted, per step
    mailed,     \* steps whose present row's message was accepted
    clears,     \* times retry-failed cleared the step's row
    afterReply, \* messages accepted since the ledger holds a reply
    lost,       \* steps whose job died or threw while their task was PROCESSING
    defers      \* parks so far

ledgerVars == <<sentOn, replyEvent, barred>>
switchVars == <<control, today>>
workVars   == <<queued, pc, cur, pending, bouncing>>
seenVars   == <<mails, mailed, clears, afterReply, lost, defers>>
followupVars == <<row, task, due, ledgerVars, switchVars, workVars, seenVars>>

TypeOK ==
    /\ row \in [Steps -> RowStates]
    /\ task \in [Steps -> TaskStates]
    /\ due \in [Steps -> Nat]
    /\ sentOn \in [Steps -> 0 .. MaxDay]
    /\ replyEvent \in BOOLEAN
    /\ barred \in BOOLEAN
    /\ control \in {"ACTIVE", "PAUSED", "OFF"}
    /\ today \in 1 .. MaxDay
    /\ queued \in [Steps -> 0 .. MaxQueued]
    /\ pc \in [Workers -> {"idle", "guards", "authorize", "claim"} \cup ClaimHeldAt]
    /\ cur \in [Workers -> Steps]
    /\ pending \subseteq Steps
    /\ bouncing \in {"no", "hard", "soft"}
    /\ mails \in [Steps -> Nat]
    /\ mailed \subseteq Steps
    /\ clears \in [Steps -> Nat]
    /\ afterReply \in Nat
    /\ lost \subseteq Steps
    /\ defers \in Nat

\* The initial send of the campaign committed; its un-awaited call of
\* scheduleNextFollowup is still to run.
Init ==
    /\ row = [s \in Steps |-> IF s = 1 THEN "SENT" ELSE "NONE"]
    /\ task = [s \in Steps |-> "NONE"]
    /\ due = [s \in Steps |-> 0]
    /\ sentOn = [s \in Steps |-> IF s = 1 THEN 1 ELSE 0]
    /\ replyEvent = FALSE
    /\ barred = FALSE
    /\ control = "ACTIVE"
    /\ today = 1
    /\ queued = [s \in Steps |-> 0]
    /\ pc = [w \in Workers |-> "idle"]
    /\ cur = [w \in Workers |-> 1]
    /\ pending = {1}
    /\ bouncing = "no"
    /\ mails = [s \in Steps |-> IF s = 1 THEN 1 ELSE 0]
    /\ mailed = {1}
    /\ clears = [s \in Steps |-> 0]
    /\ afterReply = 0
    /\ lost = {}
    /\ defers = 0

-----------------------------------------------------------------------------
(* Scheduling and cancelling. *)

\* Mutant: the next step is due at once.
ScheduleNext_AtOnce(s) ==
    /\ s \in pending
    /\ pending' = pending \ {s}
    /\ IF s + 1 \in TaskSteps /\ task[s + 1] = "NONE"
       THEN /\ task' = [task EXCEPT ![s + 1] = "SCHEDULED"]
            /\ due' = [due EXCEPT ![s + 1] = sentOn[s]]
       ELSE UNCHANGED <<task, due>>
    /\ UNCHANGED <<row, ledgerVars, switchVars, queued, pc, cur, bouncing, seenVars>>

\* scheduleNextFollowup: creates the task of the next active step unless the
\* unique key (campaign, lead, step) already holds one.
ScheduleNext(s) ==
    /\ s \in pending
    /\ pending' = pending \ {s}
    /\ IF s + 1 \in TaskSteps /\ task[s + 1] = "NONE"
       THEN /\ task' = [task EXCEPT ![s + 1] = "SCHEDULED"]
            /\ due' = [due EXCEPT ![s + 1] = sentOn[s] + Delay]
       ELSE UNCHANGED <<task, due>>
    /\ UNCHANGED <<row, ledgerVars, switchVars, queued, pc, cur, bouncing, seenVars>>

\* The call fails or its process dies: both callers swallow the error.
ScheduleLost(s) ==
    /\ FollowupEnv \cap {"fault", "crash"} # {}
    /\ s \in pending
    /\ pending' = pending \ {s}
    /\ UNCHANGED <<row, task, due, ledgerVars, switchVars, queued, pc, cur, bouncing, seenVars>>

\* cancelPendingFollowups: SCHEDULED tasks of the lead only.
CancelScheduled ==
    task' = [s \in Steps |-> IF task[s] = "SCHEDULED" THEN "CANCELLED" ELSE task[s]]

\* enqueueDueFollowups, run every minute: one more job for each due SCHEDULED
\* task, the job id being new in each minute.
DueTasks == {s \in TaskSteps : task[s] = "SCHEDULED" /\ due[s] <= today /\ queued[s] < MaxQueued}

ScanDue ==
    /\ DueTasks # {}
    /\ queued' = [s \in Steps |-> IF s \in DueTasks THEN queued[s] + 1 ELSE queued[s]]
    /\ UNCHANGED <<row, task, due, ledgerVars, switchVars, pc, cur, pending, bouncing, seenVars>>

-----------------------------------------------------------------------------
(* sendFollowupTask, one action per stretch of code between two awaits that *)
(* reads or writes shared rows.                                             *)

Goto(w, label) == pc' = [pc EXCEPT ![w] = label]

\* Mutant: finish written like the other updates, as a compare-and-set.
Finish_OnlyScheduled(w, status) ==
    /\ task' = [task EXCEPT ![cur[w]] = IF @ = "SCHEDULED" THEN status ELSE @]
    /\ pc' = [pc EXCEPT ![w] = "idle"]

\* finish: the task is written whatever its status is by now.
Finish(w, status) ==
    /\ task' = [task EXCEPT ![cur[w]] = status]
    /\ Goto(w, "idle")

\* Park: back to SCHEDULED for the next scan.
Park(w) == Finish(w, "SCHEDULED")

\* Mutant: the job reads the task and takes it without the compare-and-set.
TakeTask_NoCompareAndSet(w) ==
    /\ pc[w] = "idle"
    /\ \E s \in TaskSteps :
        /\ queued[s] > 0
        /\ queued' = [queued EXCEPT ![s] = @ - 1]
        /\ task' = [task EXCEPT ![s] = "PROCESSING"]
        /\ cur' = [cur EXCEPT ![w] = s]
        /\ Goto(w, "guards")
    /\ UNCHANGED <<row, due, ledgerVars, switchVars, pending, bouncing, seenVars>>

\* The updateMany SCHEDULED -> PROCESSING; a job that loses it is skipped.
TakeTask(w) ==
    /\ pc[w] = "idle"
    /\ \E s \in TaskSteps :
        /\ queued[s] > 0
        /\ queued' = [queued EXCEPT ![s] = @ - 1]
        /\ IF task[s] = "SCHEDULED"
           THEN /\ task' = [task EXCEPT ![s] = "PROCESSING"]
                /\ cur' = [cur EXCEPT ![w] = s]
                /\ Goto(w, "guards")
           ELSE UNCHANGED <<task, cur, pc>>
    /\ UNCHANGED <<row, due, ledgerVars, switchVars, pending, bouncing, seenVars>>

\* Campaign switch, then mission, as they are read now.
CheckGuards(w) ==
    /\ pc[w] = "guards"
    /\ \/ /\ control = "OFF"
          /\ Finish(w, "CANCELLED")
       \/ /\ control = "PAUSED"
          /\ Finish(w, "BLOCKED")
       \/ /\ control = "ACTIVE"
          /\ Goto(w, "authorize")
          /\ UNCHANGED task
    /\ UNCHANGED <<row, due, ledgerVars, switchVars, queued, cur, pending, bouncing, seenVars>>

RecentlyContacted == \E s \in Steps : sentOn[s] # 0 /\ sentOn[s] > today - Gap

\* Mutant: the gate trusts the cancellation and does not look for a reply.
MayContact_RepliesCancelled == ~barred /\ ~RecentlyContacted

\* authorizeOutboundSend and canContactRecipient.
MayContact == ~barred /\ ~replyEvent /\ ~RecentlyContacted

Authorize(w) ==
    /\ pc[w] = "authorize"
    /\ IF MayContact
       THEN Goto(w, "claim") /\ UNCHANGED task
       ELSE Finish(w, "BLOCKED")
    /\ UNCHANGED <<row, due, ledgerVars, switchVars, queued, cur, pending, bouncing, seenVars>>

\* Send window, monthly ceiling, domain pacing before the claim and the caps
\* in it, or a reputation ledger that cannot be read: the task is parked.
Defer(w) ==
    /\ "defer" \in FollowupEnv
    /\ defers < MaxDefers
    /\ pc[w] \in {"authorize", "claim"}
    /\ Park(w)
    /\ defers' = defers + 1
    /\ UNCHANGED <<row, due, ledgerVars, switchVars, queued, cur, pending, bouncing,
                   mails, mailed, clears, afterReply, lost>>

\* The outbox row of the step; the unique key refuses a second one, and the
\* task then counts as sent.
ClaimStep(w) ==
    LET s == cur[w] IN
    /\ pc[w] = "claim"
    /\ IF row[s] = "NONE"
       THEN /\ row' = [row EXCEPT ![s] = "SENDING"]
            /\ Goto(w, "send")
            /\ UNCHANGED task
       ELSE /\ Finish(w, "SENT")
            /\ UNCHANGED row
    /\ mailed' = mailed \ {s}
    /\ UNCHANGED <<due, ledgerVars, switchVars, queued, cur, pending, bouncing,
                   mails, clears, afterReply, lost, defers>>

\* The provider accepts the message.
SendAccepted(w) ==
    LET s == cur[w] IN
    /\ pc[w] = "send"
    /\ mails' = [mails EXCEPT ![s] = @ + 1]
    /\ mailed' = mailed \cup {s}
    /\ afterReply' = IF replyEvent THEN afterReply + 1 ELSE afterReply
    /\ Goto(w, "record")
    /\ UNCHANGED <<row, task, due, ledgerVars, switchVars, queued, cur, pending, bouncing,
                   clears, lost, defers>>

\* The provider refuses it.
SendRejected(w) ==
    /\ pc[w] = "send"
    /\ "fault" \in FollowupEnv
    /\ Goto(w, "fail")
    /\ UNCHANGED <<row, task, due, ledgerVars, switchVars, queued, cur, pending, bouncing, seenVars>>

\* The SENT transaction: row, ledger event and task together; then the call
\* that schedules the next step.
RecordSent(w) ==
    LET s == cur[w] IN
    /\ pc[w] = "record"
    /\ row' = [row EXCEPT ![s] = "SENT"]
    /\ task' = [task EXCEPT ![s] = "SENT"]
    /\ sentOn' = [sentOn EXCEPT ![s] = today]
    /\ pending' = pending \cup {s}
    /\ Goto(w, "idle")
    /\ UNCHANGED <<due, replyEvent, barred, switchVars, queued, cur, bouncing, seenVars>>

\* The SENT transaction fails: the same catch as for a refused message.
RecordFails(w) ==
    /\ pc[w] = "record"
    /\ "fault" \in FollowupEnv
    /\ Goto(w, "fail")
    /\ UNCHANGED <<row, task, due, ledgerVars, switchVars, queued, cur, pending, bouncing, seenVars>>

\* The FAILED transaction, whose own failure is only logged.
RecordFailed(w) ==
    LET s == cur[w] IN
    /\ pc[w] = "fail"
    /\ \/ /\ row' = [row EXCEPT ![s] = "FAILED"]
          /\ task' = [task EXCEPT ![s] = "FAILED"]
          /\ UNCHANGED lost
       \/ /\ "fault" \in FollowupEnv
          /\ lost' = lost \cup {s}
          /\ UNCHANGED <<row, task>>
    /\ Goto(w, "idle")
    /\ UNCHANGED <<due, ledgerVars, switchVars, queued, cur, pending, bouncing,
                   mails, mailed, clears, afterReply, defers>>

\* The worker dies, or an await outside every catch throws and BullMQ's
\* retry finds the task PROCESSING.
Die(w) ==
    /\ "crash" \in FollowupEnv
    /\ pc[w] # "idle"
    /\ lost' = lost \cup {cur[w]}
    /\ Goto(w, "idle")
    /\ UNCHANGED <<row, task, due, ledgerVars, switchVars, queued, cur, pending, bouncing,
                   mails, mailed, clears, afterReply, defers>>

-----------------------------------------------------------------------------
(* What happens around it. *)

\* findBestMatchingOutreachSent: the row whose messageId the reply names, once
\* the SENT transaction stored it, or else the newest row that is SENT.
SentRows == {s \in Steps : row[s] = "SENT"}

Attributed(s, header) ==
    IF header /\ sentOn[s] # 0 /\ row[s] # "NONE"
    THEN {s}
    ELSE {r \in SentRows : \A q \in SentRows : q <= r}

\* recordProcessedReply, one transaction: only a SENT row turns REPLIED and
\* writes the ledger event; the scheduled tasks are cancelled in any case.
Reply(s, header) ==
    LET flipped == {r \in Attributed(s, header) : row[r] = "SENT"} IN
    /\ "reply" \in FollowupEnv
    /\ mails[s] > 0
    /\ row' = [r \in Steps |-> IF r \in flipped THEN "REPLIED" ELSE row[r]]
    /\ replyEvent' = (replyEvent \/ flipped # {})
    /\ CancelScheduled
    /\ UNCHANGED <<due, sentOn, barred, switchVars, workVars, seenVars>>

\* applyBounces: first the rows of the address and the event ...
BounceRows(kind) ==
    /\ "bounce" \in FollowupEnv
    /\ bouncing = "no"
    /\ ~barred
    /\ \E s \in Steps : row[s] \in {"SENT", "SENDING"}
    /\ row' = [s \in Steps |-> IF row[s] \in {"SENT", "SENDING"} THEN "BOUNCED" ELSE row[s]]
    /\ bouncing' = kind
    /\ UNCHANGED <<task, due, ledgerVars, switchVars, queued, pc, cur, pending, seenVars>>

\* ... then the suppression: at once, or for a soft bounce when the address
\* has had enough of them before.
BounceSuppress ==
    /\ bouncing # "no"
    /\ barred' \in IF bouncing = "hard" THEN {TRUE} ELSE {barred, TRUE}
    /\ bouncing' = "no"
    /\ UNCHANGED <<row, task, due, sentOn, replyEvent, switchVars, queued, pc, cur, pending, seenVars>>

\* An unsubscribe suppresses the address, a complaint also cancels the
\* scheduled tasks; a person books, closes or drops the lead.
Bar(complaint) ==
    /\ "optout" \in FollowupEnv
    /\ ~barred
    /\ barred' = TRUE
    /\ IF complaint THEN CancelScheduled ELSE UNCHANGED task
    /\ UNCHANGED <<row, due, sentOn, replyEvent, switchVars, workVars, seenVars>>

\* The operator pauses or resumes the mission, or switches follow-ups off.
SetControl(c) ==
    /\ "control" \in FollowupEnv
    /\ control # "OFF"
    /\ control' = c
    /\ UNCHANGED <<row, task, due, ledgerVars, today, workVars, seenVars>>

\* recoverStaleSends: a SENDING row no worker holds.
Abandoned == {s \in Steps : row[s] = "SENDING" /\ \A w \in Workers : pc[w] \in ClaimHeldAt => cur[w] # s}

SweepStale ==
    /\ Abandoned # {}
    /\ row' = [s \in Steps |-> IF s \in Abandoned THEN "FAILED" ELSE row[s]]
    /\ UNCHANGED <<task, due, ledgerVars, switchVars, workVars, seenVars>>

\* Mutant: rows in flight are cleared as well.
RetryFailed_ClearsInFlight ==
    LET failed == {s \in TaskSteps : row[s] \in {"FAILED", "SENDING"}} IN
    /\ "clear" \in FollowupEnv
    /\ failed # {}
    /\ \A s \in failed : clears[s] < MaxClears
    /\ row' = [s \in Steps |-> IF s \in failed THEN "NONE" ELSE row[s]]
    /\ mailed' = mailed \ failed
    /\ clears' = [s \in Steps |-> IF s \in failed THEN clears[s] + 1 ELSE clears[s]]
    /\ UNCHANGED <<task, due, ledgerVars, switchVars, workVars, mails, afterReply, lost, defers>>

\* retry-failed deletes the FAILED rows of the campaign, follow-ups included.
RetryFailed ==
    LET failed == {s \in TaskSteps : row[s] = "FAILED"} IN
    /\ "clear" \in FollowupEnv
    /\ failed # {}
    /\ \A s \in failed : clears[s] < MaxClears
    /\ row' = [s \in Steps |-> IF s \in failed THEN "NONE" ELSE row[s]]
    /\ mailed' = mailed \ failed
    /\ clears' = [s \in Steps |-> IF s \in failed THEN clears[s] + 1 ELSE clears[s]]
    /\ UNCHANGED <<task, due, ledgerVars, switchVars, workVars, mails, afterReply, lost, defers>>

NextDay ==
    /\ today < MaxDay
    /\ today' = today + 1
    /\ UNCHANGED <<row, task, due, ledgerVars, control, workVars, seenVars>>

-----------------------------------------------------------------------------
WorkerStep(w) ==
    \/ CheckGuards(w) \/ Authorize(w) \/ Defer(w) \/ ClaimStep(w)
    \/ SendAccepted(w) \/ SendRejected(w) \/ RecordSent(w) \/ RecordFails(w) \/ RecordFailed(w)

Outside ==
    \/ \E s \in Steps, header \in BOOLEAN : Reply(s, header)
    \/ \E kind \in {"hard", "soft"} : BounceRows(kind)
    \/ \E complaint \in BOOLEAN : Bar(complaint)
    \/ \E c \in {"ACTIVE", "PAUSED", "OFF"} : SetControl(c)
    \/ RetryFailed

Next ==
    \/ \E s \in Steps : ScheduleNext(s) \/ ScheduleLost(s)
    \/ ScanDue
    \/ \E w \in Workers : TakeTask(w) \/ WorkerStep(w) \/ Die(w)
    \/ BounceSuppress
    \/ SweepStale
    \/ NextDay
    \/ Outside

Spec == Init /\ [][Next]_followupVars

\* The scan repeats every minute, the queue hands its jobs to workers that
\* run to the end unless they die, the sweep repeats, and time passes.  People
\* and recipients get no fairness, and a death is never required.
Fairness ==
    /\ WF_followupVars(ScanDue)
    /\ WF_followupVars(NextDay)
    /\ WF_followupVars(SweepStale)
    /\ WF_followupVars(BounceSuppress)
    /\ \A w \in Workers : WF_followupVars(TakeTask(w)) /\ WF_followupVars(WorkerStep(w))

FairSpec == Spec /\ Fairness

-----------------------------------------------------------------------------
(* Properties. *)

\* One message per step, ever, and the task tells the truth about it: a task
\* that may be taken again never had a message, and one closed as SENT had one
\* (also if the claim was refused, which it never is).
OneMailPerStep ==
    \A s \in TaskSteps :
        /\ mails[s] <= 1
        /\ task[s] = "SCHEDULED" => row[s] = "NONE" /\ mails[s] = 0
        /\ task[s] = "SENT" => mails[s] = 1

\* Once the ledger knows of a reply, at most the one message already past the
\* gate still leaves: neither a task scheduled behind the cancellation nor one
\* parked by a window or a cap revives the sequence.
SequenceStopsAfterReply == afterReply <= 1

\* Steps are mailed in order, a recorded pair of them Delay and Gap apart,
\* whatever is parked, scheduled late or recorded after midnight.
SequenceSpaced ==
    \A s \in TaskSteps :
        /\ mails[s] > 0 => sentOn[s - 1] # 0
        /\ sentOn[s] # 0 => sentOn[s] >= sentOn[s - 1] + Delay /\ sentOn[s] >= sentOn[s - 1] + Gap

\* Every task that was scheduled comes to an end, if its job neither dies nor
\* throws, and every claim of an outbox row is settled even then.
TasksSettle ==
    \A s \in TaskSteps :
        /\ task[s] \in {"SCHEDULED", "PROCESSING"} /\ sentOn[s - 1] + Delay <= MaxDay
               ~> task[s] \in Settled \/ s \in lost
        /\ row[s] = "SENDING" ~> row[s] # "SENDING"
=============================================================================
