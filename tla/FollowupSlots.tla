--------------------------- MODULE FollowupSlots ---------------------------
(* The follow-up steps of a lead keep the promise of SendSlot as well. *)
EXTENDS FollowupTask

\* A step's outbox row seen as a slot.
StepSlot(s) ==
    CASE row[s] = "NONE"   -> "OPEN"
      [] row[s] = "FAILED" -> "GIVEN_UP"
      [] OTHER             -> IF s \in mailed THEN "MAILED" ELSE "TAKEN"

StepSlots == INSTANCE SendSlot WITH
    Leads <- TaskSteps,
    slot <- [s \in TaskSteps |-> StepSlot(s)],
    mails <- [s \in TaskSteps |-> mails[s]],
    clears <- [s \in TaskSteps |-> clears[s]]

\* The claim transaction of sendFollowupTask, its two outcomes, the stale sweep
\* and retry-failed implement the one-message-per-taking slot for each step.
FollowupsImplementSendSlot == StepSlots!Spec
=============================================================================
