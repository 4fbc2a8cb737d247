--------------------------- MODULE CampaignSlots ---------------------------
(* The campaign send keeps the promise of SendSlot. *)
EXTENDS CampaignSend

\* A lead's outbox row seen as a slot.
SlotOf(l) ==
    CASE row[l].status = "NONE"   -> "OPEN"
      [] row[l].status = "FAILED" -> "GIVEN_UP"
      [] OTHER                    -> IF l \in mailed THEN "MAILED" ELSE "TAKEN"

Slots == INSTANCE SendSlot WITH slot <- [l \in Leads |-> SlotOf(l)]

\* claimOutboxSlot, dispatchOutreachEmail, the stale sweep and retry-failed
\* together implement the one-message-per-taking slot.
ImplementsSendSlot == Slots!Spec
=============================================================================
