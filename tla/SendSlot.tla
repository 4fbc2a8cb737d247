------------------------------ MODULE SendSlot ------------------------------
(***************************************************************************)
(* What the outbox promises a lead, whatever jobs, crashes and sweeps do:  *)
(* its slot is taken before a message leaves, one message leaves per       *)
(* taking, and a slot that was given up is reopened by an operator only.   *)
(***************************************************************************)
EXTENDS Naturals

CONSTANTS
    Leads,     \* the leads of the campaign
    MaxClears  \* bound: times one lead's slot may be reopened

VARIABLES
    slot,   \* OPEN, TAKEN, MAILED or GIVEN_UP
    mails,  \* messages accepted for each lead
    clears  \* times an operator reopened the slot

vars == <<slot, mails, clears>>

Init ==
    /\ slot = [l \in Leads |-> "OPEN"]
    /\ mails = [l \in Leads |-> 0]
    /\ clears = [l \in Leads |-> 0]

Take(l) ==
    /\ slot[l] = "OPEN"
    /\ slot' = [slot EXCEPT ![l] = "TAKEN"]
    /\ UNCHANGED <<mails, clears>>

\* Nothing was sent, so the slot is free again.
GiveBack(l) ==
    /\ slot[l] = "TAKEN"
    /\ slot' = [slot EXCEPT ![l] = "OPEN"]
    /\ UNCHANGED <<mails, clears>>

Mail(l) ==
    /\ slot[l] = "TAKEN"
    /\ slot' = [slot EXCEPT ![l] = "MAILED"]
    /\ mails' = [mails EXCEPT ![l] = @ + 1]
    /\ UNCHANGED clears

\* The slots of a set of leads are given up: the outcome is a rejection, or
\* is not known.
GiveUp(S) ==
    /\ S # {}
    /\ \A l \in S : slot[l] \in {"TAKEN", "MAILED"}
    /\ slot' = [l \in Leads |-> IF l \in S THEN "GIVEN_UP" ELSE slot[l]]
    /\ UNCHANGED <<mails, clears>>

\* The operator reopens every slot that was given up.
Reopen ==
    LET S == {l \in Leads : slot[l] = "GIVEN_UP"} IN
    /\ S # {}
    /\ \A l \in S : clears[l] < MaxClears
    /\ slot' = [l \in Leads |-> IF l \in S THEN "OPEN" ELSE slot[l]]
    /\ clears' = [l \in Leads |-> IF l \in S THEN clears[l] + 1 ELSE clears[l]]
    /\ UNCHANGED mails

Next ==
    \/ \E l \in Leads : Take(l) \/ GiveBack(l) \/ Mail(l)
    \/ \E S \in SUBSET Leads : GiveUp(S)
    \/ Reopen

Spec == Init /\ [][Next]_vars
=============================================================================
