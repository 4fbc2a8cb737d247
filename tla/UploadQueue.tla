----------------------------- MODULE UploadQueue -----------------------------
(***************************************************************************)
(* The technician's phone: one photo in the persistent upload queue        *)
(* (apps/web/src/lib/evidence/uploadEngine.ts and queueStore.ts), taken to *)
(* the server by the engine of whichever tab holds the photo's lock.  The  *)
(* server side is the part of EvidenceFile the phone can see.              *)
(*                                                                         *)
(* A tab may be closed or reloaded at any point: its run and its           *)
(* cancelled set are lost, the stored record is not.  Waiting times are    *)
(* left out: whatever is due may start, whenever the tab is online and     *)
(* signed in.  An action is the code between two awaits, with the call it  *)
(* waits for.                                                              *)
(***************************************************************************)
EXTENDS Naturals

CONSTANTS
    Tabs,        \* tabs of the app in one browser
    MaxAttempts, \* limits.maxAttempts
    MaxReinits,  \* fresh uploads after a missing object (2 in the code)
    MaxFaults    \* bound: failing calls, refusals, closed tabs

VARIABLES
    item,      \* the queue record of the photo
    killed,    \* tabs whose cancelled set has the photo
    tab,       \* the run of each tab
    asking,    \* tabs in which the person has just tapped remove
    server,    \* EvidenceFile.status, "NONE" without a row
    stored,    \* the raw upload is in the bucket
    finalise,  \* a finalise job is queued
    slips,     \* failures so far
    wanted     \* history: the person has not given the photo up

serverVars == <<server, stored, finalise>>
vars == <<item, killed, tab, asking, serverVars, slips, wanted>>

ActiveStates == {"queued", "uploading", "processing", "cancelling"}
States       == ActiveStates \cup {"none", "failed", "rejected", "done", "gone"}

\* What of a record the runs use; a run works on the copy it read.
Item == [state : States, blob : BOOLEAN, file : BOOLEAN,
         attempts : 0 .. MaxAttempts, reinits : 0 .. MaxReinits]

NoItem == [state |-> "none", blob |-> FALSE, file |-> FALSE, attempts |-> 0, reinits |-> 0]
Away   == [pc |-> "idle", copy |-> NoItem]

TypeOK ==
    /\ item \in Item
    /\ killed \subseteq Tabs /\ asking \subseteq Tabs
    /\ tab \in [Tabs -> [pc : {"idle", "get", "init", "put", "fresh", "complete", "poll",
                               "cancel", "cancelCas"}, copy : Item]]
    /\ server \in {"NONE", "PENDING", "AVAILABLE", "REJECTED"}
    /\ stored \in BOOLEAN /\ finalise \in BOOLEAN
    /\ slips \in 0 .. MaxFaults
    /\ wanted \in BOOLEAN

Init ==
    /\ item = NoItem
    /\ killed = {} /\ asking = {}
    /\ tab = [t \in Tabs |-> Away]
    /\ server = "NONE" /\ stored = FALSE /\ finalise = FALSE
    /\ slips = 0
    /\ wanted = TRUE

Slip == slips < MaxFaults /\ slips' = slips + 1

Stop(t) == tab' = [tab EXCEPT ![t] = Away]
GoOn(t, p) == tab' = [tab EXCEPT ![t].pc = p]
Take(t, p, i) == tab' = [tab EXCEPT ![t] = [pc |-> p, copy |-> i]]

\* store.update: nothing happens to a record that is gone.
Update(i) == item' = IF item.state \in {"none", "gone"} THEN item ELSE i

\* patch: not over a photo this tab has cancelled.
Patch(t, i) == IF t \in killed THEN UNCHANGED item ELSE Update(i)

Remove == item' = [NoItem EXCEPT !.state = "gone"]

-----------------------------------------------------------------------------
(* What the person does. *)

Enqueue ==
    /\ item.state = "none"
    /\ item' = [NoItem EXCEPT !.state = "queued", !.blob = TRUE]
    /\ UNCHANGED <<killed, tab, asking, serverVars, slips, wanted>>

\* retry: a failed photo gets a new budget.
Retry ==
    /\ item.state = "failed" /\ item.blob
    /\ Slip
    /\ item' = [item EXCEPT !.state = "queued", !.attempts = 0, !.reinits = 0]
    /\ UNCHANGED <<killed, tab, asking, serverVars, wanted>>

\* cancel, before its first await: a run of this tab sees the photo cancelled.
AskCancel(t) ==
    /\ t \notin asking
    /\ item.state \notin {"none", "gone"}
    /\ asking' = asking \cup {t}
    /\ killed' = IF tab[t].pc # "idle" THEN killed \cup {t} ELSE killed
    /\ wanted' = FALSE
    /\ UNCHANGED <<item, tab, serverVars, slips>>

\* cancel, the rest: with a file the record becomes a tombstone; without one it
\* is removed, or left to the init in flight.
Cancel(t) ==
    /\ t \in asking
    /\ asking' = asking \ {t}
    /\ \/ /\ item.state \in {"gone", "done", "rejected"}
          /\ Remove
          /\ killed' = killed \ {t}
       \/ /\ item.state \notin {"gone", "done", "rejected"} /\ item.file
          /\ item' = [item EXCEPT !.state = "cancelling", !.blob = FALSE, !.attempts = 0]
          /\ killed' = killed \cup {t}
       \/ /\ item.state \notin {"gone", "done", "rejected"} /\ ~item.file
          /\ IF tab[t].pc = "idle"
             THEN Remove /\ killed' = killed \ {t}
             ELSE killed' = killed \cup {t} /\ UNCHANGED item
    /\ UNCHANGED <<tab, serverVars, slips, wanted>>

\* dismiss, and the clean-up of finished records at start.
Dismiss ==
    /\ item.state \in {"done", "rejected"}
    /\ Remove
    /\ wanted' = (wanted /\ item.state = "done")
    /\ UNCHANGED <<killed, tab, asking, serverVars, slips>>

\* A tab is closed or reloaded.
CloseTab(t) ==
    /\ Slip
    /\ tab[t].pc # "idle" \/ t \in killed \/ t \in asking
    /\ Stop(t)
    /\ killed' = killed \ {t} /\ asking' = asking \ {t}
    /\ UNCHANGED <<item, serverVars, wanted>>

-----------------------------------------------------------------------------
(* The server: finalisation, and the sweep of an abandoned upload. *)

Finalise ==
    /\ finalise
    /\ finalise' = FALSE
    /\ server' \in IF server = "PENDING" THEN {IF stored THEN "AVAILABLE" ELSE "REJECTED", "REJECTED"}
                   ELSE {server}
    /\ stored' = FALSE
    /\ UNCHANGED <<item, killed, tab, asking, slips, wanted>>

Sweep ==
    /\ server = "PENDING"
    /\ Slip
    /\ server' = "REJECTED" /\ stored' = FALSE
    /\ UNCHANGED <<item, killed, tab, asking, finalise, wanted>>

-----------------------------------------------------------------------------
(* A run of the engine. *)

\* fail: a final code gives the photo up; an interruption that is not the
\* photo's fault keeps it queued; otherwise an attempt is spent.
Rejected(i) == [i EXCEPT !.state = "rejected", !.blob = FALSE]
Requeued(i) == [i EXCEPT !.state = "queued"]
Retried(i, n) == [i EXCEPT !.state = IF n + 1 >= MaxAttempts THEN "failed" ELSE "queued", !.attempts = n + 1]
Done(i) == [i EXCEPT !.state = "done", !.blob = FALSE]

\* A call of the run fails: refused for good, interrupted, or worth a retry.
Fails(t) ==
    /\ Slip
    /\ \E i \in {Rejected(item), Requeued(item), Retried(item, tab[t].copy.attempts)} : Patch(t, i)
    /\ Stop(t)

\* startItem, behind the photo's lock.
Start(t) ==
    /\ item.state \in ActiveStates
    /\ \A u \in Tabs : tab[u].pc = "idle"
    /\ GoOn(t, "get")
    /\ UNCHANGED <<item, killed, asking, serverVars, slips, wanted>>

\* Mutant: a photo whose upload is done is not taken up again after a reload.
Get_UploadsOnly(t) ==
    /\ tab[t].pc = "get"
    /\ \/ /\ item.state \in {"gone", "done", "rejected", "failed", "processing"}
          /\ Stop(t)
          /\ UNCHANGED <<item, killed>>
       \/ /\ item.state \in {"queued", "uploading", "cancelling"} /\ t \in killed /\ ~item.file
          /\ Remove /\ killed' = killed \ {t}
          /\ Stop(t)
       \/ /\ item.state = "cancelling" /\ item.file
          /\ Take(t, "cancel", item)
          /\ UNCHANGED <<item, killed>>
       \/ /\ item.state \in {"queued", "uploading"} /\ t \notin killed
          /\ IF item.blob THEN Take(t, "init", item) /\ UNCHANGED item
             ELSE Update(Rejected(item)) /\ Stop(t)
          /\ UNCHANGED killed
    /\ UNCHANGED <<asking, serverVars, slips, wanted>>

\* run: from the stored record, which may have changed since it was listed.
Get(t) ==
    /\ tab[t].pc = "get"
    /\ \/ /\ item.state \in {"gone", "done", "rejected", "failed"}
          /\ Stop(t)
          /\ UNCHANGED <<item, killed>>
       \/ /\ item.state \in ActiveStates /\ t \in killed /\ ~item.file
          /\ Remove /\ killed' = killed \ {t}
          /\ Stop(t)
       \/ /\ item.state = "cancelling" /\ item.file
          /\ Take(t, "cancel", item)
          /\ UNCHANGED <<item, killed>>
       \/ /\ item.state \in {"queued", "uploading"} /\ t \in killed /\ item.file
          /\ Stop(t)
          /\ UNCHANGED <<item, killed>>
       \/ /\ item.state \in {"queued", "uploading"} /\ t \notin killed
          /\ IF item.blob THEN Take(t, "init", item) /\ UNCHANGED item
             ELSE Update(Rejected(item)) /\ Stop(t)
          /\ UNCHANGED killed
       \/ /\ item.state = "processing" /\ (t \in killed => item.file)
          /\ Take(t, "complete", item)
          /\ UNCHANGED <<item, killed>>
    /\ UNCHANGED <<asking, serverVars, slips, wanted>>

\* init is idempotent: the first call records the file, later ones return it.
InitAnswered(t) ==
    LET known == [item EXCEPT !.state = "uploading", !.file = TRUE] IN
    /\ tab[t].pc = "init"
    /\ server' = IF server = "NONE" THEN "PENDING" ELSE server
    /\ \/ /\ t \in killed
          /\ Take(t, "cancel", [tab[t].copy EXCEPT !.file = TRUE])
          /\ UNCHANGED item
       \/ /\ t \notin killed
          /\ \/ server' = "PENDING" /\ Update(known) /\ GoOn(t, "put")
             \/ server' = "AVAILABLE" /\ Update(Done(known)) /\ Stop(t)
             \/ server' = "REJECTED" /\ Update(Rejected(known)) /\ Stop(t)
    /\ UNCHANGED <<killed, asking, stored, finalise, slips, wanted>>

\* The answer is lost, or is a refusal; the file may have been recorded.
InitFails(t) ==
    /\ tab[t].pc = "init"
    /\ server' \in {server, IF server = "NONE" THEN "PENDING" ELSE server}
    /\ \/ /\ t \in killed
          /\ Slip /\ Remove /\ Stop(t)
          /\ killed' = killed \ {t}
       \/ t \notin killed /\ Fails(t) /\ UNCHANGED killed
    /\ UNCHANGED <<asking, stored, finalise, wanted>>

\* Mutant: the photo is dropped from the phone once it is uploaded.
PutStored_DropsBlob(t) ==
    /\ tab[t].pc = "put"
    /\ stored' = TRUE
    /\ IF t \in killed THEN Stop(t) /\ UNCHANGED item
       ELSE Update([item EXCEPT !.state = "processing", !.blob = FALSE]) /\ GoOn(t, "fresh")
    /\ UNCHANGED <<killed, asking, server, finalise, slips, wanted>>

\* The PUT: stored and then finalised, aborted by a cancellation, refused with a
\* 403 that is worth one fresh init, or failed, perhaps after it was stored.
PutStored(t) ==
    /\ tab[t].pc = "put"
    /\ stored' = TRUE
    /\ IF t \in killed THEN Stop(t) /\ UNCHANGED item
       ELSE Update([item EXCEPT !.state = "processing"]) /\ GoOn(t, "fresh")
    /\ UNCHANGED <<killed, asking, server, finalise, slips, wanted>>

PutAborted(t) ==
    /\ tab[t].pc = "put" /\ t \in killed
    /\ Stop(t)
    /\ UNCHANGED <<item, killed, asking, serverVars, slips, wanted>>

PutRefused(t) ==
    LET again == tab[t].copy.reinits + 1 IN
    /\ tab[t].pc = "put" /\ t \notin killed
    /\ tab[t].copy.reinits < 1
    /\ Slip
    /\ Update([item EXCEPT !.reinits = again])
    /\ tab' = [tab EXCEPT ![t].pc = "init", ![t].copy.reinits = again]
    /\ UNCHANGED <<killed, asking, serverVars, wanted>>

PutFails(t) ==
    /\ tab[t].pc = "put" /\ t \notin killed
    /\ stored' \in {stored, TRUE}
    /\ Fails(t)
    /\ UNCHANGED <<killed, asking, server, finalise, wanted>>

\* The record again, after the upload.
Fresh(t) ==
    /\ tab[t].pc = "fresh"
    /\ IF item.state = "processing" /\ t \notin killed THEN Take(t, "complete", item) ELSE Stop(t)
    /\ UNCHANGED <<item, killed, asking, serverVars, slips, wanted>>

\* complete: queues the finalisation; without the object, upload once more.
Complete(t) ==
    LET mine == tab[t].copy IN
    /\ tab[t].pc = "complete"
    /\ \/ /\ server # "PENDING" \/ stored
          /\ finalise' = (finalise \/ server = "PENDING")
          /\ GoOn(t, "poll")
          /\ UNCHANGED item
       \/ /\ server = "PENDING" /\ ~stored
          /\ Patch(t, IF mine.reinits < MaxReinits
                      THEN [item EXCEPT !.state = "queued", !.reinits = mine.reinits + 1]
                      ELSE Rejected(item))
          /\ Stop(t)
          /\ UNCHANGED finalise
    /\ UNCHANGED <<killed, asking, server, stored, slips, wanted>>

\* Polling the status, until the deadline; a cancellation ends it.
Poll(t) ==
    /\ tab[t].pc = "poll"
    /\ \/ t \in killed /\ UNCHANGED item
       \/ server = "AVAILABLE" /\ Patch(t, Done(item))
       \/ server = "REJECTED" /\ Patch(t, Rejected(item))
       \/ server = "PENDING" /\ Patch(t, [item EXCEPT !.state = "processing"])
    /\ Stop(t)
    /\ UNCHANGED <<killed, asking, serverVars, slips, wanted>>

CallFails(t) ==
    /\ tab[t].pc \in {"complete", "poll"}
    /\ Fails(t)
    /\ finalise' \in {finalise, finalise \/ (tab[t].pc = "complete" /\ server = "PENDING" /\ stored)}
    /\ UNCHANGED <<killed, asking, server, stored, wanted>>

\* remoteCancel: the route reads the file and then compares and sets it.  A file
\* it finds published, or no longer PENDING at the second look, is reported as
\* finished.
Cancelled(t) == Remove /\ killed' = killed \ {t}

CancelRead(t) ==
    /\ tab[t].pc = "cancel"
    /\ \/ server = "PENDING" /\ GoOn(t, "cancelCas") /\ UNCHANGED <<item, killed>>
       \/ server = "REJECTED" /\ Cancelled(t) /\ Stop(t)
       \/ server = "AVAILABLE" /\ Update(Done(item)) /\ killed' = killed \ {t} /\ Stop(t)
    /\ UNCHANGED <<asking, serverVars, slips, wanted>>

CancelCas(t) ==
    /\ tab[t].pc = "cancelCas"
    /\ \/ server = "PENDING" /\ server' = "REJECTED" /\ Cancelled(t)
       \/ server # "PENDING" /\ Update(Done(item)) /\ killed' = killed \ {t} /\ UNCHANGED server
    /\ Stop(t)
    /\ UNCHANGED <<asking, stored, finalise, slips, wanted>>

\* Forbidden and unknown remove the record; so does the attempt budget.
CancelFails(t) ==
    LET n == tab[t].copy.attempts + 1 IN
    /\ tab[t].pc \in {"cancel", "cancelCas"}
    /\ Slip
    /\ server' \in {server, IF tab[t].pc = "cancelCas" /\ server = "PENDING" THEN "REJECTED" ELSE server}
    /\ \/ Cancelled(t)
       \/ /\ n < MaxAttempts
          /\ Update([item EXCEPT !.state = "cancelling", !.blob = FALSE, !.attempts = n])
          /\ UNCHANGED killed
    /\ Stop(t)
    /\ UNCHANGED <<asking, stored, finalise, wanted>>

Run(t) ==
    \/ Get(t) \/ InitAnswered(t) \/ PutStored(t) \/ PutAborted(t) \/ Fresh(t) \/ Complete(t) \/ Poll(t)
    \/ CancelRead(t) \/ CancelCas(t)

Trouble(t) == InitFails(t) \/ PutRefused(t) \/ PutFails(t) \/ CallFails(t) \/ CancelFails(t)

Next ==
    \/ Enqueue \/ Retry \/ Dismiss \/ Finalise \/ Sweep
    \/ \E t \in Tabs : AskCancel(t) \/ Cancel(t) \/ CloseTab(t) \/ Start(t) \/ Run(t) \/ Trouble(t)

Spec == Init /\ [][Next]_vars

\* A timer starts whatever is due and every call answers or times out; the
\* server finalises what is queued.  Nothing is assumed of the person or of
\* failures.
FairSpec ==
    /\ Spec
    /\ WF_vars(\E t \in Tabs : Start(t) \/ Run(t))
    /\ WF_vars(Finalise)

-----------------------------------------------------------------------------

\* The phone drops the photo only when the server has it as evidence, when it
\* was refused for good, or when the person gave it up: no interleaving of
\* tabs, reloads, lost answers and sweeps loses the only copy.
PhotoKept ==
    wanted => \/ item.state \in {"none", "rejected"}
              \/ item.blob
              \/ server = "AVAILABLE"

\* A photo in the queue is settled in the end, or waits for a person: published,
\* refused, out of attempts, or given up.
PhotoSettles ==
    (item.state \in ActiveStates /\ wanted) ~> ~(item.state \in ActiveStates /\ wanted)

=============================================================================
