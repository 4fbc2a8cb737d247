----------------------------- MODULE InboxReply -----------------------------
(***************************************************************************)
(* Human replies on one thread (apps/api/src/routes/inbox.ts): the send    *)
(* route with its client-generated idempotency key, and the route with     *)
(* which a person settles a reply whose outcome is unknown.                *)
(*                                                                         *)
(* The claim is serialised by a lock on the thread's row; every other      *)
(* action is the code between two awaits.  A request may die anywhere      *)
(* after its claim, and any write after it may fail.                       *)
(***************************************************************************)
EXTENDS Naturals, FiniteSets

CONSTANTS
    Keys,        \* idempotency keys, one per compose session
    NoKey,       \* not a key
    Requests,    \* calls of the send route that may run at the same time
    People,      \* people who may settle an unknown outcome
    MaxAttempts, \* bound: claims of one key
    MaxFaults    \* bound: failing writes and dying requests

VARIABLES
    row,     \* InboxReplySend.status per key; "NONE" without a row
    fresh,   \* is attemptedAt inside the in-flight window
    events,  \* SENT events of the contact ledger, per key
    req,     \* the requests
    person,  \* the people
    attempt, \* claims made with the key
    faults,  \* failing writes and deaths so far
    out,     \* history: replies the SMTP server accepted, per key
    lost,    \* history: keys whose ledger event failed to be written
    unheard, \* history: keys whose acceptance the server's answer did not bring back
    stale    \* history: a write meant for one attempt hit a later one

rowVars   == <<row, fresh, events, attempt>>
ghostVars == <<out, lost, unheard, stale>>
vars == <<rowVars, req, person, faults, ghostVars>>

Statuses == {"NONE", "SENDING", "SENT", "FAILED"}

Away == [pc |-> "idle", key |-> NoKey, prior |-> "NONE", try |-> 0]

TypeOK ==
    /\ row \in [Keys -> Statuses]
    /\ fresh \in [Keys -> BOOLEAN]
    /\ events \in [Keys -> Nat]
    /\ req \in [Requests -> [pc : {"idle", "authorize", "send", "refused", "finalise", "fallback"},
                             key : Keys \cup {NoKey}, prior : Statuses, try : Nat]]
    /\ person \in [People -> [pc : {"idle", "sent", "not_sent"}, key : Keys \cup {NoKey}, try : Nat]]
    /\ attempt \in [Keys -> Nat]
    /\ faults \in Nat
    /\ out \in [Keys -> Nat]
    /\ lost \subseteq Keys
    /\ unheard \subseteq Keys
    /\ stale \in BOOLEAN

Unasked == [pc |-> "idle", key |-> NoKey, try |-> 0]

Init ==
    /\ row = [k \in Keys |-> "NONE"]
    /\ fresh = [k \in Keys |-> FALSE]
    /\ events = [k \in Keys |-> 0]
    /\ req = [r \in Requests |-> Away]
    /\ person = [p \in People |-> Unasked]
    /\ attempt = [k \in Keys |-> 0]
    /\ faults = 0
    /\ out = [k \in Keys |-> 0]
    /\ lost = {}
    /\ unheard = {}
    /\ stale = FALSE

MayFail == faults < MaxFaults

GoTo(r, pc) == req' = [req EXCEPT ![r].pc = pc]
End(r)      == req' = [req EXCEPT ![r] = Away]

-----------------------------------------------------------------------------
(* POST /reply/:replyId/send *)

\* The prior row of the key: an answer when SENT, an error when SENDING.
ReadPrior(r, k) ==
    /\ req[r].pc = "idle"
    /\ row[k] \in {"NONE", "FAILED"}
    /\ req' = [req EXCEPT ![r] = [pc |-> "authorize", key |-> k, prior |-> row[k], try |-> 0]]
    /\ UNCHANGED <<rowVars, person, faults, ghostVars>>

\* Mutant: only a send inside the in-flight window blocks the thread.
ThreadBusy_FreshOnly == \E k \in Keys : row[k] = "SENDING" /\ fresh[k]

\* Any row SENDING blocks the thread.
ThreadBusy == \E k \in Keys : row[k] = "SENDING"

\* The gates refuse, the thread is busy, or the key was used meanwhile.
Refuse(r) ==
    /\ req[r].pc = "authorize"
    /\ End(r)
    /\ UNCHANGED <<rowVars, person, faults, ghostVars>>

\* Mutant: the reclaim does not compare the row with the one that was read.
Claim_NoCompareAndSet(r) ==
    LET k == req[r].key IN
    /\ req[r].pc = "authorize"
    /\ ~ThreadBusy
    /\ attempt[k] < MaxAttempts
    /\ row' = [row EXCEPT ![k] = "SENDING"]
    /\ fresh' = [fresh EXCEPT ![k] = TRUE]
    /\ attempt' = [attempt EXCEPT ![k] = @ + 1]
    /\ req' = [req EXCEPT ![r].pc = "send", ![r].try = attempt[k] + 1]
    /\ UNCHANGED <<events, person, faults, ghostVars>>

\* The claim: lock the thread, look for an open send, then reclaim the FAILED
\* row that was read or create the first one (the key is unique).
Claim(r) ==
    LET k == req[r].key IN
    /\ req[r].pc = "authorize"
    /\ ~ThreadBusy
    /\ row[k] = req[r].prior
    /\ attempt[k] < MaxAttempts
    /\ row' = [row EXCEPT ![k] = "SENDING"]
    /\ fresh' = [fresh EXCEPT ![k] = TRUE]
    /\ attempt' = [attempt EXCEPT ![k] = @ + 1]
    /\ req' = [req EXCEPT ![r].pc = "send", ![r].try = attempt[k] + 1]
    /\ UNCHANGED <<events, person, faults, ghostVars>>

\* The SMTP server takes the message.
Accepted(r) ==
    /\ req[r].pc = "send"
    /\ out' = [out EXCEPT ![req[r].key] = @ + 1]
    /\ GoTo(r, "finalise")
    /\ UNCHANGED <<rowVars, person, faults, lost, unheard, stale>>

\* The SMTP server, or the connection to it, refuses the message.
Rejected(r) ==
    /\ req[r].pc = "send"
    /\ GoTo(r, "refused")
    /\ UNCHANGED <<rowVars, person, faults, ghostVars>>

\* The server takes the message and the connection breaks before its answer:
\* the route sees an error.
AcceptedUnheard(r) ==
    LET k == req[r].key IN
    /\ MayFail /\ faults' = faults + 1
    /\ req[r].pc = "send"
    /\ out' = [out EXCEPT ![k] = @ + 1]
    /\ unheard' = unheard \cup {k}
    /\ GoTo(r, "refused")
    /\ UNCHANGED <<rowVars, person, lost, stale>>

\* A write of attempt n whose WHERE clause finds the row SENDING.
Hits(k, n) == stale' = (stale \/ (row[k] = "SENDING" /\ attempt[k] # n))

\* The row becomes FAILED if it still is SENDING; a failure to write is swallowed.
RecordRejected(r) ==
    LET k == req[r].key IN
    /\ req[r].pc = "refused"
    /\ row' = IF row[k] = "SENDING" THEN [row EXCEPT ![k] = "FAILED"] ELSE row
    /\ Hits(k, req[r].try)
    /\ End(r)
    /\ UNCHANGED <<fresh, events, attempt, person, faults, out, lost, unheard>>

\* The finalising transaction: SENT whatever the row says, and the ledger event.
Finalise(r) ==
    LET k == req[r].key IN
    /\ req[r].pc = "finalise"
    /\ row' = [row EXCEPT ![k] = "SENT"]
    /\ events' = [events EXCEPT ![k] = @ + 1]
    /\ Hits(k, req[r].try)
    /\ End(r)
    /\ UNCHANGED <<fresh, attempt, person, faults, out, lost, unheard>>

FinaliseFails(r) ==
    /\ MayFail /\ faults' = faults + 1
    /\ req[r].pc = "finalise"
    /\ GoTo(r, "fallback")
    /\ UNCHANGED <<rowVars, person, ghostVars>>

\* Mutant: the fallback saves the status and leaves the event out.
Fallback_NoEvent(r) ==
    LET k == req[r].key IN
    /\ req[r].pc = "fallback"
    /\ row' = IF row[k] = "SENDING" THEN [row EXCEPT ![k] = "SENT"] ELSE row
    /\ Hits(k, req[r].try)
    /\ End(r)
    /\ UNCHANGED <<fresh, events, attempt, person, faults, out, lost, unheard>>

\* The fallback: the status alone if the row still is SENDING, then the event,
\* whose failure is swallowed.
Fallback(r) ==
    LET k == req[r].key IN
    /\ req[r].pc = "fallback"
    /\ IF row[k] = "SENDING"
       THEN /\ row' = [row EXCEPT ![k] = "SENT"]
            /\ \/ events' = [events EXCEPT ![k] = @ + 1] /\ UNCHANGED <<faults, lost>>
               \/ /\ MayFail /\ faults' = faults + 1
                  /\ lost' = lost \cup {k}
                  /\ UNCHANGED events
       ELSE UNCHANGED <<row, events, faults, lost>>
    /\ Hits(k, req[r].try)
    /\ End(r)
    /\ UNCHANGED <<fresh, attempt, person, out, unheard>>

\* The process dies, or the last write it tries fails: the row stays as it is.
Abandon(r) ==
    /\ MayFail /\ faults' = faults + 1
    /\ req[r].pc \in {"send", "refused", "finalise", "fallback"}
    /\ End(r)
    /\ UNCHANGED <<rowVars, person, ghostVars>>

-----------------------------------------------------------------------------
(* POST /reply/:replyId/sends/:sendId/resolve *)

\* The in-flight window is longer than any SMTP exchange; a database write that
\* follows the exchange may outlast it.
WindowPasses(k) ==
    /\ row[k] = "SENDING" /\ fresh[k]
    /\ \A r \in Requests : ~(req[r].pc = "send" /\ req[r].key = k)
    /\ fresh' = [fresh EXCEPT ![k] = FALSE]
    /\ UNCHANGED <<row, events, attempt, req, person, faults, ghostVars>>

\* The route reads the row; the person has looked in the mailbox's Sent folder.
Look(p, k) ==
    /\ person[p].pc = "idle"
    /\ row[k] = "SENDING" /\ ~fresh[k]
    /\ person' = [person EXCEPT ![p] = [pc |-> IF out[k] > 0 THEN "sent" ELSE "not_sent",
                                        key |-> k, try |-> attempt[k]]]
    /\ UNCHANGED <<rowVars, req, faults, ghostVars>>

\* One transaction: the update if the row still is SENDING; for 'sent' also the
\* event, which is written even when the update found nothing.
Resolve(p) ==
    LET k == person[p].key IN
    /\ person[p].pc # "idle"
    /\ row' = IF row[k] # "SENDING" THEN row
              ELSE [row EXCEPT ![k] = IF person[p].pc = "sent" THEN "SENT" ELSE "FAILED"]
    /\ events' = IF person[p].pc = "sent" THEN [events EXCEPT ![k] = @ + 1] ELSE events
    /\ Hits(k, person[p].try)
    /\ person' = [person EXCEPT ![p] = Unasked]
    /\ UNCHANGED <<fresh, attempt, req, faults, out, lost, unheard>>

Next ==
    \/ \E r \in Requests :
          \/ \E k \in Keys : ReadPrior(r, k)
          \/ Refuse(r) \/ Claim(r) \/ Accepted(r) \/ AcceptedUnheard(r)
          \/ Rejected(r) \/ RecordRejected(r)
          \/ Finalise(r) \/ FinaliseFails(r) \/ Fallback(r) \/ Abandon(r)
    \/ \E k \in Keys : WindowPasses(k)
    \/ \E p \in People : Resolve(p) \/ \E k \in Keys : Look(p, k)

Spec == Init /\ [][Next]_vars

-----------------------------------------------------------------------------

\* One reply leaves per key however often the client retries, dies or asks a
\* person to settle, and a row that is FAILED, which a retry may send again,
\* stands for no message.  Excused: an acceptance the answer did not bring back,
\* and a write that landed on a later attempt than the one it was meant for.
OneReplyPerKey ==
    ~stale => \A k \in Keys \ unheard : /\ out[k] <= 1
                                        /\ row[k] = "FAILED" => out[k] = 0

\* At most one reply of the thread is open, and it is the one in its SMTP
\* exchange if any is: a fresh key cannot send while an outcome is unknown.
OneSendPerThread ==
    /\ \A k, l \in Keys : row[k] = "SENDING" /\ row[l] = "SENDING" => k = l
    /\ ~stale => \A r \in Requests : req[r].pc = "send" =>
                    /\ row[req[r].key] = "SENDING"
                    /\ \A q \in Requests \ {r} : req[q].pc # "send"

\* A reply the database shows as sent was accepted by the server and is in the
\* contact ledger, except where writing the ledger event itself failed.
SentIsInTheLedger ==
    \A k \in Keys : row[k] = "SENT" => out[k] > 0 /\ (events[k] > 0 \/ k \in lost)

=============================================================================
