------------------------------ MODULE Billing ------------------------------
(***************************************************************************)
(* The Stripe webhook of one workspace (apps/api/src/routes/billing.ts,    *)
(* packages/backend-core/src/lib/billingEntitlements.ts).  Stripe delivers *)
(* each event at least once, in any order, several at a time; the handler  *)
(* claims the event id and applies the event in one SERIALIZABLE           *)
(* transaction, tried at most three times.                                 *)
(***************************************************************************)
EXTENDS Naturals, Sequences, FiniteSets

CONSTANTS
    Handlers,  \* webhook requests under way at a time
    Subs,      \* subscriptions the workspace has had
    NoSub,
    MaxEvents, \* bound: events Stripe creates
    MaxFaults  \* bound: transactions the database breaks off

VARIABLES
    events,    \* Stripe: the events, in the order of creation
    live,      \* Stripe: the subscriptions that run
    ws,        \* the workspace: sub, status, grace, last (the plan is left out)
    processed, \* ProcessedStripeEvent: ids of events
    applied,   \* events applied, in the order of their commits
    request,   \* each request: where, event, attempt, and its snapshot
    dunned,    \* reminders sent, per event
    breaks     \* faults so far

billingVars == <<events, live, ws, processed, applied, request, dunned, breaks>>

\* "unpaid" is any status of a subscription that neither pays nor is past due.
SubStatuses == {"active", "past_due", "unpaid"}
Types == {"checkout", "updated", "deleted", "failed"}
Events == [type : Types, sub : Subs, status : SubStatuses, created : 1 .. MaxEvents]
Workspaces ==
    [sub : Subs \cup {NoSub}, status : SubStatuses \cup {"none", "canceled"},
     grace : 0 .. MaxEvents, last : 0 .. MaxEvents]

Idle == [at |-> "idle"]

TypeOK ==
    /\ events \in Seq(Events) /\ Len(events) <= MaxEvents
    /\ live \subseteq Subs
    /\ ws \in Workspaces
    /\ processed \subseteq DOMAIN events
    /\ applied \in Seq(processed)
    /\ \A h \in Handlers : request[h].at \in {"idle", "wait", "apply", "again", "after"}
    /\ dunned \in [1 .. MaxEvents -> Nat]

Init ==
    /\ events = <<>> /\ live = {}
    /\ ws = [sub |-> NoSub, status |-> "none", grace |-> 0, last |-> 0]
    /\ processed = {} /\ applied = <<>>
    /\ request = [h \in Handlers |-> Idle]
    /\ dunned = [e \in 1 .. MaxEvents |-> 0]
    /\ breaks = 0

-----------------------------------------------------------------------------
(* Stripe.  Times are whole seconds, so two events may share one.  The     *)
(* history is complete before its first delivery: any delivery may be late *)
(* or never come, so this loses no order of deliveries.                    *)

LastCreated == IF events = <<>> THEN 1 ELSE events[Len(events)].created

Emit(type, s, status) ==
    /\ Len(events) < MaxEvents
    /\ processed = {} /\ breaks = 0 /\ \A h \in Handlers : request[h] = Idle
    /\ \E t \in {LastCreated, LastCreated + 1} :
          /\ t <= MaxEvents
          /\ events' = Append(events, [type |-> type, sub |-> s, status |-> status, created |-> t])
    /\ UNCHANGED <<ws, processed, applied, request, dunned, breaks>>

Happen(s) ==
    \/ /\ live = {} /\ \A i \in DOMAIN events : events[i].sub # s
       /\ live' = {s}
       /\ Emit("checkout", s, "active")
    \/ /\ s \in live
       /\ \/ \E status \in SubStatuses : Emit("updated", s, status)
          \/ Emit("failed", s, "past_due")
       /\ UNCHANGED live
    \/ /\ s \in live
       /\ live' = {}
       /\ Emit("deleted", s, "unpaid")

-----------------------------------------------------------------------------
(* The webhook. *)

\* An open claim of another request on the same event.
ClaimedElsewhere(h, e) ==
    \E g \in Handlers \ {h} : request[g].at = "apply" /\ request[g].event = e

\* The transaction begins with the insert of the event id: it reads the database
\* as it is now, and waits for an open claim on that id.
Begin(h, e, n) ==
    request' = [request EXCEPT ![h] =
        [at |-> IF ClaimedElsewhere(h, e) THEN "wait" ELSE "apply",
         event |-> e, attempt |-> n, ws |-> ws, version |-> Len(applied)]]

\* A delivery; one of an event whose claim is committed (P2002) changes nothing.
Receive(h) ==
    /\ request[h].at = "idle"
    /\ \E e \in DOMAIN events \ processed : Begin(h, e, 1)
    /\ UNCHANGED <<events, live, ws, processed, applied, dunned, breaks>>

\* The open claim is decided: committed, this delivery is a duplicate; rolled
\* back, the claim is this one's.
Claim(h) ==
    /\ request[h].at = "wait" /\ ~ClaimedElsewhere(h, request[h].event)
    /\ request' = [request EXCEPT ![h] =
          IF request[h].event \in processed THEN Idle ELSE [@ EXCEPT !.at = "apply"]]
    /\ UNCHANGED <<events, live, ws, processed, applied, dunned, breaks>>

\* isStaleStripeEvent
Stale(e, w) == w.last # 0 /\ e.created < w.last

\* graceFor and graceUntilAfterPastDue: a deadline is named by the event that set it.
GraceFor(status, w, id) ==
    CASE status = "past_due" -> IF w.grace = 0 THEN id ELSE w.grace
      [] status = "active"   -> 0
      [] OTHER               -> w.grace

\* The row handleWebhookEvent writes for an event.
Updated(e, w, id) ==
    CASE e.type = "checkout" ->
            [w EXCEPT !.sub = e.sub, !.status = "active", !.grace = 0, !.last = e.created]
      [] e.type = "updated" ->
            [w EXCEPT !.status = e.status, !.grace = GraceFor(e.status, w, id), !.last = e.created]
      [] e.type = "deleted" ->
            [w EXCEPT !.sub = NoSub, !.status = "canceled", !.grace = 0, !.last = e.created]
      [] e.type = "failed" ->
            [w EXCEPT !.status = "past_due", !.grace = GraceFor("past_due", w, id), !.last = e.created]

\* The event concerns the workspace of the snapshot and is not stale.
Applies(h) ==
    LET e == events[request[h].event]
        w == request[h].ws
    IN  /\ e.type = "checkout" \/ w.sub = e.sub
        /\ ~Stale(e, w)

\* Mutant: the default isolation level.
Conflict_ReadCommitted(h) == FALSE

\* SERIALIZABLE: the row was written since the snapshot (P2034).
Conflict(h) == request[h].version # Len(applied)

\* An event of no known subscription, or a stale one, commits its claim only.
Ignore(h) ==
    /\ request[h].at = "apply" /\ ~Applies(h)
    /\ processed' = processed \cup {request[h].event}
    /\ request' = [request EXCEPT ![h] = Idle]
    /\ UNCHANGED <<events, live, ws, applied, dunned, breaks>>

\* applyBillingEvent and the commit.
Apply(h) ==
    /\ request[h].at = "apply" /\ Applies(h) /\ ~Conflict(h)
    /\ LET id == request[h].event
           e == events[id]
       IN  /\ ws' = Updated(e, request[h].ws, id)
           /\ processed' = processed \cup {id}
           /\ applied' = Append(applied, id)
           /\ request' = [request EXCEPT ![h] = IF e.type = "failed" THEN [@ EXCEPT !.at = "after"] ELSE Idle]
    /\ UNCHANGED <<events, live, dunned, breaks>>

\* A conflict rolls back and is tried again twice, then left to Stripe.
Retry(h) ==
    /\ request[h].at = "apply" /\ Applies(h) /\ Conflict(h)
    /\ request' = [request EXCEPT ![h] = IF @.attempt < 3 THEN [@ EXCEPT !.at = "again"] ELSE Idle]
    /\ UNCHANGED <<events, live, ws, processed, applied, dunned, breaks>>

Again(h) ==
    /\ request[h].at = "again"
    /\ IF request[h].event \in processed
       THEN request' = [request EXCEPT ![h] = Idle]
       ELSE Begin(h, request[h].event, request[h].attempt + 1)
    /\ UNCHANGED <<events, live, ws, processed, applied, dunned, breaks>>

\* Any other error rolls back; the process may also die after the commit.
Break(h) ==
    /\ request[h].at \in {"apply", "after"} /\ breaks < MaxFaults
    /\ breaks' = breaks + 1
    /\ request' = [request EXCEPT ![h] = Idle]
    /\ UNCHANGED <<events, live, ws, processed, applied, dunned>>

\* The action after the commit: the owner is asked to pay.
Dun(h) ==
    /\ request[h].at = "after"
    /\ dunned' = [dunned EXCEPT ![request[h].event] = @ + 1]
    /\ request' = [request EXCEPT ![h] = Idle]
    /\ UNCHANGED <<events, live, ws, processed, applied, breaks>>

Next ==
    \/ \E s \in Subs : Happen(s)
    \/ \E h \in Handlers :
          Receive(h) \/ Claim(h) \/ Ignore(h) \/ Apply(h) \/ Retry(h) \/ Again(h) \/ Break(h) \/ Dun(h)

-----------------------------------------------------------------------------
(* Properties. *)

PastDue(e) == e.type = "failed" \/ (e.type = "updated" /\ e.status = "past_due")
Clears(e)  == e.type \in {"checkout", "deleted"} \/ (e.type = "updated" /\ e.status = "active")

\* The applied events since the workspace last paid that found it past due.
Arrears ==
    {i \in DOMAIN applied : /\ PastDue(events[applied[i]])
                            /\ \A k \in i .. Len(applied) : ~Clears(events[applied[k]])}

\* The workspace is what Stripe's events say, applied in the order of their
\* creation and each once, however they were delivered, repeated, retried and
\* interleaved: the newest one decides the status, a deadline is the one of
\* the first failure, and a reminder goes out once and for an applied event.
BillingFollowsStripe ==
    /\ \A i, k \in DOMAIN applied : i < k =>
          applied[i] # applied[k] /\ events[applied[i]].created <= events[applied[k]].created
    /\ applied # <<>> =>
          LET e == events[applied[Len(applied)]]
          IN  /\ ws.last = e.created
              /\ ws.status = CASE e.type = "deleted" -> "canceled" [] OTHER -> e.status
              /\ ws.sub = IF e.type = "deleted" THEN NoSub ELSE e.sub
    /\ IF Arrears = {} THEN ws.grace = 0
       ELSE ws.grace = applied[CHOOSE i \in Arrears : \A k \in Arrears : i <= k]
    /\ \A e \in 1 .. MaxEvents : dunned[e] <= 1 /\ (dunned[e] = 1 => \E i \in DOMAIN applied : applied[i] = e)
=============================================================================
