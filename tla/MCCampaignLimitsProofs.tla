----------------------- MODULE MCCampaignLimitsProofs -----------------------
(***************************************************************************)
(* Theorems about what bounds the sending: the caps of the second          *)
(* workspace, its billing and the circuit breaker, for any leads, jobs,    *)
(* subscriptions, requests, processes and calls.                           *)
(***************************************************************************)
EXTENDS MCCampaignLimits, FiniteSetTheorems, TLAPS

-----------------------------------------------------------------------------
(* A step of the whole is a step of each part or leaves it alone.          *)

limitsVars == <<focus, vars, billVars, breakVars>>
LimitsNext == ControlsStep \/ CapsStep \/ BillStep \/ BreakerStep

LEMMA EachPartSteps ==
    ASSUME [LimitsNext]_limitsVars
    PROVE  /\ focus' = focus
           /\ [Bill!Next]_billVars
           /\ [Breaker!Next]_breakVars
           /\ focus = "caps" => [Caps!Next]_vars
<1> USE DEF limitsVars
<1>1. CASE UNCHANGED limitsVars
  BY <1>1
<1>2. CASE ControlsStep
  BY <1>2 DEF ControlsStep
<1>3. CASE CapsStep
  BY <1>3 DEF CapsStep
<1>4. CASE BillStep
  BY <1>4 DEF BillStep
<1>5. CASE BreakerStep
  BY <1>5 DEF BreakerStep
<1>6. QED
  BY <1>1, <1>2, <1>3, <1>4, <1>5 DEF LimitsNext

-----------------------------------------------------------------------------
(* The caps: the second workspace runs a campaign send, of which           *)
(* CampaignSendProofs has the theorems.                                    *)

Workspace == INSTANCE CampaignSendProofs WITH
    Env <- CapsEnv, Leads <- CapsLeads, InitDrafts <- CapsDrafts,
    PageSize <- 3, DailyLimit <- 1, MonthlyLimit <- 1, MaxDay <- 2

\* The theorems' assumptions hold of the second workspace's constants.
LEMMA WorkspaceAssumptions ==
    /\ Workspace!ConstantsAssumption
    /\ Workspace!StagesAssumption
    /\ Workspace!DraftsAssumption
<1>1. Workspace!ConstantsAssumption
  BY ConstantsAssumption, CapsAssumption
     DEF Workspace!ConstantsAssumption, Workspace!IsFiniteSet, IsFiniteSet, EnvKinds, Workspace!EnvKinds
<1>2. Workspace!StagesAssumption
  BY StagesAssumption DEF Workspace!StagesAssumption, LeadStages, Workspace!LeadStages
<1>3. Workspace!DraftsAssumption
  BY CapsAssumption DEF Workspace!DraftsAssumption, DraftKinds, Workspace!DraftKinds
<1>4. QED
  BY <1>1, <1>2, <1>3

LEMMA SameNext == Caps!Next <=> Workspace!Next
<1>1. QED
  BY DEF Workspace!StartBatch, Caps!StartBatch, Workspace!AuthorizeBatch, Caps!AuthorizeBatch,
         Workspace!CheckCaps, Caps!CheckCaps, Workspace!LoadPage, Caps!LoadPage, Workspace!LoadSets,
         Caps!LoadSets, Workspace!PageDone, Caps!PageDone, Workspace!StopAtLead, Caps!StopAtLead,
         Workspace!TakeLead, Caps!TakeLead, Workspace!HoldDraft, Caps!HoldDraft, Workspace!Claim, Caps!Claim,
         Workspace!MeterAi, Caps!MeterAi, Workspace!CallModel, Caps!CallModel, Workspace!RefundAi,
         Caps!RefundAi, Workspace!Release, Caps!Release, Workspace!Send, Caps!Send, Workspace!RecordSent,
         Caps!RecordSent, Workspace!RecordFailed, Caps!RecordFailed, Workspace!Crash, Caps!Crash,
         Workspace!SetMission, Caps!SetMission, Workspace!Suppress, Caps!Suppress, Workspace!Research,
         Caps!Research, Workspace!Reply, Caps!Reply, Workspace!Bounce, Caps!Bounce, Workspace!SetStage,
         Caps!SetStage, Workspace!ReviewDraft, Caps!ReviewDraft, Workspace!RetryFailed, Caps!RetryFailed,
         Workspace!SweepStale, Caps!SweepStale, Workspace!NextDay, Caps!NextDay, Workspace!JobStep,
         Caps!JobStep, Workspace!Surroundings, Caps!Surroundings, Workspace!Next, Caps!Next,
         Workspace!dbVars, Caps!dbVars, Workspace!jobVars, Caps!jobVars, Workspace!ghostVars, Caps!ghostVars,
         Workspace!scanVars, Caps!scanVars, Workspace!CapUsed, Caps!CapUsed, Workspace!SlotFree,
         Caps!SlotFree, Workspace!MissionBlocks, Caps!MissionBlocks, Workspace!MissionMayPass,
         Caps!MissionMayPass, Workspace!Goto, Caps!Goto, Workspace!NextLead, Caps!NextLead,
         Workspace!EndBatch, Caps!EndBatch, Workspace!CopyOf, Caps!CopyOf, Workspace!Generates,
         Caps!Generates, Workspace!Skips, Caps!Skips, Workspace!Failed, Caps!Failed, Workspace!Stranded,
         Caps!Stranded, Workspace!NoRow, Caps!NoRow, Workspace!HandledStages, Caps!HandledStages,
         Workspace!Cardinality, Caps!Cardinality

\* A behaviour of the second workspace is one of the campaign send.
LEMMA WorkspaceRuns == LimitsSpec => [](~(focus = "caps")) \/ ([](focus = "caps") /\ Workspace!Spec)
<1>1. LimitsInit /\ focus = "caps" => Workspace!Init
  BY DEF LimitsInit, Caps!Init, Workspace!Init, Caps!NoRow, Workspace!NoRow
<1>2. /\ focus = "caps" /\ [LimitsNext]_limitsVars => (focus = "caps")'
      /\ ~(focus = "caps") /\ [LimitsNext]_limitsVars => ~(focus = "caps")'
  BY EachPartSteps
<1>3. focus = "caps" /\ [LimitsNext]_limitsVars => [Workspace!Next]_(Workspace!vars)
  <2>1. vars = Workspace!vars
    BY DEF vars, dbVars, jobVars, ghostVars, Workspace!vars, Workspace!dbVars, Workspace!jobVars, Workspace!ghostVars
  <2>2. QED
    BY <2>1, EachPartSteps, SameNext DEF vars, dbVars, jobVars, ghostVars,
       Workspace!vars, Workspace!dbVars, Workspace!jobVars, Workspace!ghostVars
<1>4. LimitsSpec => LimitsInit /\ [][LimitsNext]_limitsVars
  BY DEF LimitsSpec, LimitsNext, limitsVars
<1>5. QED
  BY <1>1, <1>2, <1>3, <1>4, PTL DEF Workspace!Spec

\* The day's rows exceed the daily cap at most by the messages the other jobs had
\* in flight (reserveDailySendSlot, checked at each claim).
THEOREM DailyCapStands == LimitsSpec => []DailyCapKept
<1>1. Workspace!Spec => []Workspace!DailyCapUpToMidnight
  BY Workspace!DailyCapHolds, WorkspaceAssumptions
<1>2. Workspace!DailyCapUpToMidnight => Caps!DailyCapUpToMidnight
  BY DEF Workspace!DailyCapUpToMidnight, Caps!DailyCapUpToMidnight, Workspace!Cardinality, Caps!Cardinality
<1>3. QED
  BY <1>1, <1>2, WorkspaceRuns, PTL DEF DailyCapKept

\* The monthly ceiling, looked at once per batch, is overshot by at most a day's
\* cap and the messages the other jobs have in flight (the monthly fast path).
THEOREM MonthlyCeilingStands == LimitsSpec => []MonthlyCeilingKept
<1>1. Workspace!Spec => []Workspace!MonthlyOvershootBounded
  BY Workspace!MonthlyCeilingHolds, WorkspaceAssumptions
<1>2. Workspace!MonthlyOvershootBounded => Caps!MonthlyOvershootBounded
  BY DEF Workspace!MonthlyOvershootBounded, Caps!MonthlyOvershootBounded, Workspace!Cardinality, Caps!Cardinality,
         Workspace!CapUsed, Caps!CapUsed
<1>3. QED
  BY <1>1, <1>2, WorkspaceRuns, PTL DEF MonthlyCeilingKept

-----------------------------------------------------------------------------
(* The circuit breaker. *)

\* Probes need the calls to have their places.
ProbeInv ==
    /\ at \in [Processes -> [Calls -> {"idle", "admit", "admitShared", "asked", "askedInOutage"}]]
    /\ probing \in [Processes -> BOOLEAN]
    /\ Breaker!ProbeHasACaller

LEMMA ProbeStep == ASSUME ProbeInv, [Breaker!Next]_breakVars PROVE ProbeInv'
<1> USE DEF ProbeInv, Breaker!ProbeHasACaller
<1>1. CASE UNCHANGED breakVars
  BY <1>1 DEF breakVars
<1>2. ASSUME NEW p \in Processes, NEW c \in Calls, Breaker!SyncFromStore(p, c) PROVE ProbeInv'
  BY <1>2 DEF Breaker!SyncFromStore, Breaker!Goto, Breaker!breakerVars
<1>3. ASSUME NEW p \in Processes, NEW c \in Calls, Breaker!Admit(p, c) PROVE ProbeInv'
  <2>1. at[p][c] \in {"admit", "admitShared"}
    BY <1>3 DEF Breaker!Admit
  <2>2. \/ Breaker!Goto(p, c, "idle") /\ UNCHANGED probing
        \/ Breaker!Ask(p, c) /\ (UNCHANGED probing \/ probing' = [probing EXCEPT ![p] = TRUE])
    BY <1>3 DEF Breaker!Admit, Breaker!Reject
  <2>3. CASE Breaker!Goto(p, c, "idle") /\ UNCHANGED probing
    BY <2>1, <2>3 DEF Breaker!Goto
  <2>4. CASE Breaker!Ask(p, c) /\ (UNCHANGED probing \/ probing' = [probing EXCEPT ![p] = TRUE])
    <3>1. PICK to \in {"asked", "askedInOutage"} : at' = [at EXCEPT ![p][c] = to]
      BY <2>4 DEF Breaker!Ask, Breaker!Goto
    <3>2. at'[p][c] = to
      BY <3>1
    <3>3. \A q \in Processes, d \in Calls : at'[q][d] = at[q][d] \/ (q = p /\ d = c)
      BY <3>1
    <3>4. probing' \in [Processes -> BOOLEAN] /\ \A q \in Processes : q # p => probing'[q] = probing[q]
      BY <2>4
    <3>5. \A q \in Processes : probing'[q] => \E d \in Calls : at'[q][d] \in {"asked", "askedInOutage"}
      BY <3>2, <3>3, <3>4
    <3>6. at' \in [Processes -> [Calls -> {"idle", "admit", "admitShared", "asked", "askedInOutage"}]]
      BY <3>1
    <3>7. QED
      BY <3>4, <3>5, <3>6
  <2>5. QED
    BY <2>2, <2>3, <2>4
<1>4. ASSUME NEW p \in Processes, NEW c \in Calls, Breaker!Succeed(p, c) \/ Breaker!Fail(p, c) PROVE ProbeInv'
  <2>1. at' = [at EXCEPT ![p][c] = "idle"] /\ probing' = [probing EXCEPT ![p] = FALSE]
    BY <1>4 DEF Breaker!Succeed, Breaker!Fail, Breaker!Goto
  <2>2. /\ probing' \in [Processes -> BOOLEAN] /\ ~probing'[p]
        /\ \A q \in Processes : q # p => probing'[q] = probing[q] /\ at'[q] = at[q]
    BY <2>1
  <2>3. \A q \in Processes : probing'[q] => \E d \in Calls : at'[q][d] \in {"asked", "askedInOutage"}
    BY <2>2
  <2>4. at' \in [Processes -> [Calls -> {"idle", "admit", "admitShared", "asked", "askedInOutage"}]]
    BY <2>1
  <2>5. QED
    BY <2>2, <2>3, <2>4
<1>5. CASE (\E p \in Processes : Breaker!Elapse(p)) \/ Breaker!Expire \/ Breaker!Outage \/ Breaker!Recover
  BY <1>5 DEF Breaker!Elapse, Breaker!Expire, Breaker!Outage, Breaker!Recover, Breaker!breakerVars
<1>6. QED
  BY <1>1, <1>2, <1>3, <1>4, <1>5 DEF Breaker!Next, Breaker!CallStep

\* A breaker that refuses everybody because of its probe has a call under way
\* whose answer takes the flag back (circuit.ts).
THEOREM ProbesHaveCallers == LimitsSpec => []ProbeHasACaller
<1>1. LimitsInit => ProbeInv
  BY DEF LimitsInit, Breaker!Init, ProbeInv, Breaker!ProbeHasACaller
<1>2. ProbeInv /\ [LimitsNext]_limitsVars => ProbeInv'
  BY ProbeStep, EachPartSteps
<1>3. ProbeInv => ProbeHasACaller
  BY DEF ProbeInv, ProbeHasACaller
<1>4. LimitsSpec => LimitsInit /\ [][LimitsNext]_limitsVars
  BY DEF LimitsSpec, LimitsNext, limitsVars
<1>5. QED
  BY <1>1, <1>2, <1>3, <1>4, PTL

-----------------------------------------------------------------------------
(* Billing.  A commit checks its snapshot by the number of commits it saw,  *)
(* so it writes from the present row; everything else follows the applied   *)
(* events one by one.                                                       *)

Statuses == Bill!SubStatuses \cup {"none", "canceled"}
Accounts == [sub : Subs \cup {NoSub}, status : Statuses, grace : Nat, last : Nat]
Requests == [at : {"wait", "apply", "again", "after"}, event : Nat, attempt : Nat, ws : Accounts, version : Nat]

BillTyped ==
    /\ events \in Seq(Bill!Events) /\ Len(events) <= MaxEvents
    /\ ws \in Accounts
    /\ processed \subseteq DOMAIN events
    /\ applied \in Seq(Nat) /\ \A i \in DOMAIN applied : applied[i] \in processed
    /\ request \in [Handlers -> {Bill!Idle} \cup Requests]
    /\ \A h \in Handlers : request[h].at # "idle" => request[h].event \in DOMAIN events
    /\ dunned \in [1 .. MaxEvents -> Nat]

\* What Stripe says with a check-out and with a failed payment.
EventsMean ==
    \A e \in DOMAIN events : /\ events[e].type = "checkout" => events[e].status = "active"
                             /\ events[e].type = "failed" => events[e].status = "past_due"

\* A snapshot as old as the last commit is the row.
SnapshotsTell ==
    \A h \in Handlers : request[h].at \in {"wait", "apply"} =>
        /\ request[h].version <= Len(applied)
        /\ request[h].version = Len(applied) => request[h].ws = ws

\* An open claim is the only one of its event, and none is committed.
OneClaim ==
    \A h \in Handlers : request[h].at = "apply" =>
        /\ request[h].event \notin processed
        /\ ~Bill!ClaimedElsewhere(h, request[h].event)

AppliedInOrder ==
    /\ \A i \in DOMAIN applied : events[applied[i]].created <= ws.last
    /\ \A i, k \in DOMAIN applied : i < k =>
          applied[i] # applied[k] /\ events[applied[i]].created <= events[applied[k]].created

NewestDecides ==
    applied # <<>> =>
        LET e == events[applied[Len(applied)]]
        IN  /\ ws.last = e.created
            /\ ws.status = IF e.type = "deleted" THEN "canceled" ELSE e.status
            /\ ws.sub = IF e.type = "deleted" THEN NoSub ELSE e.sub

FirstFailureNamed ==
    \/ Bill!Arrears = {} /\ ws.grace = 0
    \/ \E i \in Bill!Arrears : (\A k \in Bill!Arrears : i <= k) /\ ws.grace = applied[i]

\* A reminder is due once, of an applied event.
DueOnce ==
    /\ \A e \in 1 .. MaxEvents : dunned[e] = 0 \/ (dunned[e] = 1 /\ \E i \in DOMAIN applied : applied[i] = e)
    /\ \A h \in Handlers : request[h].at = "after" =>
          /\ \E i \in DOMAIN applied : applied[i] = request[h].event
          /\ dunned[request[h].event] = 0
          /\ \A g \in Handlers \ {h} : request[g].at = "after" => request[g].event # request[h].event

BillInv ==
    /\ BillTyped /\ EventsMean /\ SnapshotsTell /\ OneClaim
    /\ AppliedInOrder /\ NewestDecides /\ FirstFailureNamed /\ DueOnce

\* Where a request stands tells its kind.
LEMMA RequestKinds ==
    /\ Bill!Idle.at = "idle"
    /\ \A r \in Requests : r.at # "idle" /\ r.at \in {"wait", "apply", "again", "after"}
    /\ \A r \in {Bill!Idle} \cup Requests : r.at # "idle" => r \in Requests
    /\ \A r \in Requests, a \in {"wait", "apply", "again", "after"} :
          /\ [r EXCEPT !.at = a] \in Requests
          /\ [r EXCEPT !.at = a].at = a /\ [r EXCEPT !.at = a].event = r.event
          /\ [r EXCEPT !.at = a].version = r.version /\ [r EXCEPT !.at = a].ws = r.ws
<1>1. QED
  BY DEF Bill!Idle, Requests

\* A request that moves while the database stays, and holds its claim rightly.
LEMMA RequestMoves ==
    ASSUME BillInv, NEW h \in Handlers, NEW r \in {Bill!Idle} \cup Requests,
           UNCHANGED <<events, ws, processed, applied, dunned>>,
           request' = [request EXCEPT ![h] = r],
           r.at # "idle" => r.event \in DOMAIN events /\ r.at # "after",
           r.at \in {"wait", "apply"} => r.version <= Len(applied) /\ (r.version = Len(applied) => r.ws = ws),
           r.at = "apply" => /\ r.event \notin processed
                             /\ \A g \in Handlers \ {h} : request[g].at = "apply" => request[g].event # r.event
    PROVE  BillInv'
<1> USE DEF BillInv
<1>0. request'[h] = r /\ \A g \in Handlers : g # h => request'[g] = request[g]
  BY DEF BillTyped
<1>1. BillTyped'
  BY <1>0 DEF BillTyped
<1>2. EventsMean' /\ AppliedInOrder' /\ NewestDecides' /\ FirstFailureNamed'
  BY DEF EventsMean, AppliedInOrder, NewestDecides, FirstFailureNamed, Bill!Arrears
<1>3. SnapshotsTell'
  BY <1>0 DEF SnapshotsTell
<1>4. OneClaim'
  <2> SUFFICES ASSUME NEW g \in Handlers, request'[g].at = "apply"
               PROVE  /\ request'[g].event \notin processed
                      /\ \A k \in Handlers \ {g} : ~(request'[k].at = "apply" /\ request'[k].event = request'[g].event)
    BY DEF OneClaim, Bill!ClaimedElsewhere
  <2>1. CASE g = h
    BY <1>0, <2>1
  <2>2. CASE g # h
    BY <1>0, <2>2 DEF OneClaim, Bill!ClaimedElsewhere
  <2>3. QED
    BY <2>1, <2>2
<1>5. DueOnce'
  <2>1. r.at # "after"
    BY RequestKinds
  <2>2. \A e \in 1 .. MaxEvents :
           dunned'[e] = 0 \/ (dunned'[e] = 1 /\ \E i \in DOMAIN applied' : applied'[i] = e)
    BY DEF DueOnce
  <2>3. \A g \in Handlers : request'[g].at = "after" =>
          /\ \E i \in DOMAIN applied' : applied'[i] = request'[g].event
          /\ dunned'[request'[g].event] = 0
          /\ \A k \in Handlers \ {g} : request'[k].at = "after" => request'[k].event # request'[g].event
    BY <1>0, <2>1 DEF DueOnce
  <2>4. QED
    BY <2>2, <2>3 DEF DueOnce
<1>6. QED
  BY <1>1, <1>2, <1>3, <1>4, <1>5

LEMMA BeginKeeps ==
    ASSUME BillInv, NEW h \in Handlers, NEW e \in DOMAIN events \ processed, NEW n \in Nat,
           UNCHANGED <<events, ws, processed, applied, dunned>>, Bill!Begin(h, e, n)
    PROVE  BillInv'
<1> DEFINE r == [at |-> IF Bill!ClaimedElsewhere(h, e) THEN "wait" ELSE "apply",
                 event |-> e, attempt |-> n, ws |-> ws, version |-> Len(applied)]
<1>1. e \in Nat /\ ws \in Accounts /\ Len(applied) \in Nat
  BY DEF BillInv, BillTyped
<1>2. /\ r \in Requests /\ r.event = e /\ r.ws = ws /\ r.version = Len(applied)
      /\ r.at \in {"wait", "apply"} /\ (r.at = "apply" => ~Bill!ClaimedElsewhere(h, e))
  BY <1>1 DEF Requests
<1>3. request' = [request EXCEPT ![h] = r]
  BY DEF Bill!Begin
<1> HIDE DEF r
<1>4. r.at = "apply" => /\ r.event \notin processed
                       /\ \A g \in Handlers \ {h} : request[g].at = "apply" => request[g].event # r.event
  BY <1>2 DEF Bill!ClaimedElsewhere
<1>5. r.version <= Len(applied) /\ r.at # "idle" /\ r.at # "after" /\ r.event \in DOMAIN events
  BY <1>1, <1>2
<1>6. QED
  BY <1>2, <1>3, <1>4, <1>5, RequestMoves

LEMMA RequestsKeep ==
    ASSUME BillInv, NEW h \in Handlers,
           Bill!Receive(h) \/ Bill!Claim(h) \/ Bill!Retry(h) \/ Bill!Again(h) \/ Bill!Break(h)
    PROVE  BillInv'
<1>1. UNCHANGED <<events, ws, processed, applied, dunned>>
  BY DEF Bill!Receive, Bill!Claim, Bill!Retry, Bill!Again, Bill!Break
<1>2. request[h] \in {Bill!Idle} \cup Requests /\ (request[h].at # "idle" => request[h].event \in DOMAIN events)
  BY DEF BillInv, BillTyped
<1>3. CASE request' = [request EXCEPT ![h] = Bill!Idle]
  BY <1>1, <1>3, RequestMoves, RequestKinds
<1>4. CASE Bill!Receive(h)
  BY <1>1, <1>4, BeginKeeps DEF Bill!Receive
<1>5. CASE Bill!Claim(h) /\ request' # [request EXCEPT ![h] = Bill!Idle]
  <2> DEFINE r == [request[h] EXCEPT !.at = "apply"]
  <2>1. /\ request[h].at = "wait" /\ ~Bill!ClaimedElsewhere(h, request[h].event)
        /\ request[h].event \notin processed /\ request' = [request EXCEPT ![h] = r]
    BY <1>5 DEF Bill!Claim
  <2>2. /\ r \in Requests /\ r.at = "apply" /\ r.event = request[h].event
        /\ r.version = request[h].version /\ r.ws = request[h].ws
    BY <1>2, <2>1, RequestKinds
  <2> HIDE DEF r
  <2>3. r.version <= Len(applied) /\ (r.version = Len(applied) => r.ws = ws)
    BY <2>1, <2>2 DEF BillInv, SnapshotsTell
  <2>4. QED
    BY <1>1, <1>2, <2>1, <2>2, <2>3, RequestMoves DEF Bill!ClaimedElsewhere
<1>6. CASE Bill!Retry(h) /\ request' # [request EXCEPT ![h] = Bill!Idle]
  <2> DEFINE r == [request[h] EXCEPT !.at = "again"]
  <2>1. request[h].at = "apply" /\ request' = [request EXCEPT ![h] = r]
    BY <1>6 DEF Bill!Retry
  <2>2. r \in Requests /\ r.at = "again" /\ r.event = request[h].event
    BY <1>2, <2>1, RequestKinds
  <2> HIDE DEF r
  <2>3. QED
    BY <1>1, <1>2, <2>1, <2>2, RequestMoves
<1>7. CASE Bill!Again(h) /\ request' # [request EXCEPT ![h] = Bill!Idle]
  <2>1. /\ request[h].at = "again" /\ request[h].event \notin processed
        /\ Bill!Begin(h, request[h].event, request[h].attempt + 1)
    BY <1>7 DEF Bill!Again
  <2>2. request[h].attempt + 1 \in Nat /\ request[h].event \in DOMAIN events
    BY <1>2, <2>1, RequestKinds DEF Requests
  <2>3. QED
    BY <1>1, <2>1, <2>2, BeginKeeps
<1>8. QED
  BY <1>3, <1>4, <1>5, <1>6, <1>7 DEF Bill!Break

\* Stripe's history is made before its first delivery.
LEMMA HistoryKeeps == ASSUME BillInv, NEW s \in Subs, Bill!Happen(s) PROVE BillInv'
<1> USE DEF BillInv
<1>1. PICK type, status, t :
         /\ type \in Bill!Types /\ status \in Bill!SubStatuses /\ t \in 1 .. MaxEvents
         /\ type = "checkout" => status = "active"
         /\ type = "failed" => status = "past_due"
         /\ events' = Append(events, [type |-> type, sub |-> s, status |-> status, created |-> t])
         /\ Len(events) < MaxEvents /\ processed = {} /\ \A h \in Handlers : request[h] = Bill!Idle
         /\ UNCHANGED <<ws, processed, applied, request, dunned>>
  <2>1. Bill!LastCreated \in Nat /\ Bill!LastCreated >= 1
    <3>1. CASE events = <<>>
      BY <3>1 DEF Bill!LastCreated
    <3>2. CASE events # <<>>
      <4>1. Len(events) \in 1 .. Len(events)
        BY <3>2 DEF BillTyped
      <4>2. events[Len(events)] \in Bill!Events
        BY <4>1 DEF BillTyped
      <4>3. QED
        BY <3>2, <4>2, BillingAssumption DEF Bill!LastCreated, Bill!Events
    <3>3. QED
      BY <3>1, <3>2
  <2>2. ASSUME NEW type \in Bill!Types, NEW status \in Bill!SubStatuses, Bill!Emit(type, s, status)
        PROVE  \E t \in 1 .. MaxEvents :
                  events' = Append(events, [type |-> type, sub |-> s, status |-> status, created |-> t])
    BY <2>1, <2>2, BillingAssumption DEF Bill!Emit
  <2>3. \E type \in Bill!Types, status \in Bill!SubStatuses :
           /\ Bill!Emit(type, s, status)
           /\ type = "checkout" => status = "active"
           /\ type = "failed" => status = "past_due"
    BY DEF Bill!Happen, Bill!Types, Bill!SubStatuses
  <2>4. QED
    BY <2>2, <2>3 DEF Bill!Emit
<1> DEFINE e == [type |-> type, sub |-> s, status |-> status, created |-> t]
<1>2. e \in Bill!Events
  BY <1>1 DEF Bill!Events
<1>3. e.type = type /\ e.status = status
  OBVIOUS
<1> HIDE DEF e
<1>4. events' = Append(events, e) /\ applied = <<>> /\ events \in Seq(Bill!Events)
  <2>1. DOMAIN applied = {}
    BY <1>1 DEF BillTyped
  <2>2. QED
    BY <1>1, <2>1 DEF BillTyped, e
<1>5. /\ events' \in Seq(Bill!Events) /\ Len(events') = Len(events) + 1
      /\ \A k \in 1 .. Len(events) : events'[k] = events[k]
      /\ events'[Len(events) + 1] = e
  BY <1>2, <1>4
<1>6. BillTyped'
  BY <1>1, <1>5, RequestKinds, BillingAssumption DEF BillTyped
<1>7. EventsMean'
  BY <1>1, <1>3, <1>5 DEF EventsMean, BillTyped
<1>8. SnapshotsTell' /\ OneClaim' /\ DueOnce'
  BY <1>1, RequestKinds DEF SnapshotsTell, OneClaim, DueOnce
<1>9. AppliedInOrder' /\ NewestDecides'
  BY <1>1, <1>4 DEF AppliedInOrder, NewestDecides
<1>10. FirstFailureNamed'
  BY <1>1, <1>4 DEF FirstFailureNamed, Bill!Arrears
<1>11. QED
  BY <1>6, <1>7, <1>8, <1>9, <1>10

\* A claim that is committed alone: no other request had the event.
LEMMA IgnoreKeeps == ASSUME BillInv, NEW h \in Handlers, Bill!Ignore(h) PROVE BillInv'
<1> USE DEF BillInv
<1>1. /\ request[h].at = "apply" /\ UNCHANGED <<events, ws, applied, dunned>>
      /\ processed' = processed \cup {request[h].event}
      /\ request' = [request EXCEPT ![h] = Bill!Idle]
  BY DEF Bill!Ignore
<1>2. /\ request'[h] = Bill!Idle /\ Bill!Idle.at = "idle"
      /\ \A g \in Handlers : g # h => request'[g] = request[g]
      /\ request[h].event \in DOMAIN events
  BY <1>1, RequestKinds DEF BillTyped
<1>3. BillTyped'
  BY <1>1, <1>2 DEF BillTyped
<1>4. EventsMean' /\ AppliedInOrder' /\ NewestDecides' /\ FirstFailureNamed'
  BY <1>1 DEF EventsMean, AppliedInOrder, NewestDecides, FirstFailureNamed, Bill!Arrears
<1>5. SnapshotsTell'
  BY <1>1, <1>2 DEF SnapshotsTell
<1>6. OneClaim'
  BY <1>1, <1>2 DEF OneClaim, Bill!ClaimedElsewhere
<1>7. DueOnce'
  BY <1>1, <1>2 DEF DueOnce
<1>8. QED
  BY <1>3, <1>4, <1>5, <1>6, <1>7

\* The reminder of one request, which no other request has in hand.
LEMMA DunKeeps == ASSUME BillInv, NEW h \in Handlers, Bill!Dun(h) PROVE BillInv'
<1> USE DEF BillInv
<1> DEFINE id == request[h].event
<1>1. /\ request[h].at = "after" /\ UNCHANGED <<events, ws, applied, processed>>
      /\ dunned' = [dunned EXCEPT ![id] = @ + 1]
      /\ request' = [request EXCEPT ![h] = Bill!Idle]
  BY DEF Bill!Dun
<1>2. /\ request'[h] = Bill!Idle /\ Bill!Idle.at = "idle"
      /\ \A g \in Handlers : g # h => request'[g] = request[g]
  BY <1>1, RequestKinds DEF BillTyped
<1>3. id \in 1 .. MaxEvents /\ dunned[id] = 0 /\ \E i \in DOMAIN applied : applied[i] = id
  BY <1>1, BillingAssumption DEF BillTyped, DueOnce
<1>4. dunned'[id] = 1 /\ \A e \in 1 .. MaxEvents : e # id => dunned'[e] = dunned[e]
  BY <1>1, <1>3 DEF BillTyped
<1>5. BillTyped'
  BY <1>1, <1>2, <1>3 DEF BillTyped
<1>6. EventsMean' /\ AppliedInOrder' /\ NewestDecides' /\ FirstFailureNamed'
  BY <1>1 DEF EventsMean, AppliedInOrder, NewestDecides, FirstFailureNamed, Bill!Arrears
<1>7. SnapshotsTell'
  BY <1>1, <1>2 DEF SnapshotsTell
<1>8. OneClaim'
  BY <1>1, <1>2 DEF OneClaim, Bill!ClaimedElsewhere
<1>9. DueOnce'
  <2>1. \A e \in 1 .. MaxEvents :
           dunned'[e] = 0 \/ (dunned'[e] = 1 /\ \E i \in DOMAIN applied' : applied'[i] = e)
    BY <1>1, <1>3, <1>4 DEF DueOnce
  <2>2. ASSUME NEW g \in Handlers, request'[g].at = "after"
        PROVE  /\ \E i \in DOMAIN applied' : applied'[i] = request'[g].event
               /\ dunned'[request'[g].event] = 0
               /\ \A k \in Handlers \ {g} : request'[k].at = "after" => request'[k].event # request'[g].event
    <3>1. g # h /\ request'[g] = request[g] /\ request[g].event # id
      BY <1>1, <1>2, <2>2 DEF DueOnce
    <3>2. request[g].event \in 1 .. MaxEvents
      <4>1. request[g].event \in DOMAIN events
        BY <2>2, <3>1, RequestKinds DEF BillTyped
      <4>2. QED
        BY <4>1, BillingAssumption DEF BillTyped
    <3>3. QED
      BY <1>1, <1>2, <1>4, <2>2, <3>1, <3>2 DEF DueOnce
  <2>3. QED
    BY <2>1, <2>2 DEF DueOnce
<1>10. QED
  BY <1>5, <1>6, <1>7, <1>8, <1>9

\* A row with the fields handleWebhookEvent writes.
Written(w, st, g, l) == [w EXCEPT !.status = st, !.grace = g, !.last = l]

LEMMA RowFields ==
    ASSUME NEW w \in Accounts, NEW st \in Statuses, NEW g \in Nat, NEW l \in Nat
    PROVE  /\ Written(w, st, g, l) \in Accounts
           /\ Written(w, st, g, l).sub = w.sub /\ Written(w, st, g, l).status = st
           /\ Written(w, st, g, l).grace = g /\ Written(w, st, g, l).last = l
<1>1. QED
  BY DEF Accounts, Written

LEMMA RowSub ==
    ASSUME NEW w \in Accounts, NEW s \in Subs \cup {NoSub}
    PROVE  [w EXCEPT !.sub = s] \in Accounts /\ [w EXCEPT !.sub = s].sub = s
<1>1. QED
  BY DEF Accounts

\* What the row becomes, by the kind of the event (applyBillingEvent).
LEMMA RowWritten ==
    ASSUME NEW w \in Accounts, NEW e \in Bill!Events, NEW id \in Nat \ {0}, NEW n, n = Bill!Updated(e, w, id),
           e.type = "checkout" => e.status = "active",
           e.type = "failed" => e.status = "past_due",
           e.type = "checkout" \/ w.sub = e.sub
    PROVE  /\ n \in Accounts
           /\ n.last = e.created
           /\ n.status = IF e.type = "deleted" THEN "canceled" ELSE e.status
           /\ n.sub = IF e.type = "deleted" THEN NoSub ELSE e.sub
           /\ Bill!Clears(e) => n.grace = 0
           /\ Bill!PastDue(e) => n.grace = IF w.grace = 0 THEN id ELSE w.grace
           /\ ~Bill!Clears(e) /\ ~Bill!PastDue(e) => n.grace = w.grace
<1>0. /\ w.grace \in Nat /\ e.created \in Nat /\ e.sub \in Subs
      /\ e.type \in Bill!Types /\ e.status \in {"active", "past_due", "unpaid"}
      /\ {e.status, "active", "past_due", "canceled"} \subseteq Statuses
  BY BillingAssumption DEF Accounts, Bill!Events, Bill!SubStatuses, Statuses
<1>1. CASE e.type = "checkout"
  <2> DEFINE v == [w EXCEPT !.sub = e.sub]
  <2>1. v \in Accounts /\ v.sub = e.sub
    BY <1>0, RowSub
  <2>2. n = Written(v, "active", 0, e.created)
    BY <1>1 DEF Bill!Updated, Written
  <2> HIDE DEF v
  <2>3. n \in Accounts /\ n.sub = v.sub /\ n.status = "active" /\ n.grace = 0 /\ n.last = e.created
    <3>1. v \in Accounts /\ "active" \in Statuses /\ 0 \in Nat /\ e.created \in Nat
      BY <1>0, <2>1
    <3>2. QED
      BY ONLY <2>2, <3>1, RowFields
  <2>4. QED
    BY <1>1, <2>1, <2>3 DEF Bill!Clears, Bill!PastDue
<1>2. CASE e.type = "updated"
  <2> DEFINE g == Bill!GraceFor(e.status, w, id)
  <2>1. /\ g \in Nat
        /\ e.status = "active" => g = 0
        /\ e.status = "past_due" => g = IF w.grace = 0 THEN id ELSE w.grace
        /\ e.status = "unpaid" => g = w.grace
    BY <1>0 DEF Bill!GraceFor
  <2>2. n = Written(w, e.status, g, e.created)
    BY <1>2 DEF Bill!Updated, Written
  <2> HIDE DEF g
  <2>3. n \in Accounts /\ n.sub = w.sub /\ n.status = e.status /\ n.grace = g /\ n.last = e.created
    <3>1. w \in Accounts /\ e.status \in Statuses /\ g \in Nat /\ e.created \in Nat
      BY <1>0, <2>1
    <3>2. QED
      BY ONLY <2>2, <3>1, RowFields
  <2>4. QED
    BY <1>0, <1>2, <2>1, <2>3 DEF Bill!Clears, Bill!PastDue
<1>3. CASE e.type = "deleted"
  <2> DEFINE v == [w EXCEPT !.sub = NoSub]
  <2>1. v \in Accounts /\ v.sub = NoSub
    BY <1>0, RowSub
  <2>2. n = Written(v, "canceled", 0, e.created)
    BY <1>3 DEF Bill!Updated, Written
  <2> HIDE DEF v
  <2>3. n \in Accounts /\ n.sub = v.sub /\ n.status = "canceled" /\ n.grace = 0 /\ n.last = e.created
    <3>1. v \in Accounts /\ "canceled" \in Statuses /\ 0 \in Nat /\ e.created \in Nat
      BY <1>0, <2>1
    <3>2. QED
      BY ONLY <2>2, <3>1, RowFields
  <2>4. QED
    BY <1>3, <2>1, <2>3 DEF Bill!Clears, Bill!PastDue
<1>4. CASE e.type = "failed"
  <2> DEFINE g == Bill!GraceFor("past_due", w, id)
  <2>1. g \in Nat /\ g = IF w.grace = 0 THEN id ELSE w.grace
    BY <1>0 DEF Bill!GraceFor
  <2>2. n = Written(w, "past_due", g, e.created)
    BY <1>4 DEF Bill!Updated, Written
  <2> HIDE DEF g
  <2>3. n \in Accounts /\ n.sub = w.sub /\ n.status = "past_due" /\ n.grace = g /\ n.last = e.created
    <3>1. w \in Accounts /\ "past_due" \in Statuses /\ g \in Nat /\ e.created \in Nat
      BY <1>0, <2>1
    <3>2. QED
      BY ONLY <2>2, <3>1, RowFields
  <2>4. QED
    BY <1>4, <2>1, <2>3 DEF Bill!Clears, Bill!PastDue
<1>5. QED
  BY <1>0, <1>1, <1>2, <1>3, <1>4 DEF Bill!Types

\* The commit of an event: its snapshot is the row, so the row moves on from the
\* newest event applied before.
LEMMA ApplyKeeps == ASSUME BillInv, NEW h \in Handlers, Bill!Apply(h) PROVE BillInv'
<1> USE DEF BillInv
<1> DEFINE id == request[h].event
           e  == events[id]
           n  == Len(applied)
           r  == IF e.type = "failed" THEN [request[h] EXCEPT !.at = "after"] ELSE Bill!Idle
<1>1. /\ request[h].at = "apply" /\ request[h] \in Requests /\ id \in DOMAIN events /\ id \notin processed
      /\ request[h].ws = ws
  <2>1. request[h].at = "apply" /\ request[h].version = n
    BY DEF Bill!Apply, Bill!Conflict
  <2>2. QED
    BY <2>1, RequestKinds DEF BillTyped, SnapshotsTell, OneClaim
<1>2. /\ e.type = "checkout" \/ ws.sub = e.sub
      /\ ws.last = 0 \/ ~(e.created < ws.last)
      /\ ws' = Bill!Updated(e, ws, id)
      /\ processed' = processed \cup {id}
      /\ applied' = Append(applied, id)
      /\ request' = [request EXCEPT ![h] = r]
      /\ UNCHANGED <<events, dunned>>
  BY <1>1 DEF Bill!Apply, Bill!Applies, Bill!Stale
<1>3. /\ e \in Bill!Events /\ id \in Nat \ {0} /\ e.created \in Nat /\ ws.last \in Nat /\ ws \in Accounts
      /\ n \in Nat /\ id \in 1 .. MaxEvents
  <2>1. e \in Bill!Events /\ id \in 1 .. Len(events)
    BY <1>1 DEF BillTyped
  <2>2. e.created \in Nat
    BY <2>1, BillingAssumption DEF Bill!Events
  <2>3. ws \in Accounts /\ ws.last \in Nat
    BY DEF BillTyped, Accounts
  <2>4. n \in Nat /\ id \in 1 .. MaxEvents /\ id \in Nat \ {0}
    BY <2>1, BillingAssumption DEF BillTyped
  <2>5. QED
    BY <2>1, <2>2, <2>3, <2>4
<1>4. /\ e.type = "checkout" => e.status = "active"
      /\ e.type = "failed" => e.status = "past_due"
  BY <1>1 DEF EventsMean
<1>5. /\ ws' \in Accounts
      /\ ws'.last = e.created
      /\ ws'.status = IF e.type = "deleted" THEN "canceled" ELSE e.status
      /\ ws'.sub = IF e.type = "deleted" THEN NoSub ELSE e.sub
      /\ Bill!Clears(e) => ws'.grace = 0
      /\ Bill!PastDue(e) => ws'.grace = IF ws.grace = 0 THEN id ELSE ws.grace
      /\ ~Bill!Clears(e) /\ ~Bill!PastDue(e) => ws'.grace = ws.grace
  BY <1>2, <1>3, <1>4, RowWritten
<1>6. /\ r \in {Bill!Idle} \cup Requests
      /\ r.at \in {"idle", "after"}
      /\ r.at = "after" => r.event = id
  BY <1>1, RequestKinds
<1>7. request'[h] = r /\ \A g \in Handlers : g # h => request'[g] = request[g]
  BY <1>2 DEF BillTyped
<1> HIDE DEF r
<1>8. /\ applied \in Seq(Nat) /\ DOMAIN applied = 1 .. n /\ DOMAIN applied' = 1 .. (n + 1)
      /\ applied' \in Seq(Nat) /\ Len(applied') = n + 1
      /\ applied'[n + 1] = id
      /\ \A i \in 1 .. n : applied'[i] = applied[i] /\ applied[i] \in processed /\ applied[i] # id
  BY <1>1, <1>2, <1>3 DEF BillTyped
<1>9. BillTyped'
  <2>1. /\ processed' \subseteq DOMAIN events'
        /\ \A i \in DOMAIN applied' : applied'[i] \in processed'
    BY <1>1, <1>2, <1>8 DEF BillTyped
  <2>2. request' \in [Handlers -> {Bill!Idle} \cup Requests]
    BY <1>2, <1>6 DEF BillTyped
  <2>3. \A g \in Handlers : request'[g].at # "idle" => request'[g].event \in DOMAIN events'
    BY <1>1, <1>2, <1>6, <1>7 DEF BillTyped
  <2>4. QED
    BY <1>2, <1>5, <1>8, <2>1, <2>2, <2>3 DEF BillTyped
<1>10. EventsMean'
  BY <1>2 DEF EventsMean
<1>11. SnapshotsTell'
  <2>1. ASSUME NEW g \in Handlers, request'[g].at \in {"wait", "apply"}
        PROVE  request'[g].version <= Len(applied') /\ request'[g].version # Len(applied')
    <3>1. g # h /\ request'[g] = request[g]
      BY <1>6, <1>7, <2>1
    <3>2. request[g].at \in {"wait", "apply"} /\ request[g] \in Requests
      BY <2>1, <3>1, RequestKinds DEF BillTyped
    <3>3. request[g].version \in Nat /\ request[g].version <= n
      BY <3>2 DEF SnapshotsTell, Requests
    <3>4. QED
      BY <1>3, <1>8, <3>1, <3>3
  <2>2. QED
    BY <2>1 DEF SnapshotsTell
<1>12. OneClaim'
  BY <1>1, <1>2, <1>6, <1>7 DEF OneClaim, Bill!ClaimedElsewhere
<1>13. /\ \A i \in 1 .. n : events[applied[i]].created \in Nat
       /\ \A i \in 1 .. n : events[applied[i]].created <= e.created
  <2>1. ASSUME NEW i \in 1 .. n PROVE events[applied[i]].created \in Nat
    <3>1. applied[i] \in DOMAIN events
      BY <1>8 DEF BillTyped
    <3>2. events[applied[i]] \in Bill!Events
      BY <3>1 DEF BillTyped
    <3>3. QED
      BY <3>2, BillingAssumption DEF Bill!Events
  <2>2. \A i \in 1 .. n : events[applied[i]].created <= ws.last
    BY <1>8 DEF AppliedInOrder
  <2>3. QED
    BY <1>2, <1>3, <2>1, <2>2
<1>14. AppliedInOrder'
  <2>1. \A i \in DOMAIN applied' : events'[applied'[i]].created <= ws'.last
    BY <1>2, <1>3, <1>5, <1>8, <1>13
  <2>2. ASSUME NEW i \in DOMAIN applied', NEW k \in DOMAIN applied', i < k
        PROVE  applied'[i] # applied'[k] /\ events'[applied'[i]].created <= events'[applied'[k]].created
    <3>1. CASE k = n + 1
      BY <1>2, <1>3, <1>8, <1>13, <2>2, <3>1
    <3>2. CASE k \in 1 .. n
      BY <1>2, <1>3, <1>8, <2>2, <3>2 DEF AppliedInOrder
    <3>3. QED
      BY <1>3, <1>8, <3>1, <3>2
  <2>3. QED
    BY <2>1, <2>2 DEF AppliedInOrder
<1>15. NewestDecides'
  BY <1>2, <1>5, <1>8 DEF NewestDecides
<1>16. FirstFailureNamed'
  <2>1. Bill!PastDue(e) => ~Bill!Clears(e)
    BY DEF Bill!PastDue, Bill!Clears
  <2>2. Bill!Arrears' = {i \in 1 .. (n + 1) : /\ Bill!PastDue(events[applied'[i]])
                                             /\ \A k \in i .. (n + 1) : ~Bill!Clears(events[applied'[k]])}
    BY <1>2, <1>8 DEF Bill!Arrears, Bill!PastDue, Bill!Clears
  <2>3. Bill!Arrears = {i \in 1 .. n : /\ Bill!PastDue(events[applied[i]])
                                      /\ \A k \in i .. n : ~Bill!Clears(events[applied[k]])}
    BY <1>8 DEF Bill!Arrears
  <2>4. CASE Bill!Clears(e)
    <3>1. Bill!Arrears' = {}
      BY <1>3, <1>8, <2>2, <2>4
    <3>2. QED
      BY <1>5, <2>4, <3>1 DEF FirstFailureNamed
  <2>5. CASE ~Bill!Clears(e)
    <3>1. ASSUME NEW i \in 1 .. n PROVE i \in Bill!Arrears' <=> i \in Bill!Arrears
      <4>1. i \in 1 .. (n + 1) /\ applied'[i] = applied[i]
        BY <1>3, <1>8
      <4>2. (\A k \in i .. (n + 1) : ~Bill!Clears(events[applied'[k]]))
               <=> \A k \in i .. n : ~Bill!Clears(events[applied[k]])
        <5>1. \A k \in i .. n : k \in i .. (n + 1) /\ applied'[k] = applied[k]
          BY <1>3, <1>8
        <5>2. \A k \in i .. (n + 1) : k \in i .. n \/ k = n + 1
          BY <1>3
        <5>3. ~Bill!Clears(events[applied'[n + 1]])
          BY <1>8, <2>5
        <5>4. QED
          BY <5>1, <5>2, <5>3
      <4>3. QED
        BY <2>2, <2>3, <4>1, <4>2
    <3>2. n + 1 \in Bill!Arrears' <=> Bill!PastDue(e)
      BY <1>3, <1>8, <2>2, <2>5
    <3>3. Bill!Arrears \subseteq 1 .. n /\ Bill!Arrears' \subseteq 1 .. (n + 1)
      BY <2>2, <2>3
    <3>4. CASE Bill!Arrears = {} /\ ws.grace = 0
      <4>1. CASE Bill!PastDue(e)
        <5>1. Bill!Arrears' = {n + 1} /\ ws'.grace = applied'[n + 1]
          <6>1. n + 1 \in Bill!Arrears'
            BY <3>2, <4>1
          <6>2. \A i \in Bill!Arrears' : i \in 1 .. n \/ i = n + 1
            BY <1>3, <3>3
          <6>3. \A i \in Bill!Arrears' : i = n + 1
            BY <3>1, <3>4, <6>2
          <6>4. ws'.grace = id
            BY <1>5, <3>4, <4>1
          <6>5. QED
            BY <1>8, <6>1, <6>3, <6>4
        <5>2. QED
          BY <1>3, <5>1 DEF FirstFailureNamed
      <4>2. CASE ~Bill!PastDue(e)
        <5>1. Bill!Arrears' = {} /\ ws'.grace = 0
          BY <1>3, <1>5, <2>5, <3>1, <3>2, <3>3, <3>4, <4>2
        <5>2. QED
          BY <5>1 DEF FirstFailureNamed
      <4>3. QED
        BY <4>1, <4>2
    <3>5. CASE \E i \in Bill!Arrears : (\A k \in Bill!Arrears : i <= k) /\ ws.grace = applied[i]
      <4>1. PICK i \in Bill!Arrears : (\A k \in Bill!Arrears : i <= k) /\ ws.grace = applied[i]
        BY <3>5
      <4>2. i \in 1 .. n /\ i \in Bill!Arrears' /\ applied'[i] = applied[i]
        BY <1>8, <3>1, <3>3, <4>1
      <4>3. applied[i] # 0
        BY <1>8, <4>2 DEF BillTyped
      <4>4. ws'.grace = ws.grace
        BY <1>5, <2>5, <4>1, <4>3
      <4>5. \A k \in Bill!Arrears' : i <= k
        BY <1>3, <3>1, <3>3, <4>1, <4>2
      <4>6. QED
        BY <4>1, <4>2, <4>4, <4>5 DEF FirstFailureNamed
    <3>6. QED
      BY <3>4, <3>5 DEF FirstFailureNamed
  <2>6. QED
    BY <2>4, <2>5
<1>17. DueOnce'
  <2>1. \A a \in 1 .. MaxEvents :
           dunned'[a] = 0 \/ (dunned'[a] = 1 /\ \E i \in DOMAIN applied' : applied'[i] = a)
    BY <1>2, <1>3, <1>8 DEF DueOnce
  <2>2. dunned[id] = 0
    BY <1>3, <1>8 DEF DueOnce
  <2>3. ASSUME NEW g \in Handlers, request'[g].at = "after"
        PROVE  /\ \E i \in DOMAIN applied' : applied'[i] = request'[g].event
               /\ dunned'[request'[g].event] = 0
               /\ \A k \in Handlers \ {g} : request'[k].at = "after" => request'[k].event # request'[g].event
    <3>1. \A k \in Handlers : k # h /\ request'[k].at = "after" => request'[k].event # id
      BY <1>7, <1>8 DEF DueOnce
    <3>2. CASE g = h
      BY <1>2, <1>3, <1>6, <1>7, <1>8, <2>2, <2>3, <3>1, <3>2
    <3>3. CASE g # h
      <4>1. request'[g] = request[g]
        BY <1>7, <3>3
      <4>2. PICK i \in DOMAIN applied : applied[i] = request[g].event
        BY <2>3, <4>1 DEF DueOnce
      <4>3. i \in DOMAIN applied' /\ applied'[i] = request[g].event
        BY <1>3, <1>8, <4>2
      <4>4. dunned'[request[g].event] = 0
        BY <1>2, <2>3, <4>1 DEF DueOnce
      <4>5. \A k \in Handlers \ {g} : request'[k].at = "after" => request'[k].event # request[g].event
        BY <1>6, <1>7, <2>3, <3>1, <3>3, <4>1 DEF DueOnce
      <4>6. QED
        BY <4>1, <4>3, <4>4, <4>5
    <3>4. QED
      BY <3>2, <3>3
  <2>4. QED
    BY <2>1, <2>3 DEF DueOnce
<1>18. QED
  BY <1>9, <1>10, <1>11, <1>12, <1>14, <1>15, <1>16, <1>17

LEMMA BillStepKeeps == ASSUME BillInv, [Bill!Next]_billVars PROVE BillInv'
<1>1. CASE UNCHANGED billVars
  <2>1. UNCHANGED <<events, ws, processed, applied, request, dunned>>
    BY <1>1 DEF billVars
  <2>2. BillTyped' /\ EventsMean' /\ SnapshotsTell' /\ OneClaim'
    BY <2>1 DEF BillInv, BillTyped, EventsMean, SnapshotsTell, OneClaim, Bill!ClaimedElsewhere
  <2>3. AppliedInOrder' /\ NewestDecides' /\ DueOnce'
    BY <2>1 DEF BillInv, AppliedInOrder, NewestDecides, DueOnce
  <2>4. FirstFailureNamed'
    BY <2>1 DEF BillInv, FirstFailureNamed, Bill!Arrears
  <2>5. QED
    BY <2>2, <2>3, <2>4 DEF BillInv
<1>2. QED
  BY <1>1, HistoryKeeps, RequestsKeep, IgnoreKeeps, ApplyKeeps, DunKeeps DEF Bill!Next

\* The workspace is what Stripe's events say, applied in the order of their
\* creation and each once, however they are delivered, repeated, retried and
\* interleaved (handleWebhookEvent in its serializable transaction).
THEOREM BillingFollows == LimitsSpec => []BillingFollowsStripe
<1>1. LimitsInit => BillInv
  <2> SUFFICES ASSUME LimitsInit PROVE BillInv
    OBVIOUS
  <2>1. /\ events = <<>> /\ processed = {} /\ applied = <<>>
        /\ ws = [sub |-> NoSub, status |-> "none", grace |-> 0, last |-> 0]
        /\ request = [h \in Handlers |-> Bill!Idle]
        /\ dunned = [e \in 1 .. MaxEvents |-> 0]
    BY DEF LimitsInit, Bill!Init
  <2>2. \A h \in Handlers : request[h] = Bill!Idle /\ request[h].at = "idle"
    BY <2>1, RequestKinds
  <2>3. BillTyped
    BY <2>1, <2>2, BillingAssumption DEF BillTyped, Accounts, Statuses
  <2>4. EventsMean /\ AppliedInOrder /\ NewestDecides
    BY <2>1 DEF EventsMean, AppliedInOrder, NewestDecides
  <2>5. SnapshotsTell /\ OneClaim /\ DueOnce
    BY <2>1, <2>2 DEF SnapshotsTell, OneClaim, DueOnce
  <2>6. FirstFailureNamed
    BY <2>1 DEF FirstFailureNamed, Bill!Arrears
  <2>7. QED
    BY <2>3, <2>4, <2>5, <2>6 DEF BillInv
<1>2. BillInv /\ [LimitsNext]_limitsVars => BillInv'
  BY BillStepKeeps, EachPartSteps
<1>3. BillInv => BillingFollowsStripe
  <2> SUFFICES ASSUME BillInv PROVE Bill!BillingFollowsStripe
    BY DEF BillingFollowsStripe
  <2>1. \A i, k \in DOMAIN applied : i < k =>
           applied[i] # applied[k] /\ events[applied[i]].created <= events[applied[k]].created
    BY DEF BillInv, AppliedInOrder
  <2>2. applied # <<>> =>
           LET e == events[applied[Len(applied)]]
           IN  /\ ws.last = e.created
               /\ ws.status = CASE e.type = "deleted" -> "canceled" [] OTHER -> e.status
               /\ ws.sub = IF e.type = "deleted" THEN NoSub ELSE e.sub
    BY DEF BillInv, NewestDecides
  <2>3. IF Bill!Arrears = {} THEN ws.grace = 0
        ELSE ws.grace = applied[CHOOSE i \in Bill!Arrears : \A k \in Bill!Arrears : i <= k]
    <3>1. CASE Bill!Arrears = {}
      BY <3>1 DEF BillInv, FirstFailureNamed
    <3>2. CASE Bill!Arrears # {}
      <4>1. PICK i \in Bill!Arrears : (\A k \in Bill!Arrears : i <= k) /\ ws.grace = applied[i]
        BY <3>2 DEF BillInv, FirstFailureNamed
      <4> DEFINE first == CHOOSE j \in Bill!Arrears : \A k \in Bill!Arrears : j <= k
      <4>2. first \in Bill!Arrears /\ \A k \in Bill!Arrears : first <= k
        BY <4>1
      <4>3. Bill!Arrears \subseteq Nat
        BY DEF Bill!Arrears, BillInv, BillTyped
      <4> HIDE DEF first
      <4>4. first = i
        BY <4>1, <4>2, <4>3
      <4>5. QED
        BY <3>2, <4>1, <4>4 DEF first
    <3>3. QED
      BY <3>1, <3>2
  <2>4. \A e \in 1 .. MaxEvents :
           dunned[e] <= 1 /\ (dunned[e] = 1 => \E i \in DOMAIN applied : applied[i] = e)
    BY DEF BillInv, DueOnce
  <2>5. QED
    BY <2>1, <2>2, <2>3, <2>4 DEF Bill!BillingFollowsStripe
<1>4. LimitsSpec => LimitsInit /\ [][LimitsNext]_limitsVars
  BY DEF LimitsSpec, LimitsNext, limitsVars
<1>5. QED
  BY <1>1, <1>2, <1>3, <1>4, PTL

=============================================================================
