-------------------------- MODULE MCCampaignLimits --------------------------
(***************************************************************************)
(* What bounds the sending, for TLC.  A behaviour is one of                *)
(*   "controls" two leads, reviewers and an operator who stops the mission;*)
(*   "caps"     three leads, limits of one message a day and a month, and  *)
(*              a midnight;                                                *)
(*   "billing"  the Stripe events that decide the workspace's plan;        *)
(*   "breaker"  the circuit breaker in front of a provider.                *)
(***************************************************************************)
EXTENDS CampaignSend, Sequences, TLC

CONSTANTS
    CapsEnv, CapsLeads, CapsDrafts,
    Handlers, Subs, NoSub, MaxEvents, MaxFaults,
    Processes, Calls, FailLimit, MaxOutages

ASSUME CapsAssumption ==
    /\ CapsLeads \subseteq Nat \ {0} /\ IsFiniteSet(CapsLeads)
    /\ CapsDrafts \subseteq DraftKinds /\ CapsDrafts # {}
    /\ CapsEnv \subseteq EnvKinds

ASSUME BillingAssumption == MaxEvents \in Nat

VARIABLES
    focus, \* the kind of the behaviour
    events, live, ws, processed, applied, request, dunned, breaks,
    up, outages, state, failures, probing, cool, shared, at

billVars  == <<events, live, ws, processed, applied, request, dunned, breaks>>
breakVars == <<up, outages, state, failures, probing, cool, shared, at>>

Caps == INSTANCE CampaignSend WITH
    Env <- CapsEnv, Leads <- CapsLeads, InitDrafts <- CapsDrafts,
    PageSize <- 3, DailyLimit <- 1, MonthlyLimit <- 1, MaxDay <- 2

Bill    == INSTANCE Billing
Breaker == INSTANCE CircuitBreaker

LimitsInit ==
    /\ \/ focus \in {"controls", "billing", "breaker"} /\ Init
       \/ focus = "caps" /\ Caps!Init
    /\ focus \in {"billing", "breaker"} => draft = [l \in Leads |-> CHOOSE d \in InitDrafts : TRUE]
    /\ Bill!Init /\ Breaker!Init

ControlsStep == focus = "controls" /\ Next         /\ UNCHANGED <<focus, billVars, breakVars>>
CapsStep     == focus = "caps"     /\ Caps!Next    /\ UNCHANGED <<focus, billVars, breakVars>>
BillStep     == focus = "billing"  /\ Bill!Next    /\ UNCHANGED <<focus, vars, breakVars>>
BreakerStep  == focus = "breaker"  /\ Breaker!Next /\ UNCHANGED <<focus, vars, billVars>>

LimitsSpec ==
    LimitsInit /\ [][ControlsStep \/ CapsStep \/ BillStep \/ BreakerStep]_<<focus, vars, billVars, breakVars>>

\* The daily cap of the second workspace (DailyCapUpToMidnight of CampaignSend).
DailyCapKept == focus = "caps" => Caps!DailyCapUpToMidnight

\* The monthly ceiling of the second workspace (MonthlyOvershootBounded there).
MonthlyCeilingKept == focus = "caps" => Caps!MonthlyOvershootBounded

\* The workspace's billing state is what Stripe's events say (see Billing).
BillingFollowsStripe == Bill!BillingFollowsStripe

\* A breaker that refuses for its probe has one under way (see CircuitBreaker).
ProbeHasACaller == Breaker!ProbeHasACaller

\* The jobs are interchangeable.
JobSymmetry == Permutations(Jobs)

=============================================================================
