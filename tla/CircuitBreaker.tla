--------------------------- MODULE CircuitBreaker ---------------------------
(***************************************************************************)
(* The circuit breaker in front of one provider                            *)
(* (packages/backend-core/src/lib/circuit.ts) in several processes that    *)
(* share their trips through Redis (breakerStore.ts).                      *)
(*                                                                         *)
(* Times are kept only as what they decide: whether the reset time passed  *)
(* since the last failure (cool) and whether the shared window is over     *)
(* (shared).                                                               *)
(***************************************************************************)
EXTENDS Naturals

CONSTANTS
    Processes, \* the API, the worker, their replicas
    Calls,     \* calls one process may have under way
    FailLimit, \* failures that trip a breaker (threshold)
    MaxOutages \* bound: outages of the provider

VARIABLES
    up,       \* the provider answers
    outages,  \* outages so far
    state,    \* CLOSED, OPEN or HALF_OPEN, per process
    failures, \* failures counted, up to the threshold
    probing,  \* the probe flag
    cool,     \* the reset time has passed since lastFailureAt
    shared,   \* the store's window is open
    at        \* where each call stands

breakerVars == <<state, failures, probing, cool>>
circuitVars == <<up, outages, breakerVars, shared, at>>

TypeOK ==
    /\ up \in BOOLEAN /\ outages \in 0 .. MaxOutages
    /\ state \in [Processes -> {"CLOSED", "OPEN", "HALF_OPEN"}]
    /\ failures \in [Processes -> 0 .. FailLimit]
    /\ probing \in [Processes -> BOOLEAN] /\ cool \in [Processes -> BOOLEAN]
    /\ shared \in BOOLEAN
    /\ at \in [Processes -> [Calls -> {"idle", "admit", "admitShared", "asked", "askedInOutage"}]]

Init ==
    /\ up = TRUE /\ outages = 0
    /\ state = [p \in Processes |-> "CLOSED"]
    /\ failures = [p \in Processes |-> 0]
    /\ probing = [p \in Processes |-> FALSE]
    /\ cool = [p \in Processes |-> TRUE]
    /\ shared = FALSE
    /\ at = [p \in Processes |-> [c \in Calls |-> "idle"]]

Goto(p, c, point) == at' = [at EXCEPT ![p][c] = point]

\* syncFromStore: skipped within the sync interval, and blind to an error.
SyncFromStore(p, c) ==
    /\ at[p][c] = "idle"
    /\ \/ Goto(p, c, "admit")
       \/ shared /\ Goto(p, c, "admitShared")
    /\ UNCHANGED <<up, outages, breakerVars, shared>>

Reject(p, c, s) ==
    /\ state' = [state EXCEPT ![p] = s]
    /\ Goto(p, c, "idle")
    /\ UNCHANGED probing

Ask(p, c) == Goto(p, c, IF up THEN "asked" ELSE "askedInOutage")

\* An open window of a sibling is adopted by a CLOSED breaker; then the call
\* is admitted, is the probe, or is refused.  No await in between.
Admit(p, c) ==
    /\ at[p][c] \in {"admit", "admitShared"}
    /\ LET adopts == at[p][c] = "admitShared" /\ state[p] = "CLOSED"
           probes == state[p] = "HALF_OPEN" \/ (state[p] = "OPEN" /\ cool[p])
       IN  /\ cool' = [cool EXCEPT ![p] = @ /\ ~adopts]
           /\ \/ adopts /\ Reject(p, c, "OPEN")
              \/ state[p] = "OPEN" /\ ~cool[p] /\ Reject(p, c, "OPEN")
              \/ probes /\ probing[p] /\ Reject(p, c, "HALF_OPEN")
              \/ /\ probes /\ ~probing[p]
                 /\ state' = [state EXCEPT ![p] = "HALF_OPEN"]
                 /\ probing' = [probing EXCEPT ![p] = TRUE]
                 /\ Ask(p, c)
              \/ /\ state[p] = "CLOSED" /\ ~adopts
                 /\ Ask(p, c)
                 /\ UNCHANGED <<state, probing>>
    /\ UNCHANGED <<up, outages, failures, shared>>

\* The provider answered: any breaker that is not CLOSED closes.
Succeed(p, c) ==
    /\ at[p][c] \in {"asked", "askedInOutage"} /\ up
    /\ state' = [state EXCEPT ![p] = "CLOSED"]
    /\ failures' = [failures EXCEPT ![p] = IF state[p] = "CLOSED" THEN @ ELSE 0]
    /\ probing' = [probing EXCEPT ![p] = FALSE]
    /\ Goto(p, c, "idle")
    /\ UNCHANGED <<up, outages, cool, shared>>

\* What a failure does to the breaker; a trip is broadcast, if Redis takes it.
Count(p) ==
    LET n == IF failures[p] < FailLimit THEN failures[p] + 1 ELSE failures[p]
    IN  /\ failures' = [failures EXCEPT ![p] = n]
        /\ cool' = [cool EXCEPT ![p] = FALSE]
        /\ IF n = FailLimit
           THEN /\ state' = [state EXCEPT ![p] = "OPEN"]
                /\ shared' \in {shared, TRUE}
           ELSE UNCHANGED <<state, shared>>

\* The answer was an error or a time-out.
Refused(p, c) == at[p][c] = "askedInOutage" \/ (at[p][c] = "asked" /\ ~up)

\* Mutant: only a success takes the probe flag back.
Fail_KeepsProbe(p, c) ==
    /\ Refused(p, c)
    /\ Count(p)
    /\ Goto(p, c, "idle")
    /\ UNCHANGED <<up, outages, probing>>

Fail(p, c) ==
    /\ Refused(p, c)
    /\ Count(p)
    /\ probing' = [probing EXCEPT ![p] = FALSE]
    /\ Goto(p, c, "idle")
    /\ UNCHANGED <<up, outages>>

CallStep(p, c) == SyncFromStore(p, c) \/ Admit(p, c) \/ Succeed(p, c) \/ Fail(p, c)

\* The reset time passes in a process; the shared window ends.
Elapse(p) ==
    /\ state[p] = "OPEN" /\ ~cool[p]
    /\ cool' = [cool EXCEPT ![p] = TRUE]
    /\ UNCHANGED <<up, outages, state, failures, probing, shared, at>>

Expire ==
    /\ shared
    /\ shared' = FALSE
    /\ UNCHANGED <<up, outages, breakerVars, at>>

\* The provider goes down and comes back.
Outage ==
    /\ up /\ outages < MaxOutages
    /\ up' = FALSE /\ outages' = outages + 1
    /\ UNCHANGED <<breakerVars, shared, at>>

Recover ==
    /\ ~up
    /\ up' = TRUE
    /\ UNCHANGED <<outages, breakerVars, shared, at>>

Next ==
    \/ \E p \in Processes, c \in Calls : CallStep(p, c)
    \/ \E p \in Processes : Elapse(p)
    \/ Expire \/ Outage \/ Recover

-----------------------------------------------------------------------------
(* Properties. *)

\* A breaker that refuses everybody because of its probe has a call under way
\* whose answer takes the flag back: overlapping, overtaken, failed and adopted
\* probes never leave a process refusing for ever.
ProbeHasACaller ==
    \A p \in Processes :
        probing[p] => \E c \in Calls : at[p][c] \in {"asked", "askedInOutage"}
=============================================================================
