----------------------------- MODULE QuoteToJob -----------------------------
(***************************************************************************)
(* From a price to a job: the quotes put on one work opportunity and what  *)
(* an accepted one starts (routes/delivery.ts), the older way from a won   *)
(* opportunity straight to a job site (routes/opportunities.ts), and the   *)
(* shifts logged meanwhile, which are costed to a job or to a site         *)
(* (routes/ops/utils.ts).                                                  *)
(*                                                                         *)
(* A handler reads, then runs one transaction; other handlers run between  *)
(* the two.  Unique indexes allow one ACCEPTED quote per opportunity and   *)
(* one job per quote.                                                      *)
(***************************************************************************)
EXTENDS Naturals

CONSTANTS
    Quotes,  \* quotes on the opportunity
    NoQuote, \* not a quote
    Sites,   \* job sites, made or not
    NoSite,  \* not a site
    Calls    \* requests that may run at the same time

VARIABLES
    won,     \* is Opportunity.status WON
    oppSite, \* Opportunity.opsJobSiteId
    quote,   \* Quote.status, "NONE" without a row
    made,    \* the OpsJobSite rows
    jobs,    \* the Job rows, none of which is ever cancelled
    loose,   \* sites that have shifts without a job
    call,    \* the requests
    slipped  \* history: sites where a shift was filed under the site after a job came

vars == <<won, oppSite, quote, made, jobs, loose, call, slipped>>

QuoteStatus == {"NONE", "DRAFT", "SUBMITTED", "ACCEPTED", "REJECTED", "WITHDRAWN"}
Job == [site : Sites, quote : Quotes \cup {NoQuote}]

TypeOK ==
    /\ won \in BOOLEAN
    /\ oppSite \in Sites \cup {NoSite}
    /\ quote \in [Quotes -> QuoteStatus]
    /\ made \subseteq Sites
    /\ jobs \subseteq Job
    /\ loose \subseteq made
    /\ call \in [Calls -> [pc : {"idle"}] \cup [pc : {"decide"}, quote : Quotes, from : QuoteStatus, to : QuoteStatus]
                     \cup [pc : {"deliver"}, quote : Quotes, given : Sites \cup {NoSite}, seen : Sites \cup {NoSite}]
                     \cup [pc : {"direct"}] \cup [pc : {"shift"}, site : Sites]]
    /\ slipped \subseteq made

Idle == [pc |-> "idle"]

\* Sites without a job may be there already.
Init ==
    /\ won = FALSE /\ oppSite = NoSite
    /\ quote = [q \in Quotes |-> "NONE"]
    /\ made \in SUBSET Sites
    /\ jobs = {} /\ loose = {} /\ slipped = {}
    /\ call = [c \in Calls |-> Idle]

Begin(c, request) == call[c] = Idle /\ call' = [call EXCEPT ![c] = request]
End(c) == call' = [call EXCEPT ![c] = Idle]

JobsAt(s) == {j \in jobs : j.site = s}
HasJob(q) == \E j \in jobs : j.quote = q

-----------------------------------------------------------------------------
(* Quotes *)

Propose(q) ==
    /\ quote[q] = "NONE"
    /\ \E st \in {"DRAFT", "SUBMITTED"} : quote' = [quote EXCEPT ![q] = st]
    /\ UNCHANGED <<won, oppSite, made, jobs, loose, call, slipped>>

CanTransition(from, to) ==
    \/ from = "DRAFT" /\ to \in {"SUBMITTED", "WITHDRAWN"}
    \/ from = "SUBMITTED" /\ to \in {"ACCEPTED", "REJECTED", "WITHDRAWN"}

ReadQuote(c, q, to) ==
    /\ CanTransition(quote[q], to)
    /\ Begin(c, [pc |-> "decide", quote |-> q, from |-> quote[q], to |-> to])
    /\ UNCHANGED <<won, oppSite, quote, made, jobs, loose, slipped>>

\* The unique index on accepted quotes lets q become st.
Allowed(q, st) == st = "ACCEPTED" => \A other \in Quotes \ {q} : quote[other] # "ACCEPTED"

\* Mutant: the status that was read is not compared.
Decide_NoCompareAndSet(c) ==
    LET q == call[c].quote IN
    /\ call[c].pc = "decide"
    /\ IF Allowed(q, call[c].to)
       THEN /\ quote' = [quote EXCEPT ![q] = call[c].to]
            /\ won' = (won \/ call[c].to = "ACCEPTED")
       ELSE UNCHANGED <<quote, won>>
    /\ End(c)
    /\ UNCHANGED <<oppSite, made, jobs, loose, slipped>>

\* The transaction moves the quote if it still is as it was read; ACCEPTED also
\* makes the opportunity WON.
Decide(c) ==
    LET q == call[c].quote IN
    /\ call[c].pc = "decide"
    /\ IF quote[q] = call[c].from /\ Allowed(q, call[c].to)
       THEN /\ quote' = [quote EXCEPT ![q] = call[c].to]
            /\ won' = (won \/ call[c].to = "ACCEPTED")
       ELSE UNCHANGED <<quote, won>>
    /\ End(c)
    /\ UNCHANGED <<oppSite, made, jobs, loose, slipped>>

\* PATCH /opportunities/:id/status
SetOutcome ==
    /\ won' = ~won
    /\ UNCHANGED <<oppSite, quote, made, jobs, loose, call, slipped>>

-----------------------------------------------------------------------------
(* POST /quotes/:id/job *)

\* The accepted quote without a job, the site the caller names, if any, and the
\* site of the opportunity.
ReadAccepted(c, q, given) ==
    /\ quote[q] = "ACCEPTED" /\ ~HasJob(q)
    /\ given \in made \cup {NoSite}
    /\ Begin(c, [pc |-> "deliver", quote |-> q, given |-> given, seen |-> oppSite])
    /\ UNCHANGED <<won, oppSite, quote, made, jobs, loose, slipped>>

Target(c) == IF call[c].given # NoSite THEN call[c].given ELSE call[c].seen

\* Mutant: the site's shifts stay where they are.
JobAtSite_LeavesShifts(s, q) == jobs' = jobs \cup {[site |-> s, quote |-> q]} /\ UNCHANGED loose

\* A job at site s; the first one takes the site's shifts.
JobAtSite(s, q) ==
    /\ jobs' = jobs \cup {[site |-> s, quote |-> q]}
    /\ loose' = IF JobsAt(s) = {} THEN loose \ {s} ELSE loose

\* The transaction of a quote whose site is known: its opportunity's site passes
\* its job without a quote on, and the opportunity without a site takes this one.
DeliverAt(c, s) ==
    LET q == call[c].quote
        own == call[c].seen = s
        waiting == {j \in JobsAt(s) : j.quote = NoQuote}
    IN /\ s \in made
       /\ IF own /\ waiting # {}
          THEN /\ \E j \in waiting : jobs' = (jobs \ {j}) \cup {[j EXCEPT !.quote = q]}
               /\ UNCHANGED loose
          ELSE JobAtSite(s, q)
       /\ oppSite' = IF call[c].seen = NoSite /\ oppSite = NoSite THEN s ELSE oppSite
       /\ UNCHANGED made

\* The transaction of a quote without a site: a new one, which the opportunity
\* must still be able to take.
DeliverAnew(c, s) ==
    /\ s \notin made /\ oppSite = NoSite
    /\ made' = made \cup {s}
    /\ oppSite' = s
    /\ jobs' = jobs \cup {[site |-> s, quote |-> call[c].quote]}
    /\ UNCHANGED loose

\* A quote that has got a job meanwhile, or an opportunity that has got a site,
\* rolls the transaction back.
Deliver(c) ==
    /\ call[c].pc = "deliver"
    /\ \/ /\ ~HasJob(call[c].quote)
          /\ \/ Target(c) # NoSite /\ DeliverAt(c, Target(c))
             \/ Target(c) = NoSite /\ \E s \in Sites : DeliverAnew(c, s)
       \/ /\ HasJob(call[c].quote) \/ (Target(c) = NoSite /\ oppSite # NoSite)
          /\ UNCHANGED <<oppSite, made, jobs, loose>>
    /\ End(c)
    /\ UNCHANGED <<won, quote, slipped>>

-----------------------------------------------------------------------------
(* POST /opportunities/:id/create-job *)

ReadWon(c) ==
    /\ won /\ oppSite = NoSite
    /\ Begin(c, [pc |-> "direct"])
    /\ UNCHANGED <<won, oppSite, quote, made, jobs, loose, slipped>>

\* A new site and its job, with the accepted quote that has none; rolled back when
\* the opportunity has got a site meanwhile.
Direct(c) ==
    LET accepted == {q \in Quotes : quote[q] = "ACCEPTED" /\ ~HasJob(q)} IN
    /\ call[c].pc = "direct"
    /\ \/ /\ oppSite = NoSite
          /\ \E s \in Sites \ made, q \in IF accepted = {} THEN {NoQuote} ELSE accepted :
                /\ made' = made \cup {s}
                /\ oppSite' = s
                /\ jobs' = jobs \cup {[site |-> s, quote |-> q]}
       \/ oppSite # NoSite /\ UNCHANGED <<oppSite, made, jobs>>
    /\ End(c)
    /\ UNCHANGED <<won, quote, loose, slipped>>

-----------------------------------------------------------------------------
(* Shifts *)

\* resolveShiftJobId finds no job at the site: the shift will have none.
Resolve(c, s) ==
    /\ s \in made /\ JobsAt(s) = {}
    /\ Begin(c, [pc |-> "shift", site |-> s])
    /\ UNCHANGED <<won, oppSite, quote, made, jobs, loose, slipped>>

CreateShift(c) ==
    LET s == call[c].site IN
    /\ call[c].pc = "shift"
    /\ loose' = loose \cup {s}
    /\ slipped' = IF JobsAt(s) = {} THEN slipped ELSE slipped \cup {s}
    /\ End(c)
    /\ UNCHANGED <<won, oppSite, quote, made, jobs>>

Next ==
    \/ \E q \in Quotes : Propose(q)
    \/ SetOutcome
    \/ \E c \in Calls :
          \/ \E q \in Quotes, to \in QuoteStatus : ReadQuote(c, q, to)
          \/ \E q \in Quotes, given \in Sites \cup {NoSite} : ReadAccepted(c, q, given)
          \/ Decide(c) \/ Deliver(c) \/ ReadWon(c) \/ Direct(c)
          \/ (\E s \in Sites : Resolve(c, s)) \/ CreateShift(c)

Spec == Init /\ [][Next]_vars

-----------------------------------------------------------------------------

\* Work is delivered on what the buyer agreed to: however decisions, both ways to
\* a job and stale reads interleave, at most one quote is accepted, a job's quote
\* is the accepted one and stays so, and no two jobs stand on one quote.
JobOnAcceptedQuote ==
    /\ \A p, q \in Quotes : quote[p] = "ACCEPTED" /\ quote[q] = "ACCEPTED" => p = q
    /\ \A j \in jobs : j.quote # NoQuote => quote[j.quote] = "ACCEPTED"
    /\ \A j, k \in jobs : j.quote = k.quote /\ j.quote # NoQuote => j = k

\* A site with a job has no shift that belongs to no job, whose hours no closeout
\* would ever count.  Excused: a shift whose job was looked up before the job came.
LabourHasAJob == \A j \in jobs : j.site \notin loose \ slipped

=============================================================================
