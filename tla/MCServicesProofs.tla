-------------------------- MODULE MCServicesProofs --------------------------
(***************************************************************************)
(* Theorems about the services of MCServices, for any messages, tabs,      *)
(* quotes, sites, shifts and calls, and any bounds.                        *)
(***************************************************************************)
EXTENDS MCServices, TLAPS

-----------------------------------------------------------------------------
(* A step of the whole is a step of each service or leaves it alone.       *)

LEMMA EachServiceSteps ==
    ASSUME [ServicesNext]_allVars
    PROVE  /\ [Mail!Next]_mailVars
           /\ [Upload!Next]_uploadVars
           /\ [Ledger!Next]_ledgerVars
           /\ [Quote!Next]_quoteVars
           /\ [Job!Next]_jobVars
<1>1. CASE UNCHANGED allVars
  BY <1>1 DEF allVars
<1>2. CASE InboxStep
  BY <1>2 DEF InboxStep, InInbox
<1>3. CASE MailStep
  BY <1>3 DEF MailStep, InMail
<1>4. CASE UploadStep
  BY <1>4 DEF UploadStep, InUpload
<1>5. CASE LedgerStep
  BY <1>5 DEF LedgerStep, InLedger
<1>6. CASE QuoteStep
  BY <1>6 DEF QuoteStep, InQuote
<1>7. CASE JobStep
  BY <1>7 DEF JobStep, InJob
<1>8. QED
  BY <1>1, <1>2, <1>3, <1>4, <1>5, <1>6, <1>7 DEF ServicesNext

-----------------------------------------------------------------------------
(* JobCloseout: types. *)

\* A job that was closed, or a call that saw it closed, has a version to log.
ClosedHasVersion ==
    /\ job.status = "COMPLETE" => job.version > 0
    /\ \A c \in Closers : closer[c].pc = "reopen" => closer[c].version > 0

JobTyped == Job!TypeOK /\ ClosedHasVersion

LEMMA JobTypedStep == ASSUME JobTyped, [Job!Next]_jobVars PROVE JobTyped'
<1> USE JobAssumption DEF JobTyped, ClosedHasVersion, Job!TypeOK, Job!Figures
<1>1. CASE UNCHANGED jobVars
  BY <1>1 DEF jobVars
<1>2. ASSUME NEW s \in Shifts, Job!Create(s) PROVE JobTyped'
  BY <1>2 DEF Job!Create, Job!Appear, Job!Gone
<1>3. ASSUME NEW s \in Shifts, Job!Delete(s) PROVE JobTyped'
  BY <1>3 DEF Job!Delete, Job!Touch, Job!Gone
<1>4. ASSUME NEW s \in Shifts, NEW w \in Crew, Job!ReadShift(w, s) PROVE JobTyped'
  BY <1>4 DEF Job!ReadShift
<1>5. ASSUME NEW w \in Crew, Job!WriteShift(w) PROVE JobTyped'
  BY <1>5 DEF Job!WriteShift, Job!Touch, Job!Gone
<1>6. ASSUME NEW c \in Closers, Job!Load(c) PROVE JobTyped'
  BY <1>6 DEF Job!Load, Job!Resting
<1>7. ASSUME NEW c \in Closers, Job!ReadShifts(c) PROVE JobTyped'
  BY <1>7 DEF Job!ReadShifts, Job!Rest, Job!Resting, Job!Made
<1>8. ASSUME NEW c \in Closers, Job!Stamp(c) PROVE JobTyped'
  <2>1. Job!Made \in SUBSET Shifts
    BY DEF Job!Made
  <2>2. closer' = [closer EXCEPT ![c] = [closer[c] EXCEPT !.pc = "write", !.known = Job!Made]]
    BY <1>8 DEF Job!Stamp
  <2>3. QED
    BY <1>8, <2>1, <2>2 DEF Job!Stamp
<1>9. ASSUME NEW c \in Closers, Job!CloseWrite(c) PROVE JobTyped'
  BY <1>9 DEF Job!CloseWrite, Job!Closed, Job!Rest, Job!Resting
<1>10. ASSUME NEW c \in Closers, Job!ReopenWrite(c) PROVE JobTyped'
  <2>1. closer' \in [Closers -> [pc : {"idle", "shifts", "stamp", "write", "reopen"},
                       version : 0..MaxVersion, frozen : SUBSET (Shifts \X (0..MaxHours)),
                       known : SUBSET Shifts, gap : SUBSET Shifts, touched : SUBSET Shifts]]
    BY <1>10 DEF Job!ReopenWrite, Job!Rest, Job!Resting
  <2>2. \A k \in Closers : closer'[k].pc = "reopen" => closer'[k].version > 0
    BY <1>10 DEF Job!ReopenWrite, Job!Rest, Job!Resting
  <2>3. CASE job.status # "COMPLETE"
    BY <1>10, <2>1, <2>2, <2>3 DEF Job!ReopenWrite
  <2>4. CASE job.status = "COMPLETE"
    <3>1. job.version \in 1..MaxVersion /\ closer[c].version \in 1..MaxVersion
      BY <1>10, <2>4 DEF Job!ReopenWrite
    <3>2. audit' \subseteq 1..MaxVersion /\ mislaid' \subseteq 1..MaxVersion
      BY <1>10, <2>4, <3>1 DEF Job!ReopenWrite
    <3>3. job' = [job EXCEPT !.status = "ACTIVE", !.frozen = {}, !.known = {}, !.gap = {}, !.touched = {}]
      BY <1>10, <2>4 DEF Job!ReopenWrite
    <3>4. QED
      BY <1>10, <2>1, <2>2, <3>2, <3>3 DEF Job!ReopenWrite
  <2>5. QED
    BY <2>3, <2>4
<1>11. QED
  BY <1>1, <1>2, <1>3, <1>4, <1>5, <1>6, <1>7, <1>8, <1>9, <1>10 DEF Job!Next

-----------------------------------------------------------------------------
(* JobCloseout: the history of closeouts.                                  *)

LEMMA JobHistoryStep ==
    ASSUME JobTyped, CloseoutHistoryKept, [Job!Next]_jobVars
    PROVE  CloseoutHistoryKept'
<1> USE DEF CloseoutHistoryKept, Job!CloseoutHistoryKept, JobTyped, Job!TypeOK
<1>1. ASSUME NEW s \in Shifts, Job!Create(s) \/ Job!Delete(s) \/ (\E w \in Crew : Job!ReadShift(w, s))
      PROVE CloseoutHistoryKept'
  BY <1>1 DEF Job!Create, Job!Delete, Job!ReadShift, Job!Touch
<1>2. ASSUME NEW w \in Crew, Job!WriteShift(w) PROVE CloseoutHistoryKept'
  BY <1>2 DEF Job!WriteShift, Job!Touch
<1>3. ASSUME NEW c \in Closers, Job!Load(c) \/ Job!ReadShifts(c) \/ Job!Stamp(c)
      PROVE CloseoutHistoryKept'
  BY <1>3 DEF Job!Load, Job!ReadShifts, Job!Stamp
<1>4. ASSUME NEW c \in Closers, Job!CloseWrite(c) PROVE CloseoutHistoryKept'
  BY <1>4 DEF Job!CloseWrite, Job!Closed
<1>5. ASSUME NEW c \in Closers, Job!ReopenWrite(c) PROVE CloseoutHistoryKept'
  <2>1. CASE job.status # "COMPLETE"
    BY <1>5, <2>1 DEF Job!ReopenWrite
  <2>2. CASE job.status = "COMPLETE"
    <3>1. job'.version = job.version
      BY <1>5, <2>2 DEF Job!ReopenWrite
    <3>2. job.version \in audit' \cup mislaid' /\ audit \subseteq audit' /\ mislaid \subseteq mislaid'
      BY <1>5, <2>2 DEF Job!ReopenWrite
    <3>3. QED
      BY <2>2, <3>1, <3>2
  <2>3. QED
    BY <2>1, <2>2
<1>6. QED
  BY <1>1, <1>2, <1>3, <1>4, <1>5 DEF Job!Next, jobVars

\* Every snapshot a closeout froze stays the current one or goes to the audit
\* log, for any number of closeouts and reopenings that race.
THEOREM HistoryIsKept == FairSpec => []CloseoutHistoryKept
<1>1. ServicesInit => JobTyped /\ CloseoutHistoryKept
  BY JobAssumption DEF ServicesInit, JobTyped, ClosedHasVersion, CloseoutHistoryKept,
     Job!Init, Job!CloseoutHistoryKept, Job!TypeOK, Job!Resting, Job!None, Job!Gone, Job!Figures
<1>2. (JobTyped /\ CloseoutHistoryKept) /\ [ServicesNext]_allVars => (JobTyped /\ CloseoutHistoryKept)'
  BY EachServiceSteps, JobTypedStep, JobHistoryStep
<1>3. QED
  BY <1>1, <1>2, PTL DEF FairSpec

-----------------------------------------------------------------------------
(* JobCloseout: the labour in the figures of a closed job.                 *)

\* Shifts that exist or existed.
Created == {s \in Shifts : hours[s] # Job!None}

\* What a snapshot x owes to the shifts in `known'.
Owes(x, known) ==
    /\ \A f \in x.frozen : f[2] > 0
    /\ \A s \in (Job!Made \cap known) \ (x.gap \cup x.touched) : <<s, hours[s]>> \in x.frozen

\* A closeout that has read the shifts owes every shift, one that has its stamp
\* and a closed job owe those known at the stamp, none of which is yet to come.
LabourInv ==
    /\ \A c \in Closers :
         /\ closer[c].pc = "stamp" => Owes(closer[c], Shifts)
         /\ closer[c].pc = "write" => Owes(closer[c], closer[c].known) /\ closer[c].known \subseteq Created
    /\ job.status = "COMPLETE" => Owes(job, job.known) /\ job.known \subseteq Created

LEMMA LabourInvStep ==
    ASSUME JobTyped, LabourInv, [Job!Next]_jobVars
    PROVE  LabourInv'
<1> USE JobAssumption DEF LabourInv, Owes, Created, JobTyped, Job!TypeOK, Job!Figures, Job!Made, Job!None, Job!Gone
<1>1. CASE UNCHANGED jobVars
  BY <1>1 DEF jobVars
<1>2. ASSUME NEW s \in Shifts, Job!Create(s) PROVE LabourInv'
  <2>1. \A t \in Shifts \ {s} : hours'[t] = hours[t]
    BY <1>2 DEF Job!Create
  <2>2. hours[s] = MaxHours + 1 /\ hours'[s] # MaxHours + 2
    BY <1>2 DEF Job!Create
  <2>3. \A c \in Closers :
          /\ closer[c].pc = "stamp" => closer'[c] = [closer[c] EXCEPT !.gap = @ \cup {s}]
          /\ closer[c].pc # "stamp" => closer'[c] = closer[c]
    BY <1>2 DEF Job!Create, Job!Appear
  <2>4. job' = job /\ s \notin Created /\ Created \subseteq Created' /\ Job!Made' \subseteq Job!Made \cup {s}
    BY <1>2, <2>1, <2>2 DEF Job!Create
  <2>5. ASSUME NEW c \in Closers, closer[c].pc = "stamp" PROVE Owes(closer[c], Shifts)'
    <3>1. closer'[c].frozen = closer[c].frozen /\ closer'[c].gap = closer[c].gap \cup {s}
          /\ closer'[c].touched = closer[c].touched
      BY <2>3, <2>5
    <3>2. QED
      BY <2>1, <2>4, <2>5, <3>1
  <2>6. ASSUME NEW c \in Closers, closer[c].pc = "write"
        PROVE  (Owes(closer[c], closer[c].known) /\ closer[c].known \subseteq Created)'
    BY <2>1, <2>3, <2>4, <2>6
  <2>7. ASSUME job.status = "COMPLETE"
        PROVE  (Owes(job, job.known) /\ job.known \subseteq Created)'
    BY <2>1, <2>4, <2>7
  <2>8. \A c \in Closers : closer'[c].pc = closer[c].pc
    BY <2>3
  <2>9. QED
    BY <2>4, <2>5, <2>6, <2>7, <2>8
<1>3. ASSUME NEW s \in Shifts, s \in Job!Made, Job!Touch(s),
             hours'[s] # Job!None, \A t \in Shifts \ {s} : hours'[t] = hours[t]
      PROVE LabourInv'
  <2>1. Created' = Created /\ Job!Made' \subseteq Job!Made
    BY <1>3
  <2>2. \A c \in Closers :
          /\ closer[c].pc \in {"stamp", "write"} => closer'[c] = [closer[c] EXCEPT !.touched = @ \cup {s}]
          /\ closer[c].pc \notin {"stamp", "write"} => closer'[c] = closer[c]
    BY <1>3 DEF Job!Touch
  <2>3. job' = IF job.status = "COMPLETE" THEN [job EXCEPT !.touched = @ \cup {s}] ELSE job
    BY <1>3 DEF Job!Touch
  <2>4. ASSUME NEW c \in Closers, closer[c].pc = "stamp" PROVE Owes(closer[c], Shifts)'
    <3>1. closer'[c].frozen = closer[c].frozen /\ closer'[c].gap = closer[c].gap
          /\ closer'[c].touched = closer[c].touched \cup {s}
      BY <2>2, <2>4
    <3>2. QED
      BY <1>3, <2>1, <2>4, <3>1
  <2>5. ASSUME NEW c \in Closers, closer[c].pc = "write"
        PROVE  (Owes(closer[c], closer[c].known) /\ closer[c].known \subseteq Created)'
    <3>1. closer'[c].frozen = closer[c].frozen /\ closer'[c].gap = closer[c].gap
          /\ closer'[c].touched = closer[c].touched \cup {s} /\ closer'[c].known = closer[c].known
      BY <2>2, <2>5
    <3>2. QED
      BY <1>3, <2>1, <2>5, <3>1
  <2>6. ASSUME job.status = "COMPLETE"
        PROVE  (Owes(job, job.known) /\ job.known \subseteq Created)'
    <3>1. job'.frozen = job.frozen /\ job'.gap = job.gap
          /\ job'.touched = job.touched \cup {s} /\ job'.known = job.known
      BY <2>3, <2>6
    <3>2. QED
      BY <1>3, <2>1, <2>6, <3>1
  <2>7. job'.status = job.status /\ \A c \in Closers : closer'[c].pc = closer[c].pc
    BY <2>2, <2>3
  <2>8. QED
    BY <2>4, <2>5, <2>6, <2>7
<1>4. ASSUME UNCHANGED <<job, hours, closer>> PROVE LabourInv'
  BY <1>4
<1>5. ASSUME NEW w \in Crew, Job!WriteShift(w) PROVE LabourInv'
  <2>1. crew[w] \in Shifts
    BY <1>5 DEF Job!WriteShift
  <2>2. CASE crew[w] \in Job!Made /\ hours[crew[w]] < MaxHours
    BY <1>3, <1>5, <2>1, <2>2 DEF Job!WriteShift
  <2>3. CASE ~(crew[w] \in Job!Made /\ hours[crew[w]] < MaxHours)
    BY <1>4, <1>5, <2>3 DEF Job!WriteShift
  <2>4. QED
    BY <2>2, <2>3
<1>6. ASSUME NEW c \in Closers, Job!Load(c) PROVE LabourInv'
  BY <1>6 DEF Job!Load, Job!Resting
<1>7. ASSUME NEW c \in Closers, Job!ReadShifts(c) PROVE LabourInv'
  BY <1>7 DEF Job!ReadShifts, Job!Rest, Job!Resting, Job!Open
<1>8. ASSUME NEW c \in Closers, Job!Stamp(c) PROVE LabourInv'
  BY <1>8 DEF Job!Stamp
<1>9. ASSUME NEW c \in Closers, Job!CloseWrite(c) PROVE LabourInv'
  BY <1>9 DEF Job!CloseWrite, Job!Closed, Job!Rest, Job!Resting
<1>10. ASSUME NEW c \in Closers, Job!ReopenWrite(c) PROVE LabourInv'
  BY <1>10 DEF Job!ReopenWrite, Job!Rest, Job!Resting
<1>11. ASSUME NEW s \in Shifts, Job!Delete(s) PROVE LabourInv'
  BY <1>3, <1>11 DEF Job!Delete
<1>12. ASSUME NEW s \in Shifts, NEW w \in Crew, Job!ReadShift(w, s) PROVE LabourInv'
  BY <1>4, <1>12 DEF Job!ReadShift
<1>13. QED
  BY <1>1, <1>2, <1>5, <1>6, <1>7, <1>8, <1>9, <1>10, <1>11, <1>12 DEF Job!Next

\* The figures of a closed job hold its labour as it is, or the job shows it as
\* late, whatever clocks, edits, deletions, closeouts and reopenings do.
THEOREM LabourStaysAccounted == FairSpec => []LabourIsAccounted
<1>1. ServicesInit => JobTyped /\ LabourInv
  BY JobAssumption DEF ServicesInit, JobTyped, ClosedHasVersion, LabourInv,
     Job!Init, Job!TypeOK, Job!Resting, Job!None, Job!Gone, Job!Figures
<1>2. (JobTyped /\ LabourInv) /\ [ServicesNext]_allVars => (JobTyped /\ LabourInv)'
  BY EachServiceSteps, JobTypedStep, LabourInvStep
<1>3. LabourInv => LabourIsAccounted
  BY DEF LabourInv, Owes, LabourIsAccounted, Job!LabourIsAccounted
<1>4. QED
  BY <1>1, <1>2, <1>3, PTL DEF FairSpec

-----------------------------------------------------------------------------
(* QuoteToJob.                                                             *)

\* What a request knows when its transaction runs: a decision moves a quote that
\* is still open, a delivery has an accepted quote, a shift has a site.
RequestsKnow ==
    \A c \in Calls :
        /\ request[c].pc = "decide" => Quote!CanTransition(request[c].from, request[c].to)
        /\ request[c].pc = "deliver" => quote[request[c].quote] = "ACCEPTED"
        /\ request[c].pc = "shift" => request[c].site \in made

QuoteInv == Quote!TypeOK /\ RequestsKnow /\ JobOnAcceptedQuote /\ LabourHasAJob

\* A request by its place.
LEMMA RequestKinds ==
    ASSUME Quote!TypeOK, NEW c \in Calls
    PROVE  /\ request[c].pc \in {"idle", "decide", "deliver", "direct", "shift"}
           /\ request[c].pc = "decide" =>
                request[c].quote \in Quotes /\ {request[c].from, request[c].to} \subseteq Quote!QuoteStatus
           /\ request[c].pc = "deliver" =>
                request[c].quote \in Quotes /\ {request[c].given, request[c].seen} \subseteq Sites \cup {NoSite}
           /\ request[c].pc = "shift" => request[c].site \in Sites
BY DEF Quote!TypeOK

\* A step that leaves the quotes, the jobs and the shifts alone, and has one
\* request begin or end.
LEMMA RequestStep ==
    ASSUME QuoteInv, UNCHANGED <<quote, made, jobs, loose, slipped, oppSite>>, won' \in BOOLEAN,
           NEW c \in Calls,
           \/ Quote!End(c)
           \/ \E q \in Quotes, to \in Quote!QuoteStatus :
                 /\ Quote!CanTransition(quote[q], to)
                 /\ Quote!Begin(c, [pc |-> "decide", quote |-> q, from |-> quote[q], to |-> to])
           \/ \E q \in Quotes, given \in Sites \cup {NoSite} :
                 /\ quote[q] = "ACCEPTED"
                 /\ Quote!Begin(c, [pc |-> "deliver", quote |-> q, given |-> given, seen |-> oppSite])
           \/ Quote!Begin(c, [pc |-> "direct"])
           \/ \E s \in made : Quote!Begin(c, [pc |-> "shift", site |-> s])
    PROVE  QuoteInv'
<1> USE DEF QuoteInv
<1>1. Quote!TypeOK'
  BY DEF Quote!TypeOK, Quote!Begin, Quote!End, Quote!Idle
<1>2. RequestsKnow'
  BY DEF RequestsKnow, Quote!TypeOK, Quote!Begin, Quote!End, Quote!Idle
<1>3. (JobOnAcceptedQuote /\ LabourHasAJob)'
  BY DEF JobOnAcceptedQuote, LabourHasAJob, Quote!JobOnAcceptedQuote, Quote!LabourHasAJob
<1>4. QED
  BY <1>1, <1>2, <1>3

\* A quote is moved by its open status only, and one at a time is accepted.
LEMMA DecideStep == ASSUME QuoteInv, NEW c \in Calls, Quote!Decide(c) PROVE QuoteInv'
<1> USE QuoteAssumption DEF QuoteInv
<1> DEFINE q == request[c].quote
           to == request[c].to
<1>1. request[c].pc = "decide" /\ Quote!End(c) /\ UNCHANGED <<oppSite, made, jobs, loose, slipped>>
  BY DEF Quote!Decide
<1>2. q \in Quotes /\ to \in Quote!QuoteStatus /\ Quote!CanTransition(request[c].from, to)
  BY <1>1, RequestKinds DEF RequestsKnow
<1>3. CASE UNCHANGED <<quote, won>>
  BY <1>1, <1>3, RequestStep DEF Quote!TypeOK
<1>4. CASE /\ quote[q] = request[c].from /\ Quote!Allowed(q, to)
           /\ quote' = [quote EXCEPT ![q] = to] /\ won' = (won \/ to = "ACCEPTED")
  <2>1. quote[q] # "ACCEPTED"
    BY <1>2, <1>4 DEF Quote!CanTransition
  <2>2. Quote!TypeOK'
    BY <1>1, <1>2, <1>4 DEF Quote!TypeOK, Quote!End, Quote!Idle
  <2>3. \A p \in Quotes : quote[p] = "ACCEPTED" => quote'[p] = "ACCEPTED"
    BY <1>2, <1>4, <2>1 DEF Quote!TypeOK
  <2>4. \A p, r \in Quotes : quote'[p] = "ACCEPTED" /\ quote'[r] = "ACCEPTED" => p = r
    BY <1>2, <1>4 DEF Quote!TypeOK, Quote!Allowed, JobOnAcceptedQuote, Quote!JobOnAcceptedQuote
  <2>5. RequestsKnow'
    BY <1>1, <2>3, RequestKinds DEF RequestsKnow, Quote!End, Quote!Idle, Quote!TypeOK
  <2>6. JobOnAcceptedQuote' /\ LabourHasAJob'
    BY <1>1, <2>3, <2>4 DEF JobOnAcceptedQuote, Quote!JobOnAcceptedQuote, LabourHasAJob,
       Quote!LabourHasAJob, Quote!TypeOK, Quote!Job
  <2>7. QED
    BY <2>2, <2>5, <2>6
<1>5. QED
  BY <1>3, <1>4 DEF Quote!Decide

\* A new job without a quote, or with the accepted one that has none, at a site that
\* is new or whose shifts it takes; the site may come with it.
LEMMA NewJobStep ==
    ASSUME QuoteInv, NEW c \in Calls, NEW s \in Sites, NEW q \in Quotes \cup {NoQuote},
           Quote!End(c), UNCHANGED <<won, quote, slipped>>,
           q \in Quotes => quote[q] = "ACCEPTED" /\ ~Quote!HasJob(q),
           jobs' = jobs \cup {[site |-> s, quote |-> q]},
           oppSite' \in Sites \cup {NoSite},
           made' \in SUBSET Sites, made \subseteq made', loose' \subseteq loose,
           s \in loose' => Quote!JobsAt(s) # {}
    PROVE  QuoteInv'
<1> USE QuoteAssumption DEF QuoteInv
<1>1. Quote!TypeOK'
  BY DEF Quote!TypeOK, Quote!End, Quote!Idle, Quote!Job
<1>2. RequestsKnow'
  BY RequestKinds DEF RequestsKnow, Quote!TypeOK, Quote!End, Quote!Idle
<1>3. JobOnAcceptedQuote'
  BY DEF JobOnAcceptedQuote, Quote!JobOnAcceptedQuote, Quote!HasJob, Quote!TypeOK, Quote!Job
<1>4. LabourHasAJob'
  BY DEF LabourHasAJob, Quote!LabourHasAJob, Quote!JobsAt
<1>5. QED
  BY <1>1, <1>2, <1>3, <1>4

LEMMA DeliverStep == ASSUME QuoteInv, NEW c \in Calls, Quote!Deliver(c) PROVE QuoteInv'
<1> USE QuoteAssumption DEF QuoteInv
<1> DEFINE q == request[c].quote
<1>1. request[c].pc = "deliver" /\ Quote!End(c) /\ UNCHANGED <<won, quote, slipped>>
  BY DEF Quote!Deliver
<1>2. q \in Quotes /\ quote[q] = "ACCEPTED" /\ oppSite \in Sites \cup {NoSite} /\ made \in SUBSET Sites
  BY <1>1, RequestKinds DEF RequestsKnow, Quote!TypeOK
<1>3. CASE UNCHANGED <<oppSite, made, jobs, loose>>
  BY <1>1, <1>3, RequestStep DEF Quote!TypeOK
<1>4. ASSUME ~Quote!HasJob(q), NEW s \in Sites, Quote!DeliverAnew(c, s) PROVE QuoteInv'
  <2>1. s \notin loose /\ loose' = loose
    BY <1>4 DEF Quote!DeliverAnew, Quote!TypeOK
  <2>2. QED
    BY <1>1, <1>2, <1>4, <2>1, NewJobStep DEF Quote!DeliverAnew
<1>5. ASSUME ~Quote!HasJob(q), NEW s, Quote!DeliverAt(c, s) PROVE QuoteInv'
  <2>1. s \in made /\ s \in Sites /\ made' = made /\ oppSite' \in Sites \cup {NoSite}
    BY <1>2, <1>5 DEF Quote!DeliverAt
  <2>2. CASE Quote!JobAtSite(s, q)
    <3>1. loose' \subseteq loose /\ (s \in loose' => Quote!JobsAt(s) # {})
      BY <2>2 DEF Quote!JobAtSite
    <3>2. QED
      BY <1>1, <1>2, <1>5, <2>1, <2>2, <3>1, NewJobStep DEF Quote!JobAtSite
  <2>3. ASSUME NEW j \in Quote!JobsAt(s), j.quote = NoQuote, loose' = loose,
               jobs' = (jobs \ {j}) \cup {[j EXCEPT !.quote = q]}
        PROVE  QuoteInv'
    <3>1. j \in jobs /\ j \in Quote!Job /\ jobs' = (jobs \ {j}) \cup {[site |-> j.site, quote |-> q]}
      BY <2>3 DEF Quote!JobsAt, Quote!TypeOK, Quote!Job
    <3>2. Quote!TypeOK'
      BY <1>1, <1>2, <2>1, <2>3, <3>1 DEF Quote!TypeOK, Quote!End, Quote!Idle, Quote!Job
    <3>3. RequestsKnow'
      BY <1>1, <2>1, RequestKinds DEF RequestsKnow, Quote!TypeOK, Quote!End, Quote!Idle
    <3>4. JobOnAcceptedQuote'
      BY <1>1, <1>2, <1>5, <3>1
      DEF JobOnAcceptedQuote, Quote!JobOnAcceptedQuote, Quote!HasJob, Quote!TypeOK, Quote!Job
    <3>5. LabourHasAJob'
      BY <1>1, <2>3, <3>1 DEF LabourHasAJob, Quote!LabourHasAJob
    <3>6. QED
      BY <3>2, <3>3, <3>4, <3>5
  <2>4. QED
    BY <1>5, <2>2, <2>3 DEF Quote!DeliverAt
<1>6. QED
  BY <1>3, <1>4, <1>5 DEF Quote!Deliver

LEMMA DirectStep == ASSUME QuoteInv, NEW c \in Calls, Quote!Direct(c) PROVE QuoteInv'
<1> USE QuoteAssumption DEF QuoteInv
<1>1. Quote!End(c) /\ UNCHANGED <<won, quote, loose, slipped>>
  BY DEF Quote!Direct
<1>2. CASE UNCHANGED <<oppSite, made, jobs>>
  BY <1>1, <1>2, RequestStep DEF Quote!TypeOK
<1>3. ASSUME NEW s \in Sites \ made, NEW q \in Quotes \cup {NoQuote},
             q \in Quotes => quote[q] = "ACCEPTED" /\ ~Quote!HasJob(q),
             made' = made \cup {s}, oppSite' = s, jobs' = jobs \cup {[site |-> s, quote |-> q]}
      PROVE  QuoteInv'
  <2>1. s \notin loose /\ made' \in SUBSET Sites
    BY <1>3 DEF Quote!TypeOK
  <2>2. QED
    BY <1>1, <1>3, <2>1, NewJobStep
<1>4. QED
  BY <1>2, <1>3 DEF Quote!Direct

LEMMA QuoteInvStep == ASSUME QuoteInv, [Quote!Next]_quoteVars PROVE QuoteInv'
<1> USE QuoteAssumption DEF QuoteInv
<1>1. CASE UNCHANGED quoteVars
  BY <1>1 DEF quoteVars, Quote!TypeOK, RequestsKnow, JobOnAcceptedQuote, Quote!JobOnAcceptedQuote,
     LabourHasAJob, Quote!LabourHasAJob
<1>2. ASSUME NEW q \in Quotes, Quote!Propose(q) PROVE QuoteInv'
  <2>1. \A p \in Quotes : quote'[p] = "ACCEPTED" <=> quote[p] = "ACCEPTED"
    BY <1>2 DEF Quote!Propose, Quote!TypeOK
  <2>2. Quote!TypeOK'
    BY <1>2 DEF Quote!Propose, Quote!TypeOK, Quote!QuoteStatus
  <2>3. RequestsKnow'
    BY <1>2, <2>1, RequestKinds DEF Quote!Propose, RequestsKnow
  <2>4. JobOnAcceptedQuote' /\ LabourHasAJob'
    BY <1>2, <2>1 DEF Quote!Propose, Quote!TypeOK, Quote!Job, JobOnAcceptedQuote, Quote!JobOnAcceptedQuote,
       LabourHasAJob, Quote!LabourHasAJob
  <2>5. QED
    BY <2>2, <2>3, <2>4
<1>3. ASSUME Quote!SetOutcome PROVE QuoteInv'
  BY <1>3 DEF Quote!SetOutcome, Quote!TypeOK, RequestsKnow, JobOnAcceptedQuote, Quote!JobOnAcceptedQuote,
     LabourHasAJob, Quote!LabourHasAJob
<1>4. ASSUME NEW c \in Calls, NEW q \in Quotes, NEW to \in Quote!QuoteStatus, Quote!ReadQuote(c, q, to)
      PROVE  QuoteInv'
  BY <1>4, RequestStep DEF Quote!ReadQuote, Quote!TypeOK
<1>5. ASSUME NEW c \in Calls, NEW q \in Quotes, NEW given \in Sites \cup {NoSite}, Quote!ReadAccepted(c, q, given)
      PROVE  QuoteInv'
  BY <1>5, RequestStep DEF Quote!ReadAccepted, Quote!TypeOK
<1>6. ASSUME NEW c \in Calls, Quote!ReadWon(c) PROVE QuoteInv'
  BY <1>6, RequestStep DEF Quote!ReadWon, Quote!TypeOK
<1>7. ASSUME NEW c \in Calls, NEW s \in Sites, Quote!Resolve(c, s) PROVE QuoteInv'
  BY <1>7, RequestStep DEF Quote!Resolve, Quote!TypeOK
<1>8. ASSUME NEW c \in Calls, Quote!CreateShift(c) PROVE QuoteInv'
  <2>1. request[c].site \in made
    BY <1>8 DEF Quote!CreateShift, RequestsKnow
  <2>2. Quote!TypeOK'
    BY <1>8, <2>1 DEF Quote!CreateShift, Quote!TypeOK, Quote!End, Quote!Idle
  <2>3. RequestsKnow'
    BY <1>8, RequestKinds DEF Quote!CreateShift, RequestsKnow, Quote!TypeOK, Quote!End, Quote!Idle
  <2>4. JobOnAcceptedQuote' /\ LabourHasAJob'
    BY <1>8 DEF Quote!CreateShift, Quote!JobsAt, JobOnAcceptedQuote, Quote!JobOnAcceptedQuote,
       LabourHasAJob, Quote!LabourHasAJob
  <2>5. QED
    BY <2>2, <2>3, <2>4
<1>9. QED
  BY <1>1, <1>2, <1>3, <1>4, <1>5, <1>6, <1>7, <1>8, DecideStep, DeliverStep, DirectStep DEF Quote!Next

LEMMA QuoteInvariant == FairSpec => []QuoteInv
<1>1. ASSUME ServicesInit PROVE QuoteInv
  <2>1. Quote!Init
    BY <1>1 DEF ServicesInit
  <2>2. Quote!TypeOK
    BY <2>1 DEF Quote!Init, Quote!Idle, Quote!TypeOK, Quote!QuoteStatus
  <2>3. RequestsKnow
    BY <2>1 DEF Quote!Init, Quote!Idle, RequestsKnow
  <2>4. JobOnAcceptedQuote /\ LabourHasAJob
    BY <2>1 DEF Quote!Init, JobOnAcceptedQuote, LabourHasAJob, Quote!JobOnAcceptedQuote, Quote!LabourHasAJob
  <2>5. QED
    BY <2>2, <2>3, <2>4 DEF QuoteInv
<1>2. QuoteInv /\ [ServicesNext]_allVars => QuoteInv'
  BY EachServiceSteps, QuoteInvStep
<1>3. QED
  BY <1>1, <1>2, PTL DEF FairSpec

\* One quote of an opportunity is accepted, and the jobs that name a quote stand on
\* it, one each, for any number of quotes, sites and requests in any order.
THEOREM JobsStandOnTheQuote == FairSpec => []JobOnAcceptedQuote
BY QuoteInvariant, PTL DEF QuoteInv

\* No shift of a site with a job is without one, unless its job was looked up before
\* the job came.
THEOREM LabourFindsItsJob == FairSpec => []LabourHasAJob
BY QuoteInvariant, PTL DEF QuoteInv

-----------------------------------------------------------------------------
(* UploadQueue.                                                            *)

\* Records and runs; how far the counters of attempts go does not matter here.
Records == [state : Upload!States, blob : BOOLEAN, file : BOOLEAN, attempts : Nat, reinits : Nat]
Runs == [pc : {"idle", "get", "init", "put", "fresh", "complete", "poll", "cancel", "cancelCas"},
         copy : Records]

\* The photo's lock lets one tab run.
OneRun == \A t, u \in Tabs : tab[t].pc # "idle" /\ tab[u].pc # "idle" => t = u

\* Until the person gives the photo up nothing is cancelled, a run has an open
\* record under it, and a finished record stands for a published file.
WantedIsSafe ==
    wanted => /\ killed = {} /\ asking = {}
              /\ item.state # "cancelling"
              /\ \A t \in Tabs : /\ tab[t].pc \notin {"cancel", "cancelCas"}
                                 /\ tab[t].pc # "idle" => item.state \in {"queued", "uploading", "processing"}
              /\ item.state \in {"done", "gone"} => server = "AVAILABLE"

UploadInv ==
    /\ item \in Records /\ tab \in [Tabs -> Runs]
    /\ wanted \in BOOLEAN /\ killed \subseteq Tabs /\ asking \subseteq Tabs
    /\ OneRun /\ WantedIsSafe /\ PhotoKept

\* A run that goes on or stops, with what it may do to a record that is wanted: keep
\* the photo, or drop it because it is refused or published.
LEMMA RunStep ==
    ASSUME UploadInv, NEW t \in Tabs, tab[t].pc # "idle", wanted' = wanted,
           killed' \in SUBSET Tabs, asking' = asking,
           item' \in Records,
           wanted => /\ killed' = {}
                     /\ \/ item'.state \in {"queued", "uploading", "processing"} /\ item'.blob = item.blob
                        \/ tab'[t].pc = "idle" /\ item'.state = "failed" /\ item'.blob = item.blob
                        \/ tab'[t].pc = "idle" /\ item'.state = "rejected"
                        \/ tab'[t].pc = "idle" /\ item'.state = "done" /\ server' = "AVAILABLE",
           server = "AVAILABLE" => server' = "AVAILABLE",
           NEW r \in Runs, tab' = [tab EXCEPT ![t] = r],
           wanted => r.pc \notin {"cancel", "cancelCas"}
    PROVE  UploadInv'
<1> USE DEF UploadInv
<1>1. tab' \in [Tabs -> Runs] /\ tab'[t] = r /\ \A u \in Tabs \ {t} : tab'[u] = tab[u] /\ tab[u].pc = "idle"
  BY DEF OneRun
<1>2. OneRun'
  BY <1>1 DEF OneRun
<1>3. wanted => item.state \in {"queued", "uploading", "processing"} /\ asking = {}
  BY DEF WantedIsSafe
<1>4. WantedIsSafe'
  BY <1>1, <1>3 DEF WantedIsSafe
<1>5. PhotoKept'
  BY <1>3 DEF PhotoKept, Upload!PhotoKept
<1>6. QED
  BY <1>1, <1>2, <1>4, <1>5

\* The edits of a record give records, and keep the photo as RunStep asks.
LEMMA RecordEdits ==
    ASSUME NEW x \in Records, NEW n \in Nat
    PROVE  /\ Upload!Rejected(x) \in Records /\ Upload!Rejected(x).state = "rejected"
           /\ Upload!Requeued(x) \in Records /\ Upload!Requeued(x).state = "queued"
           /\ Upload!Requeued(x).blob = x.blob
           /\ Upload!Retried(x, n) \in Records /\ Upload!Retried(x, n).state \in {"failed", "queued"}
           /\ Upload!Retried(x, n).blob = x.blob
           /\ Upload!Done(x) \in Records /\ Upload!Done(x).state = "done"
           /\ [x EXCEPT !.state = "uploading", !.file = TRUE] \in Records
           /\ [x EXCEPT !.state = "processing"] \in Records
           /\ [x EXCEPT !.state = "queued", !.reinits = n + 1] \in Records
           /\ [x EXCEPT !.reinits = n + 1] \in Records
           /\ [x EXCEPT !.file = TRUE] \in Records
           /\ [x EXCEPT !.state = "cancelling", !.blob = FALSE, !.attempts = n + 1] \in Records
           /\ [x EXCEPT !.state = "cancelling", !.blob = FALSE, !.attempts = 0] \in Records
           /\ [x EXCEPT !.state = "queued", !.attempts = 0, !.reinits = 0] \in Records
           /\ [Upload!NoItem EXCEPT !.state = "gone"] \in Records
           /\ [Upload!NoItem EXCEPT !.state = "queued", !.blob = TRUE] \in Records
           /\ Upload!Away \in Runs /\ Upload!NoItem \in Records
<1> USE DEF Records, Upload!States, Upload!ActiveStates
<1>1. /\ Upload!Rejected(x) \in Records /\ Upload!Rejected(x).state = "rejected"
      /\ Upload!Requeued(x) \in Records /\ Upload!Requeued(x).state = "queued"
      /\ Upload!Requeued(x).blob = x.blob
      /\ Upload!Done(x) \in Records /\ Upload!Done(x).state = "done"
  BY DEF Upload!Rejected, Upload!Requeued, Upload!Done
<1> n + 1 \in Nat
  OBVIOUS
<1> /\ x \in [state : Upload!States, blob : BOOLEAN, file : BOOLEAN, attempts : Nat, reinits : Nat]
    /\ x.state \in Upload!States /\ x.blob \in BOOLEAN /\ x.file \in BOOLEAN
    /\ x.attempts \in Nat /\ x.reinits \in Nat
  OBVIOUS
<1>2. /\ Upload!Retried(x, n) \in Records /\ Upload!Retried(x, n).state \in {"failed", "queued"}
      /\ Upload!Retried(x, n).blob = x.blob
  BY DEF Upload!Retried
<1>3. /\ [x EXCEPT !.state = "uploading", !.file = TRUE] \in Records
      /\ [x EXCEPT !.state = "processing"] \in Records
      /\ [x EXCEPT !.state = "queued", !.reinits = n + 1] \in Records
      /\ [x EXCEPT !.reinits = n + 1] \in Records
      /\ [x EXCEPT !.file = TRUE] \in Records
  OBVIOUS
<1>4. /\ [x EXCEPT !.state = "cancelling", !.blob = FALSE, !.attempts = n + 1] \in Records
      /\ [x EXCEPT !.state = "cancelling", !.blob = FALSE, !.attempts = 0] \in Records
      /\ [x EXCEPT !.state = "queued", !.attempts = 0, !.reinits = 0] \in Records
  OBVIOUS
<1>5. /\ Upload!NoItem \in Records
      /\ [Upload!NoItem EXCEPT !.state = "gone"] \in Records
      /\ [Upload!NoItem EXCEPT !.state = "queued", !.blob = TRUE] \in Records
      /\ Upload!Away \in Runs
  BY DEF Upload!NoItem, Upload!Away, Runs
<1>6. QED
  BY <1>1, <1>2, <1>3, <1>4, <1>5

LEMMA FailsStep ==
    ASSUME UploadInv, NEW t \in Tabs, tab[t].pc \in {"init", "put", "complete", "poll"}, Upload!Fails(t),
           UNCHANGED <<killed, asking, wanted>>, server = "AVAILABLE" => server' = "AVAILABLE"
    PROVE  UploadInv'
<1>1. tab[t].copy.attempts \in Nat /\ item \in Records
  BY DEF UploadInv, Runs, Records
<1>2. tab' = [tab EXCEPT ![t] = Upload!Away] /\ Upload!Away \in Runs /\ Upload!Away.pc = "idle" /\ tab'[t].pc = "idle"
  BY <1>1, RecordEdits DEF Upload!Fails, Upload!Stop, Upload!Away, UploadInv
<1>3. item' = item \/ \E i \in {Upload!Rejected(item), Upload!Requeued(item), Upload!Retried(item, tab[t].copy.attempts)} : item' = i
  BY DEF Upload!Fails, Upload!Patch, Upload!Update
<1>4. /\ item' \in Records
      /\ \/ item' = item
         \/ item'.state \in {"failed", "queued"} /\ item'.blob = item.blob
         \/ item'.state = "rejected"
  <2>1. CASE item' = item
    BY <1>1, <2>1
  <2>2. CASE item' = Upload!Rejected(item)
    BY <1>1, <2>2, RecordEdits
  <2>3. CASE item' = Upload!Requeued(item)
    BY <1>1, <2>3, RecordEdits
  <2>4. CASE item' = Upload!Retried(item, tab[t].copy.attempts)
    BY <1>1, <2>4, RecordEdits
  <2>5. QED
    BY <1>3, <2>1, <2>2, <2>3, <2>4
<1>5. wanted => killed = {} /\ item.state \in {"queued", "uploading", "processing"}
  BY DEF UploadInv, WantedIsSafe
<1>6. wanted' = wanted /\ killed' \in SUBSET Tabs /\ asking' = asking /\ (wanted => killed' = {})
  BY <1>5 DEF UploadInv
<1>7. QED
  BY <1>2, <1>4, <1>5, <1>6, RunStep

\* What the person does, and closed tabs.
LEMMA PersonStep ==
    ASSUME UploadInv,
           \/ Upload!Enqueue \/ Upload!Retry \/ Upload!Dismiss
           \/ \E t \in Tabs : Upload!AskCancel(t) \/ Upload!Cancel(t) \/ Upload!CloseTab(t)
    PROVE  UploadInv'
<1> USE DEF UploadInv
<1>1. /\ [item EXCEPT !.state = "cancelling", !.blob = FALSE, !.attempts = 0] \in Records
      /\ [item EXCEPT !.state = "queued", !.attempts = 0, !.reinits = 0] \in Records
      /\ [Upload!NoItem EXCEPT !.state = "gone"] \in Records
      /\ [Upload!NoItem EXCEPT !.state = "queued", !.blob = TRUE] \in Records
      /\ Upload!Away \in Runs
  <2>1. item \in Records /\ 0 \in Nat
    OBVIOUS
  <2>2. QED
    BY <2>1, RecordEdits
<1>2. ASSUME Upload!Enqueue PROVE UploadInv'
  <2>1. item' \in Records /\ item'.state = "queued" /\ item'.blob = TRUE
    BY <1>1, <1>2 DEF Upload!Enqueue, Upload!NoItem
  <2>2. UNCHANGED <<killed, tab, asking, wanted, server>>
    BY <1>2 DEF Upload!Enqueue, Upload!serverVars
  <2>3. QED
    BY <2>1, <2>2 DEF OneRun, WantedIsSafe, PhotoKept, Upload!PhotoKept
<1>3. ASSUME Upload!Retry PROVE UploadInv'
  <2>1. item' \in Records /\ item'.state = "queued" /\ item'.blob = TRUE
    BY <1>1, <1>3 DEF Upload!Retry, Records
  <2>2. UNCHANGED <<killed, tab, asking, wanted, server>>
    BY <1>3 DEF Upload!Retry, Upload!serverVars
  <2>3. QED
    BY <2>1, <2>2 DEF OneRun, WantedIsSafe, PhotoKept, Upload!PhotoKept
<1>4. ASSUME Upload!Dismiss PROVE UploadInv'
  <2>1. item' \in Records /\ item'.state = "gone"
    BY <1>1, <1>4 DEF Upload!Dismiss, Upload!Remove, Upload!NoItem
  <2>2. UNCHANGED <<killed, tab, asking, server>> /\ wanted' \in BOOLEAN
        /\ (wanted' => wanted /\ item.state = "done")
    BY <1>4 DEF Upload!Dismiss, Upload!serverVars
  <2>3. QED
    BY <2>1, <2>2 DEF OneRun, WantedIsSafe, PhotoKept, Upload!PhotoKept
<1>5. ASSUME NEW t \in Tabs, Upload!AskCancel(t) PROVE UploadInv'
  BY <1>5 DEF Upload!AskCancel, OneRun, WantedIsSafe, PhotoKept, Upload!PhotoKept
<1>6. ASSUME NEW t \in Tabs, Upload!Cancel(t) PROVE UploadInv'
  <2>1. ~wanted /\ ~wanted' /\ tab' = tab
    BY <1>6 DEF Upload!Cancel, WantedIsSafe
  <2>2. item' \in Records
    BY <1>1, <1>6 DEF Upload!Cancel, Upload!Remove
  <2>3. asking' \in SUBSET Tabs /\ killed' \in SUBSET Tabs /\ wanted' \in BOOLEAN
    BY <1>6 DEF Upload!Cancel
  <2>4. QED
    BY <2>1, <2>2, <2>3 DEF OneRun, WantedIsSafe, PhotoKept, Upload!PhotoKept
<1>7. ASSUME NEW t \in Tabs, Upload!CloseTab(t) PROVE UploadInv'
  <2>1. tab' = [tab EXCEPT ![t] = Upload!Away] /\ Upload!Away.pc = "idle"
    BY <1>7 DEF Upload!CloseTab, Upload!Stop, Upload!Away
  <2>2. tab' \in [Tabs -> Runs] /\ \A u \in Tabs : tab'[u] = tab[u] \/ tab'[u].pc = "idle"
    BY <1>1, <2>1
  <2>3. UNCHANGED <<item, server, wanted>> /\ killed' \subseteq killed /\ asking' \subseteq asking
    BY <1>7 DEF Upload!CloseTab, Upload!serverVars
  <2>4. QED
    BY <2>2, <2>3 DEF OneRun, WantedIsSafe, PhotoKept, Upload!PhotoKept
<1>8. QED
  BY <1>2, <1>3, <1>4, <1>5, <1>6, <1>7

\* Calls of a run that fail.
LEMMA TroubleStep ==
    ASSUME UploadInv, NEW t \in Tabs, Upload!Trouble(t)
    PROVE  UploadInv'
<1> USE DEF UploadInv
<1>1. tab[t] \in Runs /\ tab[t].copy \in Records /\ tab[t].copy.attempts \in Nat /\ tab[t].copy.reinits \in Nat
      /\ item.state \in Upload!States
  BY DEF Runs, Records
<1>2. Upload!Away \in Runs /\ Upload!Away.pc = "idle" /\ [Upload!NoItem EXCEPT !.state = "gone"] \in Records
  BY RecordEdits, <1>1 DEF Upload!Away
<1>3. ASSUME Upload!InitFails(t) PROVE UploadInv'
  <2>1. CASE t \in killed
    <3>1. ~wanted /\ wanted' = wanted /\ killed' \in SUBSET Tabs /\ asking' = asking
      BY <1>3, <2>1 DEF Upload!InitFails, WantedIsSafe
    <3>2. item' \in Records /\ tab' = [tab EXCEPT ![t] = Upload!Away] /\ tab[t].pc # "idle"
      BY <1>2, <1>3, <2>1 DEF Upload!InitFails, Upload!Remove, Upload!Stop
    <3>3. server = "AVAILABLE" => server' = "AVAILABLE"
      BY <1>3 DEF Upload!InitFails
    <3>4. QED
      BY <1>2, <3>1, <3>2, <3>3, RunStep
  <2>2. CASE t \notin killed
    BY <1>3, <2>2, FailsStep DEF Upload!InitFails
  <2>3. QED
    BY <2>1, <2>2
<1>4. ASSUME Upload!PutRefused(t) PROVE UploadInv'
  <2> DEFINE again == tab[t].copy.reinits + 1
             r == [tab[t] EXCEPT !.pc = "init", !.copy.reinits = again]
  <2>1. r \in Runs /\ r.pc = "init" /\ tab' = [tab EXCEPT ![t] = r]
    BY <1>1, <1>4 DEF Upload!PutRefused, Runs, Records
  <2>2. /\ item' \in Records /\ item'.state = item.state /\ item'.blob = item.blob
    <3>1. [item EXCEPT !.reinits = again] \in Records
      BY <1>1, RecordEdits
    <3>2. QED
      BY <1>4, <3>1 DEF Upload!PutRefused, Upload!Update, Records
  <2>3. UNCHANGED <<wanted, killed, asking, server>> /\ tab[t].pc = "put" /\ t \notin killed
    BY <1>4 DEF Upload!PutRefused, Upload!serverVars
  <2>4. wanted => killed = {} /\ item.state \in {"queued", "uploading", "processing"}
    BY <2>3 DEF WantedIsSafe
  <2>5. QED
    BY <2>1, <2>2, <2>3, <2>4, RunStep
<1>5. ASSUME Upload!PutFails(t) PROVE UploadInv'
  BY <1>5, FailsStep DEF Upload!PutFails
<1>6. ASSUME Upload!CallFails(t) PROVE UploadInv'
  BY <1>6, FailsStep DEF Upload!CallFails
<1>7. ASSUME Upload!CancelFails(t) PROVE UploadInv'
  <2>1. ~wanted /\ wanted' = wanted /\ killed' \in SUBSET Tabs /\ asking' = asking
    BY <1>7 DEF Upload!CancelFails, Upload!Cancelled, WantedIsSafe
  <2>2. item' \in Records
    <3>1. [item EXCEPT !.state = "cancelling", !.blob = FALSE, !.attempts = tab[t].copy.attempts + 1] \in Records
      BY <1>1, RecordEdits
    <3>2. QED
      BY <1>2, <1>7, <3>1 DEF Upload!CancelFails, Upload!Cancelled, Upload!Remove, Upload!Update
  <2>3. tab' = [tab EXCEPT ![t] = Upload!Away] /\ tab[t].pc # "idle" /\ (server = "AVAILABLE" => server' = "AVAILABLE")
    BY <1>7 DEF Upload!CancelFails, Upload!Stop
  <2>4. QED
    BY <1>2, <2>1, <2>2, <2>3, RunStep
<1>8. QED
  BY <1>3, <1>4, <1>5, <1>6, <1>7 DEF Upload!Trouble

\* Calls of a run that are answered.
LEMMA AnsweredStep ==
    ASSUME UploadInv, NEW t \in Tabs, Upload!Run(t)
    PROVE  UploadInv'
<1> USE DEF UploadInv
<1>1. /\ tab[t] \in Runs /\ tab[t].copy \in Records /\ tab[t].copy.reinits \in Nat
      /\ item.state \in Upload!States /\ item.attempts \in Nat /\ item.reinits \in Nat
  BY DEF Runs, Records
<1>2. /\ Upload!Away \in Runs /\ Upload!Away.pc = "idle"
      /\ [Upload!NoItem EXCEPT !.state = "gone"] \in Records
      /\ [item EXCEPT !.state = "processing"] \in Records
      /\ [item EXCEPT !.state = "uploading", !.file = TRUE] \in Records
      /\ Upload!Rejected(item) \in Records /\ Upload!Rejected(item).state = "rejected"
      /\ Upload!Done(item) \in Records /\ Upload!Done(item).state = "done"
  BY RecordEdits, <1>1 DEF Upload!Away
<1>3. \A p \in {"get", "init", "put", "fresh", "complete", "poll", "cancel", "cancelCas"}, i \in Records :
         [pc |-> p, copy |-> i] \in Runs /\ [tab[t] EXCEPT !.pc = p] \in Runs /\ [tab[t] EXCEPT !.pc = p].pc = p
  BY <1>1 DEF Runs
<1>4. wanted /\ tab[t].pc # "idle" =>
         killed = {} /\ item.state \in {"queued", "uploading", "processing"} /\ tab[t].pc \notin {"cancel", "cancelCas"}
  BY DEF WantedIsSafe
<1>5. \A r \in Runs : tab' = [tab EXCEPT ![t] = r] => tab'[t] = r
  OBVIOUS
<1>6. ASSUME Upload!Get(t) PROVE UploadInv'
  <2>1. UNCHANGED <<asking, wanted, server>> /\ tab[t].pc = "get"
    BY <1>6 DEF Upload!Get, Upload!serverVars
  <2>2. CASE killed' = killed \ {t} /\ t \in killed /\ item' = [Upload!NoItem EXCEPT !.state = "gone"]
             /\ tab' = [tab EXCEPT ![t] = Upload!Away]
    BY <1>2, <1>4, <2>1, <2>2, RunStep
  <2>3. CASE killed' = killed /\ item' = item /\ tab' = [tab EXCEPT ![t] = Upload!Away]
    BY <1>2, <1>4, <2>1, <2>3, RunStep
  <2>4. CASE killed' = killed /\ item' = item /\ item.state = "cancelling"
             /\ tab' = [tab EXCEPT ![t] = [pc |-> "cancel", copy |-> item]]
    BY <1>3, <1>4, <2>1, <2>4, RunStep
  <2>5. CASE killed' = killed /\ item' = item
             /\ \E p \in {"init", "complete"} : tab' = [tab EXCEPT ![t] = [pc |-> p, copy |-> item]]
    BY <1>3, <1>4, <2>1, <2>5, RunStep
  <2>6. CASE killed' = killed /\ item.state \in {"queued", "uploading"} /\ item' = Upload!Rejected(item)
             /\ tab' = [tab EXCEPT ![t] = Upload!Away]
    BY <1>2, <1>4, <1>5, <2>1, <2>6, RunStep
  <2>7. QED
    BY <1>6, <2>2, <2>3, <2>4, <2>5, <2>6 DEF Upload!Get, Upload!Stop, Upload!Take, Upload!Remove, Upload!Update
<1>7. ASSUME Upload!InitAnswered(t) PROVE UploadInv'
  <2> DEFINE known == [item EXCEPT !.state = "uploading", !.file = TRUE]
  <2>1. UNCHANGED <<asking, wanted, killed>> /\ tab[t].pc = "init" /\ (server = "AVAILABLE" => server' = "AVAILABLE")
    BY <1>7 DEF Upload!InitAnswered
  <2>2. CASE t \in killed
    <3>1. [pc |-> "cancel", copy |-> [tab[t].copy EXCEPT !.file = TRUE]] \in Runs
      BY <1>1, RecordEdits, <1>3
    <3>2. item' = item /\ tab' = [tab EXCEPT ![t] = [pc |-> "cancel", copy |-> [tab[t].copy EXCEPT !.file = TRUE]]]
      BY <1>7, <2>2 DEF Upload!InitAnswered, Upload!Take
    <3>3. ~wanted
      BY <2>1, <2>2, <1>4
    <3>4. QED
      BY <2>1, <3>1, <3>2, <3>3, RunStep
  <2>3. CASE t \notin killed
    <3>1. known \in Records /\ known.state = "uploading" /\ known.blob = item.blob
      BY <1>2 DEF Records
    <3>2. /\ Upload!Rejected(known) \in Records /\ Upload!Rejected(known).state = "rejected"
          /\ Upload!Done(known) \in Records /\ Upload!Done(known).state = "done"
      BY <3>1, <1>1, RecordEdits
    <3>3. \/ item' = item \/ item' = known
          \/ item' = Upload!Done(known) \/ item' = Upload!Rejected(known)
      BY <1>7, <2>3 DEF Upload!InitAnswered, Upload!Update
    <3>4. wanted => \/ item' = known
                    \/ item' = Upload!Done(known) /\ server' = "AVAILABLE" /\ tab' = [tab EXCEPT ![t] = Upload!Away]
                    \/ item' = Upload!Rejected(known) /\ tab' = [tab EXCEPT ![t] = Upload!Away]
      BY <1>4, <1>7, <2>1, <2>3 DEF Upload!InitAnswered, Upload!Update, Upload!Stop
    <3>5. \/ tab' = [tab EXCEPT ![t] = Upload!Away]
          \/ tab' = [tab EXCEPT ![t] = [tab[t] EXCEPT !.pc = "put"]]
      BY <1>7, <2>3 DEF Upload!InitAnswered, Upload!Stop, Upload!GoOn
    <3>6. item' \in Records
      BY <3>1, <3>2, <3>3
    <3>7. wanted => \/ item'.state = "uploading" /\ item'.blob = item.blob
                    \/ tab'[t].pc = "idle" /\ item'.state = "rejected"
                    \/ tab'[t].pc = "idle" /\ item'.state = "done" /\ server' = "AVAILABLE"
      BY <1>2, <1>5, <3>1, <3>2, <3>4
    <3>8. CASE tab' = [tab EXCEPT ![t] = Upload!Away]
      BY <1>2, <1>4, <2>1, <3>6, <3>7, <3>8, RunStep
    <3>9. CASE tab' = [tab EXCEPT ![t] = [tab[t] EXCEPT !.pc = "put"]]
      BY <1>1, <1>3, <1>4, <2>1, <3>6, <3>7, <3>9, RunStep
    <3>10. QED
      BY <3>5, <3>8, <3>9
  <2>4. QED
    BY <2>2, <2>3
<1>8. ASSUME Upload!PutStored(t) PROVE UploadInv'
  <2>1. UNCHANGED <<asking, wanted, killed, server>> /\ tab[t].pc = "put"
    BY <1>8 DEF Upload!PutStored
  <2>2. CASE t \in killed
    <3>1. item' = item /\ tab' = [tab EXCEPT ![t] = Upload!Away]
      BY <1>8, <2>2 DEF Upload!PutStored, Upload!Stop
    <3>2. QED
      BY <1>2, <1>4, <2>1, <2>2, <3>1, RunStep
  <2>3. CASE t \notin killed
    <3>1. /\ item' \in Records /\ (wanted => item'.state = "processing" /\ item'.blob = item.blob)
          /\ tab' = [tab EXCEPT ![t] = [tab[t] EXCEPT !.pc = "fresh"]]
      BY <1>2, <1>4, <1>8, <2>1, <2>3 DEF Upload!PutStored, Upload!Update, Upload!GoOn, Records
    <3>2. QED
      BY <1>1, <1>3, <1>4, <2>1, <3>1, RunStep
  <2>4. QED
    BY <2>2, <2>3
<1>9. ASSUME Upload!PutAborted(t) PROVE UploadInv'
  BY <1>2, <1>4, <1>9, RunStep DEF Upload!PutAborted, Upload!Stop, Upload!serverVars
<1>10. ASSUME Upload!Fresh(t) PROVE UploadInv'
  <2>1. UNCHANGED <<item, killed, asking, wanted, server>> /\ tab[t].pc = "fresh"
    BY <1>10 DEF Upload!Fresh, Upload!serverVars
  <2>2. CASE tab' = [tab EXCEPT ![t] = Upload!Away]
    BY <1>2, <1>4, <2>1, <2>2, RunStep
  <2>3. CASE tab' = [tab EXCEPT ![t] = [pc |-> "complete", copy |-> item]]
    BY <1>3, <1>4, <2>1, <2>3, RunStep
  <2>4. QED
    BY <1>10, <2>2, <2>3 DEF Upload!Fresh, Upload!Stop, Upload!Take
<1>11. ASSUME Upload!Complete(t) PROVE UploadInv'
  <2>1. UNCHANGED <<killed, asking, wanted, server>> /\ tab[t].pc = "complete"
    BY <1>11 DEF Upload!Complete
  <2>2. CASE item' = item /\ tab' = [tab EXCEPT ![t] = [tab[t] EXCEPT !.pc = "poll"]]
    BY <1>1, <1>3, <1>4, <2>1, <2>2, RunStep
  <2>3. ASSUME tab' = [tab EXCEPT ![t] = Upload!Away],
               NEW i \in {item, [item EXCEPT !.state = "queued", !.reinits = tab[t].copy.reinits + 1], Upload!Rejected(item)},
               item' = i
        PROVE  UploadInv'
    <3>1. [item EXCEPT !.state = "queued", !.reinits = tab[t].copy.reinits + 1] \in Records
      BY <1>1, RecordEdits
    <3>2. i \in Records /\ (i.state = "rejected" \/ i = item \/ (i.state = "queued" /\ i.blob = item.blob))
      <4>1. CASE i = item
        BY <4>1
      <4>2. CASE i = Upload!Rejected(item)
        BY <1>2, <4>2
      <4>3. CASE i = [item EXCEPT !.state = "queued", !.reinits = tab[t].copy.reinits + 1]
        BY <3>1, <4>3 DEF Records
      <4>4. QED
        BY <2>3, <4>1, <4>2, <4>3
    <3>3. QED
      BY <1>2, <1>4, <1>5, <2>1, <2>3, <3>2, RunStep
  <2>4. QED
    BY <1>11, <2>2, <2>3 DEF Upload!Complete, Upload!GoOn, Upload!Stop, Upload!Patch, Upload!Update
<1>12. ASSUME Upload!Poll(t) PROVE UploadInv'
  <2>1. UNCHANGED <<killed, asking, wanted, server>> /\ tab[t].pc = "poll" /\ tab' = [tab EXCEPT ![t] = Upload!Away]
    BY <1>12 DEF Upload!Poll, Upload!Stop, Upload!serverVars
  <2>2. item' \in Records
    BY <1>2, <1>12 DEF Upload!Poll, Upload!Patch, Upload!Update
  <2>3. wanted => \/ item'.state \in {"queued", "uploading", "processing"} /\ item'.blob = item.blob
                  \/ item'.state = "rejected"
                  \/ item'.state = "done" /\ server' = "AVAILABLE"
    BY <1>2, <1>4, <1>12, <2>1 DEF Upload!Poll, Upload!Patch, Upload!Update, Records
  <2>4. QED
    BY <1>2, <1>4, <1>5, <2>1, <2>2, <2>3, RunStep
<1>13. ASSUME Upload!CancelRead(t) \/ Upload!CancelCas(t) PROVE UploadInv'
  <2>1. /\ asking' = asking /\ wanted' = wanted /\ ~wanted /\ tab[t].pc # "idle" /\ killed' \in SUBSET Tabs
        /\ (server = "AVAILABLE" => server' = "AVAILABLE")
    BY <1>4, <1>13 DEF Upload!CancelRead, Upload!CancelCas, Upload!Cancelled, Upload!serverVars
  <2>2. item' \in Records
    BY <1>2, <1>13 DEF Upload!CancelRead, Upload!CancelCas, Upload!Cancelled, Upload!Remove, Upload!Update
  <2>3. CASE tab' = [tab EXCEPT ![t] = Upload!Away]
    BY <1>2, <2>1, <2>2, <2>3, RunStep
  <2>4. CASE tab' = [tab EXCEPT ![t] = [tab[t] EXCEPT !.pc = "cancelCas"]]
    BY <1>1, <1>3, <2>1, <2>2, <2>4, RunStep
  <2>5. QED
    BY <1>13, <2>3, <2>4 DEF Upload!CancelRead, Upload!CancelCas, Upload!Stop, Upload!GoOn
<1>14. QED
  BY <1>6, <1>7, <1>8, <1>9, <1>10, <1>11, <1>12, <1>13 DEF Upload!Run

LEMMA UploadInvStep == ASSUME UploadInv, [Upload!Next]_uploadVars PROVE UploadInv'
<1> USE DEF UploadInv
<1>1. CASE UNCHANGED uploadVars
  BY <1>1 DEF uploadVars, OneRun, WantedIsSafe, PhotoKept, Upload!PhotoKept
<1>2. ASSUME Upload!Finalise \/ Upload!Sweep PROVE UploadInv'
  <2>1. UNCHANGED <<item, killed, tab, asking, wanted>> /\ (server = "AVAILABLE" => server' = "AVAILABLE")
    BY <1>2 DEF Upload!Finalise, Upload!Sweep
  <2>2. QED
    BY <2>1 DEF OneRun, WantedIsSafe, PhotoKept, Upload!PhotoKept
<1>3. ASSUME NEW t \in Tabs, Upload!Start(t) PROVE UploadInv'
  <2>1. tab[t] \in Runs /\ [tab[t] EXCEPT !.pc = "get"] \in Runs
    BY DEF Runs
  <2>2. tab' = [tab EXCEPT ![t] = [tab[t] EXCEPT !.pc = "get"]] /\ \A u \in Tabs : tab[u].pc = "idle"
    BY <1>3 DEF Upload!Start, Upload!GoOn
  <2>3. tab' \in [Tabs -> Runs] /\ tab'[t].pc = "get" /\ \A u \in Tabs \ {t} : tab'[u].pc = "idle"
    BY <2>1, <2>2 DEF Runs
  <2>4. UNCHANGED <<item, killed, asking, wanted, server>>
    BY <1>3 DEF Upload!Start, Upload!serverVars
  <2>5. wanted => item.state \in {"queued", "uploading", "processing"}
    BY <1>3 DEF Upload!Start, Upload!ActiveStates, WantedIsSafe
  <2>6. QED
    BY <2>3, <2>4, <2>5 DEF OneRun, WantedIsSafe, PhotoKept, Upload!PhotoKept
<1>4. QED
  BY <1>1, <1>2, <1>3, PersonStep, TroubleStep, AnsweredStep DEF Upload!Next

\* The phone loses the only copy of no photo, for any number of tabs, attempts,
\* reloads and failures: it drops it when the server has it, has refused it, or the
\* person gave it up.
THEOREM PhotoIsKept == FairSpec => []PhotoKept
<1>1. ASSUME ServicesInit PROVE UploadInv
  <2>1. Upload!Init
    BY <1>1 DEF ServicesInit
  <2>2. Upload!NoItem \in Records /\ Upload!Away \in Runs
    BY DEF Upload!NoItem, Upload!Away, Records, Runs, Upload!States, Upload!ActiveStates
  <2>3. item \in Records /\ item.state = "none" /\ tab \in [Tabs -> Runs] /\ \A t \in Tabs : tab[t].pc = "idle"
    BY <2>1, <2>2 DEF Upload!Init, Upload!Away, Upload!NoItem
  <2>4. QED
    BY <2>1, <2>3 DEF Upload!Init, UploadInv, OneRun, WantedIsSafe, PhotoKept, Upload!PhotoKept
<1>2. UploadInv /\ [ServicesNext]_allVars => UploadInv'
  BY EachServiceSteps, UploadInvStep
<1>3. UploadInv => PhotoKept
  BY DEF UploadInv
<1>4. QED
  BY <1>1, <1>2, <1>3, PTL DEF FairSpec

-----------------------------------------------------------------------------
(* MailboxSync: types and numberings.                                      *)

Reads == [pc : {"idle", "seen", "fetch", "bounces", "record", "analyse", "advance"},
          epoch : Nat, from : Nat, base : Nat, changed : BOOLEAN,
          seen : SUBSET Mail!Mail, todo : SUBSET Mail!Mail, top : Nat]

\* A cursor, and a sync under way, have their numbering from the mailbox.
MailTyped ==
    /\ box \in Seq(Mail!Messages) /\ epoch \in Nat \ {0} /\ come \in SUBSET Mail!Messages
    /\ cursor \in Nat /\ validity \in 0 .. epoch /\ (validity = 0 => cursor = 0)
    /\ done \in SUBSET Mail!Mail /\ suppressed \in BOOLEAN
    /\ queued \in [Replies -> Nat]
    /\ sync \in [Syncs -> Reads]
    /\ \A s \in Syncs : sync[s].epoch <= epoch /\ (sync[s].pc # "idle" => sync[s].epoch > 0)

LEMMA MailTypedStep == ASSUME MailTyped, [Mail!Next]_mailVars PROVE MailTyped'
<1> USE MailAssumption DEF MailTyped, Mail!Messages
<1>1. CASE UNCHANGED mailVars
  BY <1>1 DEF mailVars
<1>2. ASSUME NEW m \in Mail!Messages, Mail!Arrive(m) PROVE MailTyped'
  BY <1>2 DEF Mail!Arrive, Mail!dbVars
<1>3. ASSUME Mail!Renumber PROVE MailTyped'
  <2>1. box' \in Seq(Mail!Messages)
    BY <1>3 DEF Mail!Renumber
  <2>2. sync' \in [Syncs -> Reads] /\ \A s \in Syncs : sync'[s] = sync[s] \/ sync'[s] = Mail!Idle
    BY <1>3 DEF Mail!Renumber, Mail!Idle, Reads
  <2>3. epoch' = epoch + 1 /\ UNCHANGED <<come, cursor, validity, done, suppressed, queued>>
    BY <1>3 DEF Mail!Renumber, Mail!dbVars
  <2>4. \A s \in Syncs : sync'[s].epoch \in Nat /\ sync'[s].epoch <= epoch /\ (sync'[s].pc # "idle" => sync'[s].epoch > 0)
    BY <2>2 DEF Mail!Idle, Reads
  <2>5. QED
    BY <2>1, <2>2, <2>3, <2>4
<1>4. ASSUME NEW s \in Syncs, NEW r \in Reads, sync' = [sync EXCEPT ![s] = r],
             r.epoch <= epoch, r.pc # "idle" => r.epoch > 0,
             UNCHANGED <<box, epoch, come, cursor, validity>>,
             done' \in SUBSET Mail!Mail, suppressed' \in BOOLEAN, queued' \in [Replies -> Nat]
      PROVE  MailTyped'
  BY <1>4
<1>5. ASSUME NEW s \in Syncs, Mail!Open(s) PROVE MailTyped'
  <2> DEFINE changed == validity # 0 /\ validity # epoch
             base == IF changed THEN 0 ELSE cursor
             from == IF base > 0 THEN base + 1 ELSE Mail!Larger(1, (Len(box) + 1) - Window)
             r == [Mail!Idle EXCEPT !.pc = "seen", !.epoch = epoch, !.base = base, !.changed = changed,
                                    !.top = base, !.from = from]
  <2>1. base \in Nat /\ from \in Nat /\ changed \in BOOLEAN
    BY DEF Mail!Larger
  <2>2. r \in Reads /\ r.epoch = epoch
    BY <2>1 DEF Reads, Mail!Idle
  <2>3. sync' = [sync EXCEPT ![s] = r]
    BY <1>5 DEF Mail!Open
  <2> HIDE DEF r
  <2>4. QED
    BY <1>4, <1>5, <2>2, <2>3 DEF Mail!Open, Mail!boxVars, Mail!dbVars
<1>6. ASSUME NEW s \in Syncs, Mail!ReadSeen(s) PROVE MailTyped'
  <2> DEFINE r == [sync[s] EXCEPT !.pc = "fetch", !.seen = {rec \in done : rec.uid >= sync[s].from}]
  <2>1. sync' = [sync EXCEPT ![s] = r] /\ sync[s].pc # "idle"
    BY <1>6 DEF Mail!ReadSeen
  <2>2. r \in Reads /\ r.epoch = sync[s].epoch
    BY DEF Reads
  <2> HIDE DEF r
  <2>3. QED
    BY <1>4, <1>6, <2>1, <2>2 DEF Mail!ReadSeen, Mail!boxVars, Mail!dbVars
<1>7. ASSUME NEW s \in Syncs, Mail!Fetch(s) PROVE MailTyped'
  <2>1. Mail!Unseen(s) \in SUBSET Mail!Mail
    BY DEF Mail!Unseen, Mail!Fetched, Mail!Mail
  <2>2. Mail!Larger(sync[s].base, Len(box)) \in Nat
    BY DEF Mail!Larger, Reads
  <2> DEFINE r == [sync[s] EXCEPT !.pc = IF Mail!Unseen(s) = {} THEN "advance" ELSE "bounces",
                                  !.todo = Mail!Unseen(s), !.top = Mail!Larger(sync[s].base, Len(box))]
  <2>3. r \in Reads /\ r.epoch = sync[s].epoch
    BY <2>1, <2>2 DEF Reads
  <2>4. sync' = [sync EXCEPT ![s] = r] /\ sync[s].pc # "idle"
    BY <1>7 DEF Mail!Fetch
  <2> HIDE DEF r
  <2>5. QED
    BY <1>4, <1>7, <2>3, <2>4 DEF Mail!Fetch, Mail!boxVars, Mail!dbVars
<1>8. ASSUME NEW s \in Syncs, Mail!ApplyBounces(s) PROVE MailTyped'
  <2>1. [sync[s] EXCEPT !.pc = "record"] \in Reads /\ sync[s].pc # "idle"
    BY <1>8 DEF Mail!ApplyBounces, Reads
  <2>2. sync' = [sync EXCEPT ![s] = [sync[s] EXCEPT !.pc = "record"]] /\ suppressed' \in BOOLEAN
    BY <1>8 DEF Mail!ApplyBounces
  <2>3. QED
    BY <1>4, <1>8, <2>1, <2>2 DEF Mail!ApplyBounces, Mail!boxVars, Reads
<1>9. ASSUME NEW s \in Syncs, Mail!Record(s) PROVE MailTyped'
  <2>1. PICK x \in sync[s].todo :
          /\ done' = IF Mail!Recorded(x) THEN done ELSE done \cup {x}
          /\ sync' = [sync EXCEPT
               ![s].pc = IF ~Mail!Recorded(x) /\ x.msg \in Replies THEN "analyse"
                         ELSE IF sync[s].todo = {x} THEN "advance" ELSE "record",
               ![s].todo = IF ~Mail!Recorded(x) /\ x.msg \in Replies THEN @ ELSE @ \ {x}]
    BY <1>9 DEF Mail!Record
  <2> DEFINE r == [sync[s] EXCEPT !.pc = IF ~Mail!Recorded(x) /\ x.msg \in Replies THEN "analyse"
                                         ELSE IF sync[s].todo = {x} THEN "advance" ELSE "record",
                                  !.todo = IF ~Mail!Recorded(x) /\ x.msg \in Replies THEN @ ELSE @ \ {x}]
  <2>2. r \in Reads /\ r.epoch = sync[s].epoch
    BY DEF Reads
  <2>3. sync' = [sync EXCEPT ![s] = r] /\ sync[s].pc # "idle"
    BY <1>9, <2>1 DEF Mail!Record
  <2>4. done' \in SUBSET Mail!Mail
    BY <2>1 DEF Reads
  <2> HIDE DEF r
  <2>5. QED
    BY <1>4, <1>9, <2>2, <2>3, <2>4 DEF Mail!Record, Mail!boxVars
<1>10. ASSUME NEW s \in Syncs, Mail!Analyse(s) PROVE MailTyped'
  <2>1. PICK x \in sync[s].todo :
          /\ queued' \in {queued, [queued EXCEPT ![x.msg] = @ + 1]}
          /\ sync' = [sync EXCEPT ![s].pc = IF sync[s].todo = {x} THEN "advance" ELSE "record",
                                  ![s].todo = @ \ {x}]
    BY <1>10 DEF Mail!Analyse
  <2> DEFINE r == [sync[s] EXCEPT !.pc = IF sync[s].todo = {x} THEN "advance" ELSE "record", !.todo = @ \ {x}]
  <2>2. r \in Reads /\ r.epoch = sync[s].epoch
    BY DEF Reads
  <2>3. sync' = [sync EXCEPT ![s] = r] /\ sync[s].pc # "idle"
    BY <1>10, <2>1 DEF Mail!Analyse
  <2>4. queued' \in [Replies -> Nat]
    BY <2>1
  <2> HIDE DEF r
  <2>5. QED
    BY <1>4, <1>10, <2>2, <2>3, <2>4 DEF Mail!Analyse, Mail!boxVars, Mail!dbVars
<1>11. ASSUME NEW s \in Syncs, Mail!Advance(s) PROVE MailTyped'
  <2>1. Mail!Idle \in Reads /\ Mail!Idle.epoch = 0 /\ Mail!Idle.pc = "idle"
    BY DEF Mail!Idle, Reads
  <2>2. sync' = [sync EXCEPT ![s] = Mail!Idle] /\ UNCHANGED <<box, epoch, come, done, suppressed, queued>>
    BY <1>11 DEF Mail!Advance, Mail!boxVars
  <2>3. sync' \in [Syncs -> Reads]
        /\ \A t \in Syncs : sync'[t].epoch <= epoch /\ (sync'[t].pc # "idle" => sync'[t].epoch > 0)
    BY <2>1, <2>2
  <2>4. sync[s].top \in Nat /\ sync[s].epoch \in 1 .. epoch
    BY <1>11 DEF Mail!Advance, Reads
  <2>5. \/ cursor' = sync[s].top /\ validity' = sync[s].epoch
        \/ cursor' = cursor /\ validity' = validity
    BY <1>11 DEF Mail!Advance
  <2>6. QED
    BY <2>2, <2>3, <2>4, <2>5
<1>12. ASSUME NEW s \in Syncs, Mail!Abort(s) PROVE MailTyped'
  <2>1. Mail!Idle \in Reads /\ Mail!Idle.epoch = 0 /\ Mail!Idle.pc = "idle"
    BY DEF Mail!Idle, Reads
  <2>2. QED
    BY <1>4, <1>12, <2>1 DEF Mail!Abort, Mail!boxVars, Mail!dbVars
<1>13. QED
  BY <1>1, <1>2, <1>3, <1>5, <1>6, <1>7, <1>8, <1>9, <1>10, <1>11, <1>12 DEF Mail!Next, Mail!SyncStep

-----------------------------------------------------------------------------
(* MailboxSync: the cursor.                                                *)

\* The message of a UID, as a sync holds it.
At(u) == [uid |-> u, msg |-> box[u]]

\* A sync of the present numbering: what it began above is handled; once it has
\* fetched, so is what it will move the cursor to, but for what it still holds and
\* what a first sync leaves out as too old.
ReadCovers(s) ==
    sync[s].pc # "idle" /\ sync[s].epoch = epoch =>
        /\ sync[s].base <= Len(box) /\ (sync[s].base > 0 => sync[s].from = sync[s].base + 1)
        /\ \A u \in 1 .. sync[s].base : Mail!Handled(u)
        /\ sync[s].pc \in {"bounces", "record", "analyse", "advance"} =>
             /\ sync[s].top <= Len(box)
             /\ \A u \in 1 .. sync[s].top :
                   \/ Mail!Handled(u)
                   \/ sync[s].base = 0 /\ u < sync[s].from
                   \/ At(u) \in sync[s].todo

\* What a sync knows of its rows: those it saw are there, the one it hands over is
\* recorded, and it advances with nothing left.
ReadKnows(s) ==
    /\ sync[s].pc = "fetch" => sync[s].seen \subseteq done
    /\ sync[s].pc = "analyse" => \A x \in sync[s].todo : Mail!NextUp(s, x) => x \in done
    /\ sync[s].pc = "advance" => sync[s].todo = {}

CursorInv ==
    /\ validity = epoch => cursor <= Len(box)
    /\ \A s \in Syncs : ReadCovers(s) /\ ReadKnows(s)
    /\ NothingSkipped

\* Only the first of what a sync holds is next.
LEMMA OneNext ==
    ASSUME MailTyped, NEW s \in Syncs, NEW x \in sync[s].todo, NEW y \in sync[s].todo,
           Mail!NextUp(s, x), Mail!NextUp(s, y)
    PROVE  x = y
<1>1. x.uid \in Nat /\ y.uid \in Nat
  BY DEF MailTyped, Reads, Mail!Mail
<1>2. QED
  BY <1>1 DEF Mail!NextUp

\* What was handled stays so while the numbering lasts: messages only arrive, rows
\* are only added.
LEMMA HandledStays ==
    ASSUME MailTyped, done \subseteq done', old \subseteq old', Len(box) <= Len(box'),
           \A u \in 1 .. Len(box) : box'[u] = box[u],
           NEW u \in 1 .. Len(box), Mail!Handled(u)
    PROVE  Mail!Handled(u)'
BY DEF Mail!Handled, Mail!Shadowed

\* A message that the unique keys know has been handled, or is shadowed.
LEMMA RecordedIsHandled ==
    ASSUME MailTyped, NEW u \in 1 .. Len(box), Mail!Recorded(At(u))
    PROVE  Mail!Handled(u)
BY DEF Mail!Recorded, Mail!SameId, Mail!Handled, Mail!Shadowed, At

\* The mailbox and the records only grow in a step that does not renumber.
Grows ==
    /\ epoch' = epoch /\ done \subseteq done' /\ old \subseteq old'
    /\ Len(box') \in Nat /\ Len(box) <= Len(box') /\ \A u \in 1 .. Len(box) : box'[u] = box[u]

\* Growth disturbs no sync that stands still, and not what the cursor has passed.
LEMMA SyncKept ==
    ASSUME MailTyped, Grows, NEW s \in Syncs, ReadCovers(s), ReadKnows(s), sync'[s] = sync[s]
    PROVE  ReadCovers(s)' /\ ReadKnows(s)'
<1>1. sync[s] \in Reads /\ Len(box) \in Nat
  BY DEF MailTyped
<1>2. \A u \in 1 .. Len(box) : Mail!Handled(u) => Mail!Handled(u)'
  BY HandledStays DEF Grows
<1>3. \A u \in 1 .. Len(box) : At(u)' = At(u)
  BY DEF Grows, At
<1>4. ReadCovers(s)'
  BY <1>1, <1>2, <1>3 DEF ReadCovers, Grows, Reads
<1>5. ReadKnows(s)'
  BY DEF ReadKnows, Grows, Mail!NextUp
<1>6. QED
  BY <1>4, <1>5

LEMMA CursorKept ==
    ASSUME MailTyped, CursorInv, Grows, UNCHANGED <<cursor, validity>>
    PROVE  (validity = epoch => cursor <= Len(box))' /\ NothingSkipped'
<1>1. \A u \in 1 .. Len(box) : Mail!Handled(u) => Mail!Handled(u)'
  BY HandledStays DEF Grows
<1>2. Len(box) \in Nat /\ cursor \in Nat
  BY DEF MailTyped
<1>3. QED
  BY <1>1, <1>2 DEF CursorInv, NothingSkipped, Mail!NothingSkipped, Grows

\* A step of one sync that leaves the cursor alone.
LEMMA OneSyncMoves ==
    ASSUME MailTyped, CursorInv, Grows, UNCHANGED <<cursor, validity>>,
           NEW s \in Syncs, \A t \in Syncs \ {s} : sync'[t] = sync[t],
           ReadCovers(s)', ReadKnows(s)'
    PROVE  CursorInv'
<1>1. \A t \in Syncs \ {s} : (ReadCovers(t) /\ ReadKnows(t))'
  BY SyncKept DEF CursorInv
<1>2. QED
  BY <1>1, CursorKept DEF CursorInv

LEMMA CursorInvStep ==
    ASSUME MailTyped, CursorInv, [Mail!Next]_mailVars
    PROVE  CursorInv'
<1> USE MailAssumption
<1>1. Len(box) \in Nat /\ cursor \in Nat /\ epoch \in Nat /\ \A s \in Syncs : sync[s] \in Reads /\ ReadCovers(s) /\ ReadKnows(s)
  BY DEF MailTyped, CursorInv
<1> ASSUME UNCHANGED <<box, epoch, done, old>> PROVE Grows
  BY <1>1 DEF Grows
<1>2. ASSUME Grows, UNCHANGED <<cursor, validity, sync>> PROVE CursorInv'
  BY <1>2, SyncKept, CursorKept DEF CursorInv
<1>3. CASE UNCHANGED mailVars
  BY <1>1, <1>2, <1>3 DEF mailVars, Grows
<1>4. ASSUME NEW m \in Mail!Messages, Mail!Arrive(m) PROVE CursorInv'
  BY <1>1, <1>2, <1>4 DEF Mail!Arrive, Mail!dbVars, Grows, MailTyped
<1>5. ASSUME Mail!Renumber PROVE CursorInv'
  <2>1. epoch' = epoch + 1 /\ UNCHANGED <<cursor, validity, done>>
    BY <1>5 DEF Mail!Renumber, Mail!dbVars
  <2>2. validity' # epoch' /\ \A s \in Syncs : sync[s].epoch <= epoch
    BY <2>1 DEF MailTyped
  <2>3. \A s \in Syncs : sync'[s] = sync[s] \/ sync'[s] = Mail!Idle
    BY <1>5 DEF Mail!Renumber, MailTyped
  <2>4. ASSUME NEW s \in Syncs PROVE ReadCovers(s)' /\ ReadKnows(s)'
    <3>1. CASE sync'[s] = Mail!Idle
      BY <3>1 DEF ReadCovers, ReadKnows, Mail!Idle
    <3>2. CASE sync'[s] = sync[s]
      <4>1. sync'[s].epoch # epoch'
        BY <1>1, <2>1, <2>2, <3>2 DEF Reads
      <4>2. ReadCovers(s)'
        BY <4>1 DEF ReadCovers
      <4>3. ReadKnows(s)'
        BY <1>1, <2>1, <3>2 DEF ReadKnows, Mail!NextUp
      <4>4. QED
        BY <4>2, <4>3
    <3>3. QED
      BY <2>3, <3>1, <3>2
  <2>5. QED
    BY <2>2, <2>4 DEF CursorInv, NothingSkipped, Mail!NothingSkipped
<1>6. ASSUME NEW s \in Syncs, NEW r, sync' = [sync EXCEPT ![s] = r]
      PROVE  sync'[s] = r /\ \A t \in Syncs \ {s} : sync'[t] = sync[t]
  BY <1>6 DEF MailTyped
<1>7. ASSUME NEW s \in Syncs, Mail!Open(s) PROVE CursorInv'
  <2> DEFINE changed == validity # 0 /\ validity # epoch
             base == IF changed THEN 0 ELSE cursor
             from == IF base > 0 THEN base + 1 ELSE Mail!Larger(1, (Len(box) + 1) - Window)
             r == [Mail!Idle EXCEPT !.pc = "seen", !.epoch = epoch, !.base = base, !.changed = changed,
                                    !.top = base, !.from = from]
  <2>1. sync' = [sync EXCEPT ![s] = r] /\ Grows /\ UNCHANGED <<cursor, validity>>
    BY <1>1, <1>7 DEF Mail!Open, Mail!boxVars, Mail!dbVars, Grows
  <2>2. /\ r.pc = "seen" /\ r.epoch = epoch /\ r.base = base /\ r.from = from
        /\ base \in Nat /\ (base > 0 => from = base + 1)
    BY <1>1 DEF Mail!Idle
  <2>3. base <= Len(box) /\ \A u \in 1 .. base : Mail!Handled(u)
    BY <1>1 DEF MailTyped, CursorInv, NothingSkipped, Mail!NothingSkipped
  <2>4. \A u \in 1 .. base : Mail!Handled(u)'
    BY <1>1, <2>1, <2>3, HandledStays DEF Grows
  <2> HIDE DEF r, base, from
  <2>5. sync'[s] = r
    BY <1>6, <2>1
  <2>6. ReadCovers(s)' /\ ReadKnows(s)'
    BY <1>1, <2>1, <2>2, <2>3, <2>4, <2>5 DEF ReadCovers, ReadKnows, Grows
  <2>7. QED
    BY <1>6, <2>1, <2>6, OneSyncMoves
<1>8. ASSUME NEW s \in Syncs, NEW r \in Reads, sync' = [sync EXCEPT ![s] = r], Grows, box' = box,
             UNCHANGED <<cursor, validity>>, sync[s].pc # "idle",
             r.epoch = sync[s].epoch, r.base = sync[s].base, r.from = sync[s].from,
             r.pc \in {"bounces", "record", "analyse", "advance"} /\ sync[s].epoch = epoch =>
                /\ r.top <= Len(box)
                /\ \A u \in 1 .. r.top : Mail!Handled(u)' \/ (r.base = 0 /\ u < r.from) \/ At(u) \in r.todo,
             ReadKnows(s)'
      PROVE  CursorInv'
  <2>1. sync'[s] = r
    BY <1>6, <1>8
  <2>2. sync[s].epoch = epoch => \A u \in 1 .. sync[s].base : Mail!Handled(u)'
    BY <1>1, <1>8, HandledStays DEF ReadCovers, Grows, Reads
  <2>3. \A u \in 1 .. Len(box) : At(u)' = At(u)
    BY <1>8 DEF At
  <2>4. epoch' = epoch /\ box' = box /\ r.top \in Nat /\ Len(box) \in Nat
    BY <1>1, <1>8 DEF Grows, Reads
  <2>5. sync[s].epoch = epoch =>
          sync[s].base <= Len(box) /\ (sync[s].base > 0 => sync[s].from = sync[s].base + 1)
    BY <1>1, <1>8 DEF ReadCovers
  <2>6. ASSUME sync[s].epoch = epoch, r.pc \in {"bounces", "record", "analyse", "advance"}, NEW u \in 1 .. r.top
        PROVE  Mail!Handled(u)' \/ (r.base = 0 /\ u < r.from) \/ At(u)' \in r.todo
    <3>1. r.top <= Len(box) /\ (Mail!Handled(u)' \/ (r.base = 0 /\ u < r.from) \/ At(u) \in r.todo)
      BY <1>8, <2>6
    <3>2. At(u)' = At(u)
      BY <2>3, <2>4, <3>1
    <3>3. QED
      BY <3>1, <3>2
  <2>7. sync[s].epoch = epoch /\ r.pc \in {"bounces", "record", "analyse", "advance"} => r.top <= Len(box)
    BY <1>8
  <2>8. ReadCovers(s)'
    BY <1>8, <2>1, <2>2, <2>4, <2>5, <2>6, <2>7 DEF ReadCovers
  <2>9. QED
    BY <1>6, <1>8, <2>8, OneSyncMoves
<1>9. ASSUME NEW s \in Syncs, Mail!ReadSeen(s) PROVE CursorInv'
  <2> DEFINE r == [sync[s] EXCEPT !.pc = "fetch", !.seen = {rec \in done : rec.uid >= sync[s].from}]
  <2>1. /\ sync' = [sync EXCEPT ![s] = r] /\ sync[s].pc = "seen"
        /\ UNCHANGED <<box, epoch, cursor, validity, done, old>>
    BY <1>9 DEF Mail!ReadSeen, Mail!boxVars, Mail!dbVars
  <2>2. /\ r \in Reads /\ r.epoch = sync[s].epoch /\ r.base = sync[s].base /\ r.from = sync[s].from
        /\ r.pc = "fetch" /\ r.seen \subseteq done
    BY <1>1 DEF Reads, MailTyped
  <2> HIDE DEF r
  <2>3. ReadKnows(s)'
    BY <1>6, <2>1, <2>2 DEF ReadKnows
  <2>4. QED
    BY <1>8, <2>1, <2>2, <2>3
<1>10. ASSUME NEW s \in Syncs, Mail!Fetch(s) PROVE CursorInv'
  <2> DEFINE r == [sync[s] EXCEPT !.pc = IF Mail!Unseen(s) = {} THEN "advance" ELSE "bounces",
                                  !.todo = Mail!Unseen(s), !.top = Mail!Larger(sync[s].base, Len(box))]
  <2>1. /\ sync' = [sync EXCEPT ![s] = r] /\ sync[s].pc = "fetch"
        /\ UNCHANGED <<box, epoch, cursor, validity, done, old>>
    BY <1>10 DEF Mail!Fetch, Mail!boxVars, Mail!dbVars
  <2>2. Mail!Unseen(s) \in SUBSET Mail!Mail
    BY DEF Mail!Unseen, Mail!Fetched, Mail!Mail, MailTyped
  <2>3. Mail!Larger(sync[s].base, Len(box)) \in Nat
    BY <1>1 DEF Mail!Larger, Reads
  <2>4. /\ r \in Reads /\ r.epoch = sync[s].epoch /\ r.base = sync[s].base /\ r.from = sync[s].from
        /\ r.pc \in {"advance", "bounces"} /\ (r.pc = "advance" => r.todo = {})
        /\ r.todo = Mail!Unseen(s) /\ r.top = Mail!Larger(sync[s].base, Len(box))
    BY <1>1, <2>2, <2>3 DEF Reads
  <2> HIDE DEF r
  <2>5. ReadKnows(s)'
    BY <1>6, <2>1, <2>4 DEF ReadKnows
  <2>6. ASSUME sync[s].epoch = epoch, NEW u \in 1 .. r.top
        PROVE  Mail!Handled(u)' \/ (r.base = 0 /\ u < r.from) \/ At(u) \in r.todo
    <3>1. sync[s].base \in Nat /\ sync[s].from \in Nat /\ sync[s].base <= Len(box) /\ u \in 1 .. Len(box)
          /\ (sync[s].base > 0 => sync[s].from = sync[s].base + 1)
          /\ \A v \in 1 .. sync[s].base : Mail!Handled(v)
      BY <1>1, <2>1, <2>4, <2>6 DEF ReadCovers, Reads, Mail!Larger
    <3>2. CASE u < sync[s].from
      BY <1>1, <2>1, <2>4, <3>1, <3>2, HandledStays DEF Grows
    <3>3. CASE u >= sync[s].from /\ At(u) \notin r.todo
      <4>1. PICK rec \in sync[s].seen : rec.uid = u \/ Mail!SameId(rec.msg, box[u])
        BY <2>4, <3>1, <3>3 DEF Mail!Unseen, Mail!Fetched, At
      <4>2. Mail!Recorded(At(u))
        BY <1>1, <2>1, <4>1 DEF ReadKnows, Mail!Recorded, At
      <4>3. QED
        BY <1>1, <2>1, <3>1, <4>2, RecordedIsHandled, HandledStays DEF Grows
    <3>4. QED
      BY <3>1, <3>2, <3>3
  <2>7. sync[s].epoch = epoch => r.top <= Len(box)
    BY <1>1, <2>1, <2>4 DEF ReadCovers, Reads, Mail!Larger
  <2>8. QED
    BY <1>8, <2>1, <2>4, <2>5, <2>6, <2>7
<1>11. ASSUME Grows, NEW u \in 1 .. Len(box), Mail!Handled(u) PROVE Mail!Handled(u)'
  BY <1>11, HandledStays DEF Grows
<1>12. ASSUME NEW s \in Syncs, sync[s].pc \in {"bounces", "record", "analyse", "advance"}, sync[s].epoch = epoch
       PROVE  /\ sync[s].top \in Nat /\ sync[s].top <= Len(box)
              /\ \A u \in 1 .. sync[s].top :
                    Mail!Handled(u) \/ (sync[s].base = 0 /\ u < sync[s].from) \/ At(u) \in sync[s].todo
  BY <1>1, <1>12 DEF ReadCovers, Reads
<1>13. ASSUME NEW s \in Syncs, Mail!ApplyBounces(s) PROVE CursorInv'
  <2> DEFINE r == [sync[s] EXCEPT !.pc = "record"]
  <2>1. /\ sync' = [sync EXCEPT ![s] = r] /\ sync[s].pc = "bounces"
        /\ UNCHANGED <<box, epoch, cursor, validity, done, old>>
    BY <1>13 DEF Mail!ApplyBounces, Mail!boxVars
  <2>2. /\ r \in Reads /\ r.epoch = sync[s].epoch /\ r.base = sync[s].base /\ r.from = sync[s].from
        /\ r.pc = "record" /\ r.top = sync[s].top /\ r.todo = sync[s].todo
    BY <1>1 DEF Reads
  <2> HIDE DEF r
  <2>3. ReadKnows(s)'
    BY <1>6, <2>1, <2>2 DEF ReadKnows
  <2>4. Grows
    BY <2>1
  <2>5. ASSUME sync[s].epoch = epoch, NEW u \in 1 .. r.top
        PROVE  Mail!Handled(u)' \/ (r.base = 0 /\ u < r.from) \/ At(u) \in r.todo
    <3>1. u \in 1 .. Len(box) /\ (Mail!Handled(u) \/ (r.base = 0 /\ u < r.from) \/ At(u) \in r.todo)
      BY <1>1, <1>12, <2>1, <2>2, <2>5
    <3>2. QED
      BY <1>11, <2>4, <3>1
  <2>6. sync[s].epoch = epoch => r.top <= Len(box)
    BY <1>12, <2>1, <2>2
  <2>7. QED
    BY <1>8, <2>1, <2>2, <2>3, <2>4, <2>5, <2>6
<1>14. ASSUME NEW s \in Syncs, Mail!Record(s) PROVE CursorInv'
  <2>1. PICK x \in sync[s].todo :
          /\ Mail!NextUp(s, x)
          /\ done' = IF Mail!Recorded(x) THEN done ELSE done \cup {x}
          /\ sync' = [sync EXCEPT
               ![s].pc = IF ~Mail!Recorded(x) /\ x.msg \in Replies THEN "analyse"
                         ELSE IF sync[s].todo = {x} THEN "advance" ELSE "record",
               ![s].todo = IF ~Mail!Recorded(x) /\ x.msg \in Replies THEN @ ELSE @ \ {x}]
    BY <1>14 DEF Mail!Record
  <2> DEFINE r == [sync[s] EXCEPT !.pc = IF ~Mail!Recorded(x) /\ x.msg \in Replies THEN "analyse"
                                         ELSE IF sync[s].todo = {x} THEN "advance" ELSE "record",
                                  !.todo = IF ~Mail!Recorded(x) /\ x.msg \in Replies THEN @ ELSE @ \ {x}]
  <2>2. sync' = [sync EXCEPT ![s] = r] /\ sync[s].pc = "record" /\ UNCHANGED <<box, epoch, cursor, validity, old>>
    BY <1>14, <2>1 DEF Mail!Record, Mail!boxVars
  <2>3. /\ r \in Reads /\ r.epoch = sync[s].epoch /\ r.base = sync[s].base /\ r.from = sync[s].from
        /\ r.pc \in {"record", "analyse", "advance"} /\ r.top = sync[s].top
        /\ (r.pc = "analyse" => r.todo = sync[s].todo /\ ~Mail!Recorded(x))
        /\ (r.pc # "analyse" => r.todo = sync[s].todo \ {x})
        /\ (r.pc = "advance" => sync[s].todo = {x})
    BY <1>1 DEF Reads
  <2> HIDE DEF r
  <2>4. Grows
    BY <1>1, <2>1, <2>2 DEF Grows
  <2>5. sync'[s] = r
    BY <1>6, <2>2
  <2>6. ReadKnows(s)'
    <3>1. ASSUME r.pc = "analyse", NEW y \in r.todo, Mail!NextUp(s, y)' PROVE y \in done'
      <4>1. Mail!NextUp(s, y) /\ y \in sync[s].todo
        BY <2>3, <2>5, <3>1 DEF Mail!NextUp
      <4>2. y = x
        BY <2>1, <4>1, OneNext
      <4>3. QED
        BY <2>1, <2>3, <3>1, <4>2
    <3>2. QED
      BY <2>3, <2>5, <3>1 DEF ReadKnows
  <2>7. ASSUME sync[s].epoch = epoch, NEW u \in 1 .. Len(box), At(u) = x, r.pc # "analyse"
        PROVE  Mail!Handled(u)'
    <3>1. CASE Mail!Recorded(x)
      BY <1>11, <2>4, <2>7, <3>1, RecordedIsHandled
    <3>2. CASE ~Mail!Recorded(x)
      <4>1. At(u) \in done' /\ box'[u] = At(u).msg
        BY <2>1, <2>2, <2>7, <3>2 DEF At
      <4>2. QED
        BY <4>1 DEF Mail!Handled
    <3>3. QED
      BY <3>1, <3>2
  <2>8. ASSUME sync[s].epoch = epoch, NEW u \in 1 .. r.top
        PROVE  Mail!Handled(u)' \/ (r.base = 0 /\ u < r.from) \/ At(u) \in r.todo
    <3>1. u \in 1 .. Len(box) /\ (Mail!Handled(u) \/ (r.base = 0 /\ u < r.from) \/ At(u) \in sync[s].todo)
      BY <1>1, <1>12, <2>2, <2>3, <2>8
    <3>2. QED
      BY <1>11, <2>3, <2>4, <2>7, <2>8, <3>1
  <2>9. sync[s].epoch = epoch => r.top <= Len(box)
    BY <1>12, <2>2, <2>3
  <2>10. QED
    BY <1>8, <2>2, <2>3, <2>4, <2>6, <2>8, <2>9
<1>15. ASSUME NEW s \in Syncs, Mail!Analyse(s) PROVE CursorInv'
  <2>1. PICK x \in sync[s].todo :
          /\ Mail!NextUp(s, x)
          /\ sync' = [sync EXCEPT ![s].pc = IF sync[s].todo = {x} THEN "advance" ELSE "record",
                                  ![s].todo = @ \ {x}]
    BY <1>15 DEF Mail!Analyse
  <2> DEFINE r == [sync[s] EXCEPT !.pc = IF sync[s].todo = {x} THEN "advance" ELSE "record", !.todo = @ \ {x}]
  <2>2. /\ sync' = [sync EXCEPT ![s] = r] /\ sync[s].pc = "analyse"
        /\ UNCHANGED <<box, epoch, cursor, validity, done, old>>
    BY <1>15, <2>1 DEF Mail!Analyse, Mail!boxVars, Mail!dbVars
  <2>3. /\ r \in Reads /\ r.epoch = sync[s].epoch /\ r.base = sync[s].base /\ r.from = sync[s].from
        /\ r.pc \in {"record", "advance"} /\ r.top = sync[s].top
        /\ r.todo = sync[s].todo \ {x} /\ (r.pc = "advance" => sync[s].todo = {x})
    BY <1>1 DEF Reads
  <2> HIDE DEF r
  <2>4. Grows
    BY <2>2
  <2>5. ReadKnows(s)'
    BY <1>6, <2>2, <2>3 DEF ReadKnows
  <2>6. x \in done
    BY <1>1, <2>1, <2>2 DEF ReadKnows
  <2>7. ASSUME sync[s].epoch = epoch, NEW u \in 1 .. r.top
        PROVE  Mail!Handled(u)' \/ (r.base = 0 /\ u < r.from) \/ At(u) \in r.todo
    <3>1. u \in 1 .. Len(box) /\ (Mail!Handled(u) \/ (r.base = 0 /\ u < r.from) \/ At(u) \in sync[s].todo)
      BY <1>1, <1>12, <2>2, <2>3, <2>7
    <3>2. At(u) = x => Mail!Handled(u)
      <4>1. At(u) \in done => Mail!Handled(u)
        BY DEF Mail!Handled, At
      <4>2. QED
        BY <2>6, <4>1
    <3>3. QED
      BY <1>11, <2>3, <2>4, <3>1, <3>2
  <2>8. sync[s].epoch = epoch => r.top <= Len(box)
    BY <1>12, <2>2, <2>3
  <2>9. QED
    BY <1>8, <2>2, <2>3, <2>4, <2>5, <2>7, <2>8
<1>16. ASSUME NEW s \in Syncs, Mail!Advance(s) PROVE CursorInv'
  <2>1. /\ sync' = [sync EXCEPT ![s] = Mail!Idle] /\ sync[s].pc = "advance"
        /\ UNCHANGED <<box, epoch, done>> /\ old \subseteq old'
    BY <1>16 DEF Mail!Advance, Mail!boxVars
  <2>2. Grows
    BY <1>1, <2>1 DEF Grows
  <2>3. \A t \in Syncs : ReadCovers(t)' /\ ReadKnows(t)'
    <3>1. ReadCovers(s)' /\ ReadKnows(s)'
      <4>1. sync'[s] = Mail!Idle /\ Mail!Idle.pc = "idle"
        BY <1>6, <2>1 DEF Mail!Idle
      <4>2. QED
        BY <4>1 DEF ReadCovers, ReadKnows
    <3>2. QED
      BY <1>1, <1>6, <2>1, <2>2, <3>1, SyncKept
  <2>4. CASE UNCHANGED <<cursor, validity>>
    BY <2>2, <2>3, <2>4, CursorKept DEF CursorInv
  <2>5. CASE /\ cursor' = sync[s].top /\ validity' = sync[s].epoch
             /\ old' = IF sync[s].base = 0 /\ sync[s].epoch = epoch
                       THEN old \cup {box[u] : u \in {v \in 1 .. Len(box) : v < sync[s].from}} ELSE old
    <3>1. SUFFICES ASSUME sync[s].epoch = epoch
                   PROVE  cursor' <= Len(box') /\ \A u \in 1 .. cursor' : Mail!Handled(u)'
      BY <2>1, <2>3, <2>5 DEF CursorInv, NothingSkipped, Mail!NothingSkipped
    <3>2. cursor' \in Nat /\ cursor' <= Len(box) /\ sync[s].todo = {}
      BY <1>1, <1>12, <2>1, <2>5, <3>1 DEF ReadKnows
    <3>3. ASSUME NEW u \in 1 .. cursor' PROVE Mail!Handled(u)'
      <4>1. u \in 1 .. Len(box) /\ (Mail!Handled(u) \/ (sync[s].base = 0 /\ u < sync[s].from))
        BY <1>1, <1>12, <2>1, <2>5, <3>1, <3>2, <3>3
      <4>2. CASE Mail!Handled(u)
        BY <1>11, <2>2, <4>1, <4>2
      <4>3. CASE sync[s].base = 0 /\ u < sync[s].from
        <5>1. box'[u] \in old'
          BY <2>1, <2>5, <3>1, <4>1, <4>3
        <5>2. QED
          BY <5>1 DEF Mail!Handled
      <4>4. QED
        BY <4>1, <4>2, <4>3
    <3>4. QED
      BY <2>1, <3>2, <3>3
  <2>6. QED
    BY <1>16, <2>4, <2>5 DEF Mail!Advance
<1>17. ASSUME NEW s \in Syncs, Mail!Abort(s) PROVE CursorInv'
  <2>1. /\ sync' = [sync EXCEPT ![s] = Mail!Idle]
        /\ UNCHANGED <<box, epoch, cursor, validity, done, old>>
    BY <1>17 DEF Mail!Abort, Mail!boxVars, Mail!dbVars
  <2>2. ReadCovers(s)' /\ ReadKnows(s)'
    <3>1. sync'[s] = Mail!Idle /\ Mail!Idle.pc = "idle"
      BY <1>6, <2>1 DEF Mail!Idle
    <3>2. QED
      BY <3>1 DEF ReadCovers, ReadKnows
  <2>3. QED
    BY <1>6, <2>1, <2>2, OneSyncMoves
<1>18. QED
  BY <1>3, <1>4, <1>5, <1>7, <1>9, <1>10, <1>13, <1>14, <1>15, <1>16, <1>17 DEF Mail!Next, Mail!SyncStep

LEMMA MailInit == ServicesInit => MailTyped /\ CursorInv
<1> SUFFICES ASSUME ServicesInit PROVE MailTyped /\ CursorInv
  OBVIOUS
<1>1. Mail!Init
  BY DEF ServicesInit
<1>2. Mail!Idle \in Reads /\ Mail!Idle.pc = "idle" /\ Mail!Idle.epoch = 0
  BY DEF Mail!Idle, Reads
<1>3. MailTyped
  <2>1. box \in Seq(Mail!Messages) /\ queued \in [Replies -> Nat] /\ suppressed \in BOOLEAN
    <3>1. box = <<>> /\ queued = [m \in Replies |-> 0] /\ suppressed = FALSE
      BY <1>1 DEF Mail!Init
    <3>2. <<>> \in Seq(Mail!Messages) /\ [m \in Replies |-> 0] \in [Replies -> Nat]
      OBVIOUS
    <3>3. QED
      BY <3>1, <3>2
  <2>2. epoch = 1 /\ come = {} /\ cursor = 0 /\ validity = 0 /\ done = {}
    BY <1>1 DEF Mail!Init
  <2>3. sync \in [Syncs -> Reads] /\ \A s \in Syncs : sync[s].pc = "idle" /\ sync[s].epoch = 0
    BY <1>1, <1>2 DEF Mail!Init
  <2>4. QED
    BY <2>1, <2>2, <2>3 DEF MailTyped
<1>4. CursorInv
  BY <1>1, <1>2 DEF Mail!Init, CursorInv, ReadCovers, ReadKnows, NothingSkipped, Mail!NothingSkipped
<1>5. QED
  BY <1>3, <1>4

LEMMA CursorInvariant == FairSpec => [](MailTyped /\ CursorInv)
<1>1. (MailTyped /\ CursorInv) /\ [ServicesNext]_allVars => (MailTyped /\ CursorInv)'
  BY EachServiceSteps, MailTypedStep, CursorInvStep
<1>2. QED
  BY <1>1, MailInit, PTL DEF FairSpec

\* The mail cursor passes no message without a durable record, for any number of
\* messages, syncs, renumberings and failures and any look-back of a first sync.
THEOREM CursorSkipsNothing == FairSpec => []NothingSkipped
<1>1. CursorInv => NothingSkipped
  BY DEF CursorInv
<1>2. QED
  BY <1>1, CursorInvariant, PTL

-----------------------------------------------------------------------------
(* MailboxSync: bounces.                                                   *)

\* Past applyBounces a hard bounce has done its work, recorded or not.
BounceInv ==
    /\ \A s \in Syncs : sync[s].pc \in {"record", "analyse", "advance"} =>
          ((\E x \in sync[s].todo : x.msg \in Hard) => suppressed)
    /\ RecordedBounceActs

LEMMA BounceInvStep ==
    ASSUME MailTyped, BounceInv, [Mail!Next]_mailVars
    PROVE  BounceInv'
<1> USE MailAssumption DEF BounceInv, RecordedBounceActs, Mail!RecordedBounceActs
<1>1. \A s \in Syncs : sync[s] \in Reads
  BY DEF MailTyped
<1>2. CASE UNCHANGED mailVars
  BY <1>2 DEF mailVars
<1>3. ASSUME NEW m \in Mail!Messages, Mail!Arrive(m) PROVE BounceInv'
  BY <1>3 DEF Mail!Arrive, Mail!dbVars
<1>4. ASSUME NEW s \in Syncs, NEW r, sync' = [sync EXCEPT ![s] = r], UNCHANGED <<done, suppressed>>,
             \/ r.pc \notin {"record", "analyse", "advance"}
             \/ sync[s].pc \in {"record", "analyse", "advance"} /\ r.todo \subseteq sync[s].todo
             \/ r.todo = {}
      PROVE  BounceInv'
  <2>1. sync'[s] = r /\ \A t \in Syncs \ {s} : sync'[t] = sync[t]
    BY <1>4 DEF MailTyped
  <2>2. QED
    BY <1>4, <2>1
<1>5. ASSUME Mail!Renumber PROVE BounceInv'
  <2>1. \A s \in Syncs : sync'[s] = sync[s] \/ sync'[s].pc = "idle"
    BY <1>5 DEF Mail!Renumber, Mail!Idle, MailTyped
  <2>2. QED
    BY <1>5, <2>1 DEF Mail!Renumber, Mail!dbVars
<1>6. ASSUME NEW s \in Syncs, Mail!Open(s) PROVE BounceInv'
  BY <1>4, <1>6 DEF Mail!Open, Mail!Idle, Mail!dbVars
<1>7. ASSUME NEW s \in Syncs, Mail!ReadSeen(s) PROVE BounceInv'
  <2>1. sync' = [sync EXCEPT ![s] = [sync[s] EXCEPT !.pc = "fetch", !.seen = {rec \in done : rec.uid >= sync[s].from}]]
    BY <1>7 DEF Mail!ReadSeen
  <2>2. [sync[s] EXCEPT !.pc = "fetch", !.seen = {rec \in done : rec.uid >= sync[s].from}].pc = "fetch"
    BY <1>1 DEF Reads
  <2>3. QED
    BY <1>4, <1>7, <2>1, <2>2 DEF Mail!ReadSeen, Mail!dbVars
<1>8. ASSUME NEW s \in Syncs, Mail!Fetch(s) PROVE BounceInv'
  <2> DEFINE r == [sync[s] EXCEPT !.pc = IF Mail!Unseen(s) = {} THEN "advance" ELSE "bounces",
                                  !.todo = Mail!Unseen(s), !.top = Mail!Larger(sync[s].base, Len(box))]
  <2>1. sync' = [sync EXCEPT ![s] = r] /\ UNCHANGED <<done, suppressed>>
    BY <1>8 DEF Mail!Fetch, Mail!dbVars
  <2>2. r.pc = "bounces" \/ r.todo = {}
    BY <1>1 DEF Reads
  <2> HIDE DEF r
  <2>3. QED
    BY <1>4, <2>1, <2>2
<1>9. ASSUME NEW s \in Syncs, Mail!ApplyBounces(s) PROVE BounceInv'
  <2>1. /\ sync' = [sync EXCEPT ![s] = [sync[s] EXCEPT !.pc = "record"]] /\ done' = done
        /\ [sync[s] EXCEPT !.pc = "record"].todo = sync[s].todo
    BY <1>1, <1>9 DEF Mail!ApplyBounces, Reads
  <2>2. (suppressed => suppressed') /\ ((\E x \in sync[s].todo : x.msg \in Hard) => suppressed')
    BY <1>9 DEF Mail!ApplyBounces, Mail!Bounces
  <2>3. sync'[s].todo = sync[s].todo /\ \A t \in Syncs \ {s} : sync'[t] = sync[t]
    BY <2>1 DEF MailTyped
  <2>4. QED
    BY <2>1, <2>2, <2>3
<1>10. ASSUME NEW s \in Syncs, Mail!Record(s) PROVE BounceInv'
  <2>1. PICK x \in sync[s].todo :
          /\ done' = IF Mail!Recorded(x) THEN done ELSE done \cup {x}
          /\ sync' = [sync EXCEPT
               ![s].pc = IF ~Mail!Recorded(x) /\ x.msg \in Replies THEN "analyse"
                         ELSE IF sync[s].todo = {x} THEN "advance" ELSE "record",
               ![s].todo = IF ~Mail!Recorded(x) /\ x.msg \in Replies THEN @ ELSE @ \ {x}]
    BY <1>10 DEF Mail!Record
  <2>2. sync[s].pc = "record" /\ suppressed' = suppressed
    BY <1>10 DEF Mail!Record
  <2>3. sync'[s].todo \subseteq sync[s].todo /\ \A t \in Syncs \ {s} : sync'[t] = sync[t]
    BY <1>1, <2>1 DEF MailTyped, Reads
  <2>4. QED
    BY <2>1, <2>2, <2>3
<1>11. ASSUME NEW s \in Syncs, Mail!Analyse(s) PROVE BounceInv'
  <2>1. sync[s].pc = "analyse" /\ UNCHANGED <<done, suppressed>>
    BY <1>11 DEF Mail!Analyse, Mail!dbVars
  <2>2. sync'[s].todo \subseteq sync[s].todo /\ \A t \in Syncs \ {s} : sync'[t] = sync[t]
    BY <1>1, <1>11 DEF Mail!Analyse, MailTyped, Reads
  <2>3. QED
    BY <2>1, <2>2
<1>12. ASSUME NEW s \in Syncs, Mail!Advance(s) \/ Mail!Abort(s) PROVE BounceInv'
  BY <1>4, <1>12 DEF Mail!Advance, Mail!Abort, Mail!Idle, Mail!dbVars
<1>13. QED
  BY <1>2, <1>3, <1>5, <1>6, <1>7, <1>8, <1>9, <1>10, <1>11, <1>12 DEF Mail!Next, Mail!SyncStep

\* A processed hard bounce has suppressed its address, whatever fails in between.
THEOREM BouncesSuppress == FairSpec => []RecordedBounceActs
<1>1. ServicesInit => BounceInv
  BY DEF ServicesInit, Mail!Init, Mail!Idle, BounceInv, RecordedBounceActs, Mail!RecordedBounceActs
<1>2. MailTyped /\ BounceInv /\ [ServicesNext]_allVars => BounceInv'
  BY EachServiceSteps, BounceInvStep
<1>3. BounceInv => RecordedBounceActs
  BY DEF BounceInv
<1>4. QED
  BY <1>1, <1>2, <1>3, CursorInvariant, PTL DEF FairSpec

-----------------------------------------------------------------------------
(* MailboxSync: the analysis.                                              *)

\* Sync s has recorded reply m and goes on to hand it over.
InHand(s, m) == sync[s].pc = "analyse" /\ \E x \in sync[s].todo : Mail!NextUp(s, x) /\ x.msg = m

\* A reply that can be recognised is handed over by the one sync that recorded it.
AnalysisInv ==
    \A m \in Replies \ NoId :
        /\ queued[m] <= 1
        /\ (\A rec \in done : rec.msg # m) => queued[m] = 0 /\ \A s \in Syncs : ~InHand(s, m)
        /\ \A s \in Syncs : InHand(s, m) => queued[m] = 0
        /\ \A s, t \in Syncs : InHand(s, m) /\ InHand(t, m) => s = t

LEMMA AnalysisInvStep ==
    ASSUME MailTyped, AnalysisInv, [Mail!Next]_mailVars
    PROVE  AnalysisInv'
<1>1. /\ \A s \in Syncs : sync[s] \in Reads /\ sync[s].todo \in SUBSET Mail!Mail
      /\ queued \in [Replies -> Nat]
  BY DEF MailTyped, Reads
<1>2. ASSUME UNCHANGED <<done, queued>>, \A s \in Syncs, m \in Replies : InHand(s, m)' => InHand(s, m)
      PROVE  AnalysisInv'
  BY <1>2 DEF AnalysisInv
<1>3. ASSUME NEW s \in Syncs, sync'[s] = sync[s], NEW m \in Replies PROVE InHand(s, m)' <=> InHand(s, m)
  BY <1>3 DEF InHand, Mail!NextUp
<1>4. ASSUME NEW s \in Syncs, sync'[s].pc # "analyse", NEW m \in Replies PROVE ~InHand(s, m)'
  BY <1>4 DEF InHand
<1>5. ASSUME UNCHANGED <<done, queued>>, \A s \in Syncs : sync'[s] = sync[s] \/ sync'[s].pc # "analyse"
      PROVE  AnalysisInv'
  BY <1>2, <1>3, <1>4, <1>5
<1>6. CASE UNCHANGED mailVars
  BY <1>5, <1>6 DEF mailVars
<1>7. ASSUME NEW m \in Mail!Messages, Mail!Arrive(m) PROVE AnalysisInv'
  BY <1>5, <1>7 DEF Mail!Arrive, Mail!dbVars
<1>8. ASSUME Mail!Renumber PROVE AnalysisInv'
  <2>1. \A s \in Syncs : sync'[s] = sync[s] \/ sync'[s].pc # "analyse"
    BY <1>8 DEF Mail!Renumber, Mail!Idle, MailTyped
  <2>2. QED
    BY <1>5, <1>8, <2>1 DEF Mail!Renumber, Mail!dbVars
<1>9. ASSUME NEW s \in Syncs, NEW r, sync' = [sync EXCEPT ![s] = r]
      PROVE  sync'[s] = r /\ \A t \in Syncs \ {s} : sync'[t] = sync[t]
  BY <1>9 DEF MailTyped
<1>10. ASSUME NEW s \in Syncs, Mail!Open(s) \/ Mail!Advance(s) \/ Mail!Abort(s) PROVE AnalysisInv'
  <2>1. sync'[s].pc # "analyse" /\ \A t \in Syncs \ {s} : sync'[t] = sync[t]
    <3>1. CASE Mail!Open(s)
      BY <1>1, <3>1 DEF Mail!Open, Mail!Idle, MailTyped
    <3>2. CASE Mail!Advance(s) \/ Mail!Abort(s)
      <4>1. sync' = [sync EXCEPT ![s] = Mail!Idle] /\ Mail!Idle.pc = "idle"
        BY <3>2 DEF Mail!Advance, Mail!Abort, Mail!Idle
      <4>2. QED
        BY <1>9, <4>1
    <3>3. QED
      BY <1>10, <3>1, <3>2
  <2>2. QED
    BY <1>5, <1>10, <2>1 DEF Mail!Open, Mail!Advance, Mail!Abort, Mail!dbVars
<1>11. ASSUME NEW s \in Syncs, Mail!ReadSeen(s) \/ Mail!Fetch(s) \/ Mail!ApplyBounces(s) PROVE AnalysisInv'
  <2>1. \A t \in Syncs \ {s} : sync'[t] = sync[t]
    BY <1>11 DEF Mail!ReadSeen, Mail!Fetch, Mail!ApplyBounces, MailTyped
  <2>2. sync'[s].pc # "analyse"
    <3>1. CASE Mail!ReadSeen(s)
      BY <1>1, <3>1 DEF Mail!ReadSeen, MailTyped, Reads
    <3>2. CASE Mail!Fetch(s)
      BY <1>1, <3>2 DEF Mail!Fetch, MailTyped, Reads
    <3>3. CASE Mail!ApplyBounces(s)
      BY <1>1, <3>3 DEF Mail!ApplyBounces, MailTyped, Reads
    <3>4. QED
      BY <1>11, <3>1, <3>2, <3>3
  <2>3. QED
    BY <1>5, <1>11, <2>1, <2>2 DEF Mail!ReadSeen, Mail!Fetch, Mail!ApplyBounces, Mail!dbVars
<1>12. ASSUME NEW s \in Syncs, Mail!Record(s) PROVE AnalysisInv'
  <2>1. PICK x \in sync[s].todo :
          /\ Mail!NextUp(s, x)
          /\ done' = IF Mail!Recorded(x) THEN done ELSE done \cup {x}
          /\ sync' = [sync EXCEPT
               ![s].pc = IF ~Mail!Recorded(x) /\ x.msg \in Replies THEN "analyse"
                         ELSE IF sync[s].todo = {x} THEN "advance" ELSE "record",
               ![s].todo = IF ~Mail!Recorded(x) /\ x.msg \in Replies THEN @ ELSE @ \ {x}]
    BY <1>12 DEF Mail!Record
  <2>2. sync[s].pc = "record" /\ queued' = queued /\ \A t \in Syncs \ {s} : sync'[t] = sync[t]
    BY <1>12, <2>1 DEF Mail!Record, MailTyped
  <2>3. \A m \in Replies : ~InHand(s, m)
    BY <2>2 DEF InHand
  <2>4. CASE ~Mail!Recorded(x) /\ x.msg \in Replies
    <3>1. sync'[s].pc = "analyse" /\ sync'[s].todo = sync[s].todo /\ done' = done \cup {x}
      BY <1>1, <2>1, <2>4 DEF MailTyped, Reads
    <3>2. ASSUME NEW m \in Replies, InHand(s, m)' PROVE m = x.msg
      <4>1. PICK y \in sync[s].todo : Mail!NextUp(s, y) /\ y.msg = m
        BY <3>1, <3>2 DEF InHand, Mail!NextUp
      <4>2. QED
        BY <2>1, <4>1, OneNext
    <3>3. x.msg \notin NoId => \A rec \in done : rec.msg # x.msg
      BY <2>4 DEF Mail!Recorded, Mail!SameId
    <3>4. \A t \in Syncs \ {s}, m \in Replies : InHand(t, m)' <=> InHand(t, m)
      BY <1>3, <2>2
    <3>5. QED
      BY <2>2, <2>4, <3>1, <3>2, <3>3, <3>4 DEF AnalysisInv
  <2>5. CASE ~(~Mail!Recorded(x) /\ x.msg \in Replies)
    <3>1. sync'[s].pc # "analyse"
      BY <1>1, <2>1, <2>5 DEF MailTyped, Reads
    <3>2. \A t \in Syncs, m \in Replies : InHand(t, m)' => InHand(t, m)
      BY <1>3, <1>4, <2>2, <3>1
    <3>3. done' = done \/ (x.msg \notin Replies /\ done' = done \cup {x})
      BY <2>1, <2>5
    <3>4. QED
      BY <2>2, <3>2, <3>3 DEF AnalysisInv
  <2>6. QED
    BY <2>4, <2>5
<1>13. ASSUME NEW s \in Syncs, Mail!Analyse(s) PROVE AnalysisInv'
  <2>1. PICK x \in sync[s].todo :
          /\ Mail!NextUp(s, x)
          /\ queued' \in {queued, [queued EXCEPT ![x.msg] = @ + 1]}
          /\ sync' = [sync EXCEPT ![s].pc = IF sync[s].todo = {x} THEN "advance" ELSE "record",
                                  ![s].todo = @ \ {x}]
    BY <1>13 DEF Mail!Analyse
  <2>2. sync[s].pc = "analyse" /\ done' = done /\ \A t \in Syncs \ {s} : sync'[t] = sync[t]
    BY <1>13, <2>1 DEF Mail!Analyse, Mail!dbVars, MailTyped
  <2>3. sync'[s].pc # "analyse"
    BY <1>1, <2>1 DEF MailTyped, Reads
  <2>4. \A t \in Syncs, m \in Replies : InHand(t, m)' => InHand(t, m) /\ t # s
    BY <1>3, <1>4, <2>2, <2>3
  <2>5. InHand(s, x.msg)
    BY <2>1, <2>2 DEF InHand
  <2>6. \A m \in Replies : queued'[m] = queued[m] \/ (m = x.msg /\ queued'[m] = queued[m] + 1)
    BY <1>1, <2>1
  <2>7. QED
    BY <1>1, <2>2, <2>4, <2>5, <2>6 DEF AnalysisInv
<1>14. QED
  BY <1>6, <1>7, <1>8, <1>10, <1>11, <1>12, <1>13 DEF Mail!Next, Mail!SyncStep

\* A reply with a Message-ID is queued for analysis once, by the sync that recorded it,
\* across overlapping syncs, renumberings and failures.
THEOREM RepliesAnalysedOnce == FairSpec => []AnalysedOnce
<1>1. ServicesInit => AnalysisInv
  BY DEF ServicesInit, Mail!Init, Mail!Idle, AnalysisInv, InHand
<1>2. MailTyped /\ AnalysisInv /\ [ServicesNext]_allVars => AnalysisInv'
  BY EachServiceSteps, AnalysisInvStep
<1>3. AnalysisInv => AnalysedOnce
  BY DEF AnalysisInv, AnalysedOnce, Mail!AnalysedOnce
<1>4. QED
  BY <1>1, <1>2, <1>3, CursorInvariant, PTL DEF FairSpec

-----------------------------------------------------------------------------
(* EvidenceLedger: the theorems of its own module hold in the whole.       *)

Chain == INSTANCE EvidenceLedgerProofs

LEMMA LedgerRuns == FairSpec => Chain!Spec
<1>1. ServicesInit => Chain!Init
  BY DEF ServicesInit, Ledger!Init, Chain!Init, Ledger!Idle, Chain!Idle
<1>2. [ServicesNext]_allVars => [Chain!Next]_(Chain!vars)
  <2>1. [Ledger!Next]_ledgerVars => [Chain!Next]_(Chain!vars)
    BY DEF Ledger!Next, Chain!Next, ledgerVars, Chain!vars, Ledger!Ask, Chain!Ask, Ledger!Read,
       Chain!Read, Ledger!AnswerExisting, Chain!AnswerExisting, Ledger!LastSeq, Chain!LastSeq,
       Ledger!PutSeq, Chain!PutSeq, Ledger!LoseSeq, Chain!LoseSeq, Ledger!PutIndex, Chain!PutIndex,
       Ledger!Fail, Chain!Fail, Ledger!Return, Chain!Return, Ledger!Candidate, Chain!Candidate,
       Ledger!Taken, Chain!Taken, Ledger!HashOf, Chain!HashOf, Ledger!At, Chain!At, Ledger!Entry,
       Chain!Entry, Ledger!Idle, Chain!Idle, Ledger!Genesis, Chain!Genesis
  <2>2. QED
    BY <2>1, EachServiceSteps
<1>3. QED
  BY <1>1, <1>2, PTL DEF FairSpec, Chain!Spec

\* The ledger's chain has no gap, fork or broken link.
THEOREM LedgerHasNoGap == FairSpec => []ChainIntact
<1>1. Chain!ChainIntact => ChainIntact
  BY DEF Chain!ChainIntact, ChainIntact, Ledger!ChainIntact, Chain!Links, Ledger!Links, Chain!HashOf, Ledger!HashOf,
     Chain!Genesis, Ledger!Genesis
<1>2. QED
  BY <1>1, LedgerRuns, Chain!ChainIsIntact, PTL

\* What the ledger acknowledged stands, and is in the chain.
THEOREM LedgerStands == FairSpec => []RecordedStands
<1>1. Chain!RecordedStands => RecordedStands
  BY DEF Chain!RecordedStands, RecordedStands, Ledger!RecordedStands, Chain!At, Ledger!At
<1>2. QED
  BY <1>1, LedgerRuns, Chain!RecordedEntriesStand, PTL

=============================================================================
