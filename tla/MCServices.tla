----------------------------- MODULE MCServices -----------------------------
(***************************************************************************)
(* Six services that share no state with each other, checked in one run:   *)
(* a behaviour picks one of them and leaves the others alone.  The replies *)
(* of the inbox are the module extended, the other five are instances.     *)
(***************************************************************************)
EXTENDS InboxReply, Sequences

CONSTANTS
    Replies, Soft, Hard, NoId, Syncs, Window, Threshold, MaxEpochs, MailFaults,
    Tabs, UploadAttempts, MaxReinits, UploadFaults,
    Names, Bodies, Appenders, MaxTries, MaxSeq,
    Quotes, NoQuote, Sites, NoSite, Calls,
    Shifts, Crew, Closers, MaxVersion, MaxHours

ASSUME MailAssumption == Soft \cap Hard = {} /\ Window \in Nat

ASSUME QuoteAssumption == NoQuote \notin Quotes /\ NoSite \notin Sites

ASSUME JobAssumption == MaxVersion \in Nat /\ MaxHours \in Nat \ {0}

VARIABLES
    focus, \* the service of the behaviour
    box, epoch, come, cursor, validity, done, softs, suppressed, queued, sync, aborts, old,
    item, killed, tab, asking, server, stored, finalise, slips, wanted,
    chain, index, call, acked,
    won, oppSite, quote, made, jobs, loose, request, slipped,
    job, hours, crew, closer, audit, mislaid

mailVars   == <<box, epoch, come, cursor, validity, done, softs, suppressed, queued, sync, aborts, old>>
uploadVars == <<item, killed, tab, asking, server, stored, finalise, slips, wanted>>
ledgerVars == <<chain, index, call, acked>>
quoteVars  == <<won, oppSite, quote, made, jobs, loose, request, slipped>>
jobVars    == <<job, hours, crew, closer, audit, mislaid>>
allVars == <<focus, vars, mailVars, uploadVars, ledgerVars, quoteVars, jobVars>>

Mail   == INSTANCE MailboxSync WITH MaxFaults <- MailFaults, faults <- aborts
Upload == INSTANCE UploadQueue WITH MaxAttempts <- UploadAttempts, MaxFaults <- UploadFaults
Ledger == INSTANCE EvidenceLedger
Quote  == INSTANCE QuoteToJob WITH call <- request
Job    == INSTANCE JobCloseout

ServicesInit ==
    /\ focus \in {"inbox", "mail", "upload", "ledger", "quote", "job"}
    /\ Init /\ Mail!Init /\ Upload!Init /\ Ledger!Init /\ Quote!Init /\ Job!Init
    /\ focus # "quote" => made = {}

InInbox(A)  == focus = "inbox"  /\ A /\ UNCHANGED <<focus, mailVars, uploadVars, ledgerVars, quoteVars, jobVars>>
InMail(A)   == focus = "mail"   /\ A /\ UNCHANGED <<focus, vars, uploadVars, ledgerVars, quoteVars, jobVars>>
InUpload(A) == focus = "upload" /\ A /\ UNCHANGED <<focus, vars, mailVars, ledgerVars, quoteVars, jobVars>>
InLedger(A) == focus = "ledger" /\ A /\ UNCHANGED <<focus, vars, mailVars, uploadVars, quoteVars, jobVars>>
InQuote(A)  == focus = "quote"  /\ A /\ UNCHANGED <<focus, vars, mailVars, uploadVars, ledgerVars, jobVars>>
InJob(A)    == focus = "job"    /\ A /\ UNCHANGED <<focus, vars, mailVars, uploadVars, ledgerVars, quoteVars>>

InboxStep  == InInbox(Next)
MailStep   == InMail(Mail!Next)
UploadStep == InUpload(Upload!Next)
LedgerStep == InLedger(Ledger!Next)
QuoteStep  == InQuote(Quote!Next)
JobStep    == InJob(Job!Next)

ServicesNext == InboxStep \/ MailStep \/ UploadStep \/ LedgerStep \/ QuoteStep \/ JobStep

\* The fairness each service assumes of itself.
FairSpec ==
    /\ ServicesInit /\ [][ServicesNext]_allVars
    /\ \A s \in Syncs : WF_allVars(InMail(Mail!SyncStep(s)))
    /\ WF_allVars(InUpload(\E t \in Tabs : Upload!Start(t) \/ Upload!Run(t)))
    /\ WF_allVars(InUpload(Upload!Finalise))

\* The mail cursor passes nothing that was not handled (see MailboxSync).
NothingSkipped == Mail!NothingSkipped

\* A reply is queued for analysis once (see MailboxSync).
AnalysedOnce == Mail!AnalysedOnce

\* A processed hard bounce has suppressed its address (see MailboxSync).
RecordedBounceActs == Mail!RecordedBounceActs

\* Every message of the mailbox is handled in the end (see MailboxSync).
MailIsRead == Mail!MailIsRead

\* The phone keeps the photo until the server has it (see UploadQueue).
PhotoKept == Upload!PhotoKept

\* A photo in the queue is settled in the end (see UploadQueue).
PhotoSettles == Upload!PhotoSettles

\* The ledger's hash chain has no gap, fork or broken link (see EvidenceLedger).
ChainIntact == Ledger!ChainIntact

\* What the ledger has acknowledged stands, and is in the chain (see EvidenceLedger).
RecordedStands == Ledger!RecordedStands

\* A job stands on the accepted quote, one job per quote (see QuoteToJob).
JobOnAcceptedQuote == Quote!JobOnAcceptedQuote

\* A site with a job has no shift without one (see QuoteToJob).
LabourHasAJob == Quote!LabourHasAJob

\* A closed job's figures hold its labour, or it is shown as late (see JobCloseout).
LabourIsAccounted == Job!LabourIsAccounted

\* Every closeout's snapshot is current or in the audit log (see JobCloseout).
CloseoutHistoryKept == Job!CloseoutHistoryKept

=============================================================================
