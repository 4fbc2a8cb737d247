----------------------------- MODULE MailboxSync -----------------------------
(***************************************************************************)
(* Reading a workspace's mailbox over IMAP (syncMailboxOnce in             *)
(* packages/backend-core/src/services/mail.ts): the cursor, the record of  *)
(* processed messages that dedups a re-read, bounce suppression and the    *)
(* hand-over of replies to the analysis.  The scheduled sync, the sync job *)
(* and the button in the app may run at the same time.                     *)
(*                                                                         *)
(* An action is the code between two awaits.  A failing call aborts the    *)
(* sync; the cursor is written only after everything else.                 *)
(* All bounces are about one address the workspace has written to.         *)
(***************************************************************************)
EXTENDS Naturals, Sequences, FiniteSets

CONSTANTS
    Replies,     \* messages that answer an open lead
    Soft, Hard,  \* bounce messages: transient, permanent
    NoId,        \* messages without a Message-ID header
    Syncs,       \* calls that may run at the same time
    Window,      \* recentWindow: how far back a first sync looks
    Threshold,   \* softBounceSuppressThreshold
    MaxEpochs,   \* bound: UIDVALIDITY values of the mailbox
    MaxFaults    \* bound: failing calls

VARIABLES
    box,        \* the INBOX: the message of each UID
    epoch,      \* its UIDVALIDITY
    come,       \* messages that have arrived
    cursor,     \* WorkspaceEmailConfig.lastSyncedUid
    validity,   \* lastUidValidity, 0 when null
    done,       \* ProcessedEmail rows, unique by UID and by Message-ID
    softs,      \* soft BOUNCED events of the address, counted to the threshold
    suppressed, \* is the address suppressed
    queued,     \* analysis jobs queued, per message
    sync,       \* the calls
    faults,     \* failing calls so far
    old         \* history: messages a first sync left out as too old

boxVars == <<box, epoch, come>>
dbVars  == <<cursor, validity, done, softs, suppressed>>
vars == <<boxVars, dbVars, queued, sync, faults, old>>

Messages == Replies \cup Soft \cup Hard
Bounces  == Soft \cup Hard
Mail     == [uid : Nat, msg : Messages]

Idle == [pc |-> "idle", epoch |-> 0, from |-> 0, base |-> 0, changed |-> FALSE,
         seen |-> {}, todo |-> {}, top |-> 0]

TypeOK ==
    /\ box \in Seq(Messages)
    /\ epoch \in 1 .. MaxEpochs
    /\ come \subseteq Messages
    /\ cursor \in Nat /\ validity \in 0 .. MaxEpochs
    /\ done \subseteq Mail
    /\ softs \in 0 .. Threshold
    /\ suppressed \in BOOLEAN
    /\ queued \in [Replies -> Nat]
    /\ \A s \in Syncs :
         /\ sync[s].pc \in {"idle", "seen", "fetch", "bounces", "record", "analyse", "advance"}
         /\ sync[s].epoch \in 0 .. MaxEpochs
         /\ {sync[s].from, sync[s].base, sync[s].top} \subseteq Nat
         /\ sync[s].changed \in BOOLEAN
         /\ sync[s].seen \subseteq Mail /\ sync[s].todo \subseteq Mail
    /\ faults \in Nat
    /\ old \subseteq Messages

Init ==
    /\ box = <<>> /\ epoch = 1 /\ come = {}
    /\ cursor = 0 /\ validity = 0 /\ done = {}
    /\ softs = 0 /\ suppressed = FALSE
    /\ queued = [m \in Replies |-> 0]
    /\ sync = [s \in Syncs |-> Idle]
    /\ faults = 0
    /\ old = {}

Larger(a, b) == IF a > b THEN a ELSE b

-----------------------------------------------------------------------------
(* The mailbox. *)

Arrive(m) ==
    /\ m \notin come
    /\ come' = come \cup {m}
    /\ box' = Append(box, m)
    /\ UNCHANGED <<epoch, dbVars, queued, sync, faults, old>>

\* The server renumbers what is left of the mailbox, or the workspace connects
\* another one.  Open sessions end.
Renumber ==
    /\ epoch < MaxEpochs
    /\ epoch' = epoch + 1
    /\ \E n \in 1 .. Len(box) + 1 : box' = SubSeq(box, n, Len(box))
    /\ sync' = [s \in Syncs |-> IF sync[s].pc \in {"seen", "fetch"} THEN Idle ELSE sync[s]]
    /\ UNCHANGED <<come, dbVars, queued, faults, old>>

-----------------------------------------------------------------------------
(* A sync. *)

\* Open the INBOX, read the cursor, choose where to start.
Open(s) ==
    LET changed == validity # 0 /\ validity # epoch
        base    == IF changed THEN 0 ELSE cursor
    IN
    /\ sync[s].pc = "idle"
    /\ sync' = [sync EXCEPT ![s] =
         [Idle EXCEPT !.pc = "seen", !.epoch = epoch, !.base = base, !.changed = changed, !.top = base,
                      !.from = IF base > 0 THEN base + 1 ELSE Larger(1, (Len(box) + 1) - Window)]]
    /\ UNCHANGED <<boxVars, dbVars, queued, faults, old>>

\* The rows at or above the start.
ReadSeen(s) ==
    /\ sync[s].pc = "seen"
    /\ sync' = [sync EXCEPT ![s].pc = "fetch",
                            ![s].seen = {row \in done : row.uid >= sync[s].from}]
    /\ UNCHANGED <<boxVars, dbVars, queued, faults, old>>

SameId(m, n) == m = n /\ m \notin NoId

\* IMAP's <start>:* always includes the last message, also when its UID is below
\* the start.
Fetched(s) == {u \in 1 .. Len(box) : u >= sync[s].from \/ u = Len(box)}

Unseen(s) ==
    {[uid |-> u, msg |-> box[u]] : u \in {v \in Fetched(s) :
        \A row \in sync[s].seen : row.uid # v /\ ~SameId(row.msg, box[v])}}

Fetch(s) ==
    /\ sync[s].pc = "fetch"
    /\ sync' = [sync EXCEPT ![s].pc = IF Unseen(s) = {} THEN "advance" ELSE "bounces",
                            ![s].todo = Unseen(s),
                            ![s].top = Larger(sync[s].base, Len(box))]
    /\ UNCHANGED <<boxVars, dbVars, queued, faults, old>>

\* Mutant: a failing suppression is logged and the sync goes on.
ApplyBounces_BestEffort(s) ==
    LET batch == {x.msg : x \in sync[s].todo} \cap Bounces
        count == IF softs < Threshold THEN softs + 1 ELSE softs
    IN
    /\ sync[s].pc = "bounces"
    /\ \/ batch = {} /\ UNCHANGED <<softs, suppressed, faults>>
       \/ batch \cap Hard # {} /\ suppressed' = TRUE /\ UNCHANGED <<softs, faults>>
       \/ /\ batch # {} /\ batch \subseteq Soft
          /\ softs' = count
          /\ suppressed' = (suppressed \/ count = Threshold)
          /\ UNCHANGED faults
       \/ faults < MaxFaults /\ faults' = faults + 1 /\ UNCHANGED <<softs, suppressed>>
    /\ sync' = [sync EXCEPT ![s].pc = "record"]
    /\ UNCHANGED <<boxVars, cursor, validity, done, queued, old>>

\* Mutant: suppressing an address that is suppressed already is an error.
ApplyBounces_OnlyOnce(s) ==
    LET batch == {x.msg : x \in sync[s].todo} \cap Bounces IN
    /\ sync[s].pc = "bounces"
    /\ suppressed' = (suppressed \/ batch # {})
    /\ sync' = [sync EXCEPT ![s] = IF suppressed /\ batch # {} THEN Idle ELSE [@ EXCEPT !.pc = "record"]]
    /\ UNCHANGED <<boxVars, cursor, validity, done, softs, queued, faults, old>>

\* applyBounces: one event for the address and batch; suppressed at once unless
\* every message is soft, else when the soft events reach the threshold.
ApplyBounces(s) ==
    LET batch == {x.msg : x \in sync[s].todo} \cap Bounces
        count == IF softs < Threshold THEN softs + 1 ELSE softs
    IN
    /\ sync[s].pc = "bounces"
    /\ \/ batch = {} /\ UNCHANGED <<softs, suppressed>>
       \/ batch \cap Hard # {} /\ suppressed' = TRUE /\ UNCHANGED softs
       \/ /\ batch # {} /\ batch \subseteq Soft
          /\ softs' = count
          /\ suppressed' = (suppressed \/ count = Threshold)
    /\ sync' = [sync EXCEPT ![s].pc = "record"]
    /\ UNCHANGED <<boxVars, cursor, validity, done, queued, faults, old>>

\* Bounces first, then the replies, each in the order of the mailbox.
NextUp(s, x) ==
    /\ x \in sync[s].todo
    /\ \A y \in sync[s].todo \ {x} :
         IF (x.msg \in Bounces) = (y.msg \in Bounces) THEN x.uid < y.uid ELSE x.msg \in Bounces

\* Mutant: the record is unique by UID only.
Recorded_ByUid(x) == \E row \in done : row.uid = x.uid

Recorded(x) == \E row \in done : row.uid = x.uid \/ SameId(row.msg, x.msg)

\* recordProcessedReply: the insert is the gate; a duplicate rolls the
\* transaction back and is not an error.  A new reply goes on to its analysis.
Record(s) ==
    /\ sync[s].pc = "record"
    /\ \E x \in sync[s].todo :
         /\ NextUp(s, x)
         /\ done' = IF Recorded(x) THEN done ELSE done \cup {x}
         /\ sync' = [sync EXCEPT
              ![s].pc = IF ~Recorded(x) /\ x.msg \in Replies THEN "analyse"
                        ELSE IF sync[s].todo = {x} THEN "advance" ELSE "record",
              ![s].todo = IF ~Recorded(x) /\ x.msg \in Replies THEN @ ELSE @ \ {x}]
    /\ UNCHANGED <<boxVars, cursor, validity, softs, suppressed, queued, faults, old>>

\* Meter and queue the analysis; a workspace over its quota skips this one.
Analyse(s) ==
    /\ sync[s].pc = "analyse"
    /\ \E x \in sync[s].todo :
         /\ NextUp(s, x)
         /\ queued' \in {queued, [queued EXCEPT ![x.msg] = @ + 1]}
         /\ sync' = [sync EXCEPT ![s].pc = IF sync[s].todo = {x} THEN "advance" ELSE "record",
                                 ![s].todo = @ \ {x}]
    /\ UNCHANGED <<boxVars, dbVars, faults, old>>

\* Mutant: the cursor moves to the newest message of the mailbox.
Advance_ToNewest(s) ==
    /\ sync[s].pc = "advance"
    /\ cursor' = Len(box)
    /\ validity' = sync[s].epoch
    /\ old' = IF sync[s].base = 0 /\ sync[s].epoch = epoch
              THEN old \cup {box[u] : u \in {v \in 1 .. Len(box) : v < sync[s].from}} ELSE old
    /\ sync' = [sync EXCEPT ![s] = Idle]
    /\ UNCHANGED <<boxVars, done, softs, suppressed, queued, faults>>

\* advanceCursor: a failing write is swallowed.
Advance(s) ==
    /\ sync[s].pc = "advance"
    /\ \/ /\ sync[s].top > sync[s].base \/ sync[s].changed
          /\ cursor' = sync[s].top
          /\ validity' = sync[s].epoch
          /\ old' = IF sync[s].base = 0 /\ sync[s].epoch = epoch
                    THEN old \cup {box[u] : u \in {v \in 1 .. Len(box) : v < sync[s].from}} ELSE old
       \/ /\ sync[s].top <= sync[s].base /\ ~sync[s].changed
          /\ UNCHANGED <<cursor, validity, old>>
    /\ sync' = [sync EXCEPT ![s] = Idle]
    /\ UNCHANGED <<boxVars, done, softs, suppressed, queued, faults>>

\* A call fails or the process dies: the cursor stays where it was.
Abort(s) ==
    /\ faults < MaxFaults /\ faults' = faults + 1
    /\ sync[s].pc # "idle"
    /\ sync' = [sync EXCEPT ![s] = Idle]
    /\ UNCHANGED <<boxVars, dbVars, queued, old>>

SyncStep(s) ==
    \/ Open(s) \/ ReadSeen(s) \/ Fetch(s) \/ ApplyBounces(s) \/ Record(s) \/ Analyse(s) \/ Advance(s)

Next ==
    \/ \E m \in Messages : Arrive(m)
    \/ Renumber
    \/ \E s \in Syncs : SyncStep(s) \/ Abort(s)

Spec == Init /\ [][Next]_vars

\* The scheduler syncs again and again and a call does not stop on its own;
\* nothing is assumed of the mailbox and of failures.
FairSpec == Spec /\ \A s \in Syncs : WF_vars(SyncStep(s))

-----------------------------------------------------------------------------

\* A row of an earlier numbering holds the UID: the unique key takes the new
\* message for the old one.
Shadowed(u) == \E row \in done : row.uid = u /\ row.msg # box[u]

Handled(u) == box[u] \in {row.msg : row \in done} \/ box[u] \in old \/ Shadowed(u)

\* The cursor never passes a message that has no durable record, whatever
\* fails and however syncs overlap: what lies at or below it was recorded, was
\* too old for the first sync, or is taken for a message of an earlier numbering.
NothingSkipped ==
    validity = epoch => \A u \in 1 .. cursor : Handled(u)

\* A reply is queued for analysis once, by whichever sync recorded it, across
\* failures, overlapping syncs and renumbering.
AnalysedOnce == \A m \in Replies \ NoId : queued[m] <= 1

\* A hard bounce that counts as processed has taken its address off the list.
RecordedBounceActs == (\E row \in done : row.msg \in Hard) => suppressed

\* One soft bounce message is one soft bounce.
SoftBounceCountedOnce == softs <= Cardinality(come \cap Soft)

\* Every message of the mailbox is handled in the end, unless the mailbox drops it.
MailIsRead ==
    \A m \in Messages :
        (\E u \in DOMAIN box : box[u] = m) ~> (\A u \in DOMAIN box : box[u] = m => Handled(u))

=============================================================================
