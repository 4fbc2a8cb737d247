-------------------------- MODULE InboxReplyProofs --------------------------
(***************************************************************************)
(* Theorems about InboxReply, for any number of keys, requests, people,    *)
(* attempts and failures.                                                  *)
(***************************************************************************)
EXTENDS InboxReply, TLAPS

Points == {"idle", "authorize", "send", "refused", "finalise", "fallback"}
Request == [pc : Points, key : Keys \cup {NoKey}, prior : Statuses, try : Nat]
Person  == [pc : {"idle", "sent", "not_sent"}, key : Keys \cup {NoKey}, try : Nat]

\* A request that has claimed its key and not yet written the outcome.
Holding == {"send", "refused", "finalise", "fallback"}

-----------------------------------------------------------------------------
(* Types. *)

LEMMA TypeInit == Init => TypeOK
<1>1. Away \in Request /\ Unasked \in Person
  BY DEF Away, Unasked, Request, Person, Points, Statuses
<1>2. Init => req \in [Requests -> Request] /\ person \in [People -> Person]
  BY <1>1 DEF Init
<1>3. Init => /\ row \in [Keys -> Statuses] /\ fresh \in [Keys -> BOOLEAN]
              /\ events \in [Keys -> Nat] /\ attempt \in [Keys -> Nat] /\ out \in [Keys -> Nat]
  BY DEF Init, Statuses
<1>4. Init => faults \in Nat /\ lost \subseteq Keys /\ unheard \subseteq Keys
  BY DEF Init
<1>5. Init => stale \in BOOLEAN
  BY Zenon DEF Init
<1>6. QED
  BY <1>2, <1>3, <1>4, <1>5 DEF TypeOK, Statuses, Request, Person, Points

\* What GoTo and End do to the requests.
LEMMA Going ==
    ASSUME TypeOK, NEW r \in Requests, NEW pc \in Points, GoTo(r, pc)
    PROVE  /\ req' \in [Requests -> Request]
           /\ \A q \in Requests \ {r} : req'[q] = req[q]
           /\ req'[r].pc = pc /\ req'[r].key = req[r].key
           /\ req'[r].try = req[r].try /\ req'[r].prior = req[r].prior
<1>1. req \in [Requests -> Request]
  BY DEF TypeOK, Request, Points
<1>2. req[r] \in Request
  BY <1>1
<1>3. [req[r] EXCEPT !.pc = pc] \in Request
  BY <1>2 DEF Request
<1>4. QED
  BY <1>1, <1>2, <1>3 DEF GoTo, Request

LEMMA Ending ==
    ASSUME TypeOK, NEW r \in Requests, End(r)
    PROVE  /\ req' \in [Requests -> Request]
           /\ \A q \in Requests \ {r} : req'[q] = req[q]
           /\ req'[r].pc = "idle" /\ req'[r].key = NoKey
<1>1. req \in [Requests -> Request]
  BY DEF TypeOK, Request, Points
<1>2. Away \in Request
  BY DEF Away, Request, Points, Statuses
<1>3. QED
  BY <1>1, <1>2 DEF End, Away

\* What Claim does.
LEMMA Claiming ==
    ASSUME TypeOK, NEW r \in Requests, Claim(r), req[r].key \in Keys
    PROVE  /\ req' \in [Requests -> Request]
           /\ \A q \in Requests \ {r} : req'[q] = req[q]
           /\ req'[r].pc = "send" /\ req'[r].key = req[r].key
           /\ req'[r].try = attempt[req[r].key] + 1
<1>1. req \in [Requests -> Request]
  BY DEF TypeOK, Request, Points
<1>2. req[r] \in Request /\ attempt[req[r].key] + 1 \in Nat
  BY <1>1 DEF TypeOK
<1>3. [[req[r] EXCEPT !.pc = "send"] EXCEPT !.try = attempt[req[r].key] + 1] \in Request
  BY <1>2 DEF Request, Points
<1>4. req' = [req EXCEPT ![r].pc = "send", ![r].try = attempt[req[r].key] + 1]
  BY DEF Claim
<1>5. QED
  BY <1>1, <1>2, <1>3, <1>4 DEF Request

\* Requests and people name a key while they are at work, and an attempt of it.
KeysNamed ==
    /\ \A r \in Requests : /\ req[r].pc # "idle" => req[r].key \in Keys
                           /\ req[r].pc = "authorize" => req[r].prior \in {"NONE", "FAILED"}
                           /\ req[r].pc \in Holding => req[r].try <= attempt[req[r].key]
    /\ \A p \in People : person[p].pc # "idle" =>
                           person[p].key \in Keys /\ person[p].try <= attempt[person[p].key]

\* A claim belongs to one request; a person who looked at an attempt did so after
\* its window.
AttemptsDistinct ==
    /\ \A q, r \in Requests :
          /\ req[q].pc \in Holding /\ req[r].pc \in Holding
          /\ req[q].key = req[r].key /\ req[q].try = req[r].try
          => q = r
    /\ \A p \in People : person[p].pc # "idle" /\ person[p].try = attempt[person[p].key]
                           => ~fresh[person[p].key]

\* Who says that a message left is right.
AcceptanceKnown ==
    /\ \A r \in Requests : req[r].pc \in {"finalise", "fallback"} => out[req[r].key] > 0
    /\ \A p \in People : person[p].pc = "sent" => out[person[p].key] > 0

OneOpen == \A k, l \in Keys : row[k] = "SENDING" /\ row[l] = "SENDING" => k = l

\* As long as no write hit a later attempt: the request in its SMTP exchange holds
\* the row, and who is about to write FAILED is right that nothing left.
SendersHold ==
    \A r \in Requests : req[r].pc = "send" =>
        /\ row[req[r].key] = "SENDING" /\ fresh[req[r].key]
        /\ req[r].try = attempt[req[r].key]
        /\ req[r].key \notin unheard => out[req[r].key] = 0

RefusedRight ==
    \A r \in Requests :
        req[r].pc = "refused" /\ req[r].try = attempt[req[r].key] /\ req[r].key \notin unheard
        => out[req[r].key] = 0

NotSentRight ==
    \A p \in People :
        person[p].pc = "not_sent" /\ person[p].try = attempt[person[p].key]
        => out[person[p].key] = 0

KeysRight ==
    \A k \in Keys \ unheard :
        /\ out[k] <= 1
        /\ row[k] \in {"NONE", "FAILED"} => out[k] = 0

ExchangesSound == ~stale => SendersHold /\ RefusedRight /\ NotSentRight /\ KeysRight

ReplyInv == /\ TypeOK /\ KeysNamed /\ AttemptsDistinct /\ AcceptanceKnown
            /\ OneOpen /\ ExchangesSound /\ SentIsInTheLedger

-----------------------------------------------------------------------------
(* One lemma per kind of step. *)

LEMMA ReadPriorKeeps == ASSUME ReplyInv, NEW r \in Requests, NEW k \in Keys, ReadPrior(r, k) PROVE ReplyInv'
<1> USE DEF ReplyInv
<1>1. /\ req' \in [Requests -> Request]
      /\ \A q \in Requests \ {r} : req'[q] = req[q]
      /\ req'[r].pc = "authorize" /\ req'[r].key = k /\ req'[r].prior \in {"NONE", "FAILED"}
  BY DEF ReadPrior, TypeOK, Request, Points, Statuses
<1>2. TypeOK'
  BY <1>1 DEF ReadPrior, rowVars, ghostVars, TypeOK, Request, Points, Person, Statuses
<1>3. KeysNamed'
  BY <1>1 DEF ReadPrior, rowVars, ghostVars, KeysNamed, TypeOK, Holding, Request
<1>4. AttemptsDistinct'
  BY <1>1 DEF ReadPrior, rowVars, ghostVars, AttemptsDistinct, TypeOK, KeysNamed, Holding
<1>5. AcceptanceKnown'
  BY <1>1 DEF ReadPrior, rowVars, ghostVars, AcceptanceKnown, TypeOK, KeysNamed
<1>6. OneOpen'
  BY <1>1 DEF ReadPrior, rowVars, ghostVars, OneOpen, TypeOK, KeysNamed
<1>7. ExchangesSound'
  BY <1>1 DEF ReadPrior, rowVars, ghostVars, ExchangesSound, SendersHold, RefusedRight,
              NotSentRight, KeysRight, TypeOK, KeysNamed, AttemptsDistinct, AcceptanceKnown, Holding
<1>8. SentIsInTheLedger'
  BY <1>1 DEF ReadPrior, rowVars, ghostVars, SentIsInTheLedger, TypeOK, KeysNamed, AcceptanceKnown
<1>9. QED
  BY <1>2, <1>3, <1>4, <1>5, <1>6, <1>7, <1>8

LEMMA RefuseKeeps == ASSUME ReplyInv, NEW r \in Requests, Refuse(r) PROVE ReplyInv'
<1> USE DEF ReplyInv
<1>1. /\ req' \in [Requests -> Request]
      /\ \A q \in Requests \ {r} : req'[q] = req[q]
      /\ req'[r].pc = "idle"
  BY Ending DEF Refuse
<1>2. req[r].key \in Keys
  BY DEF Refuse, KeysNamed
<1>3. TypeOK'
  BY <1>1, <1>2 DEF Refuse, rowVars, ghostVars, TypeOK, Request, Points, Person, Statuses
<1>4. KeysNamed'
  BY <1>1, <1>2 DEF Refuse, rowVars, ghostVars, KeysNamed, TypeOK, Holding, Request
<1>5. AttemptsDistinct'
  BY <1>1, <1>2 DEF Refuse, rowVars, ghostVars, AttemptsDistinct, TypeOK, KeysNamed, Holding
<1>6. AcceptanceKnown'
  BY <1>1, <1>2 DEF Refuse, rowVars, ghostVars, AcceptanceKnown, TypeOK, KeysNamed
<1>7. OneOpen'
  BY <1>1, <1>2 DEF Refuse, rowVars, ghostVars, OneOpen, TypeOK, KeysNamed
<1>8. ExchangesSound'
  BY <1>1, <1>2 DEF Refuse, rowVars, ghostVars, ExchangesSound, SendersHold, RefusedRight,
                    NotSentRight, KeysRight, TypeOK, KeysNamed, AttemptsDistinct, AcceptanceKnown,
                    Holding
<1>9. SentIsInTheLedger'
  BY <1>1, <1>2 DEF Refuse, rowVars, ghostVars, SentIsInTheLedger, TypeOK, KeysNamed,
                    AcceptanceKnown
<1>10. QED
  BY <1>3, <1>4, <1>5, <1>6, <1>7, <1>8, <1>9

LEMMA ClaimKeeps == ASSUME ReplyInv, NEW r \in Requests, Claim(r) PROVE ReplyInv'
<1> USE DEF ReplyInv
<1>1. /\ req' \in [Requests -> Request]
      /\ \A q \in Requests \ {r} : req'[q] = req[q]
      /\ req'[r].pc = "send" /\ req'[r].key = req[r].key
      /\ req'[r].try = attempt[req[r].key] + 1
  BY Claiming DEF Claim, KeysNamed
<1>2. req[r].key \in Keys
  BY DEF Claim, KeysNamed
<1>3. TypeOK'
  BY <1>1, <1>2 DEF Claim, rowVars, ghostVars, TypeOK, Request, Points, Person, Statuses
<1>4. KeysNamed'
  BY <1>1, <1>2 DEF Claim, rowVars, ghostVars, KeysNamed, TypeOK, Holding, Request
<1>5. AttemptsDistinct'
  BY <1>1, <1>2 DEF Claim, rowVars, ghostVars, AttemptsDistinct, TypeOK, KeysNamed, Holding
<1>6. AcceptanceKnown'
  BY <1>1, <1>2 DEF Claim, rowVars, ghostVars, AcceptanceKnown, TypeOK, KeysNamed
<1>7. OneOpen'
  BY <1>1, <1>2 DEF Claim, rowVars, ghostVars, ThreadBusy, OneOpen, TypeOK, KeysNamed
<1>8. ExchangesSound'
  <2> SUFFICES ASSUME ~stale' PROVE SendersHold' /\ RefusedRight' /\ NotSentRight' /\ KeysRight'
    BY DEF ExchangesSound
  <2>1. ~stale
    BY DEF Claim, ghostVars
  <2>2. SendersHold /\ RefusedRight /\ NotSentRight /\ KeysRight
    BY <2>1 DEF ExchangesSound
  <2>3. SendersHold'
    <3>1. \A q \in Requests : req[q].pc # "send"
      BY <1>2, <2>2 DEF Claim, ThreadBusy, SendersHold, KeysNamed
    <3>2. row[req[r].key] \in {"NONE", "FAILED"}
      BY DEF Claim, KeysNamed
    <3>3. req[r].key \notin unheard => out[req[r].key] = 0
      BY <1>2, <2>2, <3>2 DEF KeysRight
    <3>4. /\ row'[req[r].key] = "SENDING" /\ fresh'[req[r].key]
          /\ attempt'[req[r].key] = attempt[req[r].key] + 1
          /\ out' = out /\ unheard' = unheard
      BY <1>2 DEF Claim, TypeOK, ghostVars
    <3>5. ASSUME NEW q \in Requests, req'[q].pc = "send" PROVE q = r
      BY <1>1, <3>1, <3>5
    <3>6. QED
      BY <1>1, <3>3, <3>4, <3>5 DEF SendersHold
  <2>4. RefusedRight'
    BY <1>1, <1>2, <2>1, <2>2 DEF Claim, rowVars, ghostVars, RefusedRight, TypeOK, KeysNamed,
                                  AttemptsDistinct, Holding, ThreadBusy
  <2>5. NotSentRight'
    BY <1>1, <1>2, <2>1, <2>2 DEF Claim, rowVars, ghostVars, NotSentRight, TypeOK, KeysNamed,
                                  AttemptsDistinct, Holding, ThreadBusy
  <2>6. KeysRight'
    BY <1>1, <1>2, <2>1, <2>2 DEF Claim, rowVars, ghostVars, KeysRight, TypeOK, KeysNamed,
                                  AttemptsDistinct, Holding, ThreadBusy
  <2>7. QED
    BY <2>3, <2>4, <2>5, <2>6
<1>9. SentIsInTheLedger'
  BY <1>1, <1>2 DEF Claim, rowVars, ghostVars, SentIsInTheLedger, TypeOK, KeysNamed, AcceptanceKnown
<1>10. QED
  BY <1>3, <1>4, <1>5, <1>6, <1>7, <1>8, <1>9

LEMMA AcceptedKeeps == ASSUME ReplyInv, NEW r \in Requests, Accepted(r) PROVE ReplyInv'
<1> USE DEF ReplyInv
<1>1. /\ req' \in [Requests -> Request]
      /\ \A q \in Requests \ {r} : req'[q] = req[q]
      /\ req'[r].pc = "finalise" /\ req'[r].key = req[r].key
      /\ req'[r].try = req[r].try
  BY Going DEF Accepted, Points
<1>2. req[r].key \in Keys
  BY DEF Accepted, KeysNamed
<1>3. TypeOK'
  BY <1>1, <1>2 DEF Accepted, rowVars, ghostVars, TypeOK, Request, Points, Person, Statuses
<1>4. KeysNamed'
  BY <1>1, <1>2 DEF Accepted, rowVars, ghostVars, KeysNamed, TypeOK, Holding, Request
<1>5. AttemptsDistinct'
  BY <1>1, <1>2 DEF Accepted, rowVars, ghostVars, AttemptsDistinct, TypeOK, KeysNamed, Holding
<1>6. AcceptanceKnown'
  BY <1>1, <1>2 DEF Accepted, rowVars, ghostVars, AcceptanceKnown, TypeOK, KeysNamed
<1>7. OneOpen'
  BY <1>1, <1>2 DEF Accepted, rowVars, ghostVars, OneOpen, TypeOK, KeysNamed
<1>8. ExchangesSound'
  <2> SUFFICES ASSUME ~stale' PROVE SendersHold' /\ RefusedRight' /\ NotSentRight' /\ KeysRight'
    BY DEF ExchangesSound
  <2>1. ~stale
    BY DEF Accepted, ghostVars
  <2>2. SendersHold /\ RefusedRight /\ NotSentRight /\ KeysRight
    BY <2>1 DEF ExchangesSound
  <2>3. SendersHold'
    BY <1>1, <1>2, <2>1, <2>2 DEF Accepted, rowVars, ghostVars, SendersHold, TypeOK, KeysNamed,
                                  AttemptsDistinct, Holding
  <2>4. RefusedRight'
    BY <1>1, <1>2, <2>1, <2>2 DEF Accepted, rowVars, ghostVars, RefusedRight, TypeOK, KeysNamed,
                                  AttemptsDistinct, Holding, SendersHold
  <2>5. NotSentRight'
    BY <1>1, <1>2, <2>1, <2>2 DEF Accepted, rowVars, ghostVars, NotSentRight, TypeOK, KeysNamed,
                                  AttemptsDistinct, Holding, SendersHold
  <2>6. KeysRight'
    BY <1>1, <1>2, <2>1, <2>2 DEF Accepted, rowVars, ghostVars, KeysRight, TypeOK, KeysNamed,
                                  AttemptsDistinct, Holding, SendersHold
  <2>7. QED
    BY <2>3, <2>4, <2>5, <2>6
<1>9. SentIsInTheLedger'
  BY <1>1, <1>2 DEF Accepted, rowVars, ghostVars, SentIsInTheLedger, TypeOK, KeysNamed,
                    AcceptanceKnown
<1>10. QED
  BY <1>3, <1>4, <1>5, <1>6, <1>7, <1>8, <1>9

LEMMA RejectedKeeps == ASSUME ReplyInv, NEW r \in Requests, Rejected(r) PROVE ReplyInv'
<1> USE DEF ReplyInv
<1>1. /\ req' \in [Requests -> Request]
      /\ \A q \in Requests \ {r} : req'[q] = req[q]
      /\ req'[r].pc = "refused" /\ req'[r].key = req[r].key
      /\ req'[r].try = req[r].try
  BY Going DEF Rejected, Points
<1>2. req[r].key \in Keys
  BY DEF Rejected, KeysNamed
<1>3. TypeOK'
  BY <1>1, <1>2 DEF Rejected, rowVars, ghostVars, TypeOK, Request, Points, Person, Statuses
<1>4. KeysNamed'
  BY <1>1, <1>2 DEF Rejected, rowVars, ghostVars, KeysNamed, TypeOK, Holding, Request
<1>5. AttemptsDistinct'
  BY <1>1, <1>2 DEF Rejected, rowVars, ghostVars, AttemptsDistinct, TypeOK, KeysNamed, Holding
<1>6. AcceptanceKnown'
  BY <1>1, <1>2 DEF Rejected, rowVars, ghostVars, AcceptanceKnown, TypeOK, KeysNamed
<1>7. OneOpen'
  BY <1>1, <1>2 DEF Rejected, rowVars, ghostVars, OneOpen, TypeOK, KeysNamed
<1>8. ExchangesSound'
  <2> SUFFICES ASSUME ~stale' PROVE SendersHold' /\ RefusedRight' /\ NotSentRight' /\ KeysRight'
    BY DEF ExchangesSound
  <2>1. ~stale
    BY DEF Rejected, ghostVars
  <2>2. SendersHold /\ RefusedRight /\ NotSentRight /\ KeysRight
    BY <2>1 DEF ExchangesSound
  <2>3. SendersHold'
    BY <1>1, <1>2, <2>1, <2>2 DEF Rejected, rowVars, ghostVars, SendersHold, TypeOK, KeysNamed,
                                  AttemptsDistinct, Holding
  <2>4. RefusedRight'
    BY <1>1, <1>2, <2>1, <2>2 DEF Rejected, rowVars, ghostVars, RefusedRight, TypeOK, KeysNamed,
                                  AttemptsDistinct, Holding, SendersHold
  <2>5. NotSentRight'
    BY <1>1, <1>2, <2>1, <2>2 DEF Rejected, rowVars, ghostVars, NotSentRight, TypeOK, KeysNamed,
                                  AttemptsDistinct, Holding
  <2>6. KeysRight'
    BY <1>1, <1>2, <2>1, <2>2 DEF Rejected, rowVars, ghostVars, KeysRight, TypeOK, KeysNamed,
                                  AttemptsDistinct, Holding
  <2>7. QED
    BY <2>3, <2>4, <2>5, <2>6
<1>9. SentIsInTheLedger'
  BY <1>1, <1>2 DEF Rejected, rowVars, ghostVars, SentIsInTheLedger, TypeOK, KeysNamed,
                    AcceptanceKnown
<1>10. QED
  BY <1>3, <1>4, <1>5, <1>6, <1>7, <1>8, <1>9

LEMMA AcceptedUnheardKeeps == ASSUME ReplyInv, NEW r \in Requests, AcceptedUnheard(r) PROVE ReplyInv'
<1> USE DEF ReplyInv
<1>1. /\ req' \in [Requests -> Request]
      /\ \A q \in Requests \ {r} : req'[q] = req[q]
      /\ req'[r].pc = "refused" /\ req'[r].key = req[r].key
      /\ req'[r].try = req[r].try
  BY Going DEF AcceptedUnheard, Points
<1>2. req[r].key \in Keys
  BY DEF AcceptedUnheard, KeysNamed
<1>3. TypeOK'
  BY <1>1, <1>2 DEF AcceptedUnheard, rowVars, ghostVars, TypeOK, Request, Points, Person, Statuses,
                    MayFail
<1>4. KeysNamed'
  BY <1>1, <1>2 DEF AcceptedUnheard, rowVars, ghostVars, KeysNamed, TypeOK, Holding, Request
<1>5. AttemptsDistinct'
  BY <1>1, <1>2 DEF AcceptedUnheard, rowVars, ghostVars, AttemptsDistinct, TypeOK, KeysNamed,
                    Holding
<1>6. AcceptanceKnown'
  BY <1>1, <1>2 DEF AcceptedUnheard, rowVars, ghostVars, AcceptanceKnown, TypeOK, KeysNamed
<1>7. OneOpen'
  BY <1>1, <1>2 DEF AcceptedUnheard, rowVars, ghostVars, OneOpen, TypeOK, KeysNamed
<1>8. ExchangesSound'
  <2> SUFFICES ASSUME ~stale' PROVE SendersHold' /\ RefusedRight' /\ NotSentRight' /\ KeysRight'
    BY DEF ExchangesSound
  <2>1. ~stale
    BY DEF AcceptedUnheard, ghostVars
  <2>2. SendersHold /\ RefusedRight /\ NotSentRight /\ KeysRight
    BY <2>1 DEF ExchangesSound
  <2>3. SendersHold'
    BY <1>1, <1>2, <2>1, <2>2 DEF AcceptedUnheard, rowVars, ghostVars, SendersHold, TypeOK,
                                  KeysNamed, AttemptsDistinct, Holding
  <2>4. RefusedRight'
    BY <1>1, <1>2, <2>1, <2>2 DEF AcceptedUnheard, rowVars, ghostVars, RefusedRight, TypeOK,
                                  KeysNamed, AttemptsDistinct, Holding, SendersHold
  <2>5. NotSentRight'
    BY <1>1, <1>2, <2>1, <2>2 DEF AcceptedUnheard, rowVars, ghostVars, NotSentRight, TypeOK,
                                  KeysNamed, AttemptsDistinct, Holding, SendersHold
  <2>6. KeysRight'
    BY <1>1, <1>2, <2>1, <2>2 DEF AcceptedUnheard, rowVars, ghostVars, KeysRight, TypeOK, KeysNamed,
                                  AttemptsDistinct, Holding, SendersHold
  <2>7. QED
    BY <2>3, <2>4, <2>5, <2>6
<1>9. SentIsInTheLedger'
  BY <1>1, <1>2 DEF AcceptedUnheard, rowVars, ghostVars, SentIsInTheLedger, TypeOK, KeysNamed,
                    AcceptanceKnown
<1>10. QED
  BY <1>3, <1>4, <1>5, <1>6, <1>7, <1>8, <1>9

LEMMA RecordRejectedKeeps == ASSUME ReplyInv, NEW r \in Requests, RecordRejected(r) PROVE ReplyInv'
<1> USE DEF ReplyInv
<1>1. /\ req' \in [Requests -> Request]
      /\ \A q \in Requests \ {r} : req'[q] = req[q]
      /\ req'[r].pc = "idle"
  BY Ending DEF RecordRejected
<1>2. req[r].key \in Keys
  BY DEF RecordRejected, KeysNamed
<1>3. TypeOK'
  BY <1>1, <1>2 DEF RecordRejected, Hits, rowVars, ghostVars, TypeOK, Request, Points, Person,
                    Statuses
<1>4. KeysNamed'
  BY <1>1, <1>2 DEF RecordRejected, Hits, rowVars, ghostVars, KeysNamed, TypeOK, Holding, Request
<1>5. AttemptsDistinct'
  BY <1>1, <1>2 DEF RecordRejected, Hits, rowVars, ghostVars, AttemptsDistinct, TypeOK, KeysNamed,
                    Holding
<1>6. AcceptanceKnown'
  BY <1>1, <1>2 DEF RecordRejected, Hits, rowVars, ghostVars, AcceptanceKnown, TypeOK, KeysNamed
<1>7. OneOpen'
  BY <1>1, <1>2 DEF RecordRejected, Hits, rowVars, ghostVars, OneOpen, TypeOK, KeysNamed
<1>8. ExchangesSound'
  <2> SUFFICES ASSUME ~stale' PROVE SendersHold' /\ RefusedRight' /\ NotSentRight' /\ KeysRight'
    BY DEF ExchangesSound
  <2>1. ~stale /\ (row[req[r].key] = "SENDING" => attempt[req[r].key] = req[r].try)
    BY DEF RecordRejected, Hits
  <2>2. SendersHold /\ RefusedRight /\ NotSentRight /\ KeysRight
    BY <2>1 DEF ExchangesSound
  <2>3. SendersHold'
    BY <1>1, <1>2, <2>1, <2>2 DEF RecordRejected, rowVars, ghostVars, SendersHold, TypeOK,
                                  KeysNamed, AttemptsDistinct, Holding
  <2>4. RefusedRight'
    BY <1>1, <1>2, <2>1, <2>2 DEF RecordRejected, rowVars, ghostVars, RefusedRight, TypeOK,
                                  KeysNamed
  <2>5. NotSentRight'
    BY <1>1, <1>2, <2>1, <2>2 DEF RecordRejected, rowVars, ghostVars, NotSentRight, TypeOK,
                                  KeysNamed
  <2>6. KeysRight'
    BY <1>1, <1>2, <2>1, <2>2 DEF RecordRejected, rowVars, ghostVars, KeysRight, TypeOK, KeysNamed,
                                  RefusedRight
  <2>7. QED
    BY <2>3, <2>4, <2>5, <2>6
<1>9. SentIsInTheLedger'
  BY <1>1, <1>2 DEF RecordRejected, Hits, rowVars, ghostVars, SentIsInTheLedger, TypeOK, KeysNamed,
                    AcceptanceKnown
<1>10. QED
  BY <1>3, <1>4, <1>5, <1>6, <1>7, <1>8, <1>9

LEMMA FinaliseKeeps == ASSUME ReplyInv, NEW r \in Requests, Finalise(r) PROVE ReplyInv'
<1> USE DEF ReplyInv
<1>1. /\ req' \in [Requests -> Request]
      /\ \A q \in Requests \ {r} : req'[q] = req[q]
      /\ req'[r].pc = "idle"
  BY Ending DEF Finalise
<1>2. req[r].key \in Keys
  BY DEF Finalise, KeysNamed
<1>3. TypeOK'
  BY <1>1, <1>2 DEF Finalise, Hits, rowVars, ghostVars, TypeOK, Request, Points, Person, Statuses
<1>4. KeysNamed'
  BY <1>1, <1>2 DEF Finalise, Hits, rowVars, ghostVars, KeysNamed, TypeOK, Holding, Request
<1>5. AttemptsDistinct'
  BY <1>1, <1>2 DEF Finalise, Hits, rowVars, ghostVars, AttemptsDistinct, TypeOK, KeysNamed, Holding
<1>6. AcceptanceKnown'
  BY <1>1, <1>2 DEF Finalise, Hits, rowVars, ghostVars, AcceptanceKnown, TypeOK, KeysNamed
<1>7. OneOpen'
  BY <1>1, <1>2 DEF Finalise, Hits, rowVars, ghostVars, OneOpen, TypeOK, KeysNamed
<1>8. ExchangesSound'
  <2> SUFFICES ASSUME ~stale' PROVE SendersHold' /\ RefusedRight' /\ NotSentRight' /\ KeysRight'
    BY DEF ExchangesSound
  <2>1. ~stale /\ (row[req[r].key] = "SENDING" => attempt[req[r].key] = req[r].try)
    BY DEF Finalise, Hits
  <2>2. SendersHold /\ RefusedRight /\ NotSentRight /\ KeysRight
    BY <2>1 DEF ExchangesSound
  <2>3. SendersHold'
    BY <1>1, <1>2, <2>1, <2>2 DEF Finalise, rowVars, ghostVars, SendersHold, TypeOK, KeysNamed,
                                  AttemptsDistinct, Holding
  <2>4. RefusedRight'
    BY <1>1, <1>2, <2>1, <2>2 DEF Finalise, rowVars, ghostVars, RefusedRight, TypeOK, KeysNamed
  <2>5. NotSentRight'
    BY <1>1, <1>2, <2>1, <2>2 DEF Finalise, rowVars, ghostVars, NotSentRight, TypeOK, KeysNamed
  <2>6. KeysRight'
    BY <1>1, <1>2, <2>1, <2>2 DEF Finalise, rowVars, ghostVars, KeysRight, TypeOK, KeysNamed,
                                  AcceptanceKnown, RefusedRight, KeysRight
  <2>7. QED
    BY <2>3, <2>4, <2>5, <2>6
<1>9. SentIsInTheLedger'
  BY <1>1, <1>2 DEF Finalise, Hits, rowVars, ghostVars, SentIsInTheLedger, TypeOK, KeysNamed,
                    AcceptanceKnown
<1>10. QED
  BY <1>3, <1>4, <1>5, <1>6, <1>7, <1>8, <1>9

LEMMA FinaliseFailsKeeps == ASSUME ReplyInv, NEW r \in Requests, FinaliseFails(r) PROVE ReplyInv'
<1> USE DEF ReplyInv
<1>1. /\ req' \in [Requests -> Request]
      /\ \A q \in Requests \ {r} : req'[q] = req[q]
      /\ req'[r].pc = "fallback" /\ req'[r].key = req[r].key
      /\ req'[r].try = req[r].try
  BY Going DEF FinaliseFails, Points
<1>2. req[r].key \in Keys
  BY DEF FinaliseFails, KeysNamed
<1>3. TypeOK'
  BY <1>1, <1>2 DEF FinaliseFails, rowVars, ghostVars, TypeOK, Request, Points, Person, Statuses,
                    MayFail
<1>4. KeysNamed'
  BY <1>1, <1>2 DEF FinaliseFails, rowVars, ghostVars, KeysNamed, TypeOK, Holding, Request
<1>5. AttemptsDistinct'
  BY <1>1, <1>2 DEF FinaliseFails, rowVars, ghostVars, AttemptsDistinct, TypeOK, KeysNamed, Holding
<1>6. AcceptanceKnown'
  BY <1>1, <1>2 DEF FinaliseFails, rowVars, ghostVars, AcceptanceKnown, TypeOK, KeysNamed
<1>7. OneOpen'
  BY <1>1, <1>2 DEF FinaliseFails, rowVars, ghostVars, OneOpen, TypeOK, KeysNamed
<1>8. ExchangesSound'
  <2> SUFFICES ASSUME ~stale' PROVE SendersHold' /\ RefusedRight' /\ NotSentRight' /\ KeysRight'
    BY DEF ExchangesSound
  <2>1. ~stale
    BY DEF FinaliseFails, ghostVars
  <2>2. SendersHold /\ RefusedRight /\ NotSentRight /\ KeysRight
    BY <2>1 DEF ExchangesSound
  <2>3. SendersHold'
    BY <1>1, <1>2, <2>1, <2>2 DEF FinaliseFails, rowVars, ghostVars, SendersHold, TypeOK, KeysNamed,
                                  AttemptsDistinct, Holding
  <2>4. RefusedRight'
    BY <1>1, <1>2, <2>1, <2>2 DEF FinaliseFails, rowVars, ghostVars, RefusedRight, TypeOK,
                                  KeysNamed, AttemptsDistinct, Holding
  <2>5. NotSentRight'
    BY <1>1, <1>2, <2>1, <2>2 DEF FinaliseFails, rowVars, ghostVars, NotSentRight, TypeOK,
                                  KeysNamed, AttemptsDistinct, Holding
  <2>6. KeysRight'
    BY <1>1, <1>2, <2>1, <2>2 DEF FinaliseFails, rowVars, ghostVars, KeysRight, TypeOK, KeysNamed,
                                  AttemptsDistinct, Holding
  <2>7. QED
    BY <2>3, <2>4, <2>5, <2>6
<1>9. SentIsInTheLedger'
  BY <1>1, <1>2 DEF FinaliseFails, rowVars, ghostVars, SentIsInTheLedger, TypeOK, KeysNamed,
                    AcceptanceKnown
<1>10. QED
  BY <1>3, <1>4, <1>5, <1>6, <1>7, <1>8, <1>9

LEMMA FallbackKeeps == ASSUME ReplyInv, NEW r \in Requests, Fallback(r) PROVE ReplyInv'
<1> USE DEF ReplyInv
<1>1. /\ req' \in [Requests -> Request]
      /\ \A q \in Requests \ {r} : req'[q] = req[q]
      /\ req'[r].pc = "idle"
  BY Ending DEF Fallback
<1>2. req[r].key \in Keys
  BY DEF Fallback, KeysNamed
<1>3. TypeOK'
  BY <1>1, <1>2 DEF Fallback, Hits, rowVars, ghostVars, TypeOK, Request, Points, Person, Statuses,
                    MayFail
<1>4. KeysNamed'
  BY <1>1, <1>2 DEF Fallback, Hits, rowVars, ghostVars, KeysNamed, TypeOK, Holding, Request
<1>5. AttemptsDistinct'
  BY <1>1, <1>2 DEF Fallback, Hits, rowVars, ghostVars, AttemptsDistinct, TypeOK, KeysNamed, Holding
<1>6. AcceptanceKnown'
  BY <1>1, <1>2 DEF Fallback, Hits, rowVars, ghostVars, AcceptanceKnown, TypeOK, KeysNamed
<1>7. OneOpen'
  BY <1>1, <1>2 DEF Fallback, Hits, rowVars, ghostVars, OneOpen, TypeOK, KeysNamed
<1>8. ExchangesSound'
  <2> SUFFICES ASSUME ~stale' PROVE SendersHold' /\ RefusedRight' /\ NotSentRight' /\ KeysRight'
    BY DEF ExchangesSound
  <2>1. ~stale /\ (row[req[r].key] = "SENDING" => attempt[req[r].key] = req[r].try)
    BY DEF Fallback, Hits
  <2>2. SendersHold /\ RefusedRight /\ NotSentRight /\ KeysRight
    BY <2>1 DEF ExchangesSound
  <2>3. SendersHold'
    BY <1>1, <1>2, <2>1, <2>2 DEF Fallback, rowVars, ghostVars, SendersHold, TypeOK, KeysNamed,
                                  AttemptsDistinct, Holding
  <2>4. RefusedRight'
    BY <1>1, <1>2, <2>1, <2>2 DEF Fallback, rowVars, ghostVars, RefusedRight, TypeOK, KeysNamed,
                                  AttemptsDistinct, Holding
  <2>5. NotSentRight'
    BY <1>1, <1>2, <2>1, <2>2 DEF Fallback, rowVars, ghostVars, NotSentRight, TypeOK, KeysNamed,
                                  AttemptsDistinct, Holding
  <2>6. KeysRight'
    BY <1>1, <1>2, <2>1, <2>2 DEF Fallback, rowVars, ghostVars, KeysRight, TypeOK, KeysNamed,
                                  AttemptsDistinct, Holding, AcceptanceKnown
  <2>7. QED
    BY <2>3, <2>4, <2>5, <2>6
<1>9. SentIsInTheLedger'
  BY <1>1, <1>2 DEF Fallback, Hits, rowVars, ghostVars, SentIsInTheLedger, TypeOK, KeysNamed,
                    AcceptanceKnown
<1>10. QED
  BY <1>3, <1>4, <1>5, <1>6, <1>7, <1>8, <1>9

LEMMA AbandonKeeps == ASSUME ReplyInv, NEW r \in Requests, Abandon(r) PROVE ReplyInv'
<1> USE DEF ReplyInv
<1>1. /\ req' \in [Requests -> Request]
      /\ \A q \in Requests \ {r} : req'[q] = req[q]
      /\ req'[r].pc = "idle"
  BY Ending DEF Abandon
<1>2. req[r].key \in Keys
  BY DEF Abandon, KeysNamed
<1>3. TypeOK'
  BY <1>1, <1>2 DEF Abandon, rowVars, ghostVars, TypeOK, Request, Points, Person, Statuses, MayFail
<1>4. KeysNamed'
  BY <1>1, <1>2 DEF Abandon, rowVars, ghostVars, KeysNamed, TypeOK, Holding, Request
<1>5. AttemptsDistinct'
  BY <1>1, <1>2 DEF Abandon, rowVars, ghostVars, AttemptsDistinct, TypeOK, KeysNamed, Holding
<1>6. AcceptanceKnown'
  BY <1>1, <1>2 DEF Abandon, rowVars, ghostVars, AcceptanceKnown, TypeOK, KeysNamed
<1>7. OneOpen'
  BY <1>1, <1>2 DEF Abandon, rowVars, ghostVars, OneOpen, TypeOK, KeysNamed
<1>8. ExchangesSound'
  <2> SUFFICES ASSUME ~stale' PROVE SendersHold' /\ RefusedRight' /\ NotSentRight' /\ KeysRight'
    BY DEF ExchangesSound
  <2>1. ~stale
    BY DEF Abandon, ghostVars
  <2>2. SendersHold /\ RefusedRight /\ NotSentRight /\ KeysRight
    BY <2>1 DEF ExchangesSound
  <2>3. SendersHold'
    BY <1>1, <1>2, <2>1, <2>2 DEF Abandon, rowVars, ghostVars, SendersHold, TypeOK, KeysNamed,
                                  AttemptsDistinct, Holding
  <2>4. RefusedRight'
    BY <1>1, <1>2, <2>1, <2>2 DEF Abandon, rowVars, ghostVars, RefusedRight, TypeOK, KeysNamed
  <2>5. NotSentRight'
    BY <1>1, <1>2, <2>1, <2>2 DEF Abandon, rowVars, ghostVars, NotSentRight, TypeOK, KeysNamed
  <2>6. KeysRight'
    BY <1>1, <1>2, <2>1, <2>2 DEF Abandon, rowVars, ghostVars, KeysRight, TypeOK, KeysNamed
  <2>7. QED
    BY <2>3, <2>4, <2>5, <2>6
<1>9. SentIsInTheLedger'
  BY <1>1, <1>2 DEF Abandon, rowVars, ghostVars, SentIsInTheLedger, TypeOK, KeysNamed,
                    AcceptanceKnown
<1>10. QED
  BY <1>3, <1>4, <1>5, <1>6, <1>7, <1>8, <1>9

LEMMA WindowPassesKeeps == ASSUME ReplyInv, NEW k \in Keys, WindowPasses(k) PROVE ReplyInv'
<1> USE DEF ReplyInv
<1>1. UNCHANGED <<req, person>>
  BY DEF WindowPasses
<1>2. TypeOK'
  BY <1>1 DEF WindowPasses, rowVars, ghostVars, TypeOK, Request, Points, Person, Statuses
<1>3. KeysNamed'
  BY <1>1 DEF WindowPasses, rowVars, ghostVars, KeysNamed, TypeOK, Holding, Request
<1>4. AttemptsDistinct'
  BY <1>1 DEF WindowPasses, rowVars, ghostVars, AttemptsDistinct, TypeOK, KeysNamed, Holding
<1>5. AcceptanceKnown'
  BY <1>1 DEF WindowPasses, rowVars, ghostVars, AcceptanceKnown, TypeOK, KeysNamed
<1>6. OneOpen'
  BY <1>1 DEF WindowPasses, rowVars, ghostVars, OneOpen, TypeOK, KeysNamed
<1>7. ExchangesSound'
  BY <1>1 DEF WindowPasses, rowVars, ghostVars, ExchangesSound, SendersHold, RefusedRight,
              NotSentRight, KeysRight, TypeOK, KeysNamed, AttemptsDistinct, AcceptanceKnown, Holding
<1>8. SentIsInTheLedger'
  BY <1>1 DEF WindowPasses, rowVars, ghostVars, SentIsInTheLedger, TypeOK, KeysNamed,
              AcceptanceKnown
<1>9. QED
  BY <1>2, <1>3, <1>4, <1>5, <1>6, <1>7, <1>8

LEMMA LookKeeps == ASSUME ReplyInv, NEW p \in People, NEW k \in Keys, Look(p, k) PROVE ReplyInv'
<1> USE DEF ReplyInv
<1>1. /\ person' \in [People -> Person]
      /\ \A q \in People \ {p} : person'[q] = person[q]
      /\ person'[p].pc = (IF out[k] > 0 THEN "sent" ELSE "not_sent")
      /\ person'[p].key = k /\ person'[p].try = attempt[k]
  BY DEF Look, TypeOK, Person
<1>2. TypeOK'
  BY <1>1 DEF Look, rowVars, ghostVars, TypeOK, Request, Points, Person, Statuses
<1>3. KeysNamed'
  BY <1>1 DEF Look, rowVars, ghostVars, KeysNamed, TypeOK, Holding, Request
<1>4. AttemptsDistinct'
  BY <1>1 DEF Look, rowVars, ghostVars, AttemptsDistinct, TypeOK, KeysNamed, Holding
<1>5. AcceptanceKnown'
  BY <1>1 DEF Look, rowVars, ghostVars, AcceptanceKnown, TypeOK, KeysNamed
<1>6. OneOpen'
  BY <1>1 DEF Look, rowVars, ghostVars, OneOpen, TypeOK, KeysNamed
<1>7. ExchangesSound'
  BY <1>1 DEF Look, rowVars, ghostVars, ExchangesSound, SendersHold, RefusedRight, NotSentRight,
              KeysRight, TypeOK, KeysNamed, AttemptsDistinct, AcceptanceKnown, Holding
<1>8. SentIsInTheLedger'
  BY <1>1 DEF Look, rowVars, ghostVars, SentIsInTheLedger, TypeOK, KeysNamed, AcceptanceKnown
<1>9. QED
  BY <1>2, <1>3, <1>4, <1>5, <1>6, <1>7, <1>8

LEMMA ResolveKeeps == ASSUME ReplyInv, NEW p \in People, Resolve(p) PROVE ReplyInv'
<1> USE DEF ReplyInv
<1>1. /\ person' \in [People -> Person]
      /\ \A q \in People \ {p} : person'[q] = person[q]
      /\ person'[p].pc = "idle"
  BY DEF Resolve, TypeOK, Person, Unasked
<1>2. person[p].key \in Keys
  BY DEF Resolve, KeysNamed
<1>3. TypeOK'
  BY <1>1, <1>2 DEF Resolve, Hits, rowVars, ghostVars, TypeOK, Request, Points, Person, Statuses
<1>4. KeysNamed'
  BY <1>1, <1>2 DEF Resolve, Hits, rowVars, ghostVars, KeysNamed, TypeOK, Holding, Request
<1>5. AttemptsDistinct'
  BY <1>1, <1>2 DEF Resolve, Hits, rowVars, ghostVars, AttemptsDistinct, TypeOK, KeysNamed, Holding
<1>6. AcceptanceKnown'
  BY <1>1, <1>2 DEF Resolve, Hits, rowVars, ghostVars, AcceptanceKnown, TypeOK, KeysNamed
<1>7. OneOpen'
  BY <1>1, <1>2 DEF Resolve, Hits, rowVars, ghostVars, OneOpen, TypeOK, KeysNamed
<1>8. ExchangesSound'
  <2> SUFFICES ASSUME ~stale' PROVE SendersHold' /\ RefusedRight' /\ NotSentRight' /\ KeysRight'
    BY DEF ExchangesSound
  <2>1. ~stale /\ (row[person[p].key] = "SENDING" => attempt[person[p].key] = person[p].try)
    BY DEF Resolve, Hits
  <2>2. SendersHold /\ RefusedRight /\ NotSentRight /\ KeysRight
    BY <2>1 DEF ExchangesSound
  <2>3. SendersHold'
    BY <1>1, <1>2, <2>1, <2>2 DEF Resolve, rowVars, ghostVars, SendersHold, TypeOK, KeysNamed,
                                  AttemptsDistinct, Holding
  <2>4. RefusedRight'
    BY <1>1, <1>2, <2>1, <2>2 DEF Resolve, rowVars, ghostVars, RefusedRight, TypeOK, KeysNamed,
                                  AttemptsDistinct, Holding
  <2>5. NotSentRight'
    BY <1>1, <1>2, <2>1, <2>2 DEF Resolve, rowVars, ghostVars, NotSentRight, TypeOK, KeysNamed,
                                  AttemptsDistinct, Holding
  <2>6. KeysRight'
    BY <1>1, <1>2, <2>1, <2>2 DEF Resolve, rowVars, ghostVars, KeysRight, TypeOK, KeysNamed,
                                  AttemptsDistinct, Holding, NotSentRight
  <2>7. QED
    BY <2>3, <2>4, <2>5, <2>6
<1>9. SentIsInTheLedger'
  BY <1>1, <1>2 DEF Resolve, Hits, rowVars, ghostVars, SentIsInTheLedger, TypeOK, KeysNamed,
                    AcceptanceKnown
<1>10. QED
  BY <1>3, <1>4, <1>5, <1>6, <1>7, <1>8, <1>9

LEMMA ReplyStep == ReplyInv /\ [Next]_vars => ReplyInv'
<1>1. ASSUME ReplyInv, Next PROVE ReplyInv'
  BY <1>1, ReadPriorKeeps, RefuseKeeps, ClaimKeeps, AcceptedKeeps, RejectedKeeps, AcceptedUnheardKeeps, RecordRejectedKeeps, FinaliseKeeps, FinaliseFailsKeeps, FallbackKeeps, AbandonKeeps, WindowPassesKeeps, LookKeeps, ResolveKeeps
     DEF Next
<1>2. ASSUME ReplyInv, UNCHANGED vars PROVE ReplyInv'
  BY <1>2 DEF ReplyInv, vars, rowVars, ghostVars, TypeOK, KeysNamed, AttemptsDistinct,
              AcceptanceKnown,
              OneOpen, ExchangesSound, SendersHold, RefusedRight, NotSentRight, KeysRight, SentIsInTheLedger
<1>3. QED
  BY <1>1, <1>2

THEOREM ReplyInvariant == Spec => []ReplyInv
<1>1. Init => ReplyInv
  <2>1. Init => TypeOK
    BY TypeInit
  <2>2. Init => KeysNamed /\ AttemptsDistinct /\ AcceptanceKnown /\ OneOpen /\ ExchangesSound /\ SentIsInTheLedger
    BY DEF Init, Away, Unasked, KeysNamed, AttemptsDistinct, AcceptanceKnown, OneOpen,
           ExchangesSound,
           SendersHold, RefusedRight, NotSentRight, KeysRight, SentIsInTheLedger, Holding
  <2>3. QED
    BY <2>1, <2>2 DEF ReplyInv
<1>2. QED
  BY <1>1, ReplyStep, PTL DEF Spec

\* One message per idempotency key, whatever retries, deaths and resolutions do.
THEOREM RepliesLeaveOnce == Spec => []OneReplyPerKey
<1>1. ReplyInv => OneReplyPerKey
  <2> SUFFICES ASSUME ReplyInv, ~stale, NEW k \in Keys \ unheard
               PROVE  out[k] <= 1 /\ (row[k] = "FAILED" => out[k] = 0)
    BY DEF OneReplyPerKey
  <2>1. KeysRight
    BY DEF ReplyInv, ExchangesSound
  <2>2. QED
    BY <2>1 DEF KeysRight
<1>2. QED
  BY <1>1, ReplyInvariant, PTL

\* The lock on the thread's row and the compare-and-set keep one send per thread.
THEOREM ThreadsSendOnce == Spec => []OneSendPerThread
<1>1. ReplyInv => OneSendPerThread
  BY DEF ReplyInv, OneOpen, ExchangesSound, SendersHold, KeysNamed, AttemptsDistinct, Holding,
         OneSendPerThread
<1>2. QED
  BY <1>1, ReplyInvariant, PTL

\* A row shown as SENT stands for an accepted message the contact ledger counts.
THEOREM SentRepliesAreCounted == Spec => []SentIsInTheLedger
<1>1. QED
  BY ReplyInvariant, PTL DEF ReplyInv

=============================================================================
