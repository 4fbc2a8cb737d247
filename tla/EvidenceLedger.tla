--------------------------- MODULE EvidenceLedger ---------------------------
(***************************************************************************)
(* The external ledger of one workspace (packages/backend-core/src/lib/    *)
(* evidenceLedger.ts): append, with its two create-only writes, the        *)
(* numbered hash chain and the index under semantic keys that              *)
(* EvidenceDeletion reads as the set `ledger'.                             *)
(*                                                                         *)
(* The API and the worker append at the same time; a call may fail or its  *)
(* process may die at every request to the store, before or after the      *)
(* store has done it.  The store is immutable (the runner refuses to run   *)
(* unless its probe says so), so an object read later reads the same.      *)
(***************************************************************************)
EXTENDS Integers, Sequences

CONSTANTS
    Names,     \* semantic keys
    Bodies,    \* what an entry says apart from its time, which `sameLogical' ignores
    Appenders, \* calls of append that may run at the same time
    MaxTries,  \* attempts to get a number (40 in the code)
    MaxSeq     \* bound: no call starts once the chain is this long

VARIABLES
    chain, \* the objects under seq/
    index, \* the objects at semantic keys
    call,  \* the calls
    acked  \* history: entries a call has returned as recorded

vars == <<chain, index, call, acked>>

Entry == [name : Names, body : Bodies]

\* A hash stands for everything it commits to: the entries up to its object.
Hash == Seq(Entry)
Envelope == [seq : Nat \ {0}, prev : Hash, entry : Entry]
Genesis == << >>
HashOf(env) == Append(env.prev, env.entry)

Calling == [pc : {"read", "last", "seq", "index"}, entry : Entry, tries : Nat, seq : Nat, prev : Hash]
Idle == [pc |-> "idle"]

TypeOK ==
    /\ chain \subseteq Envelope
    /\ index \subseteq Envelope
    /\ call \in [Appenders -> Calling \cup {Idle}]
    /\ acked \subseteq Entry

Init ==
    /\ chain = {} /\ index = {}
    /\ call = [a \in Appenders |-> Idle]
    /\ acked = {}

Return(a) == call' = [call EXCEPT ![a] = Idle]

\* The object at the entry's semantic key, as a set.
At(e) == {env \in index : env.entry.name = e.name}

\* Mutant: whatever stands under the key is the answer.
AnswerExisting_AnyEntry(a) == acked' = acked \cup {call[a].entry} /\ Return(a)

\* The existing entry is the answer when it says the same, else a conflict.
AnswerExisting(a) ==
    LET e == call[a].entry IN
    /\ acked' = IF \E env \in At(e) : env.entry = e THEN acked \cup {e} ELSE acked
    /\ Return(a)

Ask(a, e) ==
    /\ call[a] = Idle
    /\ \A env \in chain : env.seq < MaxSeq
    /\ call' = [call EXCEPT ![a] = [pc |-> "read", entry |-> e, tries |-> 0, seq |-> 0, prev |-> Genesis]]
    /\ UNCHANGED <<chain, index, acked>>

Read(a) ==
    /\ call[a].pc = "read"
    /\ \/ At(call[a].entry) # {} /\ AnswerExisting(a)
       \/ /\ At(call[a].entry) = {}
          /\ call' = [call EXCEPT ![a].pc = "last"]
          /\ UNCHANGED acked
    /\ UNCHANGED <<chain, index>>

\* lastSeq: the number and the hash of the last object.
LastSeq(a) ==
    /\ call[a].pc = "last"
    /\ \/ /\ chain = {}
          /\ call' = [call EXCEPT ![a].pc = "seq", ![a].seq = 0, ![a].prev = Genesis]
       \/ \E env \in chain :
             /\ \A other \in chain : other.seq <= env.seq
             /\ call' = [call EXCEPT ![a].pc = "seq", ![a].seq = env.seq, ![a].prev = HashOf(env)]
    /\ UNCHANGED <<chain, index, acked>>

Candidate(a) == [seq |-> call[a].seq + 1, prev |-> call[a].prev, entry |-> call[a].entry]

\* Mutant: the write does not ask for a new object.
Taken_Unchecked(n) == n = 0

Taken(n) == \E env \in chain : env.seq = n

\* The create-only write of the next number.
PutSeq(a) ==
    /\ call[a].pc = "seq" /\ ~Taken(call[a].seq + 1)
    /\ chain' = chain \cup {Candidate(a)}
    /\ call' = [call EXCEPT ![a].pc = "index"]
    /\ UNCHANGED <<index, acked>>

\* Another call was faster: look again, or give up.
LoseSeq(a) ==
    /\ call[a].pc = "seq" /\ Taken(call[a].seq + 1)
    /\ IF call[a].tries + 1 < MaxTries
       THEN call' = [call EXCEPT ![a].pc = "last", ![a].tries = @ + 1]
       ELSE Return(a)
    /\ UNCHANGED <<chain, index, acked>>

\* The create-only write at the semantic key; a key written meanwhile is read.
PutIndex(a) ==
    /\ call[a].pc = "index"
    /\ \/ /\ At(call[a].entry) = {}
          /\ index' = index \cup {Candidate(a)}
          /\ acked' = acked \cup {call[a].entry}
          /\ Return(a)
       \/ /\ At(call[a].entry) # {}
          /\ AnswerExisting(a)
          /\ UNCHANGED index
    /\ UNCHANGED chain

\* A request fails or the process dies, the write done or not.
Fail(a) ==
    /\ call[a] # Idle
    /\ Return(a)
    /\ \/ UNCHANGED <<chain, index>>
       \/ /\ call[a].pc = "seq" /\ ~Taken(call[a].seq + 1)
          /\ chain' = chain \cup {Candidate(a)}
          /\ UNCHANGED index
       \/ /\ call[a].pc = "index" /\ At(call[a].entry) = {}
          /\ index' = index \cup {Candidate(a)}
          /\ UNCHANGED chain
    /\ UNCHANGED acked

Next == \E a \in Appenders :
    \/ \E e \in Entry : Ask(a, e)
    \/ Read(a) \/ LastSeq(a) \/ PutSeq(a) \/ LoseSeq(a) \/ PutIndex(a) \/ Fail(a)

Spec == Init /\ [][Next]_vars

-----------------------------------------------------------------------------

Links(n, hash) == \/ n = 0 /\ hash = Genesis
                  \/ \E env \in chain : env.seq = n /\ hash = HashOf(env)

\* verifyLedgerChain finds nothing wrong, whoever appended at the same time and
\* wherever a call broke off: one object per number, no gap, every object holding
\* the hash of the one before it.
ChainIntact ==
    /\ \A env, other \in chain : env.seq = other.seq => env = other
    /\ \A env \in chain : Links(env.seq - 1, env.prev)

\* What append has reported as recorded stands under its key for good, one entry
\* per key, and everything under a key is in the chain: the state a
\* reconciliation reads is never ahead of what an audit of the chain can see.
RecordedStands ==
    /\ \A e \in acked : \E env \in At(e) : env.entry = e
    /\ index \subseteq chain
    /\ \A env, other \in index : env.entry.name = other.entry.name => env = other

=============================================================================
