------------------------ MODULE EvidenceLedgerProofs ------------------------
(***************************************************************************)
(* Theorems about EvidenceLedger, for any number of appenders, entries,    *)
(* attempts and failures.                                                  *)
(***************************************************************************)
EXTENDS EvidenceLedger, TLAPS

-----------------------------------------------------------------------------
(* Types. *)

\* The hash of an envelope is a hash.
LEMMA HashType == \A env \in Envelope : HashOf(env) \in Hash
<1>1. QED
  BY DEF Envelope, HashOf, Hash

LEMMA TypeInit == Init => TypeOK
<1>1. QED
  BY DEF Init, TypeOK

LEMMA CandidateType ==
    ASSUME TypeOK, NEW a \in Appenders, call[a].pc \in {"seq", "index"}
    PROVE  Candidate(a) \in Envelope
<1>1. call[a] \in Calling
  BY DEF TypeOK, Idle
<1>2. QED
  BY <1>1 DEF Candidate, Calling, Envelope

LEMMA LastSeqCalling == ASSUME TypeOK, NEW a \in Appenders, LastSeq(a) PROVE call[a] \in Calling
<1>1. call[a].pc = "last"
  BY DEF LastSeq
<1>2. QED
  BY <1>1 DEF TypeOK, Idle

LEMMA TypeStep == TypeOK /\ [Next]_vars => TypeOK'
<1> SUFFICES ASSUME TypeOK, [Next]_vars PROVE TypeOK'
  OBVIOUS
<1>1. ASSUME NEW a \in Appenders, NEW e \in Entry, Ask(a, e) PROVE TypeOK'
  <2>1. [pc |-> "read", entry |-> e, tries |-> 0, seq |-> 0, prev |-> Genesis] \in Calling
    BY DEF Calling, Genesis, Hash
  <2>2. QED
    BY <1>1, <2>1 DEF TypeOK, Ask
<1>2. ASSUME NEW a \in Appenders, Read(a) PROVE TypeOK'
  <2>1. call[a] \in Calling
    BY <1>2 DEF TypeOK, Idle, Read
  <2>2. call[a].entry \in Entry
    BY <2>1 DEF Calling
  <2>3. [call[a] EXCEPT !.pc = "last"] \in Calling
    BY <2>1 DEF Calling
  <2>4. QED
    BY <1>2, <2>2, <2>3 DEF TypeOK, Read, AnswerExisting, Return
<1>3. ASSUME NEW a \in Appenders, LastSeq(a) PROVE TypeOK'
  <2>1. call[a] \in Calling
    BY <1>3, LastSeqCalling
  <2>2. CASE chain = {} /\ call' = [call EXCEPT ![a].pc = "seq", ![a].seq = 0, ![a].prev = Genesis]
    <3>1. Genesis \in Hash
      BY DEF Genesis, Hash
    <3>2. [[[call[a] EXCEPT !.pc = "seq"] EXCEPT !.seq = 0] EXCEPT !.prev = Genesis] \in Calling
      BY <2>1, <3>1 DEF Calling
    <3>3. QED
      BY <1>3, <2>2, <3>2 DEF TypeOK, LastSeq
  <2>3. ASSUME NEW env \in chain,
               call' = [call EXCEPT ![a].pc = "seq", ![a].seq = env.seq, ![a].prev = HashOf(env)]
        PROVE TypeOK'
    <3>1. env.seq \in Nat /\ HashOf(env) \in Hash
      BY HashType DEF TypeOK, Envelope
    <3>2. [[[call[a] EXCEPT !.pc = "seq"] EXCEPT !.seq = env.seq] EXCEPT !.prev = HashOf(env)] \in Calling
      BY <2>1, <3>1 DEF Calling
    <3>3. QED
      BY <1>3, <2>3, <3>2 DEF TypeOK, LastSeq
  <2>4. QED
    BY <1>3, <2>2, <2>3 DEF LastSeq
<1>4. ASSUME NEW a \in Appenders, PutSeq(a) PROVE TypeOK'
  <2>1. call[a] \in Calling
    BY <1>4 DEF TypeOK, Idle, PutSeq
  <2>2. [call[a] EXCEPT !.pc = "index"] \in Calling
    BY <2>1 DEF Calling
  <2>3. Candidate(a) \in Envelope
    BY <1>4, CandidateType DEF PutSeq
  <2>4. QED
    BY <1>4, <2>2, <2>3 DEF TypeOK, PutSeq
<1>5. ASSUME NEW a \in Appenders, LoseSeq(a) PROVE TypeOK'
  <2>1. call[a] \in Calling
    BY <1>5 DEF TypeOK, Idle, LoseSeq
  <2>2. [[call[a] EXCEPT !.pc = "last"] EXCEPT !.tries = call[a].tries + 1] \in Calling
    <3>1. call[a].tries + 1 \in Nat
      BY <2>1 DEF Calling
    <3>2. QED
      BY <2>1, <3>1 DEF Calling
  <2>3. QED
    BY <1>5, <2>2 DEF TypeOK, LoseSeq, Return
<1>6. ASSUME NEW a \in Appenders, PutIndex(a) PROVE TypeOK'
  <2>1. call[a] \in Calling
    BY <1>6 DEF TypeOK, Idle, PutIndex
  <2>2. call[a].entry \in Entry
    BY <2>1 DEF Calling
  <2>3. Candidate(a) \in Envelope
    BY <1>6, CandidateType DEF PutIndex
  <2>4. QED
    BY <1>6, <2>2, <2>3 DEF TypeOK, PutIndex, AnswerExisting, Return
<1>7. ASSUME NEW a \in Appenders, Fail(a) PROVE TypeOK'
  BY <1>7, CandidateType DEF TypeOK, Fail, Return
<1>8. CASE UNCHANGED vars
  BY <1>8 DEF TypeOK, vars
<1>9. QED
  BY <1>1, <1>2, <1>3, <1>4, <1>5, <1>6, <1>7, <1>8 DEF Next

\* Every variable of the ledger keeps its type through appends and failures.
THEOREM TypeCorrect == Spec => []TypeOK
<1>1. QED
  BY TypeInit, TypeStep, PTL DEF Spec

-----------------------------------------------------------------------------
(* The chain and the index. *)

\* Why: a call that is about to write a number holds the hash of the object before
\* it, and one that is about to write the index has its object in the chain.
CallsSound ==
    \A a \in Appenders :
        /\ call[a].pc = "seq" => Links(call[a].seq, call[a].prev)
        /\ call[a].pc = "index" => Candidate(a) \in chain

LedgerInv == ChainIntact /\ CallsSound /\ RecordedStands

\* A chain that grows keeps its links.
LEMMA LinksGrow ==
    ASSUME chain \subseteq chain', NEW n, NEW hash, Links(n, hash)
    PROVE  Links(n, hash)'
<1>1. QED
  BY DEF Links

\* Nothing happens to the chain: the other calls stay sound.
LEMMA ChainStays == ASSUME ChainIntact, UNCHANGED chain PROVE ChainIntact'
<1>1. QED
  BY DEF ChainIntact, Links

\* Writing a free number whose predecessor is known keeps the chain intact.
LEMMA ChainGrows ==
    ASSUME TypeOK, ChainIntact, CallsSound, NEW a \in Appenders,
           call[a].pc = "seq", ~Taken(call[a].seq + 1), chain' = chain \cup {Candidate(a)}
    PROVE  ChainIntact'
<1> DEFINE new == Candidate(a)
<1>1. call[a] \in Calling
  BY DEF TypeOK, Idle
<1>2. call[a].seq \in Nat /\ new.seq = call[a].seq + 1 /\ new.prev = call[a].prev
  BY <1>1 DEF Calling, Candidate
<1>3. Links(new.seq - 1, new.prev)
  BY <1>2 DEF CallsSound
<1>4. \A env \in chain : env.seq # new.seq
  BY <1>2 DEF Taken
<1>5. ASSUME NEW env \in chain', NEW other \in chain', env.seq = other.seq PROVE env = other
  BY <1>4, <1>5 DEF ChainIntact
<1>6. ASSUME NEW env \in chain' PROVE Links(env.seq - 1, env.prev)'
  BY <1>3, LinksGrow DEF ChainIntact
<1>7. QED
  BY <1>5, <1>6 DEF ChainIntact

\* Calls that stay where they are stay sound while the chain grows.
LEMMA OthersSound ==
    ASSUME CallsSound, NEW a \in Appenders, chain \subseteq chain',
           \A b \in Appenders \ {a} : call'[b] = call[b],
           call'[a].pc = "seq" => Links(call[a].seq, call[a].prev)',
           call'[a].pc = "index" => Candidate(a)' \in chain'
    PROVE  CallsSound'
<1>1. ASSUME NEW b \in Appenders \ {a}, call'[b].pc = "seq" PROVE Links(call[b].seq, call[b].prev)'
  <2>1. call'[b] = call[b] /\ Links(call[b].seq, call[b].prev)
    BY <1>1 DEF CallsSound
  <2>2. QED
    BY <2>1 DEF Links
<1>2. ASSUME NEW b \in Appenders \ {a}, call'[b].pc = "index" PROVE Candidate(b)' \in chain'
  BY <1>2 DEF CallsSound, Candidate
<1>3. ASSUME NEW b \in Appenders
      PROVE /\ call'[b].pc = "seq" => Links(call[b].seq, call[b].prev)'
            /\ call'[b].pc = "index" => Candidate(b)' \in chain'
  <2>1. CASE b = a
    BY <2>1
  <2>2. CASE b # a
    BY <2>2, <1>1, <1>2
  <2>3. QED
    BY <2>1, <2>2
<1>4. QED
  BY <1>3 DEF CallsSound

LEMMA LedgerStep == TypeOK /\ LedgerInv /\ [Next]_vars => LedgerInv'
<1> SUFFICES ASSUME TypeOK, LedgerInv, [Next]_vars PROVE LedgerInv'
  OBVIOUS
<1> USE DEF LedgerInv
<1>1. ASSUME NEW a \in Appenders, NEW e \in Entry, Ask(a, e) PROVE LedgerInv'
  <2>1. CallsSound'
    BY <1>1, OthersSound DEF Ask, TypeOK
  <2>2. QED
    BY <1>1, <2>1, ChainStays DEF Ask, RecordedStands, At
<1>2. ASSUME NEW a \in Appenders, Read(a) PROVE LedgerInv'
  <2>1. call'[a].pc \in {"last", "idle"} /\ \A b \in Appenders \ {a} : call'[b] = call[b]
    <3>1. call[a] \in Calling
      BY <1>2 DEF TypeOK, Idle, Read
    <3>2. CASE Return(a)
      BY <3>2 DEF Return, TypeOK, Idle
    <3>3. CASE call' = [call EXCEPT ![a].pc = "last"]
      BY <3>1, <3>3 DEF TypeOK, Calling
    <3>4. QED
      BY <1>2, <3>2, <3>3 DEF Read, AnswerExisting
  <2>2. CallsSound'
    BY <1>2, <2>1, OthersSound DEF Read
  <2>3. QED
    BY <1>2, <2>2, ChainStays DEF Read, AnswerExisting, RecordedStands, At
<1>3. ASSUME NEW a \in Appenders, LastSeq(a) PROVE LedgerInv'
  <2>1. call[a] \in Calling
    BY <1>3, LastSeqCalling
  <2>2. call'[a].pc = "seq" /\ \A b \in Appenders \ {a} : call'[b] = call[b]
    <3>1. CASE call' = [call EXCEPT ![a].pc = "seq", ![a].seq = 0, ![a].prev = Genesis]
      BY <2>1, <3>1 DEF TypeOK, Calling
    <3>2. ASSUME NEW env \in chain,
                 call' = [call EXCEPT ![a].pc = "seq", ![a].seq = env.seq, ![a].prev = HashOf(env)]
          PROVE call'[a].pc = "seq" /\ \A b \in Appenders \ {a} : call'[b] = call[b]
      BY <2>1, <3>2 DEF TypeOK, Calling
    <3>3. QED
      BY <1>3, <3>1, <3>2 DEF LastSeq
  <2>3. Links(call[a].seq, call[a].prev)'
    <3>1. CASE call' = [call EXCEPT ![a].pc = "seq", ![a].seq = 0, ![a].prev = Genesis]
      BY <2>1, <3>1 DEF Links, TypeOK, Calling
    <3>2. ASSUME NEW env \in chain,
                 call' = [call EXCEPT ![a].pc = "seq", ![a].seq = env.seq, ![a].prev = HashOf(env)]
          PROVE Links(call[a].seq, call[a].prev)'
      <4>1. call'[a].seq = env.seq /\ call'[a].prev = HashOf(env)
        BY <2>1, <3>2 DEF TypeOK, Calling
      <4>2. QED
        BY <1>3, <4>1 DEF Links, LastSeq, HashOf
    <3>3. QED
      BY <1>3, <3>1, <3>2 DEF LastSeq
  <2>4. CallsSound'
    BY <1>3, <2>2, <2>3, OthersSound DEF LastSeq
  <2>5. QED
    BY <1>3, <2>4, ChainStays DEF LastSeq, RecordedStands, At
<1>4. ASSUME NEW a \in Appenders, PutSeq(a) PROVE LedgerInv'
  <2>1. call[a] \in Calling
    BY <1>4 DEF TypeOK, Idle, PutSeq
  <2>2. ChainIntact'
    BY <1>4, ChainGrows DEF PutSeq
  <2>3. call'[a].pc = "index" /\ Candidate(a)' = Candidate(a) /\ \A b \in Appenders \ {a} : call'[b] = call[b]
    BY <1>4, <2>1 DEF PutSeq, Candidate, TypeOK, Calling
  <2>4. CallsSound'
    BY <1>4, <2>3, OthersSound DEF PutSeq
  <2>5. QED
    BY <1>4, <2>2, <2>4 DEF PutSeq, RecordedStands, At
<1>5. ASSUME NEW a \in Appenders, LoseSeq(a) PROVE LedgerInv'
  <2>1. call'[a].pc \in {"last", "idle"} /\ \A b \in Appenders \ {a} : call'[b] = call[b]
    <3>1. call[a] \in Calling
      BY <1>5 DEF TypeOK, Idle, LoseSeq
    <3>2. QED
      BY <1>5, <3>1 DEF LoseSeq, Return, TypeOK, Idle, Calling
  <2>2. CallsSound'
    BY <1>5, <2>1, OthersSound DEF LoseSeq
  <2>3. QED
    BY <1>5, <2>2, ChainStays DEF LoseSeq, RecordedStands, At
<1>6. ASSUME NEW a \in Appenders, PutIndex(a) PROVE LedgerInv'
  <2>1. call'[a].pc = "idle" /\ \A b \in Appenders \ {a} : call'[b] = call[b]
    BY <1>6 DEF PutIndex, AnswerExisting, Return, TypeOK, Idle
  <2>2. CallsSound'
    BY <1>6, <2>1, OthersSound DEF PutIndex
  <2>3. Candidate(a) \in chain /\ Candidate(a).entry = call[a].entry
    BY <1>6 DEF PutIndex, CallsSound, Candidate
  <2>4. RecordedStands'
    BY <1>6, <2>3 DEF PutIndex, AnswerExisting, RecordedStands, At
  <2>5. QED
    BY <1>6, <2>2, <2>4, ChainStays DEF PutIndex
<1>7. ASSUME NEW a \in Appenders, Fail(a) PROVE LedgerInv'
  <2>1. call'[a].pc = "idle" /\ \A b \in Appenders \ {a} : call'[b] = call[b]
    BY <1>7 DEF Fail, Return, TypeOK, Idle
  <2>2. CallsSound'
    BY <1>7, <2>1, OthersSound DEF Fail
  <2>3. ChainIntact'
    BY <1>7, ChainGrows, ChainStays DEF Fail
  <2>4. call[a].pc = "index" => Candidate(a) \in chain /\ Candidate(a).entry = call[a].entry
    BY DEF CallsSound, Candidate
  <2>5. RecordedStands'
    BY <1>7, <2>4 DEF Fail, RecordedStands, At
  <2>6. QED
    BY <2>2, <2>3, <2>5
<1>8. CASE UNCHANGED vars
  BY <1>8, ChainStays DEF vars, CallsSound, Links, Candidate, RecordedStands, At
<1>9. QED
  BY <1>1, <1>2, <1>3, <1>4, <1>5, <1>6, <1>7, <1>8 DEF Next

THEOREM LedgerInvariant == Spec => []LedgerInv
<1>1. Init => LedgerInv
  BY DEF Init, LedgerInv, ChainIntact, CallsSound, RecordedStands, Idle
<1>2. QED
  BY <1>1, LedgerStep, TypeCorrect, PTL DEF Spec

\* An audit of the chain finds no gap, fork or broken link, whoever appended
\* concurrently and wherever a call broke off (verifyLedgerChain, append).
THEOREM ChainIsIntact == Spec => []ChainIntact
<1>1. QED
  BY LedgerInvariant, PTL DEF LedgerInv

\* An entry that append has answered for stays at its key and is in the chain.
THEOREM RecordedEntriesStand == Spec => []RecordedStands
<1>1. QED
  BY LedgerInvariant, PTL DEF LedgerInv

=============================================================================
