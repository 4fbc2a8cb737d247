----------------------------- MODULE JobCloseout -----------------------------
(***************************************************************************)
(* The end of a job: its labour (ops/clock.ts, ops/shifts.ts), the         *)
(* closeout that freezes its economics and the reopening that clears them  *)
(* and keeps them in the audit log (routes/delivery.ts).                   *)
(*                                                                         *)
(* No handler holds a lock: every action is the code between two awaits.   *)
(* A shift's hours are counted by the writes they went through, a closeout *)
(* by its version.                                                         *)
(***************************************************************************)
EXTENDS Naturals

CONSTANTS
    Shifts,     \* shift records on the job
    Crew,       \* clock-out and edit calls that may run at the same time
    Closers,    \* closeout and reopen calls that may run at the same time
    MaxVersion, \* bound: closeouts
    MaxHours    \* bound: writes to one shift

VARIABLES
    job,     \* the Job row
    hours,   \* per shift: None, 0 while it is open, how often it was written, or Gone
    crew,    \* the calls on shifts
    closer,  \* the calls on the job
    audit,   \* closeout versions in the audit log
    mislaid  \* history: versions cleared by a reopening that had loaded another, or whose audit entry failed

vars == <<job, hours, crew, closer, audit, mislaid>>

None == MaxHours + 1 \* not created
Gone == MaxHours + 2 \* deleted
Made == {s \in Shifts : hours[s] <= MaxHours}
Open == {s \in Made : hours[s] = 0}

Figures == SUBSET (Shifts \X (0..MaxHours))

\* `known', `gap' and `touched' are about the closeout: the shifts created by
\* completedAt, those of them created after the shifts were read, and those
\* written since they were read.
TypeOK ==
    /\ job \in [status : {"ACTIVE", "COMPLETE"}, version : 0..MaxVersion, frozen : Figures,
                known : SUBSET Shifts, gap : SUBSET Shifts, touched : SUBSET Shifts]
    /\ hours \in [Shifts -> 0..Gone]
    /\ crew \in [Crew -> Shifts \cup {"idle"}]
    /\ closer \in [Closers -> [pc : {"idle", "shifts", "stamp", "write", "reopen"},
                               version : 0..MaxVersion, frozen : Figures,
                               known : SUBSET Shifts, gap : SUBSET Shifts, touched : SUBSET Shifts]]
    /\ audit \subseteq 1..MaxVersion
    /\ mislaid \subseteq 1..MaxVersion

Resting == [pc |-> "idle", version |-> 0, frozen |-> {}, known |-> {}, gap |-> {}, touched |-> {}]

Init ==
    /\ job = [status |-> "ACTIVE", version |-> 0, frozen |-> {}, known |-> {}, gap |-> {}, touched |-> {}]
    /\ hours = [s \in Shifts |-> None]
    /\ crew = [w \in Crew |-> "idle"]
    /\ closer = [c \in Closers |-> Resting]
    /\ audit = {} /\ mislaid = {}

-----------------------------------------------------------------------------
(* Labour.  Nothing here looks at the job's status. *)

\* Shift s appears in the calls that have read the shifts without it.
Appear(s) == closer' = [c \in Closers |->
    IF closer[c].pc = "stamp" THEN [closer[c] EXCEPT !.gap = @ \cup {s}] ELSE closer[c]]

\* Shift s is written under the calls that have read it, or a closed job.
Touch(s) ==
    /\ closer' = [c \in Closers |->
         IF closer[c].pc \in {"stamp", "write"} THEN [closer[c] EXCEPT !.touched = @ \cup {s}] ELSE closer[c]]
    /\ job' = IF job.status = "COMPLETE" THEN [job EXCEPT !.touched = @ \cup {s}] ELSE job

\* POST /clock/in, or a manual entry, which may already be closed.
Create(s) ==
    /\ hours[s] = None
    /\ \E h \in {0, 1} : hours' = [hours EXCEPT ![s] = h]
    /\ Appear(s)
    /\ UNCHANGED <<job, crew, audit, mislaid>>

\* POST /clock/out reads the open shift; PUT /shifts/:id reads any.
ReadShift(w, s) ==
    /\ crew[w] = "idle" /\ s \in Made /\ hours[s] < MaxHours
    /\ crew' = [crew EXCEPT ![w] = s]
    /\ UNCHANGED <<job, hours, closer, audit, mislaid>>

\* The write is by id alone; it fails if the shift has been deleted.
WriteShift(w) ==
    LET s == crew[w] IN
    /\ s # "idle"
    /\ crew' = [crew EXCEPT ![w] = "idle"]
    /\ \/ /\ s \in Made /\ hours[s] < MaxHours
          /\ hours' = [hours EXCEPT ![s] = @ + 1]
          /\ Touch(s)
       \/ /\ s \notin Made \/ hours[s] = MaxHours
          /\ UNCHANGED <<hours, job, closer>>
    /\ UNCHANGED <<audit, mislaid>>

\* DELETE /shifts/:id
Delete(s) ==
    /\ s \in Made
    /\ hours' = [hours EXCEPT ![s] = Gone]
    /\ Touch(s)
    /\ UNCHANGED <<crew, audit, mislaid>>

-----------------------------------------------------------------------------
(* POST /jobs/:id/closeout *)

Rest(c) == closer' = [closer EXCEPT ![c] = Resting]

Load(c) ==
    /\ closer[c].pc = "idle"
    /\ closer' = [closer EXCEPT ![c] = [Resting EXCEPT
                     !.pc = IF job.status = "ACTIVE" THEN "shifts" ELSE "reopen", !.version = job.version]]
    /\ UNCHANGED <<job, hours, crew, audit, mislaid>>

\* The job's shifts, none of which may be open.
ReadShifts(c) ==
    /\ closer[c].pc = "shifts"
    /\ IF Open # {} THEN Rest(c)
       ELSE closer' = [closer EXCEPT ![c].pc = "stamp", ![c].frozen = {<<s, hours[s]>> : s \in Made}]
    /\ UNCHANGED <<job, hours, crew, audit, mislaid>>

\* The crew's rates are read, then `now' is taken: the completedAt to be.
Stamp(c) ==
    /\ closer[c].pc = "stamp"
    /\ closer' = [closer EXCEPT ![c].pc = "write", ![c].known = Made]
    /\ UNCHANGED <<job, hours, crew, audit, mislaid>>

Closed(c, known) == job' = [status |-> "COMPLETE", version |-> job.version + 1, frozen |-> closer[c].frozen,
                            known |-> known, gap |-> closer[c].gap, touched |-> closer[c].touched]

\* Mutant: the write does not ask for an ACTIVE job.
CloseWrite_NoCompareAndSet(c) ==
    /\ closer[c].pc = "write" /\ job.version < MaxVersion
    /\ Closed(c, closer[c].known)
    /\ Rest(c)
    /\ UNCHANGED <<hours, crew, audit, mislaid>>

\* Mutant: completedAt is the time of the write.
CloseWrite_StampsLate(c) ==
    /\ closer[c].pc = "write" /\ job.version < MaxVersion
    /\ IF job.status = "ACTIVE" THEN Closed(c, Made) ELSE UNCHANGED job
    /\ Rest(c)
    /\ UNCHANGED <<hours, crew, audit, mislaid>>

\* The snapshot and the stamp, if the job still is ACTIVE.
CloseWrite(c) ==
    /\ closer[c].pc = "write" /\ job.version < MaxVersion
    /\ IF job.status = "ACTIVE" THEN Closed(c, closer[c].known) ELSE UNCHANGED job
    /\ Rest(c)
    /\ UNCHANGED <<hours, crew, audit, mislaid>>

\* POST /jobs/:id/reopen: clear the snapshot if the job still is COMPLETE, then
\* log the one that was loaded; a failure to log is swallowed.
ReopenWrite(c) ==
    /\ closer[c].pc = "reopen"
    /\ IF job.status = "COMPLETE"
       THEN /\ job' = [job EXCEPT !.status = "ACTIVE", !.frozen = {}, !.known = {}, !.gap = {}, !.touched = {}]
            /\ \/ /\ audit' = audit \cup {closer[c].version}
                  /\ mislaid' = IF closer[c].version = job.version THEN mislaid ELSE mislaid \cup {job.version}
               \/ audit' = audit /\ mislaid' = mislaid \cup {job.version}
       ELSE UNCHANGED <<job, audit, mislaid>>
    /\ Rest(c)
    /\ UNCHANGED <<hours, crew>>

Next ==
    \/ \E s \in Shifts : Create(s) \/ Delete(s) \/ \E w \in Crew : ReadShift(w, s)
    \/ \E w \in Crew : WriteShift(w)
    \/ \E c \in Closers : Load(c) \/ ReadShifts(c) \/ Stamp(c) \/ CloseWrite(c) \/ ReopenWrite(c)

Spec == Init /\ [][Next]_vars

-----------------------------------------------------------------------------

\* The figures of a closed job hold no shift that was still open, and every shift
\* of the job is in them as it is now, or is reported as late (created after
\* completedAt), so that no labour disappears between the two.  Excused: a shift
\* created between the reading of the shifts and the stamp, and one rewritten or
\* deleted since it was read, neither of which the job shows.
LabourIsAccounted ==
    job.status = "COMPLETE" =>
        /\ \A f \in job.frozen : f[2] > 0
        /\ \A s \in (Made \cap job.known) \ (job.gap \cup job.touched) : <<s, hours[s]>> \in job.frozen

\* Every snapshot a closeout ever froze is the current one or in the audit log,
\* however closeouts and reopenings race ("never a silent edit of history").
\* Excused: an audit entry that failed, and a reopening that cleared another
\* version than the one it had loaded.
CloseoutHistoryKept ==
    \A v \in 1..job.version :
        v \in audit \cup mislaid \/ (v = job.version /\ job.status = "COMPLETE")

=============================================================================
