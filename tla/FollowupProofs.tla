--------------------------- MODULE FollowupProofs ---------------------------
(***************************************************************************)
(* Theorems about FollowupTask, for any number of workers, steps, days,    *)
(* deferrals and failures, and any delay between the steps; among them     *)
(* that the steps implement the abstract slot of SendSlot.                 *)
(***************************************************************************)
EXTENDS FollowupSlots, TLAPS

\* The functions among the variables.
Shapes ==
    /\ row \in [Steps -> RowStates] /\ task \in [Steps -> TaskStates]
    /\ due \in [Steps -> Nat] /\ sentOn \in [Steps -> Nat]
    /\ queued \in [Steps -> Nat] /\ mails \in [Steps -> Nat]
    /\ pc \in [Workers -> {"idle", "guards", "authorize", "claim"} \cup ClaimHeldAt]
    /\ cur \in [Workers -> Steps]
    /\ pending \subseteq Steps
    /\ today \in Nat \ {0}
    /\ afterReply \in Nat

\* A step has a task only once every earlier step was recorded SENT.
TasksInOrder ==
    /\ \A s, t \in TaskSteps : s < t /\ task[t] # "NONE" => task[s] = "SENT"
    /\ \A s \in pending : sentOn[s] # 0 /\ (s # 1 => task[s] = "SENT")
    /\ \A s \in TaskSteps : /\ task[s] # "NONE" => sentOn[s - 1] # 0 /\ due[s] = sentOn[s - 1] + Delay
                            /\ sentOn[s] # 0 => task[s] = "SENT"
                            /\ queued[s] > 0 => task[s] # "NONE" /\ due[s] <= today

\* A worker's task is its own, and due.
TakenOnce ==
    /\ \A w \in Workers : pc[w] # "idle" =>
          cur[w] \in TaskSteps /\ task[cur[w]] = "PROCESSING" /\ due[cur[w]] <= today
    /\ \A v, w \in Workers : pc[v] # "idle" /\ pc[w] # "idle" /\ cur[v] = cur[w] => v = w

\* A step that can still be mailed has no row and no message.
Unmailed ==
    /\ \A s \in TaskSteps : task[s] \in {"NONE", "SCHEDULED"} => row[s] = "NONE" /\ mails[s] = 0
    /\ \A w \in Workers :
          /\ pc[w] \in {"guards", "authorize", "claim"} => row[cur[w]] = "NONE" /\ mails[cur[w]] = 0
          /\ pc[w] = "send" => mails[cur[w]] = 0
          /\ pc[w] = "record" => mails[cur[w]] = 1

\* Past the gate, the earlier step's message is Gap days old.
GapPassed ==
    \A w \in Workers : pc[w] \in {"claim", "send", "record", "fail"} => sentOn[cur[w] - 1] + Gap <= today

\* No message has left after the reply while one is still between gate and provider.
GateShut ==
    /\ ~replyEvent => afterReply = 0
    /\ (\E w \in Workers : pc[w] \in {"claim", "send"}) => afterReply = 0

FollowupInv ==
    /\ Shapes /\ TasksInOrder /\ TakenOnce /\ Unmailed /\ GapPassed /\ GateShut
    /\ OneMailPerStep /\ SequenceStopsAfterReply /\ SequenceSpaced

-----------------------------------------------------------------------------
(* One worker at a time. *)

\* The sequence of a lead has at most one message in the making.
LEMMA OneBusy ==
    ASSUME FollowupInv, NEW v \in Workers, NEW w \in Workers, pc[v] # "idle", pc[w] # "idle"
    PROVE  v = w
<1>1. /\ cur[v] \in TaskSteps /\ task[cur[v]] = "PROCESSING"
      /\ cur[w] \in TaskSteps /\ task[cur[w]] = "PROCESSING"
  BY DEF FollowupInv, TakenOnce
<1>2. ~(cur[v] < cur[w]) /\ ~(cur[w] < cur[v])
  BY <1>1 DEF FollowupInv, TasksInOrder
<1>3. cur[v] = cur[w]
  BY <1>1, <1>2 DEF TaskSteps
<1>4. QED
  BY <1>3 DEF FollowupInv, TakenOnce

\* Where a step and its predecessor are.
LEMMA Predecessor == \A s \in TaskSteps : s \in Steps /\ s - 1 \in Steps /\ s # 1 /\ s - 1 # s
<1>1. QED
  BY FollowupAssumption DEF TaskSteps, Steps

-----------------------------------------------------------------------------
(* One lemma per kind of step. *)

LEMMA ScheduleNextKeeps == ASSUME FollowupInv, NEW s \in Steps, ScheduleNext(s) PROVE FollowupInv'
<1> USE FollowupAssumption DEF FollowupInv
<1>1. Shapes'
  BY DEF ScheduleNext, ledgerVars, switchVars, workVars, seenVars, Shapes, RowStates, TaskStates,
         ClaimHeldAt
<1>2. TasksInOrder'
  <2>1. pending' \subseteq pending /\ sentOn' = sentOn /\ queued' = queued /\ today' = today
    BY DEF ScheduleNext, ledgerVars, switchVars, seenVars
  <2>2. CASE s + 1 \in TaskSteps /\ task[s + 1] = "NONE"
    <3>1. task' = [task EXCEPT ![s + 1] = "SCHEDULED"] /\ due' = [due EXCEPT ![s + 1] = sentOn[s] + Delay]
      BY <2>2 DEF ScheduleNext
    <3>2. s + 1 \in Steps /\ (s + 1) - 1 = s /\ sentOn[s] # 0 /\ (s # 1 => s \in TaskSteps /\ task[s] = "SENT")
      BY <2>2, Predecessor DEF ScheduleNext, TasksInOrder, TaskSteps, Steps
    <3>3. \A t \in TaskSteps : t < s + 1 => task[t] = "SENT"
      BY <3>2 DEF TasksInOrder, TaskSteps, Steps
    <3>4. \A q, t \in TaskSteps : q < t /\ task'[t] # "NONE" => task'[q] = "SENT"
      BY <2>2, <3>1, <3>2, <3>3 DEF TasksInOrder, Shapes
    <3>5. QED
      BY <2>1, <2>2, <3>1, <3>2, <3>4, Predecessor DEF TasksInOrder, Shapes
  <2>3. CASE ~(s + 1 \in TaskSteps /\ task[s + 1] = "NONE")
    BY <2>1, <2>3 DEF ScheduleNext, TasksInOrder
  <2>4. QED
    BY <2>2, <2>3
<1>3. TakenOnce'
  BY Predecessor DEF ScheduleNext, ledgerVars, switchVars, workVars, seenVars, TakenOnce,
                     TasksInOrder, Shapes
<1>4. Unmailed'
  BY Predecessor DEF ScheduleNext, ledgerVars, switchVars, workVars, seenVars, Unmailed, TakenOnce,
                     TasksInOrder, Shapes
<1>5. GapPassed'
  BY Predecessor DEF ScheduleNext, ledgerVars, switchVars, workVars, seenVars, GapPassed, TakenOnce,
                     TasksInOrder, Shapes
<1>6. GateShut'
  BY DEF ScheduleNext, ledgerVars, switchVars, workVars, seenVars, GateShut, Shapes
<1>7. OneMailPerStep'
  BY Predecessor DEF ScheduleNext, ledgerVars, switchVars, workVars, seenVars, OneMailPerStep,
                     Unmailed, TakenOnce, Shapes
<1>8. SequenceStopsAfterReply'
  BY DEF ScheduleNext, ledgerVars, switchVars, workVars, seenVars, SequenceStopsAfterReply, GateShut
<1>9. SequenceSpaced'
  BY Predecessor DEF ScheduleNext, ledgerVars, switchVars, workVars, seenVars, SequenceSpaced,
                     TasksInOrder, TakenOnce, GapPassed, Unmailed, Shapes
<1>10. QED
  BY <1>1, <1>2, <1>3, <1>4, <1>5, <1>6, <1>7, <1>8, <1>9

LEMMA ScanDueKeeps == ASSUME FollowupInv, ScanDue PROVE FollowupInv'
<1> USE FollowupAssumption DEF FollowupInv
<1>1. Shapes'
  BY DEF ScanDue, DueTasks, ledgerVars, switchVars, workVars, seenVars, Shapes, RowStates,
         TaskStates, ClaimHeldAt
<1>2. TasksInOrder'
  BY Predecessor DEF ScanDue, DueTasks, ledgerVars, switchVars, workVars, seenVars, TasksInOrder,
                     TakenOnce, Shapes
<1>3. TakenOnce'
  BY Predecessor DEF ScanDue, DueTasks, ledgerVars, switchVars, workVars, seenVars, TakenOnce,
                     TasksInOrder, Shapes
<1>4. Unmailed'
  BY Predecessor DEF ScanDue, DueTasks, ledgerVars, switchVars, workVars, seenVars, Unmailed,
                     TakenOnce, TasksInOrder, Shapes
<1>5. GapPassed'
  BY Predecessor DEF ScanDue, DueTasks, ledgerVars, switchVars, workVars, seenVars, GapPassed,
                     TakenOnce, TasksInOrder, Shapes
<1>6. GateShut'
  BY DEF ScanDue, DueTasks, ledgerVars, switchVars, workVars, seenVars, GateShut, Shapes
<1>7. OneMailPerStep'
  BY Predecessor DEF ScanDue, DueTasks, ledgerVars, switchVars, workVars, seenVars, OneMailPerStep,
                     Unmailed, TakenOnce, Shapes
<1>8. SequenceStopsAfterReply'
  BY DEF ScanDue, DueTasks, ledgerVars, switchVars, workVars, seenVars, SequenceStopsAfterReply,
         GateShut
<1>9. SequenceSpaced'
  BY Predecessor DEF ScanDue, DueTasks, ledgerVars, switchVars, workVars, seenVars, SequenceSpaced,
                     TasksInOrder, TakenOnce, GapPassed, Unmailed, Shapes
<1>10. QED
  BY <1>1, <1>2, <1>3, <1>4, <1>5, <1>6, <1>7, <1>8, <1>9

LEMMA TakeTaskKeeps == ASSUME FollowupInv, NEW w \in Workers, TakeTask(w) PROVE FollowupInv'
<1> USE FollowupAssumption DEF FollowupInv
<1>1. \A v \in Workers, s \in TaskSteps : queued[s] > 0 /\ task[s] = "SCHEDULED" => pc[v] = "idle" \/ cur[v] # s
  BY DEF TakenOnce
<1>2. Shapes'
  <2>1. PICK s \in TaskSteps :
           /\ queued[s] > 0
           /\ queued' = [queued EXCEPT ![s] = @ - 1]
           /\ \/ task' = [task EXCEPT ![s] = "PROCESSING"] /\ cur' = [cur EXCEPT ![w] = s] /\ Goto(w, "guards")
              \/ UNCHANGED <<task, cur, pc>>
    BY DEF TakeTask
  <2>2. s \in Steps /\ queued[s] - 1 \in Nat
    BY <2>1, Predecessor DEF Shapes
  <2>3. queued' \in [Steps -> Nat]
    BY <2>1, <2>2 DEF Shapes
  <2>4. task' \in [Steps -> TaskStates] /\ cur' \in [Workers -> Steps]
    BY <2>1, <2>2 DEF Shapes, TaskStates
  <2>5. pc' \in [Workers -> {"idle", "guards", "authorize", "claim"} \cup ClaimHeldAt]
    BY <2>1 DEF Shapes, Goto
  <2>6. QED
    BY <2>3, <2>4, <2>5 DEF TakeTask, ledgerVars, switchVars, seenVars, Shapes
<1>3. TasksInOrder'
  BY <1>1, Predecessor DEF TakeTask, Goto, ledgerVars, switchVars, workVars, seenVars, TasksInOrder,
                           TakenOnce, Shapes
<1>4. TakenOnce'
  BY <1>1, Predecessor DEF TakeTask, Goto, ledgerVars, switchVars, workVars, seenVars, TakenOnce,
                           TasksInOrder, Shapes
<1>5. Unmailed'
  BY <1>1, Predecessor DEF TakeTask, Goto, ledgerVars, switchVars, workVars, seenVars, Unmailed,
                           TakenOnce, TasksInOrder, Shapes
<1>6. GapPassed'
  BY <1>1, Predecessor DEF TakeTask, Goto, ledgerVars, switchVars, workVars, seenVars, GapPassed,
                           TakenOnce, TasksInOrder, Shapes
<1>7. GateShut'
  BY <1>1 DEF TakeTask, Goto, ledgerVars, switchVars, workVars, seenVars, GateShut, Shapes
<1>8. OneMailPerStep'
  BY <1>1, Predecessor DEF TakeTask, Goto, ledgerVars, switchVars, workVars, seenVars,
                           OneMailPerStep, Unmailed, TakenOnce, Shapes
<1>9. SequenceStopsAfterReply'
  BY <1>1 DEF TakeTask, Goto, ledgerVars, switchVars, workVars, seenVars, SequenceStopsAfterReply,
              GateShut
<1>10. SequenceSpaced'
  BY <1>1, Predecessor DEF TakeTask, Goto, ledgerVars, switchVars, workVars, seenVars,
                           SequenceSpaced, TasksInOrder, TakenOnce, GapPassed, Unmailed, Shapes
<1>11. QED
  BY <1>2, <1>3, <1>4, <1>5, <1>6, <1>7, <1>8, <1>9, <1>10

LEMMA CheckGuardsKeeps == ASSUME FollowupInv, NEW w \in Workers, CheckGuards(w) PROVE FollowupInv'
<1> USE FollowupAssumption DEF FollowupInv
<1>1. cur[w] \in TaskSteps /\ cur[w] \in Steps /\ task[cur[w]] = "PROCESSING" /\ \A v \in Workers : pc[v] # "idle" => v = w
  BY OneBusy, Predecessor DEF CheckGuards, TakenOnce
<1>2. Shapes'
  BY <1>1 DEF CheckGuards, Finish, Goto, ledgerVars, switchVars, workVars, seenVars, Shapes,
              RowStates, TaskStates, ClaimHeldAt
<1>3. TasksInOrder'
  BY <1>1, Predecessor DEF CheckGuards, Finish, Goto, ledgerVars, switchVars, workVars, seenVars,
                           TasksInOrder, TakenOnce, Shapes
<1>4. TakenOnce'
  BY <1>1, Predecessor DEF CheckGuards, Finish, Goto, ledgerVars, switchVars, workVars, seenVars,
                           TakenOnce, TasksInOrder, Shapes
<1>5. Unmailed'
  BY <1>1, Predecessor DEF CheckGuards, Finish, Goto, ledgerVars, switchVars, workVars, seenVars,
                           Unmailed, TakenOnce, TasksInOrder, Shapes
<1>6. GapPassed'
  BY <1>1, Predecessor DEF CheckGuards, Finish, Goto, ledgerVars, switchVars, workVars, seenVars,
                           GapPassed, TakenOnce, TasksInOrder, Shapes
<1>7. GateShut'
  BY <1>1 DEF CheckGuards, Finish, Goto, ledgerVars, switchVars, workVars, seenVars, GateShut,
              Shapes
<1>8. OneMailPerStep'
  BY <1>1, Predecessor DEF CheckGuards, Finish, Goto, ledgerVars, switchVars, workVars, seenVars,
                           OneMailPerStep, Unmailed, TakenOnce, Shapes
<1>9. SequenceStopsAfterReply'
  BY <1>1 DEF CheckGuards, Finish, Goto, ledgerVars, switchVars, workVars, seenVars,
              SequenceStopsAfterReply, GateShut
<1>10. SequenceSpaced'
  BY <1>1, Predecessor DEF CheckGuards, Finish, Goto, ledgerVars, switchVars, workVars, seenVars,
                           SequenceSpaced, TasksInOrder, TakenOnce, GapPassed, Unmailed, Shapes
<1>11. QED
  BY <1>2, <1>3, <1>4, <1>5, <1>6, <1>7, <1>8, <1>9, <1>10

LEMMA AuthorizeKeeps == ASSUME FollowupInv, NEW w \in Workers, Authorize(w) PROVE FollowupInv'
<1> USE FollowupAssumption DEF FollowupInv
<1>1. cur[w] \in TaskSteps /\ cur[w] \in Steps /\ task[cur[w]] = "PROCESSING" /\ \A v \in Workers : pc[v] # "idle" => v = w
  BY OneBusy, Predecessor DEF Authorize, TakenOnce
<1>2. Shapes'
  BY <1>1 DEF Authorize, Finish, Goto, MayContact, RecentlyContacted, ledgerVars, switchVars,
              workVars, seenVars, Shapes, RowStates, TaskStates, ClaimHeldAt
<1>3. TasksInOrder'
  BY <1>1, Predecessor DEF Authorize, Finish, Goto, MayContact, RecentlyContacted, ledgerVars,
                           switchVars, workVars, seenVars, TasksInOrder, TakenOnce, Shapes
<1>4. TakenOnce'
  BY <1>1, Predecessor DEF Authorize, Finish, Goto, MayContact, RecentlyContacted, ledgerVars,
                           switchVars, workVars, seenVars, TakenOnce, TasksInOrder, Shapes
<1>5. Unmailed'
  BY <1>1, Predecessor DEF Authorize, Finish, Goto, MayContact, RecentlyContacted, ledgerVars,
                           switchVars, workVars, seenVars, Unmailed, TakenOnce, TasksInOrder, Shapes
<1>6. GapPassed'
  BY <1>1, Predecessor DEF Authorize, Finish, Goto, MayContact, RecentlyContacted, ledgerVars,
                           switchVars, workVars, seenVars, GapPassed, TakenOnce, TasksInOrder,
                           Shapes
<1>7. GateShut'
  BY <1>1 DEF Authorize, Finish, Goto, MayContact, RecentlyContacted, ledgerVars, switchVars,
              workVars, seenVars, GateShut, Shapes
<1>8. OneMailPerStep'
  BY <1>1, Predecessor DEF Authorize, Finish, Goto, MayContact, RecentlyContacted, ledgerVars,
                           switchVars, workVars, seenVars, OneMailPerStep, Unmailed, TakenOnce,
                           Shapes
<1>9. SequenceStopsAfterReply'
  BY <1>1 DEF Authorize, Finish, Goto, MayContact, RecentlyContacted, ledgerVars, switchVars,
              workVars, seenVars, SequenceStopsAfterReply, GateShut
<1>10. SequenceSpaced'
  BY <1>1, Predecessor DEF Authorize, Finish, Goto, MayContact, RecentlyContacted, ledgerVars,
                           switchVars, workVars, seenVars, SequenceSpaced, TasksInOrder, TakenOnce,
                           GapPassed, Unmailed, Shapes
<1>11. QED
  BY <1>2, <1>3, <1>4, <1>5, <1>6, <1>7, <1>8, <1>9, <1>10

LEMMA DeferKeeps == ASSUME FollowupInv, NEW w \in Workers, Defer(w) PROVE FollowupInv'
<1> USE FollowupAssumption DEF FollowupInv
<1>1. cur[w] \in TaskSteps /\ cur[w] \in Steps /\ task[cur[w]] = "PROCESSING" /\ \A v \in Workers : pc[v] # "idle" => v = w
  BY OneBusy, Predecessor DEF Defer, TakenOnce
<1>2. Shapes'
  BY <1>1 DEF Defer, Park, Finish, Goto, ledgerVars, switchVars, workVars, seenVars, Shapes,
              RowStates, TaskStates, ClaimHeldAt
<1>3. TasksInOrder'
  BY <1>1, Predecessor DEF Defer, Park, Finish, Goto, ledgerVars, switchVars, workVars, seenVars,
                           TasksInOrder, TakenOnce, Shapes
<1>4. TakenOnce'
  BY <1>1, Predecessor DEF Defer, Park, Finish, Goto, ledgerVars, switchVars, workVars, seenVars,
                           TakenOnce, TasksInOrder, Shapes
<1>5. Unmailed'
  BY <1>1, Predecessor DEF Defer, Park, Finish, Goto, ledgerVars, switchVars, workVars, seenVars,
                           Unmailed, TakenOnce, TasksInOrder, Shapes
<1>6. GapPassed'
  BY <1>1, Predecessor DEF Defer, Park, Finish, Goto, ledgerVars, switchVars, workVars, seenVars,
                           GapPassed, TakenOnce, TasksInOrder, Shapes
<1>7. GateShut'
  BY <1>1 DEF Defer, Park, Finish, Goto, ledgerVars, switchVars, workVars, seenVars, GateShut,
              Shapes
<1>8. OneMailPerStep'
  BY <1>1, Predecessor DEF Defer, Park, Finish, Goto, ledgerVars, switchVars, workVars, seenVars,
                           OneMailPerStep, Unmailed, TakenOnce, Shapes
<1>9. SequenceStopsAfterReply'
  BY <1>1 DEF Defer, Park, Finish, Goto, ledgerVars, switchVars, workVars, seenVars,
              SequenceStopsAfterReply, GateShut
<1>10. SequenceSpaced'
  BY <1>1, Predecessor DEF Defer, Park, Finish, Goto, ledgerVars, switchVars, workVars, seenVars,
                           SequenceSpaced, TasksInOrder, TakenOnce, GapPassed, Unmailed, Shapes
<1>11. QED
  BY <1>2, <1>3, <1>4, <1>5, <1>6, <1>7, <1>8, <1>9, <1>10

LEMMA ClaimStepKeeps == ASSUME FollowupInv, NEW w \in Workers, ClaimStep(w) PROVE FollowupInv'
<1> USE FollowupAssumption DEF FollowupInv
<1>1. cur[w] \in TaskSteps /\ cur[w] \in Steps /\ task[cur[w]] = "PROCESSING" /\ \A v \in Workers : pc[v] # "idle" => v = w
  BY OneBusy, Predecessor DEF ClaimStep, TakenOnce
<1>2. Shapes'
  BY <1>1 DEF ClaimStep, Finish, Goto, ledgerVars, switchVars, workVars, seenVars, Shapes,
              RowStates, TaskStates, ClaimHeldAt
<1>3. TasksInOrder'
  BY <1>1, Predecessor DEF ClaimStep, Finish, Goto, ledgerVars, switchVars, workVars, seenVars,
                           TasksInOrder, TakenOnce, Shapes
<1>4. TakenOnce'
  BY <1>1, Predecessor DEF ClaimStep, Finish, Goto, ledgerVars, switchVars, workVars, seenVars,
                           TakenOnce, TasksInOrder, Shapes
<1>5. Unmailed'
  BY <1>1, Predecessor DEF ClaimStep, Finish, Goto, ledgerVars, switchVars, workVars, seenVars,
                           Unmailed, TakenOnce, TasksInOrder, Shapes
<1>6. GapPassed'
  BY <1>1, Predecessor DEF ClaimStep, Finish, Goto, ledgerVars, switchVars, workVars, seenVars,
                           GapPassed, TakenOnce, TasksInOrder, Shapes
<1>7. GateShut'
  BY <1>1 DEF ClaimStep, Finish, Goto, ledgerVars, switchVars, workVars, seenVars, GateShut, Shapes
<1>8. OneMailPerStep'
  BY <1>1, Predecessor DEF ClaimStep, Finish, Goto, ledgerVars, switchVars, workVars, seenVars,
                           OneMailPerStep, Unmailed, TakenOnce, Shapes
<1>9. SequenceStopsAfterReply'
  BY <1>1 DEF ClaimStep, Finish, Goto, ledgerVars, switchVars, workVars, seenVars,
              SequenceStopsAfterReply, GateShut
<1>10. SequenceSpaced'
  BY <1>1, Predecessor DEF ClaimStep, Finish, Goto, ledgerVars, switchVars, workVars, seenVars,
                           SequenceSpaced, TasksInOrder, TakenOnce, GapPassed, Unmailed, Shapes
<1>11. QED
  BY <1>2, <1>3, <1>4, <1>5, <1>6, <1>7, <1>8, <1>9, <1>10

LEMMA SendAcceptedKeeps == ASSUME FollowupInv, NEW w \in Workers, SendAccepted(w) PROVE FollowupInv'
<1> USE FollowupAssumption DEF FollowupInv
<1>1. cur[w] \in TaskSteps /\ cur[w] \in Steps /\ task[cur[w]] = "PROCESSING" /\ \A v \in Workers : pc[v] # "idle" => v = w
  BY OneBusy, Predecessor DEF SendAccepted, TakenOnce
<1>2. Shapes'
  BY <1>1 DEF SendAccepted, Goto, ledgerVars, switchVars, workVars, seenVars, Shapes, RowStates,
              TaskStates, ClaimHeldAt
<1>3. TasksInOrder'
  BY <1>1, Predecessor DEF SendAccepted, Goto, ledgerVars, switchVars, workVars, seenVars,
                           TasksInOrder, TakenOnce, Shapes
<1>4. TakenOnce'
  BY <1>1, Predecessor DEF SendAccepted, Goto, ledgerVars, switchVars, workVars, seenVars,
                           TakenOnce, TasksInOrder, Shapes
<1>5. Unmailed'
  BY <1>1, Predecessor DEF SendAccepted, Goto, ledgerVars, switchVars, workVars, seenVars, Unmailed,
                           TakenOnce, TasksInOrder, Shapes
<1>6. GapPassed'
  BY <1>1, Predecessor DEF SendAccepted, Goto, ledgerVars, switchVars, workVars, seenVars,
                           GapPassed, TakenOnce, TasksInOrder, Shapes
<1>7. GateShut'
  BY <1>1 DEF SendAccepted, Goto, ledgerVars, switchVars, workVars, seenVars, GateShut, Shapes
<1>8. OneMailPerStep'
  BY <1>1, Predecessor DEF SendAccepted, Goto, ledgerVars, switchVars, workVars, seenVars,
                           OneMailPerStep, Unmailed, TakenOnce, Shapes
<1>9. SequenceStopsAfterReply'
  BY <1>1 DEF SendAccepted, Goto, ledgerVars, switchVars, workVars, seenVars,
              SequenceStopsAfterReply, GateShut
<1>10. SequenceSpaced'
  BY <1>1, Predecessor DEF SendAccepted, Goto, ledgerVars, switchVars, workVars, seenVars,
                           SequenceSpaced, TasksInOrder, TakenOnce, GapPassed, Unmailed, Shapes
<1>11. QED
  BY <1>2, <1>3, <1>4, <1>5, <1>6, <1>7, <1>8, <1>9, <1>10

LEMMA SendRejectedKeeps == ASSUME FollowupInv, NEW w \in Workers, SendRejected(w) PROVE FollowupInv'
<1> USE FollowupAssumption DEF FollowupInv
<1>1. cur[w] \in TaskSteps /\ cur[w] \in Steps /\ task[cur[w]] = "PROCESSING" /\ \A v \in Workers : pc[v] # "idle" => v = w
  BY OneBusy, Predecessor DEF SendRejected, TakenOnce
<1>2. Shapes'
  BY <1>1 DEF SendRejected, Goto, ledgerVars, switchVars, workVars, seenVars, Shapes, RowStates,
              TaskStates, ClaimHeldAt
<1>3. TasksInOrder'
  BY <1>1, Predecessor DEF SendRejected, Goto, ledgerVars, switchVars, workVars, seenVars,
                           TasksInOrder, TakenOnce, Shapes
<1>4. TakenOnce'
  BY <1>1, Predecessor DEF SendRejected, Goto, ledgerVars, switchVars, workVars, seenVars,
                           TakenOnce, TasksInOrder, Shapes
<1>5. Unmailed'
  BY <1>1, Predecessor DEF SendRejected, Goto, ledgerVars, switchVars, workVars, seenVars, Unmailed,
                           TakenOnce, TasksInOrder, Shapes
<1>6. GapPassed'
  BY <1>1, Predecessor DEF SendRejected, Goto, ledgerVars, switchVars, workVars, seenVars,
                           GapPassed, TakenOnce, TasksInOrder, Shapes
<1>7. GateShut'
  BY <1>1 DEF SendRejected, Goto, ledgerVars, switchVars, workVars, seenVars, GateShut, Shapes
<1>8. OneMailPerStep'
  BY <1>1, Predecessor DEF SendRejected, Goto, ledgerVars, switchVars, workVars, seenVars,
                           OneMailPerStep, Unmailed, TakenOnce, Shapes
<1>9. SequenceStopsAfterReply'
  BY <1>1 DEF SendRejected, Goto, ledgerVars, switchVars, workVars, seenVars,
              SequenceStopsAfterReply, GateShut
<1>10. SequenceSpaced'
  BY <1>1, Predecessor DEF SendRejected, Goto, ledgerVars, switchVars, workVars, seenVars,
                           SequenceSpaced, TasksInOrder, TakenOnce, GapPassed, Unmailed, Shapes
<1>11. QED
  BY <1>2, <1>3, <1>4, <1>5, <1>6, <1>7, <1>8, <1>9, <1>10

LEMMA RecordSentKeeps == ASSUME FollowupInv, NEW w \in Workers, RecordSent(w) PROVE FollowupInv'
<1> USE FollowupAssumption DEF FollowupInv
<1>1. cur[w] \in TaskSteps /\ cur[w] \in Steps /\ task[cur[w]] = "PROCESSING" /\ \A v \in Workers : pc[v] # "idle" => v = w
  BY OneBusy, Predecessor DEF RecordSent, TakenOnce
<1>2. Shapes'
  BY <1>1 DEF RecordSent, Goto, ledgerVars, switchVars, workVars, seenVars, Shapes, RowStates,
              TaskStates, ClaimHeldAt
<1>3. TasksInOrder'
  BY <1>1, Predecessor DEF RecordSent, Goto, ledgerVars, switchVars, workVars, seenVars,
                           TasksInOrder, TakenOnce, Shapes
<1>4. TakenOnce'
  BY <1>1, Predecessor DEF RecordSent, Goto, ledgerVars, switchVars, workVars, seenVars, TakenOnce,
                           TasksInOrder, Shapes
<1>5. Unmailed'
  BY <1>1, Predecessor DEF RecordSent, Goto, ledgerVars, switchVars, workVars, seenVars, Unmailed,
                           TakenOnce, TasksInOrder, Shapes
<1>6. GapPassed'
  BY <1>1, Predecessor DEF RecordSent, Goto, ledgerVars, switchVars, workVars, seenVars, GapPassed,
                           TakenOnce, TasksInOrder, Shapes
<1>7. GateShut'
  BY <1>1 DEF RecordSent, Goto, ledgerVars, switchVars, workVars, seenVars, GateShut, Shapes
<1>8. OneMailPerStep'
  BY <1>1, Predecessor DEF RecordSent, Goto, ledgerVars, switchVars, workVars, seenVars,
                           OneMailPerStep, Unmailed, TakenOnce, Shapes
<1>9. SequenceStopsAfterReply'
  BY <1>1 DEF RecordSent, Goto, ledgerVars, switchVars, workVars, seenVars, SequenceStopsAfterReply,
              GateShut
<1>10. SequenceSpaced'
  BY <1>1, Predecessor DEF RecordSent, Goto, ledgerVars, switchVars, workVars, seenVars,
                           SequenceSpaced, TasksInOrder, TakenOnce, GapPassed, Unmailed, Shapes
<1>11. QED
  BY <1>2, <1>3, <1>4, <1>5, <1>6, <1>7, <1>8, <1>9, <1>10

LEMMA RecordFailsKeeps == ASSUME FollowupInv, NEW w \in Workers, RecordFails(w) PROVE FollowupInv'
<1> USE FollowupAssumption DEF FollowupInv
<1>1. cur[w] \in TaskSteps /\ cur[w] \in Steps /\ task[cur[w]] = "PROCESSING" /\ \A v \in Workers : pc[v] # "idle" => v = w
  BY OneBusy, Predecessor DEF RecordFails, TakenOnce
<1>2. Shapes'
  BY <1>1 DEF RecordFails, Goto, ledgerVars, switchVars, workVars, seenVars, Shapes, RowStates,
              TaskStates, ClaimHeldAt
<1>3. TasksInOrder'
  BY <1>1, Predecessor DEF RecordFails, Goto, ledgerVars, switchVars, workVars, seenVars,
                           TasksInOrder, TakenOnce, Shapes
<1>4. TakenOnce'
  BY <1>1, Predecessor DEF RecordFails, Goto, ledgerVars, switchVars, workVars, seenVars, TakenOnce,
                           TasksInOrder, Shapes
<1>5. Unmailed'
  BY <1>1, Predecessor DEF RecordFails, Goto, ledgerVars, switchVars, workVars, seenVars, Unmailed,
                           TakenOnce, TasksInOrder, Shapes
<1>6. GapPassed'
  BY <1>1, Predecessor DEF RecordFails, Goto, ledgerVars, switchVars, workVars, seenVars, GapPassed,
                           TakenOnce, TasksInOrder, Shapes
<1>7. GateShut'
  BY <1>1 DEF RecordFails, Goto, ledgerVars, switchVars, workVars, seenVars, GateShut, Shapes
<1>8. OneMailPerStep'
  BY <1>1, Predecessor DEF RecordFails, Goto, ledgerVars, switchVars, workVars, seenVars,
                           OneMailPerStep, Unmailed, TakenOnce, Shapes
<1>9. SequenceStopsAfterReply'
  BY <1>1 DEF RecordFails, Goto, ledgerVars, switchVars, workVars, seenVars,
              SequenceStopsAfterReply, GateShut
<1>10. SequenceSpaced'
  BY <1>1, Predecessor DEF RecordFails, Goto, ledgerVars, switchVars, workVars, seenVars,
                           SequenceSpaced, TasksInOrder, TakenOnce, GapPassed, Unmailed, Shapes
<1>11. QED
  BY <1>2, <1>3, <1>4, <1>5, <1>6, <1>7, <1>8, <1>9, <1>10

LEMMA RecordFailedKeeps == ASSUME FollowupInv, NEW w \in Workers, RecordFailed(w) PROVE FollowupInv'
<1> USE FollowupAssumption DEF FollowupInv
<1>1. cur[w] \in TaskSteps /\ cur[w] \in Steps /\ task[cur[w]] = "PROCESSING" /\ \A v \in Workers : pc[v] # "idle" => v = w
  BY OneBusy, Predecessor DEF RecordFailed, TakenOnce
<1>2. Shapes'
  BY <1>1 DEF RecordFailed, Goto, ledgerVars, switchVars, workVars, seenVars, Shapes, RowStates,
              TaskStates, ClaimHeldAt
<1>3. TasksInOrder'
  BY <1>1, Predecessor DEF RecordFailed, Goto, ledgerVars, switchVars, workVars, seenVars,
                           TasksInOrder, TakenOnce, Shapes
<1>4. TakenOnce'
  BY <1>1, Predecessor DEF RecordFailed, Goto, ledgerVars, switchVars, workVars, seenVars,
                           TakenOnce, TasksInOrder, Shapes
<1>5. Unmailed'
  BY <1>1, Predecessor DEF RecordFailed, Goto, ledgerVars, switchVars, workVars, seenVars, Unmailed,
                           TakenOnce, TasksInOrder, Shapes
<1>6. GapPassed'
  BY <1>1, Predecessor DEF RecordFailed, Goto, ledgerVars, switchVars, workVars, seenVars,
                           GapPassed, TakenOnce, TasksInOrder, Shapes
<1>7. GateShut'
  BY <1>1 DEF RecordFailed, Goto, ledgerVars, switchVars, workVars, seenVars, GateShut, Shapes
<1>8. OneMailPerStep'
  BY <1>1, Predecessor DEF RecordFailed, Goto, ledgerVars, switchVars, workVars, seenVars,
                           OneMailPerStep, Unmailed, TakenOnce, Shapes
<1>9. SequenceStopsAfterReply'
  BY <1>1 DEF RecordFailed, Goto, ledgerVars, switchVars, workVars, seenVars,
              SequenceStopsAfterReply, GateShut
<1>10. SequenceSpaced'
  BY <1>1, Predecessor DEF RecordFailed, Goto, ledgerVars, switchVars, workVars, seenVars,
                           SequenceSpaced, TasksInOrder, TakenOnce, GapPassed, Unmailed, Shapes
<1>11. QED
  BY <1>2, <1>3, <1>4, <1>5, <1>6, <1>7, <1>8, <1>9, <1>10

LEMMA DieKeeps == ASSUME FollowupInv, NEW w \in Workers, Die(w) PROVE FollowupInv'
<1> USE FollowupAssumption DEF FollowupInv
<1>1. cur[w] \in TaskSteps /\ cur[w] \in Steps /\ task[cur[w]] = "PROCESSING" /\ \A v \in Workers : pc[v] # "idle" => v = w
  BY OneBusy, Predecessor DEF Die, TakenOnce
<1>2. Shapes'
  BY <1>1 DEF Die, Goto, ledgerVars, switchVars, workVars, seenVars, Shapes, RowStates, TaskStates,
              ClaimHeldAt
<1>3. TasksInOrder'
  BY <1>1, Predecessor DEF Die, Goto, ledgerVars, switchVars, workVars, seenVars, TasksInOrder,
                           TakenOnce, Shapes
<1>4. TakenOnce'
  BY <1>1, Predecessor DEF Die, Goto, ledgerVars, switchVars, workVars, seenVars, TakenOnce,
                           TasksInOrder, Shapes
<1>5. Unmailed'
  BY <1>1, Predecessor DEF Die, Goto, ledgerVars, switchVars, workVars, seenVars, Unmailed,
                           TakenOnce, TasksInOrder, Shapes
<1>6. GapPassed'
  BY <1>1, Predecessor DEF Die, Goto, ledgerVars, switchVars, workVars, seenVars, GapPassed,
                           TakenOnce, TasksInOrder, Shapes
<1>7. GateShut'
  BY <1>1 DEF Die, Goto, ledgerVars, switchVars, workVars, seenVars, GateShut, Shapes
<1>8. OneMailPerStep'
  BY <1>1, Predecessor DEF Die, Goto, ledgerVars, switchVars, workVars, seenVars, OneMailPerStep,
                           Unmailed, TakenOnce, Shapes
<1>9. SequenceStopsAfterReply'
  BY <1>1 DEF Die, Goto, ledgerVars, switchVars, workVars, seenVars, SequenceStopsAfterReply,
              GateShut
<1>10. SequenceSpaced'
  BY <1>1, Predecessor DEF Die, Goto, ledgerVars, switchVars, workVars, seenVars, SequenceSpaced,
                           TasksInOrder, TakenOnce, GapPassed, Unmailed, Shapes
<1>11. QED
  BY <1>2, <1>3, <1>4, <1>5, <1>6, <1>7, <1>8, <1>9, <1>10

LEMMA SweepStaleKeeps == ASSUME FollowupInv, SweepStale PROVE FollowupInv'
<1> USE FollowupAssumption DEF FollowupInv
<1>1. Shapes'
  BY DEF SweepStale, Abandoned, ledgerVars, switchVars, workVars, seenVars, Shapes, RowStates,
         TaskStates, ClaimHeldAt
<1>2. TasksInOrder'
  BY Predecessor DEF SweepStale, Abandoned, ledgerVars, switchVars, workVars, seenVars,
                     TasksInOrder, TakenOnce, Shapes
<1>3. TakenOnce'
  BY Predecessor DEF SweepStale, Abandoned, ledgerVars, switchVars, workVars, seenVars, TakenOnce,
                     TasksInOrder, Shapes
<1>4. Unmailed'
  BY Predecessor DEF SweepStale, Abandoned, ledgerVars, switchVars, workVars, seenVars, Unmailed,
                     TakenOnce, TasksInOrder, Shapes
<1>5. GapPassed'
  BY Predecessor DEF SweepStale, Abandoned, ledgerVars, switchVars, workVars, seenVars, GapPassed,
                     TakenOnce, TasksInOrder, Shapes
<1>6. GateShut'
  BY DEF SweepStale, Abandoned, ledgerVars, switchVars, workVars, seenVars, GateShut, Shapes
<1>7. OneMailPerStep'
  BY Predecessor DEF SweepStale, Abandoned, ledgerVars, switchVars, workVars, seenVars,
                     OneMailPerStep, Unmailed, TakenOnce, Shapes
<1>8. SequenceStopsAfterReply'
  BY DEF SweepStale, Abandoned, ledgerVars, switchVars, workVars, seenVars, SequenceStopsAfterReply,
         GateShut
<1>9. SequenceSpaced'
  BY Predecessor DEF SweepStale, Abandoned, ledgerVars, switchVars, workVars, seenVars,
                     SequenceSpaced, TasksInOrder, TakenOnce, GapPassed, Unmailed, Shapes
<1>10. QED
  BY <1>1, <1>2, <1>3, <1>4, <1>5, <1>6, <1>7, <1>8, <1>9

LEMMA NextDayKeeps == ASSUME FollowupInv, NextDay PROVE FollowupInv'
<1> USE FollowupAssumption DEF FollowupInv
<1>1. Shapes'
  BY DEF NextDay, ledgerVars, switchVars, workVars, seenVars, Shapes, RowStates, TaskStates,
         ClaimHeldAt
<1>2. TasksInOrder'
  BY Predecessor DEF NextDay, ledgerVars, switchVars, workVars, seenVars, TasksInOrder, TakenOnce,
                     Shapes
<1>3. TakenOnce'
  BY Predecessor DEF NextDay, ledgerVars, switchVars, workVars, seenVars, TakenOnce, TasksInOrder,
                     Shapes
<1>4. Unmailed'
  BY Predecessor DEF NextDay, ledgerVars, switchVars, workVars, seenVars, Unmailed, TakenOnce,
                     TasksInOrder, Shapes
<1>5. GapPassed'
  BY Predecessor DEF NextDay, ledgerVars, switchVars, workVars, seenVars, GapPassed, TakenOnce,
                     TasksInOrder, Shapes
<1>6. GateShut'
  BY DEF NextDay, ledgerVars, switchVars, workVars, seenVars, GateShut, Shapes
<1>7. OneMailPerStep'
  BY Predecessor DEF NextDay, ledgerVars, switchVars, workVars, seenVars, OneMailPerStep, Unmailed,
                     TakenOnce, Shapes
<1>8. SequenceStopsAfterReply'
  BY DEF NextDay, ledgerVars, switchVars, workVars, seenVars, SequenceStopsAfterReply, GateShut
<1>9. SequenceSpaced'
  BY Predecessor DEF NextDay, ledgerVars, switchVars, workVars, seenVars, SequenceSpaced,
                     TasksInOrder, TakenOnce, GapPassed, Unmailed, Shapes
<1>10. QED
  BY <1>1, <1>2, <1>3, <1>4, <1>5, <1>6, <1>7, <1>8, <1>9

LEMMA ReplyKeeps == ASSUME FollowupInv, NEW s \in Steps, NEW header \in BOOLEAN, Reply(s, header) PROVE FollowupInv'
<1> USE FollowupAssumption DEF FollowupInv
<1>1. Shapes'
  BY DEF Reply, CancelScheduled, ledgerVars, switchVars, workVars, seenVars, Shapes, RowStates,
         TaskStates, ClaimHeldAt
<1>2. TasksInOrder'
  BY Predecessor DEF Reply, CancelScheduled, ledgerVars, switchVars, workVars, seenVars,
                     TasksInOrder, TakenOnce, Shapes
<1>3. TakenOnce'
  BY Predecessor DEF Reply, CancelScheduled, ledgerVars, switchVars, workVars, seenVars, TakenOnce,
                     TasksInOrder, Shapes
<1>4. Unmailed'
  BY Predecessor DEF Reply, CancelScheduled, ledgerVars, switchVars, workVars, seenVars, Unmailed,
                     TakenOnce, TasksInOrder, Shapes
<1>5. GapPassed'
  BY Predecessor DEF Reply, CancelScheduled, ledgerVars, switchVars, workVars, seenVars, GapPassed,
                     TakenOnce, TasksInOrder, Shapes
<1>6. GateShut'
  BY DEF Reply, CancelScheduled, ledgerVars, switchVars, workVars, seenVars, GateShut, Shapes
<1>7. OneMailPerStep'
  BY Predecessor DEF Reply, CancelScheduled, ledgerVars, switchVars, workVars, seenVars,
                     OneMailPerStep, Unmailed, TakenOnce, Shapes
<1>8. SequenceStopsAfterReply'
  BY DEF Reply, CancelScheduled, ledgerVars, switchVars, workVars, seenVars,
         SequenceStopsAfterReply, GateShut
<1>9. SequenceSpaced'
  BY Predecessor DEF Reply, CancelScheduled, ledgerVars, switchVars, workVars, seenVars,
                     SequenceSpaced, TasksInOrder, TakenOnce, GapPassed, Unmailed, Shapes
<1>10. QED
  BY <1>1, <1>2, <1>3, <1>4, <1>5, <1>6, <1>7, <1>8, <1>9

LEMMA BounceRowsKeeps == ASSUME FollowupInv, NEW kind \in {"hard", "soft"}, BounceRows(kind) PROVE FollowupInv'
<1> USE FollowupAssumption DEF FollowupInv
<1>1. Shapes'
  BY DEF BounceRows, ledgerVars, switchVars, workVars, seenVars, Shapes, RowStates, TaskStates,
         ClaimHeldAt
<1>2. TasksInOrder'
  BY Predecessor DEF BounceRows, ledgerVars, switchVars, workVars, seenVars, TasksInOrder,
                     TakenOnce, Shapes
<1>3. TakenOnce'
  BY Predecessor DEF BounceRows, ledgerVars, switchVars, workVars, seenVars, TakenOnce,
                     TasksInOrder, Shapes
<1>4. Unmailed'
  BY Predecessor DEF BounceRows, ledgerVars, switchVars, workVars, seenVars, Unmailed, TakenOnce,
                     TasksInOrder, Shapes
<1>5. GapPassed'
  BY Predecessor DEF BounceRows, ledgerVars, switchVars, workVars, seenVars, GapPassed, TakenOnce,
                     TasksInOrder, Shapes
<1>6. GateShut'
  BY DEF BounceRows, ledgerVars, switchVars, workVars, seenVars, GateShut, Shapes
<1>7. OneMailPerStep'
  BY Predecessor DEF BounceRows, ledgerVars, switchVars, workVars, seenVars, OneMailPerStep,
                     Unmailed, TakenOnce, Shapes
<1>8. SequenceStopsAfterReply'
  BY DEF BounceRows, ledgerVars, switchVars, workVars, seenVars, SequenceStopsAfterReply, GateShut
<1>9. SequenceSpaced'
  BY Predecessor DEF BounceRows, ledgerVars, switchVars, workVars, seenVars, SequenceSpaced,
                     TasksInOrder, TakenOnce, GapPassed, Unmailed, Shapes
<1>10. QED
  BY <1>1, <1>2, <1>3, <1>4, <1>5, <1>6, <1>7, <1>8, <1>9

LEMMA BarKeeps == ASSUME FollowupInv, NEW complaint \in BOOLEAN, Bar(complaint) PROVE FollowupInv'
<1> USE FollowupAssumption DEF FollowupInv
<1>1. Shapes'
  BY DEF Bar, CancelScheduled, ledgerVars, switchVars, workVars, seenVars, Shapes, RowStates,
         TaskStates, ClaimHeldAt
<1>2. TasksInOrder'
  BY Predecessor DEF Bar, CancelScheduled, ledgerVars, switchVars, workVars, seenVars, TasksInOrder,
                     TakenOnce, Shapes
<1>3. TakenOnce'
  BY Predecessor DEF Bar, CancelScheduled, ledgerVars, switchVars, workVars, seenVars, TakenOnce,
                     TasksInOrder, Shapes
<1>4. Unmailed'
  BY Predecessor DEF Bar, CancelScheduled, ledgerVars, switchVars, workVars, seenVars, Unmailed,
                     TakenOnce, TasksInOrder, Shapes
<1>5. GapPassed'
  BY Predecessor DEF Bar, CancelScheduled, ledgerVars, switchVars, workVars, seenVars, GapPassed,
                     TakenOnce, TasksInOrder, Shapes
<1>6. GateShut'
  BY DEF Bar, CancelScheduled, ledgerVars, switchVars, workVars, seenVars, GateShut, Shapes
<1>7. OneMailPerStep'
  BY Predecessor DEF Bar, CancelScheduled, ledgerVars, switchVars, workVars, seenVars,
                     OneMailPerStep, Unmailed, TakenOnce, Shapes
<1>8. SequenceStopsAfterReply'
  BY DEF Bar, CancelScheduled, ledgerVars, switchVars, workVars, seenVars, SequenceStopsAfterReply,
         GateShut
<1>9. SequenceSpaced'
  BY Predecessor DEF Bar, CancelScheduled, ledgerVars, switchVars, workVars, seenVars,
                     SequenceSpaced, TasksInOrder, TakenOnce, GapPassed, Unmailed, Shapes
<1>10. QED
  BY <1>1, <1>2, <1>3, <1>4, <1>5, <1>6, <1>7, <1>8, <1>9

LEMMA RetryFailedKeeps == ASSUME FollowupInv, RetryFailed PROVE FollowupInv'
<1> USE FollowupAssumption DEF FollowupInv
<1>1. Shapes'
  BY DEF RetryFailed, ledgerVars, switchVars, workVars, seenVars, Shapes, RowStates, TaskStates,
         ClaimHeldAt
<1>2. TasksInOrder'
  BY Predecessor DEF RetryFailed, ledgerVars, switchVars, workVars, seenVars, TasksInOrder,
                     TakenOnce, Shapes
<1>3. TakenOnce'
  BY Predecessor DEF RetryFailed, ledgerVars, switchVars, workVars, seenVars, TakenOnce,
                     TasksInOrder, Shapes
<1>4. Unmailed'
  BY Predecessor DEF RetryFailed, ledgerVars, switchVars, workVars, seenVars, Unmailed, TakenOnce,
                     TasksInOrder, Shapes
<1>5. GapPassed'
  BY Predecessor DEF RetryFailed, ledgerVars, switchVars, workVars, seenVars, GapPassed, TakenOnce,
                     TasksInOrder, Shapes
<1>6. GateShut'
  BY DEF RetryFailed, ledgerVars, switchVars, workVars, seenVars, GateShut, Shapes
<1>7. OneMailPerStep'
  BY Predecessor DEF RetryFailed, ledgerVars, switchVars, workVars, seenVars, OneMailPerStep,
                     Unmailed, TakenOnce, Shapes
<1>8. SequenceStopsAfterReply'
  BY DEF RetryFailed, ledgerVars, switchVars, workVars, seenVars, SequenceStopsAfterReply, GateShut
<1>9. SequenceSpaced'
  BY Predecessor DEF RetryFailed, ledgerVars, switchVars, workVars, seenVars, SequenceSpaced,
                     TasksInOrder, TakenOnce, GapPassed, Unmailed, Shapes
<1>10. QED
  BY <1>1, <1>2, <1>3, <1>4, <1>5, <1>6, <1>7, <1>8, <1>9

LEMMA FollowupStep == FollowupInv /\ [Next]_followupVars => FollowupInv'
<1> USE DEF ledgerVars, switchVars, workVars, seenVars, FollowupInv, Shapes, TasksInOrder, TakenOnce,
            Unmailed, GapPassed, GateShut, OneMailPerStep, SequenceStopsAfterReply, SequenceSpaced
<1>1. ASSUME FollowupInv, NEW s \in Steps, ScheduleLost(s) PROVE FollowupInv'
  BY <1>1 DEF ScheduleLost
<1>2. ASSUME FollowupInv, BounceSuppress PROVE FollowupInv'
  BY <1>2 DEF BounceSuppress
<1>3. ASSUME FollowupInv, NEW c \in {"ACTIVE", "PAUSED", "OFF"}, SetControl(c) PROVE FollowupInv'
  BY <1>3 DEF SetControl
<1>4. ASSUME FollowupInv, UNCHANGED followupVars PROVE FollowupInv'
  BY <1>4 DEF followupVars
<1>5. QED
  <2> USE DEF FollowupInv
  <2>1. ASSUME FollowupInv, Next PROVE FollowupInv'
    BY <2>1, <1>1, <1>2, <1>3, ScheduleNextKeeps, ScanDueKeeps, TakeTaskKeeps, CheckGuardsKeeps,
    AuthorizeKeeps, DeferKeeps, ClaimStepKeeps, SendAcceptedKeeps, SendRejectedKeeps,
    RecordSentKeeps, RecordFailsKeeps, RecordFailedKeeps, DieKeeps, SweepStaleKeeps, NextDayKeeps,
    ReplyKeeps, BounceRowsKeeps, BarKeeps, RetryFailedKeeps
       DEF Next, WorkerStep, Outside
  <2>2. QED
    BY <2>1, <1>4

THEOREM FollowupInvariant == Spec => []FollowupInv
<1>1. Init => FollowupInv
  <2> SUFFICES ASSUME Init PROVE FollowupInv
    OBVIOUS
  <2>1. Shapes
    BY FollowupAssumption DEF Init, Shapes, Steps, RowStates, TaskStates
  <2>2. TasksInOrder /\ TakenOnce /\ Unmailed /\ GapPassed /\ GateShut
    BY FollowupAssumption, Predecessor
       DEF Init, Steps, TaskSteps, TasksInOrder, TakenOnce, Unmailed, GapPassed, GateShut
  <2>3. OneMailPerStep /\ SequenceStopsAfterReply /\ SequenceSpaced
    BY FollowupAssumption, Predecessor
       DEF Init, Steps, TaskSteps, OneMailPerStep, SequenceStopsAfterReply, SequenceSpaced
  <2>4. QED
    BY <2>1, <2>2, <2>3 DEF FollowupInv
<1>2. QED
  BY <1>1, FollowupStep, PTL DEF Spec

\* One message per step, and a task that says the truth about it, however jobs are
\* repeated, die or are parked (the compare-and-set of sendFollowupTask).
THEOREM StepsAreMailedOnce == Spec => []OneMailPerStep
<1>1. QED
  BY FollowupInvariant, PTL DEF FollowupInv

\* At most the message already past the gate leaves after a recorded reply.
THEOREM RepliesStopTheSequence == Spec => []SequenceStopsAfterReply
<1>1. QED
  BY FollowupInvariant, PTL DEF FollowupInv

\* Steps are mailed in order, Delay and Gap apart.
THEOREM StepsAreSpaced == Spec => []SequenceSpaced
<1>1. QED
  BY FollowupInvariant, PTL DEF FollowupInv

-----------------------------------------------------------------------------
(* The refinement. *)

\* A worker between its claim and the outcome holds a row that is not settled.
SlotHeld ==
    \A w \in Workers :
        /\ pc[w] \in {"send", "record", "fail"} => row[cur[w]] \in {"SENDING", "BOUNCED"}
        /\ pc[w] = "send" => cur[w] \notin mailed
        /\ pc[w] = "record" => cur[w] \in mailed

LEMMA SlotHeldStep == FollowupInv /\ SlotHeld /\ [Next]_followupVars => SlotHeld'
<1> SUFFICES ASSUME FollowupInv, SlotHeld, [Next]_followupVars PROVE SlotHeld'
  OBVIOUS
<1> USE DEF ledgerVars, switchVars, workVars, seenVars, FollowupInv, SlotHeld
<1>0. Shapes
  OBVIOUS
<1>1. ASSUME NEW s \in Steps, ScheduleNext(s) PROVE SlotHeld'
  BY <1>1, Predecessor DEF ScheduleNext, Shapes, TakenOnce
<1>2. ASSUME ScanDue PROVE SlotHeld'
  BY <1>2, Predecessor DEF ScanDue, Shapes, TakenOnce
<1>3. ASSUME NEW w \in Workers, TakeTask(w) PROVE SlotHeld'
  BY <1>3, Predecessor DEF TakeTask, Goto, Shapes, TakenOnce
<1>4. ASSUME NEW w \in Workers, ClaimStep(w) PROVE SlotHeld'
  <2>1. \A v \in Workers \ {w} : pc[v] = "idle" /\ pc'[v] = "idle"
    BY <1>4, OneBusy DEF ClaimStep, Finish, Goto, Shapes
  <2>2. QED
    BY <1>4, <2>1, Predecessor DEF ClaimStep, Finish, Goto, Shapes, TakenOnce, Unmailed
<1>5. ASSUME NEW w \in Workers, SendAccepted(w) PROVE SlotHeld'
  <2>1. \A v \in Workers \ {w} : pc[v] = "idle" /\ pc'[v] = "idle"
    BY <1>5, OneBusy DEF SendAccepted, Goto, Shapes
  <2>2. QED
    BY <1>5, <2>1, Predecessor DEF SendAccepted, Goto, Shapes, TakenOnce, Unmailed
<1>6. ASSUME NEW w \in Workers, SendRejected(w) PROVE SlotHeld'
  <2>1. \A v \in Workers \ {w} : pc[v] = "idle" /\ pc'[v] = "idle"
    BY <1>6, OneBusy DEF SendRejected, Goto, Shapes
  <2>2. QED
    BY <1>6, <2>1, Predecessor DEF SendRejected, Goto, Shapes, TakenOnce, Unmailed
<1>7. ASSUME NEW w \in Workers, RecordSent(w) PROVE SlotHeld'
  <2>1. \A v \in Workers \ {w} : pc[v] = "idle" /\ pc'[v] = "idle"
    BY <1>7, OneBusy DEF RecordSent, Goto, Shapes
  <2>2. QED
    BY <1>7, <2>1, Predecessor DEF RecordSent, Goto, Shapes, TakenOnce, Unmailed
<1>8. ASSUME NEW w \in Workers, RecordFails(w) PROVE SlotHeld'
  <2>1. \A v \in Workers \ {w} : pc[v] = "idle" /\ pc'[v] = "idle"
    BY <1>8, OneBusy DEF RecordFails, Goto, Shapes
  <2>2. QED
    BY <1>8, <2>1, Predecessor DEF RecordFails, Goto, Shapes, TakenOnce, Unmailed
<1>9. ASSUME NEW w \in Workers, RecordFailed(w) PROVE SlotHeld'
  <2>1. \A v \in Workers \ {w} : pc[v] = "idle" /\ pc'[v] = "idle"
    BY <1>9, OneBusy DEF RecordFailed, Goto, Shapes
  <2>2. QED
    BY <1>9, <2>1, Predecessor DEF RecordFailed, Goto, Shapes, TakenOnce, Unmailed
<1>10. ASSUME NEW w \in Workers, Die(w) PROVE SlotHeld'
  <2>1. \A v \in Workers \ {w} : pc[v] = "idle" /\ pc'[v] = "idle"
    BY <1>10, OneBusy DEF Die, Goto, Shapes
  <2>2. QED
    BY <1>10, <2>1, Predecessor DEF Die, Goto, Shapes, TakenOnce, Unmailed
<1>11. ASSUME SweepStale PROVE SlotHeld'
  BY <1>11, Predecessor DEF SweepStale, Abandoned, ClaimHeldAt, Shapes, TakenOnce
<1>12. ASSUME NEW s \in Steps, NEW header \in BOOLEAN, Reply(s, header) PROVE SlotHeld'
  BY <1>12, Predecessor DEF Reply, Attributed, SentRows, Shapes, TakenOnce
<1>13. ASSUME NEW kind \in {"hard", "soft"}, BounceRows(kind) PROVE SlotHeld'
  BY <1>13, Predecessor DEF BounceRows, Shapes, TakenOnce
<1>14. ASSUME RetryFailed PROVE SlotHeld'
  BY <1>14, Predecessor DEF RetryFailed, Shapes, TakenOnce
<1>15. ASSUME NEW w \in Workers, CheckGuards(w) \/ Authorize(w) \/ Defer(w) PROVE SlotHeld'
  BY <1>15 DEF CheckGuards, Authorize, Defer, Park, Finish, Goto, Shapes
<1>16. ASSUME \/ \E s \in Steps : ScheduleLost(s)
              \/ BounceSuppress \/ NextDay
              \/ \E complaint \in BOOLEAN : Bar(complaint)
              \/ \E c \in {"ACTIVE", "PAUSED", "OFF"} : SetControl(c)
              \/ UNCHANGED followupVars
      PROVE SlotHeld'
  BY <1>16 DEF ScheduleLost, BounceSuppress, NextDay, Bar, SetControl, followupVars
<1>17. QED
  BY <1>1, <1>2, <1>3, <1>4, <1>5, <1>6, <1>7, <1>8, <1>9, <1>10, <1>11, <1>12, <1>13, <1>14, <1>15, <1>16
     DEF Next, WorkerStep, Outside

THEOREM SlotHeldInvariant == Spec => []SlotHeld
<1>1. Init => SlotHeld
  BY DEF Init, SlotHeld
<1>2. QED
  BY <1>1, SlotHeldStep, FollowupInvariant, PTL DEF Spec

\* The claim is Take, the provider's answer Mail, a recorded failure and the stale
\* sweep are GiveUp, retry-failed is Reopen; everything else leaves the slots alone.
LEMMA StepSlotStep ==
    FollowupInv /\ SlotHeld /\ [Next]_followupVars => [StepSlots!Next]_(StepSlots!vars)
<1> SUFFICES ASSUME FollowupInv, SlotHeld, [Next]_followupVars
             PROVE [StepSlots!Next]_(StepSlots!vars)
  OBVIOUS
<1> USE DEF ledgerVars, switchVars, workVars, seenVars
<1>0. Shapes /\ TakenOnce /\ Unmailed
  BY DEF FollowupInv
<1>1. ASSUME UNCHANGED <<row, mails, mailed, clears>> PROVE UNCHANGED StepSlots!vars
  BY <1>1 DEF StepSlots!vars, StepSlot
<1>2. ASSUME NEW w \in Workers, ClaimStep(w) PROVE StepSlots!Next
  <2>1. PICK s \in TaskSteps : s = cur[w]
    BY <1>0, <1>2 DEF ClaimStep, TakenOnce
  <2>2. /\ row[s] = "NONE" /\ row' = [row EXCEPT ![s] = "SENDING"] /\ mailed' = mailed \ {s}
        /\ UNCHANGED <<mails, clears>>
    BY <1>0, <1>2, <2>1 DEF ClaimStep, Unmailed
  <2>3. /\ StepSlot(s) = "OPEN" /\ StepSlot(s)' = "TAKEN"
        /\ \A t \in TaskSteps \ {s} : StepSlot(t)' = StepSlot(t)
    BY <1>0, <2>2, Predecessor DEF StepSlot, Shapes
  <2>4. StepSlots!Take(s)
    BY <2>2, <2>3 DEF StepSlots!Take
  <2>5. QED
    BY <2>4 DEF StepSlots!Next
<1>3. ASSUME NEW w \in Workers, SendAccepted(w) PROVE StepSlots!Next
  <2>1. PICK s \in TaskSteps : s = cur[w]
    BY <1>0, <1>3 DEF SendAccepted, TakenOnce
  <2>2. /\ row[s] \in {"SENDING", "BOUNCED"} /\ s \notin mailed
        /\ mails' = [mails EXCEPT ![s] = @ + 1] /\ mailed' = mailed \cup {s}
        /\ UNCHANGED <<row, clears>>
    BY <1>0, <1>3, <2>1 DEF SendAccepted, SlotHeld
  <2>3. /\ StepSlot(s) = "TAKEN" /\ StepSlot(s)' = "MAILED"
        /\ \A t \in TaskSteps \ {s} : StepSlot(t)' = StepSlot(t)
    BY <2>2 DEF StepSlot
  <2>4. \A t \in TaskSteps : mails'[t] = IF t = s THEN mails[t] + 1 ELSE mails[t]
    BY <1>0, <2>2, Predecessor DEF Shapes
  <2>5. StepSlots!Mail(s)
    BY <2>2, <2>3, <2>4 DEF StepSlots!Mail
  <2>6. QED
    BY <2>5 DEF StepSlots!Next
<1>4. ASSUME NEW S \in SUBSET TaskSteps,
             \A s \in S : row[s] \notin {"NONE", "FAILED"} /\ row'[s] = "FAILED",
             \A s \in TaskSteps \ S : row'[s] = row[s],
             UNCHANGED <<mails, mailed, clears>>
      PROVE [StepSlots!Next]_(StepSlots!vars)
  <2>1. CASE S = {}
    BY <1>4, <2>1 DEF StepSlots!vars, StepSlot
  <2>2. CASE S # {}
    <3>1. /\ \A s \in S : StepSlot(s) \in {"TAKEN", "MAILED"} /\ StepSlot(s)' = "GIVEN_UP"
          /\ \A s \in TaskSteps \ S : StepSlot(s)' = StepSlot(s)
      BY <1>4 DEF StepSlot
    <3>2. StepSlots!GiveUp(S)
      BY <1>4, <2>2, <3>1 DEF StepSlots!GiveUp
    <3>3. QED
      BY <3>2 DEF StepSlots!Next
  <2>3. QED
    BY <2>1, <2>2
<1>5. ASSUME \A s \in TaskSteps : row'[s] = row[s] \/ {row[s], row'[s]} \cap {"NONE", "FAILED"} = {},
             UNCHANGED <<mails, mailed, clears>>
      PROVE UNCHANGED StepSlots!vars
  BY <1>5 DEF StepSlots!vars, StepSlot
<1>6. ASSUME NEW w \in Workers, RecordFailed(w) PROVE [StepSlots!Next]_(StepSlots!vars)
  <2>1. cur[w] \in TaskSteps /\ row[cur[w]] \in {"SENDING", "BOUNCED"} /\ UNCHANGED <<mails, mailed, clears>>
    BY <1>0, <1>6 DEF RecordFailed, TakenOnce, SlotHeld
  <2>2. CASE row' = row
    BY <1>1, <2>1, <2>2
  <2>3. CASE row' = [row EXCEPT ![cur[w]] = "FAILED"]
    <3>1. {cur[w]} \in SUBSET TaskSteps /\ row'[cur[w]] = "FAILED"
          /\ \A s \in TaskSteps \ {cur[w]} : row'[s] = row[s]
      BY <1>0, <2>1, <2>3, Predecessor DEF Shapes
    <3>2. QED
      BY <1>4, <2>1, <3>1
  <2>4. QED
    BY <1>6, <2>2, <2>3 DEF RecordFailed
<1>7. ASSUME SweepStale PROVE [StepSlots!Next]_(StepSlots!vars)
  <2> DEFINE S == Abandoned \cap TaskSteps
  <2>1. /\ \A s \in S : row[s] \notin {"NONE", "FAILED"} /\ row'[s] = "FAILED"
        /\ \A s \in TaskSteps \ S : row'[s] = row[s]
        /\ UNCHANGED <<mails, mailed, clears>>
    BY <1>7, Predecessor DEF SweepStale, Abandoned
  <2>2. QED
    BY <1>4, <2>1
<1>8. ASSUME RetryFailed PROVE StepSlots!Next
  <2> DEFINE S == {s \in TaskSteps : StepSlot(s) = "GIVEN_UP"}
  <2>1. S = {s \in TaskSteps : row[s] = "FAILED"}
    BY DEF StepSlot
  <2>2. /\ S # {} /\ \A s \in S : clears[s] < MaxClears
        /\ \A s \in TaskSteps : clears'[s] = IF s \in S THEN clears[s] + 1 ELSE clears[s]
        /\ mails' = mails
    BY <1>8, <2>1, Predecessor DEF RetryFailed
  <2>3. \A s \in TaskSteps : StepSlot(s)' = IF s \in S THEN "OPEN" ELSE StepSlot(s)
    BY <1>8, <2>1, Predecessor DEF RetryFailed, StepSlot
  <2>4. StepSlots!Reopen
    BY <2>2, <2>3 DEF StepSlots!Reopen
  <2>5. QED
    BY <2>4 DEF StepSlots!Next
<1>9. ASSUME \/ \E w \in Workers : RecordSent(w)
             \/ \E s \in Steps, header \in BOOLEAN : Reply(s, header)
             \/ \E kind \in {"hard", "soft"} : BounceRows(kind)
      PROVE UNCHANGED StepSlots!vars
  <2>1. UNCHANGED <<mails, mailed, clears>>
    BY <1>9 DEF RecordSent, Reply, BounceRows
  <2>2. \A s \in TaskSteps : row'[s] = row[s] \/ {row[s], row'[s]} \cap {"NONE", "FAILED"} = {}
    BY <1>0, <1>9, Predecessor DEF RecordSent, Reply, BounceRows, SlotHeld, Shapes
  <2>3. QED
    BY <1>5, <2>1, <2>2
<1>10. ASSUME \/ \E s \in Steps : ScheduleNext(s) \/ ScheduleLost(s)
              \/ ScanDue \/ BounceSuppress \/ NextDay
              \/ \E w \in Workers : \/ TakeTask(w) \/ CheckGuards(w) \/ Authorize(w) \/ Defer(w)
                                    \/ SendRejected(w) \/ RecordFails(w) \/ Die(w)
              \/ \E complaint \in BOOLEAN : Bar(complaint)
              \/ \E c \in {"ACTIVE", "PAUSED", "OFF"} : SetControl(c)
              \/ UNCHANGED followupVars
       PROVE UNCHANGED <<row, mails, mailed, clears>>
  BY <1>10 DEF ScheduleNext, ScheduleLost, ScanDue, BounceSuppress, NextDay, TakeTask, CheckGuards,
               Authorize, Defer, SendRejected, RecordFails, Die, Bar, SetControl, followupVars
<1>11. QED
  BY <1>1, <1>2, <1>3, <1>6, <1>7, <1>8, <1>9, <1>10 DEF Next, WorkerStep, Outside

\* The outbox keeps the promise of SendSlot for the follow-up steps too: taken
\* before a message leaves, one message per taking, reopened by an operator only.
THEOREM FollowupsImplement == Spec => FollowupsImplementSendSlot
<1>1. Init => StepSlots!Init
  BY FollowupAssumption, Predecessor DEF Init, StepSlots!Init, StepSlot
<1>2. FollowupInv /\ SlotHeld /\ [Next]_followupVars => [StepSlots!Next]_(StepSlots!vars)
  BY StepSlotStep
<1>3. QED
  BY <1>1, <1>2, FollowupInvariant, SlotHeldInvariant, PTL
     DEF Spec, StepSlots!Spec, FollowupsImplementSendSlot

=============================================================================
