------------------------ MODULE ReminderFires_proofs ------------------------
(***************************************************************************)
(* The safety invariants of ReminderFires that say what the deliveries     *)
(* leave behind, for any reminders, edits, resends, times and faults.      *)
(*                                                                         *)
(* A turn row stands for each text that is sent (JobInv), what is recorded *)
(* as delivered goes back to such a text (RecordInv), and while nothing    *)
(* fails a text that was sent is recorded for all of its fires before the  *)
(* worker turns to anything else (SettledInv).                             *)
(* While nobody edits, every fire of a series is at the series' next time, *)
(* or completed with the series gone on to the occurrence behind it, both  *)
(* as everybody sees the rows and as the worker's transaction does         *)
(* (OrderInv); so catching up skips no occurrence.                         *)
(***************************************************************************)
EXTENDS ReminderFires, TLAPS

\* The worker is at a trigger of its own and the fires of its payload; the row
\* it completes a fire with, and the row an edit goes on from, have been read.
ActorsOK ==
    /\ job.at # "idle" => job.trigger \in Triggers
    /\ job.fire # NoFire =>
          job.at = "recording" /\ job.fire \in job.todo /\ job.seen \in Rows
    /\ edit # NoEdit =>
          edit.op \in EditKinds /\ edit.reminder \in Reminders /\ edit.seen \in Rows

TypeInv == TypeOK /\ ActorsOK

\* What is sent has a turn, which is there before the text leaves; a trigger
\* that does not exist has no fires and no outcome.
JobInv ==
    /\ \A t \in Triggers :
          /\ turn[t] = "none" => sends[t] = 0
          /\ sends[t] = 0 => outcome[t] = "none"
          /\ event[t] = "absent" => group[t] = {} /\ outcome[t] = "none"
          /\ t > MaxTime + resends => event[t] = "absent"
    /\ SentOnce
    /\ job.at # "idle" => event[job.trigger] = "queued" /\ job.todo \subseteq group[job.trigger]
    /\ job.at = "rendering" => turn[job.trigger] = "none"
    /\ job.at = "closed" => turn[job.trigger] # "none" /\ sends[job.trigger] = 0
    /\ job.at = "recording" => turn[job.trigger] # "none" /\ outcome[job.trigger] # "none"

\* Some text with fire f was accepted by the channel.
WasSent(f) == \E t \in Triggers : f \in group[t] /\ outcome[t] = "sent"

\* Whoever has a fire as completed has it from the recording of such a text.
RecordInv ==
    /\ job.at # "recording" => txFire = NoFireWrites
    /\ job.fire # NoFire => outcome[job.trigger] = "sent"
    /\ \A f \in Fires : "completed" \in {fire[f], txFire[f]} => WasSent(f)
    /\ \A f \in Fires : fire[f] = "completed" => txFire[f] \in {"none", "completed"}

\* While nothing fails: the fires of a text that was sent are completed, or the
\* worker is still recording that very text.
SettledInv ==
    /\ job.at \in {"rendering", "closed"} => job.todo = group[job.trigger]
    /\ faults = 0 =>
          \A t \in Triggers : outcome[t] = "sent" =>
              \A f \in group[t] :
                  \/ fire[f] = "completed"
                  \/ /\ job.at = "recording" /\ job.trigger = t
                     /\ f \in job.todo \/ txFire[f] = "completed"

IInv == TypeInv /\ JobInv /\ RecordInv /\ SettledInv

-----------------------------------------------------------------------------
(* Types.                                                                  *)

LEMMA TimesAndTriggers ==
  /\ Times \subseteq Triggers /\ Triggers \subseteq Nat
  /\ \A n \in 0 .. MaxResends : n < MaxResends => MaxTime + n + 1 \in Triggers
BY FiresAssumption DEF Times, Triggers, Resends

LEMMA RowsNext ==
  ASSUME NEW row \in Rows
  PROVE  /\ row.life \in Lives /\ row.next \in 0 .. (MaxTime + Interval)
         /\ \A n \in 0 .. (MaxTime + Interval) : [row EXCEPT !.next = n] \in Rows
         /\ \A l \in Lives : [row EXCEPT !.life = l] \in Rows
BY DEF Rows

\* What the worker's transaction sees are rows.
LEMMA SeenTypes ==
  ASSUME TypeInv
  PROVE  /\ \A r \in Reminders : RemSeen(r) \in Rows
         /\ \A f \in Fires : FireSeen(f) \in FireStates
BY DEF TypeInv, TypeOK, RemSeen, FireSeen

LEMMA TypeInit == Init => TypeInv
<1> SUFFICES ASSUME Init PROVE TypeInv
  OBVIOUS
<1>1. job = IdleJob /\ scan = IdleScan /\ edit = NoEdit
  BY DEF Init
<1>2. job.at = "idle" /\ job.fire = NoFire
  BY <1>1 DEF IdleJob
<1>3. ActorsOK
  BY <1>1, <1>2 DEF ActorsOK
<1>4. TypeOK
  BY <1>1, FiresAssumption
     DEF Init, TypeOK, IdleJob, IdleScan, NoEdit, NoRemWrites, NoFireWrites, FireStates,
         JobStates, SendCap
<1> QED
  BY <1>3, <1>4 DEF TypeInv

LEMMA TypeStep == TypeInv /\ [Next]_vars => TypeInv'
<1> SUFFICES ASSUME TypeInv, [Next]_vars PROVE TypeInv'
  OBVIOUS
<1> USE FiresAssumption DEF TypeInv
<1>1. CASE Tick
  BY <1>1 DEF Tick, TypeOK, ActorsOK, txVars, historyVars
<1>2. CASE ScanRead
  <2>1. scan'.due \subseteq Fires
    BY <1>2 DEF ScanRead, Due, Fires, Times, TypeOK, Rows
  <2> QED
    BY <1>2, <2>1 DEF ScanRead, TypeOK, ActorsOK, txVars, historyVars
<1>3. CASE ScanCommit
  BY <1>3 DEF ScanCommit, TypeOK, ActorsOK, txVars, historyVars, Claimed, FireStates, IdleScan
<1>4. CASE ScanAborts
  BY <1>4 DEF ScanAborts, Fault, TypeOK, ActorsOK, txVars, historyVars, IdleScan
<1>5. ASSUME NEW t \in Triggers, BeginRender(t) PROVE TypeInv'
  <2>1. job' = [at |-> "rendering", trigger |-> t, todo |-> group[t], fire |-> NoFire,
                seen |-> NoRow]
    BY <1>5 DEF BeginRender, IdleJob
  <2>2. UNCHANGED <<clock, rem, fire, event, group, turn, scan, txRem, txFire, edit, outcome,
                    sends, edits, resends, faults>>
    BY <1>5 DEF BeginRender, txVars, historyVars
  <2>3. TypeOK'
    BY <2>1, <2>2 DEF TypeOK, JobStates
  <2> QED
    BY <2>1, <2>2, <2>3 DEF ActorsOK
<1>6. ASSUME NEW t \in Triggers, ReplayRender(t) PROVE TypeInv'
  BY <1>6 DEF ReplayRender, TypeOK, ActorsOK, txVars, historyVars
<1>7. CASE RenderFails
  BY <1>7 DEF RenderFails, Fault, TypeOK, ActorsOK, txVars, historyVars, IdleJob, JobStates
<1>8. CASE CloseRender
  BY <1>8 DEF CloseRender, TypeOK, ActorsOK, txVars, historyVars, JobStates
<1>9. CASE Send
  BY <1>9 DEF Send, TypeOK, ActorsOK, txVars, JobStates, SendCap
<1>10. ASSUME NEW f \in Fires, RecordFire(f) PROVE TypeInv'
  <2>1. /\ UNCHANGED <<clock, rem, fire, event, group, turn, scan, txRem, edit, outcome,
                       sends, edits, resends, faults>>
        /\ job.at = "recording" /\ job.fire = NoFire /\ f \in job.todo
    BY <1>10 DEF RecordFire, historyVars
  <2>2. \/ job' = [job EXCEPT !.todo = @ \ {f}]
        \/ job' = [job EXCEPT !.fire = f, !.seen = RemSeen(f[1])]
    BY <1>10 DEF RecordFire
  <2>3. txFire' \in [Fires -> FireStates \cup {"none"}]
    BY <1>10 DEF RecordFire, TypeOK, FireStates
  <2>4. f[1] \in Reminders /\ RemSeen(f[1]) \in Rows
    BY SeenTypes DEF Fires
  <2> DEFINE row == RemSeen(f[1])
             JobType == [at : JobStates, trigger : Triggers \cup {0}, todo : SUBSET Fires,
                         fire : Fires \cup {NoFire}, seen : Rows \cup {NoRow}]
  <2> HIDE DEF row
  <2>5. job \in JobType
    BY DEF TypeOK
  <2>6. CASE job' = [job EXCEPT !.todo = @ \ {f}]
    <3>1. job' \in JobType
      BY <2>5, <2>6
    <3>2. TypeOK'
      BY <2>1, <2>3, <3>1 DEF TypeOK
    <3> QED
      BY <2>1, <2>5, <2>6, <3>2 DEF ActorsOK
  <2>7. CASE job' = [job EXCEPT !.fire = f, !.seen = row]
    <3>1. job' \in JobType /\ row \in Rows
      BY <2>4, <2>5, <2>7 DEF row
    <3>2. TypeOK'
      BY <2>1, <2>3, <3>1 DEF TypeOK
    <3> QED
      BY <2>1, <2>5, <2>7, <3>1, <3>2 DEF ActorsOK
  <2> QED
    BY <2>2, <2>6, <2>7 DEF row
<1>11. CASE SaveReminder
  <2> DEFINE f == job.fire
  <2>1. f \in Fires /\ f[1] \in Reminders /\ f[2] \in Times /\ job.seen \in Rows
    BY <1>11 DEF SaveReminder, TypeOK, ActorsOK, Fires
  <2>2. Advanced(f[1], job.seen, f[2]) \in Rows
    <3>1. f[2] + Interval \in 0 .. (MaxTime + Interval) /\ "fired" \in Lives
      BY <2>1 DEF Times, Lives
    <3> QED
      BY <2>1, <3>1, RowsNext DEF Advanced
  <2>3. /\ txFire' = [txFire EXCEPT ![f] = "completed"]
        /\ txRem' = [txRem EXCEPT ![f[1]] = Advanced(f[1], job.seen, f[2])]
        /\ job' = [job EXCEPT !.todo = @ \ {f}, !.fire = NoFire, !.seen = NoRow]
        /\ UNCHANGED <<clock, rem, fire, event, group, turn, scan, edit, outcome, sends,
                       edits, resends, faults>>
    BY <1>11 DEF SaveReminder
  <2>4. TypeOK'
    BY <2>1, <2>2, <2>3 DEF TypeOK, FireStates
  <2>5. ActorsOK'
    BY <2>3 DEF ActorsOK, TypeOK
  <2> QED
    BY <2>4, <2>5
<1>12. CASE RecordCommit
  BY <1>12, SeenTypes DEF RecordCommit, TypeOK, ActorsOK, historyVars, IdleJob, JobStates,
                          NoRemWrites, NoFireWrites
<1>13. CASE JobAborts
  BY <1>13 DEF JobAborts, Fault, TypeOK, ActorsOK, historyVars, IdleJob, JobStates,
               NoRemWrites, NoFireWrites
<1>14. CASE EnqueueResend
  <2>1. MaxTime + resends + 1 \in Triggers
    BY <1>14, TimesAndTriggers DEF EnqueueResend, TypeOK
  <2>2. UNCHANGED <<clock, rem, fire, turn, scan, job, txRem, txFire, edit, outcome, sends,
                    edits, faults>>
    BY <1>14 DEF EnqueueResend, txVars, historyVars
  <2>3. /\ event' \in [Triggers -> {"absent", "queued", "acked"}]
        /\ group' \in [Triggers -> SUBSET Fires]
        /\ resends' \in 0 .. MaxResends
    BY <1>14, <2>1 DEF EnqueueResend, Undelivered, TypeOK
  <2>4. TypeOK'
    BY <2>2, <2>3 DEF TypeOK
  <2> QED
    BY <2>2, <2>4 DEF ActorsOK
<1>15. ASSUME NEW op \in EditKinds, NEW r \in Reminders, NEW d \in 0 .. MaxTime,
              BeginEdit(op, r, d)
       PROVE  TypeInv'
  BY <1>15 DEF BeginEdit, TypeOK, ActorsOK, txVars, historyVars
<1>16. CASE CommitEdit
  <2>1. /\ edit.op \in EditKinds /\ edit.reminder \in Reminders /\ edit.seen \in Rows
        /\ edit.time \in 0 .. (MaxTime + Interval)
    BY <1>16 DEF CommitEdit, ActorsOK, TypeOK
  <2>2. [life |-> "active", next |-> edit.time] \in Rows
    BY <2>1 DEF Rows, Lives
  <2>3. Edited(edit.op, edit.seen, edit.time) \in Rows
    <3>1. 0 \in 0 .. (MaxTime + Interval) /\ {"completed", "deleted"} \subseteq Lives
      BY DEF Lives
    <3> QED
      BY <2>1, <2>2, <3>1, RowsNext DEF Edited, EditKinds
  <2>4. /\ rem' = [rem EXCEPT ![edit.reminder] = Edited(edit.op, edit.seen, edit.time)]
        /\ edit' = NoEdit
        /\ UNCHANGED <<clock, fire, event, group, turn, scan, job, txRem, txFire, outcome,
                       sends, edits, resends, faults>>
    BY <1>16 DEF CommitEdit, txVars
  <2>5. TypeOK'
    BY <2>1, <2>3, <2>4 DEF TypeOK, NoEdit
  <2> QED
    BY <2>4, <2>5 DEF ActorsOK
<1>17. CASE UNCHANGED vars
  BY <1>17 DEF vars, TypeOK, ActorsOK, historyVars
<1> QED
  BY <1>1, <1>2, <1>3, <1>4, <1>5, <1>6, <1>7, <1>8, <1>9, <1>10, <1>11, <1>12, <1>13,
     <1>14, <1>15, <1>16, <1>17 DEF Next, SchedulerStep, WorkerStep, EditStep

\* Rows, payloads and the worker's transaction stay what they are, whatever is
\* written back from a stale read.
THEOREM TypesHold == Spec => []TypeOK
<1>1. TypeInv => TypeOK
  BY DEF TypeInv
<1> QED
  BY TypeInit, TypeStep, <1>1, PTL DEF Spec

-----------------------------------------------------------------------------
(* One text for each turn.                                                 *)

\* What the invariants below speak of, but for the number of faults.
Deliveries == <<fire, event, group, turn, job, txFire, outcome, sends, resends>>

\* The clock, the reads of the scheduler and the edits leave it alone.
LEMMA BesideSteps ==
  ASSUME \/ Tick \/ ScanRead \/ ScanAborts \/ CommitEdit \/ UNCHANGED vars
         \/ \E op \in EditKinds, r \in Reminders, d \in 0 .. MaxTime : BeginEdit(op, r, d)
  PROVE  UNCHANGED Deliveries
BY DEF Tick, ScanRead, ScanAborts, CommitEdit, BeginEdit, vars, Deliveries, txVars, historyVars

\* Faults are counted.
LEMMA FaultsCounted == TypeInv /\ [Next]_vars => (faults' = 0 => faults = 0)
<1> SUFFICES ASSUME TypeInv, [Next]_vars PROVE faults' \in {faults, faults + 1}
  BY DEF TypeInv, TypeOK
<1>1. CASE ScanAborts \/ RenderFails \/ JobAborts
  BY <1>1 DEF ScanAborts, RenderFails, JobAborts, Fault
<1>2. CASE \/ Tick \/ SchedulerStep \/ EnqueueResend \/ EditStep \/ UNCHANGED vars
  BY <1>2 DEF Tick, SchedulerStep, ScanRead, ScanCommit, EnqueueResend, EditStep, BeginEdit,
              CommitEdit, vars
<1>3. CASE WorkerStep
  BY <1>3 DEF WorkerStep, BeginRender, ReplayRender, CloseRender, Send, RecordFire,
              SaveReminder, RecordCommit
<1> QED
  BY <1>1, <1>2, <1>3 DEF Next

\* The scan makes payloads for triggers that have none, of due times.
LEMMA ScanMakes ==
  ASSUME TypeInv, ScanCommit
  PROVE  /\ UNCHANGED <<turn, job, txFire, outcome, sends, resends, faults>>
         /\ \A t \in Triggers :
               /\ event[t] # "absent" \/ t > MaxTime =>
                     event'[t] = event[t] /\ group'[t] = group[t]
               /\ event'[t] = "absent" => event[t] = "absent" /\ group'[t] = group[t]
         /\ \A f \in Fires : fire'[f] = fire[f] \/ (fire[f] = "absent" /\ fire'[f] = "claimed")
<1>1. UNCHANGED <<turn, job, txFire, outcome, sends, resends, faults>>
  BY DEF ScanCommit, txVars, historyVars
<1>2. \A f \in Fires : fire'[f] = fire[f] \/ (fire[f] = "absent" /\ fire'[f] = "claimed")
  <2>1. fire' = Claimed
    BY DEF ScanCommit
  <2> QED
    BY <2>1 DEF Claimed
<1> DEFINE at(d) == {f \in scan.due : f[2] = d}
           new == {d \in Times : at(d) # {} /\ event[d] = "absent"}
<1>3. /\ event' = [t \in Triggers |-> IF t \in new THEN "queued" ELSE event[t]]
      /\ group' = [t \in Triggers |-> IF t \in new THEN at(t) ELSE group[t]]
  BY DEF ScanCommit
<1>4. \A t \in new : t \in 1 .. MaxTime /\ event[t] = "absent"
  BY DEF Times
<1> HIDE DEF at, new
<1>5. ASSUME NEW t \in Triggers
      PROVE  /\ event[t] # "absent" \/ t > MaxTime =>
                   event'[t] = event[t] /\ group'[t] = group[t]
             /\ event'[t] = "absent" => event[t] = "absent" /\ group'[t] = group[t]
  BY <1>3, <1>4, FiresAssumption
<1> QED
  BY <1>1, <1>2, <1>5

\* A fire is recorded: it is not to do any more, or its reminder has been read.
LEMMA FireRecords ==
  ASSUME TypeInv, NEW f \in Fires, RecordFire(f)
  PROVE  /\ UNCHANGED <<fire, event, group, turn, outcome, sends, resends, faults>>
         /\ job.at = "recording" /\ f \in job.todo
         /\ job'.at = job.at /\ job'.trigger = job.trigger
         /\ \/ /\ job'.todo = job.todo /\ job'.fire = f /\ txFire' = txFire
               /\ outcome[job.trigger] = "sent"
            \/ /\ job'.todo = job.todo \ {f} /\ job'.fire = job.fire /\ txFire' = txFire
               /\ "completed" \in {fire[f], txFire[f]}
            \/ /\ job'.todo = job.todo \ {f} /\ job'.fire = job.fire
               /\ txFire[f] # "completed" /\ (txFire[f] = "none" => fire[f] # "completed")
               /\ txFire' = [txFire EXCEPT ![f] = "undelivered"]
               /\ outcome[job.trigger] = "failed"
<1>1. /\ UNCHANGED <<fire, event, group, turn, outcome, sends, resends, faults>>
      /\ job.at = "recording" /\ f \in job.todo /\ job.fire = NoFire
  BY DEF RecordFire, historyVars
<1>2. CASE FireSeen(f) = "completed" /\ job' = [job EXCEPT !.todo = @ \ {f}] /\ UNCHANGED txFire
  BY <1>1, <1>2 DEF FireSeen, TypeInv, TypeOK
<1>3. CASE /\ FireSeen(f) # "completed" /\ outcome[job.trigger] = "failed"
           /\ job' = [job EXCEPT !.todo = @ \ {f}]
           /\ txFire' = [txFire EXCEPT ![f] = "undelivered"]
  <2>1. txFire[f] # "completed" /\ (txFire[f] = "none" => fire[f] # "completed")
    BY <1>3 DEF FireSeen
  <2> QED
    BY <1>1, <1>3, <2>1 DEF TypeInv, TypeOK
<1>4. CASE /\ outcome[job.trigger] = "sent" /\ UNCHANGED txFire
           /\ job' = [job EXCEPT !.fire = f, !.seen = RemSeen(f[1])]
  BY <1>1, <1>4 DEF TypeInv, TypeOK
<1> QED
  BY <1>2, <1>3, <1>4 DEF RecordFire

LEMMA JobInit == Init => JobInv
BY FiresAssumption, TimesAndTriggers DEF Init, JobInv, SentOnce, IdleJob

LEMMA JobStep == TypeInv /\ JobInv /\ [Next]_vars => JobInv'
<1> SUFFICES ASSUME TypeInv, JobInv, [Next]_vars PROVE JobInv'
  OBVIOUS
<1> USE DEF TypeInv
<1>1. CASE UNCHANGED Deliveries
  BY <1>1 DEF Deliveries, JobInv, SentOnce
<1>2. CASE ScanCommit
  <2>1. \A t \in Triggers : t > MaxTime + resends => t > MaxTime
    BY TimesAndTriggers, FiresAssumption DEF TypeOK
  <2>2. ASSUME NEW t \in Triggers
        PROVE  /\ turn'[t] = "none" => sends'[t] = 0
               /\ sends'[t] = 0 => outcome'[t] = "none"
               /\ event'[t] = "absent" => group'[t] = {} /\ outcome'[t] = "none"
               /\ t > MaxTime + resends' => event'[t] = "absent"
    BY <1>2, <2>1, ScanMakes DEF JobInv
  <2>3. job.at # "idle" => event'[job.trigger] = event[job.trigger]
                           /\ group'[job.trigger] = group[job.trigger]
    BY <1>2, ScanMakes DEF JobInv, ActorsOK
  <2> QED
    BY <1>2, <2>2, <2>3, ScanMakes DEF JobInv, SentOnce
<1>3. ASSUME NEW t \in Triggers, BeginRender(t) PROVE JobInv'
  BY <1>3 DEF BeginRender, JobInv, SentOnce, historyVars, IdleJob
<1>4. ASSUME NEW t \in Triggers, ReplayRender(t) PROVE JobInv'
  BY <1>4 DEF ReplayRender, JobInv, SentOnce, TypeOK, historyVars
<1>5. CASE RenderFails
  BY <1>5 DEF RenderFails, JobInv, SentOnce, TypeOK, ActorsOK, historyVars, IdleJob
<1>6. CASE CloseRender
  BY <1>6 DEF CloseRender, JobInv, SentOnce, TypeOK, ActorsOK, historyVars
<1>7. CASE Send
  BY <1>7 DEF Send, JobInv, SentOnce, TypeOK, ActorsOK, SendCap
<1>8. ASSUME NEW f \in Fires, RecordFire(f) PROVE JobInv'
  BY <1>8, FireRecords DEF JobInv, SentOnce
<1>9. CASE SaveReminder
  BY <1>9 DEF SaveReminder, JobInv, SentOnce, TypeOK
<1>10. CASE RecordCommit
  BY <1>10 DEF RecordCommit, JobInv, SentOnce, TypeOK, ActorsOK, historyVars, IdleJob
<1>11. CASE JobAborts
  BY <1>11 DEF JobAborts, JobInv, SentOnce, historyVars, IdleJob
<1>12. CASE EnqueueResend
  BY <1>12, FiresAssumption, TimesAndTriggers DEF EnqueueResend, JobInv, SentOnce, TypeOK, ActorsOK, historyVars
<1> QED
  BY BesideSteps, <1>1, <1>2, <1>3, <1>4, <1>5, <1>6, <1>7, <1>8, <1>9, <1>10, <1>11, <1>12
     DEF Next, SchedulerStep, WorkerStep, EditStep

\* The text of a trigger leaves at most once, whenever the worker dies and
\* however often its event comes back or the scheduler finds it due again.
THEOREM OneText == Spec => []SentOnce
<1>1. JobInv => SentOnce
  BY DEF JobInv
<1> QED
  BY TypeInit, TypeStep, JobInit, JobStep, <1>1, PTL DEF Spec

-----------------------------------------------------------------------------
(* What is recorded of it.                                                 *)

\* A text that was sent stays sent, with its fires.
LEMMA SentStays ==
  ASSUME TypeInv, JobInv, [Next]_vars
  PROVE  \A t \in Triggers : outcome[t] = "sent" => outcome'[t] = "sent" /\ group'[t] = group[t]
<1> USE DEF TypeInv
<1>1. CASE UNCHANGED Deliveries
  BY <1>1 DEF Deliveries
<1>2. CASE ScanCommit
  BY <1>2 DEF ScanCommit, JobInv, TypeOK, historyVars
<1>3. CASE Send
  BY <1>3 DEF Send, JobInv, TypeOK, ActorsOK
<1>4. CASE EnqueueResend
  BY <1>4, FiresAssumption, TimesAndTriggers DEF EnqueueResend, JobInv, TypeOK, historyVars
<1>5. CASE \/ RenderFails \/ CloseRender \/ SaveReminder \/ RecordCommit \/ JobAborts
           \/ \E t \in Triggers : BeginRender(t) \/ ReplayRender(t)
           \/ \E f \in Fires : RecordFire(f)
  BY <1>5 DEF RenderFails, CloseRender, SaveReminder, RecordCommit, JobAborts, BeginRender,
              ReplayRender, RecordFire, historyVars
<1> QED
  BY BesideSteps, <1>1, <1>2, <1>3, <1>4, <1>5 DEF Next, SchedulerStep, WorkerStep, EditStep

LEMMA RecordInit == Init => RecordInv
BY DEF Init, RecordInv, IdleJob, NoFireWrites

LEMMA RecordStep == TypeInv /\ JobInv /\ RecordInv /\ [Next]_vars => RecordInv'
<1> SUFFICES ASSUME TypeInv, JobInv, RecordInv, [Next]_vars PROVE RecordInv'
  OBVIOUS
<1> USE DEF TypeInv
<1>0. \A f \in Fires : WasSent(f) => WasSent(f)'
  BY SentStays DEF WasSent
<1>1. CASE UNCHANGED Deliveries
  BY <1>1 DEF Deliveries, RecordInv, WasSent
<1>2. CASE ScanCommit
  BY <1>0, <1>2 DEF ScanCommit, RecordInv, Claimed, TypeOK, historyVars, txVars
<1>3. ASSUME NEW t \in Triggers, BeginRender(t) PROVE RecordInv'
  BY <1>0, <1>3 DEF BeginRender, RecordInv, historyVars, txVars, IdleJob
<1>4. ASSUME NEW t \in Triggers, ReplayRender(t) PROVE RecordInv'
  BY <1>0, <1>4 DEF ReplayRender, RecordInv, historyVars, txVars
<1>5. CASE RenderFails
  BY <1>0, <1>5 DEF RenderFails, RecordInv, historyVars, txVars, IdleJob
<1>6. CASE CloseRender
  BY <1>0, <1>6 DEF CloseRender, RecordInv, TypeOK, ActorsOK, historyVars, txVars
<1>7. CASE Send
  BY <1>0, <1>7 DEF Send, RecordInv, TypeOK, ActorsOK, txVars
<1>8. ASSUME NEW f \in Fires, RecordFire(f) PROVE RecordInv'
  BY <1>0, <1>8, FireRecords DEF RecordInv, TypeOK
<1>9. CASE SaveReminder
  BY <1>0, <1>9 DEF SaveReminder, RecordInv, JobInv, WasSent, TypeOK, ActorsOK
<1>10. CASE RecordCommit
  BY <1>0, <1>10 DEF RecordCommit, RecordInv, TypeOK, historyVars, IdleJob, FireSeen, NoFireWrites
<1>11. CASE JobAborts
  BY <1>0, <1>11 DEF JobAborts, RecordInv, TypeOK, historyVars, IdleJob, NoFireWrites
<1>12. CASE EnqueueResend
  BY <1>0, <1>12 DEF EnqueueResend, RecordInv, historyVars, txVars
<1> QED
  BY BesideSteps, <1>1, <1>2, <1>3, <1>4, <1>5, <1>6, <1>7, <1>8, <1>9, <1>10, <1>11, <1>12
     DEF Next, SchedulerStep, WorkerStep, EditStep

\* A fire is recorded as delivered only when a text with it was accepted.
THEOREM CompletedBySending == Spec => []CompletedWasSent
<1>1. RecordInv => CompletedWasSent
  BY DEF RecordInv, CompletedWasSent, WasSent
<1> QED
  BY TypeInit, TypeStep, JobInit, JobStep, RecordInit, RecordStep, <1>1, PTL DEF Spec

-----------------------------------------------------------------------------
(* While nothing fails.                                                    *)

LEMMA SettledInit == Init => SettledInv
BY DEF Init, SettledInv, IdleJob

LEMMA SettledStep ==
  TypeInv /\ JobInv /\ RecordInv /\ SettledInv /\ [Next]_vars => SettledInv'
<1> SUFFICES ASSUME TypeInv, JobInv, RecordInv, SettledInv, [Next]_vars PROVE SettledInv'
  OBVIOUS
<1> USE FaultsCounted DEF TypeInv
<1>1. CASE UNCHANGED Deliveries
  BY <1>1 DEF Deliveries, SettledInv
<1>2. CASE ScanCommit
  BY <1>2, SentStays DEF ScanCommit, SettledInv, JobInv, Claimed, TypeOK, ActorsOK, historyVars, txVars
<1>3. ASSUME NEW t \in Triggers, BeginRender(t) PROVE SettledInv'
  BY <1>3 DEF BeginRender, SettledInv, historyVars, txVars, IdleJob
<1>4. ASSUME NEW t \in Triggers, ReplayRender(t) PROVE SettledInv'
  BY <1>4 DEF ReplayRender, SettledInv, historyVars, txVars
<1>5. CASE RenderFails
  BY <1>5 DEF RenderFails, SettledInv, historyVars, txVars, IdleJob
<1>6. CASE CloseRender
  BY <1>6 DEF CloseRender, SettledInv, TypeOK, historyVars, txVars
<1>7. CASE Send
  BY <1>7 DEF Send, SettledInv, TypeOK, ActorsOK, txVars
<1>8. ASSUME NEW f \in Fires, RecordFire(f) PROVE SettledInv'
  BY <1>8, FireRecords DEF SettledInv, RecordInv, TypeOK
<1>9. CASE SaveReminder
  BY <1>9 DEF SaveReminder, SettledInv, TypeOK, ActorsOK
<1>10. CASE RecordCommit
  BY <1>10 DEF RecordCommit, SettledInv, RecordInv, TypeOK, historyVars, IdleJob, FireSeen
<1>11. CASE JobAborts
  BY <1>11 DEF JobAborts, Fault, SettledInv, TypeOK, historyVars, IdleJob
<1>12. CASE EnqueueResend
  <2>1. UNCHANGED <<fire, turn, job, txFire, outcome, faults>>
    BY <1>12 DEF EnqueueResend, txVars, historyVars
  <2>2. job.at # "idle" => group'[job.trigger] = group[job.trigger]
    BY <1>12, FiresAssumption, TimesAndTriggers DEF EnqueueResend, JobInv, TypeOK, ActorsOK
  <2> QED
    BY <2>1, <2>2, SentStays DEF SettledInv
<1> QED
  BY BesideSteps, <1>1, <1>2, <1>3, <1>4, <1>5, <1>6, <1>7, <1>8, <1>9, <1>10, <1>11, <1>12
     DEF Next, SchedulerStep, WorkerStep, EditStep

\* Without a fault no fire of a text that was sent is left to be told again:
\* of two turns with one fire, the failed one does not undo the other's record.
THEOREM SentIsNotUndelivered == Spec => []UndeliveredWasNotSent
<1>1. RecordInv /\ SettledInv => UndeliveredWasNotSent
  BY DEF RecordInv, SettledInv, UndeliveredWasNotSent, NoFireWrites
<1> QED
  BY TypeInit, TypeStep, JobInit, JobStep, RecordInit, RecordStep, SettledInit, SettledStep,
     <1>1, PTL DEF Spec

-----------------------------------------------------------------------------
(* A series nobody edits.                                                  *)

\* The fires as the worker's transaction sees them.
FiresSeen == [f \in Fires |-> FireSeen(f)]

\* A fire of an active series is at its next time, or completed, with the series
\* gone on from there: SeriesInOrder for one row and the fires beside it.
InOrder(r, row, fires) ==
    Kind[r] = "recurring" /\ row.life = "active" =>
       \A d \in Times : fires[<<r, d>>] # "absent" =>
           \/ d = row.next
           \/ /\ fires[<<r, d>>] = "completed"
              /\ \/ d + Interval = row.next
                 \/ /\ d + Interval < row.next /\ d + Interval \in Times
                    /\ fires[<<r, d + Interval>>] # "absent"

\* What the payloads name has been claimed; nothing is written before the send.
ClaimedInv ==
    /\ \A t \in Triggers : \A f \in group[t] : fire[f] # "absent"
    /\ \A f \in Fires : txFire[f] # "absent"
    /\ job.at # "recording" => txRem = NoRemWrites

\* The row a delivery goes on from is the one its transaction sees, and the fire
\* is still to be completed there.
ReadInv ==
    /\ edit = NoEdit
    /\ job.fire # NoFire => job.seen = RemSeen(job.fire[1]) /\ FireSeen(job.fire) # "completed"

\* Both views of series r are in order; if the transaction has moved it on, it
\* has completed the occurrence at which others still see it; and what a scan has
\* read is at the next time, or was claimed before.
SeriesOK(r) ==
    /\ InOrder(r, rem[r], fire)
    /\ InOrder(r, RemSeen(r), FiresSeen)
    /\ Kind[r] = "recurring" /\ txRem[r] # NoRow =>
          /\ txRem[r].life = rem[r].life
          /\ rem[r].life = "active" =>
                rem[r].next \in Times /\ txFire[<<r, rem[r].next>>] = "completed"
    /\ Kind[r] = "recurring" =>
          \A d \in Times : <<r, d>> \in scan.due =>
              rem[r].life = "active" /\ (d = rem[r].next \/ fire[<<r, d>>] # "absent")

OrderInv == edits = 0 => ReadInv /\ \A r \in Reminders : SeriesOK(r)

\* A fire at the next time of the row may come, or be marked.
LEMMA NextFireMarked ==
  ASSUME NEW r, NEW row, NEW fires, NEW after, InOrder(r, row, fires),
         \A d \in Times : \/ after[<<r, d>>] = fires[<<r, d>>]
                          \/ after[<<r, d>>] # "absent" /\ (row.life = "active" => d = row.next)
  PROVE  InOrder(r, row, after)
BY DEF InOrder

\* The fire at the next time is completed and the row goes on from there.
LEMMA NextFireCompleted ==
  ASSUME NEW r, NEW row \in Rows, NEW fires, NEW after, NEW d \in Times,
         InOrder(r, row, fires), fires[<<r, d>>] \notin {"absent", "completed"},
         after[<<r, d>>] = "completed",
         \A e \in Times : e # d => after[<<r, e>>] = fires[<<r, e>>]
  PROVE  /\ InOrder(r, Advanced(r, row, d), after)
         /\ Kind[r] = "recurring" => Advanced(r, row, d).life = row.life
         /\ Kind[r] = "recurring" /\ row.life = "active" => d = row.next
<1> SUFFICES ASSUME Kind[r] = "recurring"
             PROVE  /\ InOrder(r, Advanced(r, row, d), after)
                    /\ Advanced(r, row, d).life = row.life
                    /\ row.life = "active" => d = row.next
  BY DEF InOrder, Advanced, Rows
<1>1. /\ Advanced(r, row, d).life = row.life
      /\ Advanced(r, row, d).next = d + Interval
  BY DEF Advanced, Rows
<1>2. row.life = "active" => d = row.next
  BY DEF InOrder
<1>3. ASSUME row.life = "active", NEW e \in Times, after[<<r, e>>] # "absent"
      PROVE  \/ e = d + Interval
             \/ /\ after[<<r, e>>] = "completed"
                /\ \/ e + Interval = d + Interval
                   \/ /\ e + Interval < d + Interval /\ e + Interval \in Times
                      /\ after[<<r, e + Interval>>] # "absent"
  <2>1. CASE e = d
    BY <2>1
  <2>2. CASE e # d
    <3>1. /\ fires[<<r, e>>] = "completed" /\ after[<<r, e>>] = "completed"
          /\ \/ e + Interval = d
             \/ /\ e + Interval < d /\ e + Interval \in Times
                /\ fires[<<r, e + Interval>>] # "absent"
      BY <1>2, <1>3, <2>2 DEF InOrder
    <3>2. e \in Nat /\ d \in Nat /\ Interval \in Nat \ {0}
      BY FiresAssumption DEF Times
    <3>3. after[<<r, e + Interval>>] # "absent" /\ e + Interval \in Times
      BY <3>1, <3>2
    <3>4. e + Interval < d + Interval
      BY <3>1, <3>2
    <3> QED
      BY <3>1, <3>3, <3>4
  <2> QED
    BY <2>1, <2>2
<1> QED
  BY <1>1, <1>2, <1>3 DEF InOrder

LEMMA OrderInit == Init => ClaimedInv /\ OrderInv
<1> SUFFICES ASSUME Init PROVE ClaimedInv /\ OrderInv
  OBVIOUS
<1>1. /\ \A f \in Fires : fire[f] = "absent" /\ FireSeen(f) = "absent" /\ txFire[f] = "none"
      /\ \A r \in Reminders : txRem[r] = NoRow
      /\ txRem = NoRemWrites /\ edit = NoEdit /\ job.fire = NoFire /\ scan.due = {}
      /\ \A t \in Triggers : group[t] = {}
  BY DEF Init, NoFireWrites, NoRemWrites, FireSeen, IdleJob, IdleScan
<1>2. \A r \in Reminders, d \in Times : <<r, d>> \in Fires
  BY DEF Fires
<1>3. \A r \in Reminders : SeriesOK(r)
  BY <1>1, <1>2 DEF SeriesOK, InOrder, FiresSeen
<1> QED
  BY <1>1, <1>3 DEF OrderInv, ClaimedInv, ReadInv

LEMMA ClaimedStep ==
  TypeInv /\ JobInv /\ RecordInv /\ ClaimedInv /\ [Next]_vars => ClaimedInv'
<1> SUFFICES ASSUME TypeInv, JobInv, RecordInv, ClaimedInv, [Next]_vars PROVE ClaimedInv'
  OBVIOUS
<1> USE DEF TypeInv
<1>1. CASE \/ Tick \/ ScanRead \/ ScanAborts \/ UNCHANGED vars \/ CommitEdit
           \/ \E op \in EditKinds, r \in Reminders, d \in 0 .. MaxTime : BeginEdit(op, r, d)
  <2>1. UNCHANGED Deliveries /\ UNCHANGED txRem
    BY <1>1, BesideSteps DEF Tick, ScanRead, ScanAborts, CommitEdit, BeginEdit, vars, txVars
  <2> QED
    BY <2>1 DEF ClaimedInv, Deliveries
<1>2. CASE ScanCommit
  <2> DEFINE at(d) == {f \in scan.due : f[2] = d}
  <2>1. /\ UNCHANGED <<job, txRem, txFire>> /\ fire' = Claimed
        /\ \A t \in Triggers : group'[t] = group[t] \/ group'[t] = at(t)
    BY <1>2 DEF ScanCommit, txVars
  <2>2. \A f \in Fires : (f \in scan.due \/ fire[f] # "absent") => fire'[f] # "absent"
    BY <2>1 DEF Claimed
  <2>3. \A t \in Triggers : at(t) \subseteq Fires /\ at(t) \subseteq scan.due
    BY DEF TypeOK
  <2>4. \A t \in Triggers : group[t] \subseteq Fires
    BY DEF TypeOK
  <2> QED
    BY <2>1, <2>2, <2>3, <2>4 DEF ClaimedInv
<1>3. ASSUME NEW f \in Fires, RecordFire(f) PROVE ClaimedInv'
  <2>1. UNCHANGED <<fire, group>> /\ job'.at = job.at
    BY <1>3, FireRecords
  <2>2. UNCHANGED txRem
    BY <1>3 DEF RecordFire
  <2>3. \A g \in Fires : txFire'[g] # "absent"
    BY <1>3, FireRecords DEF ClaimedInv, TypeOK
  <2> QED
    BY <2>1, <2>2, <2>3 DEF ClaimedInv
<1>4. CASE SaveReminder
  <2>1. /\ UNCHANGED <<fire, group>> /\ job'.at = "recording"
        /\ txFire' = [txFire EXCEPT ![job.fire] = "completed"]
    BY <1>4 DEF SaveReminder, TypeOK
  <2> QED
    BY <2>1 DEF ClaimedInv, TypeOK
<1>5. CASE RecordCommit
  <2>1. /\ UNCHANGED group /\ txRem' = NoRemWrites /\ txFire' = NoFireWrites
        /\ fire' = [f \in Fires |-> FireSeen(f)]
    BY <1>5 DEF RecordCommit
  <2>2. \A f \in Fires : fire[f] # "absent" => fire'[f] # "absent"
    BY <2>1 DEF FireSeen, ClaimedInv
  <2>3. \A t \in Triggers : group[t] \subseteq Fires
    BY DEF TypeOK
  <2> QED
    BY <2>1, <2>2, <2>3 DEF ClaimedInv, NoFireWrites
<1>6. CASE JobAborts
  BY <1>6 DEF JobAborts, ClaimedInv, NoFireWrites
<1>7. CASE EnqueueResend
  <2>1. /\ UNCHANGED <<fire, job, txRem, txFire>>
        /\ \A t \in Triggers : group'[t] = group[t] \/ group'[t] = Undelivered
    BY <1>7 DEF EnqueueResend, txVars, TypeOK
  <2>2. \A f \in Undelivered : fire[f] # "absent"
    BY DEF Undelivered
  <2> QED
    BY <2>1, <2>2 DEF ClaimedInv
<1>8. CASE \/ RenderFails \/ CloseRender \/ Send
           \/ \E t \in Triggers : BeginRender(t) \/ ReplayRender(t)
  <2>1. UNCHANGED <<fire, group, txFire, txRem>> /\ job.at # "recording"
    <3>1. CASE RenderFails
      BY <3>1 DEF RenderFails, txVars
    <3>2. CASE CloseRender
      BY <3>2 DEF CloseRender, txVars
    <3>3. CASE Send
      BY <3>3 DEF Send, txVars
    <3>4. ASSUME NEW t \in Triggers, BeginRender(t) \/ ReplayRender(t)
          PROVE  UNCHANGED <<fire, group, txFire, txRem>> /\ job.at # "recording"
      BY <3>4 DEF BeginRender, ReplayRender, txVars
    <3> QED
      BY <1>8, <3>1, <3>2, <3>3, <3>4
  <2> QED
    BY <2>1 DEF ClaimedInv
<1> QED
  BY <1>1, <1>2, <1>3, <1>4, <1>5, <1>6, <1>7, <1>8
     DEF Next, SchedulerStep, WorkerStep, EditStep

\* An edit leaves its mark.
LEMMA EditsCounted ==
  ASSUME TypeInv, OrderInv, [Next]_vars, edits' = 0
  PROVE  edits = 0 /\ ~EditStep /\ UNCHANGED edit
<1>1. CASE EditStep
  <2>1. CASE CommitEdit
    BY <2>1 DEF CommitEdit, OrderInv, ReadInv
  <2>2. ASSUME NEW op \in EditKinds, NEW r \in Reminders, NEW d \in 0 .. MaxTime,
               BeginEdit(op, r, d)
        PROVE  FALSE
    BY <2>2 DEF BeginEdit, TypeInv, TypeOK
  <2> QED
    BY <1>1, <2>1, <2>2 DEF EditStep
<1>2. CASE ~EditStep
  <2>1. UNCHANGED <<edits, edit>>
    <3>1. CASE Tick \/ ScanAborts \/ ScanRead \/ UNCHANGED vars
      BY <3>1 DEF Tick, ScanRead, ScanAborts, vars
    <3>2. CASE ScanCommit
      BY <3>2 DEF ScanCommit
    <3>3. CASE EnqueueResend
      BY <3>3 DEF EnqueueResend
    <3>4. CASE RenderFails \/ CloseRender
      BY <3>4 DEF RenderFails, CloseRender
    <3>5. CASE Send
      BY <3>5 DEF Send
    <3>6. CASE SaveReminder
      BY <3>6 DEF SaveReminder
    <3>7. CASE RecordCommit \/ JobAborts
      BY <3>7 DEF RecordCommit, JobAborts
    <3>8. ASSUME NEW t \in Triggers, BeginRender(t) \/ ReplayRender(t) PROVE UNCHANGED <<edits, edit>>
      BY <3>8 DEF BeginRender, ReplayRender
    <3>9. ASSUME NEW f \in Fires, RecordFire(f) PROVE UNCHANGED <<edits, edit>>
      BY <3>9 DEF RecordFire
    <3> QED
      BY <1>2, <3>1, <3>2, <3>3, <3>4, <3>5, <3>6, <3>7, <3>8, <3>9
         DEF Next, SchedulerStep, WorkerStep
  <2> QED
    BY <1>2, <2>1 DEF EditStep
<1> QED
  BY <1>1, <1>2 DEF Next

\* What has been read of a series keeps its order while its rows, the fires and
\* what the transaction has written stay.
LEMMA SeriesUnchanged ==
  ASSUME NEW r \in Reminders, SeriesOK(r), UNCHANGED <<rem, fire, txRem, txFire>>,
         \A d \in Times : <<r, d>> \in scan'.due =>
             <<r, d>> \in scan.due \/ (rem[r].life = "active" /\ d = rem[r].next)
  PROVE  SeriesOK(r)'
BY DEF SeriesOK, InOrder, RemSeen, FiresSeen, FireSeen

LEMMA OrderStep ==
  TypeInv /\ JobInv /\ ClaimedInv /\ OrderInv /\ [Next]_vars => OrderInv'
<1> SUFFICES ASSUME TypeInv, JobInv, ClaimedInv, OrderInv, [Next]_vars, edits' = 0
             PROVE  ReadInv' /\ \A r \in Reminders : SeriesOK(r)'
  BY DEF OrderInv
<1> USE DEF TypeInv
<1>0. /\ edits = 0 /\ ~EditStep /\ UNCHANGED edit /\ edit' = NoEdit
      /\ ReadInv /\ \A r \in Reminders : SeriesOK(r)
  BY EditsCounted DEF OrderInv, ReadInv
<1> DEFINE Goal == ReadInv' /\ \A r \in Reminders : SeriesOK(r)'
<1>1. CASE \/ Tick \/ RenderFails \/ CloseRender \/ Send \/ EnqueueResend \/ UNCHANGED vars
           \/ \E t \in Triggers : BeginRender(t) \/ ReplayRender(t)
           \/ ScanRead \/ ScanAborts
  <2> DEFINE Beside ==
          /\ UNCHANGED <<rem, fire, txRem, txFire>>
          /\ scan' = scan \/ ScanRead \/ scan'.due = {}
          /\ job'.fire = NoFire \/ (job'.fire = job.fire /\ job'.seen = job.seen)
  <2>1. Beside
    <3>1. CASE Tick \/ EnqueueResend \/ UNCHANGED vars
      BY <3>1 DEF Tick, EnqueueResend, vars, txVars
    <3>2. CASE ScanRead \/ ScanAborts
      BY <3>2 DEF ScanRead, ScanAborts, IdleScan, txVars
    <3>3. CASE RenderFails
      BY <3>3 DEF RenderFails, IdleJob, txVars
    <3>4. CASE CloseRender \/ Send
      BY <3>4 DEF CloseRender, Send, txVars, TypeOK
    <3>5. ASSUME NEW t \in Triggers, BeginRender(t) PROVE Beside
      BY <3>5 DEF BeginRender, IdleJob, txVars
    <3>6. ASSUME NEW t \in Triggers, ReplayRender(t) PROVE Beside
      BY <3>6 DEF ReplayRender, txVars
    <3> QED
      BY <1>1, <3>1, <3>2, <3>3, <3>4, <3>5, <3>6
  <2>2. ASSUME NEW r \in Reminders, NEW d \in Times, <<r, d>> \in scan'.due
        PROVE  <<r, d>> \in scan.due \/ (rem[r].life = "active" /\ d = rem[r].next)
    BY <2>2, <2>1 DEF ScanRead, Due
  <2>3. ReadInv'
    BY <1>0, <2>1 DEF ReadInv, RemSeen, FireSeen
  <2> QED
    BY <1>0, <2>2, <2>1, <2>3, SeriesUnchanged
<1>2. CASE ScanCommit
  <2>1. /\ UNCHANGED <<rem, txRem, txFire, job>> /\ fire' = Claimed /\ scan'.due = {}
    BY <1>2 DEF ScanCommit, txVars, IdleScan
  <2>2. ReadInv'
    <3>1. job.fire # NoFire => job.fire \in Fires /\ fire[job.fire] # "absent"
      BY DEF TypeOK, ActorsOK, JobInv, ClaimedInv
    <3> QED
      BY <1>0, <2>1, <3>1 DEF ReadInv, RemSeen, FireSeen, Claimed
  <2>3. ASSUME NEW r \in Reminders PROVE SeriesOK(r)'
    <3>0. SeriesOK(r) /\ \A d \in Times : <<r, d>> \in Fires
      BY <1>0 DEF Fires
    <3>1. CASE Kind[r] # "recurring"
      BY <3>1 DEF SeriesOK, InOrder
    <3>2. CASE Kind[r] = "recurring"
      <4>1. \A d \in Times :
               \/ fire'[<<r, d>>] = fire[<<r, d>>]
               \/ fire'[<<r, d>>] # "absent" /\ rem[r].life = "active" /\ d = rem[r].next
        BY <2>1, <3>0, <3>2 DEF Claimed, SeriesOK
      <4>2. InOrder(r, rem[r], fire')
        BY <3>0, <4>1, NextFireMarked DEF SeriesOK
      <4>3. \A d \in Times :
               \/ FiresSeen'[<<r, d>>] = FiresSeen[<<r, d>>]
               \/ /\ FiresSeen'[<<r, d>>] # "absent" /\ txFire[<<r, d>>] = "none"
                  /\ rem[r].life = "active" /\ d = rem[r].next
        BY <2>1, <3>0, <4>1 DEF FiresSeen, FireSeen
      <4>4. \A d \in Times :
               \/ FiresSeen'[<<r, d>>] = FiresSeen[<<r, d>>]
               \/ FiresSeen'[<<r, d>>] # "absent" /\ d = RemSeen(r).next
        BY <3>0, <3>2, <4>3 DEF SeriesOK, RemSeen
      <4>5. InOrder(r, RemSeen(r), FiresSeen')
        BY <3>0, <4>4, NextFireMarked DEF SeriesOK
      <4>6. RemSeen(r)' = RemSeen(r)
        BY <2>1 DEF RemSeen
      <4> QED
        BY <2>1, <3>0, <3>2, <4>2, <4>5, <4>6 DEF SeriesOK
    <3> QED
      BY <3>1, <3>2
  <2> QED
    BY <2>2, <2>3
<1>3. ASSUME NEW f \in Fires, RecordFire(f) PROVE Goal
  <2>1. /\ UNCHANGED <<rem, fire, scan, txRem>> /\ job.fire = NoFire
        /\ f[1] \in Reminders /\ f[2] \in Times /\ f = <<f[1], f[2]>>
        /\ f \in job.todo /\ job.at # "idle"
    BY <1>3 DEF RecordFire, Fires
  <2>2. CASE FireSeen(f) = "completed" /\ job' = [job EXCEPT !.todo = @ \ {f}] /\ UNCHANGED txFire
    <3>1. ReadInv'
      BY <1>0, <2>1, <2>2 DEF ReadInv, TypeOK
    <3> QED
      BY <1>0, <2>1, <2>2, <3>1, SeriesUnchanged
  <2>3. CASE /\ FireSeen(f) # "completed" /\ UNCHANGED txFire
             /\ job' = [job EXCEPT !.fire = f, !.seen = RemSeen(f[1])]
    <3>1. job'.fire = f /\ job'.seen = RemSeen(f[1])
      BY <2>3 DEF TypeOK
    <3>2. ReadInv'
      BY <1>0, <2>1, <2>3, <3>1 DEF ReadInv, RemSeen, FireSeen
    <3> QED
      BY <1>0, <2>1, <2>3, <3>2, SeriesUnchanged
  <2>4. CASE /\ FireSeen(f) # "completed" /\ job' = [job EXCEPT !.todo = @ \ {f}]
             /\ txFire' = [txFire EXCEPT ![f] = "undelivered"]
    <3>1. ReadInv'
      BY <1>0, <2>1, <2>4 DEF ReadInv, TypeOK
    <3>2. ASSUME NEW r \in Reminders PROVE SeriesOK(r)'
      <4>0. SeriesOK(r) /\ RemSeen(r)' = RemSeen(r) /\ \A d \in Times : <<r, d>> \in Fires
        BY <1>0, <2>1 DEF Fires, RemSeen
      <4>1. \A d \in Times : <<r, d>> # f =>
               txFire'[<<r, d>>] = txFire[<<r, d>>] /\ FiresSeen'[<<r, d>>] = FiresSeen[<<r, d>>]
        BY <2>1, <2>4, <4>0 DEF FiresSeen, FireSeen, TypeOK
      <4>2. fire[f] # "absent" /\ txFire[f] # "absent"
        BY <2>1 DEF ClaimedInv, JobInv, ActorsOK
      <4>3. FiresSeen[f] \notin {"absent", "completed"} /\ FiresSeen'[f] # "absent"
            /\ txFire[f] # "completed"
        BY <2>1, <2>4, <4>2 DEF FiresSeen, FireSeen, TypeOK
      <4>4. CASE Kind[r] = "recurring"
        <5>1. ASSUME NEW d \in Times
              PROVE  \/ FiresSeen'[<<r, d>>] = FiresSeen[<<r, d>>]
                     \/ /\ FiresSeen'[<<r, d>>] # "absent"
                        /\ RemSeen(r).life = "active" => d = RemSeen(r).next
          BY <4>0, <4>1, <4>3, <4>4 DEF SeriesOK, InOrder
        <5>2. InOrder(r, RemSeen(r), FiresSeen')
          BY <4>0, <5>1, NextFireMarked DEF SeriesOK
        <5>3. \A d \in Times : txFire[<<r, d>>] = "completed" => txFire'[<<r, d>>] = "completed"
          BY <4>1, <4>3
        <5> QED
          BY <2>1, <4>0, <4>4, <5>2, <5>3 DEF SeriesOK
      <4>5. CASE Kind[r] # "recurring"
        BY <4>5 DEF SeriesOK, InOrder
      <4> QED
        BY <4>4, <4>5
    <3> QED
      BY <3>1, <3>2
  <2> QED
    BY <1>3, <2>2, <2>3, <2>4 DEF RecordFire
<1>4. CASE SaveReminder
  <2> DEFINE f == job.fire
             d == job.fire[2]
             s == job.fire[1]
             row == RemSeen(s)
  <2>1. /\ f \in Fires /\ f = <<s, d>> /\ s \in Reminders /\ d \in Times
        /\ row \in Rows /\ fire[f] # "absent" /\ FireSeen(f) # "completed" /\ job.seen = row
    BY <1>0, <1>4, SeenTypes
       DEF SaveReminder, TypeOK, ActorsOK, Fires, ReadInv, ClaimedInv, JobInv
  <2>2. /\ txFire' = [txFire EXCEPT ![f] = "completed"]
        /\ txRem' = [txRem EXCEPT ![s] = Advanced(s, row, d)]
        /\ job'.fire = NoFire
        /\ UNCHANGED <<rem, fire, scan>>
    BY <1>4, <2>1 DEF SaveReminder, TypeOK
  <2>3. ReadInv'
    BY <1>0, <2>2 DEF ReadInv
  <2>4. /\ \A g \in Fires \ {f} : txFire'[g] = txFire[g] /\ FiresSeen'[g] = FiresSeen[g]
        /\ txFire'[f] = "completed" /\ FiresSeen'[f] = "completed"
        /\ FiresSeen[f] \notin {"absent", "completed"}
    BY <2>1, <2>2 DEF FiresSeen, FireSeen, TypeOK, ClaimedInv
  <2>5. ASSUME NEW r \in Reminders PROVE SeriesOK(r)'
    <3>0. SeriesOK(r) /\ \A e \in Times : <<r, e>> \in Fires
      BY <1>0 DEF Fires
    <3>1. CASE r # s
      <4>1. txRem'[r] = txRem[r] /\ RemSeen(r)' = RemSeen(r)
        BY <2>1, <2>2, <3>1 DEF TypeOK, RemSeen
      <4>2. \A e \in Times : <<r, e>> # f /\ FiresSeen'[<<r, e>>] = FiresSeen[<<r, e>>]
                             /\ txFire'[<<r, e>>] = txFire[<<r, e>>]
        BY <2>1, <2>4, <3>0, <3>1
      <4>3. InOrder(r, RemSeen(r), FiresSeen')
        BY <3>0, <4>2 DEF SeriesOK, InOrder
      <4> QED
        BY <2>2, <3>0, <4>1, <4>2, <4>3 DEF SeriesOK
    <3>2. CASE r = s /\ Kind[r] = "recurring"
      <4>1. Advanced(s, row, d) \in Rows
        <5>1. d + Interval \in 0 .. (MaxTime + Interval)
          BY <2>1, FiresAssumption DEF Times
        <5> QED
          BY <2>1, <3>2, <5>1, RowsNext DEF Advanced
      <4>2. txRem'[r] = Advanced(s, row, d) /\ txRem'[r] # NoRow /\ RemSeen(r)' = Advanced(s, row, d)
        BY <2>1, <2>2, <3>2, <4>1 DEF TypeOK, RemSeen, Rows, NoRow, Lives
      <4>3. \A e \in Times : e # d => FiresSeen'[<<r, e>>] = FiresSeen[<<r, e>>]
        BY <2>1, <2>4, <3>0
      <4>4. /\ InOrder(r, Advanced(r, row, d), FiresSeen')
            /\ Advanced(r, row, d).life = row.life
            /\ row.life = "active" => d = row.next
        <5>1. InOrder(r, row, FiresSeen)
          BY <3>0, <3>2 DEF SeriesOK
        <5>2. /\ FiresSeen[<<r, d>>] \notin {"absent", "completed"}
              /\ FiresSeen'[<<r, d>>] = "completed"
          BY <2>1, <2>4, <3>2
        <5>3. row \in Rows /\ d \in Times /\ Kind[r] = "recurring"
          BY <2>1, <3>2
        <5> DEFINE before == FiresSeen
                   after == FiresSeen'
        <5> HIDE DEF row, d, before, after
        <5>4. /\ InOrder(r, row, before)
              /\ before[<<r, d>>] \notin {"absent", "completed"} /\ after[<<r, d>>] = "completed"
              /\ \A e \in Times : e # d => after[<<r, e>>] = before[<<r, e>>]
          BY <4>3, <5>1, <5>2 DEF before, after
        <5>5. /\ InOrder(r, Advanced(r, row, d), after)
              /\ Advanced(r, row, d).life = row.life
              /\ row.life = "active" => d = row.next
          BY ONLY <5>3, <5>4, NextFireCompleted
        <5> QED
          BY <5>5 DEF after
      <4>5. /\ txRem'[r].life = rem[r].life
            /\ rem[r].life = "active" =>
                  rem[r].next \in Times /\ txFire'[<<r, rem[r].next>>] = "completed"
        <5>1. row.life = rem[r].life
          BY <3>0, <3>2 DEF SeriesOK, RemSeen
        <5>2. CASE txRem[r] = NoRow
          BY <2>1, <2>4, <3>2, <4>2, <4>4, <5>1, <5>2 DEF RemSeen
        <5>3. CASE txRem[r] # NoRow
          BY <2>1, <2>4, <3>0, <3>2, <4>2, <4>4, <5>1, <5>3 DEF SeriesOK
        <5> QED
          BY <5>2, <5>3
      <4> QED
        BY <2>2, <3>0, <3>2, <4>2, <4>4, <4>5 DEF SeriesOK
    <3>3. CASE Kind[r] # "recurring"
      BY <3>3 DEF SeriesOK, InOrder
    <3> QED
      BY <3>1, <3>2, <3>3
  <2> QED
    BY <2>3, <2>5
<1>5. CASE RecordCommit
  <2>1. /\ rem' = [r \in Reminders |-> RemSeen(r)] /\ fire' = FiresSeen
        /\ txRem' = NoRemWrites /\ txFire' = NoFireWrites
        /\ job'.fire = NoFire /\ UNCHANGED scan
    BY <1>5 DEF RecordCommit, FiresSeen, IdleJob
  <2>2. FiresSeen' = FiresSeen
    <3>1. \A f \in Fires : FireSeen(f)' = FireSeen(f)
      BY <2>1 DEF FireSeen, FiresSeen, NoFireWrites
    <3> QED
      BY <3>1 DEF FiresSeen
  <2>3. ReadInv'
    BY <1>0, <2>1 DEF ReadInv
  <2>4. ASSUME NEW r \in Reminders PROVE SeriesOK(r)'
    <3>1. /\ rem'[r] = RemSeen(r) /\ RemSeen(r)' = RemSeen(r) /\ txRem'[r] = NoRow
          /\ SeriesOK(r)
      BY <1>0, <2>1 DEF RemSeen, NoRemWrites
    <3>2. InOrder(r, rem'[r], fire') /\ InOrder(r, RemSeen(r)', FiresSeen')
      BY <2>1, <2>2, <3>1 DEF SeriesOK
    <3>3. ASSUME Kind[r] = "recurring", NEW d \in Times, <<r, d>> \in scan.due
          PROVE  rem'[r].life = "active" /\ (d = rem'[r].next \/ fire'[<<r, d>>] # "absent")
      <4>1. /\ rem[r].life = "active" /\ RemSeen(r).life = "active"
            /\ d = rem[r].next \/ fire[<<r, d>>] # "absent"
        BY <3>1, <3>3 DEF SeriesOK, RemSeen
      <4>2. <<r, d>> \in Fires /\ fire'[<<r, d>>] = FireSeen(<<r, d>>)
        BY <2>1 DEF Fires, FiresSeen
      <4>3. CASE fire[<<r, d>>] # "absent"
        BY <3>1, <4>1, <4>2, <4>3 DEF FireSeen, ClaimedInv
      <4>4. CASE d = rem[r].next
        BY <3>1, <3>3, <4>1, <4>2, <4>4 DEF SeriesOK, RemSeen, FireSeen
      <4> QED
        BY <4>1, <4>3, <4>4
    <3> QED
      BY <2>1, <3>1, <3>2, <3>3 DEF SeriesOK
  <2> QED
    BY <2>3, <2>4
<1>6. CASE JobAborts
  <2>1. /\ UNCHANGED <<rem, fire, scan>> /\ txRem' = NoRemWrites /\ txFire' = NoFireWrites
        /\ job'.fire = NoFire
    BY <1>6 DEF JobAborts, IdleJob
  <2>2. ReadInv'
    BY <1>0, <2>1 DEF ReadInv
  <2>3. ASSUME NEW r \in Reminders PROVE SeriesOK(r)'
    <3>1. /\ RemSeen(r)' = rem[r] /\ txRem'[r] = NoRow /\ SeriesOK(r)
          /\ \A d \in Times : <<r, d>> \in Fires
      BY <1>0, <2>1 DEF RemSeen, NoRemWrites, Fires
    <3>2. \A d \in Times : FiresSeen'[<<r, d>>] = fire[<<r, d>>]
      BY <2>1, <3>1 DEF FiresSeen, FireSeen, NoFireWrites
    <3>3. InOrder(r, RemSeen(r)', FiresSeen')
      BY <3>1, <3>2 DEF SeriesOK, InOrder
    <3> QED
      BY <2>1, <3>1, <3>3 DEF SeriesOK
  <2> QED
    BY <2>2, <2>3
<1> QED
  BY <1>0, <1>1, <1>2, <1>3, <1>4, <1>5, <1>6 DEF Next, SchedulerStep, WorkerStep

\* Catching up skips nothing: while nobody edits, every occurrence of a series
\* that was claimed is its next one or was delivered before the following one
\* was claimed, whatever sends fail, turns are cut short or resent.
THEOREM NothingSkipped == Spec => []SeriesInOrder
<1>1. OrderInv => SeriesInOrder
  BY DEF OrderInv, SeriesOK, InOrder, SeriesInOrder
<1> QED
  BY TypeInit, TypeStep, JobInit, JobStep, RecordInit, RecordStep, OrderInit, ClaimedStep,
     OrderStep, <1>1, PTL DEF Spec
=============================================================================
