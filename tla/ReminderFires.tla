---------------------------- MODULE ReminderFires ----------------------------
(***************************************************************************)
(* The due reminders of one account: the scheduler process scans them      *)
(* (coke/scheduler/__main__.py), the worker's main thread renders, sends   *)
(* and records them (coke/turn/runner.py, composition.py,                  *)
(* coke/domains/reminder/service.py), and the user edits them meanwhile    *)
(* from the reminder page or an interactive turn whose conversation lock   *)
(* has run out.                                                            *)
(*                                                                         *)
(* A reminder row is read, changed in memory and written back with every   *)
(* column, without a row lock: a read and its write are two steps.         *)
(* WorkStream says why an event whose turn did not finish comes back.      *)
(* Proactive follow-ups have a path of their own and are left out.         *)
(***************************************************************************)
EXTENDS Naturals, FiniteSets

CONSTANTS
    Reminders,
    Kind,        \* "timed", "recurring" or "projection" (of a shared reminder)
    Interval,    \* time from one occurrence to the next
    MaxTime,     \* bound on the clock
    Ops,         \* kinds of edits that happen, see EditKinds
    MaxEdits,    \* bound on their number
    MaxResends,  \* bound on the resend turns
    MaxLoad,     \* bound on edits and resend turns together
    Faults,      \* "abort" and "render", the faults that happen
    MaxFaults    \* bound on their number

EditKinds == {"create", "reschedule", "clear", "update", "complete", "delete"}

ASSUME FiresAssumption ==
    /\ Kind \in [Reminders -> {"timed", "recurring", "projection"}]
    /\ Interval \in Nat \ {0}
    /\ MaxTime \in Nat
    /\ Ops \subseteq EditKinds
    /\ MaxEdits \in Nat
    /\ MaxResends \in Nat
    /\ MaxLoad \in Nat
    /\ Faults \subseteq {"abort", "render"}
    /\ MaxFaults \in Nat

Times == 1 .. MaxTime
Fires == Reminders \X Times

\* Trigger d is "reminder_fire:<owner>:<d>"; the ones behind MaxTime are the
\* "undelivered_resend:<owner>:<inbound event>" of a user message each.
Resends == (MaxTime + 1) .. (MaxTime + MaxResends)
Triggers == Times \cup Resends

VARIABLES
    clock,     \* the time
    rem,       \* reminder row: lifecycle and next_fire_at (0 is NULL)
    fire,      \* reminder_fire row: fire_state and delivery_result in one
    event,     \* outbox row and stream event of each trigger
    group,     \* the fire_ids of its payload
    turn,      \* disposition of its render turn, "none" without a row
    scan,      \* [busy, due]: what the running scan has read
    job,       \* what the worker's main thread is at
    txRem,     \* reminder rows its open transaction has written
    txFire,    \* fire rows its open transaction has written
    edit,      \* an edit that has read its reminder
    outcome,   \* history: how the send of each trigger ended
    sends,     \* history: how often a text was sent for it
    mixed,     \* history: reminders with a write over a row changed since its
               \* read, with the delivery of a fire that an edit had overtaken,
               \* or with an edit back to a time that has a fire
    edits, resends, faults   \* how many so far

txVars == <<txRem, txFire>>
historyVars == <<outcome, sends, mixed>>
vars == <<clock, rem, fire, event, group, turn, scan, job, txRem, txFire, edit,
          historyVars, edits, resends, faults>>

\* fired is lifecycle "completed" set by complete_after_fire.
Lives == {"absent", "active", "completed", "fired", "deleted"}
Rows == [life : Lives, next : 0 .. (MaxTime + Interval)]
NoRow == [life |-> "none", next |-> 0]

\* claimed: no delivery_result; undelivered: claimed with that result;
\* completed: fire_state completed, which only a delivery brings about.
FireStates == {"absent", "claimed", "undelivered", "completed"}

\* rendering: the turn row is inserted and the lock held; closed: the reply is
\* committed; recording: the send has ended.
JobStates == {"idle", "rendering", "closed", "recording"}

NoFire == <<>>
NoReminder == 0
IdleScan == [busy |-> FALSE, due |-> {}]
IdleJob == [at |-> "idle", trigger |-> 0, todo |-> {}, fire |-> NoFire, seen |-> NoRow]
NoEdit == [op |-> "none", reminder |-> NoReminder, seen |-> NoRow, time |-> 0]
NoRemWrites == [r \in Reminders |-> NoRow]
NoFireWrites == [f \in Fires |-> "none"]

\* sends is counted up to here: once, or more often.
SendCap == 2

\* Reminders are created in time, at different times unless shared.
Init ==
    /\ clock = 0
    /\ rem \in [Reminders -> Rows]
    /\ \A r \in Reminders :
          \/ "create" \in Ops /\ rem[r] = [life |-> "absent", next |-> 0]
          \/ rem[r].life = "active" /\ rem[r].next \in Times
    /\ \A r, s \in Reminders :
          r # s /\ rem[r].next = rem[s].next /\ rem[r].next # 0
              => "projection" \in {Kind[r], Kind[s]}
    /\ fire = [f \in Fires |-> "absent"]
    /\ event = [t \in Triggers |-> "absent"]
    /\ group = [t \in Triggers |-> {}]
    /\ turn = [t \in Triggers |-> "none"]
    /\ scan = IdleScan
    /\ job = IdleJob
    /\ txRem = NoRemWrites
    /\ txFire = NoFireWrites
    /\ edit = NoEdit
    /\ outcome = [t \in Triggers |-> "none"]
    /\ sends = [t \in Triggers |-> 0]
    /\ mixed = {}
    /\ edits = 0
    /\ resends = 0
    /\ faults = 0

Due(r) == rem[r].life = "active" /\ rem[r].next \in 1 .. clock

\* What a statement of the worker's own transaction sees.
RemSeen(r) == IF txRem[r] = NoRow THEN rem[r] ELSE txRem[r]
FireSeen(f) == IF txFire[f] = "none" THEN fire[f] ELSE txFire[f]

Fault(kind) ==
    /\ kind \in Faults
    /\ faults < MaxFaults
    /\ faults' = faults + 1

-----------------------------------------------------------------------------
Tick ==
    /\ clock < MaxTime
    /\ clock' = clock + 1
    /\ UNCHANGED <<rem, fire, event, group, turn, scan, job, txVars, edit,
                   historyVars, edits, resends, faults>>

-----------------------------------------------------------------------------
(* The scheduler.                                                          *)

\* list_due_reminders.
ScanRead ==
    /\ ~scan.busy
    /\ \E r \in Reminders : Due(r)
    /\ scan' = [busy |-> TRUE, due |-> {<<r, rem[r].next>> : r \in {s \in Reminders : Due(s)}}]
    /\ UNCHANGED <<clock, rem, fire, event, group, turn, job, txVars, edit,
                   historyVars, edits, resends, faults>>

\* claim_due_fire for each of them: a fire that exists is returned as it is.
Claimed == [f \in Fires |->
              IF f \in scan.due /\ fire[f] = "absent" THEN "claimed" ELSE fire[f]]

\* Mutant of ScanCommit: every group gets a new outbox row.
ScanCommitAgain ==
    LET at(d) == {f \in scan.due : f[2] = d}
        new == {d \in Times : at(d) # {} /\ event[d] # "queued"}
    IN  /\ scan.busy
        /\ fire' = Claimed
        /\ event' = [t \in Triggers |-> IF t \in new THEN "queued" ELSE event[t]]
        /\ group' = [t \in Triggers |-> IF t \in new THEN at(t) ELSE group[t]]
        /\ turn' = [t \in Triggers |-> IF t \in new THEN "none" ELSE turn[t]]
        /\ scan' = IdleScan
        /\ UNCHANGED <<clock, rem, job, txVars, edit, historyVars, edits, resends,
                       faults>>

\* The fires are claimed; an outbox row for each due time that has none yet;
\* commit.
ScanCommit ==
    LET at(d) == {f \in scan.due : f[2] = d}
        new == {d \in Times : at(d) # {} /\ event[d] = "absent"}
    IN  /\ scan.busy
        /\ fire' = Claimed
        /\ event' = [t \in Triggers |-> IF t \in new THEN "queued" ELSE event[t]]
        /\ group' = [t \in Triggers |-> IF t \in new THEN at(t) ELSE group[t]]
        /\ scan' = IdleScan
        /\ UNCHANGED <<clock, rem, turn, job, txVars, edit, historyVars, edits,
                       resends, faults>>

\* The scan raises or its process dies: rollback, the next one starts over.
ScanAborts ==
    /\ scan.busy
    /\ Fault("abort")
    /\ scan' = IdleScan
    /\ UNCHANGED <<clock, rem, fire, event, group, turn, job, txVars, edit,
                   historyVars, edits, resends>>

-----------------------------------------------------------------------------
(* The worker's main thread: run_render_turn of one event at a time.       *)

\* Mutant of BeginRender: a disposition that is there is not replayed.
BeginRenderAgain(t) ==
    /\ job.at = "idle"
    /\ event[t] = "queued"
    /\ job' = [IdleJob EXCEPT !.at = "rendering", !.trigger = t, !.todo = group[t]]
    /\ UNCHANGED <<clock, rem, fire, event, group, turn, scan, txVars, edit,
                   historyVars, edits, resends, faults>>

\* start_turn, then the conversation lock.
BeginRender(t) ==
    /\ job.at = "idle"
    /\ event[t] = "queued"
    /\ turn[t] = "none"
    /\ job' = [IdleJob EXCEPT !.at = "rendering", !.trigger = t, !.todo = group[t]]
    /\ UNCHANGED <<clock, rem, fire, event, group, turn, scan, txVars, edit,
                   historyVars, edits, resends, faults>>

\* start_turn finds the turn of an event that comes back: its disposition is
\* replayed, nothing is sent or recorded, the event is acknowledged.
ReplayRender(t) ==
    /\ job.at = "idle"
    /\ event[t] = "queued"
    /\ turn[t] # "none"
    /\ event' = [event EXCEPT ![t] = "acked"]
    /\ UNCHANGED <<clock, rem, fire, group, turn, scan, job, txVars, edit,
                   historyVars, edits, resends, faults>>

\* The lock is not free within lock_wait_timeout_s, or the text cannot be
\* rendered: mark_failed; record_render_failure only knows notifications.
RenderFails ==
    /\ job.at = "rendering"
    /\ Fault("render")
    /\ turn' = [turn EXCEPT ![job.trigger] = "failed"]
    /\ event' = [event EXCEPT ![job.trigger] = "acked"]
    /\ job' = IdleJob
    /\ UNCHANGED <<clock, rem, fire, group, scan, txVars, edit, historyVars,
                   edits, resends>>

\* commit_reply and the commit of the close boundary.
CloseRender ==
    /\ job.at = "rendering"
    /\ turn' = [turn EXCEPT ![job.trigger] = "replied"]
    /\ job' = [job EXCEPT !.at = "closed"]
    /\ UNCHANGED <<clock, rem, fire, event, group, scan, txVars, edit,
                   historyVars, edits, resends, faults>>

\* The text is sent, or there is no usable channel, or the provider refuses.
Send ==
    /\ job.at = "closed"
    /\ \E result \in {"sent", "failed"} :
          outcome' = [outcome EXCEPT ![job.trigger] = result]
    /\ sends' = [sends EXCEPT ![job.trigger] = IF @ < SendCap THEN @ + 1 ELSE @]
    /\ job' = [job EXCEPT !.at = "recording"]
    /\ UNCHANGED <<clock, rem, fire, event, group, turn, scan, txVars, edit,
                   mixed, edits, resends, faults>>

\* Mutant of RecordFire: the outcome of the send is not looked at.
RecordFireAsDelivered(f) ==
    /\ job.at = "recording"
    /\ job.fire = NoFire
    /\ f \in job.todo
    /\ \/ /\ FireSeen(f) = "completed"
          /\ job' = [job EXCEPT !.todo = @ \ {f}]
          /\ UNCHANGED txFire
       \/ /\ FireSeen(f) # "completed"
          /\ job' = [job EXCEPT !.fire = f, !.seen = RemSeen(f[1])]
          /\ UNCHANGED txFire
    /\ UNCHANGED <<clock, rem, fire, event, group, turn, scan, txRem, edit,
                   historyVars, edits, resends, faults>>

\* Mutant of RecordFire: a completed fire is recorded like any other.
RecordFireAgain(f) ==
    /\ job.at = "recording"
    /\ job.fire = NoFire
    /\ f \in job.todo
    /\ IF outcome[job.trigger] = "sent"
          THEN /\ job' = [job EXCEPT !.fire = f, !.seen = RemSeen(f[1])]
               /\ UNCHANGED txFire
          ELSE /\ job' = [job EXCEPT !.todo = @ \ {f}]
               /\ txFire' = [txFire EXCEPT ![f] = "undelivered"]
    /\ UNCHANGED <<clock, rem, fire, event, group, turn, scan, txRem, edit,
                   historyVars, edits, resends, faults>>

\* Mutant of RecordFire: a failed send leaves no trace.
RecordFireIfDelivered(f) ==
    /\ job.at = "recording"
    /\ job.fire = NoFire
    /\ f \in job.todo
    /\ IF FireSeen(f) = "completed" \/ outcome[job.trigger] = "failed"
          THEN job' = [job EXCEPT !.todo = @ \ {f}]
          ELSE job' = [job EXCEPT !.fire = f, !.seen = RemSeen(f[1])]
    /\ UNCHANGED <<clock, rem, fire, event, group, turn, scan, txVars, edit,
                   historyVars, edits, resends, faults>>

\* record_fire_delivery of one fire.  A completed one stays as it is; a failed
\* send marks it undelivered; after a delivery complete_fire reads the reminder.
RecordFire(f) ==
    /\ job.at = "recording"
    /\ job.fire = NoFire
    /\ f \in job.todo
    /\ \/ /\ FireSeen(f) = "completed"
          /\ job' = [job EXCEPT !.todo = @ \ {f}]
          /\ UNCHANGED txFire
       \/ /\ FireSeen(f) # "completed"
          /\ outcome[job.trigger] = "failed"
          /\ job' = [job EXCEPT !.todo = @ \ {f}]
          /\ txFire' = [txFire EXCEPT ![f] = "undelivered"]
       \/ /\ FireSeen(f) # "completed"
          /\ outcome[job.trigger] = "sent"
          /\ job' = [job EXCEPT !.fire = f, !.seen = RemSeen(f[1])]
          /\ UNCHANGED txFire
    /\ UNCHANGED <<clock, rem, fire, event, group, turn, scan, txRem, edit,
                   historyVars, edits, resends, faults>>

\* Mutant of Advanced: the series goes on from what the row says.
AdvancedFromRow(r, row, due) ==
    IF Kind[r] = "recurring" THEN [row EXCEPT !.next = @ + Interval]
                             ELSE [row EXCEPT !.life = "fired"]

\* Mutant of Advanced: occurrences missed meanwhile are skipped.
AdvancedPastNow(r, row, due) ==
    IF Kind[r] = "recurring" THEN [row EXCEPT !.next = clock + Interval]
                             ELSE [row EXCEPT !.life = "fired"]

\* _advance_or_complete_after_occurrence: the series goes on from the due time
\* of the fire, any other reminder is over.  What the row says is kept.
Advanced(r, row, due) ==
    IF Kind[r] = "recurring" THEN [row EXCEPT !.next = due + Interval]
                             ELSE [row EXCEPT !.life = "fired"]

\* The fire is completed and the reminder row written as it was read.
SaveReminder ==
    LET f == job.fire
        r == f[1]
    IN  /\ job.at = "recording"
        /\ f # NoFire
        /\ txFire' = [txFire EXCEPT ![f] = "completed"]
        /\ txRem' = [txRem EXCEPT ![r] = Advanced(r, job.seen, f[2])]
        /\ mixed' = IF job.seen = RemSeen(r) /\ job.seen.next = f[2]
                       THEN mixed ELSE mixed \cup {r}
        /\ job' = [job EXCEPT !.todo = @ \ {f}, !.fire = NoFire, !.seen = NoRow]
        /\ UNCHANGED <<clock, rem, fire, event, group, turn, scan, edit, outcome,
                       sends, edits, resends, faults>>

\* The commit of _handle_event, then the acknowledgement.
RecordCommit ==
    /\ job.at = "recording"
    /\ job.todo = {}
    /\ rem' = [r \in Reminders |-> RemSeen(r)]
    /\ fire' = [f \in Fires |-> FireSeen(f)]
    /\ txRem' = NoRemWrites
    /\ txFire' = NoFireWrites
    /\ event' = [event EXCEPT ![job.trigger] = "acked"]
    /\ job' = IdleJob
    /\ UNCHANGED <<clock, group, turn, scan, edit, historyVars, edits, resends,
                   faults>>

\* The worker dies or an exception reaches its loop (the next occurrence of a
\* monthly rule on the 31st raises one): the transaction is rolled back and the
\* event stays in the stream.
JobAborts ==
    /\ job.at # "idle"
    /\ Fault("abort")
    /\ job' = IdleJob
    /\ txRem' = NoRemWrites
    /\ txFire' = NoFireWrites
    /\ UNCHANGED <<clock, rem, fire, event, group, turn, scan, edit, historyVars,
                   edits, resends>>

-----------------------------------------------------------------------------
\* undelivered_resend_turn.
Undelivered == {f \in Fires : rem[f[1]].life = "active" /\ fire[f] = "undelivered"}

\* record_inbound_reply_completed: the user has been reached again, what is
\* undelivered is queued for another turn.
EnqueueResend ==
    LET t == MaxTime + resends + 1
    IN  /\ resends < MaxResends
        /\ edits + resends < MaxLoad
        /\ Undelivered # {}
        /\ resends' = resends + 1
        /\ event' = [event EXCEPT ![t] = "queued"]
        /\ group' = [group EXCEPT ![t] = Undelivered]
        /\ UNCHANGED <<clock, rem, fire, turn, scan, job, txVars, edit, historyVars,
                       edits, faults>>

-----------------------------------------------------------------------------
(* The user.                                                               *)

\* check_time_conflict: no other active reminder starts at that time.  Shared
\* reminders are created without asking about the creator's own.
NoConflict(r, d) ==
    \A s \in Reminders \ {r} :
        rem[s].life = "active" /\ rem[s].next # 0 => rem[s].next # d

\* An operation reads the reminder, validates the new time and goes on.  A new
\* time through update_reminder is a reschedule here, update is the rest of it.
BeginEdit(op, r, d) ==
    /\ edit = NoEdit
    /\ edits < MaxEdits
    /\ edits + resends < MaxLoad
    /\ edits' = edits + 1
    /\ op \in Ops
    /\ \/ op = "create" /\ rem[r].life = "absent"
       \/ op # "create" /\ rem[r].life = "active"
    /\ op \in {"clear", "complete"} => Kind[r] # "recurring"
    /\ op = "update" => NoConflict(r, rem[r].next)
    /\ IF op \in {"create", "reschedule"}
          THEN /\ d >= clock
               /\ d \in Times
               /\ \/ NoConflict(r, d)
                  \/ op = "create" /\ Kind[r] = "projection"
          ELSE d = 0
    /\ edit' = [op |-> op, reminder |-> r, seen |-> rem[r], time |-> d]
    /\ UNCHANGED <<clock, rem, fire, event, group, turn, scan, job, txVars,
                   historyVars, resends, faults>>

\* The row an operation writes, from the row it has read.
Edited(op, row, d) ==
    CASE op = "create"     -> [life |-> "active", next |-> d]
      [] op = "reschedule" -> [row EXCEPT !.next = d]
      [] op = "clear"      -> [row EXCEPT !.next = 0]
      [] op = "update"     -> row
      [] op = "complete"   -> [row EXCEPT !.life = "completed"]
      [] op = "delete"     -> [row EXCEPT !.life = "deleted"]

\* It writes the whole row and commits; it waits for a row the worker's open
\* transaction has written.
CommitEdit ==
    LET r == edit.reminder
    IN  /\ edit # NoEdit
        /\ txRem[r] = NoRow
        /\ rem' = [rem EXCEPT ![r] = Edited(edit.op, edit.seen, edit.time)]
        /\ mixed' = IF /\ edit.seen = rem[r]
                       /\ edit.time # 0 => fire[<<r, edit.time>>] = "absent"
                       THEN mixed ELSE mixed \cup {r}
        /\ edit' = NoEdit
        /\ UNCHANGED <<clock, fire, event, group, turn, scan, job, txVars, outcome,
                       sends, edits, resends, faults>>

-----------------------------------------------------------------------------
SchedulerStep == ScanRead \/ ScanCommit

WorkerStep ==
    \/ \E t \in Triggers : BeginRender(t) \/ ReplayRender(t)
    \/ CloseRender \/ Send \/ SaveReminder \/ RecordCommit
    \/ \E f \in Fires : RecordFire(f)

EditStep ==
    \/ \E op \in EditKinds, r \in Reminders, d \in 0 .. MaxTime : BeginEdit(op, r, d)
    \/ CommitEdit

Next ==
    \/ Tick
    \/ SchedulerStep \/ ScanAborts
    \/ WorkerStep \/ RenderFails \/ JobAborts
    \/ EnqueueResend
    \/ EditStep

Spec == Init /\ [][Next]_vars

\* The scheduler scans at an interval and commits; the worker's loop goes on.
Fairness ==
    /\ WF_vars(SchedulerStep)
    /\ WF_vars(WorkerStep)
    /\ \A t \in Triggers : SF_vars(BeginRender(t) \/ ReplayRender(t))
    /\ WF_vars(CommitEdit)

FairSpec == Spec /\ Fairness

-----------------------------------------------------------------------------
(* Properties.                                                             *)

TypeOK ==
    /\ clock \in 0 .. MaxTime
    /\ rem \in [Reminders -> Rows]
    /\ fire \in [Fires -> FireStates]
    /\ event \in [Triggers -> {"absent", "queued", "acked"}]
    /\ group \in [Triggers -> SUBSET Fires]
    /\ turn \in [Triggers -> {"none", "replied", "failed"}]
    /\ scan \in [busy : BOOLEAN, due : SUBSET Fires]
    /\ job \in [at : JobStates, trigger : Triggers \cup {0}, todo : SUBSET Fires,
                fire : Fires \cup {NoFire}, seen : Rows \cup {NoRow}]
    /\ txRem \in [Reminders -> Rows \cup {NoRow}]
    /\ txFire \in [Fires -> FireStates \cup {"none"}]
    /\ edit \in [op : EditKinds \cup {"none"}, reminder : Reminders \cup {NoReminder},
                 seen : Rows \cup {NoRow}, time : 0 .. MaxTime]
    /\ outcome \in [Triggers -> {"none", "sent", "failed"}]
    /\ sends \in [Triggers -> 0 .. SendCap]
    /\ edits \in 0 .. MaxEdits
    /\ resends \in 0 .. MaxResends
    /\ faults \in 0 .. MaxFaults

\* A fire is only recorded as delivered when a text with it was accepted by the
\* channel, whatever scans, resends, edits and aborted turns there were.
CompletedWasSent ==
    \A f \in Fires : fire[f] = "completed" =>
        \E t \in Triggers : f \in group[t] /\ outcome[t] = "sent"

\* The text of a trigger leaves at most once, although its event comes back
\* after a crash and every scan finds the reminders due again.
SentOnce == \A t \in Triggers : sends[t] <= 1

\* A fire is only left as undelivered, to be told again, when no text with it
\* was accepted: of two turns with the same fire the one that failed does not
\* undo what the other one recorded.  A crash after a send is the exception.
UndeliveredWasNotSent ==
    faults = 0 =>
        \A f \in Fires, t \in Triggers :
            fire[f] = "undelivered" /\ f \in group[t] /\ outcome[t] = "sent" =>
                job.at = "recording" /\ job.trigger = t

\* Catching up skips nothing: a recurring reminder nobody edits moves on by one
\* occurrence at a time, each of them delivered before the next is claimed.
SeriesInOrder ==
    edits = 0 =>
        \A r \in Reminders, d \in Times :
            /\ Kind[r] = "recurring"
            /\ rem[r].life = "active"
            /\ fire[<<r, d>>] # "absent"
            => \/ d = rem[r].next
               \/ /\ fire[<<r, d>>] = "completed"
                  /\ \/ d + Interval = rem[r].next
                     \/ d + Interval < rem[r].next /\ fire[<<r, d + Interval>>] # "absent"

\* What has become of a due time: it was delivered, and the reminder is over or
\* on its way to the next occurrence; or it is visibly undelivered; or the user
\* ended the reminder or gave it another time.
Dealt(r, d) ==
    \/ fire[<<r, d>>] = "undelivered"
    \/ rem[r].life # "active"
    \/ rem[r].next # d

\* A due reminder is dropped in these cases only: a crash or a failed rendering,
\* an edit that crossed the delivery of an occurrence (see mixed), or an outbox
\* row of its due time that was made before it came to that time.
DroppedOnlyIf ==
    \A r \in Reminders, d \in Times :
        rem[r].life = "active" /\ rem[r].next = d /\ d <= clock ~>
            \/ Dealt(r, d)
            \/ faults > 0
            \/ r \in mixed
            \/ event[d] # "absent" /\ <<r, d>> \notin group[d]

\* What the repository says of the program and the code does not keep.

\* docs/product-requirements/current.md:907: after downtime the system catches
\* up a missed trigger "rather than silently dropping it".
NothingDropped ==
    \A r \in Reminders, d \in Times :
        rem[r].life = "active" /\ rem[r].next = d /\ d <= clock ~> Dealt(r, d)

\* docs/product-requirements/current.md:702: "Completion means completing this
\* occurrence; deletion means deleting the entire series."
DeletedSeriesStaysDeleted ==
    [][\A r \in Reminders : Kind[r] = "recurring" /\ rem[r].life = "deleted" =>
          rem'[r].life = "deleted"]_vars

=============================================================================
