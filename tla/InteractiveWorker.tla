-------------------------- MODULE InteractiveWorker --------------------------
(***************************************************************************)
(* Who works on the open messages of one conversation: the worker process  *)
(* (coke/worker/__main__.py) and its InteractiveTurnSupervisor             *)
(* (coke/worker/interactive_supervisor.py).                                *)
(*                                                                         *)
(* The worker's main thread takes one event after the other and drains the *)
(* supervisor after each; a turn runs as an asyncio task of the supervisor *)
(* thread.  What is accepted lives in memory only: the event is            *)
(* acknowledged once its trigger is submitted.  Meanwhile the relay marks  *)
(* turns that take long pending_async_reply, a disposition that a retry    *)
(* replays like a final one.  ConversationRuntime has the transactions of  *)
(* a turn in detail; here a claim is a read and a write, a close and a     *)
(* mark are one step each.                                                 *)
(***************************************************************************)
EXTENDS Naturals, Sequences

CONSTANTS
    MaxSeq,          \* bound on the inbound messages
    MaxCrashes,      \* bound on the crashes of the worker process
    MaxFailures,     \* bound on the exceptions that end a turn task
    MaxRedeliveries, \* bound on the events acknowledged only the second time
    MaxTimeouts,     \* bound on the waits for the conversation lock that fail
    MaxLoad          \* bound on the messages and all of these together

ASSUME WorkerAssumption ==
    /\ MaxSeq \in Nat \ {0}
    /\ MaxCrashes \in Nat
    /\ MaxFailures \in Nat
    /\ MaxRedeliveries \in Nat
    /\ MaxTimeouts \in Nat
    /\ MaxLoad \in Nat

\* SUPERVISED_TURN_FAILURE_RETRY_LIMIT
RetryLimit == 1

\* Trigger s is "inbound:..." of message s; the others are the "recover:..."
\* triggers, a new one for each restart.
InboundTriggers == 1 .. MaxSeq
Triggers == 1 .. (MaxSeq + MaxCrashes)
NoTrigger == 0

VARIABLES
    latest,      \* conversation.latest_inbound_seq
    lastClosed,  \* conversation.last_closed_inbound_seq
    event,       \* the turn.inbound event of each message: absent, ready, acked
    turn,        \* [disp, from, to] of the turn row of each trigger, and
                 \* history: the process (era) whose task claimed it
    active,      \* supervisor._active: [trigger, retry, at] of its task
    pending,     \* supervisor._pending: a trigger, or NoTrigger
    failures,    \* supervisor._failures: [trigger, retry] of failed tasks
    completed,   \* supervisor._completed holds a result
    phase,       \* where the main thread is
    lock,        \* Redis conversation lock: free, turn, render or stale
    crashes, failed, redelivered, timeouts    \* how many of each so far

dbVars == <<latest, lastClosed, turn>>
supervisorVars == <<active, pending, failures, completed>>
faultVars == <<crashes, failed, redelivered, timeouts>>
interactiveVars == <<latest, lastClosed, event, turn, active, pending, failures, completed,
                     phase, lock, crashes, failed, redelivered, timeouts>>

\* none: nothing submitted; starting: task created; claiming: conversation
\* read; waiting: turn row committed, polling the lock; running: lock held;
\* delivering: close_committed is set and the reply, or the waiting text of
\* an agent that timed out, is being sent; done, failed: the task has ended.
TaskStates == {"none", "starting", "claiming", "waiting", "running",
               "delivering", "done", "failed"}
Cancellable == {"starting", "claiming", "waiting", "running"}
Phases == {"polling", "rendering", "draining", "retrying", "down"}

NoTurn == [trigger |-> NoTrigger, retry |-> 0, at |-> "none"]
Started(t, retry) == [trigger |-> t, retry |-> retry, at |-> "starting"]
NoRow == [disp |-> "absent", from |-> 0, to |-> 0, era |-> 0]

\* active_interactive_turns: no disposition, or only the waiting one.
Live == {"active", "pending"}

WorkerInit ==
    /\ latest = 0
    /\ lastClosed = 0
    /\ event = [s \in InboundTriggers |-> "absent"]
    /\ turn = [t \in Triggers |-> NoRow]
    /\ active = NoTurn
    /\ pending = NoTrigger
    /\ failures = <<>>
    /\ completed = FALSE
    /\ phase = "polling"
    /\ lock = "free"
    /\ crashes = 0
    /\ failed = 0
    /\ redelivered = 0
    /\ timeouts = 0

RoomForMore == latest + crashes + failed + redelivered + timeouts < MaxLoad

TaskEnded == active.at \in {"done", "failed"}

\* The failure list once an ended task is collected.
CollectedFailures ==
    IF active.at = "failed"
       THEN Append(failures, [trigger |-> active.trigger, retry |-> active.retry])
       ELSE failures

\* The lock once the task gives it back (finally: lock.release()).
Unlocked == IF active.at \in {"running", "delivering"} /\ lock = "turn"
               THEN "free" ELSE lock

GotoTask(state) == active' = [active EXCEPT !.at = state]

\* The row of the task's turn gets its disposition unless it has a final one.
Settled(disp) ==
    IF active.trigger # NoTrigger /\ turn[active.trigger].disp \in Live
       THEN [turn EXCEPT ![active.trigger].disp = disp] ELSE turn

\* mark_superseded after a cancellation: the waiting one is left alone too.
Interrupted ==
    IF active.at \in Cancellable /\ turn[active.trigger].disp = "active"
       THEN [turn EXCEPT ![active.trigger].disp = "superseded"] ELSE turn

-----------------------------------------------------------------------------
\* The webhook: record_inbound supersedes the active turns of the conversation.
RecordInbound ==
    /\ latest < MaxSeq
    /\ RoomForMore
    /\ latest' = latest + 1
    /\ event' = [event EXCEPT ![latest + 1] = "ready"]
    /\ turn' = [t \in Triggers |-> IF turn[t].disp \in Live
                   THEN [turn[t] EXCEPT !.disp = "superseded"] ELSE turn[t]]
    /\ UNCHANGED <<lastClosed, supervisorVars, phase, lock, faultVars>>

-----------------------------------------------------------------------------
(* The main thread.                                                        *)

\* Mutant of Covered: a turn that starts early enough covers the message.
CoveredFromBelow(s) ==
    \E t \in Triggers : turn[t].disp \in Live /\ turn[t].from <= s

\* _interactive_trigger_already_covered_by_active_window: some active turn
\* row reaches from the message to latest_inbound_seq of the event.
Covered(s) ==
    \E t \in Triggers : turn[t].disp \in Live /\ s \in turn[t].from .. turn[t].to

\* Mutant of Submit: close_committed is not looked at.
SubmitAlways(t, retry) ==
    /\ active' = Started(t, retry)
    /\ pending' = NoTrigger
    /\ failures' = CollectedFailures
    /\ completed' = (completed \/ active.at = "done")
    /\ turn' = Interrupted
    /\ lock' = Unlocked

\* supervisor.submit: behind a committed close the trigger waits in the one
\* pending slot.  Any other task that runs is cancelled, rolled back and
\* marked superseded before the new task takes its first step.  An ended task
\* is collected, which starts the pending trigger only to cancel it.
Submit(t, retry) ==
    IF active.at = "delivering"
       THEN /\ pending' = t
            /\ UNCHANGED <<active, failures, completed, turn, lock>>
       ELSE /\ active' = Started(t, retry)
            /\ pending' = NoTrigger
            /\ failures' = CollectedFailures
            /\ completed' = (completed \/ active.at = "done")
            /\ turn' = Interrupted
            /\ lock' = Unlocked

\* _handle_event of a turn.inbound event, then the acknowledgement.
HandleEvent(s) ==
    /\ phase = "polling"
    /\ event[s] = "ready"
    /\ IF Covered(s)
          THEN UNCHANGED <<supervisorVars, turn, lock>>
          ELSE Submit(s, 0)
    /\ \/ /\ event' = [event EXCEPT ![s] = "acked"]
          /\ phase' = "draining"
          /\ UNCHANGED redelivered
       \* ack_callback or XACK raises: nothing is drained, the event comes back
       \/ /\ redelivered < MaxRedeliveries
          /\ RoomForMore
          /\ redelivered' = redelivered + 1
          /\ UNCHANGED <<event, phase>>
    /\ UNCHANGED <<latest, lastClosed, crashes, failed, timeouts>>

\* Neither reclaim nor poll returned an event.
PollNothing ==
    /\ phase = "polling"
    /\ phase' = "draining"
    /\ UNCHANGED <<dbVars, event, supervisorVars, lock, faultVars>>

\* A render turn (a reminder fire, a notification) runs in the main thread and
\* holds the conversation lock while its text is written.
BeginRender ==
    /\ phase = "polling"
    /\ lock = "free"
    /\ lock' = "render"
    /\ phase' = "rendering"
    /\ UNCHANGED <<dbVars, event, supervisorVars, faultVars>>

EndRender ==
    /\ phase = "rendering"
    /\ lock' = IF lock = "render" THEN "free" ELSE lock
    /\ phase' = "draining"
    /\ UNCHANGED <<dbVars, event, supervisorVars, faultVars>>

\* _collect_completed of an ended task: the pending trigger is started.
Collect ==
    IF TaskEnded
       THEN /\ active' = IF pending = NoTrigger THEN NoTurn ELSE Started(pending, 0)
            /\ pending' = NoTrigger
       ELSE UNCHANGED <<active, pending>>

\* drain_completed: the results are published and forgotten.
DrainCompleted ==
    /\ phase = "draining"
    /\ Collect
    /\ failures' = CollectedFailures
    /\ completed' = FALSE
    /\ phase' = "retrying"
    /\ UNCHANGED <<dbVars, event, lock, faultVars>>

\* The failures that may be retried, and the first of them.
Retryable == {i \in DOMAIN CollectedFailures : CollectedFailures[i].retry < RetryLimit}
FirstRetryable == CollectedFailures[CHOOSE i \in Retryable : \A j \in Retryable : i <= j]

\* drain_failures and submit_if_idle: the first failed trigger that may be
\* retried is submitted again if the conversation is idle.
DrainFailures ==
    LET busy == \/ active.at # "none" /\ ~TaskEnded
                \/ pending # NoTrigger
                \/ completed
                \/ active.at = "done"
    IN  /\ phase = "retrying"
        /\ IF Retryable # {} /\ ~busy
              THEN /\ active' = Started(FirstRetryable.trigger, FirstRetryable.retry + 1)
                   /\ UNCHANGED pending
              ELSE Collect
        /\ failures' = <<>>
        /\ completed' = (completed \/ active.at = "done")
        /\ phase' = "polling"
        /\ UNCHANGED <<dbVars, event, lock, faultVars>>

-----------------------------------------------------------------------------
(* The turn task: run_inbound_turn_async.                                  *)

\* start_turn: a recorded disposition is replayed (pending_async_reply too),
\* without an open window the turn ends, an active row of the same trigger is
\* taken up again.
StartTurn ==
    LET row == turn[active.trigger]
    IN  /\ active.at = "starting"
        /\ \/ /\ row.disp = "absent"
              /\ lastClosed < latest
              /\ turn' = [turn EXCEPT ![active.trigger].from = lastClosed + 1,
                                      ![active.trigger].to = latest]
              /\ GotoTask("claiming")
           \/ /\ row.disp = "active"
              /\ GotoTask("waiting")
              /\ UNCHANGED turn
           \/ /\ \/ row.disp \notin {"absent", "active"}
                 \/ row.disp = "absent" /\ lastClosed = latest
              /\ GotoTask("done")
              /\ UNCHANGED turn
        /\ UNCHANGED <<latest, lastClosed, event, pending, failures, completed,
                       phase, lock, faultVars>>

\* The turn row is committed.
ClaimTurn ==
    /\ active.at = "claiming"
    /\ turn' = [turn EXCEPT ![active.trigger].disp = "active",
                            ![active.trigger].era = crashes]
    /\ GotoTask("waiting")
    /\ UNCHANGED <<latest, lastClosed, event, pending, failures, completed,
                   phase, lock, faultVars>>

AcquireLock ==
    /\ active.at = "waiting"
    /\ lock = "free"
    /\ lock' = "turn"
    /\ GotoTask("running")
    /\ UNCHANGED <<dbVars, event, pending, failures, completed, phase, faultVars>>

\* lock_wait_timeout_s is over: mark_failed, which raises on a superseded turn.
LockWaitTimeout ==
    /\ timeouts < MaxTimeouts
    /\ RoomForMore
    /\ timeouts' = timeouts + 1
    /\ active.at = "waiting"
    /\ lock # "free"
    /\ IF turn[active.trigger].disp \in Live
          THEN /\ turn' = Settled("failed")
               /\ GotoTask("done")
               /\ UNCHANGED failed
          ELSE /\ failed < MaxFailures
               /\ failed' = failed + 1
               /\ GotoTask("failed")
               /\ UNCHANGED turn
    /\ UNCHANGED <<latest, lastClosed, event, pending, failures, completed,
                   phase, lock, crashes, redelivered>>

\* Mutant of Close: the newest message is not compared.
CloseStale ==
    LET row == turn[active.trigger]
    IN  /\ active.at = "running"
        /\ turn' = Settled("closed")
        /\ lastClosed' = row.to
        /\ GotoTask("delivering")
        /\ UNCHANGED <<latest, event, pending, failures, completed, phase, lock,
                       faultVars>>

\* The window test of the freshness guard and of the close.
WindowIsFresh(row) ==
    /\ row.disp \in Live
    /\ \/ row.from = lastClosed + 1
       \/ row.disp = "pending" /\ lastClosed = row.to
    /\ row.to = latest

\* Plan, Execute and Express end in a close decision, or the freshness guard
\* finds that the window moved.  A reply closes a pending turn as well.
Close ==
    LET row == turn[active.trigger]
    IN  /\ active.at = "running"
        /\ IF WindowIsFresh(row)
              THEN /\ turn' = Settled("closed")
                   /\ lastClosed' = row.to
                   /\ GotoTask("delivering")
                   /\ UNCHANGED lock
              ELSE /\ turn' = Settled("superseded")
                   /\ GotoTask("done")
                   /\ lock' = Unlocked
                   /\ UNCHANGED lastClosed
        /\ UNCHANGED <<latest, event, pending, failures, completed, phase, faultVars>>

\* The agent of a turn without access timed out (_record_pending_async): the
\* turn is marked pending and committed like a close, its window stays open.
\* On a turn the relay has marked this raises (TurnFails): segment 0 is taken.
AgentTimesOut ==
    LET row == turn[active.trigger]
    IN  /\ active.at = "running"
        /\ row.disp = "active"
        /\ WindowIsFresh(row)
        /\ turn' = Settled("pending")
        /\ GotoTask("delivering")
        /\ UNCHANGED <<latest, lastClosed, event, pending, failures, completed,
                       phase, lock, faultVars>>

\* A turn without access that decides not to reply, but is pending by now:
\* invalid_disposition_transition, mark_failed, and the task ends normally.
RefuseNoReply ==
    /\ active.at = "running"
    /\ turn[active.trigger].disp = "pending"
    /\ turn' = Settled("failed")
    /\ GotoTask("done")
    /\ lock' = Unlocked
    /\ UNCHANGED <<latest, lastClosed, event, pending, failures, completed,
                   phase, faultVars>>

\* The segments are sent and the task ends.
Deliver ==
    /\ active.at = "delivering"
    /\ GotoTask("done")
    /\ lock' = Unlocked
    /\ UNCHANGED <<dbVars, event, pending, failures, completed, phase, faultVars>>

\* An exception leaves the task; its session is rolled back.
TurnFails ==
    /\ failed < MaxFailures
    /\ RoomForMore
    /\ active.at \in Cancellable \cup {"delivering"}
    /\ failed' = failed + 1
    /\ GotoTask("failed")
    /\ lock' = Unlocked
    /\ UNCHANGED <<dbVars, event, pending, failures, completed, phase, crashes,
                   redelivered, timeouts>>

-----------------------------------------------------------------------------
\* The relay's dispatcher finds a turn on the newest message that is 20 s old
\* (any turn may be): pending if its window is still the open one.
MarkSlow(t) ==
    /\ turn[t].disp = "active"
    /\ turn[t].to = latest
    /\ turn' = [turn EXCEPT ![t].disp = IF turn[t].from = lastClosed + 1
                                           THEN "pending" ELSE "superseded"]
    /\ UNCHANGED <<latest, lastClosed, event, supervisorVars, phase, lock, faultVars>>

-----------------------------------------------------------------------------
\* The worker process dies; the key of the conversation lock stays.
Crash ==
    /\ phase # "down"
    /\ crashes < MaxCrashes
    /\ RoomForMore
    /\ crashes' = crashes + 1
    /\ active' = NoTurn
    /\ pending' = NoTrigger
    /\ failures' = <<>>
    /\ completed' = FALSE
    /\ phase' = "down"
    /\ lock' = IF lock = "free" THEN "free" ELSE "stale"
    /\ UNCHANGED <<dbVars, event, failed, redelivered, timeouts>>

\* Mutant of Restart: nothing is recovered.
RestartIdle ==
    /\ phase = "down"
    /\ active' = NoTurn
    /\ phase' = "polling"
    /\ UNCHANGED <<dbVars, event, pending, failures, completed, lock, faultVars>>

\* _recover_open_inbound_windows submits a new trigger for an open window.
Restart ==
    /\ phase = "down"
    /\ active' = IF lastClosed < latest
                    THEN Started(MaxSeq + crashes, 0) ELSE NoTurn
    /\ phase' = "polling"
    /\ UNCHANGED <<dbVars, event, pending, failures, completed, lock, faultVars>>

\* The key of a dead holder reaches its TTL.
ExpireLock ==
    /\ lock = "stale"
    /\ lock' = "free"
    /\ UNCHANGED <<dbVars, event, supervisorVars, phase, faultVars>>

-----------------------------------------------------------------------------
MainStep == PollNothing \/ EndRender \/ DrainCompleted \/ DrainFailures \/ Restart
TaskStep == StartTurn \/ ClaimTurn \/ AcquireLock \/ Close \/ Deliver

WorkerNext ==
    \/ RecordInbound
    \/ \E s \in InboundTriggers : HandleEvent(s)
    \/ BeginRender
    \/ MainStep
    \/ TaskStep
    \/ LockWaitTimeout
    \/ AgentTimesOut
    \/ RefuseNoReply
    \/ TurnFails
    \/ \E t \in Triggers : MarkSlow(t)
    \/ Crash
    \/ ExpireLock

WorkerSpec == WorkerInit /\ [][WorkerNext]_interactiveVars

\* Both threads run.  An event that is ready is polled or reclaimed in the end
\* (SF: the main thread is only now and then in its poll).  The waiter of the
\* lock polls it every 50 ms, so a lock that is free again and again between
\* render turns is taken (SF), unless the wait times out first.
WorkerFairness ==
    /\ WF_interactiveVars(MainStep)
    /\ WF_interactiveVars(TaskStep)
    /\ SF_interactiveVars(AcquireLock)
    /\ WF_interactiveVars(ExpireLock)
    /\ \A s \in InboundTriggers : SF_interactiveVars(HandleEvent(s))

FairWorkerSpec == WorkerSpec /\ WorkerFairness

-----------------------------------------------------------------------------
(* Properties.                                                             *)

WorkerTypeOK ==
    /\ latest \in 0 .. MaxSeq
    /\ lastClosed \in 0 .. MaxSeq
    /\ event \in [InboundTriggers -> {"absent", "ready", "acked"}]
    /\ turn \in [Triggers -> [disp : {"absent", "active", "pending", "closed",
                                      "superseded", "failed"},
                              from : 0 .. MaxSeq, to : 0 .. MaxSeq,
                              era : 0 .. MaxCrashes]]
    /\ active \in [trigger : Triggers \cup {NoTrigger}, retry : 0 .. RetryLimit,
                   at : TaskStates]
    /\ pending \in Triggers \cup {NoTrigger}
    /\ failures \in Seq([trigger : Triggers, retry : 0 .. RetryLimit])
    /\ completed \in BOOLEAN
    /\ phase \in Phases
    /\ lock \in {"free", "turn", "render", "stale"}
    /\ crashes \in 0 .. MaxCrashes
    /\ failed \in 0 .. MaxFailures
    /\ redelivered \in 0 .. MaxRedeliveries
    /\ timeouts \in 0 .. MaxTimeouts

\* Trigger t, once its task starts, will work on the newest message: it has no
\* row, or one without a disposition that reaches it.
WillTakeUp(t) ==
    \/ turn[t].disp = "absent"
    \/ turn[t].disp = "active" /\ turn[t].to = latest

\* A task that has its row works on it although the relay marks it meanwhile.
WorksOn(t) ==
    /\ active.trigger = t
    /\ active.at \in {"waiting", "running"}
    /\ turn[t].disp \in Live
    /\ turn[t].to = latest

\* What the worker gives up on for good: an event that is delivered again, and
\* a second task that raises, for of several failures only one is retried.
GivenUp == redelivered > 0 \/ failed > RetryLimit

\* What it leaves to the next message or the next restart: a turn on the newest
\* message that this process claimed and that is now pending with no task at
\* work on it (the agent timed out, or the task raised and its retry only
\* replays the disposition), or failed (no lock in time, no_reply refused).
LeftOpen ==
    \E t \in Triggers :
        /\ turn[t].disp \in {"pending", "failed"}
        /\ turn[t].to = latest
        /\ turn[t].era = crashes
        /\ ~WorksOn(t)

\* While a message is open and the worker has neither given up nor left it
\* open, something will take it up: an unhandled event, a task that will claim
\* it or works on it, a pending trigger, a failed trigger with a retry left, or
\* a restart.
SomebodyIsResponsible ==
    ~GivenUp /\ ~LeftOpen /\ lastClosed < latest =>
        \/ phase = "down"
        \/ \E s \in InboundTriggers : event[s] = "ready" /\ lastClosed < s
        \/ active.at \in Cancellable /\ WillTakeUp(active.trigger)
        \/ WorksOn(active.trigger)
        \/ active.at = "failed" /\ active.retry < RetryLimit
              /\ WillTakeUp(active.trigger)
        \/ pending # NoTrigger /\ WillTakeUp(pending)
        \/ \E i \in 1 .. Len(failures) :
              failures[i].retry < RetryLimit /\ WillTakeUp(failures[i].trigger)

\* A reply that is being delivered after its close is not cancelled by a newer
\* message; only the end of the process stops it.
DeliveryNotCancelled ==
    [][active.at = "delivering" =>
          \/ active'.trigger = active.trigger /\ active'.at \in {"delivering", "done", "failed"}
          \/ phase' = "down"]_interactiveVars

\* Every inbound message gets a close decision in the end, through crashes, a
\* failing turn, slow turns and time-outs, unless the worker gives up on one or
\* the newest turn is left open for ever: a newer message or a restart decides
\* also what was left open before.
DecidedUnlessGivenUp ==
    \A s \in InboundTriggers :
        latest >= s ~> lastClosed >= s \/ GivenUp \/ []LeftOpen

\* The counters move as InputWindows says, whoever works on them.
Promise == INSTANCE InputWindows WITH received <- latest, answered <- lastClosed
WindowsPromise == Promise!Spec

\* What the repository says of the program and the code does not keep.

\* docs/ARCHITECTURE.md:148: a turn is superseded because a newer message
\* arrived, and the newer turn answers for both: every message is decided.
EveryMessageDecided ==
    \A s \in InboundTriggers : latest >= s ~> lastClosed >= s

\* docs/ARCHITECTURE.md:241: when a replacement worker finds the lock still held
\* by the old worker, interactive execution waits for it "instead of terminally
\* failing the newer turn".
ReplacementWaitsForLock ==
    [][\A t \in Triggers :
          lock = "stale" /\ turn[t].disp = "active" /\ turn[t].to = latest =>
              turn'[t].disp # "failed"]_interactiveVars

=============================================================================
