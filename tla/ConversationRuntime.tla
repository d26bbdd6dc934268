------------------------- MODULE ConversationRuntime -------------------------
(***************************************************************************)
(* The input windows of one conversation, as kept by                       *)
(* coke/domains/conversation_runtime (service and Postgres repository) and *)
(* driven by the inbound path of coke/turn/runner.py, the webhook and the  *)
(* waiting-text dispatcher of the outbox relay process.                    *)
(*                                                                         *)
(* Three kinds of transaction meet on the conversation row:                *)
(*   - the webhook records an inbound message and supersedes active turns, *)
(*   - a turn task claims a window, waits for the Redis conversation lock, *)
(*     takes the row lock at its first freshness guard and closes,         *)
(*   - the relay marks slow turns pending_async_reply and sends the        *)
(*     waiting text, keeping the row lock until its loop commits.          *)
(*                                                                         *)
(* Postgres runs READ COMMITTED: a transaction sees what others committed  *)
(* before each statement.  The code between two lock waits, awaits or      *)
(* sends of one task is one step here.  A value read before a lock wait    *)
(* and used after it is kept in saw[t] or relay.                           *)
(***************************************************************************)
EXTENDS Naturals, FiniteSets

CONSTANTS
    Turns,      \* turn rows the conversation may get (one per trigger_id)
    MaxSeq,     \* bound on the inbound messages recorded
    Relay,      \* the outbox relay process, as a holder of the row lock
    NoOne       \* nobody holds the lock

ASSUME ConstantsAssumption ==
    /\ MaxSeq \in Nat
    /\ Relay \notin Turns
    /\ NoOne \notin Turns \cup {Relay}

VARIABLES
    latest,       \* conversation.latest_inbound_seq
    lastClosed,   \* conversation.last_closed_inbound_seq
    media,        \* inbound messages that are media no resolver can read
    suppressed,   \* the media message for which a turn recorded no_reply, or 0
    claimed,      \* turns whose row is committed
    from,         \* turn.input_from_seq (snapshot of start_turn before the claim)
    to,           \* turn.input_to_seq
    completed,    \* turns with turn.completed_at set
    disp,         \* output_disposition.disposition, "none" when there is no row
    rowLock,      \* who holds SELECT ... FOR UPDATE on the conversation row
    redisLock,    \* whose token the Redis conversation lock key holds
    pc,           \* where each turn task is
    saw,          \* disposition a task read before it had to wait
    relay,        \* the dispatcher's loop: candidates left, the one being marked
    relayWrites,  \* the disposition rows its open transaction holds
    closedBy,     \* history: turns whose close decision was committed
    waitingSent   \* history: how often the waiting text left for each turn

inboundVars == <<latest, media>>
turnVars == <<claimed, from, to, suppressed>>
lockVars == <<rowLock, redisLock>>
relayVars == <<relay, relayWrites, waitingSent>>
vars == <<latest, lastClosed, media, suppressed, claimed, from, to, completed, disp,
          rowLock, redisLock, pc, saw, relay, relayWrites, closedBy, waitingSent>>

ClosingDispositions == {"replied", "no_reply", "recovered"}
Pending == "pending_async_reply"
Dispositions == ClosingDispositions \cup {"failed", "superseded", Pending, "none"}

\* idle: not running; snapshot: start_turn has read the conversation row;
\* waiting: claim committed, polling the Redis lock; failing: mark_failed has
\* read the disposition; planning: Redis lock held, no freshness guard passed
\* yet; deciding: a close without an earlier guard has read the disposition
\* and not locked the row; executing: a guard passed and the row lock is held
\* (Execute and Express); delivering: close committed, segments being sent;
\* cancelled: interrupted and rolled back, not yet marked superseded.
TaskStates == {"idle", "snapshot", "waiting", "failing", "planning",
               "deciding", "executing", "delivering", "cancelled", "done"}

\* The waiting text is counted up to here, which is one more than intended.
WaitingCap == 2

Init ==
    /\ latest = 0
    /\ lastClosed = 0
    /\ media = {}
    /\ suppressed = [t \in Turns |-> 0]
    /\ claimed = {}
    /\ from = [t \in Turns |-> 0]
    /\ to = [t \in Turns |-> 0]
    /\ completed = {}
    /\ disp = [t \in Turns |-> "none"]
    /\ rowLock = NoOne
    /\ redisLock = NoOne
    /\ pc = [t \in Turns |-> "idle"]
    /\ saw = [t \in Turns |-> "none"]
    /\ relay = [busy |-> FALSE, candidates |-> {}, marking |-> NoOne]
    /\ relayWrites = [t \in Turns |-> "none"]
    /\ closedBy = {}
    /\ waitingSent = [t \in Turns |-> 0]

-----------------------------------------------------------------------------
(* Reads and transitions of the service.                                   *)

\* repository.active_interactive_turns: claimed, not completed, and without
\* a disposition or only with the waiting one.
ActiveTurns ==
    {t \in claimed \ completed : disp[t] \in {"none", Pending}}

\* Mutant of WindowIsFresh: the newest message is not compared.
WindowStartIsFresh(t, existing) ==
    \/ lastClosed + 1 = from[t]
    \/ existing = Pending /\ lastClosed = to[t]

\* The window test of _ensure_turn_can_close, once the row lock is held: the
\* window starts where the conversation was closed last (or is the turn's own
\* pending window, closed already) and reaches the newest inbound message.
WindowIsFresh(t, existing) ==
    /\ \/ lastClosed + 1 = from[t]
       \/ existing = Pending /\ lastClosed = to[t]
    /\ latest = to[t]

\* Which dispositions _ensure_turn_can_transition lets through.
MayBecome(existing, target) ==
    \/ existing = "none"
    \/ existing = Pending /\ target \in {"replied", "failed", "recovered"}

\* save_disposition, when the caller had read `seen` and the committed row is
\* now `stored`.  A caller that saw no row makes a fresh id; if a row has
\* appeared meanwhile the UPDATE ... WHERE id = <fresh id> matches nothing
\* and the row count is not looked at.  A caller that saw a row overwrites it.
Stored(seen, stored, value) ==
    IF seen = "none" /\ stored # "none" THEN stored ELSE value

\* _record_superseded: reads the disposition again and leaves terminal ones.
SupersededDisp(t) ==
    IF disp[t] \in {"none", Pending} THEN "superseded" ELSE disp[t]

\* lock.release(): compare-and-delete of the owner's token.
ReleaseRedisLock(t) ==
    redisLock' = IF redisLock = t THEN NoOne ELSE redisLock

\* The end of t's transaction.
ReleaseRowLock(t) ==
    rowLock' = IF rowLock = t THEN NoOne ELSE rowLock

Goto(t, state) == pc' = [pc EXCEPT ![t] = state]

\* A task that holds the Redis lock lets it go on every way out (finally).
HoldsRedisLock(t) == pc[t] \in {"planning", "deciding", "executing", "delivering"}

\* The task ends with turn_superseded recorded: _record_superseded followed
\* by the commit of the task's session on the normal return.
EndSuperseded(t) ==
    /\ disp' = [disp EXCEPT ![t] = SupersededDisp(t)]
    /\ completed' = completed \cup {t}
    /\ Goto(t, "done")
    /\ ReleaseRedisLock(t)
    /\ UNCHANGED <<lastClosed, rowLock, closedBy>>

\* save_disposition, _save_close_state and the commit of the close boundary.
CommitClose(t, seen, value) ==
    /\ disp' = [disp EXCEPT ![t] = Stored(seen, disp[t], value)]
    /\ completed' = completed \cup {t}
    /\ lastClosed' = to[t]
    /\ closedBy' = closedBy \cup {t}
    /\ Goto(t, "delivering")
    /\ rowLock' = NoOne
    /\ UNCHANGED redisLock

\* One more waiting text has left for t.
CountWaiting(t) ==
    waitingSent' = [waitingSent EXCEPT ![t] = IF @ < WaitingCap THEN @ + 1 ELSE @]

-----------------------------------------------------------------------------
(* The webhook.                                                            *)

\* Mutant of RecordInbound: the conversation is read without the row lock.
RecordInboundUnlocked ==
    /\ latest < MaxSeq
    /\ latest' = latest + 1
    /\ media' \in {media, media \cup {latest + 1}}
    /\ disp' = [t \in Turns |->
                  IF t \in ActiveTurns THEN "superseded" ELSE disp[t]]
    /\ completed' = completed \cup ActiveTurns
    /\ UNCHANGED <<lastClosed, turnVars, lockVars, pc, saw, relayVars, closedBy>>

\* record_inbound in one transaction that locks the conversation row first:
\* the message gets the next number, every active turn is superseded.  A
\* duplicate provider event violates a unique key and changes nothing.
RecordInbound ==
    /\ rowLock = NoOne
    /\ latest < MaxSeq
    /\ latest' = latest + 1
    /\ media' \in {media, media \cup {latest + 1}}
    /\ disp' = [t \in Turns |->
                  IF t \in ActiveTurns THEN "superseded" ELSE disp[t]]
    /\ completed' = completed \cup ActiveTurns
    /\ UNCHANGED <<lastClosed, turnVars, lockVars, pc, saw, relayVars, closedBy>>

-----------------------------------------------------------------------------
(* A turn task: run_inbound_turn_async.                                    *)

\* Mutant of ReadWindow: a turn is made even when no message is open.
ReadAnyWindow(t) ==
    /\ pc[t] = "idle"
    /\ t \notin claimed
    /\ from' = [from EXCEPT ![t] = lastClosed + 1]
    /\ to' = [to EXCEPT ![t] = latest]
    /\ Goto(t, "snapshot")
    /\ UNCHANGED <<inboundVars, lastClosed, claimed, suppressed, completed, disp,
                   lockVars, saw, relayVars, closedBy>>

\* start_turn for a new trigger reads the conversation without locking it.
\* With no open window it raises and the task ends without a row.
ReadWindow(t) ==
    /\ pc[t] = "idle"
    /\ t \notin claimed
    /\ lastClosed < latest
    /\ from' = [from EXCEPT ![t] = lastClosed + 1]
    /\ to' = [to EXCEPT ![t] = latest]
    /\ Goto(t, "snapshot")
    /\ UNCHANGED <<inboundVars, lastClosed, claimed, suppressed, completed, disp,
                   lockVars, saw, relayVars, closedBy>>

\* add_turn and the commit of the claim boundary.
ClaimTurn(t) ==
    /\ pc[t] = "snapshot"
    /\ claimed' = claimed \cup {t}
    /\ Goto(t, "waiting")
    /\ UNCHANGED <<inboundVars, lastClosed, from, to, suppressed, completed, disp,
                   lockVars, saw, relayVars, closedBy>>

\* start_turn for a trigger that has a row: a recorded disposition is replayed
\* and nothing runs; without one the turn goes on with its old window.
ReplayTurn(t) ==
    /\ pc[t] = "idle"
    /\ t \in claimed
    /\ Goto(t, IF disp[t] = "none" THEN "waiting" ELSE "done")
    /\ UNCHANGED <<inboundVars, lastClosed, turnVars, completed, disp, lockVars,
                   saw, relayVars, closedBy>>

\* SET NX PX of the conversation lock succeeds.
AcquireConversationLock(t) ==
    /\ pc[t] = "waiting"
    /\ redisLock = NoOne
    /\ redisLock' = t
    /\ Goto(t, "planning")
    /\ UNCHANGED <<inboundVars, lastClosed, turnVars, completed, disp, rowLock,
                   saw, relayVars, closedBy>>

\* The lock was held by another task for lock_wait_timeout_s: mark_failed
\* reads the disposition.  turn_superseded escapes the task, which fails.
LockWaitTimeout(t) ==
    /\ pc[t] = "waiting"
    /\ redisLock # NoOne
    /\ saw' = [saw EXCEPT ![t] = disp[t]]
    /\ Goto(t, IF MayBecome(disp[t], "failed") THEN "failing" ELSE "idle")
    /\ UNCHANGED <<inboundVars, lastClosed, turnVars, completed, disp, lockVars,
                   relayVars, closedBy>>

\* mark_failed writes, with no lock on the conversation.  Its INSERT waits for
\* a row of the relay's open transaction and then violates the unique key
\* (the task fails), or its own second read finds the row and nothing is
\* updated but the turn.
MarkFailed(t) ==
    /\ pc[t] = "failing"
    /\ relayWrites[t] = "none"
    /\ \/ /\ disp' = [disp EXCEPT ![t] = Stored(saw[t], disp[t], "failed")]
          /\ completed' = completed \cup {t}
          /\ Goto(t, "done")
       \/ /\ saw[t] = "none"
          /\ disp[t] # "none"
          /\ Goto(t, "idle")
          /\ UNCHANGED <<disp, completed>>
    /\ UNCHANGED <<inboundVars, lastClosed, turnVars, lockVars, saw, relayVars,
                   closedBy>>

\* guard_state_change before the first write of a handler or in the close
\* coordinator: the row lock is taken and kept until the transaction ends.
GuardStateChange(t) ==
    /\ pc[t] = "planning"
    /\ rowLock = NoOne
    /\ IF disp[t] # "superseded" /\ WindowIsFresh(t, disp[t])
          THEN /\ rowLock' = t
               /\ Goto(t, "executing")
               /\ UNCHANGED <<lastClosed, completed, disp, redisLock, closedBy>>
          ELSE EndSuperseded(t)
    /\ UNCHANGED <<inboundVars, turnVars, saw, relayVars>>

\* commit_reply, commit_no_reply or commit_recovery_reply of the close
\* coordinator, under the row lock.
Close(t, kind) ==
    /\ pc[t] = "executing"
    /\ MayBecome(disp[t], kind)
    /\ WindowIsFresh(t, disp[t])
    /\ CommitClose(t, disp[t], kind)
    /\ UNCHANGED <<inboundVars, turnVars, saw, relayVars>>

\* Planning failed (commit_recovery_reply), or the gate denied access
\* (commit_reply, commit_no_reply): the disposition is read first and the row
\* lock taken afterwards.
ReadDisposition(t) ==
    /\ pc[t] = "planning"
    /\ IF disp[t] = "superseded"
          THEN /\ EndSuperseded(t)
               /\ UNCHANGED saw
          ELSE /\ saw' = [saw EXCEPT ![t] = disp[t]]
               /\ Goto(t, "deciding")
               /\ UNCHANGED <<lastClosed, completed, disp, lockVars, closedBy>>
    /\ UNCHANGED <<inboundVars, turnVars, relayVars>>

CloseUnguarded(t, kind) ==
    /\ pc[t] = "deciding"
    /\ rowLock = NoOne
    /\ MayBecome(saw[t], kind)
    /\ IF disp[t] # "superseded" /\ WindowIsFresh(t, saw[t])
          THEN CommitClose(t, saw[t], kind)
          ELSE EndSuperseded(t)
    /\ UNCHANGED <<inboundVars, turnVars, saw, relayVars>>

\* Access denied, the waiting text already out and no reply produced:
\* invalid_disposition_transition leads to mark_failed, which reads again.
RefuseTransition(t) ==
    /\ pc[t] = "deciding"
    /\ ~MayBecome(saw[t], "no_reply")
    /\ saw' = [saw EXCEPT ![t] = disp[t]]
    /\ Goto(t, IF MayBecome(disp[t], "failed") THEN "failing" ELSE "idle")
    /\ ReleaseRedisLock(t)
    /\ UNCHANGED <<inboundVars, lastClosed, turnVars, completed, disp, rowLock,
                   relayVars, closedBy>>

\* The constrained agent timed out (_record_pending_async): guard, pending
\* row, waiting text as segment 0, commit, delivery.  Nobody calls
\* complete_async_reply afterwards.  If the relay has marked the turn, segment
\* 0 is there already and the unique key ends the task (TaskFails).
RecordPendingAsync(t) ==
    /\ pc[t] = "planning"
    /\ rowLock = NoOne
    /\ disp[t] = "none"
    /\ WindowIsFresh(t, disp[t])
    /\ disp' = [disp EXCEPT ![t] = Pending]
    /\ CountWaiting(t)
    /\ Goto(t, "done")
    /\ ReleaseRedisLock(t)
    /\ UNCHANGED <<inboundVars, lastClosed, turnVars, completed, rowLock, saw,
                   relay, relayWrites, closedBy>>

\* The segments are sent; the task ends and releases the Redis lock.
Deliver(t) ==
    /\ pc[t] = "delivering"
    /\ Goto(t, "done")
    /\ ReleaseRedisLock(t)
    /\ UNCHANGED <<inboundVars, lastClosed, turnVars, completed, disp, rowLock,
                   saw, relayVars, closedBy>>

\* The supervisor cancels the task at an await: the worker has got an event
\* the window does not cover, a newer message or an older one delivered again.
CancelTurn(t) ==
    /\ pc[t] \in {"waiting", "planning", "executing"}
    /\ \/ latest > to[t]
       \/ from[t] > 1
    /\ Goto(t, "cancelled")
    /\ ReleaseRowLock(t)
    /\ IF HoldsRedisLock(t) THEN ReleaseRedisLock(t) ELSE UNCHANGED redisLock
    /\ UNCHANGED <<inboundVars, lastClosed, turnVars, completed, disp, saw,
                   relayVars, closedBy>>

\* _mark_superseded_after_rollback, in a transaction without the row lock;
\* it waits for a row of the relay's open transaction.
MarkSuperseded(t) ==
    /\ pc[t] = "cancelled"
    /\ relayWrites[t] = "none"
    /\ IF disp[t] = "none"
          THEN /\ disp' = [disp EXCEPT ![t] = "superseded"]
               /\ completed' = completed \cup {t}
          ELSE UNCHANGED <<disp, completed>>
    /\ Goto(t, "done")
    /\ UNCHANGED <<inboundVars, lastClosed, turnVars, lockVars, saw, relayVars,
                   closedBy>>

\* An exception ends the task: its open transaction is rolled back, the Redis
\* lock released.  A retry or a redelivery may start it again (ReplayTurn).
TaskFails(t) ==
    /\ pc[t] \notin {"idle", "done", "cancelled"}
    /\ Goto(t, "idle")
    /\ ReleaseRowLock(t)
    /\ IF HoldsRedisLock(t) THEN ReleaseRedisLock(t) ELSE UNCHANGED redisLock
    /\ UNCHANGED <<inboundVars, lastClosed, turnVars, completed, disp, saw,
                   relayVars, closedBy>>

\* Mutant of SuppressMediaTurn: only the media message itself is closed.
SuppressOneMessage(t, s) ==
    /\ pc[t] = "idle"
    /\ t \notin claimed
    /\ s \in media
    /\ \A u \in Turns : suppressed[u] # s
    /\ lastClosed < s
    /\ rowLock = NoOne
    /\ claimed' = claimed \cup {t}
    /\ from' = [from EXCEPT ![t] = s]
    /\ to' = [to EXCEPT ![t] = s]
    /\ disp' = [disp EXCEPT ![t] = "no_reply"]
    /\ completed' = completed \cup {t}
    /\ closedBy' = closedBy \cup {t}
    /\ lastClosed' = s
    /\ suppressed' = [suppressed EXCEPT ![t] = s]
    /\ Goto(t, "done")
    /\ UNCHANGED <<inboundVars, lockVars, saw, relayVars>>

\* The media event of message s fails to resolve: start_turn and
\* commit_no_reply run in the worker's main transaction, without the Redis
\* lock.  If the window moved in between, everything is rolled back.
SuppressMediaTurn(t, s) ==
    /\ pc[t] = "idle"
    /\ t \notin claimed
    /\ s \in media
    /\ \A u \in Turns : suppressed[u] # s
    /\ lastClosed < latest
    /\ rowLock = NoOne
    /\ claimed' = claimed \cup {t}
    /\ from' = [from EXCEPT ![t] = lastClosed + 1]
    /\ to' = [to EXCEPT ![t] = latest]
    /\ disp' = [disp EXCEPT ![t] = "no_reply"]
    /\ completed' = completed \cup {t}
    /\ closedBy' = closedBy \cup {t}
    /\ lastClosed' = latest
    /\ suppressed' = [suppressed EXCEPT ![t] = s]
    /\ Goto(t, "done")
    /\ UNCHANGED <<inboundVars, lockVars, saw, relayVars>>

\* The worker process dies: every task is gone, Postgres rolls its
\* transactions back, the Redis key stays until it expires.
WorkerCrash ==
    /\ \E t \in Turns : pc[t] \notin {"idle", "done"}
    /\ pc' = [t \in Turns |-> IF pc[t] = "done" THEN "done" ELSE "idle"]
    /\ rowLock' = IF rowLock \in Turns THEN NoOne ELSE rowLock
    /\ UNCHANGED <<inboundVars, lastClosed, turnVars, completed, disp, redisLock,
                   saw, relayVars, closedBy>>

\* The conversation lock reaches its TTL; nothing ever calls heartbeat().
ExpireConversationLock ==
    /\ redisLock # NoOne
    /\ redisLock' = NoOne
    /\ UNCHANGED <<inboundVars, lastClosed, turnVars, completed, disp, rowLock,
                   pc, saw, relayVars, closedBy>>

-----------------------------------------------------------------------------
(* The waiting-text dispatcher of the relay process.                       *)

\* waiting_reply_candidates: slow turns on the newest window with no
\* disposition yet.  Age is left out: any turn may be slow.
RelayScan ==
    LET slow == {t \in claimed \ completed :
                    disp[t] = "none" /\ latest = to[t]}
    IN  /\ ~relay.busy
        /\ slow # {}
        /\ relay' = [busy |-> TRUE, candidates |-> slow, marking |-> NoOne]
        /\ UNCHANGED <<inboundVars, lastClosed, turnVars, completed, disp,
                       lockVars, pc, saw, relayWrites, closedBy, waitingSent>>

\* The transaction of the relay's loop is rolled back with its row lock.
AbortRelay ==
    /\ relay' = [busy |-> FALSE, candidates |-> {}, marking |-> NoOne]
    /\ relayWrites' = [t \in Turns |-> "none"]
    /\ rowLock' = IF rowLock = Relay THEN NoOne ELSE rowLock
    /\ UNCHANGED waitingSent

\* mark_pending_async_reply reads the disposition of the next candidate: a
\* terminal one is skipped; a pending one (the turn marked itself since the
\* scan) is taken, and segment 0 violates the unique key of schema.py:296:
\* the exception is caught, but Postgres has aborted the whole transaction.
RelayRead(t) ==
    /\ t \in relay.candidates
    /\ relay.marking = NoOne
    /\ IF disp[t] = Pending
          THEN AbortRelay
          ELSE /\ relay' = [relay EXCEPT !.candidates = @ \ {t},
                                !.marking = IF disp[t] = "none" THEN t ELSE NoOne]
               /\ UNCHANGED <<relayWrites, waitingSent, rowLock>>
    /\ UNCHANGED <<inboundVars, lastClosed, turnVars, completed, disp, redisLock,
                   pc, saw, closedBy>>

\* The rows it writes for t, and the waiting text it sends: pending for a
\* fresh turn, superseded for one that is not fresh any more.
WritePending(t) ==
    /\ relay' = [relay EXCEPT !.marking = NoOne]
    /\ IF disp[t] # "superseded" /\ WindowIsFresh(t, "none")
          THEN /\ relayWrites' = [relayWrites EXCEPT ![t] = Pending]
               /\ CountWaiting(t)
          ELSE /\ relayWrites' = [relayWrites EXCEPT ![t] =
                       IF disp[t] \in {"none", Pending} THEN "superseded" ELSE @]
               /\ UNCHANGED waitingSent

\* Mutant of RelayMark: the conversation row is read but not locked.
RelayMarkUnlocked(t) ==
    /\ relay.marking = t
    /\ WritePending(t)
    /\ UNCHANGED <<inboundVars, lastClosed, turnVars, completed, disp, lockVars,
                   pc, saw, closedBy>>

\* It locks the conversation row, writes and sends before its transaction
\* commits.  A fresh turn that marked itself since the read has segment 0.
RelayMark(t) ==
    /\ relay.marking = t
    /\ rowLock \in {NoOne, Relay}
    /\ IF disp[t] = Pending /\ WindowIsFresh(t, "none")
          THEN AbortRelay
          ELSE /\ rowLock' = Relay
               /\ WritePending(t)
    /\ UNCHANGED <<inboundVars, lastClosed, turnVars, completed, disp, redisLock,
                   pc, saw, closedBy>>

\* The loop's commit, after every candidate: the rows become visible, and the
\* turn rows are saved as they were read (completed_at NULL when pending).
RelayCommit ==
    /\ relay.busy
    /\ relay.candidates = {}
    /\ relay.marking = NoOne
    /\ disp' = [t \in Turns |->
                  IF relayWrites[t] # "none" /\ disp[t] \in {"none", Pending}
                     THEN relayWrites[t] ELSE disp[t]]
    /\ completed' = (completed \ {t \in Turns : relayWrites[t] = Pending})
                       \cup {t \in Turns : relayWrites[t] = "superseded"}
    /\ relay' = [relay EXCEPT !.busy = FALSE]
    /\ relayWrites' = [t \in Turns |-> "none"]
    /\ rowLock' = IF rowLock = Relay THEN NoOne ELSE rowLock
    /\ UNCHANGED <<inboundVars, lastClosed, turnVars, redisLock, pc, saw,
                   closedBy, waitingSent>>

\* publish_unprocessed or the commit raises, or the process dies: rollback.
RelayRollback ==
    /\ relay.busy
    /\ AbortRelay
    /\ UNCHANGED <<inboundVars, lastClosed, turnVars, completed, disp, redisLock,
                   pc, saw, closedBy>>

-----------------------------------------------------------------------------
\* What a running task does by itself, one step after the other.
TaskStep(t) ==
    \/ ReadWindow(t) \/ ClaimTurn(t) \/ ReplayTurn(t)
    \/ AcquireConversationLock(t) \/ LockWaitTimeout(t) \/ MarkFailed(t)
    \/ GuardStateChange(t) \/ ReadDisposition(t) \/ RefuseTransition(t)
    \/ RecordPendingAsync(t) \/ Deliver(t) \/ MarkSuperseded(t)
    \/ \E kind \in ClosingDispositions : Close(t, kind) \/ CloseUnguarded(t, kind)

RelayStep ==
    RelayScan \/ RelayCommit \/ \E t \in Turns : RelayRead(t) \/ RelayMark(t)

Next ==
    \/ RecordInbound
    \/ \E t \in Turns : TaskStep(t) \/ CancelTurn(t) \/ TaskFails(t)
    \/ \E t \in Turns, s \in 1 .. MaxSeq : SuppressMediaTurn(t, s)
    \/ WorkerCrash
    \/ ExpireConversationLock
    \/ RelayStep
    \/ RelayRollback

Spec == Init /\ [][Next]_vars

-----------------------------------------------------------------------------
(* Properties.                                                             *)

TypeOK ==
    /\ latest \in 0 .. MaxSeq
    /\ lastClosed \in 0 .. MaxSeq
    /\ media \subseteq 1 .. MaxSeq
    /\ suppressed \in [Turns -> 0 .. MaxSeq]
    /\ claimed \subseteq Turns
    /\ from \in [Turns -> 0 .. MaxSeq]
    /\ to \in [Turns -> 0 .. MaxSeq]
    /\ completed \subseteq claimed
    /\ disp \in [Turns -> Dispositions]
    /\ rowLock \in Turns \cup {Relay, NoOne}
    /\ redisLock \in Turns \cup {NoOne}
    /\ pc \in [Turns -> TaskStates]
    /\ saw \in [Turns -> Dispositions]
    /\ relay \in [busy : BOOLEAN, candidates : SUBSET Turns,
                  marking : Turns \cup {NoOne}]
    /\ relayWrites \in [Turns -> {"none", Pending, "superseded"}]
    /\ closedBy \subseteq claimed
    /\ waitingSent \in [Turns -> 0 .. WaitingCap]

\* Between a passed freshness guard and the close nothing can overtake the
\* turn: it owns the row lock, so its window still starts at the first open
\* message (or is its own closed one) and reaches the newest.  Execute writes
\* reminders and invitations relying on that.
ExecutesOnFreshWindow ==
    \A t \in Turns : pc[t] = "executing" =>
        /\ rowLock = t
        /\ lastClosed + 1 = from[t] \/ lastClosed = to[t]
        /\ latest = to[t]

\* No inbound message is skipped: every number up to last_closed_inbound_seq
\* lies in the window of a turn that committed a close decision, whatever the
\* windows claimed from stale reads, the crashes and the relay's writes were.
NothingSkipped ==
    /\ lastClosed <= latest
    /\ \A s \in 1 .. lastClosed :
          \E t \in closedBy : from[t] <= s /\ s <= to[t]

\* A turn whose close was committed keeps it: it stays completed, its
\* disposition is not failed or superseded later by the relay, mark_failed, a
\* cancellation or the next inbound.
ClosedStaysClosed ==
    \A t \in closedBy :
        /\ t \in completed
        /\ to[t] <= lastClosed
        /\ disp[t] \in ClosingDispositions \cup {Pending}

\* What the conversation promises (InputWindows): the recorded and the closed
\* counters move only by a new message and by a close of all open messages.
Promise == INSTANCE InputWindows WITH received <- latest, answered <- lastClosed
WindowsPromise == Promise!Spec

\* What the repository says of the program and the code does not keep.

\* docs/ARCHITECTURE.md:169: pending_async_reply "must not commit an interactive
\* close decision, set turn.completed_at, or advance last_closed_inbound_seq".
PendingNeverCloses ==
    \A t \in Turns : disp[t] = Pending => t \notin completed /\ t \notin closedBy

\* The service's test of a duplicate close: a window that was closed is not
\* closed by a second turn, every message gets one close decision.
DecidedOnce ==
    \A t, u \in closedBy : t # u => to[t] < from[u] \/ to[u] < from[t]

\* docs/ARCHITECTURE.md:211: one logical waiting send for a turn, repeated only
\* for retryable transport failures.
WaitingTextOnce == \A t \in Turns : waitingSent[t] <= 1

\* docs/ARCHITECTURE.md:121: no message the planner never saw is closed with
\* no_reply; a failed media message closes itself only.
OnlyMediaSuppressed ==
    \A t \in Turns : suppressed[t] # 0 => from[t] .. to[t] \subseteq media

\* The eager-execute design: a trigger delivered again after a crash before the
\* close runs again, because the only dispositions that are replayed are
\* terminal and pending_async_reply is "unreachable on the inbound path".
OnlyTerminalReplayed ==
    [][\A t \in claimed : pc[t] = "idle" /\ pc'[t] = "done" => disp[t] # Pending]_vars

=============================================================================
