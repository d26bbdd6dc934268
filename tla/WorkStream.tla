----------------------------- MODULE WorkStream -----------------------------
(***************************************************************************)
(* How an outbox row reaches the worker: the relay process publishes the   *)
(* unprocessed rows to a Redis stream (coke/worker/outbox_relay.py,        *)
(* coke/infra/redis.py), the single worker consumes it                     *)
(* (coke/worker/stream_consumer.py, coke/worker/__main__.py) and marks the *)
(* row processed.  Both write the same row, the relay with every column of *)
(* what it read before.                                                    *)
(*                                                                         *)
(* One Redis command or one SQL statement whose result is used later is    *)
(* one step.  Processes die and restart, calls raise, Redis comes back     *)
(* empty: Faults says which of these happen.                               *)
(***************************************************************************)
EXTENDS Naturals, FiniteSets, Sequences, SequencesExt

CONSTANTS
    Events,     \* outbox rows
    MaxId,      \* bound on the stream messages something still refers to
    Faults,     \* sets of kinds of faults, see FaultKinds: what may happen in
                \* one behaviour, once each
    NoEvent     \* no event

FaultKinds == {"relay", "worker", "step", "answer", "redis"}

ASSUME StreamAssumption ==
    /\ IsFiniteSet(Events)
    /\ NoEvent \notin Events
    /\ MaxId \in Nat \ {0}
    /\ Faults \subseteq SUBSET FaultKinds

VARIABLES
    row,        \* committed outbox row: "absent", "unprocessed", "processed"
    relay,      \* [at, todo, event, msg, seen] of the relay's loop
    relayRows,  \* rows its open transaction has written, "none" otherwise
    reserved,   \* events with a dedup key in Redis
    keyed,      \* messages with a message -> event key in Redis
    queue,      \* messages of the stream not delivered to the group yet
    pel,        \* delivered messages not acknowledged (pending entries list)
    group,      \* the consumer group exists
    worker,     \* [at, msg] of the worker's loop
    handled,    \* StreamConsumer._handled_event_ids, in the worker's memory
    effects,    \* history: how often the handler of an event committed
    faults      \* kinds of faults so far

redisVars == <<reserved, keyed, queue, pel, group>>
relayVars == <<relay, relayRows>>
workerVars == <<worker, handled, effects>>
vars == <<row, relay, relayRows, reserved, keyed, queue, pel, group, worker,
          handled, effects, faults>>

Messages == [event : Events, id : 1 .. MaxId]
NoMessage == [event |-> NoEvent, id |-> 0]

RowStates == {"absent", "unprocessed", "processed"}
RelayStates == {"idle", "choosing", "adding", "recording", "selecting", "updating"}
WorkerStates == {"idle", "handling", "acking", "xacking", "cleaning"}

IdleRelay == [at |-> "idle", todo |-> {}, event |-> NoEvent, msg |-> NoMessage,
              seen |-> "absent"]
IdleWorker == [at |-> "idle", msg |-> NoMessage]
NothingWritten == [e \in Events |-> "none"]

\* effects is counted up to here: once, or more often.
EffectCap == 2

Init ==
    /\ row = [e \in Events |-> "absent"]
    /\ relay = IdleRelay
    /\ relayRows = NothingWritten
    /\ reserved = {}
    /\ keyed = {}
    /\ queue = <<>>
    /\ pel = {}
    /\ group = TRUE
    /\ worker = IdleWorker
    /\ handled = {}
    /\ effects = [e \in Events |-> 0]
    /\ faults = {}

Outstanding == ToSet(queue) \cup pel

\* Redis never uses a message id twice; here an id nothing refers to any more.
FreshIds ==
    (1 .. MaxId) \ {m.id : m \in Outstanding \cup {worker.msg, relay.msg}}

Fault(kind) ==
    /\ kind \notin faults
    /\ faults' = faults \cup {kind}
    /\ \E together \in Faults : faults' \subseteq together

-----------------------------------------------------------------------------
\* A domain transaction with an outbox row commits.
Record(e) ==
    /\ row[e] = "absent"
    /\ row' = [row EXCEPT ![e] = "unprocessed"]
    /\ UNCHANGED <<relayVars, redisVars, workerVars, faults>>

-----------------------------------------------------------------------------
(* The relay: publish_unprocessed in one transaction.                      *)

\* list_unprocessed_outbox.  The order within a batch is left open.
RelayList ==
    /\ relay.at = "idle"
    /\ \E e \in Events : row[e] = "unprocessed"
    /\ relay' = [relay EXCEPT !.at = "choosing",
                              !.todo = {e \in Events : row[e] = "unprocessed"}]
    /\ UNCHANGED <<row, relayRows, redisVars, workerVars, faults>>

\* Mutant of Reserve: XADD whether or not the key exists.
ReserveAgain(e) ==
    /\ relay.at = "choosing"
    /\ e \in relay.todo
    /\ relay' = [relay EXCEPT !.todo = @ \ {e}, !.event = e, !.at = "adding"]
    /\ reserved' = reserved \cup {e}
    /\ UNCHANGED <<row, relayRows, keyed, queue, pel, group, workerVars, faults>>

\* publish_event: GET of the dedup key, then SET NX "pending".  A key that
\* exists, whatever its value, means the message is in the stream already.
Reserve(e) ==
    /\ relay.at = "choosing"
    /\ e \in relay.todo
    /\ relay' = [relay EXCEPT !.todo = @ \ {e}, !.event = e,
                     !.at = IF e \in reserved THEN "selecting" ELSE "adding"]
    /\ reserved' = reserved \cup {e}
    /\ UNCHANGED <<row, relayRows, keyed, queue, pel, group, workerVars, faults>>

\* XADD.
AddToStream ==
    /\ relay.at = "adding"
    /\ FreshIds # {}
    /\ LET msg == [event |-> relay.event, id |-> Min(FreshIds)]
       IN  /\ queue' = Append(queue, msg)
           /\ relay' = [relay EXCEPT !.at = "recording", !.msg = msg]
    /\ UNCHANGED <<row, relayRows, reserved, keyed, pel, group, workerVars, faults>>

\* Mutant of PublishFails: the dedup key stays when XADD raises.
PublishFailsKeepingKey ==
    /\ relay.at = "adding"
    /\ Fault("step")
    /\ relay' = IdleRelay
    /\ relayRows' = NothingWritten
    /\ UNCHANGED <<row, redisVars, workerVars>>

\* XADD raises, with or without the message in the stream: the dedup key is
\* deleted and the loop rolls its transaction back.
PublishFails ==
    /\ relay.at = "adding"
    /\ reserved' = reserved \ {relay.event}
    /\ \/ /\ Fault("step")
          /\ UNCHANGED queue
       \/ /\ Fault("answer")
          /\ FreshIds # {}
          /\ queue' = Append(queue, [event |-> relay.event, id |-> Min(FreshIds)])
    /\ relay' = IdleRelay
    /\ relayRows' = NothingWritten
    /\ UNCHANGED <<row, keyed, pel, group, workerVars>>

\* SET of the dedup key (XX) to the message id and of the message -> event
\* key.  A key of a message that is gone is never read and left out.
RecordIds ==
    /\ relay.at = "recording"
    /\ keyed' = keyed \cup
                  ({relay.msg} \cap (Outstanding \cup {worker.msg}))
    /\ relay' = [relay EXCEPT !.at = "selecting", !.msg = NoMessage]
    /\ UNCHANGED <<row, relayRows, reserved, queue, pel, group, workerVars, faults>>

\* mark_outbox_published reads the whole row without locking it ...
SelectRow ==
    /\ relay.at = "selecting"
    /\ relay' = [relay EXCEPT !.at = "updating", !.seen = row[relay.event]]
    /\ UNCHANGED <<row, relayRows, redisVars, workerVars, faults>>

\* Mutant of UpdateRow: the row is marked processed once it is published.
UpdateRowProcessed ==
    /\ relay.at = "updating"
    /\ relayRows' = [relayRows EXCEPT ![relay.event] = "processed"]
    /\ relay' = [relay EXCEPT !.at = "choosing", !.event = NoEvent,
                              !.seen = "absent"]
    /\ UNCHANGED <<row, redisVars, workerVars, faults>>

\* Mutant of UpdateRow: the row is written without having been read.
UpdateRowUnread ==
    /\ relay.event # NoEvent
    /\ relayRows' = [relayRows EXCEPT ![relay.event] = relay.seen]
    /\ relay' = [relay EXCEPT !.at = "choosing", !.event = NoEvent,
                              !.seen = "absent"]
    /\ UNCHANGED <<row, redisVars, workerVars, faults>>

\* ... and writes the whole row, processed_at and acked_at included.
UpdateRow ==
    /\ relay.at = "updating"
    /\ relayRows' = [relayRows EXCEPT ![relay.event] = relay.seen]
    /\ relay' = [relay EXCEPT !.at = "choosing", !.event = NoEvent,
                              !.seen = "absent"]
    /\ UNCHANGED <<row, redisVars, workerVars, faults>>

RelayCommit ==
    /\ relay.at = "choosing"
    /\ relay.todo = {}
    /\ row' = [e \in Events |->
                 IF relayRows[e] = "none" THEN row[e] ELSE relayRows[e]]
    /\ relayRows' = NothingWritten
    /\ relay' = IdleRelay
    /\ UNCHANGED <<redisVars, workerVars, faults>>

\* The relay process dies: its transaction is rolled back.  It starts again
\* with ensure_group.
RelayCrash ==
    /\ relay.at # "idle"
    /\ Fault("relay")
    /\ relay' = IdleRelay
    /\ relayRows' = NothingWritten
    /\ group' = TRUE
    /\ UNCHANGED <<row, reserved, keyed, queue, pel, workerVars>>

-----------------------------------------------------------------------------
(* The worker: reclaim_pending_once, then poll_once.                       *)

\* Mutant of Receive: what was delivered before is acknowledged unseen.
ReceiveSkipping(msg) ==
    worker' = [at |-> IF msg \in pel THEN "acking" ELSE "handling", msg |-> msg]

\* _handle_received: an event this process has handled is only acknowledged.
Receive(msg) ==
    worker' = [at |-> IF msg.event \in handled THEN "xacking" ELSE "handling",
               msg |-> msg]

\* XREADGROUP of one new message.
Poll ==
    /\ worker.at = "idle"
    /\ group
    /\ queue # <<>>
    /\ queue' = Tail(queue)
    /\ pel' = pel \cup {Head(queue)}
    /\ Receive(Head(queue))
    /\ UNCHANGED <<row, relayVars, reserved, keyed, group, handled, effects, faults>>

\* XAUTOCLAIM of a message that has been pending for reclaim_idle_ms.
Reclaim(msg) ==
    /\ worker.at = "idle"
    /\ group
    /\ msg \in pel
    /\ Receive(msg)
    /\ UNCHANGED <<row, relayVars, redisVars, handled, effects, faults>>

\* The handler runs and its transaction commits.
Handle ==
    /\ worker.at = "handling"
    /\ effects' = [effects EXCEPT ![worker.msg.event] =
                      IF @ < EffectCap THEN @ + 1 ELSE @]
    /\ worker' = [worker EXCEPT !.at = "acking"]
    /\ UNCHANGED <<row, relayVars, redisVars, handled, faults>>

\* mark_outbox_processed and commit; waits for the relay's row lock.
AckRow ==
    /\ worker.at = "acking"
    /\ relayRows[worker.msg.event] = "none"
    /\ row' = [row EXCEPT ![worker.msg.event] = "processed"]
    /\ worker' = [worker EXCEPT !.at = "xacking"]
    /\ UNCHANGED <<relayVars, redisVars, handled, effects, faults>>

\* XACK.  When it removed nothing (the stream is new), no key is cleaned.
Xack ==
    /\ worker.at = "xacking"
    /\ pel' = pel \ {worker.msg}
    /\ IF worker.msg \in pel
          THEN /\ worker' = [worker EXCEPT !.at = "cleaning"]
               /\ UNCHANGED handled
          ELSE /\ worker' = IdleWorker
               /\ handled' = handled \cup {worker.msg.event}
    /\ UNCHANGED <<row, relayVars, reserved, keyed, queue, group, effects, faults>>

\* Mutant of Clean: the handled events are not remembered.
CleanForgetting ==
    /\ worker.at = "cleaning"
    /\ reserved' = IF worker.msg \in keyed
                      THEN reserved \ {worker.msg.event} ELSE reserved
    /\ keyed' = keyed \ {worker.msg}
    /\ worker' = IdleWorker
    /\ UNCHANGED <<row, relayVars, queue, pel, group, handled, effects, faults>>

\* The message -> event key leads to the dedup key; both are deleted.  Without
\* it (RecordIds has not run) the dedup key stays for good, it has no TTL.
Clean ==
    /\ worker.at = "cleaning"
    /\ reserved' = IF worker.msg \in keyed
                      THEN reserved \ {worker.msg.event} ELSE reserved
    /\ keyed' = keyed \ {worker.msg}
    /\ handled' = handled \cup {worker.msg.event}
    /\ worker' = IdleWorker
    /\ UNCHANGED <<row, relayVars, queue, pel, group, effects, faults>>

\* A call raises: the session is rolled back, the loop goes on; the message
\* stays pending if it was not acknowledged, the event is not remembered.
WorkerStepFails ==
    /\ worker.at # "idle"
    /\ Fault("step")
    /\ worker' = IdleWorker
    /\ UNCHANGED <<row, relayVars, redisVars, handled, effects>>

\* The worker process dies and starts again with ensure_group.
WorkerCrash ==
    /\ Fault("worker")
    /\ worker' = IdleWorker
    /\ handled' = {}
    /\ group' = TRUE
    /\ UNCHANGED <<row, relayVars, reserved, keyed, queue, pel, effects>>

\* Redis comes back empty: stream, group and keys are gone.  XADD makes the
\* stream again, the group only comes back with ensure_group.
RedisRestart ==
    /\ Fault("redis")
    /\ queue' = <<>>
    /\ pel' = {}
    /\ reserved' = {}
    /\ keyed' = {}
    /\ group' = FALSE
    /\ UNCHANGED <<row, relayVars, workerVars>>

-----------------------------------------------------------------------------
RelayStep ==
    \/ RelayList \/ AddToStream \/ RecordIds \/ SelectRow \/ UpdateRow
    \/ RelayCommit \/ \E e \in Events : Reserve(e)

ReclaimAny == \E msg \in pel : Reclaim(msg)

WorkerStep ==
    Poll \/ ReclaimAny \/ Handle \/ AckRow \/ Xack \/ Clean

Next ==
    \/ \E e \in Events : Record(e)
    \/ RelayStep \/ PublishFails \/ RelayCrash
    \/ WorkerStep \/ WorkerStepFails \/ WorkerCrash
    \/ RedisRestart

Spec == Init /\ [][Next]_vars

\* Both loops run for ever.  The worker tries reclaim_pending_once first in
\* every iteration, so a message that stays pending is claimed eventually;
\* Postgres queues waiters, so AckRow gets the row when the relay commits.
Fairness ==
    /\ WF_vars(RelayStep)
    /\ WF_vars(WorkerStep)
    /\ SF_vars(ReclaimAny)
    /\ SF_vars(AckRow)
FairSpec == Spec /\ Fairness

-----------------------------------------------------------------------------
(* Properties.                                                             *)

TypeOK ==
    /\ row \in [Events -> RowStates]
    /\ relay \in [at : RelayStates, todo : SUBSET Events,
                  event : Events \cup {NoEvent},
                  msg : Messages \cup {NoMessage}, seen : RowStates]
    /\ relayRows \in [Events -> {"none", "unprocessed", "processed"}]
    /\ reserved \subseteq Events
    /\ keyed \subseteq Messages
    /\ queue \in Seq(Messages)
    /\ pel \subseteq Messages
    /\ group \in BOOLEAN
    /\ worker \in [at : WorkerStates, msg : Messages \cup {NoMessage}]
    /\ handled \subseteq Events
    /\ effects \in [Events -> 0 .. EffectCap]
    /\ faults \subseteq FaultKinds

\* The dedup key of publish_event: however often the relay publishes a row,
\* the stream holds at most one message of it that is not acknowledged, unless
\* the answer to an XADD got lost or Redis came back empty between the two.
OneOutstanding ==
    {"answer", "redis"} \cap faults = {} =>
        /\ \A m, n \in Outstanding : m.event = n.event => m = n
        /\ \A i, j \in 1 .. Len(queue) : queue[i] = queue[j] => i = j

\* Nothing is lost between the two writers of the row: it only says processed
\* after the handler of the event has committed.
HandledBeforeProcessed ==
    \A e \in Events : row[e] = "processed" => effects[e] > 0

\* A handler runs once as long as the worker lives and none of its steps
\* raises, although the relay publishes rows again after lost updates, lost
\* answers, crashes and an empty Redis: the events handled are remembered.
EffectsOnce ==
    {"worker", "step"} \cap faults = {} => \A e \in Events : effects[e] <= 1

\* A dedup key stands for a message on its way: an unprocessed event that is
\* reserved and not handled is in the stream, or the relay is about to add it.
\* Only a relay that dies between the key and the XADD breaks this.
ReservedIsOnItsWay ==
    "relay" \notin faults =>
        \A e \in reserved : row[e] = "unprocessed" /\ effects[e] = 0 =>
            \/ \E m \in Outstanding : m.event = e
            \/ relay.at = "adding" /\ relay.event = e

\* A committed outbox row is handled by the worker in the end, through worker
\* crashes, steps that raise and lost answers.  Only a crash of the relay or a
\* Redis that comes back empty can prevent it.
HandledUnlessCutOff ==
    \A e \in Events : row[e] = "unprocessed" ~>
        effects[e] > 0 \/ {"relay", "redis"} \cap faults # {}

\* What the repository says of the program and the code does not keep.

\* docs/ARCHITECTURE.md:319: "Nothing durable lives only in Redis.  A Redis
\* restart may lose wake-up signals, but unacknowledged Postgres outbox rows are
\* replayed": every committed row is handled in the end.
EventuallyHandled ==
    \A e \in Events : row[e] = "unprocessed" ~> effects[e] > 0

=============================================================================
