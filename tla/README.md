# Coke: a TLA+ model and its proofs

Coke is a chat supervisor for reminders and social scheduling. A user writes to
it over a messaging channel; a planner model decides, handlers write reminders
and invitations, an Express model writes the reply. This directory models the
parts in which several processes, tasks and transactions meet: who works
on a conversation's messages, how rows travel from Postgres over Redis to the
worker and back, what a turn writes and what it tells, what becomes of a due
reminder and of a notification, how accounts are opened, reached and connected
with each other, and how a calendar is imported.

Sources are given as `src/coke/...` paths; `map` in `PROJECT.json` names the
lines each definition stands for.

## 1. The system

### Processes

| process | code | what it does |
|---|---|---|
| API | `coke/app.py`, `coke/api/` | webhooks record inbound messages; reminder page edits |
| outbox relay | `coke/worker/outbox_relay.py`, `waiting_reply.py` | publishes outbox rows to a Redis stream; sends waiting text for slow turns |
| worker, main thread | `coke/worker/__main__.py`, `stream_consumer.py` | consumes the stream one event at a time; renders reminder and notification turns itself |
| worker, supervisor thread | `coke/worker/interactive_supervisor.py` | one asyncio loop for all interactive turns, one active turn and one pending slot per conversation |
| scheduler | `coke/scheduler/__main__.py` | scans due reminders, proactive follow-ups and nightly summaries into outbox rows |
| WeChat connector | `provider_edges/wechat_personal_connector/app.py` | polls iLink for each logged-in account and posts messages to the API's webhook; its state is a file |

They share Postgres (READ COMMITTED, a row lock only on the conversation row),
and Redis (a stream with a consumer group, dedup keys, a lock key per
conversation with a TTL of 30 s).

### Components, their state and what makes them correct

| component | state | operations | correct when |
|---|---|---|---|
| Conversation runtime (`domains/conversation_runtime`) | conversation counters `latest_inbound_seq`, `last_closed_inbound_seq`; turns with an input window; output dispositions; outbox rows | `record_inbound`, `start_turn`, freshness guards, `commit_*_close`, `mark_failed`, `mark_pending`, outbox writes | a window is closed as a whole and once; no message is skipped; Execute never acts on an outdated window; a committed close stays |
| Turn runner (`turn/`) | the Redis lock; one transaction per turn | claim, wait for the lock, plan, execute, express, close, deliver; replay of a turn that ended | as above; a turn that loses its lock does no harm |
| Interactive supervisor and worker loop | `_active`, `_pending`, `_failures`, `_completed`, in memory | submit, submit_if_idle, collect, drain, retry, recover at start | somebody always works on the newest open message; a committed reply is not cancelled |
| Outbox relay and stream | outbox row, dedup keys, stream, pending entries list | list, publish, record ids, acknowledge, reclaim | every row is handled, once unless a fault explains it, and marked processed only afterwards |
| Waiting-text dispatcher | `pending_async_reply` rows | scan, mark, send, commit | no effect on closes; a marked turn is decided all the same, unless its task raises (`LeftOpen` below) |
| Scheduler and reminders | reminder rows, fires | scan, claim, render, record, advance, resend, edits of the user | every due time is told once or visibly undelivered; a series loses no occurrence; an edit wins over an old delivery |
| Recurrence, temporal, calendar read model, availability | none (pure) | next occurrence, phrases to instants, merge of intervals | agree with a reference definition, ends of months and clock changes included |
| Social scheduling (`domains/social_scheduling`) | friend links, friendships, shared reminders with a projection and a reminder per participant, notification facts and their recipients | link, reset, disable, join, remove; create, cancel, update, complete, fire; deliver, receipt, resend | a participant's reminder rings as agreed; the last notification says what became of it; every recipient is settled and told the truth |
| Channel reachability (`domains/channel_reachability`) | channels, delivery routes | create, connect, login, accept a message, send, retry, remove | a connected channel is its owner's and has a route; a claimed friend link is consumed with its friendship |
| Identity and access (`domains/identity_access`) | accounts, credentials, channel identities, codes and links, activation, access | register, log in, verify, reset, redeem, pair, first message | one account per person; a session is of the account whose code was shown; a consumed pairing code has bound a sender |
| Calendar import (`domains/calendar_import`) | runs, imported items, authorization | import from the page or in a chat, stop, revoke | an occurrence is imported once, and what a summary calls imported was made |
| WeChat connector | state file: cursor, delivery attempts, back-off | log in, poll, post, restart | no message is skipped or overtaken; a poison message is given up in the end |
| Planner, handlers and Express (`turn/inbound`) | the turn's transaction and outcomes | plan, execute, settle, word, retry, recover, send segments | a reply tells what was committed, and all of it |
| Settings, proactive follow-ups, nightly summary | switches and their fires | toggle, scan, render | a switched off follow-up is not sent |
| Pending clarifications | clarification with a lifetime | open, answer, expire | an answer resolves the question that was asked |
| LLM adapters, providers | none of ours | calls | outside the models: an answer, an error, a send that fails |
| Composition, configuration, web client, migrations | none | wiring | only the callbacks of composition are modelled |

### How they interact, and what is hard about it

1. A webhook commits a message and an outbox row in one transaction. The relay
   publishes the row, the worker consumes it, submits the trigger to the
   supervisor and **acknowledges it at once**: from then on only memory knows
   of it. After a crash a recovery scan looks for open windows.
2. A turn claims the window it read **without a lock**, waits for the Redis
   lock, plans for many seconds, and takes the conversation's row lock at its
   first freshness guard. It keeps that lock through Execute and through the
   awaits of Express until the close commits. The Redis lock may run out
   meanwhile: nothing renews it.
3. A newer message supersedes the active turn in the database and cancels its
   task, unless it already delivers its reply.
4. The relay marks slow turns and sends waiting text **before it commits**,
   with one transaction for all candidates of a scan. The mark is a disposition: the
   retry of a marked turn that raised is answered with it and does nothing.
5. All interactive turns share **one event-loop thread with synchronous SQL**:
   a statement that waits for a row stops every turn.
6. The relay and the worker both write the **whole outbox row** from what they
   read earlier. Dedup keys have no TTL.
7. Reminder rows are read, changed and written back whole without a row lock
   by the worker, the API and interactive turns. So are the rows of social
   scheduling, channels, codes and activations: a check made on what was read is not made
   again when it is written, unless a unique index does it.
8. A turn commits everything Execute wrote **with whatever text closes it**:
   the reply, a recovery text after a failure, or the reply of a second run of the pipeline.
9. Sends, provider calls and their records are in different transactions: a
   death in between leaves a reply, a fire or a notification half recorded.
10. The connector's pollers write back session values from **snapshots of the state
    file** taken before their network calls.

`PROJECT.json` lists each of these, and others, under `hazards`, at its line.

## 2. The modules

| module | models | lines are from |
|---|---|---|
| `InputWindows` | abstract: what one conversation promises its user | the two counters of the conversation service |
| `ConversationRuntime` | one conversation: webhook, turn tasks, relay, both locks | conversation runtime, turn runner, waiting reply |
| `InteractiveWorker` | one conversation: main thread, supervisor, the relay's mark on a slow turn | worker loop, supervisor, waiting reply |
| `WorkStream` | outbox rows, relay, Redis, worker | outbox relay, `infra/redis.py`, stream consumer |
| `TurnThread` | several conversations on one thread, row locks | runner, pipeline, dispatcher, supervisor loop |
| `InboundPipeline` | one conversation's turns from the plan to the last segment | `turn/inbound`, reminder batches, failure paths of the runner |
| `ReminderFires` | one account: scheduler, worker, edits | scheduler, reminder service, render path |
| `NotificationDelivery` | notification facts, receipts and resends | notification half of social scheduling, render path, callbacks of composition |
| `SocialScheduling` | friend links, friendships, shared reminders of several accounts | social scheduling service and repository, friend and social handlers |
| `ChannelLifecycle` | channels, routes, logins, deferred friend links | channel reachability, part of identity and access, connector |
| `AccountAccess` | accounts, credentials, codes, sessions, activation | identity and access, auth and claim routes |
| `CalendarImport` | imports by page and by chat of several accounts | calendar import service and repository, its routes and handler |
| `WeChatConnector` | sessions, the loop and any number of route pollers, the state file | the connector's `app.py`, the webhook |

`MC*` modules hold the small instances, `*_proofs` modules the theorems. `InteractiveWorker`,
`TurnThread`, `NotificationDelivery` and `CalendarImport` give their variables' tuple, `Init`,
`Next`, `Spec` and `TypeOK` names of their own (`WorkerSpec`, `ThreadSpec`, `DeliverySpec`,
`ImportSpec`, ...), because a proofs module extends two or three component modules.

How they fit together: `ConversationRuntime` and `InteractiveWorker` both implement
`InputWindows`, each at its own level. The first has every transaction of a turn and
leaves open when a task starts or is cancelled; the second has who starts,
cancels and retries it and makes a close one step. `InboundPipeline` opens up what is one
step `Execute` and one step close in `ConversationRuntime`: its guard and its lock are that
module's. `WorkStream` is the road of an event from its row to its handler;
`InteractiveWorker`, `ReminderFires` and `NotificationDelivery` take from it that an event is
handled, and perhaps handled again. `SocialScheduling` writes the facts
`NotificationDelivery` delivers and the reminders `ReminderFires` lets ring;
`WeChatConnector` delivers the messages that `ChannelLifecycle` and
`AccountAccess` accept.

### State and steps

The code between two lock waits, awaits, sends or commits of one task is one
step. A value read before such a point and used after it is a variable
(`saw[t]`, `relay`, `job.seen`, `edit.seen`, the rows in `requests`). Uncommitted writes others could
miss are variables of their own (`relayWrites`, `relayRows`, `txRem`, `txFire`, `tx`, `view`);
under a lock that hides them they are not.

*ConversationRuntime.* `latest`, `lastClosed`, `from`, `to`, `completed`, `disp`
are columns; `rowLock` and `redisLock` the two locks; `pc` where the task of a
turn is. `RecordInbound` is the webhook's transaction with the superseding of
active turns. A task goes through `ReadWindow` (the unlocked snapshot),
`ClaimTurn`, waiting for the Redis lock, planning, the freshness guard, Execute,
the close and the delivery; it may close without a guard (access denied,
planning failed), mark itself pending, be cancelled, fail (`mark_failed`) or die
with the worker. `SuppressMediaTurn` is the worker's answer to media it
cannot read. `RelayScan`, `RelayRead`, `RelayMark`, `RelayCommit` and
`RelayRollback` are the dispatcher; segment 0 of a turn is unique, so a second waiting text for
a turn that marked itself meanwhile aborts the dispatcher's transaction (`AbortRelay`).
`ExpireConversationLock` is the TTL.

*InteractiveWorker.* `active`, `pending`, `failures`, `completed` are the
supervisor's fields; `phase` is the main thread, which handles an event,
drains completed turns, then failures, or renders a turn of its own with the
same lock. A turn may become `pending_async_reply`: by the relay (`MarkSlow`), while its task
goes on and may still close it, or by its own task when the agent of a user without access
times out (`AgentTimesOut`). `StartTurn` replays a pending row like a final one. A failed wait
for the lock and a `no_reply` on a pending turn (`RefuseNoReply`) mark the row failed. `Crash`
empties the memory, leaves the lock to its TTL, and `Restart` submits a recovery trigger for the
open window. `LeftOpen` names what nobody works on until the next message or restart: a
pending or failed row on the newest message, claimed by this process (`era`), without a task.

*WorkStream.* `row` is the outbox row, `relayRows` what the relay has written
and not committed; `reserved`, `keyed`, `queue`, `pel`, `group` are Redis;
`handled` the worker's memory of handled events; `effects` counts commits of
the handler. `Faults` gives the sets of faults of which one may happen in a
behaviour: crashes of either process, a step of the worker that raises, an
answer of Redis that is lost, a Redis that comes back empty.

*TurnThread.* `thread` is the turn that runs (or blocks) on the event-loop
thread; `owner` the row locks; `need` the rows a turn's handlers have still to write; `todo`
and `at` the dispatcher's loop, whose one commit is `CommitMarks`. `HeldBack(r)` says that the
thread waits for a row whose owner waits for the thread.

*InboundPipeline.* `db` is what is committed, `view` the same as the turn's transaction
sees it; `plan`, `position` and `outcomes` are Execute, `attempt` counts the
pipeline's runs in one turn, `text` and `segments` are the close. The planner answers any of
`Plans`. Each action of a plan is a step: `Create` with the batch's conflicts and
idempotency keys, `MutateOne`, `Update`, `MutateAll`, `Social`, `Move`, `Setting`, `Look`, or `Blocked` at the freshness guard. The turn ends by `Reply`,
`NoReply`, `RecoverFromOutcome`, `RecoverFromFailure` or `Superseded`, after a
`Retry` perhaps; then `SendSegment`. A crash before the close rolls back and the
event comes back; one while sending leaves the rest unsent.

*ReminderFires.* `rem` and `fire` are rows; `event`, `group`, `turn` the outbox row, its
payload and the render turn of each trigger; `scan`, `job`, `edit` what each
of the three actors has read; `txRem`, `txFire` the worker's open transaction.
Triggers `1..MaxTime` are due times (the outbox key is owner and due time),
the ones behind it are resends.

*NotificationDelivery.* `row` is the `notification_recipient` row of each notice (an
invitation to a receiver, or the receipt its creator gets), `turn` the disposition of
each trigger, `events` the outbox rows, `resends` what a resend event lists. The worker
takes an event, and for each receiver replays a turn that ended, or closes, sends
(`Deliver`: delivered, refused by WeChat's window, failed) and records, all in `tx` with
the commits the code makes. `Abort` is a crash or a rollback at any point.
`ReplyCompleted` is the receiver's message that enqueues a resend.

*SocialScheduling.* `link`, `friendship`, `shared`, `projection`, `reminder` are rows,
`told` the facts about a shared reminder with their unique keys. A request is a
`Begin...` (its reads and checks) and a `Commit...` that writes the rows it read, whole;
any number may be between the two. `Refuse` is every check that asks another domain.

*ChannelLifecycle.* `channel`, `route`, `identity`, `pairing`, `claims`, `friends` are
rows, `login` and `session` the connector's, `dead` the sessions iLink has ended unnoticed.
Requests (an inbound message, a login poll, create, connect, retry, remove, a send) read and
then save whole rows; `Accept` binds the identity, saves the channel, upserts the route and
completes the deferred friend links in one commit.

*AccountAccess.* `account`, `credential`, `access`, `identity`, `activation` and `artifact`
(codes, links and tokens in the order of issue) are rows; `requests` are begun and not
committed. `TokenTake` is the update that locks a token's row before the credential and
the access row are read; `VerifyCommit` writes the access row whole. A pairing code may be issued any time by the claim
route, and is redeemed by a WhatsApp message (`PairingBegin`) or by the route, which asks for no
channel (`RedeemPairingBegin`). `opened` and `redeemed` record which session was opened by what.

*CalendarImport.* Time is a number of slots. `Ask` checks the authorization, `Read` takes
Google's list, in whatever order Google chooses (the request asks for none), and the lookups, `Finish` imports every occurrence in order (`ImportOccurrence`:
known, historical, in conflict, imported or downgraded) and commits; an error
half-way loses a page's import and keeps a chat's. `reminders`, `items` and
`authorization` are rows, `told` the summaries.

*WeChatConnector.* `session` is the state file: status, cursor, attempts, back-off;
`queue` what iLink holds, `inbox` what coke has recorded. Each poller (the loop, and the requests to the
poll route, `Routes`, of which several may run at once) has a snapshot,
the session and message it is at and its own counts (`poller`); `FinishBatch` writes them over
the file. A message may fail to parse (`ParseFails`): the session backs off and nothing is counted. The
webhook accepts, refuses or answers into the void; `Restart` kills the
service between any two steps.

## 3. The runs

All runs must pass. The inbound numbers, the clock and every counter of faults are
bounded by the guards, with the constants named `Max...`. Deadlock is checked
in `interactive_worker`, `turn_thread`, `inbound_pipeline` and
`wechat_connector`, which never stop, and switched off where everything may be done.

| run | question | shown |
|---|---|---|
| `conversation` | do the claims from stale reads, both locks, the relay and cancellations together keep the windows whole? | `ExecutesOnFreshWindow`, `NothingSkipped`, `ClosedStaysClosed`, and the refinement `WindowsPromise` |
| `work_stream` | is every row handled, and once, under pairs of faults? | `OneOutstanding`, `HandledBeforeProcessed`, `EffectsOnce`, `ReservedIsOnItsWay`; liveness `HandledUnlessCutOff` |
| `interactive_worker` | is somebody always responsible for the newest message, slow turns included, unless the module names why not? | `SomebodyIsResponsible`, `DeliveryNotCancelled`, `WindowsPromise`; liveness `DecidedUnlessGivenUp` |
| `turn_thread` | does the shared thread go on when no two turns write one row and one turn is slow? | no deadlock, liveness `TurnsFinish` |
| `inbound_pipeline` | does the text that closes a turn tell what the commit holds, over batches, retries, overtaking messages and crashes? | `ToldIsDone`, `SupersededWroteNothing`, `RepliesSentOnce` |
| `reminder_fires` | what becomes of due reminders under edits, resends, a crash or a failed rendering? | `CompletedWasSent`, `SentOnce`, `UndeliveredWasNotSent`, `SeriesInOrder`; liveness `DroppedOnlyIf` |
| `notification_delivery` | does every recipient row say what was done, and is every one settled, under resends and aborts? | `RowsTellTheTruth`; liveness `SettledUnlessCut` |
| `social_scheduling` | do crossing requests of several accounts keep links, reminders and notifications in step? | `ShownTokenWorks`, `RingsAsAgreed`, `LastFactStands` |
| `channel_lifecycle` | is a connected channel one that has a route and an owner, and no claimed friend link lost? | `ConnectedHasRoute`, `ConsumedMeansFriends` |
| `account_access` | do racing registrations, codes and first messages keep accounts, sessions and activation apart? | `OneAccountPerPerson`, `ConsumedPairingBound`, `SessionsAreGrounded`, `CompletedIsGrounded` |
| `calendar_import` | what do repeated, concurrent and failing imports make, and what do they say? | `ImportedOnce`, `ToldIsImported` |
| `wechat_connector` | do several pollers, lost answers, refusals, parse errors and kills skip, reorder or block messages? | `NothingSkipped`, `DroppedAfterTheCap`; liveness `NobodyBlocksForever` |

`TypeOK` is defined in every module; `conversation` and `work_stream` check it, and it can be added
to any other configuration.

### What does not hold

Where a strong property does not hold, the passing run has the weaker one with
its exceptions named, and the strong one is defined in the module under "What the
repository says of the program and the code does not keep", with the sentence it
quotes. `findings` in `PROJECT.json` explains each. TLC shows the counterexample with

| configuration | property | what happens |
|---|---|---|
| `MCTurnThread_relay.cfg` | `TurnsFinish` | two slow turns: the relay holds the row of one and waits for the other's, whose owner needs the thread that waits for the first |
| `MCTurnThread_rows.cfg` | `TurnsFinish` | two turns that write one row: the second blocks the thread the first needs to commit |
| `MCWorkStream_relay_crash.cfg` | `EventuallyHandled` | a relay that dies between the dedup key and XADD leaves a row that no scan publishes |
| `InteractiveWorker_redelivery.cfg` | `EveryMessageDecided` | an older event comes back, cancels the newer turn and is replayed as superseded |
| `InteractiveWorker_pending.cfg` | `EveryMessageDecided` | the relay marks a slow turn pending, its task raises, and the retry replays the pending disposition: the message stays open until the next one or a restart |
| `InteractiveWorker_stale_lock.cfg` | `ReplacementWaitsForLock` | a dead worker's lock outlives the wait of its replacement |
| `MCReminderFires_group.cfg` | `NothingDropped` | a series that catches up reaches a due time whose outbox row exists already |
| `MCReminderFires_deleted.cfg` | `DeletedSeriesStaysDeleted` | a delivery writes back a series that was deleted after its read |
| `MCSocialScheduling_cancel.cfg` | `ActiveCanBeCancelled` | an update that read before a cancellation makes the reminder active again; its cancellation key is taken |
| `MCSocialScheduling_links.cfg` | `OneLinkPerOwner` | two first requests for a link insert two rows, after which none can be shown |
| `MCWeChatConnector_rejections.cfg` | `RejectedAtMostMaxTimes` | a dropped message is posted again when a later one of its batch is refused |
| `MCWeChatConnector_unparsed.cfg` | `NobodyBlocksForever` | without `ParsingRecovers`, a message whose parsing raises every time is fetched again for ever, outside the cap on attempts |
| `MCNotificationDelivery_cut.cfg` | `EveryRecipientSettled` | an abort between close and record leaves the recipient pending for ever |

and, added to the configuration of a passing run (as an INVARIANT, or as a PROPERTY
without the SYMMETRY line where marked *),

| configuration | property |
|---|---|
| `MCConversationRuntime.cfg` | `OnlyMediaSuppressed`, `PendingNeverCloses`, `OnlyTerminalReplayed`*, `WaitingTextOnce`, `DecidedOnce` |
| `MCInboundPipeline.cfg` | `VisibleSuccessIsCommitted`, `RecoveryIsGrounded`, `SecondRunTellsAll` |
| `MCChannelLifecycle.cfg` | `ConnectedCanSend`, `RetryCanSucceed`, `ClaimsDoNotBlock`, `RemovedStaysRemoved`* |
| `MCAccountAccess.cfg` | `SingleUse`, `ResetStands`*, `ActivationStands`* (with `MaxOutside` = 2) |
| `MCCalendarImport.cfg` | `SkippedWasImported`, `SeriesIsImported`, `NotPossibleMadeNothing` |

`MCWeChatConnector_two.cfg` is a larger instance with two sessions; it holds.

### Bounds and why they are enough

- `conversation`: two turns and two messages give a stale claim, a claim of
  the same window by two turns, a pending turn that closes its own window
  again, and a close between another task's read and its write. A third turn only
  repeats one of these roles; the theorems of section 5 hold for any number.
- `work_stream`: two rows, because the relay's batch and the order of the stream
  need two; message ids up to three, because one row needs a second message
  after a lost answer or an empty Redis. Faults come in pairs, which is what a second
  fault during recovery from the first needs.
- `interactive_worker`: two messages fill the active turn and the pending slot, or supersede
  a marked turn; two failures are the retry and the end of
  it; one crash, redelivery and lock timeout each. `MaxLoad` bounds messages and faults together at
  five, so that two messages meet any three faults. A third message can only overwrite the pending slot:
  that is covered by the theorems of section 5, which hold for any numbers.
- `turn_thread`: three conversations are one to hold a row, one to block the
  thread, one to stand by.
- `inbound_pipeline`: two turns of a conversation, so that the second meets what the first left;
  four reminders, one recurring and two that clash; eight plans that put every
  operation next to one it disturbs (a batch before a create, a delete before a
  create that clashed with it, an update onto a clash). The second run of a retried pipeline may take
  any other plan. Two segments and one crash.
- `reminder_fires`: two due times, one series and one shared reminder give a
  catch-up of one occurrence and a group of two fires. `MaxLoad` bounds
  edits and resends together at two: two resends of one fire, or one of each.
- `notification_delivery`: one fact with two receivers has two invitations and two
  receipts, so that a batch can be cut after its first; two resends list one row
  twice; one abort.
- `social_scheduling`: three accounts, two link rows, four friendship rows (a pair that
  parts and meets again needs a second), two shared reminders at two times; three requests
  at once or one after the other, of any kinds. Three give a reader, a
  writer that overtakes it and a third that meets the result; the theorems hold for any number.
- `channel_lifecycle`: an account with WeChat, its friend's link, one account made by
  WhatsApp, two WhatsApp senders, three channel rows; three requests and three events
  outside (logins, expiries, codes, links disabled).
- `account_access`: two accounts compete for one e-mail address, two senders and one code; two
  codes, four requests that write, one outside event.
- `calendar_import`: two attendees of one meeting, a series and one event Coke cannot
  express, listed in every order; two imports, one reminder of the owner's, three slots of time.
- `wechat_connector`: two messages are a poison message and one behind it; two
  attempts, a poll of the route beside the loop's, one kill. The safety invariants are proved for any
  number of pollers.

### Fairness and why the code justifies it

- Weak fairness for the loops: the relay, the scheduler, the worker's main
  thread and the connector's poll thread run `while True` with a sleep, and the event loop serves its tasks. No fairness is
  assumed for users, messages, edits, faults, crashes or the clock.
- Strong fairness where a step competes for something that is free again and
  again: a pending entry (`ReclaimAny`) is tried at the start of every worker iteration;
  a row lock (`AckRow`, `LockConversation`, `MarkPending`) is queued by
  Postgres; the Redis lock (`AcquireLock`) is polled every 50 ms; an event
  (`HandleEvent`, `BeginRender`) waits in a stream that is read in order;
  `Execute` and `CloseTurn` wait for the thread among tasks that the loop serves in turn.
- `InteractiveWorker` assumes nothing of `MarkSlow`, `AgentTimesOut`, `RefuseNoReply`,
  `LockWaitTimeout` and `TurnFails`: they may happen or not.
- `NotificationDelivery` needs weak fairness of the worker alone. `WeChatConnector` (`PollFairness`) needs it
  of the loop's start, the pollers' steps and the end of the back-off, and strong fairness of
  `FetchAll`: iLink, asked again and again, now and then answers with all it has.
  `ParsingRecovers` is strong fairness of getting past one message's parsing, a real assumption: the code
  does not ensure it (`MCWeChatConnector_unparsed.cfg`).
  Nothing is assumed of the webhook, which may refuse every message for ever. iLink holds
  finitely many messages (`MaxMessages`): if a refused one came before every poll, every message would be
  handled, but the cursor would not be saved.
- The user of `ReminderFires` finishes an edit he has begun (`CommitEdit`, one request).
- `ConversationRuntime` states no fairness: what must happen in the end is
  `InteractiveWorker`'s matter, with the tasks' starts and retries in it. The request
  modules (`SocialScheduling`, `ChannelLifecycle`, `AccountAccess`, `CalendarImport`) and
  `InboundPipeline` make only safety claims.

### Mutants

For each property of a passing run, `mutants` gives a form of one definition
with a plausible bug, written beside the definition it changes (`ReadAnyWindow` for
`ReadWindow`, `GuardBlind` for `Guard`, a relay that marks without the lock, a publish that keeps its
key, a retry without limit, a save that overwrites what it should merge). The property fails on it.

## 4. What the models leave out

- Contents: message bodies, plans, prompts, wording, time zones. A planner may
  answer anything its caller accepts; Express words the outcomes it is given, or fails.
- The reply pub/sub between worker and API; logging; tool adapters of composition.
- The circuit breaker and transport retry of the waiting text.
- Elapsed time: a timeout is a step that may happen, in any order with the
  others. How long the webhook waits for a row lock is therefore out of reach.
- Two workers: the deployment runs one (`InteractiveWorker` has the old one's
  lock, not its steps).
- Proactive follow-ups and the nightly summary, their scans and their switch.
- Pending clarifications: no handler sets `unresolved_action_fingerprint`, so no
  record is ever saved. `complete_async_reply` and the reconciler of
  pending recipients have no caller either; so a pending turn is closed only by its own task,
  or superseded (`LeftOpen` of `InteractiveWorker`).
- Intervals: two reminders overlap when their slots are equal. A personal
  reminder in the way of a shared one is one of the reasons of `Refuse`.
- Pure functions over dates: recurrence, temporal normalisation, the calendar
  read model. A series is a sequence of due times.
- Hashing, e-mail, OAuth, HTTP paging; attempt rows and context tokens of sends.
- LLM adapters, web client, migrations, scripts.

## 5. What is proved

Eight modules hold theorems, for any size of the constants, and every leaf of every proof is
checked. Nothing is assumed but the ASSUME of the module a theorem is about, which TLC
evaluates in its run.
Each proof has the same shape: an inductive invariant (model-checked first, called `IInv` where
there is one for the module), a step per action, and the property as a consequence.

Every invariant, every action property and every refinement that a run checks is stated by a
theorem of the same module. Three proofs modules are about more than one module, which are parts of one
process or stand next to each other in a turn:

| proofs module | about | assumptions |
|---|---|---|
| `ConversationRuntime_proofs` | `ConversationRuntime`, `InputWindows` | `ConstantsAssumption` |
| `WorkStream_proofs` | `WorkStream`; `InteractiveWorker` with `InputWindows`; `TurnThread` | `StreamAssumption`; `WorkerAssumption`; `ThreadAssumption` |
| `InboundPipeline_proofs` | `InboundPipeline`; `CalendarImport`, which a turn runs for an import action | `PipelineAssumption`; `CalendarAssumption` |
| `ReminderFires_proofs` | `ReminderFires` | `FiresAssumption` |
| `SocialScheduling_proofs` | `SocialScheduling`; `NotificationDelivery`, which delivers its facts | `SocialAssumption`; `DeliveryAssumption` |
| `ChannelLifecycle_proofs` | `ChannelLifecycle` | `ChannelAssumption` |
| `AccountAccess_proofs` | `AccountAccess` | `AccountAssumption` |
| `WeChatConnector_proofs` | `WeChatConnector` | `ConnectorAssumption` |

### Conversations and the worker

`ConversationRuntime_proofs` proves about `ConversationRuntime`, for any set of
turns and any `MaxSeq`, from `ConstantsAssumption` (`MaxSeq` is a natural number;
`Relay` and `NoOne` are no turns and differ):

| theorem | says |
|---|---|
| `Invariance` | the inductive invariant `IInv` always holds |
| `TypeCorrect` | `TypeOK` |
| `FreshExecution` | `ExecutesOnFreshWindow` |
| `NoMessageSkipped` | `NothingSkipped` |
| `ClosesAreDurable` | `ClosedStaysClosed` |
| `KeepsPromise` | the specification implements `InputWindows` |

The safety invariants are not inductive alone: `NothingSkipped` needs that a
closing window starts at the first open message, which follows from a read made
long before. `IInv` adds

- `ClaimsOK`: a claimed window is a non-empty range of recorded messages that
  starts no later than the first open one. A close moves `lastClosed` forward
  only, so a stale claim stays in this form, and the guard of the close
  (`from = lastClosed + 1` and `to = latest`, under the row lock) does the rest;
- `RelayOK`: the relay has uncommitted rows only while it owns the row lock, so
  no close can commit between its read and its commit. A pending row never
  belongs to a turn that has closed;
- `ClosersAreOver`: a turn whose close is committed is in a state from which its
  disposition is not written, and one still under way has no final disposition
  but superseded: `mark_failed` and the cancellation, which write without the
  conversation lock, have nothing to undo.

`NextIInv` has one step per action. `StepPromise` maps every step to a step of
`InputWindows` or a stutter: only `RecordInbound` and the closes move a counter,
and a re-close of a pending turn's own window does not.

`WorkStream_proofs` proves every safety invariant of `WorkStream`, for any set
of rows, any bound on message ids and any sets of faults, from
`StreamAssumption` (`Events` is finite, `NoEvent` is no event, `MaxId` is positive):

| theorem | says |
|---|---|
| `TypeCorrect` | `TypeOK` |
| `NothingProcessedUnhandled` | `HandledBeforeProcessed` |
| `OneMessageOutstanding` | `OneOutstanding` |
| `HandledOnce` | `EffectsOnce` |
| `KeyStandsForMessage` | `ReservedIsOnItsWay` |

Its `IInv` has four groups beside the types:

- `ActorsOK`: only recorded rows are worked on or have keys; the message the relay has
  added is of its event;
- `HandledInv`: whoever says that a row is processed (the row, the relay's
  uncommitted write, the value the relay has read, the worker past its
  handler, the memory of handled events) has it from a commit of the handler;
- `OnceInv`: an event whose handler committed is remembered, or is the one the
  worker is at;
- `KeysOK`, as long as no answer was lost and Redis kept its data: every
  message in the stream has its dedup key, the queue has no repetitions and
  shares nothing with the pending list, at most one message of an event has a
  message key, and while the relay adds an event, or the worker cleans its key,
  nothing of that event is in the stream.

The same module proves about `InteractiveWorker`, for any numbers of messages, crashes, failures,
redeliveries and timeouts, from `WorkerAssumption` (all of them naturals, one message at least):

| theorem | says |
|---|---|
| `WorkerTypesHold` | `WorkerTypeOK` |
| `SomebodyAlwaysResponsible` | `SomebodyIsResponsible` |
| `ADeliveryIsNotCancelled` | `DeliveryNotCancelled` |
| `WorkerKeepsTheWindows` | the specification implements `InputWindows` |

`SomebodyIsResponsible` has two exceptions. `GivenUp`: an event came back, or a second task raised.
`LeftOpen`: the newest turn is pending or failed with no task at work on it. `OpenInv` is
what makes somebody responsible: as long as a message is open, nothing was given up and nothing is left open, the
process is down (and its restart will look), or an event the worker has not acknowledged will be
taken up, or the task, the pending slot or a failure with a retry left will. To keep it

- `FreshInv` and `RecoverInv`: unless an event came back, one that is not acknowledged, and
  the next restart's trigger, have left no trace in the rows or in memory (`Unused`), so taking them up is
  not a replay;
- `EraInv`: a row the supervisor still remembers was claimed by this process, so a pending or failed row
  that a retry would only replay is `LeftOpen` and not one of an earlier process, which the restart has taken over;
- `ActiveInv`, `ClaimInv`, `TaskInv`: the window of an active or pending row starts at the first open message or
  does not reach the newest; what a task has read but not written is still true enough, because each newer message
  either waits for its own event or is left out by name; the pending slot is used only behind a commit of a
  reply or of a waiting text;
- `CountInv`: every failure and every retry had its exception (`failed`), so a
  message whose retries are used up was given up in a named way;
- `ThreadInv`, `NewsInv`: a dead process remembers nothing, failures are drained right after the
  completed turns, a message that has not come has no event.

For `WorkerKeepsTheWindows`, `Close` is the only step that moves `lastClosed`, and it moves it to `latest`.

About `TurnThread`, from `ThreadAssumption` (rows, conversations and the two markers are apart):

| theorem | says |
|---|---|
| `ThreadTypesHold` | `ThreadTypeOK` |
| `StandstillsAreExplained` | `StandstillExplained` |
| `ApartNeverStandsStill` | no `HeldBack` row, if no two conversations write one row and at most one is slow |

The first two hold of every instance, the ones that lock up included: whenever the thread waits for a row
whose owner waits for the thread, two turns write one row or the dispatcher marks two slow turns in one
transaction. These are the first two counterexamples of section 3, and the theorem says that there is no third kind.
`LocksInv` names who may hold which row. That the thread then does go on is `TurnsFinish`, a matter of
fairness.

### A turn and what it does

`InboundPipeline_proofs`, for any items, clashes, plans, turns, segments and crashes, from
`PipelineAssumption`:

| theorem | says |
|---|---|
| `PipelineTypesHold` | `TypeOK` |
| `TextsTellTheTruth` | `ToldIsDone` |
| `OvertakenWritesNothing` | `SupersededWroteNothing` |
| `SegmentsLeaveOnce` | `RepliesSentOnce` |

A mutating action other than a setting needs the guard, the guard locks the conversation row, and
with the row locked no newer message is recorded: so `did` holds no more than a setting
while the row is not locked, and a turn that has written more is never superseded (`LockInv`).
`SendInv`: before the close nothing is sent; from then on what was sent and what is left are
the segments the turn was closed with. `ToldInv`: while the turn is open, what its outcomes tell and what its
transaction wrote agree, with two exceptions that the property names: a key taken by
another item, and what a first run of the pipeline left behind. Idempotency keys of the turn stand for effects of the turn.

A batch of creates is a recursion over its items. `BatchInv` is what each item keeps (the active
reminders do not overlap, the keys stand for effects, what is told is done); `KeptByEachStep` and
`StepByStep` carry such a statement along a recursive function, argued from
the least index for which it would fail (`LeastNatural`), so the proof needs no induction
theorem with an operator as parameter.

About `CalendarImport`, for any events, calendars, accounts, times and imports, from
`CalendarAssumption` (the events are finitely many; each has a kind and a start):

| theorem | says |
|---|---|
| `ImportTypesHold` | `ImportTypeOK` |
| `OccurrencesAreImportedOnce` | `ImportedOnce` |
| `SummariesAreTrue` | `ToldIsImported` |

`ImportInv`: an occurrence has one item (the unique key); an answer that tells of a reminder has
its item and its reminder; one active reminder at most is of an occurrence and owner. An import
that lost the item's race finds the first one's reminder only while it is active: what
excludes a second reminder is `WellMade`. A reminder of an event is at the event's start, or it is a series
that has gone on; so until the start the index of active reminders finds it, and after the
start the import records the occurrence as historical. The loop over occurrences is a
recursion again, handled by the same lemmas (`ResultInv`).

### Reminders and notifications

`ReminderFires_proofs`, from `FiresAssumption`, any reminders, times, edits, resends and faults:

| theorem | says |
|---|---|
| `TypesHold` | `TypeOK` |
| `OneText` | `SentOnce` |
| `CompletedBySending` | `CompletedWasSent` |
| `SentIsNotUndelivered` | `UndeliveredWasNotSent` |
| `NothingSkipped` | `SeriesInOrder` |

The rows and the worker's uncommitted rows are related to the history of sends and to
the job's step: a fire is completed, in either, only after its send; a turn that has closed is
never sent again. For `SeriesInOrder` each series is looked at twice, as everybody sees it and as
the worker's transaction does (`OrderInv`, `SeriesOK`): in both a fire is at the next time or
completed with the occurrence behind it; a transaction that moved the series on has completed
the occurrence others still see; and what the scan has read is at the next time or claimed already.

`SocialScheduling_proofs`, from `SocialAssumption`:

| theorem | says |
|---|---|
| `Inductive` | `IInv` always holds |
| `TypesHold` | `TypeOK` |
| `ShownTokensOpen` | `ShownTokenWorks` |
| `ArmedAsAgreed` | `RingsAsAgreed` |
| `LastTold` | `LastFactStands` |

A request writes back rows it read before others committed. What saves the
properties is that a commit writes the shared row, the projections and reminders
of every participant and the fact **together**, so that whichever of two
crossing commits is last leaves them all in step (lemma `SharedKeeps`); and that a fact with a taken key refuses the whole
commit. `RequestOK` says what is still true of a stale reading: the row exists and has the
same participants (`Settled`: they never change).

About `NotificationDelivery`, for any facts, receivers, resends and aborts, from `DeliveryAssumption`
(facts and receivers are finitely many, the creator is no receiver):

| theorem | says |
|---|---|
| `RowsAreTrue` | `RowsTellTheTruth` |

A notice is first sent by its own turn, and the turn's close is committed before the
send: seen again, it is replayed without effect (`OwnTurnInv`). So a second send is a resend's, and one
that sends what was sent already was listed while the first resend had not recorded
(`OnceInv`). `NotedInv`, `WorkInv`, `ReceiptInv` and `DeliveredInv` relate rows, events, the worker's open
transaction and the receipts.

### Accounts, channels and the connector

`ChannelLifecycle_proofs`, from `ChannelAssumption`:

| theorem | says |
|---|---|
| `Inductive` | `IInv` always holds |
| `TypesHold` | `TypeOK` |
| `ConnectedIsRouted` | `ConnectedHasRoute` |
| `ConsumedLinksAreFriends` | `ConsumedMeansFriends` |

`OneActive` is the unique index; `RequestOK` with `Settled` says that a subject once bound keeps its account,
which is why a channel row saved from a stale reading still names its owner; the
commit that connects a channel upserts its route in the same transaction, and a
removal retires it with the row.

`AccountAccess_proofs`, from `AccountAssumption`:

| theorem | says |
|---|---|
| `Inductive` | `IInv` always holds |
| `TypesHold` | `TypeOK` |
| `PeopleKeepTheirAccounts` | `OneAccountPerPerson` |
| `PairingBinds` | `ConsumedPairingBound` |
| `EverySessionIsGrounded` | `SessionsAreGrounded` |
| `CompletionIsEarned` | `CompletedIsGrounded` |

`ArtifactOK`, `RequestOK` and `SessionOK` say that what a request has read of a code is
still true of the row it will write: type, account and browser of a code never change, the
account a claim code was given to has redeemed it and stays on record, and an account
that had a channel once is in `everUp` for good.

`WeChatConnector_proofs`, from `ConnectorAssumption`, any sessions, route pollers, messages, attempts, polls and
kills:

| theorem | says |
|---|---|
| `Inductive` | `IInv` always holds |
| `NoMessageIsSkipped` | `NothingSkipped` |
| `GivenUpAfterTheCap` | `DroppedAfterTheCap` |

The argument is monotone: what is handled (recorded, empty or given up) stays handled, and
queues only grow, so a cursor from a snapshot of any age may be written back: everything
before it is handled still. The counts in a snapshot are at most the rejections that happened.

### Model-checked only

- Liveness: `HandledUnlessCutOff`, `DecidedUnlessGivenUp`, `TurnsFinish`, `DroppedOnlyIf`,
  `SettledUnlessCut` and `NobodyBlocksForever`. It rests on fairness and ENABLED, outside this prover's reach.
- The type invariants `DeliveryTypeOK` (its bound on the number of sends follows from the number of
  resends by counting) and that of `WeChatConnector` (its proofs use weaker types). No run lists them.
- The counterexamples of section 3: that a property fails needs one behaviour, not a proof.

## 6. Plan

What is left, in this order; each comes with its run, its hazards and mutants.

1. The two type invariants above, and the absence of a standstill between the
   worker's main thread and the supervisor, on the pattern of `ApartNeverStandsStill`.
2. `ProactiveFires`: follow-ups, nightly summary and the settings switch, on the pattern of
   `ReminderFires`.
3. Pure algorithms as operators checked against a reference over small
   calendars: recurrence, temporal normalisation, availability, calendar read model.
4. Composition of `NotificationDelivery` and `WorkStream`: the events of the first
   as the rows of the second, instead of an event set.
5. The waiting text's circuit breaker and transport retry.
