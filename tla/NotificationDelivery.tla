------------------------- MODULE NotificationDelivery -------------------------
(***************************************************************************)
(* What becomes of a notification (domains/social_scheduling, the render   *)
(* turns of turn/runner.py, the lifecycle callbacks of composition.py and  *)
(* worker/__main__.py): a shared reminder writes a fact with a row per     *)
(* receiver and an outbox row; the worker's main thread renders one turn   *)
(* per receiver, commits the turn's close, sends, and records the outcome  *)
(* in a second transaction; a delivered invitation writes a receipt for    *)
(* its creator, a fact of its own; a send outside WeChat's reply window    *)
(* leaves the row undelivered until the receiver's next message, which     *)
(* enqueues a resend of whatever is undelivered at that moment.            *)
(*                                                                         *)
(* The relay and the stream are those of WorkStream: an event is handled,  *)
(* and handled again after a crash or a rollback, in no particular order.  *)
(* The worker writes rows in the transaction tx; api calls and interactive *)
(* turns commit beside it and see only what is committed.                  *)
(***************************************************************************)
EXTENDS Naturals, FiniteSets

CONSTANTS
    Facts,        \* shared_reminder_created facts
    Creator,      \* account that creates them
    Receivers,    \* accounts invited by each of them
    MaxResends,   \* resend events of a behaviour
    MaxAborts     \* crashes and rollbacks of the worker

ASSUME DeliveryAssumption ==
    /\ Creator \notin Receivers
    /\ IsFiniteSet(Facts) /\ IsFiniteSet(Receivers)
    /\ {MaxResends, MaxAborts} \subseteq Nat

Notified == Receivers \cup {Creator}

VARIABLES
    created,       \* facts that are there
    conversation,  \* accounts that have written at least once
    row,           \* notification_recipient rows: delivery_state, "none" without one
    turn,          \* disposition of the turn of each trigger
    events,        \* outbox rows on their way to the worker, or being handled
    resends,       \* what each resend event lists (its payload)
    job,           \* what the worker is at
    tx,            \* the worker's view: committed rows with its own writes
    sent,          \* history: per notice, turns that have sent it
    cut,           \* history: triggers aborted between their close and their record
    aborts

deliveryVars ==
    <<created, conversation, row, turn, events, resends, job, tx, sent, cut, aborts>>

\* A recipient row: of the invitation to a receiver, or of the receipt that
\* tells the creator of that invitation's delivery.
Notices == [kind : {"invitation", "receipt"}, fact : Facts, receiver : Receivers]
Addressee(n) == IF n.kind = "invitation" THEN n.receiver ELSE Creator
Receipt(n) == [n EXCEPT !.kind = "receipt"]

\* A trigger is a notice, or a resend event with its number.
Resends == [kind : {"resend"}, number : 1..MaxResends]
Triggers == Notices \cup Resends

\* An event is that of a fact, of a receipt, or a resend.
Events ==
    [kind : {"created"}, fact : Facts]
    \cup {n \in Notices : n.kind = "receipt"}
    \cup Resends

States == {"none", "pending", "delivered", "undelivered", "failed"}
Dispositions == {"none", "replied", "failed", "no_reply"}

\* What a transaction of the worker can write.
Rows == [row : [Notices -> States], turn : [Triggers -> Dispositions], events : SUBSET Events]
NoJob == [event |-> {}, left |-> {}, at |-> {}]
Committed == [row |-> row, turn |-> turn, events |-> {}]

DeliveryInit ==
    /\ created = {}
    /\ conversation \in SUBSET Notified
    /\ row = [n \in Notices |-> "none"]
    /\ turn = [t \in Triggers |-> "none"]
    /\ events = {}
    /\ resends = << >>
    /\ job = NoJob
    /\ tx = Committed
    /\ sent = [n \in Notices |-> 0]
    /\ cut = {}
    /\ aborts = 0

-----------------------------------------------------------------------------
(* Beside the worker.                                                      *)

\* The first message of an account starts its conversation.
FirstInbound(a) ==
    /\ a \notin conversation
    /\ conversation' = conversation \cup {a}
    /\ UNCHANGED <<created, row, turn, events, resends, job, tx, sent, cut, aborts>>

\* create_fact in a request's savepoint: the fact, its rows, its outbox row.
CreateFact(f) ==
    /\ f \notin created
    /\ created' = created \cup {f}
    /\ LET Recorded(rows) == [n \in Notices |->
               IF n.fact = f /\ n.kind = "invitation" THEN "pending" ELSE rows[n]]
       IN  /\ row' = Recorded(row)
           /\ tx' = [tx EXCEPT !.row = Recorded(@)]
    /\ events' = events \cup {[kind |-> "created", fact |-> f]}
    /\ UNCHANGED <<conversation, turn, resends, job, sent, cut, aborts>>

\* undelivered_notification_resend_turn.
UndeliveredOf(a) == {n \in Notices : Addressee(n) = a /\ row[n] = "undelivered"}

\* A reply to the account's message has been delivered: what is undelivered is
\* listed and a resend enqueued, keyed by that message.
ReplyCompleted(a) ==
    /\ a \in conversation
    /\ Cardinality(DOMAIN resends) < MaxResends
    /\ UndeliveredOf(a) # {}
    /\ LET number == Cardinality(DOMAIN resends) + 1 IN
       /\ resends' = [i \in 1..number |-> IF i = number THEN UndeliveredOf(a) ELSE resends[i]]
       /\ events' = events \cup {[kind |-> "resend", number |-> number]}
    /\ UNCHANGED <<created, conversation, row, turn, job, tx, sent, cut, aborts>>

-----------------------------------------------------------------------------
(* The worker's main thread.                                               *)

besideUnchanged == UNCHANGED <<created, conversation, resends>>

\* The triggers of an event, and the rows one of them speaks of.
TriggersOf(e) ==
    IF e.kind = "created" THEN {n \in Notices : n.fact = e.fact /\ n.kind = "invitation"} ELSE {e}
About(t) == IF t.kind = "resend" THEN resends[t.number] ELSE {t}

\* Mutant of Settle: the provider's word is recorded as it is.
SettleAsSent(rows, notices, state) ==
    [rows EXCEPT !.row = [n \in Notices |->
        IF n \notin notices THEN rows.row[n] ELSE IF state = "delivered" THEN "sent" ELSE state]]

\* record_delivery: the state of the notices' rows.
Settle(rows, notices, state) ==
    [rows EXCEPT !.row = [n \in Notices |-> IF n \in notices THEN state ELSE rows.row[n]]]

\* Invitations whose delivery their creator has not been told of.
Unreceipted(rows, notices) ==
    {n \in notices : n.kind = "invitation" /\ rows.row[Receipt(n)] = "none"}

\* Mutant of Record: the receipt does not wait for the delivery.
RecordWithReceipt(rows, notices, state) ==
    LET receipts == {Receipt(n) : n \in Unreceipted(rows, notices)}
    IN  [Settle(Settle(rows, notices, state), receipts, "pending") EXCEPT
           !.events = @ \cup receipts]

\* Mutant of Record: a delivered invitation is recorded and its creator not told.
RecordSilently(rows, notices, state) == Settle(rows, notices, state)

\* record_notification_delivery for each of the notices: its row, and once per
\* invitation, when it is delivered, the creator's receipt.
Record(rows, notices, state) ==
    LET receipts == IF state = "delivered" THEN {Receipt(n) : n \in Unreceipted(rows, notices)}
                    ELSE {}
    IN  [Settle(Settle(rows, notices, state), receipts, "pending") EXCEPT
           !.events = @ \cup receipts]

Write(rows) == tx' = rows /\ UNCHANGED <<row, turn, events>>

CommitRows(rows) ==
    /\ row' = rows.row
    /\ turn' = rows.turn
    /\ events' = events \cup rows.events
    /\ tx' = [rows EXCEPT !.events = {}]

\* The triggers of the event are built; a receiver without a conversation is
\* settled there and then.
TakeEvent(e) ==
    /\ job = NoJob
    /\ e \in events
    /\ LET deaf == {t \in TriggersOf(e) \cap Notices : Addressee(t) \notin conversation} IN
       /\ job' = [event |-> {e}, left |-> TriggersOf(e) \ deaf, at |-> {}]
       /\ Write(Settle(tx, deaf, "failed"))
    /\ besideUnchanged
    /\ UNCHANGED <<sent, cut, aborts>>

\* Mutant of Fresh: the disposition of an earlier attempt is not looked at.
AlwaysFresh(t) == TRUE

\* Without an earlier disposition the turn is not a replay.
Fresh(t) == tx.turn[t] = "none"

Turn(t) == job.at = {} /\ t \in job.left

\* _replayed_result: the turn has ended before, nothing is done again.
Replay(t) ==
    /\ Turn(t)
    /\ ~Fresh(t)
    /\ job' = [job EXCEPT !.left = @ \ {t}]
    /\ besideUnchanged
    /\ UNCHANGED <<row, turn, events, tx, sent, cut, aborts>>

\* Ended(t, d): the turn has disposition d; a notification without a reply to
\* send is settled with it (_record_render_failure_lifecycle).
Ended(t, disposition) ==
    [(IF t \in Notices THEN Settle(tx, {t}, "failed") ELSE tx) EXCEPT !.turn[t] = disposition]

\* The lock, the facts or the rendering fail; or the output is "no reply".
RenderFails(t) ==
    /\ Turn(t)
    /\ Fresh(t)
    /\ Write(Ended(t, "failed")) \/ CommitRows(Ended(t, "no_reply"))
    /\ job' = [job EXCEPT !.left = @ \ {t}]
    /\ besideUnchanged
    /\ UNCHANGED <<sent, cut, aborts>>

\* commit_reply and the commit of the close.
Close(t) ==
    /\ Turn(t)
    /\ Fresh(t)
    /\ CommitRows([tx EXCEPT !.turn[t] = "replied"])
    /\ job' = [job EXCEPT !.left = @ \ {t}, !.at = {t}]
    /\ besideUnchanged
    /\ UNCHANGED <<sent, cut, aborts>>

\* The text is sent, and what came of it recorded: a missing or outdated context
\* token leaves it undelivered.
Deliver(t) ==
    /\ job.at = {t}
    /\ \E outcome \in {"delivered", "undelivered", "failed"} :
          /\ Write(Record(tx, About(t), outcome))
          /\ sent' = [n \in Notices |->
                IF outcome = "delivered" /\ n \in About(t) THEN sent[n] + 1 ELSE sent[n]]
    /\ job' = [job EXCEPT !.at = {}]
    /\ besideUnchanged
    /\ UNCHANGED <<cut, aborts>>

\* The event is through, its transaction committed, the outbox row processed.
Finish(e) ==
    /\ job.event = {e} /\ job.left = {} /\ job.at = {}
    /\ row' = tx.row
    /\ turn' = tx.turn
    /\ events' = (events \cup tx.events) \ {e}
    /\ tx' = [tx EXCEPT !.events = {}]
    /\ job' = NoJob
    /\ besideUnchanged
    /\ UNCHANGED <<sent, cut, aborts>>

\* The worker dies, or an exception rolls its transaction back; the event comes
\* again.
Abort ==
    /\ job # NoJob
    /\ aborts < MaxAborts
    /\ aborts' = aborts + 1
    /\ cut' = cut \cup {t \in Triggers :
          /\ turn[t] = "replied"
          /\ t \in job.at \/ \E n \in About(t) : tx.row[n] # row[n]}
    /\ job' = NoJob
    /\ tx' = Committed
    /\ besideUnchanged
    /\ UNCHANGED <<row, turn, events, sent>>

-----------------------------------------------------------------------------

Worker ==
    \/ \E e \in events : TakeEvent(e)
    \/ \E t \in job.left : Replay(t) \/ RenderFails(t) \/ Close(t)
    \/ \E t \in job.at : Deliver(t)
    \/ \E e \in job.event : Finish(e)

DeliveryNext ==
    \/ \E a \in Notified : FirstInbound(a) \/ ReplyCompleted(a)
    \/ \E f \in Facts : CreateFact(f)
    \/ Worker
    \/ Abort

\* The worker's loop goes on; nobody has to write to it.
DeliveryFairness == WF_deliveryVars(Worker)

DeliverySpec == DeliveryInit /\ [][DeliveryNext]_deliveryVars
FairDeliverySpec == DeliverySpec /\ DeliveryFairness

-----------------------------------------------------------------------------
(* Properties.                                                             *)

DeliveryTypeOK ==
    /\ created \subseteq Facts
    /\ conversation \subseteq Notified
    /\ row \in [Notices -> States]
    /\ turn \in [Triggers -> Dispositions]
    /\ events \subseteq Events
    /\ DOMAIN resends \subseteq 1..MaxResends
    /\ \A i \in DOMAIN resends : resends[i] \subseteq Notices /\ resends[i] # {}
    /\ job.left \subseteq Triggers /\ job.at \subseteq Triggers /\ job.event \subseteq events
    /\ tx.row \in [Notices -> States] /\ tx.turn \in [Triggers -> Dispositions]
    /\ tx.events \subseteq Events
    /\ job = NoJob => tx = Committed
    /\ \A n \in Notices : sent[n] \in 0..MaxResends + 1
    /\ cut \subseteq Triggers
    /\ aborts \in 0..MaxAborts

CutOff(n) == \E t \in cut : n \in About(t)
ListedTwice(n) == Cardinality({i \in DOMAIN resends : n \in resends[i]}) >= 2

\* What the rows say was done: a delivered notification was sent; the creator is
\* told of deliveries only; nothing is sent twice, and what was sent is not on
\* record as undelivered or failed, unless two messages of the receiver each
\* started a resend of it, or the worker was aborted before it could record, or is
\* about to commit.
RowsTellTheTruth ==
    \A n \in Notices :
       /\ row[n] = "delivered" => sent[n] > 0
       /\ n.kind = "invitation" /\ row[Receipt(n)] # "none" => sent[n] > 0
       /\ sent[n] > 1 => ListedTwice(n)
       /\ row[n] \in {"undelivered", "failed"} /\ sent[n] > 0 =>
             ListedTwice(n) \/ CutOff(n) \/ tx.row[n] = "delivered"

\* "Every terminal NotificationTurn path settles each target notification
\* recipient" (docs/ARCHITECTURE.md:377-378), and the creator is told of a delivered
\* invitation (docs/ARCHITECTURE.md:382-384): unless the worker was aborted
\* between the close and the record.
SettledUnlessCut ==
    \A n \in Notices :
       /\ (row[n] = "pending") ~> (row[n] # "pending" \/ CutOff(n))
       /\ n.kind = "invitation" =>
             ((sent[n] > 0) ~> (row[Receipt(n)] # "none" \/ CutOff(n)))

-----------------------------------------------------------------------------
(* What the repository says of the program and the code does not keep.     *)

\* "Every terminal NotificationTurn path settles each target notification
\* recipient as delivered, failed, or undelivered ... A reconciler may repair
\* stale pending recipients" (docs/ARCHITECTURE.md:377-379).  The replay of a turn
\* that was aborted after its close settles nothing, and nothing calls the reconciler.
EveryRecipientSettled == \A n \in Notices : (row[n] = "pending") ~> (row[n] # "pending")
=============================================================================
