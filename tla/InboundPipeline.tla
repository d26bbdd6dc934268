--------------------------- MODULE InboundPipeline ---------------------------
(***************************************************************************)
(* What an inbound turn does once it is claimed (turn/inbound/pipeline.py  *)
(* and its handlers, express.py, close.py, the reminder batches of         *)
(* domains/reminder, the failure paths of turn/runner.py): the planner     *)
(* proposes actions, Execute runs them one by one in the transaction of    *)
(* the turn, Express words the outcomes, Close commits both, and the       *)
(* segments are sent.                                                      *)
(*                                                                         *)
(* The planner is a language model: any plan, another one each time it is  *)
(* asked, or nothing usable.  Express is trusted to word the outcomes it   *)
(* is given, or to fail.  A turn that loses its worker is redelivered.     *)
(* Texts, times and the rows themselves are left out: a reminder is an     *)
(* item (its content and its time), Clashes the pairs whose times overlap. *)
(* Friends, shared reminders and calendar imports are single writes here.  *)
(* Pending clarifications are left out: no handler makes one and the       *)
(* planner's schema drops the key that resolves one.                       *)
(***************************************************************************)
EXTENDS Naturals, FiniteSets, SequencesExt

CONSTANTS
    Items,          \* reminders a turn may name
    Recurring,      \* those that recur
    Clashes,        \* pairs {i, j} whose times overlap
    Plans,          \* sequences of actions the planner may propose
    MaxTurns,
    MaxSegments,
    MaxCrashes

Mutating == {"create", "update", "delete", "complete", "delete_all", "complete_all"}
Operations == Mutating \cup {"social", "move", "setting", "look"}
Actions == [op : Operations, items : Seq(Items), match : SUBSET Items]

ASSUME PipelineAssumption ==
    /\ Recurring \subseteq Items
    /\ \A c \in Clashes : \E i, j \in Items : i # j /\ c = {i, j}
    /\ Plans \subseteq Seq(Actions)
    /\ \A p \in Plans : \A k \in DOMAIN p : p[k].op = "update" => p[k].items # <<>>
    /\ {MaxTurns, MaxSegments} \subseteq Nat \ {0}
    /\ MaxCrashes \in Nat

VARIABLES
    db,         \* committed: active reminders, other facts, keys of the turn's outbox events
    view,       \* the same as the open transaction sees it
    turn,       \* number of the conversation's turn
    phase,      \* where the turn is
    attempt,    \* runs of the pipeline in this execution of the turn
    plan,       \* actions still to execute
    position,   \* actions executed
    outcomes,   \* what Execute settled
    locked,     \* the guard has passed: the conversation row is locked until the commit
    newer,      \* a newer message is recorded: the turn is superseded at the guard
    text,       \* kind of the text the turn was closed with
    segments,   \* segments of the reply not sent yet
    \* history
    did,        \* effects the turn's transaction wrote
    said,       \* effects the reply tells as done
    taken,      \* a create found its key taken by another item
    sent,       \* segments sent, in order
    crashes

vars == <<db, view, turn, phase, attempt, plan, position, outcomes, locked, newer, text,
          segments, did, said, taken, sent, crashes>>

working == <<view, plan, position, outcomes, did, taken>>
closing == <<text, segments, said, sent>>

Facts == {"social", "setting"}
Effects == {"create", "update", "delete", "complete"} \X Items
             \cup {"social", "move", "setting"} \X {"it"}
Rows == [active : SUBSET Items, facts : SUBSET Facts, keys : SUBSET (Nat \X Items)]
Outcomes == [done : BOOLEAN, told : SUBSET Effects]

Init ==
    /\ \E facts \in SUBSET {"social"}, active \in SUBSET Items :
          /\ \A i, j \in active : {i, j} \notin Clashes
          /\ db = [active |-> active, facts |-> facts, keys |-> {}]
    /\ view = db
    /\ turn = 1 /\ phase = "plan" /\ attempt = 1
    /\ plan = <<>> /\ position = 0 /\ outcomes = <<>>
    /\ locked = FALSE /\ newer = FALSE
    /\ text = "none" /\ segments = 0
    /\ did = {} /\ said = {} /\ taken = FALSE /\ sent = <<>>
    /\ crashes = 0

-----------------------------------------------------------------------------
(* Planning.                                                               *)

\* The planner answers: the actions become the plan of this run.
PlanTurn ==
    /\ phase = "plan"
    /\ \E p \in Plans : plan' = p
    /\ phase' = "execute" /\ position' = 0 /\ outcomes' = <<>>
    /\ UNCHANGED <<db, view, turn, attempt, locked, newer, did, taken, crashes, closing>>

\* Another message of the user is recorded; the lock of the guard keeps it out.
MessageArrives ==
    /\ phase \in {"plan", "execute", "express"} /\ ~locked /\ ~newer
    /\ newer' = TRUE
    /\ UNCHANGED <<db, turn, phase, attempt, locked, crashes, working, closing>>

-----------------------------------------------------------------------------
(* Executing.                                                              *)

\* Mutant of Guard: the row is locked and the messages are not looked at.
GuardBlind == locked' = TRUE

\* The guard of every write: the turn still covers the newest message.
Guard == ~newer /\ locked' = TRUE

\* The action to execute next, if any.
Current == {plan[k] : k \in IF phase = "execute" THEN DOMAIN plan \cap {1} ELSE {}}

Settle(outcome, rows, effects) ==
    /\ outcomes' = Append(outcomes, outcome)
    /\ view' = rows
    /\ did' = did \cup effects
    /\ plan' = Tail(plan) /\ position' = position + 1
    /\ UNCHANGED <<db, turn, phase, attempt, newer, crashes, closing>>

Done(effects) == [done |-> TRUE, told |-> effects]
NotDone == [done |-> FALSE, told |-> {}]

\* The outcome of a shared reminder that was made, or was not.
SharedOutcome(made) == IF made THEN Done({<<"social", "it">>}) ELSE NotDone

\* compile_plan or the handler refuses: a parameter is missing, the detector
\* finds no time, a friend is ambiguous, a domain rule says no.
Blocked ==
    /\ Current # {}
    /\ Settle(NotDone, view, {})
    /\ UNCHANGED <<locked, taken>>

\* Mutant of Overlaps: only the same reminder is taken for a conflict.
OverlapsItself(i, active) == i \in active

\* check_time_conflict: an active reminder that overlaps item i, other than i itself.
Overlaps(i, active) == \E j \in active : {i, j} \in Clashes

\* One item of a batch, under the key reminder:create:<turn>:<index>: a key that
\* is there answers for the item, an overlap or a duplicate refuses it.
CreateItem(batch, i, index) ==
    LET rows == batch.rows
        keyed == \E j \in Items : <<index, j>> \in rows.keys IN
    CASE keyed /\ ~Overlaps(i, rows.active) ->
            [batch EXCEPT !.told = @ \cup {<<"create", i>>},
                          !.taken = @ \/ <<index, i>> \notin rows.keys]
      [] Overlaps(i, rows.active) \/ (~keyed /\ i \in rows.active) ->
            [batch EXCEPT !.done = FALSE]
      [] OTHER ->
            [batch EXCEPT !.rows = [rows EXCEPT !.active = @ \cup {i}, !.keys = @ \cup {<<index, i>>}],
                          !.told = @ \cup {<<"create", i>>},
                          !.did = @ \cup {<<"create", i>>}]

\* Items are numbered from the action's index on, so the second item of one
\* action and the first of the next share a number.
ItemIndex(k) == position + k

CreateBatch(items) ==
    LET after[k \in 0 .. Len(items)] ==
            IF k = 0
            THEN [rows |-> view, done |-> TRUE, told |-> {}, did |-> {}, taken |-> FALSE]
            ELSE CreateItem(after[k - 1], items[k], ItemIndex(k))
    IN  after[Len(items)]

\* create and batch_create: each item on its own; the outcome is not done when
\* one of them is not, and lists them all.
Create ==
    \E a \in Current : \E batch \in {CreateBatch(a.items)} :
        /\ a.op = "create"
        /\ Guard
        /\ Settle([done |-> batch.done, told |-> batch.told], batch.rows, batch.did)
        /\ taken' = (taken \/ batch.taken)

Matching(a) == a.match \cap view.active
Without(gone) == [view EXCEPT !.active = @ \ gone]

\* delete or complete by keyword: only the single match; none or several are
\* reported.  Completing a recurring reminder raises instead (Raises).
MutateOne ==
    \E a \in Current :
        /\ a.op \in {"delete", "complete"}
        /\ Guard
        /\ \/ /\ Cardinality(Matching(a)) # 1
              /\ Settle(NotDone, view, {})
           \/ \E i \in Matching(a) :
                 /\ Matching(a) = {i} /\ ~(a.op = "complete" /\ i \in Recurring)
                 /\ Settle(Done({<<a.op, i>>}), Without({i}), {<<a.op, i>>})
        /\ UNCHANGED taken

\* update by keyword: the single match becomes the new item unless that clashes.
Update ==
    \E a \in Current :
        /\ a.op = "update"
        /\ Guard
        /\ \/ /\ Cardinality(Matching(a)) # 1
              /\ Settle(NotDone, view, {})
           \/ \E i \in Matching(a), to \in {Head(a.items)} :
                 /\ Matching(a) = {i}
                 /\ \/ /\ Overlaps(to, view.active \ {i}) \/ to \in view.active \ {i}
                       /\ Settle(NotDone, view, {})
                    \/ /\ ~Overlaps(to, view.active \ {i}) /\ to \notin view.active \ {i}
                       /\ Settle(Done({<<"update", to>>}),
                                 [view EXCEPT !.active = (@ \ {i}) \cup {to}],
                                 {<<"update", to>>})
        /\ UNCHANGED taken

\* What a date-scoped complete leaves: recurring reminders fail one by one.
Completable(op, matches) == IF op = "complete_all" THEN matches \ Recurring ELSE matches

\* delete or complete everything of a date: done, also in part, when something is.
MutateAll ==
    \E a \in Current, op \in {"delete", "complete"} :
        /\ a.op = op \o "_all"
        /\ Guard
        /\ LET gone == Completable(a.op, Matching(a)) IN
           Settle([done |-> gone # {}, told |-> {<<op, i>> : i \in gone}],
                  Without(gone), {<<op, i>> : i \in gone})
        /\ UNCHANGED taken

\* _resolve_shared_reminder finds the one the user means.
SharedThere == "social" \in view.facts

\* What is listed, or who is free when, is told; nothing is done.
Answered == Done({})

\* A shared reminder, a friend or an import: made once; when it is there a reminder is
\* refused, and a friendship or a friend link is shown without asking the guard.
Social ==
    \E a \in Current :
        /\ a.op = "social"
        /\ \/ /\ SharedThere /\ Guard
              /\ Settle(SharedOutcome(FALSE), view, {})
           \/ /\ SharedThere /\ UNCHANGED locked
              /\ Settle(Answered, view, {})
           \/ /\ ~SharedThere /\ Guard
              /\ Settle(SharedOutcome(TRUE), [view EXCEPT !.facts = @ \cup {"social"}],
                        {<<"social", "it">>})
        /\ UNCHANGED taken

MovedOutcome == Done({<<"move", "it">>})

\* An existing shared reminder is moved to the time the detector finds.
Move ==
    \E a \in Current :
        /\ a.op = "move" /\ SharedThere
        /\ Guard
        /\ Settle(MovedOutcome, view, {<<"move", "it">>})
        /\ UNCHANGED taken

\* update_settings: the row holds what the user asked for.
SettingWritten == [view EXCEPT !.facts = @ \cup {"setting"}]

\* A setting is written without asking the guard.
Setting ==
    \E a \in Current :
        /\ a.op = "setting"
        /\ Settle(Done({<<"setting", "it">>}), SettingWritten, {<<"setting", "it">>})
        /\ UNCHANGED <<locked, taken>>

\* A list, a filter or an availability query: no guard and nothing written.
Look ==
    \E a \in Current :
        /\ a.op = "look"
        /\ Settle(Answered, view, {})
        /\ UNCHANGED <<locked, taken>>

Executed ==
    /\ phase = "execute" /\ plan = <<>>
    /\ phase' = "express"
    /\ UNCHANGED <<db, turn, attempt, locked, newer, crashes, working, closing>>

-----------------------------------------------------------------------------
(* Closing.                                                                *)

\* Close's guard passes and the turn's writes are committed with its text.
CloseWith(kind, tells, n) ==
    /\ Guard
    /\ db' = view
    /\ text' = kind /\ said' = tells /\ segments' = n
    /\ phase' = IF n = 0 THEN "done" ELSE "sending"
    /\ UNCHANGED <<turn, attempt, newer, sent, crashes, working>>

ToldBy(settled) == UNION {settled[k].told : k \in DOMAIN settled}

\* Express's content becomes one to three segments.
SegmentCounts == 1 .. MaxSegments

\* Express words every outcome.
Reply ==
    /\ phase = "express"
    /\ \E n \in SegmentCounts : CloseWith("reply", ToldBy(outcomes), n)

\* The planner asked for silence and there is nothing to tell.
NoReply ==
    /\ phase = "express" /\ outcomes = <<>>
    /\ CloseWith("no_reply", {}, 0)

\* Express's output is refused: not the agreed form, or a claim that no outcome
\* supports.
ExpressRefused == phase = "express"

\* Express fails: one outcome is told by a fixed text, several as "handled".
RecoverFromOutcome ==
    /\ ExpressRefused
    /\ \/ /\ Len(outcomes) = 1
          /\ CloseWith("recovery", IF outcomes[1].done THEN outcomes[1].told ELSE {}, 1)
       \/ /\ Len(outcomes) = 0
          /\ CloseWith("recovery", {}, 1)
       \/ /\ Len(outcomes) > 1
          /\ CloseWith("handled", {}, 1)

\* The model's output was unusable: the planner's, or the detector's in an update
\* of a shared reminder.
Unusable ==
    \/ phase = "plan"
    \/ \E a \in Current : a.op = "move" /\ SharedThere

\* Once, the pipeline is run again from the planner, in the same transaction.
Retry ==
    /\ Unusable /\ attempt = 1
    /\ attempt' = 2 /\ phase' = "plan"
    /\ plan' = <<>> /\ position' = 0 /\ outcomes' = <<>>
    /\ UNCHANGED <<db, view, turn, locked, newer, did, taken, crashes, closing>>

\* A handler or Express raises: completing a recurring reminder by keyword, a
\* provider that does not answer.
Raises ==
    \/ phase = "express"
    \/ \E a \in Current :
          /\ a.op = "complete" /\ ~newer
          /\ \E i \in Recurring : Matching(a) = {i}

\* The text says that the message was not handled and asks to send it again.
RecoverFromFailure ==
    /\ (Unusable /\ attempt = 2) \/ Raises
    /\ CloseWith("failure", {}, 1)

\* A guard finds the newer message; the turn ends and its transaction commits.
Superseded ==
    /\ newer
    /\ \/ phase = "express" \/ (Unusable /\ attempt = 2)
       \/ \E a \in Current : a.op \notin {"setting", "look"}
    /\ phase' = "superseded" /\ db' = view
    /\ UNCHANGED <<turn, attempt, locked, newer, crashes, working, closing>>

-----------------------------------------------------------------------------
(* Sending, crashes, and the next turn.                                    *)

SendSegment ==
    /\ phase = "sending"
    /\ sent' = Append(sent, Len(sent) + 1) /\ segments' = segments - 1
    /\ phase' = IF segments = 1 THEN "done" ELSE "sending"
    /\ UNCHANGED <<db, turn, attempt, locked, newer, text, said, crashes, working>>

Fresh ==
    /\ phase' = "plan" /\ attempt' = 1
    /\ plan' = <<>> /\ position' = 0 /\ outcomes' = <<>> /\ locked' = FALSE
    /\ did' = {} /\ taken' = FALSE

\* Mutant of CrashBeforeClose: what was written stays.
CrashKeepsWrites ==
    /\ phase \in {"plan", "execute", "express"} /\ crashes < MaxCrashes
    /\ crashes' = crashes + 1
    /\ Fresh /\ db' = view
    /\ UNCHANGED <<view, turn, newer, closing>>

\* The worker dies before the commit: nothing of the turn is kept, and the
\* redelivered event runs the same turn again.
CrashBeforeClose ==
    /\ phase \in {"plan", "execute", "express"} /\ crashes < MaxCrashes
    /\ crashes' = crashes + 1
    /\ Fresh /\ view' = db
    /\ UNCHANGED <<db, turn, newer, closing>>

\* Mutant of CrashWhileSending: the replay sends the reply again.
CrashResends ==
    /\ phase = "sending" /\ crashes < MaxCrashes
    /\ crashes' = crashes + 1
    /\ segments' = segments + Len(sent)
    /\ UNCHANGED <<db, turn, phase, attempt, locked, newer, text, said, sent, working>>

\* It dies while sending: the redelivered event finds the turn closed and
\* replays the record of it; nothing more is sent.
CrashWhileSending ==
    /\ phase = "sending" /\ crashes < MaxCrashes
    /\ crashes' = crashes + 1
    /\ phase' = "cut"
    /\ UNCHANGED <<db, turn, attempt, locked, newer, working, closing>>

NextTurn ==
    /\ phase \in {"done", "cut", "superseded"} /\ turn < MaxTurns
    /\ turn' = turn + 1
    /\ Fresh
    /\ newer' = FALSE
    /\ db' = [db EXCEPT !.keys = {}] /\ view' = db'
    /\ text' = "none" /\ said' = {} /\ segments' = 0 /\ sent' = <<>>
    /\ UNCHANGED crashes

Ended == phase \in {"done", "cut", "superseded"} /\ turn = MaxTurns /\ UNCHANGED vars

Next ==
    \/ PlanTurn \/ MessageArrives
    \/ Blocked \/ Create \/ MutateOne \/ Update \/ MutateAll \/ Social \/ Move \/ Setting
    \/ Look
    \/ Executed
    \/ Reply \/ NoReply \/ RecoverFromOutcome \/ Retry \/ RecoverFromFailure \/ Superseded
    \/ SendSegment \/ CrashBeforeClose \/ CrashWhileSending \/ NextTurn \/ Ended

Spec == Init /\ [][Next]_vars

-----------------------------------------------------------------------------
(* Properties.                                                             *)

Closed == phase \in {"sending", "done", "cut"}

\* Types; in particular reminders that clash are never active together.
TypeOK ==
    /\ {db, view} \subseteq Rows
    /\ \A i, j \in view.active : {i, j} \notin Clashes
    /\ turn \in 1 .. MaxTurns /\ attempt \in 1 .. 2
    /\ phase \in {"plan", "execute", "express", "sending", "done", "cut", "superseded"}
    /\ position \in Nat
    /\ \A k \in DOMAIN outcomes : outcomes[k] \in Outcomes
    /\ {locked, newer, taken} \subseteq BOOLEAN
    /\ text \in {"none", "reply", "no_reply", "recovery", "handled", "failure"}
    /\ segments \in 0 .. MaxSegments
    /\ {did, said} \subseteq SUBSET Effects
    /\ crashes \in 0 .. MaxCrashes

\* Whatever text closes the turn, it tells nothing as done that the commit does
\* not hold, unless a create found its key taken; and a reply that Express words
\* after one run of the pipeline tells all of it, also the items of a batch that
\* were written while others failed.
ToldIsDone ==
    Closed /\ ~taken => said \subseteq did /\ (text = "reply" /\ attempt = 1 => said = did)

\* A turn that a newer message overtakes leaves nothing behind that the turn
\* with the newer message would do again, but a setting, which it only repeats.
SupersededWroteNothing == phase = "superseded" => did \subseteq {<<"setting", "it">>}

\* A reply is sent in the order of its segments, each once, and all of it unless
\* the worker dies meanwhile: neither a redelivery nor a replay sends again.
RepliesSentOnce ==
    /\ sent = [k \in 1 .. Len(sent) |-> k]
    /\ Len(sent) + segments <= MaxSegments
    /\ phase = "done" /\ text \in {"reply", "recovery", "handled", "failure"} => sent # <<>>

-----------------------------------------------------------------------------
(* What the repository says of the program and the code does not keep.     *)

\* "Visible success must match the real Execute outcome that is committed at
\* close." (docs/ARCHITECTURE.md:226)  The key of a create is the position of
\* the action plus the position of the item, which two items of a turn share.
VisibleSuccessIsCommitted == Closed => said \subseteq did

\* "A `recovered` close uses grounded runtime-owned recovery text"
\* (docs/ARCHITECTURE.md:163).  What Execute wrote before an exception is
\* committed with the text that asks to send the message again.
RecoveryIsGrounded == Closed /\ text = "failure" => did = {}

\* The same sentence of a pipeline that ran twice: what the first run did is
\* told by neither the second run's outcomes nor its reply.
SecondRunTellsAll == Closed /\ text = "reply" /\ ~taken => did \subseteq said
=============================================================================
