----------------------------- MODULE TurnThread -----------------------------
(***************************************************************************)
(* Row locks across conversations.  All interactive turns of a worker run  *)
(* on one event-loop thread (coke/worker/__main__.py, _SupervisorLoop)     *)
(* with a session each; SQL is synchronous, so a statement that waits for  *)
(* a row lock stops the whole thread.  A turn takes its conversation row   *)
(* at the first freshness guard of Execute, then the rows its handlers     *)
(* write, and holds them all while it awaits the Express stream.  The      *)
(* waiting-text dispatcher of the relay process takes the conversation row *)
(* of one slow turn after the other in one transaction.                    *)
(*                                                                         *)
(* No lock_timeout or statement_timeout is configured, and Postgres cannot *)
(* see that a suspended transaction waits for the thread.                  *)
(***************************************************************************)
EXTENDS Naturals, FiniteSets

CONSTANTS
    Conversations,  \* with one turn at a time each (supervisor, Redis lock)
    Slow,           \* conversations whose turns may outlast waiting_reply_after
    Rows,           \* domain rows (reminders, friendships, activity requests)
    RowsOf,         \* the rows the handlers of a conversation's turn may write
    Relay,          \* the outbox relay process
    NoOne

ASSUME ThreadAssumption ==
    /\ Slow \subseteq Conversations
    /\ Rows \cap Conversations = {}
    /\ RowsOf \in [Conversations -> SUBSET Rows]
    /\ {Relay, NoOne} \cap (Conversations \cup Rows) = {}
    /\ Relay # NoOne

VARIABLES
    pc,      \* where the turn of each conversation is
    need,    \* domain rows its handlers still have to write
    thread,  \* the turn whose code the event-loop thread runs, or NoOne
    owner,   \* transaction that holds each row lock: a turn, Relay or NoOne
    marked,  \* turns with a pending_async_reply row
    todo,    \* candidates left in the dispatcher's loop
    at       \* the candidate it is marking, or NoOne

threadVars == <<pc, need, thread, owner, marked, todo, at>>

\* planning: awaiting the planner or the lock; guarding: wants the
\* conversation row; writing: Execute; expressing: awaiting the stream.
TurnStates == {"idle", "planning", "guarding", "writing", "expressing"}

ThreadInit ==
    /\ pc = [c \in Conversations |-> "idle"]
    /\ need = [c \in Conversations |-> {}]
    /\ thread = NoOne
    /\ owner = [r \in Conversations \cup Rows |-> NoOne]
    /\ marked = {}
    /\ todo = {}
    /\ at = NoOne

Goto(c, state) == pc' = [pc EXCEPT ![c] = state]

\* The end of a transaction.
ReleaseAll(process) ==
    owner' = [r \in DOMAIN owner |-> IF owner[r] = process THEN NoOne ELSE owner[r]]

-----------------------------------------------------------------------------
(* A turn.                                                                 *)

\* The supervisor starts a task for a new inbound message.
BeginTurn(c) ==
    /\ pc[c] = "idle"
    /\ thread = NoOne
    /\ Goto(c, "planning")
    /\ UNCHANGED <<need, thread, owner, marked, todo, at>>

\* The plan is there: Execute starts and does not await.
Execute(c) ==
    /\ pc[c] = "planning"
    /\ thread = NoOne
    /\ thread' = c
    /\ \E rows \in SUBSET RowsOf[c] : need' = [need EXCEPT ![c] = rows]
    /\ Goto(c, "guarding")
    /\ UNCHANGED <<owner, marked, todo, at>>

\* guard_state_change: SELECT ... FOR UPDATE of the conversation row.
LockConversation(c) ==
    /\ pc[c] = "guarding"
    /\ owner[c] = NoOne
    /\ owner' = [owner EXCEPT ![c] = c]
    /\ Goto(c, "writing")
    /\ UNCHANGED <<need, thread, marked, todo, at>>

\* A handler writes a row, or inserts one under a unique key both use.
WriteRow(c, r) ==
    /\ pc[c] = "writing"
    /\ r \in need[c]
    /\ owner[r] = NoOne
    /\ owner' = [owner EXCEPT ![r] = c]
    /\ need' = [need EXCEPT ![c] = @ \ {r}]
    /\ UNCHANGED <<pc, thread, marked, todo, at>>

\* render_streaming awaits: the thread is free, the locks are not.
AwaitExpress(c) ==
    /\ pc[c] = "writing"
    /\ need[c] = {}
    /\ thread' = NoOne
    /\ Goto(c, "expressing")
    /\ UNCHANGED <<need, owner, marked, todo, at>>

\* The close coordinator commits; everything is released.
CloseTurn(c) ==
    /\ pc[c] = "expressing"
    /\ thread = NoOne
    /\ ReleaseAll(c)
    /\ marked' = marked \ {c}
    /\ Goto(c, "idle")
    /\ UNCHANGED <<need, thread, todo, at>>

-----------------------------------------------------------------------------
(* The dispatcher: dispatch_due, then the commit of the relay's loop.      *)

\* Mutant of Candidates: no turn is too young.
AllCandidates == {c \in Conversations \ marked : pc[c] # "idle"}

\* waiting_reply_candidates: running long enough, not marked yet.
Candidates == {c \in Slow \ marked : pc[c] # "idle"}

DispatchDue ==
    /\ todo = {}
    /\ at = NoOne
    /\ \A r \in DOMAIN owner : owner[r] # Relay
    /\ Candidates # {}
    /\ todo' = Candidates
    /\ UNCHANGED <<pc, need, thread, owner, marked, at>>

\* mark_pending_async_reply reads the disposition first: a turn that has
\* closed meanwhile is skipped, any other one is going to be locked.
DispatchOne(c) ==
    /\ at = NoOne
    /\ c \in todo
    /\ todo' = todo \ {c}
    /\ at' = IF pc[c] = "idle" THEN NoOne ELSE c
    /\ UNCHANGED <<pc, need, thread, owner, marked>>

MarkPending ==
    /\ at # NoOne
    /\ owner[at] \in {NoOne, Relay}
    /\ owner' = [owner EXCEPT ![at] = Relay]
    /\ marked' = IF pc[at] = "idle" THEN marked ELSE marked \cup {at}
    /\ at' = NoOne
    /\ UNCHANGED <<pc, need, thread, todo>>

\* Mutant of CommitMarks: the session is not committed after the loop.
RelayLoopEnds ==
    /\ todo = {}
    /\ at = NoOne
    /\ \E r \in DOMAIN owner : owner[r] = Relay
    /\ UNCHANGED threadVars

CommitMarks ==
    /\ todo = {}
    /\ at = NoOne
    /\ \E r \in DOMAIN owner : owner[r] = Relay
    /\ ReleaseAll(Relay)
    /\ UNCHANGED <<pc, need, thread, marked, todo, at>>

-----------------------------------------------------------------------------
TurnStep(c) ==
    \/ Execute(c) \/ LockConversation(c) \/ AwaitExpress(c) \/ CloseTurn(c)
    \/ \E r \in Rows : WriteRow(c, r)

DispatcherStep ==
    MarkPending \/ CommitMarks \/ \E c \in Conversations : DispatchOne(c)

ThreadNext ==
    \/ \E c \in Conversations : BeginTurn(c) \/ TurnStep(c)
    \/ DispatchDue
    \/ DispatcherStep

\* The loop serves every task, Postgres queues the waiters of a row, and the
\* relay's loop goes on.
ThreadFairness ==
    /\ \A c \in Conversations :
          /\ SF_threadVars(Execute(c))
          /\ SF_threadVars(LockConversation(c))
          /\ WF_threadVars(\E r \in Rows : WriteRow(c, r))
          /\ WF_threadVars(AwaitExpress(c))
          /\ SF_threadVars(CloseTurn(c))
    /\ WF_threadVars(DispatcherStep)
    /\ SF_threadVars(MarkPending)

ThreadSpec == ThreadInit /\ [][ThreadNext]_threadVars
FairThreadSpec == ThreadSpec /\ ThreadFairness

-----------------------------------------------------------------------------
(* Properties.                                                             *)

ThreadTypeOK ==
    /\ pc \in [Conversations -> TurnStates]
    /\ need \in [Conversations -> SUBSET Rows]
    /\ thread \in Conversations \cup {NoOne}
    /\ owner \in [Conversations \cup Rows -> Conversations \cup {Relay, NoOne}]
    /\ marked \subseteq Conversations
    /\ todo \subseteq Slow
    /\ at \in Slow \cup {NoOne}

\* The rows that the turn on the thread waits for.
Wanted ==
    {r \in DOMAIN owner : /\ thread # NoOne
                          /\ \/ pc[thread] = "guarding" /\ r = thread
                             \/ pc[thread] = "writing" /\ r \in need[thread]}

\* Whoever holds the row cannot go on before the thread does: a suspended turn, or
\* the dispatcher that waits for one.
HeldBack(r) ==
    \/ owner[r] \in Conversations \ {thread}
    \/ owner[r] = Relay /\ at # NoOne /\ owner[at] \in Conversations

\* If the thread stands still, then because two conversations write one row, or
\* because the dispatcher marks two slow turns in one transaction: no other order
\* of guards, writes, streams, commits and markings can do it.
StandstillExplained ==
    \A r \in Wanted : HeldBack(r) =>
       \/ \E c \in Conversations \ {thread} : r \in RowsOf[thread] \cap RowsOf[c]
       \/ r = thread /\ {thread, at} \subseteq Slow /\ at # thread

\* The event loop never stands still for good: a turn that has begun to
\* execute is closed (docs/ARCHITECTURE.md:204, "The original worker turn
\* remains active and interruptible"; 238, "The worker tier must observe new
\* inbound while an interactive Agno run is still active").
TurnsFinish ==
    \A c \in Conversations : pc[c] = "guarding" ~> pc[c] = "idle"

=============================================================================
