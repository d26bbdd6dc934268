--------------------------- MODULE WeChatConnector ---------------------------
(***************************************************************************)
(* The edge service between iLink (personal WeChat) and coke               *)
(* (provider_edges/wechat_personal_connector/app.py).  A session is one    *)
(* QR login; its state is a file.  A poller takes a snapshot of the file,  *)
(* fetches each connected session's new messages from the cursor of the    *)
(* snapshot, posts them one by one to coke's webhook and then writes its   *)
(* values back over whatever the file says by then.  Several pollers may   *)
(* be at work: the loop thread and the threads that serve /poll/once.  The *)
(* webhook records a message at most once (api/provider_webhooks.py); its  *)
(* answer may get lost.  The service can be killed between any two steps.  *)
(*                                                                         *)
(* Sessions belong to different accounts' logins and are independent but   *)
(* for the snapshot, which covers all of them; iLink answers a cursor with *)
(* some of the messages after it and the cursor behind the last one.       *)
(***************************************************************************)
EXTENDS Naturals, Sequences, Functions

CONSTANTS
    Sessions,
    Routes,          \* the server threads that may serve /poll/once
    MaxMessages,     \* messages iLink holds for a session, at most
    MaxAttempts,     \* MAX_WEBHOOK_DELIVERY_ATTEMPTS
    MaxRoutePolls,   \* requests to /poll/once
    MaxCrashes

ASSUME ConnectorAssumption ==
    /\ "loop" \notin Routes
    /\ MaxMessages \in Nat
    /\ MaxAttempts \in Nat \ {0}
    /\ {MaxRoutePolls, MaxCrashes} \subseteq Nat

VARIABLES
    session,     \* the state file
    queue,       \* external: per session, the messages iLink holds; "plain" or "empty"
    inbox,       \* per session, the numbers of the messages coke has recorded
    poller,      \* the poll under way in each poller
    looping,     \* the loop thread runs
    loginLoops,  \* sessions whose login status a thread asks for
    dropped,     \* history: messages given up
    rejected,    \* history: rejections of each message, up to MaxAttempts + 1
    routePolls, crashes

vars == <<session, queue, inbox, poller, looping, loginLoops, dropped, rejected,
          routePolls, crashes>>

Numbers == 1..MaxMessages
Pollers == {"loop"} \cup Routes

\* attempts: delivery_attempts; backoff: next_poll_after lies ahead ("waits"),
\* has passed ("over"), or no error is noted.
SessionStates ==
    [status : {"absent", "waiting_for_scan", "connected", "expired", "login_error"},
     cursor : 0..MaxMessages,
     attempts : [Numbers -> 0..MaxAttempts - 1],
     backoff : {"none", "waits", "over"}]
NoAttempts == [i \in Numbers |-> 0]
NoSession == [status |-> "absent", cursor |-> 0, attempts |-> NoAttempts, backoff |-> "none"]

\* left: connected sessions of the snapshot still to poll.  at: the one being
\* polled, next..upto the messages of its batch that are not posted yet.
Idle == [snapshot |-> [s \in Sessions |-> NoSession], left |-> {}, at |-> {}, next |-> 0, upto |-> 0,
         attempts |-> NoAttempts]
PollerStates ==
    {Idle} \cup
    [snapshot : [Sessions -> SessionStates], left : SUBSET Sessions,
     at : {{s} : s \in Sessions} \cup {{}}, next : 0..MaxMessages + 1, upto : 0..MaxMessages,
     attempts : [Numbers -> 0..MaxAttempts - 1]]

Init ==
    /\ session = [s \in Sessions |-> NoSession]
    /\ queue = [s \in Sessions |-> << >>]
    /\ inbox = [s \in Sessions |-> << >>]
    /\ poller = [p \in Pollers |-> Idle]
    /\ looping = FALSE
    /\ loginLoops = {}
    /\ dropped = [s \in Sessions |-> {}]
    /\ rejected = [s \in Sessions |-> NoAttempts]
    /\ routePolls = 0
    /\ crashes = 0

Connected == {s \in Sessions : session[s].status = "connected"}

\* update_session: the values given replace the session's, the rest stays.
UpdateSession(s, state) == session' = [session EXCEPT ![s] = state]

\* Mutant of Expired: the entry is left without a cursor.
ExpiredWithoutCursor(state) == [status |-> "expired", attempts |-> state.attempts]

\* What an expired token (errcode -14) leaves.
Expired(state) == [state EXCEPT !.status = "expired", !.cursor = 0]

-----------------------------------------------------------------------------
(* Login.                                                                  *)

loginUnchanged == UNCHANGED <<queue, inbox, poller, dropped, rejected, routePolls, crashes>>

\* POST /login/start: always a session of its own.
LoginStart(s) ==
    /\ session[s].status = "absent"
    /\ UpdateSession(s, [NoSession EXCEPT !.status = "waiting_for_scan"])
    /\ loginLoops' = loginLoops \cup {s}
    /\ UNCHANGED looping
    /\ loginUnchanged

\* One turn of the login thread; once connected it starts the poll loop and ends.
LoginPoll(s) ==
    /\ s \in loginLoops
    /\ \E status \in {"waiting_for_scan", "connected", "expired", "login_error"} :
          /\ UpdateSession(s, [session[s] EXCEPT !.status = status])
          /\ loginLoops' = IF status = "waiting_for_scan" THEN loginLoops ELSE loginLoops \ {s}
          /\ looping' = (looping \/ status = "connected")
    /\ loginUnchanged

\* GET /login/status starts what the session needs.
LoginStatus(s) ==
    /\ session[s].status # "absent"
    /\ looping' = (looping \/ s \in Connected)
    /\ loginLoops' = loginLoops \cup ({s} \cap {r \in Sessions : session[r].status = "waiting_for_scan"})
    /\ UNCHANGED session
    /\ loginUnchanged

\* POST /send for a reply: the token turns out to have expired.  Any other
\* outcome of a send leaves the state file alone.
SendFindsExpired(s) ==
    /\ s \in Connected
    /\ UpdateSession(s, Expired(session[s]))
    /\ UNCHANGED <<looping, loginLoops>>
    /\ loginUnchanged

\* External: somebody writes to the bot.
Arrive(s, kind) ==
    /\ s \in Connected
    /\ Len(queue[s]) < MaxMessages
    /\ queue' = [queue EXCEPT ![s] = Append(@, kind)]
    /\ UNCHANGED <<session, inbox, poller, looping, loginLoops, dropped, rejected,
                   routePolls, crashes>>

\* next_poll_after passes.
BackoffEnds(s) ==
    /\ session[s].backoff = "waits"
    /\ UpdateSession(s, [session[s] EXCEPT !.backoff = "over"])
    /\ UNCHANGED <<looping, loginLoops>>
    /\ loginUnchanged

-----------------------------------------------------------------------------
(* Polling.                                                                *)

pollUnchanged == UNCHANGED <<queue, looping, loginLoops, crashes>>

\* POST /poll/start.
PollStart ==
    /\ looping' = TRUE
    /\ UNCHANGED <<session, loginLoops>>
    /\ loginUnchanged

\* poll_once: one snapshot for all sessions, those backing off left out.
BeginPoll(p) ==
    /\ poller[p] = Idle
    /\ \/ p = "loop" /\ looping /\ UNCHANGED routePolls
       \/ p \in Routes /\ routePolls < MaxRoutePolls /\ routePolls' = routePolls + 1
    /\ \E s \in Connected : session[s].backoff # "waits"
    /\ poller' = [poller EXCEPT ![p] =
          [Idle EXCEPT !.snapshot = session,
                       !.left = {s \in Connected : session[s].backoff # "waits"}]]
    /\ pollUnchanged
    /\ UNCHANGED <<session, inbox, dropped, rejected>>

\* The poll is over with the session at hand and goes on with the next one.
NextSession(p) ==
    poller' = [poller EXCEPT ![p] =
        IF @.left = {} THEN Idle
        ELSE [Idle EXCEPT !.snapshot = poller[p].snapshot, !.left = poller[p].left]]

\* get_updates answers with the messages up to one of the last.
Fetch(p, s) ==
    /\ s \in poller[p].left
    /\ poller[p].at = {}
    /\ \E upto \in poller[p].snapshot[s].cursor..Len(queue[s]) :
          poller' = [poller EXCEPT
              ![p].left = @ \ {s},
              ![p].at = {s},
              ![p].next = poller[p].snapshot[s].cursor + 1,
              ![p].upto = upto,
              ![p].attempts = poller[p].snapshot[s].attempts]
    /\ pollUnchanged
    /\ UNCHANGED <<session, inbox, dropped, rejected, routePolls>>

\* get_updates fails; the session backs off or has expired.
FetchFails(p, s) ==
    /\ s \in poller[p].left
    /\ poller[p].at = {}
    /\ LET failed == [session[s] EXCEPT !.backoff = "waits"]
       IN  \E state \in {failed, Expired(failed)} : UpdateSession(s, state)
    /\ LET left == poller[p].left \ {s} IN
       poller' = [poller EXCEPT ![p] = IF left = {} THEN Idle ELSE [@ EXCEPT !.left = left]]
    /\ pollUnchanged
    /\ UNCHANGED <<inbox, dropped, rejected, routePolls>>

\* The next message of poller p's batch, if there is one.
AtMessage(p, s, i, kind) ==
    /\ poller[p].at = {s}
    /\ i = poller[p].next
    /\ i <= poller[p].upto
    /\ queue[s][i] = kind

\* Mutant of RecordInbound: a redelivered message is recorded again.
RecordInboundAgain(s, i) == inbox' = [inbox EXCEPT ![s] = Append(@, i)]

\* The webhook: raw_event_id is the key of the outbox row, a replay is
\* acknowledged and recorded no second time.
RecordInbound(s, i) ==
    inbox' = [inbox EXCEPT ![s] = IF i \in Range(@) THEN @ ELSE Append(@, i)]

Advance(p, i) == poller' = [poller EXCEPT ![p].next = i + 1, ![p].attempts[i] = 0]

\* _clean_webhook_payload finds nothing to deliver.
SkipMessage(p, s, i) ==
    /\ AtMessage(p, s, i, "empty")
    /\ poller' = [poller EXCEPT ![p].next = i + 1]
    /\ pollUnchanged
    /\ UNCHANGED <<session, inbox, dropped, rejected, routePolls>>

\* _clean_webhook_payload raises (a voice message is converted through files
\* of its own), outside the try around the webhook: the session backs off with
\* its cursor, and no attempt is counted.
ParseFails(p, s, i) ==
    /\ \E kind \in {"plain", "empty"} : AtMessage(p, s, i, kind)
    /\ UpdateSession(s, [session[s] EXCEPT !.backoff = "waits"])
    /\ NextSession(p)
    /\ pollUnchanged
    /\ UNCHANGED <<inbox, dropped, rejected, routePolls>>

\* The webhook says 202.
Deliver(p, s, i) ==
    /\ AtMessage(p, s, i, "plain")
    /\ RecordInbound(s, i)
    /\ Advance(p, i)
    /\ pollUnchanged
    /\ UNCHANGED <<session, dropped, rejected, routePolls>>

\* Mutant of GiveUpAfter: one rejection is enough.
GiveUpAfterOne(attempts) == attempts >= 1

\* The count with this rejection has reached the cap.
GiveUpAfter(attempts) == attempts >= MaxAttempts

\* Mutant of Retry: the rest of the batch is still delivered.
RetryLater(p, s, i, attempts) ==
    /\ poller' = [poller EXCEPT ![p].next = i + 1, ![p].attempts[i] = attempts]
    /\ UNCHANGED <<session, dropped>>

\* Mutant of Retry: the count is not saved.
RetryForever(p, s, i, attempts) ==
    /\ UpdateSession(s, [session[s] EXCEPT !.backoff = "waits"])
    /\ NextSession(p)
    /\ UNCHANGED dropped

\* The count is saved and the cursor kept: the batch is fetched again later.
Retry(p, s, i, attempts) ==
    /\ UpdateSession(s, [session[s] EXCEPT
          !.attempts = [poller[p].attempts EXCEPT ![i] = attempts], !.backoff = "waits"])
    /\ NextSession(p)
    /\ UNCHANGED dropped

\* The webhook refuses the message, or its answer is lost after it was recorded.
Reject(p, s, i) ==
    /\ AtMessage(p, s, i, "plain")
    /\ RecordInbound(s, i) \/ UNCHANGED inbox
    /\ rejected' = [rejected EXCEPT ![s][i] = IF @ > MaxAttempts THEN @ ELSE @ + 1]
    /\ LET attempts == poller[p].attempts[i] + 1 IN
       IF GiveUpAfter(attempts)
       THEN /\ dropped' = [dropped EXCEPT ![s] = @ \cup {i}]
            /\ Advance(p, i)
            /\ UNCHANGED session
       ELSE Retry(p, s, i, attempts)
    /\ pollUnchanged
    /\ UNCHANGED routePolls

\* The batch is through: the cursor behind it is saved, and the counts; an
\* error the snapshot knew of is cleared.
FinishBatch(p, s) ==
    /\ poller[p].at = {s}
    /\ poller[p].next > poller[p].upto
    /\ UpdateSession(s, [session[s] EXCEPT
          !.attempts = poller[p].attempts,
          !.cursor = poller[p].upto,
          !.backoff = IF poller[p].snapshot[s].backoff = "none" THEN @ ELSE "none"])
    /\ NextSession(p)
    /\ pollUnchanged
    /\ UNCHANGED <<inbox, dropped, rejected, routePolls>>

\* The service is killed and started again with WECHAT_CONNECTOR_AUTOSTART_POLL=1.
Restart ==
    /\ crashes < MaxCrashes
    /\ crashes' = crashes + 1
    /\ poller' = [p \in Pollers |-> Idle]
    /\ loginLoops' = {}
    /\ looping' = (Connected # {})
    /\ UNCHANGED <<session, queue, inbox, dropped, rejected, routePolls>>

-----------------------------------------------------------------------------

\* Message i is parsed, and posted if there is something to post.
Post(p, s, i) == SkipMessage(p, s, i) \/ Deliver(p, s, i) \/ Reject(p, s, i)

\* The next thing a poll does.
PollGoesOn(p) ==
    \E s \in Sessions :
       \/ Fetch(p, s) \/ FetchFails(p, s) \/ FinishBatch(p, s)
       \/ \E i \in Numbers : Post(p, s, i) \/ ParseFails(p, s, i)

Next ==
    \/ \E s \in Sessions :
          \/ LoginStart(s) \/ LoginPoll(s) \/ LoginStatus(s) \/ SendFindsExpired(s)
          \/ Arrive(s, "plain") \/ Arrive(s, "empty") \/ BackoffEnds(s)
    \/ PollStart
    \/ \E p \in Pollers : BeginPoll(p) \/ PollGoesOn(p)
    \/ Restart

\* The whole batch comes at once and without an error.
FetchAll(p, s) == Fetch(p, s) /\ poller'[p].upto = Len(queue[s])

\* The loop thread goes on, a request comes to its end, time passes, and iLink now
\* and then answers with all it has.  Nothing is assumed of the webhook: it may
\* refuse every message.
PollFairness ==
    /\ WF_vars(BeginPoll("loop"))
    /\ \A p \in Pollers : WF_vars(PollGoesOn(p))
    /\ \A s \in Sessions : WF_vars(BackoffEnds(s)) /\ SF_vars(FetchAll("loop", s))

\* A message that cannot be parsed now is parsed another time.
ParsingRecovers == \A s \in Sessions : \A i \in Numbers : SF_vars(Post("loop", s, i))

Spec == Init /\ [][Next]_vars
PollSpec == Spec /\ PollFairness
FairSpec == PollSpec /\ ParsingRecovers

-----------------------------------------------------------------------------
(* Properties.                                                             *)

TypeOK ==
    /\ session \in [Sessions -> SessionStates]
    /\ \A s \in Sessions :
          /\ Len(queue[s]) <= MaxMessages /\ Range(queue[s]) \subseteq {"plain", "empty"}
          /\ Len(inbox[s]) <= MaxMessages /\ Range(inbox[s]) \subseteq DOMAIN queue[s]
          /\ session[s].cursor <= Len(queue[s])
    /\ poller \in [Pollers -> PollerStates]
    /\ looping \in BOOLEAN
    /\ loginLoops \subseteq Sessions
    /\ dropped \in [Sessions -> SUBSET Numbers]
    /\ rejected \in [Sessions -> [Numbers -> 0..MaxAttempts + 1]]
    /\ routePolls \in 0..MaxRoutePolls
    /\ crashes \in 0..MaxCrashes

Handled(s, i) == queue[s][i] = "empty" \/ i \in Range(inbox[s]) \/ i \in dropped[s]

\* However the pollers, crashes, lost answers and cursors written back from
\* stale snapshots mix: coke records the messages of a session in the order in
\* which they were sent (but for one that a poller has given up and another
\* still delivers), each at most once, and the saved cursor never stands behind
\* a message that is neither recorded nor given up.
NothingSkipped ==
    \A s \in Sessions :
       /\ \A i \in 1..session[s].cursor : Handled(s, i)
       /\ \A m, n \in DOMAIN inbox[s] :
             m < n => \/ inbox[s][m] < inbox[s][n]
                      \/ inbox[s][m] > inbox[s][n] /\ inbox[s][n] \in dropped[s]
       /\ \A i \in Range(inbox[s]) : \A j \in 1..i : Handled(s, j)

\* A message is given up only after MaxAttempts rejections of that message,
\* although the counts of one poller overwrite those of another.
DroppedAfterTheCap ==
    \A s \in Sessions : \A i \in dropped[s] : rejected[s][i] >= MaxAttempts

\* "one poison message can never block a session forever" (app.py:47-48): a
\* message the webhook refuses every time is given up in the end and those
\* behind it reach coke, as long as the session is connected.  iLink holds
\* finitely many messages: were a refused one to arrive before every poll, the
\* cursor would wait, although every message is handled.
\* Under PollSpec it does not hold: a message whose parsing always raises is
\* outside the cap (app.py:484) and blocks its session for ever.
NobodyBlocksForever ==
    \A s \in Sessions : \A i \in Numbers :
       (i <= Len(queue[s])) ~> (s \notin Connected \/ session[s].cursor >= i)

-----------------------------------------------------------------------------
(* What the repository says of the program and the code does not keep.     *)

\* "Once an inbound message has been rejected this many times across poll
\* cycles, the connector drops it and advances the cursor" (app.py:46-47).
\* With a second rejected message in the batch the first is dropped, its count
\* forgotten, the cursor kept, and the first posted again from one on.
RejectedAtMostMaxTimes ==
    \A s \in Sessions : \A i \in Numbers : rejected[s][i] <= MaxAttempts
=============================================================================
