--------------------------- MODULE ChannelLifecycle ---------------------------
(***************************************************************************)
(* How an account is reached (domains/channel_reachability, the channel    *)
(* identities, pairing codes and web claims of domains/identity_access,    *)
(* the deferred friend links of composition.py): a channel is created,     *)
(* connected by a WeChat login or by a message, sent through, found dead,  *)
(* retried and removed; connecting it completes the friendships whose      *)
(* links the account has claimed.                                          *)
(*                                                                         *)
(* A request reads rows without a lock and later writes them whole in the  *)
(* transaction of its commit; its reads are taken together.  Whether the   *)
(* account has access is left open, a request may be refused at any time.  *)
(* The activation row, texts, attempts and artifacts' lifetimes are left   *)
(* out.                                                                    *)
(***************************************************************************)
EXTENDS Naturals, FiniteSets

CONSTANTS
    WebAccounts,        \* registered on the web
    MessagingAccounts,  \* made by a first WhatsApp message
    NoAccount,
    WeChat, WhatsApp,   \* provider subjects
    NoSubject,
    Channels,           \* rows the channel table may hold
    NoChannel,
    Links,              \* friend links
    Owner,              \* Owner[l]: account of a friend link
    LinkedAtStart,      \* records [channel, account, subject]: connected at first
    Kinds,              \* requests of a behaviour
    MaxRequests,
    MaxOutside          \* logins, expiries, codes, claims and links disabled

Accounts == WebAccounts \cup MessagingAccounts
Subjects == WeChat \cup WhatsApp
RequestKinds == {"inbound", "poll_login", "create", "connect", "retry", "remove", "send"}

ASSUME ChannelAssumption ==
    /\ NoAccount \notin Accounts /\ NoSubject \notin Subjects /\ NoChannel \notin Channels
    /\ WebAccounts \cap MessagingAccounts = {}
    /\ Owner \in [Links -> Accounts]
    /\ LinkedAtStart \subseteq [channel : Channels, account : WebAccounts, subject : Subjects]
    /\ \A x, y \in LinkedAtStart :
          x.channel = y.channel \/ x.account = y.account \/ x.subject = y.subject => x = y
    /\ Kinds \subseteq RequestKinds
    /\ {MaxRequests, MaxOutside} \subseteq Nat

VARIABLES
    identity,   \* channel_identity: the account of a subject, and whether it is its anchor
    channel,    \* channel rows
    route,      \* delivery_route of each channel: its lifecycle
    pairing,    \* accounts with an open pairing code
    claims,     \* friend links in the completed claims of each account
    link,       \* friend links that are active
    friends,    \* active friendships
    login,      \* accounts with a login code at the connector
    session,    \* subject of the account's connected session at the connector
    dead,       \* accounts whose session iLink has ended and the connector believes in
    requests,   \* requests that have read and not yet written
    count,
    outside,
    consumed    \* history: claimed links consumed by a connection

vars == <<identity, channel, route, pairing, claims, link, friends, login, session, dead,
          requests, count, outside, consumed>>
rowVars == <<identity, channel, route, pairing, claims, friends, consumed>>
outsideVars == <<link, login, session, dead, outside>>

States == {"not_connected", "connecting", "connected", "reconnection_required", "removed"}
ChannelRows ==
    [account : Accounts \cup {NoAccount}, subject : Subjects \cup {NoSubject},
     life : {"absent", "active", "removed"}, state : States, removable : BOOLEAN]
NoRow == [account |-> NoAccount, subject |-> NoSubject, life |-> "absent",
          state |-> "not_connected", removable |-> TRUE]
NewRow(a, s, removable) ==
    [account |-> a, subject |-> s, life |-> "active", state |-> "not_connected",
     removable |-> removable]

Identities == [account : Accounts \cup {NoAccount}, anchor : BOOLEAN]
Unbound == [account |-> NoAccount, anchor |-> FALSE]
Lifecycles == {"none", "active", "removed"}
Pair(a, b) == {a, b}

Requests == [op : RequestKinds, n : 1..MaxRequests, who : Accounts, subject : Subjects,
             identity : Identities, code : BOOLEAN,
             channel : Channels \cup {NoChannel}, row : ChannelRows, route : Lifecycles,
             claims : SUBSET Links, open : BOOLEAN, friends : SUBSET SUBSET Accounts,
             answered : BOOLEAN]

Init ==
    LET At(c) == {x \in LinkedAtStart : x.channel = c}
        Of(s) == {x \in LinkedAtStart : x.subject = s}
        The(set) == CHOOSE x \in set : TRUE
    IN  /\ identity = [s \in Subjects |-> IF Of(s) = {} THEN Unbound
              ELSE [account |-> The(Of(s)).account, anchor |-> FALSE]]
        /\ channel = [c \in Channels |-> IF At(c) = {} THEN NoRow
              ELSE [NewRow(The(At(c)).account, The(At(c)).subject, TRUE)
                       EXCEPT !.state = "connected"]]
        /\ route = [c \in Channels |-> IF At(c) = {} THEN "none" ELSE "active"]
        /\ session = [a \in Accounts |->
              LET own == {x \in LinkedAtStart : x.account = a /\ x.subject \in WeChat}
              IN  IF own = {} THEN NoSubject ELSE The(own).subject]
        /\ dead = {}
        /\ pairing = {}
        /\ claims = [a \in Accounts |-> {}]
        /\ link = Links
        /\ friends = {}
        /\ login = {}
        /\ requests = {}
        /\ count = 0
        /\ outside = 0
        /\ consumed = [a \in Accounts |-> {}]

\* get_active_channel.
ActiveChannels(a) == {c \in Channels : channel[c].account = a /\ channel[c].life = "active"}
ActiveChannel(a) == IF ActiveChannels(a) = {} THEN NoChannel ELSE CHOOSE c \in ActiveChannels(a) : TRUE
Reachable(a) == \E c \in ActiveChannels(a) : channel[c].state = "connected"
RowOf(c) == IF c = NoChannel THEN NoRow ELSE channel[c]

-----------------------------------------------------------------------------
(* Requests: what they read, and how they end.                             *)

\* What a request for account a, subject s and channel c has read; with a
\* pairing code or without.
Seen(op, a, s, c, code) ==
    [op |-> op, n |-> count + 1, who |-> a, subject |-> s,
     identity |-> identity[s], code |-> code,
     channel |-> c, row |-> RowOf(c),
     route |-> IF c = NoChannel THEN "none" ELSE route[c],
     claims |-> claims[a],
     open |-> \A l \in claims[a] : l \in link /\ Reachable(Owner[l]) /\ Owner[l] # a,
     friends |-> {p \in friends : a \in p},
     answered |-> FALSE]

Begin(request) ==
    /\ request.op \in Kinds
    /\ count < MaxRequests
    /\ count' = count + 1
    /\ requests' = requests \cup {request}
    /\ UNCHANGED <<rowVars, outsideVars>>

End(q) == requests' = requests \ {q} /\ UNCHANGED <<outsideVars, count>>

\* Access is denied, a unique index or a check of the service is violated, two
\* transactions wait for each other's rows, or the process dies.
Refuse(q) == q \in requests /\ End(q) /\ UNCHANGED rowVars

\* Mutant of IsOnlyActive: the unique index is dropped.
MayBeActive(c, row) == TRUE

\* uq_channel_one_active_per_account, for a row about to be written.
IsOnlyActive(c, row) ==
    row.life = "active" => \A d \in Channels \ {c} :
        channel[d].life = "active" => channel[d].account # row.account

SaveChannel(c, row) ==
    /\ IsOnlyActive(c, row)
    /\ channel' = [channel EXCEPT ![c] = row]

-----------------------------------------------------------------------------
(* Connecting.                                                             *)

\* Mutant of UpsertRoute: a retired route is given back as it is.
UpsertRetired(c, seen) ==
    /\ seen = "none" => route[c] = "none"
    /\ route' = [route EXCEPT ![c] = IF @ = "none" THEN "active" ELSE @]

\* upsert_route: the key of a retired route stays taken.
UpsertRoute(c, seen) ==
    /\ seen # "removed"
    /\ seen = "none" => route[c] = "none"
    /\ route' = [route EXCEPT ![c] = "active"]

\* Mutant of CompleteDeferred: a link that has been disabled is passed over.
CompleteOpenDeferred(q) ==
    /\ friends' = friends \cup {Pair(q.who, Owner[l]) : l \in {k \in q.claims : k \in link}}
    /\ claims' = [claims EXCEPT ![q.who] = @ \ q.claims]
    /\ consumed' = [consumed EXCEPT ![q.who] = @ \cup q.claims]

\* complete_pending_for_account, complete_deferred_friend_link: every claimed
\* link is consumed and makes its friendship, or all is rolled back.
CompleteDeferred(q) ==
    LET made == {Pair(q.who, Owner[l]) : l \in q.claims} \ q.friends
    IN  /\ q.open
        /\ made \cap friends = {}
        /\ friends' = friends \cup made
        /\ claims' = [claims EXCEPT ![q.who] = @ \ q.claims]
        /\ consumed' = [consumed EXCEPT ![q.who] = @ \cup q.claims]

\* mark_connected of channel c with the row that was read.
MarkConnected(q, c, row) ==
    /\ UpsertRoute(c, q.route)
    /\ SaveChannel(c, [row EXCEPT !.state = "connected"])
    /\ CompleteDeferred(q)

\* The identity of a message or login, the channel made for it where there is
\* none, and its connection.
Accept(q, c) ==
    /\ identity[q.subject] = q.identity \/ q.identity.account # NoAccount
    /\ LET anchored == q.who \in MessagingAccounts
           bound == IF q.identity = Unbound
                      THEN [account |-> q.who, anchor |-> anchored] ELSE q.identity
           row == IF q.channel = NoChannel THEN NewRow(q.who, q.subject, ~bound.anchor)
                                           ELSE q.row
       IN  /\ identity' = [identity EXCEPT ![q.subject] = bound]
           /\ pairing' = IF q.code THEN pairing \ {q.who} ELSE pairing
           /\ IF q.channel = NoChannel THEN channel[c] = NoRow ELSE c = q.channel
           /\ IF row.state = "connected"
                THEN UNCHANGED <<channel, route, friends, claims, consumed>>
                ELSE MarkConnected(q, c, row)

\* accept_provider_inbound: a message from the account's session at the
\* connector.  A channel of another identity refuses it.
BeginWeChatInbound(a) ==
    /\ session[a] # NoSubject /\ a \notin dead
    /\ identity[session[a]].account \in {NoAccount, a}
    /\ RowOf(ActiveChannel(a)).subject \in {NoSubject, session[a]}
    /\ Begin(Seen("inbound", a, session[a], ActiveChannel(a), FALSE))

\* accept_provider_inbound, resolve_or_create_channel_identity: a WhatsApp
\* message of a known sender, of a new one, or with a pairing code.
BeginWhatsAppInbound(a, s, code) ==
    /\ s \in WhatsApp
    /\ IF code
         THEN a \in pairing /\ identity[s] = Unbound /\ ActiveChannel(a) = NoChannel
         ELSE \/ identity[s].account = a
              \/ /\ identity[s] = Unbound
                 /\ a \in MessagingAccounts
                 /\ \A r \in Subjects : identity[r].account # a
    /\ RowOf(ActiveChannel(a)).subject \in {NoSubject, s}
    /\ Begin(Seen("inbound", a, s, ActiveChannel(a), code))

\* poll_wechat_personal_login, once the connector says connected.
BeginPollLogin(a) ==
    /\ a \in WebAccounts
    /\ session[a] # NoSubject /\ a \notin dead
    /\ identity[session[a]].account \in {NoAccount, a}
    /\ RowOf(ActiveChannel(a)).subject \in {NoSubject, session[a]}
    /\ Begin(Seen("poll_login", a, session[a], ActiveChannel(a), FALSE))

CommitAccept(q, c) ==
    /\ q \in requests
    /\ q.op \in {"inbound", "poll_login"}
    /\ Accept(q, c)
    /\ End(q)

\* create_channel of the channel page, for an identity that is bound already.
BeginCreate(a, s) ==
    /\ a \in WebAccounts
    /\ identity[s].account = a
    /\ ActiveChannel(a) = NoChannel
    /\ Begin(Seen("create", a, s, NoChannel, FALSE))

CommitCreate(q, c) ==
    /\ q \in requests
    /\ q.op = "create"
    /\ channel[c] = NoRow
    /\ \E removable \in BOOLEAN : SaveChannel(c, NewRow(q.who, q.subject, removable))
    /\ End(q)
    /\ UNCHANGED <<identity, route, pairing, claims, friends, consumed>>

-----------------------------------------------------------------------------
(* Buttons of the channel page.                                            *)

\* can_remove_channel_identity: not the only identity of a messaging account.
CanRemove(a, s) ==
    ~ /\ identity[s].anchor
      /\ {r \in Subjects : identity[r].account = a} = {s}

BeginRow(op, c) ==
    /\ op \in {"connect", "retry", "remove"}
    /\ channel[c].life = "active"
    /\ op = "retry" => channel[c].state = "reconnection_required"
    /\ op = "remove" => channel[c].removable /\ CanRemove(channel[c].account, channel[c].subject)
    /\ Begin(Seen(op, channel[c].account, channel[c].subject, c, FALSE))

\* connect_channel, retry_connection.
CommitConnecting(q) ==
    /\ q \in requests
    /\ q.op \in {"connect", "retry"}
    /\ SaveChannel(q.channel, [q.row EXCEPT !.state = "connecting"])
    /\ End(q)
    /\ UNCHANGED <<identity, route, pairing, claims, friends, consumed>>

\* retire_routes_for_channel.
RetireRoutes(c) == route' = [route EXCEPT ![c] = IF @ = "active" THEN "removed" ELSE @]

CommitRemove(q) ==
    /\ q \in requests
    /\ q.op = "remove"
    /\ SaveChannel(q.channel, [q.row EXCEPT !.life = "removed", !.state = "removed"])
    /\ RetireRoutes(q.channel)
    /\ End(q)
    /\ UNCHANGED <<identity, pairing, claims, friends, consumed>>

-----------------------------------------------------------------------------
(* Sending.                                                                *)

\* send_text: resolve_route of the connected channel.
BeginSend(a) ==
    LET c == ActiveChannel(a)
    IN  /\ c # NoChannel
        /\ channel[c].state = "connected"
        /\ route[c] = "active"
        /\ Begin(Seen("send", a, channel[c].subject, c, FALSE))

\* iLink answers that the session is gone.  The connector learns it; coke does
\* only if the code came as errcode and not as ret, and reads the row again.
SendFindsExpired(q) ==
    /\ q \in requests
    /\ q.op = "send" /\ ~q.answered
    /\ q.subject \in WeChat /\ q.who \in dead
    /\ session' = [session EXCEPT ![q.who] = NoSubject]
    /\ dead' = dead \ {q.who}
    /\ \/ requests' = (requests \ {q}) \cup
                      {[q EXCEPT !.answered = TRUE, !.row = channel[q.channel]]}
       \/ UNCHANGED requests
    /\ UNCHANGED <<rowVars, link, login, outside, count>>

\* send_text: resolve_route has written the route as it was read.  Any other
\* answer of the connector, wechat_not_connected too, leaves the channel alone.
CommitSend(q) ==
    /\ q \in requests
    /\ q.op = "send"
    /\ route' = [route EXCEPT ![q.channel] = "active"]
    /\ IF q.answered /\ q.row.state # "reconnection_required"
         THEN SaveChannel(q.channel, [q.row EXCEPT !.state = "reconnection_required"])
         ELSE UNCHANGED channel
    /\ End(q)
    /\ UNCHANGED <<identity, pairing, claims, friends, consumed>>

-----------------------------------------------------------------------------
(* Beside the channels.                                                    *)

OutsideStep ==
    /\ outside < MaxOutside
    /\ outside' = outside + 1
    /\ UNCHANGED <<identity, channel, route, friends, requests, count, consumed>>

\* start_wechat_personal_connection: a new login code, if there is no channel.
StartLogin(a) ==
    /\ a \in WebAccounts \ login
    /\ ActiveChannel(a) = NoChannel
    /\ login' = login \cup {a}
    /\ OutsideStep
    /\ UNCHANGED <<pairing, claims, link, session, dead>>

Scan(a, s) ==
    /\ a \in login
    /\ s \in WeChat
    /\ login' = login \ {a}
    /\ session' = [session EXCEPT ![a] = s]
    /\ dead' = dead \ {a}
    /\ OutsideStep
    /\ UNCHANGED <<pairing, claims, link>>

\* iLink ends a session.
SessionExpires(a) ==
    /\ session[a] # NoSubject /\ a \notin dead
    /\ dead' = dead \cup {a}
    /\ OutsideStep
    /\ UNCHANGED <<pairing, claims, link, login, session>>

\* poll_once finds it out; the connector does not tell coke.
PollFindsExpired(a) ==
    /\ a \in dead
    /\ session' = [session EXCEPT ![a] = NoSubject]
    /\ dead' = dead \ {a}
    /\ UNCHANGED <<rowVars, link, login, outside, requests, count>>

\* ensure_pairing_code.
IssuePairing(a) ==
    /\ a \in WebAccounts \ pairing
    /\ pairing' = pairing \cup {a}
    /\ OutsideStep
    /\ UNCHANGED <<claims, link, login, session, dead>>

\* redeem_claim_code_from_channel and complete_web_claim_from_browser, with a
\* friend link as the continuation.
CompleteClaim(a, l) ==
    /\ \E s \in Subjects : identity[s].account = a
    /\ l \notin consumed[a] \cup claims[a]
    /\ claims' = [claims EXCEPT ![a] = @ \cup {l}]
    /\ OutsideStep
    /\ UNCHANGED <<pairing, link, login, session, dead>>

\* disable_friend_link.
DisableLink(l) ==
    /\ l \in link
    /\ link' = link \ {l}
    /\ OutsideStep
    /\ UNCHANGED <<pairing, claims, login, session, dead>>

-----------------------------------------------------------------------------
Outside ==
    \/ \E a \in Accounts :
          \/ StartLogin(a) \/ IssuePairing(a) \/ SessionExpires(a) \/ PollFindsExpired(a)
          \/ \E s \in Subjects : Scan(a, s)
          \/ \E l \in Links : CompleteClaim(a, l)
    \/ \E l \in Links : DisableLink(l)

Next ==
    \/ Outside
    \/ \E a \in Accounts :
          \/ BeginWeChatInbound(a) \/ BeginPollLogin(a) \/ BeginSend(a)
          \/ \E s \in Subjects : BeginCreate(a, s)
          \/ \E s \in Subjects, code \in BOOLEAN : BeginWhatsAppInbound(a, s, code)
    \/ \E c \in Channels, op \in {"connect", "retry", "remove"} : BeginRow(op, c)
    \/ \E q \in requests :
          \/ Refuse(q) \/ CommitConnecting(q) \/ CommitRemove(q)
          \/ SendFindsExpired(q) \/ CommitSend(q)
          \/ \E c \in Channels : CommitAccept(q, c) \/ CommitCreate(q, c)

Spec == Init /\ [][Next]_vars

-----------------------------------------------------------------------------
(* Properties.                                                             *)

TypeOK ==
    /\ identity \in [Subjects -> Identities]
    /\ channel \in [Channels -> ChannelRows]
    /\ route \in [Channels -> Lifecycles]
    /\ pairing \subseteq WebAccounts
    /\ claims \in [Accounts -> SUBSET Links]
    /\ consumed \in [Accounts -> SUBSET Links]
    /\ link \subseteq Links
    /\ friends \subseteq SUBSET Accounts
    /\ login \subseteq WebAccounts
    /\ session \in [Accounts -> WeChat \cup {NoSubject}]
    /\ dead \subseteq WebAccounts
    /\ requests \subseteq Requests
    /\ count \in 0..MaxRequests
    /\ outside \in 0..MaxOutside
    /\ \A a \in Accounts : Cardinality(ActiveChannels(a)) <= 1

\* A channel the account sees as connected has a route that is not retired, and
\* an identity that is the account's own: whatever removals, dead sends, second
\* connections and resurrected rows cross (send_text needs no more than this
\* row to send).
ConnectedHasRoute ==
    \A c \in Channels : channel[c].life = "active" /\ channel[c].state = "connected" =>
        /\ route[c] = "active"
        /\ identity[channel[c].subject].account = channel[c].account

\* A friend link that a claim carried is given up only together with its
\* friendship, by whichever of several connections comes first; and an account
\* is never its own friend.
ConsumedMeansFriends ==
    \A a \in Accounts : \A l \in consumed[a] :
        Owner[l] # a /\ Pair(a, Owner[l]) \in friends

\* What the repository says of the program and the code does not keep.

\* docs/product-requirements/current.md:222: "After removal, the system must no
\* longer reach the user through that channel."
RemovedStaysRemoved ==
    [][\A c \in Channels : channel[c].life = "removed" => channel'[c].life = "removed"]_vars

\* docs/product-requirements/current.md:219: "A user-visible connected state must
\* mean Coke can already send".  The connector has given the session up, and no
\* answer is on its way to coke.
ConnectedCanSend ==
    \A c \in Channels : channel[c].state = "connected" /\ channel[c].subject \in WeChat =>
        session[channel[c].account] # NoSubject \/ \E q \in requests : q.answered

\* docs/product-requirements/current.md:237 promises recovery actions for
\* "needs reconnection" or "retry available": a retried channel without a session
\* gets no login code as long as its row is there.
RetryCanSucceed ==
    \A c \in Channels : channel[c].state = "connecting" /\ channel[c].subject \in WeChat =>
        session[channel[c].account] # NoSubject \/ channel[c].account \in login

\* docs/product-requirements/current.md:450: "Reset and disable only affect future
\* new friendships."  Here a disabled link keeps who has claimed it from being
\* connected at all.
ClaimsDoNotBlock ==
    \A q \in requests : q.op \in {"inbound", "poll_login"} /\ q.row.state # "connected" =>
        ~ \E k \in q.claims : k \notin link
=============================================================================
