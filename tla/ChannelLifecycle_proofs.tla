----------------------- MODULE ChannelLifecycle_proofs -----------------------
(***************************************************************************)
(* ChannelLifecycle's invariants for any accounts, subjects, channels and  *)
(* links, and any number of requests that read and write in between.       *)
(*                                                                         *)
(* A commit writes a row as it was read, so it is not enough to know what  *)
(* holds of the rows: RequestOK says what is still true of a row in a      *)
(* request's hands.  It rests on two things that no step takes back: a     *)
(* subject that is bound stays with its account, and friends stay friends  *)
(* (Settled).  No commit but a connection's writes a row as connected, and *)
(* it writes the route in the same transaction.                            *)
(***************************************************************************)
EXTENDS ChannelLifecycle, FiniteSetTheorems, TLAPS

\* An active row has an account and a subject.
RowOK(row) == row.life = "active" => row.account \in Accounts /\ row.subject \in Subjects

\* A subject without an account has no row at all.
IdentityOK(id) == id.account = NoAccount => id = Unbound

\* What a request has read, and still may write.
RequestOK(q) ==
    /\ RowOK(q.row)
    /\ IdentityOK(q.identity)
    /\ q.identity.account # NoAccount => identity[q.subject].account = q.identity.account
    /\ q.friends \subseteq friends
    /\ q.open => \A l \in q.claims : Owner[l] # q.who
    /\ q.op \in {"inbound", "poll_login"} =>
          /\ q.identity.account \in {NoAccount, q.who}
          /\ q.channel # NoChannel => q.row.account = q.who /\ q.row.subject = q.subject
    /\ q.op \in {"connect", "retry", "remove", "send"} => q.channel \in Channels

\* The types, with the one active channel of an account said without counting.
Types ==
    /\ identity \in [Subjects -> Identities]
    /\ channel \in [Channels -> ChannelRows]
    /\ route \in [Channels -> Lifecycles]
    /\ pairing \subseteq WebAccounts
    /\ claims \in [Accounts -> SUBSET Links]
    /\ consumed \in [Accounts -> SUBSET Links]
    /\ link \subseteq Links
    /\ friends \subseteq SUBSET Accounts
    /\ login \subseteq WebAccounts
    /\ session \in [Accounts -> WeChat \cup {NoSubject}]
    /\ dead \subseteq WebAccounts
    /\ requests \subseteq Requests
    /\ count \in 0..MaxRequests
    /\ outside \in 0..MaxOutside

OneActive ==
    \A c, d \in Channels :
       channel[c].life = "active" /\ channel[d].life = "active"
          /\ channel[c].account = channel[d].account => c = d

IInv ==
    /\ Types
    /\ OneActive
    /\ \A a \in Accounts : session[a] # NoSubject => a \in WebAccounts
    /\ \A s \in Subjects : IdentityOK(identity[s])
    /\ \A c \in Channels : RowOK(channel[c])
    /\ \A q \in requests : RequestOK(q)
    /\ ConnectedHasRoute
    /\ ConsumedMeansFriends

-----------------------------------------------------------------------------
(* Init.                                                                   *)

LEMMA InitIInv == Init => IInv
<1> SUFFICES ASSUME Init PROVE IInv
  OBVIOUS
<1> USE ChannelAssumption
<1> DEFINE At(c) == {x \in LinkedAtStart : x.channel = c}
           Of(s) == {x \in LinkedAtStart : x.subject = s}
           Own(a) == {x \in LinkedAtStart : x.account = a /\ x.subject \in WeChat}
           The(set) == CHOOSE x \in set : TRUE
<1>1. ASSUME NEW x \in LinkedAtStart
      PROVE  /\ x.channel \in Channels /\ x.account \in WebAccounts /\ x.subject \in Subjects
             /\ The(Of(x.subject)) = x
  <2>1. x \in Of(x.subject) /\ \A y \in Of(x.subject) : y = x
    OBVIOUS
  <2> QED
    BY <2>1
<1>2. ASSUME NEW s \in Subjects
      PROVE  /\ Of(s) # {} => The(Of(s)) \in LinkedAtStart /\ The(Of(s)).subject = s
             /\ identity[s] = IF Of(s) = {} THEN Unbound
                              ELSE [account |-> The(Of(s)).account, anchor |-> FALSE]
    BY DEF Init
<1>3. ASSUME NEW c \in Channels
      PROVE  /\ At(c) # {} => The(At(c)) \in LinkedAtStart /\ The(At(c)).channel = c
             /\ channel[c] = IF At(c) = {} THEN NoRow
                             ELSE [NewRow(The(At(c)).account, The(At(c)).subject, TRUE)
                                      EXCEPT !.state = "connected"]
             /\ route[c] = IF At(c) = {} THEN "none" ELSE "active"
    BY DEF Init
<1>4. ASSUME NEW a \in Accounts
      PROVE  /\ session[a] = IF Own(a) = {} THEN NoSubject ELSE The(Own(a)).subject
             /\ Own(a) # {} => The(Own(a)) \in LinkedAtStart /\ The(Own(a)).account = a
                               /\ The(Own(a)).subject \in WeChat
    BY DEF Init
<1> HIDE DEF At, Of, Own, The
<1>5. ASSUME NEW s \in Subjects PROVE identity[s] \in Identities /\ IdentityOK(identity[s])
  <2>1. CASE Of(s) = {}
    <3>1. identity[s] = Unbound
      BY <1>2, <2>1
    <3>2. Unbound \in Identities
      BY DEF Unbound, Identities
    <3> QED
      BY <3>1, <3>2 DEF IdentityOK
  <2>2. CASE Of(s) # {}
    <3> DEFINE b == The(Of(s)).account
    <3>1. b \in WebAccounts /\ identity[s] = [account |-> b, anchor |-> FALSE]
      BY <1>1, <1>2, <2>2
    <3> QED
      BY <3>1 DEF Identities, IdentityOK, Accounts
  <2> QED
    BY <2>1, <2>2
<1>6. ASSUME NEW c \in Channels
      PROVE  /\ channel[c] \in ChannelRows /\ route[c] \in Lifecycles
             /\ channel[c].life = "active" =>
                   \E x \in LinkedAtStart : /\ x.channel = c /\ route[c] = "active"
                        /\ channel[c].account = x.account /\ channel[c].subject = x.subject
  <2>1. CASE At(c) = {}
    <3>1. channel[c] = NoRow /\ route[c] = "none"
      BY <1>3, <2>1
    <3>2. NoRow \in ChannelRows /\ NoRow.life = "absent"
      BY DEF NoRow, ChannelRows, States
    <3> QED
      BY <3>1, <3>2 DEF Lifecycles
  <2>2. CASE At(c) # {}
    <3> DEFINE x == The(At(c))
    <3>1. /\ x \in LinkedAtStart /\ x.channel = c /\ route[c] = "active"
          /\ channel[c] = [NewRow(x.account, x.subject, TRUE) EXCEPT !.state = "connected"]
      BY <1>3, <2>2
    <3> HIDE DEF x
    <3>2. x.account \in Accounts /\ x.subject \in Subjects
      BY <1>1, <3>1 DEF Accounts
    <3> QED
      BY <3>1, <3>2 DEF NewRow, ChannelRows, States, Lifecycles
  <2> QED
    BY <2>1, <2>2
<1>7. ASSUME NEW a \in Accounts
      PROVE  session[a] \in WeChat \cup {NoSubject} /\ (session[a] # NoSubject => a \in WebAccounts)
  BY <1>1, <1>4
<1>8. Types
  <2>1. /\ identity = [s \in Subjects |-> identity[s]] /\ channel = [c \in Channels |-> channel[c]]
        /\ route = [c \in Channels |-> route[c]] /\ session = [a \in Accounts |-> session[a]]
    BY DEF Init
  <2>2. /\ identity \in [Subjects -> Identities] /\ channel \in [Channels -> ChannelRows]
        /\ route \in [Channels -> Lifecycles] /\ session \in [Accounts -> WeChat \cup {NoSubject}]
    BY <1>5, <1>6, <1>7, <2>1
  <2>3. /\ pairing \subseteq WebAccounts /\ claims \in [Accounts -> SUBSET Links]
        /\ consumed \in [Accounts -> SUBSET Links] /\ link \subseteq Links
        /\ friends \subseteq SUBSET Accounts /\ login \subseteq WebAccounts
        /\ dead \subseteq WebAccounts /\ requests \subseteq Requests
        /\ count \in 0..MaxRequests /\ outside \in 0..MaxOutside
    BY DEF Init
  <2> QED
    BY <2>2, <2>3 DEF Types
<1>9. OneActive
  <2> SUFFICES ASSUME NEW c \in Channels, NEW d \in Channels,
                      channel[c].life = "active", channel[d].life = "active",
                      channel[c].account = channel[d].account
               PROVE  c = d
    BY DEF OneActive
  <2> QED
    BY <1>6
<1>10. \A c \in Channels : RowOK(channel[c])
  BY <1>1, <1>6 DEF RowOK, Accounts
<1>11. ConnectedHasRoute
  <2> SUFFICES ASSUME NEW c \in Channels, channel[c].life = "active"
               PROVE  /\ route[c] = "active"
                      /\ identity[channel[c].subject].account = channel[c].account
    BY DEF ConnectedHasRoute
  <2>1. PICK x \in LinkedAtStart :
           /\ x.channel = c /\ route[c] = "active"
           /\ channel[c].account = x.account /\ channel[c].subject = x.subject
    BY <1>6
  <2>2. The(Of(x.subject)) = x /\ x.subject \in Subjects
    BY <1>1
  <2>3. Of(x.subject) # {}
    BY DEF Of
  <2> DEFINE b == The(Of(x.subject)).account
  <2>4. identity[x.subject] = [account |-> b, anchor |-> FALSE] /\ b = x.account
    BY <1>2, <2>2, <2>3
  <2> QED
    BY <2>1, <2>4
<1>12. ConsumedMeansFriends /\ requests = {}
  BY DEF Init, ConsumedMeansFriends
<1> QED
  BY <1>5, <1>7, <1>8, <1>9, <1>10, <1>11, <1>12 DEF IInv

-----------------------------------------------------------------------------
(* What requests read, and what no step takes back.                        *)

Settled ==
    /\ \A s \in Subjects : identity[s].account # NoAccount => identity'[s].account = identity[s].account
    /\ friends \subseteq friends'

LEMMA ActiveChannelIs ==
  ASSUME IInv, NEW a
  PROVE  /\ ActiveChannel(a) \in Channels \cup {NoChannel}
         /\ ActiveChannel(a) # NoChannel =>
               channel[ActiveChannel(a)].account = a /\ channel[ActiveChannel(a)].life = "active"
<1>1. CASE ActiveChannels(a) = {}
  BY <1>1 DEF ActiveChannel
<1>2. CASE ActiveChannels(a) # {}
  BY <1>2 DEF ActiveChannel, ActiveChannels
<1> QED
  BY <1>1, <1>2

LEMMA RowOfIs ==
  ASSUME IInv, NEW c \in Channels \cup {NoChannel}
  PROVE  RowOf(c) \in ChannelRows /\ RowOK(RowOf(c))
<1>1. NoRow \in ChannelRows /\ RowOK(NoRow)
  BY DEF NoRow, ChannelRows, States, RowOK
<1> QED
  BY <1>1 DEF RowOf, IInv, Types

\* A request that has just read.
LEMMA SeenIs ==
  ASSUME IInv, count < MaxRequests, NEW op \in RequestKinds, NEW a \in Accounts,
         NEW s \in Subjects, NEW c \in Channels \cup {NoChannel}, NEW code \in BOOLEAN
  PROVE  /\ Seen(op, a, s, c, code) \in Requests
         /\ (/\ op \in {"inbound", "poll_login"} =>
                /\ identity[s].account \in {NoAccount, a}
                /\ c # NoChannel => channel[c].account = a /\ channel[c].subject = s
             /\ op \in {"connect", "retry", "remove", "send"} => c \in Channels)
            => RequestOK(Seen(op, a, s, c, code))
<1> DEFINE row == RowOf(c)
           id == identity[s]
           rt == IF c = NoChannel THEN "none" ELSE route[c]
           cl == claims[a]
           open == \A l \in claims[a] : l \in link /\ Reachable(Owner[l]) /\ Owner[l] # a
           fr == {p \in friends : a \in p}
           n == count + 1
           r == [op |-> op, n |-> n, who |-> a, subject |-> s, identity |-> id,
                 code |-> code, channel |-> c, row |-> row, route |-> rt, claims |-> cl,
                 open |-> open, friends |-> fr, answered |-> FALSE]
<1>1. row \in ChannelRows /\ RowOK(row)
  BY RowOfIs
<1>2. id \in Identities /\ IdentityOK(id)
  BY DEF IInv, Types
<1>3. rt \in Lifecycles
  BY DEF IInv, Types, Lifecycles
<1>4. cl \in SUBSET Links /\ fr \in SUBSET SUBSET Accounts /\ fr \subseteq friends
  BY DEF IInv, Types
<1>5. n \in 1 .. MaxRequests
  BY ChannelAssumption DEF IInv, Types
<1>6. open => \A l \in cl : Owner[l] # a
  OBVIOUS
<1>7. open \in BOOLEAN
  OBVIOUS
<1>8. c # NoChannel => row = channel[c]
  BY DEF RowOf
<1>9. Seen(op, a, s, c, code) = r
  BY DEF Seen
<1> HIDE DEF row, rt, cl, open, fr, n
<1>10. r \in Requests
  BY <1>1, <1>2, <1>3, <1>4, <1>5, <1>7 DEF Requests
<1>11. ASSUME op \in {"inbound", "poll_login"} =>
                 /\ identity[s].account \in {NoAccount, a}
                 /\ c # NoChannel => channel[c].account = a /\ channel[c].subject = s,
              op \in {"connect", "retry", "remove", "send"} => c \in Channels
       PROVE  RequestOK(r)
  BY <1>1, <1>2, <1>4, <1>6, <1>8, <1>11 DEF RequestOK
<1> HIDE DEF r
<1> QED
  BY <1>9, <1>10, <1>11

\* A request that only waits keeps what it holds.
LEMMA RequestStays ==
  ASSUME IInv, Settled, NEW q \in Requests, RequestOK(q)
  PROVE  RequestOK(q)'
BY DEF RequestOK, Settled, Requests

\* Every step that begins a request.
Beginning ==
    \/ \E a \in Accounts :
          \/ BeginWeChatInbound(a) \/ BeginPollLogin(a) \/ BeginSend(a)
          \/ \E s \in Subjects : BeginCreate(a, s)
          \/ \E s \in Subjects, code \in BOOLEAN : BeginWhatsAppInbound(a, s, code)
    \/ \E c \in Channels, op \in {"connect", "retry", "remove"} : BeginRow(op, c)

LEMMA BeginningBegins ==
  ASSUME IInv, Beginning
  PROVE  \E q \in Requests : Begin(q) /\ RequestOK(q)
<1> USE ChannelAssumption
<1>1. {"inbound", "poll_login", "create", "connect", "retry", "remove", "send"} \subseteq RequestKinds
  BY DEF RequestKinds
<1>2. ASSUME NEW a \in Accounts, NEW s \in Subjects, NEW op \in {"inbound", "poll_login"},
             Begin(Seen(op, a, s, ActiveChannel(a), FALSE)),
             identity[s].account \in {NoAccount, a},
             RowOf(ActiveChannel(a)).subject \in {NoSubject, s}
      PROVE  \E q \in Requests : Begin(q) /\ RequestOK(q)
  <2> DEFINE c == ActiveChannel(a)
  <2>1. /\ c \in Channels \cup {NoChannel}
        /\ c # NoChannel => channel[c].account = a /\ channel[c].life = "active"
    BY ActiveChannelIs
  <2>2. c # NoChannel => channel[c].subject = s
    BY <1>2, <2>1 DEF RowOf, IInv, RowOK
  <2>3. count < MaxRequests
    BY <1>2 DEF Begin
  <2> HIDE DEF c
  <2>4. Seen(op, a, s, c, FALSE) \in Requests /\ RequestOK(Seen(op, a, s, c, FALSE))
    BY <1>1, <1>2, <2>1, <2>2, <2>3, SeenIs
  <2> QED
    BY <1>2, <2>4 DEF c
<1>3. ASSUME NEW a \in Accounts, BeginWeChatInbound(a)
      PROVE  \E q \in Requests : Begin(q) /\ RequestOK(q)
  <2>1. session[a] \in Subjects
    BY <1>3 DEF BeginWeChatInbound, IInv, Types, Subjects
  <2> QED
    BY <1>2, <1>3, <2>1 DEF BeginWeChatInbound
<1>4. ASSUME NEW a \in Accounts, BeginPollLogin(a)
      PROVE  \E q \in Requests : Begin(q) /\ RequestOK(q)
  <2>1. session[a] \in Subjects
    BY <1>4 DEF BeginPollLogin, IInv, Types, Subjects
  <2> QED
    BY <1>2, <1>4, <2>1 DEF BeginPollLogin
<1>5. ASSUME NEW a \in Accounts, NEW s \in Subjects, NEW code \in BOOLEAN,
             BeginWhatsAppInbound(a, s, code)
      PROVE  \E q \in Requests : Begin(q) /\ RequestOK(q)
  <2> DEFINE c == ActiveChannel(a)
  <2>1. /\ identity[s].account \in {NoAccount, a}
        /\ RowOf(c).subject \in {NoSubject, s}
        /\ Begin(Seen("inbound", a, s, c, code))
    BY <1>5 DEF BeginWhatsAppInbound, Unbound
  <2>2. /\ c \in Channels \cup {NoChannel}
        /\ c # NoChannel => channel[c].account = a /\ channel[c].life = "active"
    BY ActiveChannelIs
  <2>3. c # NoChannel => channel[c].subject = s
    BY <2>1, <2>2 DEF RowOf, IInv, RowOK
  <2>4. count < MaxRequests
    BY <2>1 DEF Begin
  <2> HIDE DEF c
  <2>5. Seen("inbound", a, s, c, code) \in Requests /\ RequestOK(Seen("inbound", a, s, c, code))
    BY <1>1, <2>1, <2>2, <2>3, <2>4, SeenIs
  <2> QED
    BY <2>1, <2>5
<1>6. ASSUME NEW a \in Accounts, NEW s \in Subjects, BeginCreate(a, s)
      PROVE  \E q \in Requests : Begin(q) /\ RequestOK(q)
  BY <1>1, <1>6, SeenIs DEF BeginCreate, Begin
<1>7. ASSUME NEW a \in Accounts, BeginSend(a)
      PROVE  \E q \in Requests : Begin(q) /\ RequestOK(q)
  <2> DEFINE c == ActiveChannel(a)
  <2>1. c \in Channels /\ Begin(Seen("send", a, channel[c].subject, c, FALSE))
    BY <1>7, ActiveChannelIs DEF BeginSend
  <2>2. channel[c].subject \in Subjects
    BY <1>7, <2>1, ActiveChannelIs DEF BeginSend, IInv, RowOK
  <2> HIDE DEF c
  <2> QED
    BY <1>1, <2>1, <2>2, SeenIs DEF Begin
<1>8. ASSUME NEW c \in Channels, NEW op \in {"connect", "retry", "remove"}, BeginRow(op, c)
      PROVE  \E q \in Requests : Begin(q) /\ RequestOK(q)
  <2>1. channel[c].account \in Accounts /\ channel[c].subject \in Subjects
    BY <1>8 DEF BeginRow, IInv, RowOK
  <2> QED
    BY <1>1, <1>8, <2>1, SeenIs DEF BeginRow, Begin
<1> QED
  BY <1>3, <1>4, <1>5, <1>6, <1>7, <1>8 DEF Beginning

-----------------------------------------------------------------------------
(* Commits.                                                                *)

LEMMA Ending ==
  ASSUME IInv, Settled, NEW q \in requests, End(q)
  PROVE  /\ requests' \subseteq Requests /\ (\A r \in requests' : RequestOK(r)')
         /\ UNCHANGED <<link, login, session, dead, outside, count>>
<1>1. requests' \subseteq requests /\ UNCHANGED <<link, login, session, dead, outside, count>>
  BY DEF End, outsideVars
<1>2. ASSUME NEW r \in requests' PROVE r \in Requests /\ RequestOK(r)'
  BY <1>1, RequestStays DEF IInv, Types
<1> QED
  BY <1>1, <1>2

\* A row written by a request: the unique index keeps one active channel.
LEMMA Written ==
  ASSUME IInv, NEW c \in Channels, NEW row \in ChannelRows, RowOK(row), SaveChannel(c, row)
  PROVE  /\ channel' \in [Channels -> ChannelRows]
         /\ OneActive' /\ \A d \in Channels : RowOK(channel'[d])
         /\ channel'[c] = row /\ \A d \in Channels : d # c => channel'[d] = channel[d]
<1>1. /\ channel' \in [Channels -> ChannelRows]
      /\ channel'[c] = row /\ \A d \in Channels : d # c => channel'[d] = channel[d]
  BY DEF SaveChannel, IInv, Types
<1>2. \A d \in Channels : RowOK(channel'[d])
  BY <1>1 DEF IInv
<1>3. OneActive'
  BY <1>1 DEF SaveChannel, IsOnlyActive, IInv, OneActive
<1> QED
  BY <1>1, <1>2, <1>3

\* A row that is not connected takes nothing that is connected off its route.
LEMMA NotConnected ==
  ASSUME IInv, NEW c \in Channels, identity' = identity,
         \A d \in Channels : d # c => channel'[d] = channel[d] /\ route'[d] = route[d],
         \/ ~(channel'[c].life = "active" /\ channel'[c].state = "connected")
         \/ channel'[c] = channel[c] /\ (route[c] = "active" => route'[c] = "active")
  PROVE  ConnectedHasRoute'
BY DEF IInv, ConnectedHasRoute

LEMMA RefuseKeeps ==
  ASSUME IInv, NEW q \in requests, Refuse(q)
  PROVE  IInv'
<1>1. /\ End(q)
      /\ UNCHANGED <<identity, channel, route, pairing, claims, friends, consumed>>
  BY DEF Refuse, rowVars
<1>2. Settled
  BY <1>1 DEF Settled
<1>3. /\ requests' \subseteq Requests /\ (\A r \in requests' : RequestOK(r)')
      /\ UNCHANGED <<link, login, session, dead, outside, count>>
  BY <1>1, <1>2, Ending
<1>4. Types'
  BY <1>1, <1>3 DEF IInv, Types
<1> QED
  BY <1>1, <1>3, <1>4 DEF IInv, OneActive, ConnectedHasRoute, ConsumedMeansFriends

LEMMA CreateKeeps ==
  ASSUME IInv, NEW q \in requests, NEW c \in Channels, CommitCreate(q, c)
  PROVE  IInv'
<1>1. q \in Requests
  BY DEF IInv, Types
<1>2. PICK removable \in BOOLEAN : SaveChannel(c, NewRow(q.who, q.subject, removable))
  BY DEF CommitCreate
<1> DEFINE row == NewRow(q.who, q.subject, removable)
<1>3. row \in ChannelRows /\ RowOK(row) /\ row.state = "not_connected"
  BY <1>1 DEF NewRow, ChannelRows, States, RowOK, Requests
<1>4. End(q) /\ UNCHANGED <<identity, route, pairing, claims, friends, consumed>>
  BY DEF CommitCreate
<1> HIDE DEF row
<1>5. /\ channel' \in [Channels -> ChannelRows]
      /\ OneActive' /\ \A d \in Channels : RowOK(channel'[d])
      /\ channel'[c] = row /\ \A d \in Channels : d # c => channel'[d] = channel[d]
  BY <1>2, <1>3, Written DEF row
<1>6. Settled
  BY <1>4 DEF Settled
<1>7. /\ requests' \subseteq Requests /\ (\A r \in requests' : RequestOK(r)')
      /\ UNCHANGED <<link, login, session, dead, outside, count>>
  BY <1>4, <1>6, Ending
<1>8. Types'
  BY <1>4, <1>5, <1>7 DEF IInv, Types
<1>9. ConnectedHasRoute'
  BY <1>3, <1>4, <1>5, NotConnected
<1> QED
  BY <1>4, <1>5, <1>7, <1>8, <1>9 DEF IInv, ConsumedMeansFriends

LEMMA ConnectingKeeps ==
  ASSUME IInv, NEW q \in requests, CommitConnecting(q)
  PROVE  IInv'
<1>1. q \in Requests /\ RequestOK(q) /\ q.row \in ChannelRows
  BY DEF IInv, Types, Requests
<1> DEFINE row == [q.row EXCEPT !.state = "connecting"]
<1>2. row \in ChannelRows /\ RowOK(row) /\ row.state = "connecting"
  BY <1>1 DEF ChannelRows, States, RowOK, RequestOK
<1>3. /\ q.channel \in Channels /\ SaveChannel(q.channel, row) /\ End(q)
      /\ UNCHANGED <<identity, route, pairing, claims, friends, consumed>>
  BY <1>1 DEF CommitConnecting, RequestOK
<1> HIDE DEF row
<1>5. /\ channel' \in [Channels -> ChannelRows]
      /\ OneActive' /\ \A d \in Channels : RowOK(channel'[d])
      /\ channel'[q.channel] = row /\ \A d \in Channels : d # q.channel => channel'[d] = channel[d]
  BY <1>2, <1>3, Written
<1>6. Settled
  BY <1>3 DEF Settled
<1>7. /\ requests' \subseteq Requests /\ (\A r \in requests' : RequestOK(r)')
      /\ UNCHANGED <<link, login, session, dead, outside, count>>
  BY <1>3, <1>6, Ending
<1>8. Types'
  BY <1>3, <1>5, <1>7 DEF IInv, Types
<1>9. ConnectedHasRoute'
  BY <1>2, <1>3, <1>5, NotConnected
<1> QED
  BY <1>3, <1>5, <1>7, <1>8, <1>9 DEF IInv, ConsumedMeansFriends

LEMMA RemoveKeeps ==
  ASSUME IInv, NEW q \in requests, CommitRemove(q)
  PROVE  IInv'
<1>1. q \in Requests /\ RequestOK(q) /\ q.row \in ChannelRows
  BY DEF IInv, Types, Requests
<1> DEFINE row == [q.row EXCEPT !.life = "removed", !.state = "removed"]
<1>2. row \in ChannelRows /\ RowOK(row) /\ row.life = "removed"
  BY <1>1 DEF ChannelRows, States, RowOK
<1>3. /\ q.channel \in Channels /\ SaveChannel(q.channel, row) /\ End(q) /\ RetireRoutes(q.channel)
      /\ UNCHANGED <<identity, pairing, claims, friends, consumed>>
  BY <1>1 DEF CommitRemove, RequestOK
<1> HIDE DEF row
<1>4. route' \in [Channels -> Lifecycles] /\ \A d \in Channels : d # q.channel => route'[d] = route[d]
  BY <1>3 DEF RetireRoutes, IInv, Types, Lifecycles
<1>5. /\ channel' \in [Channels -> ChannelRows]
      /\ OneActive' /\ \A d \in Channels : RowOK(channel'[d])
      /\ channel'[q.channel] = row /\ \A d \in Channels : d # q.channel => channel'[d] = channel[d]
  BY <1>2, <1>3, Written
<1>6. Settled
  BY <1>3 DEF Settled
<1>7. /\ requests' \subseteq Requests /\ (\A r \in requests' : RequestOK(r)')
      /\ UNCHANGED <<link, login, session, dead, outside, count>>
  BY <1>3, <1>6, Ending
<1>8. Types'
  BY <1>3, <1>4, <1>5, <1>7 DEF IInv, Types
<1>9. ConnectedHasRoute'
  BY <1>2, <1>3, <1>4, <1>5, NotConnected
<1> QED
  BY <1>3, <1>5, <1>7, <1>8, <1>9 DEF IInv, ConsumedMeansFriends

LEMMA SendKeeps ==
  ASSUME IInv, NEW q \in requests, CommitSend(q)
  PROVE  IInv'
<1>1. q \in Requests /\ RequestOK(q) /\ q.row \in ChannelRows
  BY DEF IInv, Types, Requests
<1> DEFINE row == [q.row EXCEPT !.state = "reconnection_required"]
<1>2. row \in ChannelRows /\ RowOK(row) /\ row.state = "reconnection_required"
  BY <1>1 DEF ChannelRows, States, RowOK, RequestOK
<1>3. /\ SaveChannel(q.channel, row) \/ UNCHANGED channel
      /\ End(q) /\ route' = [route EXCEPT ![q.channel] = "active"]
      /\ UNCHANGED <<identity, pairing, claims, friends, consumed>>
  BY <1>1 DEF CommitSend, RequestOK
<1> HIDE DEF row
<1>4. q.channel \in Channels
  BY <1>1 DEF CommitSend, RequestOK
<1>5. /\ route' \in [Channels -> Lifecycles] /\ route'[q.channel] = "active"
      /\ \A d \in Channels : d # q.channel => route'[d] = route[d]
  BY <1>3, <1>4 DEF IInv, Types, Lifecycles
<1>6. /\ channel' \in [Channels -> ChannelRows]
      /\ OneActive' /\ \A d \in Channels : RowOK(channel'[d])
      /\ channel'[q.channel] = row \/ channel'[q.channel] = channel[q.channel]
      /\ \A d \in Channels : d # q.channel => channel'[d] = channel[d]
  <2>1. CASE SaveChannel(q.channel, row)
    BY <1>2, <1>4, <2>1, Written
  <2>2. CASE UNCHANGED channel
    BY <2>2 DEF IInv, Types, OneActive
  <2> QED
    BY <1>3, <2>1, <2>2
<1>7. Settled
  BY <1>3 DEF Settled
<1>8. /\ requests' \subseteq Requests /\ (\A r \in requests' : RequestOK(r)')
      /\ UNCHANGED <<link, login, session, dead, outside, count>>
  BY <1>3, <1>7, Ending
<1>9. Types'
  BY <1>3, <1>5, <1>6, <1>8 DEF IInv, Types
<1>10. ConnectedHasRoute'
  BY <1>2, <1>3, <1>4, <1>5, <1>6, NotConnected
<1> QED
  BY <1>3, <1>6, <1>8, <1>9, <1>10 DEF IInv, ConsumedMeansFriends

LEMMA FindsExpiredKeeps ==
  ASSUME IInv, NEW q \in requests, SendFindsExpired(q)
  PROVE  IInv'
<1> DEFINE row == channel[q.channel]
           r == [q EXCEPT !.answered = TRUE, !.row = row]
<1>1. q \in Requests /\ RequestOK(q) /\ q.op = "send" /\ q.channel \in Channels /\ q.who \in Accounts
  BY DEF IInv, Types, Requests, SendFindsExpired, RequestOK
<1>2. /\ requests' = (requests \ {q}) \cup {r} \/ requests' = requests
      /\ session' = [session EXCEPT ![q.who] = NoSubject] /\ dead' = dead \ {q.who}
      /\ UNCHANGED <<identity, channel, route, pairing, claims, friends, consumed, link, login,
                     outside, count>>
  BY DEF SendFindsExpired, rowVars
<1>3. row \in ChannelRows /\ RowOK(row)
  BY <1>1 DEF IInv, Types
<1> HIDE DEF row
<1>4. r \in Requests
  BY <1>1, <1>3 DEF Requests
<1>5. RequestOK(r)
  <2>1. /\ r.op = q.op /\ r.identity = q.identity /\ r.subject = q.subject /\ r.friends = q.friends
        /\ r.open = q.open /\ r.claims = q.claims /\ r.who = q.who /\ r.channel = q.channel
        /\ r.row = row
    BY <1>1 DEF Requests
  <2> HIDE DEF r
  <2> QED
    BY <1>1, <1>3, <2>1 DEF RequestOK
<1> HIDE DEF r
<1>6. Settled
  BY <1>2 DEF Settled
<1>7. requests' \subseteq Requests /\ \A x \in requests' : RequestOK(x)'
  BY <1>2, <1>4, <1>5, <1>6, RequestStays DEF IInv, Types
<1>8. Types'
  BY <1>2, <1>7 DEF IInv, Types
<1>9. \A a \in Accounts : session'[a] # NoSubject => a \in WebAccounts
  BY <1>2 DEF IInv, Types
<1> QED
  BY <1>2, <1>7, <1>8, <1>9 DEF IInv, OneActive, ConnectedHasRoute, ConsumedMeansFriends

\* The links that a connection consumes: with their friendships, or not at all.
LEMMA Completing ==
  ASSUME IInv, NEW q \in requests, CompleteDeferred(q)
  PROVE  /\ friends \subseteq friends' /\ friends' \subseteq SUBSET Accounts
         /\ claims' \in [Accounts -> SUBSET Links] /\ consumed' \in [Accounts -> SUBSET Links]
         /\ ConsumedMeansFriends'
<1>1. q \in Requests /\ RequestOK(q)
  BY DEF IInv, Types
<1>2. q.who \in Accounts /\ q.claims \subseteq Links /\ q.friends \subseteq friends /\ q.open
      /\ \A l \in q.claims : Owner[l] # q.who
  BY <1>1 DEF Requests, RequestOK, CompleteDeferred
<1>3. /\ friends' = friends \cup ({Pair(q.who, Owner[l]) : l \in q.claims} \ q.friends)
      /\ claims' = [claims EXCEPT ![q.who] = claims[q.who] \ q.claims]
      /\ consumed' = [consumed EXCEPT ![q.who] = consumed[q.who] \cup q.claims]
  BY DEF CompleteDeferred
<1>4. friends \subseteq friends' /\ \A l \in q.claims : Pair(q.who, Owner[l]) \in friends'
  BY <1>2, <1>3
<1>5. friends' \subseteq SUBSET Accounts
  BY <1>2, <1>3, ChannelAssumption DEF Pair, IInv, Types
<1>6. /\ claims' \in [Accounts -> SUBSET Links] /\ consumed' \in [Accounts -> SUBSET Links]
      /\ \A a \in Accounts : consumed'[a] = IF a = q.who THEN consumed[a] \cup q.claims ELSE consumed[a]
  BY <1>2, <1>3 DEF IInv, Types
<1>7. ConsumedMeansFriends'
  BY <1>2, <1>4, <1>6 DEF IInv, ConsumedMeansFriends
<1> QED
  BY <1>4, <1>5, <1>6, <1>7

LEMMA AcceptKeeps ==
  ASSUME IInv, NEW q \in requests, NEW c \in Channels, CommitAccept(q, c)
  PROVE  IInv'
<1> USE ChannelAssumption
<1> DEFINE anchored == q.who \in MessagingAccounts
           bound == IF q.identity = Unbound
                      THEN [account |-> q.who, anchor |-> anchored] ELSE q.identity
           new == NewRow(q.who, q.subject, ~bound.anchor)
           row == IF q.channel = NoChannel THEN new ELSE q.row
           made == [row EXCEPT !.state = "connected"]
<1>1. /\ q \in Requests /\ RequestOK(q) /\ q.op \in {"inbound", "poll_login"}
      /\ q.who \in Accounts
      /\ q.identity \in Identities /\ q.row \in ChannelRows
  BY DEF IInv, Types, Requests, CommitAccept
<1>2. /\ identity[q.subject] = q.identity \/ q.identity.account # NoAccount
      /\ identity' = [identity EXCEPT ![q.subject] = bound]
      /\ pairing' = IF q.code THEN pairing \ {q.who} ELSE pairing
      /\ IF q.channel = NoChannel THEN channel[c] = NoRow ELSE c = q.channel
      /\ IF row.state = "connected"
           THEN UNCHANGED <<channel, route, friends, claims, consumed>>
           ELSE MarkConnected(q, c, row)
      /\ End(q)
  BY DEF CommitAccept, Accept
<1>3. /\ q.subject \in Subjects
      /\ q.identity.account \in {NoAccount, q.who} /\ IdentityOK(q.identity)
      /\ q.identity.account # NoAccount => identity[q.subject].account = q.identity.account
      /\ q.channel # NoChannel => q.row.account = q.who /\ q.row.subject = q.subject
      /\ RowOK(q.row)
  BY <1>1 DEF RequestOK, Requests
<1>4. bound \in Identities /\ bound.account = q.who
  <2>1. CASE q.identity = Unbound
    <3>1. anchored \in BOOLEAN
      OBVIOUS
    <3> HIDE DEF anchored
    <3>2. [account |-> q.who, anchor |-> anchored] \in Identities
      BY <1>1, <3>1 DEF Identities
    <3> QED
      BY <2>1, <3>2
  <2>2. CASE q.identity # Unbound
    BY <1>1, <1>3, <2>2 DEF IdentityOK
  <2> QED
    BY <2>1, <2>2
<1> HIDE DEF bound
<1>5. (~bound.anchor) \in BOOLEAN
  BY <1>4 DEF Identities
<1>6. new \in ChannelRows /\ new.account = q.who /\ new.subject = q.subject
  BY <1>1, <1>3, <1>5 DEF NewRow, ChannelRows, States
<1> HIDE DEF new
<1>7. row \in ChannelRows /\ row.account = q.who /\ row.subject = q.subject
  BY <1>1, <1>3, <1>6
<1> HIDE DEF row
<1>8. /\ made \in ChannelRows /\ made.account = q.who /\ made.subject = q.subject
      /\ RowOK(made)
  BY <1>1, <1>3, <1>7 DEF ChannelRows, States, RowOK
<1>9. /\ identity' \in [Subjects -> Identities] /\ identity'[q.subject].account = q.who
      /\ \A s \in Subjects : s # q.subject => identity'[s] = identity[s]
      /\ \A s \in Subjects : IdentityOK(identity'[s])
  BY <1>1, <1>2, <1>3, <1>4 DEF IInv, Types, IdentityOK
<1>10. \A s \in Subjects : identity[s].account # NoAccount => identity'[s].account = identity[s].account
  BY <1>2, <1>3, <1>9
<1>11. /\ channel' \in [Channels -> ChannelRows] /\ OneActive'
       /\ \A d \in Channels : RowOK(channel'[d])
       /\ route' \in [Channels -> Lifecycles]
       /\ friends \subseteq friends' /\ friends' \subseteq SUBSET Accounts
       /\ claims' \in [Accounts -> SUBSET Links] /\ consumed' \in [Accounts -> SUBSET Links]
       /\ ConsumedMeansFriends'
       /\ \A d \in Channels : (channel'[d] = channel[d] /\ route'[d] = route[d])
             \/ (route'[d] = "active" /\ channel'[d].account = q.who /\ channel'[d].subject = q.subject)
  <2>1. CASE row.state = "connected"
    <3>1. UNCHANGED <<channel, route, friends, claims, consumed>>
      BY <1>2, <2>1
    <3> QED
      BY <3>1 DEF IInv, Types, OneActive, ConsumedMeansFriends
  <2>2. CASE row.state # "connected"
    <3>1. SaveChannel(c, made) /\ CompleteDeferred(q) /\ route' = [route EXCEPT ![c] = "active"]
      BY <1>2, <2>2 DEF MarkConnected, UpsertRoute
    <3> HIDE DEF made
    <3>2. /\ channel' \in [Channels -> ChannelRows]
          /\ OneActive' /\ \A d \in Channels : RowOK(channel'[d])
          /\ channel'[c] = made /\ \A d \in Channels : d # c => channel'[d] = channel[d]
      BY <1>8, <3>1, Written
    <3>3. /\ route' \in [Channels -> Lifecycles] /\ route'[c] = "active"
          /\ \A d \in Channels : d # c => route'[d] = route[d]
      BY <3>1 DEF IInv, Types, Lifecycles
    <3> QED
      BY <1>8, <3>1, <3>2, <3>3, Completing
  <2> QED
    BY <2>1, <2>2
<1>12. Settled
  BY <1>10, <1>11 DEF Settled
<1>13. /\ requests' \subseteq Requests /\ (\A r \in requests' : RequestOK(r)')
       /\ UNCHANGED <<link, login, session, dead, outside, count>>
  BY <1>2, <1>12, Ending
<1>14. Types'
  <2>1. pairing' \subseteq WebAccounts
    BY <1>2 DEF IInv, Types
  <2> QED
    BY <1>9, <1>11, <1>13, <2>1 DEF IInv, Types
<1>15. ConnectedHasRoute'
  <2> SUFFICES ASSUME NEW d \in Channels, channel'[d].life = "active", channel'[d].state = "connected"
               PROVE  route'[d] = "active" /\ identity'[channel'[d].subject].account = channel'[d].account
    BY DEF ConnectedHasRoute
  <2>1. CASE channel'[d] = channel[d] /\ route'[d] = route[d]
    <3>1. /\ route[d] = "active" /\ identity[channel[d].subject].account = channel[d].account
          /\ channel[d].subject \in Subjects /\ channel[d].account \in Accounts
      BY <2>1 DEF IInv, ConnectedHasRoute, RowOK
    <3> QED
      BY <1>10, <2>1, <3>1
  <2>2. CASE route'[d] = "active" /\ channel'[d].account = q.who /\ channel'[d].subject = q.subject
    BY <1>9, <2>2
  <2> QED
    BY <1>11, <2>1, <2>2
<1> QED
  BY <1>9, <1>11, <1>13, <1>14, <1>15 DEF IInv

-----------------------------------------------------------------------------
(* The other steps.                                                        *)

\* Steps that leave the rows alone.
LEMMA BesideKeeps ==
  ASSUME IInv, UNCHANGED <<identity, channel, route, friends, consumed>>,
         pairing' \subseteq WebAccounts, claims' \in [Accounts -> SUBSET Links],
         link' \subseteq Links, login' \subseteq WebAccounts, dead' \subseteq WebAccounts,
         session' \in [Accounts -> WeChat \cup {NoSubject}],
         \A a \in Accounts : session'[a] # NoSubject => a \in WebAccounts,
         count' \in 0..MaxRequests, outside' \in 0..MaxOutside, requests' \subseteq Requests,
         \A q \in requests' : q \in requests \/ RequestOK(q)
  PROVE  IInv'
<1>1. Settled
  BY DEF Settled
<1>2. Types'
  BY DEF IInv, Types
<1>3. \A q \in requests' : RequestOK(q)'
  BY <1>1, RequestStays DEF IInv
<1> QED
  BY <1>2, <1>3 DEF IInv, OneActive, ConnectedHasRoute, ConsumedMeansFriends

LEMMA BeginKeeps ==
  ASSUME IInv, NEW q \in Requests, Begin(q), RequestOK(q)
  PROVE  IInv'
<1>1. count' \in 0..MaxRequests
  BY ChannelAssumption DEF Begin, IInv, Types
<1>2. /\ requests' = requests \cup {q}
      /\ UNCHANGED <<identity, channel, route, pairing, claims, friends, consumed, link, login,
                     session, dead, outside>>
  BY DEF Begin, rowVars, outsideVars
<1> QED
  BY <1>1, <1>2, BesideKeeps DEF IInv, Types

LEMMA OutsideKeeps ==
  ASSUME IInv, Outside
  PROVE  IInv'
<1> USE ChannelAssumption
<1>1. ASSUME OutsideStep
      PROVE  outside' \in 0..MaxOutside
             /\ UNCHANGED <<identity, channel, route, friends, requests, count, consumed>>
  BY <1>1 DEF OutsideStep, IInv, Types
<1>2. ASSUME NEW a \in Accounts, StartLogin(a) PROVE IInv'
  BY <1>1, <1>2, BesideKeeps DEF StartLogin, IInv, Types
<1>3. ASSUME NEW a \in Accounts, IssuePairing(a) PROVE IInv'
  BY <1>1, <1>3, BesideKeeps DEF IssuePairing, IInv, Types
<1>4. ASSUME NEW a \in Accounts, SessionExpires(a) PROVE IInv'
  BY <1>1, <1>4, BesideKeeps DEF SessionExpires, IInv, Types
<1>5. ASSUME NEW a \in Accounts, PollFindsExpired(a) PROVE IInv'
  BY <1>5, BesideKeeps DEF PollFindsExpired, rowVars, IInv, Types
<1>6. ASSUME NEW a \in Accounts, NEW s \in Subjects, Scan(a, s) PROVE IInv'
  BY <1>1, <1>6, BesideKeeps DEF Scan, IInv, Types
<1>7. ASSUME NEW a \in Accounts, NEW l \in Links, CompleteClaim(a, l) PROVE IInv'
  BY <1>1, <1>7, BesideKeeps DEF CompleteClaim, IInv, Types
<1>8. ASSUME NEW l \in Links, DisableLink(l) PROVE IInv'
  BY <1>1, <1>8, BesideKeeps DEF DisableLink, IInv, Types
<1> QED
  BY <1>2, <1>3, <1>4, <1>5, <1>6, <1>7, <1>8 DEF Outside

-----------------------------------------------------------------------------
(* The invariants.                                                         *)

LEMMA NextIInv == IInv /\ [Next]_vars => IInv'
<1> SUFFICES ASSUME IInv, [Next]_vars PROVE IInv'
  OBVIOUS
<1>1. CASE Outside
  BY <1>1, OutsideKeeps
<1>2. CASE Beginning
  BY <1>2, BeginningBegins, BeginKeeps
<1>3. ASSUME NEW q \in requests,
             \/ Refuse(q) \/ CommitConnecting(q) \/ CommitRemove(q)
             \/ SendFindsExpired(q) \/ CommitSend(q)
             \/ \E c \in Channels : CommitAccept(q, c) \/ CommitCreate(q, c)
      PROVE  IInv'
  BY <1>3, RefuseKeeps, ConnectingKeeps, RemoveKeeps, FindsExpiredKeeps, SendKeeps, AcceptKeeps,
     CreateKeeps
<1>4. CASE UNCHANGED vars
  BY <1>4, BesideKeeps DEF vars, IInv, Types
<1> QED
  BY <1>1, <1>2, <1>3, <1>4 DEF Next, Beginning

\* The inductive invariant holds in every state.
THEOREM Inductive == Spec => []IInv
<1>1. IInv /\ [Next]_vars => IInv'
  BY NextIInv
<1> QED
  BY <1>1, InitIInv, PTL DEF Spec

\* Every variable keeps its type, and an account has at most one active channel
\* (uq_channel_one_active_per_account, with get_active_channel relying on it).
THEOREM TypesHold == Spec => []TypeOK
<1>1. IInv => TypeOK
  <2> SUFFICES ASSUME IInv PROVE TypeOK
    OBVIOUS
  <2>1. ASSUME NEW a \in Accounts PROVE Cardinality(ActiveChannels(a)) <= 1
    <3>1. CASE ActiveChannels(a) = {}
      BY <3>1, FS_EmptySet
    <3>2. CASE ActiveChannels(a) # {}
      <4>1. PICK c \in ActiveChannels(a) : TRUE
        BY <3>2
      <4>2. ActiveChannels(a) = {c}
        BY <4>1 DEF ActiveChannels, IInv, OneActive
      <4>3. Cardinality({c}) = 1
        BY FS_Singleton
      <4> QED
        BY <4>2, <4>3
    <3> QED
      BY <3>1, <3>2
  <2> QED
    BY <2>1 DEF IInv, Types, TypeOK
<1> QED
  BY <1>1, Inductive, PTL

\* What the account sees as connected has an unretired route and the account's own
\* subject, whichever rows requests write back (mark_connected, retire_routes_for_channel,
\* resolve_route).
THEOREM ConnectedIsRouted == Spec => []ConnectedHasRoute
<1>1. IInv => ConnectedHasRoute
  BY DEF IInv
<1> QED
  BY <1>1, Inductive, PTL

\* A claimed friend link is given up only with its friendship
\* (complete_pending_for_account), by whichever connection commits first.
THEOREM ConsumedLinksAreFriends == Spec => []ConsumedMeansFriends
<1>1. IInv => ConsumedMeansFriends
  BY DEF IInv
<1> QED
  BY <1>1, Inductive, PTL
=============================================================================
