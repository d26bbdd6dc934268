----------------------- MODULE SocialScheduling_proofs -----------------------
(***************************************************************************)
(* SocialScheduling's invariants for any accounts, links, shared reminders *)
(* and times, and any number of requests under way at once.                *)
(*                                                                         *)
(* A cancel and a move may cross and each write what it has read, so a     *)
(* cancelled reminder may come back: the argument is not that stale rows   *)
(* are kept out but that each commit writes the reminder, the participants'*)
(* rows and the fact together, so that they agree whatever was read.  For  *)
(* that, RequestOK must say that the participants a request has read are   *)
(* those of the reminder: they never change (Settled).                     *)
(*                                                                         *)
(* The second half is about NotificationDelivery, which delivers what      *)
(* these commits write, for any facts, receivers, resends and aborts.  A   *)
(* notice is first sent by its own turn, which is committed before it is   *)
(* sent: so a turn that is seen again does nothing (OwnTurnInv), and what  *)
(* is sent a second time is in two resends (OnceInv).                      *)
(***************************************************************************)
EXTENDS SocialScheduling, NotificationDelivery, FiniteSetTheorems, TLAPS

\* A link that is there has an owner.
OwnedOK(kept) == kept.life # "absent" => kept.owner \in Accounts

\* What a request has read and is about to write.
RequestOK(q) ==
    /\ q.op = "get_link" => q.who \in Accounts /\ q.n \in Nat
    /\ q.op \in {"reset_link", "disable_link"} =>
          q.row \in Links /\ q.seen \in LinkRows /\ q.n \in Nat /\ q.seen.owner \in Accounts
    /\ q.op = "join" => q.pair \in Pairs
    /\ q.op = "remove_friend" => q.row \in Friendships /\ q.seen \in FriendshipRows
    /\ q.op = "create" => q.who \in Accounts /\ q.parts \subseteq Accounts /\ q.time \in Times
    /\ q.op \in {"cancel", "update"} =>
          /\ q.id \in SharedIds /\ shared[q.id].status # "absent"
          /\ q.seen \in SharedRows /\ q.seen.status = "active"
          /\ q.seen.parts = shared[q.id].parts
          /\ q.rows \in [Accounts -> Projections]
          /\ \A a \in Accounts : q.rows[a].life = "absent" <=> a \notin q.seen.parts
    /\ q.op = "update" => q.time \in Times
    /\ q.op \in {"complete_own", "fire", "edit_own"} =>
          /\ q.id \in SharedIds /\ shared[q.id].status # "absent"
          /\ q.who \in shared[q.id].parts /\ q.who \in Accounts
    /\ q.op = "complete_own" => q.seen \in Projections /\ q.seen.life # "absent"
    /\ q.op \in {"fire", "edit_own"} => q.seen \in ReminderRows /\ q.seen.life # "absent"

IInv ==
    /\ TypeOK
    /\ \A i \in SharedIds : shared[i].status = "absent" => shared[i].parts = {}
    /\ \A l \in Links : OwnedOK(link[l])
    /\ \A q \in requests : RequestOK(q)
    /\ ShownTokenWorks
    /\ RingsAsAgreed
    /\ LastFactStands

-----------------------------------------------------------------------------
(* Init.                                                                   *)

LEMMA InitIInv == Init => IInv
<1> SUFFICES ASSUME Init PROVE IInv
  OBVIOUS
<1> USE SocialAssumption
<1>1. link \in [Links -> LinkRows] /\ ShownTokenWorks /\ \A l \in Links : OwnedOK(link[l])
  BY DEF Init, LinkRows, NoLink, ShownTokenWorks, OwnedOK
<1>2. friendship \in [Friendships -> FriendshipRows]
  <2>1. [pair : FriendsAtStart, life : {"active"}] \cup {NoFriendship} \subseteq FriendshipRows
    BY DEF FriendshipRows, NoFriendship, Pairs
  <2> QED
    BY <2>1 DEF Init
<1>3. /\ shared \in [SharedIds -> SharedRows]
      /\ \A i \in SharedIds : shared[i] \in SharedAtStart \/ shared[i] = NoShared
  <2>1. NoShared \in SharedRows /\ SharedAtStart \subseteq SharedRows
    BY DEF SharedRows, NoShared
  <2> QED
    BY <2>1 DEF Init
<1>4. ASSUME NEW i \in SharedIds
      PROVE  /\ projection[i] \in [Accounts -> Projections]
             /\ reminder[i] \in [Accounts -> ReminderRows] /\ told[i] \in Tellings
             /\ shared[i].status = "absent" => shared[i].parts = {}
             /\ shared[i].status \in {"absent", "active"}
             /\ shared[i].status = "absent" => told[i].status = "none"
             /\ shared[i].status = "active" => /\ told[i].status = "created"
                                             /\ told[i].time = shared[i].time
             /\ \A a \in Accounts :
                   /\ projection[i][a].life = "absent" <=> a \notin shared[i].parts
                   /\ reminder[i][a].life = "absent" <=> a \notin shared[i].parts
                   /\ reminder[i][a].life = "active" =>
                         shared[i].status = "active" /\ reminder[i][a].time = shared[i].time
  <2> DEFINE kept == shared[i]
  <2>1. /\ projection[i] = [a \in Accounts |->
              IF a \in kept.parts THEN [life |-> "active", done |-> FALSE] ELSE NoProjection]
        /\ reminder[i] = [a \in Accounts |->
              IF a \in kept.parts THEN [life |-> "active", time |-> kept.time] ELSE NoReminder]
        /\ told[i] = IF kept = NoShared THEN NoTelling
                     ELSE [status |-> "created", time |-> kept.time, keys |-> {"created"}]
    BY DEF Init
  <2>2. CASE kept = NoShared
    <3>1. kept.parts = {} /\ kept.status = "absent"
      BY <2>2 DEF NoShared
    <3>2. /\ projection[i] = [a \in Accounts |-> NoProjection]
          /\ reminder[i] = [a \in Accounts |-> NoReminder] /\ told[i] = NoTelling
      BY <2>1, <2>2, <3>1
    <3> QED
      BY <3>1, <3>2 DEF Projections, NoProjection, ReminderRows, NoReminder, Tellings, NoTelling
  <2>3. CASE kept \in SharedAtStart
    <3>1. /\ kept.parts \subseteq Accounts /\ kept.status = "active" /\ kept.time \in Times
          /\ kept # NoShared
      BY <2>3 DEF NoShared
    <3> HIDE DEF kept
    <3>2. /\ projection[i] \in [Accounts -> Projections]
          /\ \A a \in Accounts : projection[i][a].life = "absent" <=> a \notin kept.parts
      BY <2>1 DEF Projections, NoProjection
    <3>3. /\ reminder[i] \in [Accounts -> ReminderRows]
          /\ \A a \in Accounts :
                /\ reminder[i][a].life = "absent" <=> a \notin kept.parts
                /\ reminder[i][a].life = "active" => reminder[i][a].time = kept.time
      BY <2>1, <3>1 DEF ReminderRows, NoReminder
    <3>4. told[i] \in Tellings /\ told[i].status = "created" /\ told[i].time = kept.time
      BY <2>1, <3>1 DEF Tellings
    <3> QED
      BY <3>1, <3>2, <3>3, <3>4 DEF kept
  <2> QED
    BY <1>3, <2>2, <2>3
<1>5. TypeOK
  <2>1. /\ projection = [i \in SharedIds |-> projection[i]]
        /\ reminder = [i \in SharedIds |-> reminder[i]] /\ told = [i \in SharedIds |-> told[i]]
    BY DEF Init
  <2>2. /\ projection \in [SharedIds -> [Accounts -> Projections]]
        /\ reminder \in [SharedIds -> [Accounts -> ReminderRows]]
        /\ told \in [SharedIds -> Tellings]
    BY <1>4, <2>1
  <2>3. requests \subseteq Requests /\ edited \subseteq SharedIds \X Accounts
        /\ friendOps \in Nat /\ reminderOps \in Nat
    BY DEF Init
  <2> QED
    BY <1>1, <1>2, <1>3, <1>4, <2>2, <2>3 DEF TypeOK
<1>6. RingsAsAgreed
  BY <1>4 DEF RingsAsAgreed
<1>7. LastFactStands
  BY <1>4 DEF LastFactStands
<1>8. requests = {}
  BY DEF Init
<1> QED
  BY <1>1, <1>4, <1>5, <1>6, <1>7, <1>8 DEF IInv

-----------------------------------------------------------------------------
(* Requests begin, and wait.                                               *)

\* A shared reminder stays, with its participants.
Settled ==
    \A i \in SharedIds : shared[i].status # "absent" =>
        shared'[i].status # "absent" /\ shared'[i].parts = shared[i].parts

LEMMA RequestStays ==
  ASSUME Settled, NEW q, RequestOK(q)
  PROVE  RequestOK(q)'
BY DEF RequestOK, Settled

LEMMA PairOfTwo ==
  ASSUME NEW a, NEW b, a # b
  PROVE  Cardinality({a, b}) = 2
<1>1. IsFiniteSet({b}) /\ Cardinality({b}) = 1
  BY FS_Singleton
<1>2. Cardinality({b} \cup {a}) = Cardinality({b}) + 1
  BY <1>1, FS_AddElement
<1>3. {a, b} = {b} \cup {a}
  OBVIOUS
<1> QED
  BY <1>1, <1>2, <1>3

LEMMA StampIs == IInv => Stamp \in Nat
BY DEF IInv, TypeOK, Stamp

LEMMA BeginBegins ==
  ASSUME IInv, Begin
  PROVE  \E q \in Requests : /\ RequestOK(q) /\ requests' = requests \cup {q}
                             /\ friendOps' \in Nat /\ reminderOps' \in Nat
                             /\ UNCHANGED <<friendVars, rowVars>>
<1> DEFINE Goal == \E q \in Requests : /\ RequestOK(q) /\ requests' = requests \cup {q}
                             /\ friendOps' \in Nat /\ reminderOps' \in Nat
                             /\ UNCHANGED <<friendVars, rowVars>>
           n == Stamp
<1>1. n \in Nat
  BY StampIs
<1>2. ASSUME NEW op, NEW q \in Requests, RequestOK(q), BeginFriendOp(op, q) PROVE Goal
  BY <1>2 DEF BeginFriendOp, IInv, TypeOK
<1>3. ASSUME NEW op, NEW q \in Requests, RequestOK(q), BeginReminderOp(op, q) PROVE Goal
  BY <1>3 DEF BeginReminderOp, IInv, TypeOK
<1> HIDE DEF Goal, n
<1>4. ASSUME NEW a \in Accounts, BeginGetLink(a) PROVE Goal
  <2> DEFINE q == [op |-> "get_link", n |-> n, who |-> a]
  <2>1. q \in Requests
    BY <1>1 DEF Requests
  <2>2. RequestOK(q)
    BY <1>1 DEF RequestOK
  <2> QED
    BY <1>2, <1>4, <2>1, <2>2 DEF BeginGetLink, n
<1>5. ASSUME NEW op \in FriendKinds, NEW l \in Links, BeginEditLink(op, l) PROVE Goal
  <2> DEFINE seen == link[l]
             q == [op |-> op, n |-> n, row |-> l, seen |-> seen]
  <2>1. seen \in LinkRows /\ op \in {"reset_link", "disable_link"} /\ seen.owner \in Accounts
    BY <1>5 DEF IInv, TypeOK, BeginEditLink, OwnedOK
  <2>2. BeginFriendOp(op, q)
    BY <1>5 DEF BeginEditLink, n
  <2> HIDE DEF seen
  <2>3. q \in Requests
    BY <1>1, <2>1 DEF Requests
  <2>4. RequestOK(q)
    BY <1>1, <2>1 DEF RequestOK
  <2> QED
    BY <1>2, <2>2, <2>3, <2>4
<1>6. ASSUME NEW a \in Accounts, NEW l \in Links, BeginJoin(a, l) PROVE Goal
  <2> DEFINE pair == UnorderedPair(a, link[l].owner)
             q == [op |-> "join", n |-> n, pair |-> pair]
  <2>1. BeginFriendOp("join", q)
    BY <1>6 DEF BeginJoin, n
  <2>2. pair \in Pairs
    <3>1. link[l].owner \in Accounts
      BY <1>6 DEF BeginJoin, IInv, OwnedOK
    <3>2. a # link[l].owner
      BY <1>6 DEF BeginJoin
    <3> QED
      BY <3>1, <3>2, PairOfTwo DEF UnorderedPair, Pairs
  <2> HIDE DEF pair
  <2>3. q \in Requests
    BY <1>1, <2>2 DEF Requests
  <2>4. RequestOK(q)
    BY <1>1, <2>2 DEF RequestOK
  <2> QED
    BY <1>2, <2>1, <2>3, <2>4
<1>7. ASSUME NEW f \in Friendships, BeginRemoveFriend(f) PROVE Goal
  <2> DEFINE seen == friendship[f]
             q == [op |-> "remove_friend", n |-> n, row |-> f, seen |-> seen]
  <2>1. seen \in FriendshipRows /\ BeginFriendOp("remove_friend", q)
    BY <1>7 DEF IInv, TypeOK, BeginRemoveFriend, n
  <2> HIDE DEF seen
  <2>2. q \in Requests
    BY <1>1, <2>1 DEF Requests
  <2>3. RequestOK(q)
    BY <1>1, <2>1 DEF RequestOK
  <2> QED
    BY <1>2, <2>1, <2>2, <2>3
<1>8. ASSUME NEW a \in Accounts, NEW t \in Times, NEW receivers \in SUBSET (Accounts \ {a}),
             BeginCreate(a, receivers, t)
      PROVE  Goal
  <2> DEFINE parts == receivers \cup {a}
             q == [op |-> "create", n |-> n, who |-> a, parts |-> parts, time |-> t]
  <2>1. parts \subseteq Accounts /\ BeginReminderOp("create", q)
    BY <1>8 DEF BeginCreate, n
  <2> HIDE DEF parts
  <2>2. q \in Requests
    BY <1>1, <2>1 DEF Requests
  <2>3. RequestOK(q)
    BY <1>1, <2>1 DEF RequestOK
  <2> QED
    BY <1>3, <2>1, <2>2, <2>3
<1>9. ASSUME NEW i \in SharedIds, NEW op \in {"cancel", "update"}, NEW t \in Times \cup {0},
             op = "update" => t \in Times, shared[i].status = "active",
             BeginReminderOp(op, [op |-> op, n |-> Stamp, id |-> i, seen |-> shared[i],
                                  rows |-> projection[i], time |-> t])
      PROVE  Goal
  <2> DEFINE seen == shared[i]
             rows == projection[i]
             q == [op |-> op, n |-> n, id |-> i, seen |-> seen, rows |-> rows, time |-> t]
  <2>1. BeginReminderOp(op, q)
    BY <1>9 DEF n
  <2>2. /\ seen \in SharedRows /\ rows \in [Accounts -> Projections]
        /\ \A a \in Accounts : rows[a].life = "absent" <=> a \notin seen.parts
        /\ seen.status = "active" /\ shared[i].status # "absent" /\ seen.parts = shared[i].parts
    BY <1>9 DEF IInv, TypeOK
  <2> HIDE DEF seen, rows
  <2>3. q \in Requests
    BY <1>1, <2>2 DEF Requests
  <2>4. RequestOK(q)
    BY <1>9, <2>2 DEF RequestOK
  <2> QED
    BY <1>3, <2>1, <2>3, <2>4
<1>10. ASSUME NEW i \in SharedIds, BeginCancel(i) PROVE Goal
  BY <1>9, <1>10 DEF BeginCancel
<1>11. ASSUME NEW i \in SharedIds, NEW t \in Times, BeginUpdate(i, t) PROVE Goal
  BY <1>9, <1>11 DEF BeginUpdate
<1>12. ASSUME NEW i \in SharedIds, NEW a \in Accounts, BeginCompleteOwn(i, a) PROVE Goal
  <2> DEFINE seen == projection[i][a]
             q == [op |-> "complete_own", n |-> n, id |-> i, who |-> a, seen |-> seen]
  <2>1. BeginReminderOp("complete_own", q)
    BY <1>12 DEF BeginCompleteOwn, n
  <2>2. /\ seen \in Projections /\ seen.life # "absent" /\ a \in shared[i].parts
        /\ shared[i].status # "absent"
    BY <1>12 DEF BeginCompleteOwn, IInv, TypeOK
  <2> HIDE DEF seen
  <2>3. q \in Requests
    BY <1>1, <2>2 DEF Requests
  <2>4. RequestOK(q)
    BY <2>2 DEF RequestOK
  <2> QED
    BY <1>3, <2>1, <2>3, <2>4
<1>13. ASSUME NEW op \in ReminderKinds, NEW i \in SharedIds, NEW a \in Accounts, BeginRowOp(op, i, a)
       PROVE  Goal
  <2> DEFINE seen == reminder[i][a]
             q == [op |-> op, n |-> n, id |-> i, who |-> a, seen |-> seen]
  <2>1. BeginReminderOp(op, q) /\ op \in {"fire", "edit_own"}
    BY <1>13 DEF BeginRowOp, n
  <2>2. /\ seen \in ReminderRows /\ seen.life # "absent" /\ a \in shared[i].parts
        /\ shared[i].status # "absent"
    BY <1>13 DEF BeginRowOp, IInv, TypeOK
  <2> HIDE DEF seen
  <2>3. q \in Requests
    BY <1>1, <2>1, <2>2 DEF Requests
  <2>4. RequestOK(q)
    BY <2>1, <2>2 DEF RequestOK
  <2> QED
    BY <1>3, <2>1, <2>3, <2>4
<1> QED
  BY <1>4, <1>5, <1>6, <1>7, <1>8, <1>10, <1>11, <1>12, <1>13 DEF Begin, Goal

-----------------------------------------------------------------------------
(* Commits.                                                                *)

\* Whatever begins or ends, the requests that wait keep what they hold.
LEMMA WaitingKeeps ==
  ASSUME IInv, Settled, requests' \subseteq requests
  PROVE  requests' \subseteq Requests /\ \A q \in requests' : RequestOK(q)'
BY RequestStays DEF IInv, TypeOK

LEMMA RefuseKeeps ==
  ASSUME IInv, NEW q \in requests, Refuse(q)
  PROVE  IInv'
<1>1. /\ requests' \subseteq requests
      /\ UNCHANGED <<link, friendship, shared, projection, reminder, told, edited, friendOps,
                     reminderOps>>
  BY DEF Refuse, Commit, friendVars, rowVars
<1>2. Settled
  BY <1>1 DEF Settled, IInv, TypeOK
<1>3. requests' \subseteq Requests /\ \A r \in requests' : RequestOK(r)'
  BY <1>1, <1>2, WaitingKeeps
<1>4. TypeOK'
  BY <1>1, <1>3 DEF IInv, TypeOK
<1> QED
  BY <1>1, <1>3, <1>4 DEF IInv, ShownTokenWorks, RingsAsAgreed, LastFactStands

\* Links: a row is written with its token and its shown token together, or disabled.
LEMMA LinkKeeps ==
  ASSUME IInv, NEW q \in requests, NEW l \in Links, NEW kept \in LinkRows, OwnedOK(kept),
         kept.life = "active" => kept.shown = kept.token,
         link' = [link EXCEPT ![l] = kept], Commit(q), UNCHANGED <<friendship, rowVars>>
  PROVE  IInv'
<1>1. /\ requests' \subseteq requests
      /\ UNCHANGED <<friendship, shared, projection, reminder, told, edited, friendOps, reminderOps>>
  BY DEF Commit, rowVars
<1>2. Settled
  BY <1>1 DEF Settled, IInv, TypeOK
<1>3. requests' \subseteq Requests /\ \A r \in requests' : RequestOK(r)'
  BY <1>1, <1>2, WaitingKeeps
<1>4. /\ link' \in [Links -> LinkRows] /\ ShownTokenWorks'
      /\ \A m \in Links : OwnedOK(link'[m])
  BY DEF IInv, TypeOK, ShownTokenWorks
<1>5. TypeOK'
  BY <1>1, <1>3, <1>4 DEF IInv, TypeOK
<1> QED
  BY <1>1, <1>3, <1>4, <1>5 DEF IInv, RingsAsAgreed, LastFactStands

LEMMA LinksKeep ==
  ASSUME IInv, NEW q \in requests,
         (\E l \in Links : CommitGetLink(q, l)) \/ CommitResetLink(q) \/ CommitDisableLink(q)
  PROVE  IInv'
<1>1. RequestOK(q)
  BY DEF IInv
<1>2. ASSUME NEW l \in Links, CommitGetLink(q, l) PROVE IInv'
  <2> DEFINE kept == [owner |-> q.who, life |-> "active", token |-> q.n, shown |-> q.n]
  <2>1. kept \in LinkRows /\ OwnedOK(kept) /\ kept.shown = kept.token
    BY <1>1, <1>2 DEF CommitGetLink, RequestOK, LinkRows, OwnedOK
  <2>2. link' = [link EXCEPT ![l] = kept] /\ Commit(q) /\ UNCHANGED <<friendship, rowVars>>
    BY <1>2 DEF CommitGetLink
  <2> HIDE DEF kept
  <2> QED
    BY <2>1, <2>2, LinkKeeps
<1>3. CASE CommitResetLink(q)
  <2> DEFINE kept == [q.seen EXCEPT !.life = "active", !.token = q.n, !.shown = q.n]
  <2>1. /\ q.row \in Links /\ q.seen \in LinkRows /\ q.n \in Nat /\ q.seen.owner \in Accounts
    BY <1>1, <1>3 DEF CommitResetLink, RequestOK
  <2>2. kept \in LinkRows /\ OwnedOK(kept) /\ kept.shown = kept.token
    BY <2>1 DEF LinkRows, OwnedOK
  <2>3. link' = [link EXCEPT ![q.row] = kept] /\ Commit(q) /\ UNCHANGED <<friendship, rowVars>>
    BY <1>3 DEF CommitResetLink
  <2> HIDE DEF kept
  <2> QED
    BY <2>1, <2>2, <2>3, LinkKeeps
<1>4. CASE CommitDisableLink(q)
  <2> DEFINE shown == link[q.row].shown
             kept == [q.seen EXCEPT !.life = "disabled", !.shown = shown]
  <2>1. /\ q.row \in Links /\ q.seen \in LinkRows /\ q.seen.owner \in Accounts
    BY <1>1, <1>4 DEF CommitDisableLink, RequestOK
  <2>2. shown \in Nat
    BY <2>1 DEF IInv, TypeOK, LinkRows
  <2>3. link' = [link EXCEPT ![q.row] = kept] /\ Commit(q) /\ UNCHANGED <<friendship, rowVars>>
    BY <1>4 DEF CommitDisableLink
  <2> HIDE DEF shown
  <2>4. kept \in LinkRows /\ OwnedOK(kept) /\ kept.life = "disabled"
    BY <2>1, <2>2 DEF LinkRows, OwnedOK
  <2> HIDE DEF kept
  <2> QED
    BY <2>1, <2>3, <2>4, LinkKeeps
<1> QED
  BY <1>2, <1>3, <1>4

LEMMA FriendshipsKeep ==
  ASSUME IInv, NEW q \in requests, (\E f \in Friendships : CommitJoin(q, f)) \/ CommitRemoveFriend(q)
  PROVE  IInv'
<1>1. RequestOK(q)
  BY DEF IInv
<1>2. /\ requests' \subseteq requests
      /\ UNCHANGED <<link, shared, projection, reminder, told, edited, friendOps, reminderOps>>
  BY DEF CommitJoin, CommitRemoveFriend, Commit, rowVars
<1>3. friendship' \in [Friendships -> FriendshipRows]
  <2>1. ASSUME NEW f \in Friendships, CommitJoin(q, f)
        PROVE  friendship' \in [Friendships -> FriendshipRows]
    <3>1. [pair |-> q.pair, life |-> "active"] \in FriendshipRows
      BY <1>1, <2>1 DEF CommitJoin, RequestOK, FriendshipRows
    <3> QED
      BY <2>1, <3>1 DEF CommitJoin, IInv, TypeOK
  <2>2. CASE CommitRemoveFriend(q)
    <3>1. [q.seen EXCEPT !.life = "removed"] \in FriendshipRows
      BY <1>1, <2>2 DEF CommitRemoveFriend, RequestOK, FriendshipRows
    <3> QED
      BY <2>2, <3>1 DEF CommitRemoveFriend, IInv, TypeOK
  <2> QED
    BY <2>1, <2>2
<1>4. Settled
  BY <1>2 DEF Settled, IInv, TypeOK
<1>5. requests' \subseteq Requests /\ \A r \in requests' : RequestOK(r)'
  BY <1>2, <1>4, WaitingKeeps
<1>6. TypeOK'
  BY <1>2, <1>3, <1>5 DEF IInv, TypeOK
<1> QED
  BY <1>2, <1>5, <1>6 DEF IInv, ShownTokenWorks, RingsAsAgreed, LastFactStands

\* A commit writes the reminder i, its participants' rows and the fact together.
Together(q, i, kept, rows, rings, fact) ==
    /\ Commit(q)
    /\ UNCHANGED <<friendVars, edited>>
    /\ kept \in SharedRows /\ kept.status # "absent"
    /\ rows \in [Accounts -> Projections] /\ rings \in [Accounts -> ReminderRows]
    /\ fact \in Tellings
    /\ shared' = [shared EXCEPT ![i] = kept]
    /\ projection' = [projection EXCEPT ![i] = rows]
    /\ reminder' = [reminder EXCEPT ![i] = rings]
    /\ told' = [told EXCEPT ![i] = fact]
    /\ shared[i].status # "absent" => kept.parts = shared[i].parts
    /\ \A a \in Accounts : /\ rows[a].life = "absent" <=> a \notin kept.parts
                           /\ rings[a].life = "absent" <=> a \notin kept.parts
                           /\ rings[a].life = "active" =>
                                 kept.status = "active" /\ rings[a].time = kept.time
    /\ kept.status = "cancelled" => fact.status = "cancelled"
    /\ kept.status = "active" =>
          fact.status \in {"created", "rescheduled"} /\ fact.time = kept.time

LEMMA SharedKeeps ==
  ASSUME IInv, NEW q \in requests, NEW i \in SharedIds, NEW kept, NEW rows, NEW rings, NEW fact,
         Together(q, i, kept, rows, rings, fact)
  PROVE  IInv'
<1> USE DEF Together
<1>1. /\ requests' \subseteq requests
      /\ UNCHANGED <<link, friendship, edited, friendOps, reminderOps>>
  BY DEF Commit, friendVars
<1>2. /\ shared' \in [SharedIds -> SharedRows] /\ shared'[i] = kept
      /\ \A j \in SharedIds : j # i => shared'[j] = shared[j]
  BY DEF IInv, TypeOK
<1>3. /\ projection' \in [SharedIds -> [Accounts -> Projections]] /\ projection'[i] = rows
      /\ \A j \in SharedIds : j # i => projection'[j] = projection[j]
  BY DEF IInv, TypeOK
<1>4. /\ reminder' \in [SharedIds -> [Accounts -> ReminderRows]] /\ reminder'[i] = rings
      /\ \A j \in SharedIds : j # i => reminder'[j] = reminder[j]
  BY DEF IInv, TypeOK
<1>5. /\ told' \in [SharedIds -> Tellings] /\ told'[i] = fact
      /\ \A j \in SharedIds : j # i => told'[j] = told[j]
  BY DEF IInv, TypeOK
<1>6. Settled
  BY <1>2 DEF Settled
<1>7. requests' \subseteq Requests /\ \A r \in requests' : RequestOK(r)'
  BY <1>1, <1>6, WaitingKeeps
<1>8. ASSUME NEW j \in SharedIds, NEW a \in Accounts
      PROVE  /\ projection'[j][a].life = "absent" <=> a \notin shared'[j].parts
             /\ reminder'[j][a].life = "absent" <=> a \notin shared'[j].parts
             /\ reminder'[j][a].life = "active" /\ <<j, a>> \notin edited' =>
                   shared'[j].status = "active" /\ reminder'[j][a].time = shared'[j].time
  <2>1. CASE j = i
    BY <1>1, <1>2, <1>3, <1>4, <2>1
  <2>2. CASE j # i
    BY <1>1, <1>2, <1>3, <1>4, <2>2 DEF IInv, TypeOK, RingsAsAgreed
  <2> QED
    BY <2>1, <2>2
<1>9. TypeOK'
  BY <1>1, <1>2, <1>3, <1>4, <1>5, <1>7, <1>8 DEF IInv, TypeOK
<1>10. RingsAsAgreed'
  BY <1>8 DEF RingsAsAgreed
<1>11. LastFactStands'
  <2> SUFFICES ASSUME NEW j \in SharedIds
               PROVE  /\ shared'[j].status = "absent" => told'[j].status = "none"
                      /\ shared'[j].status = "cancelled" => told'[j].status = "cancelled"
                      /\ shared'[j].status = "active" =>
                            told'[j].status \in {"created", "rescheduled"}
                            /\ told'[j].time = shared'[j].time
    <3>1. \A j \in SharedIds : shared'[j].status \in {"absent", "active", "cancelled"}
      BY <1>2 DEF SharedRows
    <3> QED
      BY <3>1 DEF LastFactStands
  <2>1. CASE j = i
    BY <1>2, <1>5, <2>1
  <2>2. CASE j # i
    BY <1>2, <1>5, <2>2 DEF IInv, LastFactStands
  <2> QED
    BY <2>1, <2>2
<1>12. \A j \in SharedIds : shared'[j].status = "absent" => shared'[j].parts = {}
  BY <1>2 DEF IInv
<1> QED
  BY <1>1, <1>7, <1>9, <1>10, <1>11, <1>12 DEF IInv, ShownTokenWorks

LEMMA CreateKeeps ==
  ASSUME IInv, NEW q \in requests, NEW i \in SharedIds, CommitCreate(q, i)
  PROVE  IInv'
<1> DEFINE kept == NewShared(q.who, q.parts, q.time)
           rows == [a \in Accounts |-> IF a \in q.parts THEN [life |-> "active", done |-> FALSE]
                                       ELSE projection[i][a]]
           rings == [a \in Accounts |-> IF a \in q.parts THEN Ringing(q.time)
                                        ELSE reminder[i][a]]
           fact == [status |-> "created", time |-> q.time,
                    keys |-> told[i].keys \cup ({"created"} \ {"rescheduled"})]
<1>1. q.who \in Accounts /\ q.parts \subseteq Accounts /\ q.time \in Times
  BY DEF IInv, RequestOK, CommitCreate
<1>2. /\ shared[i].status = "absent"
      /\ projection[i] \in [Accounts -> Projections] /\ reminder[i] \in [Accounts -> ReminderRows]
      /\ \A a \in Accounts : projection[i][a].life = "absent" /\ reminder[i][a].life = "absent"
      /\ told[i] \in Tellings
  BY DEF IInv, TypeOK, CommitCreate, NoShared
<1>3. /\ Commit(q) /\ UNCHANGED <<friendVars, edited>>
      /\ shared' = [shared EXCEPT ![i] = kept]
  BY DEF CommitCreate
<1>4. projection' = [projection EXCEPT ![i] = rows]
  BY DEF CommitCreate, AddProjections, IInv, TypeOK
<1>5. reminder' = [reminder EXCEPT ![i] = rings]
  BY DEF CommitCreate, AddProjections, IInv, TypeOK
<1>6. told' = [told EXCEPT ![i] = fact]
  BY DEF CommitCreate, Tell, IInv, TypeOK
<1>7. kept \in SharedRows /\ kept.status = "active" /\ kept.parts = q.parts /\ kept.time = q.time
  BY <1>1 DEF NewShared, SharedRows
<1>8. /\ rows \in [Accounts -> Projections]
      /\ \A a \in Accounts : rows[a].life = "absent" <=> a \notin q.parts
  BY <1>2 DEF Projections
<1>9. /\ rings \in [Accounts -> ReminderRows]
      /\ \A a \in Accounts : /\ rings[a].life = "absent" <=> a \notin q.parts
                             /\ rings[a].life = "active" => rings[a].time = q.time
  BY <1>1, <1>2 DEF ReminderRows, Ringing
<1>10. fact \in Tellings /\ fact.status = "created" /\ fact.time = q.time
  BY <1>1, <1>2 DEF Tellings
<1> HIDE DEF kept, rows, rings, fact
<1>12. Together(q, i, kept, rows, rings, fact)
  BY <1>2, <1>3, <1>4, <1>5, <1>6, <1>7, <1>8, <1>9, <1>10 DEF Together
<1> QED
  BY <1>12, SharedKeeps

LEMMA CancelKeeps ==
  ASSUME IInv, NEW q \in requests, CommitCancel(q)
  PROVE  IInv'
<1> DEFINE i == q.id
           Cancelled(r) == IF r.life = "absent" THEN r ELSE [r EXCEPT !.life = "cancelled"]
           kept == [q.seen EXCEPT !.status = "cancelled"]
           rows == [a \in Accounts |-> Cancelled(q.rows[a])]
           rings == [a \in Accounts |-> SaveProjection(Cancelled(q.rows[a]), reminder[i][a])]
           fact == [status |-> "cancelled", time |-> q.seen.time,
                    keys |-> told[i].keys \cup ({"cancelled"} \ {"rescheduled"})]
<1>1. /\ i \in SharedIds /\ shared[i].status # "absent"
      /\ q.seen \in SharedRows /\ q.seen.parts = shared[i].parts
      /\ q.rows \in [Accounts -> Projections]
      /\ \A a \in Accounts : q.rows[a].life = "absent" <=> a \notin shared[i].parts
  BY DEF IInv, RequestOK, CommitCancel
<1>2. /\ reminder[i] \in [Accounts -> ReminderRows] /\ told[i] \in Tellings
      /\ \A a \in Accounts : reminder[i][a].life = "absent" <=> a \notin shared[i].parts
  BY <1>1 DEF IInv, TypeOK
<1>3. /\ Commit(q) /\ UNCHANGED <<friendVars, edited>>
      /\ shared' = [shared EXCEPT ![i] = kept] /\ projection' = [projection EXCEPT ![i] = rows]
  BY DEF CommitCancel
<1>4. reminder' = [reminder EXCEPT ![i] = rings]
  BY <1>1 DEF CommitCancel, IInv, TypeOK
<1>5. told' = [told EXCEPT ![i] = fact]
  BY <1>1 DEF CommitCancel, Tell, IInv, TypeOK
<1>6. kept \in SharedRows /\ kept.status = "cancelled" /\ kept.parts = shared[i].parts
  BY <1>1 DEF SharedRows
<1>7. /\ rows \in [Accounts -> Projections]
      /\ \A a \in Accounts : rows[a].life = IF a \in shared[i].parts THEN "cancelled" ELSE "absent"
  BY <1>1 DEF Projections
<1>8. rings = [a \in Accounts |-> SaveProjection(rows[a], reminder[i][a])]
  OBVIOUS
<1>9. fact \in Tellings /\ fact.status = "cancelled"
  BY <1>1, <1>2 DEF Tellings, SharedRows
<1> HIDE DEF i, kept, rows, fact, Cancelled, rings
<1>10. ASSUME NEW a \in Accounts
       PROVE  /\ rings[a] \in ReminderRows
              /\ rings[a].life = "absent" <=> a \notin shared[i].parts
              /\ rings[a].life # "active"
  <2>1. CASE a \in shared[i].parts
    <3>1. rings[a] = [reminder[i][a] EXCEPT !.life = "deleted"]
      BY <1>7, <1>8, <2>1 DEF SaveProjection
    <3> QED
      BY <1>2, <2>1, <3>1 DEF ReminderRows
  <2>2. CASE a \notin shared[i].parts
    <3>1. rings[a] = reminder[i][a]
      BY <1>7, <1>8, <2>2 DEF SaveProjection
    <3> QED
      BY <1>2, <2>2, <3>1
  <2> QED
    BY <2>1, <2>2
<1>11. rings \in [Accounts -> ReminderRows]
  BY <1>8, <1>10
<1>12. Together(q, i, kept, rows, rings, fact)
  BY <1>1, <1>3, <1>4, <1>5, <1>6, <1>7, <1>9, <1>10, <1>11 DEF Together
<1> QED
  BY <1>1, <1>12, SharedKeeps

LEMMA UpdateKeeps ==
  ASSUME IInv, NEW q \in requests, CommitUpdate(q)
  PROVE  IInv'
<1> DEFINE i == q.id
           t == q.time
           kept == [q.seen EXCEPT !.time = q.time]
           rows == q.rows
           rings == [a \in Accounts |->
                       SyncProjection(rows[a], SaveProjection(rows[a], reminder[i][a]), t)]
           fact == [status |-> "rescheduled", time |-> t,
                    keys |-> told[i].keys \cup ({"rescheduled"} \ {"rescheduled"})]
<1>1. /\ i \in SharedIds /\ shared[i].status # "absent" /\ t \in Times
      /\ q.seen \in SharedRows /\ q.seen.parts = shared[i].parts /\ q.seen.status = "active"
      /\ rows \in [Accounts -> Projections]
      /\ \A a \in Accounts : rows[a].life = "absent" <=> a \notin shared[i].parts
  BY DEF IInv, RequestOK, CommitUpdate
<1>2. /\ reminder[i] \in [Accounts -> ReminderRows] /\ told[i] \in Tellings
      /\ \A a \in Accounts : reminder[i][a].life = "absent" <=> a \notin shared[i].parts
  BY <1>1 DEF IInv, TypeOK
<1>3. /\ Commit(q) /\ UNCHANGED <<friendVars, edited>>
      /\ shared' = [shared EXCEPT ![i] = kept] /\ projection' = [projection EXCEPT ![i] = rows]
  BY DEF CommitUpdate
<1>4. reminder' = [reminder EXCEPT ![i] = rings]
  BY <1>1 DEF CommitUpdate, IInv, TypeOK
<1>5. told' = [told EXCEPT ![i] = fact]
  BY <1>1 DEF CommitUpdate, Tell, IInv, TypeOK
<1>6. kept \in SharedRows /\ kept.status = "active" /\ kept.parts = shared[i].parts /\ kept.time = t
  BY <1>1 DEF SharedRows
<1>7. fact \in Tellings /\ fact.status = "rescheduled" /\ fact.time = t
  BY <1>1, <1>2 DEF Tellings
<1>8. rings = [a \in Accounts |->
                 SyncProjection(rows[a], SaveProjection(rows[a], reminder[i][a]), t)]
  OBVIOUS
<1> HIDE DEF i, t, kept, rows, fact, rings
<1>9. ASSUME NEW a \in Accounts
      PROVE  /\ rings[a] \in ReminderRows
             /\ rings[a].life = "absent" <=> a \notin shared[i].parts
             /\ rings[a].life = "active" => rings[a].time = t
  <2>1. rows[a].life \in {"absent", "active", "cancelled"}
    BY <1>1 DEF Projections
  <2>2. CASE rows[a].life = "active"
    <3>1. rings[a] = [life |-> "active", time |-> t] /\ a \in shared[i].parts
      BY <1>1, <1>8, <2>2 DEF SyncProjection, Ringing
    <3> QED
      BY <1>1, <3>1 DEF ReminderRows
  <2>3. CASE rows[a].life = "cancelled"
    <3>1. rings[a] = [reminder[i][a] EXCEPT !.life = "deleted"] /\ a \in shared[i].parts
      BY <1>1, <1>8, <2>3 DEF SyncProjection, SaveProjection
    <3> QED
      BY <1>2, <3>1 DEF ReminderRows
  <2>4. CASE rows[a].life = "absent"
    <3>1. rings[a] = reminder[i][a] /\ a \notin shared[i].parts
      BY <1>1, <1>8, <2>4 DEF SyncProjection, SaveProjection
    <3> QED
      BY <1>2, <3>1
  <2> QED
    BY <2>1, <2>2, <2>3, <2>4
<1>10. rings \in [Accounts -> ReminderRows]
  BY <1>8, <1>9
<1>12. Together(q, i, kept, rows, rings, fact)
  BY <1>1, <1>3, <1>4, <1>5, <1>6, <1>7, <1>9, <1>10 DEF Together
<1> QED
  BY <1>1, <1>12, SharedKeeps

-----------------------------------------------------------------------------
(* One participant's rows.                                                 *)

\* A commit writes the rows of one participant: what rings then was ringing,
\* or has been edited by its owner.
LEMMA OwnKeeps ==
  ASSUME IInv, NEW q \in requests, Commit(q), NEW i \in SharedIds, NEW a \in Accounts,
         a \in shared[i].parts, UNCHANGED <<friendVars, shared, told>>,
         NEW kept \in Projections, kept.life # "absent",
         NEW ring \in ReminderRows, ring.life # "absent",
         projection' = [projection EXCEPT ![i][a] = kept],
         reminder' = [reminder EXCEPT ![i][a] = ring],
         edited \subseteq edited', edited' \subseteq SharedIds \X Accounts,
         ring.life = "active" => ring = reminder[i][a] \/ <<i, a>> \in edited'
  PROVE  IInv'
<1>1. /\ requests' \subseteq requests
      /\ UNCHANGED <<link, friendship, shared, told, friendOps, reminderOps>>
  BY DEF Commit, friendVars
<1>2. /\ projection' \in [SharedIds -> [Accounts -> Projections]] /\ projection'[i][a] = kept
      /\ \A j \in SharedIds, b \in Accounts : j # i \/ b # a => projection'[j][b] = projection[j][b]
  BY DEF IInv, TypeOK
<1>3. /\ reminder' \in [SharedIds -> [Accounts -> ReminderRows]] /\ reminder'[i][a] = ring
      /\ \A j \in SharedIds, b \in Accounts : j # i \/ b # a => reminder'[j][b] = reminder[j][b]
  BY DEF IInv, TypeOK
<1>4. Settled
  BY <1>1 DEF Settled, IInv, TypeOK
<1>5. requests' \subseteq Requests /\ \A r \in requests' : RequestOK(r)'
  BY <1>1, <1>4, WaitingKeeps
<1>6. ASSUME NEW j \in SharedIds, NEW b \in Accounts
      PROVE  /\ projection'[j][b].life = "absent" <=> b \notin shared'[j].parts
             /\ reminder'[j][b].life = "absent" <=> b \notin shared'[j].parts
             /\ reminder'[j][b].life = "active" /\ <<j, b>> \notin edited' =>
                   shared'[j].status = "active" /\ reminder'[j][b].time = shared'[j].time
  <2>1. CASE j = i /\ b = a
    BY <1>1, <1>2, <1>3, <2>1 DEF IInv, RingsAsAgreed
  <2>2. CASE j # i \/ b # a
    BY <1>1, <1>2, <1>3, <2>2 DEF IInv, TypeOK, RingsAsAgreed
  <2> QED
    BY <2>1, <2>2
<1>7. TypeOK'
  BY <1>1, <1>2, <1>3, <1>5, <1>6 DEF IInv, TypeOK
<1>8. RingsAsAgreed'
  BY <1>6 DEF RingsAsAgreed
<1> QED
  BY <1>1, <1>5, <1>7, <1>8 DEF IInv, ShownTokenWorks, LastFactStands

LEMMA CompleteOwnKeeps ==
  ASSUME IInv, NEW q \in requests, CommitCompleteOwn(q)
  PROVE  IInv'
<1> DEFINE i == q.id
           a == q.who
           kept == [q.seen EXCEPT !.done = TRUE]
           old == reminder[i][a]
           ring == SaveProjection(q.seen, old)
<1>1. /\ i \in SharedIds /\ a \in Accounts /\ a \in shared[i].parts
      /\ q.seen \in Projections /\ q.seen.life # "absent"
  BY DEF IInv, RequestOK, CommitCompleteOwn
<1>2. old \in ReminderRows /\ old.life # "absent"
  BY <1>1 DEF IInv, TypeOK
<1>3. /\ Commit(q) /\ UNCHANGED <<friendVars, shared, told, edited>>
      /\ projection' = [projection EXCEPT ![i][a] = kept]
      /\ reminder' = [reminder EXCEPT ![i][a] = ring]
  BY <1>1 DEF CommitCompleteOwn, IInv, TypeOK
<1>4. kept \in Projections /\ kept.life # "absent"
  BY <1>1 DEF Projections
<1>5. edited' = edited /\ edited' \subseteq SharedIds \X Accounts
  BY <1>3 DEF IInv, TypeOK
<1>6. ring = IF q.seen.life = "cancelled" THEN [old EXCEPT !.life = "deleted"] ELSE old
  BY DEF SaveProjection
<1> HIDE DEF i, a, kept, ring
<1>7. ring \in ReminderRows /\ ring.life # "absent" /\ (ring.life = "active" => ring = old)
  BY <1>2, <1>6 DEF ReminderRows
<1> QED
  BY <1>1, <1>3, <1>4, <1>5, <1>7, OwnKeeps

LEMMA RowKeeps ==
  ASSUME IInv, NEW q \in requests, CommitFire(q) \/ CommitEditOwn(q)
  PROVE  IInv'
<1> DEFINE i == q.id
           a == q.who
           kept == projection[i][a]
<1>1. /\ i \in SharedIds /\ a \in Accounts /\ a \in shared[i].parts
      /\ q.seen \in ReminderRows /\ q.seen.life # "absent"
  BY DEF IInv, RequestOK, CommitFire, CommitEditOwn
<1>2. kept \in Projections /\ kept.life # "absent" /\ projection = [projection EXCEPT ![i][a] = kept]
  <2>1. /\ projection \in [SharedIds -> [Accounts -> Projections]]
        /\ projection[i] \in [Accounts -> Projections] /\ projection[i][a].life # "absent"
    BY <1>1 DEF IInv, TypeOK
  <2>2. projection[i] = [projection[i] EXCEPT ![a] = kept]
    BY <1>1, <2>1
  <2>3. projection = [projection EXCEPT ![i] = projection[i]]
    BY <1>1, <2>1
  <2>4. projection = [projection EXCEPT ![i] = [projection[i] EXCEPT ![a] = kept]]
    BY <2>2, <2>3
  <2> QED
    BY <1>1, <2>1, <2>4
<1>3. Commit(q) /\ UNCHANGED <<friendVars, shared, told, projection>>
  BY DEF CommitFire, CommitEditOwn
<1> DEFINE Written == \E ring \in ReminderRows :
             /\ ring.life # "absent" /\ reminder' = [reminder EXCEPT ![i][a] = ring]
             /\ ring.life = "active" => <<i, a>> \in edited'
<1>4. ASSUME NEW life \in {"completed", "deleted"},
             reminder' = [reminder EXCEPT ![i][a] = [q.seen EXCEPT !.life = life]]
      PROVE  Written
  <2>1. /\ [q.seen EXCEPT !.life = life] \in ReminderRows
        /\ [q.seen EXCEPT !.life = life].life = life
    BY <1>1 DEF ReminderRows
  <2> QED
    BY <1>4, <2>1
<1>5. ASSUME NEW t \in Times \cup {0}, <<i, a>> \in edited',
             reminder' = [reminder EXCEPT ![i][a] = [q.seen EXCEPT !.time = t]]
      PROVE  Written
  <2>1. /\ [q.seen EXCEPT !.time = t] \in ReminderRows
        /\ [q.seen EXCEPT !.time = t].life = q.seen.life
    BY <1>1 DEF ReminderRows
  <2> QED
    BY <1>1, <1>5, <2>1
<1> HIDE DEF Written
<1>6. Written
  <2>1. CASE CommitFire(q)
    BY <1>4, <2>1 DEF CommitFire
  <2>2. CASE CommitEditOwn(q)
    <3>1. <<i, a>> \in edited'
      BY <2>2 DEF CommitEditOwn
    <3> QED
      BY <1>4, <1>5, <2>2, <3>1 DEF CommitEditOwn
  <2> QED
    BY <2>1, <2>2
<1>7. edited \subseteq edited' /\ edited' \subseteq SharedIds \X Accounts
  BY <1>1 DEF CommitFire, CommitEditOwn, IInv, TypeOK
<1>8. PICK ring \in ReminderRows :
         /\ ring.life # "absent" /\ reminder' = [reminder EXCEPT ![i][a] = ring]
         /\ ring.life = "active" => <<i, a>> \in edited'
  BY <1>6 DEF Written
<1>9. projection' = [projection EXCEPT ![i][a] = kept]
  BY <1>2, <1>3
<1> HIDE DEF i, a, kept
<1> QED
  BY <1>1, <1>2, <1>3, <1>7, <1>8, <1>9, OwnKeeps

-----------------------------------------------------------------------------
(* The steps.                                                              *)

LEMMA BeginKeeps ==
  ASSUME IInv, Begin
  PROVE  IInv'
<1>1. PICK q \in Requests : /\ RequestOK(q) /\ requests' = requests \cup {q}
                            /\ friendOps' \in Nat /\ reminderOps' \in Nat
                            /\ UNCHANGED <<friendVars, rowVars>>
  BY BeginBegins
<1>2. UNCHANGED <<link, friendship, shared, projection, reminder, told, edited>>
  BY <1>1 DEF friendVars, rowVars
<1>3. Settled
  BY <1>2 DEF Settled, IInv, TypeOK
<1>4. \A r \in requests' : RequestOK(r)'
  BY <1>1, <1>3, RequestStays DEF IInv
<1>5. TypeOK'
  BY <1>1, <1>2 DEF IInv, TypeOK
<1> QED
  BY <1>2, <1>4, <1>5 DEF IInv, ShownTokenWorks, RingsAsAgreed, LastFactStands

LEMMA NextIInv == IInv /\ [Next]_vars => IInv'
<1> SUFFICES ASSUME IInv, [Next]_vars PROVE IInv'
  OBVIOUS
<1>1. CASE Begin
  BY <1>1, BeginKeeps
<1>2. ASSUME NEW q \in requests, End(q) PROVE IInv'
  BY <1>2, RefuseKeeps, LinksKeep, FriendshipsKeep, CreateKeeps, CancelKeeps, UpdateKeeps,
     CompleteOwnKeeps, RowKeeps DEF End
<1>3. CASE UNCHANGED vars
  <2>1. UNCHANGED <<link, friendship, shared, projection, reminder, told, edited, requests,
                    friendOps, reminderOps>>
    BY <1>3 DEF vars, friendVars, rowVars
  <2>2. Settled
    BY <2>1 DEF Settled, IInv, TypeOK
  <2>3. requests' \subseteq Requests /\ \A r \in requests' : RequestOK(r)'
    BY <2>1, <2>2, WaitingKeeps
  <2>4. TypeOK'
    BY <2>1, <2>3 DEF IInv, TypeOK
  <2> QED
    BY <2>1, <2>3, <2>4 DEF IInv, ShownTokenWorks, RingsAsAgreed, LastFactStands
<1> QED
  BY <1>1, <1>2, <1>3 DEF Next

\* The inductive invariant holds in every state.
THEOREM Inductive == Spec => []IInv
<1>1. Init => IInv
  BY InitIInv
<1>2. IInv /\ [Next]_vars => IInv'
  BY NextIInv
<1> QED
  BY <1>1, <1>2, PTL DEF Spec

\* The rows of links, friendships, shared reminders and their participants have
\* their types, and a participant of a reminder, nobody else, has its rows.
THEOREM TypesHold == Spec => []TypeOK
<1>1. IInv => TypeOK
  BY DEF IInv
<1> QED
  BY <1>1, Inductive, PTL

\* The token an owner is shown opens the link, whatever resets and disables of
\* it cross.
THEOREM ShownTokensOpen == Spec => []ShownTokenWorks
<1>1. IInv => ShownTokenWorks
  BY DEF IInv
<1> QED
  BY <1>1, Inductive, PTL

\* A participant's reminder rings only while the shared one is active, at its
\* time, unless its owner has edited it: cancels, moves, completions and fires
\* of any number of participants may cross.
THEOREM ArmedAsAgreed == Spec => []RingsAsAgreed
<1>1. IInv => RingsAsAgreed
  BY DEF IInv
<1> QED
  BY <1>1, Inductive, PTL

\* The last notification about a shared reminder says what has become of it.
THEOREM LastTold == Spec => []LastFactStands
<1>1. IInv => LastFactStands
  BY DEF IInv
<1> QED
  BY <1>1, Inductive, PTL

-----------------------------------------------------------------------------
(* NotificationDelivery: types.                                            *)

Invitations == {n \in Notices : n.kind = "invitation"}
Receipts == {n \in Notices : n.kind = "receipt"}
Created(f) == [kind |-> "created", fact |-> f]

\* Resends are numbered, and only those that were enqueued have events, turns
\* and aborts.
ResendsOK ==
    /\ \E k \in 0 .. MaxResends : DOMAIN resends = 1 .. k
    /\ \A i \in DOMAIN resends : resends[i] \subseteq Notices
    /\ \A t \in Resends :
          t \in events \/ t \in cut \/ turn[t] # "none" \/ tx.turn[t] # "none"
          => t.number \in DOMAIN resends

\* The event a trigger comes from is on its way or being handled.
Announced(t) ==
    \/ t \in Invitations /\ Created(t.fact) \in events
    \/ t \in Receipts \cup Resends /\ t \in events

DeliveryTypeInv ==
    /\ created \subseteq Facts /\ conversation \subseteq Notified
    /\ row \in [Notices -> States] /\ turn \in [Triggers -> Dispositions]
    /\ events \subseteq Events
    /\ ResendsOK
    /\ job \in [event : SUBSET Events, left : SUBSET Triggers, at : SUBSET Triggers]
    /\ \A t \in job.left \cup job.at : Announced(t)
    /\ tx \in Rows /\ tx.events \subseteq Receipts
    /\ sent \in [Notices -> Nat]
    /\ cut \subseteq Triggers

LEMMA NoticeKinds ==
  /\ Notices = Invitations \cup Receipts
  /\ \A n \in Invitations : Receipt(n) \in Receipts /\ Receipt(n).fact = n.fact
  /\ \A r \in Receipts : \E n \in Invitations : r = Receipt(n)
  /\ \A t \in Resends : t \notin Notices /\ t.kind = "resend"
        /\ t.number \in 1 .. MaxResends /\ t = [kind |-> "resend", number |-> t.number]
  /\ \A n \in Notices : n \notin Resends /\ n.kind # "resend" /\ n.fact \in Facts
  /\ Receipts \subseteq Events /\ Resends \subseteq Events
  /\ \A f \in Facts : Created(f) \in Events /\ Created(f).kind = "created" /\ Created(f).fact = f
        /\ Created(f) \notin Notices /\ Created(f) \notin Resends
  /\ \A e \in Events : \/ e \in Receipts
                       \/ e \in Resends
                       \/ \E f \in Facts : e = Created(f)
<1>1. Notices = Invitations \cup Receipts
  BY DEF Notices, Invitations, Receipts
<1>2. \A n \in Invitations : Receipt(n) \in Receipts /\ Receipt(n).fact = n.fact
  BY DEF Notices, Invitations, Receipts, Receipt
<1>3. ASSUME NEW r \in Receipts PROVE \E n \in Invitations : r = Receipt(n)
  <2> DEFINE n == [r EXCEPT !.kind = "invitation"]
  <2>1. n \in Invitations /\ Receipt(n) = r
    BY DEF Notices, Invitations, Receipts, Receipt
  <2> QED
    BY <2>1
<1>4. \A t \in Resends : t \notin Notices /\ t.kind = "resend"
         /\ t.number \in 1 .. MaxResends /\ t = [kind |-> "resend", number |-> t.number]
  BY DEF Resends, Notices
<1>5. \A n \in Notices : n \notin Resends /\ n.kind # "resend" /\ n.fact \in Facts
  BY DEF Resends, Notices
<1>6. Receipts \subseteq Events /\ Resends \subseteq Events
  BY DEF Receipts, Events
<1>7. ASSUME NEW f \in Facts
      PROVE  Created(f) \in Events /\ Created(f).kind = "created" /\ Created(f).fact = f
             /\ Created(f) \notin Notices /\ Created(f) \notin Resends
  BY DEF Created, Events, Notices, Resends
<1>8. ASSUME NEW e \in Events
      PROVE  e \in Receipts \/ e \in Resends \/ \E f \in Facts : e = Created(f)
  <2>1. CASE e \in [kind : {"created"}, fact : Facts]
    <3>1. e = Created(e.fact) /\ e.fact \in Facts
      BY <2>1 DEF Created
    <3> QED
      BY <3>1
  <2> QED
    BY <2>1 DEF Events, Receipts
<1> QED
  BY <1>1, <1>2, <1>3, <1>4, <1>5, <1>6, <1>7, <1>8

\* The triggers of an event.
LEMMA EventTriggers ==
  ASSUME NEW e \in Events
  PROVE  /\ TriggersOf(e) \subseteq Triggers
         /\ e \in events => \A t \in TriggersOf(e) : Announced(t)
<1>1. CASE e \in Receipts \/ e \in Resends
  <2>1. TriggersOf(e) = {e} /\ e \in Triggers
    BY <1>1, NoticeKinds DEF TriggersOf, Triggers, Receipts, Resends
  <2> QED
    BY <1>1, <2>1 DEF Announced
<1>2. ASSUME NEW f \in Facts, e = Created(f)
      PROVE  TriggersOf(e) \subseteq Triggers /\ (e \in events => \A t \in TriggersOf(e) : Announced(t))
  <2>1. TriggersOf(e) = {n \in Notices : n.fact = f /\ n.kind = "invitation"}
    BY <1>2, NoticeKinds DEF TriggersOf
  <2> QED
    BY <1>2, <2>1 DEF Announced, Invitations, Triggers
<1> QED
  BY <1>1, <1>2, NoticeKinds

\* The rows a trigger of the worker speaks of.
LEMMA RowsSpokenOf ==
  ASSUME DeliveryTypeInv, NEW t \in job.left \cup job.at
  PROVE  /\ t \in Triggers /\ About(t) \subseteq Notices
         /\ t \in Notices => About(t) = {t}
         /\ t \in Resends => t.number \in DOMAIN resends /\ About(t) = resends[t.number]
<1>1. t \in Triggers /\ Announced(t)
  BY DEF DeliveryTypeInv
<1>2. CASE t \in Notices
  BY <1>2, NoticeKinds DEF About, Triggers
<1>3. CASE t \in Resends
  <2>1. t \in events
    BY <1>1, <1>3, NoticeKinds DEF Announced
  <2>2. t.number \in DOMAIN resends
    BY <1>3, <2>1 DEF DeliveryTypeInv, ResendsOK
  <2>3. About(t) = resends[t.number]
    BY <1>3, NoticeKinds DEF About
  <2> QED
    BY <1>1, <1>3, <2>2, <2>3, NoticeKinds DEF DeliveryTypeInv, ResendsOK
<1> QED
  BY <1>1, <1>2, <1>3 DEF Triggers

LEMMA Settling ==
  ASSUME NEW rows \in Rows, NEW notices, NEW state \in States
  PROVE  /\ Settle(rows, notices, state) \in Rows
         /\ Settle(rows, notices, state).turn = rows.turn
         /\ Settle(rows, notices, state).events = rows.events
         /\ \A n \in Notices : Settle(rows, notices, state).row[n]
                                  = IF n \in notices THEN state ELSE rows.row[n]
BY DEF Settle, Rows

\* A record settles the rows, and a delivered invitation gets its receipt once.
Recorded(new, rows, notices, state) ==
    \E receipts \in SUBSET Receipts :
        /\ state # "delivered" => receipts = {}
        /\ \A r \in receipts : /\ rows.row[r] = "none"
                               /\ \E n \in notices \cap Invitations : r = Receipt(n)
        /\ new \in Rows /\ new.turn = rows.turn /\ new.events = rows.events \cup receipts
        /\ \A n \in Notices : new.row[n] =
              IF n \in receipts THEN "pending"
              ELSE IF n \in notices THEN state ELSE rows.row[n]

LEMMA Recording ==
  ASSUME NEW rows \in Rows, NEW notices \in SUBSET Notices, NEW state \in States
  PROVE  Recorded(Record(rows, notices, state), rows, notices, state)
<1> DEFINE receipts == IF state = "delivered" THEN {Receipt(n) : n \in Unreceipted(rows, notices)}
                       ELSE {}
           settled == Settle(rows, notices, state)
           both == Settle(settled, receipts, "pending")
<1>1. receipts \subseteq Receipts
      /\ \A r \in receipts : /\ rows.row[r] = "none"
                             /\ \E n \in notices \cap Invitations : r = Receipt(n)
  BY NoticeKinds DEF Unreceipted, Invitations
<1>2. Record(rows, notices, state) = [both EXCEPT !.events = @ \cup receipts]
  BY DEF Record
<1>3. state # "delivered" => receipts = {}
  OBVIOUS
<1> HIDE DEF receipts
<1>4. /\ settled \in Rows /\ settled.turn = rows.turn /\ settled.events = rows.events
      /\ \A n \in Notices : settled.row[n] = IF n \in notices THEN state ELSE rows.row[n]
  BY Settling
<1> HIDE DEF settled
<1>5. /\ both \in Rows /\ both.turn = rows.turn /\ both.events = rows.events
      /\ \A n \in Notices : both.row[n] = IF n \in receipts THEN "pending" ELSE settled.row[n]
  <2>1. "pending" \in States
    BY DEF States
  <2> QED
    BY <1>4, <2>1, Settling
<1> HIDE DEF both
<1>6. receipts \subseteq Events
  BY <1>1, NoticeKinds
<1>7. /\ Record(rows, notices, state) \in Rows
      /\ Record(rows, notices, state).turn = rows.turn
      /\ Record(rows, notices, state).events = rows.events \cup receipts
      /\ Record(rows, notices, state).row = both.row
  BY <1>2, <1>5, <1>6 DEF Rows
<1> QED
  BY <1>1, <1>3, <1>4, <1>5, <1>7 DEF Recorded

\* A turn that ends without a reply settles its notice.
LEMMA Ending ==
  ASSUME tx \in Rows, NEW t \in Triggers, NEW d \in Dispositions
  PROVE  /\ Ended(t, d) \in Rows
         /\ Ended(t, d).events = tx.events
         /\ \A u \in Triggers : Ended(t, d).turn[u] = IF u = t THEN d ELSE tx.turn[u]
         /\ \A n \in Notices : Ended(t, d).row[n] = IF n = t THEN "failed" ELSE tx.row[n]
<1>1. CASE t \in Notices
  <2> DEFINE rows == Settle(tx, {t}, "failed")
  <2>1. "failed" \in States
    BY DEF States
  <2>2. /\ rows \in Rows /\ rows.turn = tx.turn /\ rows.events = tx.events
        /\ \A n \in Notices : rows.row[n] = IF n \in {t} THEN "failed" ELSE tx.row[n]
    BY <2>1, Settling
  <2>3. Ended(t, d) = [rows EXCEPT !.turn[t] = d]
    BY <1>1 DEF Ended
  <2> HIDE DEF rows
  <2> QED
    BY <2>2, <2>3 DEF Rows
<1>2. CASE t \notin Notices
  <2>1. Ended(t, d) = [tx EXCEPT !.turn[t] = d]
    BY <1>2 DEF Ended
  <2> QED
    BY <1>2, <2>1 DEF Rows
<1> QED
  BY <1>1, <1>2

LEMMA Closing ==
  ASSUME tx \in Rows, NEW t \in Triggers
  PROVE  LET rows == [tx EXCEPT !.turn[t] = "replied"]
         IN  /\ rows \in Rows /\ rows.events = tx.events /\ rows.row = tx.row
             /\ \A u \in Triggers : rows.turn[u] = IF u = t THEN "replied" ELSE tx.turn[u]
BY DEF Rows, Dispositions

\* What a commit leaves behind.
LEMMA Committing ==
  ASSUME NEW rows \in Rows, CommitRows(rows)
  PROVE  /\ row' = rows.row /\ turn' = rows.turn /\ events' = events \cup rows.events
         /\ tx' \in Rows /\ tx'.row = rows.row /\ tx'.turn = rows.turn /\ tx'.events = {}
BY DEF CommitRows, Rows

LEMMA DeliveryTypeInit == DeliveryInit => DeliveryTypeInv
<1> SUFFICES ASSUME DeliveryInit PROVE DeliveryTypeInv
  OBVIOUS
<1>1. row \in [Notices -> States] /\ turn \in [Triggers -> Dispositions] /\ sent \in [Notices -> Nat]
  BY DEF DeliveryInit, States, Dispositions
<1>2. tx \in Rows /\ tx.row = row /\ tx.turn = turn /\ tx.events = {}
  BY <1>1 DEF DeliveryInit, Committed, Rows
<1>3. DOMAIN resends = 1 .. 0 /\ 0 \in 0 .. MaxResends
  BY DeliveryAssumption DEF DeliveryInit
<1>4. Resends \subseteq Triggers
  BY DEF Triggers
<1>5. ResendsOK
  BY <1>2, <1>3, <1>4 DEF DeliveryInit, ResendsOK
<1> QED
  BY <1>1, <1>2, <1>5 DEF DeliveryInit, DeliveryTypeInv, NoJob

\* An enqueued resend gets the next number.
LEMMA NextNumber ==
  ASSUME DeliveryTypeInv
  PROVE  Cardinality(DOMAIN resends) \in 0 .. MaxResends
         /\ DOMAIN resends = 1 .. Cardinality(DOMAIN resends)
<1>1. PICK k \in 0 .. MaxResends : DOMAIN resends = 1 .. k
  BY DEF DeliveryTypeInv, ResendsOK
<1>2. MaxResends \in Nat
  BY DeliveryAssumption
<1>3. Cardinality(1 .. k) = k
  BY <1>1, <1>2, FS_Interval
<1> QED
  BY <1>1, <1>3

\* Resend event k lists what is undelivered of account a.
Enqueued(a, k) ==
    /\ DOMAIN resends' = 1 .. k /\ DOMAIN resends = 1 .. (k - 1) /\ k \notin DOMAIN resends
    /\ resends'[k] = UndeliveredOf(a)
    /\ \A i \in DOMAIN resends : i \in DOMAIN resends' /\ resends'[i] = resends[i]
    /\ \A i \in DOMAIN resends' : i \in DOMAIN resends \/ i = k
    /\ events' = events \cup {[kind |-> "resend", number |-> k]}
    /\ [kind |-> "resend", number |-> k] \in Resends
    /\ UNCHANGED <<created, conversation, row, turn, job, tx, sent, cut, aborts>>

LEMMA Enqueuing ==
  ASSUME DeliveryTypeInv, NEW a, ReplyCompleted(a)
  PROVE  \E k \in 1 .. MaxResends : Enqueued(a, k)
<1> DEFINE c == Cardinality(DOMAIN resends)
<1>1. c \in 0 .. MaxResends /\ DOMAIN resends = 1 .. c /\ MaxResends \in Nat
  BY NextNumber, DeliveryAssumption
<1>2. /\ c < MaxResends
      /\ resends' = [i \in 1 .. c + 1 |-> IF i = c + 1 THEN UndeliveredOf(a) ELSE resends[i]]
      /\ events' = events \cup {[kind |-> "resend", number |-> c + 1]}
  BY DEF ReplyCompleted
<1> HIDE DEF c
<1> DEFINE k == c + 1
<1>3. k \in 1 .. MaxResends /\ 1 .. c = 1 .. (k - 1) /\ k \notin 1 .. c
      /\ (\A i \in 1 .. k : i \in 1 .. c \/ i = k)
      /\ \A i \in 1 .. c : i \in 1 .. k /\ i # k
  BY <1>1, <1>2
<1>4. /\ resends' = [i \in 1 .. k |-> IF i = k THEN UndeliveredOf(a) ELSE resends[i]]
      /\ events' = events \cup {[kind |-> "resend", number |-> k]}
  BY <1>2
<1> HIDE DEF k
<1>5. [kind |-> "resend", number |-> k] \in Resends
  BY <1>3 DEF Resends
<1>6. k \in 1 .. k
  BY <1>3, DeliveryAssumption
<1>7. /\ DOMAIN resends' = 1 .. k /\ resends'[k] = UndeliveredOf(a)
      /\ \A i \in DOMAIN resends : i \in DOMAIN resends' /\ resends'[i] = resends[i]
      /\ \A i \in DOMAIN resends' : i \in DOMAIN resends \/ i = k
      /\ DOMAIN resends = 1 .. (k - 1) /\ k \notin DOMAIN resends
  BY <1>1, <1>3, <1>4, <1>6
<1>8. UNCHANGED <<created, conversation, row, turn, job, tx, sent, cut, aborts>>
  BY DEF ReplyCompleted
<1> QED
  BY <1>3, <1>4, <1>5, <1>7, <1>8 DEF Enqueued

\* The triggers of event e, without the notices whose addressee is deaf to them.
Taken(e, deaf) ==
    /\ \A n \in deaf : Addressee(n) \notin conversation /\ Announced(n)
    /\ \A n \in Notices \cap (job'.left \cup job'.at) : Addressee(n) \in conversation
    /\ job' = [event |-> {e}, left |-> TriggersOf(e) \ deaf, at |-> {}]
    /\ TriggersOf(e) \subseteq Triggers /\ \A t \in TriggersOf(e) : Announced(t)
    /\ tx' \in Rows /\ tx'.turn = tx.turn /\ tx'.events = tx.events
    /\ \A n \in Notices : tx'.row[n] = IF n \in deaf THEN "failed" ELSE tx.row[n]
    /\ UNCHANGED <<created, conversation, row, turn, events, resends, sent, cut, aborts>>

LEMMA Taking ==
  ASSUME DeliveryTypeInv, NEW e \in events, TakeEvent(e)
  PROVE  \E deaf \in SUBSET Notices : Taken(e, deaf)
<1> DEFINE deaf == {t \in TriggersOf(e) \cap Notices : Addressee(t) \notin conversation}
<1>1. /\ job' = [event |-> {e}, left |-> TriggersOf(e) \ deaf, at |-> {}]
      /\ tx' = Settle(tx, deaf, "failed")
      /\ UNCHANGED <<created, conversation, row, turn, events, resends, sent, cut, aborts>>
  BY DEF TakeEvent, Write, besideUnchanged
<1>2. TriggersOf(e) \subseteq Triggers /\ \A t \in TriggersOf(e) : Announced(t)
  BY EventTriggers DEF DeliveryTypeInv
<1>3. /\ \A n \in deaf : Addressee(n) \notin conversation /\ Announced(n)
      /\ \A n \in Notices \cap (TriggersOf(e) \ deaf) : Addressee(n) \in conversation
      /\ deaf \in SUBSET Notices
  BY <1>2
<1> HIDE DEF deaf
<1>4. /\ tx' \in Rows /\ tx'.turn = tx.turn /\ tx'.events = tx.events
      /\ \A n \in Notices : tx'.row[n] = IF n \in deaf THEN "failed" ELSE tx.row[n]
  <2>1. tx \in Rows /\ "failed" \in States
    BY DEF DeliveryTypeInv, States
  <2> QED
    BY <1>1, <2>1, Settling
<1> QED
  BY <1>1, <1>2, <1>3, <1>4 DEF Taken

\* A worker's step either leaves its writes in the transaction or commits them.
Kept == UNCHANGED <<row, turn, events>> /\ tx'.events = tx.events
Flushed ==
    /\ row' = tx'.row /\ turn' = tx'.turn
    /\ events' = events \cup tx.events /\ tx'.events = {}

LEMMA Failing ==
  ASSUME DeliveryTypeInv, NEW t \in job.left, RenderFails(t)
  PROVE  \E d \in {"failed", "no_reply"} :
            /\ tx' \in Rows /\ (Kept \/ Flushed)
            /\ \A u \in Triggers : tx'.turn[u] = IF u = t THEN d ELSE tx.turn[u]
            /\ \A n \in Notices : tx'.row[n] = IF n = t THEN "failed" ELSE tx.row[n]
<1>1. tx \in Rows /\ t \in Triggers /\ {"failed", "no_reply"} \subseteq Dispositions
  BY DEF DeliveryTypeInv, Dispositions
<1>2. \A d \in {"failed", "no_reply"} :
         /\ Ended(t, d) \in Rows /\ Ended(t, d).events = tx.events
         /\ \A u \in Triggers : Ended(t, d).turn[u] = IF u = t THEN d ELSE tx.turn[u]
         /\ \A n \in Notices : Ended(t, d).row[n] = IF n = t THEN "failed" ELSE tx.row[n]
  BY <1>1, Ending
<1>3. CASE Write(Ended(t, "failed"))
  BY <1>2, <1>3 DEF Write, Kept
<1>4. CASE CommitRows(Ended(t, "no_reply"))
  <2> DEFINE rows == Ended(t, "no_reply")
  <2>1. /\ rows \in Rows /\ rows.events = tx.events
        /\ \A u \in Triggers : rows.turn[u] = IF u = t THEN "no_reply" ELSE tx.turn[u]
        /\ \A n \in Notices : rows.row[n] = IF n = t THEN "failed" ELSE tx.row[n]
    BY <1>2
  <2>2. CommitRows(rows)
    BY <1>4
  <2> HIDE DEF rows
  <2> QED
    BY <2>1, <2>2, Committing DEF Flushed
<1> QED
  BY <1>3, <1>4 DEF RenderFails

LEMMA ClosingTurn ==
  ASSUME DeliveryTypeInv, NEW t \in job.left, Close(t)
  PROVE  /\ tx' \in Rows /\ Flushed /\ row' = tx.row
         /\ \A u \in Triggers : tx'.turn[u] = IF u = t THEN "replied" ELSE tx.turn[u]
<1> DEFINE rows == [tx EXCEPT !.turn[t] = "replied"]
<1>1. tx \in Rows /\ t \in Triggers
  BY DEF DeliveryTypeInv
<1>2. /\ rows \in Rows /\ rows.events = tx.events /\ rows.row = tx.row
      /\ \A u \in Triggers : rows.turn[u] = IF u = t THEN "replied" ELSE tx.turn[u]
  BY <1>1, Closing
<1>3. CommitRows(rows)
  BY DEF Close
<1> HIDE DEF rows
<1> QED
  BY <1>2, <1>3, Committing DEF Flushed

\* What trigger t speaks of is recorded, and sent if it is delivered.
Delivered(t, outcome, receipts) ==
    /\ About(t) \subseteq Notices
    /\ outcome # "delivered" => receipts = {}
    /\ \A r \in receipts : /\ tx.row[r] = "none"
                           /\ \E n \in About(t) \cap Invitations : r = Receipt(n)
    /\ tx' \in Rows /\ tx'.turn = tx.turn /\ tx'.events = tx.events \cup receipts
    /\ \A n \in Notices :
          /\ tx'.row[n] = IF n \in receipts THEN "pending"
                          ELSE IF n \in About(t) THEN outcome ELSE tx.row[n]
          /\ sent'[n] = IF outcome = "delivered" /\ n \in About(t)
                           THEN sent[n] + 1 ELSE sent[n]
    /\ sent' \in [Notices -> Nat]
    /\ job'.left = job.left /\ job'.at = {} /\ job'.event = job.event
    /\ UNCHANGED <<created, conversation, resends, row, turn, events, cut, aborts>>

LEMMA Delivering ==
  ASSUME DeliveryTypeInv, NEW t \in job.at, Deliver(t)
  PROVE  \E outcome \in {"delivered", "undelivered", "failed"}, receipts \in SUBSET Receipts :
            Delivered(t, outcome, receipts)
<1>1. PICK outcome \in {"delivered", "undelivered", "failed"} :
         /\ tx' = Record(tx, About(t), outcome) /\ UNCHANGED <<row, turn, events>>
         /\ sent' = [n \in Notices |->
               IF outcome = "delivered" /\ n \in About(t) THEN sent[n] + 1 ELSE sent[n]]
  BY DEF Deliver, Write
<1>2. tx \in Rows /\ About(t) \in SUBSET Notices /\ outcome \in States
  BY RowsSpokenOf DEF DeliveryTypeInv, States
<1>3. Recorded(tx', tx, About(t), outcome)
  BY <1>1, <1>2, Recording
<1>5. PICK receipts \in SUBSET Receipts :
         /\ outcome # "delivered" => receipts = {}
         /\ \A r \in receipts : /\ tx.row[r] = "none"
                                /\ \E n \in About(t) \cap Invitations : r = Receipt(n)
         /\ tx' \in Rows /\ tx'.turn = tx.turn /\ tx'.events = tx.events \cup receipts
         /\ \A n \in Notices : tx'.row[n] =
               IF n \in receipts THEN "pending"
               ELSE IF n \in About(t) THEN outcome ELSE tx.row[n]
  BY <1>3 DEF Recorded
<1>6. sent' \in [Notices -> Nat]
      /\ \A n \in Notices : sent'[n] = IF outcome = "delivered" /\ n \in About(t)
                                          THEN sent[n] + 1 ELSE sent[n]
  BY <1>1 DEF DeliveryTypeInv
<1>7. /\ job'.left = job.left /\ job'.at = {} /\ job'.event = job.event
      /\ UNCHANGED <<created, conversation, resends, cut, aborts>>
  BY DEF Deliver, besideUnchanged, DeliveryTypeInv
<1> QED
  BY <1>1, <1>2, <1>5, <1>6, <1>7 DEF Delivered

\* An abort leaves the worker what is committed.
LEMMA Aborting ==
  ASSUME DeliveryTypeInv, Abort
  PROVE  /\ tx' \in Rows /\ tx'.row = row /\ tx'.turn = turn /\ tx'.events = {}
         /\ job'.event = {} /\ job'.left = {} /\ job'.at = {}
         /\ UNCHANGED <<created, conversation, resends, row, turn, events, sent>>
BY DEF Abort, Committed, NoJob, DeliveryTypeInv, Rows, besideUnchanged

\* The rows of a new fact.
LEMMA CreatingFact ==
  ASSUME DeliveryTypeInv, NEW f \in Facts, CreateFact(f)
  PROVE  /\ tx' \in Rows /\ tx'.turn = tx.turn /\ tx'.events = tx.events
         /\ row' \in [Notices -> States]
         /\ \A n \in Notices :
               /\ row'[n] = IF n.fact = f /\ n \in Invitations THEN "pending" ELSE row[n]
               /\ tx'.row[n] = IF n.fact = f /\ n \in Invitations THEN "pending" ELSE tx.row[n]
         /\ created' = created \cup {f} /\ events' = events \cup {Created(f)}
         /\ UNCHANGED <<conversation, turn, resends, job, sent, cut, aborts>>
<1> DEFINE Pending(rows) == [n \in Notices |->
               IF n.fact = f /\ n.kind = "invitation" THEN "pending" ELSE rows[n]]
<1>1. /\ row' = Pending(row) /\ tx' = [tx EXCEPT !.row = Pending(tx.row)]
      /\ created' = created \cup {f} /\ events' = events \cup {Created(f)}
      /\ UNCHANGED <<conversation, turn, resends, job, sent, cut, aborts>>
  BY DEF CreateFact, Created
<1>2. \A n \in Notices : n \in Invitations <=> n.kind = "invitation"
  BY DEF Invitations
<1>3. Pending(row) \in [Notices -> States] /\ Pending(tx.row) \in [Notices -> States]
  BY DEF DeliveryTypeInv, Rows, States
<1>4. tx \in Rows
  BY DEF DeliveryTypeInv
<1>5. /\ tx' \in Rows /\ tx'.row = Pending(tx.row) /\ tx'.turn = tx.turn
      /\ tx'.events = tx.events
  <2> HIDE DEF Pending
  <2> QED
    BY <1>1, <1>3, <1>4 DEF Rows
<1> QED
  BY <1>1, <1>2, <1>3, <1>5

LEMMA DeliveryTypeStep == DeliveryTypeInv /\ [DeliveryNext]_deliveryVars => DeliveryTypeInv'
<1> SUFFICES ASSUME DeliveryTypeInv, [DeliveryNext]_deliveryVars PROVE DeliveryTypeInv'
  OBVIOUS
<1> USE DEF besideUnchanged
<1>0. /\ created \subseteq Facts /\ conversation \subseteq Notified
      /\ row \in [Notices -> States] /\ turn \in [Triggers -> Dispositions]
      /\ events \subseteq Events /\ ResendsOK /\ tx \in Rows /\ tx.events \subseteq Receipts
      /\ job \in [event : SUBSET Events, left : SUBSET Triggers, at : SUBSET Triggers]
      /\ \A t \in job.left \cup job.at : Announced(t)
      /\ sent \in [Notices -> Nat] /\ cut \subseteq Triggers
  BY DEF DeliveryTypeInv
<1>1. \A rows \in Rows : /\ rows.row \in [Notices -> States]
                          /\ rows.turn \in [Triggers -> Dispositions]
                          /\ rows.events \subseteq Events
  BY DEF Rows
\* Events are only added while the worker is at one.
<1>2. ASSUME NEW t, Announced(t), events \subseteq events' PROVE Announced(t)'
  BY <1>2 DEF Announced
<1>3. ASSUME NEW a \in Notified, FirstInbound(a) PROVE DeliveryTypeInv'
  BY <1>0, <1>3 DEF FirstInbound, DeliveryTypeInv, ResendsOK, Announced
<1>4. ASSUME NEW a \in Notified, ReplyCompleted(a) PROVE DeliveryTypeInv'
  <2>1. PICK k \in 1 .. MaxResends : Enqueued(a, k)
    BY <1>4, Enqueuing
  <2> USE <2>1 DEF Enqueued
  <2>2. UNCHANGED <<created, conversation, row, turn, job, tx, sent, cut, aborts>>
    OBVIOUS
  <2>3. k \in 0 .. MaxResends /\ k \in 1 .. k
    BY DeliveryAssumption
  <2>4. \A i \in DOMAIN resends' : resends'[i] \subseteq Notices
    BY <1>0, <2>1 DEF ResendsOK, UndeliveredOf
  <2>5. ASSUME NEW t \in Resends,
               t \in events' \/ t \in cut' \/ turn'[t] # "none" \/ tx'.turn[t] # "none"
        PROVE  t.number \in DOMAIN resends'
    <3>1. CASE t = [kind |-> "resend", number |-> k]
      BY <2>1, <2>3, <3>1
    <3>2. CASE t # [kind |-> "resend", number |-> k]
      BY <1>0, <2>1, <2>2, <2>5, <3>2 DEF ResendsOK
    <3> QED
      BY <3>1, <3>2
  <2>6. ResendsOK'
    BY <2>1, <2>3, <2>4, <2>5 DEF ResendsOK
  <2>7. events' \subseteq Events /\ \A t \in job'.left \cup job'.at : Announced(t)'
    BY <1>0, <1>2, <2>1, <2>2, NoticeKinds
  <2> QED
    BY <1>0, <2>2, <2>6, <2>7 DEF DeliveryTypeInv
<1>5. ASSUME NEW f \in Facts, CreateFact(f) PROVE DeliveryTypeInv'
  <2>1. /\ tx' \in Rows /\ tx'.turn = tx.turn /\ tx'.events = tx.events
        /\ row' \in [Notices -> States] /\ created' = created \cup {f} /\ events' = events \cup {Created(f)}
        /\ UNCHANGED <<conversation, turn, resends, job, sent, cut, aborts>>
    BY <1>5, CreatingFact
  <2>2. ResendsOK'
    BY <1>0, <2>1, NoticeKinds DEF ResendsOK
  <2>3. events' \subseteq Events /\ \A t \in job'.left \cup job'.at : Announced(t)'
    BY <1>0, <1>2, <2>1, NoticeKinds
  <2> QED
    BY <1>0, <2>1, <2>2, <2>3 DEF DeliveryTypeInv
<1>6. ASSUME NEW e \in events, TakeEvent(e) PROVE DeliveryTypeInv'
  <2>1. PICK deaf \in SUBSET Notices : Taken(e, deaf)
    BY <1>6, Taking
  <2> USE <2>1 DEF Taken
  <2>2. ResendsOK'
    BY <1>0, <2>1 DEF ResendsOK
  <2>3. e \in Events
    BY <1>0
  <2>4. job' \in [event : SUBSET Events, left : SUBSET Triggers, at : SUBSET Triggers]
        /\ \A t \in job'.left \cup job'.at : Announced(t)'
    BY <1>2, <2>1, <2>3
  <2> QED
    BY <1>0, <2>1, <2>2, <2>4 DEF DeliveryTypeInv
\* A step of a turn: events, turns and the transaction are all that matters.
<1>7. ASSUME UNCHANGED <<created, conversation, resends, sent, cut, aborts>>,
             NEW t \in job.left,
             job' \in [event : SUBSET Events, left : SUBSET Triggers, at : SUBSET Triggers],
             job'.left \cup job'.at \subseteq job.left \cup job.at,
             tx' \in Rows, Kept \/ Flushed,
             \A u \in Triggers : u = t \/ tx'.turn[u] = tx.turn[u]
      PROVE  DeliveryTypeInv'
  <2>1. t \in Triggers /\ Announced(t) /\ Resends \subseteq Triggers
    BY <1>0 DEF Triggers
  <2>2. \A u \in Resends : u \notin tx.events
    BY <1>0, NoticeKinds
  <2>3. /\ events \subseteq events' /\ events' \subseteq events \cup tx.events
        /\ tx'.events \subseteq Receipts
    BY <1>0, <1>7 DEF Kept, Flushed
  <2>8. events' \subseteq Events
    BY <1>0, <2>3, NoticeKinds
  <2>4. row' \in [Notices -> States] /\ turn' \in [Triggers -> Dispositions]
        /\ (turn' = turn \/ turn' = tx'.turn)
    <3>1. CASE Kept
      BY <1>0, <3>1 DEF Kept
    <3>2. CASE Flushed
      <4>1. row' = tx'.row /\ turn' = tx'.turn /\ tx' \in Rows
        BY <1>7, <3>2 DEF Flushed
      <4> QED
        BY <1>1, <4>1
    <3> QED
      BY <1>7, <3>1, <3>2
  <2>5. ASSUME NEW u \in Resends,
               u \in events' \/ u \in cut' \/ turn'[u] # "none" \/ tx'.turn[u] # "none"
        PROVE  u.number \in DOMAIN resends'
    <3>1. CASE u \in events \/ u \in cut
      BY <1>0, <1>7, <3>1 DEF ResendsOK
    <3>2. CASE u = t
      BY <1>7, <2>1, <3>2, RowsSpokenOf
    <3>3. CASE u # t /\ u \notin events'
      BY <1>0, <1>7, <2>1, <2>4, <2>5, <3>3 DEF ResendsOK
    <3> QED
      BY <1>7, <2>2, <2>3, <3>1, <3>2, <3>3
  <2>6. ResendsOK'
    BY <1>0, <1>7, <2>5 DEF ResendsOK
  <2>7. \A u \in job'.left \cup job'.at : Announced(u)'
    BY <1>0, <1>2, <1>7, <2>3
  <2> QED
    BY <1>0, <1>7, <2>3, <2>4, <2>6, <2>7, <2>8 DEF DeliveryTypeInv
<1>8. ASSUME NEW t \in job.left, Replay(t) PROVE DeliveryTypeInv'
  <2>1. job' = [job EXCEPT !.left = job.left \ {t}]
        /\ UNCHANGED <<created, conversation, resends, row, turn, events, tx, sent, cut, aborts>>
    BY <1>8 DEF Replay
  <2>2. job' \in [event : SUBSET Events, left : SUBSET Triggers, at : SUBSET Triggers]
        /\ job'.left \cup job'.at \subseteq job.left \cup job.at
    BY <1>0, <2>1
  <2>3. tx' \in Rows /\ Kept
    BY <1>0, <2>1 DEF Kept
  <2> QED
    BY <1>7, <2>1, <2>2, <2>3
<1>9. ASSUME NEW t \in job.left, RenderFails(t) PROVE DeliveryTypeInv'
  <2>1. job' = [job EXCEPT !.left = job.left \ {t}]
        /\ UNCHANGED <<created, conversation, resends, sent, cut, aborts>>
    BY <1>9 DEF RenderFails
  <2>2. job' \in [event : SUBSET Events, left : SUBSET Triggers, at : SUBSET Triggers]
        /\ job'.left \cup job'.at \subseteq job.left \cup job.at
    BY <1>0, <2>1
  <2>3. tx' \in Rows /\ (Kept \/ Flushed) /\ \A u \in Triggers : u = t \/ tx'.turn[u] = tx.turn[u]
    BY <1>9, Failing
  <2> QED
    BY <1>7, <2>1, <2>2, <2>3
<1>10. ASSUME NEW t \in job.left, Close(t) PROVE DeliveryTypeInv'
  <2>1. job' = [job EXCEPT !.left = job.left \ {t}, !.at = {t}]
        /\ UNCHANGED <<created, conversation, resends, sent, cut, aborts>>
    BY <1>10 DEF Close
  <2>2. job' \in [event : SUBSET Events, left : SUBSET Triggers, at : SUBSET Triggers]
        /\ job'.left \cup job'.at \subseteq job.left \cup job.at
    BY <1>0, <2>1
  <2>3. tx' \in Rows /\ Flushed /\ \A u \in Triggers : u = t \/ tx'.turn[u] = tx.turn[u]
    BY <1>10, ClosingTurn
  <2> QED
    BY <1>7, <2>1, <2>2, <2>3
<1>11. ASSUME NEW t \in job.at, Deliver(t) PROVE DeliveryTypeInv'
  <2>1. PICK outcome \in {"delivered", "undelivered", "failed"}, receipts \in SUBSET Receipts :
            Delivered(t, outcome, receipts)
    BY <1>11, Delivering
  <2>2. /\ tx' \in Rows /\ tx'.turn = tx.turn /\ tx'.events = tx.events \cup receipts
        /\ sent' \in [Notices -> Nat] /\ job' = [job EXCEPT !.at = {}]
        /\ UNCHANGED <<created, conversation, resends, row, turn, events, cut, aborts>>
    BY <1>11, <2>1 DEF Delivered, Deliver
  <2>3. ResendsOK'
    BY <1>0, <2>1, <2>2 DEF ResendsOK
  <2>4. job' \in [event : SUBSET Events, left : SUBSET Triggers, at : SUBSET Triggers]
        /\ \A u \in job'.left \cup job'.at : Announced(u)'
    BY <1>0, <1>2, <2>1, <2>2
  <2> QED
    BY <1>0, <2>1, <2>2, <2>3, <2>4 DEF DeliveryTypeInv
<1>12. ASSUME NEW e \in job.event, Finish(e) PROVE DeliveryTypeInv'
  <2>1. /\ row' = tx.row /\ turn' = tx.turn /\ events' = (events \cup tx.events) \ {e}
        /\ tx' = [tx EXCEPT !.events = {}] /\ job' = NoJob
        /\ UNCHANGED <<created, conversation, resends, sent, cut, aborts>>
    BY <1>12 DEF Finish
  <2>2. tx' \in Rows /\ tx'.turn = tx.turn /\ tx'.events = {}
        /\ row' \in [Notices -> States] /\ turn' \in [Triggers -> Dispositions]
        /\ events' \subseteq Events
    BY <1>0, <1>1, <2>1 DEF Rows
  <2>3. \A u \in Resends : u \notin tx.events
    BY <1>0, NoticeKinds
  <2>4. ResendsOK'
    BY <1>0, <2>1, <2>2, <2>3 DEF ResendsOK
  <2> QED
    BY <1>0, <2>1, <2>2, <2>4 DEF DeliveryTypeInv, NoJob
<1>13. CASE Abort
  <2>1. /\ tx' \in Rows /\ tx'.row = row /\ tx'.turn = turn /\ tx'.events = {}
        /\ job' = NoJob /\ job'.left = {} /\ job'.at = {}
        /\ UNCHANGED <<created, conversation, resends, row, turn, events, sent>>
    BY <1>13, Aborting DEF Abort
  <2>2. cut' \subseteq Triggers /\ \A t \in cut' : t \in cut \/ turn[t] = "replied"
    BY <1>0, <1>13 DEF Abort
  <2>3. ResendsOK'
    BY <1>0, <2>1, <2>2 DEF ResendsOK
  <2> QED
    BY <1>0, <2>1, <2>2, <2>3 DEF DeliveryTypeInv, NoJob
<1>14. CASE UNCHANGED deliveryVars
  BY <1>0, <1>14 DEF deliveryVars, DeliveryTypeInv, ResendsOK, Announced
<1> QED
  BY <1>3, <1>4, <1>5, <1>6, <1>8, <1>9, <1>10, <1>11, <1>12, <1>13, <1>14 DEF DeliveryNext, Worker

-----------------------------------------------------------------------------
(* NotificationDelivery: what the rows say.                                *)

Resend(i) == [kind |-> "resend", number |-> i]
Listed(n) == \E i \in DOMAIN resends : n \in resends[i]

\* Only a fact that is there has been announced, receipted or spoken of.
NotedInv ==
    /\ \A f \in Facts : f \notin created => Created(f) \notin events
    /\ \A n \in Notices : n \in events \cup tx.events => n.fact \in created
    /\ \A n \in Notices : tx.turn[n] # "none" => n.fact \in created

\* The worker's transaction knows of every turn that has ended, a reply is
\* committed at once, and only those are spoken to who have spoken.
WorkInv ==
    /\ \A s, t \in job.at : s = t
    /\ \A t \in Triggers : turn[t] # "none" => tx.turn[t] = turn[t]
    /\ \A t \in Triggers : tx.turn[t] = "replied" => turn[t] = "replied"
    /\ \A t \in job.at : turn[t] = "replied" /\ t \notin job.left
    /\ \A n \in Notices : n \in job.left \cup job.at \/ turn[n] = "replied" =>
          Addressee(n) \in conversation

\* A receipt waits for the invitation to be sent.
ReceiptInv ==
    \A n \in Invitations : sent[n] = 0 =>
       /\ row[Receipt(n)] = "none" /\ tx.row[Receipt(n)] = "none"
       /\ Receipt(n) \notin events \cup tx.events
       /\ ~Listed(Receipt(n))

\* A delivered row was sent, and a row that is there stays.
DeliveredInv ==
    \A n \in Notices :
       /\ row[n] = "delivered" \/ tx.row[n] = "delivered" => sent[n] > 0
       /\ row[n] # "none" => tx.row[n] # "none"
       /\ Listed(n) => row[n] # "none"

\* What has been sent, or is to be sent again, had its own turn first.
OwnTurnInv ==
    \A n \in Notices :
       Listed(n) \/ row[n] = "undelivered" \/ tx.row[n] = "undelivered" \/ sent[n] > 0 =>
          turn[n] = "replied" /\ n \notin job.at

\* What no two resends list is sent once: by its own turn, after which no resend
\* lists it, or by that of the resend.
OnceInv ==
    \A n \in Notices : ~ListedTwice(n) =>
       /\ sent[n] <= 1
       /\ sent[n] > 0 /\ ~Listed(n) => row[n] # "undelivered" /\ tx.row[n] # "undelivered"
       /\ \A i \in DOMAIN resends : n \in resends[i] /\ sent[n] > 0 =>
             turn[Resend(i)] = "replied" /\ Resend(i) \notin job.at
       /\ sent[n] > 0 => CutOff(n) \/ tx.row[n] = "delivered"

DeliveryInv ==
    /\ DeliveryTypeInv /\ NotedInv /\ WorkInv
    /\ ReceiptInv /\ DeliveredInv /\ OwnTurnInv /\ OnceInv

\* Two of a set.
LEMMA TwoInSet ==
  ASSUME NEW S, IsFiniteSet(S), NEW i \in S, NEW j \in S, i # j
  PROVE  Cardinality(S) >= 2
<1>1. IsFiniteSet({i}) /\ Cardinality({i}) = 1
  BY FS_Singleton
<1>2. IsFiniteSet({i} \cup {j}) /\ Cardinality({i} \cup {j}) = Cardinality({i}) + 1
  BY <1>1, FS_AddElement
<1>3. ({i} \cup {j}) \subseteq S
  OBVIOUS
<1>4. Cardinality({i} \cup {j}) <= Cardinality(S)
  BY <1>3, FS_Subset
<1>5. Cardinality(S) \in Nat
  BY FS_CardinalityType
<1> QED
  BY <1>1, <1>2, <1>4, <1>5

LEMMA ListedBy ==
  ASSUME DeliveryTypeInv, NEW n, ~ListedTwice(n),
         NEW i \in DOMAIN resends, NEW j \in DOMAIN resends, n \in resends[i], n \in resends[j]
  PROVE  i = j
<1> DEFINE S == {l \in DOMAIN resends : n \in resends[l]}
<1>1. IsFiniteSet(DOMAIN resends)
  BY NextNumber, FS_Interval, DeliveryAssumption
<1>2. IsFiniteSet(S)
  BY <1>1, FS_Subset
<1>3. i \in S /\ j \in S
  OBVIOUS
<1>4. ~(Cardinality(S) >= 2)
  BY DEF ListedTwice
<1> HIDE DEF S
<1> QED
  BY <1>2, <1>3, <1>4, TwoInSet

\* The next resend lists some rows once more.
LEMMA ListingMore ==
  ASSUME DeliveryTypeInv, NEW a, ReplyCompleted(a), NEW n, ~ListedTwice(n)'
  PROVE  /\ ~ListedTwice(n)
         /\ n \in UndeliveredOf(a) => ~Listed(n)
         /\ Listed(n)' <=> Listed(n) \/ n \in UndeliveredOf(a)
         /\ \A i \in DOMAIN resends' : n \in resends'[i] =>
               n \in UndeliveredOf(a) \/ (i \in DOMAIN resends /\ n \in resends[i])
<1>1. PICK k \in 1 .. MaxResends : Enqueued(a, k)
  BY Enqueuing
<1> USE <1>1 DEF Enqueued
<1> DEFINE S == {l \in DOMAIN resends : n \in resends[l]}
           T == {l \in DOMAIN resends' : n \in resends'[l]}
<1>2. k \in DOMAIN resends'
  BY <1>1, DeliveryAssumption
<1>3. IsFiniteSet(DOMAIN resends')
  BY <1>1, FS_Interval, DeliveryAssumption
<1>4. IsFiniteSet(T) /\ Cardinality(T) \in Nat
  BY <1>3, FS_Subset, FS_CardinalityType
<1>5. S \subseteq T
  BY <1>1
<1>6. ~(Cardinality(T) >= 2)
  BY DEF ListedTwice
<1>7. ListedTwice(n) <=> Cardinality(S) >= 2
  BY DEF ListedTwice
<1>8. /\ Listed(n)' <=> Listed(n) \/ n \in UndeliveredOf(a)
      /\ \A i \in DOMAIN resends' : n \in resends'[i] =>
            n \in UndeliveredOf(a) \/ (i \in DOMAIN resends /\ n \in resends[i])
  BY <1>1, <1>2 DEF Listed
<1>9. ~(n \in UndeliveredOf(a) /\ Listed(n))
  <2> SUFFICES ASSUME n \in UndeliveredOf(a), Listed(n) PROVE FALSE
    OBVIOUS
  <2>1. PICK i \in DOMAIN resends : n \in resends[i]
    BY DEF Listed
  <2>2. i \in T /\ k \in T /\ i # k
    BY <1>1, <1>2, <2>1
  <2> HIDE DEF T, Enqueued
  <2> QED
    BY <1>4, <1>6, <2>2, TwoInSet
<1>10. ~ListedTwice(n)
  <2> HIDE DEF S, T
  <2>1. Cardinality(S) <= Cardinality(T) /\ Cardinality(S) \in Nat
    BY <1>4, <1>5, FS_Subset, FS_CardinalityType
  <2> QED
    BY <1>4, <1>6, <1>7, <2>1
<1> QED
  BY <1>8, <1>9, <1>10

LEMMA CutOffStays ==
  ASSUME DeliveryTypeInv, cut \subseteq cut', NEW n, CutOff(n),
         resends' = resends \/ \E a : ReplyCompleted(a)
  PROVE  CutOff(n)'
<1>1. PICK t \in cut : n \in About(t)
  BY DEF CutOff
<1>2. t \in Triggers /\ (t \in Resends => t.number \in DOMAIN resends)
  BY DEF DeliveryTypeInv, ResendsOK
<1>3. t.kind = "resend" => t \in Resends
  BY <1>2, NoticeKinds DEF Triggers
<1>4. t.kind = "resend" => resends'[t.number] = resends[t.number]
  BY <1>2, <1>3, Enqueuing DEF Enqueued
<1>5. About(t)' = About(t)
  BY <1>4 DEF About
<1> QED
  BY <1>1, <1>5 DEF CutOff

\* A turn ends: its disposition is new, and a row changes only if it fails.
TurnEnds(t) ==
    /\ t \in job.left /\ job.at = {} /\ tx.turn[t] = "none"
    /\ tx' \in Rows /\ tx'.events \subseteq tx.events /\ events' \subseteq events \cup tx.events
    /\ \A u \in Triggers : u = t \/ tx'.turn[u] = tx.turn[u]
    /\ \A n \in Notices : tx'.row[n] = tx.row[n] \/ (n = t /\ tx'.row[n] = "failed")
    /\ (row' = row /\ turn' = turn) \/ (row' = tx'.row /\ turn' = tx'.turn)
    /\ job'.left = job.left \ {t}
    /\ \/ job'.at = {} /\ tx'.turn[t] # "replied"
       \/ job'.at = {t} /\ tx'.turn[t] = "replied" /\ turn' = tx'.turn
    /\ UNCHANGED <<created, conversation, resends, sent, cut>>

LEMMA TurnEnding ==
  ASSUME DeliveryTypeInv, NEW t \in job.left, RenderFails(t) \/ Close(t)
  PROVE  TurnEnds(t)
<1>1. t \in Triggers /\ job \in [event : SUBSET Events, left : SUBSET Triggers, at : SUBSET Triggers]
      /\ tx.events \subseteq Receipts
  BY DEF DeliveryTypeInv
<1>2. CASE RenderFails(t)
  <2>1. /\ job.at = {} /\ tx.turn[t] = "none" /\ job' = [job EXCEPT !.left = job.left \ {t}]
        /\ UNCHANGED <<created, conversation, resends, sent, cut>>
    BY <1>2 DEF RenderFails, Turn, Fresh, besideUnchanged
  <2>2. PICK d \in {"failed", "no_reply"} :
            /\ tx' \in Rows /\ (Kept \/ Flushed)
            /\ \A u \in Triggers : tx'.turn[u] = IF u = t THEN d ELSE tx.turn[u]
            /\ \A n \in Notices : tx'.row[n] = IF n = t THEN "failed" ELSE tx.row[n]
    BY <1>2, Failing
  <2>3. tx'.turn[t] # "replied"
    BY <1>1, <2>2
  <2>4. job'.left = job.left \ {t} /\ job'.at = {}
    BY <1>1, <2>1
  <2>5. /\ tx'.events \subseteq tx.events /\ events' \subseteq events \cup tx.events
        /\ (row' = row /\ turn' = turn) \/ (row' = tx'.row /\ turn' = tx'.turn)
    BY <2>2 DEF Kept, Flushed
  <2> QED
    BY <2>1, <2>2, <2>3, <2>4, <2>5 DEF TurnEnds
<1>3. CASE Close(t)
  <2>1. /\ job.at = {} /\ tx.turn[t] = "none"
        /\ job' = [job EXCEPT !.left = job.left \ {t}, !.at = {t}]
        /\ UNCHANGED <<created, conversation, resends, sent, cut>>
    BY <1>3 DEF Close, Turn, Fresh, besideUnchanged
  <2>2. /\ tx' \in Rows /\ Flushed /\ row' = tx.row
        /\ \A u \in Triggers : tx'.turn[u] = IF u = t THEN "replied" ELSE tx.turn[u]
    BY <1>3, ClosingTurn
  <2>3. tx'.turn[t] = "replied" /\ turn' = tx'.turn /\ row' = tx'.row /\ tx'.row = tx.row
    BY <1>1, <2>2 DEF Flushed
  <2>4. job'.left = job.left \ {t} /\ job'.at = {t}
    BY <1>1, <2>1
  <2>5. /\ tx'.events \subseteq tx.events /\ events' \subseteq events \cup tx.events
    BY <2>2 DEF Flushed
  <2> QED
    BY <2>1, <2>2, <2>3, <2>4, <2>5 DEF TurnEnds
<1> QED
  BY <1>2, <1>3

\* The other steps, by what they do to the rows and the turns.
Quiet ==
    /\ UNCHANGED <<created, row, turn, events, resends, tx, sent, cut>>
    /\ conversation \subseteq conversation'
    /\ job'.left \subseteq job.left /\ job'.at = job.at

Finished ==
    /\ row' = tx.row /\ turn' = tx.turn /\ events' \subseteq events \cup tx.events
    /\ tx' \in Rows /\ tx'.row = tx.row /\ tx'.turn = tx.turn /\ tx'.events = {}
    /\ job'.left = {} /\ job'.at = {}
    /\ UNCHANGED <<created, conversation, resends, sent, cut>>

Aborted ==
    /\ tx' \in Rows /\ tx'.row = row /\ tx'.turn = turn /\ tx'.events = {}
    /\ job'.left = {} /\ job'.at = {}
    /\ cut \subseteq cut'
    /\ \A n \in Notices : turn[n] = "replied" /\ tx.row[n] # row[n] => n \in cut'
    /\ UNCHANGED <<created, conversation, resends, row, turn, events, sent>>

FactCreated(f) ==
    /\ tx' \in Rows /\ tx'.turn = tx.turn /\ tx'.events = tx.events
    /\ \A n \in Notices :
          /\ row'[n] = IF n.fact = f /\ n \in Invitations THEN "pending" ELSE row[n]
          /\ tx'.row[n] = IF n.fact = f /\ n \in Invitations THEN "pending" ELSE tx.row[n]
    /\ f \notin created /\ created' = created \cup {f} /\ events' = events \cup {Created(f)}
    /\ UNCHANGED <<conversation, turn, resends, job, sent, cut, aborts>>

LEMMA DeliverySteps ==
  ASSUME DeliveryTypeInv, [DeliveryNext]_deliveryVars
  PROVE  \/ Quiet
         \/ \E a \in Notified : ReplyCompleted(a)
         \/ \E f \in Facts : FactCreated(f)
         \/ \E e \in events : TakeEvent(e)
         \/ \E t \in job.left : TurnEnds(t)
         \/ \E t \in job.at : Deliver(t)
         \/ Finished
         \/ Aborted
<1>1. ASSUME NEW a \in Notified, FirstInbound(a) PROVE Quiet
  BY <1>1 DEF FirstInbound, Quiet
<1>2. ASSUME NEW t \in job.left, Replay(t) PROVE Quiet
  BY <1>2 DEF Replay, Quiet, besideUnchanged, DeliveryTypeInv
<1>3. CASE UNCHANGED deliveryVars
  BY <1>3 DEF deliveryVars, Quiet
<1>4. ASSUME NEW f \in Facts, CreateFact(f) PROVE FactCreated(f)
  <2>1. f \notin created
    BY <1>4 DEF CreateFact
  <2> QED
    BY <1>4, <2>1, CreatingFact DEF FactCreated
<1>5. ASSUME NEW e \in job.event, Finish(e) PROVE Finished
  <2>1. /\ row' = tx.row /\ turn' = tx.turn /\ events' = (events \cup tx.events) \ {e}
        /\ tx' = [tx EXCEPT !.events = {}] /\ job' = NoJob
        /\ UNCHANGED <<created, conversation, resends, sent, cut>>
    BY <1>5 DEF Finish, besideUnchanged
  <2>2. tx' \in Rows /\ tx'.row = tx.row /\ tx'.turn = tx.turn /\ tx'.events = {}
    BY <2>1 DEF DeliveryTypeInv, Rows
  <2> QED
    BY <2>1, <2>2 DEF Finished, NoJob
<1>6. CASE Abort
  <2>1. \A n \in Notices : n \in Triggers /\ About(n) = {n}
    BY NoticeKinds DEF Triggers, About
  <2>2. cut' = cut \cup {t \in Triggers :
           /\ turn[t] = "replied"
           /\ t \in job.at \/ \E n \in About(t) : tx.row[n] # row[n]}
    BY <1>6 DEF Abort
  <2>3. cut \subseteq cut'
        /\ \A n \in Notices : turn[n] = "replied" /\ tx.row[n] # row[n] => n \in cut'
    BY <2>1, <2>2
  <2> QED
    BY <1>6, <2>3, Aborting DEF Aborted
<1> QED
  BY <1>1, <1>2, <1>3, <1>4, <1>5, <1>6, TurnEnding DEF DeliveryNext, Worker

LEMMA NotedStep ==
  ASSUME DeliveryInv, [DeliveryNext]_deliveryVars
  PROVE  NotedInv'
<1>0. /\ DeliveryTypeInv
      /\ \A f \in Facts : f \notin created => Created(f) \notin events
      /\ \A n \in Notices : n \in events \cup tx.events => n.fact \in created
      /\ \A n \in Notices : tx.turn[n] # "none" => n.fact \in created
      /\ tx.events \subseteq Receipts /\ events \subseteq Events
      /\ \A t \in Triggers : turn[t] # "none" => tx.turn[t] = turn[t]
  BY DEF DeliveryInv, DeliveryTypeInv, NotedInv, WorkInv
<1>1. /\ \A f \in Facts : Created(f) \notin Notices /\ Created(f) \notin Receipts
                             /\ Created(f).fact = f
      /\ \A n \in Notices : n \in Triggers /\ n \notin Resends /\ n.fact \in Facts
      /\ Receipts \subseteq Notices
      /\ \A r \in Resends, f \in Facts : r # Created(f)
      /\ \A n \in Invitations : Receipt(n) \in Receipts /\ Receipt(n).fact = n.fact
      /\ Notices = Invitations \cup Receipts
  BY NoticeKinds DEF Triggers
\* What is announced is of a fact that is there.
<1>2. ASSUME NEW n \in Notices, Announced(n) PROVE n.fact \in created
  <2>1. CASE n \in Invitations /\ Created(n.fact) \in events
    BY <1>0, <1>1, <2>1
  <2>2. CASE n \in events
    BY <1>0, <2>2
  <2> QED
    BY <1>2, <2>1, <2>2 DEF Announced
<1>3. CASE Quiet
  BY <1>0, <1>3 DEF Quiet, NotedInv
<1>4. ASSUME NEW a \in Notified, ReplyCompleted(a) PROVE NotedInv'
  <2>1. PICK k \in 1 .. MaxResends : Enqueued(a, k)
    BY <1>0, <1>4, Enqueuing
  <2>2. /\ events' = events \cup {Resend(k)} /\ Resend(k) \in Resends
        /\ UNCHANGED <<created, tx>>
    BY <2>1 DEF Enqueued, Resend
  <2> QED
    BY <1>0, <1>1, <2>2 DEF NotedInv
<1>5. ASSUME NEW f \in Facts, FactCreated(f) PROVE NotedInv'
  <2>1. /\ events' = events \cup {Created(f)} /\ created' = created \cup {f}
        /\ tx'.turn = tx.turn /\ tx'.events = tx.events
    BY <1>5 DEF FactCreated
  <2>2. \A g \in Facts : Created(g) = Created(f) => g = f
    BY <1>1
  <2> QED
    BY <1>0, <1>1, <2>1, <2>2 DEF NotedInv
<1>6. ASSUME NEW e \in events, TakeEvent(e) PROVE NotedInv'
  <2>1. PICK deaf \in SUBSET Notices : Taken(e, deaf)
    BY <1>0, <1>6, Taking
  <2>2. UNCHANGED <<created, events>> /\ tx'.turn = tx.turn /\ tx'.events = tx.events
    BY <2>1 DEF Taken
  <2> QED
    BY <1>0, <2>2 DEF NotedInv
<1>7. ASSUME NEW t \in job.left, TurnEnds(t) PROVE NotedInv'
  <2>1. /\ tx'.events \subseteq tx.events /\ events' \subseteq events \cup tx.events
        /\ \A u \in Triggers : u = t \/ tx'.turn[u] = tx.turn[u]
        /\ created' = created
    BY <1>7 DEF TurnEnds
  <2>2. t \in Notices => t.fact \in created
    BY <1>0, <1>2 DEF DeliveryTypeInv
  <2>3. \A f \in Facts : f \notin created' => Created(f) \notin events'
    BY <1>0, <1>1, <2>1
  <2>4. \A n \in Notices : n \in events' \cup tx'.events => n.fact \in created'
    BY <1>0, <2>1
  <2>5. \A n \in Notices : tx'.turn[n] # "none" => n.fact \in created'
    BY <1>0, <1>1, <2>1, <2>2
  <2> QED
    BY <2>3, <2>4, <2>5 DEF NotedInv
<1>8. ASSUME NEW t \in job.at, Deliver(t) PROVE NotedInv'
  <2>1. PICK outcome \in {"delivered", "undelivered", "failed"}, receipts \in SUBSET Receipts :
            Delivered(t, outcome, receipts)
    BY <1>0, <1>8, Delivering
  <2>2. UNCHANGED <<created, events>> /\ tx'.turn = tx.turn /\ tx'.events = tx.events \cup receipts
    BY <2>1 DEF Delivered
  <2>3. ASSUME NEW r \in receipts PROVE r.fact \in created
    <3>1. PICK n \in About(t) \cap Invitations : r = Receipt(n)
      BY <2>1, <2>3 DEF Delivered
    <3>2. r.fact = n.fact /\ n \in Notices
      BY <1>1, <3>1
    <3>3. n.fact \in created
      <4>1. t \in Triggers /\ Announced(t)
        BY <1>0 DEF DeliveryTypeInv
      <4>2. CASE t \in Notices
        BY <1>0, <1>2, <3>1, <4>1, <4>2, RowsSpokenOf
      <4>3. CASE t \in Resends
        <5>1. n \in resends[t.number] /\ t.number \in DOMAIN resends
          BY <1>0, <3>1, <4>3, RowsSpokenOf
        <5>2. turn[n] = "replied"
          BY <3>2, <5>1 DEF DeliveryInv, OwnTurnInv, Listed
        <5> QED
          BY <1>0, <1>1, <3>2, <5>2
      <4> QED
        BY <4>1, <4>2, <4>3 DEF Triggers
    <3> QED
      BY <3>2, <3>3
  <2> QED
    BY <1>0, <1>1, <2>2, <2>3 DEF NotedInv
<1>9. CASE Finished
  <2>1. /\ events' \subseteq events \cup tx.events /\ tx'.events = {} /\ tx'.turn = tx.turn
        /\ created' = created
    BY <1>9 DEF Finished
  <2> QED
    BY <1>0, <1>1, <2>1 DEF NotedInv
<1>10. CASE Aborted
  <2>1. UNCHANGED <<created, events>> /\ tx'.turn = turn /\ tx'.events = {}
    BY <1>10 DEF Aborted
  <2> QED
    BY <1>0, <1>1, <2>1 DEF NotedInv
<1> QED
  BY <1>0, <1>3, <1>4, <1>5, <1>6, <1>7, <1>8, <1>9, <1>10, DeliverySteps

LEMMA WorkStep ==
  ASSUME DeliveryInv, [DeliveryNext]_deliveryVars
  PROVE  WorkInv'
<1>0. /\ DeliveryTypeInv
      /\ \A s, t \in job.at : s = t
      /\ \A t \in Triggers : turn[t] # "none" => tx.turn[t] = turn[t]
      /\ \A t \in Triggers : tx.turn[t] = "replied" => turn[t] = "replied"
      /\ \A t \in job.at : turn[t] = "replied" /\ t \notin job.left
      /\ \A n \in Notices : n \in job.left \cup job.at \/ turn[n] = "replied" =>
            Addressee(n) \in conversation
      /\ job.left \cup job.at \subseteq Triggers
      /\ \A n \in Notices : n \in Triggers
  BY DEF DeliveryInv, DeliveryTypeInv, WorkInv, Triggers
<1>1. CASE Quiet
  <2>1. /\ UNCHANGED <<turn, tx>> /\ conversation \subseteq conversation'
        /\ job'.left \subseteq job.left /\ job'.at = job.at
    BY <1>1 DEF Quiet
  <2>2. \A n : Addressee(n)' = Addressee(n)
    BY DEF Addressee
  <2> QED
    BY <1>0, <2>1, <2>2 DEF WorkInv
<1>2. ASSUME NEW a \in Notified, ReplyCompleted(a) PROVE WorkInv'
  BY <1>0, <1>2 DEF ReplyCompleted, WorkInv, Addressee
<1>3. ASSUME NEW f \in Facts, FactCreated(f) PROVE WorkInv'
  BY <1>0, <1>3 DEF FactCreated, WorkInv, Addressee
<1>4. ASSUME NEW e \in events, TakeEvent(e) PROVE WorkInv'
  <2>1. PICK deaf \in SUBSET Notices : Taken(e, deaf)
    BY <1>0, <1>4, Taking
  <2>2. /\ UNCHANGED <<conversation, turn>> /\ tx'.turn = tx.turn /\ job'.at = {}
        /\ \A n \in Notices \cap (job'.left \cup job'.at) : Addressee(n) \in conversation
    BY <2>1 DEF Taken
  <2> QED
    BY <1>0, <2>2 DEF WorkInv, Addressee
<1>5. ASSUME NEW t \in job.left, TurnEnds(t) PROVE WorkInv'
  <2>1. /\ job.at = {} /\ tx.turn[t] = "none"
        /\ \A u \in Triggers : u = t \/ tx'.turn[u] = tx.turn[u]
        /\ turn' = turn \/ turn' = tx'.turn
        /\ job'.left = job.left \ {t}
        /\ \/ job'.at = {} /\ tx'.turn[t] # "replied"
           \/ job'.at = {t} /\ tx'.turn[t] = "replied" /\ turn' = tx'.turn
        /\ UNCHANGED conversation
    BY <1>5 DEF TurnEnds
  <2>2. t \in Triggers /\ turn[t] = "none"
    BY <1>0, <2>1
  <2>3. \A u \in Triggers : turn'[u] # "none" => tx'.turn[u] = turn'[u]
    BY <1>0, <2>1, <2>2
  <2>4. \A u \in Triggers : tx'.turn[u] = "replied" => turn'[u] = "replied"
    BY <1>0, <2>1, <2>2
  <2>5. \A u \in job'.at : turn'[u] = "replied" /\ u \notin job'.left
    BY <2>1
  <2>6. \A n \in Notices : turn'[n] = "replied" => turn[n] = "replied" \/ n = t
    BY <1>0, <2>1
  <2>7. \A n \in Notices : n \in job'.left \cup job'.at \/ turn'[n] = "replied" =>
           Addressee(n)' \in conversation'
    BY <1>0, <2>1, <2>6 DEF Addressee
  <2>8. \A s, u \in job'.at : s = u
    BY <2>1
  <2> QED
    BY <2>3, <2>4, <2>5, <2>7, <2>8 DEF WorkInv
<1>6. ASSUME NEW t \in job.at, Deliver(t) PROVE WorkInv'
  <2>1. PICK outcome \in {"delivered", "undelivered", "failed"}, receipts \in SUBSET Receipts :
            Delivered(t, outcome, receipts)
    BY <1>0, <1>6, Delivering
  <2>2. /\ UNCHANGED <<conversation, turn>> /\ tx'.turn = tx.turn
        /\ job'.left = job.left /\ job'.at = {}
    BY <2>1 DEF Delivered
  <2> QED
    BY <1>0, <2>2 DEF WorkInv, Addressee
<1>7. CASE Finished
  BY <1>0, <1>7 DEF Finished, WorkInv, Addressee
<1>8. CASE Aborted
  BY <1>0, <1>8 DEF Aborted, WorkInv, Addressee
<1> QED
  BY <1>0, <1>1, <1>2, <1>3, <1>4, <1>5, <1>6, <1>7, <1>8, DeliverySteps

\* A receipt is that of one invitation.
LEMMA ReceiptsDiffer ==
  ASSUME NEW n \in Invitations, NEW m \in Invitations, Receipt(n) = Receipt(m)
  PROVE  n = m
BY DEF Invitations, Notices, Receipt

LEMMA ReceiptStep ==
  ASSUME DeliveryInv, [DeliveryNext]_deliveryVars
  PROVE  ReceiptInv'
<1>0. DeliveryTypeInv /\ ReceiptInv /\ DeliveredInv /\ sent \in [Notices -> Nat]
  BY DEF DeliveryInv, DeliveryTypeInv
<1>1. /\ \A n \in Invitations : /\ n \in Notices /\ Receipt(n) \in Receipts
                                /\ Receipt(n) \in Notices /\ Receipt(n) \notin Invitations
      /\ \A r \in Resends : r \notin Notices
      /\ \A f \in Facts : Created(f) \notin Notices
  BY NoticeKinds DEF Invitations, Receipts
<1> SUFFICES ASSUME NEW n \in Invitations, sent'[n] = 0
             PROVE  /\ row'[Receipt(n)] = "none" /\ tx'.row[Receipt(n)] = "none"
                    /\ Receipt(n) \notin events' \cup tx'.events
                    /\ ~Listed(Receipt(n))'
  BY DEF ReceiptInv, Receipt
<1>r. PICK r \in Notices : n \in Notices /\ r \in Receipts /\ r \notin Invitations /\ r = Receipt(n)
  BY <1>1
<1>q. sent[n] = 0 => /\ row[r] = "none" /\ tx.row[r] = "none"
                     /\ r \notin events \cup tx.events /\ ~Listed(r)
  BY <1>0, <1>r DEF ReceiptInv
\* The worker is not at the receipt either.
<1>w. ASSUME sent[n] = 0, NEW t \in job.left \cup job.at PROVE t # r /\ r \notin About(t)
  <2>1. Announced(t) /\ t \in Triggers
    BY <1>0 DEF DeliveryTypeInv
  <2>2. t # r
    BY <1>q, <1>r, <1>w, <2>1 DEF Announced
  <2>3. CASE t \in Notices
    BY <1>0, <2>2, <2>3, RowsSpokenOf
  <2>4. CASE t \in Resends
    <3>1. About(t) = resends[t.number] /\ t.number \in DOMAIN resends
      BY <1>0, <2>4, RowsSpokenOf
    <3> QED
      BY <1>q, <1>w, <2>2, <3>1 DEF Listed
  <2> QED
    BY <2>1, <2>3, <2>4, <2>2 DEF Triggers
<1> DEFINE Goal == /\ row'[r] = "none" /\ tx'.row[r] = "none"
                   /\ r \notin events' \cup tx'.events /\ ~Listed(r)'
<1>2. ASSUME Quiet PROVE Goal
  BY <1>q, <1>2 DEF Quiet, Listed
<1>3. ASSUME NEW a \in Notified, ReplyCompleted(a) PROVE Goal
  <2>1. PICK k \in 1 .. MaxResends : Enqueued(a, k)
    BY <1>0, <1>3, Enqueuing
  <2>2. r # [kind |-> "resend", number |-> k]
    BY <1>1, <1>r, <2>1 DEF Enqueued
  <2>3. r \notin UndeliveredOf(a) /\ sent[n] = 0
    BY <1>q, <2>1 DEF Enqueued, UndeliveredOf
  <2> QED
    BY <1>q, <2>1, <2>2, <2>3 DEF Enqueued, Listed
<1>4. ASSUME NEW f \in Facts, FactCreated(f) PROVE Goal
  BY <1>1, <1>q, <1>r, <1>4 DEF FactCreated, Listed
<1>5. ASSUME NEW e \in events, TakeEvent(e) PROVE Goal
  <2>1. PICK deaf \in SUBSET Notices : Taken(e, deaf)
    BY <1>0, <1>5, Taking
  <2>2. sent[n] = 0
    BY <2>1 DEF Taken
  <2>3. r \notin deaf
    BY <1>q, <1>r, <2>1, <2>2 DEF Taken, Announced
  <2> QED
    BY <1>q, <1>r, <2>1, <2>2, <2>3 DEF Taken, Listed
<1>6. ASSUME NEW t \in job.left, TurnEnds(t) PROVE Goal
  <2>1. sent[n] = 0
    BY <1>6 DEF TurnEnds
  <2>2. t # r
    BY <1>w, <2>1
  <2>3. tx'.row[r] = "none" /\ row'[r] \in {row[r], tx'.row[r]}
    BY <1>q, <1>r, <1>6, <2>1, <2>2 DEF TurnEnds
  <2> QED
    BY <1>q, <1>6, <2>1, <2>3 DEF TurnEnds, Listed
<1>7. ASSUME NEW t \in job.at, Deliver(t) PROVE Goal
  <2>1. PICK outcome \in {"delivered", "undelivered", "failed"}, receipts \in SUBSET Receipts :
            Delivered(t, outcome, receipts)
    BY <1>0, <1>7, Delivering
  <2>2. sent[n] = 0 /\ ~(outcome = "delivered" /\ n \in About(t))
    <3>1. sent'[n] = IF outcome = "delivered" /\ n \in About(t) THEN sent[n] + 1 ELSE sent[n]
      BY <1>r, <2>1 DEF Delivered
    <3> QED
      BY <1>0, <1>r, <3>1
  <2>3. r \notin About(t)
    BY <1>w, <2>2
  <2>4. r \notin receipts
    <3> SUFFICES ASSUME r \in receipts PROVE FALSE
      OBVIOUS
    <3>1. outcome = "delivered"
      BY <2>1 DEF Delivered
    <3>2. PICK m \in About(t) \cap Invitations : r = Receipt(m)
      BY <2>1 DEF Delivered
    <3>3. m = n
      BY <1>r, <3>2, ReceiptsDiffer
    <3> QED
      BY <2>2, <3>1, <3>2, <3>3
  <2> QED
    BY <1>q, <1>r, <2>1, <2>2, <2>3, <2>4 DEF Delivered, Listed
<1>8. ASSUME Finished PROVE Goal
  BY <1>q, <1>8 DEF Finished, Listed
<1>9. ASSUME Aborted PROVE Goal
  BY <1>q, <1>9 DEF Aborted, Listed
<1>10. Goal
  BY <1>0, <1>2, <1>3, <1>4, <1>5, <1>6, <1>7, <1>8, <1>9, DeliverySteps
<1> QED
  BY <1>10, <1>r DEF Listed, Receipt

LEMMA DeliveredStep ==
  ASSUME DeliveryInv, [DeliveryNext]_deliveryVars
  PROVE  DeliveredInv'
<1>0. DeliveryTypeInv /\ sent \in [Notices -> Nat]
  BY DEF DeliveryInv, DeliveryTypeInv
<1> SUFFICES ASSUME NEW n \in Notices
             PROVE  /\ row'[n] = "delivered" \/ tx'.row[n] = "delivered" => sent'[n] > 0
                    /\ row'[n] # "none" => tx'.row[n] # "none"
                    /\ Listed(n)' => row'[n] # "none"
  BY DEF DeliveredInv
<1>q. /\ row[n] = "delivered" \/ tx.row[n] = "delivered" => sent[n] > 0
      /\ row[n] # "none" => tx.row[n] # "none"
      /\ Listed(n) => row[n] # "none"
      /\ sent[n] \in Nat
  BY <1>0 DEF DeliveryInv, DeliveredInv
<1> DEFINE Goal == /\ row'[n] = "delivered" \/ tx'.row[n] = "delivered" => sent'[n] > 0
                   /\ row'[n] # "none" => tx'.row[n] # "none"
                   /\ Listed(n)' => row'[n] # "none"
<1>2. CASE Quiet
  BY <1>q, <1>2 DEF Quiet, Listed
<1>3. ASSUME NEW a \in Notified, ReplyCompleted(a) PROVE Goal
  <2>1. PICK k \in 1 .. MaxResends : Enqueued(a, k)
    BY <1>0, <1>3, Enqueuing
  <2>2. Listed(n)' => Listed(n) \/ n \in UndeliveredOf(a)
    BY <2>1 DEF Enqueued, Listed
  <2> QED
    BY <1>q, <2>1, <2>2 DEF Enqueued, UndeliveredOf
<1>4. ASSUME NEW f \in Facts, FactCreated(f) PROVE Goal
  BY <1>q, <1>4 DEF FactCreated, Listed
<1>5. ASSUME NEW e \in events, TakeEvent(e) PROVE Goal
  <2>1. PICK deaf \in SUBSET Notices : Taken(e, deaf)
    BY <1>0, <1>5, Taking
  <2> QED
    BY <1>q, <2>1 DEF Taken, Listed
<1>6. ASSUME NEW t \in job.left, TurnEnds(t) PROVE Goal
  <2>1. tx'.row[n] = tx.row[n] \/ tx'.row[n] = "failed"
    BY <1>6 DEF TurnEnds
  <2>2. (row'[n] = row[n] \/ row'[n] = tx'.row[n]) /\ UNCHANGED <<resends, sent>>
    BY <1>6 DEF TurnEnds
  <2>3. Listed(n)' = Listed(n)
    BY <2>2 DEF Listed
  <2> QED
    BY <1>q, <2>1, <2>2, <2>3
<1>7. ASSUME NEW t \in job.at, Deliver(t) PROVE Goal
  <2>1. PICK outcome \in {"delivered", "undelivered", "failed"}, receipts \in SUBSET Receipts :
            Delivered(t, outcome, receipts)
    BY <1>0, <1>7, Delivering
  <2>2. /\ tx'.row[n] = IF n \in receipts THEN "pending"
                        ELSE IF n \in About(t) THEN outcome ELSE tx.row[n]
        /\ sent'[n] = IF outcome = "delivered" /\ n \in About(t) THEN sent[n] + 1 ELSE sent[n]
        /\ UNCHANGED <<row, resends>>
    BY <2>1 DEF Delivered
  <2>3. Listed(n)' = Listed(n)
    BY <2>2 DEF Listed
  <2>4. sent'[n] >= sent[n] /\ sent'[n] \in Nat
    BY <1>q, <2>2
  <2>5. tx'.row[n] = "delivered" => sent'[n] > 0
    BY <1>q, <2>2
  <2> QED
    BY <1>q, <2>2, <2>3, <2>4, <2>5
<1>8. CASE Finished
  BY <1>q, <1>8 DEF Finished, Listed
<1>9. CASE Aborted
  BY <1>q, <1>9 DEF Aborted, Listed
<1> QED
  BY <1>0, <1>2, <1>3, <1>4, <1>5, <1>6, <1>7, <1>8, <1>9, DeliverySteps

LEMMA OwnTurnStep ==
  ASSUME DeliveryInv, [DeliveryNext]_deliveryVars
  PROVE  OwnTurnInv'
<1>0. DeliveryTypeInv /\ WorkInv /\ NotedInv
  BY DEF DeliveryInv
<1> SUFFICES ASSUME NEW n \in Notices,
                    Listed(n)' \/ row'[n] = "undelivered" \/ tx'.row[n] = "undelivered" \/ sent'[n] > 0
             PROVE  turn'[n] = "replied" /\ n \notin job'.at
  BY DEF OwnTurnInv
<1> DEFINE Spoken == Listed(n) \/ row[n] = "undelivered" \/ tx.row[n] = "undelivered" \/ sent[n] > 0
           Goal == turn'[n] = "replied" /\ n \notin job'.at
<1>q. Spoken => turn[n] = "replied" /\ n \notin job.at
  BY DEF DeliveryInv, OwnTurnInv
<1>n. n \in Triggers
  BY DEF Triggers
<1>2. CASE Quiet
  BY <1>q, <1>2 DEF Quiet, Listed
<1>3. ASSUME NEW a \in Notified, ReplyCompleted(a) PROVE Goal
  <2>1. PICK k \in 1 .. MaxResends : Enqueued(a, k)
    BY <1>0, <1>3, Enqueuing
  <2>2. Listed(n)' => Listed(n) \/ n \in UndeliveredOf(a)
    BY <2>1 DEF Enqueued, Listed
  <2> QED
    BY <1>q, <2>1, <2>2 DEF Enqueued, UndeliveredOf
<1>4. ASSUME NEW f \in Facts, FactCreated(f) PROVE Goal
  BY <1>q, <1>4 DEF FactCreated, Listed
<1>5. ASSUME NEW e \in events, TakeEvent(e) PROVE Goal
  <2>1. PICK deaf \in SUBSET Notices : Taken(e, deaf)
    BY <1>0, <1>5, Taking
  <2> QED
    BY <1>q, <2>1 DEF Taken, Listed
<1>6. ASSUME NEW t \in job.left, TurnEnds(t) PROVE Goal
  <2>1. /\ tx'.row[n] = tx.row[n] \/ tx'.row[n] = "failed"
        /\ row'[n] = row[n] \/ row'[n] = tx'.row[n]
        /\ UNCHANGED <<resends, sent>>
    BY <1>6 DEF TurnEnds
  <2>2. Listed(n)' = Listed(n)
    BY <2>1 DEF Listed
  <2>3. turn[n] = "replied"
    BY <1>q, <2>1, <2>2
  <2>4. tx.turn[n] = "replied" /\ tx.turn[t] = "none"
    BY <1>0, <1>n, <1>6, <2>3 DEF WorkInv, TurnEnds
  <2>5. n # t
    BY <2>4
  <2>6. tx'.turn[n] = "replied"
    BY <1>6, <1>n, <2>4, <2>5 DEF TurnEnds
  <2> QED
    BY <1>6, <2>3, <2>5, <2>6 DEF TurnEnds
<1>7. ASSUME NEW t \in job.at, Deliver(t) PROVE Goal
  <2>1. PICK outcome \in {"delivered", "undelivered", "failed"}, receipts \in SUBSET Receipts :
            Delivered(t, outcome, receipts)
    BY <1>0, <1>7, Delivering
  <2>2. /\ tx'.row[n] = IF n \in receipts THEN "pending"
                        ELSE IF n \in About(t) THEN outcome ELSE tx.row[n]
        /\ sent'[n] = IF outcome = "delivered" /\ n \in About(t) THEN sent[n] + 1 ELSE sent[n]
        /\ UNCHANGED <<row, resends, turn>> /\ job'.at = {}
    BY <2>1 DEF Delivered
  <2>3. Listed(n)' = Listed(n)
    BY <2>2 DEF Listed
  <2>4. Spoken \/ n \in About(t)
    BY <2>2, <2>3
  <2>5. n \in About(t) => turn[n] = "replied"
    <3>1. t \in Triggers /\ turn[t] = "replied"
      BY <1>0 DEF DeliveryTypeInv, WorkInv
    <3>2. CASE t \in Notices
      BY <1>0, <3>1, <3>2, RowsSpokenOf
    <3>3. CASE t \in Resends
      BY <1>0, <1>q, <3>3, RowsSpokenOf DEF Listed
    <3> QED
      BY <3>1, <3>2, <3>3 DEF Triggers
  <2> QED
    BY <1>q, <2>2, <2>4, <2>5
<1>8. CASE Finished
  <2>1. turn[n] = "replied"
    BY <1>q, <1>8 DEF Finished, Listed
  <2> QED
    BY <1>0, <1>n, <1>8, <2>1 DEF Finished, WorkInv
<1>9. CASE Aborted
  BY <1>q, <1>9 DEF Aborted, Listed
<1> QED
  BY <1>0, <1>2, <1>3, <1>4, <1>5, <1>6, <1>7, <1>8, <1>9, DeliverySteps

\* What is sent for the first time, and by whose turn.
LEMMA SentOnce ==
  ASSUME DeliveryInv, NEW n \in Notices, ~ListedTwice(n), NEW t \in job.at, n \in About(t)
  PROVE  /\ sent[n] = 0
         /\ \/ t = n /\ ~Listed(n) /\ row[n] # "undelivered"
            \/ t \in Resends /\ Listed(n) /\ tx.row[n] # "none" /\ turn[t] = "replied"
               /\ \A i \in DOMAIN resends : n \in resends[i] => Resend(i) = t
<1>0. DeliveryTypeInv /\ WorkInv /\ sent[n] \in Nat /\ t \in Triggers /\ turn[t] = "replied"
  BY DEF DeliveryInv, DeliveryTypeInv, WorkInv
<1>1. CASE t \in Notices
  <2>1. t = n
    BY <1>0, <1>1, RowsSpokenOf
  <2>2. ~(Listed(n) \/ row[n] = "undelivered" \/ tx.row[n] = "undelivered" \/ sent[n] > 0)
    BY <2>1 DEF DeliveryInv, OwnTurnInv
  <2> QED
    BY <1>0, <2>1, <2>2
<1>2. CASE t \in Resends
  <2>1. t.number \in DOMAIN resends /\ n \in resends[t.number] /\ t = Resend(t.number)
    BY <1>0, <1>2, RowsSpokenOf, NoticeKinds DEF Resend
  <2>2. Listed(n)
    BY <2>1 DEF Listed
  <2>3. \A i \in DOMAIN resends : n \in resends[i] => i = t.number
    BY <1>0, <2>1, ListedBy
  <2>4. ~(sent[n] > 0)
    BY <2>1 DEF DeliveryInv, OnceInv
  <2>5. tx.row[n] # "none"
    BY <2>2 DEF DeliveryInv, DeliveredInv
  <2> QED
    BY <1>0, <1>2, <2>1, <2>2, <2>3, <2>4, <2>5
<1> QED
  BY <1>0, <1>1, <1>2 DEF Triggers

LEMMA OnceStep ==
  ASSUME DeliveryInv, [DeliveryNext]_deliveryVars
  PROVE  OnceInv'
<1>0. /\ DeliveryTypeInv /\ WorkInv /\ NotedInv /\ OwnTurnInv
      /\ \A t \in Triggers : tx.turn[t] = "replied" <=> turn[t] = "replied"
  BY DEF DeliveryInv, WorkInv
<1> DEFINE Once(n) ==
       /\ sent[n] <= 1
       /\ sent[n] > 0 /\ ~Listed(n) => row[n] # "undelivered" /\ tx.row[n] # "undelivered"
       /\ \A i \in DOMAIN resends : n \in resends[i] /\ sent[n] > 0 =>
             turn[Resend(i)] = "replied" /\ Resend(i) \notin job.at
       /\ sent[n] > 0 => CutOff(n) \/ tx.row[n] = "delivered"
<1> SUFFICES ASSUME NEW n \in Notices, ~ListedTwice(n)' PROVE Once(n)'
  BY DEF OnceInv, Resend
<1>q. /\ ~ListedTwice(n) => Once(n)
      /\ sent[n] > 0 => turn[n] = "replied" /\ n \notin job.at
      /\ sent[n] \in Nat /\ n \in Triggers
  BY <1>0 DEF DeliveryInv, OnceInv, OwnTurnInv, DeliveryTypeInv, Triggers
\* A resend that is listed has a number that has been given.
<1>r. \A i \in DOMAIN resends : Resend(i) \in Triggers
  <2>1. DOMAIN resends \subseteq 1 .. MaxResends
    BY <1>0, NextNumber, DeliveryAssumption
  <2> QED
    BY <2>1 DEF Resend, Resends, Triggers
<1>l. ASSUME resends' = resends
      PROVE  ~ListedTwice(n) /\ Listed(n)' = Listed(n)
             /\ (cut \subseteq cut' /\ CutOff(n) => CutOff(n)')
  BY <1>0, <1>l, CutOffStays DEF ListedTwice, Listed
<1> DEFINE Goal == Once(n)'
\* What is neither sent nor spoken of remains as it is.
<1>s. ASSUME resends' = resends, sent'[n] = sent[n], cut \subseteq cut',
             sent[n] > 0 =>
                /\ row'[n] \in {row[n], tx.row[n]} /\ tx'.row[n] \in {row[n], tx.row[n], "pending"}
                /\ \A i \in DOMAIN resends : n \in resends[i] =>
                      turn'[Resend(i)] = "replied" /\ Resend(i) \notin job'.at
                /\ tx.row[n] = "delivered" => tx'.row[n] = "delivered" \/ CutOff(n)'
      PROVE  Goal
  <2>1. Once(n)
    BY <1>l, <1>q, <1>s
  <2>2. sent[n] > 0 => CutOff(n)' \/ tx'.row[n] = "delivered"
    BY <1>l, <1>s, <2>1
  <2>3. sent[n] > 0 /\ ~Listed(n)' => row'[n] # "undelivered" /\ tx'.row[n] # "undelivered"
    BY <1>l, <1>s, <2>1
  <2>4. \A i \in DOMAIN resends' : n \in resends'[i] /\ sent'[n] > 0 =>
             turn'[Resend(i)] = "replied" /\ Resend(i) \notin job'.at
    BY <1>s
  <2>5. sent'[n] <= 1
    BY <1>s, <2>1
  <2> QED
    BY <1>s, <2>2, <2>3, <2>4, <2>5
<1>1. CASE Quiet
  BY <1>0, <1>l, <1>q, <1>s, <1>1 DEF Quiet
<1>2. ASSUME NEW a \in Notified, ReplyCompleted(a) PROVE Goal
  <2>1. PICK k \in 1 .. MaxResends : Enqueued(a, k)
    BY <1>0, <1>2, Enqueuing
  <2>2. /\ ~ListedTwice(n)
        /\ n \in UndeliveredOf(a) => ~Listed(n)
        /\ Listed(n)' <=> Listed(n) \/ n \in UndeliveredOf(a)
        /\ \A i \in DOMAIN resends' : n \in resends'[i] =>
              n \in UndeliveredOf(a) \/ (i \in DOMAIN resends /\ n \in resends[i])
    BY <1>0, <1>2, ListingMore
  <2>3. UNCHANGED <<row, turn, job, tx, sent, cut>>
    BY <2>1 DEF Enqueued
  <2>4. Once(n)
    BY <1>q, <2>2
  <2>5. sent[n] > 0 => n \notin UndeliveredOf(a)
    BY <2>2, <2>4 DEF UndeliveredOf
  <2>6. CutOff(n) => CutOff(n)'
    BY <1>0, <1>2, <2>3, CutOffStays
  <2> QED
    BY <2>2, <2>3, <2>4, <2>5, <2>6
<1>3. ASSUME NEW f \in Facts, FactCreated(f) PROVE Goal
  <2>1. sent[n] > 0 => n.fact # f
    <3>1. sent[n] > 0 => tx.turn[n] = "replied"
      BY <1>0, <1>q
    <3> QED
      BY <1>0, <1>3, <3>1 DEF NotedInv, FactCreated
  <2>2. sent[n] > 0 => row'[n] = row[n] /\ tx'.row[n] = tx.row[n]
    BY <1>3, <2>1 DEF FactCreated
  <2>3. UNCHANGED <<resends, turn, job, sent, cut>>
    BY <1>3 DEF FactCreated
  <2>4. Once(n)
    BY <1>l, <1>q, <2>3
  <2> QED
    BY <1>s, <2>2, <2>3, <2>4
<1>4. ASSUME NEW e \in events, TakeEvent(e) PROVE Goal
  <2>1. PICK deaf \in SUBSET Notices : Taken(e, deaf)
    BY <1>0, <1>4, Taking
  <2>2. UNCHANGED <<resends, row, turn, sent, cut>> /\ job'.at = {}
    BY <2>1 DEF Taken
  <2>3. sent[n] > 0 => n \notin deaf
    BY <1>0, <1>q, <2>1 DEF Taken, WorkInv
  <2>4. sent[n] > 0 => tx'.row[n] = tx.row[n]
    BY <2>1, <2>3 DEF Taken
  <2>5. Once(n)
    BY <1>l, <1>q, <2>2
  <2> QED
    BY <1>s, <2>2, <2>4, <2>5
<1>5. ASSUME NEW t \in job.left, TurnEnds(t) PROVE Goal
  <2>1. /\ tx'.row[n] = tx.row[n] \/ (n = t /\ tx'.row[n] = "failed")
        /\ row'[n] = row[n] \/ row'[n] = tx'.row[n]
        /\ UNCHANGED <<resends, sent, cut>>
    BY <1>5 DEF TurnEnds
  <2>2. \A u \in Triggers : turn[u] = "replied" => u # t /\ turn'[u] = "replied" /\ u \notin job'.at
    <3> SUFFICES ASSUME NEW u \in Triggers, turn[u] = "replied"
                 PROVE  u # t /\ turn'[u] = "replied" /\ u \notin job'.at
      OBVIOUS
    <3>1. tx.turn[u] = "replied" /\ tx.turn[t] = "none"
      BY <1>0, <1>5 DEF TurnEnds
    <3>2. u # t
      BY <3>1
    <3>3. tx'.turn[u] = "replied"
      BY <1>5, <3>1, <3>2 DEF TurnEnds
    <3> QED
      BY <1>5, <3>2, <3>3 DEF TurnEnds
  <2>3. sent[n] > 0 => row'[n] \in {row[n], tx.row[n]} /\ tx'.row[n] = tx.row[n]
    BY <1>q, <2>1, <2>2
  <2>4. Once(n)
    BY <1>l, <1>q, <2>1
  <2>5. sent[n] > 0 => \A i \in DOMAIN resends : n \in resends[i] =>
           turn'[Resend(i)] = "replied" /\ Resend(i) \notin job'.at
    BY <1>r, <2>2, <2>4
  <2> QED
    BY <1>s, <2>1, <2>3, <2>5
<1>6. ASSUME NEW t \in job.at, Deliver(t) PROVE Goal
  <2>1. PICK outcome \in {"delivered", "undelivered", "failed"}, receipts \in SUBSET Receipts :
            Delivered(t, outcome, receipts)
    BY <1>0, <1>6, Delivering
  <2>2. /\ tx'.row[n] = IF n \in receipts THEN "pending"
                        ELSE IF n \in About(t) THEN outcome ELSE tx.row[n]
        /\ sent'[n] = IF outcome = "delivered" /\ n \in About(t) THEN sent[n] + 1 ELSE sent[n]
        /\ UNCHANGED <<row, resends, turn, cut>> /\ job'.at = {}
    BY <2>1 DEF Delivered
  <2>3. ~ListedTwice(n) /\ Listed(n)' = Listed(n)
    BY <1>l, <2>2
  <2>4. Once(n)
    BY <1>q, <2>3
  <2>5. n \in receipts => tx.row[n] = "none" /\ n \in Receipts
    BY <2>1 DEF Delivered
  <2>6. CASE n \notin About(t)
    BY <1>s, <2>2, <2>4, <2>5, <2>6
  <2>7. CASE n \in About(t)
    <3>1. /\ sent[n] = 0
          /\ \/ t = n /\ ~Listed(n) /\ row[n] # "undelivered"
             \/ t \in Resends /\ Listed(n) /\ tx.row[n] # "none" /\ turn[t] = "replied"
                /\ \A i \in DOMAIN resends : n \in resends[i] => Resend(i) = t
      BY <2>3, <2>7, SentOnce
    <3>2. CASE outcome # "delivered"
      BY <1>s, <2>2, <3>1, <3>2
    <3>3. CASE outcome = "delivered"
      <4>1. n \notin receipts
        <5>1. CASE t = n
          <6>1. About(t) = {n}
            BY <1>0, <5>1, RowsSpokenOf
          <6>2. \A r \in receipts : r = Receipt(n) /\ n \in Invitations
            BY <2>1, <6>1 DEF Delivered
          <6>3. n \in Invitations => Receipt(n) # n
            BY DEF Invitations, Receipt, Notices
          <6> QED
            BY <6>2, <6>3
        <5> QED
          BY <2>5, <3>1, <5>1
      <4>2. sent'[n] = 1 /\ tx'.row[n] = "delivered"
        BY <2>2, <2>7, <3>1, <3>3, <4>1
      <4>3. ~Listed(n)' => row'[n] # "undelivered" /\ tx'.row[n] # "undelivered"
        BY <2>2, <2>3, <3>1, <4>2
      <4>4. \A i \in DOMAIN resends' : n \in resends'[i] =>
               turn'[Resend(i)] = "replied" /\ Resend(i) \notin job'.at
        BY <2>2, <3>1 DEF Listed
      <4> QED
        BY <4>2, <4>3, <4>4
    <3> QED
      BY <3>2, <3>3
  <2> QED
    BY <2>6, <2>7
<1>7. CASE Finished
  <2>1. Once(n)
    BY <1>l, <1>q, <1>7 DEF Finished
  <2>2. sent[n] > 0 => \A i \in DOMAIN resends : n \in resends[i] =>
           turn'[Resend(i)] = "replied" /\ Resend(i) \notin job'.at
    BY <1>0, <1>r, <1>7, <2>1 DEF Finished
  <2> QED
    BY <1>s, <1>7, <2>2 DEF Finished
<1>8. CASE Aborted
  <2>1. Once(n)
    BY <1>l, <1>q, <1>8 DEF Aborted
  <2>2. sent[n] > 0 /\ tx.row[n] = "delivered" => tx'.row[n] = "delivered" \/ CutOff(n)'
    <3>1. About(n) = {n} /\ About(n)' = {n}
      BY NoticeKinds DEF About
    <3>2. sent[n] > 0 /\ tx.row[n] # row[n] => n \in cut'
      BY <1>q, <1>8 DEF Aborted
    <3>3. n \in cut' => CutOff(n)'
      BY <3>1 DEF CutOff
    <3> QED
      BY <1>8, <3>2, <3>3 DEF Aborted
  <2> QED
    BY <1>s, <1>8, <2>1, <2>2 DEF Aborted
<1> QED
  BY <1>0, <1>1, <1>2, <1>3, <1>4, <1>5, <1>6, <1>7, <1>8, DeliverySteps

LEMMA DeliveryInvInit == DeliveryInit => DeliveryInv
<1> SUFFICES ASSUME DeliveryInit PROVE DeliveryInv
  OBVIOUS
<1>1. DeliveryTypeInv
  BY DeliveryTypeInit
<1>2. /\ row = [n \in Notices |-> "none"] /\ turn = [t \in Triggers |-> "none"]
      /\ sent = [n \in Notices |-> 0] /\ events = {} /\ created = {} /\ DOMAIN resends = {}
      /\ tx.row = row /\ tx.turn = turn /\ tx.events = {} /\ job.left = {} /\ job.at = {}
  BY DEF DeliveryInit, Committed, NoJob
<1>3. \A n \in Notices : n \in Triggers
  BY DEF Triggers
<1>4. \A n : ~Listed(n)
  BY <1>2 DEF Listed
<1>5. \A n \in Invitations : n \in Notices /\ Receipt(n) \in Notices
  BY NoticeKinds
<1>6. NotedInv /\ WorkInv
  BY <1>2, <1>3 DEF NotedInv, WorkInv
<1>7. ReceiptInv /\ DeliveredInv /\ OwnTurnInv
  BY <1>2, <1>4, <1>5 DEF ReceiptInv, DeliveredInv, OwnTurnInv
<1>8. OnceInv
  BY <1>2, <1>4 DEF OnceInv
<1> QED
  BY <1>1, <1>6, <1>7, <1>8 DEF DeliveryInv

LEMMA DeliveryStep == DeliveryInv /\ [DeliveryNext]_deliveryVars => DeliveryInv'
<1> SUFFICES ASSUME DeliveryInv, [DeliveryNext]_deliveryVars PROVE DeliveryInv'
  OBVIOUS
<1>1. DeliveryTypeInv'
  BY DeliveryTypeStep DEF DeliveryInv
<1> QED
  BY <1>1, NotedStep, WorkStep, ReceiptStep, DeliveredStep, OwnTurnStep, OnceStep DEF DeliveryInv

LEMMA TruthfulRows == DeliveryInv => RowsTellTheTruth
<1> SUFFICES ASSUME DeliveryInv, NEW n \in Notices
             PROVE  /\ row[n] = "delivered" => sent[n] > 0
                    /\ n.kind = "invitation" /\ row[Receipt(n)] # "none" => sent[n] > 0
                    /\ sent[n] > 1 => ListedTwice(n)
                    /\ row[n] \in {"undelivered", "failed"} /\ sent[n] > 0 =>
                          ListedTwice(n) \/ CutOff(n) \/ tx.row[n] = "delivered"
  BY DEF RowsTellTheTruth
<1>1. sent[n] \in Nat
  BY DEF DeliveryInv, DeliveryTypeInv
<1>2. row[n] = "delivered" => sent[n] > 0
  BY DEF DeliveryInv, DeliveredInv
<1>3. n.kind = "invitation" /\ row[Receipt(n)] # "none" => sent[n] > 0
  BY <1>1 DEF DeliveryInv, ReceiptInv, Invitations
<1>4. ~ListedTwice(n) => sent[n] <= 1 /\ (sent[n] > 0 => CutOff(n) \/ tx.row[n] = "delivered")
  BY DEF DeliveryInv, OnceInv
<1> QED
  BY <1>1, <1>2, <1>3, <1>4

\* For any facts, receivers, resends and aborts the rows say what was done: a
\* delivered row was sent, a creator is told of deliveries only, and unless two
\* resends list it nothing is sent twice or sent and recorded as unsent, but for
\* what an abort cut off (record_notification_delivery and the render turns).
THEOREM RowsAreTrue == DeliverySpec => []RowsTellTheTruth
<1>1. DeliveryInv /\ [DeliveryNext]_deliveryVars => DeliveryInv'
  BY DeliveryStep
<1> QED
  BY <1>1, DeliveryInvInit, TruthfulRows, PTL DEF DeliverySpec
=============================================================================
