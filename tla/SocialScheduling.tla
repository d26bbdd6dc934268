-------------------------- MODULE SocialScheduling --------------------------
(***************************************************************************)
(* Friend links, friendships and shared reminders                          *)
(* (coke/domains/social_scheduling).  A request comes from a route of the  *)
(* web API or from the Execute phase of a chat turn                        *)
(* (turn/inbound/handlers/friend.py, social.py); several of them are under *)
(* way at a time, for different accounts.  Each one reads rows without     *)
(* locking them, checks, and then writes whole rows, the notification fact *)
(* with them, in one savepoint: a begin step and a commit step per request.*)
(* Only the unique indexes of coke/schema.py are checked again at the end. *)
(*                                                                         *)
(* The checks that ask others (is a channel usable, does a personal        *)
(* reminder overlap, is the trigger time valid and in the future, does the *)
(* turn's freshness guard pass) can refuse any request: see Refuse.        *)
(***************************************************************************)
EXTENDS Naturals, FiniteSets

CONSTANTS
    Accounts,
    NoAccount,
    Links,           \* ids of friend_link rows
    Friendships,     \* ids of friendship rows
    SharedIds,       \* ids of shared_reminder rows
    Times,           \* local trigger times; two reminders overlap iff equal
    FriendsAtStart,  \* pairs that are friends already
    SharedAtStart,   \* shared reminders one of which may be there already
    FriendOps, ReminderOps,          \* the kinds of requests that are made
    MaxFriendOps, MaxReminderOps, MaxOps

FriendKinds == {"get_link", "reset_link", "disable_link", "join", "remove_friend"}
ReminderKinds == {"create", "cancel", "update", "complete_own", "fire", "edit_own"}

ASSUME SocialAssumption ==
    /\ NoAccount \notin Accounts
    /\ Times \subseteq Nat \ {0}
    /\ FriendsAtStart \subseteq {p \in SUBSET Accounts : Cardinality(p) = 2}
    /\ SharedAtStart \subseteq [creator : Accounts, parts : SUBSET Accounts, time : Times,
                              status : {"active"}]
    /\ \A r \in SharedAtStart : r.creator \in r.parts
    /\ FriendOps \subseteq FriendKinds
    /\ ReminderOps \subseteq ReminderKinds
    /\ {MaxFriendOps, MaxReminderOps, MaxOps} \subseteq Nat

VARIABLES
    link,        \* friend_link rows; token: token_hash, shown: auth_artifact
    friendship,  \* friendship rows
    shared,      \* shared_reminder rows
    projection,  \* reminder_projection row of each participant
    reminder,    \* the reminder row of each participant's projection
    told,        \* notification facts about a shared reminder: [last, keys]
    requests,    \* requests that have read and not written yet
    edited,      \* history: projection rows their owner has edited as reminders
    friendOps, reminderOps   \* requests begun so far

rowVars == <<shared, projection, reminder, told, edited>>
friendVars == <<link, friendship>>
vars == <<friendVars, rowVars, requests, friendOps, reminderOps>>

Pairs == {p \in SUBSET Accounts : Cardinality(p) = 2}

\* unordered_pair.
UnorderedPair(a, b) == {a, b}

LinkRows == [owner : Accounts \cup {NoAccount}, life : {"absent", "active", "disabled"},
             token : Nat, shown : Nat]
NoLink == [owner |-> NoAccount, life |-> "absent", token |-> 0, shown |-> 0]
FriendshipRows == [pair : Pairs \cup {{}}, life : {"absent", "active", "removed"}]
NoFriendship == [pair |-> {}, life |-> "absent"]
SharedRows == [creator : Accounts \cup {NoAccount}, parts : SUBSET Accounts,
               time : Times \cup {0}, status : {"absent", "active", "cancelled"}]
NoShared == [creator |-> NoAccount, parts |-> {}, time |-> 0, status |-> "absent"]
Projections == [life : {"absent", "active", "cancelled"}, done : BOOLEAN]
NoProjection == [life |-> "absent", done |-> FALSE]
ReminderRows == [life : {"absent", "active", "completed", "deleted"}, time : Times \cup {0}]
NoReminder == [life |-> "absent", time |-> 0]

\* What the last fact says, and which unrepeatable idempotency keys are taken.
Tellings == [status : {"none", "created", "rescheduled", "cancelled"},
             time : Times \cup {0}, keys : SUBSET {"created", "cancelled"}]
NoTelling == [status |-> "none", time |-> 0, keys |-> {}]

Requests ==
    [op : {"get_link"}, n : Nat, who : Accounts]
    \cup [op : {"reset_link", "disable_link"}, n : Nat, row : Links, seen : LinkRows]
    \cup [op : {"join"}, n : Nat, pair : Pairs]
    \cup [op : {"remove_friend"}, n : Nat, row : Friendships, seen : FriendshipRows]
    \cup [op : {"create"}, n : Nat, who : Accounts, parts : SUBSET Accounts, time : Times]
    \cup [op : {"cancel", "update"}, n : Nat, id : SharedIds, seen : SharedRows,
          rows : [Accounts -> Projections], time : Times \cup {0}]
    \cup [op : {"complete_own"}, n : Nat, id : SharedIds, who : Accounts, seen : Projections]
    \cup [op : {"fire", "edit_own"}, n : Nat, id : SharedIds, who : Accounts, seen : ReminderRows]

Init ==
    /\ link = [l \in Links |-> NoLink]
    /\ friendship \in [Friendships -> [pair : FriendsAtStart, life : {"active"}] \cup {NoFriendship}]
    /\ \A p \in FriendsAtStart : \E f \in Friendships : friendship[f].pair = p
    /\ \A f, g \in Friendships :
          f # g /\ friendship[f].life = "active" => friendship[f].pair # friendship[g].pair
    /\ shared \in [SharedIds -> SharedAtStart \cup {NoShared}]
    /\ \A i, j \in SharedIds : i # j => NoShared \in {shared[i], shared[j]}
    /\ projection = [i \in SharedIds |-> [a \in Accounts |->
          IF a \in shared[i].parts THEN [life |-> "active", done |-> FALSE] ELSE NoProjection]]
    /\ reminder = [i \in SharedIds |-> [a \in Accounts |->
          IF a \in shared[i].parts THEN [life |-> "active", time |-> shared[i].time]
                                   ELSE NoReminder]]
    /\ told = [i \in SharedIds |->
          IF shared[i] = NoShared THEN NoTelling
          ELSE [status |-> "created", time |-> shared[i].time, keys |-> {"created"}]]
    /\ requests = {}
    /\ edited = {}
    /\ friendOps = 0
    /\ reminderOps = 0

\* get_active_friendship.
AreFriends(a, b) ==
    \E f \in Friendships : friendship[f].life = "active" /\ friendship[f].pair = UnorderedPair(a, b)

-----------------------------------------------------------------------------
(* Requests.                                                               *)

BeginFriendOp(op, request) ==
    /\ op \in FriendOps
    /\ friendOps < MaxFriendOps
    /\ friendOps + reminderOps < MaxOps
    /\ friendOps' = friendOps + 1
    /\ requests' = requests \cup {request}
    /\ UNCHANGED <<friendVars, rowVars, reminderOps>>

BeginReminderOp(op, request) ==
    /\ op \in ReminderOps
    /\ reminderOps < MaxReminderOps
    /\ friendOps + reminderOps < MaxOps
    /\ reminderOps' = reminderOps + 1
    /\ requests' = requests \cup {request}
    /\ UNCHANGED <<friendVars, rowVars, friendOps>>

\* The number of a request, and of the token it generates.
Stamp == friendOps + reminderOps + 1

Commit(q) ==
    /\ requests' = requests \ {q}
    /\ UNCHANGED <<friendOps, reminderOps>>

\* A check fails, the commit guard of a chat turn raises, a unique index is
\* violated (the savepoint is rolled back), or the process dies.
Refuse(q) ==
    /\ q \in requests
    /\ Commit(q)
    /\ UNCHANGED <<friendVars, rowVars>>

-----------------------------------------------------------------------------
(* Friend links and friendships.                                           *)

\* get_or_create_friend_link finds none of the owner's.
BeginGetLink(a) ==
    /\ \A l \in Links : link[l].owner # a
    /\ BeginFriendOp("get_link", [op |-> "get_link", n |-> Stamp, who |-> a])

CommitGetLink(q, l) ==
    /\ q \in requests
    /\ q.op = "get_link"
    /\ link[l] = NoLink
    /\ link' = [link EXCEPT ![l] = [owner |-> q.who, life |-> "active",
                                    token |-> q.n, shown |-> q.n]]
    /\ Commit(q)
    /\ UNCHANGED <<friendship, rowVars>>

\* reset_friend_link, disable_friend_link of a link that exists.  A second row
\* of the same owner makes get_friend_link_by_owner raise.
BeginEditLink(op, l) ==
    /\ op \in {"reset_link", "disable_link"}
    /\ link[l].life # "absent"
    /\ \A m \in Links \ {l} : link[m].owner # link[l].owner
    /\ BeginFriendOp(op, [op |-> op, n |-> Stamp, row |-> l, seen |-> link[l]])

\* Mutant of CommitResetLink: the new token is not stored for display.
CommitResetLinkUnshown(q) ==
    /\ q \in requests
    /\ q.op = "reset_link"
    /\ link' = [link EXCEPT ![q.row] = [q.seen EXCEPT !.life = "active", !.token = q.n,
                                                      !.shown = link[q.row].shown]]
    /\ Commit(q)
    /\ UNCHANGED <<friendship, rowVars>>

\* A new token and a new code, hashes and artifacts; active again.
CommitResetLink(q) ==
    /\ q \in requests
    /\ q.op = "reset_link"
    /\ link' = [link EXCEPT ![q.row] = [q.seen EXCEPT !.life = "active", !.token = q.n,
                                                      !.shown = q.n]]
    /\ Commit(q)
    /\ UNCHANGED <<friendship, rowVars>>

\* The row as it was read, disabled; the artifacts stay as they are.
CommitDisableLink(q) ==
    /\ q \in requests
    /\ q.op = "disable_link"
    /\ link' = [link EXCEPT ![q.row] = [q.seen EXCEPT !.life = "disabled",
                                                      !.shown = link[q.row].shown]]
    /\ Commit(q)
    /\ UNCHANGED <<friendship, rowVars>>

\* _establish_from_link, by token, by code or as a deferred completion.
BeginJoin(a, l) ==
    LET owner == link[l].owner
    IN  /\ link[l].life = "active"
        /\ a # owner
        /\ ~AreFriends(a, owner)
        /\ BeginFriendOp("join", [op |-> "join", n |-> Stamp, pair |-> UnorderedPair(a, owner)])

\* uq_friendship_one_active_pair, checked when the row is inserted.
PairIsFree(pair) ==
    \A f \in Friendships : friendship[f].life = "active" => friendship[f].pair # pair

CommitJoin(q, f) ==
    /\ q \in requests
    /\ q.op = "join"
    /\ friendship[f] = NoFriendship
    /\ PairIsFree(q.pair)
    /\ friendship' = [friendship EXCEPT ![f] = [pair |-> q.pair, life |-> "active"]]
    /\ Commit(q)
    /\ UNCHANGED <<link, rowVars>>

BeginRemoveFriend(f) ==
    /\ friendship[f].life = "active"
    /\ BeginFriendOp("remove_friend", [op |-> "remove_friend", n |-> Stamp, row |-> f,
                                       seen |-> friendship[f]])

\* Shared reminders of the two stay as they are.
CommitRemoveFriend(q) ==
    /\ q \in requests
    /\ q.op = "remove_friend"
    /\ friendship' = [friendship EXCEPT ![q.row] = [q.seen EXCEPT !.life = "removed"]]
    /\ Commit(q)
    /\ UNCHANGED <<link, rowVars>>

-----------------------------------------------------------------------------
(* Shared reminders.                                                       *)

\* shared_busy_intervals.
BusyAt(a, t, others) ==
    \E i \in others : /\ shared[i].status = "active"
                      /\ shared[i].time = t
                      /\ projection[i][a].life = "active"

\* get_duplicate_active_shared_reminder, uq_shared_reminder_active_duplicate.
Twins(id, row, other, otherRow) ==
    /\ id # other
    /\ row.status = "active"
    /\ otherRow.status = "active"
    /\ row.creator = otherRow.creator
    /\ row.parts = otherRow.parts
    /\ row.time = otherRow.time

NoTwinOf(id, row) == \A other \in SharedIds : ~Twins(id, row, other, shared[other])

NewShared(creator, parts, time) ==
    [creator |-> creator, parts |-> parts, time |-> time, status |-> "active"]

\* create_shared_reminder: receivers are active friends and free, and there is
\* no such reminder; the creator's own time is not checked.
BeginCreate(a, receivers, t) ==
    LET parts == receivers \cup {a}
    IN  /\ receivers # {}
        /\ \A b \in receivers : AreFriends(a, b)
        /\ \A i \in SharedIds : ~Twins(0, NewShared(a, parts, t), i, shared[i])
        /\ \A b \in receivers : ~BusyAt(b, t, SharedIds)
        /\ BeginReminderOp("create", [op |-> "create", n |-> Stamp, who |-> a,
                                      parts |-> parts, time |-> t])

\* _projection_reminder_values: the reminder row of an active projection.
Ringing(time) == [life |-> "active", time |-> time]

\* Mutant of AddProjections: the creator's reminder row is not made.
AddProjectionsOfReceivers(i, parts, time) ==
    /\ projection' = [projection EXCEPT ![i] = [a \in Accounts |->
          IF a \in parts THEN [life |-> "active", done |-> FALSE] ELSE @[a]]]
    /\ reminder' = [reminder EXCEPT ![i] = [a \in Accounts |->
          IF a \in parts /\ a # shared'[i].creator THEN Ringing(time) ELSE @[a]]]

\* add_projection for each participant, with a reminder row of its own.
AddProjections(i, parts, time) ==
    /\ projection' = [projection EXCEPT ![i] = [a \in Accounts |->
          IF a \in parts THEN [life |-> "active", done |-> FALSE] ELSE @[a]]]
    /\ reminder' = [reminder EXCEPT ![i] = [a \in Accounts |->
          IF a \in parts THEN Ringing(time) ELSE @[a]]]

\* Mutant of SaveProjection: the reminder row is left to the scheduler.
SaveProjectionOnly(row, ring) == ring

\* save_projection: what it makes of the reminder row.
SaveProjection(row, ring) ==
    IF row.life = "cancelled" THEN [ring EXCEPT !.life = "deleted"] ELSE ring

\* sync_projection_reminders: every active projection is armed again.
SyncProjection(row, ring, time) == IF row.life = "active" THEN Ringing(time) ELSE ring

\* Mutant of Tell: a key that is taken counts as told.
TellUnlessTaken(i, status, time) ==
    LET key == {status} \ {"rescheduled"}
    IN  told' = IF key # {} /\ key \subseteq told[i].keys THEN told
                ELSE [told EXCEPT ![i] = [status |-> status, time |-> time,
                                          keys |-> @.keys \cup key]]

\* _create_shared_reminder_notification and create_fact; the key of a
\* "rescheduled" fact holds updated_at and is never taken.
Tell(i, status, time) ==
    LET key == {status} \ {"rescheduled"}
    IN  /\ key \cap told[i].keys = {}
        /\ told' = [told EXCEPT ![i] = [status |-> status, time |-> time,
                                        keys |-> @.keys \cup key]]

\* The reminder, a projection and a reminder row for each participant, the fact.
CommitCreate(q, i) ==
    /\ q \in requests
    /\ q.op = "create"
    /\ shared[i] = NoShared
    /\ NoTwinOf(i, NewShared(q.who, q.parts, q.time))
    /\ shared' = [shared EXCEPT ![i] = NewShared(q.who, q.parts, q.time)]
    /\ AddProjections(i, q.parts, q.time)
    /\ Tell(i, "created", q.time)
    /\ Commit(q)
    /\ UNCHANGED <<friendVars, edited>>

\* cancel_shared_reminder by any participant; a cancelled one is answered
\* already_cancelled.
BeginCancel(i) ==
    /\ shared[i].status = "active"
    /\ BeginReminderOp("cancel", [op |-> "cancel", n |-> Stamp, id |-> i, seen |-> shared[i],
                                  rows |-> projection[i], time |-> 0])

\* The rows as they were read, cancelled.  The key of the fact is taken when
\* the reminder has been cancelled before: ValueError, everything rolled back.
CommitCancel(q) ==
    LET i == q.id
        Cancelled(row) == IF row.life = "absent" THEN row ELSE [row EXCEPT !.life = "cancelled"]
    IN  /\ q \in requests
        /\ q.op = "cancel"
        /\ shared' = [shared EXCEPT ![i] = [q.seen EXCEPT !.status = "cancelled"]]
        /\ projection' = [projection EXCEPT ![i] = [a \in Accounts |-> Cancelled(q.rows[a])]]
        /\ reminder' = [reminder EXCEPT ![i] = [a \in Accounts |->
                            SaveProjection(Cancelled(q.rows[a]), @[a])]]
        /\ Tell(i, "cancelled", q.seen.time)
        /\ Commit(q)
        /\ UNCHANGED <<friendVars, edited>>

\* update_shared_reminder by any participant, to another time at which no
\* participant is busy.
BeginUpdate(i, t) ==
    LET proposed == [shared[i] EXCEPT !.time = t]
    IN  /\ shared[i].status = "active"
        /\ t # shared[i].time
        /\ NoTwinOf(i, proposed)
        /\ \A a \in shared[i].parts : ~BusyAt(a, t, SharedIds \ {i})
        /\ BeginReminderOp("update", [op |-> "update", n |-> Stamp, id |-> i, seen |-> shared[i],
                                      rows |-> projection[i], time |-> t])

\* The reminder and the projections as they were read, with the new time.
CommitUpdate(q) ==
    LET i == q.id
        moved == [q.seen EXCEPT !.time = q.time]
    IN  /\ q \in requests
        /\ q.op = "update"
        /\ NoTwinOf(i, moved)
        /\ shared' = [shared EXCEPT ![i] = moved]
        /\ projection' = [projection EXCEPT ![i] = q.rows]
        /\ reminder' = [reminder EXCEPT ![i] = [a \in Accounts |->
             SyncProjection(q.rows[a], SaveProjection(q.rows[a], @[a]), q.time)]]
        /\ Tell(i, "rescheduled", q.time)
        /\ Commit(q)
        /\ UNCHANGED <<friendVars, edited>>

\* complete_own_projection.
BeginCompleteOwn(i, a) ==
    /\ projection[i][a].life # "absent"
    /\ BeginReminderOp("complete_own", [op |-> "complete_own", n |-> Stamp, id |-> i,
                                        who |-> a, seen |-> projection[i][a]])

\* The projection as it was read, completed; its reminder row stays armed.
CommitCompleteOwn(q) ==
    /\ q \in requests
    /\ q.op = "complete_own"
    /\ projection' = [projection EXCEPT ![q.id][q.who] = [q.seen EXCEPT !.done = TRUE]]
    /\ reminder' = [reminder EXCEPT ![q.id][q.who] = SaveProjection(q.seen, @)]
    /\ Commit(q)
    /\ UNCHANGED <<friendVars, shared, told, edited>>

-----------------------------------------------------------------------------
(* The reminder row of a projection in the reminder domain (see            *)
(* ReminderFires): fired at its time, or edited by its owner on the        *)
(* reminder page.  Both write the whole row as they have read it.          *)

BeginRowOp(op, i, a) ==
    /\ op \in {"fire", "edit_own"}
    /\ reminder[i][a].life = "active"
    /\ op = "fire" => reminder[i][a].time # 0
    /\ BeginReminderOp(op, [op |-> op, n |-> Stamp, id |-> i, who |-> a,
                            seen |-> reminder[i][a]])

CommitFire(q) ==
    /\ q \in requests
    /\ q.op = "fire"
    /\ reminder' = [reminder EXCEPT ![q.id][q.who] = [q.seen EXCEPT !.life = "completed"]]
    /\ Commit(q)
    /\ UNCHANGED <<friendVars, shared, projection, told, edited>>

\* complete_reminder, delete_reminder, clear_trigger_time, and
\* schedule_unscheduled of a row without a time.
CommitEditOwn(q) ==
    /\ q \in requests
    /\ q.op = "edit_own"
    /\ \/ \E life \in {"completed", "deleted"} :
             reminder' = [reminder EXCEPT ![q.id][q.who] = [q.seen EXCEPT !.life = life]]
       \/ reminder' = [reminder EXCEPT ![q.id][q.who] = [q.seen EXCEPT !.time = 0]]
       \/ /\ q.seen.time = 0
          /\ \E t \in Times :
                reminder' = [reminder EXCEPT ![q.id][q.who] = [q.seen EXCEPT !.time = t]]
    /\ edited' = edited \cup {<<q.id, q.who>>}
    /\ Commit(q)
    /\ UNCHANGED <<friendVars, shared, projection, told>>

-----------------------------------------------------------------------------
Begin ==
    \/ \E a \in Accounts : BeginGetLink(a)
    \/ \E op \in FriendKinds, l \in Links : BeginEditLink(op, l)
    \/ \E a \in Accounts, l \in Links : BeginJoin(a, l)
    \/ \E f \in Friendships : BeginRemoveFriend(f)
    \/ \E a \in Accounts, t \in Times : \E receivers \in SUBSET (Accounts \ {a}) :
          BeginCreate(a, receivers, t)
    \/ \E i \in SharedIds : BeginCancel(i)
    \/ \E i \in SharedIds, t \in Times : BeginUpdate(i, t)
    \/ \E i \in SharedIds, a \in Accounts : BeginCompleteOwn(i, a)
    \/ \E op \in ReminderKinds, i \in SharedIds, a \in Accounts : BeginRowOp(op, i, a)

End(q) ==
    \/ Refuse(q)
    \/ \E l \in Links : CommitGetLink(q, l)
    \/ CommitResetLink(q) \/ CommitDisableLink(q)
    \/ \E f \in Friendships : CommitJoin(q, f)
    \/ CommitRemoveFriend(q)
    \/ \E i \in SharedIds : CommitCreate(q, i)
    \/ CommitCancel(q) \/ CommitUpdate(q) \/ CommitCompleteOwn(q)
    \/ CommitFire(q) \/ CommitEditOwn(q)

Next == Begin \/ \E q \in requests : End(q)

Spec == Init /\ [][Next]_vars

-----------------------------------------------------------------------------
(* Properties.                                                             *)

TypeOK ==
    /\ link \in [Links -> LinkRows]
    /\ friendship \in [Friendships -> FriendshipRows]
    /\ shared \in [SharedIds -> SharedRows]
    /\ projection \in [SharedIds -> [Accounts -> Projections]]
    /\ reminder \in [SharedIds -> [Accounts -> ReminderRows]]
    /\ told \in [SharedIds -> Tellings]
    /\ requests \subseteq Requests
    /\ \A i \in SharedIds, a \in Accounts :
          /\ projection[i][a].life = "absent" <=> a \notin shared[i].parts
          /\ reminder[i][a].life = "absent" <=> a \notin shared[i].parts
    /\ edited \subseteq SharedIds \X Accounts
    /\ friendOps \in Nat
    /\ reminderOps \in Nat

\* The token an owner is shown for a link that is open is the one it is found
\* by, whatever resets and disables of the same row cross.
ShownTokenWorks ==
    \A l \in Links : link[l].life = "active" => link[l].shown = link[l].token

\* A participant's reminder is armed only while the shared reminder is active,
\* and then for its time, unless that participant has edited it as a reminder:
\* whatever cancels, moves, completions and fires cross.  A cancelled shared
\* reminder does not ring.
RingsAsAgreed ==
    \A i \in SharedIds, a \in Accounts :
        reminder[i][a].life = "active" /\ <<i, a>> \notin edited =>
            /\ shared[i].status = "active"
            /\ reminder[i][a].time = shared[i].time

\* The last notification about a shared reminder says what has become of it.
LastFactStands ==
    \A i \in SharedIds :
        CASE shared[i].status = "absent"    -> told[i].status = "none"
          [] shared[i].status = "cancelled" -> told[i].status = "cancelled"
          [] shared[i].status = "active"    -> /\ told[i].status \in {"created", "rescheduled"}
                                               /\ told[i].time = shared[i].time

\* What the repository says of the program and the code does not keep.

\* docs/product-requirements/current.md:574: "Any participant can cancel an
\* active shared reminder": the key of the cancellation fact must be free.
ActiveCanBeCancelled ==
    \A i \in SharedIds : shared[i].status = "active" => "cancelled" \notin told[i].keys

\* docs/product-requirements/current.md:448: "Users can reset their friend
\* link", which a second row of the same owner makes impossible.
OneLinkPerOwner ==
    \A l, m \in Links : link[l].owner = link[m].owner /\ link[l].life # "absent" => l = m

=============================================================================
