------------------------ MODULE WeChatConnector_proofs ------------------------
(***************************************************************************)
(* WeChatConnector's safety properties for any sessions, any number of     *)
(* messages, any cap on rejections, and any number of crashes and of polls *)
(* in any number of threads.                                               *)
(*                                                                         *)
(* A poller writes back a cursor and counts that it took from a snapshot,  *)
(* and the snapshot may be of any age.  The argument is that age does not  *)
(* matter: what is handled stays handled and rejections are not undone, so *)
(* whatever was true of a cursor or a count when it was read is true when  *)
(* it is written (Grows, EntryKeeps, PollKeeps).                           *)
(***************************************************************************)
EXTENDS WeChatConnector, TLAPS

Kinds == {"plain", "empty"}
Counts == [Numbers -> 0..MaxAttempts - 1]
Polls == [snapshot : [Sessions -> SessionStates], left : SUBSET Sessions,
          at : {{s} : s \in Sessions} \cup {{}}, next : 0..MaxMessages + 1, upto : 0..MaxMessages,
          attempts : Counts]

\* The types that the argument needs; inbox[s] is bounded by what NothingSkipped says.
Types ==
    /\ session \in [Sessions -> SessionStates]
    /\ queue \in [Sessions -> Seq(Kinds)]
    /\ \A s \in Sessions : Len(queue[s]) <= MaxMessages
    /\ inbox \in [Sessions -> Seq(Numbers)]
    /\ \A s \in Sessions : \A m \in DOMAIN inbox[s] : inbox[s][m] <= Len(queue[s])
    /\ poller \in [Pollers -> Polls]
    /\ dropped \in [Sessions -> SUBSET Numbers]
    /\ rejected \in [Sessions -> [Numbers -> 0..MaxAttempts + 1]]

\* An entry of the state file, of now or of a snapshot.
EntryOK(entry, s) ==
    /\ entry.cursor <= Len(queue[s])
    /\ \A i \in 1..entry.cursor : Handled(s, i)
    /\ \A i \in Numbers : entry.attempts[i] <= rejected[s][i]

\* A batch is handled up to the message that is next.
BatchOK(poll, s) ==
    /\ poll.next \in 1..poll.upto + 1
    /\ poll.upto <= Len(queue[s])
    /\ \A i \in 1..poll.next - 1 : Handled(s, i)
    /\ \A i \in Numbers : poll.attempts[i] <= rejected[s][i]

PollOK(poll) ==
    \A s \in Sessions : /\ EntryOK(poll.snapshot[s], s)
                        /\ poll.at = {s} => BatchOK(poll, s)

\* NothingSkipped without its cursors, which EntryOK bounds.
InOrder ==
    \A s \in Sessions :
       /\ \A m, n \in DOMAIN inbox[s] :
             m < n => \/ inbox[s][m] < inbox[s][n]
                      \/ inbox[s][m] > inbox[s][n] /\ inbox[s][n] \in dropped[s]
       /\ \A i \in Range(inbox[s]) : \A j \in 1..i : Handled(s, j)

IInv ==
    /\ Types
    /\ \A s \in Sessions : EntryOK(session[s], s)
    /\ \A p \in Pollers : PollOK(poller[p])
    /\ InOrder
    /\ DroppedAfterTheCap

-----------------------------------------------------------------------------
(* Init.                                                                   *)

LEMMA NoSessionTypes ==
  NoAttempts \in Counts /\ NoSession \in SessionStates /\ Idle \in Polls
<1>1. NoAttempts \in Counts
  BY ConnectorAssumption DEF NoAttempts, Counts
<1>2. NoSession \in SessionStates
  BY <1>1, ConnectorAssumption DEF NoSession, SessionStates, Counts
<1>3. [s \in Sessions |-> NoSession] \in [Sessions -> SessionStates]
  BY <1>2
<1> QED
  BY <1>1, <1>2, <1>3, ConnectorAssumption DEF Idle, Polls

LEMMA InitIInv == Init => IInv
<1> SUFFICES ASSUME Init PROVE IInv
  OBVIOUS
<1>1. /\ session = [s \in Sessions |-> NoSession] /\ queue = [s \in Sessions |-> << >>]
      /\ inbox = [s \in Sessions |-> << >>] /\ poller = [p \in Pollers |-> Idle]
      /\ dropped = [s \in Sessions |-> {}] /\ rejected = [s \in Sessions |-> NoAttempts]
  BY DEF Init
<1>2. Types
  <2>1. rejected \in [Sessions -> [Numbers -> 0..MaxAttempts + 1]]
    BY <1>1, ConnectorAssumption DEF NoAttempts
  <2> QED
    BY <1>1, <2>1, NoSessionTypes, ConnectorAssumption DEF Types
<1>3. \A s \in Sessions : EntryOK(NoSession, s)
  <2>1. NoSession.cursor = 0 /\ \A i \in Numbers : NoSession.attempts[i] = 0
    BY DEF NoSession, NoAttempts
  <2>2. \A s \in Sessions : Len(queue[s]) = 0 /\ \A i \in Numbers : rejected[s][i] = 0
    BY <1>1 DEF NoAttempts
  <2> QED
    BY <2>1, <2>2 DEF EntryOK
<1>4. PollOK(Idle)
  BY <1>3 DEF PollOK, Idle
<1>5. InOrder
  BY <1>1 DEF InOrder, Range
<1>6. DroppedAfterTheCap
  BY <1>1 DEF DroppedAfterTheCap
<1> QED
  BY <1>1, <1>2, <1>3, <1>4, <1>5, <1>6 DEF IInv

-----------------------------------------------------------------------------
(* Nothing is taken back.                                                  *)

Grows ==
    \A s \in Sessions :
       /\ Len(queue[s]) <= Len(queue'[s])
       /\ \A i \in 1..Len(queue[s]) : queue'[s][i] = queue[s][i]
       /\ \A i \in Range(inbox[s]) : i \in Range(inbox'[s])
       /\ dropped[s] \subseteq dropped'[s]
       /\ \A i \in Numbers : rejected[s][i] <= rejected'[s][i]

LEMMA HandledKeeps ==
  ASSUME Grows, NEW s \in Sessions, NEW i \in 1..Len(queue[s]), Handled(s, i)
  PROVE  Handled(s, i)'
BY DEF Grows, Handled

LEMMA EntryKeeps ==
  ASSUME Types, Types', Grows, NEW s \in Sessions, NEW entry \in SessionStates, EntryOK(entry, s)
  PROVE  EntryOK(entry, s)'
<1>1. entry.cursor \in Nat /\ Len(queue[s]) \in Nat /\ Len(queue'[s]) \in Nat
      /\ entry.cursor <= Len(queue[s]) /\ Len(queue[s]) <= Len(queue'[s])
  BY ConnectorAssumption DEF Types, SessionStates, EntryOK, Grows
<1>2. \A i \in 1..entry.cursor : Handled(s, i)'
  BY <1>1, HandledKeeps DEF EntryOK
<1>3. ASSUME NEW i \in Numbers PROVE entry.attempts[i] <= rejected'[s][i]
  <2>1. entry.attempts[i] \in Nat /\ rejected[s][i] \in Nat /\ rejected'[s][i] \in Nat
    BY ConnectorAssumption DEF Types, SessionStates
  <2> QED
    BY <2>1 DEF EntryOK, Grows
<1> QED
  BY <1>1, <1>2, <1>3 DEF EntryOK

LEMMA BatchKeeps ==
  ASSUME Types, Types', Grows, NEW s \in Sessions, NEW poll \in Polls, BatchOK(poll, s)
  PROVE  BatchOK(poll, s)'
<1>1. /\ poll.upto \in Nat /\ poll.next \in Nat /\ Len(queue[s]) \in Nat /\ Len(queue'[s]) \in Nat
      /\ poll.next <= poll.upto + 1
      /\ poll.upto <= Len(queue[s]) /\ Len(queue[s]) <= Len(queue'[s])
  BY ConnectorAssumption DEF Types, Polls, BatchOK, Grows
<1>2. \A i \in 1..poll.next - 1 : Handled(s, i)'
  BY <1>1, HandledKeeps DEF BatchOK
<1>3. ASSUME NEW i \in Numbers PROVE poll.attempts[i] <= rejected'[s][i]
  <2>1. poll.attempts[i] \in Nat /\ rejected[s][i] \in Nat /\ rejected'[s][i] \in Nat
    BY ConnectorAssumption DEF Types, Polls, Counts
  <2> QED
    BY <2>1 DEF BatchOK, Grows
<1> QED
  BY <1>1, <1>2, <1>3 DEF BatchOK

LEMMA PollKeeps ==
  ASSUME Types, Types', Grows, NEW poll \in Polls, PollOK(poll)
  PROVE  PollOK(poll)'
<1> SUFFICES ASSUME NEW s \in Sessions
             PROVE  EntryOK(poll.snapshot[s], s)' /\ (poll.at = {s} => BatchOK(poll, s)')
  BY DEF PollOK
<1>1. poll.snapshot[s] \in SessionStates /\ EntryOK(poll.snapshot[s], s)
  BY DEF Polls, PollOK
<1>2. poll.at = {s} => BatchOK(poll, s)
  BY DEF PollOK
<1> QED
  BY <1>1, <1>2, EntryKeeps, BatchKeeps

\* What an entry or a poller is set to was true of them before the step, unless
\* they owe it to the step.
LEMMA Keeps ==
  ASSUME IInv, Grows, Types', InOrder', DroppedAfterTheCap',
         \A s \in Sessions : EntryOK(session'[s], s) \/ EntryOK(session[s], s)',
         \A p \in Pollers : PollOK(poller'[p]) \/ PollOK(poller[p])'
  PROVE  IInv'
<1>1. Types
  BY DEF IInv
<1>2. ASSUME NEW s \in Sessions, EntryOK(session'[s], s) PROVE EntryOK(session[s], s)'
  <2>1. PICK entry \in SessionStates : entry = session'[s]
    BY DEF Types
  <2>2. EntryOK(entry, s)
    BY <1>2, <2>1
  <2>3. EntryOK(entry, s)'
    BY <1>1, <2>2, EntryKeeps
  <2> QED
    BY <2>1, <2>3 DEF EntryOK
<1>3. ASSUME NEW p \in Pollers, PollOK(poller'[p]) PROVE PollOK(poller[p])'
  <2>1. PICK poll \in Polls : poll = poller'[p]
    BY DEF Types
  <2>2. PollOK(poll)
    BY <1>3, <2>1
  <2>3. PollOK(poll)'
    BY <1>1, <2>2, PollKeeps
  <2> QED
    BY <2>1, <2>3 DEF PollOK, BatchOK
<1> QED
  BY <1>2, <1>3 DEF IInv

-----------------------------------------------------------------------------
(* What coke has recorded.                                                 *)

LEMMA InboxTypes ==
  ASSUME Types, NEW s \in Sessions, NEW i \in Range(inbox[s])
  PROVE  i \in 1..Len(queue[s]) /\ i \in Numbers
<1>1. PICK m \in DOMAIN inbox[s] : i = inbox[s][m]
  BY DEF Range
<1>2. inbox[s][m] \in Numbers /\ inbox[s][m] <= Len(queue[s]) /\ Len(queue[s]) \in Nat
  BY DEF Types
<1> QED
  BY <1>1, <1>2, ConnectorAssumption DEF Numbers

\* What stands before a recorded message stays handled.
LEMMA BeforeKeeps ==
  ASSUME IInv, Grows, NEW s \in Sessions, NEW i \in Range(inbox[s]), NEW j \in 1..i
  PROVE  Handled(s, j)'
<1>1. Types /\ Handled(s, j)
  BY DEF IInv, InOrder
<1>2. i \in 1..Len(queue[s]) /\ i \in Nat /\ Len(queue[s]) \in Nat
  <2>1. i \in 1..Len(queue[s])
    BY <1>1, InboxTypes
  <2>2. Len(queue[s]) \in Nat
    BY <1>1 DEF Types
  <2> QED
    BY <2>1, <2>2
<1>3. j \in 1..Len(queue[s])
  BY <1>2
<1> QED
  BY <1>1, <1>3, HandledKeeps

LEMMA RecordedIsHandled ==
  ASSUME IInv, NEW s \in Sessions, NEW i \in Numbers, RecordInbound(s, i)
  PROVE  Handled(s, i)'
<1>1. i \in Range(inbox'[s])
  <2>1. CASE i \in Range(inbox[s])
    BY <2>1 DEF RecordInbound, IInv, Types
  <2>2. CASE i \notin Range(inbox[s])
    <3>1. inbox'[s] = Append(inbox[s], i) /\ inbox[s] \in Seq(Numbers)
      BY <2>2 DEF RecordInbound, IInv, Types
    <3>2. Len(inbox[s]) + 1 \in DOMAIN inbox'[s] /\ inbox'[s][Len(inbox[s]) + 1] = i
      BY <3>1
    <3> QED
      BY <3>2 DEF Range
  <2> QED
    BY <2>1, <2>2
<1> QED
  BY <1>1 DEF Handled

LEMMA InOrderKeeps ==
  ASSUME IInv, Grows, UNCHANGED inbox
  PROVE  InOrder'
<1> SUFFICES ASSUME NEW s \in Sessions
             PROVE  /\ \A m, n \in DOMAIN inbox'[s] :
                          m < n => \/ inbox'[s][m] < inbox'[s][n]
                                   \/ inbox'[s][m] > inbox'[s][n] /\ inbox'[s][n] \in dropped'[s]
                    /\ \A i \in Range(inbox'[s]) : \A j \in 1..i : Handled(s, j)'
  BY DEF InOrder
<1>1. \A i \in Range(inbox[s]) : \A j \in 1..i : Handled(s, j)'
  BY BeforeKeeps
<1>2. dropped[s] \subseteq dropped'[s]
  BY DEF Grows
<1> QED
  BY <1>1, <1>2 DEF IInv, InOrder

\* A poller posts message i, before which everything is handled: what comes late
\* was given up.
LEMMA RecordKeeps ==
  ASSUME IInv, NEW s \in Sessions, NEW i \in 1..Len(queue[s]), queue[s][i] = "plain",
         \A j \in 1..i - 1 : Handled(s, j), RecordInbound(s, i), UNCHANGED queue,
         \A r \in Sessions : /\ dropped[r] \subseteq dropped'[r]
                             /\ \A j \in Numbers : rejected[r][j] <= rejected'[r][j]
  PROVE  /\ Grows /\ InOrder'
         /\ inbox' \in [Sessions -> Seq(Numbers)]
         /\ \A r \in Sessions : \A m \in DOMAIN inbox'[r] : inbox'[r][m] <= Len(queue'[r])
<1> DEFINE old == inbox[s]
           new == inbox'[s]
<1>1. /\ Types /\ old \in Seq(Numbers) /\ Len(old) \in Nat /\ DOMAIN old = 1..Len(old)
      /\ i \in Numbers /\ i \in Nat /\ Len(queue[s]) \in Nat
  <2>1. Types /\ old \in Seq(Numbers)
    BY DEF IInv, Types
  <2>2. Len(queue[s]) \in Nat /\ Len(queue[s]) <= MaxMessages /\ MaxMessages \in Nat
    BY <2>1, ConnectorAssumption DEF Types
  <2>3. i \in Numbers /\ i \in Nat
    BY <2>2 DEF Numbers
  <2> HIDE DEF old
  <2> QED
    BY <2>1, <2>2, <2>3
<1>2. /\ \A r \in Sessions : r # s => inbox'[r] = inbox[r]
      /\ new = IF i \in Range(old) THEN old ELSE Append(old, i)
      /\ inbox' = [inbox EXCEPT ![s] = new]
  BY DEF RecordInbound, IInv, Types
<1>3. CASE i \in Range(old)
  <2>1. UNCHANGED inbox
    BY <1>2, <1>3 DEF IInv, Types
  <2>2. Grows
    BY <2>1, <1>1 DEF Grows, Types
  <2> QED
    BY <1>1, <2>1, <2>2, InOrderKeeps DEF Types
<1>4. CASE i \notin Range(old)
  <2>1. /\ new \in Seq(Numbers) /\ Len(new) = Len(old) + 1 /\ DOMAIN new = 1..Len(old) + 1
        /\ new[Len(old) + 1] = i /\ \A m \in 1..Len(old) : new[m] = old[m]
    BY <1>1, <1>2, <1>4
  <2> HIDE DEF new
  <2>2. /\ inbox' \in [Sessions -> Seq(Numbers)]
        /\ \A r \in Sessions : \A m \in DOMAIN inbox'[r] : inbox'[r][m] <= Len(queue'[r])
    <3>1. inbox' \in [Sessions -> Seq(Numbers)] /\ inbox'[s] = new
      BY <1>1, <1>2, <2>1 DEF Types
    <3>2. ASSUME NEW m \in DOMAIN new PROVE new[m] <= Len(queue[s])
      <4>1. CASE m \in 1..Len(old)
        BY <1>1, <2>1, <4>1 DEF Types
      <4>2. CASE m = Len(old) + 1
        BY <2>1, <4>2
      <4> QED
        BY <1>1, <2>1, <4>1, <4>2
    <3> QED
      BY <1>1, <1>2, <3>1, <3>2 DEF Types
  <2>3. \A x : x \in Range(new) <=> x \in Range(old) \/ x = i
    <3>1. Range(new) = {new[m] : m \in 1..Len(old) + 1}
      BY <2>1 DEF Range
    <3>2. Range(old) = {old[m] : m \in 1..Len(old)}
      BY <1>1 DEF Range
    <3>3. \A m : m \in 1..Len(old) + 1 <=> m \in 1..Len(old) \/ m = Len(old) + 1
      BY <1>1
    <3> QED
      BY <2>1, <3>1, <3>2, <3>3
  <2>4. Grows
    <3>1. \A r \in Sessions : \A x \in Range(inbox[r]) : x \in Range(inbox'[r])
      BY <1>2, <2>3 DEF new
    <3>2. \A r \in Sessions : queue'[r] = queue[r] /\ Len(queue[r]) \in Nat
      BY <1>1 DEF Types
    <3> QED
      BY <3>1, <3>2 DEF Grows
  <2>5. ASSUME NEW x \in Range(new), NEW j \in 1..x PROVE Handled(s, j)'
    <3>1. CASE x \in Range(old)
      BY <2>4, <3>1, BeforeKeeps
    <3>2. CASE x = i /\ j = i
      BY <2>3, <3>2 DEF Handled, new
    <3>3. CASE x = i /\ j # i
      <4>1. j \in 1..i - 1 /\ j \in 1..Len(queue[s])
        BY <1>1, <3>3
      <4> QED
        BY <2>4, <4>1, HandledKeeps
    <3> QED
      BY <2>3, <3>1, <3>2, <3>3
  <2>6. ASSUME NEW m \in DOMAIN new, NEW n \in DOMAIN new, m < n
        PROVE  new[m] < new[n] \/ (new[m] > new[n] /\ new[n] \in dropped'[s])
    <3>1. m \in 1..Len(old) /\ new[m] = old[m] /\ old[m] \in Numbers /\ old[m] \in Range(old)
      BY <1>1, <2>1, <2>6 DEF Range
    <3>2. CASE n \in 1..Len(old)
      BY <1>1, <2>1, <2>6, <3>1, <3>2 DEF IInv, InOrder
    <3>3. CASE n = Len(old) + 1
      <4>1. new[n] = i /\ old[m] # i /\ old[m] \in Nat
        BY <1>4, <2>1, <3>1, <3>3 DEF Numbers
      <4>2. old[m] > i => i \in dropped[s]
        <5>1. ASSUME old[m] > i PROVE Handled(s, i)
          <6>1. i \in 1..old[m]
            BY <1>1, <4>1, <5>1
          <6> QED
            BY <3>1, <6>1 DEF IInv, InOrder
        <5> QED
          BY <1>4, <5>1 DEF Handled
      <4> QED
        BY <1>1, <3>1, <4>1, <4>2
    <3> QED
      BY <2>1, <3>2, <3>3
  <2>7. ASSUME NEW r \in Sessions, r # s
        PROVE  /\ \A m, n \in DOMAIN inbox'[r] :
                     m < n => \/ inbox'[r][m] < inbox'[r][n]
                              \/ inbox'[r][m] > inbox'[r][n] /\ inbox'[r][n] \in dropped'[r]
               /\ \A x \in Range(inbox'[r]) : \A j \in 1..x : Handled(r, j)'
    <3>1. inbox'[r] = inbox[r] /\ dropped[r] \subseteq dropped'[r]
      BY <1>2, <2>7
    <3>2. \A x \in Range(inbox[r]) : \A j \in 1..x : Handled(r, j)'
      BY <2>4, BeforeKeeps
    <3> QED
      BY <3>1, <3>2 DEF IInv, InOrder
  <2>8. InOrder'
    BY <2>5, <2>6, <2>7 DEF InOrder, new
  <2> QED
    BY <2>2, <2>4, <2>8
<1> QED
  BY <1>3, <1>4

-----------------------------------------------------------------------------
(* Steps that deliver nothing.                                             *)

LEMMA QuietKeeps ==
  ASSUME IInv, UNCHANGED <<queue, inbox, dropped, rejected>>,
         session' \in [Sessions -> SessionStates], poller' \in [Pollers -> Polls],
         \A s \in Sessions : EntryOK(session'[s], s),
         \A p \in Pollers : PollOK(poller'[p])
  PROVE  IInv'
<1>1. Types'
  BY DEF IInv, Types
<1>2. Grows
  BY DEF Grows, IInv, Types
<1>3. InOrder'
  BY <1>2, InOrderKeeps
<1>4. DroppedAfterTheCap'
  BY DEF IInv, DroppedAfterTheCap
<1> QED
  BY <1>1, <1>2, <1>3, <1>4, Keeps

\* A change of one entry that keeps its cursor or sets it to zero, and keeps
\* its counts or clears them.
LEMMA EntryStep ==
  ASSUME IInv, UNCHANGED <<queue, inbox, dropped, rejected>>,
         NEW s \in Sessions, NEW entry \in SessionStates, UpdateSession(s, entry),
         entry.cursor \in {0, session[s].cursor}, entry.attempts \in {NoAttempts, session[s].attempts},
         poller' \in [Pollers -> Polls], \A p \in Pollers : PollOK(poller'[p])
  PROVE  IInv'
<1>1. session' \in [Sessions -> SessionStates]
  BY DEF UpdateSession, IInv, Types
<1>2. EntryOK(entry, s)
  <2>1. EntryOK(session[s], s) /\ Len(queue[s]) \in Nat
        /\ \A i \in Numbers : rejected[s][i] \in Nat /\ NoAttempts[i] = 0
    BY ConnectorAssumption DEF IInv, Types, NoAttempts
  <2> QED
    BY <2>1 DEF EntryOK
<1>3. \A r \in Sessions : EntryOK(session'[r], r)
  BY <1>2 DEF UpdateSession, IInv, Types
<1> QED
  BY <1>1, <1>3, QuietKeeps

LEMMA ExpiredTypes ==
  ASSUME NEW entry \in SessionStates
  PROVE  /\ Expired(entry) \in SessionStates
         /\ Expired(entry).cursor = 0 /\ Expired(entry).attempts = entry.attempts
<1>1. 0 \in 0..MaxMessages
  BY ConnectorAssumption
<1> QED
  BY <1>1 DEF SessionStates, Expired

LEMMA PollersStay ==
  ASSUME IInv, UNCHANGED poller
  PROVE  poller' \in [Pollers -> Polls] /\ \A p \in Pollers : PollOK(poller'[p])
BY DEF IInv, Types

LEMMA LoginsKeep ==
  ASSUME IInv, NEW s \in Sessions,
         LoginStart(s) \/ LoginPoll(s) \/ SendFindsExpired(s) \/ BackoffEnds(s)
  PROVE  IInv'
<1> DEFINE old == session[s]
<1>1. /\ old \in SessionStates /\ UNCHANGED <<queue, inbox, dropped, rejected>>
      /\ poller' \in [Pollers -> Polls] /\ \A p \in Pollers : PollOK(poller'[p])
  BY PollersStay DEF IInv, Types, LoginStart, LoginPoll, SendFindsExpired, BackoffEnds, loginUnchanged
<1>2. CASE LoginStart(s)
  <2> DEFINE entry == [NoSession EXCEPT !.status = "waiting_for_scan"]
  <2>1. entry \in SessionStates /\ entry.cursor = 0 /\ entry.attempts = NoAttempts
    BY NoSessionTypes DEF SessionStates, NoSession
  <2>2. UpdateSession(s, entry)
    BY <1>2 DEF LoginStart
  <2> HIDE DEF entry
  <2> QED
    BY <1>1, <2>1, <2>2, EntryStep
<1>3. CASE LoginPoll(s)
  <2>1. PICK status \in {"waiting_for_scan", "connected", "expired", "login_error"} :
           UpdateSession(s, [old EXCEPT !.status = status])
    BY <1>3 DEF LoginPoll
  <2> DEFINE entry == [old EXCEPT !.status = status]
  <2>2. entry \in SessionStates /\ entry.cursor = old.cursor /\ entry.attempts = old.attempts
    BY <1>1 DEF SessionStates
  <2> HIDE DEF entry
  <2> QED
    BY <1>1, <2>1, <2>2, EntryStep DEF entry
<1>4. CASE SendFindsExpired(s)
  <2> DEFINE entry == Expired(old)
  <2>1. entry \in SessionStates /\ entry.cursor = 0 /\ entry.attempts = old.attempts
    BY <1>1, ExpiredTypes
  <2>2. UpdateSession(s, entry)
    BY <1>4 DEF SendFindsExpired
  <2> HIDE DEF entry
  <2> QED
    BY <1>1, <2>1, <2>2, EntryStep
<1>5. CASE BackoffEnds(s)
  <2> DEFINE entry == [old EXCEPT !.backoff = "over"]
  <2>1. entry \in SessionStates /\ entry.cursor = old.cursor /\ entry.attempts = old.attempts
    BY <1>1 DEF SessionStates
  <2>2. UpdateSession(s, entry)
    BY <1>5 DEF BackoffEnds
  <2> HIDE DEF entry
  <2> QED
    BY <1>1, <2>1, <2>2, EntryStep
<1> QED
  BY <1>2, <1>3, <1>4, <1>5

LEMMA StatusKeeps ==
  ASSUME IInv, UNCHANGED <<session, queue, inbox, dropped, rejected>>,
         poller' \in [Pollers -> Polls], \A p \in Pollers : PollOK(poller'[p])
  PROVE  IInv'
<1>1. session' \in [Sessions -> SessionStates] /\ \A s \in Sessions : EntryOK(session'[s], s)
  BY DEF IInv, Types
<1> QED
  BY <1>1, QuietKeeps

LEMMA ArriveKeeps ==
  ASSUME IInv, NEW s \in Sessions, NEW kind \in Kinds, Arrive(s, kind)
  PROVE  IInv'
<1>1. /\ UNCHANGED <<session, inbox, poller, dropped, rejected>>
      /\ queue' = [queue EXCEPT ![s] = Append(@, kind)] /\ Len(queue[s]) < MaxMessages
  BY DEF Arrive
<1>2. /\ queue' \in [Sessions -> Seq(Kinds)] /\ Len(queue'[s]) = Len(queue[s]) + 1
      /\ \A i \in 1..Len(queue[s]) : queue'[s][i] = queue[s][i]
      /\ \A r \in Sessions : r # s => queue'[r] = queue[r]
      /\ \A r \in Sessions : Len(queue[r]) \in Nat
  BY <1>1 DEF IInv, Types
<1>3. Grows
  <2>1. \A r \in Sessions, j \in Numbers : rejected[r][j] <= rejected[r][j]
    BY ConnectorAssumption DEF IInv, Types
  <2> QED
    BY <1>1, <1>2, <2>1 DEF Grows
<1>4. Types'
  <2>1. \A r \in Sessions : Len(queue'[r]) <= MaxMessages
    BY <1>1, <1>2, ConnectorAssumption DEF IInv, Types
  <2>2. ASSUME NEW r \in Sessions, NEW m \in DOMAIN inbox'[r] PROVE inbox'[r][m] <= Len(queue'[r])
    <3>1. inbox[r] \in Seq(Numbers) /\ inbox[r][m] <= Len(queue[r]) /\ m \in DOMAIN inbox[r]
      BY <1>1 DEF IInv, Types
    <3>2. inbox[r][m] \in Nat
      BY <3>1, ConnectorAssumption DEF Numbers
    <3>3. Len(queue'[r]) = Len(queue[r]) \/ Len(queue'[r]) = Len(queue[r]) + 1
      BY <1>2
    <3> QED
      BY <1>1, <1>2, <3>1, <3>2, <3>3
  <2> QED
    BY <1>1, <1>2, <2>1, <2>2 DEF IInv, Types
<1>5. InOrder'
  BY <1>1, <1>3, InOrderKeeps
<1>6. DroppedAfterTheCap'
  BY <1>1 DEF IInv, DroppedAfterTheCap
<1>7. /\ \A r \in Sessions : EntryOK(session'[r], r)
      /\ \A p \in Pollers : PollOK(poller'[p])
  BY <1>1 DEF IInv
<1> QED
  BY <1>3, <1>4, <1>5, <1>6, <1>7, Keeps

-----------------------------------------------------------------------------
(* Polls.                                                                  *)

\* A poll between two sessions holds a snapshot only.
Between(snapshot, left) == [Idle EXCEPT !.snapshot = snapshot, !.left = left]

LEMMA BetweenOK ==
  ASSUME NEW snapshot \in [Sessions -> SessionStates], NEW left \in SUBSET Sessions,
         \A s \in Sessions : EntryOK(snapshot[s], s)
  PROVE  Between(snapshot, left) \in Polls /\ PollOK(Between(snapshot, left))
<1> DEFINE b == Between(snapshot, left)
<1>1. b \in Polls /\ b.snapshot = snapshot /\ b.at = {}
  BY NoSessionTypes, ConnectorAssumption DEF Between, Polls, Idle
<1> QED
  BY <1>1 DEF PollOK

LEMMA IdleOK == Types => Idle \in Polls /\ PollOK(Idle)
<1> SUFFICES ASSUME Types PROVE Idle \in Polls /\ PollOK(Idle)
  OBVIOUS
<1>1. \A s \in Sessions : EntryOK(NoSession, s)
  <2>1. NoSession.cursor = 0 /\ \A i \in Numbers : NoSession.attempts[i] = 0
    BY DEF NoSession, NoAttempts
  <2>2. \A s \in Sessions : Len(queue[s]) \in Nat /\ \A i \in Numbers : rejected[s][i] \in Nat
    BY ConnectorAssumption DEF Types
  <2> QED
    BY <2>1, <2>2 DEF EntryOK
<1>2. Idle.at = {} /\ Idle.snapshot = [s \in Sessions |-> NoSession]
  BY DEF Idle
<1> QED
  BY <1>1, <1>2, NoSessionTypes DEF PollOK

\* One poller changes.
LEMMA OnePoller ==
  ASSUME IInv, NEW p \in Pollers, NEW poll \in Polls, PollOK(poll),
         poller' = [poller EXCEPT ![p] = poll]
  PROVE  poller' \in [Pollers -> Polls] /\ \A o \in Pollers : PollOK(poller'[o])
<1>1. poller' \in [Pollers -> Polls]
  BY DEF IInv, Types
<1>2. ASSUME NEW o \in Pollers PROVE PollOK(poller'[o])
  <2>1. CASE o = p
    BY <2>1 DEF IInv, Types
  <2>2. CASE o # p
    BY <2>2 DEF IInv, Types
  <2> QED
    BY <2>1, <2>2
<1> QED
  BY <1>1, <1>2

\* The poll at hand, its snapshot and where it is.
LEMMA PollFacts ==
  ASSUME IInv, NEW p \in Pollers
  PROVE  /\ poller[p] \in Polls /\ PollOK(poller[p])
         /\ poller[p].snapshot \in [Sessions -> SessionStates] /\ poller[p].left \in SUBSET Sessions
         /\ \A s \in Sessions : EntryOK(poller[p].snapshot[s], s)
BY DEF IInv, Types, Polls, PollOK

LEMMA NextSessionKeeps ==
  ASSUME IInv, NEW p \in Pollers, NextSession(p)
  PROVE  poller' \in [Pollers -> Polls] /\ \A o \in Pollers : PollOK(poller'[o])
<1> DEFINE between == Between(poller[p].snapshot, poller[p].left)
           poll == IF poller[p].left = {} THEN Idle ELSE between
<1>1. between \in Polls /\ PollOK(between)
  BY PollFacts, BetweenOK
<1>2. Idle \in Polls /\ PollOK(Idle)
  BY IdleOK DEF IInv
<1>3. poll \in Polls /\ PollOK(poll)
  BY <1>1, <1>2
<1>4. poller' = [poller EXCEPT ![p] = poll]
  BY DEF NextSession, Between, IInv, Types
<1> HIDE DEF poll
<1> QED
  BY <1>3, <1>4, OnePoller

LEMMA BeginPollKeeps ==
  ASSUME IInv, NEW p \in Pollers, BeginPoll(p)
  PROVE  IInv'
<1> DEFINE left == {s \in Connected : session[s].backoff # "waits"}
           poll == Between(session, left)
<1>1. UNCHANGED <<session, queue, inbox, dropped, rejected>> /\ left \in SUBSET Sessions
  BY DEF BeginPoll, pollUnchanged, Connected
<1>2. poller' = [poller EXCEPT ![p] = poll]
  BY DEF BeginPoll, Between
<1> HIDE DEF left
<1>3. poll \in Polls /\ PollOK(poll)
  BY <1>1, BetweenOK DEF IInv, Types
<1> HIDE DEF poll
<1> QED
  BY <1>1, <1>2, <1>3, OnePoller, StatusKeeps

LEMMA FetchKeeps ==
  ASSUME IInv, NEW p \in Pollers, NEW s \in Sessions, Fetch(p, s)
  PROVE  IInv'
<1> DEFINE old == poller[p]
           entry == old.snapshot[s]
<1>1. /\ UNCHANGED <<session, queue, inbox, dropped, rejected>>
      /\ old \in Polls /\ entry \in SessionStates /\ EntryOK(entry, s) /\ PollOK(old)
  BY PollFacts DEF Fetch, pollUnchanged
<1>2. PICK upto \in entry.cursor..Len(queue[s]) :
         poller' = [poller EXCEPT ![p].left = @ \ {s}, ![p].at = {s},
             ![p].next = poller[p].snapshot[s].cursor + 1, ![p].upto = upto,
             ![p].attempts = poller[p].snapshot[s].attempts]
  BY DEF Fetch
<1> DEFINE poll == [snapshot |-> old.snapshot, left |-> old.left \ {s}, at |-> {s},
                    next |-> entry.cursor + 1, upto |-> upto, attempts |-> entry.attempts]
<1>3. /\ entry.cursor \in 0..MaxMessages /\ entry.attempts \in Counts
      /\ Len(queue[s]) \in 0..MaxMessages /\ upto \in 0..MaxMessages
      /\ entry.cursor + 1 \in 0..MaxMessages + 1
      /\ entry.cursor \in Nat /\ upto \in Nat /\ entry.cursor <= upto /\ upto <= Len(queue[s])
  <2>1. entry.cursor \in 0..MaxMessages /\ entry.attempts \in Counts
    BY <1>1 DEF SessionStates, Counts
  <2>2. Len(queue[s]) \in Nat /\ Len(queue[s]) <= MaxMessages
    BY DEF IInv, Types
  <2> QED
    BY <2>1, <2>2, ConnectorAssumption
<1>4. /\ poll.snapshot = old.snapshot /\ poll.at = {s} /\ poll \in Polls
      /\ poll.next = entry.cursor + 1 /\ poll.upto = upto /\ poll.attempts = entry.attempts
  <2> HIDE DEF old, entry
  <2> QED
    BY <1>1, <1>3 DEF Polls
<1> HIDE DEF poll
<1>5. BatchOK(poll, s)
  <2>1. poll.next - 1 = entry.cursor
    BY <1>3, <1>4
  <2>2. poll.next \in 1..poll.upto + 1 /\ poll.upto <= Len(queue[s])
    BY <1>3, <1>4
  <2> QED
    BY <1>1, <1>4, <2>1, <2>2 DEF BatchOK, EntryOK
<1>6. PollOK(poll)
  BY <1>1, <1>4, <1>5 DEF PollOK
<1>7. poller' = [poller EXCEPT ![p] = poll]
  <2>1. poller'[p] = poll
    BY <1>1, <1>2 DEF poll, Polls, IInv, Types
  <2> QED
    BY <1>2, <2>1 DEF IInv, Types
<1> QED
  BY <1>1, <1>4, <1>6, <1>7, OnePoller, StatusKeeps

LEMMA FetchFailsKeeps ==
  ASSUME IInv, NEW p \in Pollers, NEW s \in Sessions, FetchFails(p, s)
  PROVE  IInv'
<1> DEFINE old == poller[p]
           left == old.left \ {s}
           same == [old EXCEPT !.left = left]
           failed == [session[s] EXCEPT !.backoff = "waits"]
<1>1. /\ UNCHANGED <<queue, inbox, dropped, rejected>>
      /\ session[s] \in SessionStates /\ old \in Polls /\ PollOK(old) /\ old.at = {}
  BY PollFacts DEF FetchFails, pollUnchanged, IInv, Types
<1>2. same \in Polls /\ same.snapshot = old.snapshot /\ same.at = {}
  BY <1>1 DEF Polls
<1>3. PollOK(same)
  BY <1>1, <1>2 DEF PollOK
<1>4. Idle \in Polls /\ PollOK(Idle)
  BY IdleOK DEF IInv
<1>5. poller' = [poller EXCEPT ![p] = IF left = {} THEN Idle ELSE same]
  BY DEF FetchFails, IInv, Types
<1> DEFINE poll == IF left = {} THEN Idle ELSE same
<1> HIDE DEF same, left
<1>6. poll \in Polls /\ PollOK(poll) /\ poller' = [poller EXCEPT ![p] = poll]
  BY <1>2, <1>3, <1>4, <1>5
<1> HIDE DEF poll
<1>7. poller' \in [Pollers -> Polls] /\ \A o \in Pollers : PollOK(poller'[o])
  BY <1>6, OnePoller
<1>8. failed \in SessionStates /\ failed.cursor = session[s].cursor /\ failed.attempts = session[s].attempts
  BY <1>1 DEF SessionStates
<1>9. UpdateSession(s, failed) \/ UpdateSession(s, Expired(failed))
  BY DEF FetchFails
<1> HIDE DEF failed
<1>10. CASE UpdateSession(s, failed)
  BY <1>1, <1>7, <1>8, <1>10, EntryStep
<1>11. CASE UpdateSession(s, Expired(failed))
  BY <1>1, <1>7, <1>8, <1>11, ExpiredTypes, EntryStep
<1> QED
  BY <1>9, <1>10, <1>11

LEMMA RestartKeeps ==
  ASSUME IInv, Restart
  PROVE  IInv'
<1>1. Idle \in Polls /\ PollOK(Idle)
  BY IdleOK DEF IInv
<1>2. poller' = [p \in Pollers |-> Idle] /\ UNCHANGED <<session, queue, inbox, dropped, rejected>>
  BY DEF Restart
<1> QED
  BY <1>1, <1>2, StatusKeeps

-----------------------------------------------------------------------------
(* Messages.                                                               *)

LEMMA MessageFacts ==
  ASSUME IInv, NEW p \in Pollers, NEW s \in Sessions, NEW i, NEW kind, AtMessage(p, s, i, kind)
  PROVE  /\ poller[p] \in Polls /\ PollOK(poller[p]) /\ BatchOK(poller[p], s)
         /\ poller[p].at = {s} /\ poller[p].attempts \in Counts
         /\ i = poller[p].next /\ i \in Nat /\ i <= poller[p].upto
         /\ i \in 1..Len(queue[s]) /\ i \in Numbers /\ queue[s][i] = kind
         /\ \A j \in 1..i - 1 : Handled(s, j)
<1>1. /\ poller[p] \in Polls /\ PollOK(poller[p]) /\ poller[p].at = {s}
      /\ i = poller[p].next /\ i <= poller[p].upto /\ queue[s][i] = kind
  BY PollFacts DEF AtMessage
<1>2. BatchOK(poller[p], s)
  BY <1>1 DEF PollOK
<1>3. /\ poller[p].next \in Nat /\ poller[p].upto \in Nat /\ poller[p].attempts \in Counts
      /\ Len(queue[s]) \in Nat /\ Len(queue[s]) <= MaxMessages
  BY <1>1, ConnectorAssumption DEF Polls, IInv, Types
<1>4. 1 <= i /\ i <= Len(queue[s])
  BY <1>1, <1>2, <1>3 DEF BatchOK
<1>5. i \in 1..Len(queue[s]) /\ i \in Numbers
  BY <1>1, <1>3, <1>4, ConnectorAssumption DEF Numbers
<1>6. \A j \in 1..i - 1 : Handled(s, j)
  BY <1>1, <1>2 DEF BatchOK
<1> QED
  BY <1>1, <1>2, <1>3, <1>5, <1>6

\* The poll behind message i.
Advanced(poll, i, counts) ==
    [snapshot |-> poll.snapshot, left |-> poll.left, at |-> poll.at, next |-> i + 1,
     upto |-> poll.upto, attempts |-> counts]

LEMMA AdvancedTypes ==
  ASSUME IInv, NEW p \in Pollers, NEW s \in Sessions, NEW i, NEW kind, AtMessage(p, s, i, kind),
         NEW counts \in Counts, poller' = [poller EXCEPT ![p] = Advanced(poller[p], i, counts)]
  PROVE  /\ poller' \in [Pollers -> Polls] /\ Advanced(poller[p], i, counts) \in Polls
         /\ poller'[p] = Advanced(poller[p], i, counts)
         /\ \A o \in Pollers : o # p => poller'[o] = poller[o]
<1> DEFINE old == poller[p]
<1>1. old \in Polls /\ i \in Nat /\ i <= old.upto
  BY MessageFacts
<1>2. i + 1 \in 0..MaxMessages + 1
  BY <1>1, ConnectorAssumption DEF Polls
<1>3. Advanced(old, i, counts) \in Polls
  <2> HIDE DEF old
  <2> QED
    BY <1>1, <1>2 DEF Polls, Advanced
<1> QED
  BY <1>3 DEF IInv, Types

LEMMA ParseFailsKeeps ==
  ASSUME IInv, NEW p \in Pollers, NEW s \in Sessions, NEW i \in Numbers, ParseFails(p, s, i)
  PROVE  IInv'
<1> DEFINE failed == [session[s] EXCEPT !.backoff = "waits"]
<1>1. /\ UNCHANGED <<queue, inbox, dropped, rejected>> /\ session[s] \in SessionStates
      /\ UpdateSession(s, failed)
  BY DEF ParseFails, pollUnchanged, IInv, Types
<1>2. poller' \in [Pollers -> Polls] /\ \A o \in Pollers : PollOK(poller'[o])
  BY NextSessionKeeps DEF ParseFails
<1>3. failed \in SessionStates /\ failed.cursor = session[s].cursor /\ failed.attempts = session[s].attempts
  BY <1>1 DEF SessionStates
<1> HIDE DEF failed
<1> QED
  BY <1>1, <1>2, <1>3, EntryStep

\* A message is handled and the poll goes on to the next one.
LEMMA AdvanceKeeps ==
  ASSUME IInv, Grows, Types', InOrder', DroppedAfterTheCap', UNCHANGED session,
         NEW p \in Pollers, NEW s \in Sessions, NEW i, NEW kind, AtMessage(p, s, i, kind),
         Handled(s, i)', NEW counts \in Counts,
         \A j \in Numbers : counts[j] \in {0, poller[p].attempts[j]},
         poller' = [poller EXCEPT ![p] = Advanced(poller[p], i, counts)]
  PROVE  IInv'
<1>1. PICK b \in Polls : b = poller[p]
  BY MessageFacts
<1>2. Types
  BY DEF IInv
<1>3. /\ PollOK(b) /\ b.at = {s} /\ i = b.next /\ i \in Nat /\ i <= b.upto
  BY <1>1, MessageFacts
<1>4. PollOK(b)'
  BY <1>2, <1>3, PollKeeps
<1>5. BatchOK(b, s)'
  BY <1>3, <1>4 DEF PollOK
<1> DEFINE n == Advanced(b, i, counts)
<1>6. /\ n.snapshot = b.snapshot /\ n.at = {s} /\ n.next = i + 1 /\ n.upto = b.upto
      /\ n.attempts = counts
  BY <1>3 DEF Advanced
<1>7. /\ poller'[p] = n /\ \A o \in Pollers : o # p => poller'[o] = poller[o]
  BY <1>1, AdvancedTypes
<1> HIDE DEF n
<1>8. BatchOK(n, s)'
  <2>1. b.upto \in Nat
    BY ConnectorAssumption DEF Polls
  <2>2. n.next \in 1..n.upto + 1 /\ n.upto <= Len(queue'[s])
    BY <1>3, <1>5, <1>6, <2>1 DEF BatchOK
  <2>3. ASSUME NEW j \in 1..n.next - 1 PROVE Handled(s, j)'
    <3>1. j = i \/ j \in 1..b.next - 1
      BY <1>3, <1>6
    <3> QED
      BY <1>5, <3>1 DEF BatchOK
  <2>4. ASSUME NEW j \in Numbers PROVE n.attempts[j] <= rejected'[s][j]
    <3>1. rejected'[s][j] \in Nat /\ b.attempts[j] <= rejected'[s][j]
      BY <1>5, ConnectorAssumption DEF BatchOK, Types
    <3> QED
      BY <1>1, <1>6, <3>1
  <2> QED
    BY <2>2, <2>3, <2>4 DEF BatchOK
<1>9. PollOK(n)'
  BY <1>4, <1>6, <1>8 DEF PollOK
<1>10. PollOK(poller[p])'
  BY <1>7, <1>9 DEF PollOK, BatchOK
<1>11. \A o \in Pollers : PollOK(poller'[o]) \/ PollOK(poller[o])'
  BY <1>7, <1>10 DEF IInv
<1>12. \A r \in Sessions : EntryOK(session'[r], r)
  BY DEF IInv
<1> QED
  BY <1>11, <1>12, Keeps

LEMMA SkipKeeps ==
  ASSUME IInv, NEW p \in Pollers, NEW s \in Sessions, NEW i, SkipMessage(p, s, i)
  PROVE  IInv'
<1> DEFINE old == poller[p]
           n == Advanced(old, i, old.attempts)
<1>1. /\ AtMessage(p, s, i, "empty") /\ UNCHANGED <<session, queue, inbox, dropped, rejected>>
      /\ poller' = [poller EXCEPT ![p].next = i + 1]
  BY DEF SkipMessage, pollUnchanged
<1>2. old \in Polls /\ old.attempts \in Counts /\ queue[s][i] = "empty"
  BY <1>1, MessageFacts
<1>3. poller' = [poller EXCEPT ![p] = n]
  <2>1. poller'[p] = n
    BY <1>1, <1>2 DEF Advanced, Polls, IInv, Types
  <2> QED
    BY <1>1, <2>1 DEF IInv, Types
<1>4. poller' \in [Pollers -> Polls]
  BY <1>1, <1>2, <1>3, AdvancedTypes
<1>5. Types' /\ Grows /\ DroppedAfterTheCap' /\ Handled(s, i)'
  BY <1>1, <1>2, <1>4 DEF IInv, Types, Grows, DroppedAfterTheCap, Handled
<1>6. InOrder'
  BY <1>1, <1>5, InOrderKeeps
<1> QED
  BY <1>1, <1>2, <1>3, <1>5, <1>6, AdvanceKeeps

\* The batch goes on behind message i, whose count is cleared.
LEMMA AdvanceIs ==
  ASSUME IInv, NEW p \in Pollers, NEW s \in Sessions, NEW i, NEW kind, AtMessage(p, s, i, kind),
         Advance(p, i)
  PROVE  \E counts \in Counts :
            /\ \A j \in Numbers : counts[j] \in {0, poller[p].attempts[j]}
            /\ poller' = [poller EXCEPT ![p] = Advanced(poller[p], i, counts)]
<1> DEFINE old == poller[p]
           counts == [old.attempts EXCEPT ![i] = 0]
           n == Advanced(old, i, counts)
<1>1. old \in Polls /\ old.attempts \in Counts /\ i \in Numbers
  BY MessageFacts
<1>2. counts \in Counts /\ \A j \in Numbers : counts[j] \in {0, old.attempts[j]}
  BY <1>1, ConnectorAssumption DEF Counts
<1>3. poller'[p] = n
  BY <1>1 DEF Advance, Advanced, Polls, IInv, Types
<1>4. poller' = [poller EXCEPT ![p] = n]
  BY <1>3 DEF Advance, IInv, Types
<1> QED
  BY <1>2, <1>4

LEMMA DeliverKeeps ==
  ASSUME IInv, NEW p \in Pollers, NEW s \in Sessions, NEW i, Deliver(p, s, i)
  PROVE  IInv'
<1>1. /\ AtMessage(p, s, i, "plain") /\ RecordInbound(s, i) /\ Advance(p, i)
      /\ UNCHANGED <<session, queue, dropped, rejected>>
  BY DEF Deliver, pollUnchanged
<1>2. /\ i \in 1..Len(queue[s]) /\ queue[s][i] = "plain" /\ \A j \in 1..i - 1 : Handled(s, j)
  BY <1>1, MessageFacts
<1>3. PICK counts \in Counts :
         /\ \A j \in Numbers : counts[j] \in {0, poller[p].attempts[j]}
         /\ poller' = [poller EXCEPT ![p] = Advanced(poller[p], i, counts)]
  BY <1>1, AdvanceIs
<1>4. poller' \in [Pollers -> Polls]
  BY <1>1, <1>3, AdvancedTypes
<1>5. \A r \in Sessions : /\ dropped[r] \subseteq dropped'[r]
                          /\ \A j \in Numbers : rejected[r][j] <= rejected'[r][j]
  BY <1>1, ConnectorAssumption DEF IInv, Types
<1>6. /\ Grows /\ InOrder' /\ inbox' \in [Sessions -> Seq(Numbers)]
      /\ \A r \in Sessions : \A m \in DOMAIN inbox'[r] : inbox'[r][m] <= Len(queue'[r])
  BY <1>1, <1>2, <1>5, RecordKeeps
<1>7. Types' /\ DroppedAfterTheCap'
  BY <1>1, <1>4, <1>6 DEF IInv, Types, DroppedAfterTheCap
<1>8. Handled(s, i)'
  BY <1>1, MessageFacts, RecordedIsHandled
<1> QED
  BY <1>1, <1>3, <1>6, <1>7, <1>8, AdvanceKeeps

LEMMA FinishKeeps ==
  ASSUME IInv, NEW p \in Pollers, NEW s \in Sessions, FinishBatch(p, s)
  PROVE  IInv'
<1> DEFINE old == poller[p]
           backoff == IF old.snapshot[s].backoff = "none" THEN session[s].backoff ELSE "none"
           entry == [session[s] EXCEPT !.attempts = old.attempts, !.cursor = old.upto,
                                       !.backoff = backoff]
<1>1. /\ UNCHANGED <<queue, inbox, dropped, rejected>> /\ NextSession(p)
      /\ old.at = {s} /\ old.next > old.upto
  BY DEF FinishBatch, pollUnchanged
<1>2. UpdateSession(s, entry)
  BY DEF FinishBatch, UpdateSession, IInv, Types
<1>3. old \in Polls /\ BatchOK(old, s)
  BY <1>1, PollFacts DEF PollOK
<1>4. /\ old.attempts \in Counts /\ old.upto \in 0..MaxMessages /\ old.upto \in Nat
      /\ old.next = old.upto + 1
  BY <1>1, <1>3, ConnectorAssumption DEF Polls, BatchOK
<1>5. session[s] \in SessionStates /\ backoff \in {"none", "waits", "over"}
  BY DEF IInv, Types, SessionStates
<1> HIDE DEF backoff
<1>6. entry \in SessionStates /\ entry.cursor = old.upto /\ entry.attempts = old.attempts
  BY <1>4, <1>5 DEF SessionStates, Counts
<1> HIDE DEF entry
<1>7. EntryOK(entry, s)
  <2>1. old.next - 1 = old.upto
    BY <1>4
  <2> QED
    BY <1>3, <1>6, <2>1 DEF BatchOK, EntryOK
<1>8. /\ session' \in [Sessions -> SessionStates]
      /\ \A r \in Sessions : EntryOK(session'[r], r)
  BY <1>2, <1>6, <1>7 DEF UpdateSession, IInv, Types
<1> QED
  BY <1>1, <1>8, NextSessionKeeps, QuietKeeps

\* A refusal is counted, whatever the poll makes of it.
LEMMA RejectedGrows ==
  ASSUME IInv, NEW p \in Pollers, NEW s \in Sessions, NEW i, Reject(p, s, i)
  PROVE  /\ rejected' \in [Sessions -> [Numbers -> 0..MaxAttempts + 1]]
         /\ \A r \in Sessions, j \in Numbers : rejected[r][j] <= rejected'[r][j]
         /\ rejected[s][i] <= MaxAttempts => rejected'[s][i] = rejected[s][i] + 1
         /\ poller[p].attempts[i] + 1 <= rejected'[s][i]
<1>1. /\ i \in Numbers /\ poller[p].attempts \in Counts /\ poller[p].attempts[i] <= rejected[s][i]
  BY MessageFacts DEF Reject, BatchOK
<1>2. rejected' = [rejected EXCEPT ![s][i] = IF @ > MaxAttempts THEN @ ELSE @ + 1]
  BY DEF Reject
<1>3. rejected \in [Sessions -> [Numbers -> 0..MaxAttempts + 1]]
  BY DEF IInv, Types
<1>4. /\ poller[p].attempts[i] \in Nat /\ poller[p].attempts[i] <= MaxAttempts - 1
      /\ rejected[s][i] \in Nat /\ rejected[s][i] <= MaxAttempts + 1
  BY <1>1, <1>3, ConnectorAssumption DEF Counts
<1> DEFINE new == IF rejected[s][i] > MaxAttempts THEN rejected[s][i] ELSE rejected[s][i] + 1
<1>5. new \in 0..MaxAttempts + 1 /\ rejected[s][i] <= new
  BY <1>4, ConnectorAssumption
<1>6. /\ rejected'[s][i] = new
      /\ \A r \in Sessions, j \in Numbers : r # s \/ j # i => rejected'[r][j] = rejected[r][j]
  BY <1>1, <1>2, <1>3
<1>7. rejected' \in [Sessions -> [Numbers -> 0..MaxAttempts + 1]]
  BY <1>1, <1>2, <1>3, <1>5
<1>8. ASSUME NEW r \in Sessions, NEW j \in Numbers PROVE rejected[r][j] <= rejected'[r][j]
  <2>1. rejected[r][j] \in Nat
    BY <1>3, ConnectorAssumption
  <2> QED
    BY <1>5, <1>6, <2>1
<1>9. poller[p].attempts[i] + 1 <= new
  BY <1>1, <1>4, ConnectorAssumption
<1>10. rejected[s][i] <= MaxAttempts => new = rejected[s][i] + 1
  BY <1>4, ConnectorAssumption
<1> HIDE DEF new
<1> QED
  BY <1>6, <1>7, <1>8, <1>9, <1>10

LEMMA RejectKeeps ==
  ASSUME IInv, NEW p \in Pollers, NEW s \in Sessions, NEW i, Reject(p, s, i)
  PROVE  IInv'
<1> DEFINE old == poller[p]
           attempts == old.attempts[i] + 1
<1>1. /\ AtMessage(p, s, i, "plain") /\ UNCHANGED queue
      /\ RecordInbound(s, i) \/ UNCHANGED inbox
      /\ IF GiveUpAfter(attempts)
         THEN /\ dropped' = [dropped EXCEPT ![s] = @ \cup {i}] /\ Advance(p, i) /\ UNCHANGED session
         ELSE Retry(p, s, i, attempts)
  BY DEF Reject, pollUnchanged
<1>2. /\ i \in 1..Len(queue[s]) /\ i \in Numbers /\ queue[s][i] = "plain"
      /\ \A j \in 1..i - 1 : Handled(s, j)
      /\ old \in Polls /\ old.attempts \in Counts /\ BatchOK(old, s)
  BY <1>1, MessageFacts
<1>3. /\ rejected' \in [Sessions -> [Numbers -> 0..MaxAttempts + 1]]
      /\ \A r \in Sessions, j \in Numbers : rejected[r][j] <= rejected'[r][j]
      /\ rejected[s][i] <= MaxAttempts => rejected'[s][i] = rejected[s][i] + 1
      /\ attempts <= rejected'[s][i] /\ attempts \in Nat
  BY <1>2, RejectedGrows, ConnectorAssumption DEF Counts
<1>4. \A r \in Sessions : dropped[r] \subseteq dropped'[r]
  BY <1>1 DEF Retry, IInv, Types
<1>5. /\ Grows /\ InOrder' /\ inbox' \in [Sessions -> Seq(Numbers)]
      /\ \A r \in Sessions : \A m \in DOMAIN inbox'[r] : inbox'[r][m] <= Len(queue'[r])
  <2>1. CASE RecordInbound(s, i)
    BY <1>1, <1>2, <1>3, <1>4, <2>1, RecordKeeps
  <2>2. CASE UNCHANGED inbox
    <3>1. Grows
      BY <1>1, <1>3, <1>4, <2>2 DEF Grows, IInv, Types
    <3> QED
      BY <1>1, <2>2, <3>1, InOrderKeeps DEF IInv, Types
  <2> QED
    BY <1>1, <2>1, <2>2
<1>6. CASE GiveUpAfter(attempts)
  <2>1. /\ dropped' = [dropped EXCEPT ![s] = @ \cup {i}] /\ Advance(p, i) /\ UNCHANGED session
    BY <1>1, <1>6
  <2>2. PICK counts \in Counts :
           /\ \A j \in Numbers : counts[j] \in {0, poller[p].attempts[j]}
           /\ poller' = [poller EXCEPT ![p] = Advanced(poller[p], i, counts)]
    BY <1>1, <2>1, AdvanceIs
  <2>3. poller' \in [Pollers -> Polls]
    BY <1>1, <2>2, AdvancedTypes
  <2>4. Types'
    BY <1>1, <1>2, <1>3, <1>5, <2>1, <2>3 DEF IInv, Types
  <2>5. Handled(s, i)'
    BY <2>1 DEF Handled, IInv, Types
  <2>6. DroppedAfterTheCap'
    <3> SUFFICES ASSUME NEW r \in Sessions, NEW j \in dropped'[r]
                 PROVE  rejected'[r][j] >= MaxAttempts
      BY DEF DroppedAfterTheCap
    <3>1. j \in Numbers
      BY <2>4 DEF Types
    <3>2. CASE r = s /\ j = i
      <4>1. attempts >= MaxAttempts
        BY <1>6 DEF GiveUpAfter
      <4>2. rejected'[s][i] \in Nat
        BY <1>2, <1>3, ConnectorAssumption
      <4> QED
        BY <1>3, <3>2, <4>1, <4>2, ConnectorAssumption
    <3>3. CASE r # s \/ j # i
      <4>1. j \in dropped[r]
        BY <2>1, <3>3 DEF IInv, Types
      <4>2. rejected[r][j] >= MaxAttempts /\ rejected[r][j] <= rejected'[r][j]
        BY <1>3, <3>1, <4>1 DEF IInv, DroppedAfterTheCap
      <4>3. rejected[r][j] \in Nat /\ rejected'[r][j] \in Nat
        BY <1>3, <3>1, ConnectorAssumption DEF IInv, Types
      <4> QED
        BY <4>2, <4>3, ConnectorAssumption
    <3> QED
      BY <3>2, <3>3
  <2> QED
    BY <1>1, <1>5, <2>1, <2>2, <2>4, <2>5, <2>6, AdvanceKeeps
<1>7. CASE ~GiveUpAfter(attempts)
  <2> DEFINE counts == [old.attempts EXCEPT ![i] = attempts]
             entry == [session[s] EXCEPT !.attempts = counts, !.backoff = "waits"]
  <2>1. UpdateSession(s, entry) /\ NextSession(p) /\ UNCHANGED dropped
    BY <1>1, <1>7 DEF Retry
  <2>2. attempts \in 0..MaxAttempts - 1
    BY <1>3, <1>7, ConnectorAssumption DEF GiveUpAfter
  <2>3. counts \in Counts /\ \A j \in Numbers : counts[j] <= rejected'[s][j]
    <3>1. ASSUME NEW j \in Numbers PROVE old.attempts[j] <= rejected'[s][j]
      <4>1. old.attempts[j] \in Nat /\ rejected[s][j] \in Nat /\ rejected'[s][j] \in Nat
        BY <1>2, <1>3, ConnectorAssumption DEF IInv, Types, Counts
      <4>2. old.attempts[j] <= rejected[s][j] /\ rejected[s][j] <= rejected'[s][j]
        BY <1>2, <1>3 DEF BatchOK
      <4> QED
        BY <4>1, <4>2
    <3> QED
      BY <1>2, <1>3, <2>2, <3>1 DEF Counts
  <2> HIDE DEF counts
  <2>4. session[s] \in SessionStates
    BY DEF IInv, Types
  <2>5. entry \in SessionStates /\ entry.cursor = session[s].cursor /\ entry.attempts = counts
    BY <2>3, <2>4 DEF SessionStates, Counts
  <2> HIDE DEF entry
  <2>6. /\ session' \in [Sessions -> SessionStates] /\ session'[s] = entry
        /\ \A r \in Sessions : r # s => session'[r] = session[r]
    BY <2>1, <2>5 DEF UpdateSession, IInv, Types
  <2>7. /\ poller' \in [Pollers -> Polls] /\ \A o \in Pollers : PollOK(poller'[o])
    BY <2>1, NextSessionKeeps
  <2>8. Types'
    BY <1>1, <1>3, <1>5, <2>1, <2>6, <2>7 DEF IInv, Types
  <2>9. EntryOK(session[s], s)'
    <3>1. PICK was \in SessionStates : was = session[s]
      BY <2>4
    <3>2. EntryOK(was, s)'
      BY <1>5, <2>8, <3>1, EntryKeeps DEF IInv
    <3> QED
      BY <2>3, <2>5, <2>6, <3>1, <3>2 DEF EntryOK
  <2>10. \A r \in Sessions : EntryOK(session'[r], r) \/ EntryOK(session[r], r)'
    BY <2>6, <2>9 DEF IInv
  <2>11. DroppedAfterTheCap'
    <3> SUFFICES ASSUME NEW r \in Sessions, NEW j \in dropped[r]
                 PROVE  rejected'[r][j] >= MaxAttempts
      BY <2>1 DEF DroppedAfterTheCap
    <3>1. j \in Numbers /\ rejected[r][j] >= MaxAttempts
      BY DEF IInv, Types, DroppedAfterTheCap
    <3>2. rejected[r][j] \in Nat /\ rejected'[r][j] \in Nat
      BY <1>3, <3>1, ConnectorAssumption DEF IInv, Types
    <3> QED
      BY <1>3, <3>1, <3>2, ConnectorAssumption
  <2> QED
    BY <1>5, <2>7, <2>8, <2>10, <2>11, Keeps
<1> QED
  BY <1>6, <1>7

-----------------------------------------------------------------------------
(* The steps.                                                              *)

LEMMA NextIInv == IInv /\ [Next]_vars => IInv'
<1> SUFFICES ASSUME IInv, [Next]_vars PROVE IInv'
  OBVIOUS
<1>1. ASSUME UNCHANGED <<session, queue, inbox, poller, dropped, rejected>> PROVE IInv'
  BY <1>1, PollersStay, StatusKeeps
<1>2. ASSUME NEW s \in Sessions,
             LoginStart(s) \/ LoginPoll(s) \/ SendFindsExpired(s) \/ BackoffEnds(s)
      PROVE  IInv'
  BY <1>2, LoginsKeep
<1>3. ASSUME NEW s \in Sessions, LoginStatus(s) PROVE IInv'
  BY <1>1, <1>3 DEF LoginStatus, loginUnchanged
<1>4. ASSUME NEW s \in Sessions, Arrive(s, "plain") \/ Arrive(s, "empty") PROVE IInv'
  BY <1>4, ArriveKeeps DEF Kinds
<1>5. CASE PollStart
  BY <1>1, <1>5 DEF PollStart, loginUnchanged
<1>6. ASSUME NEW p \in Pollers,
             BeginPoll(p) \/ PollGoesOn(p)
      PROVE  IInv'
  <2>1. CASE BeginPoll(p)
    BY <2>1, BeginPollKeeps
  <2>2. ASSUME NEW s \in Sessions, NEW i \in Numbers,
               Post(p, s, i) \/ ParseFails(p, s, i)
        PROVE  IInv'
    BY <2>2, SkipKeeps, DeliverKeeps, RejectKeeps, ParseFailsKeeps DEF Post
  <2>3. ASSUME NEW s \in Sessions, Fetch(p, s) \/ FetchFails(p, s) \/ FinishBatch(p, s)
        PROVE  IInv'
    BY <2>3, FetchKeeps, FetchFailsKeeps, FinishKeeps
  <2> QED
    BY <1>6, <2>1, <2>2, <2>3 DEF PollGoesOn
<1>7. CASE Restart
  BY <1>7, RestartKeeps
<1>8. CASE UNCHANGED vars
  BY <1>1, <1>8 DEF vars
<1> QED
  BY <1>2, <1>3, <1>4, <1>5, <1>6, <1>7, <1>8 DEF Next

\* The inductive invariant holds in every state.
THEOREM Inductive == Spec => []IInv
<1>1. Init => IInv
  BY InitIInv
<1>2. IInv /\ [Next]_vars => IInv'
  BY NextIInv
<1> QED
  BY <1>1, <1>2, PTL DEF Spec

\* Coke records the messages of a session in order and each at most once, and
\* the saved cursor stands behind no message that is neither recorded nor given
\* up: for any pollers, crashes, lost answers and stale snapshots.
THEOREM NoMessageIsSkipped == Spec => []NothingSkipped
<1>1. IInv => NothingSkipped
  BY DEF IInv, EntryOK, InOrder, NothingSkipped
<1> QED
  BY <1>1, Inductive, PTL

\* A message is given up only after MaxAttempts rejections of it, although the
\* pollers overwrite each other's counts.
THEOREM GivenUpAfterTheCap == Spec => []DroppedAfterTheCap
<1>1. IInv => DroppedAfterTheCap
  BY DEF IInv
<1> QED
  BY <1>1, Inductive, PTL
=============================================================================
