-------------------------- MODULE WorkStream_proofs --------------------------
(***************************************************************************)
(* The worker process: the safety invariants of WorkStream, for any number *)
(* of outbox rows and any sets of faults, then the safety of               *)
(* InteractiveWorker, for any number of messages and faults, and what can  *)
(* make the event-loop thread of TurnThread stand still.  None of the      *)
(* modules uses another; they share no name.                               *)
(*                                                                         *)
(* WorkStream: three groups of facts are kept by every step: what anybody  *)
(* says of a handled event goes back to a commit of its handler            *)
(* (HandledInv); the event of such a commit is remembered, or the worker   *)
(* is at it still (OnceInv); and dedup keys, message keys and stream agree *)
(* (KeysOK).                                                               *)
(*                                                                         *)
(* InteractiveWorker: a trigger that nobody knows stays unknown until its  *)
(* event or its restart (Unused), every failure had its exception          *)
(* (CountInv), what a task has read before it claims is still true enough  *)
(* (ClaimInv), the pending slot is only used behind a commit (TaskInv), a  *)
(* row that is remembered was claimed by this process (EraInv); so an open *)
(* message keeps somebody responsible or is left open (OpenInv).           *)
(*                                                                         *)
(* TurnThread: who may hold which row (LocksInv) names all that can block  *)
(* the thread.                                                             *)
(***************************************************************************)
EXTENDS WorkStream, InteractiveWorker, TurnThread, WellFoundedInduction, TLAPS

\* Only recorded rows are worked on and have dedup keys, the message it adds is of its
\* event; the worker has a message exactly when it is at work.
ActorsOK ==
    /\ \A e \in relay.todo \cup reserved : row[e] # "absent"
    /\ relay.at \notin {"idle", "choosing"} =>
          relay.event \in Events /\ row[relay.event] # "absent"
    /\ relay.at = "recording" =>
          relay.msg \in Messages /\ relay.msg.event = relay.event
    /\ relay.at = "updating" => relay.seen # "absent"
    /\ IF worker.at = "idle" THEN worker.msg = NoMessage ELSE worker.msg \in Messages

TypeInv == TypeOK /\ ActorsOK

\* Whoever says that a row is processed, or knows its event as handled, has it
\* from a worker whose handler committed.
HandledInv ==
    /\ HandledBeforeProcessed
    /\ \A e \in Events : relayRows[e] = "processed" => effects[e] > 0
    /\ relay.at = "updating" /\ relay.seen = "processed" => effects[relay.event] > 0
    /\ worker.at \in {"acking", "xacking", "cleaning"} => effects[worker.msg.event] > 0
    /\ \A e \in handled : effects[e] > 0

\* An event whose handler has run is remembered, or the worker is at it still.
OnceInv ==
    {"worker", "step"} \cap faults = {} =>
        /\ \A e \in Events :
              \/ effects[e] = 0
              \/ /\ effects[e] = 1
                 /\ \/ e \in handled
                    \/ /\ worker.at \in {"acking", "xacking", "cleaning"}
                       /\ worker.msg.event = e
        /\ worker.at = "handling" => effects[worker.msg.event] = 0

Distinct(q) == \A i, j \in 1 .. Len(q) : q[i] = q[j] => i = j

\* A message on its way or known by its id has its dedup key.  While the relay
\* adds an event nothing of it is left, and a key is only cleaned when no
\* message of the event is in the stream.
KeysOK ==
    /\ Distinct(queue)
    /\ ToSet(queue) \cap pel = {}
    /\ \A m, n \in Outstanding : m.event = n.event => m = n
    /\ \A m, n \in keyed : m.event = n.event => m = n
    /\ \A m \in Outstanding \cup keyed : m.event \in reserved
    /\ relay.at = "adding" =>
          /\ relay.event \in reserved
          /\ \A m \in Outstanding \cup keyed : m.event # relay.event
          /\ worker.at = "cleaning" => worker.msg.event # relay.event
    /\ relay.at = "recording" => \A m \in keyed : m.event # relay.event
    /\ worker.at \in {"handling", "acking", "xacking"} => worker.msg \in pel
    /\ worker.at = "cleaning" =>
          /\ worker.msg.event \in reserved
          /\ \A m \in Outstanding : m.event # worker.msg.event

KeysInv == {"answer", "redis"} \cap faults = {} => KeysOK

IInv == TypeInv /\ HandledInv /\ OnceInv /\ ReservedIsOnItsWay /\ KeysInv

-----------------------------------------------------------------------------
(* Lemmas about the operators of the model.                                *)

\* A set of naturals that is not empty contains its minimum.
LEMMA MinInSet ==
  ASSUME NEW S \in SUBSET Nat, S # {}
  PROVE  Min(S) \in S
<1>1. PICK x \in S : \A y \in S : ~(<<y, x>> \in OpToRel(<, Nat))
  BY NatLessThanWellFounded, WFMin
<1>2. \A y \in S : ~(y < x)
  BY <1>1, Zenon DEF OpToRel
<1>3. \A y \in S : x <= y
  BY <1>2
<1> QED
  BY <1>3 DEF Min

\* What a queue holds after one message is added or taken.
LEMMA QueueContents ==
  ASSUME NEW q \in Seq(Messages)
  PROVE  /\ ToSet(q) \subseteq Messages
         /\ \A m : ToSet(Append(q, m)) = ToSet(q) \cup {m}
         /\ q # <<>> => ToSet(q) = ToSet(Tail(q)) \cup {Head(q)}
<1>1. ToSet(q) \subseteq Messages
  BY DEF ToSet
<1>2. ASSUME NEW m PROVE ToSet(Append(q, m)) = ToSet(q) \cup {m}
  BY DEF ToSet
<1>3. ASSUME q # <<>> PROVE ToSet(q) = ToSet(Tail(q)) \cup {Head(q)}
  <2>1. \A i \in 1 .. Len(Tail(q)) : Tail(q)[i] = q[i + 1]
    BY <1>3
  <2>2. ASSUME NEW i \in 2 .. Len(q) PROVE q[i] = Tail(q)[i - 1]
    BY <1>3
  <2>3. DOMAIN Tail(q) = 1 .. Len(q) - 1 /\ DOMAIN q = 1 .. Len(q) /\ Len(q) >= 1
    BY <1>3
  <2>4. Head(q) = q[1] /\ 1 \in DOMAIN q
    BY <1>3, <2>3
  <2>5. ToSet(Tail(q)) \cup {Head(q)} \subseteq ToSet(q)
    BY <2>1, <2>3, <2>4 DEF ToSet
  <2>6. ASSUME NEW i \in DOMAIN q PROVE q[i] \in ToSet(Tail(q)) \cup {Head(q)}
    <3>1. CASE i = 1
      BY <2>4, <3>1
    <3>2. CASE i # 1
      <4>1. i \in 2 .. Len(q) /\ i - 1 \in DOMAIN Tail(q)
        BY <2>3, <3>2
      <4> QED
        BY <2>2, <4>1 DEF ToSet
    <3> QED
      BY <3>1, <3>2
  <2> QED
    BY <2>5, <2>6 DEF ToSet
<1> QED
  BY <1>1, <1>2, <1>3

\* A queue without repetitions stays one.
LEMMA QueueDistinct ==
  ASSUME NEW q \in Seq(Messages), Distinct(q)
  PROVE  /\ \A m : m \notin ToSet(q) => Distinct(Append(q, m))
         /\ q # <<>> => Distinct(Tail(q)) /\ Head(q) \notin ToSet(Tail(q))
<1>1. ASSUME NEW m, m \notin ToSet(q) PROVE Distinct(Append(q, m))
  BY <1>1 DEF Distinct, ToSet
<1>2. ASSUME q # <<>> PROVE Distinct(Tail(q)) /\ Head(q) \notin ToSet(Tail(q))
  <2>1. \A i \in 1 .. Len(Tail(q)) : Tail(q)[i] = q[i + 1] /\ i + 1 \in 1 .. Len(q)
    BY <1>2
  <2>2. Head(q) = q[1] /\ 1 \in 1 .. Len(q)
    BY <1>2
  <2>3. DOMAIN Tail(q) = 1 .. Len(Tail(q)) /\ Len(Tail(q)) \in Nat
    BY <1>2
  <2>4. Distinct(Tail(q))
    BY <2>1, <2>3 DEF Distinct
  <2>5. ASSUME NEW i \in 1 .. Len(Tail(q)) PROVE Tail(q)[i] # Head(q)
    BY <2>1, <2>2, <2>3 DEF Distinct
  <2> QED
    BY <2>3, <2>4, <2>5 DEF ToSet
<1> QED
  BY <1>1, <1>2

\* The message XADD makes is one that nothing refers to.
LEMMA NewMessage ==
  ASSUME TypeInv, FreshIds # {}, NEW e \in Events
  PROVE  /\ [event |-> e, id |-> Min(FreshIds)] \in Messages
         /\ \A m \in Outstanding \cup {worker.msg, relay.msg} :
               m.id # Min(FreshIds)
<1>1. Min(FreshIds) \in FreshIds
  BY MinInSet DEF FreshIds
<1> QED
  BY <1>1 DEF FreshIds, Messages

-----------------------------------------------------------------------------
(* Types.                                                                  *)

\* The empty system is well typed.
LEMMA InitTypeInv == Init => TypeInv
BY StreamAssumption
   DEF Init, TypeInv, TypeOK, ActorsOK, IdleRelay, IdleWorker, NothingWritten,
       RowStates, RelayStates, WorkerStates, EffectCap, FaultKinds

\* Every step keeps the types, one step per action.
LEMMA NextTypeInv ==
  ASSUME TypeInv, Next
  PROVE  TypeInv'
<1> USE StreamAssumption
    DEF TypeInv, TypeOK, ActorsOK, RowStates, RelayStates, WorkerStates,
        relayVars, redisVars, workerVars
<1>1. NoMessage \notin Messages /\ ToSet(queue) \subseteq Messages
  BY QueueContents DEF NoMessage, Messages
<1>2. ASSUME NEW kind \in FaultKinds, Fault(kind) PROVE faults' \subseteq FaultKinds
  BY <1>2 DEF Fault
<1>3. ASSUME NEW e \in Events, Record(e) PROVE TypeInv'
  BY <1>3 DEF Record
<1>4. ASSUME RelayList PROVE TypeInv'
  BY <1>4 DEF RelayList
<1>5. ASSUME NEW e \in Events, Reserve(e) PROVE TypeInv'
  BY <1>5 DEF Reserve
<1>6. ASSUME AddToStream PROVE TypeInv'
  <2> DEFINE msg == [event |-> relay.event, id |-> Min(FreshIds)]
  <2>1. msg \in Messages /\ msg.event = relay.event
    BY <1>6, NewMessage DEF AddToStream
  <2> HIDE DEF msg
  <2>2. /\ relay.at = "adding"
        /\ queue' = Append(queue, msg)
        /\ relay' = [relay EXCEPT !.at = "recording", !.msg = msg]
        /\ UNCHANGED <<row, relayRows, reserved, keyed, pel, group, workerVars, faults>>
    BY <1>6 DEF AddToStream, msg
  <2>3. queue' \in Seq(Messages)
    BY <2>1, <2>2
  <2> QED
    BY <2>1, <2>2, <2>3
<1>7. ASSUME PublishFails PROVE TypeInv'
  <2>1. queue' \in Seq(Messages)
    <3> DEFINE msg == [event |-> relay.event, id |-> Min(FreshIds)]
    <3>1. relay.event \in Events
      BY <1>7 DEF PublishFails
    <3>2. ASSUME FreshIds # {} PROVE msg \in Messages
      BY <3>1, <3>2, NewMessage
    <3> HIDE DEF msg
    <3>3. \/ queue' = queue
          \/ FreshIds # {} /\ queue' = Append(queue, msg)
      BY <1>7 DEF PublishFails, msg
    <3>4. queue \in Seq(Messages)
      OBVIOUS
    <3> QED
      BY ONLY <3>2, <3>3, <3>4
  <2>2. faults' \subseteq FaultKinds
    BY <1>7, <1>2 DEF PublishFails, FaultKinds
  <2> QED
    BY <1>7, <2>1, <2>2 DEF PublishFails, IdleRelay, NothingWritten
<1>8. ASSUME RecordIds PROVE TypeInv'
  BY <1>8 DEF RecordIds
<1>9. ASSUME SelectRow PROVE TypeInv'
  BY <1>9 DEF SelectRow
<1>10. ASSUME UpdateRow PROVE TypeInv'
  BY <1>10 DEF UpdateRow
<1>11. ASSUME RelayCommit PROVE TypeInv'
  BY <1>11 DEF RelayCommit, IdleRelay, NothingWritten
<1>12. ASSUME RelayCrash PROVE TypeInv'
  BY <1>12, <1>2 DEF RelayCrash, IdleRelay, NothingWritten, FaultKinds
<1>13. ASSUME Poll PROVE TypeInv'
  BY <1>1, <1>13 DEF Poll, Receive
<1>14. ASSUME NEW msg \in pel, Reclaim(msg) PROVE TypeInv'
  BY <1>1, <1>14 DEF Reclaim, Receive
<1>15. ASSUME Handle PROVE TypeInv'
  BY <1>15 DEF Handle, EffectCap, Messages
<1>16. ASSUME AckRow PROVE TypeInv'
  BY <1>16 DEF AckRow, Messages
<1>17. ASSUME Xack PROVE TypeInv'
  <2>1. worker.msg \in Messages /\ worker.msg.event \in Events
    BY <1>17 DEF Xack, Messages
  <2>2. CASE worker.msg \in pel
    BY <1>17, <2>1, <2>2 DEF Xack
  <2>3. CASE worker.msg \notin pel
    BY <1>17, <2>1, <2>3 DEF Xack, IdleWorker
  <2> QED
    BY <2>2, <2>3
<1>18. ASSUME Clean PROVE TypeInv'
  BY <1>18 DEF Clean, IdleWorker, Messages
<1>19. ASSUME WorkerStepFails PROVE TypeInv'
  BY <1>19, <1>2 DEF WorkerStepFails, IdleWorker, FaultKinds
<1>20. ASSUME WorkerCrash PROVE TypeInv'
  BY <1>20, <1>2 DEF WorkerCrash, IdleWorker, FaultKinds
<1>21. ASSUME RedisRestart PROVE TypeInv'
  <2>1. queue' \in Seq(Messages) /\ faults' \subseteq FaultKinds
    BY <1>21, <1>2 DEF RedisRestart, FaultKinds
  <2> QED
    BY <1>21, <2>1 DEF RedisRestart
<1> QED
  BY <1>3, <1>4, <1>5, <1>6, <1>7, <1>8, <1>9, <1>10, <1>11, <1>12, <1>13,
     <1>14, <1>15, <1>16, <1>17, <1>18, <1>19, <1>20, <1>21
     DEF Next, RelayStep, WorkerStep, ReclaimAny

-----------------------------------------------------------------------------
(* The invariant holds in the beginning and is kept by every step.         *)

\* The empty system satisfies the invariant.
LEMMA InitIInv == Init => IInv
<1> SUFFICES ASSUME Init PROVE IInv
  OBVIOUS
<1>1. ToSet(queue) = {}
  BY DEF Init, ToSet
<1>2. TypeInv
  BY InitTypeInv
<1> QED
  BY <1>1, <1>2
     DEF Init, IInv, HandledInv, HandledBeforeProcessed, OnceInv,
         ReservedIsOnItsWay, KeysInv, KeysOK, Distinct, Outstanding, IdleRelay,
         IdleWorker, NothingWritten

\* The handler's commit is counted for its event and loses no other count.
LEMMA HandleCounts ==
  ASSUME TypeInv, Handle
  PROVE  /\ \A e \in Events : effects[e] > 0 => effects'[e] > 0
         /\ effects'[worker.msg.event] > 0
<1>1. worker.msg.event \in Events /\ effects \in [Events -> 0 .. 2]
  BY DEF TypeInv, TypeOK, ActorsOK, Handle, Messages, EffectCap
<1>2. effects' = [effects EXCEPT ![worker.msg.event] = IF @ < 2 THEN @ + 1 ELSE @]
  BY DEF Handle, EffectCap
<1> QED
  BY <1>1, <1>2

\* No step calls an event handled or its row processed too early.
LEMMA NextHandledInv ==
  ASSUME TypeInv, HandledInv, Next
  PROVE  HandledInv'
<1> USE DEF TypeInv, TypeOK, ActorsOK, HandledInv, HandledBeforeProcessed,
        relayVars, redisVars, workerVars, Messages
<1>1. ASSUME NEW e \in Events, Record(e) PROVE HandledInv'
  BY <1>1 DEF Record
<1>2. ASSUME RelayList PROVE HandledInv'
  BY <1>2 DEF RelayList
<1>3. ASSUME NEW e \in Events, Reserve(e) PROVE HandledInv'
  BY <1>3 DEF Reserve
<1>4. ASSUME AddToStream PROVE HandledInv'
  BY <1>4 DEF AddToStream
<1>5. ASSUME PublishFails PROVE HandledInv'
  BY <1>5 DEF PublishFails, IdleRelay, NothingWritten
<1>6. ASSUME RecordIds PROVE HandledInv'
  BY <1>6 DEF RecordIds
<1>7. ASSUME SelectRow PROVE HandledInv'
  BY <1>7 DEF SelectRow
<1>8. ASSUME UpdateRow PROVE HandledInv'
  BY <1>8 DEF UpdateRow
<1>9. ASSUME RelayCommit PROVE HandledInv'
  BY <1>9 DEF RelayCommit, IdleRelay, NothingWritten
<1>10. ASSUME RelayCrash PROVE HandledInv'
  BY <1>10 DEF RelayCrash, IdleRelay, NothingWritten
<1>11. ASSUME Poll PROVE HandledInv'
  BY <1>11 DEF Poll, Receive
<1>12. ASSUME NEW msg \in pel, Reclaim(msg) PROVE HandledInv'
  BY <1>12 DEF Reclaim, Receive
<1>13. ASSUME Handle PROVE HandledInv'
  BY <1>13, HandleCounts DEF Handle
<1>14. ASSUME AckRow PROVE HandledInv'
  BY <1>14 DEF AckRow
<1>15. ASSUME Xack PROVE HandledInv'
  <2>1. effects[worker.msg.event] > 0 /\ UNCHANGED <<row, relay, relayRows, effects>>
    BY <1>15 DEF Xack
  <2>2. handled' \subseteq handled \cup {worker.msg.event}
    BY <1>15 DEF Xack
  <2>3. worker'.at = "idle" \/ (worker'.at = "cleaning" /\ worker'.msg = worker.msg)
    BY <1>15 DEF Xack, IdleWorker
  <2> QED
    BY <2>1, <2>2, <2>3
<1>16. ASSUME Clean PROVE HandledInv'
  <2>1. effects[worker.msg.event] > 0 /\ UNCHANGED <<row, relay, relayRows, effects>>
    BY <1>16 DEF Clean
  <2>2. handled' \subseteq handled \cup {worker.msg.event} /\ worker'.at = "idle"
    BY <1>16 DEF Clean, IdleWorker
  <2> QED
    BY <2>1, <2>2
<1>17. ASSUME WorkerStepFails PROVE HandledInv'
  BY <1>17 DEF WorkerStepFails, IdleWorker
<1>18. ASSUME WorkerCrash PROVE HandledInv'
  BY <1>18 DEF WorkerCrash, IdleWorker
<1>19. ASSUME RedisRestart PROVE HandledInv'
  BY <1>19 DEF RedisRestart
<1> QED
  BY <1>1, <1>2, <1>3, <1>4, <1>5, <1>6, <1>7, <1>8, <1>9, <1>10, <1>11, <1>12,
     <1>13, <1>14, <1>15, <1>16, <1>17, <1>18, <1>19
     DEF Next, RelayStep, WorkerStep, ReclaimAny

\* Only the worker's steps change what OnceInv speaks of.
LEMMA NextOnceInv ==
  ASSUME TypeInv, OnceInv, Next
  PROVE  OnceInv'
<1> USE DEF TypeInv, TypeOK, ActorsOK, OnceInv, relayVars, redisVars, workerVars
<1>0. worker.at # "idle" => worker.msg \in Messages /\ worker.msg.event \in Events
  BY DEF Messages
<1>1. ASSUME UNCHANGED workerVars, faults \subseteq faults' PROVE OnceInv'
  BY <1>1
<1>2. ASSUME RelayStep \/ PublishFails \/ RelayCrash \/ RedisRestart
             \/ \E e \in Events : Record(e)
      PROVE  UNCHANGED workerVars /\ faults \subseteq faults'
  BY <1>2
     DEF RelayStep, RelayList, AddToStream, RecordIds, SelectRow, UpdateRow,
         RelayCommit, Reserve, PublishFails, RelayCrash, RedisRestart, Record, Fault
<1>3. ASSUME Poll PROVE OnceInv'
  <2>1. Head(queue) \in Messages
    BY <1>3 DEF Poll
  <2>2. Head(queue).event \in Events
    BY <2>1 DEF Messages
  <2> QED
    BY <1>3, <2>1, <2>2 DEF Poll, Receive
<1>4. ASSUME NEW msg \in pel, Reclaim(msg) PROVE OnceInv'
  BY <1>4 DEF Reclaim, Receive, Messages
<1>5. ASSUME Handle PROVE OnceInv'
  BY <1>0, <1>5 DEF Handle, EffectCap
<1>6. ASSUME AckRow PROVE OnceInv'
  BY <1>6 DEF AckRow
<1>7. ASSUME Xack PROVE OnceInv'
  <2>1. CASE worker.msg \in pel
    BY <1>0, <1>7, <2>1 DEF Xack
  <2>2. CASE worker.msg \notin pel
    BY <1>0, <1>7, <2>2 DEF Xack, IdleWorker
  <2> QED
    BY <2>1, <2>2
<1>8. ASSUME Clean PROVE OnceInv'
  BY <1>0, <1>8 DEF Clean, IdleWorker
<1>9. ASSUME WorkerStepFails \/ WorkerCrash PROVE OnceInv'
  BY <1>9 DEF WorkerStepFails, WorkerCrash, Fault
<1> QED
  BY <1>1, <1>2, <1>3, <1>4, <1>5, <1>6, <1>7, <1>8, <1>9
     DEF Next, WorkerStep, ReclaimAny

\* A key that is set is followed by the XADD, and a message only leaves the
\* stream after its handler has run.
LEMMA NextReservedIsOnItsWay ==
  ASSUME TypeInv, HandledInv, ReservedIsOnItsWay, Next
  PROVE  ReservedIsOnItsWay'
<1> USE DEF TypeInv, TypeOK, ActorsOK, ReservedIsOnItsWay, Outstanding, relayVars,
        redisVars, workerVars, Messages
<1>1. ASSUME NEW e \in Events, Record(e) PROVE ReservedIsOnItsWay'
  BY <1>1 DEF Record
<1>2. ASSUME RelayList PROVE ReservedIsOnItsWay'
  BY <1>2 DEF RelayList
<1>3. ASSUME NEW e \in Events, Reserve(e) PROVE ReservedIsOnItsWay'
  BY <1>3 DEF Reserve
<1>4. ASSUME AddToStream PROVE ReservedIsOnItsWay'
  <2> DEFINE msg == [event |-> relay.event, id |-> Min(FreshIds)]
  <2>1. ToSet(Append(queue, msg)) = ToSet(queue) \cup {msg} /\ msg.event = relay.event
    BY QueueContents
  <2> HIDE DEF msg
  <2>2. /\ relay.at = "adding"
        /\ queue' = Append(queue, msg)
        /\ UNCHANGED <<row, reserved, pel, effects, faults>>
    BY <1>4 DEF AddToStream, msg
  <2> QED
    BY <2>1, <2>2
<1>5. ASSUME PublishFails PROVE ReservedIsOnItsWay'
  <2>1. ToSet(queue) \subseteq ToSet(queue')
    <3> DEFINE msg == [event |-> relay.event, id |-> Min(FreshIds)]
    <3>1. ToSet(Append(queue, msg)) = ToSet(queue) \cup {msg}
      BY QueueContents
    <3> HIDE DEF msg
    <3>2. queue' = queue \/ queue' = Append(queue, msg)
      BY <1>5 DEF PublishFails, msg
    <3> QED
      BY <3>1, <3>2
  <2>2. /\ relay.at = "adding" /\ reserved' = reserved \ {relay.event}
        /\ faults \subseteq faults'
        /\ UNCHANGED <<row, pel, effects>>
    BY <1>5 DEF PublishFails, Fault
  <2> QED
    BY <2>1, <2>2
<1>6. ASSUME RecordIds PROVE ReservedIsOnItsWay'
  BY <1>6 DEF RecordIds
<1>7. ASSUME SelectRow PROVE ReservedIsOnItsWay'
  BY <1>7 DEF SelectRow
<1>8. ASSUME UpdateRow PROVE ReservedIsOnItsWay'
  BY <1>8 DEF UpdateRow
<1>9. ASSUME RelayCommit PROVE ReservedIsOnItsWay'
  <2>1. \A e \in reserved : row'[e] = "unprocessed" /\ effects[e] = 0
                               => row[e] = "unprocessed"
    BY <1>9 DEF RelayCommit, HandledInv, HandledBeforeProcessed, RowStates
  <2>2. relay.at = "choosing" /\ UNCHANGED <<reserved, queue, pel, effects, faults>>
    BY <1>9 DEF RelayCommit
  <2> QED
    BY <2>1, <2>2
<1>10. ASSUME RelayCrash PROVE ReservedIsOnItsWay'
  BY <1>10 DEF RelayCrash, Fault
<1>11. ASSUME Poll PROVE ReservedIsOnItsWay'
  BY <1>11, QueueContents DEF Poll
<1>12. ASSUME NEW msg \in pel, Reclaim(msg) PROVE ReservedIsOnItsWay'
  BY <1>12 DEF Reclaim
<1>13. ASSUME Handle PROVE ReservedIsOnItsWay'
  BY <1>13 DEF Handle, EffectCap
<1>14. ASSUME AckRow PROVE ReservedIsOnItsWay'
  BY <1>14 DEF AckRow
<1>15. ASSUME Xack PROVE ReservedIsOnItsWay'
  BY <1>15 DEF Xack, HandledInv
<1>16. ASSUME Clean PROVE ReservedIsOnItsWay'
  BY <1>16 DEF Clean
<1>17. ASSUME WorkerStepFails PROVE ReservedIsOnItsWay'
  BY <1>17 DEF WorkerStepFails, Fault
<1>18. ASSUME WorkerCrash PROVE ReservedIsOnItsWay'
  BY <1>18 DEF WorkerCrash, Fault
<1>19. ASSUME RedisRestart PROVE ReservedIsOnItsWay'
  BY <1>19 DEF RedisRestart, Fault
<1> QED
  BY <1>1, <1>2, <1>3, <1>4, <1>5, <1>6, <1>7, <1>8, <1>9, <1>10, <1>11, <1>12,
     <1>13, <1>14, <1>15, <1>16, <1>17, <1>18, <1>19
     DEF Next, RelayStep, WorkerStep, ReclaimAny

\* XADD while the relay adds an event: the queue stays without repetitions and
\* the new message is the only one of its event.
LEMMA AddKeepsKeys ==
  ASSUME TypeInv, KeysOK, AddToStream
  PROVE  KeysOK'
<1> DEFINE msg == [event |-> relay.event, id |-> Min(FreshIds)]
<1>1. msg.event = relay.event
  OBVIOUS
<1>2. ToSet(Append(queue, msg)) = ToSet(queue) \cup {msg}
  BY QueueContents DEF TypeInv, TypeOK
<1>3. msg \notin ToSet(queue) => Distinct(Append(queue, msg))
  BY QueueDistinct DEF TypeInv, TypeOK, KeysOK
<1>4. /\ relay.at = "adding"
      /\ queue' = Append(queue, msg)
      /\ relay' = [relay EXCEPT !.at = "recording", !.msg = msg]
      /\ UNCHANGED <<reserved, keyed, pel, worker>>
  BY DEF AddToStream, workerVars
<1> HIDE DEF msg
<1>5. \A m \in Outstanding \cup keyed : m.event # relay.event
  BY <1>4 DEF KeysOK
<1>6. msg \notin Outstanding /\ Outstanding' = Outstanding \cup {msg}
  BY <1>1, <1>2, <1>4, <1>5 DEF Outstanding
<1>7. relay'.at = "recording" /\ relay'.event = relay.event
  BY <1>4 DEF TypeInv, TypeOK
<1>8. relay.event \in reserved
  BY <1>4 DEF KeysOK
<1>9. Distinct(queue') /\ ToSet(queue') \cap pel' = {}
  BY <1>2, <1>3, <1>4, <1>6 DEF Outstanding, KeysOK
<1> QED
  BY <1>1, <1>4, <1>5, <1>6, <1>7, <1>8, <1>9 DEF KeysOK

\* The message -> event key is set for a message that still counts.
LEMMA RecordKeepsKeys ==
  ASSUME TypeInv, KeysOK, RecordIds
  PROVE  KeysOK'
<1>1. /\ relay.at = "recording" /\ relay'.at = "selecting"
      /\ UNCHANGED <<queue, pel, reserved, worker>>
  BY DEF RecordIds, workerVars, TypeInv, TypeOK
<1>2. relay.msg.event = relay.event /\ relay.msg # NoMessage
  BY <1>1, StreamAssumption DEF TypeInv, ActorsOK, Messages, NoMessage
<1>3. \A m \in keyed : m.event # relay.msg.event
  BY <1>1, <1>2 DEF KeysOK
<1>4. ASSUME NEW m \in keyed' PROVE m \in keyed \/ m = relay.msg
  BY <1>4 DEF RecordIds
<1>5. relay.msg \in keyed' => relay.msg.event \in reserved
  <2>1. CASE relay.msg \in Outstanding
    BY <2>1 DEF KeysOK
  <2>2. CASE relay.msg = worker.msg
    <3>1. worker.at \in {"handling", "acking", "xacking", "cleaning"}
      BY <1>2, <2>2 DEF TypeInv, TypeOK, ActorsOK, WorkerStates
    <3> QED
      BY <2>2, <3>1 DEF KeysOK, Outstanding
  <2>3. CASE relay.msg \in keyed
    BY <2>3 DEF KeysOK
  <2> QED
    BY <2>1, <2>2, <2>3 DEF RecordIds
<1> QED
  BY <1>1, <1>3, <1>4, <1>5 DEF KeysOK, Outstanding

\* The worker takes the first message of the queue.
LEMMA PollKeepsKeys ==
  ASSUME TypeInv, KeysOK, Poll
  PROVE  KeysOK'
<1>1. /\ queue' = Tail(queue) /\ pel' = pel \cup {Head(queue)}
      /\ worker' = [at |-> worker'.at, msg |-> Head(queue)]
      /\ worker'.at \in {"handling", "xacking"}
      /\ UNCHANGED <<relay, reserved, keyed>>
  BY DEF Poll, Receive, relayVars
<1>2. ToSet(queue) = ToSet(queue') \cup {Head(queue)}
  BY <1>1, QueueContents DEF Poll, TypeInv, TypeOK
<1>3. Distinct(queue') /\ Head(queue) \notin ToSet(queue')
  BY <1>1, QueueDistinct DEF Poll, TypeInv, TypeOK, KeysOK
<1>4. Outstanding' = Outstanding /\ ToSet(queue') \cap pel' = {}
  BY <1>1, <1>2, <1>3 DEF Outstanding, KeysOK
<1> QED
  BY <1>1, <1>3, <1>4 DEF KeysOK

\* After XACK nothing of the event is left in the stream.
LEMMA XackKeepsKeys ==
  ASSUME TypeInv, KeysOK, Xack
  PROVE  KeysOK'
<1>1. worker.at = "xacking" /\ worker.msg \in pel
  BY DEF Xack, KeysOK
<1>2. /\ worker'.at = "cleaning" /\ worker'.msg = worker.msg
      /\ pel' = pel \ {worker.msg}
      /\ UNCHANGED <<relay, reserved, keyed, queue>>
  BY <1>1 DEF Xack, relayVars, TypeInv, TypeOK
<1>3. worker.msg \in Outstanding /\ Outstanding' = Outstanding \ {worker.msg}
  BY <1>1, <1>2 DEF Outstanding, KeysOK
<1> QED
  BY <1>1, <1>2, <1>3 DEF KeysOK

\* The dedup key that is deleted belongs to no message of the stream, and its
\* message is the only one known by an id.
LEMMA CleanKeepsKeys ==
  ASSUME TypeInv, KeysOK, Clean
  PROVE  KeysOK'
<1>1. /\ worker.at = "cleaning" /\ worker'.at = "idle"
      /\ keyed' = keyed \ {worker.msg}
      /\ UNCHANGED <<relay, queue, pel>>
  BY DEF Clean, IdleWorker, relayVars
<1>2. Outstanding' = Outstanding
  BY <1>1 DEF Outstanding
<1>3. CASE worker.msg \in keyed
  BY <1>1, <1>2, <1>3 DEF Clean, KeysOK
<1>4. CASE worker.msg \notin keyed
  BY <1>1, <1>2, <1>4 DEF Clean, KeysOK
<1> QED
  BY <1>3, <1>4

\* Every step keeps the agreement of keys and stream, as long as no answer was
\* lost and Redis kept its data.
LEMMA NextKeysInv ==
  ASSUME TypeInv, KeysInv, Next
  PROVE  KeysInv'
<1>1. faults \subseteq faults'
  BY DEF Next, RelayStep, WorkerStep, ReclaimAny, Record, RelayList, Reserve,
         AddToStream, PublishFails, RecordIds, SelectRow, UpdateRow, RelayCommit,
         RelayCrash, Poll, Reclaim, Handle, AckRow, Xack, Clean, WorkerStepFails,
         WorkerCrash, RedisRestart, Fault
<1> SUFFICES ASSUME {"answer", "redis"} \cap faults' = {}
             PROVE  KeysOK'
  BY DEF KeysInv
<1>2. KeysOK
  BY <1>1 DEF KeysInv
<1> USE <1>2 DEF TypeInv, TypeOK, relayVars, redisVars, workerVars
<1>3. ASSUME NEW e \in Events, Record(e) PROVE KeysOK'
  BY <1>3 DEF Record, KeysOK, Outstanding
<1>4. ASSUME RelayList PROVE KeysOK'
  BY <1>4 DEF RelayList, KeysOK, Outstanding
<1>5. ASSUME NEW e \in Events, Reserve(e) PROVE KeysOK'
  BY <1>5 DEF Reserve, KeysOK, Outstanding
<1>6. ASSUME AddToStream PROVE KeysOK'
  BY <1>6, AddKeepsKeys
<1>7. ASSUME PublishFails PROVE KeysOK'
  <2>1. /\ relay.at = "adding" /\ relay'.at = "idle"
        /\ reserved' = reserved \ {relay.event}
        /\ UNCHANGED <<queue, pel, keyed, worker>>
    BY <1>7 DEF PublishFails, Fault, IdleRelay
  <2> QED
    BY <2>1 DEF KeysOK, Outstanding
<1>8. ASSUME RecordIds PROVE KeysOK'
  BY <1>8, RecordKeepsKeys
<1>9. ASSUME SelectRow PROVE KeysOK'
  BY <1>9 DEF SelectRow, KeysOK, Outstanding
<1>10. ASSUME UpdateRow PROVE KeysOK'
  BY <1>10 DEF UpdateRow, KeysOK, Outstanding
<1>11. ASSUME RelayCommit \/ RelayCrash PROVE KeysOK'
  BY <1>11 DEF RelayCommit, RelayCrash, IdleRelay, KeysOK, Outstanding
<1>12. ASSUME Poll PROVE KeysOK'
  BY <1>12, PollKeepsKeys
<1>13. ASSUME NEW msg \in pel, Reclaim(msg) PROVE KeysOK'
  BY <1>13 DEF Reclaim, Receive, KeysOK, Outstanding
<1>14. ASSUME Handle PROVE KeysOK'
  BY <1>14 DEF Handle, KeysOK, Outstanding
<1>15. ASSUME AckRow PROVE KeysOK'
  BY <1>15 DEF AckRow, KeysOK, Outstanding
<1>16. ASSUME Xack PROVE KeysOK'
  BY <1>16, XackKeepsKeys
<1>17. ASSUME Clean PROVE KeysOK'
  BY <1>17, CleanKeepsKeys
<1>18. ASSUME WorkerStepFails \/ WorkerCrash PROVE KeysOK'
  BY <1>18 DEF WorkerStepFails, WorkerCrash, IdleWorker, KeysOK, Outstanding
<1>19. ASSUME RedisRestart PROVE FALSE
  BY <1>19 DEF RedisRestart, Fault
<1> QED
  BY <1>3, <1>4, <1>5, <1>6, <1>7, <1>8, <1>9, <1>10, <1>11, <1>12, <1>13,
     <1>14, <1>15, <1>16, <1>17, <1>18, <1>19
     DEF Next, RelayStep, WorkerStep, ReclaimAny

\* The invariant speaks of the variables only.
LEMMA StutterIInv == IInv /\ UNCHANGED vars => IInv'
BY DEF IInv, TypeInv, TypeOK, ActorsOK, HandledInv, HandledBeforeProcessed,
       OnceInv, ReservedIsOnItsWay, KeysInv, KeysOK, Distinct, Outstanding, vars,
       relayVars, redisVars, workerVars

-----------------------------------------------------------------------------
(* The theorems.                                                           *)

\* The inductive invariant holds in every reachable state, however many rows
\* there are and whichever faults meet.
THEOREM Invariance == Spec => []IInv
<1>1. IInv /\ [Next]_vars => IInv'
  BY NextTypeInv, NextHandledInv, NextOnceInv, NextReservedIsOnItsWay, NextKeysInv,
     StutterIInv
     DEF IInv
<1> QED
  BY InitIInv, <1>1, PTL DEF Spec

\* The variables keep their types.
THEOREM TypeCorrect == Spec => []TypeOK
<1>1. IInv => TypeOK
  BY DEF IInv, TypeInv
<1> QED
  BY Invariance, <1>1, PTL

\* mark_outbox_processed and the relay's whole-row write never make a row
\* processed whose handler has not committed.
THEOREM NothingProcessedUnhandled == Spec => []HandledBeforeProcessed
<1>1. IInv => HandledBeforeProcessed
  BY DEF IInv, HandledInv
<1> QED
  BY Invariance, <1>1, PTL

\* The dedup key of publish_event allows one message of an event in the stream,
\* unless an answer of Redis is lost or Redis comes back empty.
THEOREM OneMessageOutstanding == Spec => []OneOutstanding
<1>1. IInv => OneOutstanding
  BY DEF IInv, KeysInv, KeysOK, OneOutstanding, Distinct
<1> QED
  BY Invariance, <1>1, PTL

\* StreamConsumer._handled_event_ids: a handler commits once unless the worker
\* dies or one of its steps raises.
THEOREM HandledOnce == Spec => []EffectsOnce
<1>1. IInv => EffectsOnce
  BY DEF IInv, TypeInv, TypeOK, OnceInv, EffectsOnce
<1> QED
  BY Invariance, <1>1, PTL

\* A dedup key never keeps an event from the stream unless the relay died
\* between the key and its XADD.
THEOREM KeyStandsForMessage == Spec => []ReservedIsOnItsWay
<1>1. IInv => ReservedIsOnItsWay
  BY DEF IInv
<1> QED
  BY Invariance, <1>1, PTL
-----------------------------------------------------------------------------
(* InteractiveWorker: types.                                               *)

Failures == [trigger : Triggers, retry : 0 .. RetryLimit]
Locks == {"free", "turn", "render", "stale"}
TurnRows == [disp : {"absent", "active", "pending", "closed", "superseded", "failed"},
             from : 0 .. MaxSeq, to : 0 .. MaxSeq, era : 0 .. MaxCrashes]
Tasks == [trigger : Triggers \cup {NoTrigger}, retry : 0 .. RetryLimit, at : TaskStates]

WorkerFlags ==
    /\ event \in [InboundTriggers -> {"absent", "ready", "acked"}]
    /\ pending \in Triggers \cup {NoTrigger}
    /\ completed \in BOOLEAN
    /\ phase \in Phases
    /\ lock \in Locks

WorkerCounters ==
    /\ latest \in 0 .. MaxSeq
    /\ lastClosed \in 0 .. MaxSeq
    /\ crashes \in 0 .. MaxCrashes
    /\ failed \in 0 .. MaxFailures
    /\ redelivered \in 0 .. MaxRedeliveries
    /\ timeouts \in 0 .. MaxTimeouts
    /\ phase = "down" => crashes > 0

\* A task has a trigger.
WorkerTypeInv ==
    /\ WorkerFlags
    /\ WorkerCounters
    /\ turn \in [Triggers -> TurnRows]
    /\ active \in Tasks
    /\ failures \in Seq(Failures)
    /\ active.at # "none" => active.trigger \in Triggers
    /\ active.at = "none" => active = NoTurn

LEMMA WorkerTypes == WorkerTypeInv => WorkerTypeOK
BY DEF WorkerTypeInv, WorkerFlags, WorkerCounters, WorkerTypeOK, TurnRows, Tasks, Failures, Locks

LEMMA TriggerNumbers ==
  /\ InboundTriggers \subseteq Triggers /\ Triggers \subseteq Nat \ {0}
  /\ \A n \in 1 .. MaxCrashes : MaxSeq + n \in Triggers
BY WorkerAssumption DEF InboundTriggers, Triggers

\* A task that moves on keeps its trigger and its retry count.
LEMMA TaskMoves ==
  ASSUME WorkerTypeInv, active.at # "none",
         NEW s \in TaskStates \ {"none"}, GotoTask(s)
  PROVE  /\ active' \in Tasks /\ active'.at = s
         /\ active'.trigger = active.trigger /\ active'.retry = active.retry
         /\ active'.trigger \in Triggers
BY DEF WorkerTypeInv, Tasks, GotoTask

\* A submitted task is about to start.
LEMMA TaskStarts ==
  ASSUME NEW t \in Triggers, NEW r \in 0 .. RetryLimit
  PROVE  /\ Started(t, r) \in Tasks /\ Started(t, r).at = "starting"
         /\ Started(t, r).trigger = t /\ Started(t, r).retry = r
BY DEF Started, Tasks, TaskStates

LEMMA NoTask == NoTurn \in Tasks /\ NoTurn.at = "none" /\ NoTurn.trigger = NoTrigger /\ NoTurn.retry = 0
BY DEF NoTurn, Tasks, TaskStates, RetryLimit

Dispositions == {"pending", "closed", "superseded", "failed"}

\* What a step may do to the row of a trigger that exists: a disposition other
\* than pending is final, and the rest of the row stays.
RowKept(t) ==
    /\ turn'[t].from = turn[t].from /\ turn'[t].to = turn[t].to /\ turn'[t].era = turn[t].era
    /\ turn'[t].disp = "absent" <=> turn[t].disp = "absent"
    /\ turn'[t].disp \in Live => turn[t].disp \in Live
    /\ turn'[t].disp = "active" => turn[t].disp = "active"
    /\ turn[t].disp \notin Live => turn'[t].disp = turn[t].disp

\* Settling changes the disposition of the live row of the task, nothing else.
LEMMA SettledRows ==
  ASSUME WorkerTypeInv, NEW d \in Dispositions
  PROVE  /\ Settled(d) \in [Triggers -> TurnRows]
         /\ \A t \in Triggers :
               /\ Settled(d)[t].from = turn[t].from /\ Settled(d)[t].to = turn[t].to
               /\ Settled(d)[t].era = turn[t].era
               /\ Settled(d)[t].disp = IF t = active.trigger /\ turn[t].disp \in Live
                                          THEN d ELSE turn[t].disp
<1> USE TriggerNumbers DEF WorkerTypeInv, TurnRows, Dispositions
<1>1. CASE active.trigger # NoTrigger /\ turn[active.trigger].disp \in Live
  <2>1. active.trigger \in Triggers
    BY <1>1 DEF NoTurn, Tasks
  <2> QED
    BY <1>1, <2>1 DEF Settled
<1>2. CASE ~(active.trigger # NoTrigger /\ turn[active.trigger].disp \in Live)
  BY <1>2 DEF Settled, NoTrigger
<1> QED
  BY <1>1, <1>2

\* A cancellation supersedes the active row of the task, nothing else.
LEMMA InterruptedRows ==
  ASSUME WorkerTypeInv
  PROVE  /\ Interrupted \in [Triggers -> TurnRows]
         /\ \A t \in Triggers :
               /\ Interrupted[t].from = turn[t].from /\ Interrupted[t].to = turn[t].to
               /\ Interrupted[t].era = turn[t].era
               /\ \/ Interrupted[t].disp = turn[t].disp
                  \/ turn[t].disp = "active" /\ Interrupted[t].disp = "superseded"
<1> USE DEF WorkerTypeInv, TurnRows
<1>1. CASE active.at \in Cancellable /\ turn[active.trigger].disp = "active"
  <2>1. active.trigger \in Triggers
    BY <1>1 DEF Cancellable
  <2> QED
    BY <1>1, <2>1 DEF Interrupted
<1>2. CASE ~(active.at \in Cancellable /\ turn[active.trigger].disp = "active")
  BY <1>2 DEF Interrupted
<1> QED
  BY <1>1, <1>2

\* The relay's mark changes the disposition of one active row, nothing else.
LEMMA MarkedRows ==
  ASSUME WorkerTypeInv, NEW t \in Triggers, MarkSlow(t)
  PROVE  /\ turn' \in [Triggers -> TurnRows]
         /\ turn[t].disp = "active"
         /\ turn'[t].disp = IF turn[t].from = lastClosed + 1 THEN "pending" ELSE "superseded"
         /\ turn'[t].from = turn[t].from /\ turn'[t].to = turn[t].to
         /\ turn'[t].era = turn[t].era
         /\ \A u \in Triggers \ {t} : turn'[u] = turn[u]
BY DEF MarkSlow, WorkerTypeInv, TurnRows

\* Collecting an ended task appends its trigger if it failed.
LEMMA Collecting ==
  ASSUME WorkerTypeInv
  PROVE  /\ CollectedFailures \in Seq(Failures)
         /\ Len(CollectedFailures) = IF active.at = "failed" THEN Len(failures) + 1 ELSE Len(failures)
         /\ DOMAIN failures \subseteq DOMAIN CollectedFailures
         /\ \A i \in DOMAIN failures : CollectedFailures[i] = failures[i]
         /\ active.at = "failed" =>
               /\ Len(failures) + 1 \in DOMAIN CollectedFailures
               /\ CollectedFailures[Len(failures) + 1]
                     = [trigger |-> active.trigger, retry |-> active.retry]
         /\ \A i \in DOMAIN CollectedFailures :
               i \in DOMAIN failures \/ (active.at = "failed" /\ i = Len(failures) + 1)
<1>1. failures \in Seq(Failures) /\ active \in Tasks
  BY DEF WorkerTypeInv
<1>2. CASE active.at = "failed"
  <2> DEFINE x == [trigger |-> active.trigger, retry |-> active.retry]
  <2>1. x \in Failures
    BY <1>1, <1>2 DEF WorkerTypeInv, Failures, Tasks
  <2>2. CollectedFailures = Append(failures, x)
    BY <1>2 DEF CollectedFailures
  <2> HIDE DEF x
  <2>3. /\ CollectedFailures \in Seq(Failures) /\ Len(CollectedFailures) = Len(failures) + 1
        /\ DOMAIN failures = 1 .. Len(failures)
        /\ DOMAIN CollectedFailures = 1 .. Len(failures) + 1
        /\ \A i \in 1 .. Len(failures) : CollectedFailures[i] = failures[i]
        /\ CollectedFailures[Len(failures) + 1] = x
        /\ Len(failures) \in Nat
    BY <1>1, <2>1, <2>2
  <2> QED
    BY <1>2, <2>3 DEF x
<1>3. CASE active.at # "failed"
  BY <1>1, <1>3 DEF CollectedFailures
<1> QED
  BY <1>2, <1>3

\* The failure to retry is the first of those that may be.
LEMMA TheFirstRetryable ==
  ASSUME WorkerTypeInv, Retryable # {}
  PROVE  \E i \in Retryable : FirstRetryable = CollectedFailures[i] /\ FirstRetryable \in Failures
<1> DEFINE k == CHOOSE i \in Retryable : \A j \in Retryable : i <= j
<1>1. Retryable \subseteq Nat /\ CollectedFailures \in Seq(Failures)
  BY Collecting DEF Retryable
<1>2. k \in Retryable
  BY <1>1, MinInSet DEF Min
<1>3. FirstRetryable = CollectedFailures[k]
  BY DEF FirstRetryable
<1> HIDE DEF k
<1>4. CollectedFailures[k] \in Failures
  BY <1>1, <1>2 DEF Retryable
<1> QED
  BY <1>2, <1>3, <1>4

LEMMA WorkerTypeInit == WorkerInit => WorkerTypeInv
<1> SUFFICES ASSUME WorkerInit PROVE WorkerTypeInv
  OBVIOUS
<1> USE WorkerAssumption
<1>1. active \in Tasks /\ active.at = "none" /\ active = NoTurn
  BY NoTask DEF WorkerInit
<1>2. turn \in [Triggers -> TurnRows]
  BY DEF WorkerInit, NoRow, TurnRows
<1>3. failures \in Seq(Failures)
  BY DEF WorkerInit
<1>4. WorkerFlags
  BY DEF WorkerInit, WorkerFlags, Phases, Locks
<1>5. WorkerCounters
  BY DEF WorkerInit, WorkerCounters
<1> QED
  BY <1>1, <1>2, <1>3, <1>4, <1>5 DEF WorkerTypeInv

\* Submit starts trigger t, or puts it behind the delivery.
LEMMA SubmitTypes ==
  ASSUME WorkerTypeInv, NEW t \in Triggers, Submit(t, 0)
  PROVE  /\ active' \in Tasks /\ pending' \in Triggers \cup {NoTrigger}
         /\ failures' \in Seq(Failures) /\ completed' \in BOOLEAN
         /\ turn' \in [Triggers -> TurnRows]
         /\ lock' \in Locks
         /\ active'.at # "none" /\ active'.trigger \in Triggers
<1>1. Started(t, 0) \in Tasks /\ Started(t, 0).at = "starting" /\ Started(t, 0).trigger = t
  BY TaskStarts DEF RetryLimit
<1>2. Interrupted \in [Triggers -> TurnRows]
  BY InterruptedRows
<1>3. CollectedFailures \in Seq(Failures)
  BY Collecting
<1>4. CASE active.at = "delivering"
  BY <1>4 DEF Submit, WorkerTypeInv, WorkerFlags
<1>5. CASE active.at # "delivering"
  <2>1. active' = Started(t, 0) /\ pending' = NoTrigger /\ failures' = CollectedFailures
        /\ turn' = Interrupted
    BY <1>5 DEF Submit
  <2>2. completed' \in BOOLEAN /\ lock' \in Locks
    BY <1>5 DEF Submit, WorkerTypeInv, WorkerFlags, Unlocked, Locks
  <2> QED
    BY <1>1, <1>2, <1>3, <2>1, <2>2 DEF WorkerTypeInv
<1> QED
  BY <1>4, <1>5

\* Collect starts the pending trigger after an ended task.
LEMMA CollectTypes ==
  ASSUME WorkerTypeInv, Collect
  PROVE  /\ active' \in Tasks /\ pending' \in Triggers \cup {NoTrigger}
         /\ active'.at # "none" => active'.trigger \in Triggers
         /\ active'.at = "none" => active' = NoTurn
<1>1. CASE ~TaskEnded
  BY <1>1 DEF Collect, WorkerTypeInv, WorkerFlags
<1>2. CASE TaskEnded /\ pending = NoTrigger
  BY <1>2, NoTask DEF Collect
<1>3. CASE TaskEnded /\ pending \in Triggers
  BY <1>3, TaskStarts, TriggerNumbers DEF Collect, RetryLimit, NoTrigger
<1> QED
  BY <1>1, <1>2, <1>3 DEF WorkerTypeInv, WorkerFlags

LEMMA WorkerTypeStep == WorkerTypeInv /\ [WorkerNext]_interactiveVars => WorkerTypeInv'
<1> SUFFICES ASSUME WorkerTypeInv, [WorkerNext]_interactiveVars PROVE WorkerTypeInv'
  OBVIOUS
<1> USE WorkerAssumption DEF dbVars, supervisorVars, faultVars
<1>1. CASE RecordInbound
  <2>1. turn' \in [Triggers -> TurnRows]
    BY <1>1 DEF RecordInbound, WorkerTypeInv, TurnRows
  <2>2. WorkerFlags'
    BY <1>1 DEF RecordInbound, WorkerTypeInv, WorkerFlags
  <2>3. WorkerCounters'
    <3>1. latest \in 0 .. MaxSeq /\ latest < MaxSeq
      BY <1>1 DEF RecordInbound, WorkerTypeInv, WorkerCounters
    <3>2. latest + 1 \in 0 .. MaxSeq
      BY <3>1
    <3> QED
      BY <1>1, <3>2 DEF RecordInbound, WorkerTypeInv, WorkerCounters
  <2> QED
    BY <1>1, <2>1, <2>2, <2>3 DEF RecordInbound, WorkerTypeInv
<1>2. ASSUME NEW s \in InboundTriggers, HandleEvent(s) PROVE WorkerTypeInv'
  <2>1. WorkerCounters' /\ phase' \in Phases
        /\ event' \in [InboundTriggers -> {"absent", "ready", "acked"}]
    BY <1>2 DEF HandleEvent, WorkerTypeInv, WorkerFlags, WorkerCounters, Phases
  <2>2. CASE Submit(s, 0)
    BY <2>1, <2>2, SubmitTypes, TriggerNumbers DEF WorkerTypeInv, WorkerFlags
  <2>3. CASE UNCHANGED <<active, pending, failures, completed, turn, lock>>
    BY <2>1, <2>3 DEF WorkerTypeInv, WorkerFlags
  <2> QED
    BY <1>2, <2>2, <2>3 DEF HandleEvent
<1>3. CASE PollNothing \/ BeginRender \/ EndRender \/ ExpireLock
  <2>1. WorkerFlags'
    BY <1>3 DEF PollNothing, BeginRender, EndRender, ExpireLock, WorkerTypeInv, WorkerFlags,
                Phases, Locks
  <2>2. WorkerCounters'
    BY <1>3 DEF PollNothing, BeginRender, EndRender, ExpireLock, WorkerTypeInv, WorkerCounters
  <2> QED
    BY <1>3, <2>1, <2>2 DEF PollNothing, BeginRender, EndRender, ExpireLock, WorkerTypeInv
<1>4. CASE DrainCompleted
  <2>1. failures' \in Seq(Failures) /\ Collect
    BY <1>4, Collecting DEF DrainCompleted
  <2>2. WorkerCounters' /\ turn' \in [Triggers -> TurnRows]
    BY <1>4 DEF DrainCompleted, WorkerTypeInv, WorkerCounters
  <2>3. WorkerFlags'
    BY <1>4, <2>1, CollectTypes DEF DrainCompleted, WorkerTypeInv, WorkerFlags, Phases
  <2> QED
    BY <2>1, <2>2, <2>3, CollectTypes DEF WorkerTypeInv
<1>5. CASE DrainFailures
  <2>1. /\ UNCHANGED <<latest, lastClosed, turn, event, lock, crashes, failed, redelivered, timeouts>>
        /\ failures' = <<>> /\ completed' \in BOOLEAN /\ phase' = "polling"
    BY <1>5 DEF DrainFailures, WorkerTypeInv, WorkerFlags
  <2>2. WorkerCounters' /\ turn' \in [Triggers -> TurnRows] /\ failures' \in Seq(Failures)
    BY <2>1 DEF WorkerTypeInv, WorkerCounters
  <2>3. \/ Collect
        \/ /\ Retryable # {} /\ pending' = pending
           /\ active' = Started(FirstRetryable.trigger, FirstRetryable.retry + 1)
    BY <1>5 DEF DrainFailures
  <2>4. CASE Collect
    BY <2>1, <2>2, <2>4, CollectTypes DEF WorkerTypeInv, WorkerFlags, Phases
  <2>5. CASE /\ Retryable # {} /\ pending' = pending
             /\ active' = Started(FirstRetryable.trigger, FirstRetryable.retry + 1)
    <3>1. FirstRetryable \in Failures /\ FirstRetryable.retry < RetryLimit
      BY <2>5, TheFirstRetryable DEF Retryable
    <3>2. FirstRetryable.trigger \in Triggers /\ FirstRetryable.retry + 1 \in 0 .. RetryLimit
      BY <3>1 DEF Failures, RetryLimit
    <3>3. active' \in Tasks /\ active'.at = "starting" /\ active'.trigger \in Triggers
      BY <2>5, <3>2, TaskStarts
    <3> QED
      BY <2>1, <2>2, <2>5, <3>3 DEF WorkerTypeInv, WorkerFlags, Phases
  <2> QED
    BY <2>3, <2>4, <2>5
<1>6. CASE StartTurn
  <2>1. active.at = "starting" /\ \E s \in {"claiming", "waiting", "done"} : GotoTask(s)
    BY <1>6 DEF StartTurn
  <2>2. active' \in Tasks /\ active'.at # "none" /\ active'.trigger \in Triggers
    BY <2>1, TaskMoves DEF TaskStates
  <2>3. WorkerFlags' /\ failures' \in Seq(Failures)
    BY <1>6 DEF StartTurn, WorkerTypeInv, WorkerFlags
  <2>4. WorkerCounters'
    BY <1>6 DEF StartTurn, WorkerTypeInv, WorkerCounters
  <2>5. CASE UNCHANGED turn
    BY <2>2, <2>3, <2>4, <2>5 DEF WorkerTypeInv
  <2>6. CASE /\ lastClosed < latest
             /\ turn' = [turn EXCEPT ![active.trigger].from = lastClosed + 1,
                                    ![active.trigger].to = latest]
    <3>0. latest \in 0 .. MaxSeq /\ lastClosed \in 0 .. MaxSeq
      BY DEF WorkerTypeInv, WorkerCounters
    <3>1. lastClosed + 1 \in 0 .. MaxSeq /\ latest \in 0 .. MaxSeq
      BY <2>6, <3>0
    <3>2. turn' \in [Triggers -> TurnRows]
      BY <2>6, <3>1 DEF WorkerTypeInv, TurnRows
    <3> QED
      BY <2>2, <2>3, <2>4, <3>2 DEF WorkerTypeInv
  <2> QED
    BY <1>6, <2>5, <2>6 DEF StartTurn
<1>7. CASE ClaimTurn
  <2>1. active' \in Tasks /\ active'.at # "none" /\ active'.trigger \in Triggers
    BY <1>7, TaskMoves DEF ClaimTurn, TaskStates
  <2>2. WorkerFlags' /\ failures' \in Seq(Failures)
    BY <1>7 DEF ClaimTurn, WorkerTypeInv, WorkerFlags
  <2>3. WorkerCounters'
    BY <1>7 DEF ClaimTurn, WorkerTypeInv, WorkerCounters
  <2>4. turn' \in [Triggers -> TurnRows]
    BY <1>7 DEF ClaimTurn, WorkerTypeInv, WorkerCounters, TurnRows
  <2> QED
    BY <2>1, <2>2, <2>3, <2>4 DEF WorkerTypeInv
<1>8. CASE AcquireLock \/ Deliver \/ TurnFails
  <2>1. active.at # "none" /\ \E s \in {"running", "done", "failed"} : GotoTask(s)
    BY <1>8 DEF AcquireLock, Deliver, TurnFails, Cancellable
  <2>2. active' \in Tasks /\ active'.at # "none" /\ active'.trigger \in Triggers
    BY <2>1, TaskMoves DEF TaskStates
  <2>3. WorkerFlags' /\ failures' \in Seq(Failures) /\ turn' \in [Triggers -> TurnRows]
    BY <1>8 DEF AcquireLock, Deliver, TurnFails, WorkerTypeInv, WorkerFlags, Unlocked, Locks
  <2>4. WorkerCounters'
    BY <1>8 DEF AcquireLock, Deliver, TurnFails, WorkerTypeInv, WorkerCounters
  <2> QED
    BY <2>2, <2>3, <2>4 DEF WorkerTypeInv
<1>9. CASE LockWaitTimeout
  <2>1. active.at = "waiting" /\ \E s \in {"done", "failed"} : GotoTask(s)
    BY <1>9 DEF LockWaitTimeout
  <2>2. active' \in Tasks /\ active'.at # "none" /\ active'.trigger \in Triggers
    BY <2>1, TaskMoves DEF TaskStates
  <2>3. WorkerFlags' /\ failures' \in Seq(Failures)
    BY <1>9 DEF LockWaitTimeout, WorkerTypeInv, WorkerFlags
  <2>4. WorkerCounters'
    BY <1>9 DEF LockWaitTimeout, WorkerTypeInv, WorkerCounters
  <2>5. turn' \in [Triggers -> TurnRows]
    BY <1>9, SettledRows DEF LockWaitTimeout, Dispositions, WorkerTypeInv
  <2> QED
    BY <2>2, <2>3, <2>4, <2>5 DEF WorkerTypeInv
<1>10. CASE Close
  <2>1. /\ active.at = "running" /\ \E s \in {"delivering", "done"} : GotoTask(s)
        /\ \E d \in {"closed", "superseded"} : turn' = Settled(d)
        /\ lastClosed' = lastClosed \/ lastClosed' = latest
        /\ lock' = lock \/ lock' = Unlocked
    BY <1>10 DEF Close, WindowIsFresh
  <2>2. active' \in Tasks /\ active'.at # "none" /\ active'.trigger \in Triggers
    BY <2>1, TaskMoves DEF TaskStates
  <2>3. turn' \in [Triggers -> TurnRows]
    BY <2>1, SettledRows DEF Dispositions
  <2>4. WorkerFlags' /\ failures' \in Seq(Failures)
    BY <1>10, <2>1 DEF Close, WorkerTypeInv, WorkerFlags, Unlocked, Locks
  <2>5. WorkerCounters'
    BY <1>10, <2>1 DEF Close, WorkerTypeInv, WorkerCounters
  <2> QED
    BY <2>2, <2>3, <2>4, <2>5 DEF WorkerTypeInv
<1>11. CASE Crash
  <2>1. failures' \in Seq(Failures) /\ turn' \in [Triggers -> TurnRows]
    BY <1>11 DEF Crash, WorkerTypeInv
  <2>3. WorkerFlags'
    BY <1>11 DEF Crash, WorkerTypeInv, WorkerFlags, Phases, Locks
  <2>2. WorkerCounters'
    BY <1>11 DEF Crash, WorkerTypeInv, WorkerCounters
  <2> QED
    BY <1>11, <2>1, <2>2, <2>3, NoTask DEF Crash, WorkerTypeInv
<1>12. CASE Restart
  <2>1. WorkerFlags' /\ failures' \in Seq(Failures) /\ turn' \in [Triggers -> TurnRows]
    BY <1>12 DEF Restart, WorkerTypeInv, WorkerFlags, Phases
  <2>2. WorkerCounters' /\ MaxSeq + crashes \in Triggers
    BY <1>12, TriggerNumbers DEF Restart, WorkerTypeInv, WorkerCounters
  <2>3. active' = NoTurn \/ active' = Started(MaxSeq + crashes, 0)
    BY <1>12 DEF Restart
  <2> QED
    BY <2>1, <2>2, <2>3, NoTask, TaskStarts DEF WorkerTypeInv, RetryLimit
<1>13. CASE AgentTimesOut \/ RefuseNoReply
  <2>1. /\ active.at = "running" /\ \E s \in {"delivering", "done"} : GotoTask(s)
        /\ \E d \in {"pending", "failed"} : turn' = Settled(d)
    BY <1>13 DEF AgentTimesOut, RefuseNoReply
  <2>2. active' \in Tasks /\ active'.at # "none" /\ active'.trigger \in Triggers
    BY <2>1, TaskMoves DEF TaskStates
  <2>3. turn' \in [Triggers -> TurnRows]
    BY <2>1, SettledRows DEF Dispositions
  <2>4. WorkerFlags' /\ failures' \in Seq(Failures)
    BY <1>13 DEF AgentTimesOut, RefuseNoReply, WorkerTypeInv, WorkerFlags, Unlocked, Locks
  <2>5. WorkerCounters'
    BY <1>13 DEF AgentTimesOut, RefuseNoReply, WorkerTypeInv, WorkerCounters
  <2> QED
    BY <2>2, <2>3, <2>4, <2>5 DEF WorkerTypeInv
<1>14. ASSUME NEW t \in Triggers, MarkSlow(t) PROVE WorkerTypeInv'
  <2>1. turn' \in [Triggers -> TurnRows]
    BY <1>14, MarkedRows
  <2>2. WorkerFlags' /\ WorkerCounters'
    BY <1>14 DEF MarkSlow, WorkerTypeInv, WorkerFlags, WorkerCounters
  <2> QED
    BY <1>14, <2>1, <2>2 DEF MarkSlow, WorkerTypeInv
<1>15. CASE UNCHANGED interactiveVars
  BY <1>15 DEF interactiveVars, WorkerTypeInv, WorkerFlags, WorkerCounters
<1> QED
  BY <1>1, <1>2, <1>3, <1>4, <1>5, <1>6, <1>7, <1>8, <1>9, <1>10, <1>11, <1>12, <1>13, <1>14,
     <1>15
     DEF WorkerNext, MainStep, TaskStep

\* Only the start and the claim of a turn do more to a row than settle it.
LEMMA RowsKept ==
  ASSUME WorkerTypeInv, [WorkerNext]_interactiveVars, ~StartTurn, ~ClaimTurn, NEW t \in Triggers
  PROVE  RowKept(t)
<1> USE DEF dbVars, RowKept, Live
<1>0. turn \in [Triggers -> TurnRows]
  BY DEF WorkerTypeInv
<1>1. turn' = turn => RowKept(t)
  OBVIOUS
<1>2. \A d \in Dispositions :
         turn' = Settled(d) /\ (d = "pending" => turn[active.trigger].disp = "active") => RowKept(t)
  BY SettledRows DEF Dispositions
<1>3. CASE RecordInbound
  BY <1>0, <1>3 DEF RecordInbound, TurnRows
<1>4. ASSUME NEW s \in InboundTriggers, HandleEvent(s) PROVE RowKept(t)
  <2>1. turn' \in {turn, Interrupted}
    BY <1>4 DEF HandleEvent, Submit
  <2> QED
    BY <1>1, <2>1, InterruptedRows
<1>5. CASE PollNothing \/ BeginRender \/ EndRender \/ ExpireLock
  BY <1>1, <1>5 DEF PollNothing, BeginRender, EndRender, ExpireLock
<1>6. CASE DrainCompleted \/ DrainFailures \/ Restart \/ Crash
  BY <1>1, <1>6 DEF DrainCompleted, DrainFailures, Restart, Crash
<1>7. CASE AcquireLock \/ Deliver \/ TurnFails
  BY <1>1, <1>7 DEF AcquireLock, Deliver, TurnFails
<1>8. CASE LockWaitTimeout \/ Close \/ AgentTimesOut \/ RefuseNoReply
  <2>1. \/ turn' \in {turn, Settled("failed"), Settled("superseded"), Settled("closed")}
        \/ turn' = Settled("pending") /\ turn[active.trigger].disp = "active"
    BY <1>8 DEF LockWaitTimeout, Close, AgentTimesOut, RefuseNoReply
  <2> QED
    BY <1>1, <1>2, <2>1 DEF Dispositions
<1>9. ASSUME NEW u \in Triggers, MarkSlow(u) PROVE RowKept(t)
  BY <1>9, MarkedRows
<1>10. CASE UNCHANGED interactiveVars
  BY <1>1, <1>10 DEF interactiveVars
<1> QED
  BY <1>3, <1>4, <1>5, <1>6, <1>7, <1>8, <1>9, <1>10 DEF WorkerNext, MainStep, TaskStep

-----------------------------------------------------------------------------
(* InteractiveWorker: a trigger nobody knows.                              *)

\* The supervisor does not know the trigger.
Forgotten(t) ==
    /\ t # active.trigger
    /\ t # pending
    /\ \A i \in DOMAIN failures : failures[i].trigger # t

\* Nor does the database.
Unused(t) == turn[t].disp = "absent" /\ Forgotten(t)

\* Only its own event or its own restart brings a trigger to the supervisor.
LEMMA StaysForgotten ==
  ASSUME WorkerTypeInv, [WorkerNext]_interactiveVars, NEW t \in Triggers, Forgotten(t),
         ~(t \in InboundTriggers /\ HandleEvent(t)), ~(Restart /\ t = MaxSeq + crashes)
  PROVE  Forgotten(t)'
<1> USE DEF dbVars, supervisorVars, faultVars
<1>0. /\ t # NoTrigger /\ NoTurn.trigger = NoTrigger
      /\ turn \in [Triggers -> TurnRows] /\ active \in Tasks
  BY TriggerNumbers, NoTask DEF WorkerTypeInv, NoTrigger
<1>1. \A i \in DOMAIN CollectedFailures : CollectedFailures[i].trigger # t
  BY Collecting DEF Forgotten
<1>3. Collect => t # active'.trigger /\ t # pending'
  BY <1>0 DEF Collect, Forgotten, Started
<1>4. \A s : GotoTask(s) => active'.trigger = active.trigger
  BY <1>0 DEF GotoTask, Tasks
<1>5. CASE RecordInbound
  BY <1>5 DEF RecordInbound, Forgotten
<1>6. ASSUME NEW s \in InboundTriggers, HandleEvent(s) PROVE Forgotten(t)'
  <2>1. s # t
    BY <1>6
  <2>2. Submit(s, 0) => Forgotten(t)'
    BY <1>0, <1>1, <2>1 DEF Submit, Forgotten, Started
  <2>3. UNCHANGED <<active, pending, failures, completed, turn, lock>> => Forgotten(t)'
    BY DEF Forgotten
  <2> QED
    BY <1>6, <2>2, <2>3 DEF HandleEvent
<1>7. CASE PollNothing \/ BeginRender \/ EndRender \/ ExpireLock
  BY <1>7 DEF PollNothing, BeginRender, EndRender, ExpireLock, Forgotten
<1>8. CASE DrainCompleted
  BY <1>1, <1>3, <1>8 DEF DrainCompleted, Forgotten
<1>9. CASE DrainFailures
  <2>1. failures' = <<>>
    BY <1>9 DEF DrainFailures
  <2>2. \/ Collect
        \/ /\ Retryable # {} /\ pending' = pending
           /\ active' = Started(FirstRetryable.trigger, FirstRetryable.retry + 1)
    BY <1>9 DEF DrainFailures
  <2>3. t # active'.trigger /\ t # pending'
    <3>1. CASE Collect
      BY <1>3, <3>1
    <3>2. CASE Retryable # {} /\ pending' = pending
               /\ active' = Started(FirstRetryable.trigger, FirstRetryable.retry + 1)
      <4>1. FirstRetryable.trigger # t
        BY <1>1, <3>2, TheFirstRetryable DEF Retryable
      <4> QED
        BY <3>2, <4>1 DEF Started, Forgotten
    <3> QED
      BY <2>2, <3>1, <3>2
  <2> QED
    BY <2>1, <2>3 DEF Forgotten
<1>10. CASE StartTurn
  BY <1>4, <1>10 DEF StartTurn, Forgotten
<1>11. CASE ClaimTurn
  BY <1>0, <1>4, <1>11 DEF ClaimTurn, Forgotten
<1>12. CASE AcquireLock \/ Deliver \/ TurnFails
  BY <1>4, <1>12 DEF AcquireLock, Deliver, TurnFails, Forgotten
<1>13. CASE LockWaitTimeout
  BY <1>4, <1>13 DEF LockWaitTimeout, Forgotten
<1>14. CASE Close \/ AgentTimesOut \/ RefuseNoReply
  BY <1>4, <1>14 DEF Close, AgentTimesOut, RefuseNoReply, Forgotten
<1>15. CASE Crash
  BY <1>0, <1>15 DEF Crash, Forgotten
<1>16. CASE Restart
  <2>1. t # active'.trigger
    BY <1>0, <1>16 DEF Restart, Started
  <2> QED
    BY <1>16, <2>1 DEF Restart, Forgotten
<1>17. CASE (\E u \in Triggers : MarkSlow(u)) \/ UNCHANGED interactiveVars
  BY <1>17 DEF MarkSlow, interactiveVars, Forgotten
<1> QED
  BY <1>5, <1>6, <1>7, <1>8, <1>9, <1>10, <1>11, <1>12, <1>13, <1>14, <1>15, <1>16, <1>17
     DEF WorkerNext, MainStep, TaskStep

LEMMA StaysUnused ==
  ASSUME WorkerTypeInv, [WorkerNext]_interactiveVars, NEW t \in Triggers, Unused(t),
         ~(t \in InboundTriggers /\ HandleEvent(t)), ~(Restart /\ t = MaxSeq + crashes)
  PROVE  Unused(t)'
<1>0. turn \in [Triggers -> TurnRows]
  BY DEF WorkerTypeInv
<1>1. Forgotten(t)'
  BY StaysForgotten DEF Unused
<1>2. CASE StartTurn
  BY <1>0, <1>1, <1>2 DEF StartTurn, Unused, TurnRows
<1>3. CASE ClaimTurn
  BY <1>0, <1>1, <1>3 DEF ClaimTurn, Unused, Forgotten
<1>4. CASE ~StartTurn /\ ~ClaimTurn
  BY <1>1, <1>4, RowsKept DEF RowKept, Unused
<1> QED
  BY <1>2, <1>3, <1>4

-----------------------------------------------------------------------------
(* InteractiveWorker: the books of the supervisor.                         *)

\* A dead process remembers nothing; drain_failures runs right behind
\* drain_completed.
ThreadInv ==
    /\ phase = "down" => active = NoTurn /\ pending = NoTrigger /\ failures = <<>>
    /\ phase = "retrying" => ~completed

\* The next "recover:..." trigger is new.
RecoverInv ==
    \A t \in Triggers :
        t > MaxSeq + crashes \/ (phase = "down" /\ t = MaxSeq + crashes) => Unused(t)

\* Every failure and every retry had its exception.
CountInv ==
    /\ active.retry <= failed
    /\ active.at = "failed" =>
          active.retry < failed /\ Len(failures) < failed
    /\ Len(failures) <= failed
    /\ \A i \in DOMAIN failures : failures[i].retry < failed

LEMMA ThreadStep == WorkerTypeInv /\ ThreadInv /\ [WorkerNext]_interactiveVars => ThreadInv'
<1> SUFFICES ASSUME WorkerTypeInv, ThreadInv, [WorkerNext]_interactiveVars PROVE ThreadInv'
  OBVIOUS
<1> USE DEF dbVars, supervisorVars, faultVars, ThreadInv
<1>1. CASE RecordInbound
  BY <1>1 DEF RecordInbound
<1>2. ASSUME NEW s \in InboundTriggers, HandleEvent(s) PROVE ThreadInv'
  BY <1>2 DEF HandleEvent
<1>3. CASE PollNothing \/ BeginRender \/ EndRender \/ ExpireLock
  BY <1>3 DEF PollNothing, BeginRender, EndRender, ExpireLock
<1>4. CASE DrainCompleted \/ DrainFailures \/ Restart \/ Crash
  BY <1>4 DEF DrainCompleted, DrainFailures, Restart, Crash
<1>5. CASE StartTurn \/ ClaimTurn \/ AcquireLock
  BY <1>5 DEF StartTurn, ClaimTurn, AcquireLock, NoTurn
<1>6. CASE Deliver \/ TurnFails \/ LockWaitTimeout \/ Close
  BY <1>6 DEF Deliver, TurnFails, LockWaitTimeout, Close, NoTurn, Cancellable
<1>7. CASE AgentTimesOut \/ RefuseNoReply
  BY <1>7 DEF AgentTimesOut, RefuseNoReply, NoTurn
<1>8. CASE (\E t \in Triggers : MarkSlow(t)) \/ UNCHANGED interactiveVars
  BY <1>8 DEF MarkSlow, interactiveVars
<1> QED
  BY <1>1, <1>2, <1>3, <1>4, <1>5, <1>6, <1>7, <1>8 DEF WorkerNext, MainStep, TaskStep

LEMMA RecoverStep == WorkerTypeInv /\ RecoverInv /\ [WorkerNext]_interactiveVars => RecoverInv'
<1> SUFFICES ASSUME WorkerTypeInv, RecoverInv, [WorkerNext]_interactiveVars, NEW t \in Triggers,
                    (t > MaxSeq + crashes)' \/ (phase = "down" /\ t = MaxSeq + crashes)'
             PROVE  Unused(t)'
  BY DEF RecoverInv
<1>1. t \in Nat /\ MaxSeq \in Nat /\ crashes \in Nat
  BY TriggerNumbers, WorkerAssumption DEF WorkerTypeInv, WorkerCounters
<1>2. \/ crashes' = crashes /\ (phase' = "down" => phase = "down")
      \/ crashes' = crashes + 1
  <2> USE DEF faultVars
  <2>1. CASE RecordInbound \/ \E s \in InboundTriggers : HandleEvent(s)
    BY <2>1 DEF RecordInbound, HandleEvent
  <2>2. CASE PollNothing \/ BeginRender \/ EndRender \/ ExpireLock
    BY <2>2 DEF PollNothing, BeginRender, EndRender, ExpireLock
  <2>3. CASE DrainCompleted \/ DrainFailures \/ Restart \/ Crash
    BY <2>3 DEF DrainCompleted, DrainFailures, Restart, Crash
  <2>4. CASE StartTurn \/ ClaimTurn \/ AcquireLock
    BY <2>4 DEF StartTurn, ClaimTurn, AcquireLock
  <2>5. CASE Deliver \/ TurnFails \/ LockWaitTimeout \/ Close
    BY <2>5 DEF Deliver, TurnFails, LockWaitTimeout, Close
  <2>6. CASE AgentTimesOut \/ RefuseNoReply
    BY <2>6 DEF AgentTimesOut, RefuseNoReply
  <2>7. CASE (\E u \in Triggers : MarkSlow(u)) \/ UNCHANGED interactiveVars
    BY <2>7 DEF MarkSlow, interactiveVars
  <2> QED
    BY <2>1, <2>2, <2>3, <2>4, <2>5, <2>6, <2>7 DEF WorkerNext, MainStep, TaskStep
<1>3. t > MaxSeq + crashes \/ (phase = "down" /\ t = MaxSeq + crashes)
  BY <1>1, <1>2
<1>4. Unused(t)
  BY <1>3 DEF RecoverInv
<1>5. ~(t \in InboundTriggers /\ HandleEvent(t))
  <2> SUFFICES ASSUME t \in InboundTriggers, HandleEvent(t) PROVE FALSE
    OBVIOUS
  <2>1. t <= MaxSeq /\ phase = "polling"
    BY DEF InboundTriggers, HandleEvent
  <2> QED
    BY <1>1, <1>3, <2>1
<1>6. ~(Restart /\ t = MaxSeq + crashes)
  <2> SUFFICES ASSUME Restart, t = MaxSeq + crashes PROVE FALSE
    OBVIOUS
  <2>1. phase' = "polling" /\ crashes' = crashes
    BY DEF Restart, faultVars
  <2> QED
    BY <1>1, <2>1
<1> QED
  BY <1>4, <1>5, <1>6, StaysUnused

LEMMA CountStep == WorkerTypeInv /\ CountInv /\ [WorkerNext]_interactiveVars => CountInv'
<1> SUFFICES ASSUME WorkerTypeInv, CountInv, [WorkerNext]_interactiveVars PROVE CountInv'
  OBVIOUS
<1> USE DEF dbVars, supervisorVars, faultVars
<1>0. /\ failed \in Nat /\ Len(failures) \in Nat /\ active.retry \in Nat
      /\ active \in Tasks
      /\ \A i \in DOMAIN failures : failures[i].retry \in Nat
      /\ failures \in Seq(Failures) /\ DOMAIN failures = 1 .. Len(failures)
  <2>1. failed \in Nat /\ active \in Tasks /\ active.retry \in Nat
    BY DEF WorkerTypeInv, WorkerCounters, Tasks, RetryLimit
  <2>2. failures \in Seq(Failures) /\ DOMAIN failures = 1 .. Len(failures) /\ Len(failures) \in Nat
        /\ \A i \in DOMAIN failures : failures[i] \in Failures
    BY DEF WorkerTypeInv
  <2>3. \A f \in Failures : f.retry \in Nat
    BY DEF Failures, RetryLimit
  <2> QED
    BY <2>1, <2>2, <2>3
<1>1. /\ Len(CollectedFailures) <= failed
      /\ \A i \in DOMAIN CollectedFailures :
            /\ CollectedFailures[i].retry < failed
            /\ CollectedFailures[i].retry \in Nat
  BY <1>0, Collecting DEF CountInv
<1>2. \A s : GotoTask(s) => active'.retry = active.retry /\ active'.at = s
  BY <1>0 DEF GotoTask, Tasks
<1>3. Collect => active'.retry <= failed /\ (active'.at # "failed")
  BY <1>0 DEF Collect, CountInv, Started, NoTurn, TaskEnded
<1>4. CASE RecordInbound \/ PollNothing \/ BeginRender \/ EndRender \/ ExpireLock
  BY <1>4 DEF RecordInbound, PollNothing, BeginRender, EndRender, ExpireLock, CountInv
<1>5. ASSUME NEW s \in InboundTriggers, HandleEvent(s) PROVE CountInv'
  <2>1. failed' = failed
    BY <1>5 DEF HandleEvent
  <2>2. CASE Submit(s, 0)
    <3>1. CASE active.at = "delivering"
      BY <2>1, <2>2, <3>1 DEF Submit, CountInv
    <3>2. CASE active.at # "delivering"
      <4>1. active' = Started(s, 0) /\ failures' = CollectedFailures
        BY <2>2, <3>2 DEF Submit
      <4>2. active'.at # "failed" /\ active'.retry = 0
        BY <4>1 DEF Started
      <4> QED
        BY <1>0, <1>1, <2>1, <4>1, <4>2 DEF CountInv
    <3> QED
      BY <3>1, <3>2
  <2>3. CASE UNCHANGED <<active, pending, failures, completed, turn, lock>>
    BY <2>1, <2>3 DEF CountInv
  <2> QED
    BY <1>5, <2>2, <2>3 DEF HandleEvent
<1>6. CASE DrainCompleted
  BY <1>1, <1>3, <1>6 DEF DrainCompleted, CountInv
<1>7. CASE DrainFailures
  <2>1. failed' = failed /\ failures' = <<>>
    BY <1>7 DEF DrainFailures
  <2>2. Len(<<>>) = 0 /\ DOMAIN <<>> = {}
    OBVIOUS
  <2>3. \/ Collect
        \/ /\ Retryable # {} /\ pending' = pending
           /\ active' = Started(FirstRetryable.trigger, FirstRetryable.retry + 1)
    BY <1>7 DEF DrainFailures
  <2>4. active'.retry <= failed /\ active'.at # "failed"
    <3>1. CASE Collect
      BY <1>3, <3>1
    <3>2. CASE Retryable # {} /\ pending' = pending
               /\ active' = Started(FirstRetryable.trigger, FirstRetryable.retry + 1)
      <4>1. FirstRetryable.retry < failed /\ FirstRetryable.retry \in Nat
        BY <1>1, <3>2, TheFirstRetryable DEF Retryable
      <4>2. active'.retry = FirstRetryable.retry + 1 /\ active'.at = "starting"
        BY <3>2 DEF Started
      <4> QED
        BY <1>0, <4>1, <4>2
    <3> QED
      BY <2>3, <3>1, <3>2
  <2> QED
    BY <1>0, <2>1, <2>2, <2>4 DEF CountInv
<1>8. CASE StartTurn \/ ClaimTurn \/ AcquireLock \/ Deliver
  BY <1>2, <1>8 DEF StartTurn, ClaimTurn, AcquireLock, Deliver, CountInv
<1>9. CASE Close \/ AgentTimesOut \/ RefuseNoReply
  BY <1>2, <1>9 DEF Close, AgentTimesOut, RefuseNoReply, CountInv
<1>10. CASE TurnFails \/ LockWaitTimeout
  <2>1. UNCHANGED failures /\ active'.retry = active.retry
    BY <1>2, <1>10 DEF TurnFails, LockWaitTimeout
  <2>2. \/ failed' = failed + 1
        \/ failed' = failed /\ active'.at = "done"
    BY <1>2, <1>10 DEF TurnFails, LockWaitTimeout
  <2> QED
    BY <1>0, <2>1, <2>2 DEF CountInv
<1>11. CASE Crash
  BY <1>0, <1>11 DEF Crash, CountInv, NoTurn
<1>12. CASE Restart
  BY <1>0, <1>12 DEF Restart, CountInv, NoTurn, Started
<1>13. CASE (\E t \in Triggers : MarkSlow(t)) \/ UNCHANGED interactiveVars
  BY <1>13 DEF MarkSlow, interactiveVars, CountInv
<1> QED
  BY <1>4, <1>5, <1>6, <1>7, <1>8, <1>9, <1>10, <1>11, <1>12, <1>13
     DEF WorkerNext, MainStep, TaskStep

-----------------------------------------------------------------------------
(* InteractiveWorker: windows, claims and closes.                          *)

\* A message the open claim leaves out is announced and nobody covers it.
LeftOut(u) == event[u] = "ready" /\ ~Covered(u)

\* The window of a live row that still counts begins behind the last closed
\* message.
ActiveInv ==
    /\ lastClosed <= latest
    /\ \A t \in Triggers : turn[t].disp \in Live =>
          /\ turn[t].from <= turn[t].to
          /\ turn[t].to = latest /\ lastClosed < latest => turn[t].from = lastClosed + 1

\* What a task has read but not yet written is still true enough.
ClaimInv ==
    active.at = "claiming" =>
        /\ turn[active.trigger].disp = "absent"
        /\ turn[active.trigger].from = lastClosed + 1
        /\ turn[active.trigger].from <= turn[active.trigger].to
        /\ turn[active.trigger].to <= latest
        /\ \A u \in InboundTriggers :
              turn[active.trigger].to < u /\ u <= latest => LeftOut(u)

\* A task behind its claim has a row; the pending slot is only used behind the
\* commit of a reply or of a waiting text.
TaskInv ==
    /\ active.at \in {"waiting", "running"} => turn[active.trigger].disp # "absent"
    /\ active.at = "delivering" => turn[active.trigger].disp \notin {"absent", "active"}
    /\ pending # NoTrigger =>
          /\ active.at \in {"delivering", "done", "failed"}
          /\ turn[active.trigger].disp \notin {"absent", "active"}

RowInv == ActiveInv /\ ClaimInv /\ TaskInv

LEMMA ActiveStep ==
  WorkerTypeInv /\ ActiveInv /\ ClaimInv /\ [WorkerNext]_interactiveVars => ActiveInv'
<1> SUFFICES ASSUME WorkerTypeInv, ActiveInv, ClaimInv, [WorkerNext]_interactiveVars PROVE ActiveInv'
  OBVIOUS
<1> USE DEF dbVars, supervisorVars, faultVars
<1>0. /\ latest \in Nat /\ lastClosed \in Nat /\ turn \in [Triggers -> TurnRows]
      /\ \A t \in Triggers : turn[t].from \in Nat /\ turn[t].to \in Nat
  BY DEF WorkerTypeInv, WorkerCounters, TurnRows
\* The counters stay, and no row becomes live.
<1>1. ASSUME UNCHANGED <<latest, lastClosed>>, ~StartTurn, ~ClaimTurn PROVE ActiveInv'
  BY <1>1, RowsKept DEF RowKept, ActiveInv
<1>2. CASE RecordInbound
  <2>1. \A t \in Triggers : turn'[t].disp \notin Live
    BY <1>0, <1>2 DEF RecordInbound, TurnRows, Live
  <2> QED
    BY <1>0, <1>2, <2>1 DEF RecordInbound, ActiveInv
<1>3. CASE StartTurn
  <2>1. UNCHANGED <<latest, lastClosed>>
    BY <1>3 DEF StartTurn
  <2>2. \A t \in Triggers : turn'[t].disp \in Live => turn'[t] = turn[t]
    BY <1>0, <1>3 DEF StartTurn, TurnRows, Live
  <2> QED
    BY <2>1, <2>2 DEF ActiveInv
<1>4. CASE ClaimTurn
  <2>1. UNCHANGED <<latest, lastClosed>>
        /\ \A t \in Triggers : /\ turn'[t].from = turn[t].from /\ turn'[t].to = turn[t].to
                               /\ t # active.trigger => turn'[t].disp = turn[t].disp
    BY <1>0, <1>4 DEF ClaimTurn, TurnRows
  <2>2. active.at = "claiming"
    BY <1>4 DEF ClaimTurn
  <2> QED
    BY <1>0, <2>1, <2>2 DEF ClaimInv, ActiveInv
<1>5. CASE Close
  <2>1. latest' = latest /\ (lastClosed' = lastClosed \/ lastClosed' = latest)
        /\ ~StartTurn /\ ~ClaimTurn
    BY <1>5 DEF Close, WindowIsFresh, StartTurn, ClaimTurn
  <2> QED
    BY <1>0, <1>1, <2>1, RowsKept DEF RowKept, ActiveInv
<1>6. CASE ~RecordInbound /\ ~StartTurn /\ ~ClaimTurn /\ ~Close
  <2>1. UNCHANGED <<latest, lastClosed>>
    <3>1. CASE \E s \in InboundTriggers : HandleEvent(s)
      BY <3>1 DEF HandleEvent
    <3>2. CASE PollNothing \/ BeginRender \/ EndRender \/ ExpireLock
      BY <3>2 DEF PollNothing, BeginRender, EndRender, ExpireLock
    <3>3. CASE DrainCompleted \/ DrainFailures \/ Restart \/ Crash
      BY <3>3 DEF DrainCompleted, DrainFailures, Restart, Crash
    <3>4. CASE AcquireLock \/ Deliver \/ TurnFails \/ LockWaitTimeout
      BY <3>4 DEF AcquireLock, Deliver, TurnFails, LockWaitTimeout
    <3>5. CASE AgentTimesOut \/ RefuseNoReply
      BY <3>5 DEF AgentTimesOut, RefuseNoReply
    <3>6. CASE (\E t \in Triggers : MarkSlow(t)) \/ UNCHANGED interactiveVars
      BY <3>6 DEF MarkSlow, interactiveVars
    <3> QED
      BY <1>6, <3>1, <3>2, <3>3, <3>4, <3>5, <3>6 DEF WorkerNext, MainStep, TaskStep
  <2> QED
    BY <1>1, <1>6, <2>1
<1> QED
  BY <1>2, <1>3, <1>4, <1>5, <1>6

LEMMA ClaimStep == WorkerTypeInv /\ ActiveInv /\ ClaimInv /\ [WorkerNext]_interactiveVars => ClaimInv'
<1> SUFFICES ASSUME WorkerTypeInv, ActiveInv, ClaimInv, [WorkerNext]_interactiveVars,
                    active'.at = "claiming"
             PROVE  ClaimInv'
  BY DEF ClaimInv
<1> USE DEF dbVars, supervisorVars, faultVars
<1>0. /\ latest \in Nat /\ lastClosed \in Nat /\ turn \in [Triggers -> TurnRows]
      /\ \A t \in Triggers : turn[t].from \in Nat /\ turn[t].to \in Nat
      /\ active \in Tasks /\ NoTurn.at = "none"
      /\ InboundTriggers \subseteq Nat
      /\ active.at # "none" => active.trigger \in Triggers
  BY TriggerNumbers, NoTask DEF WorkerTypeInv, WorkerCounters, TurnRows
<1>1. ASSUME UNCHANGED <<latest, lastClosed, turn, event, active>> PROVE ClaimInv'
  BY <1>1 DEF ClaimInv, LeftOut, Covered
<1>2. \A s : GotoTask(s) => active'.at = s
  BY <1>0 DEF GotoTask, Tasks
<1>3. CASE RecordInbound
  <2>1. active' = active /\ active.at = "claiming" /\ lastClosed' = lastClosed
        /\ latest' = latest + 1
        /\ \A t \in Triggers :
              /\ turn'[t].disp = IF turn[t].disp \in Live THEN "superseded" ELSE turn[t].disp
              /\ turn'[t].from = turn[t].from /\ turn'[t].to = turn[t].to
    BY <1>0, <1>3 DEF RecordInbound, TurnRows
  <2>2. \A u \in InboundTriggers : ~Covered(u)'
    BY <2>1 DEF Covered, Live
  <2>3. \A u \in InboundTriggers : turn[active.trigger].to < u /\ u <= latest' => event'[u] = "ready"
    <3>1. event' = [event EXCEPT ![latest + 1] = "ready"]
          /\ event \in [InboundTriggers -> {"absent", "ready", "acked"}]
      BY <1>3 DEF RecordInbound, WorkerTypeInv, WorkerFlags
    <3>2. ASSUME NEW u \in InboundTriggers, u <= latest' PROVE u <= latest \/ u = latest + 1
      <4>1. u \in Nat /\ latest \in Nat /\ u <= latest + 1
        BY <1>0, <2>1, <3>2
      <4> QED
        BY <4>1
    <3> QED
      BY <2>1, <3>1, <3>2 DEF ClaimInv, LeftOut
  <2>4. active.trigger \in Triggers
    BY <1>0, <2>1
  <2>5. \A u \in InboundTriggers : turn[active.trigger].to < u /\ u <= latest' => LeftOut(u)'
    BY <2>2, <2>3 DEF LeftOut
  <2>6. /\ turn[active.trigger].disp = "absent"
        /\ turn[active.trigger].from = lastClosed + 1
        /\ turn[active.trigger].from <= turn[active.trigger].to
        /\ turn[active.trigger].to <= latest
    BY <2>1 DEF ClaimInv
  <2>7. /\ turn'[active.trigger].disp = "absent"
        /\ turn'[active.trigger].from = turn[active.trigger].from
        /\ turn'[active.trigger].to = turn[active.trigger].to
    BY <2>1, <2>4, <2>6 DEF Live
  <2>8. turn[active.trigger].to <= latest'
    BY <1>0, <2>1, <2>4, <2>6
  <2> QED
    BY <2>1, <2>5, <2>6, <2>7, <2>8 DEF ClaimInv
<1>4. ASSUME NEW s \in InboundTriggers, HandleEvent(s) PROVE ClaimInv'
  <2>1. CASE Covered(s)
    <3>1. UNCHANGED <<latest, lastClosed, turn, active>>
          /\ event \in [InboundTriggers -> {"absent", "ready", "acked"}]
          /\ (event' = [event EXCEPT ![s] = "acked"] \/ event' = event)
      BY <1>4, <2>1 DEF HandleEvent, WorkerTypeInv, WorkerFlags
    <3>2. \A u \in InboundTriggers : Covered(u)' <=> Covered(u)
      BY <3>1 DEF Covered
    <3>3. \A u \in InboundTriggers : ~Covered(u) => event'[u] = event[u]
      BY <2>1, <3>1
    <3>4. \A u \in InboundTriggers : LeftOut(u) => LeftOut(u)'
      BY <3>2, <3>3 DEF LeftOut
    <3> QED
      BY <3>1, <3>4 DEF ClaimInv
  <2>2. CASE ~Covered(s)
    BY <1>4, <2>2 DEF HandleEvent, Submit, Started
  <2> QED
    BY <2>1, <2>2
<1>5. CASE PollNothing \/ BeginRender \/ EndRender \/ ExpireLock
  BY <1>1, <1>5 DEF PollNothing, BeginRender, EndRender, ExpireLock
<1>6. CASE DrainCompleted \/ DrainFailures
  <2>1. UNCHANGED <<latest, lastClosed, turn, event>>
    BY <1>6 DEF DrainCompleted, DrainFailures
  <2>2. active' = active
    BY <1>0, <1>6 DEF DrainCompleted, DrainFailures, Collect, Started
  <2> QED
    BY <1>1, <2>1, <2>2
<1>7. CASE Restart \/ Crash
  BY <1>0, <1>7 DEF Restart, Crash, Started
<1>8. CASE StartTurn
  <2>1. /\ active.at = "starting" /\ turn[active.trigger].disp = "absent" /\ lastClosed < latest
        /\ turn' = [turn EXCEPT ![active.trigger].from = lastClosed + 1,
                                ![active.trigger].to = latest]
        /\ GotoTask("claiming")
        /\ UNCHANGED <<latest, lastClosed>>
    BY <1>2, <1>8 DEF StartTurn
  <2>2. active'.trigger = active.trigger /\ active.trigger \in Triggers
    BY <1>0, <2>1 DEF GotoTask, Tasks
  <2>3. /\ turn'[active.trigger].from = lastClosed + 1 /\ turn'[active.trigger].to = latest
        /\ turn'[active.trigger].disp = "absent"
    BY <1>0, <2>1, <2>2 DEF TurnRows
  <2> QED
    BY <1>0, <2>1, <2>2, <2>3 DEF ClaimInv
<1>9. CASE ClaimTurn \/ AcquireLock \/ Deliver \/ TurnFails \/ Close
  BY <1>2, <1>9 DEF ClaimTurn, AcquireLock, Deliver, TurnFails, Close, WindowIsFresh
<1>10. CASE LockWaitTimeout \/ AgentTimesOut \/ RefuseNoReply
  BY <1>2, <1>10 DEF LockWaitTimeout, AgentTimesOut, RefuseNoReply
\* A row the relay marks is one that covers messages already.
<1>11. ASSUME NEW t \in Triggers, MarkSlow(t) PROVE ClaimInv'
  <2>1. UNCHANGED <<latest, lastClosed, event, active>>
    BY <1>11 DEF MarkSlow
  <2>2. \A u \in Triggers : /\ turn'[u].from = turn[u].from /\ turn'[u].to = turn[u].to
                            /\ turn'[u].disp = turn[u].disp
                                  \/ (u = t /\ turn[u].disp = "active")
    BY <1>11, MarkedRows
  <2>3. \A u \in InboundTriggers : LeftOut(u) => LeftOut(u)'
    BY <2>1, <2>2 DEF LeftOut, Covered, Live
  <2> QED
    BY <1>0, <2>1, <2>2, <2>3 DEF ClaimInv
<1>12. CASE UNCHANGED interactiveVars
  BY <1>1, <1>12 DEF interactiveVars
<1> QED
  BY <1>3, <1>4, <1>5, <1>6, <1>7, <1>8, <1>9, <1>10, <1>11, <1>12
     DEF WorkerNext, MainStep, TaskStep

LEMMA TaskStays ==
  WorkerTypeInv /\ ThreadInv /\ TaskInv /\ [WorkerNext]_interactiveVars => TaskInv'
<1> SUFFICES ASSUME WorkerTypeInv, ThreadInv, TaskInv, [WorkerNext]_interactiveVars PROVE TaskInv'
  OBVIOUS
<1> USE DEF dbVars, supervisorVars, faultVars
<1>0. /\ turn \in [Triggers -> TurnRows] /\ active \in Tasks
      /\ NoTurn.at = "none"
      /\ active.at # "none" => active.trigger \in Triggers
  BY NoTask DEF WorkerTypeInv
<1>1. \A s : GotoTask(s) => active'.at = s /\ active'.trigger = active.trigger
  BY <1>0 DEF GotoTask, Tasks
\* A row does not go back.
<1>2. ASSUME ~StartTurn, ~ClaimTurn
      PROVE  \A t \in Triggers :
                /\ turn[t].disp # "absent" => turn'[t].disp # "absent"
                /\ turn[t].disp \notin {"absent", "active"} => turn'[t].disp \notin {"absent", "active"}
  BY <1>2, RowsKept DEF RowKept
<1>3. CASE RecordInbound
  BY <1>0, <1>3 DEF RecordInbound, TaskInv, TurnRows, Live
<1>4. ASSUME NEW s \in InboundTriggers, HandleEvent(s) PROVE TaskInv'
  <2>1. CASE UNCHANGED <<active, pending, failures, completed, turn, lock>>
    BY <2>1 DEF TaskInv
  <2>2. CASE Submit(s, 0)
    BY <2>2 DEF Submit, Started, TaskInv
  <2> QED
    BY <1>4, <2>1, <2>2 DEF HandleEvent
<1>5. CASE PollNothing \/ BeginRender \/ EndRender \/ ExpireLock
  BY <1>5 DEF PollNothing, BeginRender, EndRender, ExpireLock, TaskInv
<1>6. CASE DrainCompleted
  BY <1>0, <1>6 DEF DrainCompleted, Collect, Started, TaskInv
<1>7. CASE DrainFailures
  BY <1>0, <1>7 DEF DrainFailures, Collect, Started, TaskInv
<1>8. CASE StartTurn
  <2>1. active.at = "starting" /\ pending = NoTrigger /\ pending' = pending
    BY <1>8 DEF StartTurn, TaskInv
  <2>2. \/ GotoTask("claiming") \/ GotoTask("done")
        \/ GotoTask("waiting") /\ turn' = turn /\ turn[active.trigger].disp = "active"
    BY <1>8 DEF StartTurn
  <2> QED
    BY <1>1, <2>1, <2>2 DEF TaskInv
<1>9. CASE ClaimTurn
  <2>1. turn'[active.trigger].disp = "active" /\ pending' = pending /\ pending = NoTrigger
    BY <1>0, <1>9 DEF ClaimTurn, TurnRows, TaskInv
  <2>2. active'.at = "waiting" /\ active'.trigger = active.trigger
    BY <1>1, <1>9 DEF ClaimTurn
  <2> QED
    BY <2>1, <2>2 DEF TaskInv
<1>10. CASE AcquireLock \/ Deliver
  BY <1>1, <1>10 DEF AcquireLock, Deliver, TaskInv
<1>11. CASE TurnFails
  BY <1>1, <1>11 DEF TurnFails, TaskInv, Cancellable
<1>12. CASE LockWaitTimeout
  BY <1>1, <1>12 DEF LockWaitTimeout, TaskInv
<1>13. CASE Close \/ AgentTimesOut \/ RefuseNoReply
  <2>1. active.at = "running" /\ pending = NoTrigger /\ pending' = pending
    BY <1>13 DEF Close, AgentTimesOut, RefuseNoReply, TaskInv
  <2>2. \/ GotoTask("done")
        \/ /\ GotoTask("delivering") /\ turn[active.trigger].disp \in Live
           /\ \E d \in {"closed", "pending"} : turn' = Settled(d)
    BY <1>13 DEF Close, AgentTimesOut, RefuseNoReply, WindowIsFresh, Live
  <2>3. \A d \in {"closed", "pending"} :
           turn[active.trigger].disp \in Live => Settled(d)[active.trigger].disp = d
    BY <1>0, <2>1, SettledRows DEF Dispositions
  <2> QED
    BY <1>1, <2>1, <2>2, <2>3 DEF TaskInv
<1>14. CASE Crash
  BY <1>0, <1>14 DEF Crash, TaskInv
<1>15. CASE Restart
  BY <1>0, <1>15 DEF Restart, ThreadInv, TaskInv, Started
<1>16. ASSUME NEW t \in Triggers, MarkSlow(t) PROVE TaskInv'
  <2>1. UNCHANGED <<active, pending>> /\ ~StartTurn /\ ~ClaimTurn
    <3>1. turn'[t].disp \in {"pending", "superseded"} /\ turn[t].disp = "active"
      BY <1>16, MarkedRows
    <3>2. ~StartTurn /\ ~ClaimTurn
      BY <1>0, <3>1 DEF StartTurn, ClaimTurn, TurnRows
    <3> QED
      BY <1>16, <3>2 DEF MarkSlow
  <2> QED
    BY <1>0, <1>2, <2>1 DEF TaskInv
<1>17. CASE UNCHANGED interactiveVars
  BY <1>17 DEF interactiveVars, TaskInv
<1> QED
  BY <1>3, <1>4, <1>5, <1>6, <1>7, <1>8, <1>9, <1>10, <1>11, <1>12, <1>13, <1>14, <1>15, <1>16,
     <1>17
     DEF WorkerNext, MainStep, TaskStep

-----------------------------------------------------------------------------
(* InteractiveWorker: SomebodyIsResponsible.                               *)

\* As long as no event comes back, an event that is not acknowledged brings a
\* new trigger.
FreshInv ==
    redelivered = 0 =>
        /\ pending # NoTrigger => turn[pending].disp = "absent"
        /\ \A s \in InboundTriggers : event[s] # "acked" => Unused(s)

\* As long as no event comes back, a row that the supervisor still knows was
\* claimed by this process.
EraInv ==
    redelivered = 0 =>
        \A t \in Triggers :
            turn[t].disp # "absent" => Forgotten(t) \/ turn[t].era = crashes

\* A message that has not come has no event.
NewsInv == \A s \in InboundTriggers : s > latest => event[s] = "absent"

\* An event that will be heard: nobody covers its message.
Unheard == \E s \in InboundTriggers : LeftOut(s) /\ lastClosed < s

\* The task, the pending slot or a failure will take up the newest message.
Responsible ==
    \/ active.at \in Cancellable /\ WillTakeUp(active.trigger)
    \/ WorksOn(active.trigger)
    \/ active.at = "failed" /\ active.retry < RetryLimit /\ WillTakeUp(active.trigger)
    \/ pending # NoTrigger /\ WillTakeUp(pending)
    \/ /\ active.at = "none"
       /\ \E i \in DOMAIN failures :
             failures[i].retry < RetryLimit /\ WillTakeUp(failures[i].trigger)

OpenInv ==
    ~GivenUp /\ ~LeftOpen /\ lastClosed < latest => phase = "down" \/ Unheard \/ Responsible

LEMMA NewsStep == WorkerTypeInv /\ NewsInv /\ [WorkerNext]_interactiveVars => NewsInv'
<1> SUFFICES ASSUME WorkerTypeInv, NewsInv, [WorkerNext]_interactiveVars PROVE NewsInv'
  OBVIOUS
<1> USE DEF dbVars, faultVars, NewsInv
<1>0. /\ latest \in Nat /\ InboundTriggers \subseteq Nat
      /\ event \in [InboundTriggers -> {"absent", "ready", "acked"}]
  BY TriggerNumbers DEF WorkerTypeInv, WorkerFlags, WorkerCounters
<1>1. CASE RecordInbound
  <2>1. latest' = latest + 1 /\ event' = [event EXCEPT ![latest + 1] = "ready"]
    BY <1>1 DEF RecordInbound
  <2> QED
    BY <1>0, <2>1
<1>2. ASSUME NEW s \in InboundTriggers, HandleEvent(s) PROVE NewsInv'
  <2>1. event[s] = "ready" /\ latest' = latest
        /\ (event' = event \/ event' = [event EXCEPT ![s] = "acked"])
    BY <1>2 DEF HandleEvent
  <2> QED
    BY <1>0, <2>1
<1>3. CASE PollNothing \/ BeginRender \/ EndRender \/ ExpireLock
  BY <1>3 DEF PollNothing, BeginRender, EndRender, ExpireLock
<1>4. CASE DrainCompleted \/ DrainFailures \/ Restart \/ Crash
  BY <1>4 DEF DrainCompleted, DrainFailures, Restart, Crash
<1>5. CASE StartTurn \/ ClaimTurn \/ AcquireLock
  BY <1>5 DEF StartTurn, ClaimTurn, AcquireLock
<1>6. CASE Deliver \/ TurnFails \/ LockWaitTimeout \/ Close
  BY <1>6 DEF Deliver, TurnFails, LockWaitTimeout, Close
<1>7. CASE AgentTimesOut \/ RefuseNoReply
  BY <1>7 DEF AgentTimesOut, RefuseNoReply
<1>8. CASE (\E t \in Triggers : MarkSlow(t)) \/ UNCHANGED interactiveVars
  BY <1>8 DEF MarkSlow, interactiveVars
<1> QED
  BY <1>1, <1>2, <1>3, <1>4, <1>5, <1>6, <1>7, <1>8 DEF WorkerNext, MainStep, TaskStep

LEMMA FreshStep ==
  /\ WorkerTypeInv /\ NewsInv /\ RecoverInv /\ ThreadInv /\ TaskInv /\ FreshInv
  /\ [WorkerNext]_interactiveVars
  => FreshInv'
<1> SUFFICES ASSUME WorkerTypeInv, NewsInv, RecoverInv, ThreadInv, TaskInv, FreshInv,
                    [WorkerNext]_interactiveVars, redelivered' = 0
             PROVE  FreshInv'
  BY DEF FreshInv
<1> USE DEF dbVars, supervisorVars, faultVars
<1>0. /\ turn \in [Triggers -> TurnRows] /\ active \in Tasks
      /\ event \in [InboundTriggers -> {"absent", "ready", "acked"}]
      /\ pending \in Triggers \cup {NoTrigger} /\ InboundTriggers \subseteq Triggers
      /\ redelivered \in Nat
  BY TriggerNumbers DEF WorkerTypeInv, WorkerFlags, WorkerCounters
\* The events: unused triggers stay unused but for the one acknowledged.
<1>1. ASSUME NEW s \in InboundTriggers, event'[s] # "acked", redelivered = 0,
             event[s] # "acked", ~HandleEvent(s)
      PROVE  Unused(s)'
  <2>1. s \in Triggers /\ Unused(s)
    BY <1>0, <1>1 DEF FreshInv
  <2>2. ~(Restart /\ s = MaxSeq + crashes)
    <3>1. Restart => crashes \in Nat \ {0} /\ MaxSeq \in Nat /\ s \in 1 .. MaxSeq
      BY WorkerAssumption DEF Restart, WorkerTypeInv, WorkerCounters, InboundTriggers
    <3> QED
      BY <3>1
  <2> QED
    BY <1>1, <2>1, <2>2, StaysUnused
<1>2. ASSUME redelivered = 0, event' = event, \A s \in InboundTriggers : ~HandleEvent(s),
             pending' # NoTrigger => turn'[pending'].disp = "absent"
      PROVE  FreshInv'
  BY <1>1, <1>2 DEF FreshInv
<1>3. ASSUME ~StartTurn, ~ClaimTurn
      PROVE  \A t \in Triggers : turn[t].disp = "absent" => turn'[t].disp = "absent"
  BY <1>3, RowsKept DEF RowKept
<1>4. ASSUME NEW s \in InboundTriggers, HandleEvent(s) PROVE FreshInv'
  <2>1. /\ event[s] = "ready" /\ redelivered = 0
        /\ event' = [event EXCEPT ![s] = "acked"]
    BY <1>0, <1>4 DEF HandleEvent
  <2>2. Unused(s) /\ s \in Triggers
    BY <1>0, <2>1 DEF FreshInv
  <2>3. ASSUME NEW u \in InboundTriggers, event'[u] # "acked" PROVE Unused(u)'
    <3>1. u # s /\ event[u] # "acked"
      BY <1>0, <2>1, <2>3
    <3>2. ~HandleEvent(u)
      <4> SUFFICES ASSUME HandleEvent(u) PROVE FALSE
        OBVIOUS
      <4>1. event' = [event EXCEPT ![u] = "acked"]
        BY <1>0, <2>1 DEF HandleEvent
      <4> QED
        BY <1>0, <2>1, <3>1, <4>1
    <3> QED
      BY <1>1, <2>1, <2>3, <3>1, <3>2
  <2>4. pending' # NoTrigger => turn'[pending'].disp = "absent"
    <3>1. CASE UNCHANGED <<active, pending, failures, completed, turn, lock>>
      BY <2>1, <3>1 DEF FreshInv
    <3>2. CASE Submit(s, 0)
      BY <2>2, <3>2 DEF Submit, Unused
    <3> QED
      BY <1>4, <3>1, <3>2 DEF HandleEvent
  <2> QED
    BY <2>3, <2>4 DEF FreshInv
<1>5. CASE /\ \A s \in InboundTriggers : ~HandleEvent(s)
           /\ ~RecordInbound
  <2>1. redelivered = 0 /\ event' = event
    <3>1. CASE PollNothing \/ BeginRender \/ EndRender \/ ExpireLock
      BY <3>1 DEF PollNothing, BeginRender, EndRender, ExpireLock
    <3>2. CASE DrainCompleted \/ DrainFailures \/ Restart \/ Crash
      BY <3>2 DEF DrainCompleted, DrainFailures, Restart, Crash
    <3>3. CASE StartTurn \/ ClaimTurn \/ AcquireLock
      BY <3>3 DEF StartTurn, ClaimTurn, AcquireLock
    <3>4. CASE Deliver \/ TurnFails \/ LockWaitTimeout \/ Close
      BY <3>4 DEF Deliver, TurnFails, LockWaitTimeout, Close
    <3>5. CASE AgentTimesOut \/ RefuseNoReply
      BY <3>5 DEF AgentTimesOut, RefuseNoReply
    <3>6. CASE (\E t \in Triggers : MarkSlow(t)) \/ UNCHANGED interactiveVars
      BY <3>6 DEF MarkSlow, interactiveVars
    <3> QED
      BY <1>5, <3>1, <3>2, <3>3, <3>4, <3>5, <3>6 DEF WorkerNext, MainStep, TaskStep
  <2>2. pending # NoTrigger => turn[pending].disp = "absent" /\ pending \in Triggers
    BY <1>0, <2>1 DEF FreshInv
  <2>3. pending' # NoTrigger => turn'[pending'].disp = "absent"
    <3>1. CASE PollNothing \/ BeginRender \/ EndRender \/ ExpireLock
      BY <2>2, <3>1 DEF PollNothing, BeginRender, EndRender, ExpireLock
    <3>2. CASE DrainCompleted \/ DrainFailures \/ Restart \/ Crash
      BY <2>2, <3>2 DEF DrainCompleted, DrainFailures, Restart, Crash, Collect
    <3>3. CASE StartTurn \/ ClaimTurn
      BY <3>3 DEF StartTurn, ClaimTurn, TaskInv
    <3>4. CASE AcquireLock \/ Deliver \/ TurnFails
      BY <2>2, <3>4 DEF AcquireLock, Deliver, TurnFails
    <3>5. CASE LockWaitTimeout \/ Close \/ AgentTimesOut \/ RefuseNoReply
      BY <3>5 DEF LockWaitTimeout, Close, AgentTimesOut, RefuseNoReply, TaskInv
    <3>6. ASSUME NEW t \in Triggers, MarkSlow(t)
          PROVE  pending' # NoTrigger => turn'[pending'].disp = "absent"
      <4>1. pending' = pending
        BY <3>6 DEF MarkSlow
      <4> QED
        BY <2>2, <3>6, <4>1, MarkedRows
    <3>7. CASE UNCHANGED interactiveVars
      BY <2>2, <3>7 DEF interactiveVars
    <3> QED
      BY <1>5, <3>1, <3>2, <3>3, <3>4, <3>5, <3>6, <3>7 DEF WorkerNext, MainStep, TaskStep
  <2> QED
    BY <1>2, <1>5, <2>1, <2>3
<1>6. CASE RecordInbound /\ \A s \in InboundTriggers : ~HandleEvent(s)
  <2>1. redelivered = 0 /\ event' = [event EXCEPT ![latest + 1] = "ready"]
        /\ pending' = pending
        /\ \A t \in Triggers : turn[t].disp = "absent" => turn'[t].disp = "absent"
    BY <1>6 DEF RecordInbound, Live
  <2>2. latest + 1 \in InboundTriggers /\ event[latest + 1] # "acked"
    <3>1. latest \in 0 .. MaxSeq /\ latest < MaxSeq /\ MaxSeq \in Nat
      BY <1>6, WorkerAssumption DEF RecordInbound, WorkerTypeInv, WorkerCounters
    <3>2. latest + 1 \in 1 .. MaxSeq /\ latest + 1 > latest
      BY <3>1
    <3> QED
      BY <3>2 DEF NewsInv, InboundTriggers
  <2>3. ASSUME NEW u \in InboundTriggers, event'[u] # "acked" PROVE Unused(u)'
    <3>1. event[u] # "acked"
      BY <1>0, <2>1, <2>2, <2>3
    <3> QED
      BY <1>1, <1>6, <2>1, <2>3, <3>1
  <2> QED
    BY <1>0, <2>1, <2>3 DEF FreshInv
<1> QED
  BY <1>4, <1>5, <1>6

\* The counter of the restarts and the counter of the redeliveries only grow.
LEMMA FaultCounters ==
  ASSUME WorkerTypeInv, [WorkerNext]_interactiveVars
  PROVE  /\ redelivered' = redelivered \/ redelivered' = redelivered + 1
         /\ crashes' = crashes \/ Crash
<1> USE DEF faultVars
<1>1. CASE RecordInbound \/ \E s \in InboundTriggers : HandleEvent(s)
  BY <1>1 DEF RecordInbound, HandleEvent
<1>2. CASE PollNothing \/ BeginRender \/ EndRender \/ ExpireLock
  BY <1>2 DEF PollNothing, BeginRender, EndRender, ExpireLock
<1>3. CASE DrainCompleted \/ DrainFailures \/ Restart \/ Crash
  BY <1>3 DEF DrainCompleted, DrainFailures, Restart, Crash
<1>4. CASE StartTurn \/ ClaimTurn \/ AcquireLock
  BY <1>4 DEF StartTurn, ClaimTurn, AcquireLock
<1>5. CASE Deliver \/ TurnFails \/ LockWaitTimeout \/ Close
  BY <1>5 DEF Deliver, TurnFails, LockWaitTimeout, Close
<1>6. CASE AgentTimesOut \/ RefuseNoReply
  BY <1>6 DEF AgentTimesOut, RefuseNoReply
<1>7. CASE (\E t \in Triggers : MarkSlow(t)) \/ UNCHANGED interactiveVars
  BY <1>7 DEF MarkSlow, interactiveVars
<1> QED
  BY <1>1, <1>2, <1>3, <1>4, <1>5, <1>6, <1>7 DEF WorkerNext, MainStep, TaskStep

LEMMA EraStep ==
  /\ WorkerTypeInv /\ RecoverInv /\ FreshInv /\ EraInv /\ [WorkerNext]_interactiveVars
  => EraInv'
<1> SUFFICES ASSUME WorkerTypeInv, RecoverInv, FreshInv, EraInv, [WorkerNext]_interactiveVars,
                    redelivered' = 0, NEW t \in Triggers, turn'[t].disp # "absent"
             PROVE  Forgotten(t)' \/ turn'[t].era = crashes'
  BY DEF EraInv
<1>0. redelivered = 0 /\ t # NoTrigger /\ turn \in [Triggers -> TurnRows]
  BY FaultCounters, TriggerNumbers DEF WorkerTypeInv, WorkerCounters, NoTrigger
<1>1. CASE Crash
  BY <1>0, <1>1 DEF Crash, Forgotten, NoTurn
<1>2. CASE ClaimTurn /\ t = active.trigger
  BY <1>0, <1>2 DEF ClaimTurn, TurnRows, faultVars
<1>3. CASE ~Crash /\ ~(ClaimTurn /\ t = active.trigger)
  <2>1. turn[t].disp # "absent" /\ turn'[t].era = turn[t].era
    <3>1. CASE StartTurn
      BY <1>0, <3>1 DEF StartTurn, TurnRows
    <3>2. CASE ClaimTurn
      BY <1>0, <1>3, <3>2 DEF ClaimTurn
    <3>3. CASE ~StartTurn /\ ~ClaimTurn
      BY <3>3, RowsKept DEF RowKept
    <3> QED
      BY <3>1, <3>2, <3>3
  <2>2. ~(t \in InboundTriggers /\ HandleEvent(t))
    BY <1>0, <2>1 DEF FreshInv, HandleEvent, Unused
  <2>3. ~(Restart /\ t = MaxSeq + crashes)
    BY <2>1 DEF RecoverInv, Restart, Unused
  <2>4. Forgotten(t) \/ turn[t].era = crashes
    BY <1>0, <2>1 DEF EraInv
  <2>5. Forgotten(t) => Forgotten(t)'
    BY <2>2, <2>3, StaysForgotten
  <2>6. crashes' = crashes
    BY <1>3, FaultCounters
  <2> QED
    BY <2>1, <2>4, <2>5, <2>6
<1> QED
  BY <1>1, <1>2, <1>3

\* What is left open stays so until a newer message or a crash: the row of a
\* task that no longer works on it is not settled again.
LEMMA LeftOpenStays ==
  ASSUME WorkerTypeInv, ClaimInv, [WorkerNext]_interactiveVars, LeftOpen,
         latest' = latest, crashes' = crashes
  PROVE  LeftOpen'
<1>1. PICK t \in Triggers : /\ turn[t].disp \in {"pending", "failed"} /\ turn[t].to = latest
                           /\ turn[t].era = crashes /\ ~WorksOn(t)
  BY DEF LeftOpen
<1> USE DEF dbVars, supervisorVars, faultVars
<1>0. /\ turn \in [Triggers -> TurnRows] /\ active \in Tasks /\ latest \in Nat
      /\ NoTurn.at = "none" /\ t # NoTrigger
      /\ active.at # "none" => active.trigger \in Triggers
  BY NoTask, TriggerNumbers DEF WorkerTypeInv, WorkerCounters, NoTrigger
<1>2. \A s : GotoTask(s) => active'.at = s /\ active'.trigger = active.trigger
  BY <1>0 DEF GotoTask, Tasks
<1> SUFFICES turn'[t] = turn[t] /\ ~WorksOn(t)'
  BY <1>1 DEF LeftOpen
<1>3. turn[t].disp \in Live => t # active.trigger \/ active.at \notin {"waiting", "running"}
  BY <1>1 DEF WorksOn
<1>4. ASSUME turn' = turn, active' = active \/ active'.at \notin {"waiting", "running"}
      PROVE  turn'[t] = turn[t] /\ ~WorksOn(t)'
  BY <1>1, <1>4 DEF WorksOn
<1>5. CASE RecordInbound
  BY <1>0, <1>5 DEF RecordInbound
<1>6. ASSUME NEW s \in InboundTriggers, HandleEvent(s) PROVE turn'[t] = turn[t] /\ ~WorksOn(t)'
  <2>1. turn' = turn \/ turn' = Interrupted
    BY <1>6 DEF HandleEvent, Submit
  <2>2. turn'[t] = turn[t]
    BY <1>0, <1>1, <2>1 DEF Interrupted
  <2>3. active' = active \/ active'.at = "starting"
    BY <1>6 DEF HandleEvent, Submit, Started
  <2>4. WorksOn(t)' => WorksOn(t)
    BY <1>6, <2>2, <2>3 DEF WorksOn
  <2> QED
    BY <1>1, <2>2, <2>4
<1>7. CASE PollNothing \/ BeginRender \/ EndRender \/ ExpireLock \/ UNCHANGED interactiveVars
  BY <1>4, <1>7 DEF PollNothing, BeginRender, EndRender, ExpireLock, interactiveVars
<1>8. CASE DrainCompleted \/ DrainFailures \/ Restart
  <2>1. turn' = turn /\ (active' = active \/ active'.at \in {"none", "starting"})
    BY <1>0, <1>8 DEF DrainCompleted, DrainFailures, Restart, Collect, Started
  <2> QED
    BY <1>4, <2>1
<1>9. CASE Deliver \/ TurnFails
  <2>1. turn' = turn /\ active'.at \in {"done", "failed"}
    BY <1>2, <1>9 DEF Deliver, TurnFails
  <2> QED
    BY <1>4, <2>1
<1>10. CASE StartTurn
  <2>1. turn'[t] = turn[t]
    BY <1>0, <1>1, <1>10 DEF StartTurn
  <2>2. active'.at = "waiting" => active.trigger # t \/ turn[t].disp = "active"
    BY <1>2, <1>10 DEF StartTurn
  <2>3. active'.at # "running" /\ active'.trigger = active.trigger
    BY <1>2, <1>10 DEF StartTurn
  <2> QED
    BY <1>1, <2>1, <2>2, <2>3 DEF WorksOn
<1>11. CASE ClaimTurn
  <2>1. t # active.trigger
    BY <1>1, <1>11 DEF ClaimInv, ClaimTurn
  <2> QED
    BY <1>0, <1>2, <1>11, <2>1 DEF ClaimTurn, WorksOn
<1>12. CASE AcquireLock
  <2>1. turn' = turn /\ active.at = "waiting" /\ active'.trigger = active.trigger
    BY <1>2, <1>12 DEF AcquireLock
  <2> QED
    BY <1>0, <1>1, <1>12, <2>1 DEF AcquireLock, WorksOn
<1>13. CASE LockWaitTimeout \/ Close \/ AgentTimesOut \/ RefuseNoReply
  <2>1. /\ active.at \in {"waiting", "running"} /\ active'.at \in {"delivering", "done", "failed"}
        /\ turn' = turn \/ \E d \in Dispositions : turn' = Settled(d)
    BY <1>2, <1>13 DEF LockWaitTimeout, Close, AgentTimesOut, RefuseNoReply, Dispositions
  <2>2. turn'[t] = turn[t]
    BY <1>0, <1>3, <2>1 DEF Settled
  <2> QED
    BY <1>0, <2>1, <2>2 DEF WorksOn
<1>14. ASSUME NEW u \in Triggers, MarkSlow(u) PROVE turn'[t] = turn[t] /\ ~WorksOn(t)'
  <2>1. u # t /\ turn'[t] = turn[t] /\ active' = active
    BY <1>1, <1>14, MarkedRows DEF MarkSlow
  <2> QED
    BY <1>0, <1>1, <2>1 DEF WorksOn
<1>15. CASE Crash
  BY <1>15 DEF Crash, WorkerTypeInv, WorkerCounters
<1> QED
  BY <1>5, <1>6, <1>7, <1>8, <1>9, <1>10, <1>11, <1>12, <1>13, <1>14, <1>15
     DEF WorkerNext, MainStep, TaskStep

\* OpenInv over a step, action by action.
LEMMA OpenStep ==
  /\ WorkerTypeInv /\ NewsInv /\ RecoverInv /\ ThreadInv /\ CountInv /\ RowInv /\ FreshInv
  /\ EraInv /\ OpenInv /\ [WorkerNext]_interactiveVars
  => OpenInv'
<1> SUFFICES ASSUME WorkerTypeInv, NewsInv, RecoverInv, ThreadInv, CountInv, RowInv, FreshInv,
                    EraInv, OpenInv, [WorkerNext]_interactiveVars,
                    ~GivenUp', ~LeftOpen', (lastClosed < latest)'
             PROVE  (phase = "down" \/ Unheard \/ Responsible)'
  BY DEF OpenInv
<1> USE DEF dbVars, supervisorVars, faultVars, RowInv
<1>0. /\ turn \in [Triggers -> TurnRows] /\ active \in Tasks
      /\ event \in [InboundTriggers -> {"absent", "ready", "acked"}]
      /\ pending \in Triggers \cup {NoTrigger} /\ InboundTriggers \subseteq Triggers
      /\ latest \in 0 .. MaxSeq /\ lastClosed \in 0 .. MaxSeq /\ MaxSeq \in Nat
      /\ failed \in Nat /\ redelivered \in Nat /\ crashes \in Nat
      /\ InboundTriggers = 1 .. MaxSeq
      /\ active.at # "none" => active.trigger \in Triggers
      /\ NoTurn.at = "none" /\ RetryLimit = 1
  BY TriggerNumbers, NoTask, WorkerAssumption
     DEF WorkerTypeInv, WorkerFlags, WorkerCounters, InboundTriggers, RetryLimit
<1>1. \A s : GotoTask(s) => /\ active'.at = s /\ active'.trigger = active.trigger
                            /\ active'.retry = active.retry
  BY <1>0 DEF GotoTask, Tasks
<1>2. redelivered' = 0 /\ ~(failed' > 1)
  <2>1. redelivered' \in Nat
    BY WorkerTypeStep, WorkerAssumption DEF WorkerTypeInv, WorkerCounters
  <2> QED
    BY <1>0, <2>1 DEF GivenUp
\* Who is responsible before the step, if there was no crash, no redelivery,
\* and the window was already open.
<1>3. ASSUME UNCHANGED <<latest, lastClosed, crashes, redelivered>>,
             failed' = failed \/ failed' = failed + 1
      PROVE  /\ lastClosed < latest /\ redelivered = 0 /\ failed <= 1
             /\ phase = "down" \/ Unheard \/ Responsible
  <2>1. lastClosed < latest /\ redelivered = 0 /\ failed <= 1
    BY <1>0, <1>2, <1>3
  <2>2. ~GivenUp
    BY <1>0, <2>1 DEF GivenUp
  <2>3. ~LeftOpen
    BY <1>3, LeftOpenStays
  <2> QED
    BY <2>1, <2>2, <2>3 DEF OpenInv
<1>4. ASSUME UNCHANGED <<latest, lastClosed, turn, event>>, Unheard PROVE Unheard'
  BY <1>4 DEF Unheard, LeftOut, Covered
<1>5. ASSUME UNCHANGED <<latest, lastClosed, turn, active, pending, failures>>, Responsible
      PROVE  Responsible'
  BY <1>5 DEF Responsible, WillTakeUp, WorksOn
\* Rows that are only settled do not cover more messages.
<1>6. ASSUME UNCHANGED <<lastClosed, event>>, \A t \in Triggers : RowKept(t), Unheard
      PROVE  Unheard'
  BY <1>6 DEF RowKept, Unheard, LeftOut, Covered
\* The task stops working on the newest message: its row is left open.
<1>21. ASSUME active.at # "none", turn[active.trigger].disp # "absent",
              UNCHANGED <<latest, crashes>>, redelivered = 0,
              turn'[active.trigger].disp \in {"pending", "failed"},
              turn'[active.trigger].to = turn[active.trigger].to,
              turn'[active.trigger].era = turn[active.trigger].era,
              active'.at \notin {"waiting", "running"}
       PROVE  turn[active.trigger].to # latest
  <2>1. turn[active.trigger].era = crashes /\ active.trigger \in Triggers
    BY <1>0, <1>21 DEF EraInv, Forgotten
  <2> QED
    BY <1>21, <2>1 DEF LeftOpen, WorksOn
\* A task whose row does not reach the newest message will not take it up.
<1>22. ASSUME active.at \in {"waiting", "running"}, turn[active.trigger].to # latest, Responsible
       PROVE  FALSE
  BY <1>22 DEF TaskInv, Responsible, WillTakeUp, WorksOn
<1>7. CASE RecordInbound
  <2>1. latest + 1 \in InboundTriggers /\ event'[latest + 1] = "ready" /\ lastClosed' < latest + 1
    BY <1>0, <1>7 DEF RecordInbound, ActiveInv
  <2>2. \A t \in Triggers : turn'[t].disp \notin Live
    BY <1>0, <1>7 DEF RecordInbound, TurnRows, Live
  <2> QED
    BY <2>1, <2>2 DEF Unheard, LeftOut, Covered
<1>8. ASSUME NEW s \in InboundTriggers, HandleEvent(s) PROVE Unheard' \/ Responsible'
  <2>1. /\ UNCHANGED <<latest, lastClosed>> /\ phase = "polling" /\ redelivered = 0
        /\ event[s] = "ready" /\ event' = [event EXCEPT ![s] = "acked"]
        /\ faultVars' = faultVars
    BY <1>0, <1>2, <1>8 DEF HandleEvent
  <2>2. Unheard \/ Responsible
    BY <1>3, <2>1
  <2>3. CASE Covered(s)
    <3>1. UNCHANGED <<turn, active, pending, failures>>
      BY <1>8, <2>3 DEF HandleEvent
    <3>2. ASSUME Unheard PROVE Unheard'
      <4>1. PICK u \in InboundTriggers : LeftOut(u) /\ lastClosed < u
        BY <3>2 DEF Unheard
      <4>2. u # s /\ event'[u] = "ready"
        BY <1>0, <2>1, <2>3, <4>1 DEF LeftOut
      <4>3. ~Covered(u)'
        BY <3>1, <4>1 DEF LeftOut, Covered
      <4> QED
        BY <2>1, <4>1, <4>2, <4>3 DEF Unheard, LeftOut
    <3> QED
      BY <1>5, <2>1, <2>2, <3>1, <3>2
  <2>4. CASE ~Covered(s)
    <3>1. Unused(s) /\ s \in Triggers /\ s # NoTrigger
      BY <1>0, <2>1, TriggerNumbers DEF FreshInv, NoTrigger
    <3>2. Submit(s, 0)
      BY <1>8, <2>4 DEF HandleEvent
    <3>3. CASE active.at = "delivering"
      BY <3>1, <3>2, <3>3 DEF Submit, Responsible, WillTakeUp, Unused
    <3>4. CASE active.at # "delivering"
      <4>1. active'.at = "starting" /\ active'.trigger = s
        BY <3>2, <3>4 DEF Submit, Started
      <4>2. turn'[s].disp = "absent"
        BY <3>1, <3>2, <3>4, InterruptedRows DEF Submit, Unused
      <4> QED
        BY <4>1, <4>2 DEF Responsible, WillTakeUp, Cancellable
    <3> QED
      BY <3>3, <3>4
  <2> QED
    BY <2>3, <2>4
<1>9. CASE PollNothing \/ BeginRender \/ EndRender \/ ExpireLock
  <2>1. UNCHANGED <<latest, lastClosed, turn, event, active, pending, failures>>
        /\ faultVars' = faultVars /\ (phase = "down" => phase' = "down")
    BY <1>9 DEF PollNothing, BeginRender, EndRender, ExpireLock
  <2> QED
    BY <1>3, <1>4, <1>5, <2>1
<1>10. CASE DrainCompleted
  <2>1. UNCHANGED <<latest, lastClosed, turn, event>> /\ faultVars' = faultVars
        /\ phase = "draining" /\ failures' = CollectedFailures /\ Collect
    BY <1>10 DEF DrainCompleted
  <2>2. Unheard \/ Responsible
    BY <1>3, <2>1
  <2>3. \A t \in Triggers \cup {NoTrigger} : WillTakeUp(t)' <=> WillTakeUp(t)
    BY <2>1 DEF WillTakeUp
  <2>4. CASE active.at = "failed" /\ active.retry < RetryLimit /\ WillTakeUp(active.trigger)
    <3>1. pending = NoTrigger
      BY <2>4 DEF TaskInv, WillTakeUp
    <3>2. active'.at = "none"
      BY <1>0, <2>1, <2>4, <3>1 DEF Collect, TaskEnded
    <3>3. \E i \in DOMAIN failures' : failures'[i].retry < RetryLimit /\ failures'[i].trigger = active.trigger
      BY <2>1, <2>4, Collecting
    <3> QED
      BY <1>0, <2>3, <2>4, <3>2, <3>3 DEF Responsible
  <2>5. CASE pending # NoTrigger /\ WillTakeUp(pending)
    <3>1. CASE TaskEnded
      BY <1>0, <2>1, <2>3, <2>5, <3>1 DEF Collect, Responsible, Started, Cancellable
    <3>2. CASE ~TaskEnded
      BY <1>0, <2>1, <2>3, <2>5, <3>2 DEF Collect, Responsible
    <3> QED
      BY <3>1, <3>2
  <2>6. CASE ~TaskEnded /\ Responsible
    <3>1. UNCHANGED <<active, pending, failures>>
      BY <2>1, <2>6 DEF Collect, CollectedFailures, TaskEnded
    <3> QED
      BY <1>5, <2>1, <2>6, <3>1
  <2> QED
    BY <1>4, <2>1, <2>2, <2>4, <2>5, <2>6 DEF Responsible, WorksOn, TaskEnded, Cancellable
<1>11. CASE DrainFailures
  <2>1. UNCHANGED <<latest, lastClosed, turn, event>> /\ faultVars' = faultVars
        /\ phase = "retrying" /\ ~completed
    BY <1>11 DEF DrainFailures, ThreadInv
  <2>2. (Unheard \/ Responsible) /\ failed <= 1
    BY <1>0, <1>3, <2>1
  <2>3. \A t \in Triggers \cup {NoTrigger} : WillTakeUp(t)' <=> WillTakeUp(t)
    BY <2>1 DEF WillTakeUp
  <2>4. Len(failures) \in Nat /\ failures \in Seq(Failures) /\ DOMAIN failures = 1 .. Len(failures)
    BY DEF WorkerTypeInv
  \* Only one task has failed so far: its failure is the one that is retried.
  <2>5. ASSUME active.at \in {"none", "failed"}, pending = NoTrigger,
               NEW k \in Retryable, WillTakeUp(CollectedFailures[k].trigger),
               DOMAIN CollectedFailures \subseteq {1}
        PROVE  Responsible'
    <3>1. FirstRetryable = CollectedFailures[k] /\ FirstRetryable \in Failures
      BY <2>5, TheFirstRetryable DEF Retryable
    <3>2. active' = Started(FirstRetryable.trigger, FirstRetryable.retry + 1)
      BY <1>11, <2>1, <2>5 DEF DrainFailures, TaskEnded
    <3>3. active'.at = "starting" /\ active'.trigger = FirstRetryable.trigger
          /\ FirstRetryable.trigger \in Triggers
      BY <3>1, <3>2 DEF Started, Failures
    <3> QED
      BY <2>3, <2>5, <3>1, <3>3 DEF Responsible, Cancellable
  <2>6. CASE active.at = "failed" /\ active.retry < RetryLimit /\ WillTakeUp(active.trigger)
    <3>1. pending = NoTrigger
      BY <2>6 DEF TaskInv, WillTakeUp
    <3>2. Len(failures) = 0
      BY <1>0, <2>2, <2>4, <2>6 DEF CountInv
    <3>3. DOMAIN CollectedFailures \subseteq {1} /\ 1 \in DOMAIN CollectedFailures
          /\ CollectedFailures[1] = [trigger |-> active.trigger, retry |-> active.retry]
      BY <2>4, <2>6, <3>2, Collecting
    <3>4. 1 \in Retryable /\ CollectedFailures[1].trigger = active.trigger
      BY <2>6, <3>3 DEF Retryable
    <3> QED
      BY <2>5, <2>6, <3>1, <3>3, <3>4
  <2>7. CASE /\ active.at = "none"
             /\ \E i \in DOMAIN failures :
                   failures[i].retry < RetryLimit /\ WillTakeUp(failures[i].trigger)
    <3>1. PICK i \in DOMAIN failures :
             failures[i].retry < RetryLimit /\ WillTakeUp(failures[i].trigger)
      BY <2>7
    <3>2. pending = NoTrigger /\ CollectedFailures = failures
      BY <2>7 DEF TaskInv, CollectedFailures
    <3>3. Len(failures) <= 1
      BY <1>0, <2>2, <2>4 DEF CountInv
    <3>4. DOMAIN CollectedFailures \subseteq {1}
      BY <2>4, <3>2, <3>3
    <3>5. i \in Retryable
      BY <3>1, <3>2 DEF Retryable
    <3> QED
      BY <2>5, <2>7, <3>1, <3>2, <3>4, <3>5
  <2>8. CASE /\ pending # NoTrigger \/ active.at \in Cancellable
             /\ Responsible
    <3>1. Collect
      BY <1>11, <2>8 DEF DrainFailures, TaskEnded, Cancellable
    <3>2. CASE pending # NoTrigger /\ WillTakeUp(pending) /\ TaskEnded
      BY <1>0, <2>3, <3>1, <3>2 DEF Collect, Responsible, Started, Cancellable
    <3>3. CASE pending # NoTrigger /\ WillTakeUp(pending) /\ ~TaskEnded
      BY <1>0, <2>3, <3>1, <3>3 DEF Collect, Responsible
    <3>4. CASE active.at \in Cancellable /\ WillTakeUp(active.trigger)
      BY <1>0, <2>3, <3>1, <3>4 DEF Collect, Responsible, Cancellable, TaskEnded
    <3>6. CASE WorksOn(active.trigger)
      <4>1. active' = active /\ pending' = pending
        BY <3>1, <3>6 DEF Collect, WorksOn, TaskEnded
      <4> QED
        BY <2>1, <3>6, <4>1 DEF Responsible, WorksOn
    <3>5. pending # NoTrigger => active.at \notin Cancellable
          /\ (active.at = "failed" => ~WillTakeUp(active.trigger)) /\ active.at # "none"
      BY DEF TaskInv, WillTakeUp, Cancellable
    <3> QED
      BY <2>8, <3>2, <3>3, <3>4, <3>5, <3>6 DEF Responsible, Cancellable
  <2> QED
    BY <1>4, <2>1, <2>2, <2>6, <2>7, <2>8 DEF Responsible, WorksOn, Cancellable
<1>12. CASE StartTurn
  <2>1. UNCHANGED <<latest, lastClosed, event>> /\ faultVars' = faultVars
        /\ active.at = "starting" /\ phase' = phase
    BY <1>12 DEF StartTurn
  <2>2. pending = NoTrigger /\ active.trigger \in Triggers
    BY <1>0, <2>1 DEF TaskInv
  <2>3. ASSUME Unheard PROVE Unheard'
    <3>1. \A t \in Triggers : turn'[t].disp = turn[t].disp
          /\ (turn[t].disp \in Live => turn'[t] = turn[t])
      <4>1. CASE UNCHANGED turn
        BY <4>1
      <4>2. CASE /\ turn[active.trigger].disp = "absent"
                 /\ turn' = [turn EXCEPT ![active.trigger].from = lastClosed + 1,
                                        ![active.trigger].to = latest]
        <5>1. turn'[active.trigger].disp = "absent"
              /\ \A t \in Triggers : t # active.trigger => turn'[t] = turn[t]
          BY <1>0, <2>2, <4>2 DEF TurnRows
        <5> QED
          BY <4>2, <5>1 DEF Live
      <4> QED
        BY <1>12, <4>1, <4>2 DEF StartTurn
    <3> QED
      BY <2>1, <2>3, <3>1 DEF Unheard, LeftOut, Covered
  <2>4. ASSUME WillTakeUp(active.trigger) PROVE Responsible'
    <3>1. lastClosed < latest
      BY <1>3, <2>1
    <3>2. CASE turn[active.trigger].disp = "absent"
      <4>1. GotoTask("claiming")
            /\ turn' = [turn EXCEPT ![active.trigger].from = lastClosed + 1,
                                    ![active.trigger].to = latest]
        BY <1>0, <1>12, <3>1, <3>2 DEF StartTurn
      <4>2. turn'[active.trigger].disp = "absent"
        BY <1>0, <2>2, <3>2, <4>1 DEF TurnRows
      <4> QED
        BY <1>1, <4>1, <4>2 DEF Responsible, WillTakeUp, Cancellable
    <3>3. CASE turn[active.trigger].disp = "active" /\ turn[active.trigger].to = latest
      <4>1. GotoTask("waiting") /\ turn' = turn
        BY <1>12, <3>3 DEF StartTurn
      <4> QED
        BY <1>1, <2>1, <3>3, <4>1 DEF Responsible, WillTakeUp, Cancellable
    <3> QED
      BY <2>4, <3>2, <3>3 DEF WillTakeUp
  <2>5. phase = "down" => phase' = "down"
    BY <2>1
  <2> QED
    BY <1>3, <2>1, <2>2, <2>3, <2>4, <2>5 DEF Responsible, WorksOn
<1>13. CASE ClaimTurn
  <2>1. UNCHANGED <<latest, lastClosed, event, phase>> /\ faultVars' = faultVars
        /\ active.at = "claiming" /\ GotoTask("waiting")
        /\ turn' = [turn EXCEPT ![active.trigger].disp = "active",
                                ![active.trigger].era = crashes]
    BY <1>13 DEF ClaimTurn
  <2>2. active.trigger \in Triggers /\ lastClosed < latest
    BY <1>0, <1>3, <2>1
  <2>3. /\ turn'[active.trigger].disp = "active"
        /\ turn'[active.trigger].from = turn[active.trigger].from
        /\ turn'[active.trigger].to = turn[active.trigger].to
        /\ turn[active.trigger].to \in Nat /\ turn[active.trigger].from \in Nat
        /\ \A t \in Triggers : t # active.trigger => turn'[t] = turn[t]
    BY <1>0, <2>1, <2>2 DEF TurnRows
  <2>4. CASE turn[active.trigger].to = latest
    BY <1>1, <2>1, <2>3, <2>4 DEF Responsible, WillTakeUp, Cancellable
  <2>5. CASE turn[active.trigger].to # latest
    <3>1. turn[active.trigger].to < latest /\ latest \in InboundTriggers
      BY <1>0, <2>1, <2>2, <2>3, <2>5 DEF ClaimInv
    <3>2. LeftOut(latest)
      BY <1>0, <2>1, <3>1 DEF ClaimInv
    <3>3. ~Covered(latest)'
      BY <1>0, <2>1, <2>2, <2>3, <3>1, <3>2 DEF LeftOut, Covered
    <3> QED
      BY <2>1, <2>2, <3>1, <3>2, <3>3 DEF Unheard, LeftOut
  <2> QED
    BY <2>4, <2>5
<1>14. CASE AcquireLock \/ Deliver
  <2>1. UNCHANGED <<latest, lastClosed, turn, event, phase, pending, failures>>
        /\ faultVars' = faultVars
    BY <1>14 DEF AcquireLock, Deliver
  <2>2. CASE AcquireLock
    BY <1>1, <1>3, <1>4, <2>1, <2>2 DEF AcquireLock, Responsible, WillTakeUp, WorksOn, Cancellable
  <2>3. CASE Deliver
    BY <1>1, <1>3, <1>4, <2>1, <2>3 DEF Deliver, Responsible, WillTakeUp, WorksOn, Cancellable
  <2> QED
    BY <1>14, <2>2, <2>3
<1>15. CASE TurnFails
  <2>1. UNCHANGED <<latest, lastClosed, turn, event, phase, pending, failures,
                    crashes, redelivered>>
        /\ failed' = failed + 1 /\ GotoTask("failed")
        /\ active.at \in Cancellable \cup {"delivering"}
    BY <1>15 DEF TurnFails
  <2>2. failed = 0 /\ redelivered = 0
    BY <1>0, <1>2, <2>1
  <2>3. phase = "down" \/ Unheard \/ Responsible
    BY <1>3, <2>1
  <2>4. active.retry < RetryLimit
    BY <1>0, <2>2 DEF CountInv, Tasks
  <2>5. active'.at = "failed" /\ active'.trigger = active.trigger /\ active'.retry = active.retry
    BY <1>1, <2>1
  <2>6. CASE WorksOn(active.trigger)
    <3>1. active.at # "none" /\ turn[active.trigger].disp \in Live
      BY <2>6 DEF WorksOn
    <3>2. turn[active.trigger].disp # "pending"
      BY <1>21, <2>1, <2>2, <2>5, <2>6, <3>1 DEF WorksOn, Live
    <3> QED
      BY <2>1, <2>4, <2>5, <2>6, <3>1, <3>2 DEF Responsible, WillTakeUp, WorksOn, Live
  <2>7. CASE ~WorksOn(active.trigger)
    BY <1>4, <2>1, <2>3, <2>4, <2>5, <2>7 DEF Responsible, WillTakeUp, Cancellable
  <2> QED
    BY <2>6, <2>7
<1>16. CASE LockWaitTimeout \/ RefuseNoReply
  <2>1. /\ UNCHANGED <<latest, lastClosed, event, pending, failures, phase, crashes, redelivered>>
        /\ failed' = failed \/ failed' = failed + 1
        /\ active.at \in {"waiting", "running"} /\ active'.at \in {"done", "failed"}
        /\ active'.trigger = active.trigger
    BY <1>1, <1>16 DEF LockWaitTimeout, RefuseNoReply
  <2>2. lastClosed < latest /\ redelivered = 0 /\ (phase = "down" \/ Unheard \/ Responsible)
    BY <1>3, <2>1
  <2>3. active.trigger \in Triggers /\ pending = NoTrigger
    BY <1>0, <2>1 DEF TaskInv
  <2>4. \A t \in Triggers : RowKept(t)
    BY <2>1, RowsKept DEF StartTurn, ClaimTurn
  <2>5. Unheard => Unheard'
    BY <1>6, <2>1, <2>4
  <2>6. CASE turn[active.trigger].disp \in Live
    <3>1. turn' = Settled("failed")
      BY <1>16, <2>6 DEF LockWaitTimeout, RefuseNoReply
    <3>2. turn'[active.trigger].disp = "failed"
      BY <2>3, <2>6, <3>1, SettledRows DEF Dispositions
    <3>3. turn[active.trigger].to # latest
      BY <1>21, <2>1, <2>2, <2>3, <2>4, <2>6, <3>2 DEF RowKept, Live
    <3> QED
      BY <1>22, <2>1, <2>2, <2>5, <3>3
  <2>7. CASE turn[active.trigger].disp \notin Live
    <3>1. ~Responsible
      BY <2>1, <2>3, <2>7 DEF TaskInv, Responsible, WillTakeUp, WorksOn, Live
    <3> QED
      BY <2>1, <2>2, <2>5, <3>1
  <2> QED
    BY <2>6, <2>7
<1>17. CASE Close
  <2>1. active.at = "running" /\ latest' = latest /\ event' = event
        /\ UNCHANGED <<pending, failures, phase, crashes, redelivered, failed>>
    BY <1>17 DEF Close, faultVars
  <2>2. CASE WindowIsFresh(turn[active.trigger])
    BY <1>0, <1>17, <2>2 DEF Close, WindowIsFresh
  <2>3. CASE ~WindowIsFresh(turn[active.trigger])
    <3>1. lastClosed' = lastClosed /\ turn' = Settled("superseded")
      BY <1>17, <2>3 DEF Close
    <3>2. /\ lastClosed < latest /\ active.trigger \in Triggers /\ pending = NoTrigger
          /\ phase = "down" \/ Unheard \/ Responsible
      BY <1>0, <1>3, <2>1, <3>1 DEF TaskInv
    <3>3. turn[active.trigger].disp \notin Live \/ turn[active.trigger].to # latest
      BY <2>3, <3>2 DEF ActiveInv, WindowIsFresh
    <3>4. ~Responsible
      BY <2>1, <3>2, <3>3 DEF TaskInv, Responsible, WillTakeUp, WorksOn, Live
    <3>5. ~StartTurn /\ ~ClaimTurn
      BY <2>1 DEF StartTurn, ClaimTurn
    <3>6. ASSUME Unheard PROVE Unheard'
      BY <1>6, <2>1, <3>1, <3>5, <3>6, RowsKept
    <3> QED
      BY <2>1, <3>2, <3>4, <3>6
  <2> QED
    BY <2>2, <2>3
<1>23. CASE AgentTimesOut
  <2>1. /\ UNCHANGED <<latest, lastClosed, crashes, redelivered, failed>>
        /\ active.at = "running" /\ active'.at = "delivering"
        /\ turn[active.trigger].disp = "active" /\ turn[active.trigger].to = latest
        /\ turn' = Settled("pending")
    BY <1>1, <1>23 DEF AgentTimesOut, WindowIsFresh
  <2>2. redelivered = 0 /\ active.trigger \in Triggers
    BY <1>0, <1>3, <2>1
  <2>3. /\ turn'[active.trigger].disp = "pending"
        /\ turn'[active.trigger].to = turn[active.trigger].to
        /\ turn'[active.trigger].era = turn[active.trigger].era
    BY <2>1, <2>2, SettledRows DEF Dispositions, Live
  <2> QED
    BY <1>21, <2>1, <2>2, <2>3
<1>24. ASSUME NEW t \in Triggers, MarkSlow(t) PROVE phase' = "down" \/ Unheard' \/ Responsible'
  <2>1. UNCHANGED <<latest, lastClosed, event, active, pending, failures, phase,
                    crashes, redelivered, failed>> /\ turn[t].to = latest
    BY <1>24 DEF MarkSlow
  <2>2. lastClosed < latest /\ redelivered = 0 /\ (phase = "down" \/ Unheard \/ Responsible)
    BY <1>3, <2>1
  <2>3. /\ turn[t].disp = "active" /\ turn'[t].disp = "pending"
        /\ turn'[t].to = latest /\ turn'[t].era = turn[t].era
        /\ \A u \in Triggers \ {t} : turn'[u] = turn[u]
    BY <1>24, <2>1, <2>2, MarkedRows DEF ActiveInv, Live
  <2>4. CASE WorksOn(t)
    BY <2>1, <2>3, <2>4 DEF Responsible, WorksOn, Live
  <2>5. CASE ~WorksOn(t)
    <3>1. ~WorksOn(t)'
      BY <2>1, <2>3, <2>5 DEF WorksOn, Live
    <3>2. turn[t].era # crashes
      BY <2>1, <2>3, <3>1 DEF LeftOpen
    <3>3. Forgotten(t)
      BY <2>2, <2>3, <3>2 DEF EraInv
    <3>4. ASSUME Responsible PROVE Responsible'
      <4>1. \A u \in (Triggers \cup {NoTrigger}) \ {t} : u \in Triggers =>
               /\ WillTakeUp(u) => WillTakeUp(u)'
               /\ WorksOn(u) => WorksOn(u)'
        BY <2>1, <2>3 DEF WillTakeUp, WorksOn
      <4>2. /\ active.at # "none" => active.trigger \in Triggers \ {t}
            /\ pending # NoTrigger => pending \in Triggers \ {t}
            /\ \A k \in DOMAIN failures : failures[k].trigger \in Triggers \ {t}
        <5>1. failures \in Seq(Failures)
          BY DEF WorkerTypeInv
        <5>2. \A k \in DOMAIN failures : failures[k] \in Failures
          BY <5>1
        <5>3. \A f \in Failures : f.trigger \in Triggers
          BY DEF Failures
        <5> QED
          BY <1>0, <3>3, <5>2, <5>3 DEF Forgotten
      <4> QED
        BY <2>1, <3>4, <4>1, <4>2 DEF Responsible, WorksOn, Cancellable
    <3>5. \A u \in Triggers : RowKept(u)
      <4>1. ~StartTurn /\ ~ClaimTurn
        BY <1>0, <2>3 DEF StartTurn, ClaimTurn, TurnRows
      <4> QED
        BY <4>1, RowsKept
    <3> QED
      BY <1>6, <2>1, <2>2, <3>4, <3>5
  <2> QED
    BY <2>4, <2>5
<1>18. CASE Crash
  BY <1>18 DEF Crash
<1>19. CASE Restart
  <2>1. UNCHANGED <<latest, lastClosed, turn>> /\ faultVars' = faultVars /\ phase = "down"
        /\ active' = IF lastClosed < latest THEN Started(MaxSeq + crashes, 0) ELSE NoTurn
    BY <1>19 DEF Restart
  <2>2. active'.at = "starting" /\ active'.trigger = MaxSeq + crashes
    BY <1>3, <2>1 DEF Started
  <2>3. MaxSeq + crashes \in Triggers
    BY <2>1, TriggerNumbers, <1>0 DEF WorkerTypeInv, WorkerCounters
  <2>4. turn[MaxSeq + crashes].disp = "absent"
    BY <2>1, <2>3 DEF RecoverInv, Unused
  <2> QED
    BY <2>1, <2>2, <2>4 DEF Responsible, WillTakeUp, Cancellable
<1>20. CASE UNCHANGED interactiveVars
  <2>1. UNCHANGED <<latest, lastClosed, turn, event, active, pending, failures, phase>>
        /\ faultVars' = faultVars
    BY <1>20 DEF interactiveVars
  <2> QED
    BY <1>3, <1>4, <1>5, <2>1
<1> QED
  BY <1>7, <1>8, <1>9, <1>10, <1>11, <1>12, <1>13, <1>14, <1>15, <1>16, <1>17, <1>18, <1>19, <1>20,
     <1>23, <1>24
     DEF WorkerNext, MainStep, TaskStep

-----------------------------------------------------------------------------
(* InteractiveWorker: the theorems.                                        *)

WorkerInv ==
    /\ WorkerTypeInv /\ NewsInv /\ RecoverInv /\ ThreadInv /\ CountInv /\ RowInv /\ FreshInv
    /\ EraInv /\ OpenInv

LEMMA WorkerInvInit == WorkerInit => WorkerInv
<1> SUFFICES ASSUME WorkerInit PROVE WorkerInv
  OBVIOUS
<1>1. WorkerTypeInv
  BY WorkerTypeInit
<1>2. \A t \in Triggers : t # NoTrigger
  BY TriggerNumbers DEF NoTrigger
<1>3. NewsInv /\ ThreadInv /\ CountInv /\ OpenInv
  BY DEF WorkerInit, NewsInv, ThreadInv, CountInv, OpenInv, NoTurn
<1>4. RecoverInv /\ FreshInv /\ EraInv
  <2>1. \A t \in Triggers : Unused(t)
    BY <1>2 DEF WorkerInit, Unused, Forgotten, NoTurn, NoRow
  <2> QED
    BY <2>1, TriggerNumbers DEF WorkerInit, RecoverInv, FreshInv, EraInv, Unused
<1>5. RowInv
  BY DEF WorkerInit, RowInv, ActiveInv, ClaimInv, TaskInv, NoTurn, NoRow, Live
<1> QED
  BY <1>1, <1>3, <1>4, <1>5 DEF WorkerInv

LEMMA WorkerInvStep == WorkerInv /\ [WorkerNext]_interactiveVars => WorkerInv'
BY WorkerTypeStep, NewsStep, RecoverStep, ThreadStep, CountStep, ActiveStep, ClaimStep,
   TaskStays, FreshStep, EraStep, OpenStep
   DEF WorkerInv, RowInv

LEMMA WorkerInvariant == WorkerSpec => []WorkerInv
<1>1. WorkerInit => WorkerInv
  BY WorkerInvInit
<1>2. WorkerInv /\ [WorkerNext]_interactiveVars => WorkerInv'
  BY WorkerInvStep
<1> QED
  BY <1>1, <1>2, PTL DEF WorkerSpec

\* The supervisor, the task and the database keep their types.
THEOREM WorkerTypesHold == WorkerSpec => []WorkerTypeOK
<1>1. WorkerInv => WorkerTypeOK
  BY WorkerTypes DEF WorkerInv
<1> QED
  BY <1>1, WorkerInvariant, PTL

\* As long as a message waits for its close, an event, the task, the pending
\* slot, a failure with a retry left or a restart will take it up, unless the
\* worker has given up on one, or the newest turn is one it has left open:
\* pending or failed, with no task at work on it.
THEOREM SomebodyAlwaysResponsible == WorkerSpec => []SomebodyIsResponsible
<1>1. WorkerInv => SomebodyIsResponsible
  <2> SUFFICES ASSUME WorkerInv, ~GivenUp, ~LeftOpen, lastClosed < latest, phase # "down"
               PROVE  Unheard \/ Responsible => SomebodyIsResponsible
    BY DEF WorkerInv, OpenInv, SomebodyIsResponsible
  <2>1. DOMAIN failures = 1 .. Len(failures)
    BY DEF WorkerInv, WorkerTypeInv
  <2> QED
    BY <2>1 DEF Unheard, LeftOut, Responsible, SomebodyIsResponsible
<1> QED
  BY <1>1, WorkerInvariant, PTL

\* Only the end of the process stops a reply behind its close: submit puts the
\* newer trigger into the pending slot.
THEOREM ADeliveryIsNotCancelled == WorkerSpec => DeliveryNotCancelled
<1>1. ASSUME WorkerInv, [WorkerNext]_interactiveVars, active.at = "delivering"
      PROVE  \/ active'.trigger = active.trigger /\ active'.at \in {"delivering", "done", "failed"}
             \/ phase' = "down"
  <2> USE DEF dbVars, supervisorVars, faultVars
  <2>0. active \in Tasks /\ phase # "down" /\ active.at = "delivering"
    BY <1>1 DEF WorkerInv, WorkerTypeInv, ThreadInv, NoTurn
  <2>1. \A s : GotoTask(s) => active'.at = s /\ active'.trigger = active.trigger
    BY <2>0 DEF GotoTask, Tasks
  <2>2. CASE RecordInbound
    BY <2>0, <2>2 DEF RecordInbound
  <2>3. ASSUME NEW s \in InboundTriggers, HandleEvent(s) PROVE active' = active
    BY <2>0, <2>3 DEF HandleEvent, Submit
  <2>4. CASE PollNothing \/ BeginRender \/ EndRender \/ ExpireLock
    BY <2>0, <2>4 DEF PollNothing, BeginRender, EndRender, ExpireLock
  <2>5. CASE DrainCompleted \/ DrainFailures \/ Restart \/ Crash
    BY <2>0, <2>5 DEF DrainCompleted, DrainFailures, Restart, Crash, Collect, TaskEnded
  <2>6. CASE StartTurn \/ ClaimTurn \/ AcquireLock \/ LockWaitTimeout \/ Close
    BY <2>0, <2>6 DEF StartTurn, ClaimTurn, AcquireLock, LockWaitTimeout, Close
  <2>7. CASE Deliver \/ TurnFails
    BY <2>1, <2>7 DEF Deliver, TurnFails
  <2>8. CASE AgentTimesOut \/ RefuseNoReply
    BY <2>0, <2>8 DEF AgentTimesOut, RefuseNoReply
  <2>9. CASE (\E t \in Triggers : MarkSlow(t)) \/ UNCHANGED interactiveVars
    BY <2>0, <2>9 DEF MarkSlow, interactiveVars
  <2> QED
    BY <1>1, <2>0, <2>2, <2>3, <2>4, <2>5, <2>6, <2>7, <2>8, <2>9 DEF WorkerNext, MainStep, TaskStep
<1>2. WorkerInv /\ [WorkerNext]_interactiveVars =>
         [active.at = "delivering" =>
             \/ active'.trigger = active.trigger /\ active'.at \in {"delivering", "done", "failed"}
             \/ phase' = "down"]_interactiveVars
  BY <1>1
<1> QED
  BY <1>2, WorkerInvariant, PTL DEF WorkerSpec, DeliveryNotCancelled

\* Whoever works on the windows, the two counters move as InputWindows says: a
\* close answers everything up to the newest message.
THEOREM WorkerKeepsTheWindows == WorkerSpec => WindowsPromise
<1>1. WorkerInit => Promise!Init
  BY DEF WorkerInit, Promise!Init
<1>2. ASSUME WorkerInv, [WorkerNext]_interactiveVars PROVE [Promise!Next]_Promise!vars
  <2> USE DEF dbVars, supervisorVars, faultVars
  <2> SUFFICES Promise!Receive \/ Promise!Answer \/ UNCHANGED <<latest, lastClosed>>
    BY DEF Promise!Next, Promise!vars
  <2>1. CASE RecordInbound
    BY <2>1 DEF RecordInbound, Promise!Receive
  <2>2. CASE \E s \in InboundTriggers : HandleEvent(s)
    BY <2>2 DEF HandleEvent
  <2>3. CASE PollNothing \/ BeginRender \/ EndRender \/ ExpireLock
    BY <2>3 DEF PollNothing, BeginRender, EndRender, ExpireLock
  <2>4. CASE DrainCompleted \/ DrainFailures \/ Restart \/ Crash
    BY <2>4 DEF DrainCompleted, DrainFailures, Restart, Crash
  <2>5. CASE StartTurn \/ ClaimTurn \/ AcquireLock
    BY <2>5 DEF StartTurn, ClaimTurn, AcquireLock
  <2>6. CASE LockWaitTimeout \/ Deliver \/ TurnFails
    BY <2>6 DEF LockWaitTimeout, Deliver, TurnFails
  <2>7. CASE Close
    <3>1. latest' = latest /\ (lastClosed' = lastClosed \/ lastClosed' = latest)
      BY <2>7 DEF Close, WindowIsFresh
    <3>2. lastClosed <= latest /\ latest \in Nat /\ lastClosed \in Nat
      BY <1>2 DEF WorkerInv, RowInv, ActiveInv, WorkerTypeInv, WorkerCounters
    <3>3. lastClosed' = lastClosed \/ lastClosed < latest
      BY <3>1, <3>2
    <3> QED
      BY <3>1, <3>3 DEF Promise!Answer
  <2>8. CASE AgentTimesOut \/ RefuseNoReply
    BY <2>8 DEF AgentTimesOut, RefuseNoReply
  <2>9. CASE (\E t \in Triggers : MarkSlow(t)) \/ UNCHANGED interactiveVars
    BY <2>9 DEF MarkSlow, interactiveVars
  <2> QED
    BY <1>2, <2>1, <2>2, <2>3, <2>4, <2>5, <2>6, <2>7, <2>8, <2>9 DEF WorkerNext, MainStep, TaskStep
<1>3. WorkerInv /\ [WorkerNext]_interactiveVars => [Promise!Next]_Promise!vars
  BY <1>2
<1> QED
  BY <1>1, <1>3, WorkerInvariant, PTL DEF WorkerSpec, WindowsPromise, Promise!Spec

-----------------------------------------------------------------------------
(* Row locks and the event-loop thread.                                    *)

Owners == Conversations \cup {Relay, NoOne}

\* A conversation row is held by its own turn, or by the relay if the turn is slow; a
\* domain row by a turn whose handlers may write it.
LocksInv ==
    /\ pc \in [Conversations -> TurnStates]
    /\ need \in [Conversations -> SUBSET Rows]
    /\ \A c \in Conversations : need[c] \subseteq RowsOf[c]
    /\ thread \in Conversations \cup {NoOne}
    /\ owner \in [Conversations \cup Rows -> Owners]
    /\ \A c \in Conversations : /\ owner[c] \in {c, Relay, NoOne}
                                /\ owner[c] = Relay => c \in Slow
    /\ \A r \in Rows : owner[r] # Relay
    /\ \A r \in Rows, c \in Conversations : owner[r] = c => r \in RowsOf[c]
    /\ marked \in SUBSET Conversations
    /\ todo \in SUBSET Slow
    /\ at \in Slow \cup {NoOne}

LEMMA LocksInvInit == ThreadInit => LocksInv
BY ThreadAssumption DEF ThreadInit, LocksInv, TurnStates, Owners

\* The end of a transaction only frees rows.
LEMMA ReleaseKeeps ==
  ASSUME LocksInv, NEW process, ReleaseAll(process),
         UNCHANGED <<need, thread>>, pc' \in [Conversations -> TurnStates],
         marked' \in SUBSET Conversations, todo' \in SUBSET Slow, at' \in Slow \cup {NoOne}
  PROVE  LocksInv'
<1>1. /\ \A r \in Conversations \cup Rows : owner'[r] \in {owner[r], NoOne}
      /\ owner' \in [Conversations \cup Rows -> Owners]
  BY DEF ReleaseAll, LocksInv, Owners
<1> QED
  BY <1>1, ThreadAssumption DEF LocksInv

LEMMA LocksInvStep == LocksInv /\ [ThreadNext]_threadVars => LocksInv'
<1> SUFFICES ASSUME LocksInv, [ThreadNext]_threadVars PROVE LocksInv'
  OBVIOUS
<1>1. ASSUME NEW c \in Conversations, BeginTurn(c) PROVE LocksInv'
  BY <1>1 DEF BeginTurn, Goto, LocksInv, TurnStates
<1>2. ASSUME NEW c \in Conversations, Execute(c) PROVE LocksInv'
  <2>1. PICK rows \in SUBSET RowsOf[c] : need' = [need EXCEPT ![c] = rows]
    BY <1>2 DEF Execute
  <2>2. need' \in [Conversations -> SUBSET Rows]
        /\ \A d \in Conversations : need'[d] \subseteq RowsOf[d]
    BY <2>1, ThreadAssumption DEF LocksInv
  <2> QED
    BY <1>2, <2>2 DEF Execute, Goto, LocksInv, TurnStates
<1>3. ASSUME NEW c \in Conversations, LockConversation(c) PROVE LocksInv'
  BY <1>3, ThreadAssumption DEF LockConversation, Goto, LocksInv, TurnStates, Owners
<1>4. ASSUME NEW c \in Conversations, NEW r \in Rows, WriteRow(c, r) PROVE LocksInv'
  BY <1>4, ThreadAssumption DEF WriteRow, LocksInv, Owners
<1>5. ASSUME NEW c \in Conversations, AwaitExpress(c) PROVE LocksInv'
  BY <1>5 DEF AwaitExpress, Goto, LocksInv, TurnStates
<1>6. ASSUME NEW c \in Conversations, CloseTurn(c) PROVE LocksInv'
  BY <1>6, ReleaseKeeps DEF CloseTurn, Goto, LocksInv, TurnStates
<1>7. CASE DispatchDue
  <2>1. Candidates \in SUBSET Slow
    BY DEF Candidates
  <2> QED
    BY <1>7, <2>1 DEF DispatchDue, LocksInv
<1>8. ASSUME NEW c \in Conversations, DispatchOne(c) PROVE LocksInv'
  BY <1>8 DEF DispatchOne, LocksInv
<1>9. CASE MarkPending
  <2>1. at \in Slow /\ at \in Conversations /\ at \notin Rows
    BY <1>9, ThreadAssumption DEF MarkPending, LocksInv
  <2>2. owner' = [owner EXCEPT ![at] = Relay] /\ at' = NoOne
        /\ marked' \in SUBSET Conversations /\ UNCHANGED <<pc, need, thread, todo>>
    BY <1>9, <2>1 DEF MarkPending, LocksInv
  <2> QED
    BY <2>1, <2>2, ThreadAssumption DEF LocksInv, Owners
<1>10. CASE CommitMarks
  BY <1>10, ReleaseKeeps DEF CommitMarks, LocksInv
<1>11. CASE UNCHANGED threadVars
  BY <1>11 DEF threadVars, LocksInv
<1> QED
  BY <1>1, <1>2, <1>3, <1>4, <1>5, <1>6, <1>7, <1>8, <1>9, <1>10, <1>11
     DEF ThreadNext, TurnStep, DispatcherStep

LEMMA BlockersNamed == LocksInv => StandstillExplained
<1> SUFFICES ASSUME LocksInv, NEW r \in Wanted, HeldBack(r)
             PROVE  \/ \E c \in Conversations \ {thread} : r \in RowsOf[thread] \cap RowsOf[c]
                    \/ r = thread /\ {thread, at} \subseteq Slow /\ at # thread
  BY DEF StandstillExplained
<1>1. /\ thread \in Conversations /\ r \in Conversations \cup Rows
      /\ r = thread \/ (r \in Rows /\ r \in RowsOf[thread])
  BY DEF Wanted, LocksInv
<1>2. CASE owner[r] \in Conversations \ {thread}
  <2>1. r # thread
    BY <1>1, <1>2, ThreadAssumption DEF LocksInv
  <2> QED
    BY <1>1, <1>2, <2>1 DEF LocksInv
<1>3. CASE owner[r] = Relay /\ at # NoOne /\ owner[at] \in Conversations
  <2>1. r = thread /\ r \in Slow /\ at \in Slow
    BY <1>1, <1>3 DEF LocksInv
  <2>2. at # thread
    BY <1>3, <2>1, ThreadAssumption
  <2> QED
    BY <2>1, <2>2
<1> QED
  BY <1>2, <1>3 DEF HeldBack

\* Turns, rows and the dispatcher keep their types.
THEOREM ThreadTypesHold == ThreadSpec => []ThreadTypeOK
<1>1. LocksInv => ThreadTypeOK
  BY DEF LocksInv, ThreadTypeOK, Owners
<1> QED
  BY LocksInvInit, LocksInvStep, <1>1, PTL DEF ThreadSpec

\* Whatever turns, rows and markings come together, the event-loop thread stands
\* still only behind a row that two conversations write, or between two slow turns.
THEOREM StandstillsAreExplained == ThreadSpec => []StandstillExplained
BY LocksInvInit, LocksInvStep, BlockersNamed, PTL DEF ThreadSpec

\* So it never does where no conversation writes a row of another and one at most
\* is slow, which is the case that the checked instance shows to be live.
THEOREM ApartNeverStandsStill ==
  ASSUME \A c, d \in Conversations : c # d => RowsOf[c] \cap RowsOf[d] = {},
         \A c, d \in Slow : c = d
  PROVE  ThreadSpec => [](\A r \in Wanted : ~HeldBack(r))
<1>1. LocksInv => \A r \in Wanted : ~HeldBack(r)
  <2> SUFFICES ASSUME LocksInv, NEW r \in Wanted, HeldBack(r) PROVE FALSE
    OBVIOUS
  <2>1. \/ \E c \in Conversations \ {thread} : r \in RowsOf[thread] \cap RowsOf[c]
        \/ r = thread /\ {thread, at} \subseteq Slow /\ at # thread
    BY BlockersNamed DEF StandstillExplained
  <2>2. thread \in Conversations
    BY DEF Wanted, LocksInv
  <2> QED
    BY <2>1, <2>2
<1> QED
  BY LocksInvInit, LocksInvStep, <1>1, PTL DEF ThreadSpec
=============================================================================
