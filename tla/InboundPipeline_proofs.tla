----------------------- MODULE InboundPipeline_proofs -----------------------
(***************************************************************************)
(* Types and three safety invariants of InboundPipeline for any reminders, *)
(* any plans and any number of turns, segments and crashes; and types and  *)
(* two safety invariants of CalendarImport, which a turn runs for an       *)
(* import action, for any calendars, accounts and imports.                 *)
(*                                                                         *)
(* LockInv: the guard locks the conversation row before anything but a     *)
(* setting is written, and the lock keeps newer messages out; so a turn    *)
(* that finds one has written nothing else.  SendInv: until the turn is    *)
(* closed nothing is sent, from then on what was sent and what is left     *)
(* are the segments it was closed with.  ToldInv: until the turn is closed *)
(* what its outcomes tell and what its transaction wrote agree, except for *)
(* a key taken by another item and for what a first run left behind; a     *)
(* batch of creates keeps this item by item (BatchInv), and the recursion  *)
(* over its items is argued from the least item for which it would fail.   *)
(*                                                                         *)
(* ImportInv: the row of an occurrence is unique, every answer that tells  *)
(* of a reminder has its row and its reminder, and a reminder of an event  *)
(* is at its start or its series has gone on, so until the start the index *)
(* of active reminders finds it and after the start the import is too late *)
(* to make another.  Both recursions rest on the same lemmas.              *)
(***************************************************************************)
EXTENDS InboundPipeline, CalendarImport, FiniteSetTheorems, WellFoundedInduction, TLAPS

LockInv ==
    /\ newer => ~locked
    /\ ~locked => did \subseteq {<<"setting", "it">>}
    /\ SupersededWroteNothing

Spoken == {"reply", "recovery", "handled", "failure"}

SendInv ==
    /\ sent \in Seq(Nat) /\ segments \in Nat
    /\ RepliesSentOnce
    /\ phase \in {"plan", "execute", "express"} => sent = <<>> /\ segments = 0
    /\ phase = "sending" => segments > 0

-----------------------------------------------------------------------------
(* Lemmas about the steps that several actions take.                       *)

\* An action is only executed while the turn executes.
LEMMA CurrentExecutes == Current # {} => phase = "execute"
BY DEF Current

\* A step that settles an outcome under the guard, or settles one without an
\* effect or with the setting, keeps the lock's invariant.
LEMMA SettleKeepsLockInv ==
  ASSUME LockInv, NEW outcome, NEW rows, NEW effects, Current # {},
         Settle(outcome, rows, effects),
         \/ Guard
         \/ UNCHANGED locked /\ effects \subseteq {<<"setting", "it">>}
  PROVE  LockInv'
<1>1. phase = "execute" /\ phase' = phase /\ newer' = newer /\ did' = did \cup effects
  BY CurrentExecutes DEF Settle
<1>2. CASE Guard
  BY <1>1, <1>2 DEF Guard, LockInv, SupersededWroteNothing
<1>3. CASE UNCHANGED locked /\ effects \subseteq {<<"setting", "it">>}
  BY <1>1, <1>3 DEF LockInv, SupersededWroteNothing
<1> QED
  BY <1>2, <1>3

\* Closing passes the guard and writes nothing itself.
LEMMA CloseKeepsLockInv ==
  ASSUME LockInv, NEW kind, NEW tells, NEW n, CloseWith(kind, tells, n)
  PROVE  LockInv'
BY DEF CloseWith, Guard, LockInv, SupersededWroteNothing, working

\* A turn is closed with a spoken text of at least one segment, or in silence.
LEMMA CloseKeepsSendInv ==
  ASSUME SendInv, phase \in {"plan", "execute", "express"},
         NEW kind, NEW tells, NEW n \in 0 .. MaxSegments, CloseWith(kind, tells, n),
         n = 0 => kind \notin Spoken
  PROVE  SendInv'
<1>1. sent = <<>> /\ sent' = <<>> /\ segments' = n /\ text' = kind
  BY DEF CloseWith, SendInv
<1>2. phase' = IF n = 0 THEN "done" ELSE "sending"
  BY DEF CloseWith
<1>3. n \in Nat /\ n <= MaxSegments
  BY PipelineAssumption
<1>4. RepliesSentOnce'
  BY <1>1, <1>2, <1>3 DEF RepliesSentOnce, Spoken
<1> QED
  BY <1>1, <1>2, <1>3, <1>4 DEF SendInv

\* Steps before the close leave alone what is sent.
LEMMA BeforeCloseKeepsSendInv ==
  ASSUME SendInv, phase \in {"plan", "execute", "express"}, UNCHANGED <<sent, segments>>,
         phase' \in {"plan", "execute", "express", "superseded"}
  PROVE  SendInv'
<1>1. sent' = <<>> /\ segments' = 0
  BY DEF SendInv
<1>2. RepliesSentOnce'
  BY <1>1, PipelineAssumption DEF RepliesSentOnce
<1> QED
  BY <1>1, <1>2 DEF SendInv

-----------------------------------------------------------------------------
(* The guard and its lock.                                                 *)

LEMMA LockInit == Init => LockInv
BY DEF Init, LockInv, SupersededWroteNothing

LEMMA LockStep == LockInv /\ [Next]_vars => LockInv'
<1> SUFFICES ASSUME LockInv, [Next]_vars PROVE LockInv'
  OBVIOUS
<1>1. CASE PlanTurn
  BY <1>1 DEF PlanTurn, LockInv, SupersededWroteNothing
<1>2. CASE MessageArrives
  BY <1>2 DEF MessageArrives, LockInv, SupersededWroteNothing, working
<1>3. CASE Blocked
  BY <1>3, SettleKeepsLockInv DEF Blocked
<1>4. CASE Create
  BY <1>4, SettleKeepsLockInv DEF Create
<1>5. CASE MutateOne
  BY <1>5, SettleKeepsLockInv DEF MutateOne
<1>6. CASE Update
  BY <1>6, SettleKeepsLockInv DEF Update
<1>7. CASE MutateAll
  BY <1>7, SettleKeepsLockInv DEF MutateAll
<1>8. CASE Social
  BY <1>8, SettleKeepsLockInv DEF Social
<1>9. CASE Move
  BY <1>9, SettleKeepsLockInv DEF Move
<1>10. CASE Setting
  BY <1>10, SettleKeepsLockInv DEF Setting
<1>11. CASE Look
  BY <1>11, SettleKeepsLockInv DEF Look
<1>12. CASE Executed
  BY <1>12 DEF Executed, LockInv, SupersededWroteNothing, working
<1>13. CASE Reply
  BY <1>13, CloseKeepsLockInv DEF Reply
<1>14. CASE NoReply
  BY <1>14, CloseKeepsLockInv DEF NoReply
<1>15. CASE RecoverFromOutcome
  BY <1>15, CloseKeepsLockInv DEF RecoverFromOutcome
<1>16. CASE Retry
  BY <1>16 DEF Retry, LockInv, SupersededWroteNothing
<1>17. CASE RecoverFromFailure
  BY <1>17, CloseKeepsLockInv DEF RecoverFromFailure
<1>18. CASE Superseded
  BY <1>18 DEF Superseded, LockInv, SupersededWroteNothing, working
<1>19. CASE SendSegment
  BY <1>19 DEF SendSegment, LockInv, SupersededWroteNothing, working
<1>20. CASE CrashBeforeClose
  BY <1>20 DEF CrashBeforeClose, Fresh, LockInv, SupersededWroteNothing
<1>21. CASE CrashWhileSending
  BY <1>21 DEF CrashWhileSending, LockInv, SupersededWroteNothing, working
<1>22. CASE NextTurn
  BY <1>22 DEF NextTurn, Fresh, LockInv, SupersededWroteNothing
<1>23. CASE UNCHANGED vars
  BY <1>23 DEF vars, LockInv, SupersededWroteNothing
<1> QED
  BY <1>1, <1>2, <1>3, <1>4, <1>5, <1>6, <1>7, <1>8, <1>9, <1>10, <1>11, <1>12, <1>13,
     <1>14, <1>15, <1>16, <1>17, <1>18, <1>19, <1>20, <1>21, <1>22, <1>23 DEF Next, Ended

\* A turn that a newer message overtakes has written nothing but settings,
\* however its plan, its retry and its crashes are timed against the message.
THEOREM OvertakenWritesNothing == Spec => []SupersededWroteNothing
<1>1. LockInv => SupersededWroteNothing
  BY DEF LockInv
<1> QED
  BY LockInit, LockStep, <1>1, PTL DEF Spec

-----------------------------------------------------------------------------
(* Sending.                                                                *)

LEMMA SendInit == Init => SendInv
<1> SUFFICES ASSUME Init PROVE SendInv
  OBVIOUS
<1>1. sent = <<>> /\ segments = 0 /\ phase = "plan"
  BY DEF Init
<1> QED
  BY <1>1, PipelineAssumption DEF SendInv, RepliesSentOnce

LEMMA SendStep == SendInv /\ [Next]_vars => SendInv'
<1> SUFFICES ASSUME SendInv, [Next]_vars PROVE SendInv'
  OBVIOUS
<1>1. CASE PlanTurn
  BY <1>1, BeforeCloseKeepsSendInv DEF PlanTurn, closing
<1>2. CASE MessageArrives
  BY <1>2, BeforeCloseKeepsSendInv DEF MessageArrives, closing
<1>3. CASE Blocked \/ Create \/ MutateOne \/ Update \/ MutateAll \/ Social \/ Move
             \/ Setting \/ Look
  <2>1. Current # {} /\ UNCHANGED <<phase, sent, segments>>
    BY <1>3 DEF Blocked, Create, MutateOne, Update, MutateAll, Social, Move, Setting, Look,
                Settle, closing
  <2> QED
    BY <2>1, CurrentExecutes, BeforeCloseKeepsSendInv
<1>4. CASE Executed
  BY <1>4, BeforeCloseKeepsSendInv DEF Executed, closing
<1>5. CASE Reply
  BY <1>5, CloseKeepsSendInv, PipelineAssumption DEF Reply, SegmentCounts
<1>6. CASE NoReply
  BY <1>6, CloseKeepsSendInv, PipelineAssumption DEF NoReply, Spoken
<1>7. CASE RecoverFromOutcome
  BY <1>7, CloseKeepsSendInv, PipelineAssumption DEF RecoverFromOutcome, ExpressRefused
<1>8. CASE Retry
  BY <1>8, CurrentExecutes, BeforeCloseKeepsSendInv DEF Retry, Unusable, closing
<1>9. CASE RecoverFromFailure
  BY <1>9, CurrentExecutes, CloseKeepsSendInv, PipelineAssumption
     DEF RecoverFromFailure, Unusable, Raises
<1>10. CASE Superseded
  BY <1>10, CurrentExecutes, BeforeCloseKeepsSendInv DEF Superseded, Unusable, closing
<1>11. CASE SendSegment
  <2>1. /\ sent' = Append(sent, Len(sent) + 1) /\ segments' = segments - 1
        /\ segments > 0 /\ phase' \in {"done", "sending"}
        /\ phase' = "sending" => segments # 1
        /\ sent \in Seq(Nat) /\ segments \in Nat /\ Len(sent) \in Nat
    BY <1>11 DEF SendSegment, SendInv
  <2>2. sent' \in Seq(Nat) /\ Len(sent') = Len(sent) + 1 /\ sent' # <<>>
    BY <2>1
  <2>3. sent' = [k \in 1 .. Len(sent') |-> k]
    BY <2>1, <2>2 DEF SendInv, RepliesSentOnce
  <2>4. Len(sent') + segments' <= MaxSegments
    BY <2>1, <2>2, PipelineAssumption DEF SendInv, RepliesSentOnce
  <2> QED
    BY <2>1, <2>2, <2>3, <2>4 DEF SendInv, RepliesSentOnce
<1>12. CASE CrashBeforeClose
  BY <1>12, BeforeCloseKeepsSendInv DEF CrashBeforeClose, Fresh, closing
<1>13. CASE CrashWhileSending
  BY <1>13 DEF CrashWhileSending, closing, SendInv, RepliesSentOnce
<1>14. CASE NextTurn
  <2>1. sent' = <<>> /\ segments' = 0 /\ phase' = "plan"
    BY <1>14 DEF NextTurn, Fresh
  <2> QED
    BY <2>1, PipelineAssumption DEF SendInv, RepliesSentOnce
<1>15. CASE UNCHANGED vars
  BY <1>15 DEF vars, SendInv, RepliesSentOnce
<1> QED
  BY <1>1, <1>2, <1>3, <1>4, <1>5, <1>6, <1>7, <1>8, <1>9, <1>10, <1>11, <1>12, <1>13,
     <1>14, <1>15 DEF Next, Ended

\* The segments of a reply leave in order and each once, and all of them unless
\* the worker dies between two of them; redeliveries and replays send nothing.
THEOREM SegmentsLeaveOnce == Spec => []RepliesSentOnce
<1>1. SendInv => RepliesSentOnce
  BY DEF SendInv
<1> QED
  BY SendInit, SendStep, <1>1, PTL DEF Spec

-----------------------------------------------------------------------------
(* Recursion over the items of a batch.                                    *)

\* A set of naturals that is not empty has a least element.
LEMMA LeastNatural ==
  ASSUME NEW S \in SUBSET Nat, S # {}
  PROVE  \E x \in S : \A y \in S : x <= y
<1>1. PICK x \in S : \A y \in S : ~(<<y, x>> \in OpToRel(<, Nat))
  BY NatLessThanWellFounded, WFMin
<1>2. \A y \in S : ~(y < x)
  BY <1>1, Zenon DEF OpToRel
<1>3. \A y \in S : x <= y
  BY <1>2
<1> QED
  BY <1>3

\* What holds of the first value and is kept by every step holds of every value.
LEMMA KeptByEachStep ==
  ASSUME NEW S, NEW n \in Nat, NEW f, f[0] \in S, \A k \in 1 .. n : f[k - 1] \in S => f[k] \in S
  PROVE  \A k \in 0 .. n : f[k] \in S
<1> DEFINE Wrong == {k \in 0 .. n : f[k] \notin S}
<1> SUFFICES ASSUME Wrong # {} PROVE FALSE
  OBVIOUS
<1>1. PICK k \in Wrong : \A j \in Wrong : k <= j
  <2>1. Wrong \in SUBSET Nat
    OBVIOUS
  <2> HIDE DEF Wrong
  <2> QED
    BY <2>1, LeastNatural
<1>2. k \in 1 .. n /\ k - 1 \in 0 .. n /\ ~(k <= k - 1)
  BY <1>1
<1> QED
  BY <1>1, <1>2

\* A function that is defined step by step from a first value exists.
Goes(f, first, n, step) == f[0] = first /\ \A k \in 1 .. n : f[k] = step[<<f[k - 1], k>>]

LEMMA StepByStep ==
  ASSUME NEW S, NEW first \in S, NEW n \in Nat, NEW step \in [S \X (1 .. n) -> S]
  PROVE  \E f \in [0 .. n -> S] : Goes(f, first, n, step)
<1> DEFINE Upto(m, f) == /\ f \in [0 .. m -> S] /\ f[0] = first
                         /\ \A k \in 1 .. m : f[k] = step[<<f[k - 1], k>>]
           Missing == {m \in 0 .. n : ~ \E f : Upto(m, f)}
<1>1. ASSUME Missing # {} PROVE FALSE
  <2>1. Missing \in SUBSET Nat
    OBVIOUS
  <2>2. PICK m \in Missing : \A y \in Missing : m <= y
    <3> HIDE DEF Missing
    <3> QED
      BY <1>1, <2>1, LeastNatural
  <2>3. m \in 0 .. n /\ ~ \E f : Upto(m, f)
    BY <2>2
  <2>4. CASE m = 0
    <3>1. Upto(0, [k \in 0 .. 0 |-> first])
      OBVIOUS
    <3> QED
      BY <2>3, <2>4, <3>1
  <2>5. CASE m # 0
    <3>1. m - 1 \in 0 .. n /\ ~(m <= m - 1)
      BY <2>3, <2>5
    <3>2. m - 1 \notin Missing
      BY <2>2, <3>1
    <3>3. PICK f : Upto(m - 1, f)
      BY <3>1, <3>2
    <3> DEFINE g == [k \in 0 .. m |-> IF k = m THEN step[<<f[m - 1], m>>] ELSE f[k]]
    <3>4. m \in 1 .. n /\ f[m - 1] \in S
      BY <2>3, <2>5, <3>3
    <3>5. step[<<f[m - 1], m>>] \in S
      BY <3>4
    <3>6. \A k \in 0 .. m : k # m => k \in 0 .. (m - 1)
      BY <2>3
    <3>7. g \in [0 .. m -> S] /\ g[0] = first
      BY <2>3, <2>5, <3>3, <3>5, <3>6
    <3>8. ASSUME NEW k \in 1 .. m PROVE g[k] = step[<<g[k - 1], k>>]
      <4>1. k \in 0 .. m /\ k - 1 \in 0 .. m /\ k - 1 # m
        BY <2>3
      <4>2. g[k - 1] = f[k - 1]
        BY <4>1
      <4>3. CASE k = m
        BY <4>1, <4>2, <4>3
      <4>4. CASE k # m
        <5>1. k \in 1 .. (m - 1) /\ g[k] = f[k]
          BY <2>3, <4>1, <4>4
        <5> QED
          BY <3>3, <4>2, <5>1
      <4> QED
        BY <4>3, <4>4
    <3> QED
      BY <2>3, <3>7, <3>8
  <2> QED
    BY <2>4, <2>5
<1>2. n \in 0 .. n
  OBVIOUS
<1> QED
  BY <1>1, <1>2 DEF Goes

-----------------------------------------------------------------------------
(* A batch of creates.                                                     *)

Batches == [rows : Rows, done : BOOLEAN, told : SUBSET Effects, did : SUBSET Effects,
            taken : BOOLEAN]

\* Reminders whose times overlap are not active together.
Apart(active) == \A i, j \in active : {i, j} \notin Clashes

\* A key of the turn stands for an effect of the turn.
KeysStandFor(keys, effects) ==
    \A index \in Nat, i \in Items : <<index, i>> \in keys => <<"create", i>> \in effects

\* What a batch tells is done, by it or earlier in the turn, and it tells what it does.
BatchInv(batch) ==
    /\ batch \in Batches
    /\ Apart(batch.rows.active)
    /\ KeysStandFor(batch.rows.keys, did \cup batch.did)
    /\ batch.did \subseteq batch.told
    /\ ~batch.taken => batch.told \subseteq did \cup batch.did

\* A reminder that overlaps none of them joins them.
LEMMA ApartStays ==
  ASSUME NEW active \in SUBSET Items, Apart(active), NEW i \in Items, ~Overlaps(i, active)
  PROVE  Apart(active \cup {i})
<1>1. {i, i} \notin Clashes
  <2> SUFFICES ASSUME {i, i} \in Clashes PROVE FALSE
    OBVIOUS
  <2>1. PICK j, l \in Items : j # l /\ {i, i} = {j, l}
    BY PipelineAssumption
  <2>2. j \in {i, i} /\ l \in {i, i}
    BY <2>1
  <2> QED
    BY <2>1, <2>2
<1>2. \A j \in active : {i, j} \notin Clashes /\ {j, i} = {i, j}
  BY DEF Overlaps
<1> QED
  BY <1>1, <1>2 DEF Apart

LEMMA ItemKeeps ==
  ASSUME NEW batch, BatchInv(batch), NEW i \in Items, NEW index \in Nat
  PROVE  BatchInv(CreateItem(batch, i, index))
<1> DEFINE rows == batch.rows
           keyed == \E j \in Items : <<index, j>> \in rows.keys
           effect == <<"create", i>>
           added == [rows EXCEPT !.active = @ \cup {i}, !.keys = @ \cup {<<index, i>>}]
<1>1. /\ batch \in Batches /\ rows \in Rows
      /\ batch.told \in SUBSET Effects /\ batch.did \in SUBSET Effects
      /\ batch.taken \in BOOLEAN
  BY DEF BatchInv, Batches
<1>2. effect \in Effects
  BY DEF Effects
<1>3. CASE keyed /\ ~Overlaps(i, rows.active)
  <2> DEFINE new == [batch EXCEPT !.told = @ \cup {effect},
                                  !.taken = @ \/ <<index, i>> \notin rows.keys]
  <2>1. CreateItem(batch, i, index) = new
    BY <1>3 DEF CreateItem
  <2>2. new \in Batches /\ new.rows = rows /\ new.did = batch.did
        /\ new.told = batch.told \cup {effect}
        /\ new.taken = (batch.taken \/ <<index, i>> \notin rows.keys)
    BY <1>1, <1>2 DEF Batches
  <2>3. <<index, i>> \in rows.keys => effect \in did \cup batch.did
    BY DEF BatchInv, KeysStandFor
  <2> HIDE DEF new, effect
  <2> QED
    BY <2>1, <2>2, <2>3 DEF BatchInv
<1>4. CASE Overlaps(i, rows.active) \/ (~keyed /\ i \in rows.active)
  <2> DEFINE new == [batch EXCEPT !.done = FALSE]
  <2>1. CreateItem(batch, i, index) = new
    BY <1>4 DEF CreateItem
  <2>2. new \in Batches /\ new.rows = rows /\ new.did = batch.did
        /\ new.told = batch.told /\ new.taken = batch.taken
    BY <1>1 DEF Batches
  <2> HIDE DEF new
  <2> QED
    BY <2>1, <2>2 DEF BatchInv
<1>5. CASE ~keyed /\ ~Overlaps(i, rows.active) /\ i \notin rows.active
  <2> DEFINE new == [batch EXCEPT !.rows = added, !.told = @ \cup {effect},
                                  !.did = @ \cup {effect}]
  <2>1. CreateItem(batch, i, index) = new
    BY <1>5 DEF CreateItem
  <2>2. added \in Rows /\ added.active = rows.active \cup {i}
        /\ added.keys = rows.keys \cup {<<index, i>>} /\ rows.active \in SUBSET Items
    <3>1. rows.active \cup {i} \in SUBSET Items
          /\ rows.keys \cup {<<index, i>>} \in SUBSET (Nat \X Items)
      BY <1>1 DEF Rows
    <3>2. rows \in Rows
      BY <1>1
    <3> HIDE DEF rows
    <3> QED
      BY <3>1, <3>2 DEF Rows
  <2> HIDE DEF added
  <2>3. new \in Batches /\ new.rows = added /\ new.did = batch.did \cup {effect}
        /\ new.told = batch.told \cup {effect} /\ new.taken = batch.taken
    BY <1>1, <1>2, <2>2 DEF Batches
  <2>4. Apart(added.active)
    BY <1>5, <2>2, ApartStays DEF BatchInv
  <2>5. KeysStandFor(added.keys, did \cup batch.did \cup {effect})
    BY <2>2 DEF BatchInv, KeysStandFor
  <2>6. did \cup new.did = did \cup batch.did \cup {effect}
    BY <2>3
  <2> HIDE DEF new, effect
  <2>7. KeysStandFor(new.rows.keys, did \cup new.did)
    BY <2>3, <2>5, <2>6
  <2> QED
    BY <2>1, <2>3, <2>4, <2>7 DEF BatchInv
<1> QED
  BY <1>3, <1>4, <1>5

\* The batch of an action, item by item.
LEMMA BatchKeeps ==
  ASSUME view \in Rows, Apart(view.active), KeysStandFor(view.keys, did), position \in Nat,
         NEW wanted \in Seq(Items)
  PROVE  BatchInv(CreateBatch(wanted))
<1> DEFINE n == Len(wanted)
           first == [rows |-> view, done |-> TRUE, told |-> {}, did |-> {}, taken |-> FALSE]
           S == {batch \in Batches : BatchInv(batch)}
           step == [p \in S \X (1 .. n) |-> CreateItem(p[1], wanted[p[2]], ItemIndex(p[2]))]
           after[k \in 0 .. n] == IF k = 0 THEN first
                                  ELSE CreateItem(after[k - 1], wanted[k], ItemIndex(k))
<1>1. n \in Nat
  OBVIOUS
<1>2. first \in S
  <2>1. first \in Batches
    BY DEF Batches
  <2> QED
    BY <2>1 DEF BatchInv
<1>3. \A k \in 1 .. n : wanted[k] \in Items /\ ItemIndex(k) \in Nat
  BY DEF ItemIndex
<1>4. ASSUME NEW batch \in S, NEW k \in 1 .. n
      PROVE  CreateItem(batch, wanted[k], ItemIndex(k)) \in S
  BY <1>3, ItemKeeps DEF BatchInv
<1>5. CreateBatch(wanted) = after[n]
  BY DEF CreateBatch
<1> HIDE DEF S, first
<1>6. step \in [S \X (1 .. n) -> S]
  BY <1>4
<1>7. \A batch \in S, k \in 1 .. n : step[<<batch, k>>] = CreateItem(batch, wanted[k], ItemIndex(k))
  OBVIOUS
<1> HIDE DEF step
<1>8. \E f : f = [k \in 0 .. n |-> IF k = 0 THEN first
                                   ELSE CreateItem(f[k - 1], wanted[k], ItemIndex(k))]
  <2>1. PICK f \in [0 .. n -> S] : Goes(f, first, n, step)
    <3>1. n \in Nat /\ first \in S /\ step \in [S \X (1 .. n) -> S]
      BY <1>1, <1>2, <1>6
    <3> HIDE DEF n
    <3> QED
      BY ONLY <3>1, StepByStep
  <2>2. ASSUME NEW k \in 0 .. n
        PROVE  f[k] = IF k = 0 THEN first ELSE CreateItem(f[k - 1], wanted[k], ItemIndex(k))
    <3>1. CASE k = 0
      BY <2>1, <3>1 DEF Goes
    <3>2. CASE k # 0
      <4>1. k \in 1 .. n /\ k - 1 \in 0 .. n
        BY <1>1, <3>2
      <4>2. f[k] = step[<<f[k - 1], k>>] /\ f[k - 1] \in S
        BY <2>1, <4>1 DEF Goes
      <4> QED
        BY <1>7, <3>2, <4>1, <4>2
    <3> QED
      BY <3>1, <3>2
  <2>3. f = [k \in 0 .. n |-> f[k]]
    BY <2>1
  <2> QED
    BY <2>2, <2>3
<1>9. after = [k \in 0 .. n |-> IF k = 0 THEN first
                                ELSE CreateItem(after[k - 1], wanted[k], ItemIndex(k))]
  BY <1>8 DEF after
<1> HIDE DEF after
<1>10. \A k \in 0 .. n : after[k] = IF k = 0 THEN first
                                    ELSE CreateItem(after[k - 1], wanted[k], ItemIndex(k))
  BY <1>9
<1>11. \A k \in 0 .. n : after[k] \in S
  <2>1. after[0] \in S
    BY <1>1, <1>2, <1>10
  <2>2. ASSUME NEW k \in 1 .. n, after[k - 1] \in S PROVE after[k] \in S
    <3>1. k \in 0 .. n /\ k # 0
      BY <1>1
    <3> QED
      BY <1>4, <1>10, <2>2, <3>1
  <2> HIDE DEF n
  <2> QED
    BY <1>1, <2>1, <2>2, KeptByEachStep
<1>12. after[n] \in S
  BY <1>1, <1>11
<1> QED
  BY <1>5, <1>12 DEF S

-----------------------------------------------------------------------------
(* Types.                                                                  *)

Open == {"plan", "execute", "express"}
Phases == Open \cup {"sending", "done", "cut", "superseded"}
Texts == Spoken \cup {"none", "no_reply"}

PipelineTypeInv ==
    /\ db \in Rows /\ view \in Rows /\ Apart(db.active) /\ Apart(view.active)
    /\ turn \in 1 .. MaxTurns /\ attempt \in 1 .. 2
    /\ phase \in Phases
    /\ plan \in Seq(Actions)
    /\ \A k \in DOMAIN plan : plan[k].op = "update" => plan[k].items # <<>>
    /\ position \in Nat
    /\ outcomes \in Seq(Outcomes)
    /\ locked \in BOOLEAN /\ newer \in BOOLEAN /\ taken \in BOOLEAN
    /\ text \in Texts
    /\ segments \in 0 .. MaxSegments
    /\ did \in SUBSET Effects /\ said \in SUBSET Effects
    /\ crashes \in 0 .. MaxCrashes

\* The action to execute is the first of the plan.
LEMMA CurrentIsFirst ==
  ASSUME PipelineTypeInv, NEW a \in Current
  PROVE  /\ phase = "execute" /\ plan # <<>> /\ a = plan[1]
         /\ a \in Actions /\ a.items \in Seq(Items) /\ a.match \in SUBSET Items
         /\ a.op = "update" => Head(a.items) \in Items
<1>1. phase = "execute" /\ 1 \in DOMAIN plan /\ a = plan[1]
  BY DEF Current
<1>2. a \in Actions /\ (a.op = "update" => a.items # <<>>)
  BY <1>1 DEF PipelineTypeInv
<1>3. a.items \in Seq(Items) /\ a.match \in SUBSET Items
  BY <1>2 DEF Actions
<1>4. plan # <<>>
  BY <1>1
<1> QED
  BY <1>1, <1>2, <1>3, <1>4

\* A step that settles an outcome keeps the types.
LEMMA SettleKeepsTypes ==
  ASSUME PipelineTypeInv, Current # {}, NEW outcome \in Outcomes, NEW rows \in Rows,
         Apart(rows.active), NEW effects \in SUBSET Effects, Settle(outcome, rows, effects),
         locked' \in BOOLEAN, taken' \in BOOLEAN
  PROVE  PipelineTypeInv'
<1>1. /\ outcomes' = Append(outcomes, outcome) /\ view' = rows /\ did' = did \cup effects
      /\ plan' = Tail(plan) /\ position' = position + 1
      /\ UNCHANGED <<db, turn, phase, attempt, newer, crashes, text, segments, said, sent>>
  BY DEF Settle, closing
<1>2. plan \in Seq(Actions) /\ plan # <<>>
  BY CurrentIsFirst DEF PipelineTypeInv
<1>3. plan' \in Seq(Actions) /\ \A k \in DOMAIN plan' : k + 1 \in DOMAIN plan /\ plan'[k] = plan[k + 1]
  BY <1>1, <1>2
<1>4. \A k \in DOMAIN plan' : plan'[k].op = "update" => plan'[k].items # <<>>
  BY <1>3 DEF PipelineTypeInv
<1>5. outcomes' \in Seq(Outcomes) /\ position' \in Nat /\ did' \in SUBSET Effects
  BY <1>1 DEF PipelineTypeInv
<1> QED
  BY <1>1, <1>3, <1>4, <1>5 DEF PipelineTypeInv

LEMMA CloseKeepsTypes ==
  ASSUME PipelineTypeInv, NEW kind \in Texts, NEW tells \in SUBSET Effects,
         NEW n \in 0 .. MaxSegments, CloseWith(kind, tells, n)
  PROVE  PipelineTypeInv'
BY DEF CloseWith, Guard, working, PipelineTypeInv, Phases, Open

LEMMA NoneInPlan == <<>> \in Seq(Actions) /\ \A k \in DOMAIN <<>> : FALSE
OBVIOUS

\* Outcomes of the handlers.
LEMMA OutcomesTyped ==
  /\ NotDone \in Outcomes /\ NotDone.told = {}
  /\ \A effects \in SUBSET Effects : Done(effects) \in Outcomes /\ Done(effects).told = effects
  /\ \A done \in BOOLEAN, effects \in SUBSET Effects :
        [done |-> done, told |-> effects] \in Outcomes
BY DEF NotDone, Done, Outcomes

\* Rows that handlers leave.
LEMMA RowsWritten ==
  ASSUME PipelineTypeInv
  PROVE  /\ \A gone \in SUBSET Items : /\ Without(gone) \in Rows /\ Apart(Without(gone).active)
                                       /\ Without(gone).keys = view.keys
         /\ \A active \in SUBSET Items :
               LET rows == [view EXCEPT !.active = active]
               IN  rows \in Rows /\ rows.active = active /\ rows.keys = view.keys
         /\ \A facts \in SUBSET Facts :
               LET rows == [view EXCEPT !.facts = @ \cup facts]
               IN  rows \in Rows /\ rows.active = view.active /\ rows.keys = view.keys
<1>1. view \in Rows /\ Apart(view.active)
  BY DEF PipelineTypeInv
<1>2. ASSUME NEW gone \in SUBSET Items
      PROVE  /\ Without(gone) \in Rows /\ Apart(Without(gone).active)
             /\ Without(gone).keys = view.keys
  BY <1>1 DEF Without, Rows, Apart
<1> QED
  BY <1>1, <1>2 DEF Rows

\* What each handler settles: an outcome that tells what it writes, and of a create
\* what its keys stand for.
Settled ==
    \E outcome \in Outcomes, rows \in Rows, effects \in SUBSET Effects :
        /\ Settle(outcome, rows, effects)
        /\ Apart(rows.active)
        /\ locked' \in BOOLEAN /\ taken' \in BOOLEAN /\ (taken => taken')
        /\ effects \subseteq outcome.told
        /\ ~taken' => outcome.told \subseteq did \cup effects
        /\ KeysStandFor(view.keys, did) => KeysStandFor(rows.keys, did \cup effects)

\* Rows with the keys they had.
LEMMA SettledAsTold ==
  ASSUME PipelineTypeInv, NEW outcome \in Outcomes, NEW rows \in Rows,
         Settle(outcome, rows, outcome.told), Apart(rows.active), rows.keys = view.keys,
         locked' \in BOOLEAN, UNCHANGED taken
  PROVE  Settled
<1>1. outcome.told \in SUBSET Effects
  BY DEF Outcomes
<1>2. KeysStandFor(view.keys, did) => KeysStandFor(rows.keys, did \cup outcome.told)
  BY DEF KeysStandFor
<1> QED
  BY <1>1, <1>2 DEF Settled, PipelineTypeInv

LEMMA BlockedSettles ==
  ASSUME PipelineTypeInv, Blocked \/ Look
  PROVE  Current # {} /\ Settled
<1>1. view \in Rows /\ Apart(view.active) /\ locked \in BOOLEAN
  BY DEF PipelineTypeInv
<1>2. Answered = Done({}) /\ Done({}) \in Outcomes /\ Done({}).told = {}
  BY OutcomesTyped DEF Answered
<1>3. PICK outcome \in {NotDone, Answered} :
         Current # {} /\ Settle(outcome, view, {}) /\ UNCHANGED <<locked, taken>>
  BY DEF Blocked, Look
<1>4. outcome \in Outcomes /\ outcome.told = {}
  BY <1>2, <1>3, OutcomesTyped
<1> QED
  BY <1>1, <1>3, <1>4, SettledAsTold

LEMMA CreateSettles ==
  ASSUME PipelineTypeInv, KeysStandFor(view.keys, did), Create
  PROVE  Current # {} /\ Settled
<1>0. PICK a \in Current : \E batch \in {CreateBatch(a.items)} :
         /\ Guard
         /\ Settle([done |-> batch.done, told |-> batch.told], batch.rows, batch.did)
         /\ taken' = (taken \/ batch.taken)
  BY DEF Create
<1>1. PICK batch \in {CreateBatch(a.items)} :
         /\ Guard
         /\ Settle([done |-> batch.done, told |-> batch.told], batch.rows, batch.did)
         /\ taken' = (taken \/ batch.taken)
  BY <1>0
<1>2. BatchInv(batch)
  BY <1>1, CurrentIsFirst, BatchKeeps DEF PipelineTypeInv
<1>3. /\ batch.done \in BOOLEAN /\ batch.told \in SUBSET Effects /\ batch.did \in SUBSET Effects
      /\ batch.rows \in Rows /\ batch.taken \in BOOLEAN
  BY <1>2 DEF BatchInv, Batches
<1> DEFINE outcome == [done |-> batch.done, told |-> batch.told]
<1>4. outcome \in Outcomes /\ outcome.told = batch.told
  BY <1>3, OutcomesTyped
<1>5. locked' \in BOOLEAN /\ taken' \in BOOLEAN
  BY <1>1, <1>3 DEF Guard, PipelineTypeInv
<1> HIDE DEF outcome
<1>6. Settle(outcome, batch.rows, batch.did)
  BY <1>1 DEF outcome
<1> QED
  BY <1>1, <1>2, <1>3, <1>4, <1>5, <1>6 DEF Settled, BatchInv

LEMMA MutateOneSettles ==
  ASSUME PipelineTypeInv, MutateOne
  PROVE  Current # {} /\ Settled
<1>1. PICK a \in Current :
         /\ a.op \in {"delete", "complete"} /\ Guard /\ UNCHANGED taken
         /\ \/ Settle(NotDone, view, {})
            \/ \E i \in Matching(a) : Settle(Done({<<a.op, i>>}), Without({i}), {<<a.op, i>>})
  BY DEF MutateOne
<1>2. view \in Rows /\ Apart(view.active) /\ locked' \in BOOLEAN
  BY <1>1 DEF PipelineTypeInv, Guard
<1>3. CASE Settle(NotDone, view, {})
  BY <1>1, <1>2, <1>3, OutcomesTyped, SettledAsTold
<1>4. ASSUME NEW i \in Matching(a), Settle(Done({<<a.op, i>>}), Without({i}), {<<a.op, i>>})
      PROVE  Settled
  <2>1. {i} \in SUBSET Items /\ {<<a.op, i>>} \in SUBSET Effects
    BY <1>1, CurrentIsFirst DEF Matching, Effects
  <2>2. Done({<<a.op, i>>}) \in Outcomes /\ Done({<<a.op, i>>}).told = {<<a.op, i>>}
    BY <2>1, OutcomesTyped
  <2>3. Without({i}) \in Rows /\ Apart(Without({i}).active) /\ Without({i}).keys = view.keys
    BY <2>1, RowsWritten
  <2> QED
    BY <1>1, <1>2, <1>4, <2>2, <2>3, SettledAsTold
<1> QED
  BY <1>1, <1>3, <1>4

LEMMA UpdateSettles ==
  ASSUME PipelineTypeInv, Update
  PROVE  Current # {} /\ Settled
<1> DEFINE Moved(i, to) == [view EXCEPT !.active = (@ \ {i}) \cup {to}]
<1>1. PICK a \in Current :
         /\ a.op = "update" /\ Guard /\ UNCHANGED taken
         /\ \/ Settle(NotDone, view, {})
            \/ \E i \in Matching(a), to \in {Head(a.items)} :
                  /\ ~Overlaps(to, view.active \ {i})
                  /\ Settle(Done({<<"update", to>>}), Moved(i, to), {<<"update", to>>})
  BY DEF Update
<1>2. view \in Rows /\ Apart(view.active) /\ locked' \in BOOLEAN
  BY <1>1 DEF PipelineTypeInv, Guard
<1>3. CASE Settle(NotDone, view, {})
  BY <1>1, <1>2, <1>3, OutcomesTyped, SettledAsTold
<1>4. ASSUME NEW i \in Matching(a), NEW to \in {Head(a.items)}, ~Overlaps(to, view.active \ {i}),
             Settle(Done({<<"update", to>>}), Moved(i, to), {<<"update", to>>})
      PROVE  Settled
  <2>1. to \in Items /\ view.active \in SUBSET Items
    BY <1>1, <1>2, <1>4, CurrentIsFirst DEF Rows
  <2>2. {<<"update", to>>} \in SUBSET Effects
    BY <2>1 DEF Effects
  <2>3. Done({<<"update", to>>}) \in Outcomes /\ Done({<<"update", to>>}).told = {<<"update", to>>}
    BY <2>2, OutcomesTyped
  <2>4. Moved(i, to) \in Rows /\ Moved(i, to).active = (view.active \ {i}) \cup {to}
        /\ Moved(i, to).keys = view.keys
    BY <1>2, <2>1 DEF Rows
  <2>5. Apart(view.active \ {i})
    BY <1>2 DEF Apart
  <2>6. Apart(Moved(i, to).active)
    BY <1>4, <2>1, <2>4, <2>5, ApartStays
  <2> HIDE DEF Moved
  <2> QED
    BY <1>1, <1>2, <1>4, <2>3, <2>4, <2>6, SettledAsTold
<1> QED
  BY <1>1, <1>3, <1>4

LEMMA MutateAllSettles ==
  ASSUME PipelineTypeInv, MutateAll
  PROVE  Current # {} /\ Settled
<1>1. PICK a \in Current, op \in {"delete", "complete"} :
         /\ Guard /\ UNCHANGED taken
         /\ LET gone == Completable(a.op, Matching(a)) IN
            Settle([done |-> gone # {}, told |-> {<<op, i>> : i \in gone}],
                   Without(gone), {<<op, i>> : i \in gone})
  BY DEF MutateAll
<1> DEFINE gone == Completable(a.op, Matching(a))
           effects == {<<op, i>> : i \in gone}
           outcome == [done |-> gone # {}, told |-> effects]
<1>2. gone \in SUBSET Items
  BY <1>1, CurrentIsFirst DEF Completable, Matching
<1>3. effects \in SUBSET Effects
  BY <1>1, <1>2 DEF Effects
<1>4. outcome \in Outcomes /\ outcome.told = effects
  BY <1>3, OutcomesTyped
<1>5. Without(gone) \in Rows /\ Apart(Without(gone).active) /\ Without(gone).keys = view.keys
  BY <1>2, RowsWritten
<1>6. locked' \in BOOLEAN /\ Settle(outcome, Without(gone), outcome.told)
  BY <1>1, <1>4 DEF Guard
<1> HIDE DEF outcome, gone, effects
<1> QED
  BY <1>1, <1>4, <1>5, <1>6, SettledAsTold

LEMMA OthersSettle ==
  ASSUME PipelineTypeInv, Social \/ Move \/ Setting
  PROVE  Current # {} /\ Settled
<1>1. view \in Rows /\ Apart(view.active) /\ locked \in BOOLEAN
  BY DEF PipelineTypeInv
<1>2. /\ {<<"social", "it">>} \in SUBSET Effects /\ {<<"move", "it">>} \in SUBSET Effects
      /\ {<<"setting", "it">>} \in SUBSET Effects
      /\ {"social"} \in SUBSET Facts /\ {"setting"} \in SUBSET Facts
  BY DEF Effects, Facts
<1>3. CASE Social
  <2>1. PICK a \in Current :
           /\ Guard \/ UNCHANGED locked
           /\ UNCHANGED taken
           /\ \/ Settle(SharedOutcome(FALSE), view, {})
              \/ Settle(Answered, view, {})
              \/ Settle(SharedOutcome(TRUE), [view EXCEPT !.facts = @ \cup {"social"}],
                        {<<"social", "it">>})
    BY <1>3 DEF Social
  <2>2. locked' \in BOOLEAN
    BY <1>1, <2>1 DEF Guard
  <2>3. SharedOutcome(FALSE) = NotDone /\ SharedOutcome(TRUE) = Done({<<"social", "it">>})
    BY DEF SharedOutcome
  <2>4. CASE Settle(NotDone, view, {})
    BY <1>1, <2>1, <2>2, <2>4, OutcomesTyped, SettledAsTold
  <2>6. CASE Settle(Answered, view, {})
    <3>1. Answered \in Outcomes /\ Answered.told = {}
      BY OutcomesTyped DEF Answered
    <3> QED
      BY <1>1, <2>1, <2>2, <2>6, <3>1, SettledAsTold
  <2> DEFINE rows == [view EXCEPT !.facts = @ \cup {"social"}]
  <2>5. CASE Settle(Done({<<"social", "it">>}), rows, {<<"social", "it">>})
    <3>1. rows \in Rows /\ rows.active = view.active /\ rows.keys = view.keys
      BY <1>2, RowsWritten
    <3>2. Done({<<"social", "it">>}) \in Outcomes
          /\ Done({<<"social", "it">>}).told = {<<"social", "it">>}
      BY <1>2, OutcomesTyped
    <3> HIDE DEF rows
    <3> QED
      BY <1>1, <2>1, <2>2, <2>5, <3>1, <3>2, SettledAsTold
  <2> QED
    BY <2>1, <2>3, <2>4, <2>5, <2>6
<1>4. CASE Move
  <2>1. PICK a \in Current :
           Guard /\ UNCHANGED taken /\ Settle(MovedOutcome, view, {<<"move", "it">>})
    BY <1>4 DEF Move
  <2>2. locked' \in BOOLEAN
    BY <2>1 DEF Guard
  <2>3. MovedOutcome \in Outcomes /\ MovedOutcome.told = {<<"move", "it">>}
    BY <1>2, OutcomesTyped DEF MovedOutcome
  <2> QED
    BY <1>1, <2>1, <2>2, <2>3, SettledAsTold
<1>5. CASE Setting
  <2>1. Current # {} /\ UNCHANGED <<locked, taken>>
        /\ Settle(Done({<<"setting", "it">>}), SettingWritten, {<<"setting", "it">>})
    BY <1>5 DEF Setting
  <2>2. Done({<<"setting", "it">>}) \in Outcomes
        /\ Done({<<"setting", "it">>}).told = {<<"setting", "it">>}
    BY <1>2, OutcomesTyped
  <2>3. SettingWritten \in Rows /\ SettingWritten.active = view.active
        /\ SettingWritten.keys = view.keys
    BY <1>2, RowsWritten DEF SettingWritten
  <2> QED
    BY <1>1, <2>1, <2>2, <2>3, SettledAsTold
<1> QED
  BY <1>3, <1>4, <1>5

\* Whatever Execute does next settles an outcome.
LEMMA ExecutionSettles ==
  ASSUME PipelineTypeInv, KeysStandFor(view.keys, did),
         \/ Blocked \/ Create \/ MutateOne \/ Update \/ MutateAll \/ Social \/ Move \/ Setting
         \/ Look
  PROVE  phase = "execute" /\ Current # {} /\ Settled
BY CurrentExecutes, BlockedSettles, CreateSettles, MutateOneSettles, UpdateSettles,
   MutateAllSettles, OthersSettle

-----------------------------------------------------------------------------
(* Types, step by step.                                                    *)

LEMMA PipelineTypesInit == Init => PipelineTypeInv
<1> SUFFICES ASSUME Init PROVE PipelineTypeInv
  OBVIOUS
<1>1. PICK facts \in SUBSET {"social"}, active \in SUBSET Items :
         /\ \A i, j \in active : {i, j} \notin Clashes
         /\ db = [active |-> active, facts |-> facts, keys |-> {}]
  BY DEF Init
<1>2. db \in Rows /\ Apart(db.active) /\ view = db
  BY <1>1 DEF Rows, Apart, Facts, Init
<1>3. /\ phase \in Phases /\ text \in Texts
      /\ turn \in 1 .. MaxTurns /\ crashes \in 0 .. MaxCrashes /\ segments \in 0 .. MaxSegments
  BY PipelineAssumption DEF Init, Phases, Open, Texts
<1>4. plan = <<>> /\ outcomes = <<>> /\ plan \in Seq(Actions) /\ outcomes \in Seq(Outcomes)
  BY DEF Init
<1>5. \A k \in DOMAIN plan : plan[k].op = "update" => plan[k].items # <<>>
  BY <1>4, NoneInPlan
<1>6. /\ attempt \in 1 .. 2 /\ position \in Nat /\ did \in SUBSET Effects /\ said \in SUBSET Effects
  BY DEF Init
<1>7. locked \in BOOLEAN /\ newer \in BOOLEAN /\ taken \in BOOLEAN
  BY DEF Init
<1> QED
  BY <1>2, <1>3, <1>4, <1>5, <1>6, <1>7 DEF PipelineTypeInv

\* A turn that starts or starts again.
LEMMA FreshKeepsTypes ==
  ASSUME PipelineTypeInv, Fresh, db' \in Rows, view' \in Rows, Apart(db'.active),
         Apart(view'.active), turn' \in 1 .. MaxTurns, newer' \in BOOLEAN, text' \in Texts,
         said' \in SUBSET Effects, segments' \in 0 .. MaxSegments, crashes' \in 0 .. MaxCrashes
  PROVE  PipelineTypeInv'
<1>1. plan' \in Seq(Actions) /\ outcomes' \in Seq(Outcomes) /\ plan' = <<>>
  BY DEF Fresh
<1>2. phase' \in Phases
  BY DEF Fresh, Phases, Open
<1>3. \A k \in DOMAIN plan' : plan'[k].op = "update" => plan'[k].items # <<>>
  BY <1>1, NoneInPlan
<1>4. /\ attempt' \in 1 .. 2 /\ position' \in Nat /\ did' \in SUBSET Effects
  BY DEF Fresh
<1>5. locked' \in BOOLEAN /\ taken' \in BOOLEAN
  BY DEF Fresh
<1> QED
  BY <1>1, <1>2, <1>3, <1>4, <1>5 DEF PipelineTypeInv

\* A step that leaves the work of the turn and its text alone.
LEMMA IdleKeepsTypes ==
  ASSUME PipelineTypeInv, UNCHANGED <<turn, attempt, text, said>>, UNCHANGED working,
         db' \in Rows, Apart(db'.active), phase' \in Phases, locked' \in BOOLEAN,
         newer' \in BOOLEAN, segments' \in 0 .. MaxSegments, crashes' \in 0 .. MaxCrashes
  PROVE  PipelineTypeInv'
BY DEF PipelineTypeInv, working

LEMMA ToldTyped ==
  ASSUME PipelineTypeInv
  PROVE  /\ ToldBy(outcomes) \in SUBSET Effects
         /\ \A k \in DOMAIN outcomes : outcomes[k].told \subseteq ToldBy(outcomes)
         /\ \A k \in DOMAIN outcomes : outcomes[k].told \in SUBSET Effects
<1>1. \A k \in DOMAIN outcomes : outcomes[k] \in Outcomes
  BY DEF PipelineTypeInv
<1>2. \A k \in DOMAIN outcomes : outcomes[k].told \in SUBSET Effects
  BY <1>1 DEF Outcomes
<1> QED
  BY <1>2 DEF ToldBy

\* The ways to close a turn: the text tells what outcomes tell, a reply all of it.
ClosedAsTold ==
    \E kind \in Texts, tells \in SUBSET Effects, n \in 0 .. MaxSegments :
        /\ CloseWith(kind, tells, n)
        /\ tells \subseteq ToldBy(outcomes)
        /\ kind = "reply" => tells = ToldBy(outcomes)

LEMMA EveryCloseTells ==
  ASSUME PipelineTypeInv, Reply \/ NoReply \/ RecoverFromOutcome \/ RecoverFromFailure
  PROVE  phase \in Open /\ ClosedAsTold
<1>1. /\ MaxSegments \in Nat \ {0} /\ 0 \in 0 .. MaxSegments /\ 1 \in 0 .. MaxSegments
      /\ \A n \in SegmentCounts : n \in 0 .. MaxSegments
      /\ {} \in SUBSET Effects /\ {} \subseteq ToldBy(outcomes)
  BY PipelineAssumption DEF SegmentCounts
<1>2. Texts = {"reply", "recovery", "handled", "failure", "none", "no_reply"}
  BY DEF Texts, Spoken
<1>3. CASE Reply
  <2>1. PICK n \in SegmentCounts : CloseWith("reply", ToldBy(outcomes), n)
    BY <1>3 DEF Reply
  <2> QED
    BY <1>1, <1>2, <1>3, <2>1, ToldTyped DEF ClosedAsTold, Reply, Open
<1>4. CASE NoReply
  BY <1>1, <1>2, <1>4 DEF ClosedAsTold, NoReply, Open
<1>5. CASE RecoverFromOutcome
  <2>1. phase \in Open
    BY <1>5 DEF RecoverFromOutcome, ExpressRefused, Open
  <2>2. CASE /\ Len(outcomes) = 1
             /\ CloseWith("recovery", IF outcomes[1].done THEN outcomes[1].told ELSE {}, 1)
    <3> DEFINE tells == IF outcomes[1].done THEN outcomes[1].told ELSE {}
    <3>1. 1 \in DOMAIN outcomes
      BY <2>2 DEF PipelineTypeInv
    <3>2. tells \in SUBSET Effects /\ tells \subseteq ToldBy(outcomes)
      BY <3>1, ToldTyped
    <3>3. CloseWith("recovery", tells, 1)
      BY <2>2
    <3> HIDE DEF tells
    <3> QED
      BY <1>1, <1>2, <2>1, <3>2, <3>3 DEF ClosedAsTold
  <2>3. CASE CloseWith("recovery", {}, 1) \/ CloseWith("handled", {}, 1)
    BY <1>1, <1>2, <2>1, <2>3 DEF ClosedAsTold
  <2> QED
    BY <1>5, <2>2, <2>3 DEF RecoverFromOutcome
<1>6. CASE RecoverFromFailure
  <2>1. phase \in Open
    BY <1>6, CurrentExecutes DEF RecoverFromFailure, Unusable, Raises, Open
  <2>2. CloseWith("failure", {}, 1)
    BY <1>6 DEF RecoverFromFailure
  <2> QED
    BY <1>1, <1>2, <2>1, <2>2 DEF ClosedAsTold
<1> QED
  BY <1>3, <1>4, <1>5, <1>6

-----------------------------------------------------------------------------
(* What the text tells.                                                    *)

\* While the turn is open, what its outcomes tell is done unless a key was taken,
\* and a first run of the pipeline has done nothing that they do not tell.
ToldInv ==
    /\ PipelineTypeInv
    /\ phase \in Open => db.keys = {} /\ KeysStandFor(view.keys, did)
    /\ phase \in Open /\ ~taken => ToldBy(outcomes) \subseteq did
    /\ phase \in Open /\ attempt = 1 => did \subseteq ToldBy(outcomes)
    /\ phase = "plan" => outcomes = <<>>
    /\ ToldIsDone

LEMMA NothingTold == ToldBy(<<>>) = {}
BY DEF ToldBy

LEMMA ToldGrows ==
  ASSUME NEW settled \in Seq(Outcomes), NEW outcome \in Outcomes
  PROVE  ToldBy(Append(settled, outcome)) = ToldBy(settled) \cup outcome.told
<1> DEFINE longer == Append(settled, outcome)
<1>1. /\ DOMAIN longer = 1 .. (Len(settled) + 1) /\ DOMAIN settled = 1 .. Len(settled)
      /\ \A k \in 1 .. Len(settled) : longer[k] = settled[k]
      /\ longer[Len(settled) + 1] = outcome
      /\ Len(settled) \in Nat
  OBVIOUS
<1>2. \A k \in DOMAIN longer : k \in DOMAIN settled \/ k = Len(settled) + 1
  BY <1>1
<1>3. Len(settled) + 1 \in DOMAIN longer /\ \A k \in DOMAIN settled : k \in DOMAIN longer
  BY <1>1
<1> HIDE DEF longer
<1>4. ASSUME NEW e
      PROVE  e \in ToldBy(longer) <=> e \in ToldBy(settled) \cup outcome.told
  <2>1. e \in ToldBy(longer) <=> \E k \in DOMAIN longer : e \in longer[k].told
    BY DEF ToldBy
  <2>2. e \in ToldBy(settled) <=> \E k \in DOMAIN settled : e \in settled[k].told
    BY DEF ToldBy
  <2>3. ASSUME NEW k \in DOMAIN longer, e \in longer[k].told
        PROVE  e \in outcome.told \/ \E j \in DOMAIN settled : e \in settled[j].told
    BY <1>1, <1>2, <2>3
  <2>4. ASSUME NEW k \in DOMAIN settled, e \in settled[k].told
        PROVE  \E j \in DOMAIN longer : e \in longer[j].told
    <3>1. k \in DOMAIN longer /\ longer[k] = settled[k]
      BY <1>1, <1>3
    <3> QED
      BY <2>4, <3>1
  <2>5. ASSUME e \in outcome.told
        PROVE  \E j \in DOMAIN longer : e \in longer[j].told
    <3>1. longer[Len(settled) + 1] = outcome
      BY <1>1
    <3> QED
      BY <1>3, <2>5, <3>1
  <2> QED
    BY <2>1, <2>2, <2>3, <2>4, <2>5
<1>5. ToldBy(longer) = ToldBy(settled) \cup outcome.told
  BY <1>4
<1> QED
  BY <1>5 DEF longer

LEMMA ToldInit == Init => ToldInv
<1> SUFFICES ASSUME Init PROVE ToldInv
  OBVIOUS
<1>1. phase = "plan" /\ outcomes = <<>> /\ did = {} /\ view = db /\ db.keys = {}
  BY DEF Init
<1> QED
  BY <1>1, PipelineTypesInit, NothingTold DEF ToldInv, ToldIsDone, Closed, KeysStandFor

LEMMA SettledKeepsTold ==
  ASSUME ToldInv, phase = "execute", Current # {}, Settled
  PROVE  ToldInv'
<1>1. PICK outcome \in Outcomes, rows \in Rows, effects \in SUBSET Effects :
         /\ Settle(outcome, rows, effects)
         /\ Apart(rows.active)
         /\ locked' \in BOOLEAN /\ taken' \in BOOLEAN /\ (taken => taken')
         /\ effects \subseteq outcome.told
         /\ ~taken' => outcome.told \subseteq did \cup effects
         /\ KeysStandFor(view.keys, did) => KeysStandFor(rows.keys, did \cup effects)
  BY DEF Settled
<1>2. PipelineTypeInv'
  BY <1>1, SettleKeepsTypes DEF ToldInv
<1>3. /\ outcomes' = Append(outcomes, outcome) /\ view' = rows /\ did' = did \cup effects
      /\ db' = db /\ phase' = "execute" /\ attempt' = attempt
  BY <1>1 DEF Settle
<1>4. ToldBy(outcomes') = ToldBy(outcomes) \cup outcome.told
  BY <1>3, ToldGrows DEF ToldInv, PipelineTypeInv
<1> QED
  BY <1>1, <1>2, <1>3, <1>4 DEF ToldInv, ToldIsDone, Closed, Open

LEMMA CloseKeepsTold ==
  ASSUME ToldInv, phase \in Open, ClosedAsTold
  PROVE  ToldInv'
<1>1. PICK kind \in Texts, tells \in SUBSET Effects, n \in 0 .. MaxSegments :
         /\ CloseWith(kind, tells, n)
         /\ tells \subseteq ToldBy(outcomes)
         /\ kind = "reply" => tells = ToldBy(outcomes)
  BY DEF ClosedAsTold
<1>2. PipelineTypeInv'
  BY <1>1, CloseKeepsTypes DEF ToldInv
<1>3. /\ text' = kind /\ said' = tells /\ phase' \in {"done", "sending"}
      /\ UNCHANGED <<did, taken, attempt>>
  BY <1>1 DEF CloseWith, working
<1> QED
  BY <1>1, <1>2, <1>3 DEF ToldInv, ToldIsDone, Closed, Open

\* A turn that starts or starts again has told and done nothing.
LEMMA FreshKeepsTold ==
  ASSUME Fresh, PipelineTypeInv', view' = db', db'.keys = {}
  PROVE  ToldInv'
BY NothingTold DEF Fresh, ToldInv, ToldIsDone, Closed, KeysStandFor, Open

LEMMA ToldStep == ToldInv /\ SendInv /\ [Next]_vars => ToldInv'
<1> SUFFICES ASSUME ToldInv, SendInv, [Next]_vars PROVE ToldInv'
  OBVIOUS
<1> USE DEF ToldInv
<1>1. CASE PlanTurn
  <2>1. PICK p \in Plans : plan' = p
    BY <1>1 DEF PlanTurn
  <2>2. p \in Seq(Actions) /\ \A k \in DOMAIN p : p[k].op = "update" => p[k].items # <<>>
    BY PipelineAssumption
  <2>3. /\ phase = "plan" /\ phase' = "execute" /\ outcomes' = <<>> /\ position' = 0
        /\ UNCHANGED <<db, view, turn, attempt, locked, newer, did, taken, crashes,
                       text, segments, said, sent>>
    BY <1>1 DEF PlanTurn, closing
  <2>4. outcomes' \in Seq(Outcomes) /\ phase' \in Phases
    BY <2>3 DEF Phases, Open
  <2>5. PipelineTypeInv'
    BY <2>1, <2>2, <2>3, <2>4 DEF PipelineTypeInv
  <2> QED
    BY <2>3, <2>5 DEF ToldIsDone, Closed, Open
<1>2. CASE MessageArrives
  <2>1. PipelineTypeInv'
    BY <1>2, IdleKeepsTypes DEF MessageArrives, closing, PipelineTypeInv
  <2> QED
    BY <1>2, <2>1 DEF MessageArrives, closing, working, ToldIsDone, Closed, Open
<1>3. CASE \/ Blocked \/ Create \/ MutateOne \/ Update \/ MutateAll \/ Social \/ Move
           \/ Setting \/ Look
  <2>1. KeysStandFor(view.keys, did)
    <3>1. phase = "execute"
      BY <1>3, CurrentExecutes DEF Blocked, Create, MutateOne, Update, MutateAll, Social, Move,
                                   Setting, Look
    <3> QED
      BY <3>1 DEF Open
  <2> QED
    BY <1>3, <2>1, ExecutionSettles, SettledKeepsTold
<1>4. CASE Executed
  <2>1. PipelineTypeInv'
    BY <1>4, IdleKeepsTypes DEF Executed, closing, PipelineTypeInv, Phases, Open
  <2> QED
    BY <1>4, <2>1 DEF Executed, closing, working, ToldIsDone, Closed, Open
<1>5. CASE Reply \/ NoReply \/ RecoverFromOutcome \/ RecoverFromFailure
  BY <1>5, EveryCloseTells, CloseKeepsTold
<1>6. CASE Retry
  <2>1. phase \in Open
    BY <1>6, CurrentExecutes DEF Retry, Unusable, Open
  <2>2. /\ phase' = "plan" /\ attempt' = 2 /\ plan' = <<>> /\ position' = 0 /\ outcomes' = <<>>
        /\ UNCHANGED <<db, view, turn, locked, newer, did, taken, crashes,
                       text, segments, said, sent>>
    BY <1>6 DEF Retry, closing
  <2>3. plan' \in Seq(Actions) /\ outcomes' \in Seq(Outcomes) /\ phase' \in Phases
    BY <2>2 DEF Phases, Open
  <2>4. PipelineTypeInv'
    BY <2>2, <2>3 DEF PipelineTypeInv
  <2> QED
    BY <2>1, <2>2, <2>4, NothingTold DEF ToldIsDone, Closed, Open
<1>7. CASE Superseded
  <2>1. phase' = "superseded" /\ db' = view
        /\ UNCHANGED <<turn, attempt, locked, newer, crashes, text, segments, said, sent>>
        /\ UNCHANGED working
    BY <1>7 DEF Superseded, closing
  <2>2. PipelineTypeInv'
    BY <2>1, IdleKeepsTypes DEF PipelineTypeInv, Phases
  <2> QED
    BY <2>1, <2>2 DEF ToldIsDone, Closed, Open
<1>8. CASE SendSegment
  <2>1. /\ phase = "sending" /\ phase' \in {"sending", "done"} /\ segments' = segments - 1
        /\ UNCHANGED <<db, turn, attempt, locked, newer, text, said, crashes>>
        /\ UNCHANGED working
    BY <1>8 DEF SendSegment
  <2>2. segments' \in 0 .. MaxSegments
    <3>1. segments \in 0 .. MaxSegments /\ segments > 0 /\ MaxSegments \in Nat
      BY <2>1, PipelineAssumption DEF SendInv, PipelineTypeInv
    <3> QED
      BY <2>1, <3>1
  <2>3. PipelineTypeInv'
    BY <2>1, <2>2, IdleKeepsTypes DEF PipelineTypeInv, Phases
  <2> QED
    BY <2>1, <2>3 DEF ToldIsDone, Closed, Open, working
<1>9. CASE CrashBeforeClose
  <2>1. /\ phase \in Open /\ Fresh /\ view' = db /\ crashes < MaxCrashes /\ crashes' = crashes + 1
        /\ UNCHANGED <<db, turn, newer, text, segments, said, sent>>
    BY <1>9 DEF CrashBeforeClose, closing, Open
  <2>2. crashes' \in 0 .. MaxCrashes
    BY <2>1, PipelineAssumption DEF PipelineTypeInv
  <2>3. PipelineTypeInv'
    BY <2>1, <2>2, FreshKeepsTypes DEF PipelineTypeInv
  <2> QED
    BY <2>1, <2>3, FreshKeepsTold
<1>10. CASE CrashWhileSending
  <2>1. /\ phase = "sending" /\ phase' = "cut" /\ crashes < MaxCrashes /\ crashes' = crashes + 1
        /\ UNCHANGED <<db, turn, attempt, locked, newer, text, segments, said, sent>>
        /\ UNCHANGED working
    BY <1>10 DEF CrashWhileSending, closing
  <2>2. crashes' \in 0 .. MaxCrashes
    BY <2>1, PipelineAssumption DEF PipelineTypeInv
  <2>3. PipelineTypeInv'
    BY <2>1, <2>2, IdleKeepsTypes DEF PipelineTypeInv, Phases
  <2> QED
    BY <2>1, <2>3 DEF ToldIsDone, Closed, Open, working
<1>11. CASE NextTurn
  <2>1. /\ Fresh /\ db' = [db EXCEPT !.keys = {}] /\ view' = db'
        /\ turn < MaxTurns /\ turn' = turn + 1 /\ newer' = FALSE
        /\ text' = "none" /\ said' = {} /\ segments' = 0 /\ crashes' = crashes
    BY <1>11 DEF NextTurn
  <2>2. db' \in Rows /\ db'.active = db.active /\ db'.keys = {}
    BY <2>1 DEF PipelineTypeInv, Rows
  <2>3. turn' \in 1 .. MaxTurns /\ segments' \in 0 .. MaxSegments
    BY <2>1, PipelineAssumption DEF PipelineTypeInv
  <2>4. PipelineTypeInv'
    BY <2>1, <2>2, <2>3, FreshKeepsTypes DEF PipelineTypeInv, Texts
  <2> QED
    BY <2>1, <2>2, <2>4, FreshKeepsTold
<1>12. CASE UNCHANGED vars
  <2>1. UNCHANGED <<db, view, turn, phase, attempt, plan, position, outcomes, locked, newer, text,
                    segments, did, said, taken, sent, crashes>>
    BY <1>12 DEF vars
  <2>2. PipelineTypeInv'
    BY <2>1 DEF PipelineTypeInv
  <2> QED
    BY <2>1, <2>2 DEF ToldIsDone, Closed
<1> QED
  BY <1>1, <1>2, <1>3, <1>4, <1>5, <1>6, <1>7, <1>8, <1>9, <1>10, <1>11, <1>12 DEF Next, Ended

\* Whatever the planner proposes, however often it is asked again and wherever the
\* worker dies, the types hold, and active reminders do not overlap.
THEOREM PipelineTypesHold == Spec => []TypeOK
<1>1. ToldInv => TypeOK
  BY DEF ToldInv, PipelineTypeInv, TypeOK, Apart, Phases, Open, Texts, Spoken
<1> QED
  BY ToldInit, ToldStep, SendInit, SendStep, <1>1, PTL DEF Spec

\* No text tells as done what the commit does not hold, unless a create took the key
\* of another for its own; and a worded reply of a first run tells all that was done.
THEOREM TextsTellTheTruth == Spec => []ToldIsDone
<1>1. ToldInv => ToldIsDone
  BY DEF ToldInv
<1> QED
  BY ToldInit, ToldStep, SendInit, SendStep, <1>1, PTL DEF Spec

-----------------------------------------------------------------------------
(* The one-time import of a calendar.                                      *)

\* A sequence of sequences laid end to end.
LEMMA FlattenTyped ==
  ASSUME NEW S, NEW n \in Nat, NEW seqs \in [1 .. n -> Seq(S)]
  PROVE  FlattenSeq(seqs) \in Seq(S)
<1>1. seqs \in Seq(Seq(S)) /\ Len(seqs) = n
  OBVIOUS
<1>2. CASE n = 0
  <2>1. FlattenSeq(seqs) = seqs
    BY <1>1, <1>2 DEF FlattenSeq
  <2>2. seqs = <<>>
    BY <1>1, <1>2
  <2> QED
    BY <2>1, <2>2
<1>3. CASE n # 0
  <2> DEFINE first == seqs[1]
             step == [p \in Seq(S) \X (1 .. (n - 1)) |-> p[1] \o seqs[p[2] + 1]]
             flatten[i \in 1 .. n] == IF i = 1 THEN seqs[i] ELSE flatten[i - 1] \o seqs[i]
  <2>1. n - 1 \in Nat /\ first \in Seq(S) /\ step \in [Seq(S) \X (1 .. (n - 1)) -> Seq(S)]
    <3>1. n - 1 \in Nat /\ first \in Seq(S)
      BY <1>3
    <3>2. \A i \in 1 .. (n - 1) : seqs[i + 1] \in Seq(S)
      BY <1>3
    <3>3. \A t \in Seq(S), i \in 1 .. (n - 1) : t \o seqs[i + 1] \in Seq(S)
      BY <3>2
    <3> QED
      BY <3>1, <3>3
  <2>2. \A t \in Seq(S), i \in 1 .. (n - 1) : step[<<t, i>>] = t \o seqs[i + 1]
    OBVIOUS
  <2>3. FlattenSeq(seqs) = flatten[n]
    BY <1>1, <1>3 DEF FlattenSeq
  <2> HIDE DEF first, step
  <2>4. PICK f \in [0 .. (n - 1) -> Seq(S)] : Goes(f, first, n - 1, step)
    BY ONLY <2>1, StepByStep
  <2> DEFINE g == [i \in 1 .. n |-> f[i - 1]]
  <2>5. ASSUME NEW i \in 1 .. n
        PROVE  g[i] = IF i = 1 THEN seqs[i] ELSE g[i - 1] \o seqs[i]
    <3>1. CASE i = 1
      BY <2>4, <3>1 DEF Goes, first
    <3>2. CASE i # 1
      <4>1. i - 1 \in 1 .. (n - 1) /\ i - 1 \in 1 .. n /\ (i - 1) - 1 \in 0 .. (n - 1)
        BY <3>2
      <4>2. f[i - 1] = step[<<f[(i - 1) - 1], i - 1>>] /\ f[(i - 1) - 1] \in Seq(S)
        BY <2>4, <4>1 DEF Goes
      <4>3. f[i - 1] = f[(i - 1) - 1] \o seqs[(i - 1) + 1]
        BY <2>2, <4>1, <4>2
      <4> QED
        BY <3>2, <4>1, <4>3
    <3> QED
      BY <3>1, <3>2
  <2>6. \E h : h = [i \in 1 .. n |-> IF i = 1 THEN seqs[i] ELSE h[i - 1] \o seqs[i]]
    <3>1. g = [i \in 1 .. n |-> g[i]]
      OBVIOUS
    <3> HIDE DEF g
    <3> QED
      BY <2>5, <3>1
  <2>7. flatten = [i \in 1 .. n |-> IF i = 1 THEN seqs[i] ELSE flatten[i - 1] \o seqs[i]]
    BY <2>6 DEF flatten
  <2> HIDE DEF flatten
  <2>8. \A i \in 1 .. n : flatten[i] = IF i = 1 THEN seqs[i] ELSE flatten[i - 1] \o seqs[i]
    BY <2>7
  <2> DEFINE upto == [i \in 0 .. (n - 1) |-> flatten[i + 1]]
  <2>9. \A i \in 0 .. (n - 1) : upto[i] \in Seq(S)
    <3>1. upto[0] \in Seq(S)
      BY <1>3, <2>8
    <3>2. ASSUME NEW i \in 1 .. (n - 1), upto[i - 1] \in Seq(S)
          PROVE  upto[i] \in Seq(S)
      <4>1. i + 1 \in 1 .. n /\ i + 1 # 1 /\ (i + 1) - 1 = i /\ i - 1 \in 0 .. (n - 1)
            /\ (i - 1) + 1 = i /\ i \in 0 .. (n - 1)
        OBVIOUS
      <4>2. upto[i] = flatten[i] \o seqs[i + 1] /\ upto[i - 1] = flatten[i]
        BY <2>8, <4>1
      <4>3. flatten[i] \in Seq(S) /\ seqs[i + 1] \in Seq(S)
        BY <3>2, <4>1, <4>2
      <4> HIDE DEF upto
      <4> QED
        BY <4>2, <4>3
    <3> HIDE DEF upto
    <3> QED
      BY <2>1, <3>1, <3>2, KeptByEachStep
  <2>10. upto[n - 1] = flatten[n] /\ n - 1 \in 0 .. (n - 1)
    BY <1>3
  <2> QED
    BY <2>3, <2>9, <2>10
<1> QED
  BY <1>2, <1>3

\* An occurrence as Google lists it: anything but an expanded rule is at its start.
Legal == {o \in Occurrences : KindOf[o.event] = "complex" \/ o.key = StartOf[o.event]}
Telling == {"imported", "downgraded"}
StatusFor(e) == IF KindOf[e] = "complex" THEN "downgraded" ELSE "imported"

LEMMA OccurrencesLegal ==
  ASSUME NEW e \in Events, NEW from \in Slots
  PROVE  OccurrencesOf(e, from) \in Seq(Legal)
<1> DEFINE complex == KindOf[e] = "complex"
           first == IF complex /\ from > StartOf[e] THEN from ELSE StartOf[e]
           last == IF complex THEN MaxTime ELSE first
<1>1. StartOf[e] \in 0 .. MaxTime /\ from \in 0 .. MaxTime /\ MaxTime \in Nat
  BY CalendarAssumption DEF Slots
<1>2. first \in 0 .. MaxTime /\ last \in 0 .. MaxTime /\ first <= last
  BY <1>1
<1>3. ASSUME NEW i \in 1 .. (last - first + 1)
      PROVE  [event |-> e, key |-> first + i - 1] \in Legal
  <2>1. first + i - 1 \in 0 .. MaxTime
    BY <1>1, <1>2, <1>3
  <2>2. complex \/ first + i - 1 = StartOf[e]
    BY <1>1, <1>3
  <2> HIDE DEF first, last, complex
  <2> QED
    BY <2>1, <2>2 DEF Legal, Occurrences, Slots, complex
<1>4. last - first + 1 \in Nat
  BY <1>1, <1>2
<1>5. OccurrencesOf(e, from) = [i \in 1 .. (last - first + 1) |-> [event |-> e, key |-> first + i - 1]]
  BY DEF OccurrencesOf
<1> HIDE DEF first, last
<1> QED
  BY <1>3, <1>4, <1>5

\* Whatever order Google lists the events in.
LEMMA ConsideredLegal ==
  ASSUME NEW a \in Accounts, NEW listed \in SetToSeqs(Listed(a)), NEW from \in Slots
  PROVE  Considered(listed, from) \in Seq(Legal)
<1> DEFINE n == Cardinality(Listed(a))
<1>1. Listed(a) \subseteq Events
  BY CalendarAssumption DEF Listed
<1>2. n \in Nat
  BY <1>1, CalendarAssumption, FS_Subset, FS_CardinalityType
<1>3. listed \in [1 .. n -> Listed(a)]
  BY DEF SetToSeqs
<1> HIDE DEF n
<1> DEFINE seqs == [i \in DOMAIN listed |-> OccurrencesOf(listed[i], from)]
<1>4. seqs \in [1 .. n -> Seq(Legal)]
  BY <1>1, <1>3, OccurrencesLegal
<1>5. Considered(listed, from) = FlattenSeq(seqs)
  BY DEF Considered
<1> HIDE DEF seqs
<1> QED
  BY <1>2, <1>4, <1>5, FlattenTyped

-----------------------------------------------------------------------------
(* What an import makes of its occurrences.                                *)

Results == [reminders : SUBSET Reminders, items : SUBSET ImportItems,
            answers : SUBSET [event : Events, key : Slots, status : Statuses],
            raised : BOOLEAN]

\* A reminder that the import may make: not over, at the start unless its rule was
\* expanded, and the index finds no other.
Makeable(r, x) ==
    /\ x.owner = r.who /\ x.event \in Events /\ x.series = (KindOf[x.event] = "recurring")
    /\ KindOf[x.event] = "complex" \/ x.at = StartOf[x.event]
    /\ x.at >= now
    /\ \A y \in reminders : y.owner # x.owner \/ y.event # x.event \/ y.at # x.at

\* An answer that tells a reminder has it, and its record.
Backed(r, result, x) ==
    /\ x.status = StatusFor(x.event)
    /\ \E y \in result.reminders : y.event = x.event /\ y.at = x.key
    /\ \E y \in result.items : y.account = r.who /\ Key(y) = Key(x) /\ y.status = x.status

ResultInv(r, result) ==
    /\ result \in Results
    /\ \A x \in result.reminders : Makeable(r, x)
    /\ \A x, y \in result.items : Key(x) = Key(y) => x = y
    /\ \A x \in result.items : ~Recorded(items, x)
    /\ \A x \in result.answers : x.status \in Telling => Backed(r, result, x)

LEMMA ImportTimes ==
  now \in Slots => now \in Nat /\ (\A t \in Slots : t \in Nat)
BY DEF Slots

LEMMA OccurrenceKeeps ==
  ASSUME now \in Slots, NEW r, r.who \in Accounts, NEW result, ResultInv(r, result),
         NEW o \in Legal
  PROVE  ResultInv(r, ImportOccurrence(r, result, o))
<1> DEFINE status == StatusOf(r, o, result)
           makes == status \in {"imported", "downgraded"}
           raised == Recorded(items, o)
           answer == [event |-> o.event, key |-> o.key, status |-> status]
           row == [account |-> r.who, event |-> o.event, key |-> o.key, status |-> status]
           after == ImportOccurrence(r, result, o)
<1>1. /\ o.event \in Events /\ o.key \in Slots
      /\ KindOf[o.event] = "complex" \/ o.key = StartOf[o.event]
  BY DEF Legal, Occurrences
<1>2. /\ result.reminders \in SUBSET Reminders /\ result.items \in SUBSET ImportItems
      /\ result.answers \in SUBSET [event : Events, key : Slots, status : Statuses]
      /\ result.raised \in BOOLEAN /\ result \in Results
  BY DEF ResultInv, Results
<1>3. status \in Statuses
  BY DEF StatusOf, Statuses
<1>4. makes => /\ status = StatusFor(o.event) /\ ~(o.key < now) /\ ~Taken(r, o)
  BY DEF StatusOf, StatusFor
<1>5. makes => Reminder(r, o) \in Reminders /\ Makeable(r, Reminder(r, o))
  <2> SUFFICES ASSUME makes PROVE Reminder(r, o) \in Reminders /\ Makeable(r, Reminder(r, o))
    OBVIOUS
  <2>1. Reminder(r, o) \in Reminders
    BY <1>1 DEF Reminder, Reminders
  <2>2. o.key >= now
    BY <1>1, <1>4, ImportTimes
  <2>3. \A y \in reminders : y.owner # r.who \/ y.event # o.event \/ y.at # o.key
    BY <1>4 DEF Taken
  <2> QED
    BY <1>1, <2>1, <2>2, <2>3 DEF Reminder, Makeable
<1>6. answer \in [event : Events, key : Slots, status : Statuses] /\ row \in ImportItems
  BY <1>1, <1>3 DEF ImportItems
<1> HIDE DEF status
<1>7. CASE result.raised
  <2>1. after = result
    BY <1>7 DEF ImportOccurrence
  <2> QED
    BY <2>1
<1>8. CASE ~result.raised /\ Recorded(r.seen \cup result.items, o)
  <2> DEFINE skipped == [event |-> o.event, key |-> o.key, status |-> "skipped_duplicate"]
             new == [result EXCEPT !.answers = @ \cup {skipped}]
  <2>1. after = new
    BY <1>8 DEF ImportOccurrence
  <2>2. skipped \in [event : Events, key : Slots, status : Statuses]
        /\ skipped.status \notin Telling
    BY <1>1 DEF Statuses, Telling
  <2> HIDE DEF skipped
  <2>3. /\ new \in Results /\ new.reminders = result.reminders /\ new.items = result.items
        /\ new.answers = result.answers \cup {skipped}
    BY <1>2, <2>2 DEF Results
  <2> HIDE DEF new
  <2>4. ASSUME NEW x \in new.answers, x.status \in Telling PROVE Backed(r, new, x)
    BY <2>2, <2>3, <2>4 DEF ResultInv, Backed
  <2>5. ResultInv(r, new)
    BY <2>3, <2>4 DEF ResultInv
  <2> QED
    BY <2>1, <2>5
<1>9. CASE ~result.raised /\ ~Recorded(r.seen \cup result.items, o)
  <2> DEFINE reminders2 == IF makes THEN result.reminders \cup {Reminder(r, o)}
                                    ELSE result.reminders
             items2 == IF raised THEN result.items ELSE result.items \cup {row}
             answers2 == IF raised THEN result.answers ELSE result.answers \cup {answer}
             new == [result EXCEPT !.reminders = reminders2, !.raised = raised,
                                   !.items = items2, !.answers = answers2]
  <2>1. after = new
    BY <1>9 DEF ImportOccurrence, status
  <2>2. raised \in BOOLEAN
    BY DEF Recorded
  <2>3. /\ reminders2 \in SUBSET Reminders /\ items2 \in SUBSET ImportItems
        /\ answers2 \in SUBSET [event : Events, key : Slots, status : Statuses]
    BY <1>2, <1>5, <1>6
  <2>4. \A x \in reminders2 : Makeable(r, x)
    BY <1>5 DEF ResultInv
  <2>5. Key(row) = Key(o) /\ Key(answer) = Key(o) /\ row.status = status /\ row.account = r.who
        /\ answer.status = status /\ answer.event = o.event /\ answer.key = o.key
    BY DEF Key
  <2>6. \A x \in result.items : Key(x) # Key(o)
    BY <1>9 DEF Recorded
  <2>7. ~raised => ~Recorded(items, row)
    BY <2>5 DEF Recorded
  <2> HIDE DEF row, answer, raised
  <2>8. \A x, y \in items2 : Key(x) = Key(y) => x = y
    BY <2>5, <2>6 DEF ResultInv
  <2>9. \A x \in items2 : ~Recorded(items, x)
    BY <2>7 DEF ResultInv
  <2>10. makes => Reminder(r, o).event = o.event /\ Reminder(r, o).at = o.key
    BY DEF Reminder
  <2>11. ASSUME NEW x \in answers2, x.status \in Telling
         PROVE  /\ x.status = StatusFor(x.event)
                /\ \E y \in reminders2 : y.event = x.event /\ y.at = x.key
                /\ \E y \in items2 : y.account = r.who /\ Key(y) = Key(x) /\ y.status = x.status
    <3>1. CASE x \in result.answers
      BY <2>11, <3>1 DEF ResultInv, Backed
    <3>2. CASE x = answer /\ ~raised
      <4>1. makes
        BY <2>5, <2>11, <3>2 DEF Telling
      <4> QED
        BY <1>4, <2>5, <2>10, <3>2, <4>1
    <3> QED
      BY <3>1, <3>2
  <2> HIDE DEF reminders2, items2, answers2
  <2>12. /\ new \in Results /\ new.reminders = reminders2 /\ new.items = items2
         /\ new.answers = answers2
    BY <1>2, <2>2, <2>3 DEF Results
  <2> HIDE DEF new
  <2>13. ResultInv(r, new)
    BY <2>4, <2>8, <2>9, <2>11, <2>12 DEF ResultInv, Backed
  <2> QED
    BY <2>1, <2>13
<1> QED
  BY <1>2, <1>7, <1>8, <1>9

\* The result of an import, occurrence by occurrence.
LEMMA ResultKeeps ==
  ASSUME now \in Slots, NEW r, r.who \in Accounts, r.occurrences \in Seq(Legal)
  PROVE  ResultInv(r, Result(r))
<1> DEFINE n == Len(r.occurrences)
           first == [reminders |-> {}, items |-> {}, answers |-> {}, raised |-> FALSE]
           S == {result \in Results : ResultInv(r, result)}
           step == [p \in S \X (1 .. n) |-> ImportOccurrence(r, p[1], r.occurrences[p[2]])]
           after[k \in 0 .. n] == IF k = 0 THEN first
                                  ELSE ImportOccurrence(r, after[k - 1], r.occurrences[k])
<1>1. n \in Nat
  OBVIOUS
<1>2. first \in S
  <2>1. first \in Results
    BY DEF Results
  <2> QED
    BY <2>1 DEF ResultInv
<1>3. \A k \in 1 .. n : r.occurrences[k] \in Legal
  OBVIOUS
<1>4. ASSUME NEW result \in S, NEW k \in 1 .. n
      PROVE  ImportOccurrence(r, result, r.occurrences[k]) \in S
  BY <1>3, OccurrenceKeeps DEF ResultInv
<1>5. Result(r) = after[n]
  BY DEF Result
<1> HIDE DEF S, first
<1>6. step \in [S \X (1 .. n) -> S]
  BY <1>4
<1>7. \A result \in S, k \in 1 .. n :
         step[<<result, k>>] = ImportOccurrence(r, result, r.occurrences[k])
  OBVIOUS
<1> HIDE DEF step
<1>8. \E f : f = [k \in 0 .. n |-> IF k = 0 THEN first
                                   ELSE ImportOccurrence(r, f[k - 1], r.occurrences[k])]
  <2>1. PICK f \in [0 .. n -> S] : Goes(f, first, n, step)
    <3>1. n \in Nat /\ first \in S /\ step \in [S \X (1 .. n) -> S]
      BY <1>1, <1>2, <1>6
    <3> HIDE DEF n
    <3> QED
      BY ONLY <3>1, StepByStep
  <2>2. ASSUME NEW k \in 0 .. n
        PROVE  f[k] = IF k = 0 THEN first ELSE ImportOccurrence(r, f[k - 1], r.occurrences[k])
    <3>1. CASE k = 0
      BY <2>1, <3>1 DEF Goes
    <3>2. CASE k # 0
      <4>1. k \in 1 .. n /\ k - 1 \in 0 .. n
        BY <1>1, <3>2
      <4>2. f[k] = step[<<f[k - 1], k>>] /\ f[k - 1] \in S
        BY <2>1, <4>1 DEF Goes
      <4> QED
        BY <1>7, <3>2, <4>1, <4>2
    <3> QED
      BY <3>1, <3>2
  <2>3. f = [k \in 0 .. n |-> f[k]]
    BY <2>1
  <2> QED
    BY <2>2, <2>3
<1>9. after = [k \in 0 .. n |-> IF k = 0 THEN first
                                ELSE ImportOccurrence(r, after[k - 1], r.occurrences[k])]
  BY <1>8 DEF after
<1> HIDE DEF after
<1>10. \A k \in 0 .. n : after[k] = IF k = 0 THEN first
                                    ELSE ImportOccurrence(r, after[k - 1], r.occurrences[k])
  BY <1>9
<1>11. \A k \in 0 .. n : after[k] \in S
  <2>1. after[0] \in S
    BY <1>1, <1>2, <1>10
  <2>2. ASSUME NEW k \in 1 .. n, after[k - 1] \in S PROVE after[k] \in S
    <3>1. k \in 0 .. n /\ k # 0
      BY <1>1
    <3> QED
      BY <1>4, <1>10, <2>2, <3>1
  <2> HIDE DEF n
  <2> QED
    BY <1>1, <2>1, <2>2, KeptByEachStep
<1>12. after[n] \in S
  BY <1>1, <1>11
<1> QED
  BY <1>5, <1>12 DEF S

-----------------------------------------------------------------------------
(* Imported once.                                                          *)

ImportTypeInv ==
    /\ now \in Slots
    /\ reminders \in SUBSET Reminders /\ items \in SUBSET ImportItems
    /\ authorization \in [Accounts -> {"none", "stopped", "revoked"}]
    /\ granted \in SUBSET Accounts
    /\ imports \in SUBSET Imports
    /\ \A r \in imports : r.occurrences \in Seq(Legal)
    /\ count \in 0 .. MaxImports /\ own \in 0 .. MaxOwn
    /\ told \in SUBSET Answers

\* A reminder of an event is at its start, or its series has gone on.
WellMade(x, t) ==
    x.event # NoEvent =>
       /\ x.series = (KindOf[x.event] = "recurring")
       /\ KindOf[x.event] = "single" => x.at = StartOf[x.event]
       /\ KindOf[x.event] = "recurring" => x.at = StartOf[x.event] \/ t > StartOf[x.event]

OneOfEach(rows) ==
    \A x, y \in rows : x.event = y.event /\ x.event # NoEvent /\ x.owner = y.owner =>
       x = y \/ (KindOf[x.event] = "complex" /\ x.at # y.at)

ToldOnce ==
    /\ \A x, y \in told : Key(x) = Key(y) /\ x.who = y.who
          /\ {x.status, y.status} \subseteq Telling => x = y
    /\ \A x \in told : x.status \in Telling => x.status = StatusFor(x.event)
    /\ \A x, y \in items : Key(x) = Key(y) => x = y
    /\ ToldIsImported

ImportInv ==
    /\ ImportTypeInv
    /\ \A x \in reminders : WellMade(x, now)
    /\ OneOfEach(reminders)
    /\ ToldOnce

LEMMA ImportInvInit == ImportInit => ImportInv
<1> SUFFICES ASSUME ImportInit PROVE ImportInv
  OBVIOUS
<1>1. ImportTypeInv
  <2>1. 0 \in Slots /\ 0 \in 0 .. MaxImports /\ 0 \in 0 .. MaxOwn
    BY CalendarAssumption DEF Slots
  <2> QED
    BY <2>1 DEF ImportInit, ImportTypeInv
<1> QED
  BY <1>1 DEF ImportInit, ImportInv, OneOfEach, ToldOnce, ToldIsImported

\* The reminders of an import join those that are there.
LEMMA MadeOnce ==
  ASSUME ImportInv, NEW r \in imports, NEW rows \in SUBSET Reminders,
         \A x \in rows : Makeable(r, x)
  PROVE  /\ \A x \in reminders \cup rows : WellMade(x, now)
         /\ OneOfEach(reminders \cup rows)
<1>1. /\ now \in Nat /\ \A t \in Slots : t \in Nat
      /\ \A e \in Events : StartOf[e] \in Nat /\ e # NoEvent
                           /\ KindOf[e] \in {"single", "recurring", "complex"}
  BY ImportTimes, CalendarAssumption DEF ImportInv, ImportTypeInv, Slots
<1>2. \A x \in reminders \cup rows :
         x.event \in Events \cup {NoEvent} /\ x.at \in Nat /\ x.series \in BOOLEAN
  BY <1>1 DEF ImportInv, ImportTypeInv, Reminders
<1>3. \A x \in rows : WellMade(x, now)
  BY DEF Makeable, WellMade
<1>4. \A x, y \in reminders \cup rows :
         x.owner = y.owner /\ x.event = y.event /\ x.at = y.at /\ x.series = y.series => x = y
  BY DEF ImportInv, ImportTypeInv, Reminders
<1>5. ASSUME NEW x \in reminders, NEW y \in rows, x.event = y.event, x.owner = y.owner
      PROVE  KindOf[x.event] = "complex" /\ x.at # y.at
  <2>1. /\ y.event \in Events /\ y.at >= now /\ x.at # y.at
        /\ KindOf[y.event] = "complex" \/ y.at = StartOf[y.event]
    BY <1>5 DEF Makeable
  <2>2. WellMade(x, now)
    BY DEF ImportInv
  <2> QED
    BY <1>1, <1>2, <1>5, <2>1, <2>2 DEF WellMade
<1>6. ASSUME NEW x \in rows, NEW y \in rows, x.event = y.event, x.owner = y.owner
      PROVE  x = y \/ (KindOf[x.event] = "complex" /\ x.at # y.at)
  <2>1. x.series = y.series /\ x.event \in Events
        /\ (KindOf[x.event] = "complex" \/ x.at = y.at)
    BY <1>6 DEF Makeable
  <2> QED
    BY <1>4, <1>6, <2>1
<1>7. OneOfEach(reminders \cup rows)
  BY <1>5, <1>6 DEF ImportInv, OneOfEach
<1> QED
  BY <1>3, <1>7 DEF ImportInv

\* Rows and answers of an import join those that are there.
LEMMA RecordedOnce ==
  ASSUME ImportInv, NEW r \in imports, NEW result, ResultInv(r, result), Make(r, result),
         Tell(r, result) \/ UNCHANGED told
  PROVE  ToldOnce' /\ items' \in SUBSET ImportItems /\ told' \in SUBSET Answers
<1> DEFINE AnswerOf(x) == [n |-> r.n, who |-> r.who, event |-> x.event, key |-> x.key,
                           status |-> x.status]
           Wrote(x) == [n |-> r.n, owner |-> r.who, event |-> x.event, key |-> x.at]
<1>1. /\ result.reminders \in SUBSET Reminders /\ result.items \in SUBSET ImportItems
      /\ result.answers \in SUBSET [event : Events, key : Slots, status : Statuses]
  BY DEF ResultInv, Results
<1>2. /\ items' = items \cup result.items
      /\ made' = made \cup {Wrote(x) : x \in result.reminders}
  BY DEF Make
<1>3. told' \subseteq told \cup {AnswerOf(x) : x \in result.answers}
      /\ told \subseteq told'
  BY DEF Tell
<1>4. r.n \in 1 .. MaxImports /\ r.who \in Accounts
  BY DEF ImportInv, ImportTypeInv, Imports
<1>5. \A x \in result.answers : /\ AnswerOf(x).who = r.who /\ Key(AnswerOf(x)) = Key(x)
                                /\ AnswerOf(x).status = x.status /\ AnswerOf(x).event = x.event
                                /\ AnswerOf(x).key = x.key /\ AnswerOf(x).n = r.n
                                /\ AnswerOf(x) \in Answers
  BY <1>1, <1>4 DEF Key, Answers
<1>6. \A x \in result.reminders : /\ Wrote(x) \in made' /\ Wrote(x).n = r.n
                                  /\ Wrote(x).owner = r.who
                                  /\ Key(Wrote(x)) = <<x.event, x.at>>
  BY <1>2 DEF Key
<1>7. \A x, y : Key(x) = Key(y) => x.event = y.event /\ x.key = y.key
  BY DEF Key
<1> HIDE DEF AnswerOf, Wrote
<1>8. \A x, y \in items' : Key(x) = Key(y) => x = y
  BY <1>2 DEF ImportInv, ToldOnce, ResultInv, Recorded
<1>9. ASSUME NEW x \in told', x.status \in Telling
      PROVE  /\ x.status = StatusFor(x.event)
             /\ \E y \in made' : y.n = x.n /\ y.owner = x.who /\ Key(y) = Key(x)
             /\ \E y \in items' : y.account = x.who /\ Key(y) = Key(x) /\ y.status = x.status
  <2>1. CASE x \in told
    BY <1>2, <1>9, <2>1 DEF ImportInv, ToldOnce, ToldIsImported, Telling
  <2>2. ASSUME NEW z \in result.answers, x = AnswerOf(z)
        PROVE  /\ x.status = StatusFor(x.event)
               /\ \E y \in made' : y.n = x.n /\ y.owner = x.who /\ Key(y) = Key(x)
               /\ \E y \in items' : y.account = x.who /\ Key(y) = Key(x) /\ y.status = x.status
    <3>1. Backed(r, result, z)
      BY <1>5, <1>9, <2>2 DEF ResultInv
    <3>2. PICK y \in result.reminders : y.event = z.event /\ y.at = z.key
      BY <3>1 DEF Backed
    <3>3. Key(Wrote(y)) = Key(x)
      BY <1>5, <1>6, <2>2, <3>2 DEF Key
    <3> QED
      BY <1>2, <1>5, <1>6, <2>2, <3>1, <3>2, <3>3 DEF Backed
  <2> QED
    BY <1>3, <2>1, <2>2
<1>10. ASSUME NEW x \in told', NEW y \in told', Key(x) = Key(y), x.who = y.who,
              x.status \in Telling, y.status \in Telling
       PROVE  x = y
  <2>1. ASSUME NEW u \in told, NEW z \in result.answers, u.status \in Telling,
               z.status \in Telling, Key(u) = Key(z)
        PROVE  FALSE
    <3>1. PICK i \in items : Key(i) = Key(u)
      BY <2>1 DEF ImportInv, ToldOnce, ToldIsImported, Telling
    <3>2. PICK j \in result.items : Key(j) = Key(z)
      BY <2>1 DEF ResultInv, Backed
    <3> QED
      BY <2>1, <3>1, <3>2 DEF ResultInv, Recorded
  <2>2. CASE x \in told /\ y \in told
    BY <1>10, <2>2 DEF ImportInv, ToldOnce
  <2>3. ASSUME NEW u \in result.answers, NEW z \in result.answers, x = AnswerOf(u),
               y = AnswerOf(z)
        PROVE  x = y
    <3>1. x.status = StatusFor(x.event) /\ y.status = StatusFor(y.event)
      BY <1>9, <1>10
    <3>2. u.event = z.event /\ u.key = z.key
      BY <1>5, <1>7, <1>10, <2>3
    <3>3. u.status = z.status
      BY <1>5, <2>3, <3>1, <3>2
    <3> QED
      BY <2>3, <3>2, <3>3 DEF AnswerOf
  <2> QED
    BY <1>3, <1>5, <1>10, <2>1, <2>2, <2>3
<1>11. items' \in SUBSET ImportItems /\ told' \in SUBSET Answers
  BY <1>1, <1>2, <1>3, <1>5 DEF ImportInv, ImportTypeInv
<1> QED
  BY <1>8, <1>9, <1>10, <1>11 DEF ToldOnce, ToldIsImported, Telling

LEMMA AskKeeps ==
  ASSUME ImportInv, NEW a \in Accounts, NEW chat \in BOOLEAN, NEW from \in Slots,
         Ask(a, chat, from)
  PROVE  ImportInv'
<1> DEFINE asked == [n |-> count + 1, who |-> a, chat |-> chat, step |-> "asked", from |-> from,
                     occurrences |-> <<>>, seen |-> {}, busy |-> {}]
<1>1. /\ imports' = imports \cup {asked} /\ count' = count + 1 /\ count < MaxImports
      /\ UNCHANGED <<now, reminders, items, authorization, granted, own, made, told>>
  BY DEF Ask
<1>2. count' \in 0 .. MaxImports /\ count + 1 \in 1 .. MaxImports
  BY <1>1, CalendarAssumption DEF ImportInv, ImportTypeInv
<1>3. asked \in Imports /\ asked.occurrences \in Seq(Legal)
  BY <1>2 DEF Imports
<1> HIDE DEF asked
<1>4. ImportTypeInv'
  BY <1>1, <1>2, <1>3 DEF ImportInv, ImportTypeInv
<1> QED
  BY <1>1, <1>4 DEF ImportInv, OneOfEach, ToldOnce, ToldIsImported

LEMMA ReadKeeps ==
  ASSUME ImportInv, NEW r \in imports, Read(r)
  PROVE  ImportInv'
<1>1. r \in Imports
  BY DEF ImportInv, ImportTypeInv
<1>2. PICK listed \in SetToSeqs(Listed(r.who)) :
         imports' = (imports \ {r}) \cup
            {[r EXCEPT !.step = "read", !.occurrences = Considered(listed, r.from),
                       !.seen = items, !.busy = {x \in reminders : x.owner = r.who}]}
  BY DEF Read
<1> DEFINE occurrences == Considered(listed, r.from)
           busy == {x \in reminders : x.owner = r.who}
           after == [r EXCEPT !.step = "read", !.occurrences = occurrences,
                              !.seen = items, !.busy = busy]
<1>3. occurrences \in Seq(Legal)
  BY <1>1, ConsideredLegal DEF Imports
<1>4. occurrences \in Seq(Occurrences)
  <2>1. Legal \subseteq Occurrences
    BY DEF Legal
  <2> HIDE DEF occurrences
  <2> QED
    BY <1>3, <2>1
<1>5. items \in SUBSET ImportItems /\ busy \in SUBSET Reminders
  BY DEF ImportInv, ImportTypeInv
<1>6. imports' = (imports \ {r}) \cup {after}
  BY <1>2
<1> HIDE DEF occurrences, busy
<1>7. after \in Imports /\ after.occurrences = occurrences
  BY <1>1, <1>4, <1>5 DEF Imports
<1> HIDE DEF after
<1>8. UNCHANGED <<now, reminders, items, authorization, granted, count, own, made, told>>
  BY DEF Read
<1>9. ImportTypeInv'
  BY <1>3, <1>6, <1>7, <1>8 DEF ImportInv, ImportTypeInv
<1> QED
  BY <1>8, <1>9 DEF ImportInv, OneOfEach, ToldOnce, ToldIsImported

\* An import that ends with its writes, with its summary or without.
LEMMA EndKeeps ==
  ASSUME ImportInv, NEW r \in imports, NEW result, result = Result(r), Make(r, result),
         Tell(r, result) \/ UNCHANGED told, imports' = imports \ {r},
         UNCHANGED <<now, authorization, granted, count, own>>
  PROVE  ImportInv'
<1>1. ResultInv(r, result)
  BY ResultKeeps DEF ImportInv, ImportTypeInv, Imports
<1>2. ToldOnce' /\ items' \in SUBSET ImportItems /\ told' \in SUBSET Answers
  BY <1>1, RecordedOnce
<1>3. result.reminders \in SUBSET Reminders /\ \A x \in result.reminders : Makeable(r, x)
  BY <1>1 DEF ResultInv, Results
<1>4. reminders' = reminders \cup result.reminders
  BY DEF Make
<1>5. /\ \A x \in reminders' : WellMade(x, now)
      /\ OneOfEach(reminders')
  BY <1>3, <1>4, MadeOnce
<1>6. ImportTypeInv'
  BY <1>2, <1>3, <1>4 DEF ImportInv, ImportTypeInv
<1> QED
  BY <1>2, <1>5, <1>6 DEF ImportInv, OneOfEach

\* Time goes on: one reminder of an event is still one.
LEMMA TickKeeps ==
  ASSUME ImportInv, Tick
  PROVE  ImportInv'
<1> DEFINE Kept == {x \in reminders : x.at > now}
           On(x) == [x EXCEPT !.at = now + 1]
           Rung == {x \in reminders : x.series /\ x.at <= now}
<1>1. /\ now < MaxTime /\ now' = now + 1 /\ reminders' = Kept \cup {On(x) : x \in Rung}
      /\ UNCHANGED <<items, authorization, granted, imports, count, own, made, told>>
  BY DEF Tick
<1>2. now \in Nat /\ MaxTime \in Nat /\ now + 1 \in Slots
  BY <1>1, CalendarAssumption DEF ImportInv, ImportTypeInv, Slots
<1>3. /\ \A x \in reminders : x \in Reminders /\ x.at \in Nat
      /\ \A e \in Events : StartOf[e] \in Nat
  BY CalendarAssumption DEF ImportInv, ImportTypeInv, Reminders, Slots
<1>4. \A x \in reminders : /\ On(x) \in Reminders /\ On(x).owner = x.owner
                           /\ On(x).event = x.event /\ On(x).series = x.series
                           /\ On(x).at = now + 1
  BY <1>2, <1>3 DEF Reminders
<1>5. ASSUME NEW z \in reminders'
      PROVE  \E x \in reminders : /\ z.owner = x.owner /\ z.event = x.event /\ z.series = x.series
                                  /\ \/ x.at > now /\ z = x
                                     \/ x.series /\ x.at <= now /\ z = On(x)
  BY <1>1, <1>4
<1> HIDE DEF On
<1>6. reminders' \in SUBSET Reminders
  BY <1>1, <1>3, <1>4
<1>7. ASSUME NEW z \in reminders'
      PROVE  WellMade(z, now')
  <2>1. PICK x \in reminders : /\ z.owner = x.owner /\ z.event = x.event /\ z.series = x.series
                               /\ \/ x.at > now /\ z = x
                                  \/ x.series /\ x.at <= now /\ z = On(x)
    BY <1>5
  <2>2. WellMade(x, now) /\ x.event \in Events \cup {NoEvent}
    BY <1>3 DEF ImportInv, Reminders
  <2>3. CASE x.at > now /\ z = x
    BY <1>1, <1>2, <1>3, <2>2, <2>3 DEF WellMade
  <2>4. CASE x.series /\ x.at <= now /\ z = On(x)
    <3>1. z.event = x.event /\ z.series = x.series /\ x.series /\ x.at <= now
      BY <2>1, <2>4
    <3>2. x.event # NoEvent => KindOf[x.event] = "recurring"
      BY <2>2, <3>1 DEF WellMade
    <3>3. x.event # NoEvent => now' > StartOf[x.event]
      <4>1. x.event # NoEvent => x.at = StartOf[x.event] \/ now > StartOf[x.event]
        BY <2>2, <3>2 DEF WellMade
      <4>2. x.event # NoEvent => StartOf[x.event] \in Nat
        BY <1>3, <2>2
      <4> QED
        BY <1>1, <1>2, <1>3, <3>1, <4>1, <4>2
    <3>4. x.event # NoEvent => x.series = (KindOf[x.event] = "recurring")
      BY <2>2 DEF WellMade
    <3> QED
      BY <3>1, <3>2, <3>3, <3>4 DEF WellMade
  <2> QED
    BY <2>1, <2>3, <2>4
<1>8. OneOfEach(reminders')
  <2> SUFFICES ASSUME NEW y \in reminders', NEW z \in reminders', y.event = z.event,
                      y.event # NoEvent, y.owner = z.owner
               PROVE  y = z \/ (KindOf[y.event] = "complex" /\ y.at # z.at)
    BY DEF OneOfEach
  <2>1. PICK u \in reminders : /\ y.owner = u.owner /\ y.event = u.event /\ y.series = u.series
                               /\ \/ u.at > now /\ y = u
                                  \/ u.series /\ u.at <= now /\ y = On(u)
    BY <1>5
  <2>2. PICK v \in reminders : /\ z.owner = v.owner /\ z.event = v.event /\ z.series = v.series
                               /\ \/ v.at > now /\ z = v
                                  \/ v.series /\ v.at <= now /\ z = On(v)
    BY <1>5
  <2>3. u = v \/ (KindOf[u.event] = "complex" /\ u.at # v.at)
    BY <2>1, <2>2 DEF ImportInv, OneOfEach
  <2>4. CASE u = v
    BY <1>3, <1>2, <2>1, <2>2, <2>4
  <2>5. CASE KindOf[u.event] = "complex" /\ u.at # v.at
    <3>1. u.series = FALSE /\ v.series = FALSE
      BY <2>1, <2>2, <2>5 DEF ImportInv, WellMade
    <3> QED
      BY <2>1, <2>2, <2>5, <3>1
  <2> QED
    BY <2>3, <2>4, <2>5
<1>9. ImportTypeInv'
  BY <1>1, <1>2, <1>6 DEF ImportInv, ImportTypeInv
<1> HIDE DEF Kept, Rung
<1> QED
  BY <1>1, <1>7, <1>8, <1>9 DEF ImportInv, ToldOnce, ToldIsImported

LEMMA ImportInvStep == ImportInv /\ [ImportNext]_importVars => ImportInv'
<1> SUFFICES ASSUME ImportInv, [ImportNext]_importVars PROVE ImportInv'
  OBVIOUS
<1>1. ASSUME NEW a \in Accounts, NEW chat \in BOOLEAN, NEW from \in Slots, Ask(a, chat, from)
      PROVE  ImportInv'
  BY <1>1, AskKeeps
<1>2. ASSUME NEW r \in imports, Read(r) PROVE ImportInv'
  BY <1>2, ReadKeeps
<1>3. ASSUME NEW r \in imports, Finish(r) PROVE ImportInv'
  BY <1>3, EndKeeps DEF Finish
<1>4. ASSUME NEW r \in imports, FinishRaised(r) PROVE ImportInv'
  BY <1>4, EndKeeps DEF FinishRaised
<1>5. ASSUME NEW r \in imports, Fail(r) PROVE ImportInv'
  BY <1>5 DEF Fail, ImportInv, ImportTypeInv, OneOfEach, ToldOnce, ToldIsImported
<1>6. ASSUME NEW a \in Accounts, Stop(a) PROVE ImportInv'
  BY <1>6 DEF Stop, ImportInv, ImportTypeInv, OneOfEach, ToldOnce, ToldIsImported
<1>7. ASSUME NEW a \in Accounts, NEW saved \in BOOLEAN, Revoke(a, saved) PROVE ImportInv'
  BY <1>7 DEF Revoke, ImportInv, ImportTypeInv, OneOfEach, ToldOnce, ToldIsImported
<1>8. ASSUME NEW a \in Accounts, NEW t \in Slots, MakeOwn(a, t) PROVE ImportInv'
  <2> DEFINE mine == [owner |-> a, event |-> NoEvent, at |-> t, series |-> FALSE]
  <2>1. /\ reminders' = reminders \cup {mine} /\ own' = own + 1 /\ own < MaxOwn
        /\ UNCHANGED <<now, items, authorization, granted, imports, count, made, told>>
    BY <1>8 DEF MakeOwn, Own
  <2>2. mine \in Reminders /\ mine.event = NoEvent
    BY DEF Reminders
  <2>3. own' \in 0 .. MaxOwn
    BY <2>1, CalendarAssumption DEF ImportInv, ImportTypeInv
  <2> HIDE DEF mine
  <2>4. ImportTypeInv'
    BY <2>1, <2>2, <2>3 DEF ImportInv, ImportTypeInv
  <2>5. WellMade(mine, now)
    BY <2>2 DEF WellMade
  <2> QED
    BY <2>1, <2>2, <2>4, <2>5 DEF ImportInv, OneOfEach, ToldOnce, ToldIsImported
<1>9. ASSUME NEW x \in reminders, Delete(x) PROVE ImportInv'
  <2>1. /\ reminders' = reminders \ {x} /\ own' = own + 1 /\ own < MaxOwn
        /\ UNCHANGED <<now, items, authorization, granted, imports, count, made, told>>
    BY <1>9 DEF Delete, Own
  <2>2. own' \in 0 .. MaxOwn
    BY <2>1, CalendarAssumption DEF ImportInv, ImportTypeInv
  <2>3. ImportTypeInv'
    BY <2>1, <2>2 DEF ImportInv, ImportTypeInv
  <2> QED
    BY <2>1, <2>3 DEF ImportInv, OneOfEach, ToldOnce, ToldIsImported
<1>10. CASE Tick
  BY <1>10, TickKeeps
<1>11. CASE UNCHANGED importVars
  BY <1>11 DEF importVars, ImportInv, ImportTypeInv, OneOfEach, ToldOnce, ToldIsImported
<1> QED
  BY <1>1, <1>2, <1>3, <1>4, <1>5, <1>6, <1>7, <1>8, <1>9, <1>10, <1>11 DEF ImportNext

\* Whatever calendars are imported, whenever and by whomever, the types hold.
THEOREM ImportTypesHold == ImportSpec => []ImportTypeOK
<1>1. ImportInv => ImportTypeOK
  BY DEF ImportInv, ImportTypeInv, ImportTypeOK
<1> QED
  BY ImportInvInit, ImportInvStep, <1>1, PTL DEF ImportSpec

\* One summary at most tells an account that an occurrence was imported, and one active
\* reminder at most is of it, for any calendars, imports that overlap and failures.
THEOREM OccurrencesAreImportedOnce == ImportSpec => []ImportedOnce
<1>1. ImportInv => ImportedOnce
  BY DEF ImportInv, ToldOnce, OneOfEach, ImportedOnce, Telling
<1> QED
  BY ImportInvInit, ImportInvStep, <1>1, PTL DEF ImportSpec

\* What a summary calls imported is a reminder that this import made, and its record.
THEOREM SummariesAreTrue == ImportSpec => []ToldIsImported
<1>1. ImportInv => ToldIsImported
  BY DEF ImportInv, ToldOnce
<1> QED
  BY ImportInvInit, ImportInvStep, <1>1, PTL DEF ImportSpec
=============================================================================
