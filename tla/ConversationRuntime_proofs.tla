---------------------- MODULE ConversationRuntime_proofs ----------------------
(***************************************************************************)
(* The window invariants of ConversationRuntime, for any number of turns   *)
(* and messages, and the refinement of InputWindows.                       *)
(*                                                                         *)
(* The safety invariants hold because three facts hold together: a claimed *)
(* window lies behind latest and starts at or before the first open        *)
(* message (ClaimsOK); whoever decides on a window owns the row lock, and  *)
(* the relay's uncommitted rows exist only under that lock (RelayOK); and  *)
(* a turn that committed a close has left the states in which its          *)
(* disposition can be written again (ClosersAreOver).                      *)
(***************************************************************************)
EXTENDS ConversationRuntime, TLAPS

\* A claimed window is a non-empty range of recorded messages and starts no
\* later than the first open one; only claimed turns run.
ClaimsOK ==
    \A t \in Turns :
        /\ pc[t] \notin {"idle", "snapshot"} => t \in claimed
        /\ t \in claimed \/ pc[t] = "snapshot" =>
              /\ 1 <= from[t] /\ from[t] <= to[t]
              /\ to[t] <= latest
              /\ from[t] <= lastClosed + 1

\* The relay works on claimed turns and keeps the row lock for its rows.  A
\* turn that became pending under its hands marked itself, and is over.
RelayOK ==
    /\ relay.candidates \subseteq claimed
    /\ relay.marking \in claimed \cup {NoOne}
    /\ \A t \in Turns : relayWrites[t] # "none" =>
          /\ t \in claimed
          /\ rowLock = Relay
          /\ relayWrites[t] = Pending \/ disp[t] = Pending => t \notin closedBy
    /\ \A t \in Turns : relay.marking = t /\ disp[t] = Pending =>
          pc[t] = "done" /\ t \notin closedBy

\* A task whose close was committed only delivers, or is replayed; one that is
\* still under way has no final disposition but superseded.
ClosersAreOver ==
    /\ \A t \in closedBy : pc[t] \in {"delivering", "idle", "done"}
    /\ \A t \in Turns : pc[t] \notin {"delivering", "idle", "done"}
                            => disp[t] \in {"none", Pending, "superseded"}
    /\ \A t \in Turns \ claimed : disp[t] = "none"

IInv ==
    /\ TypeOK
    /\ ClaimsOK
    /\ RelayOK
    /\ ClosersAreOver
    /\ ExecutesOnFreshWindow
    /\ NothingSkipped
    /\ ClosedStaysClosed

-----------------------------------------------------------------------------
\* The empty conversation satisfies the invariant.
LEMMA InitIInv == Init => IInv
BY ConstantsAssumption
   DEF Init, IInv, TypeOK, ClaimsOK, RelayOK, ClosersAreOver,
       ExecutesOnFreshWindow, NothingSkipped, ClosedStaysClosed,
       Dispositions, TaskStates, WaitingCap

\* Whoever makes the relay's transaction roll back, its rows and its lock go.
LEMMA AbortRelayIInv ==
  ASSUME IInv, AbortRelay,
         UNCHANGED <<latest, lastClosed, media, suppressed, claimed, from, to,
                     completed, disp, redisLock, pc, saw, closedBy>>
  PROVE  IInv'
BY ConstantsAssumption
   DEF AbortRelay, IInv, TypeOK, ClaimsOK, RelayOK, ClosersAreOver,
       ExecutesOnFreshWindow, NothingSkipped, ClosedStaysClosed

\* One step per action.  Only three need more than their definition: a close
\* without an earlier guard (the two outcomes are taken apart), and the relay's
\* read and commit (they rebuild its record and all dispositions at once).
LEMMA NextIInv ==
  ASSUME IInv, Next
  PROVE  IInv'
<1> USE ConstantsAssumption
    DEF IInv, TypeOK, ClaimsOK, RelayOK, ClosersAreOver,
        ExecutesOnFreshWindow, NothingSkipped, ClosedStaysClosed,
        Dispositions, ClosingDispositions, Pending, TaskStates, WaitingCap
<1>1. ASSUME RecordInbound PROVE IInv'
  BY <1>1
     DEF RecordInbound, ActiveTurns, turnVars, lockVars, relayVars
<1>2. ASSUME NEW t \in Turns, ReadWindow(t) PROVE IInv'
  BY <1>2
     DEF ReadWindow, Goto, inboundVars, lockVars, relayVars
<1>3. ASSUME NEW t \in Turns, ClaimTurn(t) PROVE IInv'
  BY <1>3
     DEF ClaimTurn, Goto, inboundVars, lockVars, relayVars
<1>4. ASSUME NEW t \in Turns, ReplayTurn(t) PROVE IInv'
  BY <1>4
     DEF ReplayTurn, Goto, inboundVars, turnVars, lockVars, relayVars
<1>5. ASSUME NEW t \in Turns, AcquireConversationLock(t) PROVE IInv'
  BY <1>5
     DEF AcquireConversationLock, Goto, inboundVars, turnVars, relayVars
<1>6. ASSUME NEW t \in Turns, LockWaitTimeout(t) PROVE IInv'
  BY <1>6
     DEF LockWaitTimeout, MayBecome, Goto, inboundVars, turnVars, lockVars,
     relayVars
<1>7. ASSUME NEW t \in Turns, MarkFailed(t) PROVE IInv'
  BY <1>7, SMTT(30)
     DEF MarkFailed, Stored, Goto, inboundVars, turnVars, lockVars, relayVars
<1>8. ASSUME NEW t \in Turns, GuardStateChange(t) PROVE IInv'
  BY <1>8
     DEF GuardStateChange, WindowIsFresh, Goto, EndSuperseded, SupersededDisp,
     ReleaseRedisLock, inboundVars, turnVars, relayVars
<1>9. ASSUME NEW t \in Turns, ReadDisposition(t) PROVE IInv'
  <2>1. CASE disp[t] = "superseded"
    BY <1>9, <2>1
       DEF ReadDisposition, Goto, EndSuperseded, SupersededDisp,
           ReleaseRedisLock, inboundVars, turnVars, relayVars
  <2>2. CASE disp[t] # "superseded"
    BY <1>9, <2>2
       DEF ReadDisposition, Goto, inboundVars, turnVars, lockVars, relayVars
  <2> QED
    BY <2>1, <2>2
<1>10. ASSUME NEW t \in Turns, RefuseTransition(t) PROVE IInv'
  BY <1>10
     DEF RefuseTransition, MayBecome, ReleaseRedisLock, Goto, inboundVars,
     turnVars, relayVars
<1>11. ASSUME NEW t \in Turns, RecordPendingAsync(t) PROVE IInv'
  BY <1>11
     DEF RecordPendingAsync, WindowIsFresh, ReleaseRedisLock, Goto, CountWaiting,
     inboundVars, turnVars
<1>12. ASSUME NEW t \in Turns, Deliver(t) PROVE IInv'
  BY <1>12
     DEF Deliver, ReleaseRedisLock, Goto, inboundVars, turnVars, relayVars
<1>13. ASSUME NEW t \in Turns, MarkSuperseded(t) PROVE IInv'
  BY <1>13
     DEF MarkSuperseded, Goto, inboundVars, turnVars, lockVars, relayVars
<1>14. ASSUME NEW t \in Turns, NEW kind \in ClosingDispositions,
              Close(t, kind)
       PROVE  IInv'
  BY <1>14
     DEF Close, WindowIsFresh, MayBecome, CommitClose, Stored, Goto, inboundVars,
     turnVars, relayVars
<1>15. ASSUME NEW t \in Turns, NEW kind \in ClosingDispositions,
              CloseUnguarded(t, kind)
       PROVE  IInv'
  <2>1. CASE disp[t] # "superseded" /\ WindowIsFresh(t, saw[t])
    <3>1. /\ pc[t] = "deciding" /\ t \in claimed /\ t \notin closedBy
          /\ rowLock = NoOne /\ saw[t] \in Dispositions
          /\ disp[t] \in {"none", Pending, "superseded"}
      BY <1>15 DEF CloseUnguarded
    <3>2. /\ lastClosed' = to[t] /\ latest = to[t] /\ lastClosed <= lastClosed'
          /\ lastClosed + 1 = from[t] \/ lastClosed = to[t]
      BY <1>15, <2>1 DEF CloseUnguarded, CommitClose, WindowIsFresh
    <3>3. /\ disp' = [disp EXCEPT ![t] = disp'[t]]
          /\ disp'[t] \in ClosingDispositions \cup {Pending}
          /\ disp'[t] = Pending => disp[t] = Pending
      BY <1>15, <2>1, <3>1
         DEF CloseUnguarded, CommitClose, Stored, MayBecome
    <3>4. /\ completed' = completed \cup {t} /\ closedBy' = closedBy \cup {t}
          /\ pc' = [pc EXCEPT ![t] = "delivering"]
          /\ rowLock' = NoOne /\ redisLock' = redisLock
          /\ UNCHANGED <<inboundVars, turnVars, saw, relayVars>>
      BY <1>15, <2>1 DEF CloseUnguarded, CommitClose, Goto
    <3>5. TypeOK' /\ ClaimsOK' /\ NothingSkipped' /\ ExecutesOnFreshWindow'
      BY <3>1, <3>2, <3>3, <3>4, SMTT(30) DEF inboundVars, turnVars, relayVars
    <3>6. ClosersAreOver' /\ ClosedStaysClosed'
      BY <3>1, <3>2, <3>3, <3>4, SMTT(30) DEF inboundVars, turnVars, relayVars
    <3>7. RelayOK'
      BY <3>1, <3>3, <3>4, SMTT(30) DEF turnVars, relayVars
    <3> QED
      BY <3>5, <3>6, <3>7
  <2>2. CASE ~(disp[t] # "superseded" /\ WindowIsFresh(t, saw[t]))
    BY <1>15, <2>2
       DEF CloseUnguarded, EndSuperseded, SupersededDisp, ReleaseRedisLock,
           Goto, inboundVars, turnVars, relayVars
  <2> QED
    BY <2>1, <2>2
<1>16. ASSUME NEW t \in Turns, CancelTurn(t) PROVE IInv'
  BY <1>16
     DEF CancelTurn, ReleaseRedisLock, ReleaseRowLock, Goto, HoldsRedisLock,
     inboundVars, turnVars, relayVars
<1>17. ASSUME NEW t \in Turns, TaskFails(t) PROVE IInv'
  BY <1>17
     DEF TaskFails, ReleaseRedisLock, ReleaseRowLock, Goto, HoldsRedisLock,
     inboundVars, turnVars, relayVars
<1>18. ASSUME NEW t \in Turns, NEW s \in 1 .. MaxSeq, SuppressMediaTurn(t, s) PROVE IInv'
  BY <1>18
     DEF SuppressMediaTurn, Goto, inboundVars, lockVars, relayVars
<1>19. ASSUME WorkerCrash PROVE IInv'
  BY <1>19
     DEF WorkerCrash, inboundVars, turnVars, relayVars
<1>20. ASSUME ExpireConversationLock PROVE IInv'
  BY <1>20
     DEF ExpireConversationLock, inboundVars, turnVars, relayVars
<1>21. ASSUME RelayScan PROVE IInv'
  BY <1>21
     DEF RelayScan, inboundVars, turnVars, lockVars
<1>22. ASSUME NEW t \in Turns, RelayRead(t) PROVE IInv'
  <2>1. CASE disp[t] = Pending
    BY <1>22, <2>1, AbortRelayIInv DEF RelayRead, inboundVars, turnVars
  <2>2. CASE disp[t] # Pending
    <3> DEFINE mark == IF disp[t] = "none" THEN t ELSE NoOne
    <3>0. /\ relay' = [relay EXCEPT !.candidates = @ \ {t}, !.marking = mark]
          /\ t \in claimed
          /\ mark \in {t, NoOne} /\ (mark = t => disp[t] # Pending \/ t = NoOne)
      BY <1>22, <2>2, SMTT(30) DEF RelayRead
    <3> HIDE DEF mark
    <3>1. /\ relay' \in [busy : BOOLEAN, candidates : SUBSET Turns,
                         marking : Turns \cup {NoOne}]
          /\ relay'.candidates \subseteq relay.candidates
          /\ relay'.marking = mark
    <4>1. relay' = [busy |-> relay.busy, candidates |-> relay.candidates \ {t},
                    marking |-> mark]
      BY <3>0
    <4> QED
      BY <3>0, <4>1
    <3>2. UNCHANGED <<latest, lastClosed, media, suppressed, claimed, from, to,
                      completed, disp, rowLock, redisLock, pc, saw, relayWrites,
                      closedBy, waitingSent>>
      BY <1>22, <2>2 DEF RelayRead, inboundVars, turnVars
    <3> QED
      BY <3>0, <3>1, <3>2, <2>2
  <2> QED
    BY <2>1, <2>2
<1>23. ASSUME NEW t \in Turns, RelayMark(t) PROVE IInv'
  <2>1. CASE disp[t] = Pending /\ WindowIsFresh(t, "none")
    BY <1>23, <2>1, AbortRelayIInv DEF RelayMark, inboundVars, turnVars
  <2>2. CASE ~(disp[t] = Pending /\ WindowIsFresh(t, "none"))
    BY <1>23, <2>2
       DEF RelayMark, WritePending, WindowIsFresh, CountWaiting, inboundVars,
           turnVars
  <2> QED
    BY <2>1, <2>2
<1>24. ASSUME RelayCommit PROVE IInv'
  <2>1. \A u \in Turns :
           \/ disp'[u] = disp[u]
           \/ /\ disp[u] \in {"none", Pending} /\ u \in claimed
              /\ disp'[u] \in {Pending, "superseded"}
              /\ u \notin closedBy
    BY <1>24 DEF RelayCommit
  <2>2. disp' \in [Turns -> Dispositions]
    BY <1>24, <2>1 DEF RelayCommit
  <2>3. /\ completed' \subseteq claimed
        /\ \A u \in closedBy : u \in completed => u \in completed'
    BY <1>24 DEF RelayCommit
  <2>4. /\ relay' \in [busy : BOOLEAN, candidates : SUBSET Turns,
                       marking : Turns \cup {NoOne}]
        /\ relay'.candidates = {} /\ relay'.marking = NoOne
    BY <1>24 DEF RelayCommit
  <2>5. /\ relayWrites' = [u \in Turns |-> "none"]
        /\ rowLock' \in {rowLock, NoOne} /\ (rowLock # Relay => rowLock' = rowLock)
        /\ UNCHANGED <<latest, lastClosed, media, suppressed, claimed, from, to,
                       redisLock, pc, saw, closedBy, waitingSent>>
    BY <1>24 DEF RelayCommit, inboundVars, turnVars
  <2> QED
    BY <2>1, <2>2, <2>3, <2>4, <2>5
<1>25. ASSUME RelayRollback PROVE IInv'
  BY <1>25, AbortRelayIInv
     DEF RelayRollback, inboundVars, turnVars
<1> QED
  BY <1>1, <1>2, <1>3, <1>4, <1>5, <1>6, <1>7, <1>8, <1>9, <1>10, <1>11,
     <1>12, <1>13, <1>14, <1>15, <1>16, <1>17, <1>18, <1>19, <1>20, <1>21,
     <1>22, <1>23, <1>24, <1>25
     DEF Next, TaskStep, RelayStep

\* The invariant only reads the variables.
LEMMA StutterIInv ==
  ASSUME IInv, UNCHANGED vars
  PROVE  IInv'
BY DEF IInv, TypeOK, ClaimsOK, RelayOK, ClosersAreOver, ExecutesOnFreshWindow,
       NothingSkipped, ClosedStaysClosed, vars

\* The inductive invariant holds in every reachable state: the windows of all
\* turns stay consistent whatever webhook, turns, relay and crashes interleave.
THEOREM Invariance == Spec => []IInv
<1>1. IInv /\ [Next]_vars => IInv'
  BY NextIInv, StutterIInv
<1> QED
  BY InitIInv, <1>1, PTL DEF Spec

-----------------------------------------------------------------------------
\* Every variable keeps its type, whatever the number of turns and messages.
THEOREM TypeCorrect == Spec => []TypeOK
<1>1. IInv => TypeOK
  BY DEF IInv
<1> QED
  BY Invariance, <1>1, PTL

\* Execute and Express only run under the row lock and on the newest open
\* window: GuardStateChange in front of the handlers is enough.
THEOREM FreshExecution == Spec => []ExecutesOnFreshWindow
<1>1. IInv => ExecutesOnFreshWindow
  BY DEF IInv
<1> QED
  BY Invariance, <1>1, PTL

\* Every message up to last_closed_inbound_seq was covered by a committed close.
THEOREM NoMessageSkipped == Spec => []NothingSkipped
<1>1. IInv => NothingSkipped
  BY DEF IInv
<1> QED
  BY Invariance, <1>1, PTL

\* A committed close is never undone by another process.
THEOREM ClosesAreDurable == Spec => []ClosedStaysClosed
<1>1. IInv => ClosedStaysClosed
  BY DEF IInv
<1> QED
  BY Invariance, <1>1, PTL

-----------------------------------------------------------------------------
(* Refinement of InputWindows.                                             *)

\* Under the invariant every step is a Receive, an Answer or a stutter of the
\* two counters.
LEMMA StepPromise ==
  ASSUME IInv, Next
  PROVE  [Promise!Next]_(Promise!vars)
<1> USE DEF Promise!Next, Promise!Receive, Promise!Answer, Promise!vars
<1>1. CASE RecordInbound
  BY <1>1 DEF RecordInbound
<1>2. ASSUME NEW t \in Turns, NEW kind \in ClosingDispositions, Close(t, kind)
      PROVE  [Promise!Next]_(Promise!vars)
  BY <1>2
     DEF Close, CommitClose, WindowIsFresh, IInv, ClaimsOK, TypeOK, inboundVars
<1>3. ASSUME NEW t \in Turns, NEW kind \in ClosingDispositions,
             CloseUnguarded(t, kind)
      PROVE  [Promise!Next]_(Promise!vars)
  BY <1>3
     DEF CloseUnguarded, CommitClose, EndSuperseded, WindowIsFresh, IInv,
         ClaimsOK, TypeOK, inboundVars
<1>4. ASSUME NEW t \in Turns, NEW s \in 1 .. MaxSeq, SuppressMediaTurn(t, s)
      PROVE  [Promise!Next]_(Promise!vars)
  BY <1>4 DEF SuppressMediaTurn, inboundVars
<1>5. CASE UNCHANGED <<latest, lastClosed>>
  BY <1>5
<1>6. \/ RecordInbound
      \/ \E t \in Turns, kind \in ClosingDispositions :
           Close(t, kind) \/ CloseUnguarded(t, kind)
      \/ \E t \in Turns, s \in 1 .. MaxSeq : SuppressMediaTurn(t, s)
      \/ UNCHANGED <<latest, lastClosed>>
  BY DEF Next, TaskStep, RelayStep, ReadWindow, ClaimTurn, ReplayTurn,
         AcquireConversationLock, LockWaitTimeout, MarkFailed,
         GuardStateChange, ReadDisposition, RefuseTransition,
         RecordPendingAsync, Deliver, MarkSuperseded, CancelTurn, TaskFails,
         WorkerCrash, ExpireConversationLock, RelayScan, RelayRead, RelayMark,
         RelayCommit, RelayRollback, AbortRelay, WritePending, EndSuperseded,
         inboundVars
<1> QED
  BY <1>1, <1>2, <1>3, <1>4, <1>5, <1>6

\* The counters move as InputWindows says: a message at a time, and closes take
\* everything that is open.
THEOREM KeepsPromise == Spec => WindowsPromise
<1>1. Init => Promise!Init
  BY DEF Init, Promise!Init
<1>2. IInv /\ [Next]_vars => [Promise!Next]_(Promise!vars)
  <2>1. CASE UNCHANGED vars
    BY <2>1 DEF vars, Promise!vars
  <2> QED
    BY <2>1, StepPromise
<1> QED
  BY Invariance, <1>1, <1>2, PTL DEF Spec, WindowsPromise, Promise!Spec
=============================================================================
