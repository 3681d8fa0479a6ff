---------------------------- MODULE SessionProofs ----------------------------
(***************************************************************************)
(* What ClientSession guarantees for every number of slots, every value of *)
(* the limits and every input: its type invariant, that a WORK keeps the   *)
(* turn it has seen, and the bound on the works processed at a time.       *)
(***************************************************************************)
EXTENDS ClientSession, FiniteSetTheorems, SequenceTheorems,
        TLAPS

-----------------------------------------------------------------------------
(* The type invariant *)

\* Slots are numbers, and stepping past one stays within the range of tid.
LEMMA SlotsRange ==
  /\ 0 \in Slots
  /\ Slots \subseteq 0 .. CLIENT_THREAD_COUNT
  /\ \A t \in Slots : t + 1 \in 0 .. CLIENT_THREAD_COUNT
BY SessionAssumption DEF Slots

\* The queue operations keep the queue a sequence of nodes.
LEMMA QueueTypes ==
  ASSUME TypeOK
  PROVE  /\ RmTid => queue' \in Seq([tid : Slots, num : Nat])
         /\ \A t \in Slots, n \in Nat :
              PushTid(t, n) => queue' \in Seq([tid : Slots, num : Nat])
         /\ \A i \in DOMAIN queue : queue[i].tid \in Slots
                                    /\ queue[i].num \in Nat
<1> DEFINE Node == [tid : Slots, num : Nat]
<1>1. queue \in Seq(Node)
  BY DEF TypeOK
<1>2. RmTid => queue' \in Seq(Node)
  <2> SUFFICES ASSUME queue # <<>> PROVE Tail(queue) \in Seq(Node)
    BY <1>1 DEF RmTid
  <2> HIDE DEF Node
  <2> QED BY <1>1, HeadTailProperties
<1>3. \A t \in Slots, n \in Nat : PushTid(t, n) => queue' \in Seq(Node)
  <2> SUFFICES ASSUME NEW t \in Slots, NEW n \in Nat
               PROVE  Append(queue, [tid |-> t, num |-> n]) \in Seq(Node)
    BY DEF PushTid
  <2>1. [tid |-> t, num |-> n] \in Node
    OBVIOUS
  <2> HIDE DEF Node
  <2> QED BY <1>1, <2>1
<1>4. \A i \in DOMAIN queue : queue[i] \in Node
  <2> HIDE DEF Node
  <2> QED BY <1>1
<1> QED BY <1>2, <1>3, <1>4

\* What follows a node, or the head pointer, is a node or NULL.
LEMMA NextNodeType ==
  ASSUME TypeOK, NEW i \in 0 .. Len(queue)
  PROVE  NextNode(i) \in Nat
<1> DEFINE Node == [tid : Slots, num : Nat]
<1>1. queue \in Seq(Node)
  BY DEF TypeOK
<1>2. Len(queue) \in Nat /\ DOMAIN queue = 1 .. Len(queue)
  <2> HIDE DEF Node
  <2> QED BY <1>1, LenProperties
<1>3. CASE i < Len(queue)
  <2>1. i + 1 \in DOMAIN queue
    BY <1>2, <1>3
  <2>2. queue[i + 1].num \in Nat
    BY <2>1, QueueTypes
  <2> QED BY <1>3, <2>2 DEF NextNode
<1>4. CASE ~(i < Len(queue))
  BY <1>4 DEF NextNode
<1> QED BY <1>3, <1>4

\* A position of the queue is one that NextNode is applied to.
LEMMA QueuePositions ==
  ASSUME TypeOK
  PROVE  0 \in 0 .. Len(queue) /\ DOMAIN queue \subseteq 0 .. Len(queue)
<1> DEFINE Node == [tid : Slots, num : Nat]
<1>1. queue \in Seq(Node)
  BY DEF TypeOK
<1> HIDE DEF Node
<1> QED BY <1>1, LenProperties

\* pthread_cancel writes Booleans only.
LEMMA CancelTypes ==
  ASSUME TypeOK, NEW t \in Slots, PthreadCancel(t)
  PROVE  up' \in BOOLEAN /\ canc' \in [Slots -> BOOLEAN]
BY DEF TypeOK, PthreadCancel

\* pthread_join writes a Boolean and handles only.
LEMMA JoinTypes ==
  ASSUME TypeOK, NEW t \in Slots, PthreadJoin(t) \/ JoinStale(t)
  PROVE  up' \in BOOLEAN /\ pool' \in [Slots -> {"null", "live", "stale"}]
BY DEF TypeOK, PthreadJoin, JoinStale

\* Every handler keeps the types.
LEMMA HandlerTypes ==
  ASSUME TypeOK, NEW s \in Slots, HandlerStep(s)
  PROVE  TypeOK'
<1> USE DEF Goto, clientVars, slotVars, localVars
<1>1. CASE SimpleHandler(s)
  <2>1. \A m \in Response(kind[s]) : m \in Messages
    BY DEF Response, Messages
  <2> QED BY <1>1, <2>1 DEF SimpleHandler, Send, TypeOK, Pcs
<1>2. CASE SlepHandler(s)
  BY <1>2 DEF SlepHandler, Send, TypeOK, Pcs, Messages
<1>3. CASE SlepWake(s)
  BY <1>3 DEF SlepWake, Send, TypeOK, Pcs, Messages
<1>4. CASE SlepCancelled(s)
  BY <1>4 DEF SlepCancelled, TypeOK, Pcs
<1>5. CASE AbrtHandler(s)
  <2>1. NextNode(0) \in Nat
    BY NextNodeType, QueuePositions
  <2> QED BY <1>5, <2>1 DEF AbrtHandler, TypeOK, Pcs
<1>6. CASE AbrtCancel(s)
  <2>1. \/ \E t \in Slots : PthreadCancel(t)
        \/ up' \in BOOLEAN /\ UNCHANGED canc
    BY <1>6, QueueTypes DEF AbrtCancel
  <2>2. up' \in BOOLEAN /\ canc' \in [Slots -> BOOLEAN]
    BY <2>1, CancelTypes DEF TypeOK
  <2> QED BY <1>6, <2>2 DEF AbrtCancel, TypeOK, Pcs
<1>7. CASE AbrtNext(s)
  <2>1. \A i \in DOMAIN queue : NextNode(i) \in Nat
    BY NextNodeType, QueuePositions
  <2>2. \A n \in {0} \cup {queue[i].num : i \in DOMAIN queue} : n \in Nat
    BY QueueTypes
  <2>3. \E n : n \in Nat /\ cur' = [cur EXCEPT ![s] = n]
    <3>1. CASE \E i \in DOMAIN queue : cur' = [cur EXCEPT ![s] = NextNode(i)]
      BY <3>1, <2>1
    <3>2. CASE \E n \in {0} \cup {queue[i].num : i \in DOMAIN queue} :
                 cur' = [cur EXCEPT ![s] = n]
      BY <3>2, <2>2
    <3> QED BY <1>7, <3>1, <3>2, Zenon DEF AbrtNext
  <2>4. up' \in BOOLEAN
    BY <1>7 DEF AbrtNext, TypeOK
  <2> QED BY <1>7, <2>3, <2>4 DEF AbrtNext, TypeOK, Pcs
<1>8. CASE AbrtEnd(s)
  BY <1>8 DEF AbrtEnd, TypeOK, Pcs
<1>9. CASE WrapperReset(s)
  BY <1>9 DEF WrapperReset, ResetFlag, TypeOK, Pcs
<1>10. CASE WrapperResetAstray(s)
  BY <1>10 DEF WrapperResetAstray, ResetFlag, TypeOK, Pcs
<1>11. CASE WrapperUnlock(s)
  BY <1>11 DEF WrapperUnlock, TypeOK, Pcs
<1>12. CASE Orphan(s)
  BY <1>12 DEF Orphan, TypeOK, Pcs
<1> QED
  BY <1>1, <1>2, <1>3, <1>4, <1>5, <1>6, <1>7, <1>8, <1>9, <1>10, <1>11, <1>12
  DEF HandlerStep

\* Every step of work_handler and of its cleanup keeps the types.
LEMMA WorkTypes ==
  ASSUME TypeOK, NEW s \in Slots, WorkStep(s)
  PROVE  TypeOK'
<1> USE DEF Goto, clientVars, slotVars, localVars, Pcs, WorkPcs,
            BeforeCleanup, InCleanup, Processing
<1>1. CASE WorkBegin(s)
  BY <1>1 DEF WorkBegin, TypeOK
<1>2. CASE SemWait(s)
  BY <1>2 DEF SemWait, TypeOK
<1>3. CASE SpawnBtches(s)
  BY <1>3 DEF SpawnBtches, TypeOK
<1>4. CASE SolutionFound(s)
  BY <1>4 DEF SolutionFound, TypeOK
<1>5. CASE NoSolutionYet(s)
  BY <1>5 DEF NoSolutionYet, TypeOK
<1>6. CASE DozeOver(s)
  BY <1>6 DEF DozeOver, TypeOK
<1>7. CASE CheckTurn(s)
  BY <1>7 DEF CheckTurn, TypeOK
<1>8. CASE NapOver(s)
  BY <1>8 DEF NapOver, TypeOK
<1>9. CASE SendSolution(s)
  BY <1>9 DEF SendSolution, Send, Messages, TypeOK
<1>10. CASE Unwind(s)
  BY <1>10 DEF Unwind, TypeOK
<1>11. CASE DecrementLoad(s)
  BY <1>11 DEF DecrementLoad, TypeOK
<1>12. CASE DecrementStore(s)
  BY <1>12 DEF DecrementStore, TypeOK
<1>13. CASE JoinBtches(s)
  BY <1>13 DEF JoinBtches, TypeOK
<1>14. CASE CleanupCancelled(s)
  BY <1>14 DEF CleanupCancelled, TypeOK
<1>15. CASE CleanupTurn(s)
  BY <1>15 DEF CleanupTurn, TypeOK
<1>16. CASE CleanupRmTid(s)
  BY <1>16, QueueTypes DEF CleanupRmTid, TypeOK
<1>17. CASE CleanupResetFlag(s)
  BY <1>17 DEF CleanupResetFlag, ResetFlag, TypeOK
<1>18. CASE CleanupUnlock(s)
  BY <1>18 DEF CleanupUnlock, TypeOK
<1> QED
  BY <1>1, <1>2, <1>3, <1>4, <1>5, <1>6, <1>7, <1>8, <1>9, <1>10, <1>11,
     <1>12, <1>13, <1>14, <1>15, <1>16, <1>17, <1>18
  DEF WorkStep

\* The steps of the client thread, the ones nothing makes it take included.
ClientMoves ==
  ReadCommand \/ Disconnect \/ CreateFails \/ JoinOldStale \/ KillJoinStale
  \/ ClientStep

\* Every step of client_handler and of its cleanup keeps the types.
LEMMA ClientTypes ==
  ASSUME TypeOK, ClientMoves
  PROVE  TypeOK'
<1> USE DEF clientVars, slotVars, localVars
<1>1. CASE ReadCommand
  BY <1>1, SessionAssumption DEF ReadCommand, TypeOK, HandlerKinds
<1>2. CASE Disconnect
  BY <1>2, SlotsRange DEF Disconnect, TypeOK
<1>3. CASE CreateFails
  <2>1. tid \in Slots /\ pool \in [Slots -> {"null", "live", "stale"}]
    BY <1>3 DEF CreateFails, TypeOK
  <2>2. pool' = pool \/ pool' = [pool EXCEPT ![tid] = "stale"]
    BY <1>3, <2>1 DEF CreateFails
  <2>3. pool' \in [Slots -> {"null", "live", "stale"}]
    BY <2>1, <2>2
  <2> QED BY <1>3, <2>3 DEF CreateFails, TypeOK
<1>4. CASE GetAvailThread
  BY <1>4, SlotsRange DEF GetAvailThread, TypeOK
<1>5. CASE CancelOld
  <2>1. up' \in BOOLEAN /\ canc' \in [Slots -> BOOLEAN]
    BY <1>5, CancelTypes DEF CancelOld, TypeOK
  <2> QED BY <1>5, <2>1 DEF CancelOld, Dispatch, TypeOK
<1>6. CASE JoinOld \/ JoinOldStale
  <2>1. up' \in BOOLEAN /\ pool' \in [Slots -> {"null", "live", "stale"}]
    BY <1>6, JoinTypes DEF JoinOld, JoinOldStale, TypeOK
  <2> QED BY <1>6, <2>1 DEF JoinOld, JoinOldStale, Dispatch, TypeOK
<1>7. CASE AdmitLoad
  BY <1>7 DEF AdmitLoad, TypeOK
<1>8. CASE AdmitWork
  <2>1. tid \in Slots /\ cmdNo \in Nat
    BY <1>8 DEF AdmitWork, TypeOK
  <2>2. queue' \in Seq([tid : Slots, num : Nat])
    BY <1>8, <2>1, QueueTypes DEF AdmitWork
  <2> QED BY <1>8, <2>2 DEF AdmitWork, TypeOK
<1>9. CASE RefuseWork
  BY <1>9 DEF RefuseWork, TypeOK, HandlerKinds
<1>10. CASE CreateThread
  BY <1>10 DEF CreateThread, TypeOK, Pcs
<1>11. CASE KillSkip
  BY <1>11, SlotsRange DEF KillSkip, TypeOK
<1>12. CASE KillCancel
  <2>1. up' \in BOOLEAN /\ canc' \in [Slots -> BOOLEAN]
    BY <1>12, CancelTypes DEF KillCancel
  <2> QED BY <1>12, <2>1 DEF KillCancel, TypeOK
<1>13. CASE KillJoin \/ KillJoinStale
  <2>1. up' \in BOOLEAN /\ pool' \in [Slots -> {"null", "live", "stale"}]
    BY <1>13, JoinTypes DEF KillJoin, KillJoinStale, TypeOK
  <2> QED BY <1>13, <2>1, SlotsRange DEF KillJoin, KillJoinStale, TypeOK
<1>14. CASE KillDone
  BY <1>14 DEF KillDone, TypeOK
<1>15. CASE CloseSocket
  BY <1>15 DEF CloseSocket, TypeOK
<1>16. CASE LeaveClient
  BY <1>16 DEF LeaveClient, TypeOK
<1> QED
  BY <1>1, <1>2, <1>3, <1>4, <1>5, <1>6, <1>7, <1>8, <1>9, <1>10, <1>11,
     <1>12, <1>13, <1>14, <1>15, <1>16
  DEF ClientStep, ClientMoves

\* No thread of a session ever takes a variable out of its type: in particular
\* worker_sem never goes below 0, and client_handler never uses a thread_id
\* outside its pool.
THEOREM TypeCorrect == Spec => []TypeOK
<1>1. Init => TypeOK
  <2> SUFFICES ASSUME Init PROVE TypeOK
    OBVIOUS
  <2>1. "UNKN" \in HandlerKinds /\ "none" \in Pcs
    BY DEF HandlerKinds, CommandKinds, Pcs
  <2>2. sem \in Nat
    BY SessionAssumption DEF Init
  <2> QED BY <2>1, <2>2, SlotsRange DEF Init, TypeOK
<1>2. TypeOK /\ [Next]_vars => TypeOK'
  <2> SUFFICES ASSUME TypeOK, [Next]_vars PROVE TypeOK'
    OBVIOUS
  <2>1. CASE ClientMoves
    BY <2>1, ClientTypes
  <2>2. CASE \E s \in Slots : ThreadStep(s)
    BY <2>2, HandlerTypes, WorkTypes DEF ThreadStep
  <2>3. CASE UNCHANGED vars
    BY <2>3 DEF vars, clientVars, slotVars, localVars, TypeOK
  <2> QED BY <2>1, <2>2, <2>3 DEF Next, ClientMoves
<1> QED BY <1>1, <1>2, PTL DEF Spec

-----------------------------------------------------------------------------
(* A turn that was seen is kept *)

\* Where a handler other than work_handler may take its thread.
HandlerTargets == {"fin", "slep", "exited", "abrt", "next", "unlock",
                   "undefined"}

\* The handlers other than work_handler leave the queue and the permits alone
\* and move only their own thread.
LEMMA HandlerFrame ==
  ASSUME NEW s \in Slots, HandlerStep(s)
  PROVE  /\ UNCHANGED <<queue, unwind, sem>>
         /\ \E p \in HandlerTargets : pc' = [pc EXCEPT ![s] = p]
<1> USE DEF Goto, localVars, HandlerTargets
<1>1. CASE SimpleHandler(s)
  BY <1>1 DEF SimpleHandler
<1>2. CASE SlepHandler(s) \/ SlepWake(s) \/ SlepCancelled(s)
  BY <1>2 DEF SlepHandler, SlepWake, SlepCancelled
<1>3. CASE AbrtHandler(s) \/ AbrtEnd(s)
  BY <1>3 DEF AbrtHandler, AbrtEnd
<1>4. CASE AbrtCancel(s)
  BY <1>4 DEF AbrtCancel
<1>5. CASE AbrtNext(s)
  BY <1>5 DEF AbrtNext
<1>6. CASE WrapperReset(s) \/ WrapperResetAstray(s) \/ WrapperUnlock(s)
           \/ Orphan(s)
  BY <1>6 DEF WrapperReset, WrapperResetAstray, WrapperUnlock, Orphan
<1> QED BY <1>1, <1>2, <1>3, <1>4, <1>5, <1>6 DEF HandlerStep

\* Of the client thread's steps only push_tid and pthread_create concern the
\* queue and the command threads.
LEMMA ClientFrame ==
  ASSUME ClientMoves, ~AdmitWork, ~CreateThread
  PROVE  UNCHANGED <<queue, unwind, sem, pc>>
BY DEF ClientMoves, ReadCommand, Disconnect, CreateFails, ClientStep,
       GetAvailThread, CancelOld, JoinOld, JoinOldStale, AdmitLoad, RefuseWork,
       KillSkip, KillCancel, KillJoin, KillJoinStale, KillDone, CloseSocket,
       LeaveClient, localVars

\* push_tid takes the turn from nobody: the new node is at the tail.
LEMMA PushKeepsTurn ==
  ASSUME TypeOK, NEW t \in Slots, NEW n \in Nat, PushTid(t, n),
         NEW r \in Slots, HasTurn(r)
  PROVE  HasTurn(r)'
<1> DEFINE Node == [tid : Slots, num : Nat]
<1>1. queue \in Seq(Node) /\ [tid |-> t, num |-> n] \in Node
  BY DEF TypeOK
<1>2. queue' = Append(queue, [tid |-> t, num |-> n])
  BY DEF PushTid
<1>3. queue # <<>> /\ queue[1].tid = r
  BY DEF HasTurn
<1>4. queue' # <<>> /\ queue'[1] = queue[1]
  <2> DEFINE x == [tid |-> t, num |-> n]
  <2> HIDE DEF Node, x
  <2>1. Len(queue) \in Nat \ {0}
    BY <1>1, <1>3, EmptySeq
  <2>2. Append(queue, x) # <<>> /\ Append(queue, x)[1] = queue[1]
    BY <1>1, <2>1 DEF x
  <2> QED BY <1>2, <2>2 DEF x
<1> QED BY <1>3, <1>4 DEF HasTurn

\* A step that leaves the queue alone and takes no thread into its turn.
LEMMA TurnFrame ==
  ASSUME TypeOK, TurnHeld, UNCHANGED queue,
         \A r \in Slots : HoldsTurn(r)' => HoldsTurn(r)
  PROVE  TurnHeld'
BY DEF TurnHeld, HasTurn

\* The steps of work_handler and its cleanup.
LEMMA WorkKeepsTurn ==
  ASSUME TypeOK, TurnHeld, NEW s \in Slots, WorkStep(s)
  PROVE  TurnHeld'
<1> USE DEF Goto, localVars
<1>1. CASE WorkBegin(s)
  BY <1>1, TurnFrame DEF WorkBegin, HoldsTurn, TypeOK
<1>2. CASE SemWait(s)
  BY <1>2, TurnFrame DEF SemWait, HoldsTurn, TypeOK
<1>3. CASE SpawnBtches(s)
  BY <1>3, TurnFrame DEF SpawnBtches, HoldsTurn, TypeOK
<1>4. CASE SolutionFound(s)
  BY <1>4, TurnFrame DEF SolutionFound, HoldsTurn, TypeOK
<1>5. CASE NoSolutionYet(s)
  BY <1>5, TurnFrame DEF NoSolutionYet, HoldsTurn, TypeOK
<1>6. CASE DozeOver(s)
  BY <1>6, TurnFrame DEF DozeOver, HoldsTurn, TypeOK
<1>7. CASE CheckTurn(s)
  <2>1. UNCHANGED <<queue, unwind>>
    BY <1>7 DEF CheckTurn
  <2>2. \A r \in Slots : HoldsTurn(r)' => HoldsTurn(r) \/ HasTurn(r)
    BY <1>7 DEF CheckTurn, HoldsTurn, TypeOK
  <2> QED BY <2>1, <2>2 DEF TurnHeld, HasTurn
<1>8. CASE NapOver(s)
  BY <1>8, TurnFrame DEF NapOver, HoldsTurn, TypeOK
<1>9. CASE SendSolution(s)
  BY <1>9, TurnFrame DEF SendSolution, HoldsTurn, TypeOK
<1>10. CASE Unwind(s)
  BY <1>10, TurnFrame DEF Unwind, HoldsTurn, TypeOK
<1>11. CASE DecrementLoad(s)
  BY <1>11, TurnFrame DEF DecrementLoad, HoldsTurn, TypeOK
<1>12. CASE DecrementStore(s)
  BY <1>12, TurnFrame DEF DecrementStore, HoldsTurn, TypeOK
<1>13. CASE JoinBtches(s)
  BY <1>13, TurnFrame DEF JoinBtches, HoldsTurn, TypeOK
<1>14. CASE CleanupCancelled(s)
  BY <1>14, TurnFrame DEF CleanupCancelled, HoldsTurn, TypeOK
<1>15. CASE CleanupTurn(s)
  <2>1. UNCHANGED <<queue, unwind>>
    BY <1>15 DEF CleanupTurn
  <2>2. \A r \in Slots : HoldsTurn(r)' => HoldsTurn(r) \/ HasTurn(r)
    BY <1>15 DEF CleanupTurn, HoldsTurn, TypeOK
  <2> QED BY <2>1, <2>2 DEF TurnHeld, HasTurn
<1>16. CASE CleanupRmTid(s)
  \* s had the turn, so nobody else held it, and s gives it up.
  <2>1. HasTurn(s)
    BY <1>16 DEF CleanupRmTid, TurnHeld, HoldsTurn
  <2>2. \A r \in Slots : ~HoldsTurn(r)'
    BY <1>16, <2>1 DEF CleanupRmTid, TurnHeld, HoldsTurn, HasTurn, TypeOK
  <2> QED BY <2>2 DEF TurnHeld
<1>17. CASE CleanupResetFlag(s)
  BY <1>17, TurnFrame DEF CleanupResetFlag, HoldsTurn, TypeOK
<1>18. CASE CleanupUnlock(s)
  BY <1>18, TurnFrame DEF CleanupUnlock, HoldsTurn, TypeOK
<1> QED
  BY <1>1, <1>2, <1>3, <1>4, <1>5, <1>6, <1>7, <1>8, <1>9, <1>10, <1>11,
     <1>12, <1>13, <1>14, <1>15, <1>16, <1>17, <1>18
  DEF WorkStep

\* In every session a WORK sends its SOLN, and rm_tid drops the head of the
\* queue, only in the turn of the thread that does it. TypeOK and TurnHeld are
\* inductive together: the queue loses its head only to the thread whose turn
\* it is, and that thread then holds no turn.
THEOREM TurnKept == Spec => []TurnHeld
<1>1. Init => TurnHeld
  BY DEF Init, TurnHeld, HoldsTurn
<1>2. TypeOK /\ TurnHeld /\ [Next]_vars => TurnHeld'
  <2> SUFFICES ASSUME TypeOK, TurnHeld, [Next]_vars PROVE TurnHeld'
    OBVIOUS
  <2>1. CASE AdmitWork
    <3>1. UNCHANGED <<pc, unwind>> /\ PushTid(tid, cmdNo)
      BY <2>1 DEF AdmitWork, localVars
    <3>2. tid \in Slots /\ cmdNo \in Nat
      BY <2>1 DEF AdmitWork, TypeOK
    <3>3. \A r \in Slots : HasTurn(r) => HasTurn(r)'
      BY <3>1, <3>2, PushKeepsTurn
    <3> QED BY <3>1, <3>3 DEF TurnHeld, HoldsTurn
  <2>2. CASE CreateThread
    BY <2>2, TurnFrame DEF CreateThread, HoldsTurn, TypeOK
  <2>3. CASE ClientMoves /\ ~AdmitWork /\ ~CreateThread
    BY <2>3, ClientFrame, TurnFrame DEF HoldsTurn
  <2>4. ASSUME NEW s \in Slots, HandlerStep(s)
        PROVE  TurnHeld'
    <3>1. \A r \in Slots : HoldsTurn(r)' => HoldsTurn(r)
      BY <2>4, HandlerFrame DEF HoldsTurn, HandlerTargets, TypeOK
    <3> QED BY <2>4, <3>1, HandlerFrame, TurnFrame
  <2>5. ASSUME NEW s \in Slots, WorkStep(s)
        PROVE  TurnHeld'
    BY <2>5, WorkKeepsTurn
  <2>6. CASE UNCHANGED vars
    BY <2>6, TurnFrame DEF vars, localVars, HoldsTurn
  <2> QED BY <2>1, <2>2, <2>3, <2>4, <2>5, <2>6
          DEF Next, ThreadStep, ClientMoves
<1> QED BY <1>1, <1>2, TypeCorrect, PTL DEF Spec

-----------------------------------------------------------------------------
(* The bound on concurrent works *)

\* Sets of slots are finite.
LEMMA SlotSetsFinite ==
  ASSUME NEW S \in SUBSET Slots
  PROVE  IsFiniteSet(S) /\ Cardinality(S) \in Nat
<1>1. IsFiniteSet(Slots)
  BY SessionAssumption, FS_Interval DEF Slots
<1>2. IsFiniteSet(S)
  BY <1>1, FS_Subset
<1> QED BY <1>2, FS_CardinalityType

\* A permit of worker_sem is in the semaphore, with one thread that took it, or
\* lost with a thread that was cancelled; no path posts one it did not take.
PermitsBound == sem + Cardinality(InProcess) <= CONCURRENT_WORK_COUNT

\* A step after which no more threads are in process and no permit was added.
LEMMA PermitsFrame ==
  ASSUME TypeOK, PermitsBound, sem' = sem, InProcess' \subseteq InProcess
  PROVE  PermitsBound'
<1>1. InProcess \subseteq Slots /\ InProcess' \in SUBSET InProcess
  BY DEF InProcess
<1>2. IsFiniteSet(InProcess) /\ Cardinality(InProcess) \in Nat
  BY <1>1, SlotSetsFinite
<1>3. Cardinality(InProcess') \in Nat
  BY <1>1, SlotSetsFinite
<1>4. Cardinality(InProcess') <= Cardinality(InProcess)
  BY <1>1, <1>2, FS_Subset
<1> QED BY <1>2, <1>3, <1>4, SessionAssumption DEF PermitsBound, TypeOK

\* The steps of work_handler and its cleanup.
LEMMA WorkKeepsPermits ==
  ASSUME TypeOK, PermitsBound, NEW s \in Slots, WorkStep(s)
  PROVE  PermitsBound'
<1> USE DEF Goto
<1>0. IsFiniteSet(InProcess) /\ Cardinality(InProcess) \in Nat
  BY SlotSetsFinite DEF InProcess
<1>1. CASE SemWait(s)
  <2>1. InProcess' = InProcess \cup {s} /\ s \notin InProcess
    BY <1>1 DEF SemWait, InProcess, Processing, TypeOK
  <2>2. Cardinality(InProcess') = Cardinality(InProcess) + 1
    BY <1>0, <2>1, FS_AddElement
  <2> QED BY <1>0, <1>1, <2>2, SessionAssumption
          DEF SemWait, PermitsBound, TypeOK
<1>2. CASE SolutionFound(s)
  <2>1. InProcess' = InProcess \ {s} /\ s \in InProcess
    BY <1>2 DEF SolutionFound, InProcess, Processing, TypeOK
  <2>2. Cardinality(InProcess') = Cardinality(InProcess) - 1
    BY <1>0, <2>1, FS_RemoveElement
  <2> QED BY <1>0, <1>2, <2>2, SessionAssumption
          DEF SolutionFound, PermitsBound, TypeOK
<1>3. CASE WorkBegin(s) \/ SpawnBtches(s) \/ NoSolutionYet(s) \/ DozeOver(s)
  BY <1>3, PermitsFrame
  DEF WorkBegin, SpawnBtches, NoSolutionYet, DozeOver, InProcess, Processing,
      TypeOK
<1>4. CASE CheckTurn(s) \/ NapOver(s) \/ SendSolution(s) \/ Unwind(s)
  BY <1>4, PermitsFrame
  DEF CheckTurn, NapOver, SendSolution, Unwind, InProcess, Processing, TypeOK
<1>5. CASE DecrementLoad(s) \/ DecrementStore(s)
  BY <1>5, PermitsFrame
  DEF DecrementLoad, DecrementStore, InProcess, Processing, TypeOK
<1>6. CASE JoinBtches(s) \/ CleanupCancelled(s) \/ CleanupTurn(s)
  BY <1>6, PermitsFrame
  DEF JoinBtches, CleanupCancelled, CleanupTurn, InProcess, Processing, TypeOK
<1>7. CASE CleanupRmTid(s) \/ CleanupResetFlag(s) \/ CleanupUnlock(s)
  BY <1>7, PermitsFrame
  DEF CleanupRmTid, CleanupResetFlag, CleanupUnlock, InProcess, Processing,
      TypeOK
<1> QED BY <1>1, <1>2, <1>3, <1>4, <1>5, <1>6, <1>7 DEF WorkStep

\* A permit is never created: what worker_sem holds and the threads between
\* sem_wait and sem_post never exceed CONCURRENT_WORK_COUNT together, whatever
\* is cancelled where.
THEOREM PermitsKept == Spec => []PermitsBound
<1>1. Init => PermitsBound
  <2> SUFFICES ASSUME Init PROVE PermitsBound
    OBVIOUS
  <2>1. InProcess = {}
    BY DEF Init, InProcess, Processing
  <2> QED BY <2>1, FS_EmptySet, SessionAssumption DEF Init, PermitsBound
<1>2. TypeOK /\ PermitsBound /\ [Next]_vars => PermitsBound'
  <2> SUFFICES ASSUME TypeOK, PermitsBound, [Next]_vars PROVE PermitsBound'
    OBVIOUS
  <2>1. CASE AdmitWork
    BY <2>1, PermitsFrame DEF AdmitWork, InProcess
  <2>2. CASE CreateThread
    BY <2>2, PermitsFrame DEF CreateThread, InProcess, Processing, TypeOK
  <2>3. CASE ClientMoves /\ ~AdmitWork /\ ~CreateThread
    BY <2>3, ClientFrame, PermitsFrame DEF InProcess
  <2>4. ASSUME NEW s \in Slots, HandlerStep(s)
        PROVE  PermitsBound'
    <3>1. InProcess' \subseteq InProcess
      BY <2>4, HandlerFrame
      DEF InProcess, Processing, HandlerTargets, TypeOK
    <3> QED BY <2>4, <3>1, HandlerFrame, PermitsFrame
  <2>5. ASSUME NEW s \in Slots, WorkStep(s)
        PROVE  PermitsBound'
    BY <2>5, WorkKeepsPermits
  <2>6. CASE UNCHANGED vars
    BY <2>6, PermitsFrame DEF vars, InProcess
  <2> QED BY <2>1, <2>2, <2>3, <2>4, <2>5, <2>6
          DEF Next, ThreadStep, ClientMoves
<1> QED BY <1>1, <1>2, TypeCorrect, PTL DEF Spec

\* At most CONCURRENT_WORK_COUNT works of a client are processed at a time.
THEOREM ConcurrencyBounded == Spec => []ConcurrencyBound
<1>1. TypeOK /\ PermitsBound => ConcurrencyBound
  <2> SUFFICES ASSUME TypeOK, PermitsBound PROVE ConcurrencyBound
    OBVIOUS
  <2>1. Cardinality(InProcess) \in Nat
    BY SlotSetsFinite DEF InProcess
  <2> QED BY <2>1, SessionAssumption
          DEF PermitsBound, ConcurrencyBound, TypeOK
<1> QED BY <1>1, TypeCorrect, PermitsKept, PTL
=============================================================================
