----------------------------- MODULE OrderProofs -----------------------------
(***************************************************************************)
(* The order of the works of a client, for every number of slots and every *)
(* input: nodes of the turn queue and threads stay in step (OrderInv), and *)
(* so the session implements WorkOrder. Where permits are lost, and when a *)
(* session leaves no thread behind.                                        *)
(***************************************************************************)
EXTENDS SessionProofs

-----------------------------------------------------------------------------
(* What a step of a command thread may change *)

\* A command thread leaves alone what belongs to client_handler, the handles and
\* what it was created with.
LEMMA ThreadFrame ==
  ASSUME NEW s \in Slots, ThreadStep(s)
  PROVE  UNCHANGED <<cpc, cmd, cmdNo, tid, fails, pool, kind, id>>
<1> USE DEF clientVars, slotVars, localVars
<1>1. CASE HandlerStep(s)
  BY <1>1 DEF HandlerStep, SimpleHandler, SlepHandler, SlepWake, SlepCancelled,
     AbrtHandler, AbrtCancel, AbrtNext, AbrtEnd, WrapperReset,
     WrapperResetAstray, WrapperUnlock, Orphan
<1>2. CASE WorkStep(s)
  BY <1>2 DEF WorkStep, WorkBegin, SemWait, SpawnBtches, SolutionFound,
     NoSolutionYet, DozeOver, CheckTurn, NapOver, SendSolution, Unwind,
     DecrementLoad, DecrementStore, JoinBtches, CleanupCancelled, CleanupTurn,
     CleanupRmTid, CleanupResetFlag, CleanupUnlock
<1> QED BY <1>1, <1>2 DEF ThreadStep

\* It moves only its own pc, and only a thread that exists moves.
LEMMA ThreadMoves ==
  ASSUME TypeOK, NEW s \in Slots, ThreadStep(s)
  PROVE  /\ pc[s] \notin {"none", "exited", "undefined"}
         /\ \A r \in Slots \ {s} : pc'[r] = pc[r]
<1> USE DEF Goto, TypeOK
<1>1. CASE HandlerStep(s)
  BY <1>1 DEF HandlerStep, SimpleHandler, SlepHandler, SlepWake, SlepCancelled,
     AbrtHandler, AbrtCancel, AbrtNext, AbrtEnd, WrapperReset,
     WrapperResetAstray, WrapperUnlock, Orphan
<1>2. CASE WorkStep(s)
  BY <1>2 DEF WorkStep, WorkBegin, SemWait, SpawnBtches, SolutionFound,
     NoSolutionYet, DozeOver, CheckTurn, NapOver, SendSolution, Unwind,
     DecrementLoad, DecrementStore, JoinBtches, CleanupCancelled, CleanupTurn,
     CleanupRmTid, CleanupResetFlag, CleanupUnlock, CancelPoints
<1> QED BY <1>1, <1>2 DEF ThreadStep

\* Flags are only cleared.
LEMMA ThreadFlags ==
  ASSUME TypeOK, NEW s \in Slots, ThreadStep(s)
  PROVE  \A r \in Slots : flags'[r] = 1 => flags[r] = 1
<1> USE DEF clientVars, slotVars, localVars, ResetFlag, TypeOK
<1>1. CASE HandlerStep(s)
  BY <1>1 DEF HandlerStep, SimpleHandler, SlepHandler, SlepWake, SlepCancelled,
     AbrtHandler, AbrtCancel, AbrtNext, AbrtEnd, WrapperReset,
     WrapperResetAstray, WrapperUnlock, Orphan
<1>2. CASE WorkStep(s)
  BY <1>2 DEF WorkStep, WorkBegin, SemWait, SpawnBtches, SolutionFound,
     NoSolutionYet, DozeOver, CheckTurn, NapOver, SendSolution, Unwind,
     DecrementLoad, DecrementStore, JoinBtches, CleanupCancelled, CleanupTurn,
     CleanupRmTid, CleanupResetFlag, CleanupUnlock
<1> QED BY <1>1, <1>2 DEF ThreadStep

\* Only rm_tid takes something off the queue.
LEMMA ThreadQueue ==
  ASSUME NEW s \in Slots, ThreadStep(s), ~CleanupRmTid(s)
  PROVE  UNCHANGED queue
<1>1. CASE HandlerStep(s)
  BY <1>1, HandlerFrame
<1>2. CASE WorkStep(s)
  BY <1>2 DEF WorkStep, WorkBegin, SemWait, SpawnBtches, SolutionFound,
     NoSolutionYet, DozeOver, CheckTurn, NapOver, SendSolution, Unwind,
     DecrementLoad, DecrementStore, JoinBtches, CleanupCancelled, CleanupTurn,
     CleanupResetFlag, CleanupUnlock
<1> QED BY <1>1, <1>2 DEF ThreadStep

\* Every message is an answer to the thread's own command, and only work_handler
\* answers with SOLN.
LEMMA ThreadSends ==
  ASSUME NEW s \in Slots, ThreadStep(s)
  PROVE  \/ UNCHANGED sent
         \/ \E m \in Messages :
              /\ sent' = sent \cup {[cmd |-> id[s], msg |-> m]}
              /\ m = "SOLN" => SendSolution(s)
<1> USE DEF Send, Messages
<1>1. CASE SimpleHandler(s)
  BY <1>1 DEF SimpleHandler, Response
<1>2. CASE SlepHandler(s) \/ SlepWake(s) \/ SlepCancelled(s)
  BY <1>2 DEF SlepHandler, SlepWake, SlepCancelled
<1>3. CASE AbrtHandler(s) \/ AbrtCancel(s) \/ AbrtNext(s) \/ AbrtEnd(s)
           \/ WrapperReset(s) \/ WrapperResetAstray(s) \/ WrapperUnlock(s)
           \/ Orphan(s)
  BY <1>3 DEF AbrtHandler, AbrtCancel, AbrtNext, AbrtEnd, WrapperReset,
     WrapperResetAstray, WrapperUnlock, Orphan
<1>4. CASE SendSolution(s)
  BY <1>4 DEF SendSolution
<1>5. CASE WorkStep(s) /\ ~SendSolution(s)
  BY <1>5 DEF WorkStep, WorkBegin, SemWait, SpawnBtches, SolutionFound,
     NoSolutionYet, DozeOver, CheckTurn, NapOver, Unwind,
     DecrementLoad, DecrementStore, JoinBtches, CleanupCancelled, CleanupTurn,
     CleanupRmTid, CleanupResetFlag, CleanupUnlock
<1> QED BY <1>1, <1>2, <1>3, <1>4, <1>5 DEF ThreadStep, HandlerStep

-----------------------------------------------------------------------------
(* What happens to the nodes of the queue *)

\* The queue is a sequence of nodes.
LEMMA QueueDomain ==
  ASSUME TypeOK
  PROVE  /\ Len(queue) \in Nat
         /\ DOMAIN queue = 1 .. Len(queue)
         /\ \A i \in DOMAIN queue :
              queue[i].tid \in Slots /\ queue[i].num \in Nat
<1> DEFINE Node == [tid : Slots, num : Nat]
<1>1. queue \in Seq(Node)
  BY DEF TypeOK
<1>2. Len(queue) \in Nat /\ DOMAIN queue = 1 .. Len(queue)
  <2> HIDE DEF Node
  <2> QED BY <1>1, LenProperties
<1> QED BY <1>2, QueueTypes

\* rm_tid drops the node of the thread that calls it; every other node moves up
\* by one place.
LEMMA RmTidShifts ==
  ASSUME TypeOK, TurnHeld, NEW s \in Slots, CleanupRmTid(s)
  PROVE  /\ 1 \in DOMAIN queue /\ queue[1].tid = s
         /\ queue # <<>> /\ queue' = Tail(queue)
         /\ DOMAIN queue' = 1 .. Len(queue) - 1
         /\ \A i \in DOMAIN queue' :
              i + 1 \in DOMAIN queue /\ queue'[i] = queue[i + 1]
         /\ \A i \in DOMAIN queue \ {1} :
              i - 1 \in DOMAIN queue' /\ queue'[i - 1] = queue[i]
<1> DEFINE Node == [tid : Slots, num : Nat]
<1>1. queue \in Seq(Node)
  BY DEF TypeOK
<1>2. queue # <<>> /\ queue[1].tid = s
  BY DEF CleanupRmTid, Goto, TurnHeld, HoldsTurn, HasTurn
<1>3. queue' = Tail(queue)
  BY <1>2 DEF CleanupRmTid, RmTid
<1>4. Len(queue) \in Nat \ {0} /\ DOMAIN queue = 1 .. Len(queue)
  <2> HIDE DEF Node
  <2> QED BY <1>1, <1>2, EmptySeq, LenProperties
<1>5. /\ Tail(queue) \in Seq(Node)
      /\ Len(Tail(queue)) = Len(queue) - 1
      /\ \A i \in 1 .. Len(Tail(queue)) : Tail(queue)[i] = queue[i + 1]
  <2> HIDE DEF Node
  <2> QED BY <1>1, <1>2, HeadTailProperties
<1>6. DOMAIN queue' = 1 .. Len(queue) - 1
  <2> HIDE DEF Node
  <2> QED BY <1>3, <1>5, LenProperties
<1>7. ASSUME NEW i \in DOMAIN queue'
      PROVE  i + 1 \in DOMAIN queue /\ queue'[i] = queue[i + 1]
  BY <1>3, <1>4, <1>5, <1>6
<1>8. ASSUME NEW i \in DOMAIN queue \ {1}
      PROVE  i - 1 \in DOMAIN queue' /\ queue'[i - 1] = queue[i]
  <2>1. i - 1 \in DOMAIN queue' /\ (i - 1) + 1 = i
    BY <1>4, <1>6
  <2> QED BY <1>7, <2>1
<1> QED BY <1>2, <1>3, <1>4, <1>6, <1>7, <1>8

\* push_tid adds one node behind the others.
LEMMA PushAppends ==
  ASSUME TypeOK, AdmitWork
  PROVE  /\ \A i \in DOMAIN queue : i \in DOMAIN queue' /\ queue'[i] = queue[i]
         /\ \A i \in DOMAIN queue' : i \in DOMAIN queue \/ i = Len(queue) + 1
         /\ Len(queue) + 1 \in DOMAIN queue'
         /\ DOMAIN queue' = 1 .. Len(queue) + 1
         /\ queue'[Len(queue) + 1] = [tid |-> tid, num |-> cmdNo]
<1> DEFINE Node == [tid : Slots, num : Nat]
           x == [tid |-> tid, num |-> cmdNo]
<1>1. queue \in Seq(Node) /\ x \in Node
  BY DEF TypeOK, AdmitWork
<1>2. queue' = Append(queue, x)
  BY DEF AdmitWork, PushTid
<1>3. /\ queue' \in Seq(Node) /\ Len(queue') = Len(queue) + 1
      /\ \A i \in 1 .. Len(queue) : queue'[i] = queue[i]
      /\ queue'[Len(queue) + 1] = x
  <2> HIDE DEF Node, x
  <2> QED BY <1>1, <1>2, AppendProperties
<1>4. /\ Len(queue) \in Nat /\ DOMAIN queue = 1 .. Len(queue)
      /\ DOMAIN queue' = 1 .. Len(queue) + 1
  <2> HIDE DEF Node, x
  <2> QED BY <1>1, <1>3, LenProperties
<1> QED BY <1>3, <1>4

-----------------------------------------------------------------------------
(* OrderInv, part by part *)

\* Commands are numbered in the order they are read.
LEMMA NumbersStep ==
  ASSUME TypeOK, TurnHeld, NumbersBound, [Next]_vars
  PROVE  NumbersBound'
<1> USE DEF Serving
<1>0. cmdNo \in Nat /\ MaxCmds \in Nat /\ \A s \in Slots : id[s] \in Nat
  BY SessionAssumption DEF TypeOK
<1>1. CASE ReadCommand
  <2>1. UNCHANGED <<id, sent, queue>> /\ cmdNo' = cmdNo + 1 /\ cpc' = "slot"
        /\ cmdNo < MaxCmds
    BY <1>1 DEF ReadCommand, localVars
  <2>2. \A m \in sent : m.cmd \in Nat
    BY DEF TypeOK
  <2> QED BY <1>0, <2>1, <2>2, QueueDomain DEF NumbersBound
<1>2. CASE AdmitWork
  <2>1. UNCHANGED <<id, sent, cmd, cmdNo>> /\ cpc = "push" /\ cpc' = "create"
    BY <1>2 DEF AdmitWork, localVars
  <2>2. \A i \in DOMAIN queue' : queue'[i].num <= cmdNo
    BY <1>0, <1>2, <2>1, PushAppends, QueueDomain DEF NumbersBound
  <2> QED BY <2>1, <2>2 DEF NumbersBound
<1>3. CASE CreateThread
  <2>1. UNCHANGED <<sent, cmd, cmdNo, queue>> /\ cpc = "create"
        /\ cpc' = "read" /\ id' = [id EXCEPT ![tid] = cmdNo]
    BY <1>3 DEF CreateThread
  <2>2. \A s \in Slots : id'[s] <= cmdNo
    BY <1>0, <2>1 DEF NumbersBound, TypeOK
  <2> QED BY <2>1, <2>2 DEF NumbersBound
<1>4. CASE RefuseWork
  BY <1>4 DEF RefuseWork, NumbersBound, localVars
<1>5. CASE JoinOld \/ JoinOldStale \/ CancelOld
  BY <1>5 DEF JoinOld, JoinOldStale, CancelOld, Dispatch, NumbersBound,
     localVars
<1>6. CASE GetAvailThread \/ AdmitLoad
  BY <1>6 DEF GetAvailThread, AdmitLoad, NumbersBound, localVars
<1>7. CASE CreateFails \/ Disconnect
  BY <1>7 DEF CreateFails, Disconnect, NumbersBound, localVars
<1>8. CASE KillSkip \/ KillCancel \/ KillJoin \/ KillJoinStale \/ KillDone
           \/ CloseSocket \/ LeaveClient
  BY <1>8 DEF KillSkip, KillCancel, KillJoin, KillJoinStale, KillDone,
     CloseSocket, LeaveClient, NumbersBound, localVars
<1>9. ASSUME NEW s \in Slots, ThreadStep(s)
      PROVE  NumbersBound'
  <2>1. UNCHANGED <<cpc, cmd, cmdNo, id>>
    BY <1>9, ThreadFrame
  <2>2. \A m \in sent' : m \in sent \/ m.cmd = id[s]
    BY <1>9, ThreadSends
  <2>3. \A m \in sent' : m.cmd <= cmdNo /\ (cpc \in Serving => m.cmd < cmdNo)
    BY <2>2 DEF NumbersBound
  <2>4. \A i \in DOMAIN queue' :
          \E j \in DOMAIN queue : queue'[i] = queue[j]
    BY <1>9, ThreadQueue, RmTidShifts
  <2> QED BY <2>1, <2>3, <2>4 DEF NumbersBound
<1>10. CASE UNCHANGED vars
  BY <1>10 DEF vars, clientVars, localVars, NumbersBound
<1> QED BY <1>1, <1>2, <1>3, <1>4, <1>5, <1>6, <1>7, <1>8, <1>9, <1>10
        DEF Next, ClientMoves, ClientStep

\* The steps of client_handler that do not concern the queue.
LEMMA ClientQueue ==
  ASSUME [Next]_vars, ~AdmitWork, \A s \in Slots : ~CleanupRmTid(s)
  PROVE  UNCHANGED queue
<1>1. CASE ClientMoves
  BY <1>1 DEF ClientMoves, ReadCommand, Disconnect, CreateFails, ClientStep,
     GetAvailThread, CancelOld, JoinOld, JoinOldStale, AdmitLoad, RefuseWork,
     CreateThread, KillSkip, KillCancel, KillJoin, KillJoinStale, KillDone,
     CloseSocket, LeaveClient
<1>2. CASE \E s \in Slots : ThreadStep(s)
  BY <1>2, ThreadQueue
<1> QED BY <1>1, <1>2 DEF Next, ClientMoves, vars

\* The queue stays in the order of the commands.
LEMMA SortedStep ==
  ASSUME TypeOK, TurnHeld, NumbersBound, QueueSorted, [Next]_vars
  PROVE  QueueSorted'
<1>1. CASE AdmitWork
  <2>1. \A i \in DOMAIN queue : queue[i].num < cmdNo
    BY <1>1 DEF AdmitWork, NumbersBound, Serving
  <2> SUFFICES ASSUME NEW i \in DOMAIN queue', NEW j \in DOMAIN queue', i < j
               PROVE  queue'[i].num < queue'[j].num
    BY DEF QueueSorted
  <2>2. i \in DOMAIN queue
    BY <1>1, PushAppends, QueueDomain
  <2>3. CASE j \in DOMAIN queue
    BY <1>1, <2>2, <2>3, PushAppends DEF QueueSorted
  <2>4. CASE j = Len(queue) + 1
    BY <1>1, <2>1, <2>2, <2>4, PushAppends
  <2> QED BY <1>1, <2>3, <2>4, PushAppends
<1>2. ASSUME NEW s \in Slots, CleanupRmTid(s)
      PROVE  QueueSorted'
  <2> SUFFICES ASSUME NEW i \in DOMAIN queue', NEW j \in DOMAIN queue', i < j
               PROVE  queue'[i].num < queue'[j].num
    BY DEF QueueSorted
  <2>1. /\ i + 1 \in DOMAIN queue /\ queue'[i] = queue[i + 1]
        /\ j + 1 \in DOMAIN queue /\ queue'[j] = queue[j + 1]
    BY <1>2, RmTidShifts
  <2>2. i \in Int /\ j \in Int /\ i + 1 < j + 1
    <3>1. queue' \in Seq([tid : Slots, num : Nat])
      BY <1>2, QueueTypes DEF CleanupRmTid
    <3>2. DOMAIN queue' \subseteq Int
      BY <3>1, LenProperties
    <3> QED BY <3>2
  <2> QED BY <2>1, <2>2 DEF QueueSorted
<1>3. CASE ~AdmitWork /\ \A s \in Slots : ~CleanupRmTid(s)
  BY <1>3, ClientQueue DEF QueueSorted
<1> QED BY <1>1, <1>2, <1>3

\* Nobody runs in the slot a thread is about to be created in.
LEMMA SlotFreeStep ==
  ASSUME TypeOK, SlotFree, [Next]_vars
  PROVE  SlotFree'
<1>1. CASE ReadCommand \/ Disconnect
  BY <1>1 DEF ClientMoves, ReadCommand, Disconnect, SlotFree, slotVars
<1>2. CASE GetAvailThread \/ AdmitLoad \/ AdmitWork \/ RefuseWork
  BY <1>2 DEF GetAvailThread, AdmitLoad, AdmitWork, RefuseWork, SlotFree,
     slotVars
<1>3. CASE CancelOld
  BY <1>3 DEF CancelOld, Dispatch, SlotFree, slotVars
<1>4. CASE JoinOld \/ JoinOldStale
  BY <1>4 DEF JoinOld, JoinOldStale, PthreadJoin, JoinStale, Dispatch,
     SlotFree, TypeOK
<1>5. CASE CreateThread
  BY <1>5 DEF CreateThread, SlotFree, TypeOK
<1>6. CASE CreateFails
  <2>1. tid \in Slots /\ pool[tid] # "live" /\ cpc' = "read" /\ UNCHANGED pc
    BY <1>6 DEF CreateFails, SlotFree, TypeOK
  <2>2. PICK h \in {pool[tid], "stale"} : pool' = [pool EXCEPT ![tid] = h]
    BY <1>6 DEF CreateFails
  <2>3. \A s \in Slots : pool'[s] # "live" => pool[s] # "live" \/ s = tid
    BY <2>1, <2>2 DEF TypeOK
  <2> QED BY <2>1, <2>3 DEF SlotFree
<1>7. CASE KillJoin \/ KillJoinStale
  BY <1>7 DEF KillJoin, KillJoinStale, PthreadJoin, JoinStale, SlotFree, TypeOK
<1>8. CASE KillSkip \/ KillCancel \/ KillDone \/ CloseSocket \/ LeaveClient
  BY <1>8 DEF KillSkip, KillCancel, KillDone, CloseSocket, LeaveClient,
     SlotFree, slotVars
<1>9. ASSUME NEW s \in Slots, ThreadStep(s)
      PROVE  SlotFree'
  BY <1>9, ThreadFrame, ThreadMoves DEF SlotFree
<1>10. CASE UNCHANGED vars
  BY <1>10 DEF vars, clientVars, slotVars, SlotFree
<1> QED BY <1>1, <1>2, <1>3, <1>4, <1>5, <1>6, <1>7, <1>8, <1>9, <1>10
        DEF Next, ClientMoves, ClientStep

\* A handle is used while it is a thread's.
LEMMA HandlesStep ==
  ASSUME TypeOK, HandlesKept, JoinsLiveThreads, [Next]_vars
  PROVE  HandlesKept' /\ JoinsLiveThreads'
<1> USE DEF HandlesKept, JoinsLiveThreads, TypeOK
<1>1. CASE ReadCommand \/ AdmitLoad \/ AdmitWork \/ RefuseWork
  BY <1>1 DEF ReadCommand, AdmitLoad, AdmitWork, RefuseWork, slotVars
<1>2. CASE Disconnect
  BY <1>2, SlotsRange DEF Disconnect, slotVars
<1>3. CASE GetAvailThread
  BY <1>3 DEF GetAvailThread
<1>4. CASE CancelOld
  BY <1>4 DEF CancelOld, Dispatch, slotVars
<1>5. CASE JoinOld
  BY <1>5 DEF JoinOld, PthreadJoin, Dispatch
<1>6. CASE CreateThread
  BY <1>6 DEF CreateThread
<1>7. CASE CreateFails
  BY <1>7 DEF CreateFails
<1>8. CASE KillSkip
  BY <1>8, SlotsRange DEF KillSkip, slotVars, Slots
<1>9. CASE KillCancel
  BY <1>9 DEF KillCancel, slotVars, Slots
<1>10. CASE KillJoin
  BY <1>10, SlotsRange DEF KillJoin, PthreadJoin, Slots
<1>11. CASE KillDone \/ CloseSocket \/ LeaveClient
  BY <1>11 DEF KillDone, CloseSocket, LeaveClient, slotVars
<1>12. ASSUME NEW s \in Slots, ThreadStep(s)
       PROVE  HandlesKept' /\ JoinsLiveThreads'
  BY <1>12, ThreadFrame, ThreadFlags
<1>13. CASE UNCHANGED vars
  BY <1>13 DEF vars, clientVars, slotVars
<1>14. CASE JoinOldStale \/ KillJoinStale
  \* There is a stale handle to join only after a failure.
  <2>1. fails # 0 /\ fails' = fails
    BY <1>14 DEF JoinOldStale, KillJoinStale, JoinStale
  <2> QED BY <2>1
<1> QED BY <1>1, <1>2, <1>3, <1>4, <1>5, <1>6, <1>7, <1>8, <1>9, <1>10, <1>11,
           <1>12, <1>13, <1>14
        DEF Next, ClientMoves, ClientStep

\* A thread of a WORK stays in work_handler until it takes its node off the
\* queue or is cancelled inside its own cleanup.
LEMMA WorkStays ==
  ASSUME TypeOK, NEW s \in Slots, ThreadStep(s), kind[s] = "WORK", Alive,
         pc[s] \in WorkPcs, ~CleanupRmTid(s)
  PROVE  pc'[s] \in WorkPcs \/ torn'
<1> USE DEF Goto, TypeOK, WorkPcs, BeforeCleanup, InCleanup, Processing
<1>1. CASE HandlerStep(s)
  BY <1>1 DEF HandlerStep, SimpleHandler, SimpleKinds, SlepHandler, SlepWake,
     SlepCancelled, AbrtHandler, AbrtCancel, AbrtNext, AbrtEnd, WrapperReset,
     WrapperResetAstray, WrapperUnlock, Orphan
<1>2. CASE WorkStep(s)
  BY <1>2 DEF WorkStep, WorkBegin, SemWait, SpawnBtches, SolutionFound,
     NoSolutionYet, DozeOver, CheckTurn, NapOver, SendSolution, Unwind,
     DecrementLoad, DecrementStore, JoinBtches, CleanupCancelled, CleanupTurn,
     CleanupResetFlag, CleanupUnlock
<1> QED BY <1>1, <1>2 DEF ThreadStep

\* No thread ever takes back that a cleanup was torn.
LEMMA TornStays ==
  ASSUME [Next]_vars, torn
  PROVE  torn'
<1>1. CASE ClientMoves
  BY <1>1 DEF ClientMoves, ReadCommand, Disconnect, CreateFails, ClientStep,
     GetAvailThread, CancelOld, JoinOld, JoinOldStale, AdmitLoad, AdmitWork,
     RefuseWork, CreateThread, KillSkip, KillCancel, KillJoin, KillJoinStale,
     KillDone, CloseSocket, LeaveClient
<1>2. ASSUME NEW s \in Slots, HandlerStep(s)
      PROVE  torn'
  BY <1>2 DEF HandlerStep, SimpleHandler, SlepHandler, SlepWake, SlepCancelled,
     AbrtHandler, AbrtCancel, AbrtNext, AbrtEnd, WrapperReset,
     WrapperResetAstray, WrapperUnlock, Orphan
<1>3. ASSUME NEW s \in Slots, WorkStep(s)
      PROVE  torn'
  BY <1>3 DEF WorkStep, WorkBegin, SemWait, SpawnBtches, SolutionFound,
     NoSolutionYet, DozeOver, CheckTurn, NapOver, SendSolution, Unwind,
     DecrementLoad, DecrementStore, JoinBtches, CleanupCancelled, CleanupTurn,
     CleanupRmTid, CleanupResetFlag, CleanupUnlock
<1> QED BY <1>1, <1>2, <1>3 DEF Next, ClientMoves, ThreadStep, vars

\* Nor does a failed pthread_create become undone.
LEMMA FailsStay ==
  ASSUME TypeOK, [Next]_vars, fails > 0
  PROVE  fails' > 0
<1>1. CASE ClientMoves /\ ~CreateFails
  BY <1>1 DEF ClientMoves, ReadCommand, Disconnect, ClientStep, GetAvailThread,
     CancelOld, JoinOld, JoinOldStale, AdmitLoad, AdmitWork, RefuseWork,
     CreateThread, KillSkip, KillCancel, KillJoin, KillJoinStale, KillDone,
     CloseSocket, LeaveClient
<1>2. CASE CreateFails
  BY <1>2 DEF CreateFails, TypeOK
<1>3. CASE \E s \in Slots : ThreadStep(s)
  BY <1>3, ThreadFrame
<1> QED BY <1>1, <1>2, <1>3 DEF Next, ClientMoves, vars, clientVars
\* Where no thread runs there is no WORK.
LEMMA FreeSlotIdle ==
  ASSUME TypeOK, SlotFree, cpc \in {"admit", "push", "create"}
  PROVE  tid \in Slots /\ pc[tid] \notin WorkPcs
BY DEF SlotFree, TypeOK, WorkPcs, BeforeCleanup, InCleanup, Processing

\* While Alive, a step of client_handler that neither creates a thread nor
\* touches the queue leaves threads alone, and takes client_handler to
\* pthread_create only with a command other than WORK.
LEMMA ClientNodes ==
  ASSUME ClientMoves,
         ~AdmitWork, ~CreateThread
  PROVE  /\ UNCHANGED <<kind, id, pc, queue, torn>>
         /\ cpc' = "create" /\ cmd' = "WORK" => FALSE
BY DEF ClientMoves, ReadCommand, Disconnect, CreateFails, ClientStep,
   GetAvailThread, CancelOld, JoinOld, JoinOldStale, Dispatch, AdmitLoad,
   RefuseWork, KillSkip, KillCancel, KillJoin, KillJoinStale, KillDone,
   CloseSocket, LeaveClient, localVars

\* client_handler leaves pthread_create only by it, or by its failure.
LEMMA CreateLeft ==
  ASSUME ClientMoves,
         ~CreateThread, cpc = "create"
  PROVE  CreateFails
BY DEF ClientMoves, ReadCommand, Disconnect, CreateFails, ClientStep,
   GetAvailThread, CancelOld, JoinOld, JoinOldStale, AdmitLoad, AdmitWork,
   RefuseWork, KillSkip, KillCancel, KillJoin, KillJoinStale, KillDone,
   CloseSocket, LeaveClient

\* The session's memory does not come back.
LEMMA AliveBefore ==
  ASSUME [Next]_vars, Alive'
  PROVE  Alive
<1>1. CASE ClientMoves
  BY <1>1 DEF ClientMoves, ReadCommand, Disconnect, CreateFails, ClientStep,
     GetAvailThread, CancelOld, JoinOld, JoinOldStale, AdmitLoad, AdmitWork,
     RefuseWork, CreateThread, KillSkip, KillCancel, KillJoin, KillJoinStale,
     KillDone, CloseSocket, LeaveClient, Alive
<1>2. CASE \E s \in Slots : ThreadStep(s)
  BY <1>2, ThreadFrame DEF Alive
<1> QED BY <1>1, <1>2 DEF Next, ClientMoves, vars, clientVars, Alive

\* No failure so far, as long as there is none after a step.
LEMMA WholeBefore ==
  ASSUME TypeOK, [Next]_vars, ~torn', fails' = 0
  PROVE  ~torn /\ fails = 0
BY TornStays, FailsStay DEF TypeOK

\* Every node keeps its owner.
LEMMA NodesStep ==
  ASSUME TypeOK, TurnHeld, OrderInv, [Next]_vars
  PROVE  NodesOwned'
<1> SUFFICES ASSUME Alive', ~torn', fails' = 0, NEW i \in DOMAIN queue'
             PROVE  Owned(queue[i])'
  BY DEF NodesOwned
<1>0. Alive /\ ~torn /\ fails = 0 /\ \A j \in DOMAIN queue : Owned(queue[j])
  BY AliveBefore, WholeBefore DEF OrderInv, NodesOwned
<1>1. CASE AdmitWork
  <2>1. cpc = "push" /\ cpc' = "create" /\ cmd = "WORK"
        /\ UNCHANGED <<cmd, cmdNo, tid, kind, id, pc>>
    BY <1>1 DEF AdmitWork, OrderInv, NumbersBound, localVars
  <2>2. CASE i \in DOMAIN queue
    BY <1>0, <1>1, <2>1, <2>2, PushAppends DEF Owned
  <2>3. CASE i = Len(queue) + 1
    BY <1>1, <2>1, <2>3, PushAppends DEF Owned
  <2> QED BY <1>1, <2>2, <2>3, PushAppends
<1>2. CASE CreateThread
  <2>1. /\ UNCHANGED queue /\ cpc = "create"
        /\ pc' = [pc EXCEPT ![tid] = "run"]
        /\ kind' = [kind EXCEPT ![tid] = cmd]
        /\ id' = [id EXCEPT ![tid] = cmdNo]
    BY <1>2 DEF CreateThread
  <2>2. tid \in Slots /\ pc[tid] \notin WorkPcs
    BY <2>1, FreeSlotIdle DEF OrderInv
  <2>3. queue[i].tid \in Slots
    BY <2>1, QueueDomain
  <2>4. CASE queue[i].tid = tid
    <3>1. cmd = "WORK" /\ queue[i] = [tid |-> tid, num |-> cmdNo]
      BY <1>0, <2>1, <2>2, <2>4 DEF Owned
    <3>2. "run" \in WorkPcs
      BY DEF WorkPcs, BeforeCleanup
    <3> QED BY <2>1, <2>2, <3>1, <3>2 DEF Owned, TypeOK
  <2>5. CASE queue[i].tid # tid
    BY <1>0, <2>1, <2>2, <2>3, <2>5 DEF Owned, TypeOK
  <2> QED BY <2>4, <2>5
<1>3. CASE ClientMoves /\ ~AdmitWork /\ ~CreateThread
  <2>1. UNCHANGED <<kind, id, pc, queue>>
    BY <1>3, ClientNodes
  <2>2. CASE cpc = "create"
    <3>1. CreateFails
      BY <1>3, <2>2, CreateLeft
    <3> QED BY <1>0, <3>1 DEF CreateFails
  <2>3. CASE cpc # "create"
    BY <1>0, <2>1, <2>3 DEF Owned
  <2> QED BY <2>2, <2>3
<1>4. ASSUME NEW s \in Slots, ThreadStep(s), ~CleanupRmTid(s)
      PROVE  Owned(queue[i])'
  <2>1. UNCHANGED <<cpc, cmd, cmdNo, tid, kind, id, queue>>
    BY <1>4, ThreadFrame, ThreadQueue
  <2>2. queue[i].tid \in Slots
    BY <2>1, QueueDomain
  <2>3. CASE queue[i].tid = s
    BY <1>0, <1>4, <2>1, <2>3, WorkStays DEF Owned
  <2>4. CASE queue[i].tid # s
    BY <1>0, <1>4, <2>1, <2>2, <2>4, ThreadMoves DEF Owned
  <2> QED BY <2>3, <2>4
<1>5. ASSUME NEW s \in Slots, ThreadStep(s), CleanupRmTid(s)
      PROVE  Owned(queue[i])'
  \* The other nodes are other threads': numbers do not repeat.
  <2>1. UNCHANGED <<cpc, cmd, cmdNo, tid, kind, id>>
    BY <1>5, ThreadFrame
  <2>2. /\ 1 \in DOMAIN queue /\ queue[1].tid = s
        /\ i + 1 \in DOMAIN queue /\ queue'[i] = queue[i + 1]
    BY <1>5, RmTidShifts
  <2>3. i + 1 # 1 /\ queue[1].num < queue[i + 1].num
    <3>1. i \in Nat \ {0}
      <4>1. queue' \in Seq([tid : Slots, num : Nat])
        BY <1>5, QueueTypes DEF CleanupRmTid
      <4> QED BY <4>1, LenProperties
    <3> QED BY <2>2, <3>1 DEF OrderInv, QueueSorted
  <2>4. pc[s] \in WorkPcs
    BY <1>5 DEF CleanupRmTid, Goto, WorkPcs, InCleanup
  <2>5. ~(cpc = "create" /\ tid = s)
    BY <2>4, FreeSlotIdle DEF OrderInv
  <2>6. id[s] = queue[1].num
    BY <1>0, <2>2, <2>5 DEF Owned
  <2>7. queue[1].num \in Nat /\ queue[i + 1].num \in Nat
        /\ queue[i + 1].tid \in Slots
    BY <2>2, QueueDomain
  <2>8. queue[i + 1].tid # s
    BY <1>0, <2>2, <2>3, <2>5, <2>6, <2>7 DEF Owned
  <2> QED BY <1>0, <1>5, <2>1, <2>2, <2>7, <2>8, ThreadMoves DEF Owned
<1>6. CASE UNCHANGED vars
  BY <1>0, <1>6 DEF vars, clientVars, localVars, Owned
<1> QED BY <1>1, <1>2, <1>3, <1>4, <1>5, <1>6 DEF Next, ClientMoves, ClientStep
\* A thread that steps into work_handler's states was in them before.
LEMMA WorkBefore ==
  ASSUME TypeOK, NEW s \in Slots, ThreadStep(s), pc'[s] \in WorkPcs
  PROVE  pc[s] \in WorkPcs /\ (pc'[s] \in BeforeCleanup => pc[s] \in BeforeCleanup)
<1> USE DEF Goto, TypeOK, WorkPcs, BeforeCleanup, InCleanup, Processing
<1>1. CASE HandlerStep(s)
  BY <1>1, HandlerFrame DEF HandlerTargets
<1>2. CASE WorkStep(s)
  BY <1>2 DEF WorkStep, WorkBegin, SemWait, SpawnBtches, SolutionFound,
     NoSolutionYet, DozeOver, CheckTurn, NapOver, SendSolution, Unwind,
     DecrementLoad, DecrementStore, JoinBtches, CleanupCancelled, CleanupTurn,
     CleanupRmTid, CleanupResetFlag, CleanupUnlock, CancelPoints
<1> QED BY <1>1, <1>2 DEF ThreadStep

\* Every WORK keeps its node.
LEMMA QueuedStep ==
  ASSUME TypeOK, TurnHeld, OrderInv, [Next]_vars
  PROVE  ThreadsQueued'
<1> DEFINE Queued(t, n) == \E i \in DOMAIN queue : queue[i] = [tid |-> t, num |-> n]
<1> SUFFICES ASSUME ~torn', fails' = 0
             PROVE  /\ \A s \in Slots :
                         kind'[s] = "WORK" /\ pc'[s] \in WorkPcs =>
                           Queued(s, id[s])'
                    /\ cpc' = "create" /\ cmd' = "WORK" => Queued(tid, cmdNo)'
  BY DEF ThreadsQueued
<1>0. /\ \A s \in Slots :
           kind[s] = "WORK" /\ pc[s] \in WorkPcs => Queued(s, id[s])
      /\ cpc = "create" /\ cmd = "WORK" => Queued(tid, cmdNo)
  BY WholeBefore DEF OrderInv, ThreadsQueued
<1>1. CASE AdmitWork
  <2>1. UNCHANGED <<tid, cmdNo, kind, id, pc>>
    BY <1>1 DEF AdmitWork, localVars
  <2>2. \A t, n : Queued(t, n) => Queued(t, n)'
    BY <1>1, PushAppends
  <2>3. Queued(tid, cmdNo)'
    BY <1>1, <2>1, PushAppends
  <2> QED BY <1>0, <2>1, <2>2, <2>3
<1>2. CASE CreateThread
  <2>1. /\ UNCHANGED queue /\ cpc = "create" /\ cpc' = "read"
        /\ kind' = [kind EXCEPT ![tid] = cmd]
        /\ id' = [id EXCEPT ![tid] = cmdNo]
        /\ pc' = [pc EXCEPT ![tid] = "run"]
    BY <1>2 DEF CreateThread
  <2> QED BY <1>0, <2>1 DEF TypeOK
<1>3. CASE ClientMoves /\ ~AdmitWork /\ ~CreateThread
  BY <1>0, <1>3, ClientNodes
<1>4. ASSUME NEW s \in Slots, ThreadStep(s)
      PROVE  /\ \A r \in Slots :
                  kind'[r] = "WORK" /\ pc'[r] \in WorkPcs => Queued(r, id[r])'
             /\ cpc' = "create" /\ cmd' = "WORK" => Queued(tid, cmdNo)'
  <2>1. UNCHANGED <<cpc, cmd, cmdNo, tid, kind, id>>
    BY <1>4, ThreadFrame
  <2>2. \A r \in Slots : pc'[r] \in WorkPcs => pc[r] \in WorkPcs
    BY <1>4, ThreadMoves, WorkBefore
  <2>3. CASE ~CleanupRmTid(s)
    BY <1>0, <1>4, <2>1, <2>2, <2>3, ThreadQueue
  <2>4. CASE CleanupRmTid(s)
    \* Only the node of s is dropped, and s leaves work_handler with it.
    <3>1. pc[s] \in WorkPcs /\ pc'[s] \notin WorkPcs
      BY <2>4 DEF CleanupRmTid, Goto, TypeOK, WorkPcs, BeforeCleanup,
         InCleanup, Processing
    <3>2. ~(cpc = "create" /\ tid = s)
      BY <3>1, FreeSlotIdle DEF OrderInv
    <3>3. \A t, n : t # s /\ Queued(t, n) => Queued(t, n)'
      BY <2>4, RmTidShifts
    <3> QED BY <1>0, <2>1, <2>2, <3>1, <3>2, <3>3
  <2> QED BY <2>3, <2>4
<1>5. CASE UNCHANGED vars
  BY <1>0, <1>5 DEF vars, clientVars, localVars
<1> QED BY <1>1, <1>2, <1>3, <1>4, <1>5 DEF Next, ClientMoves, ClientStep

\* The thread that sends a SOLN is the owner of the first node.
LEMMA SenderIsFirst ==
  ASSUME TypeOK, TurnHeld, OrderInv, NEW s \in Slots, SendSolution(s),
         ~torn, fails = 0
  PROVE  /\ queue # <<>> /\ 1 \in DOMAIN queue
         /\ queue[1] = [tid |-> s, num |-> id[s]]
         /\ kind[s] = "WORK"
<1>1. queue # <<>> /\ queue[1].tid = s
  BY DEF SendSolution, Goto, TurnHeld, HoldsTurn, HasTurn
<1>2. 1 \in DOMAIN queue
  <2>1. queue \in Seq([tid : Slots, num : Nat])
    BY DEF TypeOK
  <2> QED BY <1>1, <2>1, EmptySeq, LenProperties
<1>3. pc[s] \in WorkPcs /\ Alive
  BY DEF SendSolution, Running, Goto, WorkPcs, BeforeCleanup
<1>4. ~(cpc = "create" /\ tid = s)
  BY <1>3, FreeSlotIdle DEF OrderInv
<1>5. Owned(queue[1])
  BY <1>2, <1>3 DEF OrderInv, NodesOwned
<1>6. kind[s] = "WORK" /\ id[s] = queue[1].num
  BY <1>1, <1>4, <1>5 DEF Owned
<1>7. queue[1] \in [tid : Slots, num : Nat]
  <2> DEFINE Node == [tid : Slots, num : Nat]
  <2>1. queue \in Seq(Node)
    BY DEF TypeOK
  <2> HIDE DEF Node
  <2>2. queue[1] \in Node
    BY <1>2, <2>1, ElementOfSeq, LenProperties
  <2> QED BY <2>2 DEF Node
<1> QED BY <1>1, <1>2, <1>6, <1>7

\* SOLN replies keep the order of the commands.
LEMMA RepliesStep ==
  ASSUME TypeOK, TurnHeld, OrderInv, [Next]_vars
  PROVE  RepliesInOrder'
<1> SUFFICES ASSUME ~torn', fails' = 0, NEW r \in Slots,
                    kind'[r] = "WORK", pc'[r] \in BeforeCleanup,
                    NEW m \in sent', m.msg = "SOLN"
             PROVE  m.cmd < id'[r]
  BY DEF RepliesInOrder
<1>0. ~torn /\ fails = 0 /\ RepliesInOrder
  BY WholeBefore DEF OrderInv
<1>1. CASE CreateThread
  <2>1. /\ UNCHANGED sent /\ cpc = "create"
        /\ kind' = [kind EXCEPT ![tid] = cmd]
        /\ id' = [id EXCEPT ![tid] = cmdNo]
        /\ pc' = [pc EXCEPT ![tid] = "run"]
    BY <1>1 DEF CreateThread
  <2>2. m.cmd < cmdNo
    BY <2>1 DEF OrderInv, NumbersBound, Serving
  <2> QED BY <1>0, <2>1, <2>2 DEF RepliesInOrder, TypeOK
<1>2. CASE ClientMoves /\ ~CreateThread
  <2>1. UNCHANGED <<sent, kind, id, pc>>
    BY <1>2 DEF ClientMoves, ReadCommand, Disconnect, CreateFails, ClientStep,
       GetAvailThread, CancelOld, JoinOld, JoinOldStale, AdmitLoad, AdmitWork,
       RefuseWork, KillSkip, KillCancel, KillJoin, KillJoinStale, KillDone,
       CloseSocket, LeaveClient, localVars
  <2> QED BY <1>0, <2>1 DEF RepliesInOrder
<1>3. ASSUME NEW s \in Slots, ThreadStep(s)
      PROVE  m.cmd < id'[r]
  <2>1. UNCHANGED <<kind, id>>
    BY <1>3, ThreadFrame
  <2>2. pc[r] \in BeforeCleanup
    BY <1>3, ThreadMoves, WorkBefore DEF WorkPcs
  <2>3. CASE m \in sent
    BY <1>0, <2>1, <2>2, <2>3 DEF RepliesInOrder
  <2>4. CASE m \notin sent
    <3>1. SendSolution(s) /\ m.cmd = id[s]
      BY <1>3, <2>4, ThreadSends
    <3>2. r # s
      BY <3>1 DEF SendSolution, Goto, TypeOK, BeforeCleanup, Processing
    <3>3. PICK i \in DOMAIN queue : queue[i] = [tid |-> r, num |-> id[r]]
      BY <1>0, <2>1, <2>2 DEF OrderInv, ThreadsQueued, WorkPcs
    <3>4. queue[1] = [tid |-> s, num |-> id[s]] /\ 1 \in DOMAIN queue
      BY <1>0, <3>1, SenderIsFirst
    <3>5. 1 < i
      BY <3>2, <3>3, <3>4, QueueDomain
    <3>6. queue[1].num < queue[i].num
      BY <3>4, <3>5 DEF OrderInv, QueueSorted
    <3> QED BY <2>1, <3>1, <3>3, <3>4, <3>6
  <2> QED BY <2>3, <2>4
<1>4. CASE UNCHANGED vars
  BY <1>0, <1>4 DEF vars, localVars, RepliesInOrder
<1> QED BY <1>1, <1>2, <1>3, <1>4 DEF Next, ClientMoves

\* The inductive invariant behind the order of the works, for every session.
THEOREM OrderKept == Spec => []OrderInv
<1>1. Init => OrderInv
  <2> SUFFICES ASSUME Init PROVE OrderInv
    OBVIOUS
  <2>1. DOMAIN queue = {}
    BY DEF Init
  <2>2. NumbersBound /\ QueueSorted
    BY <2>1, SessionAssumption DEF Init, NumbersBound, QueueSorted, Serving
  <2>3. SlotFree /\ HandlesKept /\ JoinsLiveThreads
    BY DEF Init, SlotFree, HandlesKept, JoinsLiveThreads
  <2>4. NodesOwned /\ ThreadsQueued /\ RepliesInOrder
    BY <2>1 DEF Init, NodesOwned, ThreadsQueued, RepliesInOrder
  <2> QED BY <2>2, <2>3, <2>4 DEF OrderInv
<1>2. TypeOK /\ TurnHeld /\ OrderInv /\ [Next]_vars => OrderInv'
  BY NumbersStep, SortedStep, SlotFreeStep, HandlesStep, NodesStep, QueuedStep,
     RepliesStep
  DEF OrderInv
<1> QED BY <1>1, <1>2, TypeCorrect, TurnKept, PTL DEF Spec

\* The SOLN of a WORK never overtakes that of an earlier WORK.
THEOREM RepliesOrdered == Spec => []RepliesInOrder
<1>1. OrderInv => RepliesInOrder
  BY DEF OrderInv
<1> QED BY <1>1, OrderKept, PTL

\* Every node of the queue belongs to a WORK that will remove it.
THEOREM NodesKeepOwners == Spec => []NodesOwned
<1>1. OrderInv => NodesOwned
  BY DEF OrderInv
<1> QED BY <1>1, OrderKept, PTL

\* client_handler joins only threads that exist and were not joined before.
THEOREM JoinsOnce == Spec => []JoinsLiveThreads
<1>1. OrderInv => JoinsLiveThreads
  BY DEF OrderInv
<1> QED BY <1>1, OrderKept, PTL

-----------------------------------------------------------------------------
(* The session implements WorkOrder *)

\* The numbers of the nodes, first to last, and the numbers that were answered:
\* what WorkOrder sees of a session.
Line == [i \in DOMAIN queue |-> queue[i].num]
Answers == {m.cmd : m \in {r \in sent : r.msg = "SOLN"}}
Broken == torn \/ fails > 0

\* Two functions with the same values are the same.
LEMMA SameFunction ==
  ASSUME NEW S, NEW T, NEW f \in [S -> T], NEW g \in [S -> T],
         \A x \in S : f[x] = g[x]
  PROVE  f = g
OBVIOUS

\* The line is as long as the queue.
LEMMA LineType ==
  ASSUME TypeOK
  PROVE  /\ Line \in Seq(Nat) /\ Len(Line) = Len(queue)
         /\ DOMAIN Line = 1 .. Len(queue) /\ Len(queue) \in Nat
<1>1. Len(queue) \in Nat /\ DOMAIN queue = 1 .. Len(queue)
      /\ \A i \in DOMAIN queue : queue[i].num \in Nat
  BY QueueDomain
<1>2. Line \in [1 .. Len(queue) -> Nat]
  BY <1>1 DEF Line
<1>3. Line \in Seq(Nat) /\ DOMAIN Line = 1 .. Len(queue)
  BY <1>1, <1>2, SeqDef
<1> QED BY <1>1, <1>3, LenProperties

\* Whoever is pushed stands at the end of the line.
LEMMA PushIsAdmit ==
  ASSUME TypeOK, NumbersBound, AdmitWork
  PROVE  \E w \in 1 .. MaxCmds : Order!Admit(w)
<1>1. /\ UNCHANGED <<sent, torn, fails, cmdNo>>
      /\ cpc = "push" /\ cpc \in Serving /\ cpc \in Serving \ {"create"}
  BY DEF AdmitWork, Serving
<1>2. cmdNo \in 1 .. MaxCmds /\ cmdNo \in Nat
  BY <1>1, SessionAssumption DEF TypeOK, NumbersBound
<1>3. \A i \in DOMAIN Line : Line[i] < cmdNo
  BY <1>1 DEF Line, NumbersBound
<1>4. \A a \in Answers : a < cmdNo
  BY <1>1 DEF Answers, NumbersBound
<1>5. UNCHANGED <<Answers, Broken>>
  BY <1>1 DEF Answers, Broken
<1>6. Line' = Append(Line, cmdNo)
  <2>1. /\ Append(Line, cmdNo) \in Seq(Nat)
        /\ Len(Append(Line, cmdNo)) = Len(Line) + 1
        /\ \A i \in 1 .. Len(Line) : Append(Line, cmdNo)[i] = Line[i]
        /\ Append(Line, cmdNo)[Len(Line) + 1] = cmdNo
    BY <1>2, LineType, AppendProperties
  <2>2. Append(Line, cmdNo) \in [1 .. Len(queue) + 1 -> Nat]
    BY <2>1, LineType, LenProperties
  <2>3. /\ DOMAIN queue' = 1 .. Len(queue) + 1
        /\ \A i \in 1 .. Len(queue) : queue'[i] = queue[i]
        /\ queue'[Len(queue) + 1].num = cmdNo
    BY PushAppends, QueueDomain
  <2>4. Line' = [i \in 1 .. Len(queue) + 1 |-> queue'[i].num]
    BY <2>3 DEF Line
  <2>5. \A i \in 1 .. Len(queue) + 1 : Line'[i] = Append(Line, cmdNo)[i]
    BY <2>1, <2>3, <2>4, LineType, QueueDomain DEF Line
  <2>6. Line' \in [1 .. Len(queue) + 1 -> Nat]
    BY <2>2, <2>4, <2>5
  <2> QED BY <2>2, <2>5, <2>6, SameFunction
<1> QED BY <1>2, <1>3, <1>4, <1>5, <1>6
        DEF Order!Admit, Line, Answers, Broken

\* The thread whose SOLN is sent stands first and has not been answered.
LEMMA SendIsAnswer ==
  ASSUME TypeOK, TurnHeld, OrderInv, NEW s \in Slots, SendSolution(s),
         ~Broken
  PROVE  Order!Answer
<1>1. ~torn /\ fails = 0 /\ UNCHANGED <<queue, torn, fails>>
  BY DEF Broken, TypeOK, SendSolution, clientVars
<1>2. queue # <<>> /\ 1 \in DOMAIN queue /\ queue[1].num = id[s]
      /\ kind[s] = "WORK"
  <2>1. queue[1] = [tid |-> s, num |-> id[s]] => queue[1].num = id[s]
    OBVIOUS
  <2> QED BY <1>1, <2>1, SenderIsFirst
<1>3. Line # <<>> /\ Head(Line) = id[s]
  <2>1. Line[1] = id[s] /\ 1 \in DOMAIN Line
    BY <1>2 DEF Line
  <2>2. Line # <<>>
    BY <2>1
  <2> QED BY <2>1, <2>2, LineType, HeadTailProperties
<1>4. id[s] \notin Answers
  <2> SUFFICES ASSUME NEW m \in sent, m.msg = "SOLN", m.cmd = id[s]
               PROVE  FALSE
    BY DEF Answers
  <2>1. pc[s] \in BeforeCleanup
    BY DEF SendSolution, Goto, BeforeCleanup
  <2>2. m.cmd < id[s] /\ id[s] \in Nat
    BY <1>1, <1>2, <2>1 DEF OrderInv, RepliesInOrder, TypeOK
  <2> QED BY <2>2
<1>5. Answers' = Answers \cup {id[s]}
  <2> DEFINE new == [cmd |-> id[s], msg |-> "SOLN"]
  <2>1. sent' = sent \cup {new} /\ new.cmd = id[s] /\ new.msg = "SOLN"
    BY DEF SendSolution, Send
  <2> HIDE DEF new
  <2> QED BY <2>1 DEF Answers
<1>6. UNCHANGED <<Line, Broken>>
  BY <1>1 DEF Line, Broken
<1> QED BY <1>3, <1>4, <1>5, <1>6
        DEF Order!Answer, Line, Answers, Broken

\* rm_tid takes the first of the line away.
LEMMA RmTidIsLeave ==
  ASSUME TypeOK, TurnHeld, NEW s \in Slots, CleanupRmTid(s)
  PROVE  Order!Leave
<1>1. UNCHANGED <<sent, torn, fails>>
  BY DEF CleanupRmTid, clientVars
<1>2. UNCHANGED <<Answers, Broken>>
  BY <1>1 DEF Answers, Broken
<1>3. 1 \in DOMAIN Line /\ Line # <<>>
  <2>1. 1 \in DOMAIN Line
    BY RmTidShifts DEF Line
  <2> QED BY <2>1
<1>4. /\ Tail(Line) \in Seq(Nat)
      /\ Len(Tail(Line)) = Len(Line) - 1
      /\ \A i \in 1 .. Len(Tail(Line)) : Tail(Line)[i] = Line[i + 1]
  BY <1>3, LineType, HeadTailProperties
<1>5. Tail(Line) \in [1 .. Len(queue) - 1 -> Nat]
  BY <1>4, LineType, LenProperties
<1>6. DOMAIN queue' = 1 .. Len(queue) - 1
  BY RmTidShifts
<1>7. Line' = [i \in 1 .. Len(queue) - 1 |-> queue'[i].num]
  BY <1>6 DEF Line
<1>8. \A i \in 1 .. Len(queue) - 1 : Line'[i] = Tail(Line)[i]
  BY <1>4, <1>6, <1>7, RmTidShifts, LineType DEF Line
<1>9. Line' = Tail(Line)
  <2>1. Line' \in [1 .. Len(queue) - 1 -> Nat]
    BY <1>5, <1>7, <1>8
  <2> QED BY <1>5, <1>8, <2>1, SameFunction
<1> QED BY <1>2, <1>3, <1>9 DEF Order!Leave, Line, Answers, Broken

\* A step that neither pushes, sends a SOLN nor removes a node leaves the line
\* and the answers alone, and breaks the line at most.
LEMMA RestIsStutter ==
  ASSUME TypeOK, [Next]_vars, ~AdmitWork,
         \A s \in Slots : ~SendSolution(s) /\ ~CleanupRmTid(s)
  PROVE  UNCHANGED <<Line, Answers>> /\ (Broken => Broken')
<1>1. UNCHANGED Line
  <2>1. UNCHANGED queue
    BY ClientQueue
  <2> QED BY <2>1 DEF Line
<1>2. UNCHANGED Answers
  <2>1. CASE \E s \in Slots : ThreadStep(s)
    <3>1. PICK s \in Slots : ThreadStep(s)
      BY <2>1
    <3>2. CASE UNCHANGED sent
      BY <3>2 DEF Answers
    <3>3. CASE ~UNCHANGED sent
      <4>1. PICK m \in Messages \ {"SOLN"} :
              sent' = sent \cup {[cmd |-> id[s], msg |-> m]}
        BY <3>1, <3>3, ThreadSends
      <4> DEFINE new == [cmd |-> id[s], msg |-> m]
      <4>2. sent' = sent \cup {new} /\ new.msg # "SOLN"
        BY <4>1
      <4> HIDE DEF new
      <4> QED BY <4>2 DEF Answers
    <3> QED BY <3>2, <3>3
  <2>2. CASE ClientMoves
    <3>1. UNCHANGED sent
      BY <2>2 DEF ClientMoves, ReadCommand, Disconnect, CreateFails,
         ClientStep, GetAvailThread, CancelOld, JoinOld, JoinOldStale,
         AdmitLoad, RefuseWork, CreateThread, KillSkip, KillCancel, KillJoin,
         KillJoinStale, KillDone, CloseSocket, LeaveClient
    <3> QED BY <3>1 DEF Answers
  <2>3. CASE UNCHANGED vars
    BY <2>3 DEF vars, Answers
  <2> QED BY <2>1, <2>2, <2>3 DEF Next, ClientMoves
<1>3. Broken => Broken'
  BY TornStays, FailsStay DEF Broken
<1> QED BY <1>1, <1>2, <1>3

\* Every step of the session is a step of WorkOrder or none.
LEMMA OrderStep ==
  ASSUME TypeOK, TypeOK', TurnHeld, OrderInv, [Next]_vars
  PROVE  [Order!Next]_(Order!orderVars)
<1>1. CASE Broken
  <2>1. Broken'
    BY <1>1, TornStays, FailsStay DEF Broken
  <2> QED BY <1>1, <2>1 DEF Order!Next, Order!Disorder, Broken
<1>2. CASE AdmitWork
  BY <1>2, PushIsAdmit DEF Order!Next, OrderInv
<1>3. ASSUME NEW s \in Slots, SendSolution(s), ~Broken
      PROVE  Order!Next
  BY <1>3, SendIsAnswer DEF Order!Next
<1>4. ASSUME NEW s \in Slots, CleanupRmTid(s)
      PROVE  Order!Next
  BY <1>4, RmTidIsLeave DEF Order!Next
<1>5. CASE /\ ~Broken /\ ~AdmitWork
           /\ \A s \in Slots : ~SendSolution(s) /\ ~CleanupRmTid(s)
  <2>1. UNCHANGED <<Line, Answers>>
    BY <1>5, RestIsStutter
  <2>2. CASE Broken'
    BY <2>1, <2>2 DEF Order!Next, Order!Break, Line, Answers, Broken
  <2>3. CASE ~Broken'
    <3>1. Broken' = Broken
      BY <1>5, <2>3 DEF Broken
    <3> QED BY <2>1, <3>1 DEF Order!orderVars, Line, Answers, Broken
  <2> QED BY <2>2, <2>3
<1> QED BY <1>1, <1>2, <1>3, <1>4, <1>5

\* The session implements WorkOrder, whatever the number of slots and permits,
\* the limit and the commands: a SOLN is sent for the WORK at the head of the
\* queue, and whoever leaves takes its own node along.
THEOREM WorksOrdered == Spec => WorksInOrder
<1>1. Init => Order!Init
  <2> SUFFICES ASSUME Init PROVE Order!Init
    OBVIOUS
  <2>1. Line = <<>>
    <3>1. queue = <<>>
      BY DEF Init
    <3>2. DOMAIN queue = {}
      BY <3>1
    <3> QED BY <3>2 DEF Line
  <2>2. Answers = {} /\ Broken = FALSE
    BY DEF Init, Answers, Broken
  <2> QED BY <2>1, <2>2 DEF Order!Init, Line, Answers, Broken
<1>2. TypeOK /\ TypeOK' /\ TurnHeld /\ OrderInv /\ [Next]_vars
        => [Order!Next]_(Order!orderVars)
  BY OrderStep
<1> QED BY <1>1, <1>2, TypeCorrect, TurnKept, OrderKept, PTL
        DEF Spec, WorksInOrder, Order!Spec

-----------------------------------------------------------------------------
(* Where permits are lost *)

\* The handlers other than work_handler run outside sem_wait and sem_post.
LEMMA HandlersOutside ==
  ASSUME TypeOK, Alive, NEW s \in Slots, HandlerStep(s)
  PROVE  InProcess' = InProcess
<1>1. pc[s] \notin Processing
  BY DEF HandlerStep, SimpleHandler, SlepHandler, SlepWake, SlepCancelled,
     AbrtHandler, AbrtCancel, AbrtNext, AbrtEnd, WrapperReset,
     WrapperResetAstray, WrapperUnlock, Orphan, Goto, Processing
<1>2. PICK p \in HandlerTargets : pc' = [pc EXCEPT ![s] = p]
  BY HandlerFrame
<1> QED BY <1>1, <1>2 DEF HandlerTargets, Processing, InProcess, TypeOK

\* The steps of work_handler: sem_wait and sem_post move a permit between the
\* semaphore and a thread, and a cancellation in between loses it.
LEMMA WorkPermits ==
  ASSUME TypeOK, NEW s \in Slots, WorkStep(s)
  PROVE  \/ sem' + Cardinality(InProcess') = sem + Cardinality(InProcess)
         \/ s \in InProcess /\ canc[s] /\ pc'[s] = "dec"
<1> USE DEF Goto
<1>0. IsFiniteSet(InProcess) /\ Cardinality(InProcess) \in Nat /\ sem \in Nat
  BY SlotSetsFinite DEF InProcess, TypeOK
<1>1. CASE SemWait(s)
  <2>1. InProcess' = InProcess \cup {s} /\ s \notin InProcess
    BY <1>1 DEF SemWait, InProcess, Processing, TypeOK
  <2>2. Cardinality(InProcess') = Cardinality(InProcess) + 1
    BY <1>0, <2>1, FS_AddElement
  <2>3. sem' = sem - 1
    BY <1>1 DEF SemWait
  <2> QED BY <1>0, <2>2, <2>3
<1>2. CASE SolutionFound(s)
  <2>1. InProcess' = InProcess \ {s} /\ s \in InProcess
    BY <1>2 DEF SolutionFound, InProcess, Processing, TypeOK
  <2>2. Cardinality(InProcess') = Cardinality(InProcess) - 1
    BY <1>0, <2>1, FS_RemoveElement
  <2>3. sem' = sem + 1
    BY <1>2 DEF SolutionFound
  <2> QED BY <1>0, <2>2, <2>3
<1>3. CASE WorkBegin(s) \/ SpawnBtches(s) \/ NoSolutionYet(s) \/ DozeOver(s)
  <2>1. InProcess' = InProcess /\ sem' = sem
    BY <1>3 DEF WorkBegin, SpawnBtches, NoSolutionYet, DozeOver, InProcess,
       Processing, TypeOK
  <2> QED BY <2>1
<1>4. CASE CheckTurn(s) \/ NapOver(s) \/ SendSolution(s)
  <2>1. InProcess' = InProcess /\ sem' = sem
    BY <1>4 DEF CheckTurn, NapOver, SendSolution, InProcess, Processing, TypeOK
  <2> QED BY <2>1
<1>5. CASE Unwind(s)
  <2>1. sem' = sem /\ canc[s] /\ pc'[s] = "dec"
        /\ (s \notin InProcess => InProcess' = InProcess)
    BY <1>5 DEF Unwind, InProcess, Processing, TypeOK
  <2> QED BY <2>1
<1>6. CASE DecrementLoad(s) \/ DecrementStore(s) \/ JoinBtches(s)
           \/ CleanupCancelled(s)
  <2>1. InProcess' = InProcess /\ sem' = sem
    BY <1>6 DEF DecrementLoad, DecrementStore, JoinBtches, CleanupCancelled,
       InProcess, Processing, TypeOK
  <2> QED BY <2>1
<1>7. CASE CleanupTurn(s) \/ CleanupRmTid(s) \/ CleanupResetFlag(s)
           \/ CleanupUnlock(s)
  <2>1. InProcess' = InProcess /\ sem' = sem
    BY <1>7 DEF CleanupTurn, CleanupRmTid, CleanupResetFlag, CleanupUnlock,
       InProcess, Processing, TypeOK
  <2> QED BY <2>1
<1> QED BY <1>1, <1>2, <1>3, <1>4, <1>5, <1>6, <1>7 DEF WorkStep

\* A permit is lost only with a thread that a cancellation takes out of the time
\* between sem_wait and sem_post: never by the creation of a thread in a slot
\* whose former thread is still there, which SlotFree rules out.
THEOREM PermitsLostOnlySo == Spec => PermitsLostByCancel
<1> DEFINE Lost == sem' + Cardinality(InProcess') < sem + Cardinality(InProcess)
           Cancelled == \E s \in InProcess : canc[s] /\ pc'[s] = "dec"
<1>1. TypeOK /\ OrderInv /\ [Next]_vars =>
        [Alive /\ sem' + Cardinality(InProcess') < sem + Cardinality(InProcess)
           => \E s \in InProcess : canc[s] /\ pc'[s] = "dec"]_vars
  <2> SUFFICES ASSUME TypeOK, OrderInv, [Next]_vars, Alive, Lost
               PROVE  Cancelled
    OBVIOUS
  <2>0. sem + Cardinality(InProcess) \in Nat
    <3>1. Cardinality(InProcess) \in Nat
      BY SlotSetsFinite DEF InProcess
    <3>2. sem \in Nat
      BY DEF TypeOK
    <3> QED BY <3>1, <3>2
  <2>1. ASSUME sem' = sem, InProcess' = InProcess
        PROVE  FALSE
    BY <2>0, <2>1
  <2>2. CASE CreateThread
    <3>1. sem' = sem /\ pc' = [pc EXCEPT ![tid] = "run"]
          /\ tid \in Slots /\ pc[tid] \notin WorkPcs
      BY <2>2, FreeSlotIdle DEF CreateThread, OrderInv
    <3>2. InProcess' = InProcess
      BY <3>1 DEF InProcess, Processing, WorkPcs, BeforeCleanup, TypeOK
    <3> QED BY <2>1, <3>1, <3>2
  <2>3. CASE ClientMoves /\ ~CreateThread
    <3>1. UNCHANGED <<sem, pc>>
      BY <2>3, ClientFrame DEF AdmitWork
    <3> QED BY <2>1, <3>1 DEF InProcess
  <2>4. ASSUME NEW s \in Slots, HandlerStep(s)
        PROVE  FALSE
    BY <2>1, <2>4, HandlersOutside, HandlerFrame
  <2>5. ASSUME NEW s \in Slots, WorkStep(s)
        PROVE  Cancelled
    BY <2>0, <2>5, WorkPermits
  <2>6. CASE UNCHANGED vars
    BY <2>1, <2>6 DEF vars, InProcess
  <2> QED BY <2>2, <2>3, <2>4, <2>5, <2>6 DEF Next, ClientMoves, ThreadStep
<1> QED BY <1>1, TypeCorrect, OrderKept, PTL DEF Spec, PermitsLostByCancel

-----------------------------------------------------------------------------
(* What a session leaves behind *)

Idle(s) == pc[s] \in {"none", "exited"}

\* The thread is past clearing its flag: it ended, or has only the mutex left to
\* unlock, which may be gone.
Past(s) == pc[s] \in {"unlock", "undefined"}

\* Without WORK the flag of a slot is set until its thread clears it as the last
\* but one of its steps, and nobody else clears it: get_avail_thread, which has
\* the mutex, hands out a slot nobody runs in, and client_handler_cleanup, which
\* does not, passes over nobody but the one that holds the mutex.
FlagsTell ==
  /\ cmd # "WORK" /\ cpc \notin {"admit", "push"}
  /\ \A s \in Slots :
       /\ kind[s] # "WORK"
       /\ pc[s] \in {"none", "exited", "run", "fin", "slep", "abrt", "next",
                     "unlock", "undefined"}
       /\ ~Idle(s) /\ ~Past(s) => flags[s] = 1 /\ pool[s] = "live"
       /\ pc[s] = "undefined" => ~Alive
  /\ \A r, s \in Slots : Past(r) /\ Past(s) => r = s
  /\ cpc \in {"reuse", "join", "create"} => Idle(tid) /\ flags[tid] = 1
  /\ cpc \in {"kill", "killjoin"} =>
       \A s \in Slots : s < tid => Idle(s) \/ Past(s)
  /\ cpc \in {"close", "closed", "gone"} =>
       \A s \in Slots : Idle(s) \/ Past(s)

\* The handlers other than work_handler clear their flag, then only unlock.
LEMMA HandlersTell ==
  ASSUME TypeOK, FlagsTell, NEW s \in Slots, HandlerStep(s)
  PROVE  FlagsTell'
<1>0. /\ UNCHANGED <<cpc, cmd, cmdNo, tid, fails, pool, kind, id>>
      /\ ~Idle(s)
      /\ \A r \in Slots \ {s} : pc'[r] = pc[r]
  <2>1. UNCHANGED <<cpc, cmd, cmdNo, tid, fails, pool, kind, id>>
    BY ThreadFrame DEF ThreadStep
  <2>2. ~Idle(s) /\ \A r \in Slots \ {s} : pc'[r] = pc[r]
    BY ThreadMoves DEF ThreadStep, Idle
  <2> QED BY <2>1, <2>2
\* Where the step takes the thread, and what it does to the flag.
<1>1. \/ /\ ~Past(s) /\ Alive /\ flags' = flags
         /\ pc'[s] \in {"fin", "slep", "abrt", "next", "exited"}
      \/ /\ ~Past(s) /\ Alive /\ ResetFlag(s)
         /\ pc'[s] = "exited"
      \/ /\ ~Past(s) /\ Alive /\ ResetFlag(s) /\ PoolMutexFree
         /\ pc'[s] = "unlock"
      \/ /\ Past(s) /\ flags' = flags
         /\ pc'[s] = "exited"
      \/ /\ Past(s) /\ ~Alive /\ flags' = flags
         /\ pc'[s] = "undefined"
  <2>1. CASE Orphan(s)
    <3>1. Idle(s) \/ Past(s)
      BY <2>1 DEF Orphan, FlagsTell, Alive
    <3> QED BY <1>0, <2>1, <3>1 DEF Orphan, TypeOK, slotVars
  <2>2. CASE WrapperReset(s) \/ WrapperResetAstray(s) \/ WrapperUnlock(s)
    BY <2>2 DEF WrapperReset, WrapperResetAstray, WrapperUnlock, Goto, Running,
       Past, TypeOK, slotVars
  <2>3. CASE SimpleHandler(s) \/ SlepHandler(s) \/ SlepWake(s)
             \/ SlepCancelled(s)
    BY <2>3 DEF SimpleHandler, SlepHandler, SlepWake, SlepCancelled, Goto,
       Running, Past, TypeOK, slotVars
  <2>4. CASE AbrtHandler(s) \/ AbrtCancel(s) \/ AbrtNext(s) \/ AbrtEnd(s)
    BY <2>4 DEF AbrtHandler, AbrtCancel, AbrtNext, AbrtEnd, Goto, Running, Past,
       TypeOK, slotVars
  <2> QED BY <2>1, <2>2, <2>3, <2>4 DEF HandlerStep
<1>2. \A r \in Slots \ {s} : flags'[r] = flags[r]
  BY <1>1 DEF ResetFlag, TypeOK
<1>3. \A r \in Slots : (Idle(r)' <=> pc'[r] \in {"none", "exited"})
                       /\ (Past(r)' <=> pc'[r] \in {"unlock", "undefined"})
  BY DEF Idle, Past
<1>4. \A r \in Slots : Idle(r) => r # s /\ Idle(r)'
  BY <1>0, <1>3 DEF Idle
<1>5. \A r \in Slots : Idle(r) \/ Past(r) => Idle(r)' \/ Past(r)'
  BY <1>0, <1>1, <1>3 DEF Idle, Past
<1>6. ASSUME NEW r \in Slots
      PROVE  /\ kind'[r] # "WORK"
             /\ pc'[r] \in {"none", "exited", "run", "fin", "slep", "abrt",
                            "next", "unlock", "undefined"}
             /\ ~Idle(r)' /\ ~Past(r)' => flags'[r] = 1 /\ pool'[r] = "live"
             /\ pc'[r] = "undefined" => ~Alive'
  <2>1. Alive' = Alive
    BY <1>0 DEF Alive
  <2>2. CASE r = s
    BY <1>0, <1>1, <1>3, <2>1, <2>2 DEF FlagsTell
  <2>3. CASE r # s
    BY <1>0, <1>2, <1>3, <2>1, <2>3 DEF FlagsTell, Idle, Past
  <2> QED BY <2>2, <2>3
<1>7. ASSUME NEW q \in Slots, NEW r \in Slots, Past(q)', Past(r)'
      PROVE  q = r
  <2>1. \A p \in Slots \ {s} : Past(p)' => Past(p)
    BY <1>0 DEF Past
  <2>2. CASE Past(s)
    BY <1>7, <2>1, <2>2 DEF FlagsTell
  <2>3. CASE ~Past(s)
    <3>1. Past(s)' => \A p \in Slots : ~Past(p)
      BY <1>1, <1>3, <2>3 DEF PoolMutexFree, Past, FlagsTell
    <3> QED BY <1>7, <2>1, <3>1 DEF FlagsTell
  <2> QED BY <2>2, <2>3
<1>8. cpc' \in {"reuse", "join", "create"} => Idle(tid)' /\ flags'[tid'] = 1
  <2> SUFFICES ASSUME cpc \in {"reuse", "join", "create"}
               PROVE  pc'[tid] \in {"none", "exited"} /\ flags'[tid] = 1
    BY <1>0 DEF Idle
  <2>1. tid \in Slots /\ Idle(tid) /\ flags[tid] = 1
    BY DEF FlagsTell, TypeOK
  <2> QED BY <1>2, <1>3, <1>4, <2>1
<1>9. cpc' \in {"kill", "killjoin"} =>
        \A r \in Slots : r < tid' => Idle(r)' \/ Past(r)'
  BY <1>0, <1>5 DEF FlagsTell
<1>10. cpc' \in {"close", "closed", "gone"} =>
         \A r \in Slots : Idle(r)' \/ Past(r)'
  BY <1>0, <1>5 DEF FlagsTell
<1> QED BY <1>0, <1>6, <1>7, <1>8, <1>9, <1>10 DEF FlagsTell

\* client_handler and its cleanup.
LEMMA ClientTells ==
  ASSUME TypeOK, FlagsTell, "WORK" \notin Inputs, ClientMoves
  PROVE  FlagsTell'
<1> USE DEF FlagsTell, Idle, Past, Alive, localVars, slotVars
<1>1. CASE ReadCommand
  BY <1>1 DEF ReadCommand
<1>2. CASE Disconnect
  <2>1. \A s \in Slots : ~(s < 0)
    BY DEF Slots
  <2> QED BY <1>2, <2>1 DEF Disconnect
<1>3. CASE CreateFails
  BY <1>3 DEF CreateFails, TypeOK
<1>4. CASE GetAvailThread
  BY <1>4 DEF GetAvailThread, IsAvailThread, PoolMutexFree, TypeOK
<1>5. CASE CancelOld
  BY <1>5 DEF CancelOld, Dispatch
<1>6. CASE JoinOld \/ JoinOldStale
  BY <1>6 DEF JoinOld, JoinOldStale, PthreadJoin, JoinStale, Dispatch, TypeOK
<1>7. CASE AdmitLoad \/ AdmitWork \/ RefuseWork
  BY <1>7 DEF AdmitLoad, AdmitWork, RefuseWork
<1>8. CASE CreateThread
  BY <1>8 DEF CreateThread, TypeOK
<1>9. CASE KillSkip
  <2>1. \A s \in Slots : s < tid' => s < tid \/ s = tid
    BY <1>9 DEF KillSkip, Slots, TypeOK
  <2> QED BY <1>9, <2>1 DEF KillSkip
<1>10. CASE KillCancel
  BY <1>10 DEF KillCancel
<1>11. CASE KillJoin \/ KillJoinStale
  <2>1. /\ \A s \in Slots : s < tid' => s < tid \/ s = tid
        /\ UNCHANGED <<cmd, kind, pc, flags>> /\ cpc' = "kill"
        /\ cpc = "killjoin"
    BY <1>11 DEF KillJoin, KillJoinStale, Slots, TypeOK
  <2>2. Idle(tid) \/ Past(tid)
    BY <1>11 DEF KillJoin, KillJoinStale, PthreadJoin, JoinStale, TypeOK
  <2>3. \A s \in Slots : pool'[s] = pool[s] \/ Idle(s)
    BY <1>11 DEF KillJoin, KillJoinStale, PthreadJoin, JoinStale, TypeOK
  <2> QED BY <2>1, <2>2, <2>3
<1>12. CASE KillDone
  <2>1. \A s \in Slots : s < tid
    BY <1>12, SessionAssumption DEF KillDone, Slots, TypeOK
  <2> QED BY <1>12, <2>1 DEF KillDone
<1>13. CASE CloseSocket \/ LeaveClient
  BY <1>13 DEF CloseSocket, LeaveClient
<1> QED BY <1>1, <1>2, <1>3, <1>4, <1>5, <1>6, <1>7, <1>8, <1>9, <1>10, <1>11,
        <1>12, <1>13 DEF ClientMoves, ClientStep

\* A session whose client sends no WORK leaves at most one thread behind, which
\* has cleared its flag and only unlocks thread_pool_mutex, whatever fails to be
\* created, whatever memory malloc hands out and whenever the client
\* disconnects. With a WORK its two resets of the flag spoil FlagsTell.
THEOREM OnlyUnlockLeftBehind ==
  ASSUME "WORK" \notin Inputs
  PROVE  Spec => []OnlyUnlockLeft
<1>1. Init => FlagsTell
  BY DEF Init, FlagsTell, Idle, Past
<1>2. TypeOK /\ FlagsTell /\ [Next]_vars => FlagsTell'
  <2> SUFFICES ASSUME TypeOK, FlagsTell, [Next]_vars PROVE FlagsTell'
    OBVIOUS
  <2>1. CASE ClientMoves
    BY <2>1, ClientTells
  <2>2. ASSUME NEW s \in Slots, HandlerStep(s)
        PROVE  FlagsTell'
    BY <2>2, HandlersTell
  <2>3. ASSUME NEW s \in Slots
        PROVE  ~WorkStep(s)
    BY DEF FlagsTell, WorkStep, WorkBegin, SemWait, SpawnBtches, SolutionFound,
       NoSolutionYet, DozeOver, CheckTurn, NapOver, SendSolution, Unwind,
       DecrementLoad, DecrementStore, JoinBtches, CleanupCancelled,
       CleanupTurn, CleanupRmTid, CleanupResetFlag, CleanupUnlock, Goto
  <2>4. CASE UNCHANGED vars
    BY <2>4 DEF vars, clientVars, slotVars, localVars, FlagsTell, Idle, Past,
       Alive
  <2> QED BY <2>1, <2>2, <2>3, <2>4 DEF Next, ClientMoves, ThreadStep
<1>3. FlagsTell => OnlyUnlockLeft
  BY DEF FlagsTell, Idle, Past, OnlyUnlockLeft, Alive
<1> QED BY <1>1, <1>2, <1>3, TypeCorrect, PTL DEF Spec
=============================================================================
