---------------------------- MODULE ClientSession ----------------------------
(***************************************************************************)
(* client_handler and client_handler_cleanup (handler.c) composed with the *)
(* command threads of one client.                                          *)
(*                                                                         *)
(* cpc of the client thread, in program order:                             *)
(*   read      waiting for a command or the end of the stream              *)
(*   slot      the get_avail_thread loop              (line 110)           *)
(*   reuse     pthread_cancel of the slot's old thread (lines 118-119)     *)
(*   join      pthread_join of it                     (line 120)           *)
(*   admit     the load of global_work_count          (lines 178-181)      *)
(*   push      its store, push_tid or the refusal     (lines 182-193)      *)
(*   create    pthread_create                         (line 209)           *)
(*   kill      the scan of client_handler_cleanup     (lines 380-382)      *)
(*   killjoin  pthread_join in that scan              (line 383)           *)
(*   close     flags freed, socket closed             (lines 387-397)      *)
(*   closed    the client's own flag still to reset   (lines 404-413)      *)
(*   gone      the client thread has ended                                 *)
(***************************************************************************)
EXTENDS CommandHandlers, WorkHandler

Init ==
  /\ up = TRUE
  /\ cpc = "read" /\ cmd = "UNKN" /\ cmdNo = 0 /\ tid = 0 /\ seen = 0
  /\ fails = 0
  /\ flags = [s \in Slots |-> 0]
  /\ pool = [s \in Slots |-> "null"]
  /\ pc = [s \in Slots |-> "none"]
  /\ kind = [s \in Slots |-> "UNKN"]
  /\ id = [s \in Slots |-> 0]
  /\ canc = [s \in Slots |-> FALSE]
  /\ unwind = [s \in Slots |-> FALSE]
  /\ cur = [s \in Slots |-> 0]
  /\ tmp = [s \in Slots |-> 0]
  /\ queue = <<>>
  /\ sem = CONCURRENT_WORK_COUNT
  /\ count = 0
  /\ sent = {}
  /\ torn = FALSE

\* read, join_client_command and get_command deliver the next command.
ReadCommand ==
  /\ up /\ cpc = "read"
  /\ cmdNo < MaxCmds
  /\ \E k \in Inputs \ {"EOF"} : cmd' = k
  /\ cmdNo' = cmdNo + 1
  /\ cpc' = "slot"
  /\ UNCHANGED <<up, tid, seen, fails, slotVars, localVars, pc, canc, queue,
                 sem, count, sent, torn>>

\* read returns 0 or fails. Commands received before have all been served: the
\* inner loop drains the buffer before the next read.
Disconnect ==
  /\ up /\ cpc = "read"
  /\ "EOF" \in Inputs
  /\ cpc' = "kill" /\ tid' = 0
  /\ UNCHANGED <<up, cmd, cmdNo, seen, fails, slotVars, localVars, pc, canc,
                 queue, sem, count, sent, torn>>

\* Mutant: the slot is handed out and its flag is not set.
GetAvailThreadUnmarked ==
  /\ up /\ cpc = "slot"
  /\ PoolMutexFree
  /\ \E s \in Slots : IsAvailThread(s) /\ tid' = s
  /\ cpc' = "reuse"
  /\ UNCHANGED <<up, cmd, cmdNo, seen, fails, slotVars, localVars, pc, canc,
                 queue, sem, count, sent, torn>>

GetAvailThread ==
  /\ up /\ cpc = "slot"
  /\ PoolMutexFree
  /\ \E s \in Slots :
       /\ IsAvailThread(s)
       /\ flags' = [flags EXCEPT ![s] = 1]
       /\ tid' = s
  /\ cpc' = "reuse"
  /\ UNCHANGED <<up, cmd, cmdNo, seen, fails, pool, localVars, pc, canc, queue,
                 sem, count, sent, torn>>

\* Where client_handler goes once the slot is its own.
Dispatch == cpc' = IF cmd = "WORK" THEN "admit" ELSE "create"

\* if(thread_pool[thread_id]) pthread_cancel(...)
CancelOld ==
  /\ up /\ cpc = "reuse"
  /\ \/ /\ pool[tid] = "null"
        /\ Dispatch
        /\ UNCHANGED <<up, canc>>
     \/ /\ pool[tid] # "null"
        /\ PthreadCancel(tid)
        /\ cpc' = "join"
  /\ UNCHANGED <<cmd, cmdNo, tid, seen, fails, slotVars, localVars, pc, queue,
                 sem, count, sent, torn>>

JoinOld ==
  /\ up /\ cpc = "join"
  /\ PthreadJoin(tid)
  /\ Dispatch
  /\ UNCHANGED <<cmd, cmdNo, tid, seen, fails, flags, localVars, pc, canc,
                 queue, sem, count, sent, torn>>

\* The same join when the handle is stale.
JoinOldStale ==
  /\ up /\ cpc = "join"
  /\ JoinStale(tid)
  /\ Dispatch
  /\ UNCHANGED <<cmd, cmdNo, tid, seen, fails, flags, localVars, pc, canc,
                 queue, sem, count, sent, torn>>

AdmitLoad ==
  /\ up /\ cpc = "admit"
  /\ seen' = count
  /\ cpc' = "push"
  /\ UNCHANGED <<up, cmd, cmdNo, tid, fails, slotVars, localVars, pc, canc,
                 queue, sem, count, sent, torn>>

AdmitWork ==
  /\ up /\ cpc = "push"
  /\ seen < GLOBAL_WORK_LIMIT
  /\ count' = seen + 1
  /\ PushTid(tid, cmdNo)
  /\ cpc' = "create"
  /\ UNCHANGED <<up, cmd, cmdNo, tid, seen, fails, slotVars, localVars, pc,
                 canc, sem, sent, torn>>

RefuseWork ==
  /\ up /\ cpc = "push"
  /\ seen >= GLOBAL_WORK_LIMIT
  /\ cmd' = "CUST"
  /\ cpc' = "create"
  /\ UNCHANGED <<up, cmdNo, tid, seen, fails, slotVars, localVars, pc, canc,
                 queue, sem, count, sent, torn>>

CreateThread ==
  /\ up /\ cpc = "create"
  /\ pool' = [pool EXCEPT ![tid] = "live"]
  /\ pc' = [pc EXCEPT ![tid] = "run"]
  /\ kind' = [kind EXCEPT ![tid] = cmd]
  /\ id' = [id EXCEPT ![tid] = cmdNo]
  /\ canc' = [canc EXCEPT ![tid] = FALSE]
  /\ unwind' = [unwind EXCEPT ![tid] = FALSE]
  /\ cpc' = "read"
  /\ UNCHANGED <<up, cmd, cmdNo, tid, seen, fails, flags, cur, tmp, queue, sem,
                 count, sent, torn>>

\* pthread_create fails. It returns a positive error number, the code tests for
\* a negative one, and the command is forgotten with its flag set. The handle
\* is left alone or names a thread that never came to be.
CreateFails ==
  /\ up /\ cpc = "create"
  /\ fails < MaxCreateFail
  /\ fails' = fails + 1
  /\ \E h \in {pool[tid], "stale"} : pool' = [pool EXCEPT ![tid] = h]
  /\ cpc' = "read"
  /\ UNCHANGED <<up, cmd, cmdNo, tid, seen, flags, localVars, pc, canc, queue,
                 sem, count, sent, torn>>

-----------------------------------------------------------------------------
\* client_handler_cleanup

\* A slot whose flag is clear is passed over.
KillSkip ==
  /\ up /\ cpc = "kill"
  /\ tid \in Slots /\ flags[tid] = 0
  /\ tid' = tid + 1
  /\ UNCHANGED <<up, cpc, cmd, cmdNo, seen, fails, slotVars, localVars, pc,
                 canc, queue, sem, count, sent, torn>>

\* Mutant: every slot is cancelled and joined, whatever its flag says.
KillCancelAll ==
  /\ up /\ cpc = "kill"
  /\ tid \in Slots
  /\ PthreadCancel(tid)
  /\ cpc' = "killjoin"
  /\ UNCHANGED <<cmd, cmdNo, tid, seen, fails, slotVars, localVars, pc, queue,
                 sem, count, sent, torn>>

KillCancel ==
  /\ up /\ cpc = "kill"
  /\ tid \in Slots /\ flags[tid] = 1
  /\ PthreadCancel(tid)
  /\ cpc' = "killjoin"
  /\ UNCHANGED <<cmd, cmdNo, tid, seen, fails, slotVars, localVars, pc, queue,
                 sem, count, sent, torn>>

\* Mutant: the cleanup waits for the thread to reset its flag, not for its end.
KillJoinFlag ==
  /\ up /\ cpc = "killjoin"
  /\ flags[tid] = 0
  /\ pool' = [pool EXCEPT ![tid] = "stale"]
  /\ tid' = tid + 1
  /\ cpc' = "kill"
  /\ UNCHANGED <<up, cmd, cmdNo, seen, fails, flags, localVars, pc, canc, queue,
                 sem, count, sent, torn>>

KillJoin ==
  /\ up /\ cpc = "killjoin"
  /\ PthreadJoin(tid)
  /\ tid' = tid + 1
  /\ cpc' = "kill"
  /\ UNCHANGED <<cmd, cmdNo, seen, fails, flags, localVars, pc, canc, queue,
                 sem, count, sent, torn>>

\* The same join when the handle is stale.
KillJoinStale ==
  /\ up /\ cpc = "killjoin"
  /\ JoinStale(tid)
  /\ tid' = tid + 1
  /\ cpc' = "kill"
  /\ UNCHANGED <<cmd, cmdNo, seen, fails, flags, localVars, pc, canc, queue,
                 sem, count, sent, torn>>

KillDone ==
  /\ up /\ cpc = "kill"
  /\ tid \notin Slots
  /\ cpc' = "close"
  /\ UNCHANGED <<up, cmd, cmdNo, tid, seen, fails, slotVars, localVars, pc,
                 canc, queue, sem, count, sent, torn>>

CloseSocket ==
  /\ up /\ cpc = "close"
  /\ cpc' = "closed"
  /\ UNCHANGED <<up, cmd, cmdNo, tid, seen, fails, slotVars, localVars, pc,
                 canc, queue, sem, count, sent, torn>>

\* The client's flag in the driver's pool is reset and the thread returns. Its
\* stack goes with it, and the mutexes and worker_sem on it.
LeaveClient ==
  /\ up /\ cpc = "closed"
  /\ cpc' = "gone"
  /\ UNCHANGED <<up, cmd, cmdNo, tid, seen, fails, slotVars, localVars, pc,
                 canc, queue, sem, count, sent, torn>>

-----------------------------------------------------------------------------
\* What the client thread does by itself, once it has something to do. The joins
\* of stale handles are not here: nothing makes them return.
ClientStep ==
  \/ GetAvailThread \/ CancelOld \/ JoinOld
  \/ AdmitLoad \/ AdmitWork \/ RefuseWork
  \/ CreateThread
  \/ KillSkip \/ KillCancel \/ KillJoin \/ KillDone
  \/ CloseSocket \/ LeaveClient

ThreadStep(s) == HandlerStep(s) \/ WorkStep(s)

Next ==
  \/ ReadCommand \/ Disconnect \/ CreateFails
  \/ JoinOldStale \/ KillJoinStale
  \/ ClientStep
  \/ \E s \in Slots : ThreadStep(s)

Spec == Init /\ [][Next]_vars

\* The scheduler runs every thread that can run; nothing makes the client send
\* or disconnect, and a pthread_join of a stale handle need not return. A reply's
\* write is taken to return: the client reads what it is sent. SF on
\* SolutionFound assumes that the search of every WORK meets a solution; SF on
\* SemWait that a permit that comes back again and again is taken.
Fairness ==
  /\ WF_vars(ClientStep)
  /\ \A s \in Slots :
       /\ WF_vars(ThreadStep(s))
       /\ SF_vars(SolutionFound(s))
       /\ SF_vars(SemWait(s))

FairSpec == Spec /\ Fairness

-----------------------------------------------------------------------------
Pcs == {"none", "exited", "undefined", "run", "fin", "slep", "abrt", "next",
        "reflag", "unlock", "cunlock"}
       \cup WorkPcs

TypeOK ==
  /\ up \in BOOLEAN
  /\ cpc \in {"read", "slot", "reuse", "join", "admit", "push", "create",
              "kill", "killjoin", "close", "closed", "gone"}
  /\ cmd \in HandlerKinds
  /\ cmdNo \in Nat
  /\ tid \in 0 .. CLIENT_THREAD_COUNT
  /\ cpc \notin {"kill", "close", "closed", "gone"} => tid \in Slots
  /\ seen \in Int
  /\ fails \in Nat
  /\ flags \in [Slots -> {0, 1}]
  /\ pool \in [Slots -> {"null", "live", "stale"}]
  /\ pc \in [Slots -> Pcs]
  /\ kind \in [Slots -> HandlerKinds]
  /\ id \in [Slots -> Nat]
  /\ canc \in [Slots -> BOOLEAN]
  /\ unwind \in [Slots -> BOOLEAN]
  /\ cur \in [Slots -> Nat]
  /\ tmp \in [Slots -> Int]
  /\ queue \in Seq([tid : Slots, num : Nat])
  /\ sem \in Nat
  /\ count \in Int
  /\ sent \subseteq [cmd : Nat, msg : Messages]
  /\ torn \in BOOLEAN

-----------------------------------------------------------------------------
(* Safety *)

\* The thread has seen its own thread_id at the head of the queue and will act
\* on that: send its SOLN, or take a node off the queue.
HoldsTurn(s) ==
  \/ pc[s] \in {"send", "pop"}
  \/ pc[s] \in {"dec", "dec2", "joinb", "cturn"} /\ ~unwind[s]

\* The turn a WORK thread read with get_tid, outside any lock it keeps, is still
\* its turn when it sends its SOLN and when rm_tid drops the head of the queue:
\* no other thread's cleanup, no push and no abort takes it away in between.
TurnHeld == \A s \in Slots : HoldsTurn(s) => HasTurn(s)

\* The threads between sem_wait and sem_post.
InProcess == {s \in Slots : pc[s] \in Processing}

\* readme.txt: at most CONCURRENT_WORK_COUNT works of a client are processed at
\* a time, however threads are cancelled between sem_wait and sem_post.
ConcurrencyBound == Cardinality(InProcess) <= CONCURRENT_WORK_COUNT

\* No permit is lost but with a thread that is cancelled between sem_wait and
\* sem_post; work_handler_cleanup has the semaphore at hand and does not use it.
PermitsLostByCancel ==
  [][Alive /\ sem' + Cardinality(InProcess') < sem + Cardinality(InProcess) =>
       \E s \in InProcess : canc[s] /\ pc'[s] = "dec"]_vars

\* The SOLN of a WORK never overtakes the SOLN of an earlier WORK that is still
\* in work_handler, aborts and disconnects included, as long as no thread has
\* died inside its own normal cleanup and none has failed to come to be: its
\* node, left in the queue, would pass for a later thread's of the same slot.
RepliesInOrder ==
  ~torn /\ fails = 0 =>
    \A s \in Slots : kind[s] = "WORK" /\ pc[s] \in BeforeCleanup =>
      \A m \in sent : m.msg = "SOLN" => m.cmd < id[s]

Order == INSTANCE WorkOrder WITH
  Works <- 1 .. MaxCmds,
  line <- [i \in DOMAIN queue |-> queue[i].num],
  answers <- {m.cmd : m \in {r \in sent : r.msg = "SOLN"}},
  broken <- torn \/ fails > 0

\* The queue of thread_ids, the turns read from it without a lock and the
\* cleanups of cancelled threads implement WorkOrder: a SOLN is sent for the WORK
\* at the head, and whoever leaves takes its own node along, as long as no
\* thread has died inside its own cleanup and none has failed to come to be.
WorksInOrder == Order!Spec

\* A node is the turn of a thread that will still take it off the queue, or of
\* the thread client_handler is about to create.
Owned(n) ==
  \/ cpc = "create" /\ cmd = "WORK" /\ n = [tid |-> tid, num |-> cmdNo]
  \/ /\ kind[n.tid] = "WORK" /\ id[n.tid] = n.num
     /\ pc[n.tid] \in WorkPcs

\* Nobody waits for a turn that nobody will release: every node of the queue
\* belongs to a WORK that is still going to remove it. A cancellation leaves
\* the queue whole unless it strikes inside the normal cleanup.
NodesOwned ==
  Alive /\ ~torn /\ fails = 0 => \A i \in DOMAIN queue : Owned(queue[i])

\* client_handler and its cleanup cancel and join only threads that exist and
\* were not joined before, when every pthread_create succeeded.
JoinsLiveThreads ==
  fails = 0 /\ cpc \in {"join", "killjoin"} => pool[tid] = "live"

-----------------------------------------------------------------------------
(* What keeps the order: the parts of the inductive invariant *)

\* client_handler has read a command and not yet created its thread.
Serving == {"slot", "reuse", "join", "admit", "push", "create"}

\* Only a WORK is admitted, and commands are numbered: what a thread serves, what
\* was answered and who stands in the queue was read before, and before the
\* command that is being served now.
NumbersBound ==
  /\ cmdNo <= MaxCmds
  /\ cpc \in Serving => cmdNo > 0
  /\ cpc \in {"admit", "push"} => cmd = "WORK"
  /\ \A s \in Slots : id[s] <= cmdNo /\ (cpc \in Serving => id[s] < cmdNo)
  /\ \A m \in sent : m.cmd <= cmdNo /\ (cpc \in Serving => m.cmd < cmdNo)
  /\ \A i \in DOMAIN queue :
       /\ queue[i].num <= cmdNo
       /\ cpc \in Serving \ {"create"} => queue[i].num < cmdNo

\* The queue is in the order of the commands.
QueueSorted ==
  \A i, j \in DOMAIN queue : i < j => queue[i].num < queue[j].num

\* Nobody runs behind a handle that is not a thread's, and the slot a thread is
\* about to be created in has such a handle.
SlotFree ==
  /\ \A s \in Slots : pool[s] # "live" => pc[s] \in {"none", "exited", "undefined"}
  /\ cpc \in {"admit", "push", "create"} => pool[tid] # "live"

\* While every pthread_create succeeds, a handle is stale only from the join of its
\* thread to the next creation, and a slot that is taken has a handle.
HandlesKept ==
  fails = 0 =>
    \A s \in Slots :
      /\ pool[s] = "stale" =>
           \/ cpc \in {"admit", "push", "create"} /\ s = tid
           \/ cpc \in {"kill", "killjoin", "close", "closed", "gone"} /\ s < tid
      /\ pool[s] = "null" /\ flags[s] = 1 =>
           cpc \in {"reuse", "admit", "push", "create"} /\ s = tid

\* A WORK has its node in the queue from before its thread is created until it
\* takes the node off itself.
ThreadsQueued ==
  ~torn /\ fails = 0 =>
    /\ \A s \in Slots : kind[s] = "WORK" /\ pc[s] \in WorkPcs =>
         \E i \in DOMAIN queue : queue[i] = [tid |-> s, num |-> id[s]]
    /\ cpc = "create" /\ cmd = "WORK" =>
         \E i \in DOMAIN queue : queue[i] = [tid |-> tid, num |-> cmdNo]

\* Inductive together with TypeOK and TurnHeld; see OrderProofs. It says why the
\* queue of thread_ids orders the works although slots are reused: nodes and
\* threads stay in step, each with one number, in the order of the numbers.
OrderInv ==
  /\ NumbersBound /\ QueueSorted /\ SlotFree /\ HandlesKept
  /\ JoinsLiveThreads
  /\ NodesOwned /\ ThreadsQueued /\ RepliesInOrder

-----------------------------------------------------------------------------
\* When client_handler_cleanup has freed the session, of the command threads it
\* did not join at most one is left, and all that one still does is unlock
\* thread_pool_mutex: the cleanup reads the flags without the mutex and passes
\* over a thread inside reset_flag, but over nobody who has more to do.
OnlyUnlockLeft ==
  ~Alive =>
    /\ \A s \in Slots : pc[s] \in {"none", "exited", "unlock", "undefined"}
    /\ \A r, s \in Slots :
         {pc[r], pc[s]} \subseteq {"unlock", "undefined"} => r = s

-----------------------------------------------------------------------------
(* Liveness, under FairSpec *)

\* pthread_create failed for command n, which is forgotten.
Forgotten(n) == fails > 0 /\ cpc = "read" /\ cmdNo = n /\ id[tid] # n

\* readme.txt: "If maximum number of commands reached, the commands are just
\* queued". Every command that is read gets an answer, also when the pool is
\* full and also when the client disconnects right after it, unless no thread
\* could be created for it or the process dies. Every failure of pthread_create
\* keeps its slot for good: while one slot is left the commands go through it,
\* and with as many failures as slots client_handler waits for ever.
EveryCommandAnswered ==
  \A n \in 1 .. MaxCmds :
    cmdNo = n /\ cpc = "slot" /\ cmd # "ABRT"
      ~> \/ \E m \in sent : m.cmd = n
         \/ Forgotten(n)
         \/ fails >= CLIENT_THREAD_COUNT
         \/ ~up

\* Once the client has disconnected its thread ends and the client's flag in the
\* driver's pool is reset, as the comment at handler.c:403 insists, unless the
\* cleanup waits for a thread that could not be created.
SessionEnds ==
  cpc = "kill" ~> \/ cpc = "gone" \/ ~up
                  \/ cpc = "killjoin" /\ pool[tid] = "stale"

-----------------------------------------------------------------------------
(* What the documentation says and the code does not keep *)

\* readme.txt: "Server can at most concurrently work on GLOBAL_WORK_LIMIT works
\* at a given time".
WorksWithinLimit ==
  Cardinality({s \in Slots : kind[s] = "WORK" /\ pc[s] \in BeforeCleanup})
    <= GLOBAL_WORK_LIMIT

\* readme.txt: "Segfault-less* server".
NoSegfault == up

\* readme.txt: "WORK - provide work for the server, returns SOLN if solution
\* found". Without ABRT and without a disconnect nobody cancels a WORK.
WorkNotKilled ==
  \A s \in Slots : kind[s] = "WORK" /\ pc[s] \in BeforeCleanup => ~canc[s]
=============================================================================
