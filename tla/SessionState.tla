---------------------------- MODULE SessionState ----------------------------
(***************************************************************************)
(* The state one connected client's threads share (handler.h, handler.c    *)
(* lines 40-63), and the operations on it of threads.c and of the tid      *)
(* queue of handler_helper.c.                                              *)
(*                                                                         *)
(* A session has one client thread (client_handler) and one command thread *)
(* per slot of thread_pool; a slot is the thread_id of the code. The tid   *)
(* queue is touched under its mutex only, but for abrt_handler's walk, so  *)
(* each operation on it is one atomic step. reset_flag is two, because     *)
(* client_handler_cleanup reads the flags without thread_pool_mutex: the   *)
(* mutex taken and the flag cleared, then the mutex given back.            *)
(***************************************************************************)
EXTENDS Integers, Sequences, FiniteSets

CONSTANTS
  CLIENT_THREAD_COUNT,    \* slots of a client's thread pool
  CONCURRENT_WORK_COUNT,  \* initial value of worker_sem
  GLOBAL_WORK_LIMIT,      \* bound the code puts on global_work_count
  Inputs,                 \* what the client may send; "EOF" is a disconnect
  ReusesFreed,            \* malloc may hand out a freed wrapper_arg before its
                          \* last read; see WrapperResetAstray
  MaxCmds,                \* bound: commands the client sends
  MaxCreateFail           \* bound: pthread_create calls that fail

\* How client_handler classifies a command: the first word together with the
\* length it demands of it; "UNKN" is everything else.
CommandKinds == {"PING", "PONG", "OKAY", "ERRO", "SOLN", "SLEP", "ABRT",
                 "WORK", "UNKN"}

ASSUME SessionAssumption ==
  /\ CLIENT_THREAD_COUNT \in Nat \ {0}
  /\ CONCURRENT_WORK_COUNT \in Nat
  /\ GLOBAL_WORK_LIMIT \in Nat
  /\ Inputs \subseteq CommandKinds \cup {"EOF"}
  /\ ReusesFreed \in BOOLEAN
  /\ MaxCmds \in Nat
  /\ MaxCreateFail \in Nat

Slots == 0 .. CLIENT_THREAD_COUNT - 1

\* "CUST" is the handler a refused WORK is given (cust_handler).
HandlerKinds == CommandKinds \cup {"CUST"}

Messages == {"PONG", "OKAY", "ERRO", "SOLN", "SLEEPING", "WOKE"}

VARIABLES
  up,      \* the server process is running (segfault_handler exits it)
  cpc,     \* where client_handler is
  cmd,     \* handler kind of the command client_handler is serving
  cmdNo,   \* commands read so far, which numbers the current one
  tid,     \* client_handler's thread_id; the loop index of its cleanup
  seen,    \* client_handler's read of global_work_count
  fails,   \* failed pthread_create calls
  flags,   \* thread_avail_flags: 1 when the slot is taken
  pool,    \* thread_pool: what the pthread_t of the slot refers to
  pc,      \* where the command thread of the slot is
  kind,    \* which handler that thread runs
  id,      \* number of the command that thread serves
  canc,    \* a pthread_cancel of that thread is pending
  unwind,  \* work_handler_cleanup was entered by a cancellation
  cur,     \* abrt_handler's curr: number of a queue node, 0 for NULL
  tmp,     \* that thread's read of global_work_count
  queue,   \* work_queue: nodes [tid, num], num identifies the node
  sem,     \* value of worker_sem
  count,   \* global_work_count
  sent,    \* messages written to the socket, each with its command
  torn     \* history: a thread died inside its own normal cleanup

clientVars == <<cpc, cmd, cmdNo, tid, seen, fails>>
slotVars   == <<flags, pool>>
localVars  == <<kind, id, unwind, cur, tmp>>
vars == <<up, clientVars, slotVars, localVars, pc, canc, queue, sem, count,
          sent, torn>>

-----------------------------------------------------------------------------
\* threads.c

\* Nobody is inside reset_flag with thread_pool_mutex locked.
PoolMutexFree == \A s \in Slots : pc[s] \notin {"unlock", "cunlock"}

\* get_avail_thread would return s: the lowest slot whose flag is clear.
IsAvailThread(s) ==
  /\ flags[s] = 0
  /\ \A r \in Slots : r < s => flags[r] = 1

\* *flag = 0 in reset_flag; the thread then holds thread_pool_mutex until its
\* next step.
ResetFlag(s) == flags' = [flags EXCEPT ![s] = 0]

-----------------------------------------------------------------------------
\* The tid queue of handler_helper.c

\* push_tid: a new node at the tail.
PushTid(t, n) == queue' = Append(queue, [tid |-> t, num |-> n])

\* get_tid = t. The code returns -1, no thread_id, for an empty queue.
HasTurn(t) == queue # <<>> /\ queue[1].tid = t

\* rm_tid: drops the head, whoever owns it.
RmTid == queue' = IF queue = <<>> THEN queue ELSE Tail(queue)

-----------------------------------------------------------------------------
\* pthreads, as the code uses them

\* The memory of the session is there: client_handler_cleanup has not yet
\* freed thread_avail_flags and newsockfd, and the client thread's stack,
\* which holds the mutexes and worker_sem, is still in use.
Alive == cpc \notin {"closed", "gone"}

Running == up /\ Alive

\* The mutexes are on the client thread's stack, which outlives the rest.
StackLives == up /\ cpc # "gone"

\* pthread_cancel(thread_pool[t]). A handle that was never written is 0 and
\* faults in pthread_cancel; a stale one, of a thread that was joined or never
\* came to be, may fault, may be found dead, or may by now be the handle of
\* another thread, which is cancelled in its place.
PthreadCancel(t) ==
  \/ /\ pool[t] = "live"
     /\ canc' = [canc EXCEPT ![t] = pc[t] # "exited"]
     /\ UNCHANGED up
  \/ /\ pool[t] = "null"
     /\ up' = FALSE
     /\ UNCHANGED canc
  \/ /\ pool[t] = "stale"
     /\ up' \in BOOLEAN
     /\ UNCHANGED canc
  \/ /\ pool[t] = "stale"
     /\ \E r \in Slots :
          /\ pool[r] = "live"
          /\ canc' = [canc EXCEPT ![r] = pc[r] # "exited"]
     /\ UNCHANGED up

\* pthread_join(thread_pool[t]) returns from the thread of the slot.
PthreadJoin(t) ==
  /\ pool[t] = "live" /\ pc[t] = "exited"
  /\ pool' = [pool EXCEPT ![t] = "stale"]
  /\ UNCHANGED up

\* pthread_join of a stale handle: it faults, finds nobody, or joins the thread
\* that has the handle now. It need not return at all.
JoinStale(t) ==
  /\ pool[t] = "stale"
  /\ \/ up' \in BOOLEAN /\ UNCHANGED pool
     \/ \E r \in Slots : PthreadJoin(r)

Goto(s, from, to) ==
  /\ pc[s] = from
  /\ pc' = [pc EXCEPT ![s] = to]

\* send_message and send_formatted: one write, with cancellation disabled.
Send(s, m) == sent' = sent \cup {[cmd |-> id[s], msg |-> m]}
=============================================================================
