--------------------------- MODULE CommandHandlers ---------------------------
(***************************************************************************)
(* handler_wrapper and the handlers of handler.c other than work_handler,  *)
(* as steps of the command thread of slot s. Only slep_handler reaches a   *)
(* cancellation point with cancellation enabled: every send disables it.   *)
(***************************************************************************)
EXTENDS SessionState

\* What the handlers that send one message and return may send.
Response(k) ==
  IF k = "PING" THEN {"PONG"}
  ELSE IF k = "SOLN" THEN {"OKAY", "ERRO"}
  ELSE {"ERRO"}

SimpleKinds == HandlerKinds \ {"SLEP", "ABRT", "WORK"}

\* ping_, pong_, okay_, erro_, unkn_, cust_ and soln_handler.
SimpleHandler(s) ==
  /\ Running
  /\ kind[s] \in SimpleKinds
  /\ Goto(s, "run", "fin")
  /\ \E m \in Response(kind[s]) : Send(s, m)
  /\ UNCHANGED <<up, clientVars, slotVars, localVars, canc, queue, sem, count,
                 torn>>

\* slep_handler up to sleep(3).
SlepHandler(s) ==
  /\ Running
  /\ kind[s] = "SLEP"
  /\ Goto(s, "run", "slep")
  /\ Send(s, "SLEEPING")
  /\ UNCHANGED <<up, clientVars, slotVars, localVars, canc, queue, sem, count,
                 torn>>

\* slep_handler from the end of sleep(3).
SlepWake(s) ==
  /\ Running
  /\ ~canc[s]
  /\ Goto(s, "slep", "fin")
  /\ Send(s, "WOKE")
  /\ UNCHANGED <<up, clientVars, slotVars, localVars, canc, queue, sem, count,
                 torn>>

\* sleep(3) acts on a cancellation. No cleanup handler is installed, so the
\* thread ends there with its flag still set.
SlepCancelled(s) ==
  /\ Running
  /\ canc[s]
  /\ Goto(s, "slep", "exited")
  /\ UNCHANGED <<up, clientVars, slotVars, localVars, canc, queue, sem, count,
                 sent, torn>>

-----------------------------------------------------------------------------
\* abrt_handler walks the queue without queue_mutex: it holds a pointer to a
\* node from one step to the next, and rm_tid may free the node in between.

\* The number of the node after position i, 0 for NULL.
NextNode(i) == IF i < Len(queue) THEN queue[i + 1].num ELSE 0

\* curr = *tid_queue
AbrtHandler(s) ==
  /\ Running
  /\ kind[s] = "ABRT"
  /\ Goto(s, "run", "abrt")
  /\ cur' = [cur EXCEPT ![s] = NextNode(0)]
  /\ UNCHANGED <<up, clientVars, slotVars, kind, id, unwind, tmp, canc, queue,
                 sem, count, sent, torn>>

\* The node curr points to is at position i of the queue.
OnNode(s, i) == queue[i].num = cur[s]

\* rm_tid has freed the node curr points to.
OnFreedNode(s) == cur[s] # 0 /\ \A i \in DOMAIN queue : ~OnNode(s, i)

\* pthread_cancel(thread_pool[curr->thread_id]). Through a freed node the
\* thread_id is garbage: the walk faults, cancels some thread or cancels none.
AbrtCancel(s) ==
  /\ Running
  /\ Goto(s, "abrt", "next")
  /\ \/ \E i \in DOMAIN queue : OnNode(s, i) /\ PthreadCancel(queue[i].tid)
     \/ /\ OnFreedNode(s)
        /\ \/ \E t \in Slots : PthreadCancel(t)
           \/ up' \in BOOLEAN /\ UNCHANGED canc
  /\ UNCHANGED <<clientVars, slotVars, localVars, queue, sem, count, sent,
                 torn>>

\* curr = curr->next. Through a freed node the walk faults, ends, or goes on in
\* the queue, which may have reused the memory.
AbrtNext(s) ==
  /\ Running
  /\ Goto(s, "next", "abrt")
  /\ \/ /\ \E i \in DOMAIN queue :
             /\ OnNode(s, i)
             /\ cur' = [cur EXCEPT ![s] = NextNode(i)]
        /\ UNCHANGED up
     \/ /\ OnFreedNode(s)
        /\ up' \in BOOLEAN
        /\ \E n \in {0} \cup {queue[i].num : i \in DOMAIN queue} :
             cur' = [cur EXCEPT ![s] = n]
  /\ UNCHANGED <<clientVars, slotVars, kind, id, unwind, tmp, canc, queue, sem,
                 count, sent, torn>>

\* while(curr) ends.
AbrtEnd(s) ==
  /\ Running
  /\ cur[s] = 0
  /\ Goto(s, "abrt", "fin")
  /\ UNCHANGED <<up, clientVars, slotVars, localVars, canc, queue, sem, count,
                 sent, torn>>

-----------------------------------------------------------------------------
\* The end of handler_wrapper, cancellation disabled. It frees its arguments and
\* reads the address of thread_pool_mutex from what it freed.

\* Mutant: the thread ends without clearing its flag.
WrapperResetKeepsFlag(s) ==
  /\ Running
  /\ PoolMutexFree
  /\ Goto(s, "fin", "unlock")
  /\ UNCHANGED <<up, clientVars, slotVars, localVars, canc, queue, sem, count,
                 sent, torn>>

\* The freed memory still holds the address: the flag is cleared under the mutex.
WrapperReset(s) ==
  /\ Running
  /\ PoolMutexFree
  /\ Goto(s, "fin", "unlock")
  /\ ResetFlag(s)
  /\ UNCHANGED <<up, clientVars, pool, localVars, canc, queue, sem, count,
                 sent, torn>>

\* Another thread was given the memory in between: the address read is garbage
\* and faults, or is another session's mutex, and the flag is cleared while this
\* session's may be locked. A malloc with a cache per thread (glibc since 2.26)
\* keeps the chunk with the thread and this field of it intact.
WrapperResetAstray(s) ==
  /\ Running
  /\ ReusesFreed
  /\ Goto(s, "fin", "exited")
  /\ ResetFlag(s)
  /\ up' \in BOOLEAN
  /\ UNCHANGED <<clientVars, pool, localVars, canc, queue, sem, count, sent,
                 torn>>

\* pthread_mutex_unlock in reset_flag, and the return of the thread.
WrapperUnlock(s) ==
  /\ StackLives
  /\ Goto(s, "unlock", "exited")
  /\ UNCHANGED <<up, clientVars, slotVars, localVars, canc, queue, sem, count,
                 sent, torn>>

\* A command thread that is still running when the memory it uses next is gone.
\* The access may fault, and nothing is said of the thread afterwards.
Orphan(s) ==
  /\ up /\ ~Alive
  /\ pc[s] \notin {"none", "exited", "undefined"}
  /\ pc[s] \in {"unlock", "cunlock"} => ~StackLives
  /\ pc' = [pc EXCEPT ![s] = "undefined"]
  /\ up' \in BOOLEAN
  /\ UNCHANGED <<clientVars, slotVars, localVars, canc, queue, sem, count, sent,
                 torn>>

HandlerStep(s) ==
  \/ SimpleHandler(s)
  \/ SlepHandler(s) \/ SlepWake(s) \/ SlepCancelled(s)
  \/ AbrtHandler(s) \/ AbrtCancel(s) \/ AbrtNext(s) \/ AbrtEnd(s)
  \/ WrapperReset(s) \/ WrapperResetAstray(s) \/ WrapperUnlock(s)
  \/ Orphan(s)
=============================================================================
