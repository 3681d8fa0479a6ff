----------------------------- MODULE WorkHandler -----------------------------
(***************************************************************************)
(* work_handler and work_handler_cleanup (work_handler.c) as steps of the  *)
(* command thread of slot s. The search of the nonce space by the btch     *)
(* threads is abstracted to its outcome, a solution seen at some poll.     *)
(*                                                                         *)
(* pc of a WORK thread, in program order:                                  *)
(*   run      up to pthread_testcancel                 (lines 68-94)       *)
(*   semwait  sem_wait(worker_sem)                     (line 124)          *)
(*   spawn    the loop that creates the btch threads   (lines 131-153)     *)
(*   search   the test of  while(solution == 0)        (line 155)          *)
(*   doze     sleep(1) in that loop                    (line 159)          *)
(*   turn     the test of the get_tid loop             (line 170)          *)
(*   nap      sleep(1) in that loop                    (line 174)          *)
(*   send     the SOLN message, cancellation disabled  (lines 177-192)     *)
(* and of work_handler_cleanup:                                            *)
(*   dec      global_work_count--, its load            (line 16)           *)
(*   dec2     global_work_count--, its store           (line 16)           *)
(*   joinb    cancel and join the btch threads         (lines 23-41)       *)
(*   cturn    the get_tid loop                         (lines 47-52)       *)
(*   pop      rm_tid                                   (lines 54-56)       *)
(*   reflag   reset_flag, the flag cleared             (line 61)           *)
(*   cunlock  reset_flag, thread_pool_mutex unlocked   (line 61)           *)
(* A cancelled thread runs the cleanup and ends; a thread that sent its    *)
(* message runs it with cancellation enabled and goes on to the end of     *)
(* handler_wrapper ("fin").                                                *)
(***************************************************************************)
EXTENDS SessionState

\* Where a pending cancellation is acted on before the cleanup.
CancelPoints == {"run", "semwait", "spawn", "doze", "nap"}

\* The thread holds one of the permits of worker_sem.
Processing == {"spawn", "search", "doze"}

\* The thread has not yet reached its cleanup.
BeforeCleanup == {"run", "semwait", "turn", "nap", "send"} \cup Processing

InCleanup == {"dec", "dec2", "joinb", "cturn", "pop"}

WorkPcs == BeforeCleanup \cup InCleanup

WorkBegin(s) ==
  /\ Running
  /\ kind[s] = "WORK" /\ ~canc[s]
  /\ Goto(s, "run", "semwait")
  /\ UNCHANGED <<up, clientVars, slotVars, localVars, canc, queue, sem, count,
                 sent, torn>>

\* Mutant: the permit is taken whether or not there is one.
SemWaitUnguarded(s) ==
  /\ Running
  /\ ~canc[s]
  /\ Goto(s, "semwait", "spawn")
  /\ sem' = sem - 1
  /\ UNCHANGED <<up, clientVars, slotVars, localVars, canc, queue, count,
                 sent, torn>>

SemWait(s) ==
  /\ Running
  /\ ~canc[s]
  /\ sem > 0
  /\ Goto(s, "semwait", "spawn")
  /\ sem' = sem - 1
  /\ UNCHANGED <<up, clientVars, slotVars, localVars, canc, queue, count,
                 sent, torn>>

SpawnBtches(s) ==
  /\ Running
  /\ ~canc[s]
  /\ Goto(s, "spawn", "search")
  /\ UNCHANGED <<up, clientVars, slotVars, localVars, canc, queue, sem, count,
                 sent, torn>>

\* Mutant: the permit is not given back.
SolutionFoundKeepsPermit(s) ==
  /\ Running
  /\ Goto(s, "search", "turn")
  /\ UNCHANGED <<up, clientVars, slotVars, localVars, canc, queue, sem, count,
                 sent, torn>>

\* solution # 0: the loop ends and sem_post gives the permit back.
SolutionFound(s) ==
  /\ Running
  /\ Goto(s, "search", "turn")
  /\ sem' = sem + 1
  /\ UNCHANGED <<up, clientVars, slotVars, localVars, canc, queue, count,
                 sent, torn>>

\* solution = 0
NoSolutionYet(s) ==
  /\ Running
  /\ Goto(s, "search", "doze")
  /\ UNCHANGED <<up, clientVars, slotVars, localVars, canc, queue, sem, count,
                 sent, torn>>

DozeOver(s) ==
  /\ Running
  /\ ~canc[s]
  /\ Goto(s, "doze", "search")
  /\ UNCHANGED <<up, clientVars, slotVars, localVars, canc, queue, sem, count,
                 sent, torn>>

\* Mutant: the result is sent without waiting for the turn.
CheckTurnUnordered(s) ==
  /\ Running
  /\ Goto(s, "turn", "send")
  /\ UNCHANGED <<up, clientVars, slotVars, localVars, canc, queue, sem, count,
                 sent, torn>>

CheckTurn(s) ==
  /\ Running
  /\ Goto(s, "turn", IF HasTurn(s) THEN "send" ELSE "nap")
  /\ UNCHANGED <<up, clientVars, slotVars, localVars, canc, queue, sem, count,
                 sent, torn>>

NapOver(s) ==
  /\ Running
  /\ ~canc[s]
  /\ Goto(s, "nap", "turn")
  /\ UNCHANGED <<up, clientVars, slotVars, localVars, canc, queue, sem, count,
                 sent, torn>>

SendSolution(s) ==
  /\ Running
  /\ Goto(s, "send", "dec")
  /\ Send(s, "SOLN")
  /\ UNCHANGED <<up, clientVars, slotVars, localVars, canc, queue, sem, count,
                 torn>>

\* Mutant: a cancelled thread resets its flag and keeps its node in the queue.
UnwindKeepsNode(s) ==
  /\ Running
  /\ kind[s] = "WORK" /\ canc[s]
  /\ pc[s] \in CancelPoints
  /\ pc' = [pc EXCEPT ![s] = "reflag"]
  /\ unwind' = [unwind EXCEPT ![s] = TRUE]
  /\ UNCHANGED <<up, clientVars, slotVars, kind, id, cur, tmp, canc, queue,
                 sem, count, sent, torn>>

\* A cancellation is acted on: the cleanup handler runs. It does not give a
\* permit of worker_sem back.
Unwind(s) ==
  /\ Running
  /\ kind[s] = "WORK" /\ canc[s]
  /\ pc[s] \in CancelPoints
  /\ pc' = [pc EXCEPT ![s] = "dec"]
  /\ unwind' = [unwind EXCEPT ![s] = TRUE]
  /\ UNCHANGED <<up, clientVars, slotVars, kind, id, cur, tmp, canc, queue,
                 sem, count, sent, torn>>

-----------------------------------------------------------------------------
\* global_work_count-- is a plain load and store, made without
\* global_work_mutex.
DecrementLoad(s) ==
  /\ Running
  /\ Goto(s, "dec", "dec2")
  /\ tmp' = [tmp EXCEPT ![s] = count]
  /\ UNCHANGED <<up, clientVars, slotVars, kind, id, unwind, cur, canc, queue,
                 sem, count, sent, torn>>

DecrementStore(s) ==
  /\ Running
  /\ Goto(s, "dec2", "joinb")
  /\ count' = tmp[s] - 1
  /\ UNCHANGED <<up, clientVars, slotVars, localVars, canc, queue, sem, sent,
                 torn>>

JoinBtches(s) ==
  /\ Running
  /\ Goto(s, "joinb", "cturn")
  /\ UNCHANGED <<up, clientVars, slotVars, localVars, canc, queue, sem, count,
                 sent, torn>>

\* pthread_join is a cancellation point, and cancellation is enabled when the
\* cleanup was entered by pthread_cleanup_pop. The handler has been popped, so
\* the rest of it never runs.
CleanupCancelled(s) ==
  /\ Running
  /\ canc[s] /\ ~unwind[s]
  /\ Goto(s, "joinb", "exited")
  /\ torn' = TRUE
  /\ UNCHANGED <<up, clientVars, slotVars, localVars, canc, queue, sem, count,
                 sent>>

\* Mutant: a cancelled thread removes the head without waiting for its turn.
CleanupTurnAtOnce(s) ==
  /\ Running
  /\ Goto(s, "cturn", "pop")
  /\ UNCHANGED <<up, clientVars, slotVars, localVars, canc, queue, sem, count,
                 sent, torn>>

CleanupTurn(s) ==
  /\ Running
  /\ HasTurn(s)
  /\ Goto(s, "cturn", "pop")
  /\ UNCHANGED <<up, clientVars, slotVars, localVars, canc, queue, sem, count,
                 sent, torn>>

CleanupRmTid(s) ==
  /\ Running
  /\ Goto(s, "pop", "reflag")
  /\ RmTid
  /\ UNCHANGED <<up, clientVars, slotVars, localVars, canc, sem, count, sent,
                 torn>>

\* The first of the two resets of the flag on the normal path: WrapperReset
\* makes the second.
CleanupResetFlag(s) ==
  /\ Running
  /\ PoolMutexFree
  /\ Goto(s, "reflag", "cunlock")
  /\ ResetFlag(s)
  /\ UNCHANGED <<up, clientVars, pool, localVars, canc, queue, sem, count,
                 sent, torn>>

CleanupUnlock(s) ==
  /\ StackLives
  /\ Goto(s, "cunlock", IF unwind[s] THEN "exited" ELSE "fin")
  /\ UNCHANGED <<up, clientVars, slotVars, localVars, canc, queue, sem, count,
                 sent, torn>>

WorkStep(s) ==
  \/ WorkBegin(s) \/ SemWait(s) \/ SpawnBtches(s)
  \/ SolutionFound(s) \/ NoSolutionYet(s) \/ DozeOver(s)
  \/ CheckTurn(s) \/ NapOver(s) \/ SendSolution(s)
  \/ Unwind(s)
  \/ DecrementLoad(s) \/ DecrementStore(s)
  \/ JoinBtches(s) \/ CleanupCancelled(s)
  \/ CleanupTurn(s) \/ CleanupRmTid(s)
  \/ CleanupResetFlag(s) \/ CleanupUnlock(s)
=============================================================================
