----------------------------- MODULE NonceSearch -----------------------------
(***************************************************************************)
(* The search of one WORK (work_handler.c): the division of the nonces     *)
(* among the btch threads, work_btch, the poll for a solution, and the     *)
(* part of work_handler_cleanup that stops the btches.                     *)
(*                                                                         *)
(* wpc of the WORK thread, in program order:                               *)
(*   divide   the computation of chunk                 (line 129)          *)
(*   spawn    one round of the creation loop           (lines 131-153)     *)
(*   poll     the test of  while(solution == 0)        (line 155)          *)
(*   doze     sleep(1) in that loop                    (line 159)          *)
(*   send     a solution was seen                      (lines 166-192)     *)
(*   stop     *cancelled = 1                           (line 23)           *)
(*   cancel   the scan that cancels the btches         (lines 26-28)       *)
(*   join     pthread_join in that scan                (line 29)           *)
(*   done     the btches and their arguments are freed (lines 35-41)       *)
(*   killed   cancelled inside the scan: its stack, which holds solution,  *)
(*            goes with it                                                 *)
(***************************************************************************)
EXTENDS Integers, FiniteSets

CONSTANTS
  NONCE_MAX,     \* UINT64_MAX
  ThreadCounts,  \* values of the thread_count field of a WORK
  MaxCreateFail  \* bound: pthread_create calls that fail

ASSUME SearchAssumption ==
  /\ NONCE_MAX \in Nat
  /\ ThreadCounts \subseteq Nat
  /\ MaxCreateFail \in Nat

Nonces == 0 .. NONCE_MAX

VARIABLES
  n,            \* the nonce a WORK asks to start from
  threadCount,  \* thread_count
  valid,        \* nonces for which is_valid_soln returns -1
  up,           \* the server process is running
  wpc,          \* where the WORK thread is
  i,            \* its loop index
  canc,         \* a pthread_cancel of the WORK thread is pending
  unwind,       \* the cleanup was entered by a cancellation
  fails,        \* failed pthread_create calls
  solution,     \* solution, 0 for none
  cancelled,    \* *cancelled
  handle,       \* btches[b]: 0, the handle of btch b, or of no btch
  bpc,          \* where btch b is
  bcanc,        \* a pthread_cancel of btch b is pending
  trying        \* the nonce btch b is at

taskVars == <<n, threadCount, valid>>
workVars == <<wpc, i, canc, unwind, fails, handle>>
btchVars == <<bpc, bcanc, trying>>
vars == <<taskVars, workVars, btchVars, up, solution, cancelled>>

-----------------------------------------------------------------------------
\* The division of n .. NONCE_MAX

Chunk(from, count) == (NONCE_MAX - from) \div count

Start(from, count, b) == from + b * Chunk(from, count)

\* Mutant: a chunk ends one nonce after the next one starts.
EndInclusive(from, count, b) ==
  IF b = count - 1 THEN NONCE_MAX ELSE from + (b + 1) * Chunk(from, count) + 1

\* Mutant: a chunk ends one nonce before the next one starts.
EndShort(from, count, b) ==
  IF b = count - 1 THEN NONCE_MAX ELSE from + (b + 1) * Chunk(from, count) - 1

End(from, count, b) ==
  IF b = count - 1 THEN NONCE_MAX ELSE from + (b + 1) * Chunk(from, count)

\* The btches there may be; a btch_id counts from 0.
Btches == 0 .. threadCount - 1

Ended(b) == bpc[b] \in {"none", "done"}

Init ==
  /\ n \in Nonces
  /\ threadCount \in ThreadCounts
  /\ valid \in SUBSET Nonces
  /\ up = TRUE
  /\ wpc = "divide" /\ i = 0 /\ canc = FALSE /\ unwind = FALSE /\ fails = 0
  /\ solution = 0 /\ cancelled = FALSE
  /\ handle = [b \in Btches |-> "null"]
  /\ bpc = [b \in Btches |-> "none"]
  /\ bcanc = [b \in Btches |-> FALSE]
  /\ trying = [b \in Btches |-> 0]

-----------------------------------------------------------------------------
\* The WORK thread

\* A thread_count of 0 makes the division trap, and the process ends.
Divide ==
  /\ up /\ wpc = "divide"
  /\ \/ threadCount > 0 /\ wpc' = "spawn" /\ UNCHANGED up
     \/ threadCount = 0 /\ up' = FALSE /\ UNCHANGED wpc
  /\ UNCHANGED <<taskVars, btchVars, i, canc, unwind, fails, handle, solution,
                 cancelled>>

SpawnBtch ==
  /\ up /\ wpc = "spawn" /\ ~canc
  /\ i < threadCount
  /\ handle' = [handle EXCEPT ![i] = "live"]
  /\ bpc' = [bpc EXCEPT ![i] = "loop"]
  /\ trying' = [trying EXCEPT ![i] = Start(n, threadCount, i)]
  /\ i' = i + 1
  /\ UNCHANGED <<taskVars, up, wpc, canc, unwind, fails, bcanc, solution,
                 cancelled>>

\* pthread_create fails with a positive error number, which the test for a
\* negative one misses. The handle stays 0 or names a thread that never came to
\* be: pthread_create writes it before it tries to start the thread.
SpawnFails ==
  /\ up /\ wpc = "spawn" /\ ~canc
  /\ i < threadCount
  /\ fails < MaxCreateFail
  /\ fails' = fails + 1
  /\ \E h \in {"null", "stale"} : handle' = [handle EXCEPT ![i] = h]
  /\ i' = i + 1
  /\ UNCHANGED <<taskVars, btchVars, up, wpc, canc, unwind, solution, cancelled>>

SpawnDone ==
  /\ up /\ wpc = "spawn"
  /\ i = threadCount
  /\ wpc' = "poll"
  /\ UNCHANGED <<taskVars, btchVars, up, i, canc, unwind, fails, handle,
                 solution, cancelled>>

Poll ==
  /\ up /\ wpc = "poll"
  /\ wpc' = IF solution = 0 THEN "doze" ELSE "send"
  /\ UNCHANGED <<taskVars, btchVars, up, i, canc, unwind, fails, handle,
                 solution, cancelled>>

DozeOver ==
  /\ up /\ wpc = "doze" /\ ~canc
  /\ wpc' = "poll"
  /\ UNCHANGED <<taskVars, btchVars, up, i, canc, unwind, fails, handle,
                 solution, cancelled>>

\* sem_post, the wait for the turn and the message: see WorkHandler.
SendSolution ==
  /\ up /\ wpc = "send"
  /\ wpc' = "stop"
  /\ UNCHANGED <<taskVars, btchVars, up, i, canc, unwind, fails, handle,
                 solution, cancelled>>

\* Another thread cancels the WORK: ABRT, a reused slot or a disconnect.
CancelWork ==
  /\ up /\ wpc \notin {"done", "killed"}
  /\ canc' = TRUE
  /\ UNCHANGED <<taskVars, btchVars, up, wpc, i, unwind, fails, handle,
                 solution, cancelled>>

\* Mutant: cancellation is not enabled while the thread sleeps.
UnwindNotDozing ==
  /\ up /\ canc /\ ~unwind
  /\ \/ wpc = "spawn" /\ i < threadCount
     \/ wpc = "send"
  /\ wpc' = "stop" /\ unwind' = TRUE
  /\ UNCHANGED <<taskVars, btchVars, up, i, canc, fails, handle, solution,
                 cancelled>>

\* The cancellation is acted on before the message is sent.
Unwind ==
  /\ up /\ canc /\ ~unwind
  /\ \/ wpc = "spawn" /\ i < threadCount
     \/ wpc \in {"doze", "send"}
  /\ wpc' = "stop" /\ unwind' = TRUE
  /\ UNCHANGED <<taskVars, btchVars, up, i, canc, fails, handle, solution,
                 cancelled>>

-----------------------------------------------------------------------------
\* work_handler_cleanup

StopBtches ==
  /\ up /\ wpc = "stop"
  /\ cancelled' = TRUE
  /\ wpc' = "cancel" /\ i' = 0
  /\ UNCHANGED <<taskVars, btchVars, up, canc, unwind, fails, handle, solution>>

CancelBtch ==
  /\ up /\ wpc = "cancel"
  /\ i < threadCount /\ handle[i] = "live"
  /\ bcanc' = [bcanc EXCEPT ![i] = TRUE]
  /\ wpc' = "join"
  /\ UNCHANGED <<taskVars, bpc, trying, up, i, canc, unwind, fails, handle,
                 solution, cancelled>>

\* pthread_cancel of a handle that is no btch's: it faults, finds nobody, or the
\* handle is by now another btch's, which is cancelled in its place.
CancelStale ==
  /\ up /\ wpc = "cancel"
  /\ i < threadCount /\ handle[i] = "stale"
  /\ \/ up' \in BOOLEAN /\ UNCHANGED bcanc
     \/ /\ \E b \in Btches : /\ handle[b] = "live"
                            /\ bcanc' = [bcanc EXCEPT ![b] = TRUE]
        /\ UNCHANGED up
  /\ wpc' = "join"
  /\ UNCHANGED <<taskVars, bpc, trying, i, canc, unwind, fails, handle, solution,
                 cancelled>>

\* Mutant: a btch is passed over though it was created.
SkipAnyBtch ==
  /\ up /\ wpc = "cancel"
  /\ i < threadCount
  /\ i' = i + 1
  /\ UNCHANGED <<taskVars, btchVars, up, wpc, canc, unwind, fails, handle,
                 solution, cancelled>>

\* if(*(btches+i)): no thread was created there.
SkipBtch ==
  /\ up /\ wpc = "cancel"
  /\ i < threadCount /\ handle[i] = "null"
  /\ i' = i + 1
  /\ UNCHANGED <<taskVars, btchVars, up, wpc, canc, unwind, fails, handle,
                 solution, cancelled>>

JoinBtch ==
  /\ up /\ wpc = "join"
  /\ handle[i] = "live" /\ Ended(i)
  /\ wpc' = "cancel" /\ i' = i + 1
  /\ UNCHANGED <<taskVars, btchVars, up, canc, unwind, fails, handle, solution,
                 cancelled>>

\* pthread_join of such a handle, if it returns: it faults, finds nobody, or
\* joins the btch whose handle it is by now, whose own handle is then good for
\* nothing. Nothing makes it return.
JoinStale ==
  /\ up /\ wpc = "join"
  /\ handle[i] = "stale"
  /\ \/ up' \in BOOLEAN /\ UNCHANGED handle
     \/ /\ \E b \in Btches : /\ handle[b] = "live" /\ Ended(b)
                            /\ handle' = [handle EXCEPT ![b] = "stale"]
        /\ UNCHANGED up
  /\ wpc' = "cancel" /\ i' = i + 1
  /\ UNCHANGED <<taskVars, btchVars, canc, unwind, fails, solution, cancelled>>

\* pthread_join is a cancellation point, and after the message was sent
\* cancellation is enabled. The rest of the cleanup never runs.
KilledInJoin ==
  /\ up /\ wpc = "join"
  /\ canc /\ ~unwind
  /\ wpc' = "killed"
  /\ UNCHANGED <<taskVars, btchVars, up, i, canc, unwind, fails, handle,
                 solution, cancelled>>

FreeSearch ==
  /\ up /\ wpc = "cancel"
  /\ i = threadCount
  /\ wpc' = "done"
  /\ UNCHANGED <<taskVars, btchVars, up, i, canc, unwind, fails, handle,
                 solution, cancelled>>

WorkStep ==
  \/ Divide \/ SpawnBtch \/ SpawnDone \/ Poll \/ DozeOver
  \/ SendSolution \/ Unwind
  \/ StopBtches \/ CancelBtch \/ CancelStale \/ SkipBtch \/ JoinBtch
  \/ FreeSearch

-----------------------------------------------------------------------------
\* work_btch

\* The WORK thread's stack, which holds solution, is there.
HasStack == up /\ wpc # "killed"

\* The loop's test, and the test of *cancelled and of the end of the chunk.
BtchLoop(b) ==
  /\ HasStack /\ bpc[b] = "loop"
  /\ bpc' = [bpc EXCEPT ![b] =
       IF solution # 0 \/ cancelled \/ trying[b] >= End(n, threadCount, b)
       THEN "done" ELSE "try"]
  /\ UNCHANGED <<taskVars, workVars, bcanc, trying, up, solution, cancelled>>

\* pthread_testcancel acts on a cancellation.
BtchCancelled(b) ==
  /\ HasStack /\ bpc[b] = "try" /\ bcanc[b]
  /\ bpc' = [bpc EXCEPT ![b] = "done"]
  /\ UNCHANGED <<taskVars, workVars, bcanc, trying, up, solution, cancelled>>

\* is_valid_soln. It has no cancellation point.
BtchTry(b) ==
  /\ HasStack /\ bpc[b] = "try" /\ ~bcanc[b]
  /\ \/ /\ trying[b] \in valid
        /\ bpc' = [bpc EXCEPT ![b] = "lock"]
        /\ UNCHANGED trying
     \/ /\ trying[b] \notin valid
        /\ bpc' = [bpc EXCEPT ![b] = "loop"]
        /\ trying' = [trying EXCEPT ![b] = @ + 1]
  /\ UNCHANGED <<taskVars, workVars, bcanc, up, solution, cancelled>>

\* Mutant: the solution is not tested again under sol_mutex.
BtchStoreUnchecked(b) ==
  /\ HasStack /\ bpc[b] = "lock"
  /\ solution' = trying[b]
  /\ bpc' = [bpc EXCEPT ![b] = "done"]
  /\ UNCHANGED <<taskVars, workVars, bcanc, trying, up, cancelled>>

\* The section under sol_mutex.
BtchStore(b) ==
  /\ HasStack /\ bpc[b] = "lock"
  /\ solution' = IF solution = 0 THEN trying[b] ELSE solution
  /\ bpc' = [bpc EXCEPT ![b] = "done"]
  /\ UNCHANGED <<taskVars, workVars, bcanc, trying, up, cancelled>>

\* A btch that outlives the stack it reads solution from. The access may fault,
\* and nothing is said of the btch afterwards.
BtchOrphan(b) ==
  /\ up /\ wpc = "killed"
  /\ bpc[b] \in {"loop", "try", "lock"}
  /\ bpc' = [bpc EXCEPT ![b] = "undefined"]
  /\ up' \in BOOLEAN
  /\ UNCHANGED <<taskVars, workVars, bcanc, trying, solution, cancelled>>

BtchStep(b) ==
  /\ b \in Btches
  /\ \/ BtchLoop(b) \/ BtchCancelled(b) \/ BtchTry(b) \/ BtchStore(b)
     \/ BtchOrphan(b)

BtchIds == UNION {0 .. count - 1 : count \in ThreadCounts}

Next ==
  \/ WorkStep \/ SpawnFails \/ JoinStale \/ CancelWork \/ KilledInJoin
  \/ \E b \in BtchIds : BtchStep(b)

Spec == Init /\ [][Next]_vars

\* The scheduler runs every thread that can run. Nothing makes anybody cancel
\* the WORK, or the join of a stale handle return.
FairSpec ==
  /\ Spec
  /\ WF_vars(WorkStep)
  /\ \A b \in BtchIds : WF_vars(BtchStep(b))

-----------------------------------------------------------------------------
TypeOK ==
  /\ n \in Nonces /\ threadCount \in ThreadCounts /\ valid \subseteq Nonces
  /\ up \in BOOLEAN
  /\ wpc \in {"divide", "spawn", "poll", "doze", "send", "stop", "cancel",
              "join", "done", "killed"}
  /\ i \in 0 .. threadCount
  /\ canc \in BOOLEAN /\ unwind \in BOOLEAN /\ fails \in Nat
  /\ solution \in Nonces
  /\ cancelled \in BOOLEAN
  /\ handle \in [Btches -> {"null", "live", "stale"}]
  /\ bpc \in [Btches -> {"none", "loop", "try", "lock", "done", "undefined"}]
  /\ bcanc \in [Btches -> BOOLEAN]
  /\ trying \in [Btches -> Nonces]

\* readme.txt: "Work is evenly distributed for each btches". No nonce is tried by
\* two btches, whatever the start and the number of btches.
NoNonceTwice ==
  \A b, c \in Btches : b # c /\ bpc[b] = "try" /\ bpc[c] = "try"
    => trying[b] # trying[c]

\* Once the cleanup has freed what the btches use, none of them is running,
\* also when the WORK was cancelled between two pthread_create calls, or one of
\* these calls failed and left a handle behind that is another btch's by now.
BtchesStopped == wpc = "done" => \A b \in Btches : Ended(b)

\* A cancelled WORK stops its btches, whatever they are doing, unless its cleanup
\* waits for a btch that could not be created.
SearchEnds ==
  canc ~> \/ wpc \in {"done", "killed"} \/ ~up
          \/ wpc = "join" /\ handle[i] = "stale"

\* work_handler has seen a solution and left its poll.
Answered == wpc \notin {"divide", "spawn", "poll", "doze"}

\* The nonces the btches are given to try.
Searched == n .. NONCE_MAX - 1

\* A search that nobody cancels finds a valid nonce, wherever in the searched
\* range it lies and however the range is divided, if 0 is not among them and
\* every pthread_create succeeded.
ValidNonceFound ==
  threadCount > 0 /\ valid \cap Searched # {} /\ 0 \notin valid
    ~> Answered \/ canc \/ fails > 0

Promise == INSTANCE SearchPromise WITH
  result <- solution,
  phase <- IF ~Answered THEN "search"
           ELSE IF wpc = "send" THEN "answer" ELSE "stopped"

\* The btches implement SearchPromise: the solution work_handler sends is a valid
\* nonce of the range asked for, and the one it saw in its poll. It reads
\* solution twice without sol_mutex, and btches that find another valid nonce in
\* between leave it alone.
SearchSound == Promise!Spec
=============================================================================
