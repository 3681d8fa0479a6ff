# Verification of the bitcoin work server

This directory holds TLA+ modules that model the server in `src/`, the TLC
configurations that check them on small instances, and proofs that TLAPS checks
for every value of the constants. `PROJECT.json` lists the components, the runs,
the mutants that show each property can fail, the source lines each definition
models, the findings, the hazards and the theorems.

## The system

The server is one process with four layers of threads.

| part | source | state | operations |
| --- | --- | --- | --- |
| accept loop | `driver.c` | `thread_avail_flags`, `thread_pool` of `CLIENT_COUNT` slots, `curr_cli_count` | accept, take a slot or refuse, join the slot's old thread, create a client thread |
| client session | `handler.c` `client_handler`, `client_handler_cleanup` | a pool of `CLIENT_THREAD_COUNT` slots, the turn queue, `worker_sem`, the receive buffer | read a command, take a slot, cancel and join its old thread, admit or refuse a WORK, create the command thread; on a disconnect cancel and join slot by slot, free, reset the client's flag |
| command handlers | `handler.c` | none of their own | send one reply; SLEP sleeps between two; ABRT walks the turn queue and cancels every WORK |
| work handler | `work_handler.c` `work_handler`, `work_handler_cleanup` | `solution`, `cancelled`, the btch handles | wait for a permit, start the btches, poll, give the permit back, wait for the turn, send SOLN; cleanup: decrement `global_work_count`, stop the btches, wait for the turn, pop it, reset the flag |
| nonce search | `work_handler.c` `work_btch` | the nonce being tried | try, store the first valid nonce |
| turn queue | `handler_helper.c` | a linked list of thread_ids | push, pop, read the head, each under `queue_mutex` |
| pool flags | `threads.c` | one byte per slot | take the lowest free slot, reset |
| command buffer | `handler_helper.c` | the bytes received, their capacity and length | append a chunk (doubling the memory), extract the first line |
| arithmetic | `handler_helper.c`, `uint256.h` | none | target of a difficulty, the 40 bytes `x` of a seed and a nonce, verdict on a solution |
| hashing | `sha256.c` | a context of one block | init, update, final, compare |
| replies and logger | `handler_helper.c`, `logger.c` | the stream `_logger_file` and its buffer, `worker_mutex`, each thread's cancel state | format a reply, log it, flush, write it to the socket |
| socket setup | `netsock.c` | none | repeat socket and bind until they succeed |
| animation | `coin/`, `output/ultimate.c` | none that others read | |

Threads share memory; a session's threads meet in the flags, the queue, the
semaphore, the handles in `thread_pool` and the socket, all sessions meet in
`global_work_count`. What makes the code hard:

* cancellation. A thread can be cancelled by ABRT, by a reused slot and by a
  disconnect, at any cancellation point it passes with cancellation enabled,
  the ones inside its own cleanup included;
* order. SOLN replies must come in the order of the WORK commands, and the same
  queue orders the cleanups of cancelled works;
* slots. A flag, a handle and a thread's life are three things that change at
  different times, in different threads;
* accesses without a lock: `global_work_count--`, the walk of `abrt_handler`, the
  flags in `client_handler_cleanup`, `curr_cli_count`, `solution`, the log;
* a byte stream that read cuts anywhere, into a buffer that grows;
* arithmetic that is right for some operands only;
* a process that may end between a log line and the reply it announces.

What makes each part correct:

* session: every command gets an answer, also with a full pool; after a
  disconnect the session ends, and no thread uses what is gone with it; it cancels
  and joins only threads that exist;
* work handler and queue: replies in order, a turn is used only by its owner,
  every turn is released, at most `CONCURRENT_WORK_COUNT` works in process, at
  most `GLOBAL_WORK_LIMIT` works at all, an aborted work leaves no trace;
* search: every nonce is tried once, a valid one is found and kept, no btch
  outlives the search;
* accept loop: one client per slot, main waits only for threads that are ending;
* command buffer: the commands are the lines of the stream, whole and in order;
* arithmetic and hashing: exactly a digest below the target of the difficulty
  passes;
* replies: what the client received is in the log, a cancelled thread leaves no
  reply half done and no mutex locked.

## Modules

`SessionState` is extended by `CommandHandlers` and `WorkHandler`, and these by
`ClientSession`, which composes them with the client thread. `NonceSearch` is the
inside of `WorkHandler`'s step from `spawn` to `turn` and of `JoinBtches`. `Acceptor`
is the outside of `ClientSession`: its `serve` is a whole session and its `check` to `exited` is the
step `LeaveClient`. `CommandBuffer` is what
`ClientSession`'s choice of the next command stands for, `SolutionCheck` (which
extends `Uint256` and `Sha256`) the verdict its SOLN handler chooses, and
`ReplyLog` what is inside each step that adds a message to `sent`.

The theorems stand in modules of their own: `SessionProofs` extends
`ClientSession`, `OrderProofs` extends `SessionProofs`, and `SearchProofs`,
`AcceptorProofs`, `BufferProofs`, `ReplyProofs` extend the module they are about.
`OperatorProofs` is about `Uint256` and `Sha256`, and `CheckProofs` extends it and
`SolutionCheck`.

* **SessionState**: the variables of one session. A slot is the code's
  `thread_id`. `flags`, `pool`, `queue`, `sem`, `count` are `thread_avail_flags`,
  `thread_pool`, `work_queue`, `worker_sem`, `global_work_count`. A handle is
  `null` (0), `live` (a thread that was created and not joined) or `stale`. `pc`,
  `kind`, `id`, `canc`, `unwind`, `cur`, `tmp` describe the command thread of a
  slot. Queue nodes carry the number of their command, which is what identifies
  the node (its address in the code). `sent` collects the messages written.
  `torn` is a history variable: a thread was cancelled inside its own cleanup.
* **CommandHandlers**: one action per step of a handler that another thread can
  see. ABRT's walk is one step per `pthread_cancel` and one per `curr->next`.
  `reset_flag` is two steps, the write of the flag (`WrapperReset`,
  `CleanupResetFlag`) and the unlock (`WrapperUnlock`, `CleanupUnlock`): in between
  `thread_pool_mutex` is locked (`PoolMutexFree`), and `client_handler_cleanup`, which
  does not take it, may go on and end the client thread, whose stack holds it
  (`StackLives`). `handler_wrapper` reads the mutex's address from memory it has
  freed; where `ReusesFreed` is TRUE another thread may have got that memory
  (`WrapperResetAstray`): the process may fault, or the flag is cleared under no lock
  of this session.
* **WorkHandler**: the table at the head of the module gives the line of every
  `pc`. A WORK that holds a cancellation acts on it at `CancelPoints`; in the
  normal cleanup it may act on it in `pthread_join` (`CleanupCancelled`) or get
  past it: the join of a btch that has already ended does not act on a
  cancellation in current glibc and did in older ones.
* **ClientSession**: `client_handler` and its cleanup. `AdmitLoad` and `AdmitWork`
  are the load and the store of `global_work_count++`. They hold
  `global_work_mutex`, which the decrement does not take.
* **NonceSearch**: the start nonce, the number of btches and the set of valid
  nonces are chosen in `Init`; `NONCE_MAX` is `UINT64_MAX`. No sum in the division
  exceeds `NONCE_MAX`, which `TypeOK` checks, so no reduction is needed. A failing
  pthread_create leaves a handle that is 0, which the cleanup skips, or stale, which
  it cancels and joins (`CancelStale`, `JoinStale`).
* **Acceptor**: connections are numbered and a connection's number also names
  its thread. `CheckFlag` and `ResetFlag` are the loop at `handler.c:404`.
* **CommandBuffer**: `has_command`, `get_command` and `join_client_command` in the
  loop of `client_handler`. Memory is a sequence of bytes, `"JUNK"` where malloc and
  realloc left it uninitialised; `read` takes any number of the bytes sent, up to
  `BUFFER_LEN - 1`. `Enlarge` is one round of the loop that doubles the memory until
  the chunk fits. The client's whole stream is chosen in `Init`.
* **Uint256**, **Sha256**: operators. `uint256_sl` and `uint256_add` are translated
  with what they do wrong: the carried bits are moved by the wrong distance, and
  a carry goes to the less significant byte. `Or` is C's `|` on bytes, as the sum of
  its bits. The loops are recursive functions (`ByteSums`, `MulRounds`,
  `UpdateRounds`). `sha256_transform` is abstracted to the list of blocks it is
  given. Three definitions are references to compare with: `Power`, the padding
  FIPS 180-4 demands (`Reference`), and the order of numbers from the least
  significant byte on (`Less`).
* **SolutionCheck**: `get_target` with one action per round of `uint256_exp`'s loop,
  `get_x`, the two hashes and the comparison of `is_valid_soln`, and the use of the
  hash in `crypto/sha256_test.c`, which feeds a message in pieces. The seed's
  bytes and the first digest are symbols; the second digest is chosen at and
  around the target, since which digest a message has is the part left out.
* **ReplyLog**: `send_formatted`, `send_message` and `logger_log` step by step, with
  the cancel state of every thread, the stdio buffer, the file and the socket;
  main's way to its accept loop; `print_welcome`'s flush; the end of the process
  at any moment (with exit's flush or without) and its restart. The new process
  opens, and so empties, the log after it has bound its socket (`InitLogger`); until
  then the old log is there. With the log the model drops the messages the old
  clients got. `stalled` says that the client does not read and that a write blocks.
  A write to the blocking socket is short only when the connection breaks; nothing
  follows it then, and it counts as written or as failed.

Three abstract specifications say what a part promises. A run checks that the
detailed module implements each, and the proofs show it (of `CommandStream`, the
safety part) for every value of the constants:

| abstract | detailed | refinement mapping |
| --- | --- | --- |
| `CommandStream`: the next command is the first line of the rest of the stream; bytes go lost only behind a NUL; the end is seen when no line is left; a line that was sent is taken | `CommandBuffer`, property `LinesDelivered` (with liveness) | `rest` is the used part of the memory, then the chunk just read, then what is still in the network |
| `WorkOrder`: WORKs stand in line in the order of their commands, only the first is answered, and leaves before the next is; answers are a set, so a second SOLN to one WORK would go unseen | `ClientSession`, property `WorksInOrder` | `line` is the queue's command numbers, `answers` the SOLNs sent, `broken` a torn cleanup or a failed creation, after which nothing is promised |
| `SearchPromise`: one valid nonce of the range is settled on and sent, or the search is stopped | `NonceSearch`, property `SearchSound` | `result` is the nonce `solution` holds, `phase` the progress of `work_handler` |

Abstractions common to the modules:

* a section under a mutex is one step. The locks nest in one order only
  (`global_work_mutex` before `queue_mutex`), and no section waits for anything;
* in `ClientSession` a reply is one step. `ReplyLog` takes it apart, with
  `worker_mutex` explicit and the turn left out, so that two WORKs may want it;
* reads and writes of one word are atomic; `x++` and `x--` are a load and a
  store, as the compiler emits them;
* pthread_cancel of a zero handle faults; of a stale handle it may fault, do
  nothing, or cancel another thread of the session that has the handle by now.
  pthread_join of a stale handle may fault, return at once, join such a thread, or
  never return. What is read through a freed queue node is garbage: the walk may
  fault, cancel some thread or none, and end or go on. A thread that is still
  running when the memory it uses is gone may fault or becomes `undefined`, and
  nothing more is said of it;
* a write to a socket the client has closed counts as sent (SIGPIPE is ignored);
* in `ClientSession` a reply's write returns. A client that keeps its connection and
  does not read blocks it, and with it the thread, its slot and the end of the
  session: `EveryCommandAnswered` and `SessionEnds` are about clients that read or
  close. `ReplyLog` has the write that does not return;
* a failing pthread_create leaves the handle alone or stale. Its result is
  positive and the code tests for a negative one, so no failure path runs;
* `global_work_count` is one session's: other sessions are not part of
  `ClientSession`.

## Runs

Passing runs (the longest, `session` and `reply_log`, take about two minutes):

| run | question | bounds |
| --- | --- | --- |
| `session` | do turns, queue nodes, permits and handles stay consistent, does the session implement `WorkOrder`, and is a permit lost only with a cancelled thread, under every interleaving of WORK, ABRT and a disconnect, with a refusal, a failing pthread_create and freed memory that is used again? | 2 slots, 1 permit, limit 2, 4 commands, 1 failure |
| `simple_session` | without WORK: is every command answered for which a thread could be created while a slot is left, does the session end, is at most one unlock of the mutex left of it? | 2 slots, 3 commands, 2 failures: as many as slots |
| `nonce_search` | do the btches implement `SearchPromise`, is every nonce tried once, a valid nonce found, every btch stopped, also with a handle that is no btch's? | nonces 0..3, every start, every set of valid nonces, 0 to 3 btches, 1 failure |
| `acceptor` | one client per slot, no slot lost but by a failing pthread_create, and does a leaving client get away? | 2 slots, 4 connections, 1 failure |
| `command_buffer` | does the receive buffer implement `CommandStream`, and is no uninitialised byte ever used? | every stream of up to 6 bytes of CR, LF, NUL and one other, chunks of up to 3, first capacity 2 |
| `solution_check` | is the target exact, is every message padded right, does exactly a digest below the target pass? | 13 values of alpha, beta bytes 1 and 255, nonce bytes 0 and 1, messages of up to 130 bytes |
| `reply_log` | with cancellations and the end of the process at any moment: is what the client received in the log and in order, does no thread die with a reply half done or with `worker_mutex`, do texts arrive whole, does everybody get `worker_mutex` while the client reads? | 2 commands per run of the process, kinds SOLN, OKAY, SLEP, WORK |

`session`, `acceptor` and `reply_log` also check the inductive invariants of the
longer proofs (`OrderInv`, `SlotOwned` and `SlotsAccounted`, `ReplyInv`): a formula
that much rests on is seen to hold on an instance and to fail for a mutant.

The bounds are the smallest at which the interesting cases happen.

* `session`: two slots and one permit give a work that waits for a permit, one
  that waits for its turn and a slot that is reused; the fourth command reuses a
  slot whose thread was aborted, and can be a WORK that is refused because two
  decrements of `global_work_count` overlapped. The other handlers run in
  `simple_session`; all but SLEP and ABRT have the steps of SOLN.
* `nonce_search`: four nonces and three btches give chunks of length 0 to 3 with
  and without a remainder.
* `acceptor`: four connections on two slots give a refusal, a reuse and a reuse
  of that slot.
* `command_buffer`: six bytes hold three empty lines or two with text, a CR and
  its LF in different chunks, a NUL between them, and make the memory double
  twice; nothing in the code depends on a size but the comparison with the
  capacity.
* `solution_check`: alpha 0, 1, 2 make the exponent negative, 3 zero, 4 and 6
  small, 19 moves beta to the middle, 31 to 35 push it across the top of the 256
  bits byte by byte, 255 is the largest. The exponent is an unsigned number of
  `EXP_BITS` = 16 bits in place of 32, to which a negative one wraps: TLC's
  integers end at 2^31, and at either width the loop runs until the accumulator
  has overflowed to 0. Below alpha 3 the reference value 0 is what the code computes;
  no line of the repository says what such a difficulty means. Update
  lengths 3, 10 and 56 reach every remainder around 55, 56, 63 and 64 that decides on a further block. `ExpKept` has the form in which it is
  inductive; the run shows that it holds, and fails for a mutant.
* `reply_log`: two threads suffice for every race for the log, since lines and
  threads of a third would be handled in the same way. The five kinds left out
  send one reply and differ in the length of their text, which is never longer
  than OKAY's 37, while 38 survive the line end.

Deadlock is checked in `reply_log` only. In the other runs the system may really
stop: a session may end or its process crash, the client may send nothing more,
and a search or an accept loop at its bound stops. That nothing is stuck where it
should go on is what the liveness properties say.

Violation runs, each a disagreement between a line of the repository and the
code (`findings` quotes the line):

| run | what the trace shows |
| --- | --- |
| `works_within_limit` | the unlocked decrement loses an admission; more than `GLOBAL_WORK_LIMIT` works run |
| `no_segfault` | ABRT cancels a WORK that is queued and not yet created |
| `work_not_killed` | the second reset of a flag frees the slot of a running WORK, and the next command cancels it |
| `session_ends` | after a disconnect the cleanup waits for good, and the client's slot is lost |
| `joins_the_dead` | a leaving client clears the flag of its successor, and main waits for a connected client |

These runs leave the use of freed memory out (`ReusesFreed` is FALSE), so that no
trace rests on it.

Why some passing properties have conditions, each seen in a trace of TLC when the
condition is dropped:

* a cancellation inside the normal cleanup (`torn`) leaves a turn that nobody
  releases, and every later WORK of that client waits for good: `NodesOwned`,
  `RepliesInOrder` and `WorksInOrder` exclude it, so they show that nothing else
  leaves a turn behind, not that the code copes with it;
* a WORK aborted between `sem_wait` and `sem_post` takes its permit with it:
  `PermitsLostByCancel` says that nothing else does. After as many such ABRTs as
  permits a later WORK waits in `sem_wait` for good; `session_ends` meets the loss
  with the cancellations of a disconnect;
* a failed pthread_create is not noticed, so its slot keeps a flag, a queue node
  or a stale handle: `JoinsLiveThreads`, `NodesOwned`, `WorksInOrder`,
  `EveryCommandAnswered` and `SlotsLostByFailure` name that case. Commands go on being
  answered while one slot is left, and with as many failures as slots every later
  command waits at `handler.c:110`, which `EveryCommandAnswered` admits. A join of a
  stale handle need not return, which `SessionEnds` and `SearchEnds` admit. Another
  condition is in
  `RepliesInOrder`: the node that is left carries a thread_id only, and passes
  for the node of a later WORK in the same slot, which then answers before its
  turn. It takes five commands to see that in a trace; it came up because the
  property without the condition could not be made inductive;
* the valid nonce 0 is taken for "none yet", and a btch stops at `trying >= end`,
  so `UINT64_MAX` is never tried, though the debug text at `work_handler.c:213`
  says "inclusive": `ValidNonceFound` excludes both;
* a thread inside `reset_flag` may outlive its session: `OnlyUnlockLeft` says that
  nothing else of the session does. The thread then unlocks a mutex on a stack that
  is gone, after which the model lets the process die (`up` is FALSE), with no ABRT
  and no WORK needed;
* a client that does not read blocks the write of a SOLN, with `worker_mutex` held:
  `WorkerMutexComes` excludes it;
* with a WORK a session need not end, so `simple_session` has none.

`get_x` tells the byte order of the machine from the nonce (`ntohl(solution) !=
solution`). On a little-endian machine a nonce below 2^32 whose four bytes read the
same in both directions takes the branch commented "big endian" and is stored the
wrong way round: the nonce 00010100 (hexadecimal) gets the `x` of the nonce
0001010000000000. `NonceEncoded` models that as it is; no property says what `x`
should hold, since it could only repeat the definition.

## Fairness

Weak fairness of the client thread, of main and of every command thread and btch:
the scheduler runs what can run. Strong fairness of `SemWait`, because a permit
that is given back again and again is eventually taken, and of `SolutionFound` in
`ClientSession`, which stands for the assumption that the work has a solution (in
`NonceSearch` that is derived, not assumed). In `CommandBuffer` weak fairness of
the client thread includes that bytes sent arrive; in `ReplyLog` it is that of
each command thread, but for a write while the client does not read (`Runs`), and
`worker_mutex` needs no more, since each command's thread takes it once. Nothing
makes a client send, read or disconnect, nothing makes anybody cancel a WORK,
nothing makes pthread_create fail, and nothing makes the join of a stale handle
return.

## Proofs

Each module below proves its theorems for every value of the constants, from the
assumption of the module it is about and nothing else: numbers are natural
numbers, at least one slot, a read takes at least one byte, the first capacity is
not 0, `"JUNK"` is not a byte, the exponent has 12 to 32 bits. (`OnlyUnlockLeftBehind`
has a hypothesis of its own.) The theorems of a module share an inductive invariant, a
conjunction of named parts, and a step lemma deals with one part, in `CheckProofs`
with one action. Invariants that a run checks stand in the module they are about
(`OrderInv`, `SlotOwned`, `SlotsAccounted`, `ReplyInv`), the others in the proof module.

**SessionProofs** (`SessionAssumption`: any number of slots, permits and commands,
any limit, any inputs, any number of failures):

* `TypeCorrect`: `TypeOK` is inductive as it stands; the conjunct on `tid` says in
  which states of the client thread it is a slot.
* `TurnKept`: `TypeOK /\ TurnHeld` is inductive. The queue loses its head only in
  `CleanupRmTid`, by a thread whose turn it is (`TurnHeld` itself), so nobody else
  held the turn and that thread gives it up; a push goes to the tail.
* `PermitsKept` and `ConcurrencyBounded`. `ConcurrencyBound` is not inductive, since
  `SemWait` would have to know that a permit in the semaphore means a work less
  in process; `PermitsBound` counts both.

**OrderProofs**. A queue node holds a thread_id, which is a slot and is reused.
That the queue still orders the works takes `OrderInv`: commands are numbered and
whatever refers to a command refers to an earlier one (`NumbersBound`); the queue
is sorted by these numbers (`QueueSorted`); a slot about to get a thread has no
thread (`SlotFree`); a handle is stale, or null with the flag set, only where
client_handler is working on it (`HandlesKept`); each node has its WORK
(`NodesOwned`) and each WORK its node (`ThreadsQueued`), from before the thread is
created. `OrderInv` is inductive together with `TypeOK` and `TurnHeld`.

* `OrderKept`, `RepliesOrdered`, `NodesKeepOwners`, `JoinsOnce`: `OrderInv` and the
  three of its parts that say something about the replies, the turns and the
  handles.
* `WorksOrdered`: the refinement of `WorkOrder`. The initial states map to its
  initial states. A push enters the line at its end, the SOLN of the head
  answers it, `CleanupRmTid` lets the head leave; after a torn cleanup or a failed
  creation the abstract step is `Break` or `Disorder`; every other step stutters.
* `PermitsLostOnlySo`: the action property on permits. The creation of a thread
  could lose one only in a slot with a thread in process: `SlotFree` excludes it.
* `OnlyUnlockLeftBehind`: of a session without WORK at most one thread is left, and
  it has only the unlock of `thread_pool_mutex` before it. The invariant `FlagsTell`
  says that the flag of a thread is set until its thread is at that unlock (`Past`)
  or has ended, and the mutex admits one thread there. work_handler clears its flag
  twice, so the hypothesis that no WORK is sent is needed; `work_not_killed` and
  `session_ends` show what happens with one.

**SearchProofs** (`SearchAssumption`: any `NONCE_MAX`, any numbers of btches).

* `SearchTypes`: no sum in the division of the nonces exceeds `NONCE_MAX`.
* `SearchKept`: `SearchInv`. A btch stays in its chunk from its first nonce on
  (`InChunk`), and the scan of the cleanup goes by the handles, so a btch that runs
  must have one and every btch below the scan's index has ended (`Scanned`). What
  is behind a stale handle may be another btch: cancelling it does no harm, and
  joining it makes stale only the handle of one that has ended.
* `TriedOnce`, from `InChunk` and the lemma that chunks with different numbers do
  not overlap, also with the remainder in the last one; `AllStopped`.
* `PromiseKept`: the refinement of `SearchPromise`. Storing a nonce is `Settle`
  since `solution` is written under `solution_mutex` only while it is 0.

**AcceptorProofs** (`AcceptorAssumption`: any `CLIENT_COUNT`, connections, failures).

* `AcceptorTypes`.
* `SlotsOwned` and `SlotsExclusive`. That two threads never share a slot is not
  inductive; `SlotOwned` is: the handle of a running thread stays where main
  will join it, and between the join and the create nobody runs in the slot. The
  flags do not occur in the argument, which is why the race of `joins_the_dead`
  makes main wait and does not break exclusion.
* `SlotsCounted` and `SlotsLostOnlySo`. While main is between two accepts the slot
  it fills has no client, so what is counted against the failures is `Missing`;
  and a thread past the loop at `handler.c:404` would lose its slot if its flag
  were set, so `SlotsAccounted` says that main is then waiting for this thread.

**BufferProofs** (`BufferAssumption`: any `BUFFER_LEN` above 1, any first capacity,
any stream).

* `BufferKept`: `TypeOK`, `UsedReceived` and `ReadsWhenDrained`: client_handler reads
  only when no line is complete, and joins a chunk before it goes on.
* `BufferTypes`, `OnlyReceivedUsed`: no byte of uninitialised memory is used.
* `LinesAreCommands`: `Spec => Stream!Spec`, the safety part of `LinesDelivered`. The
  rest of the stream is a concatenation of three sequences; the lemmas describe
  it byte by byte and then show that `Enlarge`, `Read` and a `JoinClientCommand`
  without a NUL leave it alone, that one with a NUL drops bytes from the NUL to
  the end of the chunk, and that `GetCommand` takes the first line.

**ReplyProofs** (`ReplyAssumption`: any number of commands and any of the kinds).

* `ReplyKept`: `ReplyInv`. Its control part says that only a process that serves has
  threads and a buffer (a log it may have from the process before), which reply
  each is at, and who holds `worker_mutex`; its log part says that a thread at a
  given line of `send_message` has its line in the buffer or the file (`LineReached`)
  and in the file before it writes to the socket, whoever flushed it. Without
  the lock nobody takes, the order in the log follows from each thread being in
  order itself (`TriedLogged`, `NoneBeyond`, `WorkBehind`).
* `ReplyTypes`, `ReceivedIsLogged`, `LogOrdered`, `DeathBetween`, `SolnsOrdered`: the
  type invariant and the properties of `reply_log`, through every cancellation,
  crash and restart.
* `ReasonsWhole`: every text of the server fits the buffers it passes through and
  arrives whole, computed for each kind of reply.

**OperatorProofs** (no assumption; the arguments are in the statements). What the
operators return is said by recursive functions. The library's induction theorems
cannot be used, but that every nonempty set of natural numbers has a least element
can, and from it follows induction for a set (`InductionTo`). For each recursion one
exhibits a function that satisfies its equation, and shows by induction that the
one defined is equal to it.

* `FedMessage`: after `sha256_update` the context holds the whole blocks of all that
  was fed, and the rest in `data`, whatever the pieces (`Fed`). `FinalIsReference`:
  from such a context `sha256_final` makes the padding of `Reference`, with one more
  block from 56 bytes on.
* `CompareIsLess`: deciding by the first byte that differs is the order of numbers.
* `AddNoCarry`, `MulByPower`, `ShiftBytes`: the operands for which `uint256_add`,
  `uint256_mul` and `uint256_sl` are right. There is no carry where one operand is 0,
  a power of two has one bit, so a product with it is one shift, and no bits are
  carried over in a shift by whole bytes. So `MulMovesBytes` and `PowerTimesPower`.
  `FirstSquares` are the only three shifts by less than a byte: 2 * 2 and 4 * 4,
  where nothing is carried over, and 16 * 16, where the carried bits are moved by m
  instead of 8 - m and both are 4.

**CheckProofs** (`CheckAssumption`: any bytes, any lengths of updates, any width of the
exponent from 12 to 32 bits: the code has 32, and 12 hold the largest exponent,
8 * 252, so that a negative one wraps to something larger than 256).

* `CheckInvHolds`: `CheckInv` is `ExpKept`, what `uint256_exp` returned
  (`PowerReturned`), `TargetExact`, that the self test's context has what
  was fed to it (`TestFed`), `HashedWhole`, `VerdictRight`, and types.
* `PowerComputed`: `ExpKept`. That acc^exp * temp is 2^E is not enough, since a product
  of two powers of two may come out wrong. E is a multiple of 8, so exp is even
  until acc is 2^8: temp is 1 and acc one of `FirstSquares`. From then on acc and temp
  are powers of whole bytes, for which products are right, or 0; and one is 0 only
  if E is 256 or more.
* `TargetIsExact`: for alpha 3 and above E is 8 * (alpha - 3), and `MulMovesBytes` moves
  beta by alpha - 3 bytes; below 3 the exponent wraps to one above 256, and the
  power is 0.
* `MessagesHashedWhole` and `HashIsReference`: from the lemmas on `Fed`. The model
  counts with unbounded numbers; the code's index in `sha256_update` has 32 bits, so
  this is about messages below 2^32 bytes, and `MaxMessage` is far below.
* `VerdictIsRight`: from `TargetExact` and `CompareIsLess`. The model picks the digest
  close to the target; `CompareIsLess` itself is about all digests.

Only model-checked is liveness: `EveryCommandAnswered`, `SessionEnds`, `SearchEnds`,
`ValidNonceFound`, `LeaveEnds`, `WorkerMutexComes` and the fairness part of
`LinesDelivered`. Fairness and `ENABLED` are out of the prover's reach. Every other
property of a passing run is a theorem.

## Not modelled, and the plan

Not modelled:

* the 64 rounds of `sha256_transform`, third-party code on 32-bit words whose
  only property is that it is SHA-256;
* `hstob` and the calls of sscanf, which read hexadecimal fields, and the
  splitting of a command into its arguments: string handling without state;
* the layout of a log line, the display on stdout, the animation;
* the test clients;
* a stale handle that is by now the handle of another client's thread, which would
  be cancelled or joined in its place;
* `malloc` and `realloc` that return NULL, which nothing in the code tests, and the
  overflow of the `int` capacity of the receive buffer at lines of 2^30 bytes
  (`handler_helper.c:145`): `Enlarge` always gets its memory, and counts with
  unbounded numbers;
* several sessions on one `global_work_count`: `works_within_limit` already shows
  with one session that the counter goes wrong.

What is worth adding:

* `ClientSession`: how far `global_work_count` can fall below the number of works,
  as an invariant that counts the overlapping decrements; `works_within_limit`
  shows that the two differ.
