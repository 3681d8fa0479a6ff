---------------------------- MODULE SearchProofs ----------------------------
(***************************************************************************)
(* The search of a WORK for every NONCE_MAX, every start and every number  *)
(* of btches: btches stay in chunks that do not overlap, the cleanup       *)
(* leaves none of them running, and the search implements SearchPromise.   *)
(***************************************************************************)
EXTENDS NonceSearch, TLAPS

-----------------------------------------------------------------------------
(* The inductive invariant *)

\* A btch stays within its chunk from its first nonce on. A btch that runs has a
\* handle that is its own, whatever handles of no btch a failed pthread_create
\* has left among them, and so the scan of the cleanup, which goes by the
\* handles, leaves no btch running behind it.
InChunk(b) ==
  /\ bpc[b] # "none" => Start(n, threadCount, b) <= trying[b]
  /\ bpc[b] \in {"try", "lock"} => trying[b] < End(n, threadCount, b)
  /\ bpc[b] = "lock" => trying[b] \in valid

Scanned(b) ==
  /\ wpc \in {"divide", "spawn"} /\ b >= i => bpc[b] = "none"
  /\ ~Ended(b) => handle[b] = "live"
  /\ wpc \in {"cancel", "join"} /\ b < i => Ended(b)
  /\ wpc = "done" => Ended(b)

\* Every btch is where its handle and the progress of the WORK thread say.
SearchInv ==
  /\ wpc = "join" => i < threadCount
  /\ \A b \in Btches : InChunk(b) /\ Scanned(b)

-----------------------------------------------------------------------------
(* The division of the nonces *)

\* Multiplication by a natural number keeps the order.
LEMMA TimesMonotonic ==
  ASSUME NEW a \in Nat, NEW b \in Nat, NEW k \in Nat, a <= b
  PROVE  a * k \in Nat /\ a * k <= b * k
<1>1. PICK d \in Nat : b = a + d
  <2>1. b - a \in Nat /\ b = a + (b - a)
    OBVIOUS
  <2> QED BY <2>1
<1>2. d * k \in Nat /\ a * k \in Nat
  OBVIOUS
<1>3. b * k = a * k + d * k
  BY <1>1
<1> QED BY <1>2, <1>3

\* count chunks fit between the start and NONCE_MAX.
LEMMA ChunksFit ==
  ASSUME NEW from \in Nonces, NEW count \in Nat \ {0}
  PROVE  /\ Chunk(from, count) \in Nat
         /\ from + count * Chunk(from, count) <= NONCE_MAX
<1> DEFINE left == NONCE_MAX - from
<1>1. left \in Nat /\ from \in Nat /\ NONCE_MAX \in Nat
  BY SearchAssumption DEF Nonces
<1>2. NONCE_MAX = from + left
  BY <1>1
<1> HIDE DEF left
<1>3. left \div count \in Nat /\ count * (left \div count) <= left
  BY <1>1
<1>4. Chunk(from, count) = left \div count
  BY DEF Chunk, left
<1> QED BY <1>1, <1>2, <1>3, <1>4

\* A chunk lies in the range that was asked for.
LEMMA ChunkInRange ==
  ASSUME NEW from \in Nonces, NEW count \in Nat \ {0}, NEW b \in 0 .. count - 1
  PROVE  /\ Start(from, count, b) \in Nonces
         /\ from <= Start(from, count, b)
         /\ End(from, count, b) \in Nonces
<1> DEFINE k == Chunk(from, count)
<1>0. from \in Nat /\ NONCE_MAX \in Nat /\ b \in Nat /\ b + 1 \in Nat
      /\ b <= count /\ b + 1 <= count
  BY SearchAssumption DEF Nonces
<1>1. k \in Nat /\ from + count * k <= NONCE_MAX
  BY ChunksFit
<1> HIDE DEF k
<1>2. /\ b * k \in Nat /\ b * k <= count * k
      /\ (b + 1) * k \in Nat /\ (b + 1) * k <= count * k
  BY <1>0, <1>1, TimesMonotonic
<1>3. count * k \in Nat
  BY <1>1
<1>4. /\ from + b * k \in Nonces /\ from <= from + b * k
      /\ from + (b + 1) * k \in Nonces
  BY <1>0, <1>1, <1>2, <1>3 DEF Nonces
<1>5. NONCE_MAX \in Nonces
  BY <1>0 DEF Nonces
<1> QED BY <1>4, <1>5 DEF Start, End, k

\* A chunk ends before a later one starts.
LEMMA ChunksApart ==
  ASSUME NEW from \in Nonces, NEW count \in Nat \ {0},
         NEW b \in 0 .. count - 1, NEW c \in 0 .. count - 1, b < c
  PROVE  End(from, count, b) <= Start(from, count, c)
<1> DEFINE k == Chunk(from, count)
<1>0. from \in Nat /\ c \in Nat /\ b + 1 \in Nat /\ b + 1 <= c
      /\ b # count - 1
  BY SearchAssumption DEF Nonces
<1>1. k \in Nat
  BY ChunksFit
<1> HIDE DEF k
<1>2. (b + 1) * k \in Nat /\ (b + 1) * k <= c * k
  BY <1>0, <1>1, TimesMonotonic
<1>3. c * k \in Nat
  BY <1>0, <1>1
<1>4. from + (b + 1) * k <= from + c * k
  BY <1>0, <1>2, <1>3
<1> QED BY <1>0, <1>4 DEF Start, End, k

-----------------------------------------------------------------------------
(* The types, and the inductive invariant *)

\* A WORK that has btches has a thread_count.
LEMMA TaskTypes ==
  ASSUME TypeOK
  PROVE  /\ n \in Nonces /\ threadCount \in Nat /\ i \in Nat
         /\ NONCE_MAX \in Nat /\ \A x \in Nonces : x \in Nat
         /\ \A b \in Btches : threadCount \in Nat \ {0}
                              /\ b \in 0 .. threadCount - 1 /\ b \in Nat
BY SearchAssumption DEF TypeOK, Btches, Nonces

\* The task of a WORK is set before its thread is created.
LEMMA TaskKept ==
  ASSUME [Next]_vars
  PROVE  UNCHANGED <<n, threadCount, valid>>
BY DEF Next, vars, taskVars, WorkStep, Divide, SpawnBtch, SpawnDone, Poll,
   DozeOver, SendSolution, Unwind, StopBtches, CancelBtch, CancelStale,
   SkipBtch, JoinBtch, JoinStale, FreeSearch, SpawnFails, CancelWork,
   KilledInJoin, BtchStep, BtchLoop, BtchCancelled, BtchTry, BtchStore,
   BtchOrphan

\* The steps of the WORK thread, those nothing makes it take included, and of
\* those who cancel it.
WorkMoves ==
  WorkStep \/ SpawnFails \/ JoinStale \/ CancelWork \/ KilledInJoin

\* They keep the types.
LEMMA WorkTypes ==
  ASSUME TypeOK, SearchInv, WorkMoves
  PROVE  TypeOK'
<1> USE DEF TypeOK, taskVars, btchVars
<1>0. UNCHANGED <<n, threadCount, valid>> /\ Btches' = Btches
      /\ threadCount \in Nat /\ i \in Nat
  BY TaskKept, TaskTypes DEF Next, Btches, WorkMoves
<1>1. CASE Divide
  BY <1>0, <1>1 DEF Divide
<1>2. CASE SpawnBtch
  <2>1. i \in Btches /\ i + 1 \in 0 .. threadCount
    BY <1>0, <1>2 DEF SpawnBtch, Btches
  <2>2. Start(n, threadCount, i) \in Nonces
    BY <2>1, TaskTypes, ChunkInRange
  <2> QED BY <1>0, <1>2, <2>1, <2>2 DEF SpawnBtch
<1>3. CASE SpawnFails
  <2>1. handle' \in [Btches -> {"null", "live", "stale"}]
    BY <1>3 DEF SpawnFails
  <2>2. i + 1 \in 0 .. threadCount
    BY <1>0, <1>3 DEF SpawnFails
  <2> QED BY <1>0, <1>3, <2>1, <2>2 DEF SpawnFails
<1>4. CASE SpawnDone \/ Poll \/ DozeOver \/ SendSolution \/ Unwind
  BY <1>0, <1>4 DEF SpawnDone, Poll, DozeOver, SendSolution, Unwind
<1>5. CASE CancelWork \/ KilledInJoin \/ FreeSearch
  BY <1>0, <1>5 DEF CancelWork, KilledInJoin, FreeSearch
<1>8. CASE StopBtches
  BY <1>0, <1>8 DEF StopBtches
<1>6. CASE CancelBtch \/ CancelStale
  BY <1>0, <1>6 DEF CancelBtch, CancelStale
<1>9. CASE JoinStale
  <2>1. handle' \in [Btches -> {"null", "live", "stale"}] /\ up' \in BOOLEAN
    BY <1>9 DEF JoinStale
  <2>2. i + 1 \in 0 .. threadCount
    BY <1>0, <1>9 DEF JoinStale, SearchInv
  <2> QED BY <1>0, <1>9, <2>1, <2>2 DEF JoinStale
<1>7. CASE SkipBtch \/ JoinBtch
  <2>1. i + 1 \in 0 .. threadCount
    BY <1>0, <1>7 DEF SkipBtch, JoinBtch, SearchInv
  <2> QED BY <1>0, <1>7, <2>1 DEF SkipBtch, JoinBtch
<1> QED BY <1>1, <1>2, <1>3, <1>4, <1>5, <1>6, <1>7, <1>8, <1>9
        DEF WorkStep, WorkMoves

\* The steps of a btch: the nonce it goes on to is one, since its chunk ends
\* within the range.
LEMMA BtchTypes ==
  ASSUME TypeOK, SearchInv, NEW b \in BtchIds, BtchStep(b)
  PROVE  TypeOK'
<1> USE DEF TypeOK, taskVars, workVars
<1>0. UNCHANGED <<n, threadCount, valid>> /\ Btches' = Btches /\ b \in Btches
  BY TaskKept DEF Next, Btches, BtchStep
<1>1. CASE BtchLoop(b)
  BY <1>0, <1>1 DEF BtchLoop
<1>2. CASE BtchCancelled(b) \/ BtchStore(b) \/ BtchOrphan(b)
  BY <1>0, <1>2 DEF BtchCancelled, BtchStore, BtchOrphan
<1>3. CASE BtchTry(b)
  <2>1. trying[b] + 1 \in Nonces
    <3>1. trying[b] < End(n, threadCount, b)
      BY <1>0, <1>3 DEF BtchTry, SearchInv, InChunk
    <3>2. End(n, threadCount, b) \in Nonces
      BY <1>0, TaskTypes, ChunkInRange
    <3>3. trying[b] \in Nonces
      BY <1>0
    <3> QED BY <3>1, <3>2, <3>3, SearchAssumption DEF Nonces
  <2> QED BY <1>0, <1>3, <2>1 DEF BtchTry
<1> QED BY <1>1, <1>2, <1>3 DEF BtchStep

\* The WORK thread keeps the btches in their chunks and its scan complete.
LEMMA WorkInv ==
  ASSUME TypeOK, SearchInv, WorkMoves
  PROVE  SearchInv'
<1> USE DEF btchVars
<1>0. UNCHANGED <<n, threadCount, valid>> /\ Btches' = Btches
      /\ threadCount \in Nat /\ i \in Nat
      /\ \A b \in Btches : b \in Nat
  BY TaskKept, TaskTypes DEF Next, Btches, WorkMoves
<1>1. CASE SpawnBtch
  <2>1. i \in Btches /\ Start(n, threadCount, i) \in Nonces
    BY <1>0, <1>1, TaskTypes, ChunkInRange DEF SpawnBtch, Btches
  <2>2. /\ wpc = "spawn" /\ wpc' = "spawn" /\ i' = i + 1
        /\ handle' = [handle EXCEPT ![i] = "live"]
        /\ bpc' = [bpc EXCEPT ![i] = "loop"]
        /\ trying' = [trying EXCEPT ![i] = Start(n, threadCount, i)]
    BY <1>1 DEF SpawnBtch
  <2>3. Start(n, threadCount, i) <= Start(n, threadCount, i)
    BY <2>1, TaskTypes
  <2>4. \A b \in Btches : InChunk(b)'
    BY <1>0, <2>1, <2>2, <2>3 DEF SearchInv, InChunk, Start, End, Chunk, TypeOK
  <2>5. \A b \in Btches : Scanned(b)'
    BY <1>0, <2>1, <2>2 DEF SearchInv, Scanned, Ended, TypeOK
  <2> QED BY <1>0, <2>2, <2>4, <2>5 DEF SearchInv
<1>2. CASE ~SpawnBtch
  <2>1. UNCHANGED <<bpc, trying>>
    BY <1>2 DEF WorkMoves, WorkStep, Divide, SpawnDone, Poll, DozeOver,
       SendSolution, Unwind, StopBtches, CancelBtch, CancelStale, SkipBtch,
       JoinBtch, JoinStale, FreeSearch, SpawnFails, CancelWork, KilledInJoin
  \* Only a handle nobody runs behind is written.
  <2>0. \A b \in Btches : ~Ended(b) => handle'[b] = "live"
    <3>1. CASE SpawnFails
      <4>1. i \in Btches /\ Ended(i)
        BY <1>0, <3>1 DEF SpawnFails, SearchInv, Scanned, Ended, Btches
      <4> QED BY <3>1, <4>1 DEF SpawnFails, SearchInv, Scanned, TypeOK
    <3>2. CASE JoinStale
      BY <3>2 DEF JoinStale, SearchInv, Scanned, TypeOK
    <3>3. CASE ~SpawnFails /\ ~JoinStale
      <4>1. UNCHANGED handle
        BY <1>2, <3>3 DEF WorkMoves, WorkStep, Divide, SpawnDone, Poll,
           DozeOver, SendSolution, Unwind, StopBtches, CancelBtch, CancelStale,
           SkipBtch, JoinBtch, FreeSearch, CancelWork, KilledInJoin
      <4> QED BY <4>1 DEF SearchInv, Scanned
    <3> QED BY <3>1, <3>2, <3>3
  <2>2. \A b \in Btches : InChunk(b)'
    BY <1>0, <2>1 DEF SearchInv, InChunk, Start, End, Chunk
  <2>3. (wpc' = "join" => i' < threadCount)
        /\ \A b \in Btches : Scanned(b)'
    <3>1. CASE SkipBtch \/ JoinBtch \/ JoinStale
      <4>1. /\ wpc' = "cancel" /\ i' = i + 1 /\ wpc \in {"cancel", "join"}
            /\ i \in Btches => Ended(i)
        BY <3>1 DEF SkipBtch, JoinBtch, JoinStale, SearchInv, Scanned
      <4>2. \A b \in Btches : b < i' => b < i \/ b = i
        BY <1>0, <4>1
      <4> QED BY <2>0, <2>1, <4>1, <4>2 DEF SearchInv, Scanned, Ended
    <3>2. CASE FreeSearch
      <4>1. \A b \in Btches : b < i
        BY <3>2, TaskTypes DEF FreeSearch, Btches
      <4> QED BY <2>0, <2>1, <3>2, <4>1 DEF FreeSearch, SearchInv, Scanned, Ended
    <3>3. CASE StopBtches
      <4>1. \A b \in Btches : ~(b < 0)
        BY <1>0
      <4> QED BY <2>0, <2>1, <3>3, <4>1 DEF StopBtches, SearchInv, Scanned, Ended
    <3>4. CASE CancelBtch \/ CancelStale \/ KilledInJoin \/ CancelWork
      BY <1>0, <2>0, <2>1, <3>4 DEF CancelBtch, CancelStale, KilledInJoin,
         CancelWork, SearchInv, Scanned, Ended
    <3>5. CASE Divide \/ SpawnDone \/ SpawnFails \/ Poll \/ DozeOver
               \/ SendSolution \/ Unwind
      BY <1>0, <2>0, <2>1, <3>5 DEF Divide, SpawnDone, SpawnFails, Poll, DozeOver,
         SendSolution, Unwind, SearchInv, Scanned, Ended
    <3> QED BY <1>2, <3>1, <3>2, <3>3, <3>4, <3>5 DEF WorkStep, WorkMoves
  <2> QED BY <1>0, <2>2, <2>3 DEF SearchInv
<1> QED BY <1>1, <1>2

\* A btch moves forward within its chunk, and one that has ended stays so.
LEMMA BtchInv ==
  ASSUME TypeOK, SearchInv, NEW b \in BtchIds, BtchStep(b)
  PROVE  SearchInv'
<1> USE DEF workVars
<1>0. /\ UNCHANGED <<n, threadCount, valid>> /\ Btches' = Btches
      /\ b \in Btches
  BY TaskKept DEF Next, Btches, BtchStep
<1>1. UNCHANGED <<wpc, i, handle>>
      /\ bpc[b] \in {"loop", "try", "lock"} /\ bpc'[b] # "none"
      /\ \A c \in Btches \ {b} : bpc'[c] = bpc[c] /\ trying'[c] = trying[c]
  BY <1>0 DEF BtchStep, BtchLoop, BtchCancelled, BtchTry, BtchStore, BtchOrphan,
     TypeOK
<1>2. InChunk(b)'
  <2>1. InChunk(b) /\ trying[b] \in Nat /\ Start(n, threadCount, b) \in Nat
        /\ End(n, threadCount, b) \in Nat
    BY <1>0, TaskTypes, ChunkInRange DEF SearchInv, TypeOK
  <2>2. UNCHANGED <<Start(n, threadCount, b), End(n, threadCount, b)>>
    BY <1>0 DEF Start, End, Chunk
  <2>3. CASE BtchLoop(b)
    BY <1>0, <2>1, <2>2, <2>3 DEF BtchLoop, InChunk, TypeOK
  <2>4. CASE BtchTry(b)
    BY <1>0, <2>1, <2>2, <2>4 DEF BtchTry, InChunk, TypeOK
  <2>5. CASE BtchCancelled(b) \/ BtchStore(b) \/ BtchOrphan(b)
    BY <1>0, <2>1, <2>2, <2>5
    DEF BtchCancelled, BtchStore, BtchOrphan, InChunk, TypeOK
  <2> QED BY <2>3, <2>4, <2>5 DEF BtchStep
<1>3. Scanned(b)'
  BY <1>0, <1>1 DEF SearchInv, Scanned, Ended
<1>4. \A c \in Btches \ {b} : InChunk(c)' /\ Scanned(c)'
  BY <1>0, <1>1 DEF SearchInv, InChunk, Scanned, Ended, Start, End, Chunk
<1> QED BY <1>0, <1>1, <1>2, <1>3, <1>4 DEF SearchInv

\* Types and invariant are inductive together: a nonce stays within NONCE_MAX
\* because a btch stays within its chunk.
THEOREM SearchKept == Spec => [](TypeOK /\ SearchInv)
<1>1. Init => TypeOK /\ SearchInv
  <2> SUFFICES ASSUME Init PROVE TypeOK /\ SearchInv
    OBVIOUS
  <2>1. TypeOK
    <3>1. threadCount \in Nat /\ 0 \in 0 .. threadCount /\ 0 \in Nonces
      BY SearchAssumption DEF Init, Nonces
    <3> QED BY <3>1 DEF Init, TypeOK
  <2>2. SearchInv
    BY DEF Init, SearchInv, InChunk, Scanned, Ended
  <2> QED BY <2>1, <2>2
<1>2. TypeOK /\ SearchInv /\ [Next]_vars => (TypeOK /\ SearchInv)'
  <2> SUFFICES ASSUME TypeOK, SearchInv, [Next]_vars
               PROVE  TypeOK' /\ SearchInv'
    OBVIOUS
  <2>1. CASE UNCHANGED vars
    BY <2>1 DEF vars, taskVars, workVars, btchVars, TypeOK, SearchInv, InChunk,
       Scanned, Ended, Btches, Start, End, Chunk
  <2> QED BY <2>1, WorkTypes, BtchTypes, WorkInv, BtchInv DEF Next, WorkMoves
<1> QED BY <1>1, <1>2, PTL DEF Spec

-----------------------------------------------------------------------------
(* What follows *)

\* The type invariant of a search; that trying stays a uint64 says that no btch
\* runs past the largest nonce.
THEOREM SearchTypes == Spec => []TypeOK
BY SearchKept, PTL

\* No nonce is tried by two btches, whatever the start and the number of btches.
THEOREM TriedOnce == Spec => []NoNonceTwice
<1>1. TypeOK /\ SearchInv => NoNonceTwice
  <2> SUFFICES ASSUME TypeOK, SearchInv, NEW b \in Btches, NEW c \in Btches,
                      bpc[b] = "try", bpc[c] = "try", b < c
               PROVE  trying[b] < trying[c]
    <3> SUFFICES ASSUME TypeOK, SearchInv, NEW b \in Btches, NEW c \in Btches,
                        bpc[b] = "try", bpc[c] = "try", b # c
                 PROVE  trying[b] # trying[c]
      BY DEF NoNonceTwice
    <3>1. /\ b \in Nat /\ c \in Nat
          /\ trying[b] \in Nonces /\ trying[c] \in Nonces
      BY TaskTypes DEF TypeOK
    <3>2. trying[b] \in Nat /\ trying[c] \in Nat
      BY <3>1, TaskTypes
    <3>3. b < c \/ c < b
      BY <3>1
    <3> QED BY <3>2, <3>3
  <2>1. trying[b] < End(n, threadCount, b) /\ Start(n, threadCount, c) <= trying[c]
    BY DEF SearchInv, InChunk
  <2>2. End(n, threadCount, b) <= Start(n, threadCount, c)
    BY TaskTypes, ChunksApart
  <2>3. /\ trying[b] \in Nat /\ trying[c] \in Nat
        /\ End(n, threadCount, b) \in Nat /\ Start(n, threadCount, c) \in Nat
    BY TaskTypes, ChunkInRange DEF TypeOK
  <2> QED BY <2>1, <2>2, <2>3
<1> QED BY <1>1, SearchKept, PTL

\* When the cleanup has freed what the btches use, none of them is running, also
\* when a failed pthread_create left a handle that is no btch's, or another's.
THEOREM AllStopped == Spec => []BtchesStopped
<1>1. SearchInv => BtchesStopped
  BY DEF SearchInv, Scanned, BtchesStopped
<1> QED BY <1>1, SearchKept, PTL

-----------------------------------------------------------------------------
(* The search implements SearchPromise *)

Phase == IF ~Answered THEN "search"
         ELSE IF wpc = "send" THEN "answer" ELSE "stopped"

\* A btch only settles the solution, and only where there was none.
LEMMA BtchSettles ==
  ASSUME TypeOK, SearchInv, NEW b \in BtchIds, BtchStep(b)
  PROVE  Promise!Settle \/ UNCHANGED <<n, valid, solution, Phase>>
<1>1. UNCHANGED <<n, threadCount, valid>> /\ UNCHANGED Phase /\ b \in Btches
  <2>1. UNCHANGED wpc /\ b \in Btches
    BY DEF BtchStep, BtchLoop, BtchCancelled, BtchTry, BtchStore, BtchOrphan,
       workVars
  <2> QED BY <2>1, TaskKept DEF Next, Phase, Answered
<1>2. CASE BtchStore(b) /\ solution = 0
  <2>1. solution' = trying[b] /\ bpc[b] = "lock"
    BY <1>2 DEF BtchStore
  <2>2. trying[b] \in valid /\ Start(n, threadCount, b) <= trying[b]
        /\ trying[b] < End(n, threadCount, b)
    BY <1>1, <2>1 DEF SearchInv, InChunk
  <2>3. /\ Start(n, threadCount, b) \in Nonces
        /\ n <= Start(n, threadCount, b)
        /\ End(n, threadCount, b) \in Nonces
    BY <1>1, TaskTypes, ChunkInRange
  <2>4. trying[b] \in Nonces /\ n \in Nonces
    BY <1>1 DEF TypeOK
  <2>5. trying[b] \in n .. NONCE_MAX - 1
    BY <2>2, <2>3, <2>4, SearchAssumption DEF Nonces
  <2> QED BY <1>1, <1>2, <2>1, <2>2, <2>5 DEF Promise!Settle, Phase
<1>3. CASE ~(BtchStore(b) /\ solution = 0)
  <2>1. UNCHANGED solution
    BY <1>3 DEF BtchStep, BtchLoop, BtchCancelled, BtchTry, BtchStore,
       BtchOrphan
  <2> QED BY <1>1, <2>1
<1> QED BY <1>2, <1>3

\* The WORK thread answers once it has seen a solution, and stops.
LEMMA WorkAnswers ==
  ASSUME TypeOK, WorkMoves
  PROVE  Promise!Next \/ UNCHANGED <<n, valid, solution, Phase>>
<1>0. UNCHANGED <<n, threadCount, valid>> /\ UNCHANGED solution
  <2>1. UNCHANGED solution
    BY DEF WorkMoves, WorkStep, Divide, SpawnBtch, SpawnDone, Poll, DozeOver,
       SendSolution, Unwind, StopBtches, CancelBtch, CancelStale, SkipBtch,
       JoinBtch, JoinStale, FreeSearch, SpawnFails, CancelWork, KilledInJoin
  <2> QED BY <2>1, TaskKept DEF Next, WorkMoves
<1>1. CASE Poll
  <2>1. CASE solution = 0
    BY <1>0, <1>1, <2>1 DEF Poll, Phase, Answered
  <2>2. CASE solution # 0
    BY <1>0, <1>1, <2>2 DEF Poll, Phase, Answered, Promise!Next, Promise!Send
  <2> QED BY <2>1, <2>2
<1>2. CASE SendSolution \/ Unwind
  <2>1. Phase # "stopped" /\ Phase' = "stopped"
    BY <1>2 DEF SendSolution, Unwind, Phase, Answered
  <2> QED BY <1>0, <2>1 DEF Promise!Next, Promise!Stop, Phase
<1>3. CASE Divide \/ SpawnBtch \/ SpawnDone \/ DozeOver \/ SpawnFails
           \/ CancelWork
  <2>1. UNCHANGED Phase
    BY <1>3 DEF Divide, SpawnBtch, SpawnDone, DozeOver, SpawnFails, CancelWork,
       Phase, Answered
  <2> QED BY <1>0, <2>1
<1>4. CASE StopBtches \/ CancelBtch \/ CancelStale \/ SkipBtch \/ JoinBtch
           \/ JoinStale \/ FreeSearch \/ KilledInJoin
  <2>1. UNCHANGED Phase
    BY <1>4 DEF StopBtches, CancelBtch, CancelStale, SkipBtch, JoinBtch,
       JoinStale, FreeSearch, KilledInJoin, Phase, Answered
  <2> QED BY <1>0, <2>1
<1> QED BY <1>1, <1>2, <1>3, <1>4 DEF WorkStep, WorkMoves

\* However many btches share the search, one valid nonce of the range asked for
\* is settled on, and work_handler sends the one it saw in its poll.
THEOREM PromiseKept == Spec => SearchSound
<1>1. Init => Promise!Init
  BY DEF Init, Promise!Init, Nonces, Answered
<1>2. TypeOK /\ SearchInv /\ [Next]_vars
        => [Promise!Next]_(Promise!promiseVars)
  <2> SUFFICES ASSUME TypeOK, SearchInv, [Next]_vars
               PROVE  Promise!Next \/ UNCHANGED <<n, valid, solution, Phase>>
    BY DEF Promise!promiseVars, Phase
  <2>1. CASE UNCHANGED vars
    BY <2>1 DEF vars, taskVars, workVars, Phase, Answered
  <2>2. ASSUME NEW b \in BtchIds, BtchStep(b)
        PROVE  Promise!Next \/ UNCHANGED <<n, valid, solution, Phase>>
    BY <2>2, BtchSettles DEF Promise!Next
  <2>3. CASE WorkMoves
    BY <2>3, WorkAnswers
  <2> QED BY <2>1, <2>2, <2>3 DEF Next, WorkMoves
<1> QED BY <1>1, <1>2, SearchKept, PTL DEF Spec, SearchSound, Promise!Spec
=============================================================================
