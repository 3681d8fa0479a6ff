------------------------------ MODULE Acceptor ------------------------------
(***************************************************************************)
(* The accept loop of main (driver.c) and the life of its client threads,  *)
(* of which only the end matters here: the part of client_handler_cleanup  *)
(* after the socket was closed (handler.c). A session as a whole is        *)
(* ClientSession.                                                          *)
(*                                                                         *)
(* mpc of main:                                                            *)
(*   accept   waiting for a connection                 (line 96)           *)
(*   slot     get_avail_thread                         (line 112)          *)
(*   join     pthread_join of the slot's old thread    (lines 129-132)     *)
(*   create   pthread_create                           (line 158)          *)
(*   inc      curr_cli_count++, its load               (line 169)          *)
(*   inc2     curr_cli_count++, its store              (line 169)          *)
(*                                                                         *)
(* tpc of connection c, which also names the thread that serves it:        *)
(*   none     not accepted yet                                             *)
(*   held     accepted, no thread yet                                      *)
(*   refused  closed by main, the pool is full                             *)
(*   lost     pthread_create failed unnoticed, nobody serves the socket    *)
(*   serve    client_handler runs; the socket is open                      *)
(*   check    the test of the loop that resets the flag (handler.c 404)    *)
(*   reset    reset_flag in that loop                  (handler.c 405)     *)
(*   dec      curr_cli_count--, its load               (handler.c 408)     *)
(*   dec2     curr_cli_count--, its store              (handler.c 408)     *)
(*   exited   the thread has returned                                      *)
(***************************************************************************)
EXTENDS Integers, FiniteSets

CONSTANTS
  CLIENT_COUNT,  \* slots of main's thread_pool
  MaxConns,      \* bound: connections the server accepts
  MaxCreateFail  \* bound: pthread_create calls that fail

ASSUME AcceptorAssumption ==
  /\ CLIENT_COUNT \in Nat \ {0}
  /\ MaxConns \in Nat
  /\ MaxCreateFail \in Nat

Slots == 0 .. CLIENT_COUNT - 1

Conns == 1 .. MaxConns

VARIABLES
  mpc,    \* where main is
  conn,   \* connections accepted so far, which numbers the current one
  slot,   \* main's i
  fails,  \* failed pthread_create calls
  flags,  \* thread_avail_flags: 1 when the slot is taken
  pool,   \* thread_pool: the thread whose pthread_t is there, 0 for none
  tpc,    \* where the thread of the connection is
  home,   \* the slot of that thread (its client_id)
  count,  \* curr_cli_count
  mtmp,   \* main's read of curr_cli_count
  ttmp    \* the thread's read of curr_cli_count

mainVars == <<mpc, conn, slot, fails, mtmp>>
vars == <<mainVars, flags, pool, tpc, home, count, ttmp>>

Init ==
  /\ mpc = "accept" /\ conn = 0 /\ slot = 0 /\ fails = 0 /\ mtmp = 0
  /\ flags = [s \in Slots |-> 0]
  /\ pool = [s \in Slots |-> 0]
  /\ tpc = [c \in Conns |-> "none"]
  /\ home = [c \in Conns |-> 0]
  /\ count = 0
  /\ ttmp = [c \in Conns |-> 0]

Goto(c, from, to) ==
  /\ tpc[c] = from
  /\ tpc' = [tpc EXCEPT ![c] = to]

-----------------------------------------------------------------------------
\* main

\* A failed accept goes round the loop and changes nothing.
Accept ==
  /\ mpc = "accept"
  /\ conn < MaxConns
  /\ conn' = conn + 1
  /\ Goto(conn + 1, "none", "held")
  /\ mpc' = "slot"
  /\ UNCHANGED <<slot, fails, mtmp, flags, pool, home, count, ttmp>>

\* get_avail_thread returns the lowest slot whose flag is clear.
GetAvailThread ==
  /\ mpc = "slot"
  /\ \E s \in Slots :
       /\ flags[s] = 0
       /\ \A r \in Slots : r < s => flags[r] = 1
       /\ flags' = [flags EXCEPT ![s] = 1]
       /\ slot' = s
  /\ mpc' = "join"
  /\ UNCHANGED <<conn, fails, mtmp, pool, tpc, home, count, ttmp>>

\* Mutant: the -1 of get_avail_thread is used as a slot.
RefuseUnchecked ==
  /\ mpc = "slot"
  /\ \A s \in Slots : flags[s] = 1
  /\ slot' = -1
  /\ mpc' = "join"
  /\ UNCHANGED <<conn, fails, mtmp, flags, pool, tpc, home, count, ttmp>>

\* get_avail_thread returns -1: the connection is closed.
Refuse ==
  /\ mpc = "slot"
  /\ \A s \in Slots : flags[s] = 1
  /\ Goto(conn, "held", "refused")
  /\ mpc' = "accept"
  /\ UNCHANGED <<conn, slot, fails, mtmp, flags, pool, home, count, ttmp>>

\* Mutant: the slot's old thread is not joined.
JoinNobody ==
  /\ mpc = "join"
  /\ mpc' = "create"
  /\ UNCHANGED <<conn, slot, fails, mtmp, flags, pool, tpc, home, count, ttmp>>

JoinDead ==
  /\ mpc = "join"
  /\ pool[slot] # 0 => tpc[pool[slot]] = "exited"
  /\ mpc' = "create"
  /\ UNCHANGED <<conn, slot, fails, mtmp, flags, pool, tpc, home, count, ttmp>>

CreateThread ==
  /\ mpc = "create"
  /\ pool' = [pool EXCEPT ![slot] = conn]
  /\ home' = [home EXCEPT ![conn] = slot]
  /\ Goto(conn, "held", "serve")
  /\ mpc' = "inc"
  /\ UNCHANGED <<conn, slot, fails, mtmp, flags, count, ttmp>>

\* pthread_create fails with a positive error number, which the test for a
\* negative one misses: the failure path never runs, and the connection is
\* counted as served.
CreateFails ==
  /\ mpc = "create"
  /\ fails < MaxCreateFail
  /\ fails' = fails + 1
  /\ Goto(conn, "held", "lost")
  /\ mpc' = "inc"
  /\ UNCHANGED <<conn, slot, mtmp, flags, pool, home, count, ttmp>>

\* curr_cli_count++ is a plain load and store. global_served_count is written
\* by main alone and left out.
IncLoad ==
  /\ mpc = "inc"
  /\ mtmp' = count
  /\ mpc' = "inc2"
  /\ UNCHANGED <<conn, slot, fails, flags, pool, tpc, home, count, ttmp>>

IncStore ==
  /\ mpc = "inc2"
  /\ count' = mtmp + 1
  /\ mpc' = "accept"
  /\ UNCHANGED <<conn, slot, fails, mtmp, flags, pool, tpc, home, ttmp>>

-----------------------------------------------------------------------------
\* A client thread

\* Mutant: the thread leaves without resetting its flag.
CloseKeepsFlag(c) ==
  /\ Goto(c, "serve", "dec")
  /\ UNCHANGED <<mainVars, flags, pool, home, count, ttmp>>

\* The client disconnects and the session is torn down.
CloseSession(c) ==
  /\ Goto(c, "serve", "check")
  /\ UNCHANGED <<mainVars, flags, pool, home, count, ttmp>>

\* while(*(arg->flags + arg->client_id) == 1), read without the mutex
CheckFlag(c) ==
  /\ Goto(c, "check", IF flags[home[c]] = 1 THEN "reset" ELSE "dec")
  /\ UNCHANGED <<mainVars, flags, pool, home, count, ttmp>>

\* Mutant: the flag is not cleared.
ResetNothing(c) ==
  /\ Goto(c, "reset", "check")
  /\ UNCHANGED <<mainVars, flags, pool, home, count, ttmp>>

\* reset_flag
ResetFlag(c) ==
  /\ Goto(c, "reset", "check")
  /\ flags' = [flags EXCEPT ![home[c]] = 0]
  /\ UNCHANGED <<mainVars, pool, home, count, ttmp>>

\* curr_cli_count-- is a plain load and store.
DecLoad(c) ==
  /\ Goto(c, "dec", "dec2")
  /\ ttmp' = [ttmp EXCEPT ![c] = count]
  /\ UNCHANGED <<mainVars, flags, pool, home, count>>

DecStore(c) ==
  /\ Goto(c, "dec2", "exited")
  /\ count' = ttmp[c] - 1
  /\ UNCHANGED <<mainVars, flags, pool, home, ttmp>>

LeaveStep(c) == CheckFlag(c) \/ ResetFlag(c) \/ DecLoad(c) \/ DecStore(c)

MainStep ==
  \/ GetAvailThread \/ Refuse \/ JoinDead \/ CreateThread
  \/ IncLoad \/ IncStore

Next ==
  \/ Accept \/ MainStep \/ CreateFails
  \/ \E c \in Conns : CloseSession(c) \/ LeaveStep(c)

Spec == Init /\ [][Next]_vars

\* The scheduler runs every thread that can run; nothing makes a client connect
\* or disconnect.
FairSpec ==
  /\ Spec
  /\ WF_vars(MainStep)
  /\ \A c \in Conns : WF_vars(LeaveStep(c))

-----------------------------------------------------------------------------
TypeOK ==
  /\ mpc \in {"accept", "slot", "join", "create", "inc", "inc2"}
  /\ conn \in 0 .. MaxConns
  /\ slot \in Slots
  /\ fails \in Nat
  /\ flags \in [Slots -> {0, 1}]
  /\ pool \in [Slots -> {0} \cup Conns]
  /\ tpc \in [Conns -> {"none", "held", "refused", "lost", "serve", "check",
                        "reset", "dec", "dec2", "exited"}]
  /\ home \in [Conns -> Slots]
  /\ count \in Int /\ mtmp \in Int
  /\ ttmp \in [Conns -> Int]

\* The thread has begun and has not returned.
Alive(c) == tpc[c] \in {"serve", "check", "reset", "dec", "dec2"}

\* Two client threads never share a slot: each leaves through the flag of its
\* client_id and is joined through the handle there, so a second thread of the
\* same client_id would give the first one's slot away. It holds although the
\* flag may already be clear while the thread that owns the slot is running.
SlotExclusive ==
  \A c, d \in Conns : Alive(c) /\ Alive(d) /\ home[c] = home[d] => c = d

\* What keeps slots exclusive: the handle of a running thread stays in
\* thread_pool until main has joined it, and between the join and the
\* pthread_create nobody runs in the slot. The flags play no part in it.
SlotOwned ==
  /\ \A c \in Conns : Alive(c) => pool[home[c]] = c
  /\ mpc = "create" => \A c \in Conns : Alive(c) => home[c] # slot

\* Slots whose flag is set and in which no client thread runs.
Leaked ==
  {s \in Slots : flags[s] = 1 /\ ~\E c \in Conns : Alive(c) /\ home[c] = s}

\* When main waits for the next connection, no slot is lost but one for every
\* pthread_create that failed unnoticed, although main and a leaving thread set
\* and clear the same flag in any order.
SlotsLostByFailure == mpc = "accept" => Cardinality(Leaked) <= fails

\* The slots that are lost, the one main is about to fill left out.
Missing == {s \in Leaked : ~(mpc \in {"join", "create"} /\ s = slot)}

\* Why no slot is lost otherwise; see AcceptorProofs. A thread that has left the
\* loop at handler.c:404 finds its flag set again only while main waits for
\* this very thread, to put the next client into its slot.
SlotsAccounted ==
  /\ mpc \in {"slot", "join", "create"} => conn \in Conns
  /\ \A c \in Conns : tpc[c] \in {"dec", "dec2"} /\ flags[home[c]] = 1
       => mpc = "join" /\ slot = home[c]
  /\ Cardinality(Missing) <= fails

\* A client thread that resets its flag gets out of the loop at handler.c:404,
\* although main may set the flag again at once, and it ends.
LeaveEnds == \A c \in Conns : tpc[c] = "check" ~> tpc[c] = "exited"

\* driver.c: "join the dead thread". The thread main waits for before it
\* accepts again is one that has left its session.
JoinsTheDead ==
  mpc = "join" /\ pool[slot] # 0 => tpc[pool[slot]] # "serve"
=============================================================================
