--------------------------- MODULE AcceptorProofs ---------------------------
(***************************************************************************)
(* Client threads never share a slot of main's thread_pool, for every      *)
(* CLIENT_COUNT and however often pthread_create fails, and a slot is lost *)
(* only where it fails.                                                    *)
(***************************************************************************)
EXTENDS Acceptor, FiniteSetTheorems, TLAPS

\* The ranges the steps of main and of the client threads move in.
LEMMA Ranges ==
  /\ 0 \in Slots
  /\ Conns \subseteq Nat \ {0}
  /\ 0 .. MaxConns = {0} \cup Conns
BY AcceptorAssumption DEF Slots, Conns

\* One step keeps the types.
LEMMA StepTypes ==
  ASSUME TypeOK, Next
  PROVE  TypeOK'
<1> USE DEF TypeOK, Goto, mainVars
<1>1. CASE Accept
  BY <1>1, AcceptorAssumption DEF Accept, Conns
<1>2. CASE GetAvailThread
  <2>1. PICK s \in Slots : flags' = [flags EXCEPT ![s] = 1] /\ slot' = s
    BY <1>2 DEF GetAvailThread
  <2> QED BY <1>2, <2>1 DEF GetAvailThread
<1>3. CASE Refuse
  BY <1>3 DEF Refuse
<1>4. CASE JoinDead
  BY <1>4 DEF JoinDead
<1>5. CASE CreateThread
  <2>1. conn \in {0} \cup Conns
    BY Ranges
  <2>2. pool' \in [Slots -> {0} \cup Conns] /\ home' \in [Conns -> Slots]
    BY <1>5, <2>1 DEF CreateThread
  <2> QED BY <1>5, <2>2 DEF CreateThread
<1>6. CASE CreateFails
  <2>1. fails' \in Nat
    BY <1>6 DEF CreateFails
  <2>2. tpc' \in [Conns -> {"none", "held", "refused", "lost", "serve",
                           "check", "reset", "dec", "dec2", "exited"}]
    BY <1>6 DEF CreateFails
  <2> QED BY <1>6, <2>1, <2>2 DEF CreateFails
<1>7. CASE IncLoad
  BY <1>7 DEF IncLoad
<1>8. CASE IncStore
  BY <1>8 DEF IncStore
<1>9. ASSUME NEW c \in Conns, CloseSession(c)
      PROVE  TypeOK'
  BY <1>9 DEF CloseSession
<1>10. ASSUME NEW c \in Conns, CheckFlag(c)
       PROVE  TypeOK'
  BY <1>10 DEF CheckFlag
<1>11. ASSUME NEW c \in Conns, ResetFlag(c)
       PROVE  TypeOK'
  BY <1>11 DEF ResetFlag
<1>12. ASSUME NEW c \in Conns, DecLoad(c)
       PROVE  TypeOK'
  BY <1>12 DEF DecLoad
<1>13. ASSUME NEW c \in Conns, DecStore(c)
       PROVE  TypeOK'
  BY <1>13 DEF DecStore
<1> HIDE DEF TypeOK, Goto, mainVars
<1> QED
  BY <1>1, <1>2, <1>3, <1>4, <1>5, <1>6, <1>7, <1>8, <1>9, <1>10, <1>11,
     <1>12, <1>13
  DEF Next, MainStep, LeaveStep

\* The variables of the accept loop keep their types: in particular main never
\* uses a slot outside its pool.
THEOREM AcceptorTypes == Spec => []TypeOK
<1>1. Init => TypeOK
  BY Ranges DEF Init, TypeOK
<1>2. TypeOK /\ [Next]_vars => TypeOK'
  BY StepTypes DEF vars, mainVars, TypeOK
<1> QED BY <1>1, <1>2, PTL DEF Spec

-----------------------------------------------------------------------------
\* A step that starts no thread, and changes neither handles nor homes, keeps
\* the ownership of the slots, unless it takes main to pthread_create.
LEMMA OwnedFrame ==
  ASSUME SlotOwned, UNCHANGED <<pool, home>>,
         \A c \in Conns : Alive(c)' => Alive(c),
         mpc' = "create" => mpc = "create" /\ slot' = slot
  PROVE  SlotOwned'
BY DEF SlotOwned

\* One step keeps the ownership of the slots.
LEMMA StepOwned ==
  ASSUME TypeOK, SlotOwned, Next
  PROVE  SlotOwned'
<1> USE DEF Goto, mainVars
<1>1. CASE Accept
  BY <1>1, OwnedFrame DEF Accept, Alive, TypeOK
<1>2. CASE GetAvailThread
  BY <1>2, OwnedFrame DEF GetAvailThread, Alive
<1>3. CASE Refuse
  BY <1>3, OwnedFrame DEF Refuse, Alive, TypeOK
<1>4. CASE JoinDead
  \* The only thread that could run in the slot is the one that was joined.
  <2>1. \A c \in Conns : Alive(c) => home[c] # slot
    BY <1>4, Ranges DEF JoinDead, SlotOwned, Alive
  <2> QED BY <1>4, <2>1 DEF JoinDead, SlotOwned, Alive
<1>5. CASE CreateThread
  \* Every other running thread has its home, and its handle, elsewhere.
  <2>1. \A c \in Conns : Alive(c)' => c = conn \/ Alive(c)
    BY <1>5 DEF CreateThread, Alive, TypeOK
  <2>2. \A c \in Conns : Alive(c) => home[c] # slot /\ pool[home[c]] = c
    BY <1>5 DEF CreateThread, SlotOwned
  <2>3. \A c \in Conns : Alive(c)' => pool'[home'[c]] = c
    <3> SUFFICES ASSUME NEW c \in Conns, Alive(c)'
                 PROVE  pool'[home'[c]] = c
      OBVIOUS
    <3>1. CASE c = conn
      BY <1>5, <3>1 DEF CreateThread, TypeOK
    <3>2. CASE c # conn
      BY <1>5, <2>1, <2>2, <3>2 DEF CreateThread, TypeOK
    <3> QED BY <3>1, <3>2
  <2> QED BY <1>5, <2>3 DEF CreateThread, SlotOwned
<1>6. CASE CreateFails
  BY <1>6, OwnedFrame DEF CreateFails, Alive, TypeOK
<1>7. CASE IncLoad \/ IncStore
  BY <1>7, OwnedFrame DEF IncLoad, IncStore, Alive
<1>8. ASSUME NEW d \in Conns, CloseSession(d) \/ LeaveStep(d)
      PROVE  SlotOwned'
  <2>1. UNCHANGED <<mpc, slot, pool, home>>
    BY <1>8
    DEF CloseSession, LeaveStep, CheckFlag, ResetFlag, DecLoad, DecStore
  <2>2. \A c \in Conns : Alive(c)' => Alive(c)
    BY <1>8
    DEF CloseSession, LeaveStep, CheckFlag, ResetFlag, DecLoad, DecStore,
        Alive, TypeOK
  <2> QED BY <2>1, <2>2, OwnedFrame
<1> QED
  BY <1>1, <1>2, <1>3, <1>4, <1>5, <1>6, <1>7, <1>8 DEF Next, MainStep

\* The ownership of slots is an invariant.
THEOREM SlotsOwned == Spec => []SlotOwned
<1>1. Init => SlotOwned
  BY DEF Init, SlotOwned, Alive
<1>2. TypeOK /\ SlotOwned /\ [Next]_vars => SlotOwned'
  <2> SUFFICES ASSUME TypeOK, SlotOwned, [Next]_vars PROVE SlotOwned'
    OBVIOUS
  <2>1. CASE Next
    BY <2>1, StepOwned
  <2>2. CASE UNCHANGED vars
    BY <2>2, OwnedFrame DEF vars, mainVars, Alive
  <2> QED BY <2>1, <2>2
<1> QED BY <1>1, <1>2, AcceptorTypes, PTL DEF Spec

\* Two client threads never share a slot, whatever the flags say: the handle
\* in the slot names one of them.
THEOREM SlotsExclusive == Spec => []SlotExclusive
<1>1. SlotOwned => SlotExclusive
  BY DEF SlotOwned, SlotExclusive
<1> QED BY <1>1, SlotsOwned, PTL

-----------------------------------------------------------------------------
(* Slots are lost by failing pthread_create calls only *)

\* Sets of slots are finite.
LEMMA SlotSetsFinite ==
  ASSUME NEW S \in SUBSET Slots
  PROVE  IsFiniteSet(S) /\ Cardinality(S) \in Nat
<1>1. IsFiniteSet(Slots)
  BY AcceptorAssumption, FS_Interval DEF Slots
<1>2. IsFiniteSet(S)
  BY <1>1, FS_Subset
<1> QED BY <1>2, FS_CardinalityType

\* A step after which no more slots are missing than before.
LEMMA MissingFrame ==
  ASSUME TypeOK, Cardinality(Missing) <= fails, fails' = fails,
         Missing' \subseteq Missing
  PROVE  Cardinality(Missing') <= fails'
<1>1. Missing \in SUBSET Slots /\ Missing' \in SUBSET Slots
  BY DEF Missing, Leaked
<1>2. /\ IsFiniteSet(Missing) /\ Cardinality(Missing) \in Nat
      /\ Cardinality(Missing') \in Nat
  BY <1>1, SlotSetsFinite
<1>3. Cardinality(Missing') <= Cardinality(Missing)
  BY <1>2, FS_Subset
<1> QED BY <1>2, <1>3 DEF TypeOK

\* The steps of main.
LEMMA MainAccounts ==
  ASSUME TypeOK, SlotOwned, SlotsAccounted, Accept \/ MainStep \/ CreateFails
  PROVE  SlotsAccounted'
<1> USE DEF Goto
<1>1. CASE Accept
  <2>1. /\ conn' \in Conns /\ mpc = "accept" /\ mpc' = "slot"
        /\ UNCHANGED <<slot, fails, flags, home>>
    BY <1>1, AcceptorAssumption DEF Accept, TypeOK, Conns
  <2>2. \A c \in Conns : /\ Alive(c)' <=> Alive(c)
                         /\ tpc'[c] \in {"dec", "dec2"} => tpc[c] = tpc'[c]
    BY <1>1 DEF Accept, Alive, TypeOK
  <2>3. Missing' \subseteq Missing
    BY <2>1, <2>2 DEF Missing, Leaked
  <2> QED BY <2>1, <2>2, <2>3, MissingFrame DEF SlotsAccounted
<1>2. CASE GetAvailThread
  <2>1. PICK s \in Slots : /\ flags[s] = 0 /\ slot' = s
                           /\ flags' = [flags EXCEPT ![s] = 1]
    BY <1>2 DEF GetAvailThread
  <2>2. /\ mpc = "slot" /\ mpc' = "join"
        /\ UNCHANGED <<conn, fails, tpc, home>>
    BY <1>2 DEF GetAvailThread
  <2>3. \A r \in Slots : flags'[r] = 1 => flags[r] = 1 \/ r = slot'
    BY <2>1 DEF TypeOK
  <2>4. Missing' \subseteq Missing
    BY <2>2, <2>3 DEF Missing, Leaked, Alive
  <2>5. \A c \in Conns : tpc'[c] \in {"dec", "dec2"} /\ flags'[home'[c]] = 1
          => slot' = home'[c]
    BY <2>2, <2>3 DEF SlotsAccounted, TypeOK
  <2> QED BY <2>2, <2>4, <2>5, MissingFrame DEF SlotsAccounted
<1>3. CASE Refuse
  <2>1. mpc = "slot" /\ mpc' = "accept" /\ UNCHANGED <<conn, fails, flags, home>>
    BY <1>3 DEF Refuse
  <2>2. \A c \in Conns : /\ Alive(c)' <=> Alive(c)
                         /\ tpc'[c] \in {"dec", "dec2"} => tpc[c] = tpc'[c]
    BY <1>3 DEF Refuse, Alive, TypeOK
  <2>3. Missing' \subseteq Missing
    BY <2>1, <2>2 DEF Missing, Leaked
  <2> QED BY <2>1, <2>2, <2>3, MissingFrame DEF SlotsAccounted
<1>4. CASE JoinDead
  <2>1. /\ mpc = "join" /\ mpc' = "create"
        /\ pool[slot] # 0 => tpc[pool[slot]] = "exited"
        /\ UNCHANGED <<conn, slot, fails, flags, tpc, home>>
    BY <1>4 DEF JoinDead
  <2>2. Missing' \subseteq Missing
    BY <2>1 DEF Missing, Leaked, Alive
  \* A thread that has left the loop is the one main waits for.
  <2>3. \A c \in Conns : ~(tpc[c] \in {"dec", "dec2"} /\ flags[home[c]] = 1)
    BY <2>1, Ranges DEF SlotsAccounted, SlotOwned, Alive
  <2> QED BY <2>1, <2>2, <2>3, MissingFrame DEF SlotsAccounted
<1>5. CASE CreateThread
  <2>1. /\ conn \in Conns /\ mpc = "create" /\ mpc' = "inc"
        /\ UNCHANGED <<slot, fails, flags>>
    BY <1>5 DEF CreateThread, SlotsAccounted
  <2>2. \A c \in Conns \ {conn} : tpc'[c] = tpc[c] /\ home'[c] = home[c]
    BY <1>5 DEF CreateThread, TypeOK
  <2>3. /\ tpc[conn] = "held" /\ tpc'[conn] = "serve" /\ home'[conn] = slot
    BY <1>5, <2>1 DEF CreateThread, TypeOK
  \* The slot main was about to fill is filled.
  <2>4. Missing' \subseteq Missing
    <3> SUFFICES ASSUME NEW s \in Leaked' PROVE s \in Missing
      BY DEF Missing
    <3>1. s \in Slots /\ flags[s] = 1
          /\ ~\E c \in Conns : Alive(c)' /\ home'[c] = s
      BY <2>1 DEF Leaked
    <3>2. s # slot
      BY <2>1, <2>3, <3>1 DEF Alive
    <3>3. ~\E c \in Conns : Alive(c) /\ home[c] = s
      BY <2>2, <2>3, <3>1 DEF Alive
    <3> QED BY <3>1, <3>2, <3>3 DEF Missing, Leaked
  <2>5. \A c \in Conns : tpc'[c] \in {"dec", "dec2"} => c # conn
    BY <2>3
  <2> QED BY <2>1, <2>2, <2>4, <2>5, MissingFrame DEF SlotsAccounted
<1>6. CASE CreateFails
  <2>1. /\ mpc = "create" /\ mpc' = "inc" /\ fails' = fails + 1
        /\ UNCHANGED <<slot, flags, home>>
    BY <1>6 DEF CreateFails
  <2>2. \A c \in Conns : /\ Alive(c)' <=> Alive(c)
                         /\ tpc'[c] \in {"dec", "dec2"} => tpc[c] = tpc'[c]
    BY <1>6 DEF CreateFails, Alive, TypeOK
  <2>3. Missing' \subseteq Missing \cup {slot}
    BY <2>1, <2>2 DEF Missing, Leaked
  <2>4. /\ Missing \in SUBSET Slots /\ Missing' \in SUBSET Slots
        /\ Missing \cup {slot} \in SUBSET Slots
    BY DEF Missing, Leaked, TypeOK
  <2>5. /\ IsFiniteSet(Missing) /\ Cardinality(Missing) \in Nat
        /\ IsFiniteSet(Missing \cup {slot})
        /\ Cardinality(Missing \cup {slot}) \in Nat
        /\ Cardinality(Missing') \in Nat
    BY <2>4, SlotSetsFinite
  <2>6. Cardinality(Missing \cup {slot}) <= Cardinality(Missing) + 1
    BY <2>5, FS_AddElement
  <2>7. Cardinality(Missing') <= Cardinality(Missing \cup {slot})
    BY <2>3, <2>5, FS_Subset
  <2>8. Cardinality(Missing') <= fails'
    BY <2>1, <2>5, <2>6, <2>7 DEF SlotsAccounted, TypeOK
  <2> QED BY <2>1, <2>2, <2>8 DEF SlotsAccounted
<1>7. CASE IncLoad \/ IncStore
  <2>1. /\ mpc \in {"inc", "inc2"} /\ mpc' \in {"inc2", "accept"}
        /\ UNCHANGED <<slot, fails, flags, tpc, home>>
    BY <1>7 DEF IncLoad, IncStore
  <2>2. Missing' \subseteq Missing
    BY <2>1 DEF Missing, Leaked, Alive
  <2> QED BY <2>1, <2>2, MissingFrame DEF SlotsAccounted
<1> QED BY <1>1, <1>2, <1>3, <1>4, <1>5, <1>6, <1>7 DEF MainStep

\* The steps of a client thread: the last one gives up a slot whose flag is
\* clear, or which main is about to fill.
LEMMA ClientAccounts ==
  ASSUME TypeOK, SlotsAccounted, NEW d \in Conns, CloseSession(d) \/ LeaveStep(d)
  PROVE  SlotsAccounted'
<1> USE DEF Goto, mainVars
<1>0. /\ UNCHANGED <<mpc, conn, slot, fails, home>>
      /\ \A c \in Conns \ {d} : tpc'[c] = tpc[c]
  BY DEF CloseSession, LeaveStep, CheckFlag, ResetFlag, DecLoad, DecStore,
     TypeOK
<1>1. CASE CloseSession(d) \/ CheckFlag(d) \/ DecLoad(d)
  <2>1. /\ UNCHANGED flags /\ Alive(d) /\ Alive(d)'
        /\ tpc'[d] \in {"dec", "dec2"} =>
             tpc[d] \in {"dec", "dec2"} \/ flags[home[d]] # 1
    BY <1>1 DEF CloseSession, CheckFlag, DecLoad, Alive, TypeOK
  <2>2. \A c \in Conns : Alive(c)' <=> Alive(c)
    BY <1>0, <2>1 DEF Alive
  <2>3. Missing' \subseteq Missing
    BY <1>0, <2>1, <2>2 DEF Missing, Leaked
  <2> QED BY <1>0, <2>1, <2>3, MissingFrame DEF SlotsAccounted
<1>2. CASE ResetFlag(d)
  <2>1. /\ flags' = [flags EXCEPT ![home[d]] = 0] /\ Alive(d)
        /\ tpc'[d] = "check"
    BY <1>2 DEF ResetFlag, Alive, TypeOK
  <2>2. \A s \in Slots : flags'[s] = 1 => flags[s] = 1
    BY <2>1 DEF TypeOK
  <2>3. \A c \in Conns : Alive(c)' <=> Alive(c)
    BY <1>0, <2>1 DEF Alive
  <2>4. Missing' \subseteq Missing
    BY <1>0, <2>2, <2>3 DEF Missing, Leaked
  <2>5. \A c \in Conns : tpc'[c] \in {"dec", "dec2"} => c # d
    BY <2>1
  <2> QED BY <1>0, <2>2, <2>4, <2>5, MissingFrame DEF SlotsAccounted, TypeOK
<1>3. CASE DecStore(d)
  <2>1. UNCHANGED flags /\ tpc[d] = "dec2" /\ tpc'[d] = "exited"
    BY <1>3 DEF DecStore, TypeOK
  <2>2. flags[home[d]] = 1 => mpc = "join" /\ slot = home[d]
    BY <2>1 DEF SlotsAccounted
  <2>3. Missing' \subseteq Missing
    <3> SUFFICES ASSUME NEW s \in Missing' PROVE s \in Missing
      OBVIOUS
    <3>1. /\ s \in Slots /\ flags[s] = 1
          /\ ~\E c \in Conns : Alive(c)' /\ home[c] = s
          /\ ~(mpc \in {"join", "create"} /\ s = slot)
      BY <1>0, <2>1 DEF Missing, Leaked
    <3>2. ~\E c \in Conns : Alive(c) /\ home[c] = s
      BY <1>0, <2>2, <3>1 DEF Alive
    <3> QED BY <3>1, <3>2 DEF Missing, Leaked
  <2>4. \A c \in Conns : tpc'[c] \in {"dec", "dec2"} => c # d
    BY <2>1
  <2> QED BY <1>0, <2>1, <2>3, <2>4, MissingFrame DEF SlotsAccounted
<1> QED BY <1>1, <1>2, <1>3 DEF LeaveStep

\* Every slot is free, in use, about to be filled or lost to a failed
\* pthread_create.
THEOREM SlotsCounted == Spec => []SlotsAccounted
<1>1. Init => SlotsAccounted
  <2> SUFFICES ASSUME Init PROVE SlotsAccounted
    OBVIOUS
  <2>1. Missing = {}
    BY DEF Init, Missing, Leaked
  <2> QED BY <2>1, FS_EmptySet DEF Init, SlotsAccounted
<1>2. TypeOK /\ SlotOwned /\ SlotsAccounted /\ [Next]_vars => SlotsAccounted'
  <2> SUFFICES ASSUME TypeOK, SlotOwned, SlotsAccounted, [Next]_vars
               PROVE  SlotsAccounted'
    OBVIOUS
  <2>1. CASE UNCHANGED vars
    <3>1. UNCHANGED <<mpc, conn, slot, fails, flags, tpc, home>>
      BY <2>1 DEF vars, mainVars
    <3>2. Missing' \subseteq Missing
      BY <3>1 DEF Missing, Leaked, Alive
    <3> QED BY <3>1, <3>2, MissingFrame DEF SlotsAccounted
  <2> QED BY <2>1, MainAccounts, ClientAccounts DEF Next
<1> QED BY <1>1, <1>2, AcceptorTypes, SlotsOwned, PTL DEF Spec

\* When main waits for the next connection, no slot is lost but one for every
\* failed pthread_create.
THEOREM SlotsLostOnlySo == Spec => []SlotsLostByFailure
<1>1. SlotsAccounted => SlotsLostByFailure
  <2> SUFFICES ASSUME SlotsAccounted, mpc = "accept"
               PROVE  Cardinality(Leaked) <= fails
    BY DEF SlotsLostByFailure
  <2>1. Missing = Leaked
    BY DEF Missing
  <2> QED BY <2>1 DEF SlotsAccounted
<1> QED BY <1>1, SlotsCounted, PTL
=============================================================================
