---------------------------- MODULE SearchPromise ----------------------------
(***************************************************************************)
(* What the search of one WORK promises, however many btches share it: one *)
(* valid nonce of the range asked for is settled on and sent, or the       *)
(* search is stopped.                                                      *)
(***************************************************************************)
EXTENDS Integers

CONSTANT NONCE_MAX

VARIABLES
  n,       \* the nonce the search starts from
  valid,   \* the nonces that are solutions
  result,  \* the nonce settled on, 0 for none
  phase    \* "search", "answer" when the result is sent, "stopped"

promiseVars == <<n, valid, result, phase>>

Init ==
  /\ n \in 0 .. NONCE_MAX
  /\ valid \subseteq 0 .. NONCE_MAX
  /\ result = 0
  /\ phase = "search"

\* A btch may find it, also while the search is being stopped.
Settle ==
  /\ result = 0
  /\ result' \in valid \cap (n .. NONCE_MAX - 1)
  /\ UNCHANGED <<n, valid, phase>>

Send ==
  /\ phase = "search"
  /\ result # 0
  /\ phase' = "answer"
  /\ UNCHANGED <<n, valid, result>>

\* Also between the decision to answer and the answer.
Stop ==
  /\ phase # "stopped"
  /\ phase' = "stopped"
  /\ UNCHANGED <<n, valid, result>>

Next == Settle \/ Send \/ Stop

Spec == Init /\ [][Next]_promiseVars
=============================================================================
