------------------------------ MODULE WorkOrder ------------------------------
(***************************************************************************)
(* What the turn queue promises one client (readme.txt: "returns SOLN if   *)
(* solution found"; work_handler.c: "Now wait for its turn to send the     *)
(* message"): admitted WORKs stand in line in the order of their commands; *)
(* only the first of the line is answered; it leaves, answered or not,     *)
(* before the next one is. That it is not answered again is not said here: *)
(* a second SOLN for the same WORK would go unseen.                        *)
(***************************************************************************)
EXTENDS Integers, Sequences

CONSTANT Works  \* numbers of the WORK commands

VARIABLES
  line,     \* the WORKs in line
  answers,  \* the WORKs that were answered with a SOLN
  broken    \* the line has lost its order for good

orderVars == <<line, answers, broken>>

Init ==
  /\ line = <<>>
  /\ answers = {}
  /\ broken = FALSE

\* Later than every WORK admitted before.
Admit(w) ==
  /\ \A i \in DOMAIN line : line[i] < w
  /\ \A a \in answers : a < w
  /\ line' = Append(line, w)
  /\ UNCHANGED <<answers, broken>>

Answer ==
  /\ line # <<>>
  /\ Head(line) \notin answers
  /\ answers' = answers \cup {Head(line)}
  /\ UNCHANGED <<line, broken>>

Leave ==
  /\ line # <<>>
  /\ line' = Tail(line)
  /\ UNCHANGED <<answers, broken>>

\* Somebody is gone and has left its place in the line behind.
Break ==
  /\ broken' = TRUE
  /\ UNCHANGED <<line, answers>>

\* Nothing is promised of a broken line.
Disorder == broken /\ broken'

Next == (\E w \in Works : Admit(w)) \/ Answer \/ Leave \/ Break \/ Disorder

Spec == Init /\ [][Next]_orderVars
=============================================================================
