---------------------------- MODULE CommandStream ----------------------------
(***************************************************************************)
(* What the receive buffer promises (readme.txt: "Concat separated         *)
(* messages"): the commands the server takes are the lines of the client's *)
(* byte stream, in order and whole, however read cuts the stream. Bytes    *)
(* are lost only behind a NUL.                                             *)
(***************************************************************************)
EXTENDS Integers, Sequences

CONSTANTS Bytes, MaxBytes

VARIABLES
  rest,  \* the bytes of the stream that are not yet part of a command
  cmds,  \* the commands taken
  conn   \* how the connection ended: "open", "eof", "error"

streamVars == <<rest, cmds, conn>>

\* A line ends with the CR at position i.
EndsLine(s, i) ==
  /\ i \in 1 .. Len(s) - 1
  /\ s[i] = "CR" /\ s[i + 1] = "LF"

HasLine(s) == \E i \in 1 .. Len(s) : EndsLine(s, i)

Init ==
  /\ rest \in UNION {[1 .. m -> Bytes] : m \in 0 .. MaxBytes}
  /\ cmds = <<>>
  /\ conn = "open"

\* The first line of the stream is the next command.
Deliver ==
  /\ conn = "open"
  /\ \E i \in 1 .. Len(rest) :
       /\ EndsLine(rest, i)
       /\ \A j \in 1 .. i - 1 : ~EndsLine(rest, j)
       /\ cmds' = Append(cmds, SubSeq(rest, 1, i - 1))
       /\ rest' = SubSeq(rest, i + 2, Len(rest))
  /\ UNCHANGED conn

\* A NUL is dropped, and with it the bytes up to position j.
LoseFromNul ==
  /\ conn = "open"
  /\ \E i \in 1 .. Len(rest) :
       /\ rest[i] = "NUL"
       /\ \E j \in i .. Len(rest) :
            rest' = SubSeq(rest, 1, i - 1) \o SubSeq(rest, j + 1, Len(rest))
  /\ UNCHANGED <<cmds, conn>>

\* The end of the stream is seen when no line of it is left.
Eof ==
  /\ conn = "open"
  /\ ~HasLine(rest)
  /\ conn' = "eof"
  /\ UNCHANGED <<rest, cmds>>

\* The connection breaks, and what was not taken is lost.
Break ==
  /\ conn = "open"
  /\ conn' = "error"
  /\ UNCHANGED <<rest, cmds>>

Next == Deliver \/ LoseFromNul \/ Eof \/ Break

Spec == Init /\ [][Next]_streamVars

\* A line that has been sent is taken, unless the connection breaks.
FairSpec == Spec /\ WF_streamVars(Deliver)
=============================================================================
