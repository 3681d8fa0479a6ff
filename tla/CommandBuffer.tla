---------------------------- MODULE CommandBuffer ----------------------------
(***************************************************************************)
(* The receive buffer of one client: has_command, get_command and          *)
(* join_client_command (handler_helper.c) in the loop of client_handler    *)
(* (handler.c lines 72-104). What is done with a command is ClientSession. *)
(*                                                                         *)
(* pc of client_handler:                                                   *)
(*   test   has_command at the top of the loop        (line 78)            *)
(*   read   read of up to BUFFER_LEN-1 bytes          (line 79)            *)
(*   join   join_client_command and its loop          (line 93)            *)
(*   get    get_command in the inner loop             (line 104)           *)
(*   eof, error   the loop was left                   (lines 83, 91)       *)
(* The memory *recieved_string is a sequence of str_len bytes. "JUNK" is a *)
(* byte malloc or realloc did not initialise.                              *)
(***************************************************************************)
EXTENDS Integers, Sequences

CONSTANTS
  BUFFER_LEN,         \* size of the buffer handed to read
  INIT_CMD_STR_SIZE,  \* first size of *recieved_string
  Bytes,              \* what the client sends: "CR", "LF", "NUL", others
  MaxBytes            \* bound: length of the client's stream

ASSUME BufferAssumption ==
  /\ BUFFER_LEN \in Nat /\ BUFFER_LEN > 1
  /\ INIT_CMD_STR_SIZE \in Nat \ {0}
  /\ "JUNK" \notin Bytes
  /\ MaxBytes \in Nat

VARIABLES
  net,       \* bytes of the client's stream that were not read yet
  pc,        \* where client_handler is
  buffer,    \* what read stored in buffer; behind it are zeros (line 73)
  str,       \* *recieved_string
  str_len,   \* *recv_str_len
  used_len,  \* *recv_used_len
  cmds       \* the commands get_command returned

vars == <<net, pc, buffer, str, str_len, used_len, cmds>>

Init ==
  /\ net \in UNION {[1 .. m -> Bytes] : m \in 0 .. MaxBytes}
  /\ pc = "test"
  /\ buffer = <<>>
  /\ str = [j \in 1 .. INIT_CMD_STR_SIZE |-> "JUNK"]
  /\ str_len = INIT_CMD_STR_SIZE
  /\ used_len = 0
  /\ cmds = <<>>

-----------------------------------------------------------------------------
\* handler_helper.c

\* A carriage return at i and a line feed at i+1, in the loop over
\* i < *used_len - 1; positions count from 1 here.
LineEndAt(i) ==
  /\ i \in 1 .. used_len - 1
  /\ str[i] = "CR" /\ str[i + 1] = "LF"

HasCommand == \E i \in 1 .. used_len : LineEndAt(i)

\* strlen of a chunk that read stored in a zeroed buffer.
StrLen(s) ==
  IF \E i \in 1 .. Len(s) : s[i] = "NUL"
  THEN (CHOOSE i \in 1 .. Len(s) :
          s[i] = "NUL" /\ \A j \in 1 .. i - 1 : s[j] # "NUL") - 1
  ELSE Len(s)

\* Mutant: the byte to spare is not asked for.
NeededExactly == used_len + StrLen(buffer)

\* What join_client_command needs room for: the bytes in use, those of the chunk
\* and one to spare.
Needed == used_len + StrLen(buffer) + 1

-----------------------------------------------------------------------------
\* client_handler

\* if(!has_command(...)): nothing is read while a command is buffered.
Test ==
  /\ pc = "test"
  /\ pc' = IF HasCommand THEN "get" ELSE "read"
  /\ UNCHANGED <<net, buffer, str, str_len, used_len, cmds>>

\* read returns some of the bytes that have arrived, BUFFER_LEN-1 at most.
Read ==
  /\ pc = "read"
  /\ \E k \in 1 .. BUFFER_LEN - 1 :
       /\ k <= Len(net)
       /\ buffer' = SubSeq(net, 1, k)
       /\ net' = SubSeq(net, k + 1, Len(net))
  /\ pc' = "join"
  /\ UNCHANGED <<str, str_len, used_len, cmds>>

\* Mutant: the end is taken for reached while bytes are waiting.
ReadEofEarly ==
  /\ pc = "read"
  /\ pc' = "eof"
  /\ UNCHANGED <<net, buffer, str, str_len, used_len, cmds>>

\* read returns 0: the client closed its end and everything was read.
ReadEof ==
  /\ pc = "read"
  /\ net = <<>>
  /\ pc' = "eof"
  /\ UNCHANGED <<net, buffer, str, str_len, used_len, cmds>>

\* read fails, for instance on a reset of the connection.
ReadError ==
  /\ pc = "read"
  /\ pc' = "error"
  /\ UNCHANGED <<net, buffer, str, str_len, used_len, cmds>>

\* while(*str_len < ...): the memory is doubled, and realloc keeps its contents.
Enlarge ==
  /\ pc = "join"
  /\ str_len < Needed
  /\ str_len' = 2 * str_len
  /\ str' = [j \in 1 .. 2 * str_len |->
               IF j <= str_len THEN str[j] ELSE "JUNK"]
  /\ UNCHANGED <<net, pc, buffer, used_len, cmds>>

\* The chunk is copied behind the bytes in use.
JoinClientCommand ==
  /\ pc = "join"
  /\ str_len >= Needed
  /\ str' = [j \in 1 .. str_len |->
               IF j \in used_len + 1 .. used_len + StrLen(buffer)
               THEN buffer[j - used_len] ELSE str[j]]
  /\ used_len' = used_len + StrLen(buffer)
  /\ buffer' = <<>>
  /\ pc' = "get"
  /\ UNCHANGED <<net, str_len, cmds>>

\* Mutant: a line end is taken for three bytes long.
GetCommandSkipsByte ==
  /\ pc = "get"
  /\ \E i \in 1 .. used_len :
       /\ LineEndAt(i)
       /\ \A j \in 1 .. i - 1 : ~LineEndAt(j)
       /\ cmds' = Append(cmds, SubSeq(str, 1, i - 1))
       /\ str' = [j \in 1 .. str_len |->
            IF j <= str_len - (i + 2) THEN str[j + i + 2] ELSE "JUNK"]
       /\ used_len' = used_len - (i + 2)
  /\ UNCHANGED <<net, pc, buffer, str_len>>

\* The bytes before the first line end are the command; the rest moves to new
\* memory of the same size, whose last i + 1 bytes stay uninitialised.
GetCommand ==
  /\ pc = "get"
  /\ \E i \in 1 .. used_len :
       /\ LineEndAt(i)
       /\ \A j \in 1 .. i - 1 : ~LineEndAt(j)
       /\ cmds' = Append(cmds, SubSeq(str, 1, i - 1))
       /\ str' = [j \in 1 .. str_len |->
            IF j <= str_len - (i + 1) THEN str[j + i + 1] ELSE "JUNK"]
       /\ used_len' = used_len - (i + 1)
  /\ UNCHANGED <<net, pc, buffer, str_len>>

\* get_command returns NULL.
NoCommand ==
  /\ pc = "get"
  /\ ~HasCommand
  /\ pc' = "test"
  /\ UNCHANGED <<net, buffer, str, str_len, used_len, cmds>>

ClientStep ==
  \/ Test \/ Read \/ Enlarge \/ JoinClientCommand \/ GetCommand \/ NoCommand

Next == ClientStep \/ ReadEof \/ ReadError

Spec == Init /\ [][Next]_vars

\* The client thread runs, and bytes that were sent arrive. Nothing makes the
\* client close or the connection break.
FairSpec == Spec /\ WF_vars(ClientStep)

-----------------------------------------------------------------------------
TypeOK ==
  /\ net \in Seq(Bytes)
  /\ pc \in {"test", "read", "join", "get", "eof", "error"}
  /\ buffer \in Seq(Bytes)
  /\ str \in Seq(Bytes \cup {"JUNK"})
  /\ str_len \in Nat
  /\ used_len \in Nat
  /\ cmds \in Seq(Seq(Bytes))

\* The part of the memory in use lies within what was allocated, with a byte to
\* spare, and holds only bytes that were received: no uninitialised byte can
\* complete a line end or become part of a command, although get_command copies
\* the unused part along.
UsedReceived ==
  /\ Len(str) = str_len /\ used_len < str_len
  /\ \A j \in 1 .. used_len : str[j] \in Bytes \ {"NUL"}

\* The stream behind what was taken as commands: the used part of the memory,
\* the chunk just read and what is still to be read.
Rest == SubSeq(str, 1, used_len) \o buffer \o net

Stream == INSTANCE CommandStream WITH
  rest <- Rest,
  conn <- IF pc \in {"eof", "error"} THEN pc ELSE "open"

\* readme.txt: "Concat separated messages (like PI then NG\r\n will be joined to
\* PING\r\n)". The buffer implements CommandStream: whatever the sizes of the
\* chunks and however often the memory is enlarged, the commands are the lines
\* of the stream, in order and complete, none is left when the end of the
\* stream is seen, and each is taken eventually.
LinesDelivered == Stream!FairSpec
=============================================================================
