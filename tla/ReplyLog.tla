------------------------------ MODULE ReplyLog ------------------------------
(***************************************************************************)
(* How a reply gets into log.txt and onto the socket: send_formatted and   *)
(* send_message (handler_helper.c) and logger_log (logger.c), in the       *)
(* command threads of one client, with the cancel state of each thread     *)
(* explicit. main's way to its accept loop (driver.c, netsock.c) and the   *)
(* banner thread of the log file (print_welcome) run beside them. The      *)
(* process may end at any moment (segfault_handler, a signal, a kill) and  *)
(* be started again; log.txt is opened with mode "w" once the socket is    *)
(* bound, and what the client of the old process has got is dropped with   *)
(* the old log.                                                            *)
(*                                                                         *)
(* mpc of main: socket, bind, logger, serve; down when there is no process *)
(* pc of the thread of command n, in program order:                        *)
(*   start    the beginning of handler_wrapper                             *)
(*   turn     work_handler waits for its turn, cancellation enabled        *)
(*   fmt      send_formatted is called                                     *)
(*   msg      send_message is called                                       *)
(*   fwrite, fflush   in logger_log                                        *)
(*   write    write to the socket                                          *)
(*   back     send_message has returned                                    *)
(*   sleep    sleep(3) of slep_handler                                     *)
(*   clean    work_handler_cleanup after the message was sent              *)
(*   exited   the thread has returned                                      *)
(*   dead     the thread acted on a cancellation                           *)
(***************************************************************************)
EXTENDS Integers, Sequences, FiniteSets

CONSTANTS
  Kinds,   \* the handlers of the client's commands
  MaxCmds  \* bound: commands the client sends in one run of the process

ASSUME ReplyAssumption ==
  /\ Kinds \subseteq {"PING", "PONG", "OKAY", "ERRO", "UNKN", "CUST", "SOLN",
                      "SLEP", "WORK"}
  /\ MaxCmds \in Nat

Cmds == 1 .. MaxCmds

VARIABLES
  mpc,     \* where main is
  banner,  \* print_welcome has written the banner to the log
  cpc,     \* client_handler: "read", or "create" a thread for a command
  cmdNo,   \* commands client_handler has served
  kind,    \* the handler of the command
  pc,      \* where the command's thread is
  raw,     \* that thread sends a message made by itself, not a formatted one
  part,    \* replies that thread has begun
  tried,   \* history: replies that thread has called write for
  off,     \* that thread's cancel state is PTHREAD_CANCEL_DISABLE
  canc,    \* a pthread_cancel of that thread is pending
  mutex,   \* worker_mutex: the command whose thread holds it, 0 for nobody
  buf,     \* lines in the buffer of _logger_file
  file,    \* lines in log.txt
  wire,    \* messages written to the socket
  stalled  \* the client does not read, and a write blocks

mainVars == <<mpc, banner>>
cmdVars == <<cpc, cmdNo, kind>>
replyVars == <<raw, part, tried>>
threadVars == <<pc, replyVars, off, canc>>
logVars == <<buf, file>>
socketVars == <<wire, stalled>>
vars == <<mainVars, cmdVars, threadVars, mutex, logVars, socketVars>>

-----------------------------------------------------------------------------
\* Messages

\* Length of the text a handler hands to send_formatted.
TextLen(k, p) ==
  CASE k = "SOLN" -> 20 [] k = "UNKN" -> 25 [] k = "ERRO" -> 30
    [] k = "OKAY" -> 37 [] k = "PONG" -> 36 [] k = "CUST" -> 22
    [] k = "SLEP" -> IF p = 1 THEN 20 ELSE 15

\* The line end written at to_send[43] and [44], over what is there.
LineEnd == <<"\r", "\n">>

\* Mutant: the text is cut to the 35 characters that fit a shorter line.
FormattedShort(len) ==
  [j \in 1 .. 45 |->
     IF j \in 44 .. 45 THEN LineEnd[j - 43]
     ELSE IF j <= 5 THEN "head"
     ELSE IF j - 5 <= len /\ j - 5 <= 35 THEN "text" ELSE "blank"]

\* send_formatted's 45 bytes: four of info, a tab, the text cut to 40
\* characters, blanks, and the line end.
Formatted(len) ==
  [j \in 1 .. 45 |->
     IF j \in 44 .. 45 THEN LineEnd[j - 43]
     ELSE IF j <= 5 THEN "head"
     ELSE IF j - 5 <= len /\ j - 5 <= 40 THEN "text" ELSE "blank"]

\* PONG, OKAY and SOLN have their line end in the literal; their bytes are not
\* told apart.
Raw == <<"head">> \o LineEnd

Message(n) == IF raw[n] THEN Raw ELSE Formatted(TextLen(kind[n], part[n]))

\* send_message logs the message without its last two bytes.
ToLog(bytes) == SubSeq(bytes, 1, Len(bytes) - 2)

\* A line of the log: a command or a reply.
CommandLine(n) == [what |-> "@", cmd |-> n, part |-> 0, text |-> <<>>]
ReplyLine(n, p, text) == [what |-> "<", cmd |-> n, part |-> p, text |-> text]

-----------------------------------------------------------------------------
\* main and print_welcome

Init ==
  /\ mpc = "socket" /\ banner = FALSE
  /\ cpc = "read" /\ cmdNo = 0 /\ kind = [n \in Cmds |-> "PING"]
  /\ pc = [n \in Cmds |-> "none"]
  /\ raw = [n \in Cmds |-> TRUE]
  /\ part = [n \in Cmds |-> 0]
  /\ tried = [n \in Cmds |-> 0]
  /\ off = [n \in Cmds |-> FALSE]
  /\ canc = [n \in Cmds |-> FALSE]
  /\ mutex = 0
  /\ buf = <<>> /\ file = <<>> /\ wire = <<>> /\ stalled = FALSE

\* make_socket and bind_socket repeat a failing call after a second.
OpenSocket ==
  /\ \/ mpc = "socket" /\ mpc' = "bind"
     \/ mpc = "bind" /\ mpc' = "logger"
  /\ UNCHANGED <<banner, cmdVars, threadVars, mutex, logVars, socketVars>>

\* fopen, with mode "w", empties log.txt; then the server is ready for its first
\* client.
InitLogger ==
  /\ mpc = "logger"
  /\ mpc' = "serve"
  /\ cpc' = "read" /\ cmdNo' = 0 /\ kind' = [n \in Cmds |-> "PING"]
  /\ file' = <<>> /\ wire' = <<>>
  /\ UNCHANGED <<banner, threadVars, mutex, buf, stalled>>

\* fopen returned NULL: fileno(_logger_file) faults before the test of it.
InitLoggerFails ==
  /\ mpc = "logger"
  /\ mpc' = "down"
  /\ UNCHANGED <<banner, cmdVars, threadVars, mutex, logVars, socketVars>>

\* The detached thread that prints the banner into the log. Its text is left
\* out; its fflush writes whatever lines others have left in the buffer.
PrintWelcome ==
  /\ mpc = "serve"
  /\ ~banner
  /\ banner' = TRUE
  /\ file' = file \o buf /\ buf' = <<>>
  /\ UNCHANGED <<mpc, cmdVars, threadVars, mutex, socketVars>>

\* No thread is there.
NoThreads ==
  /\ pc' = [n \in Cmds |-> "none"]
  /\ raw' = [n \in Cmds |-> TRUE]
  /\ part' = [n \in Cmds |-> 0]
  /\ tried' = [n \in Cmds |-> 0]
  /\ off' = [n \in Cmds |-> FALSE]
  /\ canc' = [n \in Cmds |-> FALSE]
  /\ mutex' = 0 /\ stalled' = FALSE

\* The process ends. exit flushes the log, a kill does not.
Crash ==
  /\ mpc # "down"
  /\ mpc' = "down" /\ banner' = FALSE
  /\ NoThreads
  /\ file' \in {file, file \o buf}
  /\ buf' = <<>>
  /\ UNCHANGED <<cmdVars, wire>>

\* The server is started again. log.txt is the old one until init_logger.
Restart ==
  /\ mpc = "down"
  /\ mpc' = "socket"
  /\ UNCHANGED <<banner, cmdVars, threadVars, mutex, logVars, socketVars>>

-----------------------------------------------------------------------------
\* client_handler

\* Mutant: nothing is logged.
LogCommandNot ==
  /\ mpc = "serve" /\ cpc = "read"
  /\ cmdNo < MaxCmds
  /\ cmdNo' = cmdNo + 1
  /\ cpc' = "create"
  /\ UNCHANGED <<mainVars, kind, threadVars, mutex, logVars, socketVars>>

\* logger_log of the command, its fwrite.
LogCommand ==
  /\ mpc = "serve" /\ cpc = "read"
  /\ cmdNo < MaxCmds
  /\ cmdNo' = cmdNo + 1
  /\ buf' = Append(buf, CommandLine(cmdNo + 1))
  /\ cpc' = "create"
  /\ UNCHANGED <<mainVars, kind, threadVars, mutex, file, socketVars>>

\* The fflush of logger_log, and the creation of the command's thread.
CreateThread ==
  /\ mpc = "serve" /\ cpc = "create"
  /\ file' = file \o buf /\ buf' = <<>>
  /\ \E k \in Kinds : kind' = [kind EXCEPT ![cmdNo] = k]
  /\ pc' = [pc EXCEPT ![cmdNo] = "start"]
  /\ off' = [off EXCEPT ![cmdNo] = TRUE]
  /\ cpc' = "read"
  /\ UNCHANGED <<mainVars, cmdNo, replyVars, canc, mutex, socketVars>>

\* The client does not read, the socket's send buffer is full, and the writes under
\* way block.
StopReading ==
  /\ mpc = "serve"
  /\ ~stalled
  /\ \E n \in Cmds : pc[n] = "write"
  /\ stalled' = TRUE
  /\ UNCHANGED <<mainVars, cmdVars, threadVars, mutex, logVars, wire>>

\* ABRT, a reused slot or a disconnect cancels the thread.
Cancel(n) ==
  /\ mpc = "serve"
  /\ pc[n] \notin {"none", "exited", "dead"}
  /\ canc' = [canc EXCEPT ![n] = TRUE]
  /\ UNCHANGED <<mainVars, cmdVars, pc, replyVars, off, mutex, logVars,
                 socketVars>>

-----------------------------------------------------------------------------
\* A command thread

Goto(n, from, to) ==
  /\ mpc = "serve"
  /\ pc[n] = from
  /\ pc' = [pc EXCEPT ![n] = to]

\* The handlers enable cancellation and choose their message: ping_handler, a
\* soln_handler that says OKAY and work_handler make it themselves.
Begin(n) ==
  /\ \/ /\ kind[n] = "WORK"
        /\ Goto(n, "start", "turn")
        /\ raw' = [raw EXCEPT ![n] = TRUE]
     \/ /\ kind[n] \in {"PING", "SOLN"}
        /\ Goto(n, "start", "msg")
        /\ raw' = [raw EXCEPT ![n] = TRUE]
     \/ /\ kind[n] \notin {"PING", "WORK"}
        /\ Goto(n, "start", "fmt")
        /\ raw' = [raw EXCEPT ![n] = FALSE]
  /\ off' = [off EXCEPT ![n] = FALSE]
  /\ part' = [part EXCEPT ![n] = 1]
  /\ UNCHANGED <<mainVars, cmdVars, tried, canc, mutex, logVars, socketVars>>

\* Mutant: worker_mutex is not waited for.
WorkLockUnguarded(n) ==
  /\ Goto(n, "turn", "msg")
  /\ off' = [off EXCEPT ![n] = TRUE]
  /\ mutex' = n
  /\ UNCHANGED <<mainVars, cmdVars, replyVars, canc, logVars, socketVars>>

\* Cancellation disabled, pthread_mutex_lock(worker_mutex).
WorkLock(n) ==
  /\ mutex = 0
  /\ Goto(n, "turn", "msg")
  /\ off' = [off EXCEPT ![n] = TRUE]
  /\ mutex' = n
  /\ UNCHANGED <<mainVars, cmdVars, replyVars, canc, logVars, socketVars>>

SendFormatted(n) ==
  /\ Goto(n, "fmt", "msg")
  /\ off' = [off EXCEPT ![n] = TRUE]
  /\ UNCHANGED <<mainVars, cmdVars, replyVars, canc, mutex, logVars,
                 socketVars>>

\* Mutant: cancellation is enabled again before the message is written.
SendMessageEnabled(n) ==
  /\ Goto(n, "msg", "fwrite")
  /\ off' = [off EXCEPT ![n] = FALSE]
  /\ UNCHANGED <<mainVars, cmdVars, replyVars, canc, mutex, logVars,
                 socketVars>>

SendMessage(n) ==
  /\ Goto(n, "msg", "fwrite")
  /\ off' = [off EXCEPT ![n] = TRUE]
  /\ UNCHANGED <<mainVars, cmdVars, replyVars, canc, mutex, logVars,
                 socketVars>>

\* fwrite of the line, whole: the stream has its own lock.
LogWrite(n) ==
  /\ Goto(n, "fwrite", "fflush")
  /\ buf' = Append(buf, ReplyLine(n, part[n], ToLog(Message(n))))
  /\ UNCHANGED <<mainVars, cmdVars, replyVars, off, canc, mutex, file,
                 socketVars>>

\* Mutant: the line is left in the buffer.
LogFlushNothing(n) ==
  /\ Goto(n, "fflush", "write")
  /\ UNCHANGED <<mainVars, cmdVars, replyVars, off, canc, mutex, logVars,
                 socketVars>>

\* fflush writes whatever lines the buffer holds.
LogFlush(n) ==
  /\ Goto(n, "fflush", "write")
  /\ file' = file \o buf /\ buf' = <<>>
  /\ UNCHANGED <<mainVars, cmdVars, replyVars, off, canc, mutex, socketVars>>

\* The write succeeds, or the client is gone and it fails; send_message enables
\* cancellation, whatever state it was called in. The socket blocks: a write is
\* short only when the connection breaks, and nothing follows it then. While the
\* client does not read, the write need not return (see FairSpec).
WriteSocket(n) ==
  /\ Goto(n, "write", "back")
  /\ wire' \in {wire, Append(wire, [cmd |-> n, part |-> part[n],
                                    bytes |-> Message(n)])}
  /\ stalled' = FALSE
  /\ tried' = [tried EXCEPT ![n] = part[n]]
  /\ off' = [off EXCEPT ![n] = FALSE]
  /\ UNCHANGED <<mainVars, cmdVars, raw, part, canc, mutex, logVars>>

\* Mutant: slep_handler goes back to sleep.
ReturnSleepsAgain(n) ==
  /\ kind[n] = "SLEP"
  /\ Goto(n, "back", "sleep")
  /\ UNCHANGED <<mainVars, cmdVars, replyVars, off, canc, mutex, logVars,
                 socketVars>>

\* The rest of the handler: slep_handler sleeps after its first message,
\* work_handler unlocks worker_mutex, the others return to handler_wrapper,
\* which disables cancellation until the thread ends.
Return(n) ==
  /\ \/ /\ kind[n] = "SLEP" /\ part[n] = 1
        /\ Goto(n, "back", "sleep")
        /\ UNCHANGED <<off, mutex>>
     \/ /\ kind[n] = "WORK"
        /\ Goto(n, "back", "clean")
        /\ mutex' = 0
        /\ UNCHANGED off
     \/ /\ kind[n] # "WORK" /\ ~(kind[n] = "SLEP" /\ part[n] = 1)
        /\ Goto(n, "back", "exited")
        /\ off' = [off EXCEPT ![n] = TRUE]
        /\ UNCHANGED mutex
  /\ UNCHANGED <<mainVars, cmdVars, replyVars, canc, logVars, socketVars>>

SleepOver(n) ==
  /\ Goto(n, "sleep", "fmt")
  /\ part' = [part EXCEPT ![n] = @ + 1]
  /\ UNCHANGED <<mainVars, cmdVars, raw, tried, off, canc, mutex, logVars,
                 socketVars>>

\* The cleanup (see WorkHandler) and the end of handler_wrapper.
WorkEnd(n) ==
  /\ Goto(n, "clean", "exited")
  /\ off' = [off EXCEPT ![n] = TRUE]
  /\ UNCHANGED <<mainVars, cmdVars, replyVars, canc, mutex, logVars,
                 socketVars>>

\* What is a cancellation point: sleep, pthread_join and the calls of stdio and
\* of the socket.
CancelPoints == {"turn", "sleep", "clean", "fwrite", "fflush", "write"}

\* A thread acts on a cancellation where its cancel state lets it.
Cancelled(n) ==
  /\ canc[n] /\ ~off[n]
  /\ \E p \in CancelPoints : Goto(n, p, "dead")
  /\ UNCHANGED <<mainVars, cmdVars, replyVars, off, canc, mutex, logVars,
                 socketVars>>

ThreadStep(n) ==
  \/ Begin(n) \/ WorkLock(n) \/ SendFormatted(n) \/ SendMessage(n)
  \/ LogWrite(n) \/ LogFlush(n) \/ WriteSocket(n) \/ Return(n)
  \/ SleepOver(n) \/ WorkEnd(n) \/ Cancelled(n)

Next ==
  \/ OpenSocket \/ InitLogger \/ InitLoggerFails \/ PrintWelcome
  \/ Crash \/ Restart
  \/ LogCommand \/ CreateThread \/ StopReading
  \/ \E n \in Cmds : Cancel(n) \/ ThreadStep(n)

Spec == Init /\ [][Next]_vars

\* The scheduler runs every thread that can run. A write returns as long as the
\* client reads.
Runs(n) == ThreadStep(n) /\ (pc[n] = "write" => ~stalled)
FairSpec == Spec /\ \A n \in Cmds : WF_vars(Runs(n))

-----------------------------------------------------------------------------
\* What the bytes of a message are told apart by.
Chars == {"head", "text", "blank", "\r", "\n"}

\* What a line of the log may be.
Lines ==
  [what : {"@", "<"}, cmd : Cmds, part : 0 .. 2, text : Seq(Chars)]

TypeOK ==
  /\ mpc \in {"socket", "bind", "logger", "serve", "down"}
  /\ banner \in BOOLEAN
  /\ cpc \in {"read", "create"}
  /\ cmdNo \in 0 .. MaxCmds
  /\ kind \in [Cmds -> Kinds \cup {"PING"}]
  /\ pc \in [Cmds -> {"none", "start", "fmt", "msg", "back", "exited", "dead"}
                     \cup CancelPoints]
  /\ raw \in [Cmds -> BOOLEAN]
  /\ part \in [Cmds -> 0 .. 2] /\ tried \in [Cmds -> 0 .. 2]
  /\ off \in [Cmds -> BOOLEAN]
  /\ canc \in [Cmds -> BOOLEAN]
  /\ mutex \in {0} \cup Cmds
  /\ buf \in Seq(Lines) /\ file \in Seq(Lines)
  /\ wire \in Seq([cmd : Cmds, part : 1 .. 2, bytes : Seq(Chars)])
  /\ stalled \in BOOLEAN

\* The thread's reply to its command, as it stands in the log.
LogLine(m) == ReplyLine(m.cmd, m.part, ToLog(m.bytes))

\* logger.c: "log into the file, thread safe". Whatever the client has received
\* is in log.txt, not merely in a buffer, whenever and however the process ends:
\* the line was flushed before the message was written, by its thread or by
\* another one that flushed in between.
WrittenIsLogged ==
  \A i \in DOMAIN wire : \E j \in DOMAIN file : file[j] = LogLine(wire[i])

Log == file \o buf

IsReply(line, n) == line.what = "<" /\ line.cmd = n

\* The log tells the story in order: a reply stands behind its command, and the
\* second reply to a SLEP behind the first, although every thread writes the log
\* without _logger_mutex.
LogInOrder ==
  \A i \in DOMAIN Log : Log[i].what = "<" =>
    \E j \in 1 .. i - 1 :
      Log[j].cmd = Log[i].cmd /\ Log[j].part = Log[i].part - 1

\* A cancelled thread never leaves a reply half done: when it dies, every reply
\* it has logged was handed to the socket, and it does not hold worker_mutex.
\* send_message enables cancellation with the mutex still held (lines 203 of
\* handler_helper.c and 191 of work_handler.c); no cancellation point lies
\* between that and the unlock.
DiesBetweenReplies ==
  \A n \in Cmds : pc[n] = "dead" =>
    /\ mutex # n
    /\ \A i \in DOMAIN Log : IsReply(Log[i], n) => Log[i].part <= tried[n]

\* worker_mutex keeps the log's order of the SOLN messages that of the socket:
\* of two that were written, the one written first was logged first.
SolnsLoggedAsSent ==
  \A i, j \in DOMAIN wire :
    i < j /\ kind[wire[i].cmd] = "WORK" /\ kind[wire[j].cmd] = "WORK" =>
      \E h, k \in DOMAIN file :
        h < k /\ IsReply(file[h], wire[i].cmd) /\ IsReply(file[k], wire[j].cmd)

\* readme.txt: "May have 40 character reason". Only 38 characters survive the
\* line end; the server's own texts, the longest of 37, each reach the client
\* whole, in a line that ends where the client expects it.
ReasonWhole ==
  \A i \in DOMAIN wire :
    LET m == wire[i] IN
    /\ SubSeq(m.bytes, Len(m.bytes) - 1, Len(m.bytes)) = LineEnd
    /\ m.bytes # Raw =>
         Cardinality({j \in DOMAIN m.bytes : m.bytes[j] = "text"})
           = TextLen(kind[m.cmd], m.part)

\* A WORK that waits for worker_mutex gets it or dies waiting: no thread that is
\* cancelled takes the mutex with it, and no reply blocks the next one for good
\* while the client reads. A client that does not read blocks send_message in its
\* write, with cancellation disabled and worker_mutex held, and the WORKs behind
\* it with that.
WorkerMutexComes ==
  \A n \in Cmds :
    pc[n] = "turn" ~> pc[n] # "turn" \/ mpc = "down" \/ stalled

-----------------------------------------------------------------------------
\* What keeps the log: ReplyInv is inductive with TypeOK.

\* The process has a thread, and a buffer for the log, only while it serves.
ProcessRuns ==
  mpc # "serve" => buf = <<>> /\ \A n \in Cmds : pc[n] = "none"

\* client_handler has created the thread of command n.
Created(n) == n < cmdNo \/ (n = cmdNo /\ cpc = "read")

\* Threads and messages belong to commands whose thread was created.
OfCreated ==
  /\ \A n \in Cmds : pc[n] # "none" => Created(n)
  /\ \A i \in DOMAIN wire : Created(wire[i].cmd)

\* How far a thread is with its replies. None can be cancelled between the log
\* and the socket.
RepliesCounted ==
  \A n \in Cmds :
    /\ pc[n] \in {"none", "start"} => raw[n] /\ part[n] = 0 /\ tried[n] = 0
    /\ pc[n] \in {"turn", "fmt", "msg", "fwrite", "fflush", "write"} =>
         tried[n] = part[n] - 1
    /\ pc[n] \in {"back", "sleep", "clean", "exited"} => tried[n] = part[n]
    /\ pc[n] = "sleep" => kind[n] = "SLEP" /\ part[n] = 1
    /\ pc[n] = "turn" => kind[n] = "WORK"
    /\ pc[n] = "fmt" => kind[n] # "WORK"
    /\ pc[n] \in {"fwrite", "fflush", "write"} => off[n]
    /\ ~raw[n] => kind[n] \notin {"PING", "WORK"}

\* worker_mutex is held from the turn to the return of send_message, by a WORK.
MutexHeld ==
  \A n \in Cmds :
    mutex = n <=> /\ kind[n] = "WORK"
                  /\ pc[n] \in {"msg", "fwrite", "fflush", "write", "back"}

\* The line a thread is busy with, and the part of the log it has reached: the
\* file once fflush has returned.
ThisLine(n) == ReplyLine(n, part[n], ToLog(Message(n)))
Reached(n) == IF pc[n] = "write" THEN file ELSE Log

\* client_handler creates a thread for a command that is in the log.
CommandLogged ==
  mpc = "serve" /\ cpc = "create" =>
    \E j \in DOMAIN Log : Log[j].cmd = cmdNo /\ Log[j].part = 0

\* What a thread's next reply answers is in the log: the command, or the reply it
\* tried to write last.
TriedLogged ==
  \A n \in Cmds : pc[n] # "none" =>
    \E j \in DOMAIN Log : Log[j].cmd = n /\ Log[j].part = tried[n]

\* The log holds the line a thread is busy with.
LineReached ==
  \A n \in Cmds : pc[n] \in {"fflush", "write"} =>
    \E j \in DOMAIN Reached(n) : Reached(n)[j] = ThisLine(n)

\* It holds no reply of a thread beyond that.
Replied(n) == IF pc[n] \in {"fflush", "write"} THEN part[n] ELSE tried[n]
NoneBeyond ==
  mpc = "serve" =>
    \A i \in DOMAIN Log :
      Log[i].what = "<" => Log[i].part <= Replied(Log[i].cmd)

LinesStand == CommandLogged /\ TriedLogged /\ LineReached /\ NoneBeyond

\* The WORK that holds worker_mutex has its line behind those of the WORKs whose
\* message was written.
WorkBehind ==
  \A n \in Cmds : kind[n] = "WORK" /\ pc[n] \in {"fflush", "write"} =>
    \A i \in DOMAIN wire : kind[wire[i].cmd] = "WORK" =>
      \E h, k \in DOMAIN Reached(n) :
        /\ h < k
        /\ IsReply(Reached(n)[h], wire[i].cmd) /\ IsReply(Reached(n)[k], n)

\* Together they say what a thread may rely on between its fwrite, its fflush
\* and its write, while the other threads, the banner, a cancellation or the end
\* of the process come in between.
ReplyInv ==
  /\ ProcessRuns /\ OfCreated /\ RepliesCounted /\ MutexHeld /\ LinesStand
  /\ WrittenIsLogged /\ LogInOrder /\ WorkBehind /\ SolnsLoggedAsSent
=============================================================================
