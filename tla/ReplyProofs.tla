----------------------------- MODULE ReplyProofs -----------------------------
(***************************************************************************)
(* What the log and the socket say of each other, for every number of      *)
(* commands and every mixture of handlers: ReplyInv is inductive, and the  *)
(* properties of ReplyLog follow from it.                                  *)
(***************************************************************************)
EXTENDS ReplyLog, SequenceTheorems, FiniteSetTheorems, TLAPS

-----------------------------------------------------------------------------
(* Messages *)

\* A function on the first m numbers is a sequence.
LEMMA FunctionIsSeq ==
  ASSUME NEW S, NEW m \in Nat, NEW f \in [1 .. m -> S]
  PROVE  f \in Seq(S) /\ Len(f) = m
<1>1. f \in Seq(S) /\ DOMAIN f = 1 .. m
  BY SeqDef
<1>2. Len(f) \in Nat /\ DOMAIN f = 1 .. Len(f)
  BY <1>1, LenProperties
<1> QED BY <1>1, <1>2

\* The line end, and the message a handler makes itself.
LEMMA LineEndBytes ==
  /\ LineEnd \in Seq(Chars) /\ Len(LineEnd) = 2
  /\ LineEnd[1] = "\r" /\ LineEnd[2] = "\n"
BY DEF LineEnd, Chars

LEMMA RawBytes ==
  Raw \in Seq(Chars) /\ Len(Raw) = 3 /\ Raw[2] = "\r" /\ Raw[3] = "\n"
<1> DEFINE h == <<"head">>
           r == h \o LineEnd
<1>1. h \in Seq(Chars) /\ Len(h) = 1
  BY DEF Chars
<1> HIDE DEF h
<1>2. r \in Seq(Chars) /\ Len(r) = Len(h) + Len(LineEnd)
  BY <1>1, LineEndBytes, ConcatProperties
<1>3. \A i \in 1 .. Len(h) + Len(LineEnd) :
        r[i] = IF i <= Len(h) THEN h[i] ELSE LineEnd[i - Len(h)]
  BY <1>1, LineEndBytes, ConcatProperties
<1> HIDE DEF r
<1>4. r[2] = LineEnd[1] /\ r[3] = LineEnd[2] /\ Len(r) = 3
  BY <1>1, <1>2, <1>3, LineEndBytes
<1>5. Raw = r
  BY DEF Raw, r, h
<1> QED BY <1>2, <1>4, <1>5, LineEndBytes

\* send_formatted's 45 bytes, for a text of any length.
LEMMA FormattedBytes ==
  ASSUME NEW len
  PROVE  /\ Formatted(len) \in Seq(Chars) /\ Len(Formatted(len)) = 45
         /\ Formatted(len)[44] = "\r" /\ Formatted(len)[45] = "\n"
<1>1. \A j \in 44 .. 45 : j - 43 \in 1 .. 2 /\ LineEnd[j - 43] \in Chars
  BY LineEndBytes DEF Chars
<1>2. Formatted(len) \in [1 .. 45 -> Chars]
  BY <1>1 DEF Formatted, Chars
<1>3. Formatted(len)[44] = LineEnd[1] /\ Formatted(len)[45] = LineEnd[2]
  BY DEF Formatted
<1>4. Formatted(len) \in Seq(Chars) /\ Len(Formatted(len)) = 45
  BY <1>2, FunctionIsSeq
<1> QED BY <1>3, <1>4, LineEndBytes

\* Every message ends with the line end.
LEMMA MessageBytes ==
  ASSUME NEW n \in Cmds
  PROVE  /\ Message(n) \in Seq(Chars) /\ Len(Message(n)) \in Nat
         /\ Len(Message(n)) >= 3
         /\ Message(n)[Len(Message(n)) - 1] = "\r"
         /\ Message(n)[Len(Message(n))] = "\n"
<1>1. CASE raw[n]
  <2>1. Message(n) = Raw
    BY <1>1 DEF Message
  <2> QED BY <2>1, RawBytes
<1>2. CASE ~raw[n]
  <2> DEFINE f == Formatted(TextLen(kind[n], part[n]))
  <2>1. Message(n) = f
    BY <1>2 DEF Message
  <2>2. f \in Seq(Chars) /\ Len(f) = 45 /\ f[44] = "\r" /\ f[45] = "\n"
    BY FormattedBytes
  <2> HIDE DEF f
  <2> QED BY <2>1, <2>2
<1> QED BY <1>1, <1>2

\* What is logged of it.
LEMMA ToLogBytes ==
  ASSUME NEW n \in Cmds
  PROVE  ToLog(Message(n)) \in Seq(Chars)
<1>1. \A j \in 1 .. Len(Message(n)) - 2 : Message(n)[j] \in Chars
  BY MessageBytes, ElementOfSeq
<1>2. 1 \in Int /\ Len(Message(n)) - 2 \in Int
  BY MessageBytes
<1> QED BY <1>1, <1>2, SubSeqProperties DEF ToLog

-----------------------------------------------------------------------------
(* The log *)

\* t has what s has, at the same places.
Grows(s, t) == DOMAIN s \subseteq DOMAIN t /\ \A j \in DOMAIN s : t[j] = s[j]

\* A sequence and a longer one.
LEMMA ConcatGrows ==
  ASSUME NEW S, NEW s \in Seq(S), NEW t \in Seq(S)
  PROVE  s \o t \in Seq(S) /\ Grows(s, s \o t)
<1>1. Len(s) \in Nat /\ Len(t) \in Nat /\ DOMAIN s = 1 .. Len(s)
  BY LenProperties
<1>2. s \o t \in Seq(S) /\ Len(s \o t) = Len(s) + Len(t)
  BY ConcatProperties
<1>3. DOMAIN (s \o t) = 1 .. Len(s) + Len(t)
  BY <1>2, LenProperties
<1>4. \A j \in 1 .. Len(s) + Len(t) :
        (s \o t)[j] = IF j <= Len(s) THEN s[j] ELSE t[j - Len(s)]
  BY ConcatProperties
<1> DEFINE c == s \o t
<1> HIDE DEF c
<1>5. DOMAIN c = 1 .. Len(s) + Len(t) /\ \A j \in 1 .. Len(s) : c[j] = s[j]
  BY <1>1, <1>3, <1>4 DEF c
<1>6. Grows(s, c)
  BY <1>1, <1>5 DEF Grows
<1> QED BY <1>2, <1>6 DEF c

\* A line at the end of a sequence.
LEMMA AppendGrows ==
  ASSUME NEW S, NEW s \in Seq(S), NEW e \in S
  PROVE  /\ Append(s, e) \in Seq(S) /\ Grows(s, Append(s, e))
         /\ DOMAIN Append(s, e) = (DOMAIN s) \cup {Len(s) + 1}
         /\ Append(s, e)[Len(s) + 1] = e
         /\ DOMAIN s = 1 .. Len(s) /\ Len(s) \in Nat
<1>1. Len(s) \in Nat /\ DOMAIN s = 1 .. Len(s)
  BY LenProperties
<1>2. /\ Append(s, e) \in Seq(S) /\ Len(Append(s, e)) = Len(s) + 1
      /\ \A j \in 1 .. Len(s) : Append(s, e)[j] = s[j]
      /\ Append(s, e)[Len(s) + 1] = e
  BY AppendProperties
<1>3. DOMAIN Append(s, e) = 1 .. Len(s) + 1
  BY <1>2, LenProperties
<1> QED BY <1>1, <1>2, <1>3 DEF Grows

\* The log in a state of the right types.
LEMMA LogTyped ==
  ASSUME TypeOK
  PROVE  /\ Log \in Seq(Lines) /\ Grows(file, Log)
         /\ DOMAIN Log = 1 .. Len(Log) /\ Len(Log) \in Nat
         /\ DOMAIN file = 1 .. Len(file) /\ Len(file) \in Nat
         /\ Len(file) <= Len(Log)
<1>1. file \in Seq(Lines) /\ buf \in Seq(Lines)
  BY DEF TypeOK
<1>2. Log \in Seq(Lines) /\ Grows(file, Log)
  BY <1>1, ConcatGrows DEF Log
<1>3. /\ DOMAIN Log = 1 .. Len(Log) /\ Len(Log) \in Nat
      /\ DOMAIN file = 1 .. Len(file) /\ Len(file) \in Nat
  BY <1>1, <1>2, LenProperties
<1>4. Len(Log) = Len(file) + Len(buf) /\ Len(buf) \in Nat
  BY <1>1, ConcatProperties, LenProperties DEF Log
<1> QED BY <1>2, <1>3, <1>4

\* fwrite puts a line behind the log.
LEMMA LineAdded ==
  ASSUME TypeOK, NEW l \in Lines, buf' = Append(buf, l), file' = file
  PROVE  Log' = Append(Log, l)
<1>1. file \in Seq(Lines) /\ buf \in Seq(Lines)
  BY DEF TypeOK
<1>2. file \o Append(buf, l) = Append(file \o buf, l)
  BY <1>1, AppendIsConcat, ConcatAssociative, ConcatProperties
<1> QED BY <1>2 DEF Log

\* fflush moves the lines from the buffer to the file.
LEMMA LinesFlushed ==
  ASSUME TypeOK, file' = file \o buf, buf' = <<>>
  PROVE  Log' = Log /\ file' = Log
<1>1. Log \in Seq(Lines)
  BY LogTyped
<1>2. Log \o <<>> = Log
  BY <1>1, ConcatEmptySeq
<1> QED BY <1>2 DEF Log

-----------------------------------------------------------------------------
(* The types *)

\* A line of a thread, and a message it writes.
LEMMA ThisLineTyped ==
  ASSUME TypeOK, NEW n \in Cmds
  PROVE  ThisLine(n) \in Lines
<1>1. part[n] \in 0 .. 2
  BY DEF TypeOK
<1> QED BY <1>1, ToLogBytes DEF ThisLine, ReplyLine, Lines

\* The line of a command.
LEMMA CommandLineTyped ==
  ASSUME TypeOK, LogCommand
  PROVE  CommandLine(cmdNo + 1) \in Lines
<1>1. cmdNo + 1 \in Cmds
  BY ReplyAssumption DEF LogCommand, TypeOK, Cmds
<1>2. <<>> \in Seq(Chars)
  BY EmptySeq
<1> QED BY <1>1, <1>2 DEF CommandLine, Lines

\* A message that is written has a number.
LEMMA WritesTyped ==
  ASSUME TypeOK, RepliesCounted, NEW n \in Cmds, WriteSocket(n)
  PROVE  wire' \in Seq([cmd : Cmds, part : 1 .. 2, bytes : Seq(Chars)])
<1> DEFINE M == [cmd : Cmds, part : 1 .. 2, bytes : Seq(Chars)]
           m == [cmd |-> n, part |-> part[n], bytes |-> Message(n)]
<1>1. part[n] \in 1 .. 2
  <2>1. part[n] \in 0 .. 2 /\ tried[n] \in 0 .. 2
    BY DEF TypeOK
  <2>2. tried[n] = part[n] - 1
    BY DEF RepliesCounted, WriteSocket, Goto
  <2> QED BY <2>1, <2>2
<1>2. m \in M
  <2>1. Message(n) \in Seq(Chars)
    BY MessageBytes
  <2> QED BY <1>1, <2>1
<1>3. wire \in Seq(M) /\ wire' \in {wire, Append(wire, m)}
  BY DEF TypeOK, WriteSocket
<1> HIDE DEF m, M
<1>4. wire' \in Seq(M)
  BY <1>2, <1>3, AppendProperties
<1> QED BY <1>4 DEF M

\* One step keeps the types.
LEMMA TypesStep ==
  ASSUME TypeOK, RepliesCounted, [Next]_vars
  PROVE  TypeOK'
<1> USE DEF mainVars, cmdVars, replyVars, threadVars, logVars, socketVars
<1>0. /\ file \in Seq(Lines) /\ buf \in Seq(Lines) /\ <<>> \in Seq(Lines)
      /\ file \o buf \in Seq(Lines)
      /\ <<>> \in Seq([cmd : Cmds, part : 1 .. 2, bytes : Seq(Chars)])
  BY EmptySeq, ConcatProperties DEF TypeOK
<1>1. CASE OpenSocket
  BY <1>1 DEF TypeOK, OpenSocket
<1>2. CASE Restart \/ InitLoggerFails \/ StopReading
  BY <1>2 DEF TypeOK, Restart, InitLoggerFails, StopReading
<1>3. CASE PrintWelcome
  BY <1>0, <1>3 DEF TypeOK, PrintWelcome
<1>4. CASE Crash
  <2>1. /\ pc' \in [Cmds -> {"none"}] /\ raw' \in [Cmds -> BOOLEAN]
        /\ part' \in [Cmds -> {0}] /\ tried' \in [Cmds -> {0}]
        /\ off' \in [Cmds -> BOOLEAN] /\ canc' \in [Cmds -> BOOLEAN]
        /\ mutex' = 0 /\ stalled' = FALSE /\ UNCHANGED cmdVars
    BY <1>4 DEF Crash, NoThreads
  <2>2. /\ pc' \in [Cmds -> {"none", "start", "fmt", "msg", "back", "exited",
                             "dead"} \cup CancelPoints]
        /\ part' \in [Cmds -> 0 .. 2] /\ tried' \in [Cmds -> 0 .. 2]
    BY <2>1
  <2>3. /\ mpc' = "down" /\ banner' = FALSE /\ buf' = <<>> /\ wire' = wire
        /\ file' \in {file, file \o buf}
    BY <1>4 DEF Crash
  <2> QED BY <1>0, <2>1, <2>2, <2>3 DEF TypeOK
<1>5. CASE InitLogger
  <2>1. /\ kind' \in [Cmds -> Kinds \cup {"PING"}] /\ cmdNo' \in 0 .. MaxCmds
        /\ UNCHANGED <<banner, threadVars, mutex, buf, stalled>>
        /\ mpc' = "serve" /\ cpc' = "read" /\ file' = <<>> /\ wire' = <<>>
    BY <1>5, ReplyAssumption DEF InitLogger
  <2> QED BY <1>0, <2>1 DEF TypeOK
<1>6. CASE LogCommand
  <2>1. cmdNo' \in 0 .. MaxCmds /\ CommandLine(cmdNo + 1) \in Lines
    <3>1. cmdNo' \in 0 .. MaxCmds
      BY <1>6, ReplyAssumption DEF LogCommand, TypeOK
    <3> QED BY <1>6, <3>1, CommandLineTyped
  <2>2. buf' \in Seq(Lines)
    BY <1>0, <1>6, <2>1, AppendProperties DEF LogCommand
  <2> QED BY <1>6, <2>1, <2>2 DEF TypeOK, LogCommand
<1>7. CASE CreateThread
  BY <1>0, <1>7 DEF TypeOK, CreateThread
<1>8. ASSUME NEW n \in Cmds, Cancel(n)
      PROVE  TypeOK'
  BY <1>8 DEF TypeOK, Cancel
<1>9. ASSUME NEW n \in Cmds, ThreadStep(n)
      PROVE  TypeOK'
  <2> USE DEF Goto, CancelPoints
  <2>1. CASE Begin(n)
    <3>1. raw' \in [Cmds -> BOOLEAN]
      BY <2>1 DEF TypeOK, Begin
    <3>2. off' \in [Cmds -> BOOLEAN]
      BY <2>1 DEF TypeOK, Begin
    <3>3. part' \in [Cmds -> 0 .. 2]
      BY <2>1 DEF TypeOK, Begin
    <3>4. pc' \in [Cmds -> {"none", "start", "fmt", "msg", "back", "exited",
                            "dead"} \cup CancelPoints]
      BY <2>1 DEF TypeOK, Begin
    <3> QED BY <2>1, <3>1, <3>2, <3>3, <3>4 DEF TypeOK, Begin
  <2>2. CASE WorkLock(n)
    BY <2>2 DEF TypeOK, WorkLock
  <2>3. CASE SendFormatted(n) \/ SendMessage(n)
    BY <2>3 DEF TypeOK, SendFormatted, SendMessage
  <2>4. CASE LogWrite(n)
    <3>1. ThisLine(n) \in Lines
      BY ThisLineTyped
    <3>2. buf' = Append(buf, ThisLine(n))
      BY <2>4 DEF LogWrite, ThisLine
    <3>3. buf' \in Seq(Lines)
      BY <1>0, <3>1, <3>2, AppendProperties
    <3> QED BY <2>4, <3>3 DEF TypeOK, LogWrite
  <2>5. CASE LogFlush(n)
    BY <1>0, <2>5 DEF TypeOK, LogFlush
  <2>6. CASE WriteSocket(n)
    <3>1. wire' \in Seq([cmd : Cmds, part : 1 .. 2, bytes : Seq(Chars)])
      BY <2>6, WritesTyped
    <3> QED BY <2>6, <3>1 DEF TypeOK, WriteSocket
  <2>7. CASE Return(n)
    BY <2>7 DEF TypeOK, Return
  <2>8. CASE SleepOver(n)
    BY <2>8 DEF TypeOK, SleepOver, RepliesCounted
  <2>9. CASE WorkEnd(n)
    BY <2>9 DEF TypeOK, WorkEnd
  <2>10. CASE Cancelled(n)
    BY <2>10 DEF TypeOK, Cancelled
  <2> QED BY <1>9, <2>1, <2>2, <2>3, <2>4, <2>5, <2>6, <2>7, <2>8, <2>9, <2>10
          DEF ThreadStep
<1>10. CASE UNCHANGED vars
  BY <1>10 DEF TypeOK, vars
<1> QED BY <1>1, <1>2, <1>3, <1>4, <1>5, <1>6, <1>7, <1>8, <1>9, <1>10 DEF Next

-----------------------------------------------------------------------------
(* Where the threads are *)

ControlInv ==
  TypeOK /\ ProcessRuns /\ OfCreated /\ RepliesCounted /\ MutexHeld

\* A command has no thread before its thread is created.
LEMMA NotCreatedYet ==
  ASSUME TypeOK, OfCreated, CreateThread, cmdNo \in Cmds
  PROVE  pc[cmdNo] = "none"
<1>1. cpc = "create"
  BY DEF CreateThread
<1>2. cmdNo \in Int
  BY DEF TypeOK
<1>3. ~Created(cmdNo)
  BY <1>1, <1>2 DEF Created
<1> QED BY <1>3 DEF OfCreated

\* The bookkeeping of a thread's replies and cancel state.
LEMMA CountedStep ==
  ASSUME ControlInv, [Next]_vars
  PROVE  RepliesCounted'
<1> USE DEF mainVars, cmdVars, replyVars, threadVars, logVars, socketVars
<1>0. TypeOK /\ ProcessRuns /\ OfCreated /\ RepliesCounted
  BY DEF ControlInv
<1>1. CASE UNCHANGED <<kind, threadVars>>
  BY <1>0, <1>1 DEF RepliesCounted
<1>2. CASE Crash
  BY <1>2 DEF RepliesCounted, Crash, NoThreads
<1>3. CASE InitLogger
  BY <1>0, <1>3 DEF RepliesCounted, InitLogger, ProcessRuns
<1>4. CASE CreateThread
  <2>1. pc[cmdNo] = "none" \/ cmdNo \notin Cmds
    BY <1>0, <1>4, NotCreatedYet
  <2> QED BY <1>0, <1>4, <2>1 DEF RepliesCounted, CreateThread, TypeOK
<1>5. ASSUME NEW n \in Cmds, Cancel(n)
      PROVE  RepliesCounted'
  BY <1>0, <1>5 DEF RepliesCounted, Cancel
<1>6. ASSUME NEW n \in Cmds, ThreadStep(n)
      PROVE  RepliesCounted'
  <2> USE <1>0 DEF Goto, CancelPoints, TypeOK, RepliesCounted
  <2>1. CASE Begin(n)
    BY <2>1 DEF Begin
  <2>2. CASE WorkLock(n)
    BY <2>2 DEF WorkLock
  <2>3. CASE SendFormatted(n) \/ SendMessage(n)
    BY <2>3 DEF SendFormatted, SendMessage
  <2>4. CASE LogWrite(n) \/ LogFlush(n)
    BY <2>4 DEF LogWrite, LogFlush
  <2>5. CASE WriteSocket(n)
    BY <2>5 DEF WriteSocket
  <2>6. CASE Return(n)
    BY <2>6 DEF Return
  <2>7. CASE SleepOver(n)
    BY <2>7 DEF SleepOver
  <2>8. CASE WorkEnd(n)
    BY <2>8 DEF WorkEnd
  <2>9. CASE Cancelled(n)
    BY <2>9 DEF Cancelled
  <2> QED BY <1>6, <2>1, <2>2, <2>3, <2>4, <2>5, <2>6, <2>7, <2>8, <2>9
          DEF ThreadStep
<1> QED
  BY <1>1, <1>2, <1>3, <1>4, <1>5, <1>6
     DEF Next, vars, OpenSocket, Restart, InitLoggerFails, PrintWelcome,
         StopReading, LogCommand

\* Who holds worker_mutex.
LEMMA MutexStep ==
  ASSUME ControlInv, [Next]_vars
  PROVE  MutexHeld'
<1> USE DEF mainVars, cmdVars, replyVars, threadVars, logVars, socketVars
<1>0. /\ TypeOK /\ ProcessRuns /\ OfCreated /\ RepliesCounted /\ MutexHeld
      /\ 0 \notin Cmds
  BY DEF ControlInv, Cmds
<1>1. CASE UNCHANGED <<kind, pc, mutex>>
  BY <1>0, <1>1 DEF MutexHeld
<1>2. CASE Crash
  BY <1>0, <1>2 DEF MutexHeld, Crash, NoThreads
<1>3. CASE InitLogger
  BY <1>0, <1>3 DEF MutexHeld, InitLogger, ProcessRuns
<1>4. CASE CreateThread
  <2>1. pc[cmdNo] = "none" \/ cmdNo \notin Cmds
    BY <1>0, <1>4, NotCreatedYet
  <2> QED BY <1>0, <1>4, <2>1 DEF MutexHeld, CreateThread, TypeOK
<1>5. ASSUME NEW n \in Cmds, ThreadStep(n)
      PROVE  MutexHeld'
  <2> USE <1>0 DEF Goto, CancelPoints, TypeOK, MutexHeld
  <2>1. CASE Begin(n)
    BY <2>1 DEF Begin
  <2>2. CASE WorkLock(n)
    <3>1. kind[n] = "WORK"
      BY <2>2 DEF WorkLock, RepliesCounted
    <3> QED BY <2>2, <3>1 DEF WorkLock
  <2>3. CASE SendFormatted(n) \/ SendMessage(n)
    BY <2>3 DEF SendFormatted, SendMessage, RepliesCounted
  <2>4. CASE LogWrite(n) \/ LogFlush(n) \/ WriteSocket(n)
    BY <2>4 DEF LogWrite, LogFlush, WriteSocket
  <2>5. CASE Return(n)
    BY <2>5 DEF Return
  <2>6. CASE SleepOver(n) \/ WorkEnd(n)
    BY <2>6 DEF SleepOver, WorkEnd
  <2>7. CASE Cancelled(n)
    BY <2>7 DEF Cancelled, RepliesCounted
  <2> QED BY <1>5, <2>1, <2>2, <2>3, <2>4, <2>5, <2>6, <2>7 DEF ThreadStep
<1> QED
  BY <1>1, <1>2, <1>3, <1>4, <1>5
     DEF Next, vars, OpenSocket, Restart, InitLoggerFails, PrintWelcome,
         StopReading, LogCommand, Cancel

\* Only a process that serves has threads.
LEMMA RunsStep ==
  ASSUME ControlInv, [Next]_vars
  PROVE  ProcessRuns'
<1> USE DEF mainVars, cmdVars, replyVars, threadVars, logVars, socketVars
<1>0. TypeOK /\ ProcessRuns
  BY DEF ControlInv
<1>1. CASE OpenSocket \/ Restart \/ InitLoggerFails \/ PrintWelcome \/ StopReading
           \/ LogCommand \/ CreateThread \/ UNCHANGED vars
  BY <1>0, <1>1
     DEF ProcessRuns, OpenSocket, Restart, InitLoggerFails, PrintWelcome,
         StopReading, LogCommand, CreateThread, vars
<1>2. CASE Crash
  BY <1>2 DEF ProcessRuns, Crash, NoThreads
<1>3. CASE InitLogger
  BY <1>0, <1>3 DEF ProcessRuns, InitLogger
<1>4. ASSUME NEW n \in Cmds, Cancel(n) \/ ThreadStep(n)
      PROVE  ProcessRuns'
  <2>1. mpc = "serve" /\ mpc' = mpc
    BY <1>4
       DEF Cancel, ThreadStep, Begin, WorkLock, SendFormatted, SendMessage,
           LogWrite, LogFlush, WriteSocket, Return, SleepOver, WorkEnd,
           Cancelled, Goto
  <2> QED BY <2>1 DEF ProcessRuns
<1> QED BY <1>1, <1>2, <1>3, <1>4 DEF Next

\* The messages on the socket after a step: one more at most.
LEMMA WireStep ==
  ASSUME TypeOK, NEW n \in Cmds, WriteSocket(n)
  PROVE  \/ wire' = wire
         \/ /\ Grows(wire, wire')
            /\ DOMAIN wire' = (DOMAIN wire) \cup {Len(wire) + 1}
            /\ wire'[Len(wire) + 1] =
                 [cmd |-> n, part |-> part[n], bytes |-> Message(n)]
            /\ DOMAIN wire = 1 .. Len(wire) /\ Len(wire) \in Nat
<1> DEFINE m == [cmd |-> n, part |-> part[n], bytes |-> Message(n)]
           M == [cmd : Cmds, part : 0 .. 2, bytes : Seq(Chars)]
<1>1. part[n] \in 0 .. 2 /\ Message(n) \in Seq(Chars)
  BY MessageBytes DEF TypeOK
<1>2. m \in M
  BY <1>1
<1>3. wire' \in {wire, Append(wire, m)}
  BY DEF WriteSocket
<1>4. wire \in Seq(M)
  <2>1. [cmd : Cmds, part : 1 .. 2, bytes : Seq(Chars)] \subseteq M
    OBVIOUS
  <2> HIDE DEF M
  <2> QED BY <2>1, SeqMonotonic DEF TypeOK
<1> HIDE DEF m, M
<1>5. /\ Grows(wire, Append(wire, m))
      /\ DOMAIN Append(wire, m) = (DOMAIN wire) \cup {Len(wire) + 1}
      /\ Append(wire, m)[Len(wire) + 1] = m
      /\ DOMAIN wire = 1 .. Len(wire) /\ Len(wire) \in Nat
  BY <1>2, <1>4, AppendGrows
<1> QED BY <1>3, <1>5 DEF m

\* A message belongs to a command.
LEMMA WireCmds ==
  ASSUME TypeOK
  PROVE  \A i \in DOMAIN wire : wire[i].cmd \in Cmds
<1> DEFINE M == [cmd : Cmds, part : 1 .. 2, bytes : Seq(Chars)]
<1>1. wire \in Seq(M)
  BY DEF TypeOK
<1>2. \A m \in M : m.cmd \in Cmds
  OBVIOUS
<1> HIDE DEF M
<1>3. \A i \in DOMAIN wire : wire[i] \in M
  BY <1>1, LenProperties, ElementOfSeq
<1> QED BY <1>2, <1>3

\* Threads and messages are of commands whose thread was created.
LEMMA CreatedStep ==
  ASSUME ControlInv, [Next]_vars
  PROVE  OfCreated'
<1> USE DEF mainVars, cmdVars, replyVars, threadVars, logVars, socketVars
<1>0. TypeOK /\ ProcessRuns /\ OfCreated /\ RepliesCounted
  BY DEF ControlInv
<1>1. CASE UNCHANGED <<cpc, cmdNo, pc, wire>>
  BY <1>0, <1>1 DEF OfCreated, Created
<1>2. CASE Crash
  BY <1>0, <1>2 DEF OfCreated, Created, Crash, NoThreads
<1>3. CASE InitLogger
  BY <1>0, <1>3 DEF OfCreated, InitLogger, ProcessRuns
<1>4. CASE LogCommand
  <2>1. \A n : Created(n) /\ n \in Cmds => Created(n)'
    BY <1>0, <1>4 DEF LogCommand, Created, TypeOK, Cmds
  <2>2. \A i \in DOMAIN wire : wire[i].cmd \in Cmds
    BY <1>0, WireCmds
  <2> QED BY <1>0, <1>4, <2>1, <2>2 DEF OfCreated, LogCommand
<1>5. CASE CreateThread
  <2>1. \A n : Created(n) /\ n \in Cmds => Created(n)'
    BY <1>0, <1>5 DEF CreateThread, Created
  <2>2. \A i \in DOMAIN wire : wire[i].cmd \in Cmds
    BY <1>0, WireCmds
  <2>3. Created(cmdNo)'
    BY <1>5 DEF CreateThread, Created
  <2> QED BY <1>0, <1>5, <2>1, <2>2, <2>3 DEF OfCreated, CreateThread, TypeOK
<1>6. ASSUME NEW n \in Cmds, ThreadStep(n)
      PROVE  OfCreated'
  <2>1. /\ UNCHANGED <<cpc, cmdNo>> /\ pc[n] # "none"
        /\ \A m \in Cmds : m # n => pc'[m] = pc[m]
        /\ wire' = wire \/ WriteSocket(n)
    BY <1>0, <1>6
       DEF ThreadStep, Begin, WorkLock, SendFormatted, SendMessage, LogWrite,
           LogFlush, Return, SleepOver, WorkEnd, Cancelled, CancelPoints, Goto,
           WriteSocket, TypeOK
  <2>2. \A m : Created(m)' <=> Created(m)
    BY <2>1 DEF Created
  <2>3. Created(n)
    BY <1>0, <2>1 DEF OfCreated
  <2>4. \A m \in Cmds : pc'[m] # "none" => Created(m)'
    BY <1>0, <2>1, <2>2, <2>3 DEF OfCreated
  <2>5. ASSUME NEW i \in DOMAIN wire'
        PROVE  wire'[i].cmd = n \/ \E j \in DOMAIN wire : wire[j] = wire'[i]
    <3>1. CASE wire' = wire
      BY <3>1
    <3>2. CASE wire' # wire
      <4> DEFINE m == [cmd |-> n, part |-> part[n], bytes |-> Message(n)]
      <4>1. /\ Grows(wire, wire')
            /\ DOMAIN wire' = (DOMAIN wire) \cup {Len(wire) + 1}
            /\ wire'[Len(wire) + 1] = m
        BY <1>0, <2>1, <3>2, WireStep
      <4>2. m.cmd = n
        OBVIOUS
      <4> HIDE DEF m
      <4> QED BY <4>1, <4>2 DEF Grows
    <3> QED BY <3>1, <3>2
  <2>6. \A i \in DOMAIN wire' :
          wire'[i].cmd < cmdNo \/ (wire'[i].cmd = cmdNo /\ cpc = "read")
    BY <1>0, <2>3, <2>5 DEF OfCreated, Created
  <2>7. (\A i \in DOMAIN wire : Created(wire[i].cmd))'
    BY <2>1, <2>6 DEF Created
  <2> QED BY <2>4, <2>7 DEF OfCreated
<1> QED
  BY <1>1, <1>2, <1>3, <1>4, <1>5, <1>6
     DEF Next, vars, OpenSocket, Restart, InitLoggerFails, PrintWelcome,
         StopReading, Cancel

\* One step keeps what is known of the threads.
LEMMA ControlStep ==
  ASSUME ControlInv, [Next]_vars
  PROVE  ControlInv'
<1>1. TypeOK'
  BY TypesStep DEF ControlInv
<1> QED BY <1>1, RunsStep, CreatedStep, CountedStep, MutexStep DEF ControlInv

-----------------------------------------------------------------------------
(* What a step does to the log *)

\* Nothing, a flush, a line more, or the end of the process.
Flushed == file' = Log /\ Log' = Log
Untouched == file' = file /\ Log' = Log
Added(l) == file' = file /\ Log' = Append(Log, l)

LEMMA LogStep ==
  ASSUME ControlInv, [Next]_vars
  PROVE  \/ InitLogger
         \/ Crash /\ Log' = file' /\ file' \in {file, Log}
         \/ (PrintWelcome \/ CreateThread \/ \E n \in Cmds : LogFlush(n))
            /\ Flushed
         \/ LogCommand /\ Added(CommandLine(cmdNo + 1))
         \/ \E n \in Cmds : LogWrite(n) /\ Added(ThisLine(n))
         \/ Untouched
<1> USE DEF mainVars, cmdVars, replyVars, threadVars, logVars, socketVars
<1>0. TypeOK /\ file \in Seq(Lines)
  BY DEF ControlInv, TypeOK
<1>1. CASE UNCHANGED <<buf, file>>
  BY <1>1 DEF Untouched, Log
<1>2. CASE Crash
  <2>1. file' \in {file, Log} /\ buf' = <<>>
    BY <1>2 DEF Crash, Log
  <2>2. file' \in Seq(Lines)
    BY <1>0, <2>1, LogTyped
  <2>3. Log' = file'
    BY <2>1, <2>2, ConcatEmptySeq DEF Log
  <2> QED BY <1>2, <2>1, <2>3
<1>3. CASE PrintWelcome \/ CreateThread \/ \E n \in Cmds : LogFlush(n)
  <2>1. file' = file \o buf /\ buf' = <<>>
    BY <1>3 DEF PrintWelcome, CreateThread, LogFlush
  <2>2. Flushed
    BY <1>0, <2>1, LinesFlushed DEF Flushed
  <2> QED BY <1>3, <2>2
<1>4. CASE LogCommand
  <2>1. CommandLine(cmdNo + 1) \in Lines
    BY <1>0, <1>4, CommandLineTyped
  <2>2. buf' = Append(buf, CommandLine(cmdNo + 1)) /\ file' = file
    BY <1>4 DEF LogCommand
  <2>3. Added(CommandLine(cmdNo + 1))
    BY <1>0, <2>1, <2>2, LineAdded DEF Added
  <2> QED BY <1>4, <2>3
<1>5. ASSUME NEW n \in Cmds, LogWrite(n)
      PROVE  Added(ThisLine(n))
  <2>1. buf' = Append(buf, ThisLine(n)) /\ file' = file
    BY <1>5 DEF LogWrite, ThisLine
  <2> QED BY <1>0, <2>1, ThisLineTyped, LineAdded DEF Added
<1> QED
  BY <1>1, <1>2, <1>3, <1>4, <1>5
     DEF Next, vars, OpenSocket, Restart, InitLoggerFails, StopReading, Cancel,
         ThreadStep, Begin, WorkLock, SendFormatted, SendMessage, WriteSocket, Return,
         SleepOver, WorkEnd, Cancelled

\* A line that is added stands at the end.
LEMMA AddedLast ==
  ASSUME TypeOK, NEW l \in Lines, Added(l)
  PROVE  /\ Grows(Log, Log') /\ DOMAIN Log' = (DOMAIN Log) \cup {Len(Log) + 1}
         /\ Log'[Len(Log) + 1] = l
BY LogTyped, AppendGrows DEF Added

\* The file is only ever added to, until it is opened again.
LEMMA FileGrows ==
  ASSUME ControlInv, [Next]_vars, ~InitLogger
  PROVE  Grows(file, file') /\ (~Crash => Grows(Log, Log'))
<1>0. TypeOK
  BY DEF ControlInv
<1>1. Grows(file, file) /\ Grows(Log, Log) /\ Grows(file, Log)
  BY <1>0, LogTyped DEF Grows
<1>2. \A n \in Cmds : ThisLine(n) \in Lines
  BY <1>0, ThisLineTyped
<1>3. CASE LogCommand /\ Added(CommandLine(cmdNo + 1))
  BY <1>0, <1>1, <1>3, CommandLineTyped, AddedLast DEF Added
<1>4. CASE \E n \in Cmds : LogWrite(n) /\ Added(ThisLine(n))
  BY <1>0, <1>1, <1>2, <1>4, AddedLast DEF Added
<1> QED BY <1>1, <1>3, <1>4, LogStep DEF Flushed, Untouched

\* A thread that does not run, and is not created, keeps what it has.
Frame(n) ==
  /\ pc'[n] = pc[n] /\ kind'[n] = kind[n] /\ raw'[n] = raw[n]
  /\ part'[n] = part[n] /\ tried'[n] = tried[n]

LEMMA FrameKept ==
  ASSUME ControlInv, [Next]_vars, ~Crash, ~InitLogger, NEW n \in Cmds
  PROVE  ThreadStep(n) \/ (CreateThread /\ n = cmdNo) \/ Frame(n)
<1> USE DEF mainVars, cmdVars, replyVars, threadVars, logVars, socketVars
<1>0. TypeOK
  BY DEF ControlInv
<1>1. CASE UNCHANGED <<pc, kind, raw, part, tried>>
  BY <1>1 DEF Frame
<1>2. CASE CreateThread
  BY <1>0, <1>2 DEF CreateThread, Frame, TypeOK
<1>3. ASSUME NEW m \in Cmds, ThreadStep(m), m # n
      PROVE  Frame(n)
  <2>1. UNCHANGED kind
    BY <1>3
       DEF ThreadStep, Begin, WorkLock, SendFormatted, SendMessage, LogWrite,
           LogFlush, WriteSocket, Return, SleepOver, WorkEnd, Cancelled
  <2>2. pc'[n] = pc[n]
    BY <1>0, <1>3
       DEF ThreadStep, Begin, WorkLock, SendFormatted, SendMessage, LogWrite,
           LogFlush, WriteSocket, Return, SleepOver, WorkEnd, Cancelled, Goto,
           TypeOK
  <2>3. raw'[n] = raw[n] /\ part'[n] = part[n] /\ tried'[n] = tried[n]
    BY <1>0, <1>3
       DEF ThreadStep, Begin, WorkLock, SendFormatted, SendMessage, LogWrite,
           LogFlush, WriteSocket, Return, SleepOver, WorkEnd, Cancelled, TypeOK
  <2> QED BY <2>1, <2>2, <2>3 DEF Frame
<1> QED
  BY <1>1, <1>2, <1>3
     DEF Next, vars, OpenSocket, Restart, InitLoggerFails, PrintWelcome,
         StopReading, LogCommand, Cancel

\* The handler of a command that has a thread stays.
LEMMA KindKept ==
  ASSUME ControlInv, [Next]_vars, ~InitLogger, NEW n \in Cmds, Created(n)
  PROVE  kind'[n] = kind[n]
<1> USE DEF mainVars, cmdVars, replyVars, threadVars, logVars, socketVars
<1>1. CASE CreateThread
  <2>1. n # cmdNo
    BY <1>1 DEF CreateThread, Created, Cmds, ControlInv, TypeOK
  <2> QED BY <1>1, <2>1 DEF CreateThread, ControlInv, TypeOK
<1>2. CASE ~CreateThread
  <2>1. UNCHANGED kind
    BY <1>2
       DEF Next, vars, OpenSocket, Restart, InitLoggerFails, PrintWelcome,
           StopReading, LogCommand, Cancel, Crash, ThreadStep, Begin, WorkLock,
           SendFormatted, SendMessage, LogWrite, LogFlush, WriteSocket, Return,
           SleepOver, WorkEnd, Cancelled
  <2> QED BY <2>1
<1> QED BY <1>1, <1>2

-----------------------------------------------------------------------------
(* The lines of the log *)

\* What happened to the socket, seen from one of its messages.
NewMessage(i, n) ==
  /\ WriteSocket(n) /\ i = Len(wire) + 1
  /\ wire'[i] = [cmd |-> n, part |-> part[n], bytes |-> Message(n)]

LEMMA WireAfter ==
  ASSUME ControlInv, [Next]_vars, ~InitLogger, NEW i \in DOMAIN wire'
  PROVE  \/ i \in DOMAIN wire /\ wire'[i] = wire[i]
         \/ /\ DOMAIN wire = 1 .. Len(wire) /\ Len(wire) \in Nat
            /\ \E n \in Cmds : NewMessage(i, n)
<1> USE DEF mainVars, cmdVars, replyVars, threadVars, logVars, socketVars
<1>0. TypeOK
  BY DEF ControlInv
<1>1. CASE \E n \in Cmds : WriteSocket(n)
  <2>1. PICK n \in Cmds : WriteSocket(n)
    BY <1>1
  <2>2. CASE wire' = wire
    BY <2>2
  <2>3. CASE wire' # wire
    <3>1. /\ Grows(wire, wire')
          /\ DOMAIN wire' = (DOMAIN wire) \cup {Len(wire) + 1}
          /\ wire'[Len(wire) + 1] =
               [cmd |-> n, part |-> part[n], bytes |-> Message(n)]
          /\ DOMAIN wire = 1 .. Len(wire) /\ Len(wire) \in Nat
      BY <1>0, <2>1, <2>3, WireStep
    <3>2. CASE i \in DOMAIN wire
      BY <3>1, <3>2 DEF Grows
    <3>3. CASE i \notin DOMAIN wire
      <4>1. i = Len(wire) + 1
        BY <3>1, <3>3
      <4> QED BY <2>1, <3>1, <4>1 DEF NewMessage
    <3> QED BY <3>2, <3>3
  <2> QED BY <2>2, <2>3
<1>2. CASE ~\E n \in Cmds : WriteSocket(n)
  <2>1. wire' = wire
    BY <1>2
       DEF Next, vars, OpenSocket, Restart, InitLoggerFails, PrintWelcome,
           StopReading,
           LogCommand, CreateThread, Cancel, Crash, ThreadStep, Begin, WorkLock,
           SendFormatted, SendMessage, LogWrite, LogFlush, Return, SleepOver,
           WorkEnd, Cancelled
  <2> QED BY <2>1
<1> QED BY <1>1, <1>2

\* When a message is written, its line is in the file.
LEMMA LoggedStep ==
  ASSUME ControlInv, LinesStand, WrittenIsLogged, [Next]_vars
  PROVE  WrittenIsLogged'
<1>1. CASE InitLogger
  <2>1. wire' = <<>>
    BY <1>1 DEF InitLogger
  <2> QED BY <2>1 DEF WrittenIsLogged
<1>2. CASE ~InitLogger
  <2>0. Grows(file, file')
    BY <1>2, FileGrows
  <2>1. ASSUME NEW i \in DOMAIN wire'
        PROVE  \E j \in DOMAIN file' : file'[j] = LogLine(wire'[i])
    <3>1. CASE i \in DOMAIN wire /\ wire'[i] = wire[i]
      <4>1. PICK j \in DOMAIN file : file[j] = LogLine(wire[i])
        BY <3>1 DEF WrittenIsLogged
      <4> QED BY <2>0, <3>1, <4>1 DEF Grows
    <3>2. ASSUME NEW n \in Cmds, NewMessage(i, n)
          PROVE  \E j \in DOMAIN file' : file'[j] = LogLine(wire'[i])
      <4>1. LogLine(wire'[i]) = ThisLine(n)
        BY <3>2 DEF NewMessage, LogLine, ThisLine
      <4>2. pc[n] = "write"
        BY <3>2 DEF NewMessage, WriteSocket, Goto
      <4>3. PICK j \in DOMAIN file : file[j] = ThisLine(n)
        BY <4>2 DEF LinesStand, LineReached, Reached
      <4> QED BY <2>0, <4>1, <4>3 DEF Grows
    <3> QED BY <1>2, <3>1, <3>2, WireAfter
  <2> QED BY <2>1 DEF WrittenIsLogged, LogLine
<1> QED BY <1>1, <1>2

\* A reply is logged behind what it answers.
LEMMA OrderStep ==
  ASSUME ControlInv, LinesStand, LogInOrder, [Next]_vars
  PROVE  LogInOrder'
<1> DEFINE Behind(L, i) ==
             L[i].what = "<" =>
               \E j \in 1 .. i - 1 : L[j].cmd = L[i].cmd
                                     /\ L[j].part = L[i].part - 1
<1> SUFFICES ASSUME NEW i \in DOMAIN Log' PROVE Behind(Log', i)
  BY DEF LogInOrder
<1>0. /\ TypeOK /\ \A k \in DOMAIN Log : Behind(Log, k)
      /\ DOMAIN Log = 1 .. Len(Log) /\ Len(Log) \in Nat
      /\ DOMAIN file = 1 .. Len(file) /\ Len(file) \in Nat
      /\ Grows(file, Log)
  BY LogTyped DEF ControlInv, LogInOrder
<1>1. CASE InitLogger
  <2>1. file' = <<>> /\ buf' = buf /\ buf = <<>>
    BY <1>1 DEF InitLogger, ControlInv, ProcessRuns
  <2>2. <<>> \in Seq(Lines)
    BY EmptySeq
  <2>3. Log' = <<>>
    BY <2>1, <2>2, ConcatEmptySeq DEF Log
  <2> QED BY <2>3
<1>2. CASE Log' = Log
  BY <1>0, <1>2
<1>3. CASE Log' = file
  <2>1. i \in 1 .. Len(file) /\ \A j \in 1 .. i : file[j] = Log[j]
    BY <1>0, <1>3 DEF Grows
  <2>2. Behind(Log, i) /\ i \in Nat
    BY <1>0, <2>1 DEF Grows
  <2>3. Behind(file, i)
    BY <2>1, <2>2
  <2> QED BY <1>3, <2>3
<1>4. ASSUME NEW l \in Lines, Added(l), l.what = "<" =>
               \E j \in DOMAIN Log : Log[j].cmd = l.cmd
                                     /\ Log[j].part = l.part - 1
      PROVE  Behind(Log', i)
  <2>1. /\ Grows(Log, Log') /\ DOMAIN Log' = (DOMAIN Log) \cup {Len(Log) + 1}
        /\ Log'[Len(Log) + 1] = l
    BY <1>0, <1>4, AddedLast
  <2>2. CASE i \in DOMAIN Log
    <3>1. \A j \in 1 .. i : Log'[j] = Log[j]
      BY <1>0, <2>1, <2>2 DEF Grows
    <3>2. i \in Nat /\ i \in 1 .. i /\ \A j \in 1 .. i - 1 : j \in 1 .. i
      BY <1>0, <2>2
    <3>3. Behind(Log, i)
      BY <1>0, <2>2
    <3> QED BY <3>1, <3>2, <3>3
  <2>3. CASE i = Len(Log) + 1
    <3>1. \A j \in DOMAIN Log : j \in 1 .. i - 1 /\ Log'[j] = Log[j]
      BY <1>0, <2>1, <2>3 DEF Grows
    <3> QED BY <1>4, <2>1, <2>3, <3>1
  <2> QED BY <2>1, <2>2, <2>3
<1>5. CASE LogCommand /\ Added(CommandLine(cmdNo + 1))
  <2>1. CommandLine(cmdNo + 1).what = "@"
    BY DEF CommandLine
  <2> QED BY <1>0, <1>4, <1>5, <2>1, CommandLineTyped
<1>6. ASSUME NEW n \in Cmds, LogWrite(n), Added(ThisLine(n))
      PROVE  Behind(Log', i)
  <2>1. ThisLine(n) \in Lines
    BY <1>0, ThisLineTyped
  <2>2. ThisLine(n).cmd = n /\ ThisLine(n).part = part[n]
    BY DEF ThisLine, ReplyLine
  <2>3. pc[n] = "fwrite" /\ tried[n] = part[n] - 1
    BY <1>6 DEF LogWrite, Goto, ControlInv, RepliesCounted
  <2>4. PICK j \in DOMAIN Log : Log[j].cmd = n /\ Log[j].part = tried[n]
    BY <2>3 DEF LinesStand, TriedLogged
  <2> HIDE DEF Behind
  <2> QED BY <1>4, <1>6, <2>1, <2>2, <2>3, <2>4
<1> HIDE DEF Behind
<1> QED BY <1>1, <1>2, <1>3, <1>5, <1>6, LogStep DEF Flushed, Untouched

\* The command is logged before its thread is created.
LEMMA CommandStep ==
  ASSUME ControlInv, CommandLogged, [Next]_vars
  PROVE  CommandLogged'
<1> USE DEF mainVars, cmdVars, replyVars, threadVars, logVars, socketVars
<1>0. TypeOK /\ ProcessRuns
  BY DEF ControlInv
<1>1. CASE LogCommand
  <2> DEFINE l == CommandLine(cmdNo + 1)
  <2>1. l \in Lines
    BY <1>0, <1>1, CommandLineTyped
  <2>2. buf' = Append(buf, l) /\ file' = file /\ cmdNo' = cmdNo + 1
    BY <1>1 DEF LogCommand
  <2>3. Added(l)
    BY <1>0, <2>1, <2>2, LineAdded DEF Added
  <2>4. l.cmd = cmdNo' /\ l.part = 0
    BY <2>2 DEF CommandLine
  <2> HIDE DEF l
  <2> QED BY <1>0, <2>1, <2>3, <2>4, AddedLast DEF CommandLogged
<1>2. CASE Crash \/ InitLogger
  BY <1>2 DEF CommandLogged, Crash, InitLogger
<1>3. CASE /\ ~LogCommand /\ ~Crash /\ ~InitLogger
           /\ mpc' = "serve" /\ cpc' = "create"
  <2>1. mpc = "serve" /\ cpc = "create" /\ cmdNo' = cmdNo
    BY <1>0, <1>3
       DEF ProcessRuns, Next, vars, OpenSocket, Restart, InitLoggerFails,
           StopReading, PrintWelcome, CreateThread, Cancel, ThreadStep, Begin, WorkLock,
           SendFormatted, SendMessage, LogWrite, LogFlush, WriteSocket, Return,
           SleepOver, WorkEnd, Cancelled
  <2>2. PICK j \in DOMAIN Log : Log[j].cmd = cmdNo /\ Log[j].part = 0
    BY <2>1 DEF CommandLogged
  <2>3. Grows(Log, Log')
    BY <1>3, FileGrows
  <2> QED BY <2>1, <2>2, <2>3 DEF CommandLogged, Grows
<1> QED BY <1>1, <1>2, <1>3 DEF CommandLogged

\* What a thread has tried is in the log.
LEMMA TriedStep ==
  ASSUME ControlInv, LinesStand, [Next]_vars
  PROVE  TriedLogged'
<1> USE DEF mainVars, cmdVars, replyVars, threadVars, logVars, socketVars
<1>0. TypeOK /\ ProcessRuns /\ OfCreated /\ RepliesCounted
      /\ CommandLogged /\ TriedLogged /\ LineReached
  BY DEF ControlInv, LinesStand
<1> SUFFICES ASSUME NEW n \in Cmds, pc'[n] # "none"
             PROVE  \E j \in DOMAIN Log' : Log'[j].cmd = n
                                           /\ Log'[j].part = tried'[n]
  BY DEF TriedLogged
<1>1. ~Crash /\ ~InitLogger
  BY <1>0 DEF Crash, NoThreads, InitLogger, ProcessRuns
<1>2. Grows(Log, Log')
  BY <1>1, FileGrows
<1>3. CASE CreateThread /\ n = cmdNo
  <2>1. pc[n] = "none"
    BY <1>0, <1>3, NotCreatedYet
  <2>2. tried'[n] = 0
    BY <1>0, <1>3, <2>1 DEF CreateThread, RepliesCounted
  <2>3. PICK j \in DOMAIN Log : Log[j].cmd = cmdNo /\ Log[j].part = 0
    BY <1>0, <1>3 DEF CommandLogged, CreateThread
  <2> QED BY <1>2, <1>3, <2>2, <2>3 DEF Grows
<1>4. CASE WriteSocket(n)
  <2>1. pc[n] = "write" /\ tried'[n] = part[n]
    BY <1>0, <1>4 DEF WriteSocket, Goto, TypeOK
  <2>2. PICK j \in DOMAIN file : file[j] = ThisLine(n)
    BY <1>0, <2>1 DEF LineReached, Reached
  <2>3. j \in DOMAIN Log /\ Log[j] = ThisLine(n)
    BY <1>0, <2>2, LogTyped DEF Grows
  <2>4. Log[j].cmd = n /\ Log[j].part = part[n]
    BY <2>3 DEF ThisLine, ReplyLine
  <2> QED BY <1>2, <2>1, <2>3, <2>4 DEF Grows
<1>5. CASE pc[n] # "none" /\ tried'[n] = tried[n]
  <2>1. PICK j \in DOMAIN Log : Log[j].cmd = n /\ Log[j].part = tried[n]
    BY <1>0, <1>5 DEF TriedLogged
  <2> QED BY <1>2, <1>5, <2>1 DEF Grows
<1>6. CASE ThreadStep(n) /\ ~WriteSocket(n)
  <2>1. pc[n] # "none" /\ tried' = tried
    BY <1>6
       DEF ThreadStep, Begin, WorkLock, SendFormatted, SendMessage, LogWrite,
           LogFlush, Return, SleepOver, WorkEnd, Cancelled, CancelPoints, Goto
  <2> QED BY <1>5, <2>1
<1>7. CASE Frame(n)
  BY <1>5, <1>7 DEF Frame
<1> QED BY <1>1, <1>3, <1>4, <1>6, <1>7, FrameKept

\* How far the log of a thread between fwrite and write is known grows.
LEMMA ReachedGrows ==
  ASSUME ControlInv, [Next]_vars, ~Crash, ~InitLogger, NEW n \in Cmds,
         pc[n] \in {"fflush", "write"},
         LogFlush(n) \/ Frame(n)
  PROVE  /\ Grows(Reached(n), Reached(n)')
         /\ kind'[n] = kind[n] /\ ThisLine(n)' = ThisLine(n)
<1> USE DEF mainVars, cmdVars, replyVars, threadVars, logVars, socketVars
<1>0. TypeOK
  BY DEF ControlInv
<1>1. Grows(file, file') /\ Grows(Log, Log')
  BY FileGrows
<1>2. CASE LogFlush(n)
  <2>1. /\ pc[n] = "fflush" /\ pc'[n] = "write"
        /\ file' = file \o buf /\ buf' = <<>>
        /\ UNCHANGED <<kind, raw, part>>
    BY <1>0, <1>2 DEF LogFlush, Goto, TypeOK
  <2>2. file' = Log
    BY <2>1 DEF Log
  <2>3. Reached(n) = Log /\ Reached(n)' = Log
    BY <2>1, <2>2 DEF Reached
  <2> QED BY <2>1, <2>3 DEF Grows, ThisLine, Message
<1>3. CASE Frame(n)
  BY <1>1, <1>3 DEF Reached, Frame, ThisLine, Message
<1> QED BY <1>2, <1>3

\* A thread between fwrite and write got there by one of three steps.
LEMMA BetweenStep ==
  ASSUME ControlInv, [Next]_vars, NEW n \in Cmds, pc'[n] \in {"fflush", "write"}
  PROVE  /\ ~Crash /\ ~InitLogger
         /\ \/ LogWrite(n)
            \/ pc[n] \in {"fflush", "write"} /\ (LogFlush(n) \/ Frame(n))
<1> USE DEF mainVars, cmdVars, replyVars, threadVars, logVars, socketVars
<1>0. TypeOK /\ ProcessRuns
  BY DEF ControlInv
<1>1. ~Crash /\ ~InitLogger
  BY <1>0 DEF Crash, NoThreads, InitLogger, ProcessRuns
<1>2. CASE ThreadStep(n)
  BY <1>0, <1>1, <1>2
     DEF ThreadStep, Begin, WorkLock, SendFormatted, SendMessage, LogFlush,
         WriteSocket, Return, SleepOver, WorkEnd, Cancelled, Goto, TypeOK
<1>3. CASE CreateThread /\ n = cmdNo
  BY <1>0, <1>3 DEF CreateThread, TypeOK
<1>4. CASE Frame(n)
  BY <1>1, <1>4 DEF Frame
<1> QED BY <1>1, <1>2, <1>3, <1>4, FrameKept

\* The line a thread is busy with stays in the log.
LEMMA ReachedStep ==
  ASSUME ControlInv, LineReached, [Next]_vars
  PROVE  LineReached'
<1> USE DEF mainVars, cmdVars, replyVars, threadVars, logVars, socketVars
<1>0. TypeOK
  BY DEF ControlInv
<1> SUFFICES ASSUME NEW n \in Cmds, pc'[n] \in {"fflush", "write"}
             PROVE  \E j \in DOMAIN Reached(n)' : Reached(n)'[j] = ThisLine(n)'
  BY DEF LineReached
<1>1. CASE LogWrite(n)
  <2>1. /\ buf' = Append(buf, ThisLine(n)) /\ file' = file
        /\ pc'[n] = "fflush" /\ UNCHANGED <<kind, raw, part>>
    BY <1>0, <1>1 DEF LogWrite, ThisLine, Goto, TypeOK
  <2>2. Added(ThisLine(n))
    BY <1>0, <2>1, ThisLineTyped, LineAdded DEF Added
  <2>3. ThisLine(n)' = ThisLine(n) /\ Reached(n)' = Log'
    BY <2>1 DEF ThisLine, Message, Reached
  <2>4. Len(Log) + 1 \in DOMAIN Log' /\ Log'[Len(Log) + 1] = ThisLine(n)
    BY <1>0, <2>2, ThisLineTyped, AddedLast
  <2> QED BY <2>3, <2>4
<1>2. CASE ~LogWrite(n)
  <2>1. /\ ~Crash /\ ~InitLogger /\ pc[n] \in {"fflush", "write"}
        /\ LogFlush(n) \/ Frame(n)
    BY <1>2, BetweenStep
  <2>2. Grows(Reached(n), Reached(n)') /\ ThisLine(n)' = ThisLine(n)
    BY <2>1, ReachedGrows
  <2>3. PICK j \in DOMAIN Reached(n) : Reached(n)[j] = ThisLine(n)
    BY <2>1 DEF LineReached
  <2> QED BY <2>2, <2>3 DEF Grows
<1> QED BY <1>1, <1>2

\* What a thread may have in the log does not shrink.
LEMMA RepliedGrows ==
  ASSUME ControlInv, [Next]_vars, ~Crash, ~InitLogger, NEW n \in Cmds
  PROVE  Replied(n) \in Nat /\ Replied(n)' \in Nat /\ Replied(n) <= Replied(n)'
<1> USE DEF mainVars, cmdVars, replyVars, threadVars, logVars, socketVars
<1>0. TypeOK /\ OfCreated /\ RepliesCounted
  BY DEF ControlInv
<1>1. part[n] \in 0 .. 2 /\ tried[n] \in 0 .. 2
  BY <1>0 DEF TypeOK
<1>2. Replied(n) \in Nat
  BY <1>1 DEF Replied
<1>3. CASE Frame(n)
  BY <1>2, <1>3 DEF Frame, Replied
<1>4. CASE CreateThread /\ n = cmdNo
  <2>1. pc[n] = "none"
    BY <1>0, <1>4, NotCreatedYet
  <2> QED BY <1>0, <1>1, <1>4, <2>1 DEF CreateThread, Replied, TypeOK
<1>5. CASE LogWrite(n)
  <2>1. /\ pc[n] = "fwrite" /\ pc'[n] = "fflush" /\ tried[n] = part[n] - 1
        /\ UNCHANGED <<part, tried>>
    BY <1>0, <1>5 DEF LogWrite, Goto, TypeOK, RepliesCounted
  <2> QED BY <1>1, <2>1 DEF Replied
<1>6. CASE WriteSocket(n)
  <2>1. pc[n] = "write" /\ pc'[n] = "back" /\ tried'[n] = part[n]
    BY <1>0, <1>6 DEF WriteSocket, Goto, TypeOK
  <2> QED BY <1>1, <2>1 DEF Replied
<1>7. CASE LogFlush(n)
  <2>1. pc[n] = "fflush" /\ pc'[n] = "write" /\ UNCHANGED <<part, tried>>
    BY <1>0, <1>7 DEF LogFlush, Goto, TypeOK
  <2> QED BY <1>1, <2>1 DEF Replied
<1>8. CASE ThreadStep(n) /\ ~LogWrite(n) /\ ~WriteSocket(n) /\ ~LogFlush(n)
  <2>1. /\ pc[n] \notin {"fflush", "write"} /\ pc'[n] \notin {"fflush", "write"}
        /\ tried' = tried
    BY <1>0, <1>8
       DEF ThreadStep, Begin, WorkLock, SendFormatted, SendMessage, Return,
           SleepOver, WorkEnd, Cancelled, CancelPoints, Goto, TypeOK,
           RepliesCounted
  <2> QED BY <1>1, <2>1 DEF Replied
<1> QED BY <1>3, <1>4, <1>5, <1>6, <1>7, <1>8, FrameKept

\* Every line is of a command, in this state and the next.
LEMMA LogCmds == TypeOK => \A i \in DOMAIN Log : Log[i].cmd \in Cmds
<1> SUFFICES ASSUME TypeOK, NEW i \in DOMAIN Log PROVE Log[i].cmd \in Cmds
  OBVIOUS
<1>1. Log[i] \in Lines
  BY LogTyped, ElementOfSeq
<1> QED BY <1>1 DEF Lines

LEMMA LogCmdsNext == TypeOK' => (\A i \in DOMAIN Log : Log[i].cmd \in Cmds)'
BY LogCmds, PTL

\* No reply beyond the one a thread is busy with is in the log.
LEMMA BeyondStep ==
  ASSUME ControlInv, NoneBeyond, [Next]_vars
  PROVE  NoneBeyond'
<1> USE DEF mainVars, cmdVars, replyVars, threadVars, logVars, socketVars
<1>0. TypeOK /\ ProcessRuns /\ RepliesCounted
  BY DEF ControlInv
<1> SUFFICES ASSUME mpc' = "serve"
             PROVE  (\A i \in DOMAIN Log :
                       Log[i].what = "<" => Log[i].part <= Replied(Log[i].cmd))'
  BY DEF NoneBeyond
<1>a. CASE InitLogger
  <2>1. file' = <<>> /\ buf' = <<>>
    BY <1>0, <1>a DEF InitLogger, ProcessRuns
  <2>2. <<>> \in Seq(Lines)
    BY EmptySeq
  <2>3. Log' = <<>>
    BY <2>1, <2>2, ConcatEmptySeq DEF Log
  <2> QED BY <2>3
<1> SUFFICES ASSUME ~InitLogger
             PROVE  (\A i \in DOMAIN Log :
                       Log[i].what = "<" => Log[i].part <= Replied(Log[i].cmd))'
  BY <1>a
<1>1. ~Crash
  BY DEF Crash
<1>2. \A i \in DOMAIN Log : Log[i] \in Lines
  BY <1>0, LogTyped, ElementOfSeq
<1>3. \A l \in Lines : l.cmd \in Cmds /\ l.part \in 0 .. 2
  BY DEF Lines
<1>4. \A i \in DOMAIN Log : Log[i].what = "<" =>
        Log[i].part <= Replied(Log[i].cmd)
  <2>1. mpc = "serve"
    BY DEF Next, vars, OpenSocket, InitLoggerFails, Restart, PrintWelcome,
           LogCommand, CreateThread, StopReading, Cancel, Crash, ThreadStep,
           Begin, WorkLock, SendFormatted, SendMessage, LogWrite, LogFlush,
           WriteSocket, Return, SleepOver, WorkEnd, Cancelled, Goto
  <2> QED BY <2>1 DEF NoneBeyond
<1> DEFINE B == [n \in Cmds |-> Replied(n)]
           C == [n \in Cmds |->
                   IF pc'[n] \in {"fflush", "write"} THEN part'[n] ELSE tried'[n]]
<1>5. \A n \in Cmds : B[n] \in Nat /\ C[n] \in Nat /\ B[n] <= C[n]
  <2> SUFFICES ASSUME NEW n \in Cmds
               PROVE  B[n] \in Nat /\ C[n] \in Nat /\ B[n] <= C[n]
    OBVIOUS
  <2>1. Replied(n) \in Nat /\ Replied(n)' \in Nat /\ Replied(n) <= Replied(n)'
    BY <1>1, RepliedGrows
  <2>2. B[n] = Replied(n) /\ C[n] = Replied(n)'
    BY DEF Replied
  <2> QED BY <2>1, <2>2
<1>6. \A i \in DOMAIN Log : Log[i].what = "<" => Log[i].part <= B[Log[i].cmd]
  BY <1>2, <1>3, <1>4
<1> HIDE DEF B
<1>7. \A i \in DOMAIN Log : Log[i].what = "<" => Log[i].part <= C[Log[i].cmd]
  <2> HIDE DEF C
  <2> SUFFICES ASSUME NEW i \in DOMAIN Log, Log[i].what = "<"
               PROVE  Log[i].part <= C[Log[i].cmd]
    OBVIOUS
  <2>1. Log[i].cmd \in Cmds /\ Log[i].part \in Nat
    BY <1>2, <1>3
  <2> QED BY <1>5, <1>6, <2>1
<1>8. ASSUME NEW l \in Lines, Added(l), l.what = "<" => l.part <= C[l.cmd]
      PROVE  \A i \in DOMAIN Log' :
               Log'[i].what = "<" => Log'[i].part <= C[Log'[i].cmd]
  <2>1. /\ Grows(Log, Log') /\ DOMAIN Log' = (DOMAIN Log) \cup {Len(Log) + 1}
        /\ Log'[Len(Log) + 1] = l
    BY <1>0, <1>8, AddedLast
  <2> HIDE DEF C
  <2> QED BY <1>7, <1>8, <2>1 DEF Grows
<1>9. ASSUME LogCommand, Added(CommandLine(cmdNo + 1))
      PROVE  \A i \in DOMAIN Log' :
               Log'[i].what = "<" => Log'[i].part <= C[Log'[i].cmd]
  <2>1. CommandLine(cmdNo + 1).what = "@"
    BY DEF CommandLine
  <2>2. CommandLine(cmdNo + 1) \in Lines
    BY <1>0, <1>9, CommandLineTyped
  <2> HIDE DEF C
  <2> QED BY <1>8, <1>9, <2>1, <2>2
<1>10. ASSUME NEW n \in Cmds, LogWrite(n), Added(ThisLine(n))
       PROVE  \A i \in DOMAIN Log' :
                Log'[i].what = "<" => Log'[i].part <= C[Log'[i].cmd]
  <2>1. ThisLine(n) \in Lines
    BY <1>0, ThisLineTyped
  <2>2. ThisLine(n).cmd = n /\ ThisLine(n).part = part[n]
    BY DEF ThisLine, ReplyLine
  <2>3. pc'[n] = "fflush" /\ part'[n] = part[n]
    BY <1>0, <1>10 DEF LogWrite, Goto, TypeOK
  <2>4. part[n] \in Nat
    <3>1. part \in [Cmds -> 0 .. 2]
      BY <1>0, Zenon DEF TypeOK
    <3> HIDE DEF C
    <3> QED BY <3>1
  <2>5. C[n] = part[n]
    BY <2>3
  <2> HIDE DEF C
  <2> QED BY <1>8, <1>10, <2>1, <2>2, <2>4, <2>5
<1>11. \A i \in DOMAIN Log' :
         Log'[i].what = "<" => Log'[i].part <= C[Log'[i].cmd]
  <2> HIDE DEF C
  <2> QED BY <1>1, <1>7, <1>9, <1>10, LogStep DEF Flushed, Untouched
<1>12. \A i \in DOMAIN Log' : Log'[i].cmd \in Cmds
  <2>1. TypeOK'
    BY <1>0, TypesStep
  <2>2. (\A i \in DOMAIN Log : Log[i].cmd \in Cmds)'
    BY <2>1, LogCmdsNext
  <2> QED BY <2>2
<1> QED BY <1>11, <1>12 DEF Replied

-----------------------------------------------------------------------------
(* The order of the SOLN messages *)

\* A WORK that writes its line writes it behind those that were sent.
LEMMA BehindStep ==
  ASSUME ControlInv, WrittenIsLogged, WorkBehind, [Next]_vars
  PROVE  WorkBehind'
<1> USE DEF mainVars, cmdVars, replyVars, threadVars, logVars, socketVars
<1>0. TypeOK /\ OfCreated /\ RepliesCounted /\ MutexHeld
  BY DEF ControlInv
<1> DEFINE Order(L, m, n) ==
             \E h, k \in DOMAIN L : h < k /\ IsReply(L[h], m) /\ IsReply(L[k], n)
<1> SUFFICES ASSUME NEW n \in Cmds, kind'[n] = "WORK",
                    pc'[n] \in {"fflush", "write"},
                    NEW i \in DOMAIN wire', kind'[wire'[i].cmd] = "WORK"
             PROVE  Order(Reached(n)', wire'[i].cmd, n)
  BY DEF WorkBehind
<1>1. ~Crash /\ ~InitLogger
  BY BetweenStep
<1>2. kind'[n] = kind[n] /\ pc[n] \in {"fwrite", "fflush", "write"}
  <2>1. CASE LogWrite(n)
    BY <2>1 DEF LogWrite, Goto
  <2>2. CASE ~LogWrite(n)
    BY <1>1, <2>2, BetweenStep, ReachedGrows
  <2> QED BY <2>1, <2>2
<1>3. i \in DOMAIN wire /\ wire'[i] = wire[i]
  <2>1. ASSUME NEW m \in Cmds, NewMessage(i, m)
        PROVE  FALSE
    <3>1. wire'[i].cmd = m /\ WriteSocket(m)
      BY <2>1 DEF NewMessage
    <3>2. pc[m] = "write" /\ pc'[m] = "back" /\ UNCHANGED kind
      BY <1>0, <3>1 DEF WriteSocket, Goto, TypeOK
    <3>3. mutex = m /\ mutex = n
      BY <1>0, <1>2, <3>1, <3>2 DEF MutexHeld
    <3> QED BY <3>2, <3>3
  <2> QED BY <1>1, <2>1, WireAfter
<1>4. wire[i].cmd \in Cmds /\ Created(wire[i].cmd)
  BY <1>0, <1>3, WireCmds DEF OfCreated
<1>5. kind[wire[i].cmd] = "WORK"
  <2>1. kind'[wire[i].cmd] = kind[wire[i].cmd]
    BY <1>1, <1>4, KindKept
  <2> QED BY <1>3, <2>1
<1>6. CASE LogWrite(n)
  <2>1. /\ buf' = Append(buf, ThisLine(n)) /\ file' = file /\ pc'[n] = "fflush"
    BY <1>0, <1>6 DEF LogWrite, ThisLine, Goto, TypeOK
  <2>2. Added(ThisLine(n)) /\ Reached(n)' = Log'
    BY <1>0, <2>1, ThisLineTyped, LineAdded DEF Added, Reached
  <2>3. /\ Grows(Log, Log') /\ DOMAIN Log' = (DOMAIN Log) \cup {Len(Log) + 1}
        /\ Log'[Len(Log) + 1] = ThisLine(n)
    BY <1>0, <2>2, ThisLineTyped, AddedLast
  <2>4. PICK h \in DOMAIN file : file[h] = LogLine(wire[i])
    BY <1>3 DEF WrittenIsLogged
  <2>5. h \in DOMAIN Log /\ Log[h] = LogLine(wire[i]) /\ h < Len(Log) + 1
    BY <1>0, <2>4, LogTyped DEF Grows
  <2>6. h \in DOMAIN Log' /\ Log'[h] = LogLine(wire[i])
    BY <2>3, <2>5 DEF Grows
  <2>7. IsReply(LogLine(wire[i]), wire[i].cmd) /\ IsReply(ThisLine(n), n)
    BY DEF IsReply, LogLine, ThisLine, ReplyLine
  <2>8. Order(Log', wire[i].cmd, n)
    BY <2>3, <2>5, <2>6, <2>7
  <2> QED BY <1>3, <2>2, <2>8
<1>7. CASE ~LogWrite(n)
  <2>1. /\ pc[n] \in {"fflush", "write"}
        /\ Grows(Reached(n), Reached(n)')
    BY <1>1, <1>7, BetweenStep, ReachedGrows
  <2>2. Order(Reached(n), wire[i].cmd, n)
    BY <1>2, <1>3, <1>5, <2>1 DEF WorkBehind
  <2>3. Order(Reached(n)', wire[i].cmd, n)
    BY <2>1, <2>2 DEF Grows
  <2> QED BY <1>3, <2>3
<1> QED BY <1>6, <1>7

\* The file has the SOLN messages in the order of the socket.
LEMMA SolnsStep ==
  ASSUME ControlInv, WorkBehind, SolnsLoggedAsSent, [Next]_vars
  PROVE  SolnsLoggedAsSent'
<1> USE DEF mainVars, cmdVars, replyVars, threadVars, logVars, socketVars
<1>0. TypeOK /\ OfCreated
  BY DEF ControlInv
<1> DEFINE Order(L, m, n) ==
             \E h, k \in DOMAIN L : h < k /\ IsReply(L[h], m) /\ IsReply(L[k], n)
<1>1. CASE InitLogger
  <2>1. wire' = <<>>
    BY <1>1 DEF InitLogger
  <2> QED BY <2>1 DEF SolnsLoggedAsSent
<1>2. CASE ~InitLogger
  <2> SUFFICES ASSUME NEW i \in DOMAIN wire', NEW j \in DOMAIN wire', i < j,
                      kind'[wire'[i].cmd] = "WORK", kind'[wire'[j].cmd] = "WORK"
               PROVE  Order(file', wire'[i].cmd, wire'[j].cmd)
    BY DEF SolnsLoggedAsSent
  <2>0. Grows(file, file')
    BY <1>2, FileGrows
  <2>1. \A k \in DOMAIN wire : wire[k].cmd \in Cmds /\ Created(wire[k].cmd)
    BY <1>0, WireCmds DEF OfCreated
  <2>2. \A k \in DOMAIN wire : kind'[wire[k].cmd] = kind[wire[k].cmd]
    BY <1>2, <2>1, KindKept
  <2>3. CASE j \in DOMAIN wire /\ wire'[j] = wire[j]
    <3>1. i \in DOMAIN wire /\ wire'[i] = wire[i]
      <4>1. ASSUME NEW m \in Cmds, NewMessage(i, m),
                   DOMAIN wire = 1 .. Len(wire), Len(wire) \in Nat
            PROVE  FALSE
        BY <2>3, <4>1 DEF NewMessage
      <4> QED BY <1>2, <4>1, WireAfter
    <3>2. Order(file, wire[i].cmd, wire[j].cmd)
      BY <2>2, <2>3, <3>1 DEF SolnsLoggedAsSent
    <3>3. Order(file', wire[i].cmd, wire[j].cmd)
      BY <2>0, <3>2 DEF Grows
    <3> QED BY <2>3, <3>1, <3>3
  <2>4. ASSUME NEW n \in Cmds, NewMessage(j, n),
               DOMAIN wire = 1 .. Len(wire), Len(wire) \in Nat
        PROVE  Order(file', wire'[i].cmd, wire'[j].cmd)
    <3>1. /\ wire'[j].cmd = n /\ WriteSocket(n) /\ j = Len(wire) + 1
      BY <2>4 DEF NewMessage
    <3>2. pc[n] = "write" /\ UNCHANGED kind
      BY <3>1 DEF WriteSocket, Goto
    <3>3. i \in DOMAIN wire /\ wire'[i] = wire[i]
      <4>1. ASSUME NEW m \in Cmds, NewMessage(i, m)
            PROVE  FALSE
        BY <2>4, <3>1, <4>1 DEF NewMessage
      <4> QED BY <1>2, <4>1, WireAfter
    <3>4. Order(file, wire[i].cmd, n)
      BY <3>1, <3>2, <3>3 DEF WorkBehind, Reached
    <3>5. Order(file', wire[i].cmd, n)
      BY <2>0, <3>4 DEF Grows
    <3> QED BY <3>1, <3>3, <3>5
  <2> QED BY <1>2, <2>3, <2>4, WireAfter
<1> QED BY <1>1, <1>2

-----------------------------------------------------------------------------
(* The theorems *)

\* ReplyInv holds however the threads, the banner, cancellations and the end of
\* the process interleave.
THEOREM ReplyKept == Spec => [](TypeOK /\ ReplyInv)
<1>1. Init => TypeOK /\ ReplyInv
  <2> SUFFICES ASSUME Init PROVE TypeOK /\ ReplyInv
    OBVIOUS
  <2>0. /\ <<>> \in Seq(Lines)
        /\ <<>> \in Seq([cmd : Cmds, part : 1 .. 2, bytes : Seq(Chars)])
        /\ <<>> \o <<>> = <<>>
    BY EmptySeq, ConcatEmptySeq
  <2>1. /\ raw \in [Cmds -> BOOLEAN] /\ off \in [Cmds -> BOOLEAN]
        /\ canc \in [Cmds -> BOOLEAN] /\ kind \in [Cmds -> Kinds \cup {"PING"}]
        /\ part \in [Cmds -> 0 .. 2] /\ tried \in [Cmds -> 0 .. 2]
        /\ pc \in [Cmds -> {"none", "start", "fmt", "msg", "back", "exited",
                            "dead"} \cup CancelPoints]
    BY DEF Init
  <2>2. TypeOK
    <3>1. /\ mpc = "socket" /\ banner = FALSE /\ cpc = "read" /\ mutex = 0
          /\ buf = <<>> /\ file = <<>> /\ wire = <<>> /\ stalled = FALSE
          /\ cmdNo \in 0 .. MaxCmds
      BY ReplyAssumption DEF Init
    <3> QED BY <2>0, <2>1, <3>1 DEF TypeOK
  <2>3. Log = <<>> /\ file = <<>> /\ wire = <<>>
    BY <2>0 DEF Log, Init
  <2>4. ProcessRuns /\ OfCreated /\ RepliesCounted
    BY <2>3 DEF Init, ProcessRuns, OfCreated, RepliesCounted
  <2>5. MutexHeld
    BY DEF Init, MutexHeld, Cmds
  <2>6. LinesStand
    BY <2>3
       DEF Init, LinesStand, CommandLogged, TriedLogged, LineReached, NoneBeyond
  <2>7. WrittenIsLogged /\ LogInOrder /\ WorkBehind /\ SolnsLoggedAsSent
    BY <2>3 DEF WrittenIsLogged, LogInOrder, WorkBehind, SolnsLoggedAsSent
  <2> QED BY <2>2, <2>4, <2>5, <2>6, <2>7 DEF ReplyInv
<1>2. TypeOK /\ ReplyInv /\ [Next]_vars => (TypeOK /\ ReplyInv)'
  <2> SUFFICES ASSUME TypeOK, ReplyInv, [Next]_vars
               PROVE  (TypeOK /\ ReplyInv)'
    OBVIOUS
  <2>1. /\ ControlInv /\ LinesStand /\ CommandLogged /\ LineReached /\ NoneBeyond
        /\ WrittenIsLogged /\ LogInOrder /\ WorkBehind /\ SolnsLoggedAsSent
    BY DEF ReplyInv, ControlInv, LinesStand
  <2>2. ControlInv'
    BY <2>1, ControlStep
  <2>3. LinesStand'
    BY <2>1, CommandStep, TriedStep, ReachedStep, BeyondStep DEF LinesStand
  <2>4. WrittenIsLogged' /\ LogInOrder' /\ WorkBehind' /\ SolnsLoggedAsSent'
    BY <2>1, LoggedStep, OrderStep, BehindStep, SolnsStep
  <2> QED BY <2>2, <2>3, <2>4 DEF ControlInv, ReplyInv
<1> QED BY <1>1, <1>2, PTL DEF Spec

\* The type invariant, the lines of the log and the messages included.
THEOREM ReplyTypes == Spec => []TypeOK
BY ReplyKept, PTL

\* What the client has received is in log.txt, whenever the process ends.
THEOREM ReceivedIsLogged == Spec => []WrittenIsLogged
<1>1. ReplyInv => WrittenIsLogged
  BY DEF ReplyInv
<1> QED BY <1>1, ReplyKept, PTL

\* A reply stands behind its command in the log, and behind the reply before it.
THEOREM LogOrdered == Spec => []LogInOrder
<1>1. ReplyInv => LogInOrder
  BY DEF ReplyInv
<1> QED BY <1>1, ReplyKept, PTL

\* A cancelled thread leaves no reply half done and no mutex locked.
THEOREM DeathBetween == Spec => []DiesBetweenReplies
<1>1. TypeOK /\ ReplyInv => DiesBetweenReplies
  <2> SUFFICES ASSUME TypeOK, ReplyInv, NEW n \in Cmds, pc[n] = "dead"
               PROVE  /\ mutex # n
                      /\ \A i \in DOMAIN Log :
                           IsReply(Log[i], n) => Log[i].part <= tried[n]
    BY DEF DiesBetweenReplies
  <2>1. mutex # n
    BY DEF ReplyInv, MutexHeld
  <2>2. mpc = "serve"
    BY DEF ReplyInv, ProcessRuns
  <2>3. Replied(n) = tried[n]
    BY DEF Replied
  <2> QED BY <2>1, <2>2, <2>3 DEF ReplyInv, LinesStand, NoneBeyond, IsReply
<1> QED BY <1>1, ReplyKept, PTL

\* The SOLN messages of WORKs are logged in the order they were sent.
THEOREM SolnsOrdered == Spec => []SolnsLoggedAsSent
<1>1. ReplyInv => SolnsLoggedAsSent
  BY DEF ReplyInv
<1> QED BY <1>1, ReplyKept, PTL

-----------------------------------------------------------------------------
(* The text of a reply *)

\* A handler's text is shorter than the line; WORK and PING have none.
LEMMA TextFits ==
  ASSUME NEW k \in Kinds \cup {"PING"}, k \notin {"PING", "WORK"}, NEW p
  PROVE  TextLen(k, p) \in 0 .. 38
<1>1. k \in {"PONG", "OKAY", "ERRO", "UNKN", "CUST", "SOLN", "SLEP"}
  BY ReplyAssumption
<1> QED BY <1>1 DEF TextLen

\* As many bytes of the message are text as the text has.
LEMMA TextCounted ==
  ASSUME NEW len \in 0 .. 38
  PROVE  LET f == Formatted(len)
         IN Cardinality({j \in DOMAIN f : f[j] = "text"}) = len
<1> DEFINE f == Formatted(len)
<1>1. DOMAIN f = 1 .. 45
  BY DEF Formatted
<1>2. \A j \in 1 .. 45 : f[j] = "text" <=> j \in 6 .. len + 5
  <2> SUFFICES ASSUME NEW j \in 1 .. 45
               PROVE  f[j] = "text" <=> j \in 6 .. len + 5
    OBVIOUS
  <2>1. CASE j \in 44 .. 45
    <3>1. f[j] = LineEnd[j - 43] /\ j - 43 \in {1, 2}
      BY <2>1 DEF Formatted
    <3> QED BY <2>1, <3>1, LineEndBytes
  <2>2. CASE j \notin 44 .. 45
    BY <2>2 DEF Formatted
  <2> QED BY <2>1, <2>2
<1> HIDE DEF f
<1>3. {j \in DOMAIN f : f[j] = "text"} = 6 .. len + 5
  BY <1>1, <1>2
<1>4. Cardinality(6 .. len + 5) = len
  <2>1. 6 \in Int /\ len + 5 \in Int
    OBVIOUS
  <2>2. Cardinality(6 .. len + 5) = IF 6 > len + 5 THEN 0 ELSE (len + 5) - 6 + 1
    BY <2>1, FS_Interval
  <2> QED BY <2>2
<1> QED BY <1>3, <1>4 DEF f

\* What ReasonWhole says of one message, and of a message as it is made.
Whole(m, k) ==
  /\ SubSeq(m.bytes, Len(m.bytes) - 1, Len(m.bytes)) = LineEnd
  /\ m.bytes # Raw =>
       Cardinality({j \in DOMAIN m.bytes : m.bytes[j] = "text"})
         = TextLen(k, m.part)

LEMMA MessageWhole ==
  ASSUME TypeOK, RepliesCounted, NEW n \in Cmds
  PROVE  Whole([cmd |-> n, part |-> part[n], bytes |-> Message(n)], kind[n])
<1> DEFINE b == Message(n)
           e == SubSeq(b, Len(b) - 1, Len(b))
<1>1. /\ b \in Seq(Chars) /\ Len(b) \in Nat /\ Len(b) >= 3
      /\ b[Len(b) - 1] = "\r" /\ b[Len(b)] = "\n"
  BY MessageBytes
<1> HIDE DEF b
<1>2. SubSeq(b, Len(b) - 1, Len(b)) = LineEnd
  <2>1. /\ Len(b) - 1 \in Int /\ Len(b) \in Int
        /\ \A j \in Len(b) - 1 .. Len(b) : b[j] \in Chars
    BY <1>1, ElementOfSeq
  <2>2. e \in Seq(Chars) /\ Len(e) = IF Len(b) - 1 <= Len(b)
                                     THEN Len(b) - (Len(b) - 1) + 1 ELSE 0
    BY <2>1, SubSeqProperties
  <2>3. \A j \in 1 .. Len(b) - (Len(b) - 1) + 1 : e[j] = b[(Len(b) - 1) + j - 1]
    BY <2>1, SubSeqProperties
  <2> HIDE DEF e
  <2>4. /\ Len(e) = 2 /\ 1 \in 1 .. Len(b) - (Len(b) - 1) + 1
        /\ 2 \in 1 .. Len(b) - (Len(b) - 1) + 1
        /\ (Len(b) - 1) + 1 - 1 = Len(b) - 1 /\ (Len(b) - 1) + 2 - 1 = Len(b)
    BY <1>1, <2>2
  <2>5. e[1] = "\r" /\ e[2] = "\n"
    BY <1>1, <2>3, <2>4
  <2>6. \A j \in 1 .. Len(e) : e[j] = LineEnd[j]
    BY <2>4, <2>5, LineEndBytes
  <2>7. e = LineEnd
    BY <2>2, <2>4, <2>6, LineEndBytes, SeqEqual
  <2> QED BY <2>7 DEF e
<1>3. b # Raw =>
        Cardinality({j \in DOMAIN b : b[j] = "text"}) = TextLen(kind[n], part[n])
  <2> SUFFICES ASSUME b # Raw
               PROVE  Cardinality({j \in DOMAIN b : b[j] = "text"})
                        = TextLen(kind[n], part[n])
    OBVIOUS
  <2>1. ~raw[n] /\ b = Formatted(TextLen(kind[n], part[n]))
    BY DEF b, Message
  <2>2. kind[n] \in Kinds \cup {"PING"} /\ kind[n] \notin {"PING", "WORK"}
    BY <2>1 DEF TypeOK, RepliesCounted
  <2>3. TextLen(kind[n], part[n]) \in 0 .. 38
    BY <2>2, TextFits
  <2> QED BY <2>1, <2>3, TextCounted
<1> QED BY <1>2, <1>3 DEF Whole, b

\* Every text of the server's reaches the client whole, in a line that ends.
THEOREM ReasonsWhole == Spec => []ReasonWhole
<1>1. Init => ReasonWhole
  BY DEF Init, ReasonWhole
<1>2. TypeOK /\ ReplyInv /\ ReasonWhole /\ [Next]_vars => ReasonWhole'
  <2> SUFFICES ASSUME TypeOK, ReplyInv, ReasonWhole, [Next]_vars
               PROVE  ReasonWhole'
    OBVIOUS
  <2>0. ControlInv /\ OfCreated /\ RepliesCounted
    BY DEF ReplyInv, ControlInv
  <2>1. CASE InitLogger
    <3>1. wire' = <<>>
      BY <2>1 DEF InitLogger
    <3> QED BY <3>1 DEF ReasonWhole
  <2>2. CASE ~InitLogger
    <3> SUFFICES ASSUME NEW i \in DOMAIN wire'
                 PROVE  Whole(wire'[i], kind'[wire'[i].cmd])
      BY DEF ReasonWhole, Whole
    <3>1. CASE i \in DOMAIN wire /\ wire'[i] = wire[i]
      <4>1. wire[i].cmd \in Cmds /\ Created(wire[i].cmd)
        BY <2>0, <3>1, WireCmds DEF OfCreated
      <4>2. kind'[wire[i].cmd] = kind[wire[i].cmd]
        BY <2>0, <2>2, <4>1, KindKept
      <4>3. Whole(wire[i], kind[wire[i].cmd])
        BY <3>1 DEF ReasonWhole, Whole
      <4> QED BY <3>1, <4>2, <4>3
    <3>2. ASSUME NEW n \in Cmds, NewMessage(i, n)
          PROVE  Whole(wire'[i], kind'[wire'[i].cmd])
      <4> DEFINE m == [cmd |-> n, part |-> part[n], bytes |-> Message(n)]
      <4>1. wire'[i] = m /\ m.cmd = n /\ kind' = kind
        BY <3>2 DEF NewMessage, WriteSocket, cmdVars
      <4>2. Whole(m, kind[n])
        BY <2>0, MessageWhole
      <4> HIDE DEF m
      <4> QED BY <4>1, <4>2
    <3> QED BY <2>0, <2>2, <3>1, <3>2, WireAfter
  <2> QED BY <2>1, <2>2
<1> QED BY <1>1, <1>2, ReplyKept, PTL DEF Spec
=============================================================================
