---------------------------- MODULE BufferProofs ----------------------------
(***************************************************************************)
(* The receive buffer for every BUFFER_LEN, every first size of the memory *)
(* and every stream: only received bytes are in use, they fit, and the     *)
(* commands taken are the lines of the stream (the safety of               *)
(* CommandStream).                                                         *)
(***************************************************************************)
EXTENDS CommandBuffer, SequenceTheorems, WellFoundedInduction, TLAPS

-----------------------------------------------------------------------------
(* strlen *)

\* A set of natural numbers has a least one.
LEMMA LeastNumber ==
  ASSUME NEW T \in SUBSET Nat, T # {}
  PROVE  \E x \in T : \A y \in T : x <= y
<1> DEFINE R == OpToRel(<, Nat)
<1>1. IsWellFoundedOn(R, Nat)
  BY NatLessThanWellFounded
<1>2. \A x, y \in Nat : x < y => <<x, y>> \in R
  BY DEF OpToRel
<1> HIDE DEF R
<1>3. PICK x \in T : \A y \in T : ~(<<y, x>> \in R)
  BY <1>1, WFMin
<1>4. \A y \in T : ~(y < x)
  BY <1>2, <1>3
<1> QED BY <1>4

\* strlen stops at the first NUL of the chunk, or behind the chunk.
LEMMA StrLenFirstNul ==
  ASSUME NEW s \in Seq(Bytes)
  PROVE  /\ StrLen(s) \in 0 .. Len(s)
         /\ \A j \in 1 .. StrLen(s) : s[j] # "NUL"
         /\ StrLen(s) < Len(s) => s[StrLen(s) + 1] = "NUL"
<1> DEFINE First(k) == s[k] = "NUL" /\ \A j \in 1 .. k - 1 : s[j] # "NUL"
<1>0. Len(s) \in Nat
  BY LenProperties
<1>1. CASE \E k \in 1 .. Len(s) : s[k] = "NUL"
  <2> DEFINE T == {k \in 1 .. Len(s) : s[k] = "NUL"}
  <2>1. T \in SUBSET Nat /\ T # {}
    BY <1>0, <1>1
  <2>2. PICK x \in T : \A y \in T : x <= y
    BY <2>1, LeastNumber
  <2>3. x \in 1 .. Len(s) /\ First(x)
    BY <1>0, <2>2
  <2> DEFINE c == CHOOSE k \in 1 .. Len(s) : First(k)
  <2>4. c \in 1 .. Len(s) /\ First(c)
    BY <2>3
  <2>5. StrLen(s) = c - 1
    BY <1>1 DEF StrLen
  <2> HIDE DEF c
  <2> QED BY <1>0, <2>4, <2>5
<1>2. CASE ~\E k \in 1 .. Len(s) : s[k] = "NUL"
  <2>1. StrLen(s) = Len(s)
    BY <1>2 DEF StrLen
  <2> QED BY <1>0, <1>2, <2>1
<1> QED BY <1>1, <1>2

-----------------------------------------------------------------------------
(* The stream seen through the memory, the chunk and the network *)

\* A first part of u bytes of s, a chunk b and what follows it, t.
Joined(s, u, b, t) == SubSeq(s, 1, u) \o b \o t

\* Its bytes, one by one.
LEMMA JoinedBytes ==
  ASSUME NEW S, NEW s \in Seq(S), NEW u \in 0 .. Len(s), NEW b \in Seq(S),
         NEW t \in Seq(S)
  PROVE  /\ Joined(s, u, b, t) \in Seq(S)
         /\ Len(Joined(s, u, b, t)) = u + Len(b) + Len(t)
         /\ \A j \in 1 .. u : Joined(s, u, b, t)[j] = s[j]
         /\ \A j \in 1 .. Len(b) : Joined(s, u, b, t)[u + j] = b[j]
         /\ \A j \in 1 .. Len(t) : Joined(s, u, b, t)[u + Len(b) + j] = t[j]
<1>0. Len(s) \in Nat /\ Len(b) \in Nat /\ Len(t) \in Nat /\ u \in Nat
      /\ u \in Int /\ 1 \in Int
  BY LenProperties
<1> DEFINE f == SubSeq(s, 1, u)
           fb == f \o b
<1>1. f \in Seq(S) /\ Len(f) = u /\ \A j \in 1 .. u : f[j] = s[j]
  <2>1. \A j \in 1 .. u : s[j] \in S
    BY <1>0, LenProperties, ElementOfSeq
  <2>2. /\ f \in Seq(S) /\ Len(f) = (IF 1 <= u THEN u - 1 + 1 ELSE 0)
        /\ \A j \in 1 .. u - 1 + 1 : f[j] = s[1 + j - 1]
    BY <1>0, <2>1, SubSeqProperties
  <2> HIDE DEF f
  <2> QED BY <1>0, <2>2
<1> HIDE DEF f
<1>2. /\ fb \in Seq(S) /\ Len(fb) = u + Len(b)
      /\ \A j \in 1 .. u + Len(b) : fb[j] = IF j <= u THEN f[j] ELSE b[j - u]
  <2>1. /\ fb \in Seq(S) /\ Len(fb) = Len(f) + Len(b)
        /\ \A j \in 1 .. Len(f) + Len(b) :
             fb[j] = IF j <= Len(f) THEN f[j] ELSE b[j - Len(f)]
    BY <1>1, ConcatProperties
  <2> HIDE DEF fb
  <2> QED BY <1>1, <2>1
<1> HIDE DEF fb
<1>3. /\ fb \o t \in Seq(S) /\ Len(fb \o t) = u + Len(b) + Len(t)
      /\ \A j \in 1 .. u + Len(b) + Len(t) :
           (fb \o t)[j] = IF j <= u + Len(b) THEN fb[j] ELSE t[j - (u + Len(b))]
  <2>1. /\ fb \o t \in Seq(S) /\ Len(fb \o t) = Len(fb) + Len(t)
        /\ \A j \in 1 .. Len(fb) + Len(t) :
             (fb \o t)[j] = IF j <= Len(fb) THEN fb[j] ELSE t[j - Len(fb)]
    BY <1>2, ConcatProperties
  <2> QED BY <1>2, <2>1
<1>4. Joined(s, u, b, t) = fb \o t
  BY DEF Joined, fb, f
<1>5. \A j \in 1 .. u : (fb \o t)[j] = s[j]
  BY <1>0, <1>1, <1>2, <1>3
<1>6. \A j \in 1 .. Len(b) : (fb \o t)[u + j] = b[j]
  BY <1>0, <1>2, <1>3
<1>7. ASSUME NEW j \in 1 .. Len(t)
      PROVE  (fb \o t)[u + Len(b) + j] = t[j]
  <2>1. /\ u + Len(b) + j \in 1 .. u + Len(b) + Len(t)
        /\ ~(u + Len(b) + j <= u + Len(b))
        /\ (u + Len(b) + j) - (u + Len(b)) = j
    BY <1>0
  <2> QED BY <1>3, <2>1
<1> QED BY <1>3, <1>4, <1>5, <1>6, <1>7

-----------------------------------------------------------------------------
(* The types, and what is in use *)

\* A function on the first m numbers is a sequence.
LEMMA FunctionIsSeq ==
  ASSUME NEW S, NEW m \in Nat, NEW f \in [1 .. m -> S]
  PROVE  f \in Seq(S) /\ Len(f) = m
<1>1. f \in Seq(S) /\ DOMAIN f = 1 .. m
  BY SeqDef
<1>2. Len(f) \in Nat /\ DOMAIN f = 1 .. Len(f)
  BY <1>1, LenProperties
<1> QED BY <1>1, <1>2

\* A part of a sequence is one.
LEMMA PartOfSeq ==
  ASSUME NEW S, NEW s \in Seq(S), NEW k \in Nat, NEW m \in Nat, m <= Len(s),
         k >= 1, k <= m + 1
  PROVE  /\ SubSeq(s, k, m) \in Seq(S)
         /\ Len(SubSeq(s, k, m)) = m - k + 1
         /\ \A j \in 1 .. m - k + 1 : SubSeq(s, k, m)[j] = s[k + j - 1]
<1>1. Len(s) \in Nat
  BY LenProperties
<1>2. \A j \in k .. m : s[j] \in S
  BY <1>1, ElementOfSeq
<1>3. /\ SubSeq(s, k, m) \in Seq(S)
      /\ Len(SubSeq(s, k, m)) = IF k <= m THEN m - k + 1 ELSE 0
      /\ \A j \in 1 .. m - k + 1 : SubSeq(s, k, m)[j] = s[k + j - 1]
  <2>1. k \in Int /\ m \in Int
    OBVIOUS
  <2> QED BY <1>2, <2>1, SubSeqProperties
<1> QED BY <1>3

Memory == Bytes \cup {"JUNK"}

\* The lengths, and the bytes of the memory.
LEMMA MemoryBytes ==
  ASSUME TypeOK, UsedReceived
  PROVE  /\ Len(net) \in Nat /\ Len(buffer) \in Nat /\ str_len \in Nat
         /\ used_len \in Nat /\ used_len < str_len
         /\ \A j \in 1 .. str_len : str[j] \in Memory
         /\ \A j \in 1 .. used_len : str[j] \in Bytes
         /\ StrLen(buffer) \in 0 .. Len(buffer)
<1>1. /\ net \in Seq(Bytes) /\ buffer \in Seq(Bytes) /\ str \in Seq(Memory)
      /\ used_len \in Nat /\ str_len \in Nat
      /\ Len(str) = str_len /\ used_len < str_len
      /\ \A j \in 1 .. used_len : str[j] \in Bytes
  BY DEF TypeOK, UsedReceived, Memory
<1>2. Len(net) \in Nat /\ Len(buffer) \in Nat
  BY <1>1, LenProperties
<1>3. \A j \in 1 .. str_len : str[j] \in Memory
  BY <1>1, ElementOfSeq
<1>4. StrLen(buffer) \in 0 .. Len(buffer)
  BY <1>1, StrLenFirstNul
<1> QED BY <1>1, <1>2, <1>3, <1>4

\* read takes a first part of what has arrived.
LEMMA ReadTypes ==
  ASSUME TypeOK, UsedReceived, Read
  PROVE  TypeOK' /\ UsedReceived'
<1>1. PICK k \in 1 .. BUFFER_LEN - 1 : /\ k <= Len(net)
                                       /\ buffer' = SubSeq(net, 1, k)
                                       /\ net' = SubSeq(net, k + 1, Len(net))
  BY DEF Read
<1>2. k \in Nat /\ k >= 1 /\ k + 1 \in Nat /\ k + 1 <= Len(net) + 1
  BY <1>1, MemoryBytes, BufferAssumption
<1>3. net \in Seq(Bytes) /\ Len(net) \in Nat
  BY MemoryBytes DEF TypeOK
<1>4. SubSeq(net, 1, k) \in Seq(Bytes) /\ SubSeq(net, k + 1, Len(net)) \in Seq(Bytes)
  <2>1. 1 <= k + 1 /\ 1 >= 1 /\ k + 1 >= 1 /\ Len(net) <= Len(net) /\ 1 \in Nat
    BY <1>2, <1>3
  <2> QED BY <1>1, <1>2, <1>3, <2>1, PartOfSeq
<1> QED BY <1>1, <1>4 DEF Read, TypeOK, UsedReceived

\* realloc keeps what is in use.
LEMMA EnlargeTypes ==
  ASSUME TypeOK, UsedReceived, Enlarge
  PROVE  TypeOK' /\ UsedReceived'
<1>1. /\ str_len' = 2 * str_len /\ UNCHANGED <<net, pc, buffer, used_len, cmds>>
      /\ str' = [j \in 1 .. 2 * str_len |->
                   IF j <= str_len THEN str[j] ELSE "JUNK"]
  BY DEF Enlarge
<1>2. str_len' \in Nat /\ used_len < str_len'
  BY <1>1, MemoryBytes
<1>3. str' \in [1 .. str_len' -> Memory]
  BY <1>1, MemoryBytes DEF Memory
<1>4. str' \in Seq(Memory) /\ Len(str') = str_len'
  BY <1>2, <1>3, FunctionIsSeq
<1>5. \A j \in 1 .. used_len : str'[j] = str[j]
  BY <1>1, MemoryBytes
<1>6. TypeOK'
  BY <1>1, <1>2, <1>4 DEF TypeOK, Memory
<1>7. UsedReceived'
  BY <1>1, <1>2, <1>4, <1>5 DEF UsedReceived
<1> QED BY <1>6, <1>7

\* The bytes behind those in use become those of the chunk, up to its first NUL.
LEMMA JoinTypes ==
  ASSUME TypeOK, UsedReceived, JoinClientCommand
  PROVE  /\ TypeOK' /\ UsedReceived'
         /\ \A j \in 1 .. used_len : str'[j] = str[j]
         /\ \A j \in 1 .. StrLen(buffer) : str'[used_len + j] = buffer[j]
<1> DEFINE k == StrLen(buffer)
<1>0. /\ str_len >= used_len + k + 1 /\ used_len' = used_len + k
      /\ UNCHANGED <<net, str_len, cmds>> /\ buffer' = <<>> /\ pc' = "get"
      /\ str' = [j \in 1 .. str_len |->
                   IF j \in used_len + 1 .. used_len + k
                   THEN buffer[j - used_len] ELSE str[j]]
  BY DEF JoinClientCommand, Needed
<1>1. /\ k \in Nat /\ k <= Len(buffer) /\ Len(buffer) \in Nat
      /\ used_len \in Nat /\ str_len \in Nat
  BY MemoryBytes
<1>2. \A j \in 1 .. k : buffer[j] \in Bytes \ {"NUL"}
  <2>1. buffer \in Seq(Bytes)
    BY DEF TypeOK
  <2>2. \A j \in 1 .. k : buffer[j] # "NUL"
    BY <2>1, StrLenFirstNul
  <2>3. \A j \in 1 .. Len(buffer) : buffer[j] \in Bytes
    BY <2>1, ElementOfSeq
  <2> HIDE DEF k
  <2> QED BY <1>1, <2>2, <2>3
<1> HIDE DEF k
<1>3. \A j \in 1 .. used_len : str'[j] = str[j]
  BY <1>0, <1>1
<1>4. \A j \in 1 .. k : str'[used_len + j] = buffer[j]
  <2> SUFFICES ASSUME NEW j \in 1 .. k PROVE str'[used_len + j] = buffer[j]
    OBVIOUS
  <2>1. /\ used_len + j \in 1 .. str_len /\ (used_len + j) - used_len = j
        /\ used_len + j \in used_len + 1 .. used_len + k
    BY <1>0, <1>1
  <2> QED BY <1>0, <2>1
<1>5. \A j \in 1 .. used_len + k : str'[j] \in Bytes \ {"NUL"}
  <2> SUFFICES ASSUME NEW j \in 1 .. used_len + k
               PROVE  str'[j] \in Bytes \ {"NUL"}
    OBVIOUS
  <2>1. CASE j <= used_len
    BY <1>1, <1>3, <2>1 DEF UsedReceived
  <2>2. CASE j > used_len
    <3>1. j - used_len \in 1 .. k /\ used_len + (j - used_len) = j
      BY <1>1, <2>2
    <3> QED BY <1>2, <1>4, <3>1
  <2> QED BY <1>1, <2>1, <2>2
<1>6. str' \in [1 .. str_len -> Memory]
  <2>1. \A j \in used_len + 1 .. used_len + k : buffer[j - used_len] \in Memory
    <3> SUFFICES ASSUME NEW j \in used_len + 1 .. used_len + k
                 PROVE  buffer[j - used_len] \in Memory
      OBVIOUS
    <3>1. j - used_len \in 1 .. k
      BY <1>1
    <3> QED BY <1>2, <3>1 DEF Memory
  <2>2. \A j \in 1 .. str_len : str[j] \in Memory
    BY MemoryBytes
  <2> QED BY <1>0, <2>1, <2>2
<1>7. str' \in Seq(Memory) /\ Len(str') = str_len
  BY <1>1, <1>6, FunctionIsSeq
<1>8. TypeOK'
  <2>1. <<>> \in Seq(Bytes)
    BY EmptySeq
  <2> QED BY <1>0, <1>1, <1>7, <2>1 DEF TypeOK, Memory
<1>9. UsedReceived'
  <2>1. used_len' < str_len' /\ str_len' = str_len
    BY <1>0, <1>1
  <2> QED BY <1>0, <1>5, <1>7, <2>1 DEF UsedReceived
<1> QED BY <1>3, <1>4, <1>8, <1>9 DEF k

\* get_command moves what is behind the first line end to the front.
LEMMA GetTypes ==
  ASSUME TypeOK, UsedReceived, NEW m \in 1 .. used_len, LineEndAt(m),
         cmds' = Append(cmds, SubSeq(str, 1, m - 1)),
         str' = [j \in 1 .. str_len |->
            IF j <= str_len - (m + 1) THEN str[j + m + 1] ELSE "JUNK"],
         used_len' = used_len - (m + 1),
         UNCHANGED <<net, pc, buffer, str_len>>
  PROVE  /\ TypeOK' /\ UsedReceived'
         /\ m <= used_len - 1
         /\ \A j \in 1 .. used_len' : str'[j] = str[j + m + 1]
<1>1. /\ m \in Nat /\ m <= used_len - 1 /\ used_len' \in Nat
      /\ used_len \in Nat /\ str_len \in Nat /\ used_len < str_len
  BY MemoryBytes DEF LineEndAt
<1>2. \A j \in 1 .. used_len' : str'[j] = str[j + m + 1]
                                /\ j + m + 1 \in 1 .. used_len
  BY <1>1
<1>3. str' \in [1 .. str_len -> Memory]
  <2>1. \A j \in 1 .. str_len : j <= str_len - (m + 1) =>
          j + m + 1 \in 1 .. str_len
    BY <1>1
  <2>2. \A j \in 1 .. str_len : str[j] \in Memory
    BY MemoryBytes
  <2> QED BY <2>1, <2>2 DEF Memory
<1>4. str' \in Seq(Memory) /\ Len(str') = str_len
  BY <1>1, <1>3, FunctionIsSeq
<1>5. SubSeq(str, 1, m - 1) \in Seq(Bytes)
  <2>1. \A j \in 1 .. m - 1 : str[j] \in Bytes
    BY <1>1, MemoryBytes
  <2>2. 1 \in Int /\ m - 1 \in Int
    BY <1>1
  <2> QED BY <2>1, <2>2, SubSeqProperties
<1>6. cmds' \in Seq(Seq(Bytes))
  <2>1. cmds \in Seq(Seq(Bytes))
    BY DEF TypeOK
  <2> QED BY <1>5, <2>1, AppendProperties
<1>7. TypeOK'
  BY <1>1, <1>4, <1>6 DEF TypeOK, Memory
<1>8. UsedReceived'
  BY <1>1, <1>2, <1>4 DEF UsedReceived
<1> QED BY <1>1, <1>2, <1>7, <1>8

\* client_handler reads only when no command is buffered, and joins each chunk
\* before it goes on.
ReadsWhenDrained ==
  /\ pc # "join" => buffer = <<>>
  /\ pc = "read" => ~HasCommand

\* The inductive invariant.
BufferInv == TypeOK /\ UsedReceived /\ ReadsWhenDrained

\* One step keeps it.
LEMMA BufferStep ==
  ASSUME BufferInv, [Next]_vars
  PROVE  BufferInv'
<1> USE DEF BufferInv, ReadsWhenDrained
<1>1. CASE Test
  BY <1>1 DEF Test, TypeOK, UsedReceived, HasCommand, LineEndAt
<1>2. CASE Read
  BY <1>2, ReadTypes DEF Read
<1>3. CASE Enlarge
  BY <1>3, EnlargeTypes DEF Enlarge
<1>4. CASE JoinClientCommand
  BY <1>4, JoinTypes DEF JoinClientCommand
<1>5. CASE GetCommand
  BY <1>5, GetTypes DEF GetCommand
<1>6. CASE NoCommand
  BY <1>6 DEF NoCommand, TypeOK, UsedReceived, HasCommand, LineEndAt
<1>7. CASE ReadEof \/ ReadError
  BY <1>7 DEF ReadEof, ReadError, TypeOK, UsedReceived
<1>8. CASE UNCHANGED vars
  BY <1>8 DEF vars, TypeOK, UsedReceived, HasCommand, LineEndAt
<1> QED BY <1>1, <1>2, <1>3, <1>4, <1>5, <1>6, <1>7, <1>8 DEF Next, ClientStep

\* The inductive invariant holds of every stream, however read cuts it.
THEOREM BufferKept == Spec => []BufferInv
<1>1. Init => BufferInv
  <2> SUFFICES ASSUME Init PROVE BufferInv
    OBVIOUS
  <2>1. net \in Seq(Bytes)
    <3>1. PICK m \in 0 .. MaxBytes : net \in [1 .. m -> Bytes]
      BY DEF Init
    <3>2. m \in Nat
      BY BufferAssumption
    <3> QED BY <3>1, <3>2, FunctionIsSeq
  <2>2. str \in Seq(Memory) /\ Len(str) = INIT_CMD_STR_SIZE
    <3>1. str \in [1 .. INIT_CMD_STR_SIZE -> Memory]
      BY DEF Init, Memory
    <3> QED BY <3>1, BufferAssumption, FunctionIsSeq
  <2>3. buffer = <<>> /\ cmds = <<>> /\ <<>> \in Seq(Bytes)
        /\ <<>> \in Seq(Seq(Bytes))
    BY EmptySeq DEF Init
  <2>4. TypeOK
    BY <2>1, <2>2, <2>3, BufferAssumption DEF Init, TypeOK, Memory
  <2>5. UsedReceived
    BY <2>2, BufferAssumption DEF Init, UsedReceived
  <2> QED BY <2>4, <2>5 DEF Init, BufferInv, ReadsWhenDrained
<1>2. BufferInv /\ [Next]_vars => BufferInv'
  BY BufferStep
<1> QED BY <1>1, <1>2, PTL DEF Spec

\* The type invariant of the receive buffer; a command consists of bytes of the
\* client's, whatever malloc and realloc leave in the memory.
THEOREM BufferTypes == Spec => []TypeOK
<1>1. BufferInv => TypeOK
  BY DEF BufferInv
<1> QED BY <1>1, BufferKept, PTL

\* What is in use lies within the memory, with a byte to spare, and was received.
THEOREM OnlyReceivedUsed == Spec => []UsedReceived
<1>1. BufferInv => UsedReceived
  BY DEF BufferInv
<1> QED BY <1>1, BufferKept, PTL

-----------------------------------------------------------------------------
(* The commands are the lines of the stream *)

\* Byte j of the stream that is left: of the memory, the chunk or the network.
ByteAt(j) ==
  IF j <= used_len THEN str[j]
  ELSE IF j <= used_len + Len(buffer) THEN buffer[j - used_len]
  ELSE net[j - (used_len + Len(buffer))]

\* The stream that is left, byte by byte.
RestIs ==
  /\ Rest \in Seq(Memory)
  /\ Len(Rest) = used_len + Len(buffer) + Len(net)
  /\ \A j \in 1 .. Len(Rest) : Rest[j] = ByteAt(j)

\* So it is in every state of the buffer.
LEMMA RestBytes == BufferInv => RestIs
<1> SUFFICES ASSUME BufferInv PROVE RestIs
  OBVIOUS
<1>0. /\ used_len \in Nat /\ Len(buffer) \in Nat /\ Len(net) \in Nat
      /\ used_len < str_len /\ str_len \in Nat
  BY MemoryBytes DEF BufferInv
<1>2. str \in Seq(Memory) /\ used_len \in 0 .. Len(str)
  BY <1>0 DEF BufferInv, TypeOK, UsedReceived, Memory
<1>3. buffer \in Seq(Memory) /\ net \in Seq(Memory)
  BY SeqMonotonic DEF BufferInv, TypeOK, Memory
<1> DEFINE J == Joined(str, used_len, buffer, net)
<1>4. Rest = J
  BY DEF Rest, Joined
<1>5. J \in Seq(Memory)
  BY <1>2, <1>3, JoinedBytes
<1>6. Len(J) = used_len + Len(buffer) + Len(net)
  BY <1>2, <1>3, JoinedBytes
<1>7. \A j \in 1 .. used_len : J[j] = str[j]
  BY <1>2, <1>3, JoinedBytes
<1>8. \A j \in 1 .. Len(buffer) : J[used_len + j] = buffer[j]
  BY <1>2, <1>3, JoinedBytes
<1>9. \A j \in 1 .. Len(net) : J[used_len + Len(buffer) + j] = net[j]
  BY <1>2, <1>3, JoinedBytes
<1> HIDE DEF J
<1>10. ASSUME NEW j \in 1 .. Len(J)
       PROVE  J[j] = ByteAt(j)
  <2>1. CASE j <= used_len
    BY <1>0, <1>7, <2>1 DEF ByteAt
  <2>2. CASE j > used_len /\ j <= used_len + Len(buffer)
    <3>1. j - used_len \in 1 .. Len(buffer) /\ used_len + (j - used_len) = j
      BY <1>0, <2>2
    <3> QED BY <1>0, <1>8, <2>2, <3>1 DEF ByteAt
  <2>3. CASE j > used_len + Len(buffer)
    <3> DEFINE x == j - (used_len + Len(buffer))
    <3>1. x \in 1 .. Len(net) /\ used_len + Len(buffer) + x = j
      BY <1>0, <1>6, <2>3
    <3>2. ByteAt(j) = net[x]
      BY <1>0, <2>3 DEF ByteAt
    <3> HIDE DEF x
    <3> QED BY <1>9, <3>1, <3>2
  <2> QED BY <1>0, <1>6, <2>1, <2>2, <2>3
<1> QED BY <1>4, <1>5, <1>6, <1>10 DEF RestIs

\* The same in the next state.
LEMMA RestBytesNext == BufferInv' => RestIs'
BY RestBytes, PTL

\* The lengths, in this state and the next.
LEMMA RestLengths ==
  ASSUME BufferInv, BufferInv'
  PROVE  /\ used_len \in Nat /\ Len(buffer) \in Nat /\ Len(net) \in Nat
         /\ used_len' \in Nat /\ Len(buffer') \in Nat /\ Len(net') \in Nat
<1>1. /\ net \in Seq(Bytes) /\ buffer \in Seq(Bytes) /\ used_len \in Nat
      /\ net' \in Seq(Bytes) /\ buffer' \in Seq(Bytes) /\ used_len' \in Nat
  BY DEF BufferInv, TypeOK
<1> QED BY <1>1, LenProperties

\* realloc leaves the stream alone.
LEMMA EnlargeStutters ==
  ASSUME BufferInv, BufferInv', Enlarge
  PROVE  Rest' = Rest
<1>1. UNCHANGED <<net, buffer, used_len>>
  BY DEF Enlarge
<1>2. \A j \in 1 .. used_len : str'[j] = str[j]
  BY MemoryBytes DEF Enlarge, BufferInv
<1>3. RestIs /\ RestIs'
  BY RestBytes, RestBytesNext
<1>4. Rest \in Seq(Memory) /\ Rest' \in Seq(Memory) /\ Len(Rest') = Len(Rest)
  BY <1>1, <1>3 DEF RestIs
<1>5. ASSUME NEW j \in 1 .. Len(Rest)
      PROVE  Rest'[j] = Rest[j]
  <2>1. Rest[j] = ByteAt(j) /\ Rest'[j] = ByteAt(j)'
    BY <1>3, <1>4 DEF RestIs
  <2>2. CASE j <= used_len
    BY <1>1, <1>2, <2>1, <2>2, RestLengths DEF ByteAt
  <2>3. CASE ~(j <= used_len)
    BY <1>1, <2>1, <2>3 DEF ByteAt
  <2> QED BY <2>2, <2>3
<1> QED BY <1>4, <1>5, SeqEqual

\* read moves bytes from the network to the chunk.
LEMMA ReadStutters ==
  ASSUME BufferInv, BufferInv', Read
  PROVE  Rest' = Rest
<1>1. PICK k \in 1 .. BUFFER_LEN - 1 : /\ k <= Len(net)
                                       /\ buffer' = SubSeq(net, 1, k)
                                       /\ net' = SubSeq(net, k + 1, Len(net))
  BY DEF Read
<1>2. /\ UNCHANGED <<str, used_len>> /\ Len(buffer) = 0
      /\ net \in Seq(Bytes) /\ k \in Nat /\ Len(net) \in Nat
  BY EmptySeq, RestLengths, BufferAssumption
     DEF Read, BufferInv, TypeOK, ReadsWhenDrained
<1>3. Len(buffer') = k /\ \A j \in 1 .. k : buffer'[j] = net[j]
  <2>1. /\ Len(SubSeq(net, 1, k)) = k - 1 + 1
        /\ \A j \in 1 .. k - 1 + 1 : SubSeq(net, 1, k)[j] = net[1 + j - 1]
    BY <1>1, <1>2, PartOfSeq
  <2> QED BY <1>1, <1>2, <2>1
<1>4. /\ Len(net') = Len(net) - k
      /\ \A j \in 1 .. Len(net) - k : net'[j] = net[k + j]
  <2> DEFINE t == SubSeq(net, k + 1, Len(net))
  <2>1. k + 1 \in Nat /\ k + 1 >= 1 /\ k + 1 <= Len(net) + 1
    BY <1>1, <1>2
  <2>2. /\ Len(t) = Len(net) - (k + 1) + 1
        /\ \A j \in 1 .. Len(net) - (k + 1) + 1 : t[j] = net[(k + 1) + j - 1]
    BY <1>2, <2>1, PartOfSeq
  <2> HIDE DEF t
  <2>3. net' = t
    BY <1>1 DEF t
  <2>4. \A j \in 1 .. Len(net) - k : (k + 1) + j - 1 = k + j
    BY <1>2
  <2> QED BY <1>1, <1>2, <2>2, <2>3, <2>4
<1>5. RestIs /\ RestIs'
  BY RestBytes, RestBytesNext
<1>6. Rest \in Seq(Memory) /\ Rest' \in Seq(Memory) /\ Len(Rest') = Len(Rest)
  BY <1>1, <1>2, <1>3, <1>4, <1>5, RestLengths DEF RestIs
<1>7. ASSUME NEW j \in 1 .. Len(Rest)
      PROVE  Rest'[j] = Rest[j]
  <2>1. Rest[j] = ByteAt(j) /\ Rest'[j] = ByteAt(j)'
    BY <1>5, <1>6 DEF RestIs
  <2>2. CASE j <= used_len
    BY <1>2, <2>1, <2>2 DEF ByteAt
  <2>3. CASE j > used_len
    <3>1. Rest[j] = net[j - used_len]
      BY <1>2, <2>1, <2>3, RestLengths DEF ByteAt
    <3>2. CASE j <= used_len + k
      <4>1. Rest'[j] = buffer'[j - used_len]
        BY <1>2, <1>3, <2>1, <2>3, <3>2, RestLengths DEF ByteAt
      <4>2. j - used_len \in 1 .. k
        BY <1>2, <2>3, <3>2, RestLengths
      <4> QED BY <1>3, <3>1, <4>1, <4>2
    <3>3. CASE j > used_len + k
      <4>1. Rest'[j] = net'[j - (used_len + k)]
        BY <1>2, <1>3, <2>1, <2>3, <3>3, RestLengths DEF ByteAt
      <4>2. /\ j - (used_len + k) \in 1 .. Len(net) - k
            /\ k + (j - (used_len + k)) = j - used_len
        BY <1>2, <1>5, <3>3, RestLengths DEF RestIs
      <4> QED BY <1>4, <3>1, <4>1, <4>2
    <3> QED BY <1>2, <3>2, <3>3, RestLengths
  <2> QED BY <2>2, <2>3, RestLengths
<1> QED BY <1>6, <1>7, SeqEqual

\* A sequence without its bytes from a + 1 to b.
LEMMA CutBytes ==
  ASSUME NEW S, NEW s \in Seq(S), NEW a \in Nat, NEW b \in Nat, a <= b,
         b <= Len(s), NEW t \in Seq(S), Len(t) = Len(s) - (b - a),
         \A x \in 1 .. Len(t) : t[x] = IF x <= a THEN s[x] ELSE s[x + (b - a)]
  PROVE  t = SubSeq(s, 1, a) \o SubSeq(s, b + 1, Len(s))
<1> DEFINE f == SubSeq(s, 1, a)
           g == SubSeq(s, b + 1, Len(s))
<1>0. Len(s) \in Nat
  BY LenProperties
<1>1. f \in Seq(S) /\ Len(f) = a /\ \A x \in 1 .. a : f[x] = s[x]
  <2>1. 1 \in Nat /\ 1 >= 1 /\ 1 <= a + 1 /\ a <= Len(s)
    BY <1>0
  <2>2. /\ f \in Seq(S) /\ Len(f) = a - 1 + 1
        /\ \A x \in 1 .. a - 1 + 1 : f[x] = s[1 + x - 1]
    BY <2>1, PartOfSeq
  <2> HIDE DEF f
  <2> QED BY <2>2
<1>2. /\ g \in Seq(S) /\ Len(g) = Len(s) - b
      /\ \A x \in 1 .. Len(s) - b : g[x] = s[b + x]
  <2>1. b + 1 \in Nat /\ b + 1 >= 1 /\ b + 1 <= Len(s) + 1 /\ Len(s) <= Len(s)
    BY <1>0
  <2>2. /\ g \in Seq(S) /\ Len(g) = Len(s) - (b + 1) + 1
        /\ \A x \in 1 .. Len(s) - (b + 1) + 1 : g[x] = s[(b + 1) + x - 1]
    BY <1>0, <2>1, PartOfSeq
  <2> HIDE DEF g
  <2>3. /\ Len(s) - (b + 1) + 1 = Len(s) - b
        /\ \A x \in 1 .. Len(s) - b : (b + 1) + x - 1 = b + x
    BY <1>0
  <2> QED BY <2>2, <2>3
<1> HIDE DEF f, g
<1> DEFINE c == f \o g
<1>3. /\ c \in Seq(S) /\ Len(c) = a + (Len(s) - b)
      /\ \A x \in 1 .. a + (Len(s) - b) : c[x] = IF x <= a THEN f[x] ELSE g[x - a]
  <2>1. f \in Seq(S) /\ g \in Seq(S)
    BY <1>1, <1>2
  <2>2. c \in Seq(S) /\ Len(c) = Len(f) + Len(g)
    BY <2>1, ConcatProperties
  <2>3. \A x \in 1 .. Len(f) + Len(g) :
          c[x] = IF x <= Len(f) THEN f[x] ELSE g[x - Len(f)]
    BY <2>1, ConcatProperties
  <2> HIDE DEF c
  <2> QED BY <1>1, <1>2, <2>2, <2>3
<1> HIDE DEF c
<1>4. Len(c) = Len(t)
  BY <1>0, <1>3
<1>5. ASSUME NEW x \in 1 .. Len(t)
      PROVE  t[x] = c[x]
  <2>0. x \in 1 .. a + (Len(s) - b) /\ x \in Nat
    BY <1>0
  <2>1. CASE x <= a
    <3>1. c[x] = f[x] /\ t[x] = s[x]
      BY <1>3, <2>0, <2>1
    <3>2. x \in 1 .. a
      BY <2>0, <2>1
    <3> QED BY <1>1, <3>1, <3>2
  <2>2. CASE x > a
    <3>1. x - a \in 1 .. Len(s) - b /\ b + (x - a) = x + (b - a) /\ ~(x <= a)
      BY <1>0, <2>0, <2>2
    <3>2. c[x] = g[x - a] /\ t[x] = s[x + (b - a)]
      BY <1>3, <2>0, <3>1
    <3> QED BY <1>2, <3>1, <3>2
  <2> QED BY <2>0, <2>1, <2>2
<1>6. t = c
  BY <1>3, <1>4, <1>5, SeqEqual
<1> QED BY <1>6 DEF c, f, g

\* join_client_command drops the chunk from its first NUL on.
LEMMA JoinCuts ==
  ASSUME BufferInv, BufferInv', JoinClientCommand
  PROVE  /\ Len(Rest') = Len(Rest) - (Len(buffer) - StrLen(buffer))
         /\ \A x \in 1 .. Len(Rest') :
              Rest'[x] = IF x <= used_len + StrLen(buffer) THEN Rest[x]
                         ELSE Rest[x + (Len(buffer) - StrLen(buffer))]
<1> DEFINE k == StrLen(buffer)
<1>1. /\ used_len' = used_len + k /\ net' = net /\ Len(buffer') = 0
      /\ \A j \in 1 .. used_len : str'[j] = str[j]
      /\ \A j \in 1 .. k : str'[used_len + j] = buffer[j]
  BY JoinTypes, EmptySeq DEF JoinClientCommand, BufferInv
<1>2. k \in Nat /\ k <= Len(buffer)
  BY MemoryBytes, RestLengths DEF BufferInv
<1>3. RestIs /\ RestIs'
  BY RestBytes, RestBytesNext
<1> HIDE DEF k
<1>4. Len(Rest') = Len(Rest) - (Len(buffer) - k)
  BY <1>1, <1>2, <1>3, RestLengths DEF RestIs
<1>5. ASSUME NEW x \in 1 .. Len(Rest')
      PROVE  Rest'[x] = IF x <= used_len + k THEN Rest[x]
                        ELSE Rest[x + (Len(buffer) - k)]
  <2>0. /\ Len(Rest) = used_len + Len(buffer) + Len(net)
        /\ Len(Rest') = used_len + k + Len(net)
    BY <1>1, <1>2, <1>3, <1>4, RestLengths DEF RestIs
  <2>1. Rest'[x] = ByteAt(x)' /\ \A j \in 1 .. Len(Rest) : Rest[j] = ByteAt(j)
    BY <1>3 DEF RestIs
  <2>2. CASE x <= used_len
    <3>1. Rest'[x] = str'[x] /\ Rest[x] = str[x]
      BY <1>1, <1>2, <2>0, <2>1, <2>2, RestLengths DEF ByteAt
    <3> QED BY <1>1, <1>2, <2>2, <3>1, RestLengths
  <2>3. CASE x > used_len /\ x <= used_len + k
    <3>1. x - used_len \in 1 .. k /\ used_len + (x - used_len) = x
      BY <1>2, <2>3, RestLengths
    <3>2. Rest'[x] = str'[x]
      BY <1>1, <2>1, <2>3, RestLengths DEF ByteAt
    <3>3. Rest[x] = buffer[x - used_len]
      BY <1>2, <2>0, <2>1, <2>3, RestLengths DEF ByteAt
    <3>4. str'[x] = buffer[x - used_len]
      BY <1>1, <3>1
    <3> QED BY <2>3, <3>2, <3>3, <3>4
  <2>4. CASE x > used_len + k
    <3> DEFINE y == x + (Len(buffer) - k)
    <3>1. Rest'[x] = net[x - (used_len + k)]
      BY <1>1, <1>2, <2>0, <2>1, <2>4, RestLengths DEF ByteAt
    <3>2. /\ y \in 1 .. Len(Rest) /\ y > used_len + Len(buffer)
          /\ y - (used_len + Len(buffer)) = x - (used_len + k)
      BY <1>2, <2>0, <2>4, RestLengths
    <3>3. ByteAt(y) = net[y - (used_len + Len(buffer))]
      BY <3>2, RestLengths DEF ByteAt
    <3>4. Rest[y] = net[x - (used_len + k)]
      BY <2>1, <3>2, <3>3
    <3> QED BY <2>4, <3>1, <3>4, <1>2, RestLengths
  <2> QED BY <1>2, <2>2, <2>3, <2>4, RestLengths
<1> QED BY <1>4, <1>5 DEF k

\* One step of the buffer is a step of the stream, or leaves it alone.
LEMMA JoinRefines ==
  ASSUME BufferInv, BufferInv', JoinClientCommand
  PROVE  [Stream!Next]_Stream!streamVars
<1> DEFINE k == StrLen(buffer)
           a == used_len + k
           b == used_len + Len(buffer)
<1>1. /\ used_len \in Nat /\ Len(buffer) \in Nat /\ Len(net) \in Nat
      /\ k \in Nat /\ k <= Len(buffer)
      /\ k < Len(buffer) => buffer[k + 1] = "NUL"
  BY RestLengths, StrLenFirstNul DEF BufferInv, TypeOK
<1>2. RestIs /\ RestIs'
  BY RestBytes, RestBytesNext
<1>3. UNCHANGED cmds /\ pc = "join" /\ pc' = "get"
  BY DEF JoinClientCommand
<1>4. /\ Len(Rest') = Len(Rest) - (Len(buffer) - k)
      /\ \A x \in 1 .. Len(Rest') : Rest'[x] =
           IF x <= used_len + k THEN Rest[x] ELSE Rest[x + (Len(buffer) - k)]
  BY JoinCuts
<1> HIDE DEF k
<1>5. CASE k = Len(buffer)
  <2>1. Rest \in Seq(Memory) /\ Rest' \in Seq(Memory) /\ Len(Rest') = Len(Rest)
    BY <1>1, <1>2, <1>4, <1>5 DEF RestIs
  <2>2. \A x \in 1 .. Len(Rest) : x + (Len(buffer) - k) = x
    BY <1>1, <1>5
  <2>3. \A x \in 1 .. Len(Rest) : Rest'[x] = Rest[x]
    BY <1>4, <2>1, <2>2
  <2>4. Rest' = Rest
    BY <2>1, <2>3, SeqEqual
  <2> QED BY <1>3, <2>4 DEF Stream!streamVars
<1>6. CASE k < Len(buffer)
  <2>1. /\ a \in Nat /\ b \in Nat /\ a <= b /\ b <= Len(Rest)
        /\ Len(buffer) - k = b - a /\ Len(Rest) \in Nat
        /\ a + 1 \in 1 .. Len(Rest) /\ b \in a + 1 .. Len(Rest)
    BY <1>1, <1>2, <1>6 DEF RestIs
  <2>2. Rest[a + 1] = "NUL"
    <3>1. Rest[a + 1] = ByteAt(a + 1)
      BY <1>2, <2>1 DEF RestIs
    <3>2. a + 1 > used_len /\ a + 1 <= used_len + Len(buffer)
          /\ (a + 1) - used_len = k + 1
      BY <1>1, <1>6
    <3>3. ByteAt(a + 1) = buffer[k + 1]
      BY <1>1, <3>2 DEF ByteAt
    <3> QED BY <1>1, <1>6, <3>1, <3>3
  <2>3. Rest' = SubSeq(Rest, 1, a) \o SubSeq(Rest, b + 1, Len(Rest))
    <3>1. /\ Len(Rest') = Len(Rest) - (b - a)
          /\ \A x \in 1 .. Len(Rest') :
               Rest'[x] = IF x <= a THEN Rest[x] ELSE Rest[x + (b - a)]
      BY <1>4, <2>1
    <3>2. Rest \in Seq(Memory) /\ Rest' \in Seq(Memory)
      BY <1>2 DEF RestIs
    <3> HIDE DEF a, b
    <3> QED BY <2>1, <3>1, <3>2, CutBytes
  <2> HIDE DEF a, b
  <2>4. (a + 1) - 1 = a
    BY <2>1
  <2>5. /\ a + 1 \in 1 .. Len(Rest) /\ Rest[a + 1] = "NUL"
        /\ b \in a + 1 .. Len(Rest)
        /\ Rest' = SubSeq(Rest, 1, (a + 1) - 1) \o SubSeq(Rest, b + 1, Len(Rest))
    BY <2>1, <2>2, <2>3, <2>4
  <2>6. Stream!LoseFromNul
    BY <1>3, <2>5 DEF Stream!LoseFromNul
  <2> QED BY <2>6 DEF Stream!Next
<1> QED BY <1>1, <1>5, <1>6

\* get_command takes the first line of the stream.
LEMMA GetRefines ==
  ASSUME BufferInv, BufferInv', GetCommand
  PROVE  Stream!Deliver
<1>1. PICK m \in 1 .. used_len :
        /\ LineEndAt(m) /\ \A j \in 1 .. m - 1 : ~LineEndAt(j)
        /\ cmds' = Append(cmds, SubSeq(str, 1, m - 1))
        /\ str' = [j \in 1 .. str_len |->
             IF j <= str_len - (m + 1) THEN str[j + m + 1] ELSE "JUNK"]
        /\ used_len' = used_len - (m + 1)
  BY DEF GetCommand
<1>2. UNCHANGED <<net, buffer>> /\ pc = "get" /\ pc' = "get"
      /\ UNCHANGED <<net, pc, buffer, str_len>>
  BY DEF GetCommand
<1>3. /\ m <= used_len - 1 /\ m \in Nat
      /\ \A j \in 1 .. used_len' : str'[j] = str[j + m + 1]
  <2>1. TypeOK /\ UsedReceived
    BY DEF BufferInv
  <2>2. \A j \in 1 .. used_len' : str'[j] = str[j + m + 1]
    BY <1>1, <1>2, <2>1, GetTypes
  <2>3. used_len \in Nat /\ m \in 1 .. used_len - 1
    BY <1>1, RestLengths DEF LineEndAt
  <2>4. m <= used_len - 1 /\ m \in Nat
    BY <2>3
  <2> QED BY <2>2, <2>4
<1>4. RestIs /\ RestIs'
  BY RestBytes, RestBytesNext
<1>5. /\ Len(Rest) = used_len + Len(buffer) + Len(net) /\ Len(Rest) \in Nat
      /\ Len(Rest') = Len(Rest) - (m + 1)
      /\ Rest \in Seq(Memory) /\ Rest' \in Seq(Memory)
  <2>1. used_len' = used_len - (m + 1) /\ Len(buffer') = Len(buffer)
        /\ Len(net') = Len(net)
    BY <1>1, <1>2
  <2>2. /\ Len(Rest) = used_len + Len(buffer) + Len(net)
        /\ Len(Rest') = used_len' + Len(buffer') + Len(net')
        /\ Rest \in Seq(Memory) /\ Rest' \in Seq(Memory)
    BY <1>4 DEF RestIs
  <2>3. /\ used_len \in Nat /\ Len(buffer) \in Nat /\ Len(net) \in Nat
        /\ m \in Nat /\ used_len >= m + 1
    BY <1>3, RestLengths
  <2>4. Len(Rest) \in Nat /\ Len(Rest') = Len(Rest) - (m + 1)
    BY <2>1, <2>2, <2>3
  <2> QED BY <2>2, <2>4
<1>6. ASSUME NEW j \in 1 .. used_len PROVE Rest[j] = str[j]
  <2>1. j \in 1 .. Len(Rest) /\ j <= used_len
    BY <1>5, RestLengths
  <2> QED BY <1>4, <2>1 DEF RestIs, ByteAt
<1>7. Stream!EndsLine(Rest, m)
  <2>1. /\ m \in 1 .. Len(Rest) - 1 /\ m \in 1 .. used_len
        /\ m + 1 \in 1 .. used_len
    BY <1>3, <1>5, RestLengths
  <2>2. str[m] = "CR" /\ str[m + 1] = "LF"
    BY <1>1 DEF LineEndAt
  <2> QED BY <1>6, <2>1, <2>2 DEF Stream!EndsLine
<1>8. \A j \in 1 .. m - 1 : ~Stream!EndsLine(Rest, j)
  <2> SUFFICES ASSUME NEW j \in 1 .. m - 1, Stream!EndsLine(Rest, j)
               PROVE  FALSE
    OBVIOUS
  <2>1. j \in 1 .. used_len - 1 /\ j \in 1 .. used_len /\ j + 1 \in 1 .. used_len
    BY <1>3, RestLengths
  <2>2. LineEndAt(j)
    BY <1>6, <2>1 DEF LineEndAt, Stream!EndsLine
  <2> QED BY <1>1, <2>2
<1>9. SubSeq(str, 1, m - 1) = SubSeq(Rest, 1, m - 1)
  <2>1. /\ str \in Seq(Memory) /\ 1 \in Nat /\ m - 1 \in Nat /\ 1 >= 1
        /\ 1 <= (m - 1) + 1 /\ m - 1 <= Len(str) /\ m - 1 <= Len(Rest)
    BY <1>3, <1>5, RestLengths DEF BufferInv, TypeOK, UsedReceived, Memory
  <2>2. /\ SubSeq(str, 1, m - 1) \in Seq(Memory)
        /\ Len(SubSeq(str, 1, m - 1)) = (m - 1) - 1 + 1
    BY <2>1, PartOfSeq
  <2>3. \A j \in 1 .. (m - 1) - 1 + 1 : SubSeq(str, 1, m - 1)[j] = str[1 + j - 1]
    BY <2>1, PartOfSeq
  <2>4. /\ SubSeq(Rest, 1, m - 1) \in Seq(Memory)
        /\ Len(SubSeq(Rest, 1, m - 1)) = (m - 1) - 1 + 1
    BY <1>5, <2>1, PartOfSeq
  <2>5. \A j \in 1 .. (m - 1) - 1 + 1 : SubSeq(Rest, 1, m - 1)[j] = Rest[1 + j - 1]
    BY <1>5, <2>1, PartOfSeq
  <2>6. \A j \in 1 .. (m - 1) - 1 + 1 : str[1 + j - 1] = Rest[1 + j - 1]
    BY <1>3, <1>6, RestLengths
  <2>7. \A j \in 1 .. Len(SubSeq(str, 1, m - 1)) :
          SubSeq(str, 1, m - 1)[j] = SubSeq(Rest, 1, m - 1)[j]
    BY <2>2, <2>3, <2>5, <2>6
  <2> QED BY <2>2, <2>4, <2>7, SeqEqual
<1>10. Rest' = SubSeq(Rest, m + 2, Len(Rest))
  <2> DEFINE g == SubSeq(Rest, m + 2, Len(Rest))
  <2>1. /\ m + 2 \in Nat /\ m + 2 >= 1 /\ m + 2 <= Len(Rest) + 1
        /\ Len(Rest) <= Len(Rest)
    BY <1>3, <1>5, RestLengths
  <2>2. g \in Seq(Memory) /\ Len(g) = Len(Rest) - (m + 2) + 1
    BY <1>5, <2>1, PartOfSeq
  <2>3. \A j \in 1 .. Len(Rest) - (m + 2) + 1 : g[j] = Rest[(m + 2) + j - 1]
    BY <1>5, <2>1, PartOfSeq
  <2> HIDE DEF g
  <2>4. ASSUME NEW j \in 1 .. Len(Rest')
        PROVE  Rest'[j] = g[j]
    <3>1. /\ j \in 1 .. Len(Rest) - (m + 2) + 1
          /\ (m + 2) + j - 1 = j + m + 1 /\ j + m + 1 \in 1 .. Len(Rest)
      BY <1>3, <1>5
    <3>2. g[j] = Rest[j + m + 1]
      BY <2>3, <3>1
    <3>3. Rest'[j] = ByteAt(j)' /\ Rest[j + m + 1] = ByteAt(j + m + 1)
      BY <1>4, <3>1 DEF RestIs
    <3>4. CASE j <= used_len'
      <4>1. j + m + 1 <= used_len /\ j \in 1 .. used_len'
        BY <1>1, <1>3, <3>4, RestLengths
      <4>2. ByteAt(j)' = str'[j] /\ ByteAt(j + m + 1) = str[j + m + 1]
        BY <3>4, <4>1 DEF ByteAt
      <4> QED BY <1>3, <3>2, <3>3, <4>1, <4>2
    <3>5. CASE ~(j <= used_len')
      <4>1. /\ ~(j + m + 1 <= used_len)
            /\ (j + m + 1) - used_len = j - used_len'
            /\ (j + m + 1) - (used_len + Len(buffer))
                 = j - (used_len' + Len(buffer))
            /\ j + m + 1 <= used_len + Len(buffer)
                 <=> j <= used_len' + Len(buffer)
        <5>1. used_len' = used_len - (m + 1) /\ j \in Nat
          BY <1>1, <3>1
        <5> QED BY <1>3, <3>5, <5>1, RestLengths
      <4>2. ByteAt(j)' = ByteAt(j + m + 1)
        BY <1>2, <3>5, <4>1 DEF ByteAt
      <4> QED BY <3>2, <3>3, <4>2
    <3> QED BY <3>4, <3>5
  <2>5. Len(g) = Len(Rest')
    BY <1>3, <1>5, <2>2
  <2>6. Rest' = g
    BY <1>5, <2>2, <2>4, <2>5, SeqEqual
  <2> QED BY <2>6 DEF g
<1>11. m \in 1 .. Len(Rest)
  BY <1>3, <1>5, RestLengths
<1> QED
  <2>1. cmds' = Append(cmds, SubSeq(Rest, 1, m - 1))
    BY <1>1, <1>9
  <2> QED BY <1>2, <1>7, <1>8, <1>10, <1>11, <2>1 DEF Stream!Deliver

\* read sees the end only when the stream has no line left.
LEMMA EofRefines ==
  ASSUME BufferInv, BufferInv', ReadEof
  PROVE  Stream!Eof
<1>1. /\ net = <<>> /\ buffer = <<>> /\ ~HasCommand /\ pc = "read"
      /\ pc' = "eof" /\ UNCHANGED <<net, buffer, str, used_len, cmds>>
  BY DEF ReadEof, BufferInv, ReadsWhenDrained
<1>2. Rest' = Rest
  BY <1>1 DEF Rest
<1>3. RestIs /\ Len(net) = 0 /\ Len(buffer) = 0
  BY <1>1, RestBytes, EmptySeq
<1>4. Len(Rest) = used_len /\ \A j \in 1 .. used_len : Rest[j] = str[j]
  BY <1>3, RestLengths DEF RestIs, ByteAt
<1>5. ~Stream!HasLine(Rest)
  <2> SUFFICES ASSUME NEW j \in 1 .. used_len, Stream!EndsLine(Rest, j)
               PROVE  FALSE
    BY <1>4 DEF Stream!HasLine
  <2>1. j \in 1 .. used_len - 1 /\ j + 1 \in 1 .. used_len
    BY <1>4, RestLengths DEF Stream!EndsLine
  <2>2. LineEndAt(j)
    BY <1>4, <2>1 DEF LineEndAt, Stream!EndsLine
  <2> QED BY <1>1, <2>2 DEF HasCommand
<1> QED BY <1>1, <1>2, <1>5 DEF Stream!Eof

\* The safety of LinesDelivered, for every stream and every way read cuts it:
\* each step of client_handler's loop on the buffer is a step of CommandStream
\* or leaves it alone. The commands are the lines of the stream in order and
\* whole, and bytes are lost only behind a NUL, up to the end of a chunk.
THEOREM LinesAreCommands == Spec => Stream!Spec
<1>1. Init => Stream!Init
  <2> SUFFICES ASSUME Init PROVE Stream!Init
    OBVIOUS
  <2>1. PICK m \in 0 .. MaxBytes : net \in [1 .. m -> Bytes]
    BY DEF Init
  <2>2. net \in Seq(Bytes)
    BY <2>1, BufferAssumption, FunctionIsSeq
  <2>3. SubSeq(str, 1, 0) = <<>>
    BY SubSeqEmpty
  <2>4. Rest = net
    <3>1. <<>> \in Seq(Bytes) /\ <<>> \o <<>> = <<>>
      BY EmptySeq, ConcatEmptySeq
    <3>2. <<>> \o net = net
      BY <2>2, ConcatEmptySeq
    <3> QED BY <2>3, <3>1, <3>2 DEF Rest, Init
  <2> QED BY <2>1, <2>4 DEF Init, Stream!Init
<1>2. BufferInv /\ BufferInv' /\ [Next]_vars => [Stream!Next]_Stream!streamVars
  <2> SUFFICES ASSUME BufferInv, BufferInv', [Next]_vars
               PROVE  [Stream!Next]_Stream!streamVars
    OBVIOUS
  <2>1. CASE Test \/ NoCommand \/ UNCHANGED vars
    <3>1. UNCHANGED <<net, buffer, str, used_len, cmds>>
      BY <2>1 DEF Test, NoCommand, vars
    <3>2. Rest' = Rest
      BY <3>1 DEF Rest
    <3>3. (pc \in {"eof", "error"} \/ pc' \in {"eof", "error"}) => pc' = pc
      BY <2>1 DEF Test, NoCommand, vars
    <3> QED BY <3>1, <3>2, <3>3 DEF Stream!streamVars
  <2>2. CASE Read
    BY <2>2, ReadStutters DEF Read, Stream!streamVars
  <2>3. CASE Enlarge
    BY <2>3, EnlargeStutters DEF Enlarge, Stream!streamVars
  <2>4. CASE JoinClientCommand
    BY <2>4, JoinRefines
  <2>5. CASE GetCommand
    BY <2>5, GetRefines DEF Stream!Next
  <2>6. CASE ReadEof
    BY <2>6, EofRefines DEF Stream!Next
  <2>7. CASE ReadError
    <3>1. Rest' = Rest
      BY <2>7 DEF ReadError, Rest
    <3> QED BY <2>7, <3>1 DEF ReadError, Stream!Next, Stream!Break
  <2> QED BY <2>1, <2>2, <2>3, <2>4, <2>5, <2>6, <2>7 DEF Next, ClientStep
<1> QED BY <1>1, <1>2, BufferKept, PTL DEF Spec, Stream!Spec
=============================================================================
