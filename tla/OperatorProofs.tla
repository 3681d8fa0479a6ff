--------------------------- MODULE OperatorProofs ---------------------------
(***************************************************************************)
(* What the operators of Sha256 and Uint256 return, for all the arguments  *)
(* SolutionCheck may give them: messages of every length fed in any        *)
(* pieces, digests and targets of any bytes, and the powers of two of      *)
(* uint256_exp. The recursive definitions are shown to define what they    *)
(* say by induction over sets of numbers.                                  *)
(***************************************************************************)
EXTENDS Uint256, Sha256, WellFoundedInduction, SequenceTheorems,
        FiniteSetTheorems, TLAPS

-----------------------------------------------------------------------------
(* Induction *)

\* A nonempty set of natural numbers has a least element.
LEMMA LeastElement ==
  ASSUME NEW T, T \subseteq Nat, T # {}
  PROVE  \E x \in T : \A y \in T : x <= y
<1>1. PICK x \in T : \A y \in T : <<y, x>> \notin OpToRel(<, Nat)
  BY NatLessThanWellFounded, WFMin, Zenon
<1>2. \A y \in T : ~(y < x)
  BY <1>1 DEF OpToRel
<1> QED BY <1>2

\* Induction from 0 to n, for a set.
LEMMA InductionTo ==
  ASSUME NEW n \in Nat, NEW S, 0 \in S,
         \A i \in 0 .. n - 1 : i \in S => i + 1 \in S
  PROVE  0 .. n \subseteq S
<1> DEFINE T == (0 .. n) \ S
<1> SUFFICES ASSUME T # {} PROVE FALSE
  OBVIOUS
<1>1. PICK x \in T : \A y \in T : x <= y
  <2>1. T \subseteq Nat
    OBVIOUS
  <2> HIDE DEF T
  <2> QED BY <2>1, LeastElement
<1>2. x \in 1 .. n /\ x \notin S
  BY <1>1
<1>3. x - 1 \in 0 .. n - 1 /\ x - 1 \in S
  BY <1>1, <1>2
<1> QED BY <1>2, <1>3

-----------------------------------------------------------------------------
(* sha256_update *)

\* What the recursion of the loop says about a function.
IsUpdate(f, n, ctx, msg) ==
  f = [i \in 0 .. n |-> IF i = 0 THEN ctx ELSE UpdateByte(f[i - 1], msg[i])]

\* There is such a function, whatever the number of rounds.
LEMMA UpdateExists ==
  ASSUME NEW ctx, NEW msg, NEW n \in Nat
  PROVE  \E f : IsUpdate(f, n, ctx, msg)
<1> DEFINE S == {m \in 0 .. n : \E f : IsUpdate(f, m, ctx, msg)}
<1>1. 0 \in S
  <2> DEFINE f == [i \in 0 .. 0 |-> ctx]
  <2>1. IsUpdate(f, 0, ctx, msg)
    BY DEF IsUpdate
  <2> QED BY <2>1
<1>2. ASSUME NEW m \in 0 .. n - 1, m \in S
      PROVE  m + 1 \in S
  <2>1. PICK g : IsUpdate(g, m, ctx, msg)
    BY <1>2
  <2> DEFINE f == [i \in 0 .. m + 1 |->
                     IF i <= m THEN g[i] ELSE UpdateByte(g[m], msg[m + 1])]
  <2>2. \A i \in 0 .. m + 1 :
          f[i] = IF i = 0 THEN ctx ELSE UpdateByte(f[i - 1], msg[i])
    <3> SUFFICES ASSUME NEW i \in 0 .. m + 1
                 PROVE  f[i] = IF i = 0 THEN ctx
                               ELSE UpdateByte(f[i - 1], msg[i])
      OBVIOUS
    <3>1. CASE i <= m
      <4>1. g[i] = IF i = 0 THEN ctx ELSE UpdateByte(g[i - 1], msg[i])
        BY <2>1, <3>1 DEF IsUpdate
      <4> QED BY <3>1, <4>1
    <3>2. CASE i = m + 1
      <4>1. i # 0 /\ ~(i <= m) /\ i - 1 = m /\ m \in 0 .. m + 1
        BY <3>2
      <4>2. f[i] = UpdateByte(g[m], msg[i]) /\ f[i - 1] = g[m]
        BY <3>2, <4>1
      <4> QED BY <4>1, <4>2
    <3> QED BY <3>1, <3>2
  <2>3. f = [i \in 0 .. m + 1 |->
               IF i = 0 THEN ctx ELSE UpdateByte(f[i - 1], msg[i])]
    <3> HIDE DEF f
    <3>1. f = [i \in 0 .. m + 1 |-> f[i]]
      BY DEF f
    <3> QED BY <2>2, <3>1
  <2>4. IsUpdate(f, m + 1, ctx, msg)
    BY <2>3, Zenon DEF IsUpdate
  <2> QED BY <2>4
<1>3. n \in S
  <2> HIDE DEF S
  <2> QED BY <1>1, <1>2, InductionTo
<1> QED BY <1>3

\* So the rounds are what they are defined to be.
LEMMA UpdateIs ==
  ASSUME NEW ctx, NEW msg, Len(msg) \in Nat
  PROVE  /\ UpdateRounds(ctx, msg)[0] = ctx
         /\ \A i \in 1 .. Len(msg) :
              UpdateRounds(ctx, msg)[i]
                = UpdateByte(UpdateRounds(ctx, msg)[i - 1], msg[i])
<1> DEFINE r == UpdateRounds(ctx, msg)
<1>1. \E f : f = [i \in 0 .. Len(msg) |->
                    IF i = 0 THEN ctx ELSE UpdateByte(f[i - 1], msg[i])]
  <2>1. \E f : IsUpdate(f, Len(msg), ctx, msg)
    BY UpdateExists
  <2> QED BY <2>1, Zenon DEF IsUpdate
<1>2. r = [i \in 0 .. Len(msg) |->
             IF i = 0 THEN ctx ELSE UpdateByte(r[i - 1], msg[i])]
  BY <1>1, Zenon DEF UpdateRounds
<1> HIDE DEF r
<1>3. r[0] = ctx
  BY <1>2
<1>4. \A i \in 1 .. Len(msg) : r[i] = UpdateByte(r[i - 1], msg[i])
  BY <1>2
<1> QED BY <1>3, <1>4 DEF r

-----------------------------------------------------------------------------
(* The context while a message is fed *)

\* The first q blocks of a message.
Block(msg, b) == [i \in 0 .. 63 |-> msg[64 * (b - 1) + i + 1]]
Blocks(msg, q) == [b \in 1 .. q |-> Block(msg, b)]

LEMMA BlocksSeq ==
  ASSUME NEW msg, NEW q \in Nat
  PROVE  /\ Blocks(msg, q) \in Seq({Block(msg, b) : b \in Nat})
         /\ Len(Blocks(msg, q)) = q
<1> DEFINE S == {Block(msg, b) : b \in Nat}
<1>1. Blocks(msg, q) \in [1 .. q -> S]
  BY DEF Blocks
<1> HIDE DEF S
<1>2. Blocks(msg, q) \in Seq(S)
  BY <1>1, IsASeq
<1>3. DOMAIN Blocks(msg, q) = 1 .. q
  BY DEF Blocks
<1> QED BY <1>2, <1>3, LenProperties DEF S

LEMMA BlockAdded ==
  ASSUME NEW msg, NEW q \in Nat
  PROVE  Append(Blocks(msg, q), Block(msg, q + 1)) = Blocks(msg, q + 1)
<1> DEFINE S == {Block(msg, b) : b \in Nat}
           s == Blocks(msg, q)
           t == Append(s, Block(msg, q + 1))
<1>1. s \in Seq(S) /\ Len(s) = q /\ Block(msg, q + 1) \in S
  <2>1. s \in Seq(S) /\ Len(s) = q
    BY BlocksSeq
  <2>2. q + 1 \in Nat
    OBVIOUS
  <2> QED BY <2>1, <2>2, Zenon
<1>2. /\ t \in Seq(S) /\ Len(t) = q + 1
      /\ \A b \in 1 .. q : t[b] = s[b]
      /\ t[q + 1] = Block(msg, q + 1)
  <2> HIDE DEF S, s
  <2> QED BY <1>1, AppendProperties
<1>3. \A b \in 1 .. q + 1 : t[b] = Block(msg, b)
  <2>1. \A b \in 1 .. q : s[b] = Block(msg, b)
    BY DEF Blocks
  <2> HIDE DEF t, s
  <2> QED BY <1>2, <2>1
<1>4. t = [b \in 1 .. q + 1 |-> t[b]]
  <2> HIDE DEF t, S
  <2> QED BY <1>2, LenProperties
<1> HIDE DEF t
<1> QED BY <1>3, <1>4 DEF t, Blocks

\* A context that was fed 64 * q + r bytes of msg.
Fed(c, msg, q, r) ==
  \E d : /\ d = [i \in 0 .. 63 |-> d[i]]
         /\ \A i \in 0 .. r - 1 : d[i] = msg[64 * q + i + 1]
         /\ c = Context(d, r, 512 * q, Blocks(msg, q))

LEMMA FieldsOfContext ==
  ASSUME NEW d, NEW n, NEW bits, NEW b
  PROVE  /\ Context(d, n, bits, b).data = d
         /\ Context(d, n, bits, b).datalen = n
         /\ Context(d, n, bits, b).bitlen = bits
         /\ Context(d, n, bits, b).blocks = b
BY DEF Context

LEMMA FedNothing == ASSUME NEW msg PROVE Fed(sha256_init, msg, 0, 0)
<1> DEFINE d == [i \in 0 .. 63 |-> "junk"]
<1>1. Blocks(msg, 0) = <<>> /\ 512 * 0 = 0
  BY DEF Blocks
<1>2. sha256_init = Context(d, 0, 512 * 0, Blocks(msg, 0))
  BY <1>1, Zenon DEF sha256_init
<1> QED BY <1>2 DEF Fed

\* A round of sha256_update feeds one byte more.
LEMMA FedByte ==
  ASSUME NEW c, NEW msg, NEW q \in Nat, NEW r \in 0 .. 63, Fed(c, msg, q, r)
  PROVE  IF r < 63 THEN Fed(UpdateByte(c, msg[64 * q + r + 1]), msg, q, r + 1)
         ELSE Fed(UpdateByte(c, msg[64 * q + r + 1]), msg, q + 1, 0)
<1> DEFINE byte == msg[64 * q + r + 1]
           u == UpdateByte(c, byte)
<1>1. PICK d : /\ d = [i \in 0 .. 63 |-> d[i]]
               /\ \A i \in 0 .. r - 1 : d[i] = msg[64 * q + i + 1]
               /\ c = Context(d, r, 512 * q, Blocks(msg, q))
  BY DEF Fed
<1> DEFINE e == [d EXCEPT ![r] = byte]
<1>2. /\ e = [i \in 0 .. 63 |-> e[i]]
      /\ \A i \in 0 .. r : e[i] = msg[64 * q + i + 1]
  BY <1>1
<1>3. u = IF r + 1 < 64 THEN Context(e, r + 1, 512 * q, Blocks(msg, q))
          ELSE Context(e, 0, 512 * q + 512, Append(Blocks(msg, q), e))
  <2>1. /\ c.data = d /\ c.datalen = r
        /\ c.bitlen = 512 * q /\ c.blocks = Blocks(msg, q)
    BY <1>1, FieldsOfContext
  <2>2. u = IF c.datalen + 1 < 64
            THEN Context([c.data EXCEPT ![c.datalen] = byte], c.datalen + 1,
                         c.bitlen, c.blocks)
            ELSE Context([c.data EXCEPT ![c.datalen] = byte], 0, c.bitlen + 512,
                         Append(c.blocks, [c.data EXCEPT ![c.datalen] = byte]))
    BY Zenon DEF UpdateByte, sha256_transform
  <2> HIDE DEF u, byte
  <2> QED BY <2>1, <2>2, ZenonT(60)
<1> HIDE DEF e, u
<1>4. CASE r < 63
  <2>1. u = Context(e, r + 1, 512 * q, Blocks(msg, q))
    BY <1>3, <1>4
  <2>2. \A i \in 0 .. (r + 1) - 1 : e[i] = msg[64 * q + i + 1]
    <3>1. 0 .. (r + 1) - 1 = 0 .. r
      OBVIOUS
    <3> QED BY <1>2, <3>1, Zenon
  <2>3. Fed(u, msg, q, r + 1)
    BY <1>2, <2>1, <2>2, ZenonT(60) DEF Fed
  <2> QED BY <1>4, <2>3 DEF u
<1>5. CASE r = 63
  <2>1. e = Block(msg, q + 1)
    <3>1. \A i \in 0 .. 63 : e[i] = msg[64 * ((q + 1) - 1) + i + 1]
      BY <1>2, <1>5
    <3> QED BY <1>2, <3>1 DEF Block
  <2>2. u = Context(e, 0, 512 * q + 512, Append(Blocks(msg, q), e))
    BY <1>3, <1>5
  <2>3. 512 * q + 512 = 512 * (q + 1)
        /\ Append(Blocks(msg, q), e) = Blocks(msg, q + 1)
    BY <2>1, BlockAdded
  <2>4. u = Context(e, 0, 512 * (q + 1), Blocks(msg, q + 1))
    BY <2>2, <2>3
  <2>5. \A i \in 0 .. 0 - 1 : e[i] = msg[64 * (q + 1) + i + 1]
    OBVIOUS
  <2>6. Fed(u, msg, q + 1, 0)
    BY <1>2, <2>4, <2>5, ZenonT(60) DEF Fed
  <2> QED BY <1>5, <2>6 DEF u
<1> QED BY <1>4, <1>5

\* A message is fed whole, behind what was fed before.
LEMMA FedMessage ==
  ASSUME NEW S, NEW old \in Seq(S), NEW msg \in Seq(S), NEW c,
         \E q \in Nat, r \in 0 .. 63 : /\ Len(old) = 64 * q + r
                                       /\ Fed(c, old, q, r)
  PROVE  \E q \in Nat, r \in 0 .. 63 :
           /\ Len(old \o msg) = 64 * q + r
           /\ Fed(sha256_update(c, msg), old \o msg, q, r)
<1> DEFINE all == old \o msg
           f == UpdateRounds(c, msg)
           T == {n \in 0 .. Len(msg) :
                  \E q \in Nat, r \in 0 .. 63 : /\ Len(old) + n = 64 * q + r
                                                /\ Fed(f[n], all, q, r)}
<1>1. /\ Len(old) \in Nat /\ Len(msg) \in Nat /\ Len(all) = Len(old) + Len(msg)
      /\ \A i \in 1 .. Len(old) : all[i] = old[i]
      /\ \A i \in 1 .. Len(msg) : all[Len(old) + i] = msg[i]
  <2>1. Len(old) \in Nat /\ Len(msg) \in Nat
    BY LenProperties
  <2>2. /\ Len(all) = Len(old) + Len(msg)
        /\ \A i \in 1 .. Len(old) + Len(msg) :
             all[i] = IF i <= Len(old) THEN old[i] ELSE msg[i - Len(old)]
    BY ConcatProperties
  <2> HIDE DEF all
  <2> QED BY <2>1, <2>2
<1>2. /\ f[0] = c
      /\ \A i \in 1 .. Len(msg) : f[i] = UpdateByte(f[i - 1], msg[i])
  BY <1>1, UpdateIs
<1> HIDE DEF f, all
<1>3. 0 \in T
  <2>1. PICK q \in Nat, r \in 0 .. 63 : Len(old) = 64 * q + r /\ Fed(c, old, q, r)
    OBVIOUS
  <2>2. Fed(c, all, q, r)
    <3>1. PICK d : /\ d = [i \in 0 .. 63 |-> d[i]]
                   /\ \A i \in 0 .. r - 1 : d[i] = old[64 * q + i + 1]
                   /\ c = Context(d, r, 512 * q, Blocks(old, q))
      BY <2>1 DEF Fed
    <3>2. \A i \in 0 .. r - 1 : d[i] = all[64 * q + i + 1]
      <4> SUFFICES ASSUME NEW i \in 0 .. r - 1
                   PROVE  old[64 * q + i + 1] = all[64 * q + i + 1]
        BY <3>1
      <4>1. 64 * q + i + 1 \in 1 .. Len(old)
        BY <2>1
      <4> QED BY <1>1, <4>1
    <3>3. Blocks(all, q) = Blocks(old, q)
      <4>1. ASSUME NEW b \in 1 .. q PROVE Block(all, b) = Block(old, b)
        <5>1. \A i \in 0 .. 63 : 64 * (b - 1) + i + 1 \in 1 .. Len(old)
          BY <2>1
        <5> QED BY <1>1, <5>1 DEF Block
      <4> QED BY <4>1, Zenon DEF Blocks
    <3> QED BY <3>1, <3>2, <3>3, ZenonT(60) DEF Fed
  <2>3. Len(old) + 0 = 64 * q + r
    BY <1>1, <2>1
  <2>4. 0 \in 0 .. Len(msg)
    BY <1>1
  <2>5. Fed(f[0], all, q, r)
    BY <1>2, <2>2, Zenon
  <2> QED BY <2>3, <2>4, <2>5, SMTT(60)
<1>4. ASSUME NEW n \in 0 .. Len(msg) - 1, n \in T
      PROVE  n + 1 \in T
  <2>1. PICK q \in Nat, r \in 0 .. 63 :
          Len(old) + n = 64 * q + r /\ Fed(f[n], all, q, r)
    BY <1>4
  <2>2. f[n + 1] = UpdateByte(f[n], msg[n + 1])
    BY <1>1, <1>2
  <2>3. msg[n + 1] = all[64 * q + r + 1]
    <3>1. n + 1 \in 1 .. Len(msg) /\ Len(old) + (n + 1) = 64 * q + r + 1
      BY <1>1, <2>1
    <3>2. all[Len(old) + (n + 1)] = msg[n + 1]
      BY <1>1, <3>1, Zenon
    <3> QED BY <3>1, <3>2, Zenon
  <2>4. IF r < 63 THEN Fed(f[n + 1], all, q, r + 1)
        ELSE Fed(f[n + 1], all, q + 1, 0)
    <3>1. IF r < 63
          THEN Fed(UpdateByte(f[n], all[64 * q + r + 1]), all, q, r + 1)
          ELSE Fed(UpdateByte(f[n], all[64 * q + r + 1]), all, q + 1, 0)
      BY <2>1, FedByte, Zenon
    <3> QED BY <2>2, <2>3, <3>1, Zenon
  <2>5. n + 1 \in 0 .. Len(msg)
    BY <1>1
  <2>6. CASE r < 63
    <3>1. r + 1 \in 0 .. 63 /\ Len(old) + (n + 1) = 64 * q + (r + 1)
      BY <1>1, <2>1, <2>6
    <3> QED BY <2>4, <2>5, <2>6, <3>1, SMTT(60)
  <2>7. CASE ~(r < 63)
    <3>1. /\ q + 1 \in Nat /\ 0 \in 0 .. 63
          /\ Len(old) + (n + 1) = 64 * (q + 1) + 0
      BY <1>1, <2>1, <2>7, SMTT(60)
    <3> QED BY <2>4, <2>5, <2>7, <3>1, SMTT(60)
  <2> QED BY <2>6, <2>7
<1>5. Len(msg) \in T
  <2> HIDE DEF T
  <2>1. Len(msg) \in Nat
    BY <1>1
  <2>2. 0 .. Len(msg) \subseteq T
    BY <2>1, <1>3, <1>4, InductionTo, Zenon
  <2> QED BY <2>1, <2>2
<1> QED BY <1>1, <1>5 DEF sha256_update, f, all

-----------------------------------------------------------------------------
(* sha256_final *)

\* Append, as a function.
LEMMA AppendIs ==
  ASSUME NEW q \in Nat, NEW s, s = [b \in 1 .. q |-> s[b]], NEW e
  PROVE  Append(s, e) = [b \in 1 .. q + 1 |-> IF b <= q THEN s[b] ELSE e]
<1> DEFINE S == {s[b] : b \in 1 .. q} \cup {e}
           t == Append(s, e)
<1>1. s \in [1 .. q -> S] /\ e \in S
  OBVIOUS
<1> HIDE DEF S
<1>2. s \in Seq(S) /\ Len(s) = q
  <2>1. s \in Seq(S)
    BY <1>1, IsASeq
  <2> QED BY <1>1, <2>1, LenProperties
<1>3. /\ t \in Seq(S) /\ Len(t) = q + 1
      /\ \A b \in 1 .. q : t[b] = s[b]
      /\ t[q + 1] = e
  BY <1>1, <1>2, AppendProperties
<1>4. t = [b \in 1 .. q + 1 |-> t[b]]
  <2> HIDE DEF t
  <2> QED BY <1>3, LenProperties
<1> HIDE DEF t
<1>5. \A b \in 1 .. q + 1 : t[b] = IF b <= q THEN s[b] ELSE e
  BY <1>3
<1> QED BY <1>4, <1>5 DEF t

\* The number of blocks of a message of 64 * q + r bytes.
LEMMA PaddedBlocks ==
  ASSUME NEW q \in Nat, NEW r \in 0 .. 63
  PROVE  /\ PaddedLen(64 * q + r) = IF r < 56 THEN 64 * (q + 1) ELSE 64 * (q + 2)
         /\ PaddedLen(64 * q + r) \div 64 = IF r < 56 THEN q + 1 ELSE q + 2
BY DEF PaddedLen

\* A context that was fed a message is compressed to the padded message.
LEMMA FinalIsReference ==
  ASSUME NEW msg, NEW c, NEW q \in Nat, NEW r \in 0 .. 63,
         Len(msg) = 64 * q + r, Fed(c, msg, q, r)
  PROVE  sha256_final(c) = Reference(msg)
<1>1. PICK d : /\ d = [i \in 0 .. 63 |-> d[i]]
               /\ \A i \in 0 .. r - 1 : d[i] = msg[64 * q + i + 1]
               /\ c = Context(d, r, 512 * q, Blocks(msg, q))
  BY DEF Fed
<1>2. /\ c.data = d /\ c.datalen = r
      /\ c.bitlen = 512 * q /\ c.blocks = Blocks(msg, q)
  BY <1>1 DEF Context
<1> DEFINE bits == 8 * Len(msg)
           ref(b) == [i \in 0 .. 63 |-> ReferenceByte(msg, 64 * (b - 1) + i)]
           whole == [b \in 1 .. q |-> ref(b)]
<1>3. Blocks(msg, q) = whole
  <2>1. ASSUME NEW b \in 1 .. q PROVE Block(msg, b) = ref(b)
    <3>1. ASSUME NEW i \in 0 .. 63
          PROVE  msg[64 * (b - 1) + i + 1] = ReferenceByte(msg, 64 * (b - 1) + i)
      <4>1. 64 * (b - 1) + i < Len(msg)
        OBVIOUS
      <4> QED BY <4>1 DEF ReferenceByte
    <3> QED BY <3>1 DEF Block
  <2> QED BY <2>1, Zenon DEF Blocks
<1>4. c.bitlen + c.datalen * 8 = bits
  BY <1>2
<1>5. CASE r < 56
  <2> DEFINE last == WithLength(Padded(c, 56), bits)
  <2>1. sha256_final(c) = Append(whole, last)
    BY <1>2, <1>3, <1>4, <1>5 DEF sha256_final, sha256_transform
  <2>2. PaddedLen(Len(msg)) = 64 * (q + 1) /\ PaddedLen(Len(msg)) \div 64 = q + 1
    BY <1>5, PaddedBlocks
  <2>3. last = ref(q + 1)
    <3>1. ASSUME NEW i \in 0 .. 63
          PROVE  last[i] = ReferenceByte(msg, 64 * ((q + 1) - 1) + i)
      <4> DEFINE p == 64 * ((q + 1) - 1) + i
      <4>0. /\ p + 1 = 64 * q + i + 1 /\ p \in Nat
            /\ p < Len(msg) <=> i < r
            /\ p = Len(msg) <=> i = r
            /\ p < 64 * (q + 1) - 8 <=> i < 56
            /\ 64 * (q + 1) - 1 - p = 63 - i
        OBVIOUS
      <4>1. last[i] = IF i < 56 THEN Padded(c, 56)[i]
                      ELSE <<"lit", ByteOf(bits, 63 - i)>>
        BY DEF WithLength
      <4>2. Padded(c, 56)[i] = IF i = r THEN <<"lit", 128>>
                               ELSE IF i > r /\ i < 56 THEN <<"lit", 0>> ELSE d[i]
        BY <1>2 DEF Padded
      <4>3. ReferenceByte(msg, p)
              = IF i < r THEN msg[64 * q + i + 1]
                ELSE <<"lit", IF i = r THEN 128
                              ELSE IF i < 56 THEN 0 ELSE ByteOf(bits, 63 - i)>>
        BY <2>2, <4>0, Zenon DEF ReferenceByte
      <4> HIDE DEF p, last, bits
      <4>4. CASE i < r
        <5>1. i < 56 /\ i # r /\ ~(i > r) /\ i \in 0 .. r - 1
          BY <1>5, <4>4
        <5> QED BY <1>1, <4>1, <4>2, <4>3, <4>4, <5>1, ZenonT(60) DEF p
      <4>5. CASE ~(i < r)
        <5>1. i # r => i > r
          BY <4>5
        <5>2. CASE i < 56
          BY <4>1, <4>2, <4>3, <4>5, <5>1, <5>2, Zenon DEF p
        <5>3. CASE ~(i < 56)
          <6>1. i # r
            BY <1>5, <5>3
          <6> QED BY <4>1, <4>3, <4>5, <5>3, <6>1, Zenon DEF p
        <5> QED BY <5>2, <5>3
      <4> QED BY <4>4, <4>5
    <3>2. last = [i \in 0 .. 63 |-> last[i]]
      BY DEF WithLength
    <3> HIDE DEF last
    <3> QED BY <3>1, <3>2
  <2> HIDE DEF last
  <2>4. Append(whole, last)
          = [b \in 1 .. q + 1 |-> IF b <= q THEN whole[b] ELSE last]
    <3>1. whole = [b \in 1 .. q |-> whole[b]]
      BY Zenon
    <3> HIDE DEF whole
    <3> QED BY <3>1, AppendIs
  <2>5. \A b \in 1 .. q + 1 : (IF b <= q THEN whole[b] ELSE last) = ref(b)
    <3>1. \A b \in 1 .. q : whole[b] = ref(b)
      BY Zenon
    <3> HIDE DEF whole, ref
    <3> QED BY <2>3, <3>1
  <2> QED BY <2>1, <2>2, <2>4, <2>5, ZenonT(60) DEF Reference
<1>6. CASE ~(r < 56)
  <2> DEFINE full == Padded(c, 64)
             zeros == [i \in 0 .. 63 |-> <<"lit", 0>>]
             last == WithLength(zeros, bits)
             begun == [b \in 1 .. q + 1 |-> ref(b)]
  <2>1. sha256_final(c) = Append(Append(whole, full), last)
    BY <1>2, <1>3, <1>4, <1>6 DEF sha256_final, sha256_transform
  <2>2. PaddedLen(Len(msg)) = 64 * (q + 2) /\ PaddedLen(Len(msg)) \div 64 = q + 2
    BY <1>6, PaddedBlocks, ZenonT(60)
  <2>3. full = ref(q + 1)
    <3>1. ASSUME NEW i \in 0 .. 63
          PROVE  full[i] = ReferenceByte(msg, 64 * ((q + 1) - 1) + i)
      <4> DEFINE p == 64 * ((q + 1) - 1) + i
      <4>0. /\ p + 1 = 64 * q + i + 1 /\ p \in Nat
            /\ p < Len(msg) <=> i < r
            /\ p = Len(msg) <=> i = r
            /\ p < 64 * (q + 2) - 8
        OBVIOUS
      <4>1. full[i] = IF i = r THEN <<"lit", 128>>
                      ELSE IF i > r /\ i < 64 THEN <<"lit", 0>> ELSE d[i]
        BY <1>2 DEF Padded
      <4>2. ReferenceByte(msg, p)
              = IF i < r THEN msg[64 * q + i + 1]
                ELSE <<"lit", IF i = r THEN 128 ELSE 0>>
        BY <2>2, <4>0, Zenon DEF ReferenceByte
      <4> HIDE DEF p, full
      <4>3. CASE i < r
        <5>1. i # r /\ ~(i > r) /\ i \in 0 .. r - 1
          BY <4>3
        <5> QED BY <1>1, <4>1, <4>2, <4>3, <5>1, Zenon DEF p
      <4>4. CASE ~(i < r)
        <5>1. CASE i = r
          BY <4>1, <4>2, <4>4, <5>1, Zenon DEF p
        <5>2. CASE i # r
          <6>1. i > r /\ i < 64
            BY <4>4, <5>2
          <6> QED BY <4>1, <4>2, <4>4, <5>2, <6>1, Zenon DEF p
        <5> QED BY <5>1, <5>2
      <4> QED BY <4>3, <4>4
    <3>2. full = [i \in 0 .. 63 |-> full[i]]
      BY DEF Padded
    <3> HIDE DEF full
    <3> QED BY <3>1, <3>2
  <2>4. last = ref(q + 2)
    <3>1. ASSUME NEW i \in 0 .. 63
          PROVE  last[i] = ReferenceByte(msg, 64 * ((q + 2) - 1) + i)
      <4> DEFINE p == 64 * ((q + 2) - 1) + i
      <4>0. /\ p \in Nat /\ ~(p < Len(msg)) /\ p # Len(msg)
            /\ p < 64 * (q + 2) - 8 <=> i < 56
            /\ 64 * (q + 2) - 1 - p = 63 - i
        OBVIOUS
      <4>1. last[i] = <<"lit", IF i < 56 THEN 0 ELSE ByteOf(bits, 63 - i)>>
        <5>1. last[i] = IF i < 56 THEN zeros[i] ELSE <<"lit", ByteOf(bits, 63 - i)>>
          BY DEF WithLength
        <5> QED BY <5>1, Zenon
      <4>2. ReferenceByte(msg, p)
              = <<"lit", IF i < 56 THEN 0 ELSE ByteOf(bits, 63 - i)>>
        BY <2>2, <4>0, Zenon DEF ReferenceByte
      <4> HIDE DEF p, last
      <4>3. CASE i < 56
        BY <4>1, <4>2, <4>3, Zenon DEF p
      <4>4. CASE ~(i < 56)
        BY <4>1, <4>2, <4>4, Zenon DEF p
      <4> QED BY <4>3, <4>4
    <3>2. last = [i \in 0 .. 63 |-> last[i]]
      BY DEF WithLength
    <3> HIDE DEF last
    <3> QED BY <3>1, <3>2
  <2> HIDE DEF full, last
  <2>5. Append(whole, full) = begun
    <3>1. whole = [b \in 1 .. q |-> whole[b]]
      BY Zenon
    <3>2. \A b \in 1 .. q : whole[b] = ref(b)
      BY Zenon
    <3> HIDE DEF whole, ref
    <3>3. Append(whole, full)
            = [b \in 1 .. q + 1 |-> IF b <= q THEN whole[b] ELSE full]
      BY <3>1, AppendIs
    <3>4. \A b \in 1 .. q + 1 : (IF b <= q THEN whole[b] ELSE full) = ref(b)
      BY <2>3, <3>2
    <3> QED BY <3>3, <3>4, Zenon
  <2>6. Append(begun, last) = [b \in 1 .. q + 2 |-> ref(b)]
    <3>1. begun = [b \in 1 .. q + 1 |-> begun[b]]
      BY Zenon
    <3>2. \A b \in 1 .. q + 1 : begun[b] = ref(b)
      BY Zenon
    <3> HIDE DEF begun, ref
    <3>3. q + 1 \in Nat /\ (q + 1) + 1 = q + 2
      OBVIOUS
    <3>4. Append(begun, last)
            = [b \in 1 .. q + 2 |-> IF b <= q + 1 THEN begun[b] ELSE last]
      <4>1. Append(begun, last)
              = [b \in 1 .. (q + 1) + 1 |-> IF b <= q + 1 THEN begun[b] ELSE last]
        <5> DEFINE n == q + 1
        <5>1. n \in Nat /\ begun = [b \in 1 .. n |-> begun[b]]
          BY <3>1, <3>3, Zenon
        <5> HIDE DEF n
        <5>2. Append(begun, last)
                = [b \in 1 .. n + 1 |-> IF b <= n THEN begun[b] ELSE last]
          BY <5>1, AppendIs
        <5> QED BY <5>2 DEF n
      <4> QED BY <3>3, <4>1, Zenon
    <3>5. \A b \in 1 .. q + 2 : (IF b <= q + 1 THEN begun[b] ELSE last) = ref(b)
      BY <2>4, <3>2
    <3> QED BY <3>4, <3>5, Zenon
  <2> QED BY <2>1, <2>2, <2>5, <2>6, Zenon DEF Reference
<1> QED BY <1>5, <1>6

-----------------------------------------------------------------------------
(* sha256_compare *)

\* Below with the last i bytes, decided by the first of them that differs.
DecidedBelow(d, e, i) ==
  \E k \in 0 .. 31 : /\ 32 - i <= k /\ d[k] < e[k]
                     /\ \A j \in 0 .. 31 : 32 - i <= j /\ j < k => d[j] = e[j]

LEMMA DecidedStep ==
  ASSUME NEW d \in [0 .. 31 -> Int], NEW e \in [0 .. 31 -> Int],
         NEW i \in 1 .. 32
  PROVE  DecidedBelow(d, e, i)
           <=> \/ d[32 - i] < e[32 - i]
               \/ d[32 - i] = e[32 - i] /\ DecidedBelow(d, e, i - 1)
<1> DEFINE m == 32 - i
<1>1. m \in 0 .. 31 /\ 32 - (i - 1) = m + 1
  OBVIOUS
<1>2. CASE d[m] < e[m]
  BY <1>1, <1>2 DEF DecidedBelow
<1>3. CASE d[m] = e[m]
  <2>1. ASSUME DecidedBelow(d, e, i) PROVE DecidedBelow(d, e, i - 1)
    <3>1. PICK k \in 0 .. 31 :
            /\ m <= k /\ d[k] < e[k]
            /\ \A j \in 0 .. 31 : m <= j /\ j < k => d[j] = e[j]
      BY <2>1 DEF DecidedBelow
    <3>2. k # m
      BY <1>3, <3>1
    <3>3. m + 1 <= k /\ \A j \in 0 .. 31 : m + 1 <= j /\ j < k => d[j] = e[j]
      BY <1>1, <3>1, <3>2
    <3> QED BY <1>1, <3>1, <3>3 DEF DecidedBelow
  <2>2. ASSUME DecidedBelow(d, e, i - 1) PROVE DecidedBelow(d, e, i)
    <3>1. PICK k \in 0 .. 31 :
            /\ m + 1 <= k /\ d[k] < e[k]
            /\ \A j \in 0 .. 31 : m + 1 <= j /\ j < k => d[j] = e[j]
      BY <1>1, <2>2 DEF DecidedBelow
    <3>2. m <= k /\ \A j \in 0 .. 31 : m <= j /\ j < k => d[j] = e[j]
      BY <1>1, <1>3, <3>1
    <3> QED BY <3>1, <3>2 DEF DecidedBelow
  <2> QED BY <1>3, <2>1, <2>2
<1>4. CASE d[m] > e[m]
  <2>1. ~DecidedBelow(d, e, i)
    <3> SUFFICES ASSUME DecidedBelow(d, e, i) PROVE FALSE
      OBVIOUS
    <3>1. PICK k \in 0 .. 31 :
            /\ m <= k /\ d[k] < e[k]
            /\ \A j \in 0 .. 31 : m <= j /\ j < k => d[j] = e[j]
      BY DEF DecidedBelow
    <3> QED BY <1>1, <1>4, <3>1
  <2> QED BY <1>1, <1>4, <2>1
<1> QED BY <1>1, <1>2, <1>3, <1>4

\* What the recursion of the reference comes to.
LEMMA LessIsDecided ==
  ASSUME NEW d \in [0 .. 31 -> Int], NEW e \in [0 .. 31 -> Int]
  PROVE  Less(d, e) <=> DecidedBelow(d, e, 32)
<1> DEFINE lt(i) == d[32 - i] < e[32 - i]
           eq(i) == d[32 - i] = e[32 - i]
           g == [i \in 0 .. 32 |-> DecidedBelow(d, e, i)]
           f == BelowFrom(d, e)
<1>1. ~DecidedBelow(d, e, 0)
  BY DEF DecidedBelow
<1>2. \A i \in 0 .. 32 : DecidedBelow(d, e, i)
                           = IF i = 0 THEN FALSE ELSE lt(i) \/ (eq(i) /\ g[i - 1])
  <2> SUFFICES ASSUME NEW i \in 0 .. 32
               PROVE  DecidedBelow(d, e, i)
                        = IF i = 0 THEN FALSE ELSE lt(i) \/ (eq(i) /\ g[i - 1])
    OBVIOUS
  <2>1. CASE i = 0
    <3>1. DecidedBelow(d, e, i) = FALSE
      BY <1>1, <2>1, Zenon DEF DecidedBelow
    <3> QED BY <2>1, <3>1, Zenon
  <2>2. CASE i # 0
    <3>1. i \in 1 .. 32 /\ i - 1 \in 0 .. 32
      BY <2>2
    <3>2. g[i - 1] = DecidedBelow(d, e, i - 1)
      BY <3>1, Zenon
    <3>3. DecidedBelow(d, e, i) <=> lt(i) \/ (eq(i) /\ DecidedBelow(d, e, i - 1))
      BY <3>1, DecidedStep
    <3> HIDE DEF g
    <3> QED BY <2>2, <3>2, <3>3, Zenon DEF DecidedBelow
  <2> QED BY <2>1, <2>2
<1>3. g = [i \in 0 .. 32 |->
             IF i = 0 THEN FALSE ELSE lt(i) \/ (eq(i) /\ g[i - 1])]
  <2> DEFINE h == g
  <2>1. \A i \in 0 .. 32 : DecidedBelow(d, e, i)
                           = IF i = 0 THEN FALSE ELSE lt(i) \/ (eq(i) /\ h[i - 1])
    BY <1>2, Zenon
  <2>2. g = [i \in 0 .. 32 |-> DecidedBelow(d, e, i)]
    OBVIOUS
  <2> HIDE DEF h, g
  <2>3. g = [i \in 0 .. 32 |->
               IF i = 0 THEN FALSE ELSE lt(i) \/ (eq(i) /\ h[i - 1])]
    BY <2>1, <2>2, Zenon
  <2> QED BY <2>3 DEF h
<1>4. f = [i \in 0 .. 32 |->
             IF i = 0 THEN FALSE ELSE lt(i) \/ (eq(i) /\ f[i - 1])]
  <2>1. \E b : b = [i \in 0 .. 32 |->
                     IF i = 0 THEN FALSE ELSE lt(i) \/ (eq(i) /\ b[i - 1])]
    BY <1>3
  <2> QED BY <2>1, Zenon DEF BelowFrom
<1> DEFINE S == {i \in 0 .. 32 : f[i] <=> DecidedBelow(d, e, i)}
<1> HIDE DEF f, g
<1>5. f[0] = FALSE
  <2>1. 0 \in 0 .. 32
    OBVIOUS
  <2> QED BY <1>4, <2>1, Zenon
<1>6. 0 \in S
  BY <1>1, <1>5
<1>7. ASSUME NEW i \in 0 .. 32 - 1, i \in S
      PROVE  i + 1 \in S
  <2>1. i + 1 \in 1 .. 32 /\ i + 1 \in 0 .. 32 /\ i + 1 # 0 /\ (i + 1) - 1 = i
    OBVIOUS
  <2>2. f[i + 1] = (lt(i + 1) \/ (eq(i + 1) /\ f[(i + 1) - 1]))
    BY <1>4, <2>1, Zenon
  <2>3. f[i + 1] <=> lt(i + 1) \/ (eq(i + 1) /\ f[i])
    BY <2>1, <2>2, Zenon
  <2>4. DecidedBelow(d, e, i + 1)
          <=> lt(i + 1) \/ (eq(i + 1) /\ DecidedBelow(d, e, i))
    <3>1. DecidedBelow(d, e, i + 1)
            <=> lt(i + 1) \/ (eq(i + 1) /\ DecidedBelow(d, e, (i + 1) - 1))
      BY <2>1, DecidedStep
    <3> QED BY <2>1, <3>1, Zenon
  <2> QED BY <1>7, <2>1, <2>3, <2>4, Zenon
<1>8. 32 \in S
  <2> HIDE DEF S
  <2> QED BY <1>6, <1>7, InductionTo
<1> QED BY <1>8 DEF Less, f

\* sha256_compare returns -1 for exactly the digests below the second number, for
\* any bytes.
THEOREM CompareIsLess ==
  ASSUME NEW d \in [0 .. 31 -> Int], NEW e \in [0 .. 31 -> Int]
  PROVE  sha256_compare(d, e) = -1 <=> Less(d, e)
<1> DEFINE differ == {i \in 0 .. 31 : d[i] # e[i]}
           first == CHOOSE i \in differ : \A j \in differ : i <= j
<1>1. Less(d, e) <=> DecidedBelow(d, e, 32)
  BY LessIsDecided
<1>2. CASE differ = {}
  <2>1. \A i \in 0 .. 31 : d[i] = e[i]
    BY <1>2
  <2>2. ~DecidedBelow(d, e, 32)
    BY <2>1 DEF DecidedBelow
  <2>3. sha256_compare(d, e) = 0
    BY <1>2, Zenon DEF sha256_compare
  <2>4. 0 # -1
    OBVIOUS
  <2> QED BY <1>1, <2>2, <2>3, <2>4
<1>3. CASE differ # {}
  <2>1. \E i \in differ : \A j \in differ : i <= j
    <3>1. differ \subseteq Nat
      OBVIOUS
    <3> HIDE DEF differ
    <3> QED BY <1>3, <3>1, LeastElement
  <2>2. first \in differ /\ \A j \in differ : first <= j
    <3> HIDE DEF differ
    <3> QED BY <2>1, Zenon DEF first
  <2>3. sha256_compare(d, e) = IF d[first] < e[first] THEN -1 ELSE 1
    BY <1>3, Zenon DEF sha256_compare
  <2> HIDE DEF first
  <2>4. /\ first \in 0 .. 31 /\ d[first] # e[first]
        /\ \A j \in 0 .. 31 : j < first => d[j] = e[j]
    BY <2>2
  <2> HIDE DEF differ
  <2>5. DecidedBelow(d, e, 32) <=> d[first] < e[first]
    <3>1. CASE d[first] < e[first]
      BY <2>4, <3>1 DEF DecidedBelow
    <3>2. CASE ~(d[first] < e[first])
      <4> SUFFICES ASSUME DecidedBelow(d, e, 32) PROVE FALSE
        BY <3>2
      <4>1. PICK k \in 0 .. 31 : /\ d[k] < e[k]
                                 /\ \A j \in 0 .. 31 : j < k => d[j] = e[j]
        BY DEF DecidedBelow
      <4> QED BY <2>4, <3>2, <4>1
    <3> QED BY <3>1, <3>2
  <2> QED BY <1>1, <2>3, <2>5
<1> QED BY <1>2, <1>3

-----------------------------------------------------------------------------
(* Bytes and bits *)

LEMMA TwoTo ==
  /\ 2^0 = 1 /\ 2^1 = 2 /\ 2^2 = 4 /\ 2^3 = 8 /\ 2^4 = 16
  /\ 2^5 = 32 /\ 2^6 = 64 /\ 2^7 = 128 /\ 2^8 = 256
OBVIOUS

\* The eight digits of a byte.
LEMMA ByteDigits ==
  ASSUME NEW v \in 0 .. 255
  PROVE  v = ((v \div 1) % 2) + 2 * ((v \div 2) % 2) + 4 * ((v \div 4) % 2)
             + 8 * ((v \div 8) % 2) + 16 * ((v \div 16) % 2)
             + 32 * ((v \div 32) % 2) + 64 * ((v \div 64) % 2)
             + 128 * ((v \div 128) % 2)
OBVIOUS

LEMMA OrZero ==
  ASSUME NEW v \in 0 .. 255
  PROVE  Or(v, 0) = v /\ Or(0, v) = v
<1> DEFINE bit(n) == IF (v \div n) % 2 = 1 THEN n ELSE 0
<1>1. bit(1) + bit(2) + bit(4) + bit(8) + bit(16) + bit(32) + bit(64) + bit(128)
        = v
  <2>1. /\ bit(1) = (v \div 1) % 2 /\ bit(2) = 2 * ((v \div 2) % 2)
        /\ bit(4) = 4 * ((v \div 4) % 2) /\ bit(8) = 8 * ((v \div 8) % 2)
    OBVIOUS
  <2>2. /\ bit(16) = 16 * ((v \div 16) % 2) /\ bit(32) = 32 * ((v \div 32) % 2)
        /\ bit(64) = 64 * ((v \div 64) % 2) /\ bit(128) = 128 * ((v \div 128) % 2)
    OBVIOUS
  <2> HIDE DEF bit
  <2> QED BY <2>1, <2>2, ByteDigits
<1>2. /\ (0 \div 1) % 2 # 1 /\ (0 \div 2) % 2 # 1 /\ (0 \div 4) % 2 # 1
      /\ (0 \div 8) % 2 # 1 /\ (0 \div 16) % 2 # 1 /\ (0 \div 32) % 2 # 1
      /\ (0 \div 64) % 2 # 1 /\ (0 \div 128) % 2 # 1
  OBVIOUS
<1> DEFINE left(n) == IF (v \div n) % 2 = 1 \/ (0 \div n) % 2 = 1 THEN n ELSE 0
           right(n) == IF (0 \div n) % 2 = 1 \/ (v \div n) % 2 = 1 THEN n ELSE 0
<1>3. /\ left(1) = bit(1) /\ left(2) = bit(2) /\ left(4) = bit(4)
      /\ left(8) = bit(8) /\ left(16) = bit(16) /\ left(32) = bit(32)
      /\ left(64) = bit(64) /\ left(128) = bit(128)
  BY <1>2
<1>4. /\ right(1) = bit(1) /\ right(2) = bit(2) /\ right(4) = bit(4)
      /\ right(8) = bit(8) /\ right(16) = bit(16) /\ right(32) = bit(32)
      /\ right(64) = bit(64) /\ right(128) = bit(128)
  BY <1>2
<1>5. /\ Or(v, 0) = left(1) + left(2) + left(4) + left(8) + left(16) + left(32)
                    + left(64) + left(128)
      /\ Or(0, v) = right(1) + right(2) + right(4) + right(8) + right(16)
                    + right(32) + right(64) + right(128)
  BY Zenon DEF Or
<1> HIDE DEF left, right, bit
<1> QED BY <1>1, <1>3, <1>4, <1>5, ZenonT(60)

LEMMA PowerValues ==
  ASSUME NEW m \in 0 .. 7
  PROVE  \/ (m = 0 /\ 2^m = 1) \/ (m = 1 /\ 2^m = 2)
         \/ (m = 2 /\ 2^m = 4) \/ (m = 3 /\ 2^m = 8)
         \/ (m = 4 /\ 2^m = 16) \/ (m = 5 /\ 2^m = 32)
         \/ (m = 6 /\ 2^m = 64) \/ (m = 7 /\ 2^m = 128)
<1>1. \/ m = 0 \/ m = 1 \/ m = 2 \/ m = 3 \/ m = 4 \/ m = 5 \/ m = 6 \/ m = 7
  OBVIOUS
<1>2. CASE m = 0
  <2>1. 2^m = 1
    BY <1>2, TwoTo
  <2> QED BY <1>2, <2>1, Zenon
<1>3. CASE m = 1
  <2>1. 2^m = 2
    BY <1>3, TwoTo
  <2> QED BY <1>3, <2>1, Zenon
<1>4. CASE m = 2
  <2>1. 2^m = 4
    BY <1>4, TwoTo
  <2> QED BY <1>4, <2>1, Zenon
<1>5. CASE m = 3
  <2>1. 2^m = 8
    BY <1>5, TwoTo
  <2> QED BY <1>5, <2>1, Zenon
<1>6. CASE m = 4
  <2>1. 2^m = 16
    BY <1>6, TwoTo
  <2> QED BY <1>6, <2>1, Zenon
<1>7. CASE m = 5
  <2>1. 2^m = 32
    BY <1>7, TwoTo
  <2> QED BY <1>7, <2>1, Zenon
<1>8. CASE m = 6
  <2>1. 2^m = 64
    BY <1>8, TwoTo
  <2> QED BY <1>8, <2>1, Zenon
<1>9. CASE m = 7
  <2>1. 2^m = 128
    BY <1>9, TwoTo
  <2> QED BY <1>9, <2>1, Zenon
<1> QED BY <1>1, <1>2, <1>3, <1>4, <1>5, <1>6, <1>7, <1>8, <1>9, Zenon

\* A power of two below 256 has one digit.
LEMMA DigitOfPower ==
  ASSUME NEW m \in 0 .. 7, NEW n \in 0 .. 7
  PROVE  (2^m \div 2^n) % 2 = 1 <=> m = n
<1> DEFINE u == 2^m
           v == 2^n
<1>1. \/ (m = 0 /\ u = 1) \/ (m = 1 /\ u = 2)
      \/ (m = 2 /\ u = 4) \/ (m = 3 /\ u = 8)
      \/ (m = 4 /\ u = 16) \/ (m = 5 /\ u = 32)
      \/ (m = 6 /\ u = 64) \/ (m = 7 /\ u = 128)
  BY PowerValues
<1>2. \/ (n = 0 /\ v = 1) \/ (n = 1 /\ v = 2)
      \/ (n = 2 /\ v = 4) \/ (n = 3 /\ v = 8)
      \/ (n = 4 /\ v = 16) \/ (n = 5 /\ v = 32)
      \/ (n = 6 /\ v = 64) \/ (n = 7 /\ v = 128)
  BY PowerValues
<1> HIDE DEF u, v
<1>3. (u \div v) % 2 = 1 <=> m = n
  <2>1. CASE n = 0
    BY <1>1, <1>2, <2>1
  <2>2. CASE n = 1
    BY <1>1, <1>2, <2>2
  <2>3. CASE n = 2
    BY <1>1, <1>2, <2>3
  <2>4. CASE n = 3
    BY <1>1, <1>2, <2>4
  <2>5. CASE n = 4
    BY <1>1, <1>2, <2>5
  <2>6. CASE n = 5
    BY <1>1, <1>2, <2>6
  <2>7. CASE n = 6
    BY <1>1, <1>2, <2>7
  <2>8. CASE n = 7
    BY <1>1, <1>2, <2>8
  <2> QED BY <1>2, <2>1, <2>2, <2>3, <2>4, <2>5, <2>6, <2>7, <2>8
<1> QED BY <1>3 DEF u, v

LEMMA ZeroDigit ==
  ASSUME NEW n \in 0 .. 7
  PROVE  (0 \div 2^n) % 2 = 0
<1> DEFINE v == 2^n
<1>1. v \in {1, 2, 4, 8, 16, 32, 64, 128}
  BY PowerValues, ZenonT(60)
<1> HIDE DEF v
<1>2. (0 \div v) % 2 = 0
  BY <1>1
<1> QED BY <1>2 DEF v

\* The bits of a power of two, and of zero.
LEMMA BitsOfPower ==
  ASSUME NEW k \in 0 .. 255
  PROVE  Bits(Power(k)) = {k}
<1> DEFINE at == 31 - (k \div 8)
<1>1. at \in Idx /\ k % 8 \in 0 .. 7 /\ k = 8 * (k \div 8) + (k % 8)
  BY DEF Idx
<1>2. \A i \in Idx : Power(k)[i] = IF i = at THEN 2^(k % 8) ELSE 0
  BY <1>1 DEF Power, Zero
<1>3. ASSUME NEW h \in 0 .. 255
      PROVE  (Power(k)[31 - (h \div 8)] \div 2^(h % 8)) % 2 = 1 <=> h = k
  <2>1. 31 - (h \div 8) \in Idx /\ h % 8 \in 0 .. 7
        /\ h = 8 * (h \div 8) + (h % 8)
    BY DEF Idx
  <2>2. CASE h \div 8 = k \div 8
    <3>1. Power(k)[31 - (h \div 8)] = 2^(k % 8)
      BY <1>2, <2>1, <2>2
    <3>2. (2^(k % 8) \div 2^(h % 8)) % 2 = 1 <=> k % 8 = h % 8
      BY <1>1, <2>1, DigitOfPower
    <3>3. k % 8 = h % 8 <=> h = k
      BY <1>1, <2>1, <2>2
    <3> QED BY <3>1, <3>2, <3>3
  <2>3. CASE h \div 8 # k \div 8
    <3>1. 31 - (h \div 8) # at
      BY <2>3
    <3>2. Power(k)[31 - (h \div 8)] = 0
      BY <1>2, <2>1, <3>1
    <3>3. (Power(k)[31 - (h \div 8)] \div 2^(h % 8)) % 2 = 0
      BY <2>1, <3>2, ZeroDigit, ZenonT(60)
    <3>4. h # k /\ 0 # 1
      BY <2>3
    <3> QED BY <3>3, <3>4, Zenon
  <2> QED BY <2>2, <2>3
<1> QED BY <1>3, ZenonT(60) DEF Bits

LEMMA BitsOfZero == Bits(Zero) = {}
<1>1. ASSUME NEW h \in 0 .. 255
      PROVE  ~((Zero[31 - (h \div 8)] \div 2^(h % 8)) % 2 = 1)
  <2>1. 31 - (h \div 8) \in Idx /\ h % 8 \in 0 .. 7 /\ 0 # 1
    BY DEF Idx
  <2>2. Zero[31 - (h \div 8)] = 0
    BY <2>1 DEF Zero
  <2>3. (Zero[31 - (h \div 8)] \div 2^(h % 8)) % 2 = 0
    BY <2>1, <2>2, ZeroDigit, ZenonT(60)
  <2> QED BY <2>1, <2>3, Zenon
<1> QED BY <1>1 DEF Bits

-----------------------------------------------------------------------------
(* uint256_add and uint256_mul *)

LEMMA ByteSum ==
  ASSUME NEW u \in Nat, NEW v \in Nat, u + v <= 255
  PROVE  (u + v) \div 256 = 0 /\ (u + v) % 256 = u + v
OBVIOUS

\* Without a carry every byte is a sum.
LEMMA AddNoCarry ==
  ASSUME NEW a, NEW b,
         \A i \in Idx : a[i] \in Nat /\ b[i] \in Nat /\ a[i] + b[i] <= 255
  PROVE  uint256_add(a, b) = [i \in Idx |-> a[i] + b[i]]
<1> DEFINE g == [i \in Idx |-> a[i] + b[i]]
           f == ByteSums(a, b)
<1>1. \A i \in Idx : g[i] = a[i] + b[i] + IF i = 0 THEN 0 ELSE g[i - 1] \div 256
  <2> SUFFICES ASSUME NEW i \in Idx
               PROVE  g[i] = a[i] + b[i]
                             + IF i = 0 THEN 0 ELSE g[i - 1] \div 256
    OBVIOUS
  <2>1. CASE i = 0
    BY <2>1
  <2>2. CASE i # 0
    <3>1. i - 1 \in Idx
      BY <2>2 DEF Idx
    <3>2. g[i - 1] = a[i - 1] + b[i - 1]
      BY <3>1
    <3>3. g[i - 1] \div 256 = 0
      BY <3>1, <3>2, ByteSum, ZenonT(60)
    <3>4. g[i] = a[i] + b[i] + 0
      OBVIOUS
    <3> QED BY <2>2, <3>3, <3>4
  <2> QED BY <2>1, <2>2
<1>2. g = [i \in Idx |-> a[i] + b[i] + IF i = 0 THEN 0 ELSE g[i - 1] \div 256]
  <2> DEFINE h == g
  <2>1. \A i \in Idx :
          a[i] + b[i] = a[i] + b[i] + IF i = 0 THEN 0 ELSE h[i - 1] \div 256
    BY <1>1
  <2>2. g = [i \in Idx |-> a[i] + b[i]]
    OBVIOUS
  <2> HIDE DEF h, g
  <2>3. g = [i \in Idx |-> a[i] + b[i] + IF i = 0 THEN 0 ELSE h[i - 1] \div 256]
    BY <2>1, <2>2, ZenonT(60)
  <2> QED BY <2>3 DEF h
<1>3. f = [i \in Idx |-> a[i] + b[i] + IF i = 0 THEN 0 ELSE f[i - 1] \div 256]
  <2>1. \E c : c = [i \in Idx |->
                      a[i] + b[i] + IF i = 0 THEN 0 ELSE c[i - 1] \div 256]
    BY <1>2
  <2> QED BY <2>1, Zenon DEF ByteSums
<1> DEFINE S == {i \in Idx : f[i] = a[i] + b[i]}
<1> HIDE DEF f, g
<1>4. \A i \in Idx : f[i] = a[i] + b[i] + IF i = 0 THEN 0 ELSE f[i - 1] \div 256
  BY <1>3, ZenonT(60)
<1>5. 0 \in S
  BY <1>4 DEF Idx
<1>6. ASSUME NEW i \in 0 .. 31 - 1, i \in S
      PROVE  i + 1 \in S
  <2>1. i + 1 \in Idx /\ i + 1 # 0 /\ (i + 1) - 1 = i /\ i \in Idx
    BY DEF Idx
  <2>2. f[i] = a[i] + b[i]
    BY <1>6
  <2>3. f[i] \div 256 = 0
    <3>1. (a[i] + b[i]) \div 256 = 0
      BY <2>1, ByteSum
    <3> QED BY <2>2, <3>1
  <2>4. f[i + 1] = a[i + 1] + b[i + 1] + 0
    BY <1>4, <2>1, <2>3
  <2>5. a[i + 1] + b[i + 1] + 0 = a[i + 1] + b[i + 1]
    BY <2>1
  <2> QED BY <2>1, <2>4, <2>5
<1>7. Idx \subseteq S
  <2> HIDE DEF S
  <2>1. 0 .. 31 \subseteq S
    BY <1>5, <1>6, InductionTo
  <2> QED BY <2>1 DEF Idx
<1>8. \A i \in Idx : f[i] % 256 = a[i] + b[i]
  <2> TAKE i \in Idx
  <2>1. f[i] = a[i] + b[i]
    BY <1>7
  <2>2. (a[i] + b[i]) % 256 = a[i] + b[i]
    BY ByteSum, ZenonT(60)
  <2> QED BY <2>1, <2>2, Zenon
<1> QED BY <1>8, Zenon DEF uint256_add, f

\* The rounds of a product with no set bit, and with one.
LEMMA MulByZero == ASSUME NEW a PROVE uint256_mul(a, Zero) = Zero
<1> DEFINE base == [temp |-> Zero, acc |-> Zero]
           f == MulRounds(a, Zero)
<1>1. Cardinality(Bits(Zero)) = 0
  BY BitsOfZero, FS_EmptySet
<1>2. \E c : c = [r \in 0 .. Cardinality(Bits(Zero)) |->
                    IF r = 0 THEN base
                    ELSE MulRound(c[r - 1], a, NthBit(Zero, r))]
  <2> DEFINE g == [r \in 0 .. 0 |-> base]
  <2>1. \A r \in 0 .. 0 :
          base = IF r = 0 THEN base ELSE MulRound(g[r - 1], a, NthBit(Zero, r))
    <3>1. \A r \in 0 .. 0 : r = 0
      OBVIOUS
    <3> QED BY <3>1, Zenon
  <2>2. g = [r \in 0 .. 0 |-> IF r = 0 THEN base
                              ELSE MulRound(g[r - 1], a, NthBit(Zero, r))]
    <3> DEFINE h == g
    <3> HIDE DEF base, h
    <3>1. g = [r \in 0 .. 0 |-> IF r = 0 THEN base
                                ELSE MulRound(h[r - 1], a, NthBit(Zero, r))]
      BY <2>1, Zenon DEF h
    <3> QED BY <3>1, Zenon DEF h
  <2> HIDE DEF g
  <2> QED BY <1>1, <2>2, Zenon
<1>3. f = [r \in 0 .. Cardinality(Bits(Zero)) |->
             IF r = 0 THEN base ELSE MulRound(f[r - 1], a, NthBit(Zero, r))]
  BY <1>2, Zenon DEF MulRounds
<1> HIDE DEF f
<1>4. f[0] = base
  <2>1. 0 \in 0 .. 0
    OBVIOUS
  <2> QED BY <1>1, <1>3, <2>1, Zenon
<1>5. f[0].acc = Zero
  BY <1>4
<1> QED BY <1>1, <1>5, Zenon DEF uint256_mul, f

LEMMA MulByPower ==
  ASSUME NEW a, NEW k \in 0 .. 255,
         \A i \in Idx : uint256_sl(Zero, a, k)[i] \in 0 .. 255
  PROVE  uint256_mul(a, Power(k)) = uint256_sl(Zero, a, k)
<1> DEFINE b == Power(k)
           copy == uint256_sl(Zero, a, k)
           base == [temp |-> Zero, acc |-> Zero]
           f == MulRounds(a, b)
<1>1. Bits(b) = {k} /\ Cardinality({k}) = 1
  BY BitsOfPower, FS_Singleton
<1>2. NthBit(b, 1) = k
  <2>1. {h \in {k} : h < k} = {}
    OBVIOUS
  <2>2. Cardinality({h \in {k} : h < k}) = 1 - 1
    BY <2>1, FS_EmptySet
  <2> HIDE DEF b
  <2> QED BY <1>1, <2>2, Zenon DEF NthBit
<1> HIDE DEF b
<1>3. \E c : c = [r \in 0 .. Cardinality(Bits(b)) |->
                    IF r = 0 THEN base
                    ELSE MulRound(c[r - 1], a, NthBit(b, r))]
  <2> DEFINE g == [r \in 0 .. 1 |-> IF r = 0 THEN base
                                    ELSE MulRound(base, a, NthBit(b, r))]
             h == g
  <2>1. \A r \in 0 .. 1 : r = 0 \/ r - 1 = 0
    OBVIOUS
  <2>2. g[0] = base
    <3>1. 0 \in 0 .. 1
      OBVIOUS
    <3> QED BY <3>1, Zenon
  <2>3. \A r \in 0 .. 1 :
          (IF r = 0 THEN base ELSE MulRound(base, a, NthBit(b, r)))
          = IF r = 0 THEN base ELSE MulRound(h[r - 1], a, NthBit(b, r))
    <3> HIDE DEF g, base
    <3> QED BY <2>1, <2>2, Zenon DEF h
  <2>4. g = [r \in 0 .. 1 |-> IF r = 0 THEN base
                              ELSE MulRound(h[r - 1], a, NthBit(b, r))]
    <3> HIDE DEF h, base
    <3> QED BY <2>3, Zenon
  <2> HIDE DEF g, base
  <2> QED BY <1>1, <2>4, ZenonT(60) DEF h
<1>4. f = [r \in 0 .. Cardinality(Bits(b)) |->
             IF r = 0 THEN base ELSE MulRound(f[r - 1], a, NthBit(b, r))]
  BY <1>3, Zenon DEF MulRounds
<1> HIDE DEF f
<1>5. f[0] = base /\ f[1] = MulRound(f[0], a, k)
  <2>1. 0 \in 0 .. 1 /\ 1 \in 0 .. 1 /\ 1 # 0 /\ 1 - 1 = 0
    OBVIOUS
  <2> HIDE DEF base
  <2> QED BY <1>1, <1>2, <1>4, <2>1, Zenon
<1>6. f[1].acc = uint256_add(Zero, copy)
  <2>1. f[0].temp = Zero /\ f[0].acc = Zero
    BY <1>5
  <2>2. MulRound(f[0], a, k)
          = [temp |-> uint256_sl(f[0].temp, a, k),
             acc |-> uint256_add(f[0].acc, uint256_sl(f[0].temp, a, k))]
    BY Zenon DEF MulRound
  <2>3. f[1] = [temp |-> copy, acc |-> uint256_add(Zero, copy)]
    BY <1>5, <2>1, <2>2, Zenon
  <2> HIDE DEF copy
  <2> QED BY <2>3
<1>7. copy = [i \in Idx |-> copy[i]]
  BY ZenonT(60) DEF uint256_sl
<1> HIDE DEF copy
<1>8. uint256_add(Zero, copy) = copy
  <2>1. \A i \in Idx : copy[i] \in 0 .. 255
    BY DEF copy
  <2>2. \A i \in Idx : Zero[i] = 0
    BY DEF Zero
  <2>3. \A i \in Idx : /\ Zero[i] \in Nat /\ copy[i] \in Nat
                       /\ Zero[i] + copy[i] <= 255 /\ Zero[i] + copy[i] = copy[i]
    <3> TAKE i \in Idx
    <3>1. copy[i] \in 0 .. 255 /\ Zero[i] = 0
      BY <2>1, <2>2, Zenon
    <3> QED BY <3>1
  <2>4. uint256_add(Zero, copy) = [i \in Idx |-> Zero[i] + copy[i]]
    BY <2>3, AddNoCarry, ZenonT(60)
  <2> QED BY <1>7, <2>3, <2>4, Zenon
<1> QED BY <1>1, <1>6, <1>8, Zenon DEF uint256_mul, f, copy, b

-----------------------------------------------------------------------------
(* Shifting whole bytes, and products of powers of two *)

LEMMA ByteKept ==
  ASSUME NEW v \in 0 .. 255
  PROVE  (v * 1) % 256 = v /\ (v - (v % 256)) \div 1 = 0
OBVIOUS

LEMMA ShiftBytes ==
  ASSUME NEW a, \A i \in Idx : a[i] \in 0 .. 255, NEW b \in 0 .. 31
  PROVE  uint256_sl(Zero, a, 8 * b)
           = [i \in Idx |-> IF i > 31 - b THEN 0 ELSE a[i + b]]
<1> DEFINE carry(j) == IF j > 31 THEN 0 ELSE (a[j] - (a[j] % 2^(8 - 0))) \div 2^0
           byte(i) == IF i > 31 - b THEN Zero[i]
                      ELSE Or((a[i + b] * 2^0) % 256, carry(i + b + 1))
<1>1. (8 * b) \div 8 = b /\ (8 * b) % 8 = 0
  OBVIOUS
<1>2. uint256_sl(Zero, a, 8 * b) = [i \in Idx |-> byte(i)]
  BY <1>1, ZenonT(60) DEF uint256_sl
<1>3. 2^(8 - 0) = 256 /\ 2^0 = 1
  <2>1. 8 - 0 = 8
    OBVIOUS
  <2> QED BY <2>1, TwoTo
<1>4. ASSUME NEW j \in Idx
      PROVE  (a[j] * 2^0) % 256 = a[j] /\ carry(j) = 0
  <2>1. (a[j] * 1) % 256 = a[j] /\ (a[j] - (a[j] % 256)) \div 1 = 0
    BY ByteKept, ZenonT(60)
  <2>2. ~(j > 31)
    BY DEF Idx
  <2> QED BY <1>3, <2>1, <2>2, Zenon
<1>5. ASSUME NEW i \in Idx
      PROVE  byte(i) = IF i > 31 - b THEN 0 ELSE a[i + b]
  <2>1. CASE i > 31 - b
    <3>1. Zero[i] = 0
      BY DEF Zero
    <3> QED BY <2>1, <3>1, Zenon
  <2>2. CASE ~(i > 31 - b)
    <3>1. i + b \in Idx /\ (i + b + 1 \in Idx \/ i + b + 1 > 31)
      BY <2>2 DEF Idx
    <3>2. carry(i + b + 1) = 0
      BY <1>4, <3>1, Zenon
    <3>3. (a[i + b] * 2^0) % 256 = a[i + b]
      BY <1>4, <3>1, Zenon
    <3> HIDE DEF carry
    <3>4. byte(i) = Or(a[i + b], 0)
      BY <2>2, <3>2, <3>3, Zenon
    <3>5. Or(a[i + b], 0) = a[i + b]
      BY <3>1, OrZero, ZenonT(60)
    <3> HIDE DEF byte
    <3> QED BY <2>2, <3>4, <3>5, Zenon
  <2> QED BY <2>1, <2>2, Zenon
<1> HIDE DEF byte
<1> QED BY <1>2, <1>5, Zenon

\* uint256_mul by a power of two that is a whole number of bytes moves bytes, for
\* every operand: the wrong shifts and carries of uint256.h do not occur there.
THEOREM MulMovesBytes ==
  ASSUME NEW a, \A i \in Idx : a[i] \in 0 .. 255, NEW b \in 0 .. 31
  PROVE  uint256_mul(a, Power(8 * b))
           = [i \in Idx |-> IF i > 31 - b THEN 0 ELSE a[i + b]]
<1> DEFINE k == 8 * b
           copy == uint256_sl(Zero, a, k)
<1>1. k \in 0 .. 255
  OBVIOUS
<1>2. copy = [i \in Idx |-> IF i > 31 - b THEN 0 ELSE a[i + b]]
  BY ShiftBytes
<1>3. ASSUME NEW i \in Idx PROVE copy[i] \in 0 .. 255
  <2> HIDE DEF copy
  <2>1. copy[i] = IF i > 31 - b THEN 0 ELSE a[i + b]
    BY <1>2
  <2>2. CASE i > 31 - b
    BY <2>1, <2>2
  <2>3. CASE ~(i > 31 - b)
    <3>1. i + b \in Idx
      BY <2>3 DEF Idx
    <3> QED BY <2>1, <2>3, <3>1, Zenon
  <2> QED BY <2>2, <2>3
<1> HIDE DEF k
<1>4. uint256_mul(a, Power(k)) = copy
  BY <1>1, <1>3, MulByPower, Zenon
<1> QED BY <1>2, <1>4, Zenon DEF k

LEMMA WholePower ==
  ASSUME NEW b \in 0 .. 31
  PROVE  Power(8 * b) = [i \in Idx |-> IF i = 31 - b THEN 1 ELSE 0]
<1>1. (8 * b) \div 8 = b /\ (8 * b) % 8 = 0 /\ 2^0 = 1
  BY TwoTo
<1>2. Power(8 * b) = [Zero EXCEPT ![31 - b] = 1]
  BY <1>1, Zenon DEF Power
<1> QED BY <1>2 DEF Zero

LEMMA ByteArrays ==
  /\ \A i \in Idx : Zero[i] \in 0 .. 255
  /\ \A b \in 0 .. 31 : \A i \in Idx : Power(8 * b)[i] \in 0 .. 255
<1>1. \A i \in Idx : Zero[i] \in 0 .. 255
  BY DEF Zero
<1>2. ASSUME NEW b \in 0 .. 31, NEW i \in Idx
      PROVE  Power(8 * b)[i] \in 0 .. 255
  <2>1. Power(8 * b)[i] = IF i = 31 - b THEN 1 ELSE 0
    BY WholePower, Zenon
  <2> QED BY <2>1
<1> QED BY <1>1, <1>2, Zenon

LEMMA OneIsPower == One = Power(8 * 0)
<1>1. Power(8 * 0) = [i \in Idx |-> IF i = 31 - 0 THEN 1 ELSE 0]
  BY WholePower
<1> QED BY <1>1 DEF One, Zero, Idx

\* Zero stays zero, and powers of whole bytes multiply, or leave 256 bits.
LEMMA ZeroTimesPower ==
  ASSUME NEW b \in 0 .. 31
  PROVE  uint256_mul(Zero, Power(8 * b)) = Zero
<1>1. uint256_mul(Zero, Power(8 * b))
        = [i \in Idx |-> IF i > 31 - b THEN 0 ELSE Zero[i + b]]
  BY ByteArrays, MulMovesBytes, Zenon
<1>2. ASSUME NEW i \in Idx PROVE (IF i > 31 - b THEN 0 ELSE Zero[i + b]) = 0
  <2>1. i > 31 - b \/ i + b \in Idx
    BY DEF Idx
  <2>2. \A j \in Idx : Zero[j] = 0
    BY DEF Zero
  <2> QED BY <2>1, <2>2, Zenon
<1> QED BY <1>1, <1>2, Zenon DEF Zero

LEMMA PowerTimesPower ==
  ASSUME NEW b \in 0 .. 31, NEW c \in 0 .. 31
  PROVE  /\ b + c <= 31 => uint256_mul(Power(8 * b), Power(8 * c))
                             = Power(8 * (b + c))
         /\ b + c > 31 => uint256_mul(Power(8 * b), Power(8 * c)) = Zero
<1> DEFINE p == uint256_mul(Power(8 * b), Power(8 * c))
<1>1. p = [i \in Idx |-> IF i > 31 - c THEN 0 ELSE Power(8 * b)[i + c]]
  BY ByteArrays, MulMovesBytes, ZenonT(60)
<1>2. ASSUME NEW i \in Idx
      PROVE  (IF i > 31 - c THEN 0 ELSE Power(8 * b)[i + c])
               = IF i = 31 - (b + c) THEN 1 ELSE 0
  <2>1. CASE i > 31 - c
    BY <2>1 DEF Idx
  <2>2. CASE ~(i > 31 - c)
    <3>1. i + c \in Idx /\ (i + c = 31 - b <=> i = 31 - (b + c))
      BY <2>2 DEF Idx
    <3>2. Power(8 * b)[i + c] = IF i + c = 31 - b THEN 1 ELSE 0
      BY <3>1, WholePower, ZenonT(60)
    <3> QED BY <2>2, <3>1, <3>2, Zenon
  <2> QED BY <2>1, <2>2
<1>3. p = [i \in Idx |-> IF i = 31 - (b + c) THEN 1 ELSE 0]
  BY <1>1, <1>2, Zenon
<1> HIDE DEF p
<1>4. CASE b + c <= 31
  <2> DEFINE d == b + c
  <2>1. d \in 0 .. 31 /\ ~(b + c > 31)
    BY <1>4
  <2> HIDE DEF d
  <2>2. Power(8 * d) = [i \in Idx |-> IF i = 31 - d THEN 1 ELSE 0]
    BY <2>1, WholePower
  <2> QED BY <1>3, <2>1, <2>2, Zenon DEF d, p
<1>5. CASE b + c > 31
  <2>1. \A i \in Idx : i # 31 - (b + c)
    BY <1>5 DEF Idx
  <2>2. p = [i \in Idx |-> 0]
    BY <1>3, <2>1, Zenon
  <2>3. ~(b + c <= 31)
    BY <1>5
  <2> QED BY <2>2, <2>3, Zenon DEF p, Zero
<1> QED BY <1>4, <1>5

-----------------------------------------------------------------------------
(* The first squarings of uint256_exp *)

\* The bytes of a number with one byte that is not 0, and of its shifts.
LowBytes(high, low) ==
  [i \in Idx |-> IF i = 31 THEN low ELSE IF i = 30 THEN high ELSE 0]

\* A byte u shifted by j hands high to the byte before it and keeps low.
Splits(j, u, high, low) ==
  /\ j \in 1 .. 7 /\ u \in 0 .. 255 /\ high \in 0 .. 255 /\ low \in 0 .. 255
  /\ \E w, z :
            /\ 2^j = w /\ 2^(8 - j) = z
            /\ (u * w) % 256 = low /\ (u - (u % z)) \div w = high
            /\ (0 * w) % 256 = 0 /\ (0 - (0 % z)) \div w = 0

LEMMA ShiftLowByte ==
  ASSUME NEW j, NEW u, NEW high, NEW low, Splits(j, u, high, low)
  PROVE  uint256_sl(Zero, LowBytes(0, u), j) = LowBytes(high, low)
<1>a. /\ j \in 1 .. 7 /\ u \in 0 .. 255
      /\ high \in 0 .. 255 /\ low \in 0 .. 255
  BY Zenon DEF Splits
<1> USE <1>a
<1>0. PICK w, z : /\ 2^j = w /\ 2^(8 - j) = z
                  /\ (u * w) % 256 = low /\ (u - (u % z)) \div w = high
                  /\ (0 * w) % 256 = 0 /\ (0 - (0 % z)) \div w = 0
  BY Zenon DEF Splits
<1> DEFINE a == LowBytes(0, u)
           carry(i) == IF i > 31 THEN 0
                       ELSE (a[i] - (a[i] % z)) \div w
           byte(i) == IF i > 31 - 0 THEN Zero[i]
                      ELSE Or((a[i + 0] * w) % 256, carry(i + 0 + 1))
<1>1. j \div 8 = 0 /\ j % 8 = j
  OBVIOUS
<1>2. uint256_sl(Zero, a, j) = [i \in Idx |-> byte(i)]
  BY <1>0, <1>1, ZenonT(60) DEF uint256_sl
<1>3. a[31] = u /\ \A i \in 0 .. 30 : a[i] = 0
  BY DEF LowBytes, Idx
<1> HIDE DEF a
<1>4. ASSUME NEW i \in Idx
      PROVE  byte(i) = IF i = 31 THEN low ELSE IF i = 30 THEN high ELSE 0
  <2>1. ~(i > 31 - 0) /\ i + 0 = i /\ i + 0 + 1 = i + 1
    BY DEF Idx
  <2>2. byte(i) = Or((a[i] * w) % 256, carry(i + 1))
    <3> HIDE DEF carry
    <3> QED BY <2>1, Zenon
  <2>3. CASE i = 31
    <3>1. carry(i + 1) = 0
      <4>1. i + 1 > 31
        BY <2>3
      <4> QED BY <4>1, Zenon
    <3> HIDE DEF carry, byte
    <3>2. byte(i) = Or(low, 0)
      BY <1>0, <1>3, <2>2, <2>3, <3>1, ZenonT(60)
    <3> QED BY <2>3, <3>2, OrZero
  <2>4. CASE i = 30
    <3>1. carry(i + 1) = high
      <4>1. i + 1 = 31 /\ ~(31 > 31)
        BY <2>4
      <4> QED BY <1>0, <1>3, <4>1, Zenon
    <3>2. a[i] = 0 /\ i # 31
      BY <1>3, <2>4
    <3> HIDE DEF carry, byte
    <3>3. byte(i) = Or(0, high)
      BY <1>0, <2>2, <3>1, <3>2, ZenonT(60)
    <3> QED BY <2>4, <3>2, <3>3, OrZero, Zenon
  <2>5. CASE i \in 0 .. 29
    <3>1. i + 1 \in 0 .. 30 /\ ~(i + 1 > 31) /\ i \in 0 .. 30
          /\ i # 31 /\ i # 30 /\ 0 \in 0 .. 255
      BY <2>5
    <3>2. carry(i + 1) = 0
      BY <1>0, <1>3, <3>1, Zenon
    <3> HIDE DEF carry, byte
    <3>3. byte(i) = Or(0, 0)
      BY <1>0, <1>3, <2>2, <3>1, <3>2, Zenon
    <3> QED BY <3>1, <3>3, OrZero, ZenonT(60)
  <2>6. i = 31 \/ i = 30 \/ i \in 0 .. 29
    BY DEF Idx
  <2> QED BY <2>3, <2>4, <2>5, <2>6
<1> HIDE DEF byte
<1> QED BY <1>2, <1>4, Zenon DEF LowBytes, a

LEMMA LowPower ==
  ASSUME NEW j \in 0 .. 7
  PROVE  Power(j) = LowBytes(0, 2^j)
<1>1. j \div 8 = 0 /\ j % 8 = j /\ 31 - 0 = 31
  OBVIOUS
<1>2. Power(j) = [Zero EXCEPT ![31] = 2^j]
  BY <1>1, Zenon DEF Power
<1> DEFINE u == 2^j
<1> HIDE DEF u
<1>3. [Zero EXCEPT ![31] = u] = LowBytes(0, u)
  BY DEF Zero, LowBytes, Idx
<1> QED BY <1>2, <1>3 DEF u

LEMMA SquareLow ==
  ASSUME NEW j, NEW u, NEW high, NEW low, Splits(j, u, high, low),
         Power(j) = LowBytes(0, u)
  PROVE  uint256_mul(Power(j), Power(j)) = LowBytes(high, low)
<1>1. j \in 0 .. 255 /\ high \in 0 .. 255 /\ low \in 0 .. 255
  BY DEF Splits
<1>2. uint256_sl(Zero, LowBytes(0, u), j) = LowBytes(high, low)
  BY ShiftLowByte, ZenonT(60)
<1>3. \A i \in Idx : LowBytes(high, low)[i] \in 0 .. 255
  BY <1>1 DEF LowBytes
<1>4. uint256_sl(Zero, Power(j), j) = LowBytes(high, low)
  BY <1>2, Zenon
<1> QED BY <1>1, <1>3, <1>4, MulByPower, Zenon

LEMMA FirstSquares ==
  /\ uint256_mul(Power(1), Power(1)) = Power(2)
  /\ uint256_mul(Power(2), Power(2)) = Power(4)
  /\ uint256_mul(Power(4), Power(4)) = Power(8 * 1)
<1>1. uint256_mul(Power(1), Power(1)) = Power(2)
  <2>1. /\ (2 * 2) % 256 = 4 /\ (2 - (2 % 128)) \div 2 = 0
        /\ (0 * 2) % 256 = 0 /\ (0 - (0 % 128)) \div 2 = 0
    OBVIOUS
  <2>2. 1 \in 1 .. 7 /\ 2 \in 0 .. 255 /\ 4 \in 0 .. 255 /\ 0 \in 0 .. 255
    OBVIOUS
  <2>3. 2^1 = 2 /\ 2^(8 - 1) = 128
    <3>1. 8 - 1 = 7
      OBVIOUS
    <3> QED BY <3>1, TwoTo
  <2>4. Splits(1, 2, 0, 4)
    <3>1. \E m, n : /\ 2^1 = m /\ 2^(8 - 1) = n
                    /\ (2 * m) % 256 = 4 /\ (2 - (2 % n)) \div m = 0
                    /\ (0 * m) % 256 = 0 /\ (0 - (0 % n)) \div m = 0
      <4> WITNESS 2, 128
      <4> QED BY <2>1, <2>3
    <3> QED BY <2>2, <3>1, Zenon DEF Splits
  <2>5. Power(1) = LowBytes(0, 2)
    BY <2>3, LowPower
  <2>6. uint256_mul(Power(1), Power(1)) = LowBytes(0, 4)
    BY <2>4, <2>5, SquareLow
  <2>7. Power(2) = LowBytes(0, 2^2) /\ 2^2 = 4
    BY LowPower, TwoTo
  <2> QED BY <2>6, <2>7, Zenon
<1>2. uint256_mul(Power(2), Power(2)) = Power(4)
  <2>1. /\ (4 * 4) % 256 = 16 /\ (4 - (4 % 64)) \div 4 = 0
        /\ (0 * 4) % 256 = 0 /\ (0 - (0 % 64)) \div 4 = 0
    OBVIOUS
  <2>2. 2 \in 1 .. 7 /\ 4 \in 0 .. 255 /\ 16 \in 0 .. 255 /\ 0 \in 0 .. 255
    OBVIOUS
  <2>3. 2^2 = 4 /\ 2^(8 - 2) = 64
    <3>1. 8 - 2 = 6
      OBVIOUS
    <3> QED BY <3>1, TwoTo
  <2>4. Splits(2, 4, 0, 16)
    <3>1. \E m, n : /\ 2^2 = m /\ 2^(8 - 2) = n
                    /\ (4 * m) % 256 = 16 /\ (4 - (4 % n)) \div m = 0
                    /\ (0 * m) % 256 = 0 /\ (0 - (0 % n)) \div m = 0
      <4> WITNESS 4, 64
      <4> QED BY <2>1, <2>3
    <3> QED BY <2>2, <3>1, Zenon DEF Splits
  <2>5. Power(2) = LowBytes(0, 4)
    BY <2>3, LowPower
  <2>6. uint256_mul(Power(2), Power(2)) = LowBytes(0, 16)
    BY <2>4, <2>5, SquareLow
  <2>7. Power(4) = LowBytes(0, 2^4) /\ 2^4 = 16
    BY LowPower, TwoTo
  <2> QED BY <2>6, <2>7, Zenon
<1>3. uint256_mul(Power(4), Power(4)) = Power(8 * 1)
  <2>1. /\ (16 * 16) % 256 = 0 /\ (16 - (16 % 16)) \div 16 = 1
        /\ (0 * 16) % 256 = 0 /\ (0 - (0 % 16)) \div 16 = 0
    OBVIOUS
  <2>2. 4 \in 1 .. 7 /\ 16 \in 0 .. 255 /\ 0 \in 0 .. 255 /\ 1 \in 0 .. 255
    OBVIOUS
  <2>3. 2^4 = 16 /\ 2^(8 - 4) = 16
    <3>1. 8 - 4 = 4
      OBVIOUS
    <3> QED BY <3>1, TwoTo
  <2>4. Splits(4, 16, 1, 0)
    <3>1. \E m, n : /\ 2^4 = m /\ 2^(8 - 4) = n
                    /\ (16 * m) % 256 = 0 /\ (16 - (16 % n)) \div m = 1
                    /\ (0 * m) % 256 = 0 /\ (0 - (0 % n)) \div m = 0
      <4> WITNESS 16, 16
      <4> QED BY <2>1, <2>3
    <3> QED BY <2>2, <3>1, Zenon DEF Splits
  <2>5. Power(4) = LowBytes(0, 16)
    BY <2>3, LowPower
  <2>6. uint256_mul(Power(4), Power(4)) = LowBytes(1, 0)
    BY <2>4, <2>5, SquareLow
  <2>7. Power(8 * 1) = [i \in Idx |-> IF i = 31 - 1 THEN 1 ELSE 0]
    BY WholePower
  <2>8. LowBytes(1, 0) = [i \in Idx |-> IF i = 31 - 1 THEN 1 ELSE 0]
    BY DEF LowBytes, Idx
  <2> QED BY <2>6, <2>7, <2>8, Zenon
<1> QED BY <1>1, <1>2, <1>3

LEMMA OnePlusOne == uint256_add(One, One) = Power(1)
<1>1. One = LowBytes(0, 1)
  BY DEF One, Zero, LowBytes, Idx
<1>2. \A i \in Idx : One[i] \in Nat /\ One[i] + One[i] <= 255
  BY <1>1 DEF LowBytes
<1>3. uint256_add(One, One) = [i \in Idx |-> One[i] + One[i]]
  BY <1>2, AddNoCarry
<1>4. \A i \in Idx :
        One[i] + One[i] = IF i = 31 THEN 2 ELSE IF i = 30 THEN 0 ELSE 0
  BY <1>1 DEF LowBytes
<1>5. uint256_add(One, One) = LowBytes(0, 2)
  BY <1>3, <1>4, Zenon DEF LowBytes
<1>6. Power(1) = LowBytes(0, 2^1) /\ 2^1 = 2
  BY LowPower, TwoTo
<1> QED BY <1>5, <1>6
=============================================================================
