-------------------------------- MODULE Sha256 --------------------------------
(***************************************************************************)
(* sha256_init, sha256_update and sha256_final (sha256.c): which 64-byte   *)
(* blocks they compress. sha256_transform is abstracted to the list of     *)
(* blocks it was given, so that two messages hash alike exactly if they    *)
(* are compressed alike. A context is                                      *)
(*   data    the bytes of ctx->data; positions count from 0                *)
(*   datalen, bitlen                                                       *)
(*   blocks  the blocks compressed, in place of ctx->state                 *)
(* ctx->data is not initialised: its bytes are "junk" at first.            *)
(***************************************************************************)
EXTENDS Integers, Sequences

Context(data, datalen, bitlen, blocks) ==
  [data |-> data, datalen |-> datalen, bitlen |-> bitlen, blocks |-> blocks]

sha256_init == Context([i \in 0 .. 63 |-> "junk"], 0, 0, <<>>)

sha256_transform(blocks, data) == Append(blocks, data)

\* One round of the loop of sha256_update.
UpdateByte(ctx, byte) ==
  LET data == [ctx.data EXCEPT ![ctx.datalen] = byte]
  IN IF ctx.datalen + 1 < 64
     THEN Context(data, ctx.datalen + 1, ctx.bitlen, ctx.blocks)
     ELSE Context(data, 0, ctx.bitlen + 512, sha256_transform(ctx.blocks, data))

UpdateRounds(ctx, msg) ==
  LET after[i \in 0 .. Len(msg)] ==
        IF i = 0 THEN ctx ELSE UpdateByte(after[i - 1], msg[i])
  IN after

sha256_update(ctx, msg) == UpdateRounds(ctx, msg)[Len(msg)]

\* The data with 0x80 and zeros up to position end - 1.
Padded(ctx, end) ==
  [i \in 0 .. 63 |->
     IF i = ctx.datalen THEN <<"lit", 128>>
     ELSE IF i > ctx.datalen /\ i < end THEN <<"lit", 0>> ELSE ctx.data[i]]

\* (BYTE) (v >> 8 * k)
ByteOf(v, k) ==
  LET shifted[j \in 0 .. 7] == IF j = 0 THEN v ELSE shifted[j - 1] \div 256
  IN shifted[k] % 256

\* Bytes 56 to 63 hold bitlen, the most significant byte first.
WithLength(data, bits) ==
  [i \in 0 .. 63 |->
     IF i < 56 THEN data[i] ELSE <<"lit", ByteOf(bits, 63 - i)>>]

\* Mutant: a block with 56 bytes is thought to have room for the length.
FinalOffByOne(ctx) ==
  LET bits == ctx.bitlen + ctx.datalen * 8
      zeros == [i \in 0 .. 63 |-> <<"lit", 0>>]
  IN IF ctx.datalen <= 56
     THEN sha256_transform(ctx.blocks, WithLength(Padded(ctx, 56), bits))
     ELSE sha256_transform(sha256_transform(ctx.blocks, Padded(ctx, 64)),
                           WithLength(zeros, bits))

\* The blocks of the whole message.
sha256_final(ctx) ==
  LET bits == ctx.bitlen + ctx.datalen * 8
      zeros == [i \in 0 .. 63 |-> <<"lit", 0>>]
  IN IF ctx.datalen < 56
     THEN sha256_transform(ctx.blocks, WithLength(Padded(ctx, 56), bits))
     ELSE sha256_transform(sha256_transform(ctx.blocks, Padded(ctx, 64)),
                           WithLength(zeros, bits))

\* The reference (FIPS 180-4, 5.1.1): the message, a one bit, the zeros that
\* fill up to eight bytes before a block's end, and the length in bits.
PaddedLen(len) == ((len + 8) \div 64 + 1) * 64

ReferenceByte(msg, p) ==
  LET all == PaddedLen(Len(msg))
  IN IF p < Len(msg) THEN msg[p + 1]
     ELSE <<"lit", IF p = Len(msg) THEN 128
                   ELSE IF p < all - 8 THEN 0
                   ELSE ByteOf(8 * Len(msg), all - 1 - p)>>

Reference(msg) ==
  [b \in 1 .. PaddedLen(Len(msg)) \div 64 |->
     [i \in 0 .. 63 |-> ReferenceByte(msg, 64 * (b - 1) + i)]]

\* sha256_compare: decided by the first byte that differs.
sha256_compare(d, e) ==
  LET differ == {i \in 0 .. 31 : d[i] # e[i]}
      first == CHOOSE i \in differ : \A j \in differ : i <= j
  IN IF differ = {} THEN 0 ELSE IF d[first] < e[first] THEN -1 ELSE 1

\* The reference: d < e as numbers, from the least significant byte on.
BelowFrom(d, e) ==
  LET below[i \in 0 .. 32] ==
        IF i = 0 THEN FALSE
        ELSE d[32 - i] < e[32 - i] \/ (d[32 - i] = e[32 - i] /\ below[i - 1])
  IN below

Less(d, e) == BelowFrom(d, e)[32]
=============================================================================
