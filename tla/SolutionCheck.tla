---------------------------- MODULE SolutionCheck ----------------------------
(***************************************************************************)
(* How a SOLN is judged, and a nonce of a WORK: get_target, get_x and      *)
(* is_valid_soln (handler_helper.c) with uint256.h and sha256.c under      *)
(* them, in the order soln_handler (handler.c) calls them. The hashing     *)
(* code is also run the way its self test runs it                          *)
(* (crypto/sha256_test.c), on messages of other lengths.                   *)
(*                                                                         *)
(*   parse    the fields of the command are read      (lines 283-284)      *)
(*   exp      the loop of uint256_exp                 (uint256.h 110-120)  *)
(*   mul      the multiplication of get_target        (line 273)           *)
(*   getx     get_x                                                        *)
(*   first, second   the two hashes of is_valid_soln                       *)
(*   compare  sha256_compare and the reply                                 *)
(*   done     the command is answered                                      *)
(*   test, tested   a message is fed to, was hashed by the self test       *)
(*                                                                         *)
(* Bytes the code only moves are symbols: the seed and the first digest.   *)
(* The second digest may be anything; it is chosen close to the target.    *)
(***************************************************************************)
EXTENDS Uint256, Sha256

CONSTANTS
  Alphas,      \* first bytes of a difficulty
  BetaBytes,   \* its other three bytes
  NonceBytes,  \* the bytes of a nonce
  EXP_BITS,    \* bound: width of uint256_exp's exponent, 32 in the code
  UpdateLens,  \* lengths the self test feeds to sha256_update
  MaxMessage   \* bound: length of its messages, far from sha256_update's 2^32

ASSUME CheckAssumption ==
  /\ Alphas \subseteq 0 .. 255 /\ BetaBytes \subseteq 0 .. 255
  /\ NonceBytes \subseteq 0 .. 255
  /\ EXP_BITS \in 12 .. 32
  /\ UpdateLens \subseteq Nat \ {0} /\ MaxMessage \in 0 .. 2^30

VARIABLES
  pc,
  alpha, beta,     \* difficulty, its first byte and the other three
  exp, acc, temp,  \* of uint256_exp; temp also takes its result, two_exp
  target,
  nonce,           \* solution, its eight bytes, the most significant first
  x,               \* what get_x returns
  fed,             \* the message hashed last
  ctx,             \* the self test's SHA256_CTX
  hash,            \* the blocks compressed for fed
  digest,          \* the digest that is compared
  verdict          \* "OKAY" or "ERRO"

calcVars == <<alpha, beta, exp, acc, temp>>
vars == <<pc, calcVars, target, nonce, x, fed, ctx, hash, digest, verdict>>

NoNonce == [i \in 1 .. 8 |-> 0]

Init ==
  /\ pc = "parse"
  /\ alpha = 0 /\ beta = [i \in 1 .. 3 |-> 0]
  /\ exp = 0 /\ acc = Zero /\ temp = Zero
  /\ target = Zero
  /\ nonce = NoNonce
  /\ x = <<>> /\ fed = <<>> /\ ctx = sha256_init /\ hash = <<>>
  /\ digest = Zero
  /\ verdict = "none"

-----------------------------------------------------------------------------
\* get_target and uint256_exp

\* 8 * (alpha - 3), an int, becomes the uint32_t exponent.
Exponent(a) == (8 * (a - 3)) % 2^EXP_BITS

Parse ==
  /\ pc = "parse"
  /\ alpha' \in Alphas
  /\ beta' \in [1 .. 3 -> BetaBytes]
  /\ exp' = Exponent(alpha')
  /\ acc' = uint256_add(One, One) /\ temp' = One
  /\ pc' = "exp"
  /\ UNCHANGED <<target, nonce, x, fed, ctx, hash, digest, verdict>>

\* if(exp == 0): the result is 1.
ExpZero ==
  /\ pc = "exp"
  /\ exp = 0
  /\ temp' = One
  /\ pc' = "mul"
  /\ UNCHANGED <<alpha, beta, exp, acc, target, nonce, x, fed, ctx, hash,
                 digest, verdict>>

ExpEven ==
  /\ pc = "exp"
  /\ exp > 1 /\ exp % 2 = 0
  /\ acc' = uint256_mul(acc, acc)
  /\ exp' = exp \div 2
  /\ UNCHANGED <<pc, alpha, beta, temp, target, nonce, x, fed, ctx, hash,
                 digest, verdict>>

\* Mutant: the factor of an odd exponent is not kept.
ExpOddDropsFactor ==
  /\ pc = "exp"
  /\ exp > 1 /\ exp % 2 = 1
  /\ acc' = uint256_mul(acc, acc)
  /\ exp' = (exp - 1) \div 2
  /\ UNCHANGED <<pc, alpha, beta, temp, target, nonce, x, fed, ctx, hash,
                 digest, verdict>>

ExpOdd ==
  /\ pc = "exp"
  /\ exp > 1 /\ exp % 2 = 1
  /\ temp' = uint256_mul(acc, temp)
  /\ acc' = uint256_mul(acc, acc)
  /\ exp' = (exp - 1) \div 2
  /\ UNCHANGED <<pc, alpha, beta, target, nonce, x, fed, ctx, hash, digest,
                 verdict>>

ExpEnd ==
  /\ pc = "exp"
  /\ exp = 1
  /\ temp' = uint256_mul(acc, temp)
  /\ pc' = "mul"
  /\ UNCHANGED <<alpha, beta, exp, acc, target, nonce, x, fed, ctx, hash,
                 digest, verdict>>

\* beta as a 256-bit number.
Beta == [Zero EXCEPT ![29] = beta[1], ![30] = beta[2], ![31] = beta[3]]

GetTarget ==
  /\ pc = "mul"
  /\ target' = uint256_mul(Beta, temp)
  /\ pc' = "getx"
  /\ UNCHANGED <<calcVars, nonce, x, fed, ctx, hash, digest, verdict>>

-----------------------------------------------------------------------------
\* get_x and is_valid_soln, on a little-endian machine

Reversed(s) == [i \in 1 .. 8 |-> s[9 - i]]

\* ntohl(solution) == solution: ntohl takes the low four bytes.
NtohlKeeps(s) ==
  /\ \A i \in 1 .. 4 : s[i] = 0
  /\ \A i \in 5 .. 8 : s[i] = s[13 - i]

\* The last eight bytes of x.
NonceEncoded(s) == IF NtohlKeeps(s) THEN Reversed(s) ELSE s

\* The nonce was parsed with the difficulty; here it is used first.
GetX ==
  /\ pc = "getx"
  /\ nonce' \in [1 .. 8 -> NonceBytes]
  /\ x' = [i \in 1 .. 32 |-> <<"seed", i>>] \o
          [i \in 1 .. 8 |-> <<"lit", NonceEncoded(nonce')[i]>>]
  /\ pc' = "first"
  /\ UNCHANGED <<calcVars, target, fed, ctx, hash, digest, verdict>>

Hash(msg) ==
  /\ fed' = msg
  /\ hash' = sha256_final(sha256_update(sha256_init, msg))

HashFirst ==
  /\ pc = "first"
  /\ Hash(x)
  /\ pc' = "second"
  /\ UNCHANGED <<calcVars, target, nonce, x, ctx, digest, verdict>>

HashSecond ==
  /\ pc = "second"
  /\ Hash([i \in 1 .. 32 |-> <<"digest", i>>])
  /\ pc' = "compare"
  /\ UNCHANGED <<calcVars, target, nonce, x, ctx, digest, verdict>>

\* The target, or one that differs from it in one byte by one.
CloseTo(t) ==
  {t} \cup {[t EXCEPT ![i] = v] : i \in {0, 15, 31},
                                  v \in {t[j] + d : j \in {0, 15, 31},
                                                    d \in {-1, 1}} \cap 0 .. 255}

\* Mutant: a digest equal to the target passes.
VerdictOrEqual(d) ==
  IF sha256_compare(d, target) \in {-1, 0} THEN "OKAY" ELSE "ERRO"

Verdict(d) == IF sha256_compare(d, target) = -1 THEN "OKAY" ELSE "ERRO"

Compare ==
  /\ pc = "compare"
  /\ digest' \in CloseTo(target)
  /\ verdict' = Verdict(digest')
  /\ pc' = "done"
  /\ UNCHANGED <<calcVars, target, nonce, x, fed, ctx, hash>>

-----------------------------------------------------------------------------
\* crypto/sha256_test.c

TestInit ==
  /\ pc = "parse"
  /\ pc' = "test"
  /\ ctx' = sha256_init /\ fed' = <<>>
  /\ UNCHANGED <<calcVars, target, nonce, x, hash, digest, verdict>>

TestUpdate ==
  /\ pc = "test"
  /\ \E k \in UpdateLens :
       LET text == [i \in 1 .. k |-> <<"test", Len(fed) + i>>]
       IN /\ Len(fed) + k <= MaxMessage
          /\ fed' = fed \o text
          /\ ctx' = sha256_update(ctx, text)
  /\ UNCHANGED <<pc, calcVars, target, nonce, x, hash, digest, verdict>>

TestFinal ==
  /\ pc = "test"
  /\ hash' = sha256_final(ctx)
  /\ pc' = "tested"
  /\ UNCHANGED <<calcVars, target, nonce, x, fed, ctx, digest, verdict>>

Next ==
  \/ Parse \/ ExpZero \/ ExpEven \/ ExpOdd \/ ExpEnd \/ GetTarget
  \/ GetX \/ HashFirst \/ HashSecond \/ Compare
  \/ TestInit \/ TestUpdate \/ TestFinal

Spec == Init /\ [][Next]_vars

-----------------------------------------------------------------------------
\* Exponents of operands that uint256_mul multiplies right: the first squarings,
\* where the bits carried over land where they should, and then whole bytes.
FewBits == {1, 2, 4}
WholeBytes == {8 * b : b \in 0 .. 31}

\* uint256_exp computes the power of two it is asked for, although uint256_sl and
\* uint256_add are right for few operands: acc and temp are such powers of two,
\* and acc^exp * temp stays 2^E through the loop, or one has overflowed to 0 and
\* stays so, which it may only if 2^E does not fit.
ExpKept ==
  LET E == Exponent(alpha) IN
  pc = "exp" =>
    \/ exp = 0 /\ E = 0
    \/ \E j \in FewBits : acc = Power(j) /\ temp = One /\ j * exp = E
    \/ \E j \in WholeBytes : /\ acc = Power(j) /\ exp > 0
                            /\ \E k \in WholeBytes : /\ temp = Power(k)
                                                    /\ j * exp + k = E
    \/ /\ E >= 256 /\ exp > 0
       /\ acc \in {Zero} \cup {Power(k) : k \in WholeBytes}
       /\ temp \in {Zero} \cup {Power(k) : k \in WholeBytes}
       /\ acc = Zero \/ temp = Zero

\* beta * 2^(8 * (alpha - 3)) modulo 2^256, which moves bytes only; 0 for an
\* exponent below 0.
RefTarget ==
  [i \in Idx |-> IF alpha >= 3 /\ i + alpha - 3 \in 29 .. 31
                 THEN beta[i + alpha - 3 - 28] ELSE 0]

\* The target of a difficulty is exact from the smallest to the largest exponent,
\* the ones that overflow 256 bits and the ones that wrap below 0 included.
TargetExact ==
  pc \in {"getx", "first", "second", "compare", "done"} => target = RefTarget

\* What is compressed is the message, whole, padded as SHA-256 demands, for the
\* 40 bytes of x, for a digest, and for every length around the end of a block,
\* in however many updates the message was fed.
HashedWhole == pc \in {"second", "compare", "tested"} => hash = Reference(fed)

\* readme.txt: "SOLN - checks whether the SOLN is valid". Exactly a digest
\* below the target of the difficulty passes, one equal to it does not.
VerdictRight ==
  pc = "done" => (verdict = "OKAY" <=> Less(digest, RefTarget))

=============================================================================
