------------------------------- MODULE Uint256 -------------------------------
(***************************************************************************)
(* The 256-bit arithmetic of uint256.h, as it computes: bytes 0 to 31, the *)
(* most significant first. Neither uint256_sl nor uint256_add is right for *)
(* every operand; SolutionCheck checks that they are for the operands they *)
(* are given.                                                              *)
(***************************************************************************)
EXTENDS Integers, FiniteSets

Idx == 0 .. 31

\* uint256_init
Zero == [i \in Idx |-> 0]

One == [Zero EXCEPT ![31] = 1]

\* 2^k as a 256-bit number.
Power(k) == [Zero EXCEPT ![31 - k \div 8] = 2^(k % 8)]

\* a | b of two bytes.
Or(a, b) ==
  LET bit(v) == IF (a \div v) % 2 = 1 \/ (b \div v) % 2 = 1 THEN v ELSE 0
  IN bit(1) + bit(2) + bit(4) + bit(8) + bit(16) + bit(32) + bit(64) + bit(128)

\* The set bits of a, bit 0 the least significant.
Bits(a) == {k \in 0 .. 255 : (a[31 - k \div 8] \div 2^(k % 8)) % 2 = 1}

\* Mutant: the bits carried over are not moved down.
ShiftCarriesUnmoved(res, a, shift) ==
  LET b == shift \div 8
      m == shift % 8
      carry(j) == IF j > 31 THEN 0 ELSE a[j] - (a[j] % 2^(8 - m))
  IN [i \in Idx |-> IF i > 31 - b THEN res[i]
                    ELSE Or((a[i + b] * 2^m) % 256, carry(i + b + 1))]

\* uint256_sl(res, a, shift). The bits a byte hands to the byte before it are
\* shifted right by m, not by 8 - m, and the last bytes of res keep what they
\* held.
uint256_sl(res, a, shift) ==
  LET b == shift \div 8
      m == shift % 8
      carry(j) == IF j > 31 THEN 0 ELSE (a[j] - (a[j] % 2^(8 - m))) \div 2^m
  IN [i \in Idx |-> IF i > 31 - b THEN res[i]
                    ELSE Or((a[i + b] * 2^m) % 256, carry(i + b + 1))]

\* uint256_add(res, a, b). The carry of a byte goes to the byte after it, which
\* is the less significant one.
ByteSums(a, b) ==
  LET temp[i \in Idx] ==
        a[i] + b[i] + IF i = 0 THEN 0 ELSE temp[i - 1] \div 256
  IN temp

uint256_add(a, b) == [i \in Idx |-> ByteSums(a, b)[i] % 256]

\* uint256_mul(res, a, b): for every set bit of b, from the least significant
\* one, a shifted copy of a is added. The copies are made in one buffer, temp.
NthBit(b, r) ==
  CHOOSE k \in Bits(b) : Cardinality({h \in Bits(b) : h < k}) = r - 1

MulRound(before, a, k) ==
  LET copy == uint256_sl(before.temp, a, k)
  IN [temp |-> copy, acc |-> uint256_add(before.acc, copy)]

MulRounds(a, b) ==
  LET round[r \in 0 .. Cardinality(Bits(b))] ==
        IF r = 0 THEN [temp |-> Zero, acc |-> Zero]
        ELSE MulRound(round[r - 1], a, NthBit(b, r))
  IN round

uint256_mul(a, b) == MulRounds(a, b)[Cardinality(Bits(b))].acc
=============================================================================
