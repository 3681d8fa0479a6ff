----------------------------- MODULE CheckProofs -----------------------------
(***************************************************************************)
(* Theorems about SolutionCheck: for every difficulty, nonce, digest and   *)
(* message, of the bytes and lengths the constants allow, the target is    *)
(* exact, x holds the nonce, messages are hashed whole and the verdict is  *)
(* right. OperatorProofs says what the operators return.                   *)
(***************************************************************************)
EXTENDS SolutionCheck, OperatorProofs

-----------------------------------------------------------------------------
(* The exponent *)

LEMMA TwoToLarge ==
  /\ 2^12 = 8 * 512 /\ 2^13 = 8 * 1024 /\ 2^14 = 8 * 2048 /\ 2^15 = 8 * 4096
  /\ 2^16 = 8 * 8192 /\ 2^17 = 8 * 16384 /\ 2^18 = 8 * 32768
  /\ 2^19 = 8 * 65536 /\ 2^20 = 8 * 131072 /\ 2^21 = 8 * 262144
  /\ 2^22 = 8 * 524288 /\ 2^23 = 8 * 1048576 /\ 2^24 = 8 * 2097152
  /\ 2^25 = 8 * 4194304 /\ 2^26 = 8 * 8388608 /\ 2^27 = 8 * 16777216
  /\ 2^28 = 8 * 33554432 /\ 2^29 = 8 * 67108864 /\ 2^30 = 8 * 134217728
  /\ 2^31 = 8 * 268435456 /\ 2^32 = 8 * 536870912
OBVIOUS

LEMMA Modulus == \E n \in Nat : n >= 512 /\ 2^EXP_BITS = 8 * n
<1>1. EXP_BITS \in 12 .. 32
  BY CheckAssumption
<1>2. \/ EXP_BITS = 12 \/ EXP_BITS = 13 \/ EXP_BITS = 14 \/ EXP_BITS = 15
      \/ EXP_BITS = 16 \/ EXP_BITS = 17 \/ EXP_BITS = 18 \/ EXP_BITS = 19
      \/ EXP_BITS = 20 \/ EXP_BITS = 21 \/ EXP_BITS = 22 \/ EXP_BITS = 23
      \/ EXP_BITS = 24 \/ EXP_BITS = 25 \/ EXP_BITS = 26 \/ EXP_BITS = 27
      \/ EXP_BITS = 28 \/ EXP_BITS = 29 \/ EXP_BITS = 30 \/ EXP_BITS = 31
      \/ EXP_BITS = 32
  BY <1>1
<1>3. CASE EXP_BITS = 12
  <2>1. 2^EXP_BITS = 8 * 512
    BY <1>3, TwoToLarge
  <2> QED BY <2>1
<1>4. CASE EXP_BITS = 13
  <2>1. 2^EXP_BITS = 8 * 1024
    BY <1>4, TwoToLarge
  <2> QED BY <2>1
<1>5. CASE EXP_BITS = 14
  <2>1. 2^EXP_BITS = 8 * 2048
    BY <1>5, TwoToLarge
  <2> QED BY <2>1
<1>6. CASE EXP_BITS = 15
  <2>1. 2^EXP_BITS = 8 * 4096
    BY <1>6, TwoToLarge
  <2> QED BY <2>1
<1>7. CASE EXP_BITS = 16
  <2>1. 2^EXP_BITS = 8 * 8192
    BY <1>7, TwoToLarge
  <2> QED BY <2>1
<1>8. CASE EXP_BITS = 17
  <2>1. 2^EXP_BITS = 8 * 16384
    BY <1>8, TwoToLarge
  <2> QED BY <2>1
<1>9. CASE EXP_BITS = 18
  <2>1. 2^EXP_BITS = 8 * 32768
    BY <1>9, TwoToLarge
  <2> QED BY <2>1
<1>10. CASE EXP_BITS = 19
  <2>1. 2^EXP_BITS = 8 * 65536
    BY <1>10, TwoToLarge
  <2> QED BY <2>1
<1>11. CASE EXP_BITS = 20
  <2>1. 2^EXP_BITS = 8 * 131072
    BY <1>11, TwoToLarge
  <2> QED BY <2>1
<1>12. CASE EXP_BITS = 21
  <2>1. 2^EXP_BITS = 8 * 262144
    BY <1>12, TwoToLarge
  <2> QED BY <2>1
<1>13. CASE EXP_BITS = 22
  <2>1. 2^EXP_BITS = 8 * 524288
    BY <1>13, TwoToLarge
  <2> QED BY <2>1
<1>14. CASE EXP_BITS = 23
  <2>1. 2^EXP_BITS = 8 * 1048576
    BY <1>14, TwoToLarge
  <2> QED BY <2>1
<1>15. CASE EXP_BITS = 24
  <2>1. 2^EXP_BITS = 8 * 2097152
    BY <1>15, TwoToLarge
  <2> QED BY <2>1
<1>16. CASE EXP_BITS = 25
  <2>1. 2^EXP_BITS = 8 * 4194304
    BY <1>16, TwoToLarge
  <2> QED BY <2>1
<1>17. CASE EXP_BITS = 26
  <2>1. 2^EXP_BITS = 8 * 8388608
    BY <1>17, TwoToLarge
  <2> QED BY <2>1
<1>18. CASE EXP_BITS = 27
  <2>1. 2^EXP_BITS = 8 * 16777216
    BY <1>18, TwoToLarge
  <2> QED BY <2>1
<1>19. CASE EXP_BITS = 28
  <2>1. 2^EXP_BITS = 8 * 33554432
    BY <1>19, TwoToLarge
  <2> QED BY <2>1
<1>20. CASE EXP_BITS = 29
  <2>1. 2^EXP_BITS = 8 * 67108864
    BY <1>20, TwoToLarge
  <2> QED BY <2>1
<1>21. CASE EXP_BITS = 30
  <2>1. 2^EXP_BITS = 8 * 134217728
    BY <1>21, TwoToLarge
  <2> QED BY <2>1
<1>22. CASE EXP_BITS = 31
  <2>1. 2^EXP_BITS = 8 * 268435456
    BY <1>22, TwoToLarge
  <2> QED BY <2>1
<1>23. CASE EXP_BITS = 32
  <2>1. 2^EXP_BITS = 8 * 536870912
    BY <1>23, TwoToLarge
  <2> QED BY <2>1
<1> QED BY <1>2, <1>3, <1>4, <1>5, <1>6, <1>7, <1>8, <1>9, <1>10, <1>11,
           <1>12, <1>13, <1>14, <1>15, <1>16, <1>17, <1>18, <1>19,
           <1>20, <1>21, <1>22, <1>23

LEMMA Quotient ==
  ASSUME NEW v \in Int, NEW m \in Nat \ {0}
  PROVE  /\ v = m * (v \div m) + (v % m) /\ v \div m \in Int
         /\ v % m \in 0 .. m - 1
OBVIOUS

LEMMA Multiple ==
  ASSUME NEW m \in Nat, NEW q \in Int
  PROVE  (q >= 1 => m * q >= m) /\ (q <= -2 => m * q <= -m - m)
         /\ (q = 0 => m * q = 0) /\ (q = -1 => m * q = -m)
OBVIOUS

LEMMA Remainder ==
  ASSUME NEW v \in Int, NEW m \in Nat, v < m, v >= -m, m > 0
  PROVE  v % m = IF v >= 0 THEN v ELSE v + m
<1> DEFINE q == v \div m
           r == v % m
           p == m * q
<1>1. v = p + r /\ q \in Int /\ r \in 0 .. m - 1
  BY Quotient
<1>2. /\ q >= 1 => p >= m
      /\ q <= -2 => p <= -m - m
      /\ q = 0 => p = 0
      /\ q = -1 => p = -m
  <2> HIDE DEF q
  <2> QED BY <1>1, Multiple
<1>3. p \in Int
  <2> HIDE DEF q
  <2> QED BY <1>1
<1> HIDE DEF p, q, r
<1>4. q = 0 \/ q = -1
  BY <1>1, <1>2, <1>3
<1>5. r = IF v >= 0 THEN v ELSE v + m
  BY <1>1, <1>2, <1>3, <1>4
<1> QED BY <1>5 DEF r

\* 8 * (alpha - 3), or an exponent too large for 256 bits where that is negative.
LEMMA ExponentIs ==
  ASSUME NEW a \in 0 .. 255
  PROVE  /\ a >= 3 => Exponent(a) = 8 * (a - 3)
         /\ a < 3 => Exponent(a) >= 256
         /\ \E h \in Nat : Exponent(a) = 8 * h
<1>1. PICK n \in Nat : n >= 512 /\ 2^EXP_BITS = 8 * n
  BY Modulus
<1> DEFINE v == 8 * (a - 3)
           m == 8 * n
<1>2. Exponent(a) = v % m
  BY <1>1 DEF Exponent
<1>3. m \in Nat /\ m >= 4096
  BY <1>1
<1>4. v % m = IF v >= 0 THEN v ELSE v + m
  <2>1. v \in Int /\ v < m /\ v >= -m /\ m > 0
    BY <1>3
  <2> HIDE DEF m, v
  <2> QED BY <1>3, <2>1, Remainder
<1>5. CASE a >= 3
  <2>1. v >= 0 /\ a - 3 \in Nat
    BY <1>5
  <2>2. Exponent(a) = 8 * (a - 3)
    BY <1>2, <1>4, <2>1
  <2> QED BY <1>5, <2>1, <2>2
<1>6. CASE a < 3
  <2> DEFINE h == n + a - 3
  <2>1. ~(v >= 0) /\ v + m = 8 * h /\ h \in Nat /\ 8 * h >= 256
    BY <1>1, <1>6
  <2>2. Exponent(a) = 8 * h
    BY <1>2, <1>4, <2>1
  <2>3. ~(a >= 3)
    BY <1>6
  <2> HIDE DEF h
  <2> QED BY <2>1, <2>2, <2>3
<1> QED BY <1>5, <1>6

-----------------------------------------------------------------------------
(* uint256_exp *)

\* What acc and temp are once they hold whole bytes.
Scales == {Zero} \cup {Power(k) : k \in WholeBytes}

LEMMA Whole ==
  ASSUME NEW b \in 0 .. 31
  PROVE  8 * b \in WholeBytes /\ Power(8 * b) \in Scales
BY DEF WholeBytes, Scales

LEMMA Products ==
  ASSUME NEW u \in Scales, NEW v \in Scales
  PROVE  /\ uint256_mul(u, v) \in Scales
         /\ u = Zero \/ v = Zero => uint256_mul(u, v) = Zero
<1>1. CASE v = Zero
  <2>1. uint256_mul(u, v) = Zero
    BY <1>1, MulByZero
  <2> QED BY <2>1 DEF Scales
<1>2. CASE v # Zero
  <2>1. PICK c \in 0 .. 31 : v = Power(8 * c)
    BY <1>2 DEF Scales, WholeBytes
  <2>2. CASE u = Zero
    <3>1. uint256_mul(u, v) = Zero
      BY <2>1, <2>2, ZeroTimesPower
    <3> QED BY <3>1 DEF Scales
  <2>3. CASE u # Zero
    <3>1. PICK b \in 0 .. 31 : u = Power(8 * b)
      BY <2>3 DEF Scales, WholeBytes
    <3>2. CASE b + c <= 31
      <4> DEFINE d == b + c
      <4>1. d \in 0 .. 31
        BY <3>2
      <4>2. uint256_mul(u, v) = Power(8 * d)
        BY <2>1, <3>1, <3>2, PowerTimesPower
      <4> HIDE DEF d
      <4> QED BY <1>2, <2>3, <4>1, <4>2, Whole
    <3>3. CASE b + c > 31
      <4>1. uint256_mul(u, v) = Zero
        BY <2>1, <3>1, <3>3, PowerTimesPower
      <4> QED BY <4>1 DEF Scales
    <3> QED BY <3>2, <3>3
  <2> QED BY <2>2, <2>3
<1> QED BY <1>1, <1>2

\* The cases of ExpKept.
None(e, E) == e = 0 /\ E = 0
Early(e, a, t, E) == \E j \in FewBits : a = Power(j) /\ t = One /\ j * e = E
Late(e, a, t, E) ==
  \E b \in 0 .. 31, c \in 0 .. 31 :
    a = Power(8 * b) /\ e > 0 /\ t = Power(8 * c) /\ (8 * b) * e + 8 * c = E
Over(e, a, t, E) ==
  /\ E >= 256 /\ e > 0 /\ a \in Scales /\ t \in Scales
  /\ a = Zero \/ t = Zero

Kept(e, a, t, E) ==
  None(e, E) \/ Early(e, a, t, E) \/ Late(e, a, t, E) \/ Over(e, a, t, E)

LEMMA LateIs ==
  ASSUME NEW e, NEW a, NEW t, NEW E
  PROVE  Late(e, a, t, E) <=>
           \E j \in WholeBytes : /\ a = Power(j) /\ e > 0
                                 /\ \E k \in WholeBytes : /\ t = Power(k)
                                                         /\ j * e + k = E
<1>1. ASSUME NEW j \in WholeBytes, a = Power(j), e > 0,
             NEW k \in WholeBytes, t = Power(k), j * e + k = E
      PROVE  Late(e, a, t, E)
  <2>1. PICK b \in 0 .. 31 : j = 8 * b
    BY DEF WholeBytes
  <2>2. PICK c \in 0 .. 31 : k = 8 * c
    BY DEF WholeBytes
  <2> QED BY <1>1, <2>1, <2>2, Zenon DEF Late
<1>2. ASSUME NEW b \in 0 .. 31, NEW c \in 0 .. 31, a = Power(8 * b), e > 0,
             t = Power(8 * c), (8 * b) * e + 8 * c = E
      PROVE  \E j \in WholeBytes :
               /\ a = Power(j) /\ e > 0
               /\ \E k \in WholeBytes : t = Power(k) /\ j * e + k = E
  <2>1. 8 * b \in WholeBytes /\ 8 * c \in WholeBytes
    BY Whole
  <2> QED BY <1>2, <2>1, Zenon
<1> QED BY <1>1, <1>2, Zenon DEF Late

LEMMA KeptIs ==
  ExpKept <=> (pc = "exp" => Kept(exp, acc, temp, Exponent(alpha)))
BY LateIs, Zenon DEF ExpKept, Kept, None, Early, Over, Scales

\* Squaring acc where the exponent is even.
LEMMA KeptEven ==
  ASSUME NEW e \in Nat, NEW h \in Nat, e = 2 * h, h > 0, NEW a, NEW t,
         NEW E \in Nat, Kept(e, a, t, E)
  PROVE  Kept(h, uint256_mul(a, a), t, E)
<1>1. ~None(e, E)
  BY DEF None
<1>2. CASE Early(e, a, t, E)
  <2>1. PICK j \in FewBits : a = Power(j) /\ t = One /\ j * e = E
    BY <1>2 DEF Early
  <2>2. CASE j = 1
    <3>1. uint256_mul(a, a) = Power(2) /\ 2 * h = E
      BY <2>1, <2>2, FirstSquares
    <3> QED BY <2>1, <3>1 DEF Kept, Early, FewBits
  <2>3. CASE j = 2
    <3>1. uint256_mul(a, a) = Power(4) /\ 4 * h = E
      BY <2>1, <2>3, FirstSquares
    <3> QED BY <2>1, <3>1 DEF Kept, Early, FewBits
  <2>4. CASE j = 4
    <3>1. uint256_mul(a, a) = Power(8 * 1) /\ t = Power(8 * 0)
      BY <2>1, <2>4, FirstSquares, OneIsPower
    <3>2. (8 * 1) * h + 8 * 0 = E /\ 1 \in 0 .. 31 /\ 0 \in 0 .. 31
      BY <2>1, <2>4
    <3>3. Late(h, uint256_mul(a, a), t, E)
      BY <3>1, <3>2, Zenon DEF Late
    <3> QED BY <3>3 DEF Kept
  <2> QED BY <2>2, <2>3, <2>4 DEF FewBits
<1>3. CASE Late(e, a, t, E)
  <2>1. PICK b \in 0 .. 31, c \in 0 .. 31 :
          a = Power(8 * b) /\ t = Power(8 * c) /\ (8 * b) * e + 8 * c = E
    BY <1>3 DEF Late
  <2> DEFINE d == b + b
  <2>2. (8 * d) * h + 8 * c = E
    BY <2>1
  <2>3. CASE d <= 31
    <3>1. uint256_mul(a, a) = Power(8 * d) /\ d \in 0 .. 31
      BY <2>1, <2>3, PowerTimesPower
    <3> HIDE DEF d
    <3>2. Late(h, uint256_mul(a, a), t, E)
      BY <2>1, <2>2, <3>1, Zenon DEF Late
    <3> QED BY <3>2 DEF Kept
  <2>4. CASE d > 31
    <3>1. uint256_mul(a, a) = Zero
      BY <2>1, <2>4, PowerTimesPower
    <3>2. E >= 256
      <4> DEFINE f == 8 * d
      <4>1. f \in Nat /\ f >= 256 /\ f * h + 8 * c = E
        BY <2>2, <2>4
      <4> HIDE DEF f
      <4>2. f * h >= f /\ f * h \in Nat
        BY <4>1, Multiple
      <4> QED BY <4>1, <4>2
    <3>3. t \in Scales /\ Zero \in Scales
      BY <2>1, Whole DEF Scales
    <3> QED BY <3>1, <3>2, <3>3, Zenon DEF Kept, Over
  <2> QED BY <2>3, <2>4
<1>4. CASE Over(e, a, t, E)
  <2>1. /\ a \in Scales /\ t \in Scales /\ E >= 256
        /\ a = Zero \/ t = Zero
    BY <1>4 DEF Over
  <2>2. uint256_mul(a, a) \in Scales /\ (a = Zero => uint256_mul(a, a) = Zero)
    BY <2>1, Products, Zenon
  <2> QED BY <2>1, <2>2, Zenon DEF Kept, Over
<1> QED BY <1>1, <1>2, <1>3, <1>4 DEF Kept

\* While acc has few bits the exponent is even: E is a multiple of 8.
LEMMA EarlyIsEven ==
  ASSUME NEW e \in Nat, NEW a, NEW t, NEW n \in Nat, Early(e, a, t, 8 * n)
  PROVE  e % 2 = 0
<1>1. PICK j \in FewBits : j * e = 8 * n
  BY DEF Early
<1>2. CASE j = 1
  BY <1>1, <1>2
<1>3. CASE j = 2
  BY <1>1, <1>3
<1>4. CASE j = 4
  BY <1>1, <1>4
<1> QED BY <1>2, <1>3, <1>4 DEF FewBits

\* Squaring acc and multiplying temp where the exponent is odd.
LEMMA KeptOdd ==
  ASSUME NEW e \in Nat, NEW h \in Nat, e = 2 * h + 1, h > 0, NEW a, NEW t,
         NEW E \in Nat, NEW n \in Nat, E = 8 * n, Kept(e, a, t, E)
  PROVE  Kept(h, uint256_mul(a, a), uint256_mul(a, t), E)
<1>1. ~None(e, E) /\ ~Early(e, a, t, E)
  <2>1. ~None(e, E) /\ e % 2 # 0
    BY DEF None
  <2> QED BY <2>1, EarlyIsEven
<1>2. CASE Late(e, a, t, E)
  <2>1. PICK b \in 0 .. 31, c \in 0 .. 31 :
          a = Power(8 * b) /\ t = Power(8 * c) /\ (8 * b) * e + 8 * c = E
    BY <1>2 DEF Late
  <2> DEFINE d == b + b
             f == b + c
             s == 8 * d
  <2>2. s * h + 8 * f = E
    BY <2>1
  <2>3. /\ s * h \in Nat /\ f \in Nat /\ d \in Nat
        /\ s * h >= s
    <3>1. s \in Nat
      OBVIOUS
    <3> HIDE DEF s
    <3> QED BY <3>1, Multiple
  <2>4. CASE d <= 31 /\ f <= 31
    <3>1. /\ uint256_mul(a, a) = Power(8 * d) /\ d \in 0 .. 31
          /\ uint256_mul(a, t) = Power(8 * f) /\ f \in 0 .. 31
      BY <2>1, <2>4, PowerTimesPower
    <3> HIDE DEF d, f
    <3>2. Late(h, uint256_mul(a, a), uint256_mul(a, t), E)
      BY <2>2, <3>1, Zenon DEF Late
    <3> QED BY <3>2 DEF Kept
  <2>5. CASE ~(d <= 31 /\ f <= 31)
    <3>1. a \in Scales /\ t \in Scales
      BY <2>1, Whole
    <3>2. uint256_mul(a, a) \in Scales /\ uint256_mul(a, t) \in Scales
      BY <3>1, Products, Zenon
    <3>3. uint256_mul(a, a) = Zero \/ uint256_mul(a, t) = Zero
      BY <2>1, <2>5, PowerTimesPower
    <3>4. E >= 256
      <4> DEFINE g == s * h
      <4>1. g + 8 * f = E /\ g \in Nat /\ g >= 8 * d
        BY <2>2, <2>3
      <4> HIDE DEF g
      <4> QED BY <2>5, <4>1
    <3> QED BY <3>2, <3>3, <3>4, Zenon DEF Kept, Over
  <2> QED BY <2>4, <2>5
<1>3. CASE Over(e, a, t, E)
  <2>1. /\ a \in Scales /\ t \in Scales /\ E >= 256
        /\ a = Zero \/ t = Zero
    BY <1>3 DEF Over
  <2>2. /\ uint256_mul(a, a) \in Scales /\ uint256_mul(a, t) \in Scales
        /\ a = Zero => uint256_mul(a, a) = Zero
        /\ t = Zero => uint256_mul(a, t) = Zero
    BY <2>1, Products, Zenon
  <2> QED BY <2>1, <2>2, Zenon DEF Kept, Over
<1> QED BY <1>1, <1>2, <1>3 DEF Kept

\* The last multiplication.
LEMMA KeptEnd ==
  ASSUME NEW a, NEW t, NEW E \in Nat, NEW n \in Nat, E = 8 * n, Kept(1, a, t, E)
  PROVE  uint256_mul(a, t) = IF E < 256 THEN Power(E) ELSE Zero
<1>1. ~None(1, E) /\ ~Early(1, a, t, E)
  <2>1. ~None(1, E) /\ 1 % 2 # 0 /\ 1 \in Nat
    BY DEF None
  <2> QED BY <2>1, EarlyIsEven
<1>2. CASE Late(1, a, t, E)
  <2>1. PICK b \in 0 .. 31, c \in 0 .. 31 :
          a = Power(8 * b) /\ t = Power(8 * c) /\ (8 * b) * 1 + 8 * c = E
    BY <1>2 DEF Late
  <2>2. E = 8 * (b + c)
    BY <2>1
  <2>3. CASE b + c <= 31
    <3>1. E < 256
      BY <2>2, <2>3
    <3>2. uint256_mul(a, t) = Power(8 * (b + c))
      BY <2>1, <2>3, PowerTimesPower
    <3> QED BY <2>2, <3>1, <3>2, Zenon
  <2>4. CASE b + c > 31
    <3>1. ~(E < 256)
      BY <2>2, <2>4
    <3>2. uint256_mul(a, t) = Zero
      BY <2>1, <2>4, PowerTimesPower
    <3> QED BY <3>1, <3>2, Zenon
  <2> QED BY <2>3, <2>4
<1>3. CASE Over(1, a, t, E)
  <2>1. a \in Scales /\ t \in Scales /\ ~(E < 256) /\ (a = Zero \/ t = Zero)
    BY <1>3 DEF Over
  <2>2. uint256_mul(a, t) = Zero
    BY <2>1, Products, Zenon
  <2> QED BY <2>1, <2>2, Zenon
<1> QED BY <1>1, <1>2, <1>3 DEF Kept

-----------------------------------------------------------------------------
(* The messages that are hashed *)

\* The bytes of a message, known or symbolic.
Symbols == {"seed", "lit", "digest", "test"} \X Nat

LEMMA SymbolSeq ==
  ASSUME NEW n \in Nat, NEW s \in [1 .. n -> Symbols]
  PROVE  s \in Seq(Symbols) /\ Len(s) = n
<1>1. s \in Seq(Symbols)
  BY IsASeq
<1>2. DOMAIN s = 1 .. n
  OBVIOUS
<1> QED BY <1>1, <1>2, LenProperties

\* A context was fed the message.
FedAll(c, msg) == \E q \in Nat, r \in 0 .. 63 : /\ Len(msg) = 64 * q + r
                                                /\ Fed(c, msg, q, r)

LEMMA FedNone == FedAll(sha256_init, <<>>)
<1>1. Len(<<>>) = 64 * 0 + 0 /\ 0 \in Nat /\ 0 \in 0 .. 63
  OBVIOUS
<1>2. Fed(sha256_init, <<>>, 0, 0)
  BY FedNothing
<1> QED BY <1>1, <1>2, Zenon DEF FedAll

LEMMA FedMore ==
  ASSUME NEW c, NEW old \in Seq(Symbols), NEW msg \in Seq(Symbols), FedAll(c, old)
  PROVE  FedAll(sha256_update(c, msg), old \o msg)
<1>1. \E q \in Nat, r \in 0 .. 63 : Len(old) = 64 * q + r /\ Fed(c, old, q, r)
  BY Zenon DEF FedAll
<1>2. \E q \in Nat, r \in 0 .. 63 :
        /\ Len(old \o msg) = 64 * q + r
        /\ Fed(sha256_update(c, msg), old \o msg, q, r)
  BY <1>1, FedMessage, Zenon
<1> QED BY <1>2, Zenon DEF FedAll

LEMMA FinalOfFed ==
  ASSUME NEW c, NEW msg \in Seq(Symbols), FedAll(c, msg)
  PROVE  sha256_final(c) = Reference(msg)
<1>1. PICK q \in Nat, r \in 0 .. 63 : Len(msg) = 64 * q + r /\ Fed(c, msg, q, r)
  BY Zenon DEF FedAll
<1> QED BY <1>1, FinalIsReference

\* What sha256_init, sha256_update and sha256_final compress is the message,
\* padded as SHA-256 demands, whatever its length (below 2^32 bytes, which is what
\* the loop of sha256_update can count).
THEOREM HashIsReference ==
  ASSUME NEW msg \in Seq(Symbols)
  PROVE  sha256_final(sha256_update(sha256_init, msg)) = Reference(msg)
<1>1. <<>> \in Seq(Symbols) /\ <<>> \o msg = msg
  OBVIOUS
<1>2. FedAll(sha256_update(sha256_init, msg), <<>> \o msg)
  BY <1>1, FedNone, FedMore, Zenon
<1>3. FedAll(sha256_update(sha256_init, msg), msg)
  BY <1>1, <1>2, Zenon
<1> QED BY <1>3, FinalOfFed, Zenon

LEMMA HashIs ==
  ASSUME NEW msg \in Seq(Symbols), Hash(msg)
  PROVE  fed' = msg /\ hash' = Reference(fed')
<1>1. fed' = msg /\ hash' = sha256_final(sha256_update(sha256_init, msg))
  BY DEF Hash
<1> QED BY <1>1, HashIsReference, Zenon

-----------------------------------------------------------------------------
(* The inductive invariant *)

CheckTypes ==
  /\ alpha \in 0 .. 255 /\ beta \in [1 .. 3 -> 0 .. 255] /\ exp \in Nat
  /\ fed \in Seq(Symbols)
  /\ pc = "first" => x \in Seq(Symbols)

\* What uint256_exp returned.
PowerReturned ==
  pc = "mul" => temp = IF Exponent(alpha) < 256 THEN Power(Exponent(alpha))
                       ELSE Zero

\* The self test's context has what was fed to it.
TestFed == pc = "test" => FedAll(ctx, fed)

CheckInv ==
  /\ CheckTypes /\ ExpKept /\ PowerReturned /\ TargetExact
  /\ TestFed /\ HashedWhole /\ VerdictRight

LEMMA InitCheckInv == Init => CheckInv
<1> SUFFICES ASSUME Init PROVE CheckInv
  OBVIOUS
<1>1. CheckTypes
  BY DEF Init, CheckTypes
<1> QED BY <1>1 DEF Init, CheckInv, ExpKept, PowerReturned, TargetExact,
                    TestFed, HashedWhole, VerdictRight

LEMMA ParseStep == ASSUME CheckInv, Parse PROVE CheckInv'
<1>1. CheckTypes'
  <2>1. alpha' \in 0 .. 255 /\ beta' \in [1 .. 3 -> 0 .. 255]
    BY CheckAssumption, ZenonT(60) DEF Parse
  <2>2. exp' \in Nat
    <3>1. PICK h \in Nat : Exponent(alpha') = 8 * h
      BY <2>1, ExponentIs
    <3> QED BY <3>1 DEF Parse
  <2>3. fed' \in Seq(Symbols) /\ pc' = "exp"
    BY DEF CheckInv, CheckTypes, Parse
  <2> QED BY <2>1, <2>2, <2>3 DEF CheckTypes
<1>2. ExpKept'
  <2>1. /\ alpha' \in 0 .. 255 /\ exp' = Exponent(alpha') /\ exp' \in Nat
        /\ acc' = Power(1) /\ temp' = One
    BY <1>1, OnePlusOne DEF CheckTypes, Parse
  <2>2. 1 * exp' = Exponent(alpha') /\ 1 \in FewBits
    BY <2>1 DEF FewBits
  <2> QED BY <2>1, <2>2, Zenon DEF ExpKept
<1> QED BY <1>1, <1>2 DEF Parse, CheckInv, PowerReturned, TargetExact,
                          TestFed, HashedWhole, VerdictRight

\* What the steps of the loop of uint256_exp leave alone.
LEMMA LoopTypes ==
  ASSUME CheckInv, exp' \in Nat, pc' \in {"exp", "mul"},
         UNCHANGED <<alpha, beta, target, nonce, x, fed, ctx, hash, digest, verdict>>
  PROVE  /\ CheckTypes' /\ TargetExact'
         /\ TestFed' /\ HashedWhole' /\ VerdictRight'
<1>1. CheckTypes'
  BY DEF CheckInv, CheckTypes
<1> QED BY <1>1 DEF TargetExact, TestFed, HashedWhole, VerdictRight

LEMMA LoopFacts ==
  ASSUME CheckInv, pc = "exp"
  PROVE  /\ exp \in Nat /\ Exponent(alpha) \in Nat
         /\ \E h \in Nat : Exponent(alpha) = 8 * h
         /\ Kept(exp, acc, temp, Exponent(alpha))
<1>1. alpha \in 0 .. 255 /\ exp \in Nat /\ ExpKept
  BY DEF CheckInv, CheckTypes
<1>2. PICK h \in Nat : Exponent(alpha) = 8 * h
  BY <1>1, ExponentIs
<1>3. Exponent(alpha) \in Nat
  BY <1>2
<1> QED BY <1>1, <1>2, <1>3, KeptIs

LEMMA ExpZeroStep == ASSUME CheckInv, ExpZero PROVE CheckInv'
<1>1. pc = "exp" /\ exp = 0 /\ temp' = One /\ pc' = "mul" /\ exp' = exp
      /\ alpha' = alpha
  BY DEF ExpZero
<1>2. Exponent(alpha) = 0
  <2> DEFINE E == Exponent(alpha)
  <2>1. Kept(0, acc, temp, E) /\ E \in Nat
    BY <1>1, LoopFacts
  <2> HIDE DEF E
  <2>2. ~(0 > 0) /\ \A j \in FewBits : j * 0 = 0
    BY DEF FewBits
  <2>3. E = 0
    BY <2>1, <2>2, Zenon DEF Kept, None, Early, Late, Over
  <2> QED BY <2>3 DEF E
<1>3. One = Power(0)
  <2>1. 8 * 0 = 0
    OBVIOUS
  <2> QED BY <2>1, OneIsPower
<1>4. PowerReturned'
  <2>1. Exponent(alpha') = 0 /\ 0 < 256
    BY <1>1, <1>2
  <2> QED BY <1>1, <1>3, <2>1, Zenon DEF PowerReturned
<1>5. ExpKept'
  BY <1>1 DEF ExpKept
<1>6. /\ CheckTypes' /\ TargetExact'
      /\ TestFed' /\ HashedWhole' /\ VerdictRight'
  BY <1>1, LoopFacts, LoopTypes DEF ExpZero
<1> QED BY <1>4, <1>5, <1>6 DEF CheckInv

\* The invariant in the next state, from the powers there.
LEMMA KeptNext ==
  ASSUME NEW e, NEW a, NEW t, exp' = e, acc' = a, temp' = t, alpha' = alpha,
         pc' = "exp", Kept(e, a, t, Exponent(alpha))
  PROVE  ExpKept'
<1>1. ExpKept' <=>
        (pc' = "exp" => Kept(exp', acc', temp', Exponent(alpha')))
  BY LateIs, Zenon DEF ExpKept, Kept, None, Early, Over, Scales
<1> QED BY <1>1, Zenon

LEMMA Halved ==
  ASSUME NEW e \in Nat, e > 1
  PROVE  /\ e % 2 = 0 => /\ e = 2 * (e \div 2) /\ e \div 2 \in Nat
                         /\ e \div 2 > 0
         /\ e % 2 = 1 => /\ e = 2 * ((e - 1) \div 2) + 1
                         /\ (e - 1) \div 2 \in Nat /\ (e - 1) \div 2 > 0
OBVIOUS

LEMMA ExpEvenStep == ASSUME CheckInv, ExpEven PROVE CheckInv'
<1> DEFINE h == exp \div 2
           E == Exponent(alpha)
<1>1. /\ pc = "exp" /\ pc' = "exp" /\ exp > 1 /\ exp % 2 = 0 /\ exp' = h
      /\ acc' = uint256_mul(acc, acc) /\ temp' = temp /\ alpha' = alpha
  BY DEF ExpEven
<1>2. /\ exp \in Nat /\ E \in Nat /\ Kept(exp, acc, temp, E)
      /\ exp = 2 * h /\ h \in Nat /\ h > 0
  BY <1>1, LoopFacts, Halved
<1> HIDE DEF h, E
<1>3. Kept(h, uint256_mul(acc, acc), temp, E)
  BY <1>2, KeptEven, Zenon
<1>4. ExpKept'
  BY <1>1, <1>3, KeptNext DEF E
<1>5. PowerReturned'
  BY <1>1 DEF PowerReturned
<1>6. /\ CheckTypes' /\ TargetExact'
      /\ TestFed' /\ HashedWhole' /\ VerdictRight'
  BY <1>1, <1>2, LoopTypes DEF ExpEven
<1> QED BY <1>4, <1>5, <1>6 DEF CheckInv

LEMMA ExpOddStep == ASSUME CheckInv, ExpOdd PROVE CheckInv'
<1> DEFINE h == (exp - 1) \div 2
           E == Exponent(alpha)
<1>1. /\ pc = "exp" /\ pc' = "exp" /\ exp > 1 /\ exp % 2 = 1 /\ exp' = h
      /\ acc' = uint256_mul(acc, acc) /\ temp' = uint256_mul(acc, temp)
      /\ alpha' = alpha
  BY DEF ExpOdd
<1>2. /\ exp \in Nat /\ E \in Nat /\ Kept(exp, acc, temp, E)
      /\ exp = 2 * h + 1 /\ h \in Nat /\ h > 0
  BY <1>1, LoopFacts, Halved
<1>3. PICK n \in Nat : E = 8 * n
  BY <1>1, LoopFacts
<1> HIDE DEF h, E
<1>4. Kept(h, uint256_mul(acc, acc), uint256_mul(acc, temp), E)
  BY <1>2, <1>3, KeptOdd, Zenon
<1>5. ExpKept'
  BY <1>1, <1>4, KeptNext DEF E
<1>6. PowerReturned'
  BY <1>1 DEF PowerReturned
<1>7. /\ CheckTypes' /\ TargetExact'
      /\ TestFed' /\ HashedWhole' /\ VerdictRight'
  BY <1>1, <1>2, LoopTypes DEF ExpOdd
<1> QED BY <1>5, <1>6, <1>7 DEF CheckInv

LEMMA ExpEndStep == ASSUME CheckInv, ExpEnd PROVE CheckInv'
<1> DEFINE E == Exponent(alpha)
<1>1. /\ pc = "exp" /\ pc' = "mul" /\ exp = 1 /\ exp' = exp
      /\ temp' = uint256_mul(acc, temp) /\ alpha' = alpha
  BY DEF ExpEnd
<1>2. exp \in Nat /\ E \in Nat /\ Kept(1, acc, temp, E)
  BY <1>1, LoopFacts
<1>3. PICK n \in Nat : E = 8 * n
  BY <1>1, LoopFacts
<1> HIDE DEF E
<1>4. uint256_mul(acc, temp) = IF E < 256 THEN Power(E) ELSE Zero
  BY <1>2, <1>3, KeptEnd, Zenon
<1>5. PowerReturned'
  BY <1>1, <1>4, Zenon DEF PowerReturned, E
<1>6. ExpKept'
  BY <1>1 DEF ExpKept
<1>7. /\ CheckTypes' /\ TargetExact'
      /\ TestFed' /\ HashedWhole' /\ VerdictRight'
  BY <1>1, <1>2, LoopTypes DEF ExpEnd
<1> QED BY <1>5, <1>6, <1>7 DEF CheckInv

\* The product of beta and what uint256_exp returned.
LEMMA GetTargetStep == ASSUME CheckInv, GetTarget PROVE CheckInv'
<1> DEFINE E == Exponent(alpha)
<1>1. /\ pc = "mul" /\ pc' = "getx" /\ target' = uint256_mul(Beta, temp)
      /\ UNCHANGED <<alpha, beta, exp, fed>>
      /\ alpha \in 0 .. 255 /\ beta \in [1 .. 3 -> 0 .. 255]
      /\ temp = IF E < 256 THEN Power(E) ELSE Zero
  BY DEF GetTarget, calcVars, CheckInv, CheckTypes, PowerReturned
<1>2. /\ alpha >= 3 => E = 8 * (alpha - 3)
      /\ alpha < 3 => E >= 256
      /\ E \in Nat
  <2>1. PICK h \in Nat : E = 8 * h
    BY <1>1, ExponentIs
  <2>2. E \in Nat
    BY <2>1
  <2> QED BY <1>1, <2>2, ExponentIs
<1>3. /\ \A i \in 0 .. 28 : Beta[i] = 0
      /\ \A i \in 29 .. 31 : Beta[i] = beta[i - 28]
  BY DEF Beta, Zero, Idx
<1> DEFINE ref(i) == IF alpha >= 3 /\ i + alpha - 3 \in 29 .. 31
                     THEN beta[i + alpha - 3 - 28] ELSE 0
<1>4. target' = [i \in Idx |-> ref(i)]
  <2>1. CASE alpha >= 3 /\ E < 256
    <3> DEFINE b == alpha - 3
    <3>1. b \in 0 .. 31 /\ E = 8 * b
      BY <1>1, <1>2, <2>1
    <3>2. \A i \in Idx : Beta[i] \in 0 .. 255
      <4> TAKE i \in Idx
      <4>1. CASE i \in 0 .. 28
        BY <1>3, <4>1
      <4>2. CASE i \in 29 .. 31
        <5>1. i - 28 \in 1 .. 3
          BY <4>2
        <5> QED BY <1>1, <1>3, <4>2, <5>1
      <4> QED BY <4>1, <4>2 DEF Idx
    <3> HIDE DEF b
    <3>3. uint256_mul(Beta, Power(8 * b))
            = [i \in Idx |-> IF i > 31 - b THEN 0 ELSE Beta[i + b]]
      BY <3>1, <3>2, MulMovesBytes, Zenon
    <3>4. ASSUME NEW i \in Idx
          PROVE  (IF i > 31 - b THEN 0 ELSE Beta[i + b]) = ref(i)
      <4>1. i + alpha - 3 = i + b /\ alpha >= 3
        BY <1>1, <2>1 DEF b
      <4>2. CASE i > 31 - b
        <5>1. ~(i + b \in 29 .. 31)
          BY <3>1, <4>2 DEF Idx
        <5> QED BY <4>1, <4>2, <5>1
      <4>3. CASE i + b \in 29 .. 31
        <5>1. ~(i > 31 - b)
          BY <3>1, <4>3 DEF Idx
        <5>2. Beta[i + b] = beta[(i + b) - 28]
          BY <1>3, <4>3
        <5>3. (i + b) - 28 = i + alpha - 3 - 28
          BY <1>1, <3>1, <4>1 DEF Idx
        <5> QED BY <4>1, <4>3, <5>1, <5>2, <5>3, Zenon
      <4>4. CASE i + b \in 0 .. 28
        <5>1. ~(i > 31 - b) /\ ~(i + b \in 29 .. 31)
          BY <3>1, <4>4 DEF Idx
        <5>2. Beta[i + b] = 0
          BY <1>3, <4>4
        <5> QED BY <4>1, <5>1, <5>2
      <4> QED BY <3>1, <4>2, <4>3, <4>4 DEF Idx
    <3> HIDE DEF ref
    <3>5. target' = [i \in Idx |-> IF i > 31 - b THEN 0 ELSE Beta[i + b]]
      BY <1>1, <2>1, <3>1, <3>3, Zenon
    <3> QED BY <3>4, <3>5, Zenon
  <2>2. CASE ~(alpha >= 3 /\ E < 256)
    <3>1. E >= 256
      BY <1>1, <1>2, <2>2
    <3>2. temp = Zero
      <4>1. ~(E < 256)
        BY <1>2, <3>1
      <4> QED BY <1>1, <4>1, Zenon
    <3>3. target' = Zero
      BY <1>1, <3>2, MulByZero
    <3>4. ASSUME NEW i \in Idx PROVE ref(i) = 0
      <4>1. CASE alpha < 3
        BY <1>1, <4>1
      <4>2. CASE alpha >= 3
        <5>1. i + alpha - 3 > 31
          BY <1>1, <1>2, <3>1, <4>2 DEF Idx
        <5> QED BY <1>1, <5>1 DEF Idx
      <4> QED BY <1>1, <4>1, <4>2
    <3> HIDE DEF ref
    <3> QED BY <3>3, <3>4, Zenon DEF Zero
  <2> QED BY <2>1, <2>2
<1>5. TargetExact'
  <2>1. alpha' = alpha /\ beta' = beta
    BY <1>1
  <2> QED BY <1>4, <2>1, Zenon DEF TargetExact, RefTarget
<1>6. CheckTypes'
  BY <1>1 DEF CheckInv, CheckTypes
<1> HIDE DEF ref, E
<1> QED BY <1>1, <1>5, <1>6 DEF CheckInv, ExpKept, PowerReturned,
                                TestFed, HashedWhole, VerdictRight

-----------------------------------------------------------------------------
(* get_x, the hashes and the verdict *)

LEMMA TargetStays ==
  ASSUME TargetExact, pc \in {"getx", "first", "second", "compare", "done"},
         UNCHANGED <<alpha, beta, target>>
  PROVE  TargetExact'
<1>1. target = RefTarget
  BY DEF TargetExact
<1>2. RefTarget' = RefTarget
  BY DEF RefTarget
<1> QED BY <1>1, <1>2 DEF TargetExact

LEMMA GetXStep == ASSUME CheckInv, GetX PROVE CheckInv'
<1> DEFINE code == NonceEncoded(nonce')
           seed == [i \in 1 .. 32 |-> <<"seed", i>>]
           tail == [i \in 1 .. 8 |-> <<"lit", code[i]>>]
<1>1. /\ pc = "getx" /\ pc' = "first" /\ nonce' \in [1 .. 8 -> 0 .. 255]
      /\ x' = seed \o tail
      /\ UNCHANGED <<alpha, beta, exp, target, fed>>
  BY CheckAssumption, ZenonT(60) DEF GetX, calcVars
<1>2. \A i \in 1 .. 8 : code[i] \in Nat
  <2> HIDE DEF code
  <2> TAKE i \in 1 .. 8
  <2>1. code[i] = nonce'[9 - i] \/ code[i] = nonce'[i]
    BY DEF NonceEncoded, Reversed, code
  <2>2. 9 - i \in 1 .. 8
    BY SMTT(60)
  <2>3. nonce'[9 - i] \in 0 .. 255 /\ nonce'[i] \in 0 .. 255
    BY <1>1, <2>2
  <2> QED BY <2>1, <2>3
<1>3. seed \in Seq(Symbols) /\ Len(seed) = 32
  <2>1. seed \in [1 .. 32 -> Symbols]
    BY DEF Symbols
  <2> HIDE DEF seed
  <2> QED BY <2>1, SymbolSeq
<1>4. tail \in Seq(Symbols) /\ Len(tail) = 8
  <2> HIDE DEF code
  <2>1. tail \in [1 .. 8 -> Symbols]
    BY <1>2 DEF Symbols
  <2> HIDE DEF tail
  <2> QED BY <2>1, SymbolSeq
<1>5. x' \in Seq(Symbols)
  <2> HIDE DEF seed, tail
  <2> QED BY <1>1, <1>3, <1>4, ConcatProperties, ZenonT(60)
<1>6. CheckTypes'
  BY <1>1, <1>5, ZenonT(60) DEF CheckInv, CheckTypes
<1>7. TargetExact'
  BY <1>1, TargetStays DEF CheckInv
<1> HIDE DEF code, seed, tail
<1> QED BY <1>1, <1>6, <1>7 DEF CheckInv, ExpKept, PowerReturned, TestFed,
                                HashedWhole, VerdictRight

LEMMA HashFirstStep == ASSUME CheckInv, HashFirst PROVE CheckInv'
<1>1. /\ pc = "first" /\ pc' = "second" /\ Hash(x) /\ x \in Seq(Symbols)
      /\ UNCHANGED <<alpha, beta, exp, target>>
  BY DEF HashFirst, calcVars, CheckInv, CheckTypes
<1>2. fed' = x /\ hash' = Reference(fed')
  BY <1>1, HashIs
<1>3. CheckTypes'
  BY <1>1, <1>2 DEF CheckInv, CheckTypes
<1>4. TargetExact'
  BY <1>1, TargetStays DEF CheckInv
<1> QED BY <1>1, <1>2, <1>3, <1>4 DEF CheckInv, ExpKept, PowerReturned,
                                      TestFed, HashedWhole, VerdictRight

LEMMA HashSecondStep == ASSUME CheckInv, HashSecond PROVE CheckInv'
<1> DEFINE msg == [i \in 1 .. 32 |-> <<"digest", i>>]
<1>1. /\ pc = "second" /\ pc' = "compare" /\ Hash(msg)
      /\ UNCHANGED <<alpha, beta, exp, target>>
  BY DEF HashSecond, calcVars
<1>2. msg \in Seq(Symbols)
  <2>1. msg \in [1 .. 32 -> Symbols]
    BY DEF Symbols
  <2> HIDE DEF msg
  <2> QED BY <2>1, SymbolSeq
<1> HIDE DEF msg
<1>3. fed' = msg /\ hash' = Reference(fed')
  BY <1>1, <1>2, HashIs
<1>4. CheckTypes'
  BY <1>1, <1>2, <1>3 DEF CheckInv, CheckTypes
<1>5. TargetExact'
  BY <1>1, TargetStays DEF CheckInv
<1> QED BY <1>1, <1>3, <1>4, <1>5 DEF CheckInv, ExpKept, PowerReturned,
                                      TestFed, HashedWhole, VerdictRight

LEMMA CompareStep == ASSUME CheckInv, Compare PROVE CheckInv'
<1>1. /\ pc = "compare" /\ pc' = "done" /\ digest' \in CloseTo(target)
      /\ verdict' = Verdict(digest')
      /\ UNCHANGED <<alpha, beta, exp, target, fed>>
  BY DEF Compare, calcVars
<1>2. target = RefTarget /\ RefTarget' = RefTarget
  BY <1>1 DEF CheckInv, TargetExact, RefTarget
<1>3. target \in [0 .. 31 -> Int]
  <2>1. alpha \in 0 .. 255 /\ beta \in [1 .. 3 -> 0 .. 255]
    BY DEF CheckInv, CheckTypes
  <2>2. ASSUME NEW i \in 0 .. 31
        PROVE  (IF alpha >= 3 /\ i + alpha - 3 \in 29 .. 31
                THEN beta[i + alpha - 3 - 28] ELSE 0) \in Int
    <3>1. CASE alpha >= 3 /\ i + alpha - 3 \in 29 .. 31
      <4>1. i + alpha - 3 - 28 \in 1 .. 3
        BY <2>1, <3>1
      <4>2. beta[i + alpha - 3 - 28] \in 0 .. 255
        BY <2>1, <4>1
      <4> QED BY <3>1, <4>2
    <3>2. CASE ~(alpha >= 3 /\ i + alpha - 3 \in 29 .. 31)
      BY <3>2
    <3> QED BY <3>1, <3>2
  <2> QED BY <1>2, <2>2 DEF RefTarget, Idx
<1>4. digest' \in [0 .. 31 -> Int]
  BY <1>1, <1>3 DEF CloseTo
<1>5. verdict' = "OKAY" <=> Less(digest', target)
  <2>1. sha256_compare(digest', target) = -1 <=> Less(digest', target)
    BY <1>3, <1>4, CompareIsLess
  <2>2. "OKAY" # "ERRO"
    OBVIOUS
  <2> QED BY <1>1, <2>1, <2>2, Zenon DEF Verdict
<1>6. VerdictRight'
  BY <1>2, <1>5, Zenon DEF VerdictRight
<1>7. CheckTypes'
  BY <1>1 DEF CheckInv, CheckTypes
<1>8. TargetExact'
  BY <1>1, TargetStays DEF CheckInv
<1> QED BY <1>1, <1>6, <1>7, <1>8 DEF CheckInv, ExpKept, PowerReturned,
                                      TestFed, HashedWhole

-----------------------------------------------------------------------------
(* The self test *)

LEMMA TestInitStep == ASSUME CheckInv, TestInit PROVE CheckInv'
<1>1. /\ pc' = "test" /\ ctx' = sha256_init /\ fed' = <<>>
      /\ UNCHANGED <<alpha, beta, exp>>
  BY DEF TestInit, calcVars
<1>2. FedAll(ctx', fed')
  BY <1>1, FedNone
<1>3. CheckTypes'
  BY <1>1 DEF CheckInv, CheckTypes
<1> QED BY <1>1, <1>2, <1>3 DEF CheckInv, ExpKept, PowerReturned, TargetExact,
                                TestFed, HashedWhole, VerdictRight

LEMMA TestUpdateStep == ASSUME CheckInv, TestUpdate PROVE CheckInv'
<1>1. /\ pc = "test" /\ pc' = "test" /\ UNCHANGED <<alpha, beta, exp>>
      /\ fed \in Seq(Symbols) /\ FedAll(ctx, fed)
  BY DEF TestUpdate, calcVars, CheckInv, CheckTypes, TestFed
<1>2. PICK k \in UpdateLens :
        /\ fed' = fed \o [i \in 1 .. k |-> <<"test", Len(fed) + i>>]
        /\ ctx' = sha256_update(ctx, [i \in 1 .. k |-> <<"test", Len(fed) + i>>])
  BY DEF TestUpdate
<1> DEFINE text == [i \in 1 .. k |-> <<"test", Len(fed) + i>>]
<1>3. text \in Seq(Symbols)
  <2>1. k \in Nat /\ Len(fed) \in Nat
    BY <1>1, CheckAssumption, LenProperties
  <2>2. text \in [1 .. k -> Symbols]
    BY <2>1 DEF Symbols
  <2> HIDE DEF text
  <2> QED BY <2>1, <2>2, SymbolSeq
<1>4. fed' = fed \o text /\ ctx' = sha256_update(ctx, text)
  BY <1>2
<1> HIDE DEF text
<1>5. FedAll(ctx', fed')
  BY <1>1, <1>3, <1>4, FedMore
<1>6. fed' \in Seq(Symbols)
  BY <1>1, <1>3, <1>4, ConcatProperties
<1>7. CheckTypes'
  BY <1>1, <1>6 DEF CheckInv, CheckTypes
<1> QED BY <1>1, <1>5, <1>7 DEF CheckInv, ExpKept, PowerReturned, TargetExact,
                                TestFed, HashedWhole, VerdictRight

LEMMA TestFinalStep == ASSUME CheckInv, TestFinal PROVE CheckInv'
<1>1. /\ pc = "test" /\ pc' = "tested" /\ UNCHANGED <<alpha, beta, exp, fed>>
      /\ hash' = sha256_final(ctx)
      /\ fed \in Seq(Symbols) /\ FedAll(ctx, fed)
  BY DEF TestFinal, calcVars, CheckInv, CheckTypes, TestFed
<1>2. hash' = Reference(fed')
  BY <1>1, FinalOfFed
<1>3. CheckTypes'
  BY <1>1 DEF CheckInv, CheckTypes
<1> QED BY <1>1, <1>2, <1>3 DEF CheckInv, ExpKept, PowerReturned, TargetExact,
                                TestFed, HashedWhole, VerdictRight

LEMMA StutterStep == ASSUME CheckInv, UNCHANGED vars PROVE CheckInv'
<1>1. /\ CheckTypes' <=> CheckTypes
      /\ ExpKept' <=> ExpKept
      /\ PowerReturned' <=> PowerReturned
  BY DEF vars, calcVars, CheckTypes, ExpKept, PowerReturned
<1>2. /\ TargetExact' <=> TargetExact
      /\ VerdictRight' <=> VerdictRight
  BY DEF vars, calcVars, TargetExact, VerdictRight, RefTarget
<1>3. /\ TestFed' <=> TestFed
      /\ HashedWhole' <=> HashedWhole
  BY DEF vars, calcVars, TestFed, HashedWhole
<1> QED BY <1>1, <1>2, <1>3 DEF CheckInv

-----------------------------------------------------------------------------
(* The theorems *)

\* The parts above hold together, in every reachable state.
THEOREM CheckInvHolds == Spec => []CheckInv
<1>1. Init => CheckInv
  BY InitCheckInv
<1>2. CheckInv /\ [Next]_vars => CheckInv'
  <2> SUFFICES ASSUME CheckInv, [Next]_vars PROVE CheckInv'
    OBVIOUS
  <2>1. CASE Parse
    BY <2>1, ParseStep
  <2>2. CASE ExpZero
    BY <2>2, ExpZeroStep
  <2>3. CASE ExpEven
    BY <2>3, ExpEvenStep
  <2>4. CASE ExpOdd
    BY <2>4, ExpOddStep
  <2>5. CASE ExpEnd
    BY <2>5, ExpEndStep
  <2>6. CASE GetTarget
    BY <2>6, GetTargetStep
  <2>7. CASE GetX
    BY <2>7, GetXStep
  <2>8. CASE HashFirst
    BY <2>8, HashFirstStep
  <2>9. CASE HashSecond
    BY <2>9, HashSecondStep
  <2>10. CASE Compare
    BY <2>10, CompareStep
  <2>11. CASE TestInit
    BY <2>11, TestInitStep
  <2>12. CASE TestUpdate
    BY <2>12, TestUpdateStep
  <2>13. CASE TestFinal
    BY <2>13, TestFinalStep
  <2>14. CASE UNCHANGED vars
    BY <2>14, StutterStep
  <2> QED BY <2>1, <2>2, <2>3, <2>4, <2>5, <2>6, <2>7, <2>8, <2>9, <2>10, <2>11,
             <2>12, <2>13, <2>14 DEF Next
<1> QED BY <1>1, <1>2, PTL DEF Spec

\* The loop of uint256_exp keeps the power of two it is asked for, although
\* uint256_sl and uint256_add are wrong for most operands.
THEOREM PowerComputed == Spec => []ExpKept
<1>1. CheckInv => ExpKept
  BY DEF CheckInv
<1> QED BY <1>1, CheckInvHolds, PTL

\* get_target computes the target exactly, for every alpha and beta.
THEOREM TargetIsExact == Spec => []TargetExact
<1>1. CheckInv => TargetExact
  BY DEF CheckInv
<1> QED BY <1>1, CheckInvHolds, PTL

\* sha256_update and sha256_final compress the padded message, for messages of
\* every length, fed in any pieces.
THEOREM MessagesHashedWhole == Spec => []HashedWhole
<1>1. CheckInv => HashedWhole
  BY DEF CheckInv
<1> QED BY <1>1, CheckInvHolds, PTL

\* soln_handler answers OKAY to exactly the digests below the target of the
\* difficulty.
THEOREM VerdictIsRight == Spec => []VerdictRight
<1>1. CheckInv => VerdictRight
  BY DEF CheckInv
<1> QED BY <1>1, CheckInvHolds, PTL
=============================================================================
