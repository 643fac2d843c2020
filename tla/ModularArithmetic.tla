--------------------------- MODULE ModularArithmetic ---------------------------
(***************************************************************************)
(* Facts about the remainder of integers by a positive modulus, for the    *)
(* proofs about unsigned indices that wrap.                                *)
(***************************************************************************)
EXTENDS Integers, TLAPS

\* A remainder lies below the modulus.
LEMMA ModRange ==
  ASSUME NEW m \in Nat \ {0}, NEW a \in Int
  PROVE  a % m \in 0..(m - 1)
  BY SMT

\* Quotient and remainder rebuild the number.
LEMMA ModDiv ==
  ASSUME NEW m \in Nat \ {0}, NEW a \in Int
  PROVE  a \div m \in Int /\ a = m * (a \div m) + (a % m)
  BY SMT

\* A number written as a multiple plus a small rest has that rest as remainder.
LEMMA ModChar ==
  ASSUME NEW m \in Nat \ {0}, NEW q \in Int, NEW r \in 0..(m - 1)
  PROVE  (m * q + r) % m = r
  BY SMT

\* A number below the modulus is its own remainder.
LEMMA ModSmall ==
  ASSUME NEW m \in Nat \ {0}, NEW a \in 0..(m - 1)
  PROVE  a % m = a
  BY SMT

\* Zero is the only multiple of m strictly between -m and m.
LEMMA SmallMultiple ==
  ASSUME NEW m \in Nat \ {0}, NEW q \in Int, -m < m * q, m * q < m
  PROVE  q = 0
<1>1. ~(q >= 1)
  <2> SUFFICES ASSUME q >= 1 PROVE FALSE OBVIOUS
  <2>1. m * q >= m * 1 BY SMT
  <2> QED BY <2>1, SMT
<1>2. ~(q <= -1)
  <2> SUFFICES ASSUME q <= -1 PROVE FALSE OBVIOUS
  <2>1. m * q <= m * (-1) BY SMT
  <2> QED BY <2>1, SMT
<1> QED BY <1>1, <1>2, SMT

\* Two numbers less than m apart with the same remainder are equal.
LEMMA ModUnique ==
  ASSUME NEW m \in Nat \ {0}, NEW a \in Int, NEW b \in Int,
         b < a + m, a < b + m, a % m = b % m
  PROVE  a = b
<1> DEFINE qa == a \div m
           qb == b \div m
<1>1. qa \in Int /\ a = m * qa + (a % m) BY ModDiv
<1>2. qb \in Int /\ b = m * qb + (b % m) BY ModDiv
<1>3. a % m \in Int BY ModRange
<1> HIDE DEF qa, qb
<1>4. b - a = m * qb - m * qa BY <1>1, <1>2, <1>3, SMT
<1>5. m * (qb - qa) = m * qb - m * qa BY <1>1, <1>2, SMT
<1>6. qb - qa = 0
  <2>1. qb - qa \in Int BY <1>1, <1>2
  <2>2. -m < m * (qb - qa) /\ m * (qb - qa) < m BY <1>4, <1>5, SMT
  <2> QED BY <2>1, <2>2, SmallMultiple
<1>7. qa = qb BY <1>1, <1>2, <1>6, SMT
<1> QED BY <1>1, <1>2, <1>7, SMT

\* Adding a multiple of m does not change the remainder.
LEMMA ModShift ==
  ASSUME NEW m \in Nat \ {0}, NEW a \in Int, NEW k \in Int
  PROVE  (a + m * k) % m = a % m
<1> DEFINE q == a \div m
           r == a % m
<1>1. q \in Int /\ a = m * q + r BY ModDiv
<1>2. r \in 0..(m - 1) BY ModRange
<1> HIDE DEF q, r
<1>3. a + m * k = m * (q + k) + r BY <1>1, <1>2, SMT
<1>4. (m * (q + k) + r) % m = r BY <1>1, <1>2, ModChar
<1> QED BY <1>3, <1>4 DEF r

\* A summand may be reduced first.
LEMMA ModAdd ==
  ASSUME NEW m \in Nat \ {0}, NEW a \in Int, NEW b \in Int
  PROVE  ((a % m) + b) % m = (a + b) % m
<1> DEFINE q == a \div m
           r == a % m
           s == r + b
<1>1. q \in Int /\ a = m * q + r BY ModDiv
<1>2. r \in Int BY ModRange
<1> HIDE DEF q, r
<1>3. s \in Int BY <1>2
<1>4. a + b = s + m * q BY <1>1, <1>2, SMT
<1> HIDE DEF s
<1>5. (s + m * q) % m = s % m BY <1>1, <1>3, ModShift
<1> QED BY <1>4, <1>5 DEF r, s

\* A subtrahend may be reduced first.
LEMMA ModSub ==
  ASSUME NEW m \in Nat \ {0}, NEW a \in Int, NEW b \in Int
  PROVE  (a - (b % m)) % m = (a - b) % m
<1> DEFINE q == b \div m
           r == b % m
           s == a - r
           k == -q
<1>1. q \in Int /\ b = m * q + r BY ModDiv
<1>2. r \in Int BY ModRange
<1> HIDE DEF q, r
<1>3. s \in Int /\ k \in Int BY <1>1, <1>2
<1>4. a - b = s + m * k BY <1>1, <1>2, SMT
<1> HIDE DEF s, k
<1>5. (s + m * k) % m = s % m BY <1>3, ModShift
<1> QED BY <1>4, <1>5 DEF r, s

\* Reducing by a multiple of c first does not change the remainder by c.
LEMMA ModNested ==
  ASSUME NEW m \in Nat \ {0}, NEW c \in Nat \ {0}, m % c = 0, NEW a \in Int
  PROVE  (a % m) % c = a % c
<1> DEFINE q == a \div m
           r == a % m
           k == m \div c
<1>1. q \in Int /\ a = m * q + r BY ModDiv
<1>2. r \in Int BY ModRange
<1>3. k \in Int /\ m = c * k BY ModDiv
<1> HIDE DEF q, r, k
<1>4. k * q \in Int BY <1>1, <1>3
<1>5. m * q = c * (k * q) BY <1>1, <1>3, SMT
<1>6. a = r + c * (k * q) BY <1>1, <1>2, <1>5, SMT
<1>7. (r + c * (k * q)) % c = r % c BY <1>2, <1>4, ModShift
<1> QED BY <1>6, <1>7 DEF r
================================================================================
