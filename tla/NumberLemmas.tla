---------------------------- MODULE NumberLemmas ----------------------------
(***************************************************************************)
(* What the provers do not find by themselves about naturals: products and *)
(* integer division where the divisor is a constant of a specification,    *)
(* induction, and functions defined by recursion.                          *)
(***************************************************************************)
EXTENDS Integers, WellFoundedInduction, TLAPS

\* Multiplication keeps the order.
LEMMA MulMono ==
  ASSUME NEW a \in Nat, NEW b \in Nat, NEW c \in Nat, a <= b
  PROVE  a * c \in Nat /\ b * c \in Nat /\ a * c <= b * c
<1>1. PICK d \in Nat : b = a + d
  OBVIOUS
<1>2. b * c = a * c + d * c /\ a * c \in Nat /\ d * c \in Nat
  BY <1>1
<1> QED BY <1>2

LEMMA MulPositive ==
  ASSUME NEW n \in Nat, n > 0, NEW b \in Nat, b > 0
  PROVE  n * b \in Nat /\ n * b > 0
<1>1. PICK m \in Nat : n = m + 1
  OBVIOUS
<1>2. n * b = m * b + b /\ m * b \in Nat
  BY <1>1
<1> QED BY <1>2

\* Quotient and remainder make up the number.
LEMMA DivModSum ==
  ASSUME NEW b \in Nat, b > 0, NEW x \in Nat
  PROVE  x = (x \div b) * b + (x % b)
<1> DEFINE d == x \div b
           m == x % b
<1>1. d \in Nat /\ m \in Nat /\ x = b * d + m
  OBVIOUS
<1> HIDE DEF d, m
<1>2. b * d = d * b
  BY <1>1
<1>3. x = d * b + m
  BY <1>1, <1>2
<1> QED BY <1>3 DEF d, m

\* They are the only ones that do.
LEMMA DivModUnique ==
  ASSUME NEW b \in Nat, b > 0, NEW q \in Nat, NEW r \in Nat, r < b
  PROVE  (q * b + r) \div b = q /\ (q * b + r) % b = r
<1> DEFINE x == q * b + r
           d == x \div b
           m == x % b
<1>1. x \in Nat /\ d \in Nat /\ m \in 0..(b - 1) /\ x = b * d + m
  OBVIOUS
<1>2. x = q * b + r
  OBVIOUS
<1> HIDE DEF x, d, m
<1>3. ASSUME q < d PROVE FALSE
  <2>1. PICK k \in Nat : d = q + 1 + k
    BY <1>1, <1>3
  <2>2. b * d = q * b + b + k * b /\ k * b \in Nat
    BY <2>1
  <2> QED BY <1>1, <1>2, <2>2
<1>4. ASSUME d < q PROVE FALSE
  <2>1. PICK k \in Nat : q = d + 1 + k
    BY <1>1, <1>4
  <2>2. q * b = b * d + b + k * b /\ k * b \in Nat
    BY <1>1, <2>1
  <2> QED BY <1>1, <1>2, <2>2
<1>5. d = q
  BY <1>1, <1>3, <1>4
<1>6. m = r
  BY <1>1, <1>2, <1>5
<1> QED BY <1>5, <1>6 DEF x, d, m

\* A sum of products below b * n has a quotient below n.
LEMMA DivBelow ==
  ASSUME NEW b \in Nat, b > 0, NEW n \in Nat, NEW x \in Nat, x < n * b
  PROVE  x \div b \in 0..(n - 1)
<1> DEFINE d == x \div b
           m == x % b
<1>1. d \in Nat /\ m \in Nat /\ x = d * b + m
  BY DivModSum
<1> HIDE DEF d, m
<1>2. ASSUME d >= n PROVE FALSE
  <2>1. n * b <= d * b /\ d * b \in Nat /\ n * b \in Nat
    BY <1>1, <1>2, MulMono
  <2> QED BY <1>1, <2>1
<1>3. d \in 0..(n - 1)
  BY <1>1, <1>2
<1> QED BY <1>3 DEF d

(* A position kept as a block and an offset in it moves like the counter   *)
(* it is derived from: n blocks of b places, a steps further.              *)
Located(n, b, t, k, p) == /\ k \in 0..(n - 1) /\ p \in 0..(b - 1)
                          /\ k * b + p = t % (n * b)

LEMMA BlockMove ==
  ASSUME NEW b \in Nat, b > 0, NEW n \in Nat, n > 0, NEW t \in Nat, NEW a \in Nat,
         NEW k, NEW p, Located(n, b, t, k, p)
  PROVE  Located(n, b, t + a, (k + (p + a) \div b) % n, (p + a) % b)
<1> DEFINE q == (p + a) \div b
           r == (p + a) % b
           j == (k + q) \div n
           i == (k + q) % n
           c == n * b
           z == t \div c
<1>0. k \in 0..(n - 1) /\ p \in 0..(b - 1) /\ k * b + p = t % (n * b)
  BY DEF Located
<1>1. q \in Nat /\ r \in 0..(b - 1) /\ p + a = q * b + r
  BY <1>0, DivModSum
<1>2. j \in Nat /\ i \in 0..(n - 1) /\ k + q = j * n + i
  <2>1. k + q \in Nat
    BY <1>0, <1>1
  <2> HIDE DEF q
  <2> QED BY <2>1, DivModSum
<1>3. c \in Nat /\ c > 0
  BY MulPositive
<1> HIDE DEF q, r, i, j
<1>4. z \in Nat /\ t = z * c + (k * b + p)
  <2> HIDE DEF c
  <2>1. k * b + p = t % c
    BY <1>0 DEF c
  <2> QED BY <1>3, <2>1, DivModSum
<1> HIDE DEF z
<1>5. i * b + r \in Nat /\ i * b + r < c
  <2>1. i \in Nat /\ n - 1 \in Nat /\ i <= n - 1
    BY <1>2
  <2>2. i * b \in Nat /\ i * b <= (n - 1) * b
    BY <2>1, MulMono
  <2>3. (n - 1) * b = n * b - b
    OBVIOUS
  <2> QED BY <1>1, <2>2, <2>3 DEF c
<1>6. t + a = (z + j) * c + (i * b + r)
  <2>1. (k + q) * b = k * b + q * b /\ k * b \in Nat /\ q * b \in Nat
    BY <1>0, <1>1
  <2>2. (j * n + i) * b = j * c + i * b
    BY <1>2 DEF c
  <2>3. (z + j) * c = z * c + j * c /\ z * c \in Nat /\ j * c \in Nat
    BY <1>2, <1>3, <1>4
  <2>4. q * b = j * c + i * b - k * b
    BY <1>2, <1>5, <2>1, <2>2
  <2> HIDE DEF c
  <2> DEFINE kb == k * b
             qb == q * b
             zc == z * c
             jc == j * c
             ib == i * b
             sum == (z + j) * c
  <2>5. /\ kb \in Nat /\ qb \in Nat /\ zc \in Nat /\ jc \in Nat /\ ib \in Nat
        /\ r \in Nat /\ a \in Nat /\ p \in Nat /\ t \in Nat /\ sum \in Nat
        /\ t = zc + (kb + p) /\ p + a = qb + r /\ qb = jc + ib - kb
        /\ sum = zc + jc
    BY <1>0, <1>1, <1>2, <1>4, <2>1, <2>3, <2>4
  <2> HIDE DEF kb, qb, zc, jc, ib, sum
  <2>6. t + a = sum + (ib + r)
    BY ONLY <2>5
  <2> QED BY <2>6 DEF ib, sum
<1>7. (t + a) % c = i * b + r
  <2> HIDE DEF c
  <2>1. z + j \in Nat
    BY <1>2, <1>4
  <2> DEFINE x == i * b + r
             y == z + j
  <2>2. x \in Nat /\ x < c /\ y \in Nat /\ t + a = y * c + x
    BY <1>5, <1>6, <2>1
  <2> HIDE DEF x, y
  <2>3. (y * c + x) % c = x
    BY <1>3, <2>2, DivModUnique
  <2> QED BY <2>2, <2>3 DEF x
<1> QED BY <1>1, <1>2, <1>7 DEF Located, q, r, i, j, c

-----------------------------------------------------------------------------
(* Induction and recursion over the first naturals.  The library's theorems    *)
(* about them take an operator, these a set and a function, which the provers  *)
(* can instantiate.                                                            *)

\* A set that has 0 and with a number below n the next one has them all up to n.
LEMMA SetInduction ==
  ASSUME NEW n \in Nat, NEW T, 0 \in T, \A i \in Nat : i < n /\ i \in T => i + 1 \in T
  PROVE  \A i \in 0..n : i \in T
<1> DEFINE Below == OpToRel(<, Nat)
           Bad == {i \in 0..n : i \notin T}
<1>1. SUFFICES ASSUME Bad # {} PROVE FALSE
  OBVIOUS
<1>2. IsWellFoundedOn(Below, Nat)
  BY NatLessThanWellFounded
<1>3. Bad \subseteq Nat
  OBVIOUS
<1>4. PICK x \in Bad : \A y \in Bad : ~(<<y, x>> \in Below)
  <2> HIDE DEF Below, Bad
  <2> QED BY <1>1, <1>2, <1>3, WFMin
<1>5. \A y \in Nat : y < x => <<y, x>> \in Below
  BY <1>3 DEF OpToRel
<1>6. x # 0 /\ x - 1 \in Nat /\ x - 1 < x /\ x - 1 < n /\ (x - 1) + 1 = x
  OBVIOUS
<1> HIDE DEF Below
<1>7. x - 1 \in T
  <2>1. x - 1 \notin Bad
    BY <1>4, <1>5, <1>6
  <2> QED BY <2>1, <1>6
<1> QED BY <1>6, <1>7

\* The greatest element of a set of naturals that has a bound.
LEMMA GreatestBelow ==
  ASSUME NEW n \in Nat, NEW T, T \subseteq 0..n, T # {}
  PROVE  \E m \in T : \A k \in T : k <= m
<1> DEFINE S == {i \in Nat : \A k \in T : k + i <= n}
           U == {i \in 0..n : i \in S}
<1>1. SUFFICES ASSUME \A m \in T : \E k \in T : k > m PROVE FALSE
  OBVIOUS
<1>2. 0 \in S
  OBVIOUS
<1>3. ASSUME NEW i \in Nat, i < n, i \in S PROVE i + 1 \in S
  <2>1. ASSUME NEW k \in T PROVE k + (i + 1) <= n
    <3>1. PICK l \in T : l > k
      BY <1>1
    <3>2. l + i <= n /\ k \in Nat /\ l \in Nat
      BY <1>3, <3>1
    <3> QED BY <3>1, <3>2
  <2> QED BY <2>1
<1>4. n \in S
  <2> HIDE DEF S
  <2> QED BY <1>2, <1>3, SetInduction
<1>5. \A k \in T : k = 0
  <2> SUFFICES ASSUME NEW k \in T PROVE k = 0
    OBVIOUS
  <2>1. k + n <= n /\ k \in Nat
    BY <1>4
  <2> QED BY <2>1
<1>6. PICK m \in T : \E k \in T : k > m
  BY <1>1
<1>7. PICK k \in T : k > m
  BY <1>6
<1> HIDE DEF S
<1> QED BY <1>5, <1>7

\* A recursion whose steps stay in a set has a function that follows it.
Follows(f, n, c, D) == f[0] = c /\ \A i \in 1..n : f[i] = D[<<f[i - 1], i>>]

LEMMA RecursionHasFunction ==
  ASSUME NEW n \in Nat, NEW S, NEW c \in S, NEW D \in [S \X (1..n) -> S]
  PROVE  \E f \in [0..n -> S] : Follows(f, n, c, D)
<1> DEFINE Good(f, k) == f[0] = c /\ \A i \in 1..k : f[i] = D[<<f[i - 1], i>>]
           T == {k \in 0..n : \E f \in [0..n -> S] : Good(f, k)}
<1>1. 0 \in T
  <2> DEFINE f == [i \in 0..n |-> c]
  <2>1. f \in [0..n -> S]
    OBVIOUS
  <2>2. Good(f, 0)
    OBVIOUS
  <2> HIDE DEF f, Good
  <2> QED BY <2>1, <2>2
<1>2. ASSUME NEW k \in Nat, k < n, k \in T PROVE k + 1 \in T
  <2>1. PICK f \in [0..n -> S] : Good(f, k)
    <3> HIDE DEF Good
    <3> QED BY <1>2
  <2>2. k \in 0..n /\ k + 1 \in 1..n /\ f[k] \in S
    <3>1. k \in 0..n /\ k + 1 \in 1..n
      <4> HIDE DEF T
      <4> QED BY <1>2
    <3> QED BY <3>1
  <2> DEFINE d == D[<<f[k], k + 1>>]
             g == [i \in 0..n |-> IF i = k + 1 THEN d ELSE f[i]]
  <2>3. d \in S
    BY <2>2
  <2> HIDE DEF d
  <2>4. g \in [0..n -> S]
    BY <2>3
  <2>5. g[k + 1] = d /\ \A i \in 0..k : g[i] = f[i]
    BY <2>2
  <2> HIDE DEF g
  <2>6. ASSUME NEW i \in 1..(k + 1) PROVE g[i] = D[<<g[i - 1], i>>]
    <3>1. i - 1 \in 0..k
      OBVIOUS
    <3>2. CASE i = k + 1
      <4>1. g[i - 1] = f[k]
        BY <2>5, <3>1, <3>2
      <4> QED BY <2>5, <3>2, <4>1 DEF d
    <3>3. CASE i \in 1..k
      <4>1. i \in 0..k
        BY <3>3
      <4> QED BY <2>1, <2>5, <3>3, <3>1, <4>1
    <3>4. i = k + 1 \/ i \in 1..k
      OBVIOUS
    <3> QED BY <3>2, <3>3, <3>4
  <2>7. Good(g, k + 1)
    BY <2>1, <2>5, <2>6
  <2> HIDE DEF Good
  <2> QED BY <2>2, <2>4, <2>7
<1>3. n \in T
  <2> HIDE DEF T
  <2> QED BY <1>1, <1>2, SetInduction
<1>4. PICK f \in [0..n -> S] : Good(f, n)
  <2> HIDE DEF Good
  <2> QED BY <1>3
<1>5. Follows(f, n, c, D)
  BY <1>4 DEF Follows
<1> QED BY <1>5

=============================================================================
