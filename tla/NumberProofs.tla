----------------------------- MODULE NumberProofs -----------------------------
(***************************************************************************)
(* Facts about numbers that the proofs of several components rest on:      *)
(* induction, division, powers of two and their bits.                      *)
(***************************************************************************)
EXTENDS Bits, WellFoundedInduction, TLAPS

(* Induction. What is to be shown for every number is given as the set of  *)
(* the numbers it holds for, and a step of a recursion as a function of    *)
(* the index and the value before, so that no fact takes an operator.      *)

LEMMA LeastElement ==
  ASSUME NEW S \in SUBSET Nat, S # {}
  PROVE  \E n \in S : \A m \in S : n <= m
<1>1. PICK n \in S : \A m \in S : ~ (<<m, n>> \in OpToRel(<, Nat))
  BY NatLessThanWellFounded, WFMin
<1>2. \A m \in S : m < n => <<m, n>> \in OpToRel(<, Nat)
  BY DEF OpToRel
<1>3. \A m \in S : ~ (m < n)
  BY <1>1, <1>2
<1>4. n \in Nat /\ \A m \in S : m \in Nat
  OBVIOUS
<1>5. QED
  BY <1>3, <1>4

LEMMA SetInduction ==
  ASSUME NEW S, 0 \in S, \A n \in Nat : n \in S => n + 1 \in S
  PROVE  Nat \subseteq S
<1> DEFINE T == Nat \ S
<1>1. SUFFICES ASSUME T # {} PROVE FALSE
  OBVIOUS
<1>2. PICK n \in T : \A m \in T : n <= m
  BY <1>1, LeastElement
<1>3. n \in Nat /\ n # 0
  BY <1>2
<1>4. n - 1 \in S
  BY <1>2, <1>3
<1>5. QED
  BY <1>2, <1>3, <1>4

\* Induction up to a bound.
LEMMA BoundedInduction ==
  ASSUME NEW n \in Nat, NEW S, 0 \in S, \A k \in 0..(n - 1) : k \in S => k + 1 \in S
  PROVE  0..n \subseteq S
<1> DEFINE T == {m \in Nat : m <= n => m \in S}
<1>1. 0 \in T
  OBVIOUS
<1>2. \A m \in Nat : m \in T => m + 1 \in T
  OBVIOUS
<1> HIDE DEF T
<1>3. Nat \subseteq T
  BY <1>1, <1>2, SetInduction
<1>4. QED
  BY <1>3 DEF T

\* The functions that start with v0 and go on by "step" up to n.
Solutions(n, V, v0, step) ==
  {g \in [0..n -> V] : g[0] = v0 /\ \A i \in 1..n : g[i] = step[<<i, g[i - 1]>>]}

LEMMA RecursionExists ==
  ASSUME NEW n \in Nat, NEW V, NEW v0 \in V, NEW step \in [(1..n) \X V -> V]
  PROVE  Solutions(n, V, v0, step) # {}
<1> DEFINE Solves(g, m) ==
             g[0] = v0 /\ \A i \in 1..m : g[i] = step[<<i, g[i - 1]>>]
           S == {m \in Nat : \E g \in [0..m -> V] : Solves(g, m)}
<1>1. 0 \in S
  <2>1. [i \in 0..0 |-> v0] \in [0..0 -> V]
    OBVIOUS
  <2>2. Solves([i \in 0..0 |-> v0], 0)
    OBVIOUS
  <2>3. QED
    BY <2>1, <2>2
<1>2. ASSUME NEW k \in 0..(n - 1), k \in S PROVE k + 1 \in S
  <2>1. PICK g \in [0..k -> V] : Solves(g, k)
    BY <1>2
  <2> DEFINE h == [i \in 0..(k + 1) |-> IF i <= k THEN g[i] ELSE step[<<k + 1, g[k]>>]]
  <2>2. step[<<k + 1, g[k]>>] \in V
    <3>1. <<k + 1, g[k]>> \in (1..n) \X V
      BY <2>1
    <3>2. QED
      BY <3>1
  <2>3. h \in [0..(k + 1) -> V]
    BY <2>1, <2>2
  <2>4. Solves(h, k + 1)
    <3>1. h[0] = v0
      BY <2>1
    <3>2. ASSUME NEW i \in 1..(k + 1) PROVE h[i] = step[<<i, h[i - 1]>>]
      <4>1. h[i - 1] = g[i - 1]
        OBVIOUS
      <4>2. CASE i <= k
        BY <2>1, <4>1, <4>2
      <4>3. CASE i = k + 1
        <5>1. i - 1 = k /\ ~ (i <= k) /\ i \in 0..(k + 1)
          BY <4>3
        <5>2. h[i] = step[<<k + 1, g[k]>>]
          BY <5>1
        <5>3. h[i - 1] = g[k]
          BY <4>1, <5>1
        <5>4. QED
          BY <4>3, <5>2, <5>3
      <4>4. QED
        BY <4>2, <4>3
    <3>3. QED
      BY <3>1, <3>2
  <2> HIDE DEF h, Solves
  <2>5. QED
    BY <2>3, <2>4
<1> HIDE DEF S
<1>3. n \in S
  BY <1>1, <1>2, BoundedInduction
<1>4. QED
  BY <1>3 DEF S, Solutions

-----------------------------------------------------------------------------
(* Division by a positive number.                                          *)

LEMMA DivideType ==
  \A a \in Int, m \in Nat \ {0} :
    /\ a \div m \in Int /\ a % m \in 0..(m - 1)
    /\ a = (a \div m) * m + (a % m)
OBVIOUS

LEMMA DivideInt == \A a \in Int, m \in Nat \ {0} : a \div m \in Int /\ a % m \in Int
OBVIOUS

LEMMA DivideNat == \A a \in Nat, m \in Nat \ {0} : a \div m \in Nat
OBVIOUS

\* There is one quotient and one remainder.
LEMMA DivideUnique ==
  \A a, q \in Int, m \in Nat \ {0}, r \in Nat :
    a = q * m + r /\ r < m => a \div m = q /\ a % m = r
OBVIOUS

LEMMA DivideShifted ==
  ASSUME NEW a \in Int, NEW q \in Int, NEW m \in Nat \ {0}
  PROVE  (a + q * m) \div m = (a \div m) + q /\ (a + q * m) % m = a % m
<1> DEFINE d == a \div m
           r == a % m
<1>1. d \in Int /\ r \in Nat /\ r < m /\ a = d * m + r
  BY DivideType
<1> HIDE DEF d, r
<1>2. a + q * m = (d + q) * m + r /\ a + q * m \in Int /\ d + q \in Int
  BY <1>1
<1>3. (a + q * m) \div m = d + q /\ (a + q * m) % m = r
  BY <1>1, <1>2, DivideUnique
<1>4. QED
  BY <1>3 DEF d, r

LEMMA ModSmall == \A m \in Nat, a \in Nat : a < m => a % m = a /\ a \div m = 0
OBVIOUS

\* Sums and differences of two remainders.
LEMMA SumModulo ==
  ASSUME NEW m \in Nat \ {0}, NEW a \in 0..(m - 1), NEW b \in 0..(m - 1)
  PROVE  /\ (a + b) % m = IF a + b < m THEN a + b ELSE a + b - m
         /\ (a - b) % m = IF a < b THEN a - b + m ELSE a - b
<1>1. a + b >= m => a + b = 1 * m + (a + b - m) /\ a + b - m \in Nat /\ a + b - m < m
  OBVIOUS
<1>2. a < b => a - b = (-1) * m + (a - b + m) /\ a - b + m \in Nat /\ a - b + m < m
  OBVIOUS
<1>3. a + b \in Int /\ a - b \in Int /\ 1 \in Int /\ -1 \in Int
  OBVIOUS
<1>4. a + b >= m => (a + b) % m = a + b - m
  BY <1>1, <1>3, DivideUnique
<1>5. a < b => (a - b) % m = a - b + m
  BY <1>2, <1>3, DivideUnique
<1>6. a + b < m => (a + b) % m = a + b
  BY ModSmall
<1>7. a >= b => (a - b) % m = a - b
  BY ModSmall
<1>8. QED
  BY <1>4, <1>5, <1>6, <1>7

\* Multiples leave no remainder.
LEMMA MultipleModulo ==
  ASSUME NEW m \in Nat \ {0}, NEW q \in Int
  PROVE  (q * m) % m = 0 /\ (q * m) \div m = q
<1>1. q * m \in Int /\ q * m = q * m + 0
  OBVIOUS
<1>2. QED
  BY <1>1, DivideUnique

\* A quotient by a product is a quotient of a quotient.
LEMMA DivideTwice ==
  ASSUME NEW a \in Int, NEW m \in Nat \ {0}, NEW n \in Nat \ {0}
  PROVE  a \div (m * n) = (a \div m) \div n
<1> DEFINE d == a \div m
           r == a % m
           e == d \div n
           s == d % n
<1>1. d \in Int /\ r \in Nat /\ r < m /\ a = d * m + r
  BY DivideType
<1>2. e \in Int /\ s \in Nat /\ s < n /\ d = e * n + s
  BY <1>1, DivideType
<1> HIDE DEF d, r, e, s
<1>3. a = e * (m * n) + (s * m + r)
  <2>1. a = (e * n + s) * m + r
    BY <1>1, <1>2
  <2>2. QED
    BY <2>1, <1>1, <1>2
<1>4. s * m + r \in Nat /\ s * m + r < m * n
  <2>1. s * m <= (n - 1) * m
    BY <1>2
  <2>2. (n - 1) * m + m = m * n
    OBVIOUS
  <2>3. s * m \in Nat /\ (n - 1) * m \in Nat /\ m * n \in Nat
    BY <1>2
  <2>4. QED
    BY <1>1, <2>1, <2>2, <2>3
<1>5. m * n \in Nat \ {0}
  OBVIOUS
<1>6. a \div (m * n) = e
  BY <1>2, <1>3, <1>4, <1>5, DivideUnique
<1>7. QED
  BY <1>6 DEF e, d

-----------------------------------------------------------------------------
(* Powers of two.                                                          *)

\* The powers up to n, by the equations of the recursion.
PowersUpTo(n) ==
  {g \in [0..n -> Nat \ {0}] : g[0] = 1 /\ \A i \in 1..n : g[i] = 2 * g[i - 1]}

LEMMA SomePowers == ASSUME NEW n \in Nat PROVE PowersUpTo(n) # {}
<1> DEFINE V    == Nat \ {0}
           step == [s \in (1..n) \X V |-> 2 * s[2]]
<1>1. step \in [(1..n) \X V -> V] /\ 1 \in V
  OBVIOUS
<1>2. \A i \in 1..n, v \in V : step[<<i, v>>] = 2 * v
  OBVIOUS
<1> HIDE DEF step, V
<1>3. PICK g : g \in Solutions(n, V, 1, step)
  BY <1>1, RecursionExists
<1>4. g \in [0..n -> V] /\ g[0] = 1
  BY <1>3 DEF Solutions
<1>5. ASSUME NEW i \in 1..n PROVE g[i] = 2 * g[i - 1]
  <2>1. g[i - 1] \in V
    BY <1>4
  <2>2. QED
    BY <1>2, <1>3, <2>1 DEF Solutions
<1>6. QED
  BY <1>4, <1>5 DEF V, PowersUpTo

\* The powers, each up to its own exponent, are one function.
LEMMA PowersExist ==
  \E f : f = [n \in Nat |-> IF n = 0 THEN 1 ELSE 2 * f[n - 1]]
<1> DEFINE f == [n \in Nat |-> (CHOOSE g \in PowersUpTo(n) : TRUE)[n]]
<1>1. ASSUME NEW n \in Nat, NEW m \in 0..n,
             NEW g \in PowersUpTo(m), NEW h \in PowersUpTo(n)
      PROVE  g[m] = h[m]
  <2> DEFINE S == {k \in Nat : k <= m => g[k] = h[k]}
  <2>1. 0 \in S
    BY DEF PowersUpTo
  <2>2. ASSUME NEW k \in Nat, k \in S PROVE k + 1 \in S
    <3>1. k < m => g[k + 1] = 2 * g[(k + 1) - 1] /\ h[k + 1] = 2 * h[(k + 1) - 1]
      BY DEF PowersUpTo
    <3>2. QED
      BY <2>2, <3>1
  <2> HIDE DEF S
  <2>3. Nat \subseteq S
    BY <2>1, <2>2, SetInduction
  <2>4. QED
    BY <2>3 DEF S
<1>2. ASSUME NEW n \in Nat, NEW h \in PowersUpTo(n), NEW m \in 0..n PROVE f[m] = h[m]
  <2>1. PICK g \in PowersUpTo(m) : g = CHOOSE e \in PowersUpTo(m) : TRUE
    BY SomePowers
  <2>2. f[m] = g[m]
    BY <2>1
  <2> HIDE DEF f
  <2>3. QED
    BY <1>1, <2>1, <2>2
<1> HIDE DEF f
<1>3. ASSUME NEW n \in Nat PROVE f[n] = IF n = 0 THEN 1 ELSE 2 * f[n - 1]
  <2>1. PICK h : h \in PowersUpTo(n)
    BY SomePowers
  <2>2. f[n] = h[n]
    BY <1>2, <2>1
  <2>3. n # 0 => f[n - 1] = h[n - 1]
    BY <1>2, <2>1
  <2>4. h[0] = 1 /\ (n # 0 => h[n] = 2 * h[n - 1])
    BY <2>1 DEF PowersUpTo
  <2>5. QED
    BY <2>2, <2>3, <2>4
<1>4. f = [n \in Nat |-> f[n]]
  BY DEF f
<1>5. f = [n \in Nat |-> IF n = 0 THEN 1 ELSE 2 * f[n - 1]]
  BY <1>3, <1>4
<1>6. QED
  BY <1>5

LEMMA PowerSteps ==
  TwoTo[0] = 1 /\ \A n \in Nat : n # 0 => TwoTo[n] = 2 * TwoTo[n - 1]
<1> DEFINE Solves(f) == f = [n \in Nat |-> IF n = 0 THEN 1 ELSE 2 * f[n - 1]]
<1>1. TwoTo = CHOOSE f : Solves(f)
  BY DEF TwoTo
<1>2. \E f : Solves(f)
  BY PowersExist
<1>3. Solves(TwoTo)
  BY <1>1, <1>2
<1>4. QED
  BY <1>3

LEMMA PowerType == \A n \in Nat : TwoTo[n] \in Nat \ {0}
<1> DEFINE S == {n \in Nat : TwoTo[n] \in Nat \ {0}}
<1>1. 0 \in S
  BY PowerSteps
<1>2. ASSUME NEW n \in Nat, n \in S PROVE n + 1 \in S
  <2>1. TwoTo[n + 1] = 2 * TwoTo[n]
    BY PowerSteps
  <2>2. QED
    BY <1>2, <2>1
<1> HIDE DEF S
<1>3. Nat \subseteq S
  BY <1>1, <1>2, SetInduction
<1>4. QED
  BY <1>3 DEF S

LEMMA PowerNext == \A n \in Nat : TwoTo[n + 1] = 2 * TwoTo[n]
BY PowerSteps

\* Exponents add up.
LEMMA PowerSum ==
  ASSUME NEW m \in Nat, NEW n \in Nat PROVE TwoTo[m + n] = TwoTo[m] * TwoTo[n]
<1> DEFINE S == {k \in Nat : TwoTo[m + k] = TwoTo[m] * TwoTo[k]}
<1>1. 0 \in S
  BY PowerSteps, PowerType
<1>2. ASSUME NEW k \in Nat, k \in S PROVE k + 1 \in S
  <2>1. TwoTo[k + 1] = 2 * TwoTo[k] /\ TwoTo[m + (k + 1)] = 2 * TwoTo[m + k]
    <3>1. m + k \in Nat /\ m + (k + 1) = (m + k) + 1
      OBVIOUS
    <3>2. QED
      BY <3>1, PowerNext
  <2>2. TwoTo[m] \in Nat /\ TwoTo[k] \in Nat /\ TwoTo[m + k] = TwoTo[m] * TwoTo[k]
    BY <1>2, PowerType
  <2>3. QED
    BY <2>1, <2>2
<1> HIDE DEF S
<1>3. n \in S
  BY <1>1, <1>2, SetInduction
<1>4. QED
  BY <1>3 DEF S

LEMMA PowerBelow ==
  ASSUME NEW m \in Nat, NEW n \in Nat, m < n
  PROVE  /\ 2 * TwoTo[m] <= TwoTo[n]
         /\ TwoTo[n] = TwoTo[m] * TwoTo[n - m]
         /\ \E q \in Nat : TwoTo[n] = TwoTo[m] * (2 * q)
<1>1. n - m \in Nat /\ (n - m) - 1 \in Nat /\ m + (n - m) = n
  OBVIOUS
<1>2. TwoTo[n] = TwoTo[m] * TwoTo[n - m]
  BY <1>1, PowerSum
<1> DEFINE q == TwoTo[(n - m) - 1]
<1>3. q \in Nat \ {0} /\ TwoTo[n - m] = 2 * q /\ TwoTo[m] \in Nat \ {0}
  BY <1>1, PowerSteps, PowerType
<1> HIDE DEF q
<1>4. TwoTo[n] = TwoTo[m] * (2 * q)
  BY <1>2, <1>3
<1>5. TwoTo[m] * (2 * q) >= TwoTo[m] * 2
  BY <1>3
<1>6. QED
  BY <1>2, <1>3, <1>4, <1>5

-----------------------------------------------------------------------------
(* Bits.                                                                   *)

LEMMA BitType == \A a \in Int, k \in Nat : Bit(a, k) \in 0..1
<1>1. TAKE a \in Int, k \in Nat
<1>2. a \div TwoTo[k] \in Int
  BY PowerType, DivideType
<1>3. QED
  BY <1>2, DivideType DEF Bit

\* A digit put in front of a number of k bits.
LEMMA DigitAdded ==
  ASSUME NEW k \in Nat, NEW a \in 0..(TwoTo[k] - 1), NEW d \in 0..1
  PROVE  /\ a + d * TwoTo[k] \in 0..(TwoTo[k + 1] - 1)
         /\ Bit(a + d * TwoTo[k], k) = d
         /\ \A j \in 0..(k - 1) : Bit(a + d * TwoTo[k], j) = Bit(a, j)
<1>1. TwoTo[k] \in Nat \ {0} /\ TwoTo[k + 1] = 2 * TwoTo[k]
  BY PowerType, PowerNext
<1>2. a + d * TwoTo[k] \in 0..(TwoTo[k + 1] - 1)
  <2>1. d * TwoTo[k] \in 0..TwoTo[k]
    BY <1>1
  <2>2. QED
    BY <1>1, <2>1
<1>3. Bit(a + d * TwoTo[k], k) = d
  <2>1. (a + d * TwoTo[k]) \div TwoTo[k] = d
    BY <1>1, DivideUnique
  <2>2. d % 2 = d
    OBVIOUS
  <2>3. QED
    BY <2>1, <2>2 DEF Bit
<1>4. ASSUME NEW j \in 0..(k - 1)
      PROVE  Bit(a + d * TwoTo[k], j) = Bit(a, j)
  <2>a. j \in Nat /\ j < k
    OBVIOUS
  <2>b. \E q \in Nat : TwoTo[k] = TwoTo[j] * (2 * q)
    BY <2>a, PowerBelow
  <2>1. PICK q \in Nat : TwoTo[k] = TwoTo[j] * (2 * q)
    BY <2>b
  <2>2. TwoTo[j] \in Nat \ {0} /\ a \in Int
    BY PowerType, <1>1
  <2> DEFINE m == TwoTo[j]
             e == a \div m
  <2> HIDE DEF m
  <2>3. a + d * TwoTo[k] = a + ((2 * (d * q)) * m)
    BY <2>1, <2>2 DEF m
  <2>4. (a + d * TwoTo[k]) \div m = e + (2 * (d * q))
    <3>1. 2 * (d * q) \in Int /\ m \in Nat \ {0}
      BY <2>2 DEF m
    <3>2. QED
      BY <2>2, <2>3, <3>1, DivideShifted
  <2>5. e \in Int
    BY <2>2, DivideType DEF m
  <2> HIDE DEF e
  <2>6. (e + (2 * (d * q))) % 2 = e % 2
    <3>1. d * q \in Int /\ 2 * (d * q) = (d * q) * 2
      OBVIOUS
    <3>2. QED
      BY <2>5, <3>1, DivideShifted
  <2>7. QED
    BY <2>4, <2>6 DEF Bit, m, e
<1>5. QED
  BY <1>2, <1>3, <1>4

Tables == [0..1 -> [0..1 -> 0..1]]

\* The recursion of Combine, from the lowest bit up.
LEMMA CombineSteps ==
  ASSUME NEW op \in Tables, NEW a \in Int, NEW b \in Int, NEW w \in Nat
  PROVE  \E g \in [0..w -> Nat] :
           /\ g[0] = 0 /\ Combine(op, a, b, w) = g[w]
           /\ \A k \in 1..w :
                g[k] = g[k - 1] + op[Bit(a, k - 1)][Bit(b, k - 1)] * TwoTo[k - 1]
<1> DEFINE digit(k) == op[Bit(a, k - 1)][Bit(b, k - 1)] * TwoTo[k - 1]
           step == [s \in (1..w) \X Nat |-> s[2] + digit(s[1])]
           Sums(f) == f = [k \in 0..w |-> IF k = 0 THEN 0 ELSE f[k - 1] + digit(k)]
<1>1. \A k \in 1..w : digit(k) \in Nat
  BY BitType, PowerType DEF Tables
<1>2. Combine(op, a, b, w) = (CHOOSE f : Sums(f))[w]
  BY DEF Combine
<1> HIDE DEF digit
<1>3. step \in [(1..w) \X Nat -> Nat]
  BY <1>1
<1>4. \A k \in 1..w, v \in Nat : step[<<k, v>>] = v + digit(k)
  OBVIOUS
<1> HIDE DEF step
<1>5. PICK g : g \in Solutions(w, Nat, 0, step)
  BY <1>3, RecursionExists
<1>6. g \in [0..w -> Nat] /\ g[0] = 0
  BY <1>5 DEF Solutions
<1>7. ASSUME NEW k \in 1..w PROVE g[k] = g[k - 1] + digit(k)
  <2>1. g[k - 1] \in Nat
    BY <1>6
  <2>2. g[k] = step[<<k, g[k - 1]>>]
    BY <1>5 DEF Solutions
  <2>3. QED
    BY <1>4, <2>1, <2>2
<1>8. Sums(g)
  BY <1>6, <1>7
<1>9. \A f : Sums(f) => f \in [0..w -> Nat] /\ f[0] = 0
                         /\ \A k \in 1..w : f[k] = f[k - 1] + digit(k)
  <2> SUFFICES ASSUME NEW f, Sums(f)
               PROVE  f \in [0..w -> Nat] /\ f[0] = 0
                      /\ \A k \in 1..w : f[k] = f[k - 1] + digit(k)
    OBVIOUS
  <2>1. /\ f[0] = 0 /\ DOMAIN f = 0..w
        /\ \A k \in 1..w : f[k] = f[k - 1] + digit(k)
    OBVIOUS
  <2>2. f = [k \in 0..w |-> f[k]]
    OBVIOUS
  <2> HIDE DEF Sums
  <2> DEFINE S == {k \in Nat : k <= w => f[k] \in Nat}
  <2>3. 0 \in S
    BY <2>1
  <2>4. ASSUME NEW k \in Nat, k \in S PROVE k + 1 \in S
    <3>1. ASSUME k + 1 <= w PROVE f[k + 1] \in Nat
      <4>1. k + 1 \in 1..w /\ (k + 1) - 1 = k /\ f[k] \in Nat
        BY <2>4, <3>1
      <4>2. f[k + 1] = f[k] + digit(k + 1) /\ digit(k + 1) \in Nat
        BY <1>1, <2>1, <4>1
      <4>3. QED
        BY <4>1, <4>2
    <3>2. QED
      BY <3>1
  <2> HIDE DEF S
  <2>5. Nat \subseteq S
    BY <2>3, <2>4, SetInduction
  <2>6. \A k \in 0..w : f[k] \in Nat
    BY <2>5 DEF S
  <2>7. QED
    BY <2>1, <2>2, <2>6
<1> HIDE DEF Sums
<1>10. Sums(CHOOSE f : Sums(f))
  BY <1>8
<1>11. QED
  BY <1>2, <1>9, <1>10 DEF digit

(* The bits of a combination are the combinations of the bits.             *)
LEMMA CombineBits ==
  ASSUME NEW op \in Tables, NEW a \in Int, NEW b \in Int, NEW w \in Nat
  PROVE  /\ Combine(op, a, b, w) \in 0..(TwoTo[w] - 1)
         /\ \A k \in 0..(w - 1) :
              Bit(Combine(op, a, b, w), k) = op[Bit(a, k)][Bit(b, k)]
<1>1. PICK g \in [0..w -> Nat] :
        /\ g[0] = 0 /\ Combine(op, a, b, w) = g[w]
        /\ \A k \in 1..w :
             g[k] = g[k - 1] + op[Bit(a, k - 1)][Bit(b, k - 1)] * TwoTo[k - 1]
  BY CombineSteps
<1> DEFINE Good(k) == /\ g[k] \in 0..(TwoTo[k] - 1)
                      /\ \A j \in 0..(k - 1) : Bit(g[k], j) = op[Bit(a, j)][Bit(b, j)]
           S == {k \in Nat : k <= w => Good(k)}
<1>2. 0 \in S
  BY <1>1, PowerSteps
<1>3. ASSUME NEW k \in Nat, k \in S PROVE k + 1 \in S
  <2>1. ASSUME k + 1 <= w PROVE Good(k + 1)
    <3>1. k + 1 \in 1..w /\ (k + 1) - 1 = k /\ Good(k)
      <4>1. k + 1 \in 1..w /\ (k + 1) - 1 = k /\ k <= w
        BY <2>1
      <4>2. QED
        BY <1>3, <4>1
    <3> DEFINE d == op[Bit(a, k)][Bit(b, k)]
    <3>2. g[k + 1] = g[k] + d * TwoTo[k]
      BY <1>1, <3>1
    <3>3. d \in 0..1
      BY BitType DEF Tables
    <3> HIDE DEF d
    <3>4. /\ g[k + 1] \in 0..(TwoTo[k + 1] - 1) /\ Bit(g[k + 1], k) = d
          /\ \A j \in 0..(k - 1) : Bit(g[k + 1], j) = Bit(g[k], j)
      BY <3>1, <3>2, <3>3, DigitAdded
    <3>5. ASSUME NEW j \in 0..((k + 1) - 1)
          PROVE  Bit(g[k + 1], j) = op[Bit(a, j)][Bit(b, j)]
      <4>1. CASE j = k
        BY <3>4, <4>1 DEF d
      <4>2. CASE j # k
        <5>1. j \in 0..(k - 1)
          BY <4>2
        <5>2. QED
          BY <3>1, <3>4, <5>1
      <4>3. QED
        BY <4>1, <4>2
    <3>6. QED
      BY <3>4, <3>5
  <2> HIDE DEF Good
  <2>2. QED
    BY <2>1
<1> HIDE DEF S
<1>4. w \in S
  BY <1>2, <1>3, SetInduction
<1>5. Good(w)
  BY <1>4 DEF S
<1>6. QED
  BY <1>1, <1>5

\* A common factor leaves the quotient.
LEMMA DivideCancel ==
  ASSUME NEW v \in Int, NEW m \in Nat \ {0}, NEW c \in Nat \ {0}
  PROVE  (v * c) \div (m * c) = v \div m
<1>1. v * c \in Int /\ m * c = c * m
  OBVIOUS
<1>2. (v * c) \div (c * m) = ((v * c) \div c) \div m
  BY <1>1, DivideTwice
<1>3. (v * c) \div c = v
  BY MultipleModulo
<1>4. QED
  BY <1>1, <1>2, <1>3

\* The bits of a remainder, of a multiple and of a quotient by a power of two.
LEMMA BitOfRemainder ==
  ASSUME NEW v \in Int, NEW w \in Nat, NEW k \in 0..(w - 1)
  PROVE  Bit(v % TwoTo[w], k) = Bit(v, k)
<1> DEFINE p == TwoTo[w]
           m == TwoTo[k]
           d == v \div p
           r == v % p
           e == r \div m
<1>1. k \in Nat /\ k < w /\ p \in Nat \ {0} /\ m \in Nat \ {0}
  BY PowerType
<1>2. \E q \in Nat : p = m * (2 * q)
  BY <1>1, PowerBelow
<1>3. PICK q \in Nat : p = m * (2 * q)
  BY <1>2
<1> HIDE DEF p, m
<1>4. d \in Int /\ r \in Int /\ v = d * p + r
  BY <1>1, DivideType
<1> HIDE DEF d, r
<1> DEFINE y == d * q
           z == y * 2
<1>5. y \in Int /\ z \in Int
  BY <1>4
<1>6. v = r + z * m
  BY <1>1, <1>3, <1>4
<1> HIDE DEF z
<1>7. v \div m = e + z /\ e \in Int
  <2>1. (r + z * m) \div m = e + z
    BY <1>1, <1>4, <1>5, DivideShifted
  <2>2. QED
    BY <1>1, <1>4, <1>6, <2>1, DivideInt
<1> HIDE DEF y, e
<1>8. (e + y * 2) % 2 = e % 2
  BY <1>5, <1>7, DivideShifted
<1>9. (v \div m) % 2 = e % 2
  BY <1>7, <1>8 DEF z
<1>10. QED
  BY <1>9 DEF Bit, m, r, e, p

LEMMA BitOfMultiple ==
  ASSUME NEW v \in Int, NEW n \in Nat, NEW k \in Nat
  PROVE  Bit(v * TwoTo[n], k + n) = Bit(v, k)
<1>1. TwoTo[n] \in Nat \ {0} /\ TwoTo[k] \in Nat \ {0} /\ TwoTo[k + n] = TwoTo[k] * TwoTo[n]
  BY PowerType, PowerSum
<1>2. (v * TwoTo[n]) \div TwoTo[k + n] = v \div TwoTo[k]
  BY <1>1, DivideCancel
<1>3. QED
  BY <1>2 DEF Bit

LEMMA BitOfQuotient ==
  ASSUME NEW v \in Int, NEW n \in Nat, NEW k \in Nat
  PROVE  Bit(v \div TwoTo[n], k) = Bit(v, n + k)
<1>1. TwoTo[n] \in Nat \ {0} /\ TwoTo[k] \in Nat \ {0} /\ TwoTo[n + k] = TwoTo[n] * TwoTo[k]
  BY PowerType, PowerSum
<1>2. v \div TwoTo[n + k] = (v \div TwoTo[n]) \div TwoTo[k]
  BY <1>1, DivideTwice
<1>3. QED
  BY <1>2 DEF Bit

\* A factor times a remainder leaves the remainder of the product.
LEMMA ProductModulo ==
  ASSUME NEW m \in Nat \ {0}, NEW c \in Int, NEW x \in Int
  PROVE  (c * (x % m)) % m = (c * x) % m
<1> DEFINE d == x \div m
           r == x % m
           q == c * d
<1>1. d \in Int /\ r \in Int /\ x = d * m + r
  BY DivideType
<1> HIDE DEF d, r
<1>2. q \in Int /\ c * r \in Int
  BY <1>1
<1>3. c * x = c * r + q * m
  BY <1>1
<1> HIDE DEF q
<1>4. (c * r + q * m) % m = (c * r) % m
  BY <1>2, DivideShifted
<1>5. QED
  BY <1>3, <1>4 DEF r

\* A quotient stays within the bounds of its dividend.
LEMMA QuotientBounds ==
  ASSUME NEW h \in Nat \ {0}, NEW x \in -h..(h - 1), NEW p \in Nat \ {0}
  PROVE  /\ x \div p \in -h..(h - 1)
         /\ x >= 0 => x \div p >= 0
         /\ x < 0 => x \div p < 0
<1> DEFINE d == x \div p
           e == x % p
<1>1. d \in Int /\ e \in 0..(p - 1) /\ x = d * p + e
  BY DivideType
<1> HIDE DEF d, e
<1>2. d >= 0 => d <= d * p
  BY <1>1
<1>3. d < 0 => d * p + e < 0
  <2>1. SUFFICES ASSUME d < 0 PROVE d * p + e < 0
    OBVIOUS
  <2>2. d * p <= (-1) * p
    BY <1>1, <2>1
  <2>3. d * p \in Int /\ (-1) * p = -p
    BY <1>1
  <2>4. QED
    BY <1>1, <2>2, <2>3
<1>4. d < -h => d * p + e < -h
  <2>1. SUFFICES ASSUME d < -h PROVE d * p + e < -h
    OBVIOUS
  <2> DEFINE f == -1 - d
  <2>2. f \in Nat /\ f >= h /\ d = -1 - f
    BY <1>1, <2>1
  <2> HIDE DEF f
  <2>3. d * p = -p - f * p
    BY <1>1, <2>2
  <2>4. f * p >= f /\ f * p \in Int
    BY <2>2
  <2>5. d * p \in Int
    BY <1>1
  <2>6. QED
    BY <1>1, <2>2, <2>3, <2>4, <2>5
<1>5. d * p \in Int
  BY <1>1
<1>6. d >= -h /\ d < h /\ (x >= 0 => d >= 0) /\ (x < 0 => d < 0)
  BY <1>1, <1>2, <1>3, <1>4, <1>5
<1>7. QED
  BY <1>1, <1>6 DEF d

=============================================================================
