---------------------------- MODULE TradeProofs -----------------------------
(***************************************************************************)
(* Proofs about Trade and the price feed in it, for any coins, answers,    *)
(* precision and quantities.                                               *)
(*                                                                         *)
(* The feed's part follows from one fact: what has been received is a      *)
(* beginning of what is being sent, so that it is parsed only when it is   *)
(* all of it.  The swap's part follows from what rounding does: it keeps   *)
(* the order of fractions, leaves numbers alone, and is off by one part in *)
(* the largest significand, or by half of the smallest number.             *)
(***************************************************************************)
EXTENDS Trade, Arithmetic, SequenceTheorems

-----------------------------------------------------------------------------
(* Powers of two, and products                                             *)

PowersUpTo(g, n) == g = [k \in 0 .. n |-> IF k = 0 THEN 1 ELSE 2 * g[k - 1]]

\* There are functions that satisfy Power's equation as far as one likes, and they agree.
LEMMA PowersExist == \A n \in Nat : \E g : PowersUpTo(g, n)
<1> DEFINE S == {n \in Nat : \E g : PowersUpTo(g, n)}
<1>1. 0 \in S
  <2> DEFINE g == [k \in 0 .. 0 |-> 1]
  <2>1. g = [k \in 0 .. 0 |-> IF k = 0 THEN 1 ELSE 2 * g[k - 1]]
    OBVIOUS
  <2> QED BY <2>1 DEF PowersUpTo
<1>2. ASSUME NEW n \in Nat, n \in S PROVE n + 1 \in S
  <2>1. PICK g : PowersUpTo(g, n)
    BY <1>2
  <2> DEFINE h == [k \in 0 .. n + 1 |-> IF k = 0 THEN 1 ELSE 2 * g[k - 1]]
  <2>2. \A k \in 0 .. n : h[k] = g[k]
    BY <2>1 DEF PowersUpTo
  <2>3. \A k \in 0 .. n + 1 : k # 0 => k - 1 \in 0 .. n
    OBVIOUS
  <2>4. h = [k \in 0 .. n + 1 |-> IF k = 0 THEN 1 ELSE 2 * h[k - 1]]
    BY <2>2, <2>3
  <2>5. PowersUpTo(h, n + 1)
    BY <2>4 DEF PowersUpTo
  <2> QED BY <2>5
<1>3. Nat \subseteq S
  <2> HIDE DEF S
  <2> QED BY <1>1, <1>2, Induction
<1> QED BY <1>3

LEMMA PowersAgree ==
  ASSUME NEW n \in Nat, NEW m \in Nat, n <= m, NEW g, NEW h,
         PowersUpTo(g, n), PowersUpTo(h, m)
  PROVE  \A k \in 0 .. n : g[k] = h[k]
<1> DEFINE S == {k \in Nat : k <= n => g[k] = h[k]}
<1>1. /\ \A k \in 0 .. n : g[k] = IF k = 0 THEN 1 ELSE 2 * g[k - 1]
      /\ \A k \in 0 .. n : h[k] = IF k = 0 THEN 1 ELSE 2 * h[k - 1]
  BY DEF PowersUpTo
<1>2. 0 \in S
  BY <1>1
<1>3. ASSUME NEW k \in Nat, k \in S PROVE k + 1 \in S
  <2> SUFFICES ASSUME k + 1 <= n PROVE g[k + 1] = h[k + 1]
    OBVIOUS
  <2>1. g[k + 1] = 2 * g[k] /\ h[k + 1] = 2 * h[k]
    <3>1. k + 1 \in 0 .. n /\ k + 1 # 0 /\ (k + 1) - 1 = k
      OBVIOUS
    <3> QED BY <1>1, <3>1
  <2> QED BY <1>3, <2>1
<1>4. Nat \subseteq S
  <2> HIDE DEF S
  <2> QED BY <1>2, <1>3, Induction
<1> QED BY <1>4

LEMMA PowerEquation == \A k \in Nat : Power[k] = IF k = 0 THEN 1 ELSE 2 * Power[k - 1]
<1> DEFINE G(n) == CHOOSE g : PowersUpTo(g, n)
           p == [k \in Nat |-> G(k)[k]]
<1>1. \A n \in Nat : PowersUpTo(G(n), n)
  BY PowersExist
<1>2. \A k \in Nat : G(k)[k] = IF k = 0 THEN 1 ELSE 2 * G(k - 1)[k - 1]
  <2> SUFFICES ASSUME NEW k \in Nat
               PROVE  G(k)[k] = IF k = 0 THEN 1 ELSE 2 * G(k - 1)[k - 1]
    OBVIOUS
  <2>1. G(k)[k] = IF k = 0 THEN 1 ELSE 2 * G(k)[k - 1]
    <3>1. PICK g : g = G(k)
      OBVIOUS
    <3>2. PowersUpTo(g, k) /\ k \in 0 .. k
      BY <1>1, <3>1
    <3>3. g[k] = IF k = 0 THEN 1 ELSE 2 * g[k - 1]
      BY <3>2 DEF PowersUpTo
    <3> HIDE DEF G
    <3> QED BY <3>1, <3>3
  <2>2. k # 0 => G(k)[k - 1] = G(k - 1)[k - 1]
    <3>1. ASSUME k # 0 PROVE G(k)[k - 1] = G(k - 1)[k - 1]
      <4>1. k - 1 \in Nat /\ k - 1 <= k /\ k - 1 \in 0 .. k - 1
        BY <3>1
      <4>2. PowersUpTo(G(k - 1), k - 1) /\ PowersUpTo(G(k), k)
        BY <1>1, <4>1
      <4> HIDE DEF G
      <4>3. \A i \in 0 .. k - 1 : G(k - 1)[i] = G(k)[i]
        BY <4>1, <4>2, PowersAgree
      <4> QED BY <4>1, <4>3
    <3> QED BY <3>1
  <2> QED BY <2>1, <2>2
<1> HIDE DEF G
<1>3. p = [k \in Nat |-> IF k = 0 THEN 1 ELSE 2 * p[k - 1]]
  BY <1>2
<1> HIDE DEF p
<1>4. Power = [k \in Nat |-> IF k = 0 THEN 1 ELSE 2 * Power[k - 1]]
  BY <1>3 DEF Power
<1> QED BY <1>4

LEMMA PowerFacts ==
  /\ Power[0] = 1
  /\ \A k \in Nat : Power[k] \in Nat \ {0} /\ Power[k + 1] = 2 * Power[k] /\ k < Power[k]
<1> DEFINE S == {k \in Nat : Power[k] \in Nat \ {0} /\ k < Power[k]}
<1>1. Power[0] = 1 /\ \A k \in Nat : Power[k + 1] = 2 * Power[k]
  <2>1. \A k \in Nat : k + 1 \in Nat /\ k + 1 # 0 /\ (k + 1) - 1 = k
    OBVIOUS
  <2> QED BY <2>1, PowerEquation
<1>2. 0 \in S
  BY <1>1
<1>3. \A k \in Nat : k \in S => k + 1 \in S
  BY <1>1
<1>4. Nat \subseteq S
  <2> HIDE DEF S
  <2> QED BY <1>2, <1>3, Induction
<1> QED BY <1>1, <1>4

\* What nonlinear arithmetic is needed.
LEMMA Products ==
  /\ \A a, b \in Nat : a * b \in Nat /\ a * b = b * a
  /\ \A a, b \in Nat : a # 0 /\ b # 0 => a * b # 0
  /\ \A a, b, c \in Nat : (a * b) * c = a * (b * c)
  /\ \A a, b, c \in Nat : (a + b) * c = a * c + b * c
  /\ \A a \in Nat : 0 * a = 0 /\ 1 * a = a /\ a * 1 = a
BY SMT

LEMMA ProductsOrder ==
  /\ \A a, b, c \in Nat : a <= b => a * c <= b * c
  /\ \A a, b, c \in Nat : a < b /\ c # 0 => a * c < b * c
  /\ \A a, b, c \in Nat : c # 0 /\ a * c <= b * c => a <= b
<1>1. \A a, b, c \in Nat : a <= b => a * c <= b * c
  <2> SUFFICES ASSUME NEW a \in Nat, NEW b \in Nat, NEW c \in Nat, a <= b
               PROVE  a * c <= b * c
    OBVIOUS
  <2>1. PICK e \in Nat : b = a + e
    <3>1. b - a \in Nat /\ b = a + (b - a)
      OBVIOUS
    <3> QED BY <3>1
  <2>2. b * c = a * c + e * c /\ e * c \in Nat /\ a * c \in Nat
    BY <2>1, Products
  <2> QED BY <2>2
<1>2. \A a, b, c \in Nat : a < b /\ c # 0 => a * c < b * c
  <2> SUFFICES ASSUME NEW a \in Nat, NEW b \in Nat, NEW c \in Nat, a < b, c # 0
               PROVE  a * c < b * c
    OBVIOUS
  <2>1. PICK e \in Nat : b = a + e /\ e # 0
    <3>1. b - a \in Nat /\ b = a + (b - a) /\ b - a # 0
      OBVIOUS
    <3> QED BY <3>1
  <2>2. b * c = a * c + e * c /\ e * c \in Nat /\ a * c \in Nat /\ e * c # 0
    BY <2>1, Products
  <2> QED BY <2>2
<1>3. ASSUME NEW a \in Nat, NEW b \in Nat, NEW c \in Nat, c # 0, a * c <= b * c
      PROVE  a <= b
  <2>1. a * c \in Nat /\ b * c \in Nat
    BY Products
  <2>2. b < a => b * c < a * c
    BY <1>2, <1>3
  <2> QED BY <1>3, <2>1, <2>2
<1> QED BY <1>1, <1>2, <1>3

LEMMA PowerOfSum == \A i, j \in Nat : Power[i + j] = Power[i] * Power[j]
<1> SUFFICES ASSUME NEW i \in Nat PROVE \A j \in Nat : Power[i + j] = Power[i] * Power[j]
  OBVIOUS
<1> DEFINE S == {j \in Nat : Power[i + j] = Power[i] * Power[j]}
<1>1. 0 \in S
  <2>1. i + 0 = i /\ Power[i] * 1 = Power[i]
    BY PowerFacts, Products
  <2> QED BY <2>1, PowerFacts
<1>2. ASSUME NEW j \in Nat, j \in S PROVE j + 1 \in S
  <2>1. PICK p, q, r \in Nat : p = Power[i] /\ q = Power[j] /\ r = Power[i + j]
    <3>1. i + j \in Nat
      OBVIOUS
    <3>2. Power[i] \in Nat /\ Power[j] \in Nat /\ Power[i + j] \in Nat
      BY <3>1, PowerFacts
    <3> QED BY <3>2
  <2>2. Power[j + 1] = 2 * q /\ Power[(i + j) + 1] = 2 * r /\ r = p * q
    BY <1>2, <2>1, PowerFacts
  <2>3. p * (2 * q) = 2 * (p * q)
    BY <2>1, SMT
  <2>4. i + (j + 1) = (i + j) + 1
    OBVIOUS
  <2> QED BY <2>1, <2>2, <2>3, <2>4
<1>3. Nat \subseteq S
  <2> HIDE DEF S
  <2> QED BY <1>1, <1>2, Induction
<1> QED BY <1>3

\* The smaller of two powers divides the larger, and twice it still does.
LEMMA PowerOrder ==
  ASSUME NEW i \in Nat, NEW j \in Nat
  PROVE  /\ i <= j => \E w \in Nat \ {0} : Power[j] = w * Power[i]
         /\ i < j => \E w \in Nat \ {0} : Power[j] = w * (2 * Power[i])
         /\ i <= j => Power[i] <= Power[j]
         /\ Power[i] < Power[j] => i < j
<1>1. \A k, l \in Nat : k <= l => \E w \in Nat \ {0} : Power[l] = w * Power[k]
  <2> SUFFICES ASSUME NEW k \in Nat, NEW l \in Nat, k <= l
               PROVE  \E w \in Nat \ {0} : Power[l] = w * Power[k]
    OBVIOUS
  <2>1. l - k \in Nat /\ l = (l - k) + k
    OBVIOUS
  <2>2. Power[l] = Power[l - k] * Power[k]
    BY <2>1, PowerOfSum
  <2> QED BY <2>1, <2>2, PowerFacts
<1>2. i < j => \E w \in Nat \ {0} : Power[j] = w * (2 * Power[i])
  <2>1. ASSUME i < j PROVE \E w \in Nat \ {0} : Power[j] = w * Power[i + 1]
    BY <1>1, <2>1
  <2> QED BY <2>1, PowerFacts
<1>3. \A k, l \in Nat : k <= l => Power[k] <= Power[l]
  <2> SUFFICES ASSUME NEW k \in Nat, NEW l \in Nat, k <= l PROVE Power[k] <= Power[l]
    OBVIOUS
  <2>1. PICK w \in Nat \ {0} : Power[l] = w * Power[k]
    BY <1>1
  <2>2. PICK p \in Nat : p = Power[k]
    BY PowerFacts
  <2>3. 1 * p <= w * p /\ 1 * p = p
    BY <2>1, <2>2, Products, ProductsOrder
  <2> QED BY <2>1, <2>2, <2>3
<1>4. Power[i] < Power[j] => i < j
  <2>1. Power[i] \in Nat /\ Power[j] \in Nat
    BY PowerFacts
  <2> QED BY <1>3, <2>1
<1> QED BY <1>1, <1>2, <1>3, <1>4

-----------------------------------------------------------------------------
(* Rounding                                                                *)

\* Numbers have fewer than Top units in their last place, and at least Half unless they
\* are the smallest ones.
Top == Power[Precision]
Half == Power[Precision - 1]

LEMMA TopFacts ==
  /\ Top \in Nat \ {0} /\ Half \in Nat \ {0} /\ Top = 2 * Half /\ Half >= 2
  /\ Half = 2 * Power[Precision - 2] /\ Power[Precision - 2] \in Nat \ {0}
<1>1. Precision - 1 \in Nat /\ Precision - 2 \in Nat
  BY NumberAssumption
<1>2. Precision = (Precision - 1) + 1 /\ Precision - 1 = (Precision - 2) + 1
  BY NumberAssumption
<1>3. Power[Precision - 2] \in Nat \ {0} /\ Half = 2 * Power[Precision - 2]
  BY <1>1, <1>2, PowerFacts DEF Half
<1>4. Top = 2 * Half
  BY <1>1, <1>2, PowerFacts DEF Half, Top
<1> QED BY <1>3, <1>4

LEMMA ExponentFacts ==
  ASSUME NEW n \in Nat, NEW d \in Nat \ {0}
  PROVE  /\ Exponent(n, d) \in Nat
         /\ n < Power[Precision + Exponent(n, d)] * d
         /\ \A j \in 0 .. Exponent(n, d) - 1 : Power[Precision + j] * d <= n
<1> DEFINE T == {k \in Nat : n < Power[Precision + k] * d}
<1>1. n \in T
  <2>1. PICK p \in Nat \ {0} : p = Power[Precision + n] /\ n < p
    <3>1. Precision + n \in Nat /\ n <= Precision + n
      BY NumberAssumption
    <3>2. Precision + n < Power[Precision + n] /\ Power[Precision + n] \in Nat \ {0}
      BY <3>1, PowerFacts
    <3> QED BY <3>1, <3>2
  <2>2. 1 * p <= d * p /\ 1 * p = p /\ d * p = p * d
    BY <2>1, Products, ProductsOrder
  <2>3. n < p * d
    BY <2>1, <2>2
  <2> QED BY <2>1, <2>3
<1>2. PICK k \in T : \A j \in T : k <= j
  <2> HIDE DEF T
  <2>1. T \subseteq Nat
    BY DEF T
  <2> QED BY <1>1, <2>1, LeastNatural
<1>3. k \in 0 .. n /\ n < Power[Precision + k] * d
  BY <1>1, <1>2
<1>4. \A j \in 0 .. k - 1 : Power[Precision + j] * d <= n
  <2> SUFFICES ASSUME NEW j \in 0 .. k - 1 PROVE Power[Precision + j] * d <= n
    OBVIOUS
  <2>1. j \in Nat /\ j \notin T
    BY <1>2
  <2>2. ~ n < Power[Precision + j] * d
    BY <2>1
  <2>3. Power[Precision + j] * d \in Nat
    <3>1. Precision + j \in Nat
      BY <2>1, NumberAssumption
    <3>2. Power[Precision + j] \in Nat
      BY <3>1, PowerFacts
    <3> QED BY <3>2, Products
  <2> QED BY <2>2, <2>3
<1>5. \E i \in 0 .. n : /\ n < Power[Precision + i] * d
                        /\ \A j \in 0 .. i - 1 : Power[Precision + j] * d <= n
  BY <1>3, <1>4
<1>6. /\ Exponent(n, d) \in 0 .. n
      /\ n < Power[Precision + Exponent(n, d)] * d
      /\ \A j \in 0 .. Exponent(n, d) - 1 : Power[Precision + j] * d <= n
  BY <1>5 DEF Exponent
<1> QED BY <1>6

\* The last place of n / d: its unit, and the half of it.
LEMMA UlpFacts ==
  ASSUME NEW n \in Nat, NEW d \in Nat \ {0}
  PROVE  \E k \in Nat : /\ Ulp(n, d) = Power[k]
                        /\ n < Top * (Power[k] * d)
                        /\ k # 0 => Top * (Power[k - 1] * d) <= n
<1> DEFINE k == Exponent(n, d)
<1>1. k \in Nat /\ n < Power[Precision + k] * d
      /\ \A j \in 0 .. k - 1 : Power[Precision + j] * d <= n
  BY ExponentFacts
<1>2. Ulp(n, d) = Power[k]
  BY DEF Ulp
<1> HIDE DEF k
<1>3. \A j \in Nat : Power[Precision + j] * d = Top * (Power[j] * d)
  <2> SUFFICES ASSUME NEW j \in Nat
               PROVE  Power[Precision + j] * d = Top * (Power[j] * d)
    OBVIOUS
  <2>1. Power[Precision + j] = Top * Power[j]
    BY NumberAssumption, PowerOfSum DEF Top
  <2>2. Top \in Nat /\ Power[j] \in Nat
    BY TopFacts, PowerFacts
  <2> QED BY <2>1, <2>2, Products
<1>4. ASSUME k # 0 PROVE Top * (Power[k - 1] * d) <= n
  <2>1. k - 1 \in Nat /\ k - 1 \in 0 .. k - 1
    BY <1>1, <1>4
  <2> QED BY <1>1, <1>3, <2>1
<1> QED BY <1>1, <1>2, <1>3, <1>4

LEMMA Division ==
  ASSUME NEW n \in Nat, NEW d \in Nat \ {0}
  PROVE  \E q \in Nat, s \in 0 .. d - 1 : n = q * d + s /\ q = n \div d /\ s = n % d
<1>1. n \div d \in Nat
  BY SMT
<1>2. n % d < d /\ n % d >= 0 /\ n % d \in Int
  BY SMT
<1>3. \A k, m \in Nat : m > 0 => k % m = k - m * (k \div m)
  BY SMT
<1>4. d * (n \div d) = (n \div d) * d /\ (n \div d) * d \in Nat
  BY <1>1, Products
<1>5. PICK q \in Nat, s \in Int, p \in Nat :
        q = n \div d /\ s = n % d /\ p = q * d /\ p = d * q
  BY <1>1, <1>2, <1>4
<1>6. s = n - d * q
  BY <1>3, <1>5
<1>7. n = q * d + s
  BY <1>5, <1>6
<1>8. s \in 0 .. d - 1
  BY <1>2, <1>5
<1> QED BY <1>5, <1>7, <1>8

LEMMA NearestFacts ==
  ASSUME NEW n \in Nat, NEW d \in Nat \ {0}
  PROVE  /\ Nearest(n, d) \in Nat
         /\ 2 * n <= 2 * (Nearest(n, d) * d) + d
         /\ 2 * (Nearest(n, d) * d) <= 2 * n + d
<1>1. PICK q \in Nat, s \in 0 .. d - 1 : n = q * d + s /\ q = n \div d /\ s = n % d
  BY Division
<1>2. Nearest(n, d) = IF 2 * s < d \/ (2 * s = d /\ q % 2 = 0) THEN q ELSE q + 1
  BY <1>1 DEF Nearest
<1>3. (q + 1) * d = q * d + d /\ q * d \in Nat
  BY Products
<1>4. CASE 2 * s < d \/ (2 * s = d /\ q % 2 = 0)
  BY <1>1, <1>2, <1>3, <1>4
<1>5. CASE ~ (2 * s < d \/ (2 * s = d /\ q % 2 = 0))
  <2>1. Nearest(n, d) = q + 1 /\ 2 * s >= d
    BY <1>1, <1>2, <1>5
  <2> QED BY <1>1, <1>3, <2>1
<1> QED BY <1>4, <1>5

LEMMA NearestExact ==
  ASSUME NEW k \in Nat, NEW d \in Nat \ {0}
  PROVE  Nearest(k * d, d) = k
<1>1. (k * d) \div d = k /\ (k * d) % d = 0
  BY SMT
<1> QED BY <1>1 DEF Nearest

\* The quotient that is larger has the larger nearest number.
LEMMA NearestMonotone ==
  ASSUME NEW n \in Nat, NEW d \in Nat \ {0}, NEW a \in Nat, NEW b \in Nat \ {0},
         n * b <= a * d
  PROVE  Nearest(n, d) <= Nearest(a, b)
<1>1. PICK q \in Nat, s \in 0 .. d - 1 : n = q * d + s /\ q = n \div d /\ s = n % d
  BY Division
<1>2. PICK x \in Nat, y \in 0 .. b - 1 : a = x * b + y /\ x = a \div b /\ y = a % b
  BY Division
<1>3. /\ Nearest(n, d) = IF 2 * s < d \/ (2 * s = d /\ q % 2 = 0) THEN q ELSE q + 1
      /\ Nearest(a, b) = IF 2 * y < b \/ (2 * y = b /\ x % 2 = 0) THEN x ELSE x + 1
  BY <1>1, <1>2 DEF Nearest
\* Over the common denominator.
<1>4. PICK D \in Nat \ {0} : D = d * b
  BY Products
<1>5. /\ n * b = q * D + s * b /\ a * d = x * D + y * d
      /\ s * b \in Nat /\ s * b < D /\ y * d \in Nat /\ y * d < D
  <2>1. n * b = (q * d) * b + s * b /\ a * d = (x * b) * d + y * d
    <3>1. q * d \in Nat /\ x * b \in Nat
      BY Products
    <3>2. s \in Nat /\ y \in Nat
      OBVIOUS
    <3> QED BY <1>1, <1>2, <3>1, <3>2, Products
  <2>2. (q * d) * b = q * D /\ (x * b) * d = x * D
    <3>1. b * d = D
      BY <1>4, Products
    <3> QED BY <1>4, <3>1, Products
  <2>3. s * b < d * b /\ y * d < b * d
    BY ProductsOrder
  <2>4. b * d = D /\ s * b \in Nat /\ y * d \in Nat
    BY <1>4, Products
  <2> QED BY <1>4, <2>1, <2>2, <2>3, <2>4
<1>6. q * D + s * b <= x * D + y * d
  BY <1>5
<1>7. q <= x
  <2> SUFFICES ASSUME x + 1 <= q PROVE FALSE
    OBVIOUS
  <2>1. (x + 1) * D <= q * D /\ (x + 1) * D = x * D + D
    BY Products, ProductsOrder
  <2>2. q * D \in Nat /\ x * D \in Nat
    BY Products
  <2> QED BY <1>5, <1>6, <2>1, <2>2
<1>8. CASE q < x
  BY <1>3, <1>8
<1>9. CASE q = x
  <2>1. s * b <= y * d
    <3>1. q * D \in Nat
      BY Products
    <3> QED BY <1>5, <1>6, <1>9, <3>1
  <2>2. (2 * s) * b <= (2 * y) * d
    <3>1. (2 * s) * b = 2 * (s * b) /\ (2 * y) * d = 2 * (y * d)
      BY Products
    <3> QED BY <1>5, <2>1, <3>1
  \* What makes the first one round up makes the second one.
  <2>3. 2 * s >= d => 2 * y >= b
    <3> SUFFICES ASSUME d <= 2 * s, 2 * y < b PROVE FALSE
      OBVIOUS
    <3>1. d * b <= (2 * s) * b /\ (2 * y) * d < b * d /\ b * d = d * b
      BY Products, ProductsOrder
    <3>2. (2 * s) * b \in Nat /\ (2 * y) * d \in Nat /\ d * b \in Nat
      BY Products
    <3> QED BY <2>2, <3>1, <3>2
  <2>4. 2 * s > d => 2 * y > b
    <3> SUFFICES ASSUME d < 2 * s, 2 * y <= b PROVE FALSE
      OBVIOUS
    <3>1. d * b < (2 * s) * b /\ (2 * y) * d <= b * d /\ b * d = d * b
      BY Products, ProductsOrder
    <3>2. (2 * s) * b \in Nat /\ (2 * y) * d \in Nat /\ d * b \in Nat
      BY Products
    <3> QED BY <2>2, <3>1, <3>2
  <2>5. CASE 2 * s < d \/ (2 * s = d /\ q % 2 = 0)
    BY <1>3, <1>9, <2>5
  <2>6. CASE ~ (2 * s < d \/ (2 * s = d /\ q % 2 = 0))
    <3>1. 2 * s > d \/ (2 * s = d /\ q % 2 # 0)
      BY <1>1, <2>6
    <3>2. 2 * y > b \/ (2 * y >= b /\ x % 2 # 0)
      BY <1>9, <2>3, <2>4, <3>1
    <3>3. Nearest(a, b) = x + 1 /\ Nearest(n, d) = q + 1
      BY <1>3, <2>6, <3>2
    <3> QED BY <1>9, <3>3
  <2> QED BY <2>5, <2>6
<1> QED BY <1>7, <1>8, <1>9

-----------------------------------------------------------------------------
(* What rounding keeps                                                     *)

\* A number, as a count of units in its last place.
LEMMA RoundFacts ==
  ASSUME NEW n \in Nat, NEW d \in Nat \ {0}
  PROVE  \E k \in Nat, m \in 0 .. Top :
           /\ Round(n, d) = Power[k] * m /\ Round(n, d) \in Nat
           /\ m = Nearest(n, d * Power[k])
           /\ n < Top * (Power[k] * d)
           /\ k # 0 => Top * (Power[k - 1] * d) <= n
<1>1. PICK k \in Nat : /\ Ulp(n, d) = Power[k]
                       /\ n < Top * (Power[k] * d)
                       /\ k # 0 => Top * (Power[k - 1] * d) <= n
  BY UlpFacts
<1>2. PICK u \in Nat \ {0} : u = Power[k]
  BY PowerFacts
<1>3. d * u \in Nat \ {0} /\ d * u = u * d
  BY Products
<1> DEFINE m == Nearest(n, d * u)
<1>4. m \in Nat
  BY <1>3, NearestFacts
<1>5. m <= Top
  <2>1. Nearest(Top * (d * u), d * u) = Top
    BY <1>3, TopFacts, NearestExact
  <2>2. Top * (d * u) \in Nat
    BY <1>3, TopFacts, Products
  <2>3. n * (d * u) <= (Top * (d * u)) * (d * u)
    <3>1. n <= Top * (d * u)
      BY <1>1, <1>2, <1>3, <2>2
    <3> QED BY <1>3, <2>2, <3>1, ProductsOrder
  <2>4. m <= Nearest(Top * (d * u), d * u)
    BY <1>3, <2>2, <2>3, NearestMonotone
  <2> QED BY <2>1, <2>4
<1>6. Round(n, d) = u * m
  BY <1>1, <1>2 DEF Round
<1>7. u * m \in Nat
  BY <1>4, Products
<1> HIDE DEF m
<1>8. m \in 0 .. Top
  BY <1>4, <1>5, TopFacts
<1> QED BY <1>1, <1>2, <1>6, <1>7, <1>8 DEF m

\* Whatever is larger is rounded to a number that is at least as large.
LEMMA RoundMonotone ==
  ASSUME NEW n \in Nat, NEW d \in Nat \ {0}, NEW a \in Nat, NEW b \in Nat \ {0},
         n * b <= a * d
  PROVE  Round(n, d) <= Round(a, b)
<1>1. PICK k \in Nat, m \in 0 .. Top :
        /\ Round(n, d) = Power[k] * m /\ m = Nearest(n, d * Power[k])
        /\ n < Top * (Power[k] * d)
        /\ k # 0 => Top * (Power[k - 1] * d) <= n
  BY RoundFacts
<1>2. PICK l \in Nat, o \in 0 .. Top :
        /\ Round(a, b) = Power[l] * o /\ o = Nearest(a, b * Power[l])
        /\ a < Top * (Power[l] * b)
        /\ l # 0 => Top * (Power[l - 1] * b) <= a
  BY RoundFacts
<1>3. PICK u \in Nat \ {0}, v \in Nat \ {0} : u = Power[k] /\ v = Power[l]
  BY PowerFacts
<1>4. m \in Nat /\ o \in Nat /\ Top \in Nat \ {0} /\ Half \in Nat \ {0} /\ Top = 2 * Half
  BY TopFacts
<1>5. CASE k = l
  <2>1. d * u \in Nat \ {0} /\ b * u \in Nat \ {0}
    BY Products
  <2>2. n * (b * u) <= a * (d * u)
    <3>1. (n * b) * u <= (a * d) * u /\ (n * b) * u = n * (b * u) /\ (a * d) * u = a * (d * u)
      <4>1. n * b \in Nat /\ a * d \in Nat
        BY Products
      <4> QED BY <4>1, Products, ProductsOrder
    <3> QED BY <3>1
  <2>3. Nearest(n, d * u) <= Nearest(a, b * u)
    BY <2>1, <2>2, NearestMonotone
  <2>4. m <= o
    BY <1>1, <1>2, <1>3, <1>5, <2>3
  <2>5. m * u <= o * u /\ m * u = u * m /\ o * u = u * o
    BY <1>4, <2>4, Products, ProductsOrder
  <2> QED BY <1>1, <1>2, <1>3, <1>5, <2>5
\* Here Top units of the one are no more than Half units of the other.
<1>6. CASE k < l
  <2>1. l - 1 \in Nat /\ l # 0 /\ k <= l - 1 /\ (l - 1) + 1 = l
    BY <1>6
  <2>2. PICK h \in Nat \ {0} : h = Power[l - 1] /\ v = 2 * h
    BY <1>3, <2>1, PowerFacts
  <2>3. u <= h
    BY <1>3, <2>1, <2>2, PowerOrder
  <2>4. m * u <= Top * u /\ Top * u <= Top * h /\ m * u = u * m
    <3>1. u * Top <= h * Top /\ u * Top = Top * u /\ h * Top = Top * h
      BY <1>4, <2>3, Products, ProductsOrder
    <3>2. m * u <= Top * u /\ m * u = u * m
      BY <1>4, Products, ProductsOrder
    <3> QED BY <3>1, <3>2
  <2>5. Top * h = Half * v
    <3>1. Half * (2 * h) = 2 * (Half * h) /\ (2 * Half) * h = 2 * (Half * h)
      BY <1>4, <2>2, Products, SMT
    <3> QED BY <1>4, <2>2, <3>1
  <2>6. Half <= o
    <3>1. Top * (h * b) <= a
      BY <1>2, <2>1, <2>2
    <3>2. Top * (h * b) = (Top * h) * b /\ (Half * v) * b = Half * (v * b) /\ v * b = b * v
      BY <1>4, <2>2, Products
    <3>3. Half * (b * v) <= a /\ b * v \in Nat \ {0} /\ Half * (b * v) \in Nat
      BY <1>4, <2>5, <3>1, <3>2, Products
    <3>4. Nearest(Half * (b * v), b * v) = Half
      BY <1>4, <3>3, NearestExact
    <3>5. (Half * (b * v)) * (b * v) <= a * (b * v)
      BY <3>3, ProductsOrder
    <3>6. Nearest(Half * (b * v), b * v) <= Nearest(a, b * v)
      BY <3>3, <3>5, NearestMonotone
    <3> QED BY <1>2, <1>3, <3>4, <3>6
  <2>7. Half * v <= o * v /\ o * v = v * o
    BY <1>4, <2>6, Products, ProductsOrder
  <2>8. m * u \in Nat /\ Top * u \in Nat /\ Top * h \in Nat /\ o * v \in Nat
    BY <1>4, <2>2, Products
  <2> QED BY <1>1, <1>2, <1>3, <2>4, <2>5, <2>7, <2>8
\* Here the quotients would be in the other order.
<1>7. CASE l < k
  <2>1. k - 1 \in Nat /\ k # 0 /\ l <= k - 1
    BY <1>7
  <2>2. PICK h \in Nat \ {0} : h = Power[k - 1]
    BY <2>1, PowerFacts
  <2>3. v <= h
    BY <1>3, <2>1, <2>2, PowerOrder
  <2>4. Top * (h * d) <= n /\ a < Top * (v * b)
    BY <1>1, <1>2, <1>3, <2>1, <2>2
  <2>5. (Top * (h * d)) * b <= n * b /\ a * d < (Top * (v * b)) * d
    <3>1. Top * (h * d) \in Nat /\ Top * (v * b) \in Nat
      <4>1. h * d \in Nat /\ v * b \in Nat
        BY <2>2, Products
      <4> QED BY <1>4, <4>1, Products
    <3> QED BY <2>4, <3>1, ProductsOrder
  <2>6. PICK e \in Nat : e = Top * (d * b)
    <3>1. d * b \in Nat
      BY Products
    <3> QED BY <1>4, <3>1, Products
  <2>7. (Top * (h * d)) * b = h * e /\ (Top * (v * b)) * d = v * e
    <3>1. \A x \in Nat : (Top * (x * d)) * b = x * (Top * (d * b))
                         /\ (Top * (x * b)) * d = x * (Top * (d * b))
      <4> SUFFICES ASSUME NEW x \in Nat
                   PROVE  /\ (Top * (x * d)) * b = x * (Top * (d * b))
                          /\ (Top * (x * b)) * d = x * (Top * (d * b))
        OBVIOUS
      <4>1. x * d \in Nat /\ x * b \in Nat /\ d * b \in Nat /\ b * d = d * b
            /\ Top * x \in Nat
        BY <1>4, Products
      <4>2. /\ (Top * (x * d)) * b = Top * ((x * d) * b) /\ (x * d) * b = x * (d * b)
            /\ (Top * (x * b)) * d = Top * ((x * b) * d) /\ (x * b) * d = x * (b * d)
        BY <1>4, <4>1, Products
      <4>3. Top * (x * (d * b)) = (Top * x) * (d * b) /\ Top * x = x * Top
            /\ (x * Top) * (d * b) = x * (Top * (d * b))
        BY <1>4, <4>1, Products
      <4> QED BY <4>1, <4>2, <4>3
    <3> QED BY <2>2, <2>6, <3>1
  <2>8. v * e <= h * e
    BY <2>2, <2>3, <2>6, ProductsOrder
  <2>9. n * b \in Nat /\ a * d \in Nat /\ v * e \in Nat /\ h * e \in Nat
    BY <2>2, <2>6, Products
  <2> QED BY <2>5, <2>7, <2>8, <2>9
<1> QED BY <1>5, <1>6, <1>7

\* A count of at most Top units is a number already.
LEMMA RoundUnits ==
  ASSUME NEW k \in Nat, NEW m \in 0 .. Top
  PROVE  Round(Power[k] * m, 1) = Power[k] * m
<1>1. PICK u \in Nat \ {0} : u = Power[k]
  BY PowerFacts
<1>2. m \in Nat /\ Top \in Nat \ {0} /\ Half \in Nat \ {0} /\ Top = 2 * Half
  BY TopFacts
<1>3. PICK n \in Nat : n = u * m
  BY <1>2, Products
<1>4. PICK l \in Nat, o \in 0 .. Top :
        /\ Round(n, 1) = Power[l] * o /\ o = Nearest(n, 1 * Power[l])
        /\ l # 0 => Top * (Power[l - 1] * 1) <= n
  <2>1. PICK d \in Nat \ {0} : d = 1
    OBVIOUS
  <2>2. \E l \in Nat, o \in 0 .. Top :
          /\ Round(n, d) = Power[l] * o /\ o = Nearest(n, d * Power[l])
          /\ l # 0 => Top * (Power[l - 1] * d) <= n
    BY RoundFacts
  <2> QED BY <2>1, <2>2
<1>5. PICK v \in Nat \ {0} : v = Power[l] /\ 1 * v = v
  BY PowerFacts, Products
<1>6. ASSUME NEW w \in Nat, n = w * v PROVE Round(n, 1) = n
  <2>1. Nearest(w * v, v) = w
    BY NearestExact
  <2>2. o = w /\ v * w = w * v
    BY <1>4, <1>5, <1>6, <2>1, Products
  <2> QED BY <1>4, <1>5, <1>6, <2>2
<1>7. CASE l <= k
  <2>1. PICK w \in Nat \ {0} : u = w * v
    BY <1>1, <1>5, <1>7, PowerOrder
  <2>2. n = (w * m) * v /\ w * m \in Nat
    <3>1. (w * v) * m = w * (v * m) /\ v * m = m * v /\ w * (m * v) = (w * m) * v
      BY <1>2, <2>1, Products
    <3> QED BY <1>2, <1>3, <2>1, <3>1, Products
  <2> QED BY <1>1, <1>3, <1>6, <2>2
\* Top units of the smaller unit are Half units of the larger one.
<1>8. CASE k < l
  <2>1. l - 1 \in Nat /\ l # 0 /\ k <= l - 1 /\ (l - 1) + 1 = l
    BY <1>8
  <2>2. PICK h \in Nat \ {0} : h = Power[l - 1] /\ v = 2 * h /\ h * 1 = h
    BY <1>5, <2>1, PowerFacts, Products
  <2>3. u <= h
    BY <1>1, <2>1, <2>2, PowerOrder
  <2>4. Top * h <= n
    BY <1>4, <2>1, <2>2
  <2>5. n <= Top * u
    <3>1. m * u <= Top * u /\ m * u = u * m
      BY <1>2, Products, ProductsOrder
    <3> QED BY <1>3, <3>1
  <2>6. u * Top <= h * Top /\ u * Top = Top * u /\ h * Top = Top * h
        /\ Top * u \in Nat /\ Top * h \in Nat
    BY <1>2, <2>2, <2>3, Products, ProductsOrder
  <2>7. n = Top * h
    BY <2>4, <2>5, <2>6
  <2>8. Top * h = Half * v
    <3>1. Half * (2 * h) = 2 * (Half * h) /\ (2 * Half) * h = 2 * (Half * h)
      BY <1>2, <2>2, Products, SMT
    <3> QED BY <1>2, <2>2, <3>1
  <2> QED BY <1>1, <1>2, <1>3, <1>6, <2>7, <2>8
<1> QED BY <1>7, <1>8

\* Rounding again changes nothing.
LEMMA RoundTwice ==
  ASSUME NEW n \in Nat, NEW d \in Nat \ {0}
  PROVE  Round(Round(n, d), 1) = Round(n, d)
<1>1. PICK k \in Nat, m \in 0 .. Top : Round(n, d) = Power[k] * m
  BY RoundFacts
<1> QED BY <1>1, RoundUnits

\* The error is at most one part in Top, or half of the smallest number.
LEMMA RoundError ==
  ASSUME NEW n \in Nat, NEW d \in Nat \ {0}
  PROVE  /\ Top * (Round(n, d) * d) <= Top * n + (n + Half * d)
         /\ Top * n <= Top * (Round(n, d) * d) + (n + Half * d)
         /\ d = 1 => /\ Top * Round(n, d) <= Top * n + n
                     /\ Top * n <= Top * Round(n, d) + n
<1>1. PICK k \in Nat, m \in 0 .. Top :
        /\ Round(n, d) = Power[k] * m /\ m = Nearest(n, d * Power[k])
        /\ k # 0 => Top * (Power[k - 1] * d) <= n
  BY RoundFacts
<1>2. PICK u \in Nat \ {0} : u = Power[k]
  BY PowerFacts
<1>3. m \in Nat /\ Top \in Nat \ {0} /\ Half \in Nat \ {0} /\ Top = 2 * Half
  BY TopFacts
\* The distance of the rounded number, in units of 1 / d.
<1>4. PICK r \in Nat : r = Round(n, d) * d /\ r = m * (d * u)
  <2>1. (u * m) * d = u * (m * d) /\ u * (m * d) = (m * d) * u /\ (m * d) * u = m * (d * u)
    <3>1. m * d \in Nat
      BY <1>3, Products
    <3> QED BY <1>3, <3>1, Products
  <2>2. (u * m) * d \in Nat
    <3>1. u * m \in Nat
      BY <1>3, Products
    <3> QED BY <3>1, Products
  <2> QED BY <1>1, <1>2, <2>1, <2>2
<1>5. d * u \in Nat \ {0}
  BY Products
<1>6. 2 * n <= 2 * r + d * u /\ 2 * r <= 2 * n + d * u
  BY <1>1, <1>2, <1>4, <1>5, NearestFacts
<1>7. /\ Top * (2 * n) <= Top * (2 * r) + Top * (d * u)
      /\ Top * (2 * r) <= Top * (2 * n) + Top * (d * u)
  <2>1. PICK x \in Nat : x = d * u
    BY <1>5
  <2>2. 2 * n \in Nat /\ 2 * r \in Nat /\ 2 * r + x \in Nat /\ 2 * n + x \in Nat
    OBVIOUS
  <2>3. (2 * n) * Top <= (2 * r + x) * Top /\ (2 * r) * Top <= (2 * n + x) * Top
    BY <1>3, <1>6, <2>1, <2>2, ProductsOrder
  <2>4. /\ (2 * r + x) * Top = (2 * r) * Top + x * Top
        /\ (2 * n + x) * Top = (2 * n) * Top + x * Top
    BY <1>3, <2>1, <2>2, Products
  <2>5. x * Top = Top * x /\ (2 * n) * Top = Top * (2 * n) /\ (2 * r) * Top = Top * (2 * r)
    BY <1>3, <2>1, <2>2, Products
  <2> QED BY <2>1, <2>3, <2>4, <2>5
<1>8. PICK N \in Nat, R \in Nat, E \in Nat :
        N = Top * n /\ R = Top * r /\ E = Top * (d * u)
        /\ Top * (2 * n) = 2 * N /\ Top * (2 * r) = 2 * R
  <2>1. Top * n \in Nat /\ Top * r \in Nat /\ Top * (d * u) \in Nat
    BY <1>3, <1>5, Products
  <2>2. \A x \in Nat : Top * (2 * x) = 2 * (Top * x)
    BY <1>3, SMT
  <2> QED BY <2>1, <2>2
<1>9. 2 * N <= 2 * R + E /\ 2 * R <= 2 * N + E
  BY <1>7, <1>8
<1>10. CASE k = 0
  <2>1. u = 1 /\ d * u = d
    BY <1>2, <1>10, PowerFacts, Products
  <2>2. PICK H \in Nat : H = Half * d /\ E = 2 * H
    <3>1. (2 * Half) * d = 2 * (Half * d) /\ Half * d \in Nat
      BY <1>3, Products
    <3> QED BY <1>3, <1>8, <2>1, <3>1
  <2>3. N <= R + (n + H) /\ R <= N + (n + H)
    BY <1>9, <2>2
  <2>4. d = 1 => Round(n, d) = n
    <3> SUFFICES ASSUME d = 1 PROVE Round(n, d) = n
      OBVIOUS
    <3>1. n * 1 = n /\ d * u = 1 /\ Nearest(n * 1, 1) = n
      BY <2>1, Products, NearestExact
    <3>2. m = n
      BY <1>1, <1>2, <3>1
    <3>3. 1 * n = n
      BY Products
    <3> QED BY <1>1, <1>2, <2>1, <3>2, <3>3
  <2>5. d = 1 => Top * Round(n, d) = N
    BY <1>8, <2>4
  <2>6. Top * (Round(n, d) * d) = R /\ Top * n = N
    BY <1>4, <1>8
  <2>7. d = 1 => Top * Round(n, d) <= N + n /\ N <= Top * Round(n, d) + n
    BY <2>5
  <2> QED BY <2>2, <2>3, <2>6, <2>7
<1>11. CASE k # 0
  <2>1. k - 1 \in Nat /\ (k - 1) + 1 = k
    BY <1>11
  <2>2. PICK h \in Nat \ {0} : h = Power[k - 1] /\ u = 2 * h
    BY <1>2, <2>1, PowerFacts
  <2>3. E = 2 * (Top * (h * d))
    <3>1. d * (2 * h) = 2 * (h * d) /\ h * d \in Nat
      BY <2>2, Products, SMT
    <3>2. \A x \in Nat : Top * (2 * x) = 2 * (Top * x)
      BY <1>3, SMT
    <3> QED BY <1>8, <2>2, <3>1, <3>2
  <2>4. E <= 2 * n
    <3>1. Top * (h * d) <= n
      BY <1>1, <1>11, <2>2
    <3>2. PICK x \in Nat : x = Top * (h * d)
      <4>1. h * d \in Nat
        BY <2>2, Products
      <4> QED BY <1>3, <4>1, Products
    <3> QED BY <2>3, <3>1, <3>2
  <2>5. N <= R + n /\ R <= N + n
    BY <1>9, <2>4
  <2>6. Half * d \in Nat
    BY <1>3, Products
  <2>7. d = 1 => r = Round(n, d)
    <3>1. PICK x \in Nat : x = Round(n, d)
      BY RoundFacts
    <3>2. x * 1 = x
      BY <3>1, Products
    <3> QED BY <1>4, <3>1, <3>2
  <2>8. Top * (Round(n, d) * d) = R /\ Top * n = N
    BY <1>4, <1>8
  <2>9. d = 1 => Top * Round(n, d) = R
    BY <1>8, <2>7
  <2>10. N <= R + (n + Half * d) /\ R <= N + (n + Half * d)
    BY <2>5, <2>6
  <2> QED BY <2>5, <2>8, <2>9, <2>10
<1> QED BY <1>10, <1>11

-----------------------------------------------------------------------------
(* What a swap does to the worth                                           *)

LEMMA TopProducts ==
  /\ \A x \in Nat : Top * x \in Nat /\ 4 * x <= Top * x
  /\ \A x, y \in Nat : Top * (x + y) = Top * x + Top * y
  /\ \A x, y \in Nat : x <= y => Top * x <= Top * y
  /\ \A x, y \in Nat : Top * (x * y) = (Top * x) * y
<1>1. Top \in Nat /\ 4 <= Top
  BY TopFacts
<1>2. \A x \in Nat : Top * x \in Nat /\ Top * x = x * Top
  BY <1>1, Products
<1>3. \A x \in Nat : 4 * x <= Top * x
  BY <1>1, ProductsOrder
<1>4. \A x, y \in Nat : Top * (x + y) = Top * x + Top * y
  <2> SUFFICES ASSUME NEW x \in Nat, NEW y \in Nat
               PROVE  Top * (x + y) = Top * x + Top * y
    OBVIOUS
  <2>1. (x + y) * Top = x * Top + y * Top /\ x + y \in Nat
    BY <1>1, Products
  <2> QED BY <1>2, <2>1
<1>5. \A x, y \in Nat : x <= y => Top * x <= Top * y
  BY <1>1, <1>2, ProductsOrder
<1>6. \A x, y \in Nat : Top * (x * y) = (Top * x) * y
  BY <1>1, Products
<1> QED BY <1>2, <1>3, <1>4, <1>5, <1>6

\* A rounded quantity at a price: off by one part in Top.
LEMMA RoundedWorth ==
  ASSUME NEW x \in Nat, NEW p \in Nat
  PROVE  /\ Round(x, 1) \in Nat
         /\ Top * (Round(x, 1) * p) <= Top * (x * p) + x * p
         /\ Top * (x * p) <= Top * (Round(x, 1) * p) + x * p
<1>1. PICK y \in Nat : y = Round(x, 1)
  <2>1. 1 \in Nat \ {0}
    OBVIOUS
  <2> QED BY <2>1, RoundFacts
<1>2. Top * y <= Top * x + x /\ Top * x <= Top * y + x
  <2>1. PICK d \in Nat \ {0} : d = 1
    OBVIOUS
  <2>2. d = 1 => Top * Round(x, d) <= Top * x + x /\ Top * x <= Top * Round(x, d) + x
    BY RoundError
  <2> QED BY <1>1, <2>1, <2>2
<1>3. Top * x \in Nat /\ Top * y \in Nat
  BY TopProducts
<1>4. (Top * y) * p <= (Top * x + x) * p /\ (Top * x) * p <= (Top * y + x) * p
  <2>1. Top * x + x \in Nat /\ Top * y + x \in Nat
    BY <1>3
  <2> QED BY <1>2, <1>3, <2>1, ProductsOrder
<1>5. /\ (Top * x + x) * p = (Top * x) * p + x * p
      /\ (Top * y + x) * p = (Top * y) * p + x * p
  BY <1>3, Products
<1>6. (Top * y) * p = Top * (y * p) /\ (Top * x) * p = Top * (x * p)
  BY TopProducts
<1> QED BY <1>1, <1>4, <1>5, <1>6

\* merge_coins at prices p and r: s of a, worth t, go out, q come in to b; x is the worth of
\* the other coins, W that of all of them before and V afterwards.
SwapNumbers(p, r, a, b, s, x, t, q, W, V) ==
  /\ p \in Nat /\ r \in Nat \ {0} /\ a \in Nat /\ b \in Nat /\ s \in Nat /\ s <= a /\ x \in Nat
  /\ t \in Nat /\ t = Round(s * p, 1)
  /\ q \in Nat \ {0} /\ q = Round(t, r)
  /\ W \in Nat /\ W = a * p + (b * r + x)
  /\ V \in Nat /\ V = Round(a - s, 1) * p + (Round(b + q, 1) * r + x)

LEMMA WorthBound ==
  ASSUME NEW p, NEW r, NEW a, NEW b, NEW s, NEW x, NEW T, NEW q, NEW W, NEW V,
         SwapNumbers(p, r, a, b, s, x, T, q, W, V)
  PROVE  /\ Half * V <= Half * W + (W + V + Power[Precision - 2] * r)
         /\ Half * W <= Half * V + (W + V + Power[Precision - 2] * r)
<1> SUFFICES
      ASSUME p \in Nat, r \in Nat \ {0}, a \in Nat, b \in Nat, s \in Nat, s <= a, x \in Nat,
             T \in Nat, T = Round(s * p, 1), q \in Nat \ {0}, q = Round(T, r),
             W \in Nat, W = a * p + (b * r + x),
             V \in Nat, V = Round(a - s, 1) * p + (Round(b + q, 1) * r + x)
      PROVE  /\ Half * V <= Half * W + (W + V + Power[Precision - 2] * r)
             /\ Half * W <= Half * V + (W + V + Power[Precision - 2] * r)
  BY DEF SwapNumbers
<1>1. PICK e \in Nat : e = a - s /\ a = e + s
  OBVIOUS
<1>2. PICK A \in Nat, B \in Nat : A = Round(e, 1) /\ B = Round(b + q, 1)
  <2>1. \A z \in Nat : Round(z, 1) \in Nat
    BY RoundedWorth
  <2>2. b + q \in Nat
    OBVIOUS
  <2> QED BY <2>1, <2>2
\* The worth of the parts.
<1>3. PICK ep \in Nat, sp \in Nat, br \in Nat, qr \in Nat, Ap \in Nat, Br \in Nat :
        /\ ep = e * p /\ sp = s * p /\ br = b * r /\ qr = q * r /\ Ap = A * p /\ Br = B * r
  BY <1>2, Products
<1>4. W = ep + sp + br + x /\ V = Ap + Br + x
  <2>1. a * p = ep + sp
    BY <1>1, <1>3, Products
  <2> QED BY <1>1, <1>2, <1>3, <2>1
<1>5. Top * Ap <= Top * ep + ep /\ Top * ep <= Top * Ap + ep
  BY <1>2, <1>3, RoundedWorth
<1>6. /\ Top * Br <= Top * (br + qr) + (br + qr)
      /\ Top * (br + qr) <= Top * Br + (br + qr)
  <2>1. (b + q) * r = br + qr
    BY <1>3, Products
  <2>2. b + q \in Nat
    OBVIOUS
  <2> QED BY <1>2, <1>3, <2>1, <2>2, RoundedWorth
<1>7. Top * T <= Top * sp + sp /\ Top * sp <= Top * T + sp
  <2>1. PICK d \in Nat \ {0} : d = 1
    OBVIOUS
  <2>2. d = 1 => /\ Top * Round(sp, d) <= Top * sp + sp
                 /\ Top * sp <= Top * Round(sp, d) + sp
    BY RoundError
  <2> QED BY <1>3, <2>1, <2>2
<1>8. PICK h \in Nat : h = Half * r /\ h <= Half * qr /\ h = 2 * (Power[Precision - 2] * r)
  <2>1. PICK Q \in Nat \ {0} : Q = Power[Precision - 2] /\ Half = 2 * Q
    BY TopFacts
  <2>2. Half * r = 2 * (Q * r) /\ Half * r \in Nat /\ Half \in Nat
    BY <2>1, Products
  <2>3. 1 * r <= q * r /\ 1 * r = r
    BY Products, ProductsOrder
  <2>4. r * Half <= qr * Half /\ r * Half = Half * r /\ qr * Half = Half * qr
    BY <1>3, <2>2, <2>3, Products, ProductsOrder
  <2> QED BY <2>1, <2>2, <2>4
<1>9. Top * qr <= Top * T + (T + h) /\ Top * T <= Top * qr + (T + h)
  BY <1>3, <1>8, RoundError
\* What comes in is in the wallet afterwards, rounded or not.
<1>10. qr <= Br
  <2>1. Round(q, 1) = q
    BY RoundTwice
  <2>2. Round(q, 1) <= Round(b + q, 1)
    <3>1. PICK z \in Nat : z = b + q
      OBVIOUS
    <3>2. PICK d \in Nat \ {0} : d = 1
      OBVIOUS
    <3>3. q * d <= z * d
      BY <3>1, <3>2
    <3>4. Round(q, d) <= Round(z, d)
      BY <3>3, RoundMonotone
    <3> QED BY <3>1, <3>2, <3>4
  <2> QED BY <1>2, <1>3, <2>1, <2>2, ProductsOrder
<1>11. PICK tA \in Nat, tE \in Nat, tB \in Nat, tb \in Nat, tq \in Nat, tS \in Nat, tT \in Nat,
            tx \in Nat, tW \in Nat, tV \in Nat :
         /\ tA = Top * Ap /\ tE = Top * ep /\ tB = Top * Br /\ tb = Top * br /\ tq = Top * qr
         /\ tS = Top * sp /\ tT = Top * T /\ tx = Top * x /\ tW = Top * W /\ tV = Top * V
  BY TopProducts
<1>12. Top * (br + qr) = tb + tq /\ tW = tE + tS + tb + tx /\ tV = tA + tB + tx
  <2>1. Top * (br + qr) = tb + tq
    BY <1>11, TopProducts
  <2>2. tW = tE + tS + tb + tx
    <3>1. Top * ((ep + sp) + (br + x)) = Top * (ep + sp) + Top * (br + x)
      <4>1. ep + sp \in Nat /\ br + x \in Nat
        OBVIOUS
      <4> QED BY <4>1, TopProducts
    <3>2. Top * (ep + sp) = tE + tS /\ Top * (br + x) = tb + tx
      BY <1>11, TopProducts
    <3>3. W = (ep + sp) + (br + x)
      BY <1>4
    <3>4. tW = (tE + tS) + (tb + tx)
      BY <1>11, <3>1, <3>2, <3>3
    <3> QED BY <3>4
  <2>3. tV = tA + tB + tx
    <3>1. Top * (Ap + (Br + x)) = Top * Ap + Top * (Br + x)
      BY TopProducts
    <3>2. Top * (Br + x) = tB + tx
      BY <1>11, TopProducts
    <3>3. V = Ap + (Br + x)
      BY <1>4
    <3> QED BY <1>11, <3>1, <3>2, <3>3
  <2> QED BY <2>1, <2>2, <2>3
<1>13. /\ tA <= tE + ep /\ tE <= tA + ep
       /\ tB <= tb + tq + (br + qr) /\ tb + tq <= tB + (br + qr)
       /\ tT <= tS + sp /\ tS <= tT + sp
       /\ tq <= tT + (T + h) /\ tT <= tq + (T + h)
  BY <1>5, <1>6, <1>7, <1>9, <1>11, <1>12
\* What the source is worth on the way is no more than both wallets.
<1>14. T <= W + V
  <2> SUFFICES ASSUME W + V < T PROVE FALSE
    OBVIOUS
  <2>1. tW + tV <= tT
    <3>1. W + V \in Nat /\ W + V <= T
      OBVIOUS
    <3>2. Top * (W + V) <= Top * T
      BY <3>1, TopProducts
    <3>3. Top * (W + V) = Top * W + Top * V
      BY TopProducts
    <3> QED BY <1>11, <3>2, <3>3
  <2>2. tS <= tW /\ sp <= W
    BY <1>4, <1>12
  <2>3. tV <= W
    BY <1>13, <2>1, <2>2
  <2>4. 2 * h <= tq /\ tq <= tV
    <3>1. 2 * (Half * qr) = tq
      <4>1. Half \in Nat /\ Top = 2 * Half
        BY TopFacts
      <4>2. (2 * Half) * qr = 2 * (Half * qr)
        BY <4>1, Products
      <4> QED BY <1>11, <4>1, <4>2
    <3>2. Half * qr \in Nat
      BY TopFacts, Products
    <3>3. tq <= tB
      BY <1>10, <1>11, TopProducts
    <3> QED BY <1>8, <1>12, <3>1, <3>2, <3>3
  <2>5. 4 * T <= tT
    BY <1>11, TopProducts
  <2> QED BY <1>13, <2>3, <2>4, <2>5
<1>15. ep + sp + br <= W /\ qr <= V
  BY <1>4, <1>10
<1>16. PICK k \in Nat : h = 2 * k /\ k = Power[Precision - 2] * r
  <2>1. Power[Precision - 2] * r \in Nat
    BY TopFacts, Products
  <2> QED BY <1>8, <2>1
<1>17. tV <= tW + 2 * (W + V + k) /\ tW <= tV + 2 * (W + V + k)
  BY <1>12, <1>13, <1>14, <1>15, <1>16
<1>18. PICK hW \in Nat, hV \in Nat :
         hW = Half * W /\ hV = Half * V /\ tW = 2 * hW /\ tV = 2 * hV
  <2>1. Half \in Nat /\ Top = 2 * Half
    BY TopFacts
  <2>2. (2 * Half) * W = 2 * (Half * W) /\ (2 * Half) * V = 2 * (Half * V)
        /\ Half * W \in Nat /\ Half * V \in Nat
    BY <2>1, Products
  <2> QED BY <1>11, <2>1, <2>2
<1>19. hV <= hW + (W + V + k) /\ hW <= hV + (W + V + k)
  BY <1>17, <1>18
<1> QED BY <1>16, <1>18, <1>19

-----------------------------------------------------------------------------
(* The feed                                                                *)

\* An empty text has no price.
LEMMA NoPriceInNothing == ExtrairPreco(<<>>) = Failed
<1>1. Number(<<>>) = <<>>
  BY DEF Number
<1> QED BY <1>1 DEF ExtrairPreco

\* A price that is read is one of Quote.
LEMMA PriceIsQuote ==
  /\ \A text \in Leftover : ExtrairPreco(text) # Failed => ExtrairPreco(text) \in Quote
  /\ \A a \in Answer :
       a.status = Ok /\ ExtrairPreco(a.body) # Failed => ExtrairPreco(a.body) \in Quote
BY DEF Quote

\* The step of the loop that FoldLeft stands for, which takes the last digit last.
ReadsDigits(g, s, F) ==
  g = [S \in F |-> IF S = {} THEN 0 ELSE 10 * g[S \ {Max(S)}] + s[Max(S)]]

Value(s) == FoldLeft(LAMBDA n, d : 10 * n + d, 0, s)

LEMMA ValueIsRead ==
  ASSUME NEW s
  PROVE  Value(s) = (CHOOSE g : ReadsDigits(g, s, SUBSET DOMAIN s))[DOMAIN s]
BY DEF Value, FoldLeft, MapThenFoldSet, ReadsDigits

LEMMA LastOfSet ==
  ASSUME NEW n \in Nat, NEW S \in SUBSET (1 .. n), S # {}
  PROVE  Max(S) \in S
<1>1. \E x \in S : \A y \in S : y <= x
  <2>1. S \subseteq 0 .. n
    OBVIOUS
  <2> QED BY <2>1, GreatestNatural
<1>2. \E x \in S : \A y \in S : x >= y
  BY <1>1
<1> QED BY <1>2 DEF Max

LEMMA ReadingExists ==
  ASSUME NEW n \in Nat, NEW s
  PROVE  \E g : ReadsDigits(g, s, SUBSET (1 .. n))
<1> DEFINE I == 1 .. n
           Level(k) == {S \in SUBSET I : Cardinality(S) <= k}
           K == {k \in Nat : \E g : ReadsDigits(g, s, Level(k))}
<1>1. IsFiniteSet(I)
  BY FS_Interval
<1>2. \A S \in SUBSET I : IsFiniteSet(S) /\ Cardinality(S) \in Nat
  BY <1>1, FS_Subset, FS_CardinalityType
<1>3. \A S \in SUBSET I : S # {} =>
        S \ {Max(S)} \in SUBSET I /\ Cardinality(S \ {Max(S)}) = Cardinality(S) - 1
  BY <1>2, LastOfSet, FS_RemoveElement
<1>4. 0 \in K
  <2> DEFINE g == [S \in Level(0) |-> 0]
  <2>1. \A S \in Level(0) : S = {}
    BY <1>2, FS_EmptySet
  <2>2. g = [S \in Level(0) |-> IF S = {} THEN 0 ELSE 10 * g[S \ {Max(S)}] + s[Max(S)]]
    BY <2>1
  <2> QED BY <2>2 DEF ReadsDigits
<1>5. ASSUME NEW k \in Nat, k \in K PROVE k + 1 \in K
  <2>1. PICK g : ReadsDigits(g, s, Level(k))
    BY <1>5
  <2> DEFINE Step(h, S) == IF S = {} THEN 0 ELSE 10 * h[S \ {Max(S)}] + s[Max(S)]
             h == [S \in Level(k + 1) |-> Step(g, S)]
  <2>2. \A S \in Level(k) : g[S] = Step(g, S)
    BY <2>1 DEF ReadsDigits
  <2>3. Level(k) \subseteq Level(k + 1)
    BY <1>2
  <2>4. \A S \in Level(k) : h[S] = g[S]
    BY <2>2, <2>3
  <2>5. \A S \in Level(k + 1) : S # {} => S \ {Max(S)} \in Level(k)
    <3> SUFFICES ASSUME NEW S \in Level(k + 1), S # {} PROVE S \ {Max(S)} \in Level(k)
      OBVIOUS
    <3>1. /\ S \in SUBSET I /\ Cardinality(S) \in Nat /\ Cardinality(S) <= k + 1
          /\ S \ {Max(S)} \in SUBSET I
          /\ Cardinality(S \ {Max(S)}) = Cardinality(S) - 1
      BY <1>2, <1>3
    <3>2. Cardinality(S \ {Max(S)}) <= k
      BY <3>1
    <3> QED BY <3>1, <3>2
  <2>6. \A S \in Level(k + 1) : Step(g, S) = Step(h, S)
    BY <2>4, <2>5
  <2>7. h = [S \in Level(k + 1) |-> Step(h, S)]
    BY <2>6
  <2>8. ReadsDigits(h, s, Level(k + 1))
    BY <2>7 DEF ReadsDigits
  <2> HIDE DEF Level, h
  <2>9. \E j : ReadsDigits(j, s, Level(k + 1))
    BY <2>8
  <2> QED BY <2>9
<1>6. Cardinality(I) \in K
  <2>1. Nat \subseteq K
    <3> HIDE DEF K
    <3> QED BY <1>4, <1>5, Induction
  <2> QED BY <1>1, <2>1, FS_CardinalityType
<1>7. Level(Cardinality(I)) = SUBSET I
  BY <1>1, <1>2, FS_Subset
<1> QED BY <1>6, <1>7

\* Digits spell a natural number.
LEMMA ValueNatural ==
  ASSUME NEW n \in Nat, NEW s, DOMAIN s = 1 .. n, \A i \in 1 .. n : s[i] \in Digit
  PROVE  Value(s) \in Nat
<1> DEFINE g == CHOOSE h : ReadsDigits(h, s, SUBSET (1 .. n))
           F == {S \in SUBSET (1 .. n) : g[S] \in Nat}
<1>1. ReadsDigits(g, s, SUBSET (1 .. n))
  BY ReadingExists
<1>2. Value(s) = g[1 .. n]
  BY ValueIsRead
<1> HIDE DEF g
<1>3. ASSUME NEW S \in SUBSET (1 .. n), \A T \in SUBSET S : T # S => T \in F
      PROVE  S \in F
  <2>1. g[S] = IF S = {} THEN 0 ELSE 10 * g[S \ {Max(S)}] + s[Max(S)]
    BY <1>1 DEF ReadsDigits
  <2>2. CASE S = {}
    BY <2>1, <2>2
  <2>3. CASE S # {}
    <3>1. Max(S) \in S
      BY <2>3, LastOfSet
    <3>2. g[S \ {Max(S)}] \in Nat
      <4>1. S \ {Max(S)} \in SUBSET S /\ S \ {Max(S)} # S
        BY <3>1
      <4> QED BY <1>3, <4>1
    <3>3. s[Max(S)] \in Nat
      <4>1. Max(S) \in 1 .. n
        BY <3>1
      <4>2. s[Max(S)] \in Digit
        BY <4>1
      <4> QED BY <4>2 DEF Digit
    <3>4. g[S] \in Nat
      BY <2>1, <2>3, <3>2, <3>3
    <3> QED BY <3>4
  <2> QED BY <2>2, <2>3
<1>4. SUBSET (1 .. n) \subseteq F
  <2>1. \A S \in SUBSET (1 .. n) : (\A T \in SUBSET S : T # S => T \in F) => S \in F
    BY <1>3
  <2>2. PICK I : I = 1 .. n /\ IsFiniteSet(I)
    BY FS_Interval
  <2> HIDE DEF F
  <2>3. \A S \in SUBSET I : (\A T \in SUBSET S : T # S => T \in F) => S \in F
    BY <2>1, <2>2
  <2>4. IsFiniteSet(I)
    BY <2>2
  <2>5. SUBSET I \subseteq F
    BY <2>3, <2>4, SubsetInduction
  <2> QED BY <2>2, <2>5
<1>5. 1 .. n \in F
  BY <1>4
<1> QED BY <1>2, <1>5

\* A text from the server, or from the buffer that was never written.
Text == {a.body : a \in Answer} \cup Leftover

LEMMA NumberIsDigits ==
  ASSUME NEW text \in Text
  PROVE  \E n \in Nat : DOMAIN Number(text) = 1 .. n
                        /\ \A i \in 1 .. n : Number(text)[i] \in Digit
<1> DEFINE keys == {k \in DOMAIN text : text[k] = Usd}
           key == CHOOSE k \in keys : \A j \in keys : k <= j
           ends == {e \in key .. Len(text) : \A i \in key + 1 .. e : text[i] \in Digit}
           end == CHOOSE e \in ends : \A d \in ends : d <= e
<1>1. Number(text) = IF keys = {} THEN <<>> ELSE SubSeq(text, key + 1, end)
  BY DEF Number
<1>2. CASE keys = {}
  <2>1. Number(text) = <<>> /\ DOMAIN <<>> = 1 .. 0
    BY <1>1, <1>2
  <2> QED BY <2>1
<1>3. CASE keys # {}
  <2>1. PICK l \in Nat : l = Len(text) /\ DOMAIN text = 1 .. l
    BY AnswerAssumption DEF Text
  <2>2. key \in 1 .. l
    <3>1. keys \subseteq Nat
      BY <2>1
    <3>2. \E k \in keys : \A j \in keys : k <= j
      <4> HIDE DEF keys
      <4> QED BY <1>3, <3>1, LeastNatural
    <3>3. key \in keys
      BY <3>2
    <3> QED BY <2>1, <3>3
  <2> HIDE DEF keys, key
  <2>3. end \in key .. l /\ \A i \in key + 1 .. end : text[i] \in Digit
    <3>1. ends \subseteq 0 .. l /\ ends # {}
      <4>1. key \in ends
        BY <2>1, <2>2
      <4> QED BY <2>1, <2>2, <4>1
    <3>2. \E e \in ends : \A d \in ends : d <= e
      <4> HIDE DEF ends
      <4> QED BY <3>1, GreatestNatural
    <3>3. end \in ends
      BY <3>2
    <3> QED BY <2>1, <3>3
  <2> HIDE DEF ends, end
  <2>4. Number(text) = SubSeq(text, key + 1, end)
    BY <1>1, <1>3
  <2>5. PICK n \in Nat : n = end - key
    BY <2>2, <2>3
  <2>6. /\ DOMAIN SubSeq(text, key + 1, end) = 1 .. n
        /\ \A i \in 1 .. n : SubSeq(text, key + 1, end)[i] = text[i + key]
    BY <2>1, <2>2, <2>3, <2>5
  <2>7. \A i \in 1 .. n : i + key \in key + 1 .. end
    BY <2>2, <2>3, <2>5
  <2> QED BY <2>3, <2>4, <2>6, <2>7
<1> QED BY <1>2, <1>3

\* What is taken for a price is a positive number.
LEMMA PriceIsPositive ==
  ASSUME NEW text \in Text, ExtrairPreco(text) # Failed
  PROVE  ExtrairPreco(text) \in Nat \ {0}
<1>1. ExtrairPreco(text) = Value(Number(text)) /\ Value(Number(text)) # 0
  BY DEF ExtrairPreco, Value
<1>2. Value(Number(text)) \in Nat
  BY NumberIsDigits, ValueNatural
<1> QED BY <1>1, <1>2

LEMMA QuotesPositive == Quote \subseteq Nat \ {0}
BY PriceIsPositive DEF Quote, Text

\* Each handler moves the feed by one of its steps, or leaves it alone.
LEMMA HandlersUseFeed == [Next]_vars => [FeedNext]_feed
BY DEF Next, vars, LivePrices, Shown, SwapScreen, Choose, GiveUp, Merge, Fetching, FeedNext

-----------------------------------------------------------------------------
(* The inductive invariant                                                 *)

IInv == FeedTypeOK /\ PricesAreQuoted

LEMMA FeedInitIInv == FeedInit => IInv
<1> SUFFICES ASSUME FeedInit PROVE IInv
  OBVIOUS
<1>1. FeedTypeOK
  BY EmptySeq DEF FeedInit, FeedTypeOK
<1>2. PricesAreQuoted
  BY DEF FeedInit, PricesAreQuoted
<1> QED BY <1>1, <1>2 DEF IInv

\* The rest of the loop, and the coin at work.
LEMMA RestOfLoop ==
  ASSUME FeedTypeOK, todo # <<>>
  PROVE  Head(todo) \in Coin /\ Tail(todo) \in Seq(Coin)
BY HeadTailProperties DEF FeedTypeOK

\* Giving up a transfer, by an error or by the time limit, keeps every price.
LEMMA GiveUpTransfer ==
  ASSUME IInv, awaited # Nothing, NextCoin, UNCHANGED <<preco, quoted, unwritten>>
  PROVE  IInv'
<1>1. todo' \in Seq(Coin) /\ awaited' = Nothing /\ received' = <<>>
  BY RestOfLoop DEF IInv, FeedTypeOK, NextCoin
<1> QED BY <1>1 DEF IInv, FeedTypeOK, PricesAreQuoted

LEMMA CompleteStep ==
  ASSUME IInv, Complete
  PROVE  IInv'
<1> DEFINE c == Head(todo)
<1>1. /\ awaited \in Answer /\ awaited # Nothing /\ received = awaited.body
      /\ c \in Coin
      /\ todo' \in Seq(Coin) /\ awaited' = Nothing /\ received' = <<>>
  BY RestOfLoop DEF IInv, FeedTypeOK, Complete, NextCoin
<1>2. PICK text \in IF received = <<>> THEN Leftover ELSE {received} :
        IF Usable(text)
          THEN /\ preco' = [preco EXCEPT ![c] = ExtrairPreco(text)]
               /\ unwritten' = IF received = <<>> THEN unwritten \cup {c}
                               ELSE unwritten \ {c}
          ELSE UNCHANGED <<preco, unwritten>>
  BY DEF Complete
<1> DEFINE sent == awaited.status = Ok /\ ExtrairPreco(awaited.body) # Failed
<1>3. quoted' = IF sent THEN [quoted EXCEPT ![c] = ExtrairPreco(awaited.body)] ELSE quoted
  BY DEF Complete
<1>4. Usable(text) => ExtrairPreco(text) \in Quote
  BY <1>1, <1>2, PriceIsQuote DEF Usable
<1>5. sent => ExtrairPreco(awaited.body) \in Quote
  BY <1>1, PriceIsQuote
<1>6. preco' \in [Coin -> Quote \cup {Unpriced}] /\ unwritten' \subseteq Coin
  BY <1>1, <1>2, <1>4 DEF IInv, FeedTypeOK
<1>7. quoted' \in [Coin -> Quote \cup {Unpriced}]
  BY <1>1, <1>3, <1>5 DEF IInv, FeedTypeOK
<1>8. PricesAreQuoted'
  <2>1. CASE received = <<>>
    <3>1. ~ sent
      BY <1>1, <2>1, NoPriceInNothing
    <3>2. \A d \in Coin : d \notin unwritten' => d \notin unwritten /\ preco'[d] = preco[d]
      BY <1>2, <2>1 DEF IInv, FeedTypeOK
    <3> QED BY <1>3, <3>1, <3>2 DEF IInv, PricesAreQuoted
  <2>2. CASE received # <<>>
    <3>1. text = awaited.body /\ (Usable(text) <=> sent)
      BY <1>1, <1>2, <2>2 DEF Usable
    <3>2. CASE sent
      <4>1. /\ preco' = [preco EXCEPT ![c] = ExtrairPreco(text)]
            /\ quoted' = [quoted EXCEPT ![c] = ExtrairPreco(text)]
            /\ unwritten' = unwritten \ {c}
        BY <1>2, <1>3, <2>2, <3>1, <3>2
      <4> QED BY <4>1 DEF IInv, FeedTypeOK, PricesAreQuoted
    <3>3. CASE ~ sent
      BY <1>2, <1>3, <3>1, <3>3 DEF IInv, PricesAreQuoted
    <3> QED BY <3>2, <3>3
  <2> QED BY <2>1, <2>2
<1> QED BY <1>1, <1>6, <1>7, <1>8 DEF IInv, FeedTypeOK

LEMMA FeedStepIInv == IInv /\ [FeedNext]_feed => IInv'
<1> SUFFICES ASSUME IInv, [FeedNext]_feed PROVE IInv'
  OBVIOUS
<1>1. CASE StartRefresh
  BY <1>1, CoinAssumption DEF StartRefresh, IInv, FeedTypeOK, PricesAreQuoted
<1>2. CASE Begin
  <2>1. /\ awaited' \in Answer /\ awaited' # Nothing /\ received' = <<>>
        /\ Len(awaited'.body) \in Nat
    BY <1>2, AnswerAssumption DEF Begin, IInv, FeedTypeOK
  <2>2. 0 \in 0 .. Len(awaited'.body) /\ SubSeq(awaited'.body, 1, 0) = <<>>
    BY <2>1
  <2> QED BY <1>2, <2>1, <2>2 DEF Begin, IInv, FeedTypeOK, PricesAreQuoted
<1>3. CASE CannotBegin
  <2>1. todo' \in Seq(Coin)
    BY <1>3, RestOfLoop DEF CannotBegin, IInv
  <2> QED BY <1>3, <2>1 DEF CannotBegin, IInv, FeedTypeOK, PricesAreQuoted
<1>4. CASE Deliver
  <2>1. /\ awaited' = awaited /\ awaited # Nothing /\ awaited \in Answer
        /\ Len(awaited.body) \in Nat /\ Len(received) \in Nat
        /\ \E n \in Len(received) + 1 .. Len(awaited.body) :
             received' = SubSeq(awaited.body, 1, n)
    <3>1. awaited # Nothing /\ awaited \in Answer
      BY <1>4 DEF Deliver, IInv, FeedTypeOK
    <3>2. DOMAIN awaited.body = 1 .. Len(awaited.body) /\ Len(awaited.body) \in Nat
      BY <3>1, AnswerAssumption
    <3>3. PICK n \in 0 .. Len(awaited.body) : received = SubSeq(awaited.body, 1, n)
      BY <3>1 DEF IInv, FeedTypeOK
    <3>4. Len(received) = n
      BY <3>2, <3>3
    <3> QED BY <1>4, <3>1, <3>2, <3>4 DEF Deliver
  <2>2. \E n \in 0 .. Len(awaited.body) : received' = SubSeq(awaited.body, 1, n)
    BY <2>1
  <2> QED BY <1>4, <2>1, <2>2 DEF Deliver, IInv, FeedTypeOK, PricesAreQuoted
<1>5. CASE Fail
  BY <1>5, GiveUpTransfer DEF Fail
<1>6. CASE TimeOut
  BY <1>6, GiveUpTransfer DEF TimeOut
<1>7. CASE Complete
  BY <1>7, CompleteStep
<1>8. CASE UNCHANGED feed
  BY <1>8 DEF feed, IInv, FeedTypeOK, PricesAreQuoted
<1> QED BY <1>1, <1>2, <1>3, <1>4, <1>5, <1>6, <1>7, <1>8 DEF FeedNext, Fetch

LEMMA Invariance == Spec => []IInv
<1>1. Init => IInv
  BY FeedInitIInv DEF Init
<1>2. IInv /\ [Next]_vars => IInv'
  BY HandlersUseFeed, FeedStepIInv
<1> QED BY <1>1, <1>2, PTL DEF Spec

-----------------------------------------------------------------------------
(* The inductive invariant of the handlers                                 *)

\* The screen shows what the swap would bring at today's prices, from the moment it asks
\* until what it told of the swap is cleared.  A refused offer stays one that a test
\* refuses, or one whose destination has no node.
OfferShown == offer.dqty = Shows(offer.src, offer.sqty, offer.dst)

Inv ==
  /\ IInv
  /\ TypeOK
  /\ pc = "confirm" => offer \in Offer /\ OfferShown
  /\ outcome # "none" => pc = "menu" /\ OfferShown
  /\ outcome = "refused" => ~ CanMerge(offer) \/ offer.dst \notin nodes

LEMMA PricesNatural == FeedTypeOK => preco \in [Coin -> Nat]
<1>1. Quote \cup {Unpriced} \subseteq Nat
  BY QuotesPositive DEF Unpriced
<1>2. FeedTypeOK => preco \in [Coin -> Quote \cup {Unpriced}]
  BY DEF FeedTypeOK
<1> QED BY <1>1, <1>2

LEMMA OneIsPositive == 1 \in Nat \ {0}
OBVIOUS

LEMMA RoundNatural ==
  /\ \A n \in Nat : Round(n, 1) \in Nat
  /\ \A n \in Nat, d \in Nat \ {0} : Round(n, d) \in Nat
BY OneIsPositive, RoundFacts

LEMMA ShowsNatural ==
  ASSUME preco \in [Coin -> Nat], NEW src \in Coin, NEW s \in Nat, NEW dst \in Coin
  PROVE  Shows(src, s, dst) \in Nat
<1>1. CASE preco[src] > 0 /\ preco[dst] > 0
  <2>1. s * preco[src] \in Nat
    BY Products
  <2>2. Times(s, preco[src]) \in Nat
    BY <2>1, RoundNatural DEF Times
  <2>3. preco[dst] \in Nat \ {0}
    BY <1>1
  <2>4. Over(Times(s, preco[src]), preco[dst]) \in Nat
    BY <2>2, <2>3, RoundNatural DEF Over
  <2> QED BY <2>4 DEF Shows
<1>2. CASE ~ (preco[src] > 0 /\ preco[dst] > 0)
  BY <1>2 DEF Shows
<1> QED BY <1>1, <1>2

\* What merge_coins pays is what the screen shows, for prices that both are there.
LEMMA ReceivesShown ==
  ASSUME NEW o, preco[o.src] > 0, preco[o.dst] > 0
  PROVE  Receives(o) = Shows(o.src, o.sqty, o.dst)
BY DEF Receives, Shows

LEMMA NoOfferIsNone == NoOffer.dqty = 0 /\ ~ CanMerge(NoOffer)
BY DEF NoOffer, CanMerge

LEMMA MergedNatural ==
  ASSUME TypeOK, preco \in [Coin -> Nat], CanMerge(offer)
  PROVE  Merged(offer) \in [Coin -> Nat] /\ offer \in Offer /\ Receives(offer) \in Nat \ {0}
<1>1. offer \in Offer /\ offer.src \in Coin /\ offer.dst \in Coin
      /\ offer.sqty \in Nat /\ offer.dqty \in Nat /\ offer.dqty > 0
      /\ preco[offer.src] > 0 /\ preco[offer.dst] > 0
  BY NoOfferIsNone, AskedAssumption DEF TypeOK, Offer, CanMerge
<1>2. Receives(offer) \in Nat
  BY <1>1, ReceivesShown, ShowsNatural
<1>3. Receives(offer) >= offer.dqty
  BY DEF CanMerge
<1>4. coins[offer.src] - offer.sqty \in Nat /\ coins[offer.dst] + Receives(offer) \in Nat
  BY <1>1, <1>2 DEF CanMerge, TypeOK
<1>5. Minus(coins[offer.src], offer.sqty) \in Nat
      /\ Plus(coins[offer.dst], Receives(offer)) \in Nat /\ offer.src # offer.dst
  <2>1. ~ (coins[offer.src] < offer.sqty)
    BY <1>1 DEF CanMerge, TypeOK
  <2> QED BY <1>4, <2>1, RoundNatural DEF Minus, Plus, CanMerge
<1>6. Merged(offer) =
        [coins EXCEPT ![offer.src] = Minus(coins[offer.src], offer.sqty),
                      ![offer.dst] = Plus(coins[offer.dst], Receives(offer))]
  BY <1>1, <1>5 DEF Merged, TypeOK
<1> QED BY <1>1, <1>2, <1>3, <1>5, <1>6 DEF TypeOK

LEMMA InitInv == Init => Inv
<1> SUFFICES ASSUME Init PROVE Inv
  OBVIOUS
<1>1. IInv
  BY FeedInitIInv DEF Init
<1>2. Head(CoinOrder) \in Coin
  BY CoinAssumption, HeadTailProperties
<1>3. /\ coins \in [Coin -> Nat] /\ nodes \subseteq Coin
      /\ \A c \in Coin : coins[c] > 0 => c \in nodes
  BY AskedAssumption DEF Init
<1> QED BY <1>1, <1>2, <1>3, NumberAssumption DEF Init, FeedInit, Inv, IInv, TypeOK

\* Starting a refresh clears the screen.
LEMMA StartInv ==
  ASSUME Inv, IInv', LivePrices \/ SwapScreen
  PROVE  Inv'
<1>1. /\ pc' \in {"live", "swap"} /\ coins' = coins /\ nodes' = nodes
      /\ offer' = NoOffer /\ outcome' = "none"
      /\ visits' \in 0 .. MaxSwaps
  BY NumberAssumption DEF LivePrices, SwapScreen, Clear, Inv, TypeOK
<1> QED BY <1>1 DEF Inv, IInv, TypeOK

LEMMA ChooseInv ==
  ASSUME Inv, IInv', NEW src \in Coin, NEW dst \in Coin, NEW s \in Asked, Choose(src, s, dst)
  PROVE  Inv'
<1>1. Shows(src, s, dst) \in Nat
  BY AskedAssumption, PricesNatural, ShowsNatural DEF Inv, IInv
<1>2. /\ offer' = [src |-> src, dst |-> dst, sqty |-> s, dqty |-> Shows(src, s, dst)]
      /\ pc' = "confirm" /\ pc = "swap" /\ todo' = <<>> /\ preco' = preco
      /\ UNCHANGED <<coins, nodes, outcome, visits>>
  BY DEF Choose, feed
<1>3. offer' \in Offer /\ OfferShown'
  BY <1>1, <1>2 DEF Offer, OfferShown, Shows
<1>4. outcome' = "none"
  BY <1>2 DEF Inv, TypeOK
<1> QED BY <1>2, <1>3, <1>4 DEF Inv, IInv, TypeOK

\* Leaving the screen, with the prices or without a swap.
LEMMA LeaveInv ==
  ASSUME Inv, IInv', Shown \/ GiveUp
  PROVE  Inv'
<1>1. /\ pc # "menu" /\ pc' = "menu" /\ todo = <<>>
      /\ UNCHANGED <<coins, nodes, offer, outcome, visits, preco, todo>>
  BY DEF Shown, GiveUp, feed
<1>2. outcome = "none"
  BY <1>1 DEF Inv
<1> QED BY <1>1, <1>2 DEF Inv, IInv, TypeOK

LEMMA MergeInv ==
  ASSUME Inv, IInv', Merge
  PROVE  Inv'
<1>1. /\ pc = "confirm" /\ pc' = "menu" /\ offer' = offer /\ visits' = visits
      /\ preco' = preco /\ todo' = todo
      /\ offer \in Offer /\ OfferShown
  BY DEF Merge, feed, Inv
<1>2. OfferShown'
  BY <1>1 DEF OfferShown, Shows
<1>3. CASE /\ CanMerge(offer)
           /\ coins' = Merged(offer)
           /\ nodes' = nodes \cup {offer.dst}
           /\ outcome' = "done"
  <2>1. coins' \in [Coin -> Nat]
    BY <1>3, MergedNatural, PricesNatural DEF Inv, IInv
  <2>2. /\ nodes' \subseteq Coin
        /\ \A c \in Coin : coins'[c] > 0 => c \in nodes'
    <3>1. /\ coins \in [Coin -> Nat] /\ nodes \subseteq Coin /\ offer.dst \in Coin
          /\ \A c \in Coin : coins[c] > 0 => c \in nodes
          /\ offer.sqty \in Nat \ {0} /\ offer.src \in Coin
      BY <1>1, AskedAssumption DEF Inv, TypeOK, Offer
    <3>2. coins[offer.src] > 0
      BY <1>3, <3>1 DEF CanMerge
    <3>3. \A c \in Coin : c \in {offer.src, offer.dst} \/ coins'[c] = coins[c]
      BY <1>3, <3>1 DEF Merged
    <3>4. offer.src \in nodes
      BY <3>1, <3>2
    <3> QED BY <1>3, <3>1, <3>3, <3>4
  <2> QED BY <1>1, <1>2, <1>3, <2>1, <2>2 DEF Inv, IInv, TypeOK
<1>4. CASE /\ ~ CanMerge(offer) \/ offer.dst \notin nodes
           /\ outcome' = "refused"
           /\ UNCHANGED <<coins, nodes>>
  <2>1. CanMerge(offer)' <=> CanMerge(offer)
    BY <1>1, <1>4 DEF CanMerge, Receives
  <2> QED BY <1>1, <1>2, <1>4, <2>1 DEF Inv, IInv, TypeOK
<1> QED BY <1>3, <1>4 DEF Merge

\* While a price is fetched, nothing is shown that depends on it.
LEMMA FetchingInv ==
  ASSUME Inv, IInv', Fetching
  PROVE  Inv'
<1>1. todo # <<>> /\ UNCHANGED <<pc, coins, nodes, offer, outcome, visits>>
  BY DEF Fetching, Fetch, Begin, CannotBegin, Deliver, Fail, TimeOut, Complete, Inv, IInv,
         FeedTypeOK
<1>2. pc \notin {"menu", "confirm"} /\ outcome = "none"
  BY <1>1 DEF Inv, TypeOK
<1> QED BY <1>1, <1>2 DEF Inv, IInv, TypeOK

LEMMA NextInv == Inv /\ [Next]_vars => Inv'
<1> SUFFICES ASSUME Inv, [Next]_vars PROVE Inv'
  OBVIOUS
<1>1. IInv'
  BY HandlersUseFeed, FeedStepIInv DEF Inv
<1>2. CASE LivePrices \/ SwapScreen
  BY <1>1, <1>2, StartInv
<1>3. CASE Shown \/ GiveUp
  BY <1>1, <1>3, LeaveInv
<1>4. CASE \E src, dst \in Coin, s \in Asked : Choose(src, s, dst)
  BY <1>1, <1>4, ChooseInv
<1>5. CASE Merge
  BY <1>1, <1>5, MergeInv
<1>6. CASE Fetching
  BY <1>1, <1>6, FetchingInv
<1>7. CASE UNCHANGED vars
  BY <1>1, <1>7 DEF vars, feed, Inv, IInv, TypeOK, OfferShown, Shows, CanMerge, Receives
<1> QED BY <1>2, <1>3, <1>4, <1>5, <1>6, <1>7 DEF Next

LEMMA InvAlways == Spec => []Inv
BY InitInv, NextInv, PTL DEF Spec

-----------------------------------------------------------------------------
(* What the invariant says of a swap                                       *)

LEMMA RoundWhole ==
  /\ Round(0, 1) = 0
  /\ \A m, n \in Nat : m <= n => Round(m, 1) <= Round(n, 1)
  /\ \A n \in Nat : Round(Round(n, 1), 1) = Round(n, 1)
<1>1. Round(0, 1) = 0
  <2>1. 0 \in Nat /\ 0 \in 0 .. Top
    BY TopFacts
  <2>2. PICK u \in Nat \ {0} : u = Power[0]
    BY PowerFacts
  <2>3. u * 0 = 0
    OBVIOUS
  <2> QED BY <2>1, <2>2, <2>3, RoundUnits
<1>2. \A m, n \in Nat : m <= n => Round(m, 1) <= Round(n, 1)
  <2> SUFFICES ASSUME NEW m \in Nat, NEW n \in Nat, m <= n
               PROVE  Round(m, 1) <= Round(n, 1)
    OBVIOUS
  <2>1. m * 1 <= n * 1
    OBVIOUS
  <2> QED BY <2>1, OneIsPositive, RoundMonotone
<1>3. \A n \in Nat : Round(Round(n, 1), 1) = Round(n, 1)
  BY OneIsPositive, RoundTwice
<1> QED BY <1>1, <1>2, <1>3

\* An offer that is refused for its worth is worth more than what is given, and the number
\* below it is not.
LEMMA RefusedOffer ==
  ASSUME NEW t \in Nat, Round(t, 1) = t, NEW r \in Nat \ {0},
         NEW q \in Nat \ {0}, q = Round(t, r), t < Round(q * r, 1)
  PROVE  /\ t < q * r
         /\ Below(q) \in Nat /\ Below(q) < q
         /\ Round(Below(q) * r, 1) <= t
<1> DEFINE numbers == {y \in 0 .. q - 1 : Round(y, 1) = y}
<1>1. q * r \in Nat
  BY Products
<1>2. t < q * r
  <2> SUFFICES ASSUME q * r <= t PROVE FALSE
    BY <1>1
  <2>1. Round(q * r, 1) <= Round(t, 1)
    BY <1>1, RoundWhole
  <2> QED BY <1>1, <2>1, RoundNatural
<1>3. PICK y \in numbers : y = Below(q)
  <2>1. numbers \in SUBSET (0 .. q - 1) /\ numbers # {} /\ q - 1 \in Nat
    BY RoundWhole
  <2>2. \E y \in numbers : \A z \in numbers : z <= y
    <3> HIDE DEF numbers
    <3> QED BY <2>1, GreatestNatural
  <2>3. \E y \in numbers : \A z \in numbers : y >= z
    BY <2>1, <2>2
  <2> QED BY <2>3 DEF Below, Max
<1>4. y \in Nat /\ y < q /\ Round(y, 1) = y
  BY <1>3
<1>5. y * r \in Nat
  BY <1>4, Products
<1>6. y * r <= t
  <2> SUFFICES ASSUME t < y * r PROVE FALSE
    BY <1>5
  <2>1. t * 1 <= y * r
    BY <1>5
  <2>2. Round(t, r) <= Round(y, 1)
    BY <1>4, <2>1, OneIsPositive, RoundMonotone
  <2> QED BY <1>4, <2>2
<1>7. Round(y * r, 1) <= t
  <2>1. Round(y * r, 1) <= Round(t, 1)
    BY <1>4, <1>5, <1>6, RoundWhole
  <2> QED BY <2>1
<1> QED BY <1>2, <1>3, <1>4, <1>7

LEMMA RefusedIsRounding == Inv => RefusedByRoundingOrMemory
<1> SUFFICES ASSUME Inv, outcome = "refused", Entitled(offer), offer.dqty > 0,
                    ~ CanMerge(offer)
             PROVE  LET less == [offer EXCEPT !.dqty = Below(@)]
                    IN  /\ offer.dqty * preco[offer.dst] > Times(offer.sqty, preco[offer.src])
                        /\ less.dqty = 0 \/ (CanMerge(less) /\ Receives(less) = offer.dqty)
  BY DEF RefusedByRoundingOrMemory, Inv
<1> DEFINE less == [offer EXCEPT !.dqty = Below(@)]
<1>1. /\ offer \in Offer /\ OfferShown /\ ~ CanMerge(offer)
      /\ offer.src \in Coin /\ offer.dst \in Coin /\ offer.sqty \in Nat
  <2>1. offer \in Offer
    BY NoOfferIsNone DEF Inv, TypeOK
  <2>2. OfferShown /\ ~ CanMerge(offer)
    BY DEF Inv
  <2> QED BY <2>1, <2>2, AskedAssumption DEF Offer
<1>2. PICK p \in Nat \ {0}, r \in Nat \ {0} : p = preco[offer.src] /\ r = preco[offer.dst]
  BY <1>1, PricesNatural DEF Inv, IInv, Entitled
<1>3. PICK t \in Nat : t = Times(offer.sqty, p) /\ Round(t, 1) = t
  <2>1. offer.sqty * p \in Nat
    BY <1>1, Products
  <2> QED BY <2>1, RoundNatural, RoundWhole DEF Times
<1>4. PICK q \in Nat \ {0} : q = offer.dqty /\ q = Round(t, r) /\ Receives(offer) = q
  <2>1. Receives(offer) = offer.dqty /\ offer.dqty \in Nat \ {0}
    BY <1>1, ReceivesShown DEF OfferShown, Entitled, Offer
  <2> QED BY <1>2, <1>3, <2>1 DEF Receives, Over
<1>5. t < Round(q * r, 1)
  <2>1. ~ (t >= Times(q, r))
    BY <1>1, <1>2, <1>3, <1>4 DEF CanMerge, Entitled
  <2>2. Round(q * r, 1) \in Nat
    <3>1. q * r \in Nat
      BY Products
    <3> QED BY <3>1, RoundNatural
  <2> QED BY <2>1, <2>2 DEF Times
<1>6. /\ t < q * r /\ Below(q) \in Nat /\ Below(q) < q /\ Round(Below(q) * r, 1) <= t
  BY <1>3, <1>4, <1>5, RefusedOffer
<1>7. /\ less.src = offer.src /\ less.dst = offer.dst /\ less.sqty = offer.sqty
      /\ less.dqty = Below(q)
  BY <1>1, <1>4 DEF Offer
<1>8. Receives(less) = q
  BY <1>4, <1>7 DEF Receives
<1>9. less.dqty # 0 => CanMerge(less)
  <2>1. t >= Times(Below(q), r)
    <3>1. Below(q) * r \in Nat
      BY <1>6, Products
    <3>2. Round(Below(q) * r, 1) \in Nat
      BY <3>1, RoundNatural
    <3> QED BY <1>6, <3>2 DEF Times
  <2>2. q >= Below(q)
    BY <1>6
  <2> HIDE DEF less
  <2> QED BY <1>2, <1>3, <1>6, <1>7, <1>8, <2>1, <2>2 DEF CanMerge, Entitled
<1>10. q * r > t
  <2>1. q * r \in Nat
    BY Products
  <2> QED BY <1>6, <2>1
<1> QED BY <1>2, <1>3, <1>4, <1>8, <1>9, <1>10

\* A sum over the coins, with two of them taken out.
LEMMA SumOfTwo ==
  ASSUME NEW f \in [Coin -> Nat], NEW c \in Coin, NEW d \in Coin, c # d
  PROVE  /\ SumFunction(f) = f[c] + (f[d] + SumFunctionOnSet(f, (Coin \ {c}) \ {d}))
         /\ SumFunctionOnSet(f, (Coin \ {c}) \ {d}) \in Nat
<1>1. IsFiniteSet(Coin) /\ IsFiniteSet(Coin \ {c}) /\ IsFiniteSet((Coin \ {c}) \ {d})
  BY CoinAssumption, FS_Subset
<1>2. \A e \in Coin : f[e] \in Int /\ f[e] \in Nat
  OBVIOUS
<1>3. SumFunctionOnSet(f, Coin) = f[c] + SumFunctionOnSet(f, Coin \ {c})
  BY <1>1, <1>2, SumRemove
<1>4. SumFunctionOnSet(f, Coin \ {c}) = f[d] + SumFunctionOnSet(f, (Coin \ {c}) \ {d})
  <2>1. d \in Coin \ {c} /\ \A e \in Coin \ {c} : f[e] \in Int
    BY <1>2
  <2> QED BY <1>1, <2>1, SumRemove
<1>5. SumFunctionOnSet(f, (Coin \ {c}) \ {d}) \in Nat
  <2>1. \A e \in (Coin \ {c}) \ {d} : f[e] \in Nat
    BY <1>2
  <2> QED BY <1>1, <2>1, SumNatural
<1>6. SumFunction(f) = SumFunctionOnSet(f, Coin)
  BY DEF SumFunction
<1> QED BY <1>3, <1>4, <1>5, <1>6

\* A swap that passes moves the worth of the wallet within WorthBound.
LEMMA MergeKeepsWorth ==
  ASSUME Inv, CanMerge(offer)
  PROVE  Half * Distance(Worth(Merged(offer)), Worth(coins))
           <= Worth(coins) + Worth(Merged(offer)) + Power[Precision - 2] * preco[offer.dst]
<1>1. /\ preco \in [Coin -> Nat] /\ coins \in [Coin -> Nat]
      /\ Merged(offer) \in [Coin -> Nat] /\ Receives(offer) \in Nat \ {0}
      /\ offer.src \in Coin /\ offer.dst \in Coin /\ offer.src # offer.dst
      /\ offer.sqty \in Nat /\ offer.sqty <= coins[offer.src]
      /\ preco[offer.dst] \in Nat \ {0}
  <2>1. preco \in [Coin -> Nat] /\ TypeOK
    BY PricesNatural DEF Inv, IInv
  <2>2. Merged(offer) \in [Coin -> Nat] /\ offer \in Offer /\ Receives(offer) \in Nat \ {0}
    BY <2>1, MergedNatural
  <2>3. coins \in [Coin -> Nat] /\ offer.src \in Coin /\ offer.dst \in Coin
        /\ offer.sqty \in Nat
    BY <2>1, <2>2, AskedAssumption DEF TypeOK, Offer
  <2> QED BY <2>1, <2>2, <2>3 DEF CanMerge
<1> DEFINE c == offer.src
           d == offer.dst
           f == [e \in Coin |-> coins[e] * preco[e]]
           g == [e \in Coin |-> Merged(offer)[e] * preco[e]]
           others == (Coin \ {c}) \ {d}
<1>2. f \in [Coin -> Nat] /\ g \in [Coin -> Nat]
  <2>1. \A e \in Coin : coins[e] * preco[e] \in Nat /\ Merged(offer)[e] * preco[e] \in Nat
    BY <1>1, Products
  <2> QED BY <2>1
<1>3. Worth(coins) = SumFunction(f) /\ Worth(Merged(offer)) = SumFunction(g)
  BY DEF Worth
<1>4. /\ \A e \in others : Merged(offer)[e] = coins[e]
      /\ Merged(offer)[c] = Round(coins[c] - offer.sqty, 1)
      /\ Merged(offer)[d] = Round(coins[d] + Receives(offer), 1)
  BY <1>1 DEF Merged, Minus, Plus
<1>5. SumFunctionOnSet(g, others) = SumFunctionOnSet(f, others)
  <2>1. IsFiniteSet(others)
    BY CoinAssumption, FS_Subset
  <2>2. \A e \in others : g[e] = f[e]
    BY <1>4
  <2> QED BY <2>1, <2>2, SumAgree
<1>6. /\ f[c] = coins[c] * preco[c] /\ f[d] = coins[d] * preco[d]
      /\ g[c] = Round(coins[c] - offer.sqty, 1) * preco[c]
      /\ g[d] = Round(coins[d] + Receives(offer), 1) * preco[d]
  BY <1>1, <1>4
<1>7. PICK p \in Nat, r \in Nat \ {0}, a \in Nat, b \in Nat, s \in Nat, q \in Nat \ {0} :
        /\ p = preco[c] /\ r = preco[d] /\ a = coins[c] /\ b = coins[d]
        /\ s = offer.sqty /\ q = Receives(offer) /\ s <= a
  BY <1>1
<1>8. PICK t \in Nat : t = Round(s * p, 1) /\ q = Round(t, r)
  <2>1. s * p \in Nat
    BY Products
  <2> QED BY <1>7, <2>1, RoundNatural DEF Receives, Times, Over
<1> HIDE DEF f, g
<1>9. PICK x \in Nat :
        /\ SumFunction(f) = f[c] + (f[d] + x)
        /\ SumFunction(g) = g[c] + (g[d] + x)
  <2>1. /\ SumFunction(f) = f[c] + (f[d] + SumFunctionOnSet(f, others))
        /\ SumFunctionOnSet(f, others) \in Nat
    BY <1>1, <1>2, SumOfTwo
  <2>2. SumFunction(g) = g[c] + (g[d] + SumFunctionOnSet(g, others))
    BY <1>1, <1>2, SumOfTwo
  <2> QED BY <1>5, <2>1, <2>2
<1>10. PICK W \in Nat, V \in Nat :
         /\ W = Worth(coins) /\ V = Worth(Merged(offer))
         /\ W = a * p + (b * r + x)
         /\ V = Round(a - s, 1) * p + (Round(b + q, 1) * r + x)
  <2>1. f[c] \in Nat /\ f[d] \in Nat /\ g[c] \in Nat /\ g[d] \in Nat
    BY <1>1, <1>2
  <2>2. SumFunction(f) \in Nat /\ SumFunction(g) \in Nat
    BY <1>9, <2>1
  <2> QED BY <1>3, <1>6, <1>7, <1>9, <2>2
<1>11. /\ Half * V <= Half * W + (W + V + Power[Precision - 2] * r)
       /\ Half * W <= Half * V + (W + V + Power[Precision - 2] * r)
  <2>1. SwapNumbers(p, r, a, b, s, x, t, q, W, V)
    BY <1>7, <1>8, <1>9, <1>10 DEF SwapNumbers
  <2> QED BY <2>1, WorthBound
<1>12. Half * Distance(V, W) <= W + V + Power[Precision - 2] * r
  <2>1. PICK h \in Nat, k \in Nat : h = Half /\ k = Power[Precision - 2] * r
    BY TopFacts, Products
  <2>2. CASE V > W
    <3>1. PICK e \in Nat : e = V - W /\ V = e + W
      BY <2>2
    <3>2. h * V = h * e + h * W /\ h * e \in Nat /\ h * W \in Nat
      <4>1. (e + W) * h = e * h + W * h
        BY <2>1, Products
      <4>2. V * h = h * V /\ e * h = h * e /\ W * h = h * W /\ h * e \in Nat /\ h * W \in Nat
        BY <2>1, Products
      <4> QED BY <3>1, <4>1, <4>2
    <3>3. Distance(V, W) = e
      BY <2>2, <3>1 DEF Distance
    <3> QED BY <1>11, <2>1, <3>2, <3>3
  <2>3. CASE ~ (V > W)
    <3>1. PICK e \in Nat : e = W - V /\ W = e + V
      BY <2>3
    <3>2. h * W = h * e + h * V /\ h * e \in Nat /\ h * V \in Nat
      <4>1. (e + V) * h = e * h + V * h
        BY <2>1, Products
      <4>2. W * h = h * W /\ e * h = h * e /\ V * h = h * V /\ h * e \in Nat /\ h * V \in Nat
        BY <2>1, Products
      <4> QED BY <3>1, <4>1, <4>2
    <3>3. Distance(V, W) = e
      BY <2>3, <3>1 DEF Distance
    <3> QED BY <1>11, <2>1, <3>2, <3>3
  <2> QED BY <2>2, <2>3
<1> QED BY <1>7, <1>10, <1>12

-----------------------------------------------------------------------------
(* What it gives                                                           *)

\* The feed's types: prices are those that whole answers bring, and what has been
\* received is the beginning of what is being sent.
THEOREM FeedTyped == Spec => []FeedTypeOK
BY Invariance, PTL DEF IInv

\* No quantity becomes negative, and every variable has its type.
THEOREM TradeTyped == Spec => []TypeOK
BY InvAlways, PTL DEF Inv

\* A user who has the coins is refused by rounding, when the number below the offer passes
\* the tests, or because there is no memory for the destination's first node.
THEOREM RefusalExplained == Spec => []RefusedByRoundingOrMemory
BY InvAlways, RefusedIsRounding, PTL

\* No piece of an answer, no error page and no other coin's answer becomes a price.
THEOREM QuotedPrices == Spec => []PricesAreQuoted
BY Invariance, PTL DEF IInv

\* A swap changes what the coins are worth by rounding alone, for every precision, every
\* wallet and every price that the server may have sent.
THEOREM WorthKept == Spec => SwapKeepsWorth
<1> DEFINE Kept ==
      Power[Precision - 1] * Distance(Worth(coins'), Worth(coins))
        <= Worth(coins) + Worth(coins') + Power[Precision - 2] * preco[offer.dst]
<1>1. Inv /\ [Next]_vars => [coins' # coins => Kept]_vars
  <2> SUFFICES ASSUME Inv, Next, coins' # coins PROVE Kept
    OBVIOUS
  <2>1. Merge
    BY DEF Next, LivePrices, Shown, SwapScreen, Choose, GiveUp, Fetching
  <2>2. CanMerge(offer) /\ coins' = Merged(offer)
    BY <2>1 DEF Merge
  <2> QED BY <2>2, MergeKeepsWorth DEF Half
<1> QED BY <1>1, InvAlways, PTL DEF Spec, SwapKeepsWorth

\* To the handlers the feed is PriceBoard: one coin's price replaced at a time.
THEOREM BoardImplemented == Spec => ImplementsBoard
<1>1. Init => Board!Init
  BY DEF Init, FeedInit, Board!Init
<1>2. IInv /\ [FeedNext]_feed => [Board!Next]_preco
  <2> SUFFICES ASSUME IInv, [FeedNext]_feed, preco' # preco PROVE Board!Next
    OBVIOUS
  <2>1. Complete
    BY DEF FeedNext, Fetch, StartRefresh, Begin, CannotBegin, Deliver, Fail, TimeOut, feed
  <2>2. awaited \in Answer /\ received = awaited.body /\ Head(todo) \in Coin
    BY <2>1, RestOfLoop DEF Complete, IInv, FeedTypeOK
  <2>3. PICK text \in IF received = <<>> THEN Leftover ELSE {received} :
          Usable(text) /\ preco' = [preco EXCEPT ![Head(todo)] = ExtrairPreco(text)]
    BY <2>1 DEF Complete
  <2>4. ExtrairPreco(text) \in Quote
    BY <2>2, <2>3, PriceIsQuote DEF Usable
  <2> QED BY <2>2, <2>3, <2>4 DEF Board!Next, Board!Post
<1>3. IInv /\ [Next]_vars => [Board!Next]_preco
  BY <1>2, HandlersUseFeed
<1> QED BY <1>1, <1>3, Invariance, PTL DEF Spec, ImplementsBoard, Board!Spec
=============================================================================
