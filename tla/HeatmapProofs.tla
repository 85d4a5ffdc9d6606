---------------------------- MODULE HeatmapProofs ----------------------------
(***************************************************************************)
(* Proofs about Heatmap, for lists and settings of any size, a uint32_t of *)
(* any width and a float of any precision.  From the powers of two to the  *)
(* floats, from the floats to the width of the image, and from there to    *)
(* the invariant.                                                          *)
(***************************************************************************)
EXTENDS Heatmap, WellFoundedInduction, FiniteSetTheorems, TLAPS

(* Every set of natural numbers has a least one.                           *)
LEMMA LeastNat ==
  ASSUME NEW T, T \subseteq Nat, T # {}
  PROVE  \E x \in T : \A y \in T : x <= y
<1>1. PICK x \in T : \A y \in T : ~ (<<y, x>> \in OpToRel(<, Nat))
  BY WFMin, NatLessThanWellFounded, Zenon
<1>2. ASSUME NEW y \in T  PROVE ~ (y < x)
  BY <1>1, Zenon DEF OpToRel
<1> QED  BY <1>2

-----------------------------------------------------------------------------
(* Powers of two: the number of subsets of a set of k elements.            *)
LEMMA PowerCounts ==
  ASSUME NEW k \in Nat
  PROVE  /\ IsFiniteSet(SUBSET (1..k))
         /\ Cardinality(SUBSET (1..k)) = 2^k
         /\ 2^k \in Nat
<1> DEFINE K == 1..k
<1>1. IsFiniteSet(K) /\ Cardinality(K) = k
  <2>1. 1 \in Int /\ k \in Int /\ (1 > k => k = 0) /\ k - 1 + 1 = k
    OBVIOUS
  <2> QED  BY <2>1, FS_Interval
<1> HIDE DEF K
<1>2. IsFiniteSet(SUBSET K) /\ Cardinality(SUBSET K) = 2^k
  BY <1>1, FS_SUBSET
<1>3. Cardinality(SUBSET K) \in Nat
  BY <1>2, FS_CardinalityType
<1> QED  BY <1>2, <1>3 DEF K

\* One set is a subset of the empty one.
LEMMA PowerZero == 2^0 = 1
<1>1. 0 \in Nat /\ 1..0 = {}
  OBVIOUS
<1>2. Cardinality(SUBSET (1..0)) = 2^0
  BY <1>1, PowerCounts
<1>3. SUBSET (1..0) = {{}}
  BY <1>1
<1>4. Cardinality({{}}) = 1
  BY FS_Singleton
<1> QED  BY <1>2, <1>3, <1>4

\* Each element doubles the subsets: with it, and without.
LEMMA PowerNext ==
  ASSUME NEW k \in Nat  PROVE 2^(k + 1) = 2 * 2^k
<1> DEFINE old == SUBSET (1..k)
<1> DEFINE all == SUBSET (1..(k + 1))
<1> DEFINE new == {A \in all : k + 1 \in A}
<1> DEFINE f == [A \in old |-> A \cup {k + 1}]
<1>1. /\ IsFiniteSet(old) /\ Cardinality(old) = 2^k
      /\ IsFiniteSet(all) /\ Cardinality(all) = 2^(k + 1)
      /\ 2^k \in Nat /\ 2^(k + 1) \in Nat
  <2>1. k + 1 \in Nat
    OBVIOUS
  <2> QED  BY <2>1, PowerCounts
<1>2. all = old \cup new /\ old \cap new = {}
  <2>1. 1..(k + 1) = 1..k \cup {k + 1} /\ k + 1 \notin 1..k
    OBVIOUS
  <2> QED  BY <2>1
<1>3. f \in Bijection(old, new)
  <2>1. \A A \in old : f[A] \in new /\ k + 1 \notin A /\ f[A] = A \cup {k + 1}
    OBVIOUS
  <2>2. ASSUME NEW A \in old, NEW B \in old, f[A] = f[B]  PROVE A = B
    <3>1. A \cup {k + 1} = B \cup {k + 1} /\ k + 1 \notin A /\ k + 1 \notin B
      BY <2>1, <2>2
    <3> QED  BY <3>1
  <2>3. ASSUME NEW B \in new  PROVE \E A \in old : f[A] = B
    <3>1. B \ {k + 1} \in old
      OBVIOUS
    <3>2. (B \ {k + 1}) \cup {k + 1} = B
      OBVIOUS
    <3> QED  BY <2>1, <3>1, <3>2
  <2>4. f \in [old -> new]
    BY <2>1
  <2> HIDE DEF f, old, new
  <2> QED  BY <2>2, <2>3, <2>4 DEF Bijection, Injection, Surjection, IsInjective
<1> HIDE DEF old, all, new, f
<1>4. IsFiniteSet(new) /\ Cardinality(new) = Cardinality(old)
  <2>1. ExistsBijection(old, new)
    BY <1>3 DEF ExistsBijection
  <2> QED  BY <1>1, <2>1, FS_Bijection
<1>5. Cardinality(all) = Cardinality(old) + Cardinality(new)
  <2>1. Cardinality(old \cup new) = Cardinality(old) + Cardinality(new) - Cardinality(old \cap new)
    BY <1>1, <1>4, FS_Union
  <2>2. Cardinality(old \cap new) = 0
    BY <1>2, FS_EmptySet
  <2> QED  BY <1>1, <1>2, <1>4, <2>1, <2>2
<1> QED  BY <1>1, <1>4, <1>5

\* A power of two is more than its exponent.
LEMMA PowerPositive ==
  ASSUME NEW k \in Nat  PROVE 2^k \in Nat /\ 2^k > 0 /\ k < 2^k
<1> DEFINE T == {n \in Nat : ~ (2^n > 0 /\ n < 2^n)}
<1>1. T = {}
  <2>1. SUFFICES ASSUME T # {}  PROVE FALSE
    OBVIOUS
  <2>2. T \subseteq Nat
    OBVIOUS
  <2>3. PICK n \in T : \A m \in T : n <= m
    <3> HIDE DEF T
    <3> QED  BY <2>1, <2>2, LeastNat
  <2>4. n \in Nat /\ ~ (2^n > 0 /\ n < 2^n)
    BY <2>3
  <2>5. n # 0
    <3>1. ASSUME n = 0  PROVE FALSE
      <4>1. 2^n = 1
        BY <3>1, PowerZero
      <4> QED  BY <2>4, <3>1, <4>1
    <3> QED  BY <3>1
  <2>6. n - 1 \in Nat /\ ~ (n <= n - 1) /\ n = (n - 1) + 1
    BY <2>4, <2>5
  <2>7. 2^(n - 1) > 0 /\ n - 1 < 2^(n - 1)
    <3>1. n - 1 \notin T
      BY <2>3, <2>6
    <3> QED  BY <2>6, <3>1
  <2>8. 2^n = 2 * 2^(n - 1)
    BY <2>6, PowerNext
  <2>9. 2^(n - 1) \in Nat
    BY <2>6, PowerCounts
  <2> QED  BY <2>4, <2>7, <2>8, <2>9
<1>2. k \notin T
  BY <1>1
<1> QED  BY <1>2, PowerCounts

\* Adding exponents multiplies the powers.
LEMMA PowerSum ==
  ASSUME NEW j \in Nat, NEW k \in Nat  PROVE 2^(j + k) = 2^j * 2^k
<1> DEFINE T == {n \in Nat : 2^(j + n) # 2^j * 2^n}
<1>1. T = {}
  <2>1. SUFFICES ASSUME T # {}  PROVE FALSE
    OBVIOUS
  <2>2. T \subseteq Nat
    OBVIOUS
  <2>3. PICK n \in T : \A m \in T : n <= m
    <3> HIDE DEF T
    <3> QED  BY <2>1, <2>2, LeastNat
  <2>4. n \in Nat /\ 2^(j + n) # 2^j * 2^n
    BY <2>3
  <2>5. 2^j \in Nat
    BY PowerCounts
  <2>6. n # 0
    <3>1. ASSUME n = 0  PROVE FALSE
      <4>1. j + n = j /\ 2^n = 1
        BY <3>1, PowerZero
      <4> QED  BY <2>4, <2>5, <4>1
    <3> QED  BY <3>1
  <2>7. n - 1 \in Nat /\ ~ (n <= n - 1) /\ n = (n - 1) + 1
    BY <2>4, <2>6
  <2>8. 2^(j + (n - 1)) = 2^j * 2^(n - 1)
    <3>1. n - 1 \notin T
      BY <2>3, <2>7
    <3> QED  BY <2>7, <3>1
  <2>9. 2^n = 2 * 2^(n - 1)
    BY <2>7, PowerNext
  <2>10. 2^(j + n) = 2 * 2^(j + (n - 1))
    <3>1. j + (n - 1) \in Nat /\ (j + (n - 1)) + 1 = j + n
      BY <2>7
    <3> QED  BY <3>1, PowerNext
  <2>11. 2^(n - 1) \in Nat
    BY <2>7, PowerCounts
  <2>12. \A x, y \in Nat : 2 * (x * y) = x * (2 * y)
    OBVIOUS
  <2> QED  BY <2>4, <2>5, <2>8, <2>9, <2>10, <2>11, <2>12
<1>2. k \notin T
  BY <1>1
<1> QED  BY <1>2

\* The powers grow.
LEMMA PowerGrows ==
  ASSUME NEW j \in Nat, NEW k \in Nat, j <= k  PROVE 2^j <= 2^k
<1>1. k - j \in Nat /\ k = j + (k - j)
  OBVIOUS
<1>2. 2^k = 2^j * 2^(k - j)
  BY <1>1, PowerSum
<1>3. /\ 2^j \in Nat /\ 2^j > 0
      /\ 2^(k - j) \in Nat /\ 2^(k - j) > 0
  BY <1>1, PowerPositive
<1>4. \A x, y \in Nat : y > 0 => x <= x * y
  BY Z3
<1> QED  BY <1>2, <1>3, <1>4

-----------------------------------------------------------------------------
(* Rounding to the nearest.                                                *)
LEMMA HalfEvenNear ==
  ASSUME NEW a \in Nat, NEW b \in Nat \ {0}
  PROVE  LET h == HalfEven(a, b)
         IN  h \in Nat /\ 2 * (h * b) <= 2 * a + b /\ 2 * (h * b) >= 2 * a - b
<1> DEFINE q == a \div b
<1> DEFINE r == a % b
<1>1. q \in Nat /\ r \in 0..(b - 1) /\ a = b * q + r
  <2>1. q = a \div b /\ r = a % b
    OBVIOUS
  <2> HIDE DEF q, r
  <2> QED  BY <2>1, Z3
<1> DEFINE h == HalfEven(a, b)
<1>2. h \in {q, q + 1} /\ (h = q => 2 * r <= b) /\ (h = q + 1 => 2 * r >= b)
  BY <1>1 DEF HalfEven
<1> HIDE DEF q, r, h
<1>3. b * q \in Nat /\ b * q = q * b /\ (q + 1) * b = b * q + b
  BY <1>1, Z3
<1>4. ASSUME h = q  PROVE h \in Nat /\ 2 * (h * b) <= 2 * a + b /\ 2 * (h * b) >= 2 * a - b
  <2>1. h * b = b * q /\ 2 * r <= b
    BY <1>2, <1>3, <1>4
  <2> QED  BY <1>1, <1>3, <1>4, <2>1
<1>5. ASSUME h = q + 1
      PROVE  h \in Nat /\ 2 * (h * b) <= 2 * a + b /\ 2 * (h * b) >= 2 * a - b
  <2>1. h * b = b * q + b /\ 2 * r >= b
    BY <1>2, <1>3, <1>5
  <2> QED  BY <1>1, <1>3, <1>5, <2>1
<1>6. h \in Nat /\ 2 * (h * b) <= 2 * a + b /\ 2 * (h * b) >= 2 * a - b
  BY <1>2, <1>4, <1>5
<1> QED  BY <1>6 DEF h

\* A quotient without a remainder is not rounded.
LEMMA HalfEvenExact ==
  ASSUME NEW q \in Nat, NEW b \in Nat \ {0}
  PROVE  HalfEven(q * b, b) = q
<1>1. q * b \in Nat /\ (q * b) \div b = q /\ (q * b) % b = 0
  <2>1. q * b \in Nat
    BY Z3
  <2> DEFINE a == q * b
  <2> DEFINE p == a \div b
  <2> DEFINE r == a % b
  <2>2. p = a \div b /\ r = a % b /\ a \in Nat
    BY <2>1
  <2> HIDE DEF p, r, a
  <2>3. p \in Nat /\ r \in 0..(b - 1) /\ q * b = b * p + r
    <3>1. a = b * p + r /\ p \in Nat /\ r \in 0..(b - 1)
      BY <2>2, Z3
    <3> QED  BY <3>1 DEF a
  <2>4. p = q
    <3>1. CASE p < q
      <4>1. b * (p + 1) <= b * q
        BY <2>3, <3>1, Z3
      <4>2. b * (p + 1) = b * p + b /\ b * q = q * b /\ b * p \in Nat
        BY <2>3, Z3
      <4> QED  BY <2>1, <2>3, <4>1, <4>2
    <3>2. CASE p > q
      <4>1. b * (q + 1) <= b * p
        BY <2>3, <3>2, Z3
      <4>2. b * (q + 1) = b * q + b /\ b * q = q * b /\ b * p \in Nat
        BY <2>3, Z3
      <4> QED  BY <2>1, <2>3, <4>1, <4>2
    <3> QED  BY <2>3, <3>1, <3>2
  <2>5. r = 0
    <3>1. b * q = q * b
      BY Z3
    <3> QED  BY <2>1, <2>3, <2>4, <3>1
  <2> QED  BY <2>1, <2>4, <2>5 DEF p, r, a
<1> QED  BY <1>1 DEF HalfEven

\* The rounded quotient lies on the same side of a whole number.
LEMMA HalfEvenBelow ==
  ASSUME NEW a \in Nat, NEW b \in Nat \ {0}, NEW y \in Nat, a <= y * b
  PROVE  HalfEven(a, b) <= y
<1> DEFINE h == HalfEven(a, b)
<1>1. h \in Nat /\ 2 * (h * b) <= 2 * a + b
  BY HalfEvenNear
<1> HIDE DEF h
<1>2. CASE h > y
  <2>1. (y + 1) * b <= h * b
    BY <1>1, <1>2, Z3
  <2>2. (y + 1) * b = y * b + b /\ y * b \in Nat /\ h * b \in Nat
    BY <1>1, Z3
  <2> QED  BY <1>1, <2>1, <2>2
<1> QED  BY <1>1, <1>2 DEF h

\* A quotient that is more than half below a number is not rounded below it.
LEMMA HalfEvenAbove ==
  ASSUME NEW a \in Nat, NEW b \in Nat \ {0}, NEW y \in Nat, 2 * a > 2 * (y * b) - b
  PROVE  HalfEven(a, b) >= y
<1> DEFINE h == HalfEven(a, b)
<1>1. h \in Nat /\ 2 * (h * b) >= 2 * a - b
  BY HalfEvenNear
<1> HIDE DEF h
<1>2. CASE h < y
  <2>1. (h + 1) * b <= y * b
    BY <1>1, <1>2, Z3
  <2>2. (h + 1) * b = h * b + b /\ y * b \in Nat /\ h * b \in Nat
    BY <1>1, Z3
  <2> QED  BY <1>1, <2>1, <2>2
<1> QED  BY <1>1, <1>2 DEF h

\* Rounding up.
LEMMA CeilNear ==
  ASSUME NEW x \in Nat, NEW s \in Nat \ {0}
  PROVE  LET w == Ceil(x, s) IN w \in Nat /\ x <= w * s /\ w * s < x + s
<1> DEFINE a == x + s - 1
<1> DEFINE w == a \div s
<1> DEFINE r == a % s
<1>1. a \in Nat /\ w = a \div s /\ r = a % s
  OBVIOUS
<1>2. Ceil(x, s) = w
  BY DEF Ceil
<1> HIDE DEF w, r
<1>3. w \in Nat /\ r \in 0..(s - 1) /\ a = s * w + r
  <2> HIDE DEF a
  <2> QED  BY <1>1, Z3
<1>4. s * w = w * s /\ w * s \in Nat
  BY <1>3, Z3
<1>5. x <= w * s /\ w * s < x + s
  BY <1>3, <1>4
<1> QED  BY <1>2, <1>3, <1>5

-----------------------------------------------------------------------------
(* The exponents of a float are always found.                              *)
LEMMA Bits ==
  /\ Mantissa \in Nat /\ Mantissa >= 1 /\ Modulus \in Nat /\ Modulus >= 1
  /\ Exponents = 0..(2 * Mantissa + Modulus)
BY HeatmapAssumption DEF Exponents

\* The unit is a power of two, the least that leaves Mantissa bits of a / b.
LEMMA UlpOf ==
  ASSUME NEW a \in Nat, NEW b \in Nat \ {0}, NEW K \in Exponents, a < b * 2^(Mantissa + K)
  PROVE  \E k \in 0..K : /\ Ulp(a, b) = 2^k
                         /\ a < b * 2^(Mantissa + k)
                         /\ k = 0 \/ a >= b * 2^(Mantissa + (k - 1))
<1> DEFINE T == {k \in Exponents : a < b * 2^(Mantissa + k)}
<1> DEFINE Right(k) == /\ a < b * 2^(Mantissa + k)
                       /\ \A j \in 0..(k - 1) : a >= b * 2^(Mantissa + j)
<1>1. \A k \in Nat : 2^(Mantissa + k) \in Nat /\ b * 2^(Mantissa + k) \in Nat
  <2> SUFFICES ASSUME NEW k \in Nat
               PROVE  2^(Mantissa + k) \in Nat /\ b * 2^(Mantissa + k) \in Nat
    OBVIOUS
  <2>1. Mantissa + k \in Nat
    BY Bits
  <2>2. 2^(Mantissa + k) \in Nat
    BY <2>1, PowerCounts
  <2>3. \A x \in Nat : b * x \in Nat
    BY Z3
  <2> QED  BY <2>2, <2>3
<1>2. PICK k \in T : \A j \in T : k <= j
  <2>1. T \subseteq Nat /\ K \in T
    BY Bits
  <2> HIDE DEF T
  <2> QED  BY <2>1, LeastNat
<1>3. k \in Exponents /\ Right(k)
  <2>1. k \in Exponents /\ k \in Nat /\ a < b * 2^(Mantissa + k)
    BY <1>2, Bits
  <2>2. ASSUME NEW j \in 0..(k - 1)  PROVE a >= b * 2^(Mantissa + j)
    <3>1. j \in Exponents /\ j \in Nat /\ ~ (k <= j)
      BY <2>1, Bits
    <3>2. j \notin T
      BY <1>2, <3>1
    <3>3. ~ (a < b * 2^(Mantissa + j))
      BY <3>1, <3>2
    <3>4. b * 2^(Mantissa + j) \in Nat
      BY <1>1, <3>1
    <3> QED  BY <3>3, <3>4
  <2> QED  BY <2>1, <2>2
<1> DEFINE c == CHOOSE c \in Exponents : Right(c)
<1>4. c \in Exponents /\ Right(c)
  <2> HIDE DEF Right
  <2> QED  BY <1>3, Zenon
<1>5. Ulp(a, b) = 2^c
  BY DEF Ulp
<1> HIDE DEF c, T
<1>6. c \in Nat /\ K \in Nat
  BY <1>4, Bits
<1>7. c <= K
  <2>1. CASE K < c
    <3>1. K \in 0..(c - 1)
      BY <1>6, <2>1
    <3>2. a >= b * 2^(Mantissa + K) /\ b * 2^(Mantissa + K) \in Nat
      BY <1>1, <1>4, <1>6, <3>1
    <3> QED  BY <3>2
  <2> QED  BY <1>6, <2>1
<1>8. c = 0 \/ a >= b * 2^(Mantissa + (c - 1))
  <2>1. CASE c # 0
    <3>1. c - 1 \in 0..(c - 1)
      BY <1>6, <2>1
    <3> QED  BY <1>4, <3>1
  <2> QED  BY <2>1
<1> QED  BY <1>4, <1>5, <1>6, <1>7, <1>8

\* The scale is a power of two, the least that keeps Mantissa bits of a / b.
LEMMA ScaleOf ==
  ASSUME NEW a \in Nat, NEW b \in Nat, NEW K \in Exponents, 2 * a * 2^K >= b * 2^Mantissa
  PROVE  \E k \in Nat : Scale(a, b) = 2^k /\ 2 * a * 2^k >= b * 2^Mantissa
<1> DEFINE T == {k \in Exponents : 2 * a * 2^k >= b * 2^Mantissa}
<1> DEFINE Right(k) == /\ 2 * a * 2^k >= b * 2^Mantissa
                       /\ \A j \in 0..(k - 1) : 2 * a * 2^j < b * 2^Mantissa
<1>1. \A k \in Nat : 2 * a * 2^k \in Nat
  <2> SUFFICES ASSUME NEW k \in Nat  PROVE 2 * a * 2^k \in Nat
    OBVIOUS
  <2>1. 2^k \in Nat
    BY PowerCounts
  <2>2. \A x \in Nat : 2 * a * x \in Nat
    BY Z3
  <2> QED  BY <2>1, <2>2
<1>2. b * 2^Mantissa \in Nat
  <2>1. 2^Mantissa \in Nat
    BY Bits, PowerCounts
  <2>2. \A x \in Nat : b * x \in Nat
    BY Z3
  <2> QED  BY <2>1, <2>2
<1>3. PICK k \in T : \A j \in T : k <= j
  <2>1. T \subseteq Nat /\ K \in T
    BY Bits
  <2> HIDE DEF T
  <2> QED  BY <2>1, LeastNat
<1>4. k \in Exponents /\ Right(k)
  <2>1. k \in Exponents /\ k \in Nat /\ 2 * a * 2^k >= b * 2^Mantissa
    BY <1>3, Bits
  <2>2. ASSUME NEW j \in 0..(k - 1)  PROVE 2 * a * 2^j < b * 2^Mantissa
    <3>1. j \in Exponents /\ j \in Nat /\ ~ (k <= j)
      BY <2>1, Bits
    <3>2. j \notin T
      BY <1>3, <3>1
    <3>3. ~ (2 * a * 2^j >= b * 2^Mantissa)
      BY <3>1, <3>2
    <3>4. 2 * a * 2^j \in Nat
      BY <1>1, <3>1
    <3> QED  BY <1>2, <3>3, <3>4
  <2> QED  BY <2>1, <2>2
<1> DEFINE c == CHOOSE c \in Exponents : Right(c)
<1>5. c \in Exponents /\ Right(c)
  <2> HIDE DEF Right
  <2> QED  BY <1>4, Zenon
<1>6. Scale(a, b) = 2^c
  BY DEF Scale
<1> HIDE DEF c, T
<1>7. c \in Nat
  BY <1>5, Bits
<1> QED  BY <1>5, <1>6, <1>7

\* What is not above four times uint32_t has an exponent.
LEMMA WithinRange ==
  ASSUME NEW n \in Nat, n <= 4 * Modulus
  PROVE  Modulus + 1 \in Exponents /\ n < 2^(Mantissa + (Modulus + 1))
<1>1. Modulus + 1 \in Exponents
  BY Bits
<1>2. Modulus \in Nat /\ Modulus < 2^Modulus /\ 2^Modulus \in Nat
  BY Bits, PowerPositive
<1>3. 2^(Modulus + 2) = 4 * 2^Modulus
  <2>1. 2^(Modulus + 1) = 2 * 2^Modulus
    BY <1>2, PowerNext
  <2>2. 2^((Modulus + 1) + 1) = 2 * 2^(Modulus + 1)
    <3>1. Modulus + 1 \in Nat
      BY <1>2
    <3> QED  BY <3>1, PowerNext
  <2>3. (Modulus + 1) + 1 = Modulus + 2
    BY <1>2
  <2> QED  BY <1>2, <2>1, <2>2, <2>3
<1>4. 2^(Modulus + 2) <= 2^(Mantissa + (Modulus + 1))
  <2>1. Modulus + 2 \in Nat /\ Mantissa + (Modulus + 1) \in Nat
        /\ Modulus + 2 <= Mantissa + (Modulus + 1)
    BY Bits
  <2> QED  BY <2>1, PowerGrows
<1>5. 2^(Mantissa + (Modulus + 1)) \in Nat
  <2>1. Mantissa + (Modulus + 1) \in Nat
    BY Bits
  <2> QED  BY <2>1, PowerCounts
<1> QED  BY <1>1, <1>2, <1>3, <1>4, <1>5

(***************************************************************************)
(* A float near n: at most Mantissa bits, m, and an exponent k.            *)
(***************************************************************************)
LEMMA FloatOf ==
  ASSUME NEW n \in Nat \ {0}, n <= 2 * Modulus
  PROVE  \E k \in Nat, m \in Nat :
           /\ ToFloat(n) = m * 2^k /\ m = HalfEven(n, 2^k)
           /\ m * 2^k <= 2^(Mantissa + k)
           /\ IF k = 0 THEN ToFloat(n) = n /\ n < 2^Mantissa
                       ELSE n >= 2^(Mantissa + (k - 1))
<1>1. PICK k \in 0..(Modulus + 1) : /\ Ulp(n, 1) = 2^k
                                    /\ n < 1 * 2^(Mantissa + k)
                                    /\ k = 0 \/ n >= 1 * 2^(Mantissa + (k - 1))
  <2>1. Modulus + 1 \in Exponents /\ n < 2^(Mantissa + (Modulus + 1))
    <3>1. n <= 4 * Modulus
      BY Bits
    <3> QED  BY <3>1, WithinRange
  <2>2. 2^(Mantissa + (Modulus + 1)) \in Nat
    <3>1. Mantissa + (Modulus + 1) \in Nat
      BY Bits
    <3> QED  BY <3>1, PowerCounts
  <2>3. n < 1 * 2^(Mantissa + (Modulus + 1))
    BY <2>1, <2>2
  <2>4. 1 \in Nat \ {0}
    OBVIOUS
  <2> QED  BY <2>1, <2>3, <2>4, UlpOf
<1>2. k \in Nat /\ Mantissa + k \in Nat /\ (k # 0 => Mantissa + (k - 1) \in Nat)
  BY Bits
<1> DEFINE u == 2^k
<1>3. u \in Nat \ {0}
  BY <1>2, PowerPositive
<1> DEFINE m == HalfEven(n, u)
<1>4. m \in Nat
  BY <1>3, HalfEvenNear
<1>5. ToFloat(n) = m * u
  BY <1>1 DEF ToFloat
<1>6. /\ n < 2^(Mantissa + k)
      /\ k = 0 \/ n >= 2^(Mantissa + (k - 1))
  <2>1. \A x \in Nat : 1 * x = x
    OBVIOUS
  <2>2. 2^(Mantissa + k) \in Nat
    BY <1>2, PowerCounts
  <2>3. k = 0 \/ 2^(Mantissa + (k - 1)) \in Nat
    BY <1>2, PowerCounts
  <2> QED  BY <1>1, <2>1, <2>2, <2>3
<1>7. 2^(Mantissa + k) = 2^Mantissa * u /\ 2^Mantissa \in Nat
  BY <1>2, Bits, PowerSum, PowerCounts
<1>8. m * u <= 2^(Mantissa + k)
  <2>1. m <= 2^Mantissa
    <3>1. n <= 2^Mantissa * u
      <4>1. \A x \in Nat : n < x => n <= x
        OBVIOUS
      <4>2. 2^(Mantissa + k) \in Nat
        BY <1>2, PowerCounts
      <4> QED  BY <1>6, <1>7, <4>1, <4>2
    <3> HIDE DEF u
    <3> QED  BY <1>3, <1>7, <3>1, HalfEvenBelow
  <2> HIDE DEF m, u
  <2>2. m * u <= 2^Mantissa * u
    BY <1>3, <1>4, <1>7, <2>1, Z3
  <2> QED  BY <1>7, <2>2
<1>9. CASE k = 0
  <2>1. u = 1
    BY <1>9, PowerZero
  <2>2. HalfEven(n * 1, 1) = n /\ n * 1 = n
    <3>1. 1 \in Nat \ {0} /\ n * 1 = n
      OBVIOUS
    <3> QED  BY <3>1, HalfEvenExact
  <2>3. ToFloat(n) = n
    BY <1>5, <2>1, <2>2
  <2>4. n < 2^Mantissa
    <3>1. Mantissa + k = Mantissa
      BY <1>9, Bits
    <3> QED  BY <1>6, <3>1
  <2> QED  BY <1>2, <1>4, <1>5, <1>8, <1>9, <2>3, <2>4
<1>10. CASE k # 0
  BY <1>2, <1>4, <1>5, <1>6, <1>8, <1>10
<1> QED  BY <1>9, <1>10

\* How far a float may be from n.
LEMMA FloatNear ==
  ASSUME NEW n \in Nat \ {0}, n <= 2 * Modulus
  PROVE  /\ ToFloat(n) \in Nat \ {0} /\ ToFloat(n) <= 2 * n
         /\ n <= 2^Mantissa => ToFloat(n) = n
         /\ n >= 2^Mantissa => ToFloat(n) >= 2^Mantissa
<1>1. PICK k \in Nat, m \in Nat :
        /\ ToFloat(n) = m * 2^k /\ m = HalfEven(n, 2^k)
        /\ m * 2^k <= 2^(Mantissa + k)
        /\ IF k = 0 THEN ToFloat(n) = n /\ n < 2^Mantissa
                    ELSE n >= 2^(Mantissa + (k - 1))
  BY FloatOf
<1> DEFINE P == 2^Mantissa
<1> DEFINE half == 2^(Mantissa - 1)
<1> DEFINE u == 2^k
<1>2. /\ P \in Nat \ {0} /\ half \in Nat \ {0} /\ u \in Nat \ {0}
      /\ P = 2 * half
  <2>1. Mantissa \in Nat /\ Mantissa - 1 \in Nat /\ (Mantissa - 1) + 1 = Mantissa
    BY Bits
  <2>2. 2^((Mantissa - 1) + 1) = 2 * 2^(Mantissa - 1)
    BY <2>1, PowerNext
  <2> QED  BY <2>1, <2>2, PowerPositive
<1>3. CASE k = 0
  <2>1. ToFloat(n) = n /\ n < P
    BY <1>1, <1>3
  <2> HIDE DEF P
  <2> QED  BY <1>2, <2>1 DEF P
<1>4. CASE k # 0
  <2>1. n >= half * u
    <3>1. Mantissa + (k - 1) = (Mantissa - 1) + k /\ Mantissa - 1 \in Nat
      BY <1>4, Bits
    <3>2. 2^((Mantissa - 1) + k) = 2^(Mantissa - 1) * 2^k
      BY <3>1, PowerSum
    <3> QED  BY <1>1, <1>4, <3>1, <3>2
  <2>2. m = HalfEven(n, u) /\ ToFloat(n) = m * u
    BY <1>1
  <2>3. /\ 2 * (m * u) <= 2 * n + u
        /\ m >= half
    <3> HIDE DEF u, half
    <3>1. 2 * (m * u) <= 2 * n + u
      BY <1>2, <2>2, HalfEvenNear
    <3>2. half * u \in Nat
      BY <1>2, Z3
    <3>3. 2 * n > 2 * (half * u) - u
      BY <1>2, <2>1, <3>2
    <3>4. m >= half
      BY <1>2, <2>2, <3>3, HalfEvenAbove
    <3> QED  BY <3>1, <3>4
  <2>4. u >= 2
    <3>1. 1 \in Nat /\ 1 <= k /\ 2^1 = 2 * 2^0
      <4>1. 0 \in Nat /\ 0 + 1 = 1
        OBVIOUS
      <4>2. 2^(0 + 1) = 2 * 2^0
        BY PowerNext
      <4> QED  BY <1>4, <4>1, <4>2
    <3>2. 2^1 <= 2^k
      BY <3>1, PowerGrows
    <3> QED  BY <3>1, <3>2, PowerZero
  <2> HIDE DEF u, half, P
  <2>5. half * u >= u /\ half * u >= P /\ half * u \in Nat /\ m * u \in Nat /\ m * u >= half * u
    <3>1. half * u >= u /\ half * u \in Nat
      BY <1>2, Z3
    <3>2. half * u >= half * 2
      BY <1>2, <2>4, Z3
    <3>3. m \in Nat /\ m >= half
      BY <2>3
    <3>4. m * u \in Nat /\ m * u >= half * u
      BY <1>2, <3>3, Z3
    <3> QED  BY <1>2, <3>1, <3>2, <3>4
  <2>6. ToFloat(n) \in Nat \ {0} /\ ToFloat(n) <= 2 * n /\ ToFloat(n) >= P
    BY <1>2, <2>1, <2>2, <2>3, <2>5
  <2>7. ASSUME n <= P  PROVE ToFloat(n) = n
    <3>1. n = P /\ half * u = P
      BY <1>2, <2>1, <2>5, <2>7
    <3>2. n = half * u
      BY <3>1
    <3>3. m = half
      BY <1>2, <2>2, <3>2, HalfEvenExact
    <3> QED  BY <2>2, <3>2, <3>3
  <2> QED  BY <2>6, <2>7 DEF P
<1> QED  BY <1>3, <1>4

-----------------------------------------------------------------------------
(***************************************************************************)
(* The quotient of two floats, rounded: a is what the list counts, b what  *)
(* a pixel takes, s the scale and u the exponent.                          *)
(***************************************************************************)
LEMMA Quotient ==
  ASSUME NEW a \in Nat \ {0}, a <= 4 * Modulus, NEW b \in Nat \ {0}, b <= 4 * Modulus
  PROVE  /\ \E k \in Nat : /\ Ulp(a, b) = 2^k
                           /\ a < b * 2^(Mantissa + k)
                           /\ k = 0 \/ a >= b * 2^(Mantissa + (k - 1))
         /\ \E k \in Nat : Scale(a, b) = 2^k /\ 2 * a * 2^k >= b * 2^Mantissa
<1>1. \E k \in Nat : /\ Ulp(a, b) = 2^k
                     /\ a < b * 2^(Mantissa + k)
                     /\ k = 0 \/ a >= b * 2^(Mantissa + (k - 1))
  <2> DEFINE K == Modulus + 1
  <2>1. K \in Exponents /\ a < 2^(Mantissa + K)
    BY WithinRange
  <2>2. 2^(Mantissa + K) \in Nat
    <3>1. Mantissa + K \in Nat
      BY Bits
    <3> QED  BY <3>1, PowerCounts
  <2>3. a < b * 2^(Mantissa + K)
    <3>1. \A x \in Nat : a < x => a < b * x
      BY Z3
    <3> QED  BY <2>1, <2>2, <3>1
  <2> HIDE DEF K
  <2>4. \E k \in 0..K : /\ Ulp(a, b) = 2^k
                        /\ a < b * 2^(Mantissa + k)
                        /\ k = 0 \/ a >= b * 2^(Mantissa + (k - 1))
    BY <2>1, <2>3, UlpOf
  <2>5. \A k \in 0..K : k \in Nat
    BY <2>1, Bits
  <2> QED  BY <2>4, <2>5, Zenon
<1>2. \E k \in Nat : Scale(a, b) = 2^k /\ 2 * a * 2^k >= b * 2^Mantissa
  <2> DEFINE K == 2 * Mantissa + Modulus
  <2>1. K \in Exponents /\ K \in Nat
    BY Bits
  <2>2. b < 2^(Mantissa + (Modulus + 1))
    BY WithinRange
  <2>3. 2^K = 2^(Mantissa + Modulus) * 2^Mantissa /\ 2^(Mantissa + (Modulus + 1)) = 2 * 2^(Mantissa + Modulus)
    <3>1. Mantissa + Modulus \in Nat /\ Mantissa \in Nat /\ (Mantissa + Modulus) + Mantissa = K
          /\ (Mantissa + Modulus) + 1 = Mantissa + (Modulus + 1)
      BY Bits
    <3>2. 2^((Mantissa + Modulus) + Mantissa) = 2^(Mantissa + Modulus) * 2^Mantissa
      BY <3>1, PowerSum
    <3>3. 2^((Mantissa + Modulus) + 1) = 2 * 2^(Mantissa + Modulus)
      BY <3>1, PowerNext
    <3> QED  BY <3>1, <3>2, <3>3
  <2> DEFINE P == 2^Mantissa
  <2> DEFINE Q == 2^(Mantissa + Modulus)
  <2>4. P \in Nat /\ Q \in Nat
    <3>1. Mantissa + Modulus \in Nat /\ Mantissa \in Nat
      BY Bits
    <3> QED  BY <3>1, PowerCounts
  <2>5. b <= 2 * Q /\ 2^K = Q * P
    BY <2>2, <2>3, <2>4
  <2>6. 2 * a * 2^K >= b * P
    <3> HIDE DEF P, Q, K
    <3>1. Q * P \in Nat /\ 2 * (Q * P) = (2 * Q) * P
      BY <2>4, Z3
    <3>2. 2 * a * (Q * P) >= 2 * (Q * P)
      BY <3>1, Z3
    <3>3. (2 * Q) * P >= b * P
      BY <2>4, <2>5, Z3
    <3>4. b * P \in Nat /\ 2 * a * (Q * P) \in Nat
      BY <2>4, <3>1, Z3
    <3> QED  BY <2>5, <3>1, <3>2, <3>3, <3>4
  <2> HIDE DEF K
  <2> QED  BY <2>1, <2>6, ScaleOf
<1> QED  BY <1>1, <1>2

\* The width as a quotient that is rounded to u / s, then up.
LEMMA RoundedUp ==
  ASSUME NEW a \in Nat, NEW b \in Nat \ {0}, NEW s \in Nat \ {0}, NEW u \in Nat \ {0}
  PROVE  LET h == HalfEven(a * s, b * u)
             w == Ceil(h * u, s)
         IN  /\ h \in Nat /\ w \in Nat
             /\ h * u <= w * s /\ w * s < h * u + s
             /\ 2 * (h * (b * u)) <= 2 * (a * s) + b * u
             /\ 2 * (h * (b * u)) >= 2 * (a * s) - b * u
<1> DEFINE as == a * s
<1> DEFINE bu == b * u
<1> DEFINE h == HalfEven(as, bu)
<1>1. as \in Nat /\ bu \in Nat \ {0}
  BY Z3
<1>2. h \in Nat /\ 2 * (h * bu) <= 2 * as + bu /\ 2 * (h * bu) >= 2 * as - bu
  <2> HIDE DEF as, bu
  <2> QED  BY <1>1, HalfEvenNear
<1> HIDE DEF h
<1>3. h * u \in Nat
  BY <1>2, Z3
<1> DEFINE x == h * u
<1>4. Ceil(x, s) \in Nat /\ x <= Ceil(x, s) * s /\ Ceil(x, s) * s < x + s
  <2> HIDE DEF x
  <2>1. x \in Nat
    BY <1>3 DEF x
  <2> QED  BY <2>1, CeilNear
<1> QED  BY <1>2, <1>4 DEF h

(***************************************************************************)
(* As long as the list is not longer than a float counts, the rounding     *)
(* does not move the quotient to the other side of a whole number: where u *)
(* is 1, the scale is at least half of b, and where it is exactly half the *)
(* quotient is exact.                                                      *)
(***************************************************************************)
LEMMA ExactSide ==
  ASSUME NEW a \in Nat \ {0}, NEW b \in Nat \ {0}, NEW s \in Nat \ {0},
         2 * s > b \/ (2 * s = b /\ \E q \in Nat : a = 2 * q)
  PROVE  LET w == Ceil(HalfEven(a * s, b * 1) * 1, s)
         IN  w \in Nat /\ a <= w * b /\ w * b < a + b
<1> DEFINE h == HalfEven(a * s, b * 1)
<1> DEFINE w == Ceil(h * 1, s)
<1>1. /\ h \in Nat /\ w \in Nat
      /\ h * 1 <= w * s /\ w * s < h * 1 + s
      /\ 2 * (h * (b * 1)) <= 2 * (a * s) + b * 1
      /\ 2 * (h * (b * 1)) >= 2 * (a * s) - b * 1
  <2>1. 1 \in Nat \ {0}
    OBVIOUS
  <2> QED  BY <2>1, RoundedUp
<1>2. a * s \in Nat
  BY Z3
<1>3. \A y \in Nat : a * s <= y * b => h <= y
  <2> DEFINE as == a * s
  <2>1. h = HalfEven(as, b)
    <3>1. b * 1 = b
      OBVIOUS
    <3> QED  BY <3>1
  <2>2. as \in Nat
    BY <1>2
  <2> HIDE DEF as, h
  <2>3. \A y \in Nat : as <= y * b => h <= y
    BY <2>1, <2>2, HalfEvenBelow
  <2> QED  BY <2>3 DEF as
<1>4. 2 * s = b /\ (\E q \in Nat : a = 2 * q) => h * b = a * s
  <2> SUFFICES ASSUME 2 * s = b, NEW q \in Nat, a = 2 * q  PROVE h * b = a * s
    OBVIOUS
  <2>1. a * s = q * b /\ b * 1 = b
    BY Z3
  <2>2. h = q
    BY <2>1, HalfEvenExact
  <2> HIDE DEF h
  <2> QED  BY <2>1, <2>2
<1> HIDE DEF h, w
<1>5. /\ h <= w * s /\ w * s < h + s /\ w * s \in Nat
      /\ 2 * (h * b) >= 2 * (a * s) - b /\ h * b \in Nat
  <2>1. b * 1 = b /\ h * 1 = h /\ h * b \in Nat /\ w * s \in Nat
    BY <1>1, Z3
  <2> QED  BY <1>1, <2>1
<1>6. a <= w * b
  <2>1. SUFFICES ASSUME a > w * b  PROVE FALSE
    <3>1. w * b \in Nat
      BY <1>1, Z3
    <3> QED  BY <2>1, <3>1
  <2>2. w * b \in Nat /\ a >= w * b + 1
    BY <1>1, <2>1, Z3
  <2>3. a * s >= (w * b + 1) * s
    BY <2>2, Z3
  <2>4. (w * b + 1) * s = (w * s) * b + s /\ (w * s) * b \in Nat
    BY <1>1, Z3
  <2>5. h * b <= (w * s) * b
    BY <1>1, <1>5, Z3
  <2>6. CASE 2 * s > b
    BY <1>2, <1>5, <2>3, <2>4, <2>5, <2>6
  <2>7. CASE 2 * s = b /\ \E q \in Nat : a = 2 * q
    <3>1. h * b = a * s
      BY <1>4, <2>7
    <3> QED  BY <1>2, <1>5, <2>3, <2>4, <2>5, <3>1
  <2> QED  BY <2>6, <2>7
<1>7. w * b < a + b
  <2>1. SUFFICES ASSUME w * b >= a + b  PROVE FALSE
    <3>1. w * b \in Nat
      BY <1>1, Z3
    <3> QED  BY <2>1, <3>1
  <2>2. w # 0
    <3>1. w = 0 => w * b = 0
      BY Z3
    <3> QED  BY <2>1, <3>1
  <2> DEFINE v == w - 1
  <2>3. v \in Nat /\ w = v + 1
    BY <1>1, <2>2
  <2> HIDE DEF v
  <2>4. (v + 1) * b = v * b + b /\ (v + 1) * s = v * s + s /\ v * b \in Nat /\ v * s \in Nat
    BY <2>3, Z3
  <2>5. a <= v * b
    BY <2>1, <2>3, <2>4
  <2>6. a * s <= (v * b) * s /\ (v * b) * s = (v * s) * b
    BY <2>3, <2>4, <2>5, Z3
  <2>7. h <= v * s
    BY <1>3, <2>4, <2>6
  <2> QED  BY <1>1, <1>5, <2>3, <2>4, <2>7
<1> QED  BY <1>1, <1>6, <1>7 DEF h, w

\* The significand's range is even.
LEMMA EvenRange ==
  /\ 2^Mantissa \in Nat \ {0} /\ 2^(Mantissa - 1) \in Nat \ {0}
  /\ 2^Mantissa = 2 * 2^(Mantissa - 1)
<1>1. Mantissa \in Nat /\ Mantissa - 1 \in Nat /\ (Mantissa - 1) + 1 = Mantissa
  BY Bits
<1>2. 2^((Mantissa - 1) + 1) = 2 * 2^(Mantissa - 1)
  BY <1>1, PowerNext
<1> QED  BY <1>1, <1>2, PowerPositive

\* A list that a float counts exactly has as many columns as it needs: the
\* rounding of the quotient never passes a whole number.
LEMMA WidthExact ==
  ASSUME NEW n \in Nat \ {0}, n <= 2^Mantissa, n <= 2 * Modulus,
         NEW d \in Nat \ {0}, d <= 2 * Modulus
  PROVE  LET w == CeilQuotient(n, d) IN w \in Nat /\ n <= w * d /\ w * d < n + d
<1> DEFINE P == 2^Mantissa
<1> DEFINE half == 2^(Mantissa - 1)
<1> DEFINE b == ToFloat(d)
<1> DEFINE s == Scale(n, b)
<1> DEFINE u == Ulp(n, b)
<1> DEFINE w == Ceil(HalfEven(n * s, b * u) * u, s)
<1>1. CeilQuotient(n, d) = w
  <2>1. ToFloat(n) = n
    BY FloatNear
  <2> QED  BY <2>1 DEF CeilQuotient
<1>2. /\ b \in Nat \ {0} /\ b <= 2 * d
      /\ d <= P => b = d
      /\ d >= P => b >= P
  BY FloatNear
<1>3. P \in Nat \ {0} /\ half \in Nat \ {0} /\ P = 2 * half /\ n <= P
  BY EvenRange
<1>4. n <= 4 * Modulus /\ b <= 4 * Modulus
  <2> HIDE DEF b
  <2> QED  BY <1>2, Bits
<1> HIDE DEF b
<1>5. PICK k \in Nat : /\ u = 2^k
                       /\ n < b * 2^(Mantissa + k)
                       /\ k = 0 \/ n >= b * 2^(Mantissa + (k - 1))
  BY <1>2, <1>4, Quotient
<1>6. s \in Nat \ {0} /\ 2 * n * s >= b * P
  <2>1. PICK j \in Nat : s = 2^j /\ 2 * n * 2^j >= b * 2^Mantissa
    BY <1>2, <1>4, Quotient
  <2>2. 2^j \in Nat \ {0}
    BY PowerPositive
  <2> QED  BY <2>1, <2>2
<1>7. u \in Nat \ {0}
  BY <1>5, PowerPositive
<1>8. CASE k = 0
  <2>1. u = 1
    BY <1>5, <1>8, PowerZero
  <2>2. 2 * s > b \/ (2 * s = b /\ \E q \in Nat : n = 2 * q)
    <3> HIDE DEF s, P, half
    <3>1. CASE 2 * s < b
      <4>1. n * (2 * s) < n * b
        BY <1>2, <1>6, <3>1, Z3
      <4>2. n * b <= P * b /\ P * b = b * P /\ b * P \in Nat /\ n * b \in Nat
        BY <1>2, <1>3, Z3
      <4>3. 2 * n * s = n * (2 * s) /\ n * (2 * s) \in Nat
        BY <1>6, Z3
      <4> QED  BY <1>6, <4>1, <4>2, <4>3
    <3>2. CASE 2 * s = b
      <4>1. 2 * n * s = n * b /\ P * b = b * P /\ b * P \in Nat /\ n * b \in Nat
        <5>1. 2 * n * s = n * (2 * s)
          BY <1>6, Z3
        <5>2. P * b = b * P /\ b * P \in Nat /\ n * b \in Nat
          BY <1>2, <1>3, Z3
        <5> QED  BY <3>2, <5>1, <5>2
      <4>2. CASE n < P
        <5>1. n * b < P * b
          BY <1>2, <1>3, <4>2, Z3
        <5> QED  BY <1>6, <4>1, <5>1
      <4>3. CASE n = P
        <5>1. half \in Nat /\ n = 2 * half
          BY <1>3, <4>3
        <5> QED  BY <3>2, <5>1
      <4> QED  BY <1>3, <4>2, <4>3
    <3> QED  BY <1>2, <1>6, <3>1, <3>2
  <2>3. w \in Nat /\ n <= w * b /\ w * b < n + b
    <3>1. w = Ceil(HalfEven(n * s, b * 1) * 1, s)
      BY <2>1
    <3> HIDE DEF s, u, w
    <3> QED  BY <1>2, <1>6, <2>2, <3>1, ExactSide
  <2> HIDE DEF w, P
  <2>4. CASE d <= P
    BY <1>1, <1>2, <2>3, <2>4 DEF w
  <2>5. CASE d > P
    <3>1. b >= P /\ n <= b /\ n <= d
      BY <1>2, <1>3, <2>5
    <3>2. w = 1
      <4>1. w # 0
        <5>1. w = 0 => w * b = 0
          BY <1>2, Z3
        <5> QED  BY <2>3, <5>1
      <4>2. CASE w >= 2
        <5>1. w * b >= 2 * b
          BY <1>2, <2>3, <4>2, Z3
        <5>2. w * b \in Nat
          BY <1>2, <2>3, Z3
        <5> QED  BY <1>2, <2>3, <3>1, <5>1, <5>2
      <4> QED  BY <2>3, <4>1, <4>2
    <3> QED  BY <1>1, <3>1, <3>2
  <2> QED  BY <1>3, <2>4, <2>5
<1>9. CASE k # 0
  <2>1. n >= b * P * 2^(k - 1)
    <3>1. Mantissa \in Nat /\ k - 1 \in Nat
      BY <1>9, Bits
    <3>2. 2^(Mantissa + (k - 1)) = P * 2^(k - 1)
      BY <3>1, PowerSum
    <3>3. 2^(k - 1) \in Nat
      BY <3>1, PowerCounts
    <3>4. \A x \in Nat : b * (P * x) = b * P * x
      BY <1>2, <1>3, Z3
    <3> QED  BY <1>5, <1>9, <3>2, <3>3, <3>4
  <2>2. k - 1 \in Nat /\ k = (k - 1) + 1
    BY <1>9
  <2> DEFINE v == 2^(k - 1)
  <2>3. v \in Nat \ {0} /\ u = 2 * v
    BY <1>5, <2>2, PowerPositive, PowerNext
  <2>4. b = 1 /\ v = 1 /\ n = P
    <3> HIDE DEF v, P
    <3>1. n >= b * P * v
      BY <2>1 DEF v, P
    <3>2. b * P >= P /\ b * P \in Nat
      BY <1>2, <1>3, Z3
    <3>3. b * P * v >= b * P /\ b * P * v \in Nat
      BY <1>2, <1>3, <2>3, Z3
    <3>4. n = P /\ b * P = P /\ b * P * v = P
      BY <1>3, <3>1, <3>2, <3>3
    <3>5. b = 1
      <4>1. b >= 2 => b * P >= 2 * P
        BY <1>2, <1>3, Z3
      <4> QED  BY <1>2, <1>3, <3>4, <4>1
    <3>6. v = 1
      <4>1. v >= 2 => P * v >= 2 * P
        BY <1>3, <2>3, Z3
      <4> QED  BY <1>3, <2>3, <3>4, <4>1
    <3> QED  BY <3>4, <3>5, <3>6
  <2>5. u = 2
    BY <2>3, <2>4
  <2>6. d = 1
    <3> HIDE DEF P
    <3> QED  BY <1>2, <1>3, <2>4
  <2>7. HalfEven(n * s, b * u) * u = n * s /\ n * s \in Nat
    <3> HIDE DEF s, u, P, half
    <3>1. n * s = (half * s) * 2 /\ half * s \in Nat
      BY <1>3, <1>6, <2>4, Z3
    <3>2. b * u = 2 /\ 2 \in Nat \ {0}
      BY <2>4, <2>5
    <3>3. HalfEven((half * s) * 2, 2) = half * s
      <4> DEFINE q == half * s
      <4>1. q \in Nat
        BY <3>1
      <4> HIDE DEF q
      <4>2. HalfEven(q * 2, 2) = q
        BY <3>2, <4>1, HalfEvenExact
      <4> QED  BY <4>2 DEF q
    <3>4. n * s \in Nat
      BY <1>6, Z3
    <3> QED  BY <2>5, <3>1, <3>2, <3>3, <3>4
  <2>8. w \in Nat /\ n * s <= w * s /\ w * s < n * s + s
    <3> DEFINE x == n * s
    <3>1. w = Ceil(x, s) /\ x \in Nat
      BY <2>7
    <3> HIDE DEF x, w, s
    <3> QED  BY <1>6, <3>1, CeilNear DEF x
  <2> HIDE DEF w, s
  <2>9. w = n
    <3>1. CASE w < n
      <4>1. (w + 1) * s <= n * s /\ (w + 1) * s = w * s + s /\ w * s \in Nat /\ n * s \in Nat
        BY <1>6, <2>8, <3>1, Z3
      <4> QED  BY <1>6, <2>8, <4>1
    <3>2. CASE w > n
      <4>1. (n + 1) * s <= w * s /\ (n + 1) * s = n * s + s /\ w * s \in Nat /\ n * s \in Nat
        BY <1>6, <2>8, <3>2, Z3
      <4> QED  BY <1>6, <2>8, <4>1
    <3> QED  BY <2>8, <3>1, <3>2
  <2> QED  BY <1>1, <2>6, <2>9 DEF w
<1> QED  BY <1>8, <1>9

\* A float is a multiple of the unit of its quotient by 1.
LEMMA UnitDivides ==
  ASSUME NEW n \in Nat \ {0}, n <= 2 * Modulus, NEW k \in Nat,
         k = 0 \/ ToFloat(n) >= 2^(Mantissa + (k - 1))
  PROVE  \E q \in Nat : ToFloat(n) = q * 2^k
<1>1. PICK j \in Nat, m \in Nat : ToFloat(n) = m * 2^j /\ m * 2^j <= 2^(Mantissa + j)
  BY FloatOf
<1>2. CASE k <= j
  <2>1. j - k \in Nat /\ k + (j - k) = j
    BY <1>2
  <2>2. 2^j = 2^k * 2^(j - k)
    BY <2>1, PowerSum
  <2>3. 2^k \in Nat /\ 2^(j - k) \in Nat
    BY <2>1, PowerCounts
  <2> DEFINE x == 2^k
  <2> DEFINE y == 2^(j - k)
  <2>4. x \in Nat /\ y \in Nat /\ ToFloat(n) = m * (x * y)
    BY <1>1, <2>2, <2>3
  <2>5. ToFloat(n) = (m * y) * x /\ m * y \in Nat
    <3> HIDE DEF x, y
    <3>1. m * (x * y) = (m * y) * x /\ m * y \in Nat
      BY <2>4, Z3
    <3> QED  BY <2>4, <3>1
  <2> QED  BY <2>5
<1>3. CASE k > j
  <2>1. /\ Mantissa + j \in Nat /\ Mantissa + (k - 1) \in Nat
        /\ Mantissa + j <= Mantissa + (k - 1) /\ Mantissa - 1 \in Nat
    BY <1>3, Bits
  <2> DEFINE top == 2^(Mantissa + j)
  <2> DEFINE low == 2^(Mantissa + (k - 1))
  <2>2. top <= low /\ top \in Nat /\ low \in Nat
    BY <2>1, PowerGrows, PowerCounts
  <2>3. ToFloat(n) \in Nat
    BY FloatNear
  <2>4. ToFloat(n) = low
    <3> HIDE DEF top, low
    <3>1. ToFloat(n) <= top /\ ToFloat(n) >= low
      BY <1>1, <1>3 DEF top, low
    <3> QED  BY <2>2, <2>3, <3>1
  <2>5. low = 2^(Mantissa - 1) * 2^k
    <3>1. Mantissa + (k - 1) = (Mantissa - 1) + k
      BY Bits
    <3> QED  BY <2>1, <3>1, PowerSum
  <2>6. 2^(Mantissa - 1) \in Nat
    BY <2>1, PowerCounts
  <2> HIDE DEF low
  <2> QED  BY <2>4, <2>5, <2>6
<1> QED  BY <1>2, <1>3

\* One column fewer is one column's blocks fewer.
LEMMA OneLess ==
  ASSUME NEW w \in Nat \ {0}, NEW x \in Nat
  PROVE  (w - 1) * x = w * x - x /\ w * x \in Nat
BY Z3

\* For any list the width is at least 1 and at most twice the blocks.
LEMMA WidthBounds ==
  ASSUME NEW n \in Nat \ {0}, n <= 2 * Modulus, NEW d \in Nat \ {0}, d <= 2 * Modulus
  PROVE  LET w == CeilQuotient(n, d) IN w \in Nat \ {0} /\ w <= 2 * n
<1> DEFINE P == 2^Mantissa
<1> DEFINE a == ToFloat(n)
<1> DEFINE b == ToFloat(d)
<1> DEFINE s == Scale(a, b)
<1> DEFINE u == Ulp(a, b)
<1> DEFINE h == HalfEven(a * s, b * u)
<1> DEFINE w == Ceil(h * u, s)
<1>1. CeilQuotient(n, d) = w
  BY DEF CeilQuotient
<1>2. a \in Nat \ {0} /\ a <= 2 * n /\ b \in Nat \ {0} /\ b <= 2 * d
  BY FloatNear
<1>3. a <= 4 * Modulus /\ b <= 4 * Modulus
  <2> HIDE DEF a, b
  <2> QED  BY <1>2, Bits
<1>4. P \in Nat /\ P >= 2
  BY EvenRange
<1>5. \A k \in Nat : (k = 0 \/ a >= 2^(Mantissa + (k - 1))) => \E q \in Nat : a = q * 2^k
  BY UnitDivides
<1> HIDE DEF a, b
<1>6. PICK k \in Nat : u = 2^k /\ (k = 0 \/ a >= b * 2^(Mantissa + (k - 1)))
  BY <1>2, <1>3, Quotient
<1>7. PICK j \in Nat : s = 2^j /\ 2 * a * 2^j >= b * P
  BY <1>2, <1>3, Quotient
<1>8. u \in Nat \ {0} /\ s \in Nat \ {0} /\ 2 * a * s >= b * P
  BY <1>6, <1>7, PowerPositive
<1>9. /\ h \in Nat /\ w \in Nat
      /\ h * u <= w * s /\ w * s < h * u + s
      /\ 2 * (h * (b * u)) <= 2 * (a * s) + b * u
      /\ 2 * (h * (b * u)) >= 2 * (a * s) - b * u
  <2> HIDE DEF s, u
  <2> QED  BY <1>2, <1>8, RoundedUp
\* The quotient is at least one unit.
<1>10. b * u <= a * s
  <2>1. CASE k = 0
    <3>1. u = 1
      BY <1>6, <2>1, PowerZero
    <3> HIDE DEF s, u, P
    <3>2. 2 * a * s = 2 * (a * s) /\ a * s \in Nat /\ b * P >= b * 2 /\ b * P \in Nat
      BY <1>2, <1>4, <1>8, Z3
    <3> QED  BY <1>2, <1>8, <3>1, <3>2
  <2>2. CASE k # 0
    <3>1. 2^(Mantissa + (k - 1)) >= u
      <4>1. Mantissa + (k - 1) \in Nat /\ k <= Mantissa + (k - 1)
        BY <2>2, Bits
      <4> QED  BY <1>6, <4>1, PowerGrows
    <3> DEFINE x == 2^(Mantissa + (k - 1))
    <3>2. x \in Nat /\ x >= u /\ a >= b * x
      <4>1. Mantissa + (k - 1) \in Nat
        BY <2>2, Bits
      <4> QED  BY <1>6, <2>2, <3>1, <4>1, PowerCounts
    <3> HIDE DEF x, s, u
    <3>3. b * x >= b * u /\ b * x \in Nat /\ b * u \in Nat
      BY <1>2, <1>8, <3>2, Z3
    <3>4. a * s >= a /\ a * s \in Nat
      BY <1>2, <1>8, Z3
    <3> QED  BY <1>2, <3>2, <3>3, <3>4
  <2> QED  BY <2>1, <2>2
<1>11. h # 0
  <2> HIDE DEF h, u, s
  <2>1. h = 0 => h * (b * u) = 0
    BY <1>2, <1>8, Z3
  <2>2. a * s \in Nat /\ b * u \in Nat /\ b * u > 0
    BY <1>2, <1>8, Z3
  <2> QED  BY <1>9, <1>10, <2>1, <2>2
<1>12. w # 0
  <2> HIDE DEF h, u, s, w
  <2>1. h * u > 0 /\ h * u \in Nat
    BY <1>8, <1>9, <1>11, Z3
  <2>2. w = 0 => w * s = 0
    BY <1>8, Z3
  <2>3. ASSUME w = 0  PROVE FALSE
    BY <1>9, <2>1, <2>2, <2>3
  <2> QED  BY <2>3
\* No rounding takes it above the float that is divided.
<1>13. h * u <= a * s
  <2>1. CASE b = 1
    <3>1. \A x \in Nat : 1 * x = x
      OBVIOUS
    <3>2. k = 0 \/ a >= 2^(Mantissa + (k - 1))
      <4>1. k # 0 => 2^(Mantissa + (k - 1)) \in Nat
        <5>1. k # 0 => Mantissa + (k - 1) \in Nat
          BY Bits
        <5> QED  BY <5>1, PowerCounts
      <4> QED  BY <1>6, <2>1, <3>1, <4>1
    <3>3. PICK q \in Nat : a = q * u
      BY <1>5, <1>6, <3>2
    <3> HIDE DEF s, u
    <3>4. a * s = (q * s) * u /\ q * s \in Nat /\ b * u = u
      BY <1>8, <2>1, <3>3, Z3
    <3>5. HalfEven((q * s) * u, u) = q * s
      <4> DEFINE x == q * s
      <4>1. x \in Nat
        BY <3>4
      <4> HIDE DEF x
      <4>2. HalfEven(x * u, u) = x
        BY <1>8, <4>1, HalfEvenExact
      <4> QED  BY <4>2 DEF x
    <3>6. h = q * s
      BY <3>4, <3>5
    <3> HIDE DEF h
    <3>7. h * u = a * s
      BY <3>4, <3>6
    <3>8. a * s \in Nat
      BY <1>2, <1>8, Z3
    <3> QED  BY <3>7, <3>8
  <2>2. CASE b >= 2
    <3> HIDE DEF h, s, u
    <3>1. h * (b * u) = b * (h * u) /\ b * (h * u) >= 2 * (h * u) /\ h * u \in Nat
      BY <1>2, <1>8, <1>9, <2>2, Z3
    <3>2. a * s \in Nat /\ b * u \in Nat /\ b * (h * u) \in Nat
      BY <1>2, <1>8, <1>9, Z3
    <3> QED  BY <1>9, <1>10, <3>1, <3>2
  <2> QED  BY <1>2, <2>1, <2>2
<1>14. w <= a
  <2> HIDE DEF h, s, u, w
  <2>1. CASE w > a
    <3>1. w * s >= (a + 1) * s /\ (a + 1) * s = a * s + s /\ a * s \in Nat
      BY <1>2, <1>8, <1>9, <2>1, Z3
    <3>2. h * u \in Nat /\ w * s \in Nat
      BY <1>8, <1>9, Z3
    <3> QED  BY <1>8, <1>9, <1>13, <3>1, <3>2
  <2> QED  BY <1>2, <1>9, <2>1
<1> HIDE DEF w
<1> QED  BY <1>1, <1>2, <1>9, <1>12, <1>14

-----------------------------------------------------------------------------
(***************************************************************************)
(* The geometry that render() computes, for every number of blocks.        *)
(***************************************************************************)
LEMMA PixelBlocks ==
  ASSUME m_job \in Settings, NEW n \in Nat \ {0}, n < Modulus, NEW x \in BlocksPerPixel(n)
  PROVE  x \in Nat \ {0} /\ x <= 2 * Modulus
<1> DEFINE rows == (m_job.height * 2) % Modulus
<1>1. Modulus \in Nat \ {0} /\ m_job.x \in UInt32 /\ m_job.height \in Nat
  BY Bits DEF Settings, UInt32
<1>2. CASE m_job.x # 0
  BY <1>1, <1>2 DEF BlocksPerPixel, UInt32
<1>3. CASE m_job.x = 0 /\ rows = 0
  BY <1>1, <1>3 DEF BlocksPerPixel, UInt32
<1>4. CASE m_job.x = 0 /\ rows # 0
  <2>1. rows \in 0..(Modulus - 1)
    <3> DEFINE double == m_job.height * 2
    <3>1. double \in Nat
      BY <1>1
    <3> HIDE DEF double
    <3>2. double % Modulus \in 0..(Modulus - 1)
      BY <1>1, <3>1
    <3> QED  BY <3>2 DEF double
  <2> DEFINE quotient == CeilQuotient(n, rows)
  <2>2. x = IF quotient > 1 THEN quotient ELSE 1
    BY <1>4 DEF BlocksPerPixel
  <2> HIDE DEF rows
  <2>3. rows \in Nat \ {0} /\ rows <= 2 * Modulus /\ n <= 2 * Modulus
    BY <1>1, <1>4, <2>1
  <2>4. quotient \in Nat \ {0} /\ quotient <= 2 * n
    BY <2>3, WidthBounds
  <2> HIDE DEF quotient
  <2> QED  BY <1>1, <2>2, <2>4
<1> QED  BY <1>2, <1>3, <1>4

\* Of a list of at most Modulus / 8 blocks, the size that the code computes in
\* 64 bits is not reduced: an image that passes the check does fit.
LEMMA SmallEnough ==
  ASSUME m_job \in Settings, NEW n \in Nat, 8 * n <= Modulus, NEW w \in Nat, w <= 2 * n,
         ~ TooBig(w)
  PROVE  w * m_job.height * 4 < Modulus
<1> DEFINE h == m_job.height
<1> DEFINE z == w * h * 4
<1> DEFINE square == Modulus * Modulus
<1>1. Modulus \in Nat \ {0} /\ h \in Nat /\ h < Modulus
  BY Bits DEF Settings, UInt32
<1>2. ~ (z % square > Modulus - 1)
  BY DEF TooBig
<1> HIDE DEF h
<1>3. z \in Nat /\ z < square /\ square \in Nat \ {0}
  <2>1. w * 4 <= Modulus
    BY <1>1
  <2>2. z = (w * 4) * h /\ (w * 4) * h <= Modulus * h /\ (w * 4) * h \in Nat
    BY <1>1, <2>1, Z3
  <2>3. Modulus * h < Modulus * Modulus /\ Modulus * Modulus \in Nat /\ Modulus * h \in Nat
    BY <1>1, Z3
  <2> HIDE DEF z
  <2> QED  BY <2>2, <2>3
<1> HIDE DEF z, square
<1>4. z % square = z
  BY <1>3
<1>5. z <= Modulus - 1
  BY <1>1, <1>2, <1>3, <1>4
<1>6. z < Modulus
  BY <1>1, <1>3, <1>5
<1> QED  BY <1>6 DEF z, h

(***************************************************************************)
(* Rows of s nonces each: a distance d from the top that falls below the   *)
(* h rows is within h of the bottom.                                       *)
(***************************************************************************)
LEMMA BelowTheRows ==
  ASSUME NEW d \in Nat, NEW span \in Nat, NEW h \in Nat \ {0},
         d <= span, span \div h # 0, ~ (d \div (span \div h) < h)
  PROVE  span - d < h
<1> DEFINE s == span \div h
<1> DEFINE q == d \div s
<1>1. /\ s \in Nat \ {0}
      /\ span < s * h + h
  BY Z3
<1>2. q \in Nat /\ s * q <= d
  <2> HIDE DEF s
  <2> QED  BY <1>1, Z3
<1>3. q >= h
  BY <1>2
<1>4. s * h <= s * q
  <2> HIDE DEF s, q
  <2> QED  BY <1>1, <1>2, <1>3, Z3
<1>5. s * h \in Nat /\ s * q \in Nat
  <2> HIDE DEF s, q
  <2> QED  BY <1>1, <1>2
<1> HIDE DEF s, q
<1> QED  BY <1>1, <1>2, <1>4, <1>5

(***************************************************************************)
(* The invariant: the types the arithmetic needs, nothing drawn before the *)
(* range is chosen, and the properties.                                    *)
(***************************************************************************)
Typed ==
  /\ m_nonces \in Seq(UInt32)
  /\ m_job \in Settings
  /\ begin \in Nat /\ end \in Nat /\ m_count \in Nat

ListFits == Len(m_nonces) < Modulus

HeightGiven == phase = "render" => m_job.height # 0 /\ end <= Len(m_nonces)

NothingDrawn == phase \in {"new", "render"} => points = <<>>

IInv ==
  /\ Typed /\ ListFits /\ HeightGiven /\ NothingDrawn
  /\ ShowsDenoted /\ OnlyLowestLost /\ CrashIsNarrow
  /\ ColumnsFit /\ ImageFits

LEMMA InitIInv == Init => IInv
<1> SUFFICES ASSUME Init PROVE IInv
  OBVIOUS
<1>1. Typed
  BY HeatmapAssumption DEF Init, Typed
<1>2. HeightGiven /\ NothingDrawn /\ ShowsDenoted /\ CrashIsNarrow
  BY DEF Init, HeightGiven, NothingDrawn, ShowsDenoted, CrashIsNarrow
<1>3. OnlyLowestLost
  BY DEF Init, OnlyLowestLost
<1>4. ListFits
  BY HeatmapAssumption DEF Init, ListFits
<1>5. ColumnsFit /\ ImageFits
  BY DEF Init, ColumnsFit, ImageFits
<1> QED  BY <1>1, <1>2, <1>3, <1>4, <1>5 DEF IInv

(***************************************************************************)
(* Both iterators lie in the list, on the side of a height that the        *)
(* settings put them.                                                      *)
(***************************************************************************)
LEMMA Iterators ==
  ASSUME Typed
  PROVE  LET first == get_iterator(TRUE, m_job.start)
             last  == get_iterator(FALSE, m_job.end)
         IN  /\ first \in 0..Len(m_nonces)
             /\ last \in 0..Len(m_nonces)
             /\ \A h \in 0..(Len(m_nonces) - 1) : Denoted(h) <=> first <= h /\ h < last
<1>1. Len(m_nonces) \in Nat /\ m_job.start \in Int /\ m_job.end \in Int
  BY DEF Typed, Settings, Int32
<1> QED  BY <1>1 DEF get_iterator, Denoted

LEMMA RenderStep == IInv /\ render => IInv'
<1> SUFFICES ASSUME IInv, render PROVE IInv'
  OBVIOUS
<1> DEFINE first == get_iterator(TRUE, m_job.start)
<1> DEFINE last  == get_iterator(FALSE, m_job.end)
<1>1. /\ UNCHANGED <<m_nonces, m_job, points>>
      /\ points = <<>>
      /\ Typed /\ ListFits /\ ListFits'
  BY DEF IInv, render, NothingDrawn, ListFits
<1>2. OnlyLowestLost'
  BY <1>1 DEF OnlyLowestLost
<1>3. CASE phase' = "error" /\ UNCHANGED <<begin, end, m_count, m_x, m_width>>
  <2>1. Typed'
    BY <1>1, <1>3 DEF Typed
  <2> QED
    BY <1>1, <1>2, <1>3, <2>1
    DEF IInv, HeightGiven, NothingDrawn, ShowsDenoted, CrashIsNarrow, ColumnsFit, ImageFits
<1>4. CASE /\ m_job.height # 0 /\ first < last
           /\ begin' = first /\ end' = last /\ m_count' = last - first
           /\ m_x' \in BlocksPerPixel(last - first)
           /\ m_width' = CeilQuotient(last - first, m_x')
           /\ phase' = IF TooBig(m_width') THEN "error" ELSE "render"
  <2>1. /\ first \in 0..Len(m_nonces)
        /\ last \in 0..Len(m_nonces)
        /\ \A h \in 0..(Len(m_nonces) - 1) : Denoted(h) <=> first <= h /\ h < last
    BY <1>1, Iterators
  <2> HIDE DEF first, last
  <2>2. Len(m_nonces) \in Nat
    BY <1>1 DEF Typed
  <2>3. Typed'
    BY <1>1, <1>4, <2>1, <2>2 DEF Typed
  <2>4. ShowsDenoted'
    <3>1. m_count' = end' - begin' /\ m_count' > 0
      BY <1>4, <2>1, <2>2
    <3>2. \A h \in 0..(Len(m_nonces') - 1) : Denoted(h)' <=> begin' <= h /\ h < end'
      BY <1>1, <1>4, <2>1 DEF Denoted
    <3> QED  BY <3>1, <3>2 DEF ShowsDenoted
  <2>5. HeightGiven' /\ NothingDrawn' /\ CrashIsNarrow'
    BY <1>1, <1>4, <2>1, <2>2 DEF HeightGiven, NothingDrawn, CrashIsNarrow
  <2>6. ColumnsFit' /\ ImageFits'
    <3> DEFINE n == last - first
    <3>1. n \in Nat \ {0} /\ n < Modulus /\ n <= 2 * Modulus
      BY <1>1, <1>4, <2>1, <2>2, Bits DEF ListFits
    <3>2. m_x' \in BlocksPerPixel(n) /\ m_width' = CeilQuotient(n, m_x') /\ m_count' = n
      BY <1>4
    <3> HIDE DEF n
    <3>3. m_job \in Settings
      BY <1>1 DEF Typed
    <3>4. m_x' \in Nat \ {0} /\ m_x' <= 2 * Modulus
      BY <3>1, <3>2, <3>3, PixelBlocks
    <3>5. m_width' \in Nat \ {0} /\ m_width' <= 2 * n
      BY <3>1, <3>2, <3>4, WidthBounds
    <3>6. ASSUME n <= 2^Mantissa
          PROVE  (m_width' - 1) * m_x' < n /\ n <= m_width' * m_x'
      <4>1. n <= m_width' * m_x' /\ m_width' * m_x' < n + m_x'
        BY <3>1, <3>2, <3>4, <3>6, WidthExact
      <4>2. (m_width' - 1) * m_x' = m_width' * m_x' - m_x' /\ m_width' * m_x' \in Nat
        BY <3>4, <3>5, OneLess
      <4> QED  BY <3>1, <3>4, <4>1, <4>2
    <3>7. ASSUME phase' = "render", 8 * n <= Modulus
          PROVE  m_width' * m_job.height * 4 < Modulus
      <4>1. ~ TooBig(m_width')
        BY <1>4, <3>7
      <4> QED  BY <3>1, <3>3, <3>5, <3>7, <4>1, SmallEnough
    <3>8. phase' \in {"error", "render"} /\ m_job' = m_job
      BY <1>1, <1>4
    <3>9. ColumnsFit'
      BY <3>2, <3>6 DEF ColumnsFit
    <3>10. ImageFits'
      BY <3>2, <3>4, <3>5, <3>7, <3>8 DEF ImageFits
    <3> QED  BY <3>9, <3>10
  <2> QED  BY <1>1, <1>2, <2>3, <2>4, <2>5, <2>6 DEF IInv
<1> QED  BY <1>3, <1>4 DEF render

\* The nonces asked for lie between the limits, which are then in order.
LEMMA AskedNonce ==
  ASSUME Typed, end <= Len(m_nonces), m_count = end - begin, NEW i \in Asked
  PROVE  /\ NonceAt(i) \in Nat /\ Lowest \in Nat /\ Highest \in Nat
         /\ Lowest <= NonceAt(i) /\ NonceAt(i) <= Highest
         /\ (Highest - Lowest) % Modulus = Highest - Lowest
<1>1. begin + i + 1 \in 1..Len(m_nonces)
  BY DEF Typed, Asked
<1>2. NonceAt(i) \in UInt32
  BY <1>1 DEF Typed, NonceAt
<1>3. /\ Modulus \in Nat \ {0}
      /\ Lowest \in UInt32 /\ Highest \in UInt32
  BY HeatmapAssumption DEF Typed, Settings, Lowest, Highest, UInt32
<1>4. Lowest <= NonceAt(i) /\ NonceAt(i) <= Highest
  BY DEF Asked
<1>5. Highest - Lowest \in 0..(Modulus - 1)
  BY <1>2, <1>3, <1>4 DEF UInt32
<1>6. (Highest - Lowest) % Modulus = Highest - Lowest
  BY <1>3, <1>5
<1> QED  BY <1>2, <1>3, <1>4, <1>6 DEF UInt32

LEMMA DrawStep == IInv /\ nonces_heatmap => IInv'
<1> SUFFICES ASSUME IInv, nonces_heatmap PROVE IInv'
  OBVIOUS
<1>1. /\ phase = "render"
      /\ UNCHANGED <<m_nonces, m_job, begin, end, m_count, m_x, m_width>>
      /\ Typed /\ m_job.height # 0 /\ end <= Len(m_nonces)
      /\ points = <<>>
  BY DEF IInv, nonces_heatmap, HeightGiven, NothingDrawn
<1>2. m_count = end - begin
  BY <1>1 DEF IInv, ShowsDenoted
<1>3. m_job.height \in Nat \ {0}
  BY <1>1, HeatmapAssumption DEF Typed, Settings, UInt32
<1>4. Typed' /\ ListFits' /\ ColumnsFit' /\ ImageFits'
  BY <1>1 DEF IInv, Typed, ListFits, ColumnsFit, ImageFits
<1>5. CASE NoncesPerRow = 0 /\ Asked # {} /\ phase' = "crashed" /\ UNCHANGED points
  <2>1. PICK i \in Asked : TRUE
    BY <1>5
  <2>2. /\ NonceAt(i) \in Nat /\ Lowest \in Nat /\ Highest \in Nat
        /\ Lowest <= NonceAt(i) /\ NonceAt(i) <= Highest
        /\ (Highest - Lowest) % Modulus = Highest - Lowest
    BY <1>1, <1>2, <2>1, AskedNonce
  <2>3. (Highest - Lowest) \div m_job.height = 0
    BY <1>5, <2>2 DEF NoncesPerRow
  <2>4. Lowest <= Highest /\ Highest - Lowest < m_job.height
    BY <1>3, <2>2, <2>3
  <2>5. CustomY
    BY <2>4, <1>1, HeatmapAssumption DEF Lowest, Highest, Typed, Settings, UInt32
  <2>6. CrashIsNarrow'
    BY <1>1, <2>4, <2>5 DEF CrashIsNarrow, CustomY, Lowest, Highest
  <2> QED
    BY <1>1, <1>4, <1>5, <2>6
    DEF IInv, HeightGiven, NothingDrawn, ShowsDenoted, OnlyLowestLost
<1>6. CASE /\ NoncesPerRow # 0 \/ Asked = {}
           /\ points' = [i \in Asked |-> [column |-> i \div m_x,
                                          row |-> (Highest - NonceAt(i)) \div NoncesPerRow]]
           /\ phase' = "draw"
  <2>1. ASSUME NEW i \in Asked,
               ~ ((Highest - NonceAt(i)) \div NoncesPerRow < m_job.height)
        PROVE  NonceAt(i) < Lowest + m_job.height
    <3> DEFINE span == Highest - Lowest
    <3> DEFINE d == Highest - NonceAt(i)
    <3>1. /\ NonceAt(i) \in Nat /\ Lowest \in Nat /\ Highest \in Nat
          /\ Lowest <= NonceAt(i) /\ NonceAt(i) <= Highest
          /\ (Highest - Lowest) % Modulus = Highest - Lowest
      BY <1>1, <1>2, AskedNonce
    <3>2. NoncesPerRow = span \div m_job.height /\ NoncesPerRow # 0
      BY <1>6, <3>1 DEF NoncesPerRow
    <3>3. d \in Nat /\ span \in Nat /\ d <= span
      BY <3>1
    <3>4. span \div m_job.height # 0 /\ ~ (d \div (span \div m_job.height) < m_job.height)
      BY <2>1, <3>2
    <3>5. span - d < m_job.height
      <4> HIDE DEF span, d
      <4> QED  BY <1>3, <3>3, <3>4, BelowTheRows
    <3> QED  BY <1>3, <3>1, <3>5
  <2>2. OnlyLowestLost'
    BY <1>1, <1>6, <2>1 DEF OnlyLowestLost, NonceAt, Lowest, CustomY
  <2>3. HeightGiven' /\ NothingDrawn' /\ CrashIsNarrow'
    BY <1>6 DEF HeightGiven, NothingDrawn, CrashIsNarrow
  <2>4. ShowsDenoted'
    BY <1>1 DEF IInv, ShowsDenoted, Denoted
  <2> QED  BY <1>4, <2>2, <2>3, <2>4 DEF IInv
<1> QED  BY <1>5, <1>6 DEF nonces_heatmap

LEMMA IInvStep == IInv /\ [Next]_vars => IInv'
<1> SUFFICES ASSUME IInv, [Next]_vars PROVE IInv'
  OBVIOUS
<1>1. CASE render  BY <1>1, RenderStep
<1>2. CASE nonces_heatmap  BY <1>2, DrawStep
<1>3. CASE writepng
  <2>1. Typed' /\ OnlyLowestLost' /\ ListFits'
    BY <1>3 DEF IInv, writepng, Typed, OnlyLowestLost, NonceAt, Lowest, CustomY, ListFits
  <2>2. ShowsDenoted'
    BY <1>3 DEF IInv, writepng, ShowsDenoted, Denoted
  <2>3. ColumnsFit' /\ ImageFits'
    BY <1>3 DEF IInv, writepng, ColumnsFit, ImageFits
  <2> QED  BY <1>3, <2>1, <2>2, <2>3 DEF IInv, writepng, HeightGiven, NothingDrawn, CrashIsNarrow
<1>4. CASE UNCHANGED vars
  BY <1>4
  DEF vars, IInv, Typed, HeightGiven, NothingDrawn, ShowsDenoted, Denoted, OnlyLowestLost,
      CrashIsNarrow, NonceAt, Lowest, Highest, CustomY, ListFits, ColumnsFit, ImageFits
<1> QED  BY <1>1, <1>2, <1>3, <1>4 DEF Next

\* IInv holds in every reachable state.
THEOREM Invariant == Spec => []IInv
  BY InitIInv, IInvStep, PTL DEF Spec

(***************************************************************************)
(* The image shows the blocks that "start" and "end" denote.               *)
(***************************************************************************)
THEOREM RangeIsDenoted == Spec => []ShowsDenoted
<1>1. IInv => ShowsDenoted  BY DEF IInv
<1> QED  BY <1>1, Invariant, PTL

(***************************************************************************)
(* Of the nonces between the limits only the lowest are left out: fewer    *)
(* values than the image has rows.                                         *)
(***************************************************************************)
THEOREM RowsInside == Spec => []OnlyLowestLost
<1>1. IInv => OnlyLowestLost  BY DEF IInv
<1> QED  BY <1>1, Invariant, PTL

(***************************************************************************)
(* The row of a nonce divides by zero only where the limits are closer     *)
(* than the image is high.                                                 *)
(***************************************************************************)
THEOREM DividesByZeroOnlyIfNarrow == Spec => []CrashIsNarrow
<1>1. IInv => CrashIsNarrow  BY DEF IInv
<1> QED  BY <1>1, Invariant, PTL

(***************************************************************************)
(* The width, computed in float, and the columns, computed in integers,    *)
(* agree: for as many blocks as a float counts, none is drawn to the right *)
(* of the image and no column is empty, whatever the precision.            *)
(***************************************************************************)
THEOREM ColumnsInside == Spec => []ColumnsFit
<1>1. IInv => ColumnsFit  BY DEF IInv
<1> QED  BY <1>1, Invariant, PTL

(***************************************************************************)
(* An image that passes the check of its size has some pixels, and no more *)
(* of them than a uint32_t counts in bytes, unless there are more blocks   *)
(* than an eighth of uint32_t.                                             *)
(***************************************************************************)
THEOREM ImageInside == Spec => []ImageFits
<1>1. IInv => ImageFits  BY DEF IInv
<1> QED  BY <1>1, Invariant, PTL

=============================================================================
