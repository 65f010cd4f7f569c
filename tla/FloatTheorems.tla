----------------------------- MODULE FloatTheorems -----------------------------
(***************************************************************************)
(* Lemmas about the f64 arithmetic of the client's slippage limits, for    *)
(* every width of the mantissa and every scale of the slippage: powers of  *)
(* two, the spacing of the f64s, one rounding, and the two roundings of    *)
(* amount_with_slippage.                                                   *)
(***************************************************************************)
EXTENDS ClientQuote, OperatorTheorems, WellFoundedInduction

(* ---------------------------- powers of two ---------------------------- *)

\* A minimal element for a relation that orders the numbers is a least one.
LEMMA LeastByRelation ==
  ASSUME NEW R, IsWellFoundedOn(R, Nat), \A i, j \in Nat : i < j => <<i, j>> \in R,
         NEW T, T \subseteq Nat, T # {}
  PROVE  \E least \in T : \A n \in T : least <= n
<1> DEFINE Ordered == IsWellFoundedOn(R, Nat)
<1>0. Ordered /\ T \subseteq Nat /\ T # {}
  OBVIOUS
<1>1. PICK least \in T : \A n \in T : ~(<<n, least>> \in R)
  BY ONLY <1>0, WFMin, ZenonT(30)
<1>2. \A n \in T : ~(n < least)
  BY <1>1
<1>3. \A n \in T : least <= n
  <2>1. ASSUME NEW n \in T
        PROVE  least <= n
    <3>1. n \in Nat /\ least \in Nat /\ ~(n < least)
      BY <1>2
    <3> QED
      BY ONLY <3>1
  <2> QED
    BY <2>1
<1> QED
  BY <1>3

\* Every non-empty set of numbers has a least one.
LEMMA LeastNumber ==
  ASSUME NEW T, T \subseteq Nat, T # {}
  PROVE  \E least \in T : \A n \in T : least <= n
<1>1. \A i, j \in Nat : i < j => <<i, j>> \in OpToRel(<, Nat)
  BY Zenon DEF OpToRel
<1> QED
  BY Zenon, <1>1, NatLessThanWellFounded, LeastByRelation
Even(n) == \E h \in Nat : n = 2 * h

Divides(d, n) == \E k \in Nat : n = d * k

\* Powers of two by their factors.
LEMMA PowerFactors ==
  ASSUME NEW n \in Nat \ {0}
  PROVE  IsPowerOfTwo(n) <=> \A d, k \in Nat : n = d * k => d = 1 \/ Even(d)
<1>1. ASSUME IsPowerOfTwo(n), NEW d \in Nat, NEW k \in Nat, n = d * k
      PROVE  d = 1 \/ Even(d)
  <2>1. d # 0 /\ k # 0
    BY <1>1
  <2>2. d * k >= d * 1
    BY <1>1, <2>1
  <2>3. d \in 1..n
    BY <1>1, <2>1, <2>2
  <2>4. n % d = 0
    <3> DEFINE q == n \div d
               r == n % d
    <3>1. q \in Nat /\ r \in Nat /\ n = q * d + r /\ r < d
      BY <2>1
    <3> HIDE DEF q, r
    <3>2. (k - q) * d = r
      BY <1>1, <3>1
    <3>3. ~(k - q >= 1)
      <4>1. ASSUME k - q >= 1
            PROVE  (k - q) * d >= 1 * d
        BY <3>1, <4>1
      <4> QED
        BY <3>1, <3>2, <4>1
    <3>4. ~(k - q <= -1)
      <4>1. ASSUME k - q <= -1
            PROVE  (k - q) * d <= (-1) * d
        BY <3>1, <4>1
      <4> QED
        BY <2>1, <3>1, <3>2, <4>1
    <3>5. k - q = 0
      BY <3>1, <3>3, <3>4
    <3> QED
      BY <3>1, <3>2, <3>5 DEF r
  <2>5. CASE d = 1
    BY <2>5
  <2>6. CASE d # 1
    <3>1. d % 2 = 0
      BY <1>1, <2>3, <2>4, <2>6 DEF IsPowerOfTwo
    <3>2. d = 2 * (d \div 2) /\ d \div 2 \in Nat
      BY <3>1
    <3> QED
      BY <3>2 DEF Even
  <2> QED
    BY <2>5, <2>6
<1>2. ASSUME \A d, k \in Nat : n = d * k => d = 1 \/ Even(d)
      PROVE  IsPowerOfTwo(n)
  <2>1. ASSUME NEW d \in 2..n, n % d = 0
        PROVE  d % 2 = 0
    <3>1. n = d * (n \div d) /\ n \div d \in Nat
      BY <2>1
    <3>2. Even(d)
      BY <1>2, <2>1, <3>1
    <3> QED
      BY <3>2 DEF Even
  <2> QED
    BY <2>1 DEF IsPowerOfTwo
<1> QED
  BY <1>1, <1>2

\* Twice a power of two is one.
LEMMA DoublePower ==
  ASSUME NEW h \in Nat \ {0}, IsPowerOfTwo(h)
  PROVE  IsPowerOfTwo(2 * h)
<1>1. ASSUME NEW d \in Nat, NEW k \in Nat, 2 * h = d * k
      PROVE  d = 1 \/ Even(d)
  <2>1. CASE d % 2 = 0
    <3>1. d = 2 * (d \div 2) /\ d \div 2 \in Nat
      BY <2>1
    <3> QED
      BY <3>1 DEF Even
  <2>2. CASE d % 2 = 1
    <3> DEFINE a == d \div 2
    <3>1. a \in Nat /\ d = 2 * a + 1
      BY <2>2
    <3> HIDE DEF a
    <3> DEFINE ak == a * k
    <3>2. ak \in Nat /\ d * k = 2 * ak + k
      BY <3>1
    <3>3. h - ak \in Int
      BY <3>2
    <3> HIDE DEF ak
    <3>4. k = 2 * (h - ak)
      BY <1>1, <3>2
    <3> DEFINE half == h - ak
    <3>5. half \in Nat /\ k = 2 * half
      BY <3>2, <3>3, <3>4
    <3> HIDE DEF half
    <3>6. 2 * h = 2 * (d * half)
      BY <1>1, <3>5
    <3>7. d * half \in Nat
      BY <3>5
    <3>8. h = d * half
      BY <3>6, <3>7
    <3> QED
      BY <3>5, <3>8, PowerFactors
  <2> QED
    BY <2>1, <2>2
<1> DEFINE n == 2 * h
<1>2. n \in Nat \ {0} /\ \A d, k \in Nat : n = d * k => d = 1 \/ Even(d)
  BY <1>1
<1> HIDE DEF n
<1>3. IsPowerOfTwo(n)
  BY <1>2, PowerFactors
<1> QED
  BY <1>3 DEF n

\* A power of two is one, or twice a power of two.
LEMMA HalfPower ==
  ASSUME NEW n \in Nat \ {0}, IsPowerOfTwo(n), n # 1
  PROVE  \E h \in Nat \ {0} : n = 2 * h /\ IsPowerOfTwo(h) /\ h < n
<1>1. Even(n)
  <2>1. n = n * 1
    OBVIOUS
  <2> QED
    BY <2>1, PowerFactors
<1>2. PICK h \in Nat : n = 2 * h
  BY <1>1 DEF Even
<1>3. h \in Nat \ {0} /\ h < n
  BY <1>2
<1>4. ASSUME NEW d \in Nat, NEW k \in Nat, h = d * k
      PROVE  d = 1 \/ Even(d)
  <2> DEFINE twice == 2 * k
  <2>1. twice \in Nat /\ n = d * twice
    BY <1>2, <1>4
  <2> HIDE DEF twice
  <2> QED
    BY <2>1, PowerFactors
<1>5. IsPowerOfTwo(h)
  BY <1>3, <1>4, PowerFactors
<1> QED
  BY <1>2, <1>3, <1>5

\* One is a power of two.
LEMMA OneIsPower == IsPowerOfTwo(1)
  BY DEF IsPowerOfTwo

\* Of two powers of two the smaller divides the larger.
LEMMA PowerDivides ==
  ASSUME NEW p \in Nat \ {0}, NEW q \in Nat \ {0}, IsPowerOfTwo(p), IsPowerOfTwo(q), p <= q
  PROVE  Divides(p, q)
<1> DEFINE Fails(x, y) == IsPowerOfTwo(y) /\ x <= y /\ ~Divides(x, y)
           T == {x \in Nat : x # 0 /\ IsPowerOfTwo(x) /\ \E y \in Nat : Fails(x, y)}
<1>1. T = {}
  <2>1. SUFFICES ASSUME T # {}
                 PROVE  FALSE
    BY <2>1
  <2>2. PICK x \in T : \A n \in T : x <= n
    <3>1. T \subseteq Nat
      OBVIOUS
    <3> HIDE DEF T
    <3> QED
      BY <2>1, <3>1, LeastNumber
  <2>3. x \in Nat \ {0} /\ IsPowerOfTwo(x)
    BY <2>2
  <2>4. PICK y \in Nat : Fails(x, y)
    BY <2>2
  <2>5. x # 1
    <3>1. y = 1 * y
      OBVIOUS
    <3> QED
      BY <2>4, <3>1 DEF Divides
  <2>6. PICK h \in Nat \ {0} : x = 2 * h /\ IsPowerOfTwo(h) /\ h < x
    BY <2>3, <2>5, HalfPower
  <2>7. y \in Nat \ {0} /\ y # 1
    BY <2>3, <2>4, <2>5
  <2>8. PICK g \in Nat \ {0} : y = 2 * g /\ IsPowerOfTwo(g) /\ g < y
    BY <2>4, <2>7, HalfPower
  <2>9. h <= g
    BY <2>4, <2>6, <2>8
  <2>10. ~(h \in T)
    <3>1. x <= h => FALSE
      BY <2>6, <2>3
    <3> HIDE DEF T
    <3> QED
      BY <2>2, <3>1
  <2>11. Divides(h, g)
    BY <2>6, <2>8, <2>9, <2>10
  <2>12. PICK k \in Nat : g = h * k
    BY <2>11 DEF Divides
  <2>13. y = x * k
    BY <2>6, <2>8, <2>12
  <2> QED
    BY <2>4, <2>13 DEF Divides
<1> QED
  BY <1>1

\* There is a power of two beyond every number.
LEMMA PowersUnbounded ==
  ASSUME NEW n \in Nat
  PROVE  \E p \in Nat \ {0} : IsPowerOfTwo(p) /\ p > n
<1> DEFINE Beyond(b) == \E p \in Nat \ {0} : IsPowerOfTwo(p) /\ p > b
           T == {b \in Nat : ~Beyond(b)}
<1>1. T = {}
  <2>1. SUFFICES ASSUME T # {}
                 PROVE  FALSE
    BY <2>1
  <2>2. PICK b \in T : \A c \in T : b <= c
    <3>1. T \subseteq Nat
      OBVIOUS
    <3> HIDE DEF T
    <3> QED
      BY <2>1, <3>1, LeastNumber
  <2>3. b \in Nat /\ ~Beyond(b)
    BY <2>2
  <2>4. b # 0
    BY <2>3, OneIsPower
  <2> DEFINE c == b - 1
  <2>5. c \in Nat /\ ~(b <= c) /\ b = c + 1
    BY <2>3, <2>4
  <2> HIDE DEF c
  <2>6. Beyond(c)
    BY <2>2, <2>5
  <2>7. PICK p \in Nat \ {0} : IsPowerOfTwo(p) /\ p > c
    BY <2>6
  <2> DEFINE twice == 2 * p
  <2>8. twice \in Nat \ {0} /\ twice > b
    BY <2>5, <2>7
  <2>9. IsPowerOfTwo(twice)
    BY <2>7, DoublePower
  <2> HIDE DEF twice
  <2> QED
    BY <2>3, <2>8, <2>9
<1> QED
  BY <1>1

\* Every amount has f64s around it, no further apart than its magnitude allows.
LEMMA UlpFacts ==
  ASSUME NEW n \in Nat
  PROVE  /\ Ulp(n) \in Nat \ {0}
         /\ n < F64_MANTISSA * Ulp(n)
         /\ Ulp(n) = 1 \/ 2 * n >= F64_MANTISSA * Ulp(n)
         /\ IsPowerOfTwo(Ulp(n))
<1> DEFINE M == F64_MANTISSA
           T == {u \in Nat : u # 0 /\ IsPowerOfTwo(u) /\ n < M * u}
           Fits(u) == /\ n < M * u
                      /\ u = 1 \/ 2 * n >= M * u
                      /\ IsPowerOfTwo(u)
<1>1. M \in Nat \ {0}
  BY ClientQuoteAssumption
<1>2. T # {}
  <2>1. PICK p \in Nat \ {0} : IsPowerOfTwo(p) /\ p > n
    BY PowersUnbounded
  <2>2. M * p >= 1 * p
    <3> HIDE DEF M
    <3> QED
      BY <1>1
  <2>3. n < M * p
    <3> DEFINE product == M * p
    <3>1. product \in Nat /\ product >= p
      BY <1>1, <2>2
    <3> HIDE DEF product
    <3>2. n < product
      BY <2>1, <3>1
    <3> QED
      BY <3>2 DEF product
  <2> QED
    BY <2>1, <2>3
<1>3. PICK u \in T : \A v \in T : u <= v
  <2>1. T \subseteq Nat
    OBVIOUS
  <2> HIDE DEF T
  <2> QED
    BY <1>2, <2>1, LeastNumber
<1>4. u \in Nat \ {0} /\ IsPowerOfTwo(u) /\ n < M * u
  BY <1>3
<1>5. u = 1 \/ 2 * n >= M * u
  <2>1. SUFFICES ASSUME u # 1
                 PROVE  2 * n >= M * u
    BY <2>1
  <2>2. PICK h \in Nat \ {0} : u = 2 * h /\ IsPowerOfTwo(h) /\ h < u
    BY <1>4, <2>1, HalfPower
  <2>3. ~(h \in T)
    <3>1. u <= h => FALSE
      BY <1>4, <2>2
    <3> HIDE DEF T
    <3> QED
      BY <1>3, <3>1
  <2>4. ~(n < M * h)
    BY <2>2, <2>3
  <2> DEFINE Mh == M * h
  <2>5. Mh \in Nat /\ Mh <= n /\ M * u = 2 * Mh
    <3> HIDE DEF M
    <3> QED
      BY <1>1, <2>2, <2>4
  <2> HIDE DEF Mh, M
  <2> QED
    BY <2>5
<1>6. u \in 1..(2 * n + 1)
  <2>1. CASE u = 1
    BY <2>1
  <2>2. CASE u # 1
    <3>1. M * u >= 1 * u
      <4> HIDE DEF M
      <4> QED
        BY <1>1, <1>4
    <3> DEFINE Mu == M * u
    <3>2. Mu \in Nat /\ Mu >= u /\ Mu <= 2 * n
      BY <1>1, <1>4, <1>5, <2>2, <3>1
    <3> HIDE DEF Mu, M
    <3> QED
      BY <1>4, <3>2
  <2> QED
    BY <2>1, <2>2
<1>7. Fits(u)
  BY <1>4, <1>5
<1>8. Ulp(n) = CHOOSE v \in 1..(2 * n + 1) : Fits(v)
  BY DEF Ulp
<1> HIDE DEF Fits, T
<1>9. Ulp(n) \in 1..(2 * n + 1) /\ Fits(Ulp(n))
  BY <1>6, <1>7, <1>8
<1> QED
  BY <1>9 DEF Fits

(* ------------------------------- rounding ------------------------------ *)

\* Rounding to an f64 moves a number by half the distance between f64s at most.
LEMMA ToF64Near ==
  ASSUME NEW n \in Nat
  PROVE  /\ ToF64(n) \in Nat
         /\ 2 * (ToF64(n) - n) <= Ulp(n)
         /\ 2 * (n - ToF64(n)) <= Ulp(n)
<1> DEFINE u    == Ulp(n)
           low  == n \div u
           rest == n % u
           Up   == 2 * rest > u \/ (2 * rest = u /\ low % 2 = 1)
<1>1. u \in Nat \ {0}
  BY UlpFacts
<1>2. ToF64(n) = IF Up THEN (low + 1) * u ELSE low * u
  BY DEF ToF64
<1> HIDE DEF u
<1>3. low \in Nat /\ rest \in Nat /\ n = low * u + rest /\ rest < u
  BY <1>1
<1>4. Up => 2 * rest >= u
  BY <1>1, <1>3
<1>5. ~Up => 2 * rest <= u
  BY <1>1, <1>3
<1> HIDE DEF Up, low, rest
<1> DEFINE below == low * u
<1>6. below \in Nat /\ n = below + rest /\ (low + 1) * u = below + u
  BY <1>1, <1>3
<1>7. ToF64(n) = IF Up THEN below + u ELSE below
  BY <1>2, <1>6
<1> HIDE DEF below
<1>8. /\ ToF64(n) \in Nat
      /\ 2 * (ToF64(n) - n) <= u
      /\ 2 * (n - ToF64(n)) <= u
  <2>1. CASE Up
    BY <1>1, <1>3, <1>4, <1>6, <1>7, <2>1
  <2>2. CASE ~Up
    BY <1>1, <1>3, <1>5, <1>6, <1>7, <2>2
  <2> QED
    BY <2>1, <2>2
<1> QED
  BY <1>8 DEF u

\* Rounding never crosses an f64 of the same spacing.
LEMMA ToF64Keeps ==
  ASSUME NEW n \in Nat, NEW y \in Nat, Divides(Ulp(n), y)
  PROVE  /\ y <= n => y <= ToF64(n)
         /\ y >= n => y >= ToF64(n)
<1> DEFINE u == Ulp(n)
           low  == n \div u
           rest == n % u
           Up   == 2 * rest > u \/ (2 * rest = u /\ low % 2 = 1)
<1>1. u \in Nat \ {0}
  BY UlpFacts
<1>2. ToF64(n) = IF Up THEN (low + 1) * u ELSE low * u
  BY DEF ToF64
<1>3. PICK k \in Nat : y = u * k
  BY DEF Divides
<1> HIDE DEF u
<1>4. low \in Nat /\ rest \in Nat /\ n = low * u + rest /\ rest < u
  BY <1>1
<1>5. Up => rest > 0
  BY <1>1, <1>4
<1> HIDE DEF Up, low, rest
<1>6. \A i, j \in Int : i <= j => u * i <= u * j
  BY <1>1
<1> DEFINE below == u * low
<1>7. below \in Nat /\ u * (low + 1) = below + u /\ n = below + rest
  BY <1>1, <1>4
<1>8. ToF64(n) = IF Up THEN below + u ELSE below
  BY <1>1, <1>2, <1>4, <1>7
<1>9. k <= low => y <= below
  BY <1>3, <1>4, <1>6
<1>10. k > low => y >= below + u
  <2>1. k > low => low + 1 <= k
    BY <1>3, <1>4
  <2> DEFINE next == low + 1
  <2>2. next \in Int /\ u * next = below + u
    BY <1>4, <1>7
  <2>3. k > low => next <= k
    BY <2>1
  <2> HIDE DEF next
  <2>4. k > low => u * next <= u * k
    BY <1>3, <1>6, <2>2, <2>3
  <2> HIDE DEF below
  <2> QED
    BY <1>3, <2>2, <2>4
<1> HIDE DEF below
<1>11. CASE k <= low
  <2>1. y <= below
    BY <1>9, <1>11
  <2>2. y >= n => y >= ToF64(n)
    BY <1>1, <1>4, <1>5, <1>7, <1>8, <2>1
  <2>3. y <= ToF64(n)
    BY <1>1, <1>7, <1>8, <2>1
  <2> QED
    BY <2>2, <2>3
<1>12. CASE k > low
  <2>1. y >= below + u
    BY <1>10, <1>12
  <2>2. y > n
    BY <1>1, <1>4, <1>7, <2>1
  <2>3. y >= ToF64(n)
    BY <1>1, <1>7, <1>8, <2>1
  <2> QED
    BY <2>2, <2>3
<1> QED
  BY <1>3, <1>4, <1>11, <1>12

\* A number of the mantissa's width is an f64.
LEMMA ToF64Exact ==
  ASSUME NEW n \in Nat, n <= F64_MANTISSA
  PROVE  ToF64(n) = n
<1> DEFINE u == Ulp(n)
           M == F64_MANTISSA
<1>1. /\ u \in Nat \ {0} /\ IsPowerOfTwo(u)
      /\ u = 1 \/ 2 * n >= M * u
  BY UlpFacts
<1>2. M \in Nat \ {0} /\ IsPowerOfTwo(M) /\ 2 <= M
  BY ClientQuoteAssumption
<1>3. Divides(u, n)
  <2>1. CASE u = 1
    <3>1. n = 1 * n
      OBVIOUS
    <3> QED
      BY <2>1, <3>1 DEF Divides
  <2>2. CASE u # 1
    <3> HIDE DEF u, M
    <3>1. u >= 2
      BY <1>1, <2>2
    <3>2. M * u >= M * 2
      BY <1>1, <1>2, <3>1
    <3>3. n = M
      <4> DEFINE product == M * u
      <4>1. product \in Int
        BY <1>1, <1>2
      <4>2. 2 * n >= product /\ product >= 2 * M
        BY <1>1, <1>2, <2>2, <3>2
      <4> HIDE DEF product
      <4>3. n >= M
        BY <1>2, <4>1, <4>2
      <4> QED
        BY <1>2, <4>3 DEF M
    <3>4. ~(u > 2)
      <4>1. ASSUME u > 2
            PROVE  M * u >= M * 3
        BY <1>1, <1>2, <4>1
      <4> DEFINE product == M * u
      <4>2. product \in Int /\ 2 * n >= product
        BY <1>1, <1>2, <2>2
      <4>3. u > 2 => product >= 3 * M
        BY <1>2, <4>1
      <4> HIDE DEF product
      <4> QED
        BY <1>2, <3>3, <4>2, <4>3
    <3>5. u <= M
      BY <1>1, <1>2, <3>4
    <3> QED
      BY <1>1, <1>2, <3>3, <3>5, PowerDivides
  <2> QED
    BY <2>1, <2>2
<1>4. ToF64(n) \in Nat
  BY ToF64Near
<1>5. n <= ToF64(n) /\ n >= ToF64(n)
  BY <1>3, ToF64Keeps
<1> QED
  BY <1>4, <1>5

\* Rounding to an f64 is exact to one part in F64_MANTISSA.
LEMMA ToF64Error ==
  ASSUME NEW n \in Nat
  PROVE  /\ F64_MANTISSA * ToF64(n) <= (F64_MANTISSA + 1) * n
         /\ F64_MANTISSA * ToF64(n) >= (F64_MANTISSA - 1) * n
<1> DEFINE u == Ulp(n)
           f == ToF64(n)
           M == F64_MANTISSA
<1>1. u \in Nat \ {0} /\ (u = 1 \/ 2 * n >= M * u)
  BY UlpFacts
<1>2. M \in Nat \ {0}
  BY ClientQuoteAssumption
<1>3. f \in Nat /\ 2 * (f - n) <= u /\ 2 * (n - f) <= u
  BY ToF64Near
<1> HIDE DEF u, f, M
<1>4. /\ M * (f - n) <= n
      /\ M * (n - f) <= n
  <2>1. CASE u = 1
    <3>1. f = n
      BY <1>3, <2>1
    <3> QED
      BY <1>2, <3>1
  <2>2. CASE u # 1
    <3>1. \A d \in Int : 2 * d <= u => M * d <= n
      <4> TAKE d \in Int
      <4> HAVE 2 * d <= u
      <4>1. M * (2 * d) <= M * u
        BY <1>1, <1>2
      <4> DEFINE Md == M * d
                 Mu == M * u
      <4>2. Md \in Int /\ Mu \in Int /\ 2 * Md <= Mu /\ Mu <= 2 * n
        BY <1>1, <1>2, <2>2, <4>1
      <4> HIDE DEF Md, Mu
      <4>3. Md <= n
        BY <4>2
      <4> QED
        BY <4>3 DEF Md
    <3> QED
      BY <1>3, <3>1
  <2> QED
    BY <2>1, <2>2
<1>5. M * f <= (M + 1) * n /\ M * f >= (M - 1) * n
  <2> DEFINE Mf == M * f
             Mn == M * n
  <2>1. Mf \in Int /\ Mn \in Int
    BY <1>2, <1>3
  <2>2. M * (f - n) = Mf - Mn /\ M * (n - f) = Mn - Mf
    BY <1>2, <1>3
  <2>3. (M + 1) * n = Mn + n /\ (M - 1) * n = Mn - n
    BY <1>2
  <2>4. Mf - Mn <= n /\ Mn - Mf <= n
    BY <1>4, <2>2
  <2> HIDE DEF Mf, Mn
  <2>5. Mf <= Mn + n /\ Mf >= Mn - n
    BY <2>1, <2>4
  <2> QED
    BY <2>3, <2>5 DEF Mf
<1> QED
  BY <1>5 DEF f, M

(* ----------------------------- the limits ------------------------------ *)

\* Two roundings, each exact to one part in M, are exact to three together.
LEMMA TwiceRounded ==
  ASSUME NEW M \in Nat \ {0}, NEW a \in Nat, NEW factor \in Nat,
         NEW f \in Nat, NEW p \in Nat,
         M * f <= (M + 1) * a, M * f >= (M - 1) * a,
         M * p <= (M + 1) * (f * factor), M * p >= (M - 1) * (f * factor)
  PROVE  /\ M * p <= (M + 3) * (a * factor)
         /\ M * p >= (M - 3) * (a * factor)
<1> DEFINE x  == a * factor
           g  == f * factor
           Mf == M * f
           Mp == M * p
<1>1. x \in Nat /\ g \in Nat /\ Mf \in Nat /\ Mp \in Nat
  OBVIOUS
<1>2. M * g = Mf * factor /\ (M + 1) * x = ((M + 1) * a) * factor
      /\ (M - 1) * x = ((M - 1) * a) * factor
  OBVIOUS
<1>3. Mf <= (M + 1) * a /\ Mf >= (M - 1) * a
  OBVIOUS
<1>4. Mp <= (M + 1) * g /\ Mp >= (M - 1) * g
  OBVIOUS
<1> DEFINE high == (M + 1) * a
           low  == (M - 1) * a
<1>5. high \in Int /\ low \in Int
  OBVIOUS
<1> HIDE DEF x, g, Mf, Mp, high, low
<1>6. Mf * factor <= high * factor /\ low * factor <= Mf * factor
  BY <1>1, <1>3, <1>5 DEF high, low
<1> DEFINE Mg == M * g
<1>7. Mg \in Nat /\ Mg <= (M + 1) * x /\ Mg >= (M - 1) * x
  BY <1>1, <1>2, <1>6 DEF high, low
<1>8. M * ((M + 1) * g) = (M + 1) * Mg /\ M * ((M - 1) * g) = (M - 1) * Mg
  BY <1>1
<1> DEFINE Mx  == M * x
           MMx == M * Mx
<1>9. Mx \in Nat /\ MMx \in Nat /\ Mx >= x
  BY <1>1
<1>10. /\ (M + 1) * ((M + 1) * x) = MMx + 2 * Mx + x
       /\ (M - 1) * ((M - 1) * x) = MMx - 2 * Mx + x
       /\ M * ((M + 3) * x) = MMx + 3 * Mx
       /\ M * ((M - 3) * x) = MMx - 3 * Mx
  BY <1>1
<1> HIDE DEF Mg, Mx, MMx
<1> DEFINE up   == (M + 1) * x
           down == (M - 1) * x
           more == (M + 1) * g
           less == (M - 1) * g
<1>11. up \in Int /\ down \in Int /\ more \in Int /\ less \in Int
  BY <1>1
<1>12. /\ Mg <= up /\ down <= Mg /\ Mp <= more /\ less <= Mp
       /\ M * more = (M + 1) * Mg /\ M * less = (M - 1) * Mg
       /\ (M + 1) * up = MMx + 2 * Mx + x
       /\ (M - 1) * down = MMx - 2 * Mx + x
  BY <1>4, <1>7, <1>8, <1>10
<1> HIDE DEF up, down, more, less
<1>13. M * Mp <= M * more /\ M * less <= M * Mp
  BY <1>1, <1>11, <1>12
<1>14. (M + 1) * Mg <= (M + 1) * up /\ (M - 1) * down <= (M - 1) * Mg
  BY <1>7, <1>11, <1>12
<1> DEFINE MMp  == M * Mp
           most == (M + 1) * Mg
           some == (M - 1) * Mg
<1>15. MMp \in Int /\ most \in Int /\ some \in Int
  BY <1>1, <1>7
<1>16. MMp <= most /\ most <= MMx + 2 * Mx + x /\ some <= MMp /\ MMx - 2 * Mx + x <= some
  BY <1>12, <1>13, <1>14
<1> HIDE DEF MMp, most, some
<1>17. MMp <= MMx + 3 * Mx /\ MMx - 3 * Mx <= MMp
  BY <1>1, <1>9, <1>15, <1>16
<1> DEFINE ceiling == (M + 3) * x
           floor   == (M - 3) * x
<1>18. ceiling \in Int /\ floor \in Int
  BY <1>1
<1>19. M * Mp <= M * ceiling /\ M * floor <= M * Mp
  BY <1>10, <1>17 DEF MMp
<1> HIDE DEF ceiling, floor
<1>20. Mp <= ceiling /\ floor <= Mp
  BY <1>1, <1>18, <1>19
<1> QED
  BY <1>20 DEF Mp, ceiling, floor, x

\* What the client multiplies is exact to three parts in F64_MANTISSA.
LEMMA ProductNear ==
  ASSUME NEW a \in Nat, NEW factor \in Nat
  PROVE  /\ ToF64(ToF64(a) * factor) \in Nat
         /\ ToF64(ToF64(a) * factor) * F64_MANTISSA <= (a * factor) * (F64_MANTISSA + 3)
         /\ ToF64(ToF64(a) * factor) * F64_MANTISSA >= (a * factor) * (F64_MANTISSA - 3)
<1> DEFINE f == ToF64(a)
           g == f * factor
           p == ToF64(g)
           M == F64_MANTISSA
<1>1. M \in Nat \ {0}
  BY ClientQuoteAssumption
<1>2. f \in Nat
  BY ToF64Near
<1>3. M * f <= (M + 1) * a /\ M * f >= (M - 1) * a
  BY ToF64Error
<1>4. g \in Nat
  <2> HIDE DEF f
  <2> QED
    BY <1>2
<1> HIDE DEF f
<1>5. p \in Nat /\ M * p <= (M + 1) * g /\ M * p >= (M - 1) * g
  <2> HIDE DEF g
  <2> QED
    BY <1>4, ToF64Near, ToF64Error
<1> HIDE DEF p, M
<1>6. M * p <= (M + 3) * (a * factor) /\ M * p >= (M - 3) * (a * factor)
  BY <1>1, <1>2, <1>3, <1>5, TwiceRounded
<1>7. p * M <= (a * factor) * (M + 3) /\ p * M >= (a * factor) * (M - 3)
  <2> DEFINE x == a * factor
  <2>1. x \in Nat
    OBVIOUS
  <2> HIDE DEF x
  <2>2. (M + 3) * x = x * (M + 3) /\ (M - 3) * x = x * (M - 3) /\ M * p = p * M
    BY <1>1, <1>5, <2>1
  <2> QED
    BY <1>6, <2>2 DEF x
<1> QED
  BY <1>5, <1>7 DEF f, p, M, g

\* The two limits of an amount, for a slippage of at most the whole: near those of
\* exact arithmetic, whatever the amount.
LEMMA LimitsNear ==
  ASSUME NEW a \in 0..U64_MAX, NEW slippage \in 0..SLIPPAGE_SCALE
  PROVE  LET maximum == amount_with_slippage(a, slippage, TRUE)
             minimum == amount_with_slippage(a, slippage, FALSE)
             most    == a * (SLIPPAGE_SCALE + slippage)
             least   == a * (SLIPPAGE_SCALE - slippage)
         IN  /\ maximum \in Nat /\ minimum \in Nat
             /\ maximum <= U64_MAX /\ minimum <= U64_MAX
             /\ \/ maximum = U64_MAX
                \/ maximum * SLIPPAGE_SCALE * F64_MANTISSA >= most * (F64_MANTISSA - 3)
             /\ (maximum - 1) * SLIPPAGE_SCALE * F64_MANTISSA <= most * (F64_MANTISSA + 3)
             /\ minimum * SLIPPAGE_SCALE * F64_MANTISSA <= least * (F64_MANTISSA + 3)
             /\ (minimum + 1) * SLIPPAGE_SCALE * F64_MANTISSA >= least * (F64_MANTISSA - 3)
<1> DEFINE S       == SLIPPAGE_SCALE
           M       == F64_MANTISSA
           maximum == amount_with_slippage(a, slippage, TRUE)
           minimum == amount_with_slippage(a, slippage, FALSE)
           plus    == S + slippage
           minus   == S - slippage
           most    == a * plus
           least   == a * minus
           high    == ToF64(ToF64(a) * plus)
           low     == ToF64(ToF64(a) * minus)
           up      == CeilDiv(high, S)
           down    == low \div S
<1>1. M \in Nat \ {0} /\ S \in Nat \ {0} /\ U64_MAX \in Nat /\ a \in Nat
  BY ClientQuoteAssumption, U64Assumption
<1>2. plus \in Nat /\ minus \in Nat
  BY <1>1
<1>3. maximum = AtMost(up, U64_MAX) /\ minimum = AtMost(down, U64_MAX)
  BY DEF amount_with_slippage
<1> HIDE DEF maximum, minimum, S, M
<1>4. minus <= S
  BY <1>1 DEF S
<1> HIDE DEF plus, minus
<1>5. most \in Nat /\ least \in Nat /\ least <= U64_MAX * S
  <2>1. a * minus <= a * S
    BY <1>1, <1>2, <1>4
  <2>2. a * S <= U64_MAX * S
    BY <1>1
  <2> DEFINE aS == a * S
             US == U64_MAX * S
  <2>3. aS \in Int /\ US \in Int
    BY <1>1
  <2>4. least \in Nat /\ most \in Nat /\ least <= aS /\ aS <= US
    BY <1>1, <1>2, <2>1, <2>2
  <2> HIDE DEF aS, US, least, most
  <2>5. least <= US
    BY <2>3, <2>4
  <2> QED
    BY <2>4, <2>5 DEF US
<1>6. /\ high \in Nat /\ high * M <= most * (M + 3) /\ high * M >= most * (M - 3)
      /\ low \in Nat /\ low * M <= least * (M + 3) /\ low * M >= least * (M - 3)
  BY <1>1, <1>2, ProductNear DEF M
<1> HIDE DEF high, low, most, least
<1>7. up \in Nat /\ up * S >= high /\ up * S < high + S
  BY <1>1, <1>6, CeilFloor
<1>8. down \in Nat /\ down * S <= low /\ low < (down + 1) * S
  BY <1>1, <1>6, DivFloor
<1> HIDE DEF up, down
<1>9. /\ maximum \in Nat /\ minimum \in Nat
      /\ maximum <= up /\ minimum <= down
      /\ maximum <= U64_MAX /\ minimum <= U64_MAX
      /\ maximum = U64_MAX \/ maximum = up
      /\ minimum = U64_MAX \/ minimum = down
  BY <1>1, <1>3, <1>7, <1>8 DEF AtMost
<1> HIDE DEF maximum, minimum
<1>10. \A i, j \in Int : i <= j => i * M <= j * M
  BY <1>1
<1>11. \A i, j \in Int : i <= j => i * S <= j * S
  BY <1>1
<1> DEFINE highM     == high * M
           lowM      == low * M
           mostUp    == most * (M + 3)
           mostDown  == most * (M - 3)
           leastUp   == least * (M + 3)
           leastDown == least * (M - 3)
<1>12. /\ highM \in Int /\ lowM \in Int /\ mostUp \in Int /\ mostDown \in Int
       /\ leastUp \in Int /\ leastDown \in Int
       /\ highM <= mostUp /\ highM >= mostDown /\ lowM <= leastUp /\ lowM >= leastDown
  BY <1>1, <1>5, <1>6
<1>13. maximum = U64_MAX \/ maximum * S * M >= mostDown
  <2>1. SUFFICES ASSUME maximum = up
                 PROVE  maximum * S * M >= mostDown
    BY <1>9, <2>1
  <2> DEFINE upS  == up * S
             upSM == upS * M
  <2>2. upS \in Int /\ high <= upS /\ high \in Int
    BY <1>1, <1>6, <1>7
  <2>3. maximum * S * M = upSM
    BY <2>1
  <2> HIDE DEF upS
  <2>4. highM <= upSM /\ upSM \in Int
    BY <1>1, <1>10, <2>2
  <2> HIDE DEF upSM, highM, mostDown
  <2> QED
    BY <1>12, <2>3, <2>4
<1>14. (maximum - 1) * S * M <= mostUp
  <2> DEFINE less == maximum - 1
             last == up - 1
             lessS == less * S
             lastS == last * S
             lessSM == lessS * M
             lastSM == lastS * M
  <2>1. less \in Int /\ last \in Int /\ less <= last
    BY <1>7, <1>9
  <2>2. lastS \in Int /\ lastS <= high
    <3>1. last * S = up * S - S
      BY <1>1, <1>7
    <3> DEFINE upS == up * S
    <3>2. upS \in Int /\ upS < high + S /\ lastS = upS - S
      BY <1>1, <1>7, <3>1
    <3> HIDE DEF upS, lastS
    <3> QED
      BY <1>1, <1>6, <3>2
  <2> HIDE DEF less, last
  <2>3. lessS \in Int /\ lessS <= lastS
    BY <1>1, <1>11, <2>1
  <2> HIDE DEF lessS, lastS
  <2>4. lessSM \in Int /\ lastSM \in Int /\ lessSM <= lastSM
    BY <1>1, <1>10, <2>2, <2>3
  <2>5. high \in Int
    BY <1>6
  <2>6. lastSM <= highM
    BY <1>10, <2>2, <2>5
  <2> HIDE DEF lessSM, lastSM, highM, mostUp
  <2>7. lessSM <= mostUp
    BY <1>12, <2>4, <2>6
  <2> QED
    BY <2>7 DEF lessSM, lessS, less
<1>15. minimum * S * M <= leastUp
  <2> DEFINE minS == minimum * S
             downS == down * S
             minSM == minS * M
             downSM == downS * M
  <2>1. minS \in Int /\ downS \in Int /\ minS <= downS /\ downS <= low /\ low \in Int
    BY <1>1, <1>6, <1>8, <1>9, <1>11
  <2> HIDE DEF minS, downS
  <2>2. minSM \in Int /\ downSM \in Int /\ minSM <= downSM /\ downSM <= lowM
    BY <1>1, <1>10, <2>1
  <2> HIDE DEF minSM, downSM, lowM, leastUp
  <2>3. minSM <= leastUp
    BY <1>12, <2>2
  <2> QED
    BY <2>3 DEF minSM, minS
<1>16. (minimum + 1) * S * M >= leastDown
  <2> DEFINE next  == minimum + 1
             nextS == next * S
             nextSM == nextS * M
  <2>1. next \in Int
    BY <1>9
  <2>2. CASE minimum = down
    <3>1. nextS \in Int /\ low <= nextS /\ low \in Int
      BY <1>1, <1>6, <1>8, <2>2
    <3> HIDE DEF nextS
    <3>2. nextSM \in Int /\ lowM <= nextSM
      BY <1>1, <1>10, <3>1
    <3> HIDE DEF nextSM, lowM, leastDown
    <3>3. nextSM >= leastDown
      BY <1>12, <3>2
    <3> QED
      BY <3>3 DEF nextSM, nextS, next
  <2>3. CASE minimum = U64_MAX
    <3>1. nextS = U64_MAX * S + S
      BY <1>1, <2>3
    <3> DEFINE US == U64_MAX * S
    <3>2. US \in Int /\ nextS = US + S /\ least <= US /\ nextS \in Int
      BY <1>1, <1>5, <3>1
    <3> HIDE DEF US, nextS
    <3>3. least <= nextS
      BY <1>1, <1>5, <3>2
    <3>4. least * M <= nextS * M
      BY <1>5, <1>10, <3>2, <3>3
    <3>5. least * (M - 3) <= least * M
      BY <1>1, <1>5
    <3> DEFINE leastM == least * M
    <3>6. leastM \in Int /\ nextSM \in Int /\ leastM <= nextSM /\ leastDown <= leastM
      BY <1>1, <1>5, <3>2, <3>4, <3>5
    <3> HIDE DEF leastM, nextSM, leastDown
    <3>7. nextSM >= leastDown
      BY <1>12, <3>6
    <3> QED
      BY <3>7 DEF nextSM, nextS, next
  <2> QED
    BY <1>9, <2>2, <2>3
<1> QED
  BY <1>9, <1>13, <1>14, <1>15, <1>16
     DEF maximum, minimum, S, M, most, least, plus, minus

\* Whole multiples of the scale, of an amount the mantissa holds, are not crossed
\* by the rounding of a product that reaches them or stays below them.
LEMMA ScaleKept ==
  ASSUME NEW a \in Nat, a <= F64_MANTISSA, NEW x \in Nat
  PROVE  /\ a * SLIPPAGE_SCALE <= x => a * SLIPPAGE_SCALE <= ToF64(x)
         /\ a * SLIPPAGE_SCALE >= x => a * SLIPPAGE_SCALE >= ToF64(x)
<1> DEFINE M == F64_MANTISSA
           S == SLIPPAGE_SCALE
           u == Ulp(x)
           y == a * S
<1>1. M \in Nat \ {0} /\ IsPowerOfTwo(M) /\ S \in Nat \ {0} /\ IsPowerOfTwo(S) /\ 2 * S <= M
  BY ClientQuoteAssumption
<1>2. u \in Nat \ {0} /\ IsPowerOfTwo(u) /\ (u = 1 \/ 2 * x >= M * u)
  BY UlpFacts
<1>3. y \in Nat
  BY <1>1
<1>4. ASSUME Divides(u, y)
      PROVE  (y <= x => y <= ToF64(x)) /\ (y >= x => y >= ToF64(x))
  BY <1>3, <1>4, ToF64Keeps
<1>5. a <= M
  OBVIOUS
<1> HIDE DEF M, S, u, y
<1>6. CASE u <= S
  <2>1. Divides(u, S)
    BY <1>1, <1>2, <1>6, PowerDivides
  <2>2. PICK k \in Nat : S = u * k
    BY <2>1 DEF Divides
  <2>3. y = u * (a * k) /\ a * k \in Nat
    BY <1>2, <2>2 DEF y
  <2>4. Divides(u, y)
    BY <2>3 DEF Divides
  <2> QED
    BY <1>4, <2>4 DEF y, S
<1>7. CASE u > S
  <2>1. u # 1
    BY <1>1, <1>7
  <2>2. PICK h \in Nat \ {0} : u = 2 * h /\ IsPowerOfTwo(h) /\ h < u
    BY <1>2, <2>1, HalfPower
  <2>3. S <= h
    <3>1. S <= u
      BY <1>1, <1>2, <1>7
    <3>2. PICK k \in Nat : u = S * k
      BY <1>1, <1>2, <3>1, PowerDivides DEF Divides
    <3>3. k >= 2
      <4>1. k # 0 /\ k # 1
        BY <1>1, <1>7, <2>2, <3>2
      <4> QED
        BY <4>1
    <3>4. S * k >= S * 2
      BY <1>1, <3>3
    <3> DEFINE Sk == S * k
    <3>5. Sk \in Nat /\ Sk = 2 * h /\ Sk >= S * 2
      BY <1>1, <2>2, <3>2, <3>4
    <3> HIDE DEF Sk
    <3> QED
      BY <1>1, <2>2, <3>5
  <2> DEFINE z == M * h
  <2>4. z \in Nat /\ z <= x
    <3>1. M * u = 2 * z /\ z \in Nat
      BY <1>1, <2>2
    <3> HIDE DEF z
    <3> QED
      BY <1>2, <2>1, <3>1
  <2>5. y <= z
    <3>1. a * S <= M * S /\ M * S <= M * h
      BY <1>1, <1>5, <2>2, <2>3
    <3> DEFINE MS == M * S
    <3>2. MS \in Nat /\ y <= MS /\ MS <= z
      BY <1>1, <3>1 DEF y
    <3> HIDE DEF MS, z
    <3> QED
      BY <1>3, <2>4, <3>2
  <2>6. Divides(u, z)
    <3>1. M # 1
      BY <1>1
    <3>2. PICK m \in Nat \ {0} : M = 2 * m
      BY <1>1, <3>1, HalfPower
    <3>3. z = u * m
      BY <2>2, <3>2
    <3> QED
      BY <3>3 DEF Divides
  <2>7. z <= ToF64(x)
    <3>1. z <= x => z <= ToF64(x)
      <4> HIDE DEF z
      <4> QED
        BY <2>4, <2>6, ToF64Keeps DEF u
    <3> QED
      BY <2>4, <3>1
  <2> HIDE DEF z
  <2>8. ToF64(x) \in Nat
    BY ToF64Near
  <2>9. y <= ToF64(x)
    BY <1>3, <2>4, <2>5, <2>7, <2>8
  <2>10. y >= x => y >= ToF64(x)
    <3>1. ASSUME y >= x
          PROVE  y = z
      BY <1>3, <2>4, <2>5, <3>1
    <3>2. y = z => Divides(u, y)
      BY <2>6
    <3> QED
      BY <1>4, <3>1, <3>2
  <2> QED
    BY <2>9, <2>10 DEF y, S
<1> QED
  BY <1>1, <1>2, <1>6, <1>7

\* The two limits of an amount that an f64 holds leave room, and take none.
LEMMA LimitsRoom ==
  ASSUME NEW a \in 0..U64_MAX, NEW slippage \in 0..SLIPPAGE_SCALE, a <= F64_MANTISSA
  PROVE  /\ amount_with_slippage(a, slippage, FALSE) <= a
         /\ a <= amount_with_slippage(a, slippage, TRUE)
<1> DEFINE S       == SLIPPAGE_SCALE
           maximum == amount_with_slippage(a, slippage, TRUE)
           minimum == amount_with_slippage(a, slippage, FALSE)
           plus    == S + slippage
           minus   == S - slippage
           more    == a * plus
           less    == a * minus
           high    == ToF64(more)
           low     == ToF64(less)
           y       == a * S
<1>1. S \in Nat \ {0} /\ U64_MAX \in Nat /\ a \in Nat /\ a <= U64_MAX
  BY ClientQuoteAssumption, U64Assumption
<1>2. plus \in Nat /\ minus \in Nat /\ S <= plus /\ minus <= S
  BY <1>1
<1>3. ToF64(a) = a
  BY <1>1, ToF64Exact
<1>4. maximum = AtMost(CeilDiv(high, S), U64_MAX) /\ minimum = AtMost(low \div S, U64_MAX)
  BY <1>3 DEF amount_with_slippage
<1> HIDE DEF S, maximum, minimum, plus, minus
<1>5. y \in Nat /\ more \in Nat /\ less \in Nat /\ y <= more /\ less <= y
  BY <1>1, <1>2
<1> HIDE DEF more, less
<1>6. y <= high /\ low <= y
  <2>1. high \in Nat /\ low \in Nat
    BY <1>5, ToF64Near
  <2> QED
    BY <1>1, <1>5, ScaleKept DEF S
<1>7. high \in Nat /\ low \in Nat
  BY <1>5, ToF64Near
<1> HIDE DEF high, low
<1>8. CeilDiv(high, S) \in Nat /\ CeilDiv(high, S) >= a
  <2> DEFINE last == a - 1
  <2>1. last \in Int /\ last * S = y - S
    BY <1>1
  <2> HIDE DEF last, y
  <2>2. last * S < high
    BY <1>1, <1>5, <1>6, <1>7, <2>1
  <2>3. CeilDiv(high, S) >= a
    BY <1>1, <1>7, <2>2, CeilAtLeast DEF last
  <2> QED
    BY <1>1, <1>7, <2>3, CeilFloor
<1>9. low \div S \in Nat /\ low \div S <= a
  BY <1>1, <1>6, <1>7, DivAtMost, DivFloor
<1>10. maximum >= a /\ minimum <= a
  BY <1>1, <1>4, <1>8, <1>9 DEF AtMost
<1> QED
  BY <1>10 DEF maximum, minimum

\* Any slippage takes at least a unit off the minimum for an amount that an f64 holds:
\* the rounding of the product makes up for less than was taken.
LEMMA SlippageTakesUnit ==
  ASSUME NEW a \in 1..U64_MAX, NEW slippage \in 1..SLIPPAGE_SCALE, a <= F64_MANTISSA
  PROVE  amount_with_slippage(a, slippage, FALSE) <= a - 1
<1> DEFINE S       == SLIPPAGE_SCALE
           M       == F64_MANTISSA
           minimum == amount_with_slippage(a, slippage, FALSE)
           minus   == S - slippage
           product == a * minus
           whole   == a * S
           u       == Ulp(product)
           low     == ToF64(product)
           down    == low \div S
<1>1. /\ S \in Nat \ {0} /\ M \in Nat \ {0} /\ 2 * S <= M
      /\ U64_MAX \in Nat /\ a \in Nat \ {0}
  BY ClientQuoteAssumption, U64Assumption
<1>2. minus \in Nat /\ minus <= S - 1
  BY <1>1
<1>3. minimum = AtMost(down, U64_MAX)
  BY <1>1, ToF64Exact DEF amount_with_slippage
<1> HIDE DEF S, M, minimum, minus
<1>4. product \in Nat /\ whole \in Nat /\ product <= whole - a
  <2>1. a * minus <= a * (S - 1)
    BY <1>1, <1>2
  <2>2. a * (S - 1) = whole - a
    BY <1>1
  <2> QED
    BY <1>1, <1>2, <2>1, <2>2
<1> HIDE DEF product
<1>5. /\ u \in Nat \ {0} /\ (u = 1 \/ 2 * product >= M * u)
      /\ low \in Nat /\ 2 * (low - product) <= u
  BY <1>4, UlpFacts, ToF64Near DEF M
<1> HIDE DEF u, low
<1>6. low < whole
  <2>1. CASE u = 1
    <3> HIDE DEF whole
    <3> QED
      BY <1>1, <1>4, <1>5, <2>1
  <2>2. CASE u # 1
    <3>1. (2 * S) * u <= M * u
      BY <1>1, <1>5
    <3> DEFINE Su == S * u
               Mu == M * u
    <3>2. Su \in Nat /\ Mu \in Nat /\ 2 * Su <= Mu /\ 2 * product >= Mu
      BY <1>1, <1>5, <2>2, <3>1
    <3>3. u < a
      <4>1. ASSUME a <= u
            PROVE  S * a <= S * u
        BY <1>1, <1>5, <4>1
      <4>2. S * a = whole
        BY <1>1
      <4> HIDE DEF Su, Mu, whole
      <4>3. Su < whole
        BY <1>1, <1>4, <3>2
      <4> QED
        BY <1>1, <1>4, <1>5, <3>2, <4>1, <4>2, <4>3 DEF Su
    <3> HIDE DEF Su, Mu, whole
    <3> QED
      BY <1>1, <1>4, <1>5, <3>3
  <2> QED
    BY <2>1, <2>2
<1>7. down \in Nat /\ down * S <= low
  BY <1>1, <1>5, DivFloor
<1> HIDE DEF down
<1>8. down <= a - 1
  <2>1. ASSUME down >= a
        PROVE  a * S <= down * S
    BY <1>1, <1>7, <2>1
  <2> DEFINE downS == down * S
  <2>2. downS \in Nat /\ downS <= low
    BY <1>1, <1>7
  <2>3. down >= a => whole <= downS
    BY <2>1
  <2> HIDE DEF downS, whole
  <2>4. ~(down >= a)
    BY <1>4, <1>5, <1>6, <2>2, <2>3
  <2> QED
    BY <1>1, <1>7, <2>4
<1>9. minimum <= a - 1
  BY <1>1, <1>3, <1>7, <1>8 DEF AtMost
<1> QED
  BY <1>9 DEF minimum

\* Where an f64 holds the product exactly, the limits are the product rounded to
\* a whole unit, and no more.
LEMMA LimitsExact ==
  ASSUME NEW a \in 0..U64_MAX, NEW slippage \in 0..SLIPPAGE_SCALE
  PROVE  LET maximum == amount_with_slippage(a, slippage, TRUE)
             minimum == amount_with_slippage(a, slippage, FALSE)
             most    == a * (SLIPPAGE_SCALE + slippage)
             least   == a * (SLIPPAGE_SCALE - slippage)
         IN  /\ most <= F64_MANTISSA => (maximum - 1) * SLIPPAGE_SCALE < most
             /\ least <= F64_MANTISSA => (minimum + 1) * SLIPPAGE_SCALE > least
<1> DEFINE S       == SLIPPAGE_SCALE
           maximum == amount_with_slippage(a, slippage, TRUE)
           minimum == amount_with_slippage(a, slippage, FALSE)
           plus    == S + slippage
           minus   == S - slippage
           most    == a * plus
           least   == a * minus
<1>1. S \in Nat \ {0} /\ U64_MAX \in Nat /\ a \in Nat /\ a <= U64_MAX
  BY ClientQuoteAssumption, U64Assumption
<1>2. plus \in Nat \ {0} /\ minus \in Nat /\ minus <= S
  BY <1>1
<1>3. /\ maximum = AtMost(CeilDiv(ToF64(ToF64(a) * plus), S), U64_MAX)
      /\ minimum = AtMost(ToF64(ToF64(a) * minus) \div S, U64_MAX)
  BY DEF amount_with_slippage
<1> HIDE DEF S, maximum, minimum, plus, minus
<1>4. \A factor \in Nat : a * factor <= F64_MANTISSA => ToF64(ToF64(a) * factor) = a * factor
  <2> SUFFICES ASSUME NEW factor \in Nat, a * factor <= F64_MANTISSA
               PROVE  ToF64(ToF64(a) * factor) = a * factor
    OBVIOUS
  <2>1. CASE factor = 0
    <3>1. ToF64(a) \in Nat /\ ToF64(a) * factor = 0 /\ a * factor = 0
      BY <1>1, <2>1, ToF64Near
    <3>2. 0 <= F64_MANTISSA
      BY ClientQuoteAssumption
    <3> QED
      BY <3>1, <3>2, ToF64Exact
  <2>2. CASE factor # 0
    <3> DEFINE product == a * factor
    <3>1. product \in Nat /\ a <= product
      BY <1>1, <2>2
    <3>2. F64_MANTISSA \in Nat /\ product <= F64_MANTISSA
      BY ClientQuoteAssumption
    <3> HIDE DEF product
    <3>3. a <= F64_MANTISSA
      BY <1>1, <3>1, <3>2
    <3>4. ToF64(a) = a /\ ToF64(product) = product
      BY <1>1, <3>1, <3>2, <3>3, ToF64Exact
    <3> QED
      BY <3>4 DEF product
  <2> QED
    BY <2>1, <2>2
<1>5. most \in Nat /\ least \in Nat
  BY <1>1, <1>2
<1>6. ASSUME most <= F64_MANTISSA
      PROVE  (maximum - 1) * S < most
  <2> DEFINE up   == CeilDiv(most, S)
             last == maximum - 1
             past == up - 1
  <2>1. maximum = AtMost(up, U64_MAX)
    BY <1>2, <1>3, <1>4, <1>6
  <2> HIDE DEF most
  <2>2. up \in Nat /\ up * S < most + S
    BY <1>1, <1>5, CeilFloor
  <2> HIDE DEF up
  <2>3. last \in Int /\ past \in Int /\ last <= past
    BY <1>1, <2>1, <2>2 DEF AtMost
  <2>4. past * S < most
    <3> DEFINE upS == up * S
    <3>1. upS \in Int /\ past * S = upS - S
      BY <1>1, <2>2
    <3>2. upS < most + S
      BY <2>2
    <3> HIDE DEF upS, past
    <3> QED
      BY <1>1, <1>5, <3>1, <3>2
  <2> HIDE DEF last, past
  <2>5. last * S <= past * S
    BY <1>1, <2>3
  <2>6. last * S < most
    <3> DEFINE lastS == last * S
               pastS == past * S
    <3>1. lastS \in Int /\ pastS \in Int /\ lastS <= pastS /\ pastS < most
      BY <1>1, <2>3, <2>4, <2>5
    <3> HIDE DEF lastS, pastS
    <3>2. lastS < most
      BY <1>5, <3>1
    <3> QED
      BY <3>2 DEF lastS
  <2> QED
    BY <2>6 DEF last
<1>7. ASSUME least <= F64_MANTISSA
      PROVE  (minimum + 1) * S > least
  <2> DEFINE down == least \div S
             next == down + 1
  <2>1. minimum = AtMost(down, U64_MAX)
    BY <1>2, <1>3, <1>4, <1>7
  <2>2. least <= U64_MAX * S
    <3>1. a * minus <= a * S
      BY <1>1, <1>2
    <3>2. a * S <= U64_MAX * S
      BY <1>1
    <3> DEFINE aS == a * S
               US == U64_MAX * S
    <3>3. aS \in Int /\ US \in Int /\ least <= aS /\ aS <= US
      BY <1>1, <3>1, <3>2
    <3> HIDE DEF aS, US, least
    <3>4. least <= US
      BY <1>5, <3>3
    <3> QED
      BY <3>4 DEF US
  <2> HIDE DEF least
  <2>3. down \in Nat /\ down <= U64_MAX /\ least < next * S
    BY <1>1, <1>5, <2>2, DivAtMost, DivFloor
  <2>4. minimum = down
    BY <1>1, <2>1, <2>3 DEF AtMost
  <2> QED
    BY <2>3, <2>4
<1> QED
  BY <1>6, <1>7 DEF maximum, minimum, S, plus, minus

================================================================================
