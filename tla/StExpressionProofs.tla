------------------------- MODULE StExpressionProofs -------------------------
(***************************************************************************)
(* Proofs about the values and expressions of Structured Text, for every   *)
(* range of the types and every format of REAL and LREAL: arithmetic on    *)
(* whole numbers, made in doubles, is exact or refused, and an expression  *)
(* the generator accepts never meets a value of a wrong type.              *)
(***************************************************************************)
EXTENDS StExpressions, WellFoundedInduction, TLAPS

-----------------------------------------------------------------------------
(* Divisors.                                                                *)

Divides(d, n) == \E k \in Int : n = d * k
CommonDivisors(a, b) == {d \in Nat \ {0} : Divides(d, a) /\ Divides(d, b)}

LEMMA Distribution ==
  ASSUME NEW d \in Int, NEW j \in Int, NEW k \in Int
  PROVE  d * j + d * k = d * (j + k) /\ d * j - d * k = d * (j - k)
  OBVIOUS

LEMMA Associativity ==
  ASSUME NEW d \in Int, NEW j \in Int, NEW k \in Int
  PROVE  (d * j) * k = d * (j * k)
  OBVIOUS

\* Every integer has a remainder.
LEMMA Remainder ==
  ASSUME NEW a \in Int, NEW b \in Nat \ {0}
  PROVE  /\ a \div b \in Int /\ a % b \in 0..b - 1
         /\ a = b * (a \div b) + (a % b)
<1>1. a \div b \in Int
  OBVIOUS
<1>2. a % b \in 0..b - 1
  OBVIOUS
<1>3. a = b * (a \div b) + (a % b)
  OBVIOUS
<1> QED  BY <1>1, <1>2, <1>3

\* A remainder leaves the common divisors what they are.
LEMMA RemainderDivisors ==
  ASSUME NEW a \in Nat, NEW b \in Nat \ {0}, NEW d \in Int
  PROVE  Divides(d, a) /\ Divides(d, b) <=> Divides(d, b) /\ Divides(d, a % b)
<1> DEFINE q == a \div b
           r == a % b
<1>1. q \in Int /\ r \in Int /\ a = b * q + r
  BY Remainder
<1> HIDE DEF q, r
<1>2. ASSUME NEW k \in Int, b = d * k
      PROVE  Divides(d, a) <=> Divides(d, r)
  <2> DEFINE e == k * q
  <2>1. b * q = d * e /\ e \in Int
    BY <1>1, <1>2, Associativity
  <2> HIDE DEF e
  <2>2. ASSUME NEW j \in Int, a = d * j  PROVE Divides(d, r)
    <3>1. r = d * j - d * e
      BY <1>1, <2>1, <2>2
    <3>2. r = d * (j - e)
      BY <3>1, <2>1, Distribution
    <3> QED  BY <3>2, <2>1 DEF Divides
  <2>3. ASSUME NEW j \in Int, r = d * j  PROVE Divides(d, a)
    <3>1. a = d * e + d * j
      BY <1>1, <2>1, <2>3
    <3>2. a = d * (e + j)
      BY <3>1, <2>1, Distribution
    <3> QED  BY <3>2, <2>1 DEF Divides
  <2> QED  BY <2>2, <2>3 DEF Divides
<1> QED  BY <1>2 DEF Divides, r

LEMMA DivisorBounded ==
  ASSUME NEW d \in Nat \ {0}, NEW n \in Nat \ {0}, Divides(d, n)
  PROVE  d <= n
<1>1. PICK k \in Int : n = d * k
  BY DEF Divides
<1>2. k >= 1
  <2>1. SUFFICES ASSUME k <= 0 PROVE FALSE
    BY <1>1
  <2>2. d * k <= 0
    BY <2>1
  <2> QED  BY <1>1, <2>2
<1>3. d * k >= d
  BY <1>2
<1> QED  BY <1>1, <1>3

LEMMA SelfDivides ==
  ASSUME NEW n \in Int
  PROVE  Divides(n, n) /\ Divides(n, 0) /\ Divides(1, n)
<1>1. n = n * 1 /\ 0 = n * 0 /\ n = 1 * n
  OBVIOUS
<1> QED  BY <1>1 DEF Divides

-----------------------------------------------------------------------------
(* Euclid's algorithm.                                                      *)

Euclid(f) == f = [b \in Nat |-> [a \in Nat |-> IF b = 0 THEN a ELSE f[a % b][b]]]

\* The recursion of gcd has a solution: the greatest common divisor.
LEMMA EuclidSolvable == \E f : Euclid(f)
<1> DEFINE G(b, a) == IF b = 0 THEN a ELSE CHOOSE d \in CommonDivisors(a, b) : \A e \in CommonDivisors(a, b) : e <= d
           f == [b \in Nat |-> [a \in Nat |-> G(b, a)]]
<1>1. ASSUME NEW a \in Nat, NEW b \in Nat \ {0}
      PROVE  G(b, a) = G(a % b, b)
  <2>1. a % b \in Nat
    BY Remainder
  <2>2. CommonDivisors(a, b) = CommonDivisors(b, a % b)
    BY RemainderDivisors DEF CommonDivisors
  <2>3. CASE a % b = 0
    <3>1. b \in CommonDivisors(a, b)
      BY <2>2, <2>3, SelfDivides DEF CommonDivisors
    <3>2. \A e \in CommonDivisors(a, b) : e <= b
      BY DivisorBounded DEF CommonDivisors
    <3>3. \A d \in CommonDivisors(a, b) : d \in Nat
      BY DEF CommonDivisors
    <3>4. \A d \in CommonDivisors(a, b) : (\A e \in CommonDivisors(a, b) : e <= d) => d = b
      BY <3>1, <3>2, <3>3
    <3>5. G(b, a) = b
      BY <3>1, <3>2, <3>4
    <3> QED  BY <3>5, <2>3
  <2>4. CASE a % b # 0
    BY <2>2, <2>4
  <2> QED  BY <2>3, <2>4
<1> HIDE DEF G
<1>2. ASSUME NEW b \in Nat, NEW a \in Nat
      PROVE  G(b, a) = IF b = 0 THEN a ELSE f[a % b][b]
  <2>1. CASE b = 0
    BY <2>1 DEF G
  <2>2. CASE b # 0
    <3>1. a % b \in Nat
      BY <2>2, Remainder
    <3> QED  BY <2>2, <3>1, <1>1
  <2> QED  BY <2>1, <2>2
<1> DEFINE h == [b \in Nat |-> [a \in Nat |-> IF b = 0 THEN a ELSE f[a % b][b]]]
<1>3. ASSUME NEW b \in Nat PROVE f[b] = h[b]
  BY <1>2
<1>4. f = h
  BY <1>3
<1> QED  BY <1>4 DEF Euclid

LEMMA GcdStep ==
  /\ gcd = [b \in Nat |-> [a \in Nat |-> gcd[b][a]]]
  /\ \A a, b \in Nat : gcd[b][a] = IF b = 0 THEN a ELSE gcd[a % b][b]
<1>1. Euclid(gcd)
  BY EuclidSolvable DEF Euclid, gcd
<1> QED  BY <1>1 DEF Euclid

\* g is the greatest common divisor of a and b in the order of divisibility.
IsGcd(g, a, b) ==
  /\ g \in Nat /\ (g = 0 => a = 0 /\ b = 0)
  /\ Divides(g, a) /\ Divides(g, b)
  /\ \A d \in Int : Divides(d, a) /\ Divides(d, b) => Divides(d, g)

LEMMA GcdCorrect ==
  ASSUME NEW a \in Nat, NEW b \in Nat
  PROVE  IsGcd(gcd[b][a], a, b)
<1> DEFINE Bad == {n \in Nat : ~ \A m \in Nat : IsGcd(gcd[n][m], m, n)}
           R == {ss \in Nat \X Nat : ss[1] < ss[2]}
<1>1. SUFFICES ASSUME Bad # {} PROVE FALSE
  BY Zenon
<1>2. PICK n \in Bad : \A k \in Bad : <<k, n>> \notin R
  <2>1. IsWellFoundedOn(R, Nat)
    BY NatLessThanWellFounded, Zenon DEF OpToRel
  <2>2. Bad \subseteq Nat
    OBVIOUS
  <2> HIDE DEF R, Bad
  <2> QED  BY <1>1, <2>1, <2>2, WFMin
<1>3. n \in Nat /\ \A k \in Nat : k < n => \A m \in Nat : IsGcd(gcd[k][m], m, k)
  <2>1. n \in Nat
    OBVIOUS
  <2>2. ASSUME NEW k \in Nat, k < n PROVE k \notin Bad
    <3>1. <<k, n>> \in R
      BY <2>1, <2>2
    <3> HIDE DEF R, Bad
    <3> QED  BY <3>1, <1>2
  <2> QED  BY <2>1, <2>2
<1>4. PICK m \in Nat : ~ IsGcd(gcd[n][m], m, n)
  OBVIOUS
<1> HIDE DEF Bad
<1>5. CASE n = 0
  <2>1. gcd[n][m] = m
    BY <1>3, <1>5, GcdStep
  <2>2. IsGcd(m, m, 0)
    BY SelfDivides DEF IsGcd
  <2> QED  BY <2>1, <2>2, <1>4, <1>5
<1>6. CASE n # 0
  <2>1. m % n \in Nat /\ m % n < n
    BY <1>3, <1>6, Remainder
  <2>2. gcd[n][m] = gcd[m % n][n]
    BY <1>3, <1>6, GcdStep
  <2>3. IsGcd(gcd[m % n][n], n, m % n)
    BY <1>3, <2>1
  <2> DEFINE g == gcd[m % n][n]
             r == m % n
  <2>4. \A d \in Int : Divides(d, m) /\ Divides(d, n) <=> Divides(d, n) /\ Divides(d, r)
    BY <1>3, <1>6, RemainderDivisors
  <2> HIDE DEF g, r
  <2>5. IsGcd(g, m, n)
    BY <2>3, <2>4, <1>6 DEF IsGcd, g, r
  <2> QED  BY <2>2, <2>5, <1>4 DEF g
<1> QED  BY <1>5, <1>6

-----------------------------------------------------------------------------
(* Fractions.                                                               *)

LEMMA ExactQuotient ==
  ASSUME NEW g \in Nat \ {0}, NEW k \in Int
  PROVE  (g * k) \div g = k
  OBVIOUS

LEMMA MagnitudeType ==
  ASSUME NEW n \in Int
  PROVE  Magnitude(n) \in Nat /\ (Magnitude(n) = 0 <=> n = 0)
  BY DEF Magnitude

\* What Fraction cancels.
LEMMA Cancelled ==
  ASSUME NEW n \in Int, NEW d \in Int \ {0}
  PROVE  \E g \in Nat \ {0}, i \in Nat, j \in Nat \ {0} :
           /\ g = gcd[Magnitude(d)][Magnitude(n)]
           /\ Magnitude(n) = g * i /\ Magnitude(d) = g * j
           /\ Magnitude(n) \div g = i /\ Magnitude(d) \div g = j
           /\ IsGcd(g, Magnitude(n), Magnitude(d))
<1> DEFINE a == Magnitude(n)
           b == Magnitude(d)
           g == gcd[b][a]
<1>1. a \in Nat /\ b \in Nat \ {0}
  BY MagnitudeType
<1> HIDE DEF a, b
<1>2. IsGcd(g, a, b)
  BY <1>1, GcdCorrect
<1> HIDE DEF g
<1>3. g \in Nat \ {0}
  BY <1>1, <1>2 DEF IsGcd
<1>4. PICK i \in Int, j \in Int : a = g * i /\ b = g * j
  BY <1>2 DEF IsGcd, Divides
<1>5. i >= 0
  <2>1. SUFFICES ASSUME i < 0 PROVE FALSE
    BY <1>4
  <2>2. g * i < 0
    BY <1>3, <2>1
  <2> QED  BY <1>1, <1>4, <2>2
<1>6. j > 0
  <2>1. SUFFICES ASSUME j <= 0 PROVE FALSE
    BY <1>4
  <2>2. g * j <= 0
    BY <1>3, <2>1
  <2> QED  BY <1>1, <1>4, <2>2
<1>7. a \div g = i /\ b \div g = j
  BY <1>3, <1>4, ExactQuotient
<1> QED  BY <1>2, <1>3, <1>4, <1>5, <1>6, <1>7 DEF a, b, g

\* The fraction that stands for n / d equals it, and is in lowest terms.
LEMMA FractionExact ==
  ASSUME NEW t, NEW n \in Int, NEW d \in Int \ {0}
  PROVE  LET f == Fraction(t, n, d) IN
         /\ f.type = t /\ f.num \in Int /\ f.den \in Nat \ {0}
         /\ f.num * d = n * f.den
         /\ \A e \in Nat \ {0} : Divides(e, f.num) /\ Divides(e, f.den) => e = 1
<1> DEFINE f == Fraction(t, n, d)
           a == Magnitude(n)
           b == Magnitude(d)
<1>1. PICK g \in Nat \ {0}, i \in Nat, j \in Nat \ {0} :
        /\ g = gcd[b][a] /\ a = g * i /\ b = g * j /\ a \div g = i /\ b \div g = j
        /\ IsGcd(g, a, b)
  BY Cancelled
<1>2. \E s, z \in {-1, 1} : /\ n = s * (g * i) /\ d = z * (g * j)
                           /\ f = [type |-> t, num |-> z * (s * i), den |-> j]
  <2> DEFINE s == IF n < 0 THEN -1 ELSE 1
             z == IF d < 0 THEN -1 ELSE 1
  <2>1. n = s * a /\ d = z * b
    BY DEF Magnitude
  <2>2. f = [type |-> t, num |-> z * (IF n < 0 THEN -i ELSE i), den |-> j]
    <3>1. (IF n < 0 THEN -(a \div g) ELSE n \div g) = IF n < 0 THEN -i ELSE i
      <4>1. CASE n < 0
        BY <1>1, <4>1
      <4>2. CASE ~(n < 0)
        <5>1. a = n
          BY <4>2 DEF Magnitude
        <5> QED  BY <1>1, <4>2, <5>1
      <4> QED  BY <4>1, <4>2
    <3>2. f = [type |-> t, num |-> z * (IF n < 0 THEN -(a \div g) ELSE n \div g), den |-> b \div g]
      BY <1>1 DEF Fraction
    <3> QED  BY <1>1, <3>1, <3>2
  <2>3. (IF n < 0 THEN -i ELSE i) = s * i
    OBVIOUS
  <2> QED  BY <1>1, <2>1, <2>2, <2>3
<1>3. PICK s \in {-1, 1}, z \in {-1, 1} :
        /\ n = s * (g * i) /\ d = z * (g * j)
        /\ f = [type |-> t, num |-> z * (s * i), den |-> j]
  BY <1>2
<1> HIDE DEF f, a, b
<1>4. (z * (s * i)) * d = n * j
  <2>1. i * (g * j) = (g * i) * j
    OBVIOUS
  <2> QED  BY <1>3, <2>1
<1>5. ASSUME NEW e \in Nat \ {0}, Divides(e, z * (s * i)), Divides(e, j)
      PROVE  e = 1
  <2>1. PICK p \in Int, q \in Int : i = e * p /\ j = e * q
    <3>1. PICK p \in Int, q \in Int : z * (s * i) = e * p /\ j = e * q
      BY <1>5 DEF Divides
    <3>2. z * (s * i) = i \/ z * (s * i) = -i
      OBVIOUS
    <3>3. CASE i = e * p
      BY <3>1, <3>3
    <3>4. CASE i = -(e * p)
      <4>1. e * (-p) = -(e * p)
        OBVIOUS
      <4>2. i = e * (-p)
        BY <3>4, <4>1, Zenon
      <4> QED  BY <3>1, <4>2
    <3> DEFINE w == e * p
    <3> HIDE DEF w
    <3>5. w \in Int /\ (i = w \/ i = -w)
      BY <3>1, <3>2 DEF w
    <3> QED  BY <3>3, <3>4, <3>5, Zenon DEF w
  <2>2. a = (g * e) * p /\ b = (g * e) * q /\ g * e \in Int
    BY <1>1, <2>1, Associativity
  <2>3. Divides(g * e, g)
    BY <1>1, <2>2 DEF IsGcd, Divides
  <2>4. PICK k \in Int : g = (g * e) * k
    BY <2>3 DEF Divides
  <2>5. g = g * (e * k) /\ e * k \in Int
    BY <2>4, Associativity
  <2>6. e * k = 1
    <3> DEFINE m == e * k
    <3>1. g = g * m /\ m \in Int
      BY <2>5
    <3> HIDE DEF m
    <3>2. m = 1
      <4>1. CASE m >= 2
        <5>1. g * m >= g * 2
          BY <4>1, <3>1
        <5> QED  BY <5>1, <3>1
      <4>2. CASE m <= 0
        <5>1. g * m <= 0
          BY <4>2, <3>1
        <5> QED  BY <5>1, <3>1
      <4> QED  BY <4>1, <4>2, <3>1
    <3> QED  BY <3>2 DEF m
  <2>7. Divides(e, 1)
    BY <2>6 DEF Divides
  <2> QED  BY <2>7, DivisorBounded
<1> QED  BY <1>3, <1>4, <1>5 DEF f

-----------------------------------------------------------------------------
(* Conversions.                                                             *)

Numeric == Whole \cup Floats
IsNumber(v) == v.type \in Numeric /\ v.num \in Int /\ v.den \in Nat \ {0}

LEMMA NumericTypes ==
  /\ \A t \in Types : IsNumeric(t) <=> t \in Numeric
  /\ Numeric \subseteq Types /\ Numeric \cap Errors = {} /\ Types \cap Errors = {}
  /\ \A a, b \in Numeric : NumericResultType(a, b) \in Numeric /\ NumericResultType(a, b) = Wider(a, b)
<1>1. \A t \in Types : IsNumeric(t) <=> t \in Numeric
  BY DEF Types, IsNumeric, Rank, Numeric, Whole, Floats
<1>2. Numeric \subseteq Types /\ Numeric \cap Errors = {} /\ Types \cap Errors = {}
  BY DEF Types, Numeric, Whole, Floats, Errors
<1>3. ASSUME NEW a \in Numeric, NEW b \in Numeric
      PROVE  NumericResultType(a, b) \in Numeric /\ NumericResultType(a, b) = Wider(a, b)
  <2>1. CASE a \in Whole /\ b \in Whole
    BY <2>1 DEF NumericResultType, Wider, Rank, Numeric, Whole, Floats
  <2>2. CASE ~(a \in Whole /\ b \in Whole)
    BY <2>2 DEF NumericResultType, Wider, Rank, Numeric, Whole, Floats
  <2> QED  BY <2>1, <2>2
<1> QED  BY <1>1, <1>2, <1>3

\* Two quotients with remainders of one division are the same.
LEMMA QuotientUnique ==
  ASSUME NEW d \in Nat \ {0}, NEW x \in Nat, NEW p \in Nat, NEW q \in Nat,
         p * d <= x, x < (p + 1) * d, q * d <= x, x < (q + 1) * d
  PROVE  p = q
<1>1. ASSUME NEW m \in Nat, NEW n \in Nat, m * d <= x, x < (n + 1) * d, n < m  PROVE FALSE
  <2>1. n + 1 <= m
    BY <1>1
  <2>2. (n + 1) * d <= m * d
    BY <2>1
  <2> QED  BY <1>1, <2>2
<1> QED  BY <1>1

LEMMA QuotientBounds ==
  ASSUME NEW x \in Nat, NEW d \in Nat \ {0}
  PROVE  x \div d \in Nat /\ (x \div d) * d <= x /\ x < ((x \div d) + 1) * d /\ x \div d <= x
<1>1. x \div d \in Nat
  OBVIOUS
<1>2. (x \div d) * d <= x
  OBVIOUS
<1>3. x < ((x \div d) + 1) * d
  OBVIOUS
<1>4. x \div d <= (x \div d) * d
  <2> DEFINE e == x \div d
  <2> HIDE DEF e
  <2>1. ASSUME e \in Nat PROVE e <= e * d
    BY <2>1
  <2> QED  BY <1>1, <2>1 DEF e
<1>5. x \div d <= x
  BY <1>1, <1>2, <1>4
<1> QED  BY <1>1, <1>2, <1>3, <1>5

IsWholePart(n, q) ==
  /\ n \in -Magnitude(q.num)..Magnitude(q.num)
  /\ Magnitude(n) * q.den <= Magnitude(q.num) /\ Magnitude(q.num) < (Magnitude(n) + 1) * q.den
  /\ n * q.num >= 0

LEMMA WholePartUnique ==
  ASSUME NEW q, q.num \in Int, q.den \in Nat \ {0}, NEW m, NEW n, IsWholePart(m, q), IsWholePart(n, q)
  PROVE  m = n
<1>1. Magnitude(q.num) \in Nat
  BY MagnitudeType
<1>2. m \in Int /\ n \in Int /\ Magnitude(m) \in Nat /\ Magnitude(n) \in Nat
  BY <1>1, MagnitudeType DEF IsWholePart
<1>3. Magnitude(m) = Magnitude(n)
  BY <1>1, <1>2, QuotientUnique DEF IsWholePart
<1>4. CASE q.num > 0
  <2>1. ASSUME NEW k \in Int, k * q.num >= 0 PROVE k >= 0
    BY <1>4, <2>1
  <2>2. m >= 0 /\ n >= 0
    BY <1>2, <2>1 DEF IsWholePart
  <2> QED  BY <1>2, <1>3, <2>2 DEF Magnitude
<1>5. CASE q.num < 0
  <2>1. ASSUME NEW k \in Int, k * q.num >= 0 PROVE k <= 0
    BY <1>5, <2>1
  <2>2. m <= 0 /\ n <= 0
    BY <1>2, <2>1 DEF IsWholePart
  <2> QED  BY <1>2, <1>3, <2>2 DEF Magnitude
<1>6. CASE q.num = 0
  <2>1. Magnitude(q.num) = 0
    BY <1>6 DEF Magnitude
  <2> QED  BY <1>2, <2>1 DEF IsWholePart
<1> QED  BY <1>4, <1>5, <1>6

\* The cast to an integer drops the fraction.
LEMMA TruncatedIsWholePart ==
  ASSUME NEW q, q.num \in Int, q.den \in Nat \ {0}
  PROVE  Truncated(q) \in Int /\ IsWholePart(Truncated(q), q) /\ Whole0(q) = Truncated(q)
<1> DEFINE x == Magnitude(q.num)
           e == x \div q.den
           n == Truncated(q)
<1>1. x \in Nat
  BY MagnitudeType
<1>2. e \in Nat /\ e * q.den <= x /\ x < (e + 1) * q.den /\ e <= x
  BY <1>1, QuotientBounds
<1>3. n = IF q.num < 0 THEN -e ELSE e
  <2>1. CASE q.num < 0
    BY <2>1 DEF Truncated
  <2>2. CASE ~(q.num < 0)
    BY <2>2 DEF Truncated, Magnitude
  <2> QED  BY <2>1, <2>2
<1> HIDE DEF e, n
<1>4. n \in Int /\ n \in -x..x /\ Magnitude(n) = e
  BY <1>1, <1>2, <1>3 DEF Magnitude
<1>5. n * q.num >= 0
  BY <1>2, <1>3
<1>6. IsWholePart(n, q)
  BY <1>2, <1>4, <1>5 DEF IsWholePart
<1>7. Whole0(q) = CHOOSE m \in -x..x : IsWholePart(m, q)
  BY DEF Whole0, IsWholePart
<1>8. n = CHOOSE m \in -x..x : IsWholePart(m, q)
  BY <1>4, <1>6, WholePartUnique
<1> QED  BY <1>4, <1>6, <1>7, <1>8 DEF n

\* Dropping a fraction does not leave a range around 0.
LEMMA TruncatedWithin ==
  ASSUME BoundsAssumption, NEW t \in Numeric, NEW q, q.num \in Int, q.den \in Nat \ {0}, Within(q, t)
  PROVE  Least[t] <= Truncated(q) /\ Truncated(q) <= Greatest[t]
<1> DEFINE n == Truncated(q)
           lo == Least[t]
           hi == Greatest[t]
           d == q.den
<1>1. lo \in Int /\ hi \in Int /\ lo <= 0 /\ 0 < hi
  BY DEF BoundsAssumption, Numeric
<1>2. n \in Int /\ IsWholePart(n, q)
  BY TruncatedIsWholePart
<1>3. lo * d <= q.num /\ q.num <= hi * d
  BY DEF Within
<1> HIDE DEF n, lo, hi
<1>4. CASE q.num > 0
  <2>1. n >= 0
    <3>1. SUFFICES ASSUME n < 0 PROVE FALSE
      BY <1>2
    <3>2. n * q.num < 0
      BY <1>2, <1>4, <3>1
    <3> QED  BY <3>2, <1>2 DEF IsWholePart
  <2>2. n * d <= q.num
    BY <1>2, <1>4, <2>1 DEF IsWholePart, Magnitude
  <2>3. n * d <= hi * d
    BY <1>1, <1>2, <1>3, <2>2
  <2>4. n <= hi
    BY <1>1, <1>2, <2>3
  <2> QED  BY <1>1, <2>1, <2>4, <1>2 DEF n, lo, hi
<1>5. CASE q.num < 0
  <2>1. n <= 0
    <3>1. SUFFICES ASSUME n > 0 PROVE FALSE
      BY <1>2
    <3>2. n * q.num < 0
      BY <1>2, <1>5, <3>1
    <3> QED  BY <3>2, <1>2 DEF IsWholePart
  <2>2. n * d >= q.num
    <3>1. Magnitude(n) = -n /\ Magnitude(q.num) = -q.num
      BY <1>2, <1>5, <2>1 DEF Magnitude
    <3>2. (-n) * d <= -q.num
      BY <1>2, <3>1 DEF IsWholePart
    <3> QED  BY <1>2, <3>2
  <2>3. lo * d <= n * d
    BY <1>1, <1>2, <1>3, <2>2
  <2>4. lo <= n
    BY <1>1, <1>2, <2>3
  <2> QED  BY <1>1, <2>1, <2>4, <1>2 DEF n, lo, hi
<1>6. CASE q.num = 0
  <2>1. n = 0
    BY <1>2, <1>6 DEF IsWholePart, Magnitude
  <2> QED  BY <1>1, <2>1 DEF n, lo, hi
<1> QED  BY <1>4, <1>5, <1>6

LEMMA FromDoubleIs ==
  ASSUME BoundsAssumption, NEW t \in Numeric, NEW v, v.num \in Int, v.den \in Nat \ {0}
  PROVE  FromDouble(v, t) = IF ~Within(v, t) THEN Failed("overflow")
                            ELSE IF t \in Whole THEN Of(t, Whole0(v))
                            ELSE IF t = "REAL" THEN Rounded(t, v) ELSE [v EXCEPT !.type = t]
<1> DEFINE lo == Least[t] * v.den
           hi == Greatest[t] * v.den
<1>1. lo \in Int /\ hi \in Int
  BY DEF BoundsAssumption, Numeric
<1>2. Within(v, t) <=> ~(v.num < lo \/ v.num > hi)
  BY <1>1 DEF Within
<1>3. Truncated(v) = Whole0(v)
  BY TruncatedIsWholePart
<1> QED  BY <1>2, <1>3 DEF FromDouble

-----------------------------------------------------------------------------
(* Rounding.                                                                *)

LEMMA SpacingChosen ==
  ASSUME FormatAssumption, NEW t \in Floats, NEW y \in Nat
  PROVE  /\ SpacingAt(t, y) \in Spacings[t]
         /\ \A r \in Spacings[t] : r < SpacingAt(t, y) => Significand[t] * r <= y
<1> DEFINE S == Significand[t]
           Fits(s) == y < S * s \/ \A r \in Spacings[t] : r <= s
           Fitting == {s \in Spacings[t] : Fits(s)}
           R == {ss \in Nat \X Nat : ss[1] < ss[2]}
<1>1. /\ S \in Nat /\ Spacings[t] \subseteq Nat \ {0}
      /\ \E s \in Spacings[t] : \A r \in Spacings[t] : r <= s
  BY DEF FormatAssumption
<1> HIDE DEF S
<1>2. Fitting # {} /\ Fitting \subseteq Nat
  BY <1>1
<1>3. PICK s \in Fitting : \A r \in Fitting : <<r, s>> \notin R
  <2>1. IsWellFoundedOn(R, Nat)
    BY NatLessThanWellFounded, Zenon DEF OpToRel
  <2> HIDE DEF R, Fitting
  <2> QED  BY <1>2, <2>1, WFMin
<1>4. s \in Spacings[t] /\ Fits(s)
  OBVIOUS
<1>5. ASSUME NEW r \in Spacings[t], Fits(r)  PROVE s <= r
  <2>1. r \in Fitting /\ r \in Nat /\ s \in Nat
    BY <1>1, <1>4, <1>5
  <2>2. <<r, s>> \notin R
    BY <1>3, <2>1
  <2>3. ~(r < s)
    BY <2>1, <2>2
  <2> QED  BY <2>1, <2>3
<1> HIDE DEF Fits, Fitting, R
<1> DEFINE c == CHOOSE x \in Spacings[t] : Fits(x) /\ \A r \in Spacings[t] : Fits(r) => x <= r
<1>6. c \in Spacings[t] /\ Fits(c) /\ \A r \in Spacings[t] : Fits(r) => c <= r
  BY <1>4, <1>5
<1>7. SpacingAt(t, y) = c
  BY DEF SpacingAt, Fits, S
<1> HIDE DEF c
<1>8. ASSUME NEW r \in Spacings[t], r < c  PROVE S * r <= y
  <2>1. ~Fits(r)
    BY <1>1, <1>6, <1>8
  <2>2. ~(y < S * r)
    BY <2>1 DEF Fits
  <2>3. S * r \in Int
    BY <1>1
  <2> QED  BY <2>2, <2>3
<1> QED  BY <1>6, <1>7, <1>8 DEF S

\* The nearest whole number is on no other side of a whole number.
LEMMA HalfEvenNear ==
  ASSUME NEW n \in Nat, NEW d \in Nat \ {0}
  PROVE  LET k == HalfEven(n, d) IN
         /\ k \in Nat /\ 2 * (k * d) <= 2 * n + d /\ 2 * n <= 2 * (k * d) + d
         /\ \A j \in Nat : (n <= j * d => k <= j) /\ (j * d <= n => j <= k)
<1> DEFINE k == HalfEven(n, d)
           q == n \div d
           e == n % d
<1>1. q \in Nat /\ e \in 0..d - 1 /\ n = d * q + e
  <2>1. q \in Nat
    BY QuotientBounds
  <2>2. e \in 0..d - 1 /\ n = d * q + e
    BY Remainder
  <2> QED  BY <2>1, <2>2
<1>2. (k = q /\ 2 * e <= d) \/ (k = q + 1 /\ 2 * e >= d)
  BY <1>1 DEF HalfEven
<1> HIDE DEF k, q, e
<1>3. k \in Nat
  BY <1>1, <1>2
<1>4. 2 * (k * d) <= 2 * n + d /\ 2 * n <= 2 * (k * d) + d
  <2>1. CASE k = q /\ 2 * e <= d
    <3>1. k * d = d * q
      BY <1>1, <2>1
    <3> DEFINE p == d * q
    <3>2. p \in Nat
      BY <1>1
    <3> HIDE DEF p
    <3> QED  BY <1>1, <2>1, <3>1, <3>2 DEF p
  <2>2. CASE k = q + 1 /\ 2 * e >= d
    <3>1. k * d = d * q + d
      BY <1>1, <2>2
    <3> DEFINE p == d * q
    <3>2. p \in Nat
      BY <1>1
    <3> HIDE DEF p
    <3> QED  BY <1>1, <2>2, <3>1, <3>2 DEF p
  <2> QED  BY <1>2, <2>1, <2>2
<1>5. ASSUME NEW j \in Nat, n <= j * d  PROVE k <= j
  <2>1. SUFFICES ASSUME j + 1 <= k PROVE FALSE
    BY <1>3
  <2>2. (j + 1) * d <= k * d
    BY <1>3, <2>1
  <2>3. (j + 1) * d = j * d + d
    OBVIOUS
  <2> DEFINE x == j * d
             z == k * d
  <2>4. x \in Nat /\ z \in Nat
    BY <1>3
  <2> HIDE DEF x, z
  <2> QED  BY <1>4, <1>5, <2>2, <2>3, <2>4 DEF x, z
<1>6. ASSUME NEW j \in Nat, j * d <= n  PROVE j <= k
  <2>1. SUFFICES ASSUME k + 1 <= j PROVE FALSE
    BY <1>3
  <2>2. (k + 1) * d <= j * d
    BY <1>3, <2>1
  <2>3. (k + 1) * d = k * d + d
    BY <1>3
  <2> DEFINE x == j * d
             z == k * d
  <2>4. x \in Nat /\ z \in Nat
    BY <1>3
  <2> HIDE DEF x, z
  <2> QED  BY <1>4, <1>6, <2>2, <2>3, <2>4 DEF x, z
<1> QED  BY <1>3, <1>4, <1>5, <1>6 DEF k

\* s is the spacing at which a number of magnitude a / d is rounded.
IsSpacing(s, t, a, d) ==
  /\ s \in Spacings[t]
  /\ \A r \in Spacings[t] : r < s => Significand[t] * r * d <= a * Finest[t]
Magnified(s, t, a, d) == s * HalfEven(a * Finest[t], d * s)

\* A rounded number is a multiple of a spacing.
LEMMA RoundedIs ==
  ASSUME FormatAssumption, NEW t \in Floats, NEW v, v.num \in Int, v.den \in Nat \ {0}
  PROVE  \E s \in Nat \ {0}, num \in Int, den \in Nat \ {0} :
           /\ IsSpacing(s, t, Magnitude(v.num), v.den)
           /\ Magnified(s, t, Magnitude(v.num), v.den) \in Nat
           /\ Rounded(t, v) = [type |-> t, num |-> num, den |-> den]
           /\ Magnitude(num) * Finest[t] = Magnified(s, t, Magnitude(v.num), v.den) * den
           /\ num < 0 => v.num < 0
           /\ num > 0 => v.num > 0
<1> DEFINE F == Finest[t]
           a == Magnitude(v.num)
           n == a * F
           y == n \div v.den
           s == SpacingAt(t, y)
           m == Magnified(s, t, a, v.den)
           signed == IF v.num < 0 THEN -m ELSE m
           f == Fraction(t, signed, F)
<1>1. F \in Nat \ {0} /\ Spacings[t] \subseteq Nat \ {0} /\ Significand[t] \in Nat
  BY DEF FormatAssumption
<1>2. a \in Nat /\ (a = 0 <=> v.num = 0)
  BY MagnitudeType
<1>3. n \in Nat
  BY <1>1, <1>2
<1>4. y \in Nat /\ y * v.den <= n
  BY <1>3, QuotientBounds
<1>5. s \in Spacings[t] /\ \A r \in Spacings[t] : r < s => Significand[t] * r <= y
  BY <1>4, SpacingChosen
<1>6. s \in Nat \ {0}
  BY <1>1, <1>5
<1> HIDE DEF s, y
<1>7. IsSpacing(s, t, a, v.den)
  <2>1. ASSUME NEW r \in Spacings[t], r < s  PROVE Significand[t] * r * v.den <= n
    <3> DEFINE x == Significand[t] * r
    <3>1. x \in Nat /\ x <= y
      BY <1>1, <1>5, <2>1
    <3> HIDE DEF x
    <3> DEFINE d == v.den
    <3> HIDE DEF d, y
    <3>2. x * v.den <= y * v.den
      <4>1. d \in Nat /\ y \in Nat
        BY <1>4 DEF d
      <4>2. x * d <= y * d
        BY <3>1, <4>1
      <4> QED  BY <4>2 DEF d
    <3>3. x * v.den \in Nat /\ y * v.den \in Nat
      BY <1>4, <3>1
    <3>4. x * v.den <= n
      BY <1>3, <1>4, <3>2, <3>3
    <3> QED  BY <3>4 DEF x
  <2> QED  BY <1>5, <2>1 DEF IsSpacing
<1>8. m \in Nat
  <2>1. v.den * s \in Nat \ {0}
    BY <1>6
  <2>2. HalfEven(n, v.den * s) \in Nat
    BY <1>3, <2>1, HalfEvenNear
  <2> QED  BY <1>6, <2>2 DEF Magnified
<1>9. Rounded(t, v) = f
  BY DEF Rounded, Magnified, s, y
<1>10. f.type = t /\ f.num \in Int /\ f.den \in Nat \ {0} /\ f.num * F = signed * f.den
  <2>1. signed \in Int
    BY <1>8
  <2> HIDE DEF signed
  <2> QED  BY <1>1, <2>1, FractionExact
<1>11. f = [type |-> t, num |-> f.num, den |-> f.den]
  BY DEF Fraction
<1> HIDE DEF f, m, a, F
<1>12. /\ Magnitude(f.num) * F = m * f.den
       /\ f.num < 0 => v.num < 0
       /\ f.num > 0 => v.num > 0
  <2> DEFINE w == m * f.den
  <2>1. w \in Nat
    BY <1>8, <1>10
  <2>2. CASE v.num < 0
    <3>1. signed * f.den = -w
      BY <1>8, <1>10, <2>2
    <3>2. f.num * F = -w
      BY <1>10, <3>1
    <3> HIDE DEF w
    <3>3. f.num <= 0
      <4>1. SUFFICES ASSUME f.num > 0 PROVE FALSE
        BY <1>10
      <4>2. f.num * F > 0
        BY <1>1, <1>10, <4>1
      <4> QED  BY <2>1, <3>2, <4>2
    <3>4. Magnitude(f.num) = -f.num
      BY <1>10, <3>3 DEF Magnitude
    <3>5. (-f.num) * F = -(f.num * F)
      BY <1>1, <1>10
    <3>6. (-f.num) * F = w
      BY <2>1, <3>2, <3>5
    <3> QED  BY <1>10, <2>2, <3>3, <3>4, <3>6 DEF w
  <2>3. CASE ~(v.num < 0)
    <3>1. f.num * F = w
      BY <1>10, <2>3
    <3> HIDE DEF w
    <3>2. f.num >= 0
      <4>1. SUFFICES ASSUME f.num < 0 PROVE FALSE
        BY <1>10
      <4>2. f.num * F < 0
        BY <1>1, <1>10, <4>1
      <4> QED  BY <2>1, <3>1, <4>2
    <3>3. Magnitude(f.num) = f.num
      BY <1>10, <3>2 DEF Magnitude
    <3>4. v.num = 0 => f.num = 0
      <4>1. SUFFICES ASSUME v.num = 0 PROVE f.num = 0
        OBVIOUS
      <4>2. m = 0
        <5>1. a * F = 0 * (v.den * s) /\ v.den * s \in Nat \ {0} /\ a * F \in Nat
          BY <1>1, <1>2, <1>6, <4>1
        <5> DEFINE x == a * F
                   z == v.den * s
        <5> HIDE DEF x, z
        <5>2. x \in Nat /\ z \in Nat \ {0} /\ x <= 0 * z
          BY <5>1 DEF x, z
        <5>3. HalfEven(x, z) \in Nat /\ HalfEven(x, z) <= 0
          BY <5>2, HalfEvenNear
        <5>4. HalfEven(x, z) = 0
          BY <5>3
        <5>5. m = s * HalfEven(x, z)
          BY DEF m, Magnified, F, x, z
        <5> QED  BY <1>6, <5>4, <5>5
      <4>3. f.num * F = 0
        BY <1>10, <3>1, <4>2 DEF w
      <4>4. ASSUME NEW x \in Int, x * F = 0  PROVE x = 0
        BY <1>1, <4>4
      <4> QED  BY <1>10, <4>3, <4>4
    <3> QED  BY <1>10, <2>3, <3>1, <3>2, <3>3, <3>4 DEF w
  <2> QED  BY <2>2, <2>3
<1> QED  BY <1>6, <1>7, <1>8, <1>9, <1>10, <1>11, <1>12 DEF m, a, F

\* Rounding does not leave a range whose ends are numbers of the format.
LEMMA RoundedWithin ==
  ASSUME FormatAssumption, BoundsAssumption, NEW t \in Floats, NEW v, v.num \in Int, v.den \in Nat \ {0}, Within(v, t)
  PROVE  Within(Rounded(t, v), t)
<1> DEFINE F == Finest[t]
           G == Greatest[t]
           S == Significand[t]
           a == Magnitude(v.num)
           d == v.den
<1>1. /\ F \in Nat \ {0} /\ S \in Nat \ {0} /\ Spacings[t] \subseteq Nat \ {0}
      /\ G \in Nat /\ Least[t] = -G
  BY DEF FormatAssumption, BoundsAssumption
<1>2. PICK c \in Spacings[t] : G * F = (S - 1) * c /\ \A r \in Spacings[t] : r <= c
  BY DEF FormatAssumption
<1>3. PICK s \in Nat \ {0}, num \in Int, den \in Nat \ {0} :
        /\ IsSpacing(s, t, a, d) /\ Magnified(s, t, a, d) \in Nat
        /\ Rounded(t, v) = [type |-> t, num |-> num, den |-> den]
        /\ Magnitude(num) * F = Magnified(s, t, a, d) * den
  BY RoundedIs
<1>4. a \in Nat /\ a <= G * d
  <2>1. a \in Nat
    BY MagnitudeType
  <2>2. (-G) * d <= v.num /\ v.num <= G * d
    BY <1>1 DEF Within
  <2>3. (-G) * d = -(G * d)
    BY <1>1
  <2> QED  BY <2>1, <2>2, <2>3 DEF Magnitude
<1> DEFINE m == Magnified(s, t, a, d)
           e == (S - 1) * (c \div s)
<1>5. s \in Spacings[t] /\ c % s = 0
  BY <1>2, <1>3 DEF IsSpacing, FormatAssumption
<1>6. c \div s \in Nat /\ c = s * (c \div s)
  <2>1. c \in Nat
    BY <1>1, <1>2
  <2>2. c = s * (c \div s) + (c % s)
    BY <2>1, Remainder
  <2>3. c \div s \in Nat
    BY <2>1, QuotientBounds
  <2> DEFINE x == c \div s
             z == s * x
  <2>4. z \in Nat
    BY <2>3
  <2> HIDE DEF x, z
  <2>5. c = z
    BY <1>5, <2>1, <2>2, <2>4 DEF x, z
  <2> QED  BY <2>3, <2>5 DEF x, z
<1> HIDE DEF F, G, S, a, d, m
<1>7. e \in Nat /\ G * F = e * s
  <2> DEFINE x == c \div s
  <2>1. x \in Nat /\ S - 1 \in Nat
    BY <1>1, <1>6
  <2> HIDE DEF x
  <2>2. (S - 1) * (s * x) = ((S - 1) * x) * s /\ (S - 1) * x \in Nat
    BY <2>1
  <2> QED  BY <1>2, <1>6, <2>2 DEF x
<1> HIDE DEF e
<1>8. a * F <= e * (d * s)
  <2>1. d \in Nat \ {0}
    BY DEF d
  <2>2. a * F <= (G * d) * F
    BY <1>1, <1>4, <2>1
  <2>3. (G * d) * F = (G * F) * d
    BY <1>1, <2>1
  <2>4. (e * s) * d = e * (d * s)
    BY <1>7, <2>1
  <2> QED  BY <1>7, <2>2, <2>3, <2>4
<1>9. m <= G * F
  <2>1. a * F \in Nat /\ d * s \in Nat \ {0}
    BY <1>1, <1>4 DEF d
  <2>2. HalfEven(a * F, d * s) \in Nat /\ HalfEven(a * F, d * s) <= e
    BY <1>7, <1>8, <2>1, HalfEvenNear
  <2>3. m = s * HalfEven(a * F, d * s)
    BY DEF m, Magnified, F
  <2> DEFINE k == HalfEven(a * F, d * s)
  <2> HIDE DEF k
  <2>4. k \in Nat /\ k <= e /\ m = s * k
    BY <2>2, <2>3 DEF k
  <2>5. s * k <= e * s
    BY <1>7, <2>4
  <2> QED  BY <1>7, <2>4, <2>5
<1>10. Magnitude(num) <= G * den
  <2> DEFINE x == Magnitude(num)
  <2>1. x \in Nat
    BY MagnitudeType
  <2>2. x * F = m * den
    BY <1>3 DEF m, F, a, d
  <2>3. m \in Nat
    BY <1>3 DEF m
  <2> HIDE DEF x
  <2>4. m * den <= (G * F) * den
    BY <1>1, <1>9, <2>3
  <2>5. (G * F) * den = (G * den) * F
    BY <1>1
  <2>6. x * F <= (G * den) * F
    BY <2>2, <2>4, <2>5
  <2> DEFINE z == G * den
  <2>7. z \in Nat
    BY <1>1
  <2> HIDE DEF z
  <2>8. x <= z
    BY <1>1, <2>1, <2>6, <2>7, SMTT(30) DEF z
  <2> QED  BY <2>8 DEF x, z
<1>11. (-G) * den <= num /\ num <= G * den
  <2>1. (-G) * den = -(G * den) /\ G * den \in Nat
    BY <1>1
  <2> QED  BY <1>10, <2>1 DEF Magnitude
<1> QED  BY <1>1, <1>3, <1>11 DEF Within, G

LEMMA RoundedNumber ==
  ASSUME FormatAssumption, NEW t \in Floats, NEW v, v.num \in Int, v.den \in Nat \ {0}
  PROVE  Rounded(t, v) \in [type : {t}, num : Int, den : Nat \ {0}]
<1>1. PICK num \in Int, den \in Nat \ {0} : Rounded(t, v) = [type |-> t, num |-> num, den |-> den]
  BY RoundedIs
<1> QED  BY <1>1

-----------------------------------------------------------------------------
(* Arithmetic.                                                              *)

\* An arithmetic operator that does not divide by zero computes a fraction.
LEMMA Computed ==
  ASSUME NEW op \in Arithmetic, NEW l, NEW r, IsNumber(l), IsNumber(r), ~(op = "/" /\ r.num = 0)
  PROVE  \E n \in Int, d \in Int \ {0} :
           /\ Operation(op, l, r) = Fraction("LREAL", n, d)
           /\ EvalArithmetic(op, l, r) = FromDouble(Rounded("LREAL", Operation(op, l, r)), Wider(l.type, r.type))
<1> DEFINE t == Wider(l.type, r.type)
<1>1. l.type # "TIME" /\ IsNumeric(l.type) /\ IsNumeric(r.type) /\ NumericResultType(l.type, r.type) = t
  BY NumericTypes DEF IsNumber, Numeric, Whole, Floats
<1>2. l.num \in Int /\ r.num \in Int /\ l.den \in Nat \ {0} /\ r.den \in Nat \ {0}
  BY DEF IsNumber
<1>3. \A i, j \in Int \ {0} : i * j \in Int \ {0}
  OBVIOUS
<1>4. l.den * r.den \in Int \ {0} /\ (op = "/" => l.den * r.num \in Int \ {0})
  BY <1>2, <1>3
<1>5. /\ l.num * r.den + r.num * l.den \in Int /\ l.num * r.den - r.num * l.den \in Int
      /\ l.num * r.num \in Int /\ l.num * r.den \in Int
  BY <1>2
<1>6. CASE op = "+"
  <2>1. EvalArithmetic(op, l, r) = FromDouble(Rounded("LREAL", Fraction("LREAL", l.num * r.den + r.num * l.den, l.den * r.den)), t)
    BY <1>1, <1>6 DEF EvalArithmetic
  <2>2. Operation(op, l, r) = Fraction("LREAL", l.num * r.den + r.num * l.den, l.den * r.den)
    BY <1>6 DEF Operation
  <2> QED  BY <1>4, <1>5, <2>1, <2>2
<1>7. CASE op = "-"
  <2>1. EvalArithmetic(op, l, r) = FromDouble(Rounded("LREAL", Fraction("LREAL", l.num * r.den - r.num * l.den, l.den * r.den)), t)
    BY <1>1, <1>7 DEF EvalArithmetic
  <2>2. Operation(op, l, r) = Fraction("LREAL", l.num * r.den - r.num * l.den, l.den * r.den)
    BY <1>7 DEF Operation
  <2> QED  BY <1>4, <1>5, <2>1, <2>2
<1>8. CASE op = "*"
  <2>1. EvalArithmetic(op, l, r) = FromDouble(Rounded("LREAL", Fraction("LREAL", l.num * r.num, l.den * r.den)), t)
    BY <1>1, <1>8 DEF EvalArithmetic
  <2>2. Operation(op, l, r) = Fraction("LREAL", l.num * r.num, l.den * r.den)
    BY <1>8 DEF Operation
  <2> QED  BY <1>4, <1>5, <2>1, <2>2
<1>9. CASE op = "/"
  <2>1. EvalArithmetic(op, l, r) = FromDouble(Rounded("LREAL", Fraction("LREAL", l.num * r.den, l.den * r.num)), t)
    BY <1>1, <1>9 DEF EvalArithmetic
  <2>2. Operation(op, l, r) = Fraction("LREAL", l.num * r.den, l.den * r.num)
    BY <1>9 DEF Operation
  <2> QED  BY <1>4, <1>5, <1>9, <2>1, <2>2
<1> QED  BY <1>6, <1>7, <1>8, <1>9 DEF Arithmetic

LEMMA CoercedNumber ==
  ASSUME NEW v, v.type \in Numeric, NEW t \in Numeric
  PROVE  Assigned(v, t) = IF v.type = t THEN v ELSE FromDouble(v, t)
<1>1. v.type \notin Errors /\ IsNumeric(v.type) /\ IsNumeric(t)
  BY NumericTypes
<1> QED  BY <1>1 DEF Assigned, IsError, CoerceToType

-----------------------------------------------------------------------------
(* Whole numbers.                                                           *)

\* Where numbers are closer than 1 / d, rounding a / d keeps it where it is among the whole
\* numbers: m / F, the rounded magnitude, is on the same side of each.
LEMMA OrderKept ==
  ASSUME FormatAssumption, NEW t \in Floats, NEW a \in Nat, NEW d \in Nat \ {0}, NEW s \in Nat \ {0},
         IsSpacing(s, t, a, d), a < Significand[t], d < 2 * Finest[t], NEW j \in Nat
  PROVE  LET m == Magnified(s, t, a, d) IN
         /\ a < j * d => m < j * Finest[t]
         /\ a = j * d => m = j * Finest[t]
         /\ a > j * d => m > j * Finest[t]
<1> DEFINE F == Finest[t]
           S == Significand[t]
           m == Magnified(s, t, a, d)
<1>1. /\ F \in Nat \ {0} /\ S \in Nat \ {0} /\ Spacings[t] \subseteq Nat \ {0}
      /\ s \in Spacings[t] /\ F \in Spacings[t]
      /\ \A q, r \in Spacings[t] : q <= r => r % q = 0
      /\ s # 1 => \E r \in Spacings[t] : s = 2 * r
  BY DEF FormatAssumption, IsSpacing
<1>2. \A r \in Spacings[t] : r < s => S * r * d <= a * F
  BY DEF IsSpacing
<1>3. a < S /\ d < 2 * F
  OBVIOUS
<1> HIDE DEF F, S, m
<1>4. d * s < 2 * F
  <2>1. CASE s = 1
    BY <1>1, <1>3, <2>1
  <2>2. CASE s # 1
    <3>1. PICK r \in Spacings[t] : s = 2 * r
      BY <1>1, <2>2
    <3>2. r \in Nat \ {0} /\ r < s
      BY <1>1, <3>1
    <3>3. S * r * d <= a * F
      BY <1>2, <3>2
    <3>4. a * F < S * F
      BY <1>1, <1>3
    <3>5. S * r * d = S * (r * d)
      BY <1>1, <3>2
    <3> DEFINE x == r * d
    <3>6. x \in Nat
      BY <3>2
    <3>7. d * s = 2 * x
      BY <3>1, <3>2
    <3> HIDE DEF x
    <3>8. S * x < S * F
      <4> DEFINE u == S * x
                 v == a * F
                 w == S * F
      <4>1. u \in Nat /\ v \in Nat /\ w \in Nat
        BY <1>1, <3>6
      <4>2. u <= v /\ v < w
        BY <3>3, <3>4, <3>5 DEF x
      <4> HIDE DEF u, v, w
      <4>3. u < w
        BY <4>1, <4>2
      <4> QED  BY <4>3 DEF u, w
    <3>9. x < F
      BY <1>1, <3>6, <3>8
    <3> QED  BY <1>1, <3>6, <3>7, <3>9
  <2> QED  BY <2>1, <2>2
<1>5. PICK c \in Nat \ {0} : F = s * c
  <2>1. s <= d * s
    OBVIOUS
  <2>3. s < 2 * F
    <3> DEFINE x == d * s
    <3>1. x \in Nat /\ s <= x /\ x < 2 * F
      BY <1>4, <2>1
    <3> HIDE DEF x
    <3> QED  BY <1>1, <3>1
  <2>4. s <= F
    <3>1. SUFFICES ASSUME F < s PROVE FALSE
      BY <1>1
    <3>2. s % F = 0
      BY <1>1, <3>1
    <3>3. s = F * (s \div F) + (s % F) /\ s \div F \in Int
      BY <1>1, Remainder
    <3> DEFINE x == s \div F
    <3> HIDE DEF x
    <3>4. x \in Int /\ s = F * x
      <4> DEFINE z == F * x
      <4>1. x \in Int /\ z \in Int
        BY <1>1, <3>3 DEF x
      <4> HIDE DEF z
      <4>2. s = z
        BY <3>2, <3>3, <4>1 DEF x, z
      <4> QED  BY <4>1, <4>2 DEF z
    <3>5. x >= 2
      <4>1. SUFFICES ASSUME x <= 1 PROVE FALSE
        BY <3>4
      <4>2. F * x <= F * 1
        BY <1>1, <3>4, <4>1
      <4> QED  BY <1>1, <3>1, <3>4, <4>2
    <3>6. F * x >= F * 2
      BY <1>1, <3>4, <3>5
    <3> QED  BY <1>1, <2>3, <3>4, <3>6
  <2>5. F % s = 0
    BY <1>1, <2>4
  <2>6. F = s * (F \div s) + (F % s) /\ F \div s \in Nat
    <3>0. F \in Nat /\ F \in Int
      BY <1>1
    <3>1. F = s * (F \div s) + (F % s)
      BY <3>0, Remainder, Zenon
    <3>2. F \div s \in Nat
      BY <3>0, QuotientBounds
    <3> QED  BY <3>1, <3>2
  <2> DEFINE x == F \div s
             z == s * x
  <2>7. x \in Nat /\ z \in Nat
    BY <2>6
  <2> HIDE DEF x, z
  <2>8. F = z
    BY <2>5, <2>6, <2>7 DEF x, z
  <2>9. x # 0
    BY <1>1, <2>8 DEF z
  <2> QED  BY <2>7, <2>8, <2>9 DEF z
<1>6. d < 2 * c
  <2>1. d * s < (2 * c) * s
    BY <1>4, <1>5
  <2> QED  BY <2>1
<1> DEFINE n == a * F
           D == d * s
           k == HalfEven(n, D)
<1>7. n \in Nat /\ D \in Nat \ {0} /\ m = s * k
  BY <1>1 DEF m, Magnified, F
<1>8. /\ k \in Nat /\ 2 * (k * D) <= 2 * n + D /\ 2 * n <= 2 * (k * D) + D
      /\ \A i \in Nat : (n <= i * D => k <= i) /\ (i * D <= n => i <= k)
  BY <1>7, HalfEvenNear
<1> HIDE DEF k
\* Everything in multiples of s.
<1>9. /\ 2 * (k * d) <= 2 * (a * c) + d
      /\ 2 * (a * c) <= 2 * (k * d) + d
  <2> DEFINE u == k * d
             v == a * c
  <2>1. u \in Nat /\ v \in Nat /\ k * D = u * s /\ n = v * s /\ D = d * s
    BY <1>5, <1>8
  <2> HIDE DEF u, v, n, D
  <2>2. (2 * u) * s <= (2 * v + d) * s
    <3>1. (2 * v + d) * s = 2 * (v * s) + d * s /\ (2 * u) * s = 2 * (u * s)
      BY <2>1
    <3> QED  BY <1>8, <2>1, <3>1
  <2>3. (2 * v) * s <= (2 * u + d) * s
    <3>1. (2 * u + d) * s = 2 * (u * s) + d * s /\ (2 * v) * s = 2 * (v * s)
      BY <2>1
    <3> QED  BY <1>8, <2>1, <3>1
  <2>4. 2 * u <= 2 * v + d
    BY <2>1, <2>2
  <2>5. 2 * v <= 2 * u + d
    BY <2>1, <2>3
  <2> QED  BY <2>4, <2>5 DEF u, v
<1> DEFINE e == j * c
<1>10. e \in Nat /\ j * F = e * s
  <2>1. j * (s * c) = (j * c) * s
    BY <1>5
  <2> QED  BY <1>5, <2>1
<1>11. e * d = (j * d) * c
  BY <1>5
<1> HIDE DEF e
<1>12. ASSUME a < j * d  PROVE m < j * F
  <2>1. k < e
    <3>1. SUFFICES ASSUME e <= k PROVE FALSE
      BY <1>8, <1>10
    <3>2. e * d <= k * d
      BY <1>8, <1>10, <3>1
    <3> DEFINE x == j * d
    <3>3. x \in Nat /\ a + 1 <= x
      BY <1>12
    <3> HIDE DEF x
    <3>4. (a + 1) * c <= x * c
      BY <1>5, <3>3
    <3>5. (a + 1) * c = a * c + c
      BY <1>5
    <3> DEFINE u == k * d
               v == a * c
               w == x * c
    <3>6. u \in Nat /\ v \in Nat /\ w \in Nat /\ w <= u /\ v + c <= w /\ 2 * u <= 2 * v + d
      BY <1>5, <1>8, <1>9, <1>11, <3>2, <3>3, <3>4, <3>5 DEF x
    <3> HIDE DEF u, v, w
    <3> QED  BY <1>5, <1>6, <3>6
  <2>2. s * k < e * s
    BY <1>8, <1>10, <2>1
  <2> QED  BY <1>7, <1>10, <2>2
<1>13. ASSUME a > j * d  PROVE m > j * F
  <2>1. e < k
    <3>1. SUFFICES ASSUME k <= e PROVE FALSE
      BY <1>8, <1>10
    <3>2. k * d <= e * d
      BY <1>8, <1>10, <3>1
    <3> DEFINE x == j * d
    <3>3. x \in Nat /\ x + 1 <= a
      BY <1>13
    <3> HIDE DEF x
    <3>4. (x + 1) * c <= a * c
      BY <1>5, <3>3
    <3>5. (x + 1) * c = x * c + c
      BY <1>5, <3>3
    <3> DEFINE u == k * d
               v == a * c
               w == x * c
    <3>6. u \in Nat /\ v \in Nat /\ w \in Nat /\ u <= w /\ w + c <= v /\ 2 * v <= 2 * u + d
      BY <1>5, <1>8, <1>9, <1>11, <3>2, <3>3, <3>4, <3>5, SMTT(30) DEF x
    <3> HIDE DEF u, v, w
    <3> QED  BY <1>5, <1>6, <3>6
  <2>2. e * s < s * k
    BY <1>8, <1>10, <2>1
  <2> QED  BY <1>7, <1>10, <2>2
<1>14. ASSUME a = j * d  PROVE m = j * F
  <2>1. n = e * D
    <3>1. (j * d) * F = d * (j * F)
      BY <1>1
    <3>2. d * (e * s) = e * (d * s)
      BY <1>10
    <3> QED  BY <1>10, <1>14, <3>1, <3>2
  <2>2. k <= e /\ e <= k
    BY <1>7, <1>8, <1>10, <2>1
  <2>3. k = e
    BY <1>8, <1>10, <2>2
  <2>4. s * e = e * s
    BY <1>10
  <2> QED  BY <1>7, <1>10, <2>3, <2>4
<1> QED  BY <1>12, <1>13, <1>14 DEF m, F

\* A whole number with as many digits as the format has, or more, does not become smaller
\* than one with fewer.
LEMMA LargeKept ==
  ASSUME FormatAssumption, NEW t \in Floats, NEW a \in Nat, NEW s \in Nat \ {0},
         IsSpacing(s, t, a, 1), Significand[t] <= a
  PROVE  Significand[t] * Finest[t] <= Magnified(s, t, a, 1)
<1> DEFINE F == Finest[t]
           S == Significand[t]
           n == a * F
           k == HalfEven(n, s)
<1>1. /\ F \in Nat \ {0} /\ S \in Nat \ {0} /\ S % 2 = 0 /\ Spacings[t] \subseteq Nat \ {0}
      /\ s \in Spacings[t] /\ F \in Spacings[t]
      /\ \A q, r \in Spacings[t] : q <= r => r % q = 0
      /\ s # 1 => \E r \in Spacings[t] : s = 2 * r
  BY DEF FormatAssumption, IsSpacing
<1>2. \A r \in Spacings[t] : r < s => S * r * 1 <= n
  BY DEF IsSpacing
<1>3. n \in Nat /\ S <= a
  BY <1>1
<1>4. k \in Nat /\ \A i \in Nat : i * s <= n => i <= k
  BY <1>3, HalfEvenNear
<1>5. Magnified(s, t, a, 1) = s * k
  BY DEF Magnified
<1> HIDE DEF F, S, k
<1>6. ASSUME NEW i \in Nat, i * s <= n, S * F <= i * s  PROVE S * F <= s * k
  <2>1. i <= k
    BY <1>4, <1>6
  <2>2. i * s <= s * k
    BY <1>4, <2>1
  <2> DEFINE u == S * F
             v == i * s
             w == s * k
  <2>3. u \in Nat /\ v \in Nat /\ w \in Nat
    BY <1>1, <1>4
  <2> HIDE DEF u, v, w
  <2> QED  BY <1>6, <2>2, <2>3 DEF u, v, w
<1>7. S * F <= n
  BY <1>1, <1>3
<1>8. CASE s <= F
  <2>1. F % s = 0
    BY <1>1, <1>8
  <2>2. F = s * (F \div s) + (F % s) /\ F \div s \in Nat
    <3>0. F \in Nat /\ F \in Int
      BY <1>1
    <3>1. F = s * (F \div s) + (F % s)
      BY <3>0, Remainder, Zenon
    <3>2. F \div s \in Nat
      BY <3>0, QuotientBounds
    <3> QED  BY <3>1, <3>2
  <2> DEFINE c == F \div s
             z == s * c
  <2>3. c \in Nat /\ z \in Nat
    BY <2>2
  <2> HIDE DEF c, z
  <2>4. F = z
    BY <2>1, <2>2, <2>3 DEF c, z
  <2> DEFINE i == S * c
  <2>5. i \in Nat /\ i * s = S * F
    <3>1. (S * c) * s = S * (s * c) /\ S * c \in Nat
      BY <1>1, <2>3
    <3> QED  BY <2>4, <3>1 DEF z
  <2> HIDE DEF i
  <2> DEFINE x == S * F
             y == i * s
  <2>6. x \in Nat /\ y \in Nat /\ y = x
    BY <1>1, <2>5
  <2>7. y <= n /\ x <= y
    <3> HIDE DEF x, y, n
    <3>1. x <= n
      BY <1>7 DEF x
    <3> QED  BY <2>6, <3>1
  <2>8. S * F <= s * k
    BY <1>6, <2>5, <2>7
  <2> QED  BY <1>5, <2>8 DEF F, S
<1>9. CASE F < s
  <2>1. PICK r \in Spacings[t] : s = 2 * r
    BY <1>1, <1>9
  <2>2. r \in Nat \ {0} /\ r < s
    BY <1>1, <2>1
  <2>3. F <= r
    <3>1. s % F = 0
      BY <1>1, <1>9
    <3>2. s = F * (s \div F) + (s % F) /\ s \div F \in Int
      BY <1>1, Remainder
    <3> DEFINE x == s \div F
               z == F * x
    <3>3. x \in Int /\ z \in Int
      BY <1>1, <3>2
    <3> HIDE DEF x, z
    <3>4. s = z
      BY <3>1, <3>2, <3>3 DEF x, z
    <3>5. x >= 2
      <4>1. SUFFICES ASSUME x <= 1 PROVE FALSE
        BY <3>3
      <4>2. F * x <= F * 1
        BY <1>1, <3>3, <4>1
      <4> QED  BY <1>1, <1>9, <3>4, <4>2 DEF z
    <3>6. F * x >= F * 2
      BY <1>1, <3>3, <3>5
    <3> QED  BY <1>1, <2>1, <2>2, <3>4, <3>6 DEF z
  <2>4. PICK h \in Nat : S = 2 * h
    <3>1. S = 2 * (S \div 2) + (S % 2) /\ S \div 2 \in Nat
      BY <1>1, Remainder, QuotientBounds
    <3> QED  BY <1>1, <3>1
  <2>5. S * r * 1 = S * r /\ S * r = h * s
    <3>1. (2 * h) * r = h * (2 * r)
      BY <2>2
    <3>2. S * r * 1 = S * r
      BY <1>1, <2>2
    <3> QED  BY <2>1, <2>4, <3>1, <3>2
  <2>6. S * r <= n
    BY <1>2, <2>2, <2>5
  <2>7. S * F <= S * r
    BY <1>1, <2>2, <2>3
  <2> QED  BY <1>5, <1>6, <2>5, <2>6, <2>7 DEF F, S
<1> QED  BY <1>1, <1>8, <1>9 DEF F

\* f is on the same side of every whole number as q.
Alike(f, q) ==
  /\ f.num < 0 => q.num <= 0
  /\ f.num > 0 => q.num >= 0
  /\ \A j \in Nat : /\ Magnitude(f.num) < j * f.den <=> Magnitude(q.num) < j * q.den
                    /\ Magnitude(f.num) <= j * f.den <=> Magnitude(q.num) <= j * q.den

LEMMA RoundedAlike ==
  ASSUME FormatAssumption, NEW t \in Floats, NEW q, q.num \in Int, q.den \in Nat \ {0},
         Magnitude(q.num) < Significand[t], q.den < 2 * Finest[t]
  PROVE  Alike(Rounded(t, q), q)
<1> DEFINE F == Finest[t]
           a == Magnitude(q.num)
           d == q.den
           f == Rounded(t, q)
<1>1. PICK s \in Nat \ {0}, num \in Int, den \in Nat \ {0} :
        /\ IsSpacing(s, t, a, d) /\ Magnified(s, t, a, d) \in Nat
        /\ f = [type |-> t, num |-> num, den |-> den]
        /\ Magnitude(num) * F = Magnified(s, t, a, d) * den
        /\ num < 0 => q.num < 0
        /\ num > 0 => q.num > 0
  BY RoundedIs
<1> DEFINE m == Magnified(s, t, a, d)
           x == Magnitude(num)
<1>2. F \in Nat \ {0} /\ a \in Nat /\ x \in Nat /\ m \in Nat
  BY <1>1, MagnitudeType DEF FormatAssumption
<1>3. f.num = num /\ f.den = den
  BY <1>1
<1>4. x * F = m * den
  BY <1>1
<1>5. ASSUME NEW j \in Nat
      PROVE  (x < j * den <=> a < j * d) /\ (x <= j * den <=> a <= j * d)
  <2>1. /\ a < j * d => m < j * F
        /\ a = j * d => m = j * F
        /\ a > j * d => m > j * F
    BY <1>1, <1>2, OrderKept
  <2> HIDE DEF m, x, a, d, F
  <2> DEFINE z == j * den
             y == j * F
             w == j * d
  <2>2. z \in Nat /\ y \in Nat /\ w \in Nat
    BY <1>2 DEF d
  <2>3. z * F = y * den
    BY <1>2
  <2> HIDE DEF y, z, w
  <2>4. m < y => x < z
    <3>1. SUFFICES ASSUME m < y, z <= x PROVE FALSE
      BY <1>2, <2>2
    <3>2. m * den < y * den
      BY <1>2, <2>2, <3>1
    <3>3. z * F <= x * F
      BY <1>2, <2>2, <3>1
    <3>4. m * den \in Nat /\ y * den \in Nat
      BY <1>2, <2>2
    <3> QED  BY <1>4, <2>3, <3>2, <3>3, <3>4
  <2>5. m > y => x > z
    <3>1. SUFFICES ASSUME m > y, x <= z PROVE FALSE
      BY <1>2, <2>2
    <3>2. m * den > y * den
      BY <1>2, <2>2, <3>1
    <3>3. x * F <= z * F
      BY <1>2, <2>2, <3>1
    <3>4. m * den \in Nat /\ y * den \in Nat
      BY <1>2, <2>2
    <3> QED  BY <1>4, <2>3, <3>2, <3>3, <3>4
  <2>6. m = y => x = z
    <3>1. SUFFICES ASSUME m = y PROVE x = z
      OBVIOUS
    <3>2. x * F = z * F
      BY <1>4, <2>3, <3>1
    <3> QED  BY <1>2, <2>2, <3>2
  <2>7. (a < w => m < y) /\ (a = w => m = y) /\ (a > w => m > y)
    BY <2>1 DEF y, w
  <2>8. (x < z <=> a < w) /\ (x <= z <=> a <= w)
    BY <1>2, <2>2, <2>4, <2>5, <2>6, <2>7
  <2> QED  BY <2>8 DEF z, w
<1> HIDE DEF f, m, F
<1>6. (num < 0 => q.num <= 0) /\ (num > 0 => q.num >= 0)
  BY <1>1
<1> QED  BY <1>3, <1>5, <1>6 DEF Alike, f

LEMMA AlikeWithin ==
  ASSUME BoundsAssumption, NEW t \in Whole, NEW f, NEW q, Alike(f, q),
         f.num \in Int, f.den \in Nat \ {0}, q.num \in Int, q.den \in Nat \ {0}
  PROVE  Within(f, t) <=> Within(q, t)
<1> DEFINE lo == -Least[t]
           hi == Greatest[t]
<1>1. lo \in Nat /\ hi \in Nat /\ Least[t] = -lo
  BY DEF BoundsAssumption
<1> HIDE DEF lo, hi
<1>2. ASSUME NEW v, v.num \in Int, v.den \in Nat \ {0}
      PROVE  Within(v, t) <=> /\ v.num < 0 => Magnitude(v.num) <= lo * v.den
                              /\ v.num > 0 => Magnitude(v.num) <= hi * v.den
  <2>1. (-lo) * v.den = -(lo * v.den) /\ lo * v.den \in Nat /\ hi * v.den \in Nat
    BY <1>1, <1>2
  <2>2. Within(v, t) <=> -(lo * v.den) <= v.num /\ v.num <= hi * v.den
    BY <1>1, <2>1 DEF Within, hi
  <2> DEFINE x == lo * v.den
             y == hi * v.den
  <2> HIDE DEF x, y
  <2>3. x \in Nat /\ y \in Nat /\ (Within(v, t) <=> -x <= v.num /\ v.num <= y)
    BY <2>1, <2>2 DEF x, y
  <2>4. Within(v, t) <=> /\ v.num < 0 => Magnitude(v.num) <= x
                         /\ v.num > 0 => Magnitude(v.num) <= y
    BY <1>2, <2>3 DEF Magnitude
  <2> QED  BY <2>4 DEF x, y
<1>3. /\ Magnitude(f.num) <= lo * f.den <=> Magnitude(q.num) <= lo * q.den
      /\ Magnitude(f.num) <= hi * f.den <=> Magnitude(q.num) <= hi * q.den
  BY <1>1 DEF Alike
<1>4. ASSUME NEW v, v.num \in Int, v.den \in Nat \ {0}, v.num = 0, NEW j \in Nat
      PROVE  Magnitude(v.num) <= j * v.den
  <2>1. Magnitude(v.num) = 0 /\ j * v.den \in Nat
    BY <1>4 DEF Magnitude
  <2> QED  BY <2>1
<1>5. (f.num < 0 => q.num <= 0) /\ (f.num > 0 => q.num >= 0)
  BY DEF Alike
<1>6. /\ q.num = 0 => Magnitude(q.num) <= lo * q.den /\ Magnitude(q.num) <= hi * q.den
      /\ f.num = 0 => Magnitude(f.num) <= lo * f.den /\ Magnitude(f.num) <= hi * f.den
  BY <1>1, <1>4
<1>7. Within(f, t) <=> /\ f.num < 0 => Magnitude(f.num) <= lo * f.den
                       /\ f.num > 0 => Magnitude(f.num) <= hi * f.den
  BY <1>2
<1>8. Within(q, t) <=> /\ q.num < 0 => Magnitude(q.num) <= lo * q.den
                       /\ q.num > 0 => Magnitude(q.num) <= hi * q.den
  BY <1>2
<1> DEFINE A == Magnitude(f.num) <= lo * f.den
           B == Magnitude(f.num) <= hi * f.den
           C == Magnitude(q.num) <= lo * q.den
           D == Magnitude(q.num) <= hi * q.den
<1> HIDE DEF A, B, C, D
<1>9. /\ A <=> C
      /\ B <=> D
      /\ q.num = 0 => C /\ D
      /\ f.num = 0 => A /\ B
      /\ Within(f, t) <=> (f.num < 0 => A) /\ (f.num > 0 => B)
      /\ Within(q, t) <=> (q.num < 0 => C) /\ (q.num > 0 => D)
  BY <1>3, <1>6, <1>7, <1>8 DEF A, B, C, D
<1> QED  BY <1>5, <1>9

LEMMA AlikeWhole ==
  ASSUME NEW f, NEW q, Alike(f, q),
         f.num \in Int, f.den \in Nat \ {0}, q.num \in Int, q.den \in Nat \ {0}
  PROVE  Whole0(f) = Whole0(q)
<1> DEFINE n == Truncated(q)
           x == Magnitude(f.num)
           y == Magnitude(q.num)
           j == Magnitude(n)
<1>1. n \in Int /\ IsWholePart(n, q) /\ Whole0(q) = n
  BY TruncatedIsWholePart
<1> HIDE DEF n
<1>2. x \in Nat /\ y \in Nat /\ j \in Nat
  BY <1>1, MagnitudeType
<1>3. j * q.den <= y /\ y < (j + 1) * q.den
  BY <1>1 DEF IsWholePart
<1>4. /\ x < j * f.den <=> y < j * q.den
      /\ x < (j + 1) * f.den <=> y < (j + 1) * q.den
  BY <1>2 DEF Alike
<1>5. j * f.den <= x /\ x < (j + 1) * f.den
  <2>1. j * f.den \in Nat /\ j * q.den \in Nat
    BY <1>2
  <2> HIDE DEF x, y, j
  <2> QED  BY <1>2, <1>3, <1>4, <2>1
<1>6. j <= x
  <2>1. j <= j * f.den
    BY <1>2
  <2>2. j * f.den \in Nat
    BY <1>2
  <2> HIDE DEF x, j
  <2> QED  BY <1>2, <1>5, <2>1, <2>2
<1>7. n \in -x..x
  BY <1>1, <1>2, <1>6 DEF Magnitude
<1>8. n * f.num >= 0
  <2>1. n * q.num >= 0
    BY <1>1 DEF IsWholePart
  <2>2. (f.num < 0 => q.num <= 0) /\ (f.num > 0 => q.num >= 0)
    BY DEF Alike
  <2>3. q.num = 0 => n = 0
    <3>1. SUFFICES ASSUME q.num = 0 PROVE n = 0
      OBVIOUS
    <3>2. y = 0
      BY <3>1 DEF Magnitude
    <3>3. n \in -0..0
      BY <1>1, <3>2 DEF IsWholePart
    <3> QED  BY <3>3
  <2>4. CASE f.num < 0
    <3>1. n <= 0
      <4>1. CASE q.num < 0
        <5>1. SUFFICES ASSUME n > 0 PROVE FALSE
          BY <1>1
        <5>2. n * q.num < 0
          BY <1>1, <4>1, <5>1
        <5> QED  BY <1>1, <2>1, <5>2
      <4> QED  BY <2>2, <2>3, <2>4, <4>1
    <3> QED  BY <1>1, <2>4, <3>1
  <2>5. CASE f.num > 0
    <3>1. n >= 0
      <4>1. CASE q.num > 0
        <5>1. SUFFICES ASSUME n < 0 PROVE FALSE
          BY <1>1
        <5>2. n * q.num < 0
          BY <1>1, <4>1, <5>1
        <5> QED  BY <1>1, <2>1, <5>2
      <4> QED  BY <2>2, <2>3, <2>5, <4>1
    <3> QED  BY <1>1, <2>5, <3>1
  <2>6. CASE f.num = 0
    BY <1>1, <2>6
  <2> QED  BY <2>4, <2>5, <2>6
<1>9. IsWholePart(n, f)
  BY <1>5, <1>7, <1>8 DEF IsWholePart
<1>10. Whole0(f) = Truncated(f) /\ IsWholePart(Truncated(f), f)
  BY TruncatedIsWholePart
<1> QED  BY <1>1, <1>9, <1>10, WholePartUnique

\* A double keeps a large whole number beyond the range of every whole type.
LEMMA RoundedBeyond ==
  ASSUME FormatAssumption, BoundsAssumption, DoubleAssumption, NEW q, q.num \in Int, q.den = 1,
         Significand["LREAL"] <= Magnitude(q.num), NEW t \in Whole
  PROVE  ~Within(q, t) /\ ~Within(Rounded("LREAL", q), t)
<1> DEFINE F == Finest["LREAL"]
           S == Significand["LREAL"]
           a == Magnitude(q.num)
           f == Rounded("LREAL", q)
           lo == -Least[t]
           hi == Greatest[t]
<1>1. "LREAL" \in Floats /\ F \in Nat \ {0} /\ S \in Nat \ {0} /\ a \in Nat
  BY MagnitudeType DEF FormatAssumption, Floats
<1>2. lo \in Nat /\ hi \in Nat /\ lo < S /\ hi < S /\ Least[t] = -lo
  BY DEF BoundsAssumption, DoubleAssumption
<1>3. PICK s \in Nat \ {0}, num \in Int, den \in Nat \ {0} :
        /\ IsSpacing(s, "LREAL", a, 1) /\ Magnified(s, "LREAL", a, 1) \in Nat
        /\ f = [type |-> "LREAL", num |-> num, den |-> den]
        /\ Magnitude(num) * F = Magnified(s, "LREAL", a, 1) * den
  BY <1>1, RoundedIs
<1> DEFINE m == Magnified(s, "LREAL", a, 1)
           x == Magnitude(num)
<1>4. S * F <= m /\ m \in Nat /\ x \in Nat
  BY <1>1, <1>3, LargeKept, MagnitudeType
<1>5. x * F = m * den /\ S <= a /\ f.num = num /\ f.den = den
  BY <1>3
<1> HIDE DEF F, S, m, x, f
<1>6. S * den <= x
  <2>1. (S * F) * den <= m * den
    BY <1>1, <1>4
  <2>2. (S * F) * den = (S * den) * F
    BY <1>1
  <2>3. (S * den) * F <= x * F
    BY <1>5, <2>1, <2>2
  <2> DEFINE z == S * den
  <2>4. z \in Nat
    BY <1>1
  <2> HIDE DEF z
  <2>5. z <= x
    BY <1>1, <1>4, <2>3, <2>4 DEF z
  <2> QED  BY <2>5 DEF z
<1>7. ASSUME NEW v, v.num \in Int, v.den \in Nat \ {0}, S * v.den <= Magnitude(v.num), Within(v, t)
      PROVE  FALSE
  <2> DEFINE u == lo * v.den
             w == hi * v.den
             z == S * v.den
  <2>1. u \in Nat /\ w \in Nat /\ z \in Nat /\ (-lo) * v.den = -u
    BY <1>1, <1>2, <1>7
  <2>2. u < z /\ w < z
    BY <1>1, <1>2, <1>7
  <2>3. -u <= v.num /\ v.num <= w
    BY <1>2, <1>7, <2>1 DEF Within
  <2> HIDE DEF u, w, z
  <2>4. z <= Magnitude(v.num)
    BY <1>7 DEF z
  <2> QED  BY <1>7, <2>1, <2>2, <2>3, <2>4 DEF Magnitude
<1>8. S * q.den <= Magnitude(q.num) /\ q.den \in Nat \ {0}
  BY <1>1, <1>5
<1>9. S * f.den <= Magnitude(f.num) /\ f.num \in Int /\ f.den \in Nat \ {0}
  BY <1>5, <1>6 DEF x
<1> QED  BY <1>7, <1>8, <1>9 DEF f

\* Cancelling makes a fraction no larger.
LEMMA FractionSmall ==
  ASSUME NEW t, NEW n \in Int, NEW d \in Int \ {0}
  PROVE  LET f == Fraction(t, n, d) IN Magnitude(f.num) <= Magnitude(n) /\ f.den <= Magnitude(d)
<1> DEFINE f == Fraction(t, n, d)
           a == Magnitude(n)
           b == Magnitude(d)
<1>1. a \in Nat /\ b \in Nat \ {0}
  BY MagnitudeType
<1>2. PICK g \in Nat \ {0}, i \in Nat, j \in Nat \ {0} :
        /\ g = gcd[b][a] /\ a = g * i /\ b = g * j /\ a \div g = i /\ b \div g = j
        /\ IsGcd(g, a, b)
  BY Cancelled
<1>3. f.den = j
  BY <1>2 DEF Fraction
<1>4. f.num = i \/ f.num = -i
  <2>1. f.num = (IF d < 0 THEN -1 ELSE 1) * (IF n < 0 THEN -(a \div g) ELSE n \div g)
    BY <1>2 DEF Fraction
  <2>2. (IF n < 0 THEN -(a \div g) ELSE n \div g) \in {-i, i}
    <3>1. CASE n < 0
      BY <1>2, <3>1
    <3>2. CASE ~(n < 0)
      <4>1. a = n
        BY <3>2 DEF Magnitude
      <4> QED  BY <1>2, <3>2, <4>1
    <3> QED  BY <3>1, <3>2
  <2> DEFINE z == IF n < 0 THEN -(a \div g) ELSE n \div g
  <2> HIDE DEF z
  <2>3. z \in {-i, i} /\ f.num = (IF d < 0 THEN -1 ELSE 1) * z
    BY <2>1, <2>2 DEF z
  <2> HIDE DEF f
  <2> QED  BY <2>3
<1>5. i <= a /\ j <= b
  <2>1. i <= g * i /\ j <= g * j
    OBVIOUS
  <2> HIDE DEF a, b
  <2> QED  BY <1>2, <2>1
<1> HIDE DEF f, a, b
<1>6. Magnitude(f.num) = i
  BY <1>4 DEF Magnitude
<1> QED  BY <1>3, <1>5, <1>6 DEF f, a, b

\* The sum, difference, product or quotient of whole numbers of the types is a fraction that
\* a double places right among the whole numbers, or a whole number no type can hold.
LEMMA OperationSmall ==
  ASSUME FormatAssumption, BoundsAssumption, DoubleAssumption, NEW op \in Arithmetic, NEW l, NEW r, IsValue(l), IsValue(r),
         l.type \in Whole, r.type \in Whole, ~(op = "/" /\ r.num = 0)
  PROVE  LET q == Operation(op, l, r) IN
         /\ q.num \in Int /\ q.den \in Nat \ {0}
         /\ \/ Magnitude(q.num) < Significand["LREAL"] /\ q.den < 2 * Finest["LREAL"]
            \/ Significand["LREAL"] <= Magnitude(q.num) /\ q.den = 1
<1> DEFINE q == Operation(op, l, r)
           S == Significand["LREAL"]
           F == Finest["LREAL"]
<1>1. S \in Nat \ {0} /\ F \in Nat \ {0}
  BY DEF FormatAssumption, Floats
<1>2. /\ l.num \in Int /\ r.num \in Int /\ l.den = 1 /\ r.den = 1
      /\ Within(l, l.type) /\ Within(r, r.type)
  BY DEF IsValue, Whole, Floats
<1>3. ASSUME NEW v, v.num \in Int, v.den = 1, v.type \in Whole, Within(v, v.type)
      PROVE  Magnitude(v.num) < S /\ Magnitude(v.num) < 2 * F
  <2> DEFINE lo == Least[v.type]
             hi == Greatest[v.type]
  <2>1. lo \in Int /\ hi \in Int /\ -lo < S /\ hi < S /\ -lo < 2 * F /\ hi < 2 * F
    BY <1>3 DEF BoundsAssumption, DoubleAssumption
  <2>2. lo * 1 <= v.num /\ v.num <= hi * 1
    BY <1>3 DEF Within
  <2> HIDE DEF lo, hi, S, F
  <2> QED  BY <1>1, <1>3, <2>1, <2>2 DEF Magnitude
<1>4. CASE op = "/"
  <2>1. q = Fraction("LREAL", l.num * 1, 1 * r.num)
    BY <1>2, <1>4 DEF Operation
  <2>2. l.num * 1 = l.num /\ 1 * r.num = r.num /\ r.num \in Int \ {0}
    BY <1>2, <1>4
  <2>3. q = Fraction("LREAL", l.num, r.num)
    BY <2>1, <2>2
  <2> HIDE DEF q, S, F
  <2>4. q.num \in Int /\ q.den \in Nat \ {0}
    BY <1>2, <2>2, <2>3, FractionExact
  <2>5. Magnitude(q.num) <= Magnitude(l.num) /\ q.den <= Magnitude(r.num)
    BY <1>2, <2>2, <2>3, FractionSmall
  <2>6. Magnitude(l.num) < S /\ Magnitude(r.num) < 2 * F
    BY <1>2, <1>3
  <2>7. Magnitude(q.num) \in Nat /\ Magnitude(l.num) \in Nat /\ Magnitude(r.num) \in Nat
    BY <1>2, <2>4, MagnitudeType
  <2>8. Magnitude(q.num) < S /\ q.den < 2 * F
    BY <1>1, <2>4, <2>5, <2>6, <2>7
  <2> QED  BY <2>4, <2>8 DEF q, S, F
<1>5. CASE op # "/"
  <2>1. PICK n \in Int : q = Fraction("LREAL", n, 1)
    <3>1. CASE op = "+"
      <4>1. q = Fraction("LREAL", l.num * 1 + r.num * 1, 1 * 1)
        BY <1>2, <3>1 DEF Operation
      <4>2. 1 * 1 = 1 /\ l.num * 1 + r.num * 1 \in Int
        BY <1>2
      <4> QED  BY <4>1, <4>2
    <3>2. CASE op = "-"
      <4>1. q = Fraction("LREAL", l.num * 1 - r.num * 1, 1 * 1)
        BY <1>2, <3>2 DEF Operation
      <4>2. 1 * 1 = 1 /\ l.num * 1 - r.num * 1 \in Int
        BY <1>2
      <4> QED  BY <4>1, <4>2
    <3>3. CASE op = "*"
      <4>1. q = Fraction("LREAL", l.num * r.num, 1 * 1)
        BY <1>2, <3>3 DEF Operation
      <4>2. 1 * 1 = 1 /\ l.num * r.num \in Int
        BY <1>2
      <4> QED  BY <4>1, <4>2
    <3> QED  BY <1>5, <3>1, <3>2, <3>3 DEF Arithmetic
  <2> HIDE DEF q, S, F
  <2>2. q.num \in Int /\ q.den \in Nat \ {0}
    BY <2>1, FractionExact
  <2>3. q.den <= Magnitude(1) /\ Magnitude(1) = 1
    BY <2>1, FractionSmall DEF Magnitude
  <2>4. q.den = 1 /\ Magnitude(q.num) \in Nat
    BY <2>2, <2>3, MagnitudeType
  <2>5. Magnitude(q.num) < S \/ S <= Magnitude(q.num)
    BY <1>1, <2>4
  <2>6. q.den < 2 * F
    BY <1>1, <2>4
  <2> QED  BY <2>2, <2>4, <2>5, <2>6 DEF q, S, F
<1> QED  BY <1>4, <1>5

\* value_ops.hpp: arithmetic on whole numbers in doubles, with its roundings, range checks and
\* casts, is exact: what is assigned of a sum, difference, product or quotient is the number
\* without its fraction, refused only for a divisor of zero or when the wider type of the
\* operands or the target cannot hold it.
THEOREM WholeNumbersExact ==
  ASSUME FormatAssumption, BoundsAssumption, DoubleAssumption, NEW op \in Arithmetic, NEW l, NEW r, IsValue(l), IsValue(r),
         l.type \in Whole, r.type \in Whole, NEW target \in Whole
  PROVE  RightOrRefused(op, l, r, target, Assigned(EvalArithmetic(op, l, r), target))
<1> DEFINE t == Wider(l.type, r.type)
           v == EvalArithmetic(op, l, r)
           w == Assigned(v, target)
           q == Operation(op, l, r)
           f == Rounded("LREAL", q)
<1>0. IsNumber(l) /\ IsNumber(r)
  BY DEF IsValue, IsNumber, Numeric
<1>1. t \in Whole
  BY DEF Wider, Whole
<1>2. CASE op = "/" /\ r.num = 0
  <2>1. l.type # "TIME" /\ IsNumeric(l.type) /\ IsNumeric(r.type)
    BY DEF Whole, IsNumeric, Rank
  <2>2. v = Failed("division by zero")
    BY <1>2, <2>1 DEF EvalArithmetic
  <2> HIDE DEF v
  <2>3. IsError(v)
    BY <2>2 DEF IsError, Failed, Of, Errors
  <2>4. w = Failed("division by zero")
    BY <2>2, <2>3 DEF Assigned
  <2> QED  BY <1>2, <2>4 DEF RightOrRefused, v
<1>3. CASE ~(op = "/" /\ r.num = 0)
  <2>1. PICK n \in Int, d \in Int \ {0} : q = Fraction("LREAL", n, d) /\ v = FromDouble(f, t)
    BY <1>0, <1>3, Computed
  <2>2. /\ q.num \in Int /\ q.den \in Nat \ {0}
        /\ \/ Magnitude(q.num) < Significand["LREAL"] /\ q.den < 2 * Finest["LREAL"]
           \/ Significand["LREAL"] <= Magnitude(q.num) /\ q.den = 1
    BY <1>3, OperationSmall
  <2> HIDE DEF q, t, v, w
  <2>3. "LREAL" \in Floats /\ t \in Numeric /\ target \in Numeric
    BY <1>1 DEF Floats, Numeric
  <2>4. f.num \in Int /\ f.den \in Nat \ {0}
    <3>1. f \in [type : {"LREAL"}, num : Int, den : Nat \ {0}]
      BY <2>2, <2>3, RoundedNumber
    <3> HIDE DEF f
    <3> QED  BY <3>1
  <2>5. /\ Within(f, t) <=> Within(q, t)
        /\ Within(q, t) => Whole0(f) = Whole0(q)
    <3>1. CASE Magnitude(q.num) < Significand["LREAL"] /\ q.den < 2 * Finest["LREAL"]
      <4>1. Alike(f, q)
        BY <2>2, <2>3, <3>1, RoundedAlike
      <4> HIDE DEF f
      <4> QED  BY <1>1, <2>2, <2>4, <4>1, AlikeWithin, AlikeWhole
    <3>2. CASE Significand["LREAL"] <= Magnitude(q.num) /\ q.den = 1
      BY <1>1, <2>2, <3>2, RoundedBeyond
    <3> QED  BY <2>2, <3>1, <3>2
  <2> HIDE DEF f
  <2>6. v = IF Within(q, t) THEN Of(t, Whole0(q)) ELSE Failed("overflow")
    <3>1. v = IF ~Within(f, t) THEN Failed("overflow")
              ELSE IF t \in Whole THEN Of(t, Whole0(f))
              ELSE IF t = "REAL" THEN Rounded(t, f) ELSE [f EXCEPT !.type = t]
      BY <2>1, <2>3, <2>4, FromDoubleIs
    <3> QED  BY <1>1, <2>5, <3>1
  <2>7. v \in Converted(q, t)
    BY <1>1, <2>6 DEF Converted
  <2>8. CASE ~Within(q, t)
    <3>1. v = Failed("overflow")
      BY <2>6, <2>8
    <3>2. IsError(v)
      BY <3>1 DEF IsError, Failed, Of, Errors
    <3>3. w = v
      BY <3>2 DEF w, Assigned
    <3>4. \E x \in Converted(q, t) : IF IsError(x) THEN w = x ELSE w \in Converted(x, target)
      BY <2>7, <3>2, <3>3
    <3> QED  BY <1>3, <3>4 DEF RightOrRefused, w, v, t, q
  <2>9. CASE Within(q, t)
    <3>1. v = [type |-> t, num |-> Whole0(q), den |-> 1] /\ Whole0(q) \in Int
      BY <2>2, <2>6, <2>9, TruncatedIsWholePart DEF Of
    <3>2. v.type = t /\ v.num \in Int /\ v.den = 1
      BY <3>1
    <3>3. Converted(v, target) = {IF Within(v, target) THEN Of(target, Whole0(v)) ELSE Failed("overflow")}
      BY DEF Converted
    <3>4. ~IsError(v)
      BY <1>1, <3>2 DEF IsError, Errors, Whole
    <3>5. w \in Converted(v, target)
      <4>1. CASE t = target
        <5>1. w = v
          BY <2>3, <3>2, <4>1, CoercedNumber DEF w
        <5>2. Within(v, t)
          <6>1. Least[t] <= Whole0(q) /\ Whole0(q) <= Greatest[t]
            <7>1. Truncated(q) = Whole0(q)
              BY <2>2, TruncatedIsWholePart
            <7>2. Least[t] <= Truncated(q) /\ Truncated(q) <= Greatest[t]
              BY <2>2, <2>3, <2>9, TruncatedWithin
            <7> QED  BY <7>1, <7>2
          <6>2. Least[t] \in Int /\ Greatest[t] \in Int
            BY <1>1 DEF BoundsAssumption
          <6>3. v.num = Whole0(q)
            BY <3>1
          <6> QED  BY <3>2, <6>1, <6>2, <6>3 DEF Within
        <5>3. Whole0(v) = v.num
          <6> DEFINE k == v.num
          <6> HIDE DEF k
          <6>1. k \in Int
            BY <3>2 DEF k
          <6>2. Magnitude(k) \in Nat /\ k \in -Magnitude(k)..Magnitude(k) /\ k * k >= 0
            BY <6>1 DEF Magnitude
          <6>3. Magnitude(k) * 1 <= Magnitude(k) /\ Magnitude(k) < (Magnitude(k) + 1) * 1
            BY <6>2
          <6>4. IsWholePart(k, v)
            BY <3>2, <6>2, <6>3 DEF IsWholePart, k
          <6>5. Whole0(v) = Truncated(v) /\ IsWholePart(Truncated(v), v)
            BY <3>2, TruncatedIsWholePart
          <6> QED  BY <3>2, <6>4, <6>5, WholePartUnique DEF k
        <5>4. v = Of(t, v.num)
          BY <3>1, <3>2 DEF Of
        <5> QED  BY <3>3, <4>1, <5>1, <5>2, <5>3, <5>4
      <4>2. CASE t # target
        <5>1. w = FromDouble(v, target)
          BY <2>3, <3>2, <4>2, CoercedNumber DEF w
        <5>2. FromDouble(v, target) = IF ~Within(v, target) THEN Failed("overflow")
                ELSE IF target \in Whole THEN Of(target, Whole0(v))
                ELSE IF target = "REAL" THEN Rounded(target, v) ELSE [v EXCEPT !.type = target]
          BY <2>3, <3>2, FromDoubleIs
        <5> QED  BY <3>3, <5>1, <5>2
      <4> QED  BY <4>1, <4>2
    <3>6. \E x \in Converted(q, t) : IF IsError(x) THEN w = x ELSE w \in Converted(x, target)
      BY <2>7, <3>4, <3>5
    <3> QED  BY <1>3, <3>6 DEF RightOrRefused, w, v, t, q
  <2> QED  BY <2>8, <2>9
<1> QED  BY <1>2, <1>3

-----------------------------------------------------------------------------
(* Typed operators.                                                         *)

\* What an operation that types allow may still end in.
Refusals == {Failed("overflow"), Failed("division by zero")}
\* A value of type t, or a refusal.
Proper(v, t) == (IsValue(v) /\ v.type = t) \/ v \in Refusals

LEMMA RefusalIsError ==
  ASSUME NEW v \in Refusals
  PROVE  IsError(v)
<1>1. PICK e \in {"overflow", "division by zero"} : v = Failed(e)
  BY DEF Refusals
<1>2. v.type = e
  BY <1>1 DEF Failed, Of
<1> QED  BY <1>2 DEF IsError, Errors

LEMMA ValueIsNoError ==
  ASSUME NEW v, IsValue(v)
  PROVE  ~IsError(v) /\ (v.type \in Numeric => IsNumber(v))
<1>1. v.type \in Types /\ v.num \in Int /\ v.den \in Nat \ {0}
  BY DEF IsValue
<1> QED  BY <1>1, NumericTypes DEF IsError, IsNumber

LEMMA TruthTyped ==
  ASSUME NEW b
  PROVE  IsValue(Truth(b)) /\ Truth(b).type = "BOOL"
<1> DEFINE n == IF b THEN 1 ELSE 0
<1>1. n \in {0, 1}
  OBVIOUS
<1>2. Truth(b) = [type |-> "BOOL", num |-> n, den |-> 1]
  BY DEF Truth, Of
<1> HIDE DEF n
<1> QED  BY <1>1, <1>2 DEF IsValue, Types

\* A number converted to a type fits it, or is refused.
LEMMA FromDoubleTyped ==
  ASSUME BoundsAssumption, FormatAssumption, NEW t \in Numeric, NEW s, NEW v \in [type : {s}, num : Int, den : Nat \ {0}]
  PROVE  Proper(FromDouble(v, t), t)
<1> DEFINE w == FromDouble(v, t)
<1>1. v.num \in Int /\ v.den \in Nat \ {0}
  OBVIOUS
<1>2. w = IF ~Within(v, t) THEN Failed("overflow")
          ELSE IF t \in Whole THEN Of(t, Whole0(v))
          ELSE IF t = "REAL" THEN Rounded(t, v) ELSE [v EXCEPT !.type = t]
  BY <1>1, FromDoubleIs
<1>3. t \in Types /\ t \notin {"BOOL", "STRING"}
  BY DEF Numeric, Whole, Floats, Types
<1> HIDE DEF w
<1>4. CASE ~Within(v, t)
  BY <1>2, <1>4 DEF Proper, Refusals, w
<1>5. CASE Within(v, t) /\ t \in Whole
  <2> DEFINE n == Whole0(v)
  <2>1. n \in Int /\ Least[t] <= n /\ n <= Greatest[t]
    BY <1>1, <1>5, TruncatedIsWholePart, TruncatedWithin
  <2>2. Least[t] \in Int /\ Greatest[t] \in Int
    BY DEF BoundsAssumption, Numeric
  <2>3. w = [type |-> t, num |-> n, den |-> 1]
    BY <1>2, <1>5 DEF Of
  <2> HIDE DEF n
  <2>4. Within(w, t)
    BY <2>1, <2>2, <2>3 DEF Within
  <2>5. w \in [type : Types, num : Int, den : Nat \ {0}] /\ w.den = 1 /\ w.type = t
    BY <1>3, <2>1, <2>3
  <2>6. IsValue(w)
    BY <1>3, <2>4, <2>5 DEF IsValue
  <2> QED  BY <2>5, <2>6 DEF Proper, w
<1>6. CASE Within(v, t) /\ t \notin Whole
  <2>1. t \in Floats
    BY <1>6 DEF Numeric
  <2>2. w \in [type : {t}, num : Int, den : Nat \ {0}] /\ Within(w, t)
    <3>1. CASE t = "REAL"
      <4>1. w = Rounded(t, v)
        BY <1>2, <1>6, <3>1
      <4> QED  BY <1>1, <1>6, <2>1, <4>1, RoundedNumber, RoundedWithin
    <3>2. CASE t # "REAL"
      <4>1. w = [type |-> t, num |-> v.num, den |-> v.den]
        BY <1>2, <1>6, <3>2
      <4> QED  BY <1>1, <1>6, <4>1 DEF Within
    <3> QED  BY <3>1, <3>2
  <2>3. w \in [type : Types, num : Int, den : Nat \ {0}] /\ w.type = t
    BY <1>3, <2>2
  <2>4. IsValue(w)
    BY <1>3, <2>1, <2>2, <2>3 DEF IsValue
  <2> QED  BY <2>3, <2>4 DEF Proper, w
<1> QED  BY <1>4, <1>5, <1>6

\* The literals of whole numbers, which a cast brings into their type, are values of it.
LEMMA WrappedTyped ==
  ASSUME BoundsAssumption, NEW t \in Whole, NEW n \in Int
  PROVE  /\ IsValue(Of(t, Wrapped(t, n)))
         /\ n \in Least[t]..Greatest[t] => Wrapped(t, n) = n
<1> DEFINE lo == Least[t]
           hi == Greatest[t]
           size == hi - lo + 1
           w == Wrapped(t, n)
<1>1. lo \in Int /\ hi \in Int /\ lo <= 0 /\ 0 < hi
  BY DEF BoundsAssumption
<1>2. size \in Nat \ {0}
  BY <1>1
<1>3. w = lo + ((n - lo) % size)
  BY DEF Wrapped
<1> HIDE DEF lo, hi, w
<1>4. (n - lo) % size \in 0..size - 1
  BY <1>1, <1>2, Remainder
<1>5. w \in lo..hi
  BY <1>1, <1>3, <1>4
<1>6. n \in lo..hi => w = n
  <2>1. n \in lo..hi => n - lo \in 0..size - 1
    BY <1>1
  <2>2. \A k \in 0..size - 1 : k % size = k
    BY <1>2
  <2> QED  BY <1>1, <1>3, <2>1, <2>2
<1>7. IsValue(Of(t, w))
  <2> DEFINE v == Of(t, w)
  <2>1. v = [type |-> t, num |-> w, den |-> 1]
    BY DEF Of
  <2>2. t \in Types /\ t \notin {"REAL", "LREAL", "BOOL", "STRING"}
    BY DEF Whole, Types
  <2> HIDE DEF v
  <2>3. Within(v, t)
    BY <1>1, <1>5, <2>1 DEF Within, lo, hi
  <2> QED  BY <1>1, <1>5, <2>1, <2>2, <2>3 DEF IsValue, v
<1> QED  BY <1>6, <1>7 DEF lo, hi, w

LEMMA CoerceTyped ==
  ASSUME BoundsAssumption, FormatAssumption, NEW v, IsValue(v), NEW t \in Types
  PROVE  /\ v.type = t \/ (IsNumeric(v.type) /\ IsNumeric(t)) => Proper(Assigned(v, t), t)
         /\ Proper(Assigned(v, t), t) \/ Assigned(v, t) = Failed("type mismatch")
<1>1. ~IsError(v)
  BY ValueIsNoError
<1>2. v \in [type : {v.type}, num : Int, den : Nat \ {0}] /\ v.type \in Types
  BY DEF IsValue
<1>3. CASE v.type = t
  BY <1>1, <1>3 DEF Assigned, CoerceToType, Proper
<1>4. CASE v.type # t /\ IsNumeric(v.type) /\ IsNumeric(t)
  <2>1. t \in Numeric
    BY <1>4, NumericTypes
  <2>2. Assigned(v, t) = FromDouble(v, t)
    BY <1>1, <1>4 DEF Assigned, CoerceToType
  <2>3. Proper(FromDouble(v, t), t)
    BY <1>2, <2>1, FromDoubleTyped
  <2> QED  BY <2>2, <2>3
<1>5. CASE v.type # t /\ ~(IsNumeric(v.type) /\ IsNumeric(t))
  BY <1>1, <1>5 DEF Assigned, CoerceToType
<1> QED  BY <1>3, <1>4, <1>5

LEMMA UnaryTyped ==
  ASSUME BoundsAssumption, FormatAssumption, TimeAssumption, NEW op \in {"NOT", "-"}, NEW v, IsValue(v), UnaryType(op, v.type) # "none"
  PROVE  Proper(EvalUnary(op, v), UnaryType(op, v.type))
<1>1. v \in [type : {v.type}, num : Int, den : Nat \ {0}] /\ v.type \in Types
  BY DEF IsValue
<1>2. UnaryType(op, v.type) = v.type /\ (op = "NOT" => v.type = "BOOL") /\ (op = "-" => v.type \in {"TIME"} \cup Numeric)
  BY DEF UnaryType, Numeric
<1>3. CASE op = "NOT"
  <2>1. EvalUnary(op, v) = Truth(~IsTrue(v))
    BY <1>2, <1>3 DEF EvalUnary
  <2> QED  BY <1>2, <1>3, <2>1, TruthTyped DEF Proper
<1>4. CASE op = "-" /\ v.type = "TIME"
  <2> DEFINE lo == Least["TIME"]
             hi == Greatest["TIME"]
  <2>1. lo \in Int /\ hi \in Int /\ lo <= -hi /\ -lo <= hi + 1
    BY DEF BoundsAssumption, TimeAssumption
  <2>2. v.den = 1 /\ Within(v, "TIME")
    BY <1>4 DEF IsValue, Floats
  <2>3. lo <= v.num /\ v.num <= hi
    BY <1>1, <2>1, <2>2 DEF Within
  <2>4. CASE v.num = lo
    <3>1. EvalUnary(op, v) = Failed("overflow")
      BY <1>4, <2>4 DEF EvalUnary
    <3> QED  BY <3>1 DEF Proper, Refusals
  <2>5. CASE v.num # lo
    <3> DEFINE w == EvalUnary(op, v)
    <3>1. w = [type |-> "TIME", num |-> -v.num, den |-> 1]
      BY <1>1, <1>4, <2>2, <2>5 DEF EvalUnary, Negated
    <3> HIDE DEF w, lo, hi
    <3>2. lo * 1 <= -v.num /\ -v.num <= hi * 1
      BY <1>1, <2>1, <2>3, <2>5
    <3>3. Within(w, "TIME")
      BY <3>1, <3>2 DEF Within, lo, hi
    <3>4. IsValue(w) /\ w.type = "TIME"
      BY <1>1, <3>1, <3>3 DEF IsValue, Types
    <3> QED  BY <1>2, <1>4, <3>4 DEF Proper, w
  <2> QED  BY <2>4, <2>5
<1>5. CASE op = "-" /\ v.type # "TIME"
  <2> DEFINE w == Negated(v)
  <2>1. v.type \in Numeric /\ IsNumeric(v.type)
    BY <1>2, <1>5, NumericTypes
  <2>2. EvalUnary(op, v) = FromDouble(w, v.type)
    BY <1>5, <2>1 DEF EvalUnary
  <2>3. w \in [type : {v.type}, num : Int, den : Nat \ {0}]
    BY <1>1 DEF Negated
  <2> HIDE DEF w
  <2> QED  BY <1>2, <2>1, <2>2, <2>3, FromDoubleTyped
<1> QED  BY <1>3, <1>4, <1>5

LEMMA TimeTyped ==
  ASSUME BoundsAssumption, NEW op \in {"+", "-"}, NEW l, NEW r, l.num \in Int, r.num \in Int
  PROVE  Proper(TimeArithmetic(op, l, r), "TIME")
<1> DEFINE n == IF op = "+" THEN l.num + r.num ELSE l.num - r.num
           w == TimeArithmetic(op, l, r)
<1>1. n \in Int /\ Least["TIME"] \in Int /\ Greatest["TIME"] \in Int
  BY DEF BoundsAssumption
<1>2. w = IF n \notin Least["TIME"]..Greatest["TIME"] THEN Failed("overflow") ELSE Of("TIME", n)
  BY DEF TimeArithmetic
<1> HIDE DEF n, w
<1>3. CASE n \in Least["TIME"]..Greatest["TIME"]
  <2>1. w = [type |-> "TIME", num |-> n, den |-> 1]
    BY <1>2, <1>3 DEF Of
  <2>2. Within(w, "TIME")
    BY <1>1, <1>3, <2>1 DEF Within
  <2>3. IsValue(w) /\ w.type = "TIME"
    BY <1>1, <2>1, <2>2 DEF IsValue, Types
  <2> QED  BY <2>3 DEF Proper, w
<1>4. CASE n \notin Least["TIME"]..Greatest["TIME"]
  BY <1>2, <1>4 DEF Proper, Refusals, w
<1> QED  BY <1>3, <1>4

\* Values whose types the check lets an operator join give a value of the type it predicts.
LEMMA BinaryTyped ==
  ASSUME BoundsAssumption, FormatAssumption, NEW op \in Arithmetic \cup Comparison \cup Logical,
         NEW l, NEW r, IsValue(l), IsValue(r), BinaryType(op, l.type, r.type) # "none"
  PROVE  Proper(Binary(op, l, r), BinaryType(op, l.type, r.type))
<1>1. /\ ~IsError(l) /\ ~IsError(r) /\ l.type \in Types /\ r.type \in Types
      /\ l.num \in Int /\ r.num \in Int
  BY ValueIsNoError DEF IsValue
<1>2. l.type # "none" /\ r.type # "none"
  BY <1>1 DEF Types
<1>3. CASE op \in Arithmetic
  <2>1. Binary(op, l, r) = EvalArithmetic(op, l, r)
    BY <1>1, <1>3 DEF Binary, Arithmetic, Comparison, Logical
  <2>2. CASE l.type = "TIME" /\ r.type = "TIME"
    <3>1. op \in {"+", "-"} /\ BinaryType(op, l.type, r.type) = "TIME"
      <4>1. ~IsNumeric("TIME")
        BY DEF IsNumeric, Rank
      <4> QED  BY <1>3, <2>2, <4>1 DEF BinaryType, Arithmetic, Comparison, Logical
    <3>2. EvalArithmetic(op, l, r) = TimeArithmetic(op, l, r)
      BY <2>2 DEF EvalArithmetic
    <3> QED  BY <1>1, <2>1, <3>1, <3>2, TimeTyped
  <2>3. CASE ~(l.type = "TIME" /\ r.type = "TIME")
    <3> DEFINE t == Wider(l.type, r.type)
    <3>1. IsNumeric(l.type) /\ IsNumeric(r.type) /\ BinaryType(op, l.type, r.type) = NumericResultType(l.type, r.type)
      BY <1>2, <1>3, <2>3 DEF BinaryType, Arithmetic, Comparison, Logical
    <3>2. IsNumber(l) /\ IsNumber(r) /\ l.type \in Numeric /\ r.type \in Numeric
      BY <1>1, <3>1, NumericTypes, ValueIsNoError
    <3>3. NumericResultType(l.type, r.type) = t /\ t \in Numeric
      BY <3>2, NumericTypes
    <3>4. CASE op = "/" /\ r.num = 0
      <4>1. EvalArithmetic(op, l, r) = Failed("division by zero")
        BY <2>3, <3>1, <3>4 DEF EvalArithmetic
      <4> QED  BY <2>1, <4>1 DEF Proper, Refusals
    <3>5. CASE ~(op = "/" /\ r.num = 0)
      <4>1. PICK n \in Int, d \in Int \ {0} :
              /\ Operation(op, l, r) = Fraction("LREAL", n, d)
              /\ EvalArithmetic(op, l, r) = FromDouble(Rounded("LREAL", Operation(op, l, r)), t)
        BY <1>3, <3>2, <3>5, Computed
      <4> DEFINE q == Operation(op, l, r)
                 f == Rounded("LREAL", q)
      <4>2. q.num \in Int /\ q.den \in Nat \ {0}
        BY <4>1, FractionExact
      <4> HIDE DEF q, t
      <4>3. f \in [type : {"LREAL"}, num : Int, den : Nat \ {0}]
        BY <4>2, RoundedNumber DEF Floats
      <4> HIDE DEF f
      <4>5. Proper(FromDouble(f, t), t)
        BY <3>3, <4>3, FromDoubleTyped
      <4> QED  BY <2>1, <3>1, <3>3, <4>1, <4>5 DEF f, q
    <3> QED  BY <3>4, <3>5
  <2> QED  BY <2>2, <2>3
<1>4. CASE op \in Comparison
  <2>1. BinaryType(op, l.type, r.type) = "BOOL" /\ Comparable(op, l.type, r.type)
    BY <1>2, <1>4 DEF BinaryType, Comparable, Arithmetic, Comparison, Logical
  <2>2. Binary(op, l, r) = EvalComparison(op, l, r)
    BY <1>1, <1>4 DEF Binary, Arithmetic, Comparison, Logical
  <2> DEFINE x == l.num * r.den - r.num * l.den
  <2>3. Binary(op, l, r) = Truth(Compare(op, x))
    BY <2>1, <2>2 DEF EvalComparison
  <2>4. IsValue(Binary(op, l, r)) /\ Binary(op, l, r).type = "BOOL"
    BY <2>3, TruthTyped
  <2> QED  BY <2>1, <2>4 DEF Proper
<1>5. CASE op \in Logical
  <2>1. BinaryType(op, l.type, r.type) = "BOOL" /\ l.type = "BOOL" /\ r.type = "BOOL"
    BY <1>5 DEF BinaryType, Arithmetic, Comparison, Logical
  <2>2. Binary(op, l, r) = EvalLogical(op, l, r)
    BY <1>1, <1>5 DEF Binary, Arithmetic, Comparison, Logical
  <2>3. \E b : EvalLogical(op, l, r) = Truth(b)
    BY <1>5, <2>1 DEF EvalLogical, Logical
  <2>4. IsValue(Binary(op, l, r)) /\ Binary(op, l, r).type = "BOOL"
    BY <2>2, <2>3, TruthTyped
  <2> QED  BY <2>1, <2>4 DEF Proper
<1> QED  BY <1>3, <1>4, <1>5

-----------------------------------------------------------------------------
(* Whole expressions.  E holds expressions and the operands of its members; *)
(* they end, because an operand is less high than what it is part of.       *)

AreExpressions(E, tags, height) ==
  /\ height \in [E -> Nat]
  /\ \A e \in E :
       \/ e.kind = "Literal" /\ IsValue(e.value)
       \/ e.kind = "Identifier" /\ e.tag \in DOMAIN tags
       \/ e.kind = "Unary" /\ e.op \in {"NOT", "-"} /\ e.operand \in E /\ height[e.operand] < height[e]
       \/ /\ e.kind = "Binary" /\ e.op \in Arithmetic \cup Comparison \cup Logical
          /\ e.lhs \in E /\ e.rhs \in E /\ height[e.lhs] < height[e] /\ height[e.rhs] < height[e]
\* What Generator::type gives each of them, and Interpreter::evaluate.
AreTypes(type, E, tags) == \A e \in E : type[e] = TypeOf(e, tags, [x \in Operands(e) |-> type[x]])
AreResults(result, E, value) == \A e \in E : result[e] = ValueOf(e, value, [x \in Operands(e) |-> result[x]])

\* One node, when its operands are sound.
LEMMA NodeTypeSound ==
  ASSUME BoundsAssumption, FormatAssumption, TimeAssumption, NEW E, NEW tags, NEW value, NEW height, NEW type, NEW result,
         AreExpressions(E, tags, height), WellTyped(tags, value),
         AreTypes(type, E, tags), AreResults(result, E, value),
         NEW e \in E, type[e] # "none",
         \A x \in E : height[x] < height[e] /\ type[x] # "none" => Proper(result[x], type[x])
  PROVE  Proper(result[e], type[e])
<1> DEFINE types == [x \in Operands(e) |-> type[x]]
           results == [x \in Operands(e) |-> result[x]]
<1>1. type[e] = TypeOf(e, tags, types) /\ result[e] = ValueOf(e, value, results)
  BY DEF AreTypes, AreResults
<1>2. CASE e.kind = "Literal"
  <2>1. IsValue(e.value)
    BY <1>2 DEF AreExpressions
  <2>2. type[e] = e.value.type /\ result[e] = e.value
    BY <1>1, <1>2 DEF TypeOf, ValueOf
  <2> QED  BY <2>1, <2>2 DEF Proper
<1>3. CASE e.kind = "Identifier"
  <2>1. e.tag \in DOMAIN tags
    BY <1>3 DEF AreExpressions
  <2>2. type[e] = tags[e.tag].type /\ result[e] = value[e.tag]
    BY <1>1, <1>3 DEF TypeOf, ValueOf
  <2> QED  BY <2>1, <2>2 DEF Proper, WellTyped
<1>4. CASE e.kind = "Unary"
  <2> DEFINE x == e.operand
  <2>1. e.op \in {"NOT", "-"} /\ x \in E /\ height[x] < height[e]
    BY <1>4 DEF AreExpressions
  <2>2. x \in Operands(e)
    BY <1>4 DEF Operands
  <2>3. types[x] = type[x] /\ results[x] = result[x]
    BY <2>2
  <2> HIDE DEF types, results
  <2>4. type[e] = UnaryType(e.op, type[x]) /\ result[e] = Unary(e.op, result[x])
    BY <1>1, <1>4, <2>3 DEF TypeOf, ValueOf
  <2>5. type[x] # "none"
    BY <2>4 DEF UnaryType
  <2>6. Proper(result[x], type[x])
    BY <2>1, <2>5
  <2>7. CASE result[x] \in Refusals
    BY <2>4, <2>7, RefusalIsError DEF Unary, Proper
  <2>8. CASE IsValue(result[x]) /\ result[x].type = type[x]
    <3>1. result[e] = EvalUnary(e.op, result[x])
      BY <2>4, <2>8, ValueIsNoError DEF Unary
    <3>2. UnaryType(e.op, result[x].type) # "none"
      BY <2>4, <2>8
    <3>3. Proper(EvalUnary(e.op, result[x]), UnaryType(e.op, result[x].type))
      BY <2>1, <2>8, <3>2, UnaryTyped
    <3> QED  BY <2>4, <2>8, <3>1, <3>3
  <2> QED  BY <2>6, <2>7, <2>8 DEF Proper
<1>5. CASE e.kind = "Binary"
  <2> DEFINE x == e.lhs
             y == e.rhs
  <2>1. /\ e.op \in Arithmetic \cup Comparison \cup Logical
        /\ x \in E /\ y \in E /\ height[x] < height[e] /\ height[y] < height[e]
    BY <1>5 DEF AreExpressions
  <2>2. x \in Operands(e) /\ y \in Operands(e)
    BY <1>5 DEF Operands
  <2>3. types[x] = type[x] /\ results[x] = result[x] /\ types[y] = type[y] /\ results[y] = result[y]
    BY <2>2
  <2> HIDE DEF types, results
  <2>4. type[e] = BinaryType(e.op, type[x], type[y]) /\ result[e] = Binary(e.op, result[x], result[y])
    BY <1>1, <1>5, <2>3 DEF TypeOf, ValueOf
  <2>5. type[x] # "none" /\ type[y] # "none"
    <3>1. BinaryType(e.op, type[x], type[y]) # "none"
      BY <2>4
    <3>2. e.op \in Arithmetic \/ e.op \in Comparison \/ e.op \in Logical
      BY <2>1
    <3> DEFINE o == e.op
    <3> HIDE DEF o
    <3>3. ASSUME NEW a, NEW b, o \in Arithmetic \/ o \in Comparison \/ o \in Logical, BinaryType(o, a, b) # "none"
          PROVE  a # "none" /\ b # "none"
      BY <3>3 DEF BinaryType, Arithmetic, Comparison, Logical
    <3> QED  BY <3>1, <3>2, <3>3 DEF o
  <2>6. Proper(result[x], type[x]) /\ Proper(result[y], type[y])
    BY <2>1, <2>5
  <2>7. CASE result[x] \in Refusals
    <3>1. result[e] = result[x]
      BY <2>4, <2>7, RefusalIsError DEF Binary
    <3> QED  BY <2>7, <3>1 DEF Proper
  <2>8. CASE IsValue(result[x]) /\ result[x].type = type[x] /\ result[y] \in Refusals
    <3>1. result[e] = result[y]
      BY <2>4, <2>8, RefusalIsError, ValueIsNoError DEF Binary
    <3> QED  BY <2>8, <3>1 DEF Proper
  <2>9. CASE IsValue(result[x]) /\ result[x].type = type[x] /\ IsValue(result[y]) /\ result[y].type = type[y]
    <3>1. BinaryType(e.op, result[x].type, result[y].type) # "none"
      BY <2>4, <2>9
    <3>2. Proper(Binary(e.op, result[x], result[y]), BinaryType(e.op, result[x].type, result[y].type))
      BY <2>1, <2>9, <3>1, BinaryTyped
    <3> QED  BY <2>4, <2>9, <3>2
  <2> QED  BY <2>6, <2>7, <2>8, <2>9 DEF Proper
<1> QED  BY <1>2, <1>3, <1>4, <1>5 DEF AreExpressions

\* plc_codegen/main.cpp, interpreter.cpp: an expression that the type check accepts, however
\* deep, evaluates over well typed tags to a value of the type the check gave it and within
\* the range of that type, or is refused for an overflow or a division by zero.  It never
\* meets a value of a wrong type.
THEOREM ExpressionsTypeSound ==
  ASSUME BoundsAssumption, FormatAssumption, TimeAssumption, NEW E, NEW tags, NEW value, NEW height, NEW type, NEW result,
         AreExpressions(E, tags, height), WellTyped(tags, value),
         AreTypes(type, E, tags), AreResults(result, E, value)
  PROVE  \A e \in E : type[e] # "none" => Proper(result[e], type[e])
<1> DEFINE Sound(e) == type[e] # "none" => Proper(result[e], type[e])
           Bad == {n \in Nat : \E e \in E : height[e] = n /\ ~Sound(e)}
           R == {ss \in Nat \X Nat : ss[1] < ss[2]}
<1> HIDE DEF Sound
<1>1. \A e \in E : height[e] \in Nat
  BY DEF AreExpressions
<1>2. SUFFICES ASSUME Bad # {} PROVE FALSE
  <2>1. ASSUME Bad = {}, NEW e \in E PROVE Sound(e)
    BY <1>1, <2>1
  <2> QED  BY <2>1 DEF Sound
<1>3. PICK n \in Bad : \A k \in Bad : <<k, n>> \notin R
  <2>1. IsWellFoundedOn(R, Nat)
    BY NatLessThanWellFounded, Zenon DEF OpToRel
  <2>2. Bad \subseteq Nat
    OBVIOUS
  <2> HIDE DEF R, Bad
  <2> QED  BY <1>2, <2>1, <2>2, WFMin
<1>4. n \in Nat
  OBVIOUS
<1>5. PICK e \in E : height[e] = n /\ ~Sound(e)
  OBVIOUS
<1>6. ASSUME NEW x \in E, height[x] < height[e] PROVE Sound(x)
  <2>1. <<height[x], n>> \in R
    BY <1>1, <1>4, <1>5, <1>6
  <2>2. height[x] \notin Bad
    <3> HIDE DEF R, Bad
    <3> QED  BY <1>3, <2>1
  <2> QED  BY <1>1, <2>2
<1> HIDE DEF Bad, R
<1>7. Sound(e)
  <2>1. SUFFICES ASSUME type[e] # "none" PROVE Proper(result[e], type[e])
    BY DEF Sound
  <2>2. \A x \in E : height[x] < height[e] /\ type[x] # "none" => Proper(result[x], type[x])
    BY <1>6 DEF Sound
  <2> QED  BY <2>1, <2>2, NodeTypeSound
<1> QED  BY <1>5, <1>7

-----------------------------------------------------------------------------
(* Assignments.                                                             *)

\* The memory of an engine, whose tags all hold values of their types.
IsMemory(P, m) ==
  /\ m = [value |-> m.value, error |-> m.error, idle |-> m.idle, gap |-> m.gap]
  /\ m.value = [i \in DOMAIN P.tags |-> m.value[i]]
  /\ WellTyped(P.tags, m.value)

LEMMA StoreTyped ==
  ASSUME BoundsAssumption, NEW P, NEW m, IsMemory(P, m), NEW tag \in DOMAIN P.tags, NEW v,
         LET w == Assigned(v, P.tags[tag].type) IN Proper(w, P.tags[tag].type) \/ IsError(w)
  PROVE  LET w == Assigned(v, P.tags[tag].type)
             after == Store(P, m, tag, v)
         IN IsMemory(P, after) /\ after.error = IF IsError(w) THEN w.type ELSE m.error
<1> DEFINE t == P.tags[tag].type
           w == Assigned(v, t)
           after == Store(P, m, tag, v)
<1>1. after = IF IsError(w) THEN [m EXCEPT !.error = w.type] ELSE [m EXCEPT !.value[tag] = w]
  BY DEF Store, Raise
<1>2. /\ m = [value |-> m.value, error |-> m.error, idle |-> m.idle, gap |-> m.gap]
      /\ m.value = [i \in DOMAIN P.tags |-> m.value[i]]
      /\ WellTyped(P.tags, m.value)
  BY DEF IsMemory
<1> HIDE DEF w, after
<1>3. CASE IsError(w)
  <2>1. after = [value |-> m.value, error |-> w.type, idle |-> m.idle, gap |-> m.gap]
    BY <1>1, <1>2, <1>3
  <2>2. after.value = m.value /\ after.error = w.type /\ after.idle = m.idle /\ after.gap = m.gap
    BY <2>1
  <2>3. IsMemory(P, after)
    BY <1>2, <2>1, <2>2 DEF IsMemory
  <2> QED  BY <1>3, <2>2, <2>3 DEF after, w
<1>4. CASE ~IsError(w)
  <2> DEFINE values == [m.value EXCEPT ![tag] = w]
  <2>1. after = [value |-> values, error |-> m.error, idle |-> m.idle, gap |-> m.gap]
    BY <1>1, <1>2, <1>4
  <2>2. values = [i \in DOMAIN P.tags |-> IF i = tag THEN w ELSE m.value[i]]
    BY <1>2
  <2>3. IsValue(w) /\ w.type = t
    BY <1>4, RefusalIsError DEF Proper, w
  <2> HIDE DEF values
  <2>4. WellTyped(P.tags, values)
    BY <1>2, <2>2, <2>3 DEF WellTyped
  <2>5. after.value = values /\ after.error = m.error /\ after.idle = m.idle /\ after.gap = m.gap
    BY <2>1
  <2>6. values = [i \in DOMAIN P.tags |-> values[i]]
    BY <2>2
  <2>7. IsMemory(P, after)
    BY <2>1, <2>4, <2>5, <2>6 DEF IsMemory
  <2> QED  BY <1>4, <2>5, <2>7 DEF after, w
<1> QED  BY <1>3, <1>4

\* value_ops.hpp: whatever is assigned to a tag, its value keeps the tag's type and range; what
\* does not fit is refused and changes no tag.
THEOREM StoresKeepTypes ==
  ASSUME BoundsAssumption, FormatAssumption, NEW P, NEW m, IsMemory(P, m), NEW tag \in DOMAIN P.tags, NEW v, IsValue(v) \/ IsError(v)
  PROVE  LET after == Store(P, m, tag, v)
         IN IsMemory(P, after) /\ (after.error # m.error => after.value = m.value)
<1> DEFINE t == P.tags[tag].type
           w == Assigned(v, t)
           after == Store(P, m, tag, v)
<1>1. t \in Types
  BY DEF IsMemory, WellTyped, IsValue
<1>2. Proper(w, t) \/ IsError(w)
  <2>1. CASE IsError(v)
    BY <2>1 DEF Assigned
  <2>2. CASE IsValue(v)
    <3>1. Proper(w, t) \/ w = Failed("type mismatch")
      BY <1>1, <2>2, CoerceTyped
    <3>2. IsError(Failed("type mismatch"))
      BY DEF IsError, Failed, Of, Errors
    <3> QED  BY <3>1, <3>2
  <2> QED  BY <2>1, <2>2
<1>3. IsMemory(P, after) /\ after.error = IF IsError(w) THEN w.type ELSE m.error
  BY <1>2, StoreTyped
<1>4. IsError(w) => after.value = m.value
  <2>1. m = [value |-> m.value, error |-> m.error, idle |-> m.idle, gap |-> m.gap]
    BY DEF IsMemory
  <2>2. IsError(w) => after = [m EXCEPT !.error = w.type]
    BY DEF Store, Raise
  <2> HIDE DEF w, after
  <2> QED  BY <2>1, <2>2
<1> QED  BY <1>3, <1>4

\* plc_codegen/main.cpp: an assignment the type check accepts writes a value of the target's
\* type or ends the scan with an overflow or a division by zero, and with nothing else.
THEOREM AssignmentsTypeSound ==
  ASSUME BoundsAssumption, FormatAssumption, NEW P, NEW m, IsMemory(P, m), NEW tag \in DOMAIN P.tags,
         NEW t, Assignable(P, tag, t), NEW v, Proper(v, t)
  PROVE  LET after == Store(P, m, tag, v)
         IN IsMemory(P, after) /\ after.error \in {m.error, "overflow", "division by zero"}
<1> DEFINE u == P.tags[tag].type
           w == Assigned(v, u)
           after == Store(P, m, tag, v)
<1>1. u \in Types
  BY DEF IsMemory, WellTyped, IsValue
<1>2. Proper(w, u)
  <2>1. CASE v \in Refusals
    BY <2>1, RefusalIsError DEF Assigned, Proper
  <2>2. CASE IsValue(v) /\ v.type = t
    <3>1. v.type = u \/ (IsNumeric(v.type) /\ IsNumeric(u))
      BY <2>2 DEF Assignable
    <3> QED  BY <1>1, <2>2, <3>1, CoerceTyped
  <2> QED  BY <2>1, <2>2 DEF Proper
<1>3. IsMemory(P, after) /\ after.error = IF IsError(w) THEN w.type ELSE m.error
  BY <1>2, StoreTyped
<1>4. IsError(w) => w.type \in {"overflow", "division by zero"}
  <2>1. SUFFICES ASSUME IsError(w) PROVE w.type \in {"overflow", "division by zero"}
    OBVIOUS
  <2>2. w \in Refusals
    BY <1>2, <2>1, ValueIsNoError DEF Proper
  <2> HIDE DEF w
  <2>3. PICK e \in {"overflow", "division by zero"} : w = Failed(e)
    BY <2>2 DEF Refusals
  <2>4. w.type = e
    BY <2>3 DEF Failed, Of
  <2> QED  BY <2>4
<1> QED  BY <1>3, <1>4
=============================================================================
