---------------------------- MODULE RowValuesProofs ----------------------------
(***************************************************************************)
(* What the spelling of values does to hashes, payloads and reports, for   *)
(* any rows, texts, dates and numbers, of any length and precision.        *)
(*                                                                         *)
(* The argument: a canonical number is what is left when the zeros go that *)
(* nothing needs, and at a common scale two numbers are compared as        *)
(* integers; so they have one canonical form exactly when they are equal   *)
(* (CanonicalNumbers).  Digits are read as they were spelled, by induction *)
(* over the number, so a payload gives back what it was made of            *)
(* (ScalarRoundTrip).  The invariant says of every row that its payload is *)
(* of a valid row kept since, and of the store after an import that it     *)
(* hashes like the workbook.  What hashes alike is alike for both reports. *)
(***************************************************************************)
EXTENDS RowValues, FiniteSetTheorems, SequenceTheorems, TLAPS

-----------------------------------------------------------------------------
(* Numbers.                                                                *)

\* A set of naturals has a least one: the segments below its members are finite sets,
\* and among those one is contained in no other.
LEMMA LeastNat ==
    ASSUME NEW T, T \subseteq Nat, T # {}
    PROVE  \E x \in T : \A y \in T : x <= y
  <1> DEFINE starts == {1..n : n \in T}
  <1>1. starts \subseteq FiniteSubsetsOf(Nat)
    <2>1. \A n \in T : 1..n \in SUBSET Nat /\ IsFiniteSet(1..n)
      BY FS_Interval
    <2> QED
      BY <2>1 DEF FiniteSubsetsOf
  <1>2. starts # {}
    OBVIOUS
  <1>3. IsWellFoundedOn(StrictSubsetOrdering(Nat), FiniteSubsetsOf(Nat))
    BY FS_StrictSubsetOrderingWellFounded
  <1> HIDE DEF starts
  <1>4. PICK s \in starts : \A t \in starts : <<t, s>> \notin StrictSubsetOrdering(Nat)
    BY <1>1, <1>2, <1>3, WFMin
  <1>5. PICK x \in T : s = 1..x
    BY DEF starts
  <1>6. ASSUME NEW y \in T, ~(x <= y)
        PROVE  FALSE
    <2>1. 1..y \in starts
      BY DEF starts
    <2>2. x \in 1..x /\ x \notin 1..y
      BY <1>6
    <2>3. 1..y \subseteq 1..x /\ 1..y # 1..x
      BY <2>2, <1>6
    <2>4. <<1..y, 1..x>> \in StrictSubsetOrdering(Nat)
      BY <2>3 DEF StrictSubsetOrdering
    <2> QED
      BY <2>1, <2>4, <1>4, <1>5
  <1> QED
    BY <1>6

\* Induction, with the set of the numbers for which it is so far known: the least
\* number outside of it would have one before it that is in.
LEMMA Induct ==
    ASSUME NEW T, 0 \in T, \A n \in Nat : n \in T => n + 1 \in T
    PROVE  Nat \subseteq T
  <1> DEFINE bad == Nat \ T
  <1>1. SUFFICES ASSUME bad # {} PROVE FALSE
    OBVIOUS
  <1>2. PICK x \in bad : \A y \in bad : x <= y
    BY <1>1, LeastNat
  <1>3. x - 1 \in Nat /\ x - 1 \in T
    BY <1>2
  <1> QED
    BY <1>2, <1>3

\* The greatest of some numbers up to n.
LEMMA GreatestOf ==
    ASSUME NEW n \in Nat, NEW T \in SUBSET (0..n), T # {}
    PROVE  Max(T) \in T /\ \A x \in T : x <= Max(T)
  <1> DEFINE below == {n - x : x \in T}
  <1>1. below \subseteq Nat /\ below # {}
    <2>1. \A x \in T : n - x \in Nat
      OBVIOUS
    <2>2. \E x \in T : n - x \in below
      OBVIOUS
    <2> QED
      BY <2>1, <2>2
  <1>2. PICK b \in below : \A y \in below : b <= y
    BY <1>1, LeastNat
  <1>3. \E m \in T : \A x \in T : m >= x
    <2>1. PICK m \in T : b = n - m
      OBVIOUS
    <2>2. \A x \in T : n - x \in below
      OBVIOUS
    <2> HIDE DEF below
    <2> QED
      BY <1>2, <2>1, <2>2
  <1>4. Max(T) \in T /\ \A x \in T : Max(T) >= x
    BY <1>3 DEF Max
  <1> QED
    BY <1>4

\* The lesser of two.
LEMMA LesserOf ==
    ASSUME NEW a \in Int, NEW b \in Int
    PROVE  Min({a, b}) = IF a <= b THEN a ELSE b
  <1>1. \E m \in {a, b} : \A x \in {a, b} : m <= x
    OBVIOUS
  <1>2. Min({a, b}) \in {a, b} /\ \A x \in {a, b} : Min({a, b}) <= x
    BY <1>1 DEF Min
  <1> QED
    BY <1>2

\* The first powers of ten.
Powers(n, f) == f = [k \in 0..n |-> IF k = 0 THEN 1 ELSE 10 * f[k - 1]]

\* They can be counted up.
LEMMA PowersExist ==
    ASSUME NEW n \in Nat
    PROVE  \E f : Powers(n, f)
  <1> DEFINE T == {m \in Nat : \E f : Powers(m, f)}
  <1>1. 0 \in T
    <2> DEFINE g == [k \in 0..0 |-> 1]
    <2>1. Powers(0, g)
      BY DEF Powers
    <2> QED
      BY <2>1
  <1>2. ASSUME NEW m \in Nat, m \in T
        PROVE  m + 1 \in T
    <2>1. PICK f : Powers(m, f)
      BY <1>2
    <2> DEFINE g == [k \in 0..(m + 1) |-> IF k <= m THEN f[k] ELSE 10 * f[m]]
    <2>2. ASSUME NEW k \in 0..(m + 1)
          PROVE  g[k] = IF k = 0 THEN 1 ELSE 10 * g[k - 1]
      <3>1. CASE k <= m
        <4>1. k \in 0..m /\ g[k] = f[k] /\ (k # 0 => k - 1 \in 0..(m + 1) /\ g[k - 1] = f[k - 1])
          BY <3>1
        <4>2. f[k] = IF k = 0 THEN 1 ELSE 10 * f[k - 1]
          BY <2>1, <4>1 DEF Powers
        <4> QED
          BY <4>1, <4>2
      <3>2. CASE k = m + 1
        <4>1. k # 0 /\ k - 1 = m /\ m \in 0..(m + 1) /\ ~(k <= m)
          BY <3>2
        <4>2. g[k] = 10 * f[m] /\ g[m] = f[m]
          BY <3>2, <4>1
        <4> QED
          BY <3>2, <4>1, <4>2
      <3> QED
        BY <3>1, <3>2
    <2>3. g = [k \in 0..(m + 1) |-> g[k]]
      OBVIOUS
    <2> HIDE DEF g
    <2>4. g = [k \in 0..(m + 1) |-> IF k = 0 THEN 1 ELSE 10 * g[k - 1]]
      BY <2>2, <2>3
    <2>5. Powers(m + 1, g) /\ m + 1 \in Nat
      BY <2>4 DEF Powers
    <2> QED
      BY <2>5
  <1> HIDE DEF T
  <1>3. n \in T
    BY <1>1, <1>2, Induct
  <1> QED
    BY <1>3 DEF T

\* There is only one way to go on.
LEMMA PowersAgree ==
    ASSUME NEW m \in Nat, NEW n \in Nat, m <= n, NEW f, NEW g, Powers(m, f), Powers(n, g)
    PROVE  \A k \in 0..m : f[k] = g[k]
  <1> DEFINE T == {k \in Nat : k \in 0..m => f[k] = g[k]}
  <1>1. 0 \in T
    BY DEF Powers
  <1>2. ASSUME NEW k \in Nat, k \in T
        PROVE  k + 1 \in T
    <2>1. SUFFICES ASSUME k + 1 \in 0..m PROVE f[k + 1] = g[k + 1]
      OBVIOUS
    <2>2. k \in 0..m /\ k + 1 \in 0..n /\ k + 1 # 0 /\ k + 1 - 1 = k
      BY <2>1
    <2>3. f[k] = g[k]
      BY <1>2, <2>2
    <2>4. f[k + 1] = 10 * f[k] /\ g[k + 1] = 10 * g[k]
      BY <2>1, <2>2 DEF Powers
    <2> QED
      BY <2>3, <2>4
  <1> HIDE DEF T
  <1>3. \A k \in 0..m : k \in T
    BY <1>1, <1>2, Induct
  <1> QED
    BY <1>3 DEF T

\* TenTo is what its definition recurs to.
LEMMA TenToIs == TenTo = [k \in Nat |-> IF k = 0 THEN 1 ELSE 10 * TenTo[k - 1]]
  <1> DEFINE F(n) == CHOOSE f : Powers(n, f)
             g == [n \in Nat |-> F(n)[n]]
  <1>1. \A n \in Nat : Powers(n, F(n))
    BY PowersExist
  <1> HIDE DEF F
  <1>2. ASSUME NEW k \in Nat
        PROVE  g[k] = IF k = 0 THEN 1 ELSE 10 * g[k - 1]
    <2>1. F(k)[k] = IF k = 0 THEN 1 ELSE 10 * F(k)[k - 1]
      BY <1>1 DEF Powers
    <2>2. CASE k = 0
      BY <2>1, <2>2
    <2>3. CASE k # 0
      <3>1. k - 1 \in Nat /\ k - 1 <= k /\ k - 1 \in 0..(k - 1)
        BY <2>3
      <3>2. F(k - 1)[k - 1] = F(k)[k - 1]
        BY <1>1, <3>1, PowersAgree
      <3>3. g[k] = F(k)[k] /\ g[k - 1] = F(k - 1)[k - 1]
        BY <3>1
      <3> QED
        BY <2>1, <2>3, <3>2, <3>3
    <2> QED
      BY <2>2, <2>3
  <1>3. g = [k \in Nat |-> g[k]]
    OBVIOUS
  <1> HIDE DEF g
  <1>4. g = [k \in Nat |-> IF k = 0 THEN 1 ELSE 10 * g[k - 1]]
    BY <1>2, <1>3
  <1>5. \E f : f = [k \in Nat |-> IF k = 0 THEN 1 ELSE 10 * f[k - 1]]
    BY <1>4
  <1> QED
    BY <1>5 DEF TenTo

\* One, and ten times as much each time.
LEMMA TenToGrows ==
    /\ TenTo[0] = 1
    /\ \A k \in Nat : TenTo[k + 1] = 10 * TenTo[k]
    /\ \A k \in Nat : TenTo[k] \in Nat \ {0}
  <1>1. TenTo[0] = 1
    BY TenToIs
  <1>2. ASSUME NEW k \in Nat
        PROVE  TenTo[k + 1] = 10 * TenTo[k]
    <2>1. k + 1 \in Nat /\ k + 1 # 0 /\ k + 1 - 1 = k
      OBVIOUS
    <2> QED
      BY <2>1, TenToIs
  <1> DEFINE T == {k \in Nat : TenTo[k] \in Nat \ {0}}
  <1>3. 0 \in T
    BY <1>1
  <1>4. ASSUME NEW k \in Nat, k \in T
        PROVE  k + 1 \in T
    BY <1>2, <1>4
  <1> HIDE DEF T
  <1>5. \A k \in Nat : k \in T
    BY <1>3, <1>4, Induct
  <1>6. \A k \in Nat : TenTo[k] \in Nat \ {0}
    BY <1>5 DEF T
  <1> QED
    BY <1>1, <1>2, <1>6

\* Exponents add up.
LEMMA TenToOfSum ==
    ASSUME NEW a \in Nat, NEW b \in Nat
    PROVE  TenTo[a + b] = TenTo[a] * TenTo[b]
  <1> DEFINE T == {k \in Nat : TenTo[a + k] = TenTo[a] * TenTo[k]}
  <1>1. 0 \in T
    <2>1. a + 0 = a /\ TenTo[a] \in Nat /\ TenTo[0] = 1
      BY TenToGrows
    <2>2. TenTo[a] * 1 = TenTo[a]
      BY <2>1
    <2> QED
      BY <2>1, <2>2
  <1>2. ASSUME NEW k \in Nat, k \in T
        PROVE  k + 1 \in T
    <2>1. a + (k + 1) = (a + k) + 1 /\ a + k \in Nat
      OBVIOUS
    <2>2. TenTo[a + (k + 1)] = 10 * TenTo[a + k] /\ TenTo[k + 1] = 10 * TenTo[k]
      BY <2>1, TenToGrows
    <2>3. TenTo[a + k] = TenTo[a] * TenTo[k]
      BY <1>2
    <2>4. TenTo[a] \in Nat /\ TenTo[k] \in Nat
      BY TenToGrows
    <2>5. \A x, y \in Nat : 10 * (x * y) = x * (10 * y)
      OBVIOUS
    <2>6. 10 * (TenTo[a] * TenTo[k]) = TenTo[a] * (10 * TenTo[k])
      BY <2>4, <2>5
    <2>7. TenTo[a + (k + 1)] = TenTo[a] * TenTo[k + 1]
      BY <2>2, <2>3, <2>6
    <2> QED
      BY <2>7
  <1> HIDE DEF T
  <1>3. b \in T
    BY <1>1, <1>2, Induct
  <1> QED
    BY <1>3 DEF T

\* Products of integers.
LEMMA Products ==
    /\ \A a, b, c \in Int : (a * b) * c = a * (b * c)
    /\ \A a \in Int : a * 1 = a /\ a * 0 = 0 /\ 0 * a = 0
    /\ \A a, b \in Int : a * b \in Int /\ a * b = b * a /\ (-a) * b = -(a * b)
    /\ \A a, b \in Nat : a * b \in Nat
  OBVIOUS

\* A common factor may be left out.
LEMMA Cancel ==
    ASSUME NEW a \in Int, NEW b \in Int, NEW c \in Nat \ {0}, a * c = b * c
    PROVE  a = b
  <1>1. (a - b) * c = 0
    OBVIOUS
  <1>2. \A d \in Int : d * c = 0 => d = 0
    OBVIOUS
  <1> QED
    BY <1>1, <1>2

\* What divides a number, and what is left.
LEMMA Divided ==
    ASSUME NEW a \in Nat, NEW d \in Nat \ {0}
    PROVE  /\ a \div d \in Nat
           /\ a % d = 0 => a = d * (a \div d)
           /\ \A q \in Nat : a = d * q => a % d = 0
  <1>1. a \div d \in Nat
    OBVIOUS
  <1>2. a % d = 0 => a = d * (a \div d)
    OBVIOUS
  <1>3. ASSUME NEW q \in Nat, a = d * q
        PROVE  a % d = 0
    BY <1>3
  <1> QED
    BY <1>1, <1>2, <1>3

-----------------------------------------------------------------------------
(* Canonical numbers. *)

Signed(z) == IF z.negative THEN -z.n ELSE z.n
Scaled(z, low) == Signed(z) * TenTo[z.e - low]

\* A number has its three parts, and is made of them.
LEMMA NumeralParts ==
    ASSUME NEW z \in Numeral
    PROVE  /\ z.negative \in BOOLEAN /\ z.n \in Nat /\ z.e \in Int /\ Signed(z) \in Int
           /\ z = Number(z.negative, z.n, z.e)
  BY DEF Numeral, Signed, Number

\* Three parts make a number.
LEMMA PartsOfNumber ==
    ASSUME NEW negative \in BOOLEAN, NEW n \in Nat, NEW e \in Int
    PROVE  /\ Number(negative, n, e) \in Numeral
           /\ Number(negative, n, e).negative = negative
           /\ Number(negative, n, e).n = n /\ Number(negative, n, e).e = e
  BY DEF Numeral, Number

\* A number at a scale that fits is an integer.
LEMMA ScaledType ==
    ASSUME NEW z \in Numeral, NEW low \in Int, low <= z.e
    PROVE  Scaled(z, low) \in Int /\ z.e - low \in Nat /\ TenTo[z.e - low] \in Nat \ {0}
  <1>1. z.e - low \in Nat /\ Signed(z) \in Int
    BY NumeralParts
  <1>2. TenTo[z.e - low] \in Nat \ {0}
    BY <1>1, TenToGrows
  <1> QED
    BY <1>1, <1>2, Products DEF Scaled

\* A finer scale multiplies.
LEMMA Rescaled ==
    ASSUME NEW z \in Numeral, NEW low \in Int, NEW lower \in Int, low <= z.e, lower <= low
    PROVE  /\ Scaled(z, lower) = Scaled(z, low) * TenTo[low - lower]
           /\ TenTo[low - lower] \in Nat \ {0}
  <1>1. z.e \in Int /\ Signed(z) \in Int
    BY NumeralParts
  <1>2. z.e - low \in Nat /\ low - lower \in Nat /\ (z.e - low) + (low - lower) = z.e - lower
    BY <1>1
  <1>3. TenTo[z.e - lower] = TenTo[z.e - low] * TenTo[low - lower]
    BY <1>2, TenToOfSum
  <1>4. TenTo[z.e - low] \in Int /\ TenTo[low - lower] \in Nat \ {0}
    BY <1>2, TenToGrows
  <1>5. (Signed(z) * TenTo[z.e - low]) * TenTo[low - lower]
        = Signed(z) * (TenTo[z.e - low] * TenTo[low - lower])
    BY <1>1, <1>4, Products
  <1> QED
    BY <1>3, <1>4, <1>5 DEF Scaled

\* Numbers may be compared at any common scale.
LEMMA AnyScale ==
    ASSUME NEW x \in Numeral, NEW y \in Numeral, NEW low \in Int, low <= x.e, low <= y.e
    PROVE  SameNumber(x, y) <=> Scaled(x, low) = Scaled(y, low)
  <1> DEFINE m == Min({x.e, y.e})
  <1>1. x.e \in Int /\ y.e \in Int
    BY NumeralParts
  <1>2. m \in Int /\ m <= x.e /\ m <= y.e /\ low <= m
    <2>1. m = IF x.e <= y.e THEN x.e ELSE y.e
      BY <1>1, LesserOf
    <2> HIDE DEF m
    <2> QED
      BY <1>1, <2>1
  <1>3. SameNumber(x, y) <=> Scaled(x, m) = Scaled(y, m)
    BY DEF SameNumber, Scaled, Signed
  <1> HIDE DEF m
  <1>4. /\ Scaled(x, low) = Scaled(x, m) * TenTo[m - low]
        /\ Scaled(y, low) = Scaled(y, m) * TenTo[m - low]
        /\ TenTo[m - low] \in Nat \ {0}
    BY <1>2, Rescaled
  <1>5. Scaled(x, m) \in Int /\ Scaled(y, m) \in Int
    BY <1>2, ScaledType
  <1>6. Scaled(x, low) = Scaled(y, low) => Scaled(x, m) = Scaled(y, m)
    BY <1>4, <1>5, Cancel
  <1> QED
    BY <1>3, <1>4, <1>6

\* To be the same number is symmetric and transitive.
LEMMA SameIsEquivalence ==
    ASSUME NEW x \in Numeral, NEW y \in Numeral, NEW z \in Numeral
    PROVE  /\ SameNumber(x, y) => SameNumber(y, x)
           /\ SameNumber(x, y) /\ SameNumber(y, z) => SameNumber(x, z)
  <1>1. x.e \in Int /\ y.e \in Int /\ z.e \in Int
    BY NumeralParts
  <1>2. PICK low \in Int : low <= x.e /\ low <= y.e /\ low <= z.e
    <2>1. \A a, b, c \in Int : \E low \in Int : low <= a /\ low <= b /\ low <= c
      <3>1. SUFFICES ASSUME NEW a \in Int, NEW b \in Int, NEW c \in Int
                     PROVE  \E low \in Int : low <= a /\ low <= b /\ low <= c
        OBVIOUS
      <3> DEFINE ab == IF a <= b THEN a ELSE b
                 abc == IF ab <= c THEN ab ELSE c
      <3>2. abc \in Int /\ abc <= a /\ abc <= b /\ abc <= c
        OBVIOUS
      <3> QED
        BY <3>2
    <2> QED
      BY <1>1, <2>1
  <1>3. /\ SameNumber(x, y) <=> Scaled(x, low) = Scaled(y, low)
        /\ SameNumber(y, x) <=> Scaled(y, low) = Scaled(x, low)
        /\ SameNumber(y, z) <=> Scaled(y, low) = Scaled(z, low)
        /\ SameNumber(x, z) <=> Scaled(x, low) = Scaled(z, low)
    BY <1>2, AnyScale
  <1> QED
    BY <1>3

\* A number as it is written without zeros that nothing needs.
IsFixed(z) ==
    /\ z \in Numeral /\ z.e <= 0
    /\ z.n = 0 => z = Number(FALSE, 0, 0)
    /\ z.e < 0 => z.n % 10 # 0

\* Of the powers of ten up to the fraction's length the greatest that divides n.
LEMMA ZerosStripped ==
    ASSUME NEW n \in Nat \ {0}, NEW e \in Int, e < 0,
           NEW zeros, zeros = Max({k \in 0..(-e) : n % TenTo[k] = 0})
    PROVE  /\ zeros \in 0..(-e)
           /\ n = TenTo[zeros] * (n \div TenTo[zeros])
           /\ n \div TenTo[zeros] \in Nat \ {0}
           /\ e + zeros < 0 => (n \div TenTo[zeros]) % 10 # 0
  <1> DEFINE K == {k \in 0..(-e) : n % TenTo[k] = 0}
  <1>1. -e \in Nat /\ 0 \in 0..(-e)
    OBVIOUS
  <1>2. n % TenTo[0] = 0
    <2>1. n % 1 = 0
      OBVIOUS
    <2> QED
      BY <2>1, TenToGrows
  <1>3. 0 \in K /\ K \in SUBSET (0..(-e))
    BY <1>1, <1>2
  <1>4. zeros \in K /\ \A k \in K : k <= zeros
    <2>1. zeros = Max(K)
      OBVIOUS
    <2> HIDE DEF K
    <2> QED
      BY <1>1, <1>3, <2>1, GreatestOf
  <1>5. zeros \in 0..(-e) /\ n % TenTo[zeros] = 0 /\ zeros \in Nat
    BY <1>4
  <1>6. TenTo[zeros] \in Nat \ {0}
    BY <1>5, TenToGrows
  <1> DEFINE m == n \div TenTo[zeros]
  <1>7. n = TenTo[zeros] * m /\ m \in Nat
    BY <1>5, <1>6, Divided
  <1> HIDE DEF m, K
  <1>8. m # 0
    BY <1>6, <1>7, Products
  <1>9. ASSUME e + zeros < 0, m % 10 = 0
        PROVE  FALSE
    <2>1. m = 10 * (m \div 10) /\ m \div 10 \in Nat
      BY <1>7, <1>9
    <2>2. PICK q \in Nat : m = 10 * q
      BY <2>1
    <2>3. zeros + 1 \in 0..(-e) /\ TenTo[zeros + 1] = 10 * TenTo[zeros]
      BY <1>5, <1>9, TenToGrows
    <2>4. \A p \in Nat : p * (10 * q) = (10 * p) * q
      OBVIOUS
    <2>5. n = TenTo[zeros + 1] * q
      BY <1>6, <1>7, <2>2, <2>3, <2>4
    <2>6. TenTo[zeros + 1] \in Nat \ {0}
      BY <1>6, <2>3
    <2>7. n % TenTo[zeros + 1] = 0
      BY <2>5, <2>6, Divided
    <2>8. zeros + 1 \in K
      BY <2>3, <2>7 DEF K
    <2> QED
      BY <1>4, <1>5, <2>8
  <1> QED
    BY <1>5, <1>7, <1>8, <1>9 DEF m

\* The canonical form is such a form, of the same number.
LEMMA FixedForm ==
    ASSUME NEW x \in Numeral
    PROVE  IsFixed(Fixed(x)) /\ SameNumber(x, Fixed(x))
  <1>1. /\ x.negative \in BOOLEAN /\ x.n \in Nat /\ x.e \in Int /\ Signed(x) \in Int
        /\ TenTo[0] = 1
    BY NumeralParts, TenToGrows
  <1>2. CASE x.n = 0
    <2> DEFINE y == Number(FALSE, 0, 0)
    <2>1. Fixed(x) = y
      BY <1>2 DEF Fixed
    <2>2. y \in Numeral /\ y.n = 0 /\ y.e = 0
      BY DEF Numeral, Number
    <2>3. y = Number(FALSE, 0, 0)
      OBVIOUS
    <2> HIDE DEF y
    <2>4. IsFixed(y)
      <3>1. y.e <= 0 /\ ~(y.e < 0)
        BY <2>2
      <3>2. y.n = 0 => y = Number(FALSE, 0, 0)
        BY <2>3
      <3> QED
        BY <2>2, <3>1, <3>2, Zenon DEF IsFixed
    <2>5. Signed(x) = 0 /\ Signed(y) = 0
      <3>1. \A n \in Int : 0 = n => 0 = -n
        OBVIOUS
      <3>2. x.n \in Int /\ y.n \in Int /\ 0 = x.n /\ 0 = y.n
        BY <1>1, <1>2, <2>2
      <3>3. 0 = -x.n /\ 0 = -y.n
        BY <3>1, <3>2, Zenon
      <3> QED
        BY <3>2, <3>3, Zenon DEF Signed
    <2>6. PICK low \in Int : low <= x.e /\ low <= 0
      <3>1. \A a \in Int : \E low \in Int : low <= a /\ low <= 0
        <4>1. \A a \in Int : (a <= 0 => a <= a) /\ (~(a <= 0) => 0 <= a)
          OBVIOUS
        <4> QED
          BY <4>1
      <3> QED
        BY <1>1, <3>1
    <2>7. TenTo[x.e - low] \in Int /\ TenTo[y.e - low] \in Int
      BY <2>2, <2>6, ScaledType
    <2>8. Scaled(x, low) = 0 /\ Scaled(y, low) = 0
      BY <2>5, <2>7, Products DEF Scaled
    <2>9. SameNumber(x, y)
      BY <2>2, <2>6, <2>8, AnyScale
    <2> QED
      BY <2>1, <2>4, <2>9
  <1>3. CASE x.n # 0 /\ x.e >= 0
    <2> DEFINE y == Number(x.negative, x.n * TenTo[x.e], 0)
    <2>1. Fixed(x) = y
      BY <1>1, <1>3 DEF Fixed
    <2>2. TenTo[x.e] \in Nat \ {0} /\ x.e \in Nat
      BY <1>1, <1>3, TenToGrows
    <2>3. x.n * TenTo[x.e] \in Nat /\ x.n * TenTo[x.e] # 0
      <3>1. \A a, b \in Nat \ {0} : a * b \in Nat /\ a * b # 0
        OBVIOUS
      <3> QED
        BY <1>1, <1>3, <2>2, <3>1
    <2>4. /\ y \in Numeral /\ y.n = x.n * TenTo[x.e] /\ y.e = 0
          /\ y.negative = x.negative
      BY <1>1, <2>3, PartsOfNumber
    <2> HIDE DEF y
    <2>5. IsFixed(y)
      <3>1. y.n # 0 /\ y.e <= 0 /\ ~(y.e < 0)
        BY <2>3, <2>4
      <3> QED
        BY <2>4, <3>1 DEF IsFixed
    <2>6. Signed(y) = Signed(x) * TenTo[x.e]
      <3>1. (-x.n) * TenTo[x.e] = -(x.n * TenTo[x.e])
        BY <1>1, <2>2, Products
      <3> QED
        BY <2>4, <3>1 DEF Signed
    <2>7. x.e - 0 = x.e /\ y.e - 0 = 0 /\ 0 <= x.e /\ 0 <= y.e
      BY <1>1, <1>3, <2>4
    <2>8. Scaled(x, 0) = Scaled(y, 0)
      <3>1. Signed(y) \in Int
        BY <2>4, NumeralParts
      <3>2. Signed(y) * 1 = Signed(y)
        BY <3>1
      <3> QED
        BY <1>1, <2>6, <2>7, <3>2 DEF Scaled
    <2>9. SameNumber(x, y)
      BY <2>4, <2>7, <2>8, AnyScale
    <2> QED
      BY <2>1, <2>5, <2>9
  <1>4. CASE x.n # 0 /\ x.e < 0
    <2> DEFINE zeros == Max({k \in 0..(-x.e) : x.n % TenTo[k] = 0})
               m == x.n \div TenTo[zeros]
               y == Number(x.negative, m, x.e + zeros)
    <2>1. Fixed(x) = y
      <3>1. ~(x.e >= 0)
        BY <1>1, <1>4
      <3> QED
        BY <1>1, <1>4, <3>1 DEF Fixed
    <2>2. /\ zeros \in 0..(-x.e)
          /\ x.n = TenTo[zeros] * m
          /\ m \in Nat \ {0}
          /\ x.e + zeros < 0 => m % 10 # 0
      BY <1>1, <1>4, ZerosStripped
    <2> HIDE DEF zeros, m
    <2>3. zeros \in Nat /\ x.e + zeros \in Int /\ x.e + zeros <= 0 /\ x.e <= x.e + zeros
          /\ (x.e + zeros) - x.e = zeros /\ x.e - x.e = 0
      BY <1>1, <1>4, <2>2
    <2>4. y \in Numeral /\ y.n = m /\ y.e = x.e + zeros /\ y.negative = x.negative
      BY <1>1, <2>2, <2>3, PartsOfNumber
    <2> HIDE DEF y
    <2>5. IsFixed(y)
      BY <2>2, <2>3, <2>4 DEF IsFixed
    <2>6. TenTo[zeros] \in Nat \ {0}
      BY <2>3, TenToGrows
    <2>7. Signed(x) = Signed(y) * TenTo[zeros]
      <3>1. m * TenTo[zeros] = TenTo[zeros] * m /\ (-m) * TenTo[zeros] = -(m * TenTo[zeros])
        BY <2>2, <2>6, Products
      <3> QED
        BY <2>2, <2>4, <3>1 DEF Signed
    <2>8. Scaled(x, x.e) = Scaled(y, x.e)
      <3>1. Signed(x) * 1 = Signed(x)
        BY <1>1
      <3> QED
        BY <1>1, <2>3, <2>4, <2>7, <3>1 DEF Scaled
    <2>9. SameNumber(x, y)
      BY <1>1, <2>3, <2>4, <2>8, AnyScale
    <2> QED
      BY <2>1, <2>5, <2>9
  <1> QED
    BY <1>1, <1>2, <1>3, <1>4

\* No number has two such forms.
LEMMA FixedOnce ==
    ASSUME NEW x, NEW y, IsFixed(x), IsFixed(y), SameNumber(x, y), x.e <= y.e
    PROVE  x = y
  <1>1. /\ x \in Numeral /\ y \in Numeral
        /\ x.negative \in BOOLEAN /\ x.n \in Nat /\ x.e \in Int /\ Signed(x) \in Int
        /\ y.negative \in BOOLEAN /\ y.n \in Nat /\ y.e \in Int /\ Signed(y) \in Int
        /\ x = Number(x.negative, x.n, x.e) /\ y = Number(y.negative, y.n, y.e)
    BY NumeralParts DEF IsFixed
  <1>2. Signed(x) = Signed(y) * TenTo[y.e - x.e]
    <2>1. Scaled(x, x.e) = Scaled(y, x.e) /\ x.e - x.e = 0
      BY <1>1, AnyScale
    <2>2. Signed(x) * 1 = Signed(x) /\ TenTo[0] = 1
      BY <1>1, TenToGrows
    <2> QED
      BY <2>1, <2>2 DEF Scaled
  <1>3. CASE x.e = y.e
    <2>1. y.e - x.e = 0 /\ TenTo[0] = 1
      BY <1>1, <1>3, TenToGrows
    <2>2. Signed(x) = Signed(y)
      BY <1>1, <1>2, <2>1
    <2>3. x.n = y.n /\ (x.n # 0 => x.negative = y.negative)
      <3>1. x.n = y.n
        BY <1>1, <2>2 DEF Signed
      <3>2. x.n # 0 => (x.negative <=> y.negative)
        BY <1>1, <2>2 DEF Signed
      <3>3. x.n # 0 => x.negative = y.negative
        <4>1. CASE x.negative = TRUE
          BY <1>1, <3>2, <4>1, Zenon
        <4>2. CASE x.negative = FALSE
          BY <1>1, <3>2, <4>2, Zenon
        <4> QED
          BY <1>1, <4>1, <4>2
      <3> QED
        BY <3>1, <3>3
    <2>4. CASE x.n = 0
      BY <2>3, <2>4 DEF IsFixed
    <2>5. CASE x.n # 0
      BY <1>1, <1>3, <2>3, <2>5
    <2> QED
      BY <2>4, <2>5
  <1>4. CASE x.e < y.e
    <2>1. y.e - x.e - 1 \in Nat /\ (y.e - x.e - 1) + 1 = y.e - x.e
      BY <1>1, <1>4
    <2>2. PICK p \in Nat : TenTo[y.e - x.e] = 10 * p
      BY <2>1, TenToGrows
    <2>3. PICK w \in Int : Signed(x) = 10 * w
      <3>1. \A s \in Int : s * (10 * p) = 10 * (s * p) /\ s * p \in Int
        OBVIOUS
      <3> QED
        BY <1>1, <1>2, <2>2, <3>1
    <2>4. x.n % 10 = 0
      BY <1>1, <2>3 DEF Signed
    <2>5. x.e < 0
      BY <1>1, <1>4 DEF IsFixed
    <2> QED
      BY <2>4, <2>5 DEF IsFixed
  <1> QED
    BY <1>1, <1>3, <1>4

\* Two numbers have one canonical form when they are equal as numbers, and only then.
THEOREM CanonicalNumbers ==
    ASSUME NEW x \in Numeral, NEW y \in Numeral
    PROVE  Fixed(x) = Fixed(y) <=> SameNumber(x, y)
  <1>1. /\ IsFixed(Fixed(x)) /\ SameNumber(x, Fixed(x)) /\ Fixed(x) \in Numeral
        /\ IsFixed(Fixed(y)) /\ SameNumber(y, Fixed(y)) /\ Fixed(y) \in Numeral
    BY FixedForm DEF IsFixed
  <1>2. Fixed(x) = Fixed(y) => SameNumber(x, y)
    BY <1>1, SameIsEquivalence
  <1>3. ASSUME SameNumber(x, y)
        PROVE  Fixed(x) = Fixed(y)
    <2>1. SameNumber(Fixed(x), x) /\ SameNumber(Fixed(x), y)
      BY <1>1, <1>3, SameIsEquivalence
    <2>2. SameNumber(Fixed(x), Fixed(y)) /\ SameNumber(Fixed(y), Fixed(x))
      BY <1>1, <2>1, SameIsEquivalence
    <2>3. Fixed(x).e \in Int /\ Fixed(y).e \in Int
      BY <1>1, NumeralParts
    <2>4. Fixed(x).e <= Fixed(y).e \/ Fixed(y).e <= Fixed(x).e
      BY <2>3
    <2> QED
      BY <1>1, <2>2, <2>4, FixedOnce
  <1> QED
    BY <1>2, <1>3

-----------------------------------------------------------------------------
(* The codec. *)

\* The digits of the first numbers.
Spelling(n, f) ==
    f = [m \in 0..n |-> IF m < 10 THEN <<m>> ELSE Append(f[m \div 10], m % 10)]

\* Division by ten.
LEMMA Tenth ==
    ASSUME NEW m \in Nat
    PROVE  /\ m \div 10 \in Nat /\ m % 10 \in Nat /\ m = 10 * (m \div 10) + (m % 10)
           /\ m >= 10 => m \div 10 < m
  OBVIOUS

\* Each is spelled by what was spelled before.
LEMMA SpellingExists ==
    ASSUME NEW n \in Nat
    PROVE  \E f : Spelling(n, f)
  <1> DEFINE T == {m \in Nat : \E f : Spelling(m, f)}
  <1>1. 0 \in T
    <2> DEFINE g == [k \in 0..0 |-> <<k>>]
    <2>1. Spelling(0, g)
      BY DEF Spelling
    <2> QED
      BY <2>1
  <1>2. ASSUME NEW m \in Nat, m \in T
        PROVE  m + 1 \in T
    <2>1. PICK f : Spelling(m, f)
      BY <1>2
    <2> DEFINE g == [k \in 0..(m + 1) |->
                       IF k <= m THEN f[k]
                       ELSE IF k < 10 THEN <<k>> ELSE Append(f[k \div 10], k % 10)]
    <2>2. ASSUME NEW k \in 0..(m + 1)
          PROVE  g[k] = IF k < 10 THEN <<k>> ELSE Append(g[k \div 10], k % 10)
      <3>1. k >= 10 => k \div 10 \in 0..m /\ k \div 10 \in 0..(m + 1)
        BY Tenth
      <3>2. k >= 10 => g[k \div 10] = f[k \div 10]
        BY <3>1
      <3>3. CASE k <= m
        <4>1. k \in 0..m /\ g[k] = f[k]
          BY <3>3
        <4>2. f[k] = IF k < 10 THEN <<k>> ELSE Append(f[k \div 10], k % 10)
          BY <2>1, <4>1 DEF Spelling
        <4> HIDE DEF g
        <4> QED
          BY <3>2, <4>1, <4>2
      <3>4. CASE ~(k <= m)
        <4>1. g[k] = IF k < 10 THEN <<k>> ELSE Append(f[k \div 10], k % 10)
          BY <3>4
        <4> HIDE DEF g
        <4> QED
          BY <3>2, <4>1
      <3> QED
        BY <3>3, <3>4
    <2>3. g = [k \in 0..(m + 1) |-> g[k]]
      OBVIOUS
    <2> HIDE DEF g
    <2>4. Spelling(m + 1, g) /\ m + 1 \in Nat
      BY <2>2, <2>3 DEF Spelling
    <2> QED
      BY <2>4
  <1> HIDE DEF T
  <1>3. n \in T
    BY <1>1, <1>2, Induct
  <1> QED
    BY <1>3 DEF T

\* The number that is read from the first digits.
Reading(s, f) == f = [i \in 0..Len(s) |-> IF i = 0 THEN 0 ELSE 10 * f[i - 1] + s[i]]

\* Digit after digit a number is read.
LEMMA ReadingExists ==
    ASSUME NEW s, Len(s) \in Nat
    PROVE  \E f : Reading(s, f)
  <1> DEFINE Up(n, f) == f = [k \in 0..n |-> IF k = 0 THEN 0 ELSE 10 * f[k - 1] + s[k]]
             T == {n \in Nat : \E f : Up(n, f)}
  <1>1. 0 \in T
    <2> DEFINE g == [k \in 0..0 |-> 0]
    <2>1. Up(0, g)
      OBVIOUS
    <2> QED
      BY <2>1
  <1>2. ASSUME NEW n \in Nat, n \in T
        PROVE  n + 1 \in T
    <2>1. PICK f : Up(n, f)
      BY <1>2
    <2> DEFINE g == [k \in 0..(n + 1) |-> IF k <= n THEN f[k] ELSE 10 * f[n] + s[n + 1]]
    <2>2. ASSUME NEW k \in 0..(n + 1)
          PROVE  g[k] = IF k = 0 THEN 0 ELSE 10 * g[k - 1] + s[k]
      <3>1. CASE k <= n
        <4>1. k \in 0..n /\ g[k] = f[k] /\ (k # 0 => k - 1 \in 0..(n + 1) /\ g[k - 1] = f[k - 1])
          BY <3>1
        <4>2. f[k] = IF k = 0 THEN 0 ELSE 10 * f[k - 1] + s[k]
          BY <2>1, <4>1
        <4> QED
          BY <4>1, <4>2
      <3>2. CASE k = n + 1
        <4>1. k # 0 /\ k - 1 = n /\ n \in 0..(n + 1) /\ ~(k <= n)
          BY <3>2
        <4>2. g[k] = 10 * f[n] + s[n + 1] /\ g[n] = f[n]
          BY <3>2, <4>1
        <4> QED
          BY <3>2, <4>1, <4>2
      <3> QED
        BY <3>1, <3>2
    <2>3. g = [k \in 0..(n + 1) |-> g[k]]
      OBVIOUS
    <2> HIDE DEF g
    <2>4. Up(n + 1, g) /\ n + 1 \in Nat
      BY <2>2, <2>3
    <2> QED
      BY <2>4
  <1>3. Len(s) \in T
    <2> HIDE DEF T
    <2> QED
      BY <1>1, <1>2, Induct
  <1> QED
    BY <1>3 DEF Reading

\* NumberFrom is the number read from all digits.
LEMMA NumberFromIs ==
    ASSUME NEW s, Len(s) \in Nat
    PROVE  \E f : Reading(s, f) /\ NumberFrom(s) = f[Len(s)]
  <1> DEFINE f == CHOOSE g : g = [i \in 0..Len(s) |->
                                    IF i = 0 THEN 0 ELSE 10 * g[i - 1] + s[i]]
  <1>1. Reading(s, f)
    <2>1. \E g : g = [i \in 0..Len(s) |-> IF i = 0 THEN 0 ELSE 10 * g[i - 1] + s[i]]
      BY ReadingExists DEF Reading
    <2> QED
      BY <2>1 DEF Reading
  <1>2. NumberFrom(s) = f[Len(s)]
    BY DEF NumberFrom
  <1> HIDE DEF f
  <1> QED
    BY <1>1, <1>2

\* Sequences that begin alike are read alike so far.
LEMMA ReadingsAgree ==
    ASSUME NEW s, NEW t, NEW n \in Nat, Len(s) \in Nat, Len(t) \in Nat, n <= Len(s), n <= Len(t),
           \A i \in 1..n : s[i] = t[i], NEW f, NEW g, Reading(s, f), Reading(t, g)
    PROVE  f[n] = g[n]
  <1> DEFINE T == {k \in Nat : k <= n => f[k] = g[k]}
  <1>1. 0 \in T
    BY DEF Reading
  <1>2. ASSUME NEW k \in Nat, k \in T
        PROVE  k + 1 \in T
    <2>1. SUFFICES ASSUME k + 1 <= n PROVE f[k + 1] = g[k + 1]
      OBVIOUS
    <2>2. /\ k <= n /\ k + 1 \in 0..Len(s) /\ k + 1 \in 0..Len(t) /\ k + 1 \in 1..n
          /\ k + 1 # 0 /\ k + 1 - 1 = k
      BY <2>1
    <2>3. f[k] = g[k] /\ s[k + 1] = t[k + 1]
      BY <1>2, <2>2
    <2>4. f[k + 1] = 10 * f[k] + s[k + 1] /\ g[k + 1] = 10 * g[k] + t[k + 1]
      BY <2>2 DEF Reading
    <2> QED
      BY <2>3, <2>4
  <1> HIDE DEF T
  <1>3. n \in T
    BY <1>1, <1>2, Induct
  <1> QED
    BY <1>3 DEF T

\* A further digit counts once, all before it ten times.
LEMMA OneMoreDigit ==
    ASSUME NEW s \in Seq(Nat), NEW d \in Nat
    PROVE  NumberFrom(Append(s, d)) = 10 * NumberFrom(s) + d
  <1> DEFINE t == Append(s, d)
  <1>1. /\ Len(s) \in Nat /\ Len(t) = Len(s) + 1 /\ Len(t) \in Nat
        /\ \A i \in 1..Len(s) : s[i] = t[i]
        /\ t[Len(s) + 1] = d
    OBVIOUS
  <1> HIDE DEF t
  <1>2. PICK f : Reading(s, f) /\ NumberFrom(s) = f[Len(s)]
    BY <1>1, NumberFromIs
  <1>3. PICK g : Reading(t, g) /\ NumberFrom(t) = g[Len(t)]
    BY <1>1, NumberFromIs
  <1>4. f[Len(s)] = g[Len(s)]
    <2>1. Len(s) <= Len(s) /\ Len(s) <= Len(t)
      BY <1>1
    <2> QED
      BY <1>1, <1>2, <1>3, <2>1, ReadingsAgree
  <1>5. Len(s) + 1 \in 0..Len(t) /\ Len(s) + 1 # 0 /\ Len(s) + 1 - 1 = Len(s)
    BY <1>1
  <1>6. g[Len(s) + 1] = 10 * g[Len(s)] + t[Len(s) + 1]
    BY <1>3, <1>5 DEF Reading
  <1> QED
    BY <1>1, <1>2, <1>3, <1>4, <1>6 DEF t

\* A single digit is its own number.
LEMMA OneDigit ==
    ASSUME NEW d \in Nat
    PROVE  NumberFrom(<<d>>) = d
  <1>1. Len(<<d>>) = 1 /\ <<d>>[1] = d
    OBVIOUS
  <1>2. PICK f : Reading(<<d>>, f) /\ NumberFrom(<<d>>) = f[1]
    BY <1>1, NumberFromIs
  <1>3. f[0] = 0 /\ f[1] = 10 * f[0] + d
    BY <1>1, <1>2 DEF Reading
  <1> QED
    BY <1>2, <1>3

\* A number spelled digit by digit is read again.
LEMMA DigitsRead ==
    ASSUME NEW n \in Nat
    PROVE  NumberFrom(Digits(n)) = n
  <1> DEFINE f == CHOOSE g : g = [m \in 0..n |-> IF m < 10 THEN <<m>>
                                                 ELSE Append(g[m \div 10], m % 10)]
  <1>1. Spelling(n, f)
    <2>1. \E g : g = [m \in 0..n |-> IF m < 10 THEN <<m>> ELSE Append(g[m \div 10], m % 10)]
      BY SpellingExists DEF Spelling
    <2> QED
      BY <2>1 DEF Spelling
  <1>2. Digits(n) = f[n]
    BY DEF Digits
  <1> HIDE DEF f
  <1> DEFINE Good(m) == f[m] \in Seq(Nat) /\ NumberFrom(f[m]) = m
             T == {k \in Nat : \A m \in 0..k : m <= n => Good(m)}
  <1>3. ASSUME NEW m \in 0..n, \A k \in 0..n : k < m => Good(k)
        PROVE  Good(m)
    <2>1. f[m] = IF m < 10 THEN <<m>> ELSE Append(f[m \div 10], m % 10)
      BY <1>1 DEF Spelling
    <2>2. CASE m < 10
      <3>1. f[m] = <<m>> /\ <<m>> \in Seq(Nat)
        BY <2>1, <2>2
      <3> QED
        BY <3>1, OneDigit
    <2>3. CASE ~(m < 10)
      <3>1. /\ m \div 10 \in 0..n /\ m \div 10 < m /\ m % 10 \in Nat
            /\ m = 10 * (m \div 10) + (m % 10)
        BY <2>3, Tenth
      <3>2. Good(m \div 10)
        BY <1>3, <3>1
      <3>3. f[m] = Append(f[m \div 10], m % 10)
        BY <2>1, <2>3
      <3>4. f[m] \in Seq(Nat)
        BY <3>1, <3>2, <3>3
      <3>5. NumberFrom(f[m]) = 10 * (m \div 10) + (m % 10)
        BY <3>1, <3>2, <3>3, OneMoreDigit
      <3> QED
        BY <3>1, <3>4, <3>5
    <2> QED
      BY <2>2, <2>3
  <1> HIDE DEF Good
  <1>4. 0 \in T
    <2>1. \A k \in 0..n : ~(k < 0)
      OBVIOUS
    <2>2. Good(0)
      BY <1>3, <2>1
    <2> QED
      BY <2>2
  <1>5. ASSUME NEW k \in Nat, k \in T
        PROVE  k + 1 \in T
    <2>1. \A m \in 0..k : m <= n => Good(m)
      BY <1>5
    <2>2. ASSUME k + 1 <= n
          PROVE  Good(k + 1)
      <3>1. k + 1 \in 0..n /\ \A m \in 0..n : m < k + 1 => m \in 0..k /\ m <= n
        BY <2>2
      <3> QED
        BY <1>3, <2>1, <3>1
    <2>3. \A m \in 0..(k + 1) : m \in 0..k \/ m = k + 1
      OBVIOUS
    <2> QED
      BY <2>1, <2>2, <2>3
  <1>6. n \in T
    <2> HIDE DEF T
    <2> QED
      BY <1>4, <1>5, Induct
  <1>7. Good(n)
    BY <1>6
  <1> QED
    BY <1>2, <1>7 DEF Good

\* What is encoded is decoded to the same value.
THEOREM ScalarRoundTrip ==
    ASSUME NEW v, v = None \/ IsValue(v)
    PROVE  DecodeScalar(EncodeScalar(v)) = v
  <1>1. CASE v = None
    BY <1>1 DEF DecodeScalar, EncodeScalar
  <1>2. CASE v # None /\ v.type = "text" /\ v = Text(v.text)
    <2>1. EncodeScalar(v) = <<"text", v.text>>
      BY <1>2 DEF EncodeScalar
    <2> QED
      BY <1>2, <2>1 DEF DecodeScalar
  <1>3. CASE /\ v # None /\ v.type = "int" /\ v = Whole(v.number) /\ v.number \in Numeral
             /\ v.number.e = 0 /\ (v.number.negative => v.number.n # 0)
    <2> DEFINE x == v.number
    <2>1. x = Number(x.negative, x.n, 0) /\ x.n \in Nat /\ x.negative \in BOOLEAN
      BY <1>3, NumeralParts
    <2>2. Minus(x) = x.negative
      <3>1. CASE x.negative = TRUE
        BY <1>3, <3>1 DEF Minus
      <3>2. CASE x.negative = FALSE
        BY <3>2 DEF Minus
      <3> QED
        BY <2>1, <3>1, <3>2
    <2>3. EncodeScalar(v) = <<"int", Minus(x), Digits(x.n)>>
      BY <1>3 DEF EncodeScalar
    <2>4. EncodeScalar(v) = <<"int", x.negative, Digits(x.n)>>
      BY <2>2, <2>3
    <2> HIDE DEF x
    <2>5. DecodeScalar(EncodeScalar(v)) = Whole(Number(x.negative, NumberFrom(Digits(x.n)), 0))
      BY <2>4 DEF DecodeScalar
    <2>6. NumberFrom(Digits(x.n)) = x.n
      BY <2>1, DigitsRead
    <2> QED
      BY <1>3, <2>1, <2>5, <2>6 DEF x
  <1>4. CASE v # None /\ v.type = "decimal" /\ v = Decimal(v.number) /\ v.number \in Numeral
    <2> DEFINE x == v.number
    <2>1. x = Number(x.negative, x.n, x.e) /\ x.n \in Nat
      BY <1>4, NumeralParts
    <2>2. EncodeScalar(v) = <<"decimal", x.negative, Digits(x.n), x.e>>
      BY <1>4 DEF EncodeScalar
    <2> HIDE DEF x
    <2>3. DecodeScalar(EncodeScalar(v))
          = Decimal(Number(x.negative, NumberFrom(Digits(x.n)), x.e))
      BY <2>2 DEF DecodeScalar
    <2>4. NumberFrom(Digits(x.n)) = x.n
      BY <2>1, DigitsRead
    <2> QED
      BY <1>4, <2>1, <2>3, <2>4 DEF x
  <1> QED
    BY <1>1, <1>2, <1>3, <1>4 DEF IsValue

-----------------------------------------------------------------------------
(* The contracts. *)

Kinds == {"text", "date", "integer", "decimal"}

\* Every column has a kind; what is required is a column; and but for the parties a
\* date is required.
TableHolds(c, required, dated) ==
    /\ \A i \in DOMAIN c.raw : c.raw[i].kind \in Kinds
    /\ \A field \in required : \E i \in DOMAIN c.raw : c.raw[i].field = field
    /\ dated => /\ "date" \in required
                /\ 1 \in DOMAIN c.raw /\ c.raw[1].field = "date" /\ c.raw[1].kind = "date"

\* All four contracts are so.
LEMMA TablesHold ==
    ASSUME NEW sheet \in Sheet
    PROVE  TableHolds(Contract[sheet], Required[sheet], sheet # "parties")
  <1>1. sheet \in {"buySell", "receipts", "inventory", "parties"}
    BY DEF Sheet, Contract
  <1>2. TableHolds(BuySell, Required["buySell"], TRUE)
    BY DEF TableHolds, Kinds, BuySell, Raw, Unheaded, Required
  <1>3. TableHolds(ReceiptsPayments, Required["receipts"], TRUE)
    BY DEF TableHolds, Kinds, ReceiptsPayments, Raw, Unheaded, Required
  <1>4. TableHolds(InventoryMovements, Required["inventory"], TRUE)
    BY DEF TableHolds, Kinds, InventoryMovements, Raw, Unheaded, Required
  <1>5. TableHolds(BusinessParties, Required["parties"], FALSE)
    BY DEF TableHolds, Kinds, BusinessParties, Raw, Unheaded, Required
  <1>6. /\ Contract["buySell"] = BuySell /\ Contract["receipts"] = ReceiptsPayments
        /\ Contract["inventory"] = InventoryMovements /\ Contract["parties"] = BusinessParties
    BY DEF Contract
  <1>7. /\ TableHolds(Contract["buySell"], Required["buySell"], "buySell" # "parties")
        /\ TableHolds(Contract["receipts"], Required["receipts"], "receipts" # "parties")
        /\ TableHolds(Contract["inventory"], Required["inventory"], "inventory" # "parties")
        /\ TableHolds(Contract["parties"], Required["parties"], "parties" # "parties")
    <2>1. TableHolds(Contract["buySell"], Required["buySell"], "buySell" # "parties")
      BY <1>2, <1>6 DEF TableHolds
    <2>2. TableHolds(Contract["receipts"], Required["receipts"], "receipts" # "parties")
      BY <1>3, <1>6 DEF TableHolds
    <2>3. TableHolds(Contract["inventory"], Required["inventory"], "inventory" # "parties")
      BY <1>4, <1>6 DEF TableHolds
    <2>4. TableHolds(Contract["parties"], Required["parties"], "parties" # "parties")
      BY <1>5, <1>6 DEF TableHolds
    <2> QED
      BY <2>1, <2>2, <2>3, <2>4
  <1> QED
    BY <1>1, <1>7

\* A field has the kind of its column.
LEMMA ContractFacts ==
    ASSUME NEW sheet \in Sheet
    PROVE  /\ \A field \in Fields(sheet) : KindOf(sheet, field) \in Kinds
           /\ Required[sheet] \subseteq Fields(sheet)
           /\ sheet # "parties" => /\ "date" \in Required[sheet]
                                   /\ KindOf(sheet, "date") = "date"
  <1> DEFINE c == Contract[sheet]
             Columns(field) == {d \in {c.raw[i] : i \in DOMAIN c.raw} : d.field = field}
  <1>1. TableHolds(c, Required[sheet], sheet # "parties")
    BY TablesHold
  <1>2. \A i, j \in DOMAIN c.raw : c.raw[i].field = c.raw[j].field => i = j
    BY ContractAssumption DEF WellFormed
  <1>3. ASSUME NEW field \in Fields(sheet)
        PROVE  \E i \in DOMAIN c.raw : /\ c.raw[i].field = field
                                       /\ KindOf(sheet, field) = c.raw[i].kind
    <2>1. PICK i \in DOMAIN c.raw : c.raw[i].field = field
      BY DEF Fields
    <2>2. \E d \in {c.raw[j] : j \in DOMAIN c.raw} : d.field = field
      BY <2>1
    <2> DEFINE chosen == CHOOSE d \in {c.raw[j] : j \in DOMAIN c.raw} : d.field = field
    <2>3. chosen \in {c.raw[j] : j \in DOMAIN c.raw} /\ chosen.field = field
      BY <2>2
    <2>4. KindOf(sheet, field) = chosen.kind
      BY DEF KindOf
    <2> HIDE DEF chosen
    <2> QED
      BY <2>3, <2>4
  <1>4. \A field \in Required[sheet] : field \in Fields(sheet)
    BY <1>1 DEF TableHolds, Fields
  <1>5. ASSUME sheet # "parties"
        PROVE  "date" \in Required[sheet] /\ KindOf(sheet, "date") = "date"
    <2>1. /\ "date" \in Required[sheet]
          /\ 1 \in DOMAIN c.raw /\ c.raw[1].field = "date" /\ c.raw[1].kind = "date"
      BY <1>1, <1>5 DEF TableHolds
    <2>2. PICK i \in DOMAIN c.raw : c.raw[i].field = "date" /\ KindOf(sheet, "date") = c.raw[i].kind
      BY <1>3, <1>4, <2>1
    <2>3. i = 1
      BY <1>2, <2>1, <2>2
    <2> QED
      BY <2>1, <2>2, <2>3
  <1>6. \A field \in Fields(sheet) : KindOf(sheet, field) \in Kinds
    BY <1>1, <1>3 DEF TableHolds
  <1> QED
    BY <1>4, <1>5, <1>6

-----------------------------------------------------------------------------
(* Canonical values and hashes. *)

Known(v) == v = None \/ IsValue(v)

\* A value that counts as a number has one.
LEMMA NumbersOfValues ==
    ASSUME NEW v, IsValue(v), IsNumber(v)
    PROVE  NumberIn(v) \in Numeral
  BY ValuesAssumption DEF IsValue, IsNumber, NumberIn

\* A text that has a canonical form is it.
LEMMA CanonicalTextIs ==
    ASSUME NEW v, IsValue(v), v # None, Canonical("text", v) # Rejected
    PROVE  /\ v.type = "text" /\ Canonical("text", v) = v.text
           /\ Canonical("text", v) # None
  <1>1. Canonical("text", v) = CanonicalText(v)
    BY DEF Canonical
  <1> QED
    BY <1>1 DEF CanonicalText, IsValue

\* A date that has one is a text, with its day.
LEMMA CanonicalDateIs ==
    ASSUME NEW v, v # None, Canonical("date", v) # Rejected
    PROVE  /\ v.type = "text" /\ v.text \in DOMAIN DateOf
           /\ Canonical("date", v) = DateOf[v.text] /\ Canonical("date", v) # None
  <1>1. Canonical("date", v)
        = IF v.type = "text" /\ v.text \in DOMAIN DateOf THEN DateOf[v.text] ELSE Rejected
    BY DEF Canonical
  <1>2. v.type = "text" /\ v.text \in DOMAIN DateOf
    BY <1>1
  <1> QED
    BY <1>1, <1>2, ValuesAssumption

\* A number that has one has it without needless zeros.
LEMMA CanonicalNumberIs ==
    ASSUME NEW v, IsValue(v), v # None, NEW kind \in {"integer", "decimal"},
           Canonical(kind, v) # Rejected
    PROVE  /\ NumberIn(v) \in Numeral /\ Canonical(kind, v) = Fixed(NumberIn(v))
           /\ Canonical(kind, v) # None
  <1>1. Canonical(kind, v) = Fixed(NumberIn(v)) /\ IsNumber(v)
    <2>1. CASE kind = "integer"
      <3>1. Canonical(kind, v) = IF IsInteger(v) THEN Fixed(NumberIn(v)) ELSE Rejected
        BY <2>1 DEF Canonical
      <3> QED
        BY <3>1, ValuesAssumption DEF IsInteger, IsNumber
    <2>2. CASE kind = "decimal"
      <3>1. Canonical(kind, v) = IF IsNumber(v) THEN CanonicalDecimal(NumberIn(v)) ELSE Rejected
        BY <2>2 DEF Canonical
      <3> QED
        BY <3>1 DEF CanonicalDecimal
    <2> QED
      BY <2>1, <2>2
  <1>2. NumberIn(v) \in Numeral
    BY <1>1, NumbersOfValues
  <1>3. Fixed(NumberIn(v)) \in Numeral
    BY <1>2, FixedForm DEF IsFixed
  <1> QED
    BY <1>1, <1>2, <1>3, ValuesAssumption

\* No value has no canonical value.
LEMMA CanonicalOfNone ==
    ASSUME NEW kind
    PROVE  Canonical(kind, None) = None
  BY DEF Canonical

\* And every other has one.
LEMMA CanonicalNotNone ==
    ASSUME NEW kind \in Kinds, NEW v, IsValue(v), v # None, Canonical(kind, v) # Rejected
    PROVE  Canonical(kind, v) # None
  BY CanonicalTextIs, CanonicalDateIs, CanonicalNumberIs DEF Kinds

\* Two values have one canonical form exactly when they mean the same.
LEMMA CanonicalMeans ==
    ASSUME NEW kind \in Kinds, NEW v, NEW w, Known(v), Known(w),
           Canonical(kind, v) # Rejected, Canonical(kind, w) # Rejected
    PROVE  Canonical(kind, v) = Canonical(kind, w) <=> SameValue(kind, v, w)
  <1>1. CASE v = None \/ w = None
    <2>1. SameValue(kind, v, w) <=> v = w
      BY <1>1 DEF SameValue
    <2>2. Canonical(kind, None) = None
      BY CanonicalOfNone
    <2>3. v # None => Canonical(kind, v) # None
      BY CanonicalNotNone DEF Known
    <2>4. w # None => Canonical(kind, w) # None
      BY CanonicalNotNone DEF Known
    <2> QED
      BY <1>1, <2>1, <2>2, <2>3, <2>4
  <1>2. CASE v # None /\ w # None /\ kind = "text"
    <2>1. Canonical(kind, v) = v.text /\ Canonical(kind, w) = w.text
      BY <1>2, CanonicalTextIs DEF Known
    <2>2. SameValue(kind, v, w) <=> v.text = w.text
      BY <1>2 DEF SameValue
    <2> QED
      BY <2>1, <2>2
  <1>3. CASE v # None /\ w # None /\ kind = "date"
    <2>1. Canonical(kind, v) = DateOf[v.text] /\ Canonical(kind, w) = DateOf[w.text]
      BY <1>3, CanonicalDateIs
    <2>2. SameValue(kind, v, w) <=> DateOf[v.text] = DateOf[w.text]
      BY <1>3 DEF SameValue
    <2> QED
      BY <2>1, <2>2
  <1>4. CASE v # None /\ w # None /\ kind \in {"integer", "decimal"}
    <2>1. /\ Canonical(kind, v) = Fixed(NumberIn(v)) /\ NumberIn(v) \in Numeral
          /\ Canonical(kind, w) = Fixed(NumberIn(w)) /\ NumberIn(w) \in Numeral
      BY <1>4, CanonicalNumberIs DEF Known
    <2>2. SameValue(kind, v, w) <=> SameNumber(NumberIn(v), NumberIn(w))
      BY <1>4 DEF SameValue
    <2> QED
      BY <2>1, <2>2, CanonicalNumbers
  <1> QED
    BY <1>1, <1>2, <1>3, <1>4 DEF Kinds

\* Rows hash alike when all their canonical values are the same.
LEMMA HashEqual ==
    ASSUME NEW sheet, NEW a, NEW b
    PROVE  SourceHash(sheet, a) = SourceHash(sheet, b)
           <=> \A field \in Fields(sheet) :
                 Canonical(KindOf(sheet, field), a[field])
                 = Canonical(KindOf(sheet, field), b[field])
  <1> DEFINE F(v) == [field \in Fields(sheet) |->
                        <<KindOf(sheet, field), Canonical(KindOf(sheet, field), v[field])>>]
  <1>1. SourceHash(sheet, a) = <<sheet, F(a)>> /\ SourceHash(sheet, b) = <<sheet, F(b)>>
    BY DEF SourceHash
  <1>2. SourceHash(sheet, a) = SourceHash(sheet, b) <=> F(a) = F(b)
    <2> HIDE DEF F
    <2>1. <<sheet, F(a)>>[2] = F(a) /\ <<sheet, F(b)>>[2] = F(b)
      OBVIOUS
    <2> QED
      BY <1>1, <2>1
  <1>3. ASSUME F(a) = F(b), NEW field \in Fields(sheet)
        PROVE  Canonical(KindOf(sheet, field), a[field])
               = Canonical(KindOf(sheet, field), b[field])
    <2>1. F(a)[field] = F(b)[field]
      BY <1>3
    <2>2. F(a)[field][2] = Canonical(KindOf(sheet, field), a[field])
          /\ F(b)[field][2] = Canonical(KindOf(sheet, field), b[field])
      OBVIOUS
    <2> QED
      BY <2>1, <2>2
  <1>4. (\A field \in Fields(sheet) : Canonical(KindOf(sheet, field), a[field])
                                      = Canonical(KindOf(sheet, field), b[field]))
        => F(a) = F(b)
    OBVIOUS
  <1> QED
    BY <1>2, <1>3, <1>4

\* Valid rows hash alike when they mean the same.
LEMMA HashMeans ==
    ASSUME NEW sheet \in Sheet, NEW a, NEW b, IsRow(sheet, a), IsRow(sheet, b),
           IsValid(sheet, a), IsValid(sheet, b)
    PROVE  SourceHash(sheet, a) = SourceHash(sheet, b) <=> SameRow(sheet, a, b)
  <1>1. ASSUME NEW field \in Fields(sheet)
        PROVE  Canonical(KindOf(sheet, field), a[field])
               = Canonical(KindOf(sheet, field), b[field])
               <=> SameValue(KindOf(sheet, field), a[field], b[field])
    <2>1. KindOf(sheet, field) \in Kinds
      BY ContractFacts
    <2>2. Known(a[field]) /\ Known(b[field])
      BY DEF IsRow, Known
    <2>3. /\ Canonical(KindOf(sheet, field), a[field]) # Rejected
          /\ Canonical(KindOf(sheet, field), b[field]) # Rejected
      BY DEF IsValid
    <2> QED
      BY <2>1, <2>2, <2>3, CanonicalMeans
  <1> QED
    BY <1>1, HashEqual DEF SameRow

\* A payload gives back the values it was made of.
LEMMA PayloadRoundTrip ==
    ASSUME NEW sheet, NEW r, NEW values, IsRow(sheet, values)
    PROVE  /\ DecodedValues(Encode(sheet, r, values)) = values
           /\ Decodes(Encode(sheet, r, values))
  <1> DEFINE p == Encode(sheet, r, values)
  <1>1. /\ p.sheet = sheet /\ p.row = r /\ p.hash = SourceHash(sheet, values)
        /\ p.fields = [field \in Fields(sheet) |-> EncodeScalar(values[field])]
    BY DEF Encode
  <1> HIDE DEF p
  <1>2. ASSUME NEW field \in Fields(sheet)
        PROVE  DecodeScalar(p.fields[field]) = values[field]
    <2>1. p.fields[field] = EncodeScalar(values[field])
      BY <1>1
    <2>2. values[field] = None \/ IsValue(values[field])
      BY DEF IsRow
    <2> QED
      BY <2>1, <2>2, ScalarRoundTrip
  <1>3. DecodedValues(p) = values
    <2>1. DecodedValues(p) = [field \in Fields(sheet) |-> values[field]]
      BY <1>1, <1>2 DEF DecodedValues
    <2> QED
      BY <2>1 DEF IsRow
  <1>4. Decodes(p)
    BY <1>1, <1>3 DEF Decodes, p
  <1> QED
    BY <1>3, <1>4 DEF p

-----------------------------------------------------------------------------
(* The reports. *)

\* What a function has on a finite set, added up.
Summing(counts, f) ==
    f = [s \in SUBSET (DOMAIN counts) |->
           IF s = {} THEN 0
           ELSE LET y == CHOOSE y \in s : TRUE IN counts[y] + f[s \ {y}]]

\* The sum of a function is what such a recursion has for its domain.
LEMMA SumIs ==
    ASSUME NEW counts, \E f : Summing(counts, f)
    PROVE  \E f : Summing(counts, f) /\ SumFunction(counts) = f[DOMAIN counts]
  <1> DEFINE f == CHOOSE g : g = [s \in SUBSET (DOMAIN counts) |->
                                    IF s = {} THEN 0
                                    ELSE LET y == CHOOSE y \in s : TRUE
                                         IN counts[y] + g[s \ {y}]]
  <1>1. Summing(counts, f)
    <2>1. \E g : g = [s \in SUBSET (DOMAIN counts) |->
                        IF s = {} THEN 0
                        ELSE LET y == CHOOSE y \in s : TRUE IN counts[y] + g[s \ {y}]]
      BY DEF Summing
    <2> QED
      BY <2>1 DEF Summing
  <1>2. SumFunction(counts) = f[DOMAIN counts]
    BY DEF SumFunction, SumFunctionOnSet, FoldFunctionOnSet, MapThenFoldSet
  <1> HIDE DEF f
  <1> QED
    BY <1>1, <1>2

\* The values of a function on a finite set are finitely many.
LEMMA FiniteImage ==
    ASSUME NEW f, IsFiniteSet(DOMAIN f), f = [x \in DOMAIN f |-> f[x]]
    PROVE  IsFiniteSet({f[x] : x \in DOMAIN f})
  <1> DEFINE S == {f[x] : x \in DOMAIN f}
  <1>1. f \in Surjection(DOMAIN f, S)
    BY DEF Surjection
  <1> QED
    BY <1>1, FS_Surjection

\* Counted year by year, what has one of some years is counted once.
LEMMA CountsAddUp ==
    ASSUME NEW T, IsFiniteSet(T), NEW year, NEW ys, IsFiniteSet(ys), NEW counts,
           counts = [y \in ys |-> Cardinality({r \in T : year[r] = y})]
    PROVE  SumFunction(counts) = Cardinality({r \in T : year[r] \in ys})
  <1> DEFINE R(s) == {r \in T : year[r] \in s}
             h == [s \in SUBSET ys |-> Cardinality(R(s))]
  <1>1. DOMAIN counts = ys
    OBVIOUS
  <1>2. \A s : IsFiniteSet(R(s)) /\ Cardinality(R(s)) \in Nat
    BY FS_Subset, FS_CardinalityType
  <1>3. ASSUME NEW s \in SUBSET ys, NEW y \in s
        PROVE  Cardinality(R(s)) = counts[y] + Cardinality(R(s \ {y}))
    <2>1. R(s) = R({y}) \cup R(s \ {y}) /\ R({y}) \cap R(s \ {y}) = {}
      OBVIOUS
    <2>2. counts[y] = Cardinality(R({y}))
      <3>1. R({y}) = {r \in T : year[r] = y}
        OBVIOUS
      <3> HIDE DEF R
      <3> QED
        BY <3>1
    <2> HIDE DEF R
    <2>3. Cardinality(R({y}) \cup R(s \ {y}))
          = Cardinality(R({y})) + Cardinality(R(s \ {y})) - Cardinality(R({y}) \cap R(s \ {y}))
      BY <1>2, FS_Union
    <2>4. Cardinality({}) = 0
      BY FS_EmptySet
    <2>5. Cardinality(R(s)) = Cardinality(R({y})) + Cardinality(R(s \ {y})) - 0
      BY <2>1, <2>3, <2>4
    <2>6. \A m, n \in Nat : m + n - 0 = m + n
      OBVIOUS
    <2>7. Cardinality(R({y})) \in Nat /\ Cardinality(R(s \ {y})) \in Nat
      BY <1>2
    <2>8. Cardinality(R(s)) = Cardinality(R({y})) + Cardinality(R(s \ {y}))
      BY <2>5, <2>6, <2>7
    <2> QED
      BY <2>2, <2>8
  <1>4. Cardinality(R({})) = 0
    <2>1. R({}) = {}
      OBVIOUS
    <2> HIDE DEF R
    <2> QED
      BY <2>1, FS_EmptySet
  <1> HIDE DEF R
  <1>5. \E f : Summing(counts, f)
    <2>1. ASSUME NEW s \in SUBSET ys
          PROVE  h[s] = IF s = {} THEN 0
                        ELSE LET y == CHOOSE y \in s : TRUE IN counts[y] + h[s \ {y}]
      <3>1. CASE s = {}
        BY <1>4, <3>1
      <3>2. CASE s # {}
        <4> DEFINE y == CHOOSE y \in s : TRUE
        <4>1. y \in s
          BY <3>2
        <4> HIDE DEF y
        <4>2. h[s] = counts[y] + h[s \ {y}]
          <5>1. s \ {y} \in SUBSET ys /\ h[s] = Cardinality(R(s))
            OBVIOUS
          <5>2. h[s \ {y}] = Cardinality(R(s \ {y}))
            BY <5>1
          <5> HIDE DEF h
          <5> QED
            BY <1>3, <4>1, <5>1, <5>2
        <4> QED
          BY <3>2, <4>2 DEF y
      <3> QED
        BY <3>1, <3>2
    <2>2. h = [s \in SUBSET ys |-> h[s]]
      OBVIOUS
    <2> HIDE DEF h
    <2>3. h = [s \in SUBSET ys |->
                 IF s = {} THEN 0
                 ELSE LET y == CHOOSE y \in s : TRUE IN counts[y] + h[s \ {y}]]
      BY <2>1, <2>2
    <2>4. Summing(counts, h)
      BY <1>1, <2>3 DEF Summing
    <2> QED
      BY <2>4
  <1>6. PICK f : Summing(counts, f) /\ SumFunction(counts) = f[DOMAIN counts]
    BY <1>5, SumIs
  <1> HIDE DEF h
  <1> DEFINE N == {n \in Nat : \A s \in SUBSET ys :
                     Cardinality(s) = n => f[s] = Cardinality(R(s))}
  <1>7. 0 \in N
    <2>1. ASSUME NEW s \in SUBSET ys, Cardinality(s) = 0
          PROVE  f[s] = Cardinality(R(s))
      <3>1. s = {}
        BY <2>1, FS_Subset, FS_EmptySet
      <3>2. f[s] = 0
        BY <1>1, <1>6, <3>1 DEF Summing
      <3> QED
        BY <1>4, <3>1, <3>2
    <2> QED
      BY <2>1
  <1>8. ASSUME NEW n \in Nat, n \in N
        PROVE  n + 1 \in N
    <2>1. ASSUME NEW s \in SUBSET ys, Cardinality(s) = n + 1
          PROVE  f[s] = Cardinality(R(s))
      <3> DEFINE y == CHOOSE y \in s : TRUE
      <3>1. s # {}
        BY <2>1, FS_EmptySet
      <3>2. y \in s
        BY <3>1
      <3>3. f[s] = counts[y] + f[s \ {y}]
        BY <1>1, <1>6, <3>1 DEF Summing
      <3> HIDE DEF y
      <3>4. IsFiniteSet(s)
        BY FS_Subset
      <3>5. Cardinality(s \ {y}) = Cardinality(s) - 1
        BY <3>2, <3>4, FS_RemoveElement
      <3>6. s \ {y} \in SUBSET ys /\ Cardinality(s \ {y}) = n
        BY <2>1, <3>5
      <3>7. f[s \ {y}] = Cardinality(R(s \ {y}))
        BY <1>8, <3>6
      <3> QED
        BY <1>3, <3>2, <3>3, <3>7
    <2> QED
      BY <2>1
  <1>9. Cardinality(ys) \in N
    <2>1. Cardinality(ys) \in Nat
      BY FS_CardinalityType
    <2> HIDE DEF N
    <2> QED
      BY <1>7, <1>8, <2>1, Induct
  <1>10. f[ys] = Cardinality(R(ys))
    BY <1>9
  <1> QED
    BY <1>1, <1>6, <1>10 DEF R

-----------------------------------------------------------------------------
(* Rows that hash alike, and the reports on them. *)

\* Two sets of rows that hash alike.
Alike(a, b) ==
    \A r \in Row :
        /\ a[r] = None <=> b[r] = None
        /\ a[r] # None =>
             /\ IsRow(SheetOf[r], a[r]) /\ IsRow(SheetOf[r], b[r])
             /\ IsValid(SheetOf[r], a[r]) /\ IsValid(SheetOf[r], b[r])
             /\ SourceHash(SheetOf[r], a[r]) = SourceHash(SheetOf[r], b[r])

\* Rows that hash alike, field by field.
LEMMA AlikeValues ==
    ASSUME NEW a, NEW b, Alike(a, b), NEW r \in Row, a[r] # None,
           NEW field \in Fields(SheetOf[r])
    PROVE  LET kind == KindOf(SheetOf[r], field)
               v == a[r][field]
               w == b[r][field]
           IN  /\ kind \in Kinds /\ Known(v) /\ Known(w)
               /\ Canonical(kind, v) = Canonical(kind, w)
               /\ Canonical(kind, v) # Rejected /\ Canonical(kind, w) # Rejected
               /\ v = None <=> w = None
  <1> DEFINE kind == KindOf(SheetOf[r], field)
             v == a[r][field]
             w == b[r][field]
  <1>1. SheetOf[r] \in Sheet
    BY ValuesAssumption
  <1>2. kind \in Kinds
    BY <1>1, ContractFacts
  <1>3. /\ IsRow(SheetOf[r], a[r]) /\ IsRow(SheetOf[r], b[r])
        /\ IsValid(SheetOf[r], a[r]) /\ IsValid(SheetOf[r], b[r])
        /\ SourceHash(SheetOf[r], a[r]) = SourceHash(SheetOf[r], b[r])
    BY DEF Alike
  <1>4. Known(v) /\ Known(w)
    BY <1>3 DEF IsRow, Known
  <1>5. Canonical(kind, v) # Rejected /\ Canonical(kind, w) # Rejected
    BY <1>3 DEF IsValid
  <1>6. Canonical(kind, v) = Canonical(kind, w)
    BY <1>3, HashEqual
  <1> HIDE DEF kind, v, w
  <1>7. Canonical(kind, None) = None
    BY CanonicalOfNone
  <1>8. /\ v # None => Canonical(kind, v) # None
        /\ w # None => Canonical(kind, w) # None
    BY <1>2, <1>4, <1>5, CanonicalNotNone DEF Known
  <1>9. v = None <=> w = None
    BY <1>6, <1>7, <1>8
  <1> QED
    BY <1>2, <1>4, <1>5, <1>6, <1>9 DEF kind, v, w

\* A transaction has the same year however its date is spelled.
LEMMA AlikeYears ==
    ASSUME NEW a, NEW b, Alike(a, b)
    PROVE  /\ Present(a) = Present(b) /\ Transactions(a) = Transactions(b)
           /\ \A r \in Transactions(a) :
                /\ YearOf(a, r) = YearOf(b, r)
                /\ YearOf(a, r) = None <=> a[r]["date"] = None
  <1>1. Present(a) = Present(b)
    BY DEF Present, Alike
  <1>2. Transactions(a) = Transactions(b)
    BY <1>1 DEF Transactions
  <1>3. ASSUME NEW r \in Transactions(a)
        PROVE  /\ YearOf(a, r) = YearOf(b, r)
               /\ YearOf(a, r) = None <=> a[r]["date"] = None
    <2>1. r \in Row /\ a[r] # None /\ SheetOf[r] # "parties" /\ SheetOf[r] \in Sheet
      BY ValuesAssumption DEF Transactions, Present
    <2>2. KindOf(SheetOf[r], "date") = "date" /\ "date" \in Fields(SheetOf[r])
      BY <2>1, ContractFacts
    <2> DEFINE v == a[r]["date"]
               w == b[r]["date"]
    <2>3. /\ Canonical("date", v) = Canonical("date", w)
          /\ Canonical("date", v) # Rejected /\ Canonical("date", w) # Rejected
          /\ v = None <=> w = None
      BY <2>1, <2>2, AlikeValues
    <2>4. /\ YearOf(a, r) = IF v = None THEN None ELSE DateOf[v.text][1]
          /\ YearOf(b, r) = IF w = None THEN None ELSE DateOf[w.text][1]
      BY DEF YearOf
    <2> HIDE DEF v, w
    <2>5. CASE v = None
      BY <2>3, <2>4, <2>5 DEF v
    <2>6. CASE v # None
      <3>1. /\ v.text \in DOMAIN DateOf /\ Canonical("date", v) = DateOf[v.text]
            /\ Canonical("date", w) = DateOf[w.text]
        BY <2>3, <2>6, CanonicalDateIs
      <3>2. DateOf[v.text][1] # None
        BY <3>1, ValuesAssumption
      <3> QED
        BY <2>3, <2>4, <2>6, <3>1, <3>2 DEF v
    <2> QED
      BY <2>5, <2>6
  <1> QED
    BY <1>1, <1>2, <1>3

\* The fiscal report sees canonical values only.
LEMMA AlikeEvidence ==
    ASSUME NEW a, NEW b, Alike(a, b)
    PROVE  Evidence(a) = Evidence(b)
  <1>1. /\ Present(a) = Present(b) /\ Transactions(a) = Transactions(b)
        /\ \A r \in Transactions(a) : YearOf(a, r) = YearOf(b, r)
    BY AlikeYears
  <1>2. Years(a) = Years(b)
    BY <1>1 DEF Years
  <1>3. \A y : {r \in Transactions(a) : YearOf(a, r) = y} = {r \in Transactions(b) : YearOf(b, r) = y}
    BY <1>1
  <1>4. [y \in Years(a) |-> Cardinality({r \in Transactions(a) : YearOf(a, r) = y})]
        = [y \in Years(b) |-> Cardinality({r \in Transactions(b) : YearOf(b, r) = y})]
    BY <1>2, <1>3
  <1> QED
    BY <1>1, <1>4 DEF Evidence

\* A field that could be at issue.
IsIssue(rows, i) ==
    LET v == rows[i[1]][i[2]]
    IN  IF i[3] = "missing" THEN v = None
        ELSE /\ v # None /\ KindOf(SheetOf[i[1]], i[2]) \in {"text", "date"}
             /\ v.type = "text" /\ v.text \in Blank

\* So does the report on requiredness: a blank text is no date.
LEMMA AlikeIssues ==
    ASSUME NEW a, NEW b, Alike(a, b)
    PROVE  Issues(a) = Issues(b)
  <1> DEFINE Asked(rows) ==
               UNION {{r} \X Required[SheetOf[r]] \X {"missing", "blank"} : r \in Present(rows)}
  <1>1. /\ Issues(a) = {i \in Asked(a) : IsIssue(a, i)}
        /\ Issues(b) = {i \in Asked(b) : IsIssue(b, i)}
    BY DEF Issues, IsIssue
  <1>2. Asked(a) = Asked(b)
    BY AlikeYears
  <1>3. ASSUME NEW i \in Asked(a)
        PROVE  IsIssue(a, i) <=> IsIssue(b, i)
    <2>1. PICK r \in Present(a) : i \in {r} \X Required[SheetOf[r]] \X {"missing", "blank"}
      OBVIOUS
    <2>2. i[1] = r /\ i[2] \in Required[SheetOf[r]]
      BY <2>1
    <2>3. r \in Row /\ a[r] # None /\ SheetOf[r] \in Sheet
      BY <2>1, ValuesAssumption DEF Present
    <2>4. i[2] \in Fields(SheetOf[r])
      BY <2>2, <2>3, ContractFacts
    <2> DEFINE kind == KindOf(SheetOf[r], i[2])
               v == a[r][i[2]]
               w == b[r][i[2]]
    <2>5. /\ kind \in Kinds /\ Known(v) /\ Known(w)
          /\ Canonical(kind, v) = Canonical(kind, w)
          /\ Canonical(kind, v) # Rejected /\ Canonical(kind, w) # Rejected
          /\ v = None <=> w = None
      BY <2>3, <2>4, AlikeValues
    <2>6. /\ IsIssue(a, i) <=> IF i[3] = "missing" THEN v = None
                               ELSE v # None /\ kind \in {"text", "date"}
                                    /\ v.type = "text" /\ v.text \in Blank
          /\ IsIssue(b, i) <=> IF i[3] = "missing" THEN w = None
                               ELSE w # None /\ kind \in {"text", "date"}
                                    /\ w.type = "text" /\ w.text \in Blank
      BY <2>2 DEF IsIssue
    <2> HIDE DEF kind, v, w
    <2>7. CASE v = None \/ kind \notin {"text", "date"}
      BY <2>5, <2>6, <2>7
    <2>8. CASE v # None /\ kind = "text"
      <3>1. v.type = "text" /\ w.type = "text" /\ v.text = w.text
        BY <2>5, <2>8, CanonicalTextIs DEF Known
      <3> QED
        BY <2>5, <2>6, <2>8, <3>1
    <2>9. CASE v # None /\ kind = "date"
      <3>1. v.text \in DOMAIN DateOf /\ w.text \in DOMAIN DateOf
        BY <2>5, <2>9, CanonicalDateIs
      <3>2. v.text \notin Blank /\ w.text \notin Blank
        BY <3>1, ValuesAssumption
      <3> QED
        BY <2>5, <2>6, <2>9, <3>2
    <2> QED
      BY <2>7, <2>8, <2>9
  <1> HIDE DEF Asked
  <1> QED
    BY <1>1, <1>2, <1>3

\* What no year counts has no date.
LEMMA UndatedMeans ==
    ASSUME NEW a, Alike(a, a)
    PROVE  /\ Undated(a) = Cardinality({r \in Transactions(a) : a[r]["date"] = None})
           /\ PassesRequiredness(a) => Undated(a) = 0
  <1> DEFINE T == Transactions(a)
             year == [r \in T |-> YearOf(a, r)]
             ys == Years(a)
             counts == Evidence(a).counts
             InSomeYear == {r \in T : year[r] \in ys}
             WithoutDate == {r \in T : a[r]["date"] = None}
  <1>1. IsFiniteSet(T)
    <2>1. T \in SUBSET Row
      BY DEF Transactions, Present
    <2> QED
      BY <2>1, FS_Subset, ValuesAssumption
  <1>2. IsFiniteSet(ys)
    <2>1. IsFiniteSet({year[r] : r \in DOMAIN year})
      <3>1. DOMAIN year = T /\ year = [r \in DOMAIN year |-> year[r]]
        OBVIOUS
      <3> HIDE DEF year, T
      <3> QED
        BY <1>1, <3>1, FiniteImage
    <2>2. ys \in SUBSET {year[r] : r \in DOMAIN year}
      BY DEF Years
    <2> HIDE DEF year, ys
    <2> QED
      BY <2>1, <2>2, FS_Subset
  <1>3. counts = [y \in ys |-> Cardinality({r \in T : year[r] = y})]
    <2>1. \A y : {r \in T : year[r] = y} = {r \in T : YearOf(a, r) = y}
      OBVIOUS
    <2>2. counts = [y \in ys |-> Cardinality({r \in T : YearOf(a, r) = y})]
      BY DEF Evidence
    <2> HIDE DEF year, counts, T, ys
    <2> QED
      BY <2>1, <2>2
  <1>4. SumFunction(counts) = Cardinality(InSomeYear)
    <2> HIDE DEF T, year, ys, counts
    <2> QED
      BY <1>1, <1>2, <1>3, CountsAddUp
  <1>5. Undated(a) = Cardinality(T) - Cardinality(InSomeYear)
    <2>1. Evidence(a).transactions = Cardinality(T)
      BY DEF Evidence
    <2>2. Dated(a) = Cardinality(InSomeYear)
      BY <1>4 DEF Dated
    <2> QED
      BY <2>1, <2>2 DEF Undated
  <1>6. WithoutDate = T \ InSomeYear
    <2>1. \A r \in T : year[r] = None <=> a[r]["date"] = None
      BY AlikeYears
    <2>2. \A r \in T : year[r] \in ys <=> year[r] # None
      BY DEF Years
    <2> HIDE DEF T, year, ys
    <2> QED
      BY <2>1, <2>2
  <1>7. Cardinality(WithoutDate) = Cardinality(T) - Cardinality(InSomeYear)
    <2>1. T \cap InSomeYear = InSomeYear
      OBVIOUS
    <2>2. Cardinality(T \ InSomeYear) = Cardinality(T) - Cardinality(T \cap InSomeYear)
      BY <1>1, FS_Difference
    <2> HIDE DEF T, InSomeYear, WithoutDate
    <2> QED
      BY <1>6, <2>1, <2>2
  <1>8. ASSUME PassesRequiredness(a)
        PROVE  WithoutDate = {}
    <2>1. SUFFICES ASSUME NEW r \in T, a[r]["date"] = None PROVE FALSE
      OBVIOUS
    <2>2. r \in Present(a) /\ SheetOf[r] # "parties" /\ SheetOf[r] \in Sheet
      BY ValuesAssumption DEF Transactions, Present
    <2>3. "date" \in Required[SheetOf[r]]
      BY <2>2, ContractFacts
    <2> DEFINE i == <<r, "date", "missing">>
    <2>4. i \in {r} \X Required[SheetOf[r]] \X {"missing", "blank"}
      BY <2>3
    <2>5. i[1] = r /\ i[2] = "date" /\ i[3] = "missing"
      OBVIOUS
    <2> HIDE DEF i
    <2>6. i \in Issues(a)
      BY <2>1, <2>2, <2>4, <2>5 DEF Issues
    <2> QED
      BY <1>8, <2>6 DEF PassesRequiredness
  <1>9. WithoutDate = {} => Cardinality(WithoutDate) = 0
    BY FS_EmptySet
  <1> QED
    BY <1>5, <1>7, <1>8, <1>9

-----------------------------------------------------------------------------
(* The store. *)

\* What is written or kept is a row of its sheet; what is kept is valid, and its
\* payload is what is stored; and after an import the store is like the workbook.
Inv ==
    /\ source = [r \in Row |-> source[r]] /\ kept = [r \in Row |-> kept[r]]
    /\ imported \in BOOLEAN
    /\ \A r \in Row :
         /\ source[r] = None \/ source[r] \in Spelled[SheetOf[r]]
         /\ kept[r] = None \/ /\ kept[r] \in Spelled[SheetOf[r]]
                              /\ IsValid(SheetOf[r], kept[r])
         /\ stored[r] = IF kept[r] = None THEN None ELSE Encode(SheetOf[r], r, kept[r])
    /\ imported => Alike(source, kept)

\* A row that may be written, and its payload.
LEMMA SpelledRows ==
    ASSUME NEW r \in Row, NEW values \in Spelled[SheetOf[r]]
    PROVE  /\ SheetOf[r] \in Sheet /\ IsRow(SheetOf[r], values) /\ values # None
           /\ Encode(SheetOf[r], r, values) # None
           /\ Encode(SheetOf[r], r, values).hash = SourceHash(SheetOf[r], values)
           /\ DecodedValues(Encode(SheetOf[r], r, values)) = values
           /\ Decodes(Encode(SheetOf[r], r, values))
  <1>1. /\ SheetOf[r] \in Sheet /\ IsRow(SheetOf[r], values) /\ values # None
        /\ Encode(SheetOf[r], r, values) # None
    BY ValuesAssumption
  <1>2. Encode(SheetOf[r], r, values).hash = SourceHash(SheetOf[r], values)
    BY DEF Encode
  <1> QED
    BY <1>1, <1>2, PayloadRoundTrip

\* Of a row that is there, the payload.
LEMMA StoredRow ==
    ASSUME Inv, NEW r \in Row
    PROVE  /\ stored[r] = None <=> kept[r] = None
           /\ kept[r] # None =>
                /\ stored[r] = Encode(SheetOf[r], r, kept[r])
                /\ stored[r].hash = SourceHash(SheetOf[r], kept[r])
                /\ Decodes(stored[r]) /\ DecodedValues(stored[r]) = kept[r]
                /\ IsRow(SheetOf[r], kept[r]) /\ IsValid(SheetOf[r], kept[r])
  <1>1. CASE kept[r] = None
    BY <1>1 DEF Inv
  <1>2. CASE kept[r] # None
    <2>1. /\ kept[r] \in Spelled[SheetOf[r]] /\ IsValid(SheetOf[r], kept[r])
          /\ stored[r] = Encode(SheetOf[r], r, kept[r])
      BY <1>2 DEF Inv
    <2> QED
      BY <1>2, <2>1, SpelledRows
  <1> QED
    BY <1>1, <1>2

\* At first there is nothing.
LEMMA InvInit == Init => Inv
  <1>1. SUFFICES ASSUME Init PROVE Inv
    OBVIOUS
  <1> QED
    BY <1>1 DEF Init, Inv

\* A user writes one row, or clears it.
LEMMA InvWrite ==
    ASSUME Inv, NEW r \in Row, Write(r)
    PROVE  Inv'
  <1>1. /\ imported' = FALSE /\ stored' = stored /\ kept' = kept
    BY DEF Write
  <1>2. PICK values \in {None} \cup Spelled[SheetOf[r]] : source' = [source EXCEPT ![r] = values]
    BY DEF Write
  <1>3. /\ source' = [x \in Row |-> source'[x]]
        /\ \A x \in Row : source'[x] = IF x = r THEN values ELSE source[x]
    <2>1. source = [x \in Row |-> source[x]]
      BY DEF Inv
    <2>2. source' = [x \in Row |-> IF x = r THEN values ELSE source[x]]
      BY <1>2, <2>1
    <2> QED
      BY <2>2
  <1>4. \A x \in Row : source'[x] = None \/ source'[x] \in Spelled[SheetOf[x]]
    BY <1>2, <1>3 DEF Inv
  <1> QED
    BY <1>1, <1>3, <1>4 DEF Inv

\* An import keeps equal rows and encodes the others.
LEMMA InvImport ==
    ASSUME Inv, Import
    PROVE  Inv'
  <1>1. /\ source' = source /\ imported' = TRUE
        /\ \A r \in Row : source[r] # None => IsValid(SheetOf[r], source[r])
        /\ kept' = [r \in Row |-> IF IsUnchanged(r) THEN kept[r] ELSE source[r]]
        /\ \A r \in Row : stored'[r] = IF IsUnchanged(r) THEN stored[r]
                                       ELSE IF source[r] = None THEN None
                                       ELSE Encode(SheetOf[r], r, source[r])
    BY DEF Import, Present
  <1>2. ASSUME NEW r \in Row, IsUnchanged(r)
        PROVE  /\ source[r] # None /\ kept[r] # None
               /\ SourceHash(SheetOf[r], source[r]) = SourceHash(SheetOf[r], kept[r])
    BY <1>2, StoredRow DEF IsUnchanged
  <1>3. ASSUME NEW r \in Row
        PROVE  /\ kept'[r] = None \/ /\ kept'[r] \in Spelled[SheetOf[r]]
                                     /\ IsValid(SheetOf[r], kept'[r])
               /\ stored'[r] = IF kept'[r] = None THEN None
                               ELSE Encode(SheetOf[r], r, kept'[r])
    <2>1. CASE IsUnchanged(r)
      BY <1>1, <2>1 DEF Inv
    <2>2. CASE ~IsUnchanged(r)
      BY <1>1, <2>2 DEF Inv
    <2> QED
      BY <2>1, <2>2
  <1>4. ASSUME NEW r \in Row
        PROVE  /\ source[r] = None <=> kept'[r] = None
               /\ source[r] # None =>
                    /\ IsRow(SheetOf[r], source[r]) /\ IsRow(SheetOf[r], kept'[r])
                    /\ IsValid(SheetOf[r], source[r]) /\ IsValid(SheetOf[r], kept'[r])
                    /\ SourceHash(SheetOf[r], source[r]) = SourceHash(SheetOf[r], kept'[r])
    <2>1. source[r] # None => IsRow(SheetOf[r], source[r]) /\ IsValid(SheetOf[r], source[r])
      BY <1>1, SpelledRows DEF Inv
    <2>2. CASE IsUnchanged(r)
      <3>1. kept'[r] = kept[r]
        BY <1>1, <2>2
      <3>2. IsRow(SheetOf[r], kept[r]) /\ IsValid(SheetOf[r], kept[r])
        BY <1>2, <2>2, StoredRow
      <3> QED
        BY <1>2, <2>1, <2>2, <3>1, <3>2
    <2>3. CASE ~IsUnchanged(r)
      <3>1. kept'[r] = source[r]
        BY <1>1, <2>3
      <3> QED
        BY <2>1, <3>1
    <2> QED
      BY <2>2, <2>3
  <1>5. Alike(source, kept)'
    BY <1>1, <1>4 DEF Alike
  <1>6. kept' = [r \in Row |-> kept'[r]]
    BY <1>1
  <1> QED
    BY <1>1, <1>3, <1>5, <1>6 DEF Inv

\* The invariant holds always.
LEMMA Invariance == Spec => []Inv
  <1>1. Inv /\ [Next]_vars => Inv'
    <2>1. SUFFICES ASSUME Inv, [Next]_vars PROVE Inv'
      OBVIOUS
    <2>2. CASE Import
      BY <2>1, <2>2, InvImport
    <2>3. CASE \E r \in Row : Write(r)
      BY <2>1, <2>3, InvWrite
    <2>4. CASE UNCHANGED vars
      BY <2>1, <2>4 DEF vars, Inv, Alike
    <2> QED
      BY <2>1, <2>2, <2>3, <2>4 DEF Next
  <1> QED
    BY <1>1, InvInit, PTL DEF Spec

\* A payload gives back the very values it was made of, a row counts as unchanged
\* exactly when it means what the stored one means, and after an import the store
\* holds the rows of the workbook.
THEOREM StoreMeansSource == Spec => []StoredMeansSource
  <1>1. ASSUME Inv PROVE StoredMeansSource
    <2>1. ASSUME NEW r \in Row
          PROVE  stored[r] # None => Decodes(stored[r]) /\ DecodedValues(stored[r]) = kept[r]
      BY <1>1, StoredRow
    <2>2. ASSUME NEW r \in Row, stored[r] # None, source[r] # None,
                 IsValid(SheetOf[r], source[r])
          PROVE  IsUnchanged(r) <=> SameRow(SheetOf[r], source[r], kept[r])
      <3>1. /\ SheetOf[r] \in Sheet /\ IsRow(SheetOf[r], source[r])
        BY <1>1, <2>2, SpelledRows DEF Inv
      <3>2. /\ IsRow(SheetOf[r], kept[r]) /\ IsValid(SheetOf[r], kept[r])
            /\ stored[r].hash = SourceHash(SheetOf[r], kept[r])
        BY <1>1, <2>2, StoredRow
      <3>3. SourceHash(SheetOf[r], source[r]) = SourceHash(SheetOf[r], kept[r])
            <=> SameRow(SheetOf[r], source[r], kept[r])
        BY <2>2, <3>1, <3>2, HashMeans
      <3> QED
        BY <2>2, <3>2, <3>3 DEF IsUnchanged
    <2>3. ASSUME imported, NEW r \in Row
          PROVE  stored[r] = None <=> source[r] = None
      BY <1>1, <2>3, StoredRow DEF Inv, Alike
    <2> QED
      BY <2>1, <2>2, <2>3 DEF StoredMeansSource
  <1> QED
    BY <1>1, Invariance, PTL

\* The reports say of the rows the store holds what they say of the workbook, and
\* their counts add up.
THEOREM ReportsAddUp == Spec => []EvidenceAddsUp
  <1>1. ASSUME Inv, imported
        PROVE  /\ Evidence(Held) = Evidence(source) /\ Issues(Held) = Issues(source)
               /\ Undated(source)
                  = Cardinality({r \in Transactions(source) : source[r]["date"] = None})
               /\ PassesRequiredness(source) => Undated(source) = 0
    <2>1. Held = kept
      <3>1. \A r \in Row : kept[r] = IF stored[r] = None THEN None ELSE DecodedValues(stored[r])
        BY <1>1, StoredRow
      <3>2. kept = [r \in Row |-> kept[r]]
        BY <1>1 DEF Inv
      <3> QED
        BY <3>1, <3>2 DEF Held
    <2>2. Alike(source, kept)
      BY <1>1 DEF Inv
    <2>3. Alike(source, source)
      BY <2>2 DEF Alike
    <2>4. Evidence(source) = Evidence(kept) /\ Issues(source) = Issues(kept)
      BY <2>2, AlikeEvidence, AlikeIssues
    <2> QED
      BY <2>1, <2>3, <2>4, UndatedMeans
  <1>2. Inv => EvidenceAddsUp
    BY <1>1 DEF EvidenceAddsUp
  <1> QED
    BY <1>2, Invariance, PTL
================================================================================
