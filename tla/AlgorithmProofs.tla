--------------------------- MODULE AlgorithmProofs ---------------------------
(***************************************************************************)
(* The two algorithms of the program: the retry delay, for any width of the *)
(* integer, any delays and any number of attempts, and the splitting of a   *)
(* text, for texts and limits of any size.                                  *)
(***************************************************************************)
EXTENDS RetryDelay, TextSplit, FiniteSetTheorems, SequenceTheorems, WellFoundedInduction, TLAPS

\* Induction over the natural numbers, as closure of a set.
LEMMA NatSetInduction ==
    ASSUME NEW T, 0 \in T, \A n \in Nat : n \in T => n + 1 \in T
    PROVE  \A n \in Nat : n \in T
<1> DEFINE U == Nat \ T
<1>1. SUFFICES ASSUME U # {} PROVE FALSE
  OBVIOUS
<1>2. IsWellFoundedOn(OpToRel(<, Nat), Nat)
  BY NatLessThanWellFounded
<1>3. PICK x \in U : \A y \in U : ~(<<y, x>> \in OpToRel(<, Nat))
  <2>1. U \subseteq Nat
    OBVIOUS
  <2> HIDE DEF U
  <2> QED
    BY <1>1, <1>2, <2>1, WFMin
<1>4. \A y \in U : ~(y < x)
  BY <1>3 DEF OpToRel
<1>5. x \in Nat /\ x # 0 /\ x - 1 \in Nat /\ x - 1 \notin U
  BY <1>4
<1> QED
  BY <1>5
-----------------------------------------------------------------------------
(* Powers of two, through the number of subsets of an interval. *)

\* A power of two counts the subsets of an interval.
LEMMA SubsetsOfInterval ==
    ASSUME NEW n \in Nat
    PROVE  IsFiniteSet(SUBSET (1 .. n)) /\ Cardinality(SUBSET (1 .. n)) = 2^n
<1>1. IsFiniteSet(1 .. n) /\ Cardinality(1 .. n) = n
  <2>1. IsFiniteSet(1 .. n) /\ Cardinality(1 .. n) = IF 1 > n THEN 0 ELSE n - 1 + 1
    BY FS_Interval
  <2> QED
    BY <2>1
<1> QED
  BY <1>1, FS_SUBSET

\* It is positive.
LEMMA PowerPositive ==
    ASSUME NEW n \in Nat
    PROVE  2^n \in Nat \ {0}
<1>1. IsFiniteSet(SUBSET (1 .. n)) /\ Cardinality(SUBSET (1 .. n)) = 2^n
  BY SubsetsOfInterval
<1>2. SUBSET (1 .. n) # {}
  OBVIOUS
<1> HIDE DEF Cardinality
<1>3. Cardinality(SUBSET (1 .. n)) \in Nat /\ Cardinality(SUBSET (1 .. n)) # 0
  BY <1>1, <1>2, FS_CardinalityType, FS_EmptySet
<1> QED
  BY <1>1, <1>3

\* The first one is 1.
LEMMA PowerZero == 2^0 = 1
<1>1. SUBSET (1 .. 0) = {{}}
  OBVIOUS
<1>2. Cardinality(SUBSET (1 .. 0)) = 2^0
  BY SubsetsOfInterval
<1>3. Cardinality({{}}) = 1
  BY FS_Singleton
<1> QED
  BY <1>1, <1>2, <1>3

\* Each is twice the one before: the subsets with the last element, and without.
LEMMA PowerNext ==
    ASSUME NEW n \in Nat
    PROVE  2^(n + 1) = 2 * 2^n
<1> DEFINE A == SUBSET (1 .. n)
           Add(S) == S \union {n + 1}
           B == {Add(S) : S \in A}
           f == [S \in A |-> Add(S)]
           C == SUBSET (1 .. (n + 1))
<1>0. Cardinality(C) = 2^(n + 1)
  <2>1. n + 1 \in Nat
    OBVIOUS
  <2> QED
    BY <2>1, SubsetsOfInterval
<1>1. IsFiniteSet(A) /\ Cardinality(A) = 2^n
  BY SubsetsOfInterval
<1>2. C = A \union B
  <2>1. ASSUME NEW S \in C
        PROVE  S \in A \union B
    <3>1. CASE n + 1 \in S
      <4>1. S \ {n + 1} \in A
        OBVIOUS
      <4>2. S = Add(S \ {n + 1})
        BY <3>1
      <4> QED
        BY <4>1, <4>2
    <3>2. CASE n + 1 \notin S
      BY <3>2
    <3> QED
      BY <3>1, <3>2
  <2>2. ASSUME NEW S \in A \union B
        PROVE  S \in C
    OBVIOUS
  <2> QED
    BY <2>1, <2>2
<1>3. A \intersect B = {}
  OBVIOUS
<1>4. f \in Bijection(A, B)
  <2>1. f \in [A -> B]
    OBVIOUS
  <2>2. \A S, T \in A : f[S] = f[T] => S = T
    <3> SUFFICES ASSUME NEW S \in A, NEW T \in A, Add(S) = Add(T)
                 PROVE  S = T
      OBVIOUS
    <3>1. n + 1 \notin S /\ n + 1 \notin T
      OBVIOUS
    <3> QED
      BY <3>1
  <2>3. \A t \in B : \E S \in A : f[S] = t
    OBVIOUS
  <2> QED
    BY <2>1, <2>2, <2>3 DEF Bijection, Injection, Surjection, IsInjective
<1>5. IsFiniteSet(B) /\ Cardinality(B) = Cardinality(A)
  <2> HIDE DEF A, B, f
  <2>1. ExistsBijection(A, B)
    BY <1>4 DEF ExistsBijection
  <2> QED
    BY <1>1, <2>1, FS_Bijection
<1>6. Cardinality(A \union B) = Cardinality(A) + Cardinality(B) - Cardinality(A \intersect B)
  <2> HIDE DEF A, B
  <2> QED
    BY <1>1, <1>5, FS_Union
<1>7. Cardinality(A \intersect B) = 0
  BY <1>3, FS_EmptySet
<1>8. 2^n \in Nat
  BY PowerPositive
<1> HIDE DEF A, B, C
<1>9. Cardinality(C) = 2^n + 2^n
  BY <1>1, <1>2, <1>5, <1>6, <1>7, <1>8
<1> QED
  BY <1>0, <1>8, <1>9

\* Powers multiply by adding the exponents.
LEMMA PowerSum ==
    ASSUME NEW a \in Nat, NEW b \in Nat
    PROVE  2^(a + b) = 2^a * 2^b
<1> DEFINE T == {n \in Nat : 2^(a + n) = 2^a * 2^n}
<1>0. \A n \in Nat : 2^n \in Nat
  BY PowerPositive
<1>1. 0 \in T
  BY <1>0, PowerZero
<1>2. ASSUME NEW n \in Nat, n \in T
      PROVE  n + 1 \in T
  <2>1. 2^(a + n) = 2^a * 2^n
    BY <1>2
  <2>2. 2^((a + n) + 1) = 2 * 2^(a + n) /\ 2^(n + 1) = 2 * 2^n
    BY PowerNext
  <2>3. (a + n) + 1 = a + (n + 1)
    OBVIOUS
  <2>4. 2 * (2^a * 2^n) = 2^a * (2 * 2^n)
    BY <1>0
  <2> QED
    BY <2>1, <2>2, <2>3, <2>4
<1>3. b \in T
  <2> HIDE DEF T
  <2> QED
    BY <1>1, <1>2, NatSetInduction
<1> QED
  BY <1>3
-----------------------------------------------------------------------------
(* The integer of Width bits. *)

\* A product is at least as large as its factors, if they are positive.
LEMMA FactorBounds ==
    ASSUME NEW a \in Nat \ {0}, NEW b \in Nat \ {0}
    PROVE  a * b \in Nat \ {0} /\ a <= a * b /\ b <= a * b
OBVIOUS

\* Quotient and remainder.
LEMMA Division ==
    ASSUME NEW x \in Int, NEW m \in Nat \ {0}
    PROVE  /\ x % m \in 0 .. (m - 1)
           /\ x \div m \in Int
           /\ x = m * (x \div m) + (x % m)
OBVIOUS

\* Nothing is lost of a number that fits.
LEMMA SmallRemainder ==
    ASSUME NEW m \in Nat \ {0}, NEW x \in 0 .. (m - 1)
    PROVE  x % m = x
<1>1. /\ x % m \in 0 .. (m - 1) /\ x \div m \in Int
      /\ x = m * (x \div m) + (x % m)
  BY Division
<1>2. ASSUME NEW q \in Int, NEW r \in 0 .. (m - 1), x = m * q + r
      PROVE  q = 0
  <2>1. CASE q >= 1
    BY <1>2, <2>1, m <= m * q
  <2>2. CASE q <= -1
    BY <1>2, <2>2
  <2> QED
    BY <2>1, <2>2
<1>3. x \div m = 0
  BY <1>1, <1>2
<1> QED
  BY <1>1, <1>3

\* Half the range, and the whole of it.
LEMMA Halves ==
    /\ Width - 1 \in Nat /\ Width \in Nat
    /\ 2^(Width - 1) \in Nat \ {0}
    /\ 2^Width = 2 * 2^(Width - 1)
<1>1. Width - 1 \in Nat /\ Width \in Nat /\ (Width - 1) + 1 = Width
  BY BackoffAssumption
<1> QED
  BY <1>1, PowerPositive, PowerNext

\* The integer holds what fits in it, and of any number something that differs from it
\* by a multiple of the range.
LEMMA SignedValue ==
    ASSUME NEW x \in Int
    PROVE  /\ Signed(x) \in Int
           /\ -(2^(Width - 1)) <= Signed(x) /\ Signed(x) < 2^(Width - 1)
           /\ \E q \in Int : Signed(x) = x - q * 2^Width
           /\ -(2^(Width - 1)) <= x /\ x < 2^(Width - 1) => Signed(x) = x
<1> DEFINE h == 2^(Width - 1)
           m == 2^Width
<1>1. h \in Nat \ {0} /\ m = 2 * h
  BY Halves
<1>2. Signed(x) = ((x + h) % m) - h
  BY DEF Signed
<1> HIDE DEF h, m
<1>3. m \in Nat \ {0} /\ x + h \in Int
  BY <1>1
<1>4. /\ (x + h) % m \in 0 .. (m - 1) /\ (x + h) \div m \in Int
      /\ x + h = m * ((x + h) \div m) + ((x + h) % m)
  BY <1>3, Division
<1>5. Signed(x) \in Int /\ -h <= Signed(x) /\ Signed(x) < h
  BY <1>1, <1>2, <1>4
<1>6. \E q \in Int : Signed(x) = x - q * m
  <2>1. ASSUME NEW q \in Int, NEW r \in 0 .. (m - 1), x + h = m * q + r, Signed(x) = r - h
        PROVE  Signed(x) = x - q * m
    <3>1. m * q \in Int /\ m * q = q * m
      BY <1>3
    <3> QED
      BY <1>1, <2>1, <3>1
  <2> QED
    BY <1>2, <1>4, <2>1
<1>7. ASSUME -h <= x, x < h
      PROVE  Signed(x) = x
  <2>1. x + h \in 0 .. (m - 1)
    BY <1>1, <1>7
  <2>2. (x + h) % m = x + h
    BY <1>3, <2>1, SmallRemainder
  <2> QED
    BY <1>1, <1>2, <2>2
<1> QED
  BY <1>5, <1>6, <1>7 DEF h, m
-----------------------------------------------------------------------------
(* The delay. *)

\* Whatever the shift leaves in the integer, the clamp brings it between base and
\* maximum, or to the maximum when there is nothing between them.
LEMMA ClampBounds ==
    ASSUME NEW d, NEW b \in Int, NEW m \in Int
    PROVE  Clamp(d, b, m) <= m /\ (Clamp(d, b, m) >= b \/ Clamp(d, b, m) = m)
BY DEF Clamp

\* The delays in use are positive, whatever the settings.
LEMMA DelaysPositive ==
    ASSUME NEW base \in Int, NEW max \in Int
    PROVE  BaseOf(base) \in Nat \ {0} /\ MaxOf(max) \in Nat \ {0}
BY BackoffAssumption DEF BaseOf, MaxOf

\* nextDelay is within its bounds for every attempt and all settings.
LEMMA NextDelayBounds ==
    ASSUME NEW a, NEW base \in Int, NEW max \in Int
    PROVE  /\ nextDelay(a, base, max) <= MaxOf(max)
           /\ \/ nextDelay(a, base, max) >= BaseOf(base)
              \/ nextDelay(a, base, max) = MaxOf(max)
<1>1. BaseOf(base) \in Int /\ MaxOf(max) \in Int
  BY DelaysPositive
<1> QED
  BY <1>1, ClampBounds DEF nextDelay

\* The configuration is the one Load made of the environment, and attempts are counted.
Loaded == /\ env.baseDelayMS \in Int /\ env.maxDelayMS \in Int
          /\ config = Load(env)
          /\ attempt \in Nat

\* It stays what it was when the process started.
LEMMA LoadedHolds == DelaySpec => []Loaded
<1>1. DelayInit => Loaded
  <2>1. DelayInit => env.baseDelayMS \in BaseMS /\ env.maxDelayMS \in MaxMS
    BY DEF DelayInit
  <2>2. DelayInit => config = Load(env) /\ attempt \in Nat
    BY DEF DelayInit
  <2> QED
    BY <2>1, <2>2, SettingsAssumption DEF Loaded
<1>2. Loaded /\ [DelayNext]_delayVars => Loaded'
  BY DEF Loaded, DelayNext, delayVars
<1> QED
  BY <1>1, <1>2, PTL DEF DelaySpec

\* The settings a process starts with.
LEMMA LoadedDelays ==
    ASSUME Loaded
    PROVE  /\ config.base = Signed(env.baseDelayMS * Millisecond) /\ config.base \in Int
           /\ config.max = Signed(env.maxDelayMS * Millisecond) /\ config.max \in Int
           /\ config.started => config.base >= 0 /\ config.max >= 0
<1>1. env.baseDelayMS * Millisecond \in Int /\ env.maxDelayMS * Millisecond \in Int
  BY ConfigAssumption DEF Loaded
<1>2. Signed(env.baseDelayMS * Millisecond) \in Int /\ Signed(env.maxDelayMS * Millisecond) \in Int
  BY <1>1, SignedValue
<1> QED
  BY <1>2 DEF Loaded, Load, Duration

\* Whatever the product or the shift overflows to, a delay stays within its bounds.
THEOREM DelaysBounded == DelaySpec => []DelayInBounds
<1>1. Loaded => DelayInBounds
  BY LoadedDelays, NextDelayBounds DEF DelayInBounds, Delay
<1> QED
  BY <1>1, LoadedHolds, PTL
-----------------------------------------------------------------------------
\* Every positive number is an odd one times a power of two.
LEMMA OddFactor ==
    ASSUME NEW n \in Nat \ {0}
    PROVE  \E o \in 1 .. n : o % 2 = 1 /\ \E z \in Nat : n = o * 2^z
<1> DEFINE Factored(x) == \E o \in 1 .. x : o % 2 = 1 /\ \E z \in Nat : x = o * 2^z
           T == {x \in Nat : \A y \in 1 .. x : Factored(y)}
<1>1. 0 \in T
  OBVIOUS
<1>2. ASSUME NEW x \in Nat, x \in T
      PROVE  x + 1 \in T
  <2>1. Factored(x + 1)
    <3>1. CASE (x + 1) % 2 = 1
      <4>1. 0 \in Nat /\ x + 1 = (x + 1) * 2^0 /\ x + 1 \in 1 .. (x + 1)
        BY PowerZero
      <4>2. \E z \in Nat : x + 1 = (x + 1) * 2^z
        BY <4>1
      <4> QED
        BY <3>1, <4>1, <4>2
    <3>2. CASE (x + 1) % 2 = 0
      <4>1. PICK y \in Nat : x + 1 = 2 * y
        BY <3>2
      <4>2. y \in 1 .. x
        BY <4>1
      <4>3. PICK o \in 1 .. y, z \in Nat : o % 2 = 1 /\ y = o * 2^z
        BY <1>2, <4>2
      <4>4. 2^z \in Nat /\ 2^(z + 1) = 2 * 2^z /\ z + 1 \in Nat
        BY PowerPositive, PowerNext
      <4>5. x + 1 = o * 2^(z + 1) /\ o \in 1 .. (x + 1)
        BY <4>1, <4>2, <4>3, <4>4
      <4> QED
        BY <4>3, <4>4, <4>5
    <3> QED
      BY <3>1, <3>2
  <2> HIDE DEF Factored
  <2> QED
    BY <1>2, <2>1
<1>3. n \in T
  <2> HIDE DEF T
  <2> QED
    BY <1>1, <1>2, NatSetInduction
<1> QED
  BY <1>3

\* OddPart finds it, for a number that fits in the integer.
LEMMA OddPartFound ==
    ASSUME NEW n \in Nat \ {0}, n < 2^(Width - 1)
    PROVE  OddPart(n) \in Nat \ {0} /\ \E z \in Nat : n = OddPart(n) * 2^z
<1>1. PICK o \in 1 .. n, z \in Nat : o % 2 = 1 /\ n = o * 2^z
  BY OddFactor
<1>2. z \in 0 .. Width
  <2> SUFFICES ASSUME z > Width
               PROVE  FALSE
    BY Halves
  <2>1. z - Width \in Nat /\ Width + (z - Width) = z
    BY Halves
  <2>2. 2^z = 2^Width * 2^(z - Width)
    BY <2>1, Halves, PowerSum
  <2>3. 2^Width \in Nat \ {0} /\ 2^(z - Width) \in Nat \ {0} /\ 2^z \in Nat \ {0}
    BY <2>1, Halves, PowerPositive
  <2>4. 2^Width <= 2^z
    BY <2>2, <2>3, FactorBounds
  <2>5. 2^z <= n
    BY <1>1, <2>3, FactorBounds
  <2> QED
    BY <2>3, <2>4, <2>5, Halves
<1>3. \E p \in 1 .. n : p % 2 = 1 /\ \E y \in 0 .. Width : n = p * 2^y
  BY <1>1, <1>2
<1>4. OddPart(n) \in 1 .. n /\ \E y \in 0 .. Width : n = OddPart(n) * 2^y
  BY <1>3 DEF OddPart
<1> QED
  BY <1>4, Halves

\* When the odd part of the base times the maximum fits in the integer, an overflow of
\* the shift cannot come out between base and maximum: what is left of it is a multiple
\* of the power of two in it.
LEMMA ShiftClamped ==
    ASSUME NEW base \in Nat \ {0}, NEW max \in Nat \ {0}, NEW k \in Nat,
           base < 2^(Width - 1), max < 2^(Width - 1), OddPart(base) * max < 2^(Width - 1)
    PROVE  Clamp(Signed(base * 2^k), base, max) = IF base * 2^k <= max THEN base * 2^k ELSE max
<1> DEFINE h == 2^(Width - 1)
           m == 2^Width
           e == base * 2^k
           o == OddPart(base)
           d == Signed(e)
<1>1. h \in Nat \ {0} /\ m = 2 * h /\ Width \in Nat
  BY Halves
<1>2. 2^k \in Nat \ {0}
  BY PowerPositive
<1>3. e \in Nat \ {0} /\ base <= e
  BY <1>2, FactorBounds
<1>4. CASE e <= max
  <2>1. d = e
    <3>1. -h <= e /\ e < h
      BY <1>1, <1>3, <1>4
    <3> QED
      BY <1>3, <3>1, SignedValue
  <2> QED
    BY <1>3, <1>4, <2>1 DEF Clamp
<1>5. CASE ~(e <= max)
  <2> SUFFICES ASSUME d \in base .. max
               PROVE  FALSE
    BY <1>5 DEF Clamp
  <2>1. o \in Nat \ {0} /\ \E z \in Nat : base = o * 2^z
    BY OddPartFound
  <2>2. PICK z \in Nat : base = o * 2^z
    BY <2>1
  <2> DEFINE j == z + k
             p == 2^j
  <2>3. p \in Nat \ {0} /\ e = o * p /\ j \in Nat
    <3>1. 2^j = 2^z * 2^k /\ 2^z \in Nat /\ j \in Nat
      BY PowerSum, PowerPositive
    <3> HIDE DEF o
    <3>2. e = o * (2^z * 2^k)
      BY <1>2, <2>1, <2>2, <3>1
    <3> QED
      BY <3>1, <3>2, PowerPositive
  <2>4. PICK q \in Int : d = e - q * m
    BY <1>3, SignedValue
  <2>5. \E c \in Int : d = c * p
    <3>1. CASE j >= Width
      <4>1. j - Width \in Nat /\ Width + (j - Width) = j
        BY <1>1, <2>3, <3>1
      <4>2. PICK r \in Nat : p = m * r
        <5>1. 2^(Width + (j - Width)) = 2^Width * 2^(j - Width) /\ 2^(j - Width) \in Nat
          <6> HIDE DEF j
          <6> QED
            BY <1>1, <4>1, PowerSum, PowerPositive
        <5> QED
          BY <4>1, <5>1
      <4>3. d = (o * r - q) * m
        <5> HIDE DEF o, e, d, m, p, j
        <5>1. m \in Nat
          BY <1>1
        <5> QED
          BY <2>1, <2>3, <2>4, <4>2, <5>1
      <4>4. d = 0
        <5>1. -h <= d /\ d < h /\ d \in Int
          BY <1>3, SignedValue
        <5>2. ASSUME NEW x \in Int, d = x * m
              PROVE  d = 0
          <6> HIDE DEF h, m, d
          <6>1. CASE x >= 1
            BY <1>1, <5>1, <5>2, <6>1
          <6>2. CASE x <= -1
            BY <1>1, <5>1, <5>2, <6>2
          <6>3. CASE x = 0
            BY <1>1, <5>2, <6>3
          <6> QED
            BY <6>1, <6>2, <6>3
        <5> HIDE DEF o, m, d
        <5>3. o * r - q \in Int
          BY <2>1
        <5> QED
          BY <4>3, <5>2, <5>3
      <4> QED
        BY <4>4
    <3>2. CASE ~(j >= Width)
      <4>1. Width - j \in Nat /\ j + (Width - j) = Width
        BY <1>1, <2>3, <3>2
      <4>2. PICK r \in Nat : m = p * r
        <5>1. 2^(j + (Width - j)) = 2^j * 2^(Width - j) /\ 2^(Width - j) \in Nat
          <6> HIDE DEF j
          <6> QED
            BY <2>3, <4>1, PowerSum, PowerPositive
        <5> QED
          BY <4>1, <5>1
      <4>3. d = (o - q * r) * p
        <5> HIDE DEF o, e, d, m, p, j
        <5> QED
          BY <2>1, <2>3, <2>4, <4>2
      <4>4. o - q * r \in Int
        <5> HIDE DEF o
        <5> QED
          BY <2>1
      <4> QED
        BY <4>3, <4>4
    <3> QED
      BY <3>1, <3>2
  <2>6. p <= d
    <3>1. PICK c \in Int : d = c * p
      BY <2>5
    <3> HIDE DEF p, d
    <3>2. c >= 1
      <4>1. CASE c <= 0
        BY <2>3, <3>1, <4>1
      <4> QED
        BY <4>1
    <3> QED
      BY <2>3, <3>1, <3>2
  <2>7. e < h
    <3> HIDE DEF o, e, p, h, d
    <3>1. p <= max
      BY <2>3, <2>6
    <3>2. o * p <= o * max
      BY <2>1, <2>3, <3>1
    <3> QED
      BY <1>1, <2>1, <2>3, <3>2 DEF o, h
  <2>8. d = e
    <3>1. -h <= e /\ e < h
      BY <1>1, <1>3, <2>7
    <3> QED
      BY <1>3, <3>1, SignedValue
  <2> QED
    BY <1>3, <1>5, <2>8
<1> QED
  BY <1>4, <1>5

\* A setting that fits in a duration is the delay in use; an absent one is the default.
LEMMA WrittenDelay ==
    ASSUME NEW n \in Int, NEW default \in Nat \ {0}, Signed(n * Millisecond) >= 0,
           Written(n, default) = Signed(Written(n, default))
    PROVE  /\ Written(n, default) \in Nat \ {0} /\ Written(n, default) < 2^(Width - 1)
           /\ Written(n, default) =
                IF Signed(n * Millisecond) <= 0 THEN default ELSE Signed(n * Millisecond)
<1>1. Millisecond \in Nat \ {0} /\ n * Millisecond \in Int
  BY ConfigAssumption
<1>2. CASE n = 0
  <2>1. Written(n, default) = default /\ n * Millisecond = 0
    BY <1>1, <1>2 DEF Written
  <2>2. Signed(0) = 0
    <3>1. -(2^(Width - 1)) <= 0 /\ 0 < 2^(Width - 1)
      BY Halves
    <3> QED
      BY <3>1, SignedValue
  <2>3. Signed(default) < 2^(Width - 1)
    BY SignedValue
  <2> QED
    BY <2>1, <2>2, <2>3
<1>3. CASE n # 0
  <2>1. Written(n, default) = n * Millisecond
    BY <1>3 DEF Written
  <2>2. n * Millisecond # 0
    BY <1>1, <1>3
  <2>3. Signed(n * Millisecond) \in Int /\ Signed(n * Millisecond) < 2^(Width - 1)
    BY <1>1, SignedValue
  <2> QED
    BY <1>1, <2>1, <2>2, <2>3
<1> QED
  BY <1>2, <1>3

\* The wait is the capped exponential of the delays the operator wrote, at every
\* attempt, for every width of the integer and every setting it is stated for.
THEOREM DelaysExact == DelaySpec => []DelayExact
<1>1. Loaded => DelayExact
  <2> DEFINE base  == Written(env.baseDelayMS, OneSecond)
             max   == Written(env.maxDelayMS, FiveMinutes)
             k     == IF attempt = 0 THEN 0 ELSE attempt - 1
             exact == base * 2^k
  <2> SUFFICES ASSUME Loaded, config.started, base = Signed(base), max = Signed(max)
               PROVE  /\ base > 0 /\ max > 0
                      /\ OddPart(base) * max < 2^(Width - 1) =>
                            Delay = IF exact <= max THEN exact ELSE max
    BY DEF DelayExact
  <2>1. /\ config.base = Signed(env.baseDelayMS * Millisecond) /\ config.base >= 0
        /\ config.max = Signed(env.maxDelayMS * Millisecond) /\ config.max >= 0
    BY LoadedDelays
  <2>2. /\ env.baseDelayMS \in Int /\ env.maxDelayMS \in Int /\ attempt \in Nat
        /\ OneSecond \in Nat \ {0} /\ FiveMinutes \in Nat \ {0}
    BY BackoffAssumption DEF Loaded
  <2>3. base \in Nat \ {0} /\ base < 2^(Width - 1) /\ base = BaseOf(config.base)
    BY <2>1, <2>2, WrittenDelay DEF BaseOf
  <2>4. max \in Nat \ {0} /\ max < 2^(Width - 1) /\ max = MaxOf(config.max)
    BY <2>1, <2>2, WrittenDelay DEF MaxOf
  <2>5. k \in Nat /\ Delay = Clamp(Signed(base * 2^k), base, max)
    <3>1. (IF attempt < 1 THEN 1 ELSE attempt) - 1 = k /\ k \in Nat
      BY <2>2
    <3> HIDE DEF base, max, k
    <3> QED
      BY <2>3, <2>4, <3>1 DEF Delay, nextDelay, ShiftLeft
  <2>6. OddPart(base) * max < 2^(Width - 1) => Delay = IF exact <= max THEN exact ELSE max
    <3> HIDE DEF base, max, k
    <3> QED
      BY <2>3, <2>4, <2>5, ShiftClamped
  <2> QED
    BY <2>3, <2>4, <2>6
<1> QED
  BY <1>1, LoadedHolds, PTL
-----------------------------------------------------------------------------
(* The splitting of a text. *)

\* A set of numbers up to n that is not empty has a greatest one.
LEMMA GreatestExists ==
    ASSUME NEW n \in Nat, NEW S, S \subseteq 1 .. n, S # {}
    PROVE  Max(S) \in S /\ \A y \in S : Max(S) >= y
<1> DEFINE T == {m \in Nat : \A U \in SUBSET (1 .. m) : U # {} => \E x \in U : \A y \in U : x >= y}
<1>1. 0 \in T
  <2>1. 1 .. 0 = {}
    OBVIOUS
  <2>2. \A U \in SUBSET (1 .. 0) : U = {}
    BY <2>1
  <2> QED
    BY <2>2
<1>2. ASSUME NEW m \in Nat, m \in T
      PROVE  m + 1 \in T
  <2>1. ASSUME NEW U \in SUBSET (1 .. m + 1), U # {}
        PROVE  \E x \in U : \A y \in U : x >= y
    <3>1. CASE m + 1 \in U
      BY <2>1, <3>1
    <3>2. CASE m + 1 \notin U
      <4>1. U \in SUBSET (1 .. m)
        BY <2>1, <3>2
      <4> QED
        BY <1>2, <2>1, <4>1
    <3> QED
      BY <3>1, <3>2
  <2> QED
    BY <2>1
<1> HIDE DEF T
<1>3. n \in T
  BY <1>1, <1>2, NatSetInduction
<1>4. \E x \in S : \A y \in S : x >= y
  BY <1>3 DEF T
<1> QED
  BY <1>4 DEF Max

\* Where a text is cut: a place within the limit, before the beginning of a character
\* or behind white space, unless there is no such place.
LEMMA CutPlace ==
    ASSUME NEW t \in Seq(Bytes), NEW max \in Nat \ {0}, Len(t) > max
    PROVE  /\ bestTextSplit(t, max) \in 1 .. max
           /\ \/ RuneStart(t[bestTextSplit(t, max) + 1])
              \/ t[bestTextSplit(t, max)] = "white"
              \/ \A i \in 2 .. max + 1 : ~RuneStart(t[i])
<1> DEFINE cuts == {cut \in 1 .. max : RuneStart(t[cut + 1])}
           rune == RuneCut(t, max)
           breaks == {i \in 1 .. rune : t[i] = "white" /\ i - 1 >= max \div 2}
<1>1. CASE cuts # {}
  <2>1. Max(cuts) \in cuts
    BY <1>1, GreatestExists
  <2>2. rune = Max(cuts)
    BY <1>1 DEF RuneCut
  <2>3. rune \in 1 .. max /\ RuneStart(t[rune + 1])
    BY <2>1, <2>2
  <2> QED
    <3>1. CASE breaks = {}
      BY <2>3, <3>1 DEF bestTextSplit
    <3>2. CASE breaks # {}
      <4>1. Max(breaks) \in breaks
        <5>1. rune \in Nat /\ breaks \subseteq 1 .. rune
          BY <2>3
        <5> QED
          BY <3>2, <5>1, GreatestExists
      <4>2. bestTextSplit(t, max) = Max(breaks)
        BY <3>2 DEF bestTextSplit
      <4> HIDE DEF breaks
      <4>3. Max(breaks) \in 1 .. rune /\ t[Max(breaks)] = "white"
        BY <4>1 DEF breaks
      <4> QED
        BY <2>3, <4>2, <4>3
    <3> QED
      BY <3>1, <3>2
<1>2. CASE cuts = {}
  <2>1. rune = max /\ \A i \in 2 .. max + 1 : ~RuneStart(t[i])
    <3>1. rune = max
      BY <1>2 DEF RuneCut
    <3>2. ASSUME NEW i \in 2 .. max + 1, RuneStart(t[i])
          PROVE  FALSE
      <4>1. i - 1 \in 1 .. max /\ (i - 1) + 1 = i
        OBVIOUS
      <4>2. i - 1 \in cuts
        BY <3>2, <4>1
      <4> QED
        BY <1>2, <4>2
    <3> QED
      BY <3>1, <3>2
  <2>2. bestTextSplit(t, max) \in 1 .. max
    <3>1. CASE breaks = {}
      BY <2>1, <3>1 DEF bestTextSplit
    <3>2. CASE breaks # {}
      <4>1. Max(breaks) \in breaks
        <5>1. rune \in Nat /\ breaks \subseteq 1 .. rune
          BY <2>1
        <5> QED
          BY <3>2, <5>1, GreatestExists
      <4>2. bestTextSplit(t, max) = Max(breaks)
        BY <3>2 DEF bestTextSplit
      <4> HIDE DEF breaks
      <4>3. Max(breaks) \in 1 .. rune
        BY <4>1 DEF breaks
      <4> QED
        BY <2>1, <4>2, <4>3
    <3> QED
      BY <3>1, <3>2
  <2> QED
    BY <2>1, <2>2
<1> QED
  BY <1>1, <1>2

\* The two parts of a text.
LEMMA CutParts ==
    ASSUME NEW t \in Seq(Bytes), NEW cut \in 1 .. Len(t)
    PROVE  /\ SubSeq(t, 1, cut) \in Seq(Bytes) /\ Len(SubSeq(t, 1, cut)) = cut
           /\ \A i \in 1 .. cut : SubSeq(t, 1, cut)[i] = t[i]
           /\ SubSeq(t, cut + 1, Len(t)) \in Seq(Bytes) /\ Len(SubSeq(t, cut + 1, Len(t))) = Len(t) - cut
           /\ \A i \in 1 .. Len(t) - cut : SubSeq(t, cut + 1, Len(t))[i] = t[cut + i]
OBVIOUS

\* A sequence with one more element.
LEMMA OneMore ==
    ASSUME NEW S, NEW p \in Seq(S), NEW x \in S
    PROVE  /\ Append(p, x) \in Seq(S) /\ Append(p, x) # <<>> /\ Len(Append(p, x)) = Len(p) + 1
           /\ \A i \in DOMAIN Append(p, x) : i \in DOMAIN p \/ i = Len(p) + 1
           /\ \A i \in DOMAIN p : Append(p, x)[i] = p[i]
           /\ Append(p, x)[Len(p) + 1] = x
OBVIOUS

TextTyped ==
    /\ original \in Seq(Bytes) /\ text \in Seq(Bytes) /\ parts \in Seq(Seq(Bytes))
    /\ maxBytes \in Int

\* What is left is an end of the text.
IsEnd == \E k \in 0 .. Len(original) : /\ Len(text) = Len(original) - k
                                       /\ \A i \in 1 .. Len(text) : text[i] = original[k + i]

\* What is left of a text of whole characters begins with one.
BeginsRune ==
    maxBytes > 0 /\ WholeRunes(original, maxBytes) => (text # <<>> => RuneStart(text[1]))

\* The inductive invariant of the loop, but for the contents.
TextInv ==
    /\ TextTyped /\ IsEnd
    /\ parts = <<>> => text = original
    /\ PiecesFit
    /\ BeginsRune /\ RunesKept

\* The place of a cut in a text of whole characters.
LEMMA CutAtRune ==
    ASSUME TextTyped, IsEnd, maxBytes > 0, Len(text) > maxBytes, WholeRunes(original, maxBytes)
    PROVE  RuneStart(text[bestTextSplit(text, maxBytes) + 1])
<1> DEFINE cut == bestTextSplit(text, maxBytes)
<1>1. PICK k \in 0 .. Len(original) : /\ Len(text) = Len(original) - k
                                      /\ \A i \in 1 .. Len(text) : text[i] = original[k + i]
  BY DEF IsEnd
<1>2. /\ text \in Seq(Bytes) /\ original \in Seq(Bytes) /\ maxBytes \in Nat \ {0}
      /\ Len(text) \in Nat /\ Len(original) \in Nat /\ k \in Nat
  BY DEF TextTyped
<1>3. /\ cut \in 1 .. maxBytes
      /\ \/ RuneStart(text[cut + 1])
         \/ text[cut] = "white"
         \/ \A i \in 2 .. maxBytes + 1 : ~RuneStart(text[i])
  BY <1>2, CutPlace
<1> HIDE DEF cut
<1>4. CASE text[cut] = "white"
  <2>1. /\ text[cut] = original[k + cut] /\ text[cut + 1] = original[k + (cut + 1)]
        /\ k + (cut + 1) \in DOMAIN original /\ (k + (cut + 1)) - 1 = k + cut
    BY <1>1, <1>2, <1>3
  <2>2. original[k + (cut + 1)] # "more"
    BY <1>4, <2>1 DEF WholeRunes
  <2> QED
    BY <2>1, <2>2 DEF RuneStart, cut
<1>5. CASE \A i \in 2 .. maxBytes + 1 : ~RuneStart(text[i])
  <2>1. k + 1 \in 1 .. Len(original) - maxBytes
    BY <1>1, <1>2
  <2>2. PICK j \in (k + 1) + 1 .. (k + 1) + maxBytes : RuneStart(original[j])
    BY <2>1 DEF WholeRunes
  <2>3. j - k \in 2 .. maxBytes + 1 /\ j - k \in 1 .. Len(text) /\ k + (j - k) = j
    BY <1>1, <1>2
  <2>4. text[j - k] = original[j]
    BY <1>1, <2>3
  <2> QED
    BY <1>5, <2>2, <2>3, <2>4
<1> QED
  BY <1>3, <1>4, <1>5 DEF cut

\* A turn of the loop.
LEMMA SplitKeeps ==
    ASSUME TextInv, Split
    PROVE  TextInv'
<1>1. PICK cut : cut = bestTextSplit(text, maxBytes)
  OBVIOUS
<1>2. /\ TextTyped /\ IsEnd /\ PiecesFit /\ BeginsRune /\ RunesKept
      /\ original \in Seq(Bytes) /\ text \in Seq(Bytes) /\ parts \in Seq(Seq(Bytes)) /\ maxBytes \in Int
  BY DEF TextInv, TextTyped
<1>3. PICK head, tail : head = SubSeq(text, 1, cut) /\ tail = SubSeq(text, cut + 1, Len(text))
  OBVIOUS
<1>4. /\ maxBytes > 0 /\ Len(text) > maxBytes /\ UNCHANGED <<original, maxBytes>>
      /\ parts' = Append(parts, head) /\ text' = tail
  BY <1>1, <1>3 DEF Split
<1>5. cut \in 1 .. maxBytes /\ cut \in 1 .. Len(text) /\ Len(text) \in Nat /\ Len(original) \in Nat
  BY <1>1, <1>2, <1>4, CutPlace
<1>6. /\ head \in Seq(Bytes) /\ Len(head) = cut /\ head[1] = text[1]
      /\ tail \in Seq(Bytes) /\ Len(tail) = Len(text) - cut
      /\ \A i \in 1 .. Len(tail) : tail[i] = text[cut + i]
  BY <1>2, <1>3, <1>5, CutParts
<1>7. /\ parts' \in Seq(Seq(Bytes)) /\ parts' # <<>>
      /\ \A i \in DOMAIN parts' : i \in DOMAIN parts \/ i = Len(parts) + 1
      /\ \A i \in DOMAIN parts : parts'[i] = parts[i]
      /\ parts'[Len(parts) + 1] = head
  BY <1>2, <1>4, <1>6, OneMore
<1>8. TextTyped'
  BY <1>2, <1>4, <1>6, <1>7 DEF TextTyped
<1>9. IsEnd'
  <2>1. PICK k \in 0 .. Len(original) : /\ Len(text) = Len(original) - k
                                        /\ \A i \in 1 .. Len(text) : text[i] = original[k + i]
    BY <1>2 DEF IsEnd
  <2>2. k + cut \in 0 .. Len(original) /\ Len(tail) = Len(original) - (k + cut)
    BY <1>5, <1>6, <2>1
  <2>3. \A i \in 1 .. Len(tail) : tail[i] = original[(k + cut) + i]
    <3> TAKE i \in 1 .. Len(tail)
    <3>1. cut + i \in 1 .. Len(text) /\ k + (cut + i) = (k + cut) + i
      BY <1>5, <1>6, <2>1
    <3> QED
      BY <1>6, <2>1, <3>1
  <2> QED
    BY <1>4, <2>2, <2>3 DEF IsEnd
<1>10. PiecesFit'
  BY <1>2, <1>4, <1>5, <1>6, <1>7 DEF PiecesFit
<1>11. ASSUME WholeRunes(original, maxBytes)
       PROVE  RuneStart(tail[1]) /\ RuneStart(head[1])
  <2>1. RuneStart(text[cut + 1])
    BY <1>1, <1>2, <1>4, <1>11, CutAtRune
  <2>2. tail[1] = text[cut + 1]
    <3>1. 1 \in 1 .. Len(tail)
      BY <1>2, <1>4, <1>5, <1>6
    <3> QED
      BY <1>6, <3>1
  <2>3. text # <<>>
    BY <1>2, <1>4
  <2> QED
    BY <1>2, <1>4, <1>6, <1>11, <2>1, <2>2, <2>3 DEF BeginsRune
<1>12. BeginsRune'
  BY <1>4, <1>11 DEF BeginsRune, WholeRunes, RuneStart
<1>13. RunesKept'
  BY <1>2, <1>4, <1>7, <1>11 DEF RunesKept, WholeRunes, RuneStart
<1> QED
  BY <1>7, <1>8, <1>9, <1>10, <1>12, <1>13 DEF TextInv

\* The end of the loop.
LEMMA ReturnKeeps ==
    ASSUME TextInv, Return
    PROVE  TextInv'
<1>1. /\ TextTyped /\ IsEnd /\ PiecesFit /\ BeginsRune /\ RunesKept /\ (parts = <<>> => text = original)
      /\ original \in Seq(Bytes) /\ text \in Seq(Bytes) /\ parts \in Seq(Seq(Bytes)) /\ maxBytes \in Int
      /\ Len(original) \in Nat
  BY DEF TextInv, TextTyped
<1>2. PICK left : left = text'
  OBVIOUS
<1>3. left \in Seq(Bytes) /\ Len(left) = 0 /\ left = <<>> /\ text' = left /\ UNCHANGED <<original, maxBytes>>
  BY <1>2 DEF Return
<1>4. maxBytes <= 0 \/ Len(text) <= maxBytes
  BY DEF Return
<1>5. \/ parts # <<>> /\ parts' = parts
      \/ ~(text = <<>> /\ parts # <<>>) /\ parts' = Append(parts, text)
  BY DEF Return
<1>6. parts' \in Seq(Seq(Bytes)) /\ parts' # <<>>
  <2>1. Append(parts, text) \in Seq(Seq(Bytes)) /\ Append(parts, text) # <<>>
    BY <1>1, OneMore
  <2> QED
    BY <1>1, <1>5, <2>1
<1>7. TextTyped'
  BY <1>1, <1>3, <1>6 DEF TextTyped
<1>8. IsEnd'
  <2>1. Len(original) \in 0 .. Len(original) /\ Len(left) = Len(original) - Len(original)
    BY <1>1, <1>3
  <2>2. \A i \in 1 .. Len(left) : left[i] = original[Len(original) + i]
    BY <1>3
  <2> QED
    BY <1>3, <2>1, <2>2 DEF IsEnd
<1>9. CASE parts' = parts
  <2>1. PiecesFit' /\ RunesKept'
    BY <1>1, <1>3, <1>9 DEF PiecesFit, RunesKept, WholeRunes, RuneStart
  <2>2. BeginsRune'
    BY <1>3 DEF BeginsRune
  <2> QED
    BY <1>6, <1>7, <1>8, <2>1, <2>2 DEF TextInv
<1>10. CASE ~(text = <<>> /\ parts # <<>>) /\ parts' = Append(parts, text)
  <2>1. /\ \A i \in DOMAIN parts' : i \in DOMAIN parts \/ i = Len(parts) + 1
        /\ \A i \in DOMAIN parts : parts'[i] = parts[i]
        /\ parts'[Len(parts) + 1] = text
    BY <1>1, <1>10, OneMore
  <2>2. PiecesFit'
    <3>1. ASSUME maxBytes > 0, original # <<>>
          PROVE  Len(text) \in 1 .. maxBytes
      <4>1. text # <<>>
        BY <1>1, <1>10, <3>1
      <4>2. Len(text) >= 1 /\ Len(text) \in Nat
        BY <1>1, <4>1
      <4> QED
        BY <1>1, <1>4, <3>1, <4>2
    <3> QED
      BY <1>1, <1>3, <2>1, <3>1 DEF PiecesFit
  <2>3. RunesKept'
    BY <1>1, <1>3, <2>1 DEF RunesKept, BeginsRune, WholeRunes, RuneStart
  <2>4. BeginsRune'
    BY <1>3 DEF BeginsRune
  <2> QED
    BY <1>6, <1>7, <1>8, <2>2, <2>3, <2>4 DEF TextInv
<1> QED
  BY <1>5, <1>9, <1>10

\* The beginning.
LEMMA TextStarts ==
    ASSUME Init
    PROVE  TextInv
<1>1. /\ original \in Seq(Bytes) /\ maxBytes \in Int /\ text = original
  BY TextSplitAssumption DEF Init, BoundedSeq, SeqOf
<1>2. PICK p : p = parts
  OBVIOUS
<1>3. p \in Seq(Seq(Bytes)) /\ DOMAIN p = {} /\ p = parts
  BY <1>2 DEF Init
<1>4. TextTyped
  BY <1>1, <1>3 DEF TextTyped
<1>5. IsEnd
  <2>1. 0 \in 0 .. Len(original) /\ Len(text) = Len(original) - 0
    BY <1>1
  <2>2. \A i \in 1 .. Len(text) : text[i] = original[0 + i]
    BY <1>1
  <2> QED
    BY <2>1, <2>2 DEF IsEnd
<1>6. PiecesFit /\ RunesKept
  BY <1>3 DEF PiecesFit, RunesKept
<1>7. BeginsRune
  <2>1. ASSUME WholeRunes(original, maxBytes), text # <<>>
        PROVE  RuneStart(text[1])
    <3>1. 1 \in DOMAIN original
      BY <1>1, <2>1
    <3>2. original[1] = "more" => 1 > 1
      BY <2>1, <3>1 DEF WholeRunes
    <3> QED
      BY <1>1, <3>2 DEF RuneStart
  <2> QED
    BY <2>1 DEF BeginsRune
<1> QED
  BY <1>1, <1>4, <1>5, <1>6, <1>7 DEF TextInv

\* The invariant holds of the loop.
LEMMA TextHolds == Spec => []TextInv
<1>1. Init => TextInv
  BY TextStarts
<1>2. TextInv /\ [Next]_vars => TextInv'
  <2>1. CASE UNCHANGED vars
    BY <2>1 DEF vars, TextInv, TextTyped, IsEnd, PiecesFit, BeginsRune, RunesKept, WholeRunes, RuneStart
  <2>2. CASE Next
    BY <2>2, SplitKeeps, ReturnKeeps DEF Next
  <2> QED
    BY <2>1, <2>2
<1> QED
  BY <1>1, <1>2, PTL DEF Spec

\* Every piece of a text fits into a message and none is empty, for a text and a limit
\* of any size: bestTextSplit always takes something, also of a text that is not UTF-8.
THEOREM PiecesAlwaysFit == Spec => []PiecesFit
<1>1. TextInv => PiecesFit
  BY DEF TextInv
<1> QED
  BY <1>1, TextHolds, PTL

\* splitTextMessage never cuts a character apart in a text of characters that fit into
\* a message.
THEOREM RunesAlwaysKept == Spec => []RunesKept
<1>1. TextInv => RunesKept
  BY DEF TextInv
<1> QED
  BY <1>1, TextHolds, PTL
-----------------------------------------------------------------------------
(* The pieces put together again. *)

\* f puts together the first pieces of p, one after another.
Joins(f, p) ==
    \A i \in 1 .. Len(p) : f[i] = IF i = 1 THEN p[1] ELSE f[i - 1] \o p[i]

\* There is such a function.
LEMMA JoinExists ==
    ASSUME NEW B, NEW p \in Seq(Seq(B))
    PROVE  \E f \in [1 .. Len(p) -> Seq(B)] : Joins(f, p)
<1> DEFINE Step(f, n) == \A i \in 1 .. n : f[i] = IF i = 1 THEN p[1] ELSE f[i - 1] \o p[i]
           T == {n \in Nat : n <= Len(p) => \E f \in [1 .. n -> Seq(B)] : Step(f, n)}
<1>1. 0 \in T
  <2>1. PICK f : f = [i \in 1 .. 0 |-> <<>>]
    OBVIOUS
  <2>2. f \in [1 .. 0 -> Seq(B)] /\ 1 .. 0 = {}
    BY <2>1
  <2> QED
    BY <2>2
<1>2. ASSUME NEW n \in Nat, n \in T
      PROVE  n + 1 \in T
  <2>1. n + 1 \in Nat /\ Len(p) \in Nat
    OBVIOUS
  <2> HIDE DEF Step
  <2>2. SUFFICES ASSUME n + 1 <= Len(p) PROVE \E g \in [1 .. n + 1 -> Seq(B)] : Step(g, n + 1)
    BY <2>1, Zenon DEF T
  <2>3. n <= Len(p)
    BY <2>1, <2>2
  <2>4. PICK f \in [1 .. n -> Seq(B)] : Step(f, n)
    BY <1>2, <2>3, Zenon DEF T
  <2> USE DEF Step
  <2>5. \A i \in 1 .. n + 1 : p[i] \in Seq(B)
    BY <2>2
  <2>6. PICK new : new = IF n = 0 THEN p[1] ELSE f[n] \o p[n + 1]
    OBVIOUS
  <2>7. new \in Seq(B)
    <3>1. CASE n = 0
      BY <2>5, <2>6, <3>1
    <3>2. CASE n # 0
      <4>1. n \in 1 .. n /\ n + 1 \in 1 .. n + 1
        BY <3>2
      <4>2. f[n] \in Seq(B) /\ p[n + 1] \in Seq(B)
        BY <2>5, <4>1
      <4>3. \A u, v \in Seq(B) : u \o v \in Seq(B)
        OBVIOUS
      <4> QED
        BY <2>6, <3>2, <4>2, <4>3
    <3> QED
      BY <3>1, <3>2
  <2>8. PICK g : g = [i \in 1 .. n + 1 |-> IF i = n + 1 THEN new ELSE f[i]]
    OBVIOUS
  <2>9. /\ g \in [1 .. n + 1 -> Seq(B)] /\ g[n + 1] = new
        /\ \A i \in 1 .. n : i \in 1 .. n + 1 /\ g[i] = f[i]
    BY <2>7, <2>8
  <2>10. ASSUME NEW i \in 1 .. n + 1
        PROVE  g[i] = IF i = 1 THEN p[1] ELSE g[i - 1] \o p[i]
    <3>1. CASE i = n + 1
      <4>1. CASE n = 0
        BY <2>6, <2>9, <3>1, <4>1
      <4>2. CASE n # 0
        <5>1. n \in 1 .. n /\ i - 1 = n /\ i # 1
          BY <3>1, <4>2
        <5>2. g[n] = f[n]
          BY <2>9, <5>1
        <5> QED
          BY <2>6, <2>9, <3>1, <4>2, <5>1, <5>2
      <4> QED
        BY <4>1, <4>2
    <3>2. CASE i # n + 1
      <4>1. i \in 1 .. n
        BY <3>2
      <4>2. i # 1 => i - 1 \in 1 .. n
        BY <4>1
      <4> QED
        BY <2>4, <2>9, <4>1, <4>2
    <3> QED
      BY <3>1, <3>2
  <2> QED
    BY <2>9, <2>10
<1> HIDE DEF T
<1>3. Len(p) \in T
  BY <1>1, <1>2, NatSetInduction
<1> QED
  BY <1>3 DEF T, Joins

\* Two sequences have the same first n elements.
SameStart(p, q, n) ==
    /\ n \in Nat /\ Len(p) \in Nat /\ Len(q) \in Nat /\ n <= Len(p) /\ n <= Len(q)
    /\ \A i \in 1 .. n : p[i] = q[i]

\* Two functions agree from 1 to n.
Agree(f, g, n) == \A i \in 1 .. n : f[i] = g[i]

\* There is only one, as far as the pieces are the same.
LEMMA JoinUnique ==
    ASSUME NEW p, NEW q, NEW f, NEW g, NEW n, Joins(f, p), Joins(g, q), SameStart(p, q, n)
    PROVE  Agree(f, g, n)
<1> USE DEF SameStart, Agree
<1> DEFINE T == {i \in Nat : i \in 1 .. n => f[i] = g[i]}
<1>1. 0 \in T
  OBVIOUS
<1>2. ASSUME NEW i \in Nat, i \in T
      PROVE  i + 1 \in T
  <2>1. SUFFICES ASSUME i + 1 \in 1 .. n PROVE f[i + 1] = g[i + 1]
    OBVIOUS
  <2>2. i + 1 \in 1 .. Len(p) /\ i + 1 \in 1 .. Len(q) /\ p[i + 1] = q[i + 1] /\ (i + 1) - 1 = i
    BY <2>1
  <2>3. CASE i = 0
    <3>1. f[i + 1] = p[1] /\ g[i + 1] = q[1]
      BY <2>2, <2>3 DEF Joins
    <3> QED
      BY <2>2, <2>3, <3>1
  <2>4. CASE i # 0
    <3>1. PICK k : k = i + 1
      OBVIOUS
    <3>2. k # 1 /\ k - 1 = i /\ k \in 1 .. Len(p) /\ k \in 1 .. Len(q)
      BY <2>2, <2>4, <3>1
    <3>3. f[k] = f[k - 1] \o p[k] /\ g[k] = g[k - 1] \o q[k]
      BY <3>2, Zenon DEF Joins
    <3>4. f[i + 1] = f[i] \o p[i + 1] /\ g[i + 1] = g[i] \o q[i + 1]
      BY <3>1, <3>2, <3>3, Zenon
    <3>5. f[i] = g[i]
      BY <1>2, <2>1, <2>4
    <3> QED
      BY <2>2, <3>4, <3>5
  <2> QED
    BY <2>3, <2>4
<1> HIDE DEF T
<1>3. \A i \in Nat : i \in T
  BY <1>1, <1>2, NatSetInduction
<1> QED
  BY <1>3 DEF T

\* What FlattenSeq returns is the last of the joined pieces.
LEMMA FlattenJoins ==
    ASSUME NEW B, NEW p \in Seq(Seq(B)), Len(p) # 0
    PROVE  \E f \in [1 .. Len(p) -> Seq(B)] : Joins(f, p) /\ FlattenSeq(p) = f[Len(p)]
<1> DEFINE Body(f) == [i \in 1 .. Len(p) |-> IF i = 1 THEN p[i] ELSE f[i - 1] \o p[i]]
           chosen == CHOOSE f : f = Body(f)
<1>1. FlattenSeq(p) = chosen[Len(p)]
  BY DEF FlattenSeq
<1>2. PICK f \in [1 .. Len(p) -> Seq(B)] : Joins(f, p)
  BY JoinExists
<1>3. f = Body(f)
  BY <1>2 DEF Joins
<1> HIDE DEF Body
<1>4. chosen = Body(chosen)
  BY <1>3
<1> HIDE DEF chosen
<1>5. Joins(chosen, p)
  BY <1>4 DEF Joins, Body
<1>6. Len(p) \in Nat /\ Len(p) <= Len(p) /\ Len(p) \in 1 .. Len(p)
  OBVIOUS
<1>7. SameStart(p, p, Len(p))
  BY <1>6 DEF SameStart
<1>8. Agree(f, chosen, Len(p))
  BY <1>2, <1>5, <1>7, JoinUnique
<1>9. \A i \in 1 .. Len(p) : f[i] = chosen[i]
  BY <1>8 DEF Agree
<1> QED
  BY <1>1, <1>2, <1>6, <1>9

\* One piece more.
LEMMA FlattenAppend ==
    ASSUME NEW B, NEW p \in Seq(Seq(B)), NEW x \in Seq(B)
    PROVE  /\ FlattenSeq(p) \in Seq(B) /\ FlattenSeq(Append(p, x)) \in Seq(B)
           /\ FlattenSeq(Append(p, x)) = FlattenSeq(p) \o x
<1>1. PICK q \in Seq(Seq(B)), n \in Nat \ {0} :
          /\ q = Append(p, x) /\ n = Len(q) /\ Len(p) = n - 1 /\ q[n] = x
          /\ \A i \in 1 .. n - 1 : q[i] = p[i]
  <2>1. PICK q : q = Append(p, x)
    OBVIOUS
  <2>2. PICK n : n = Len(p) + 1
    OBVIOUS
  <2>3. /\ q \in Seq(Seq(B)) /\ n \in Nat \ {0} /\ n = Len(q) /\ Len(p) = n - 1 /\ q[n] = x
        /\ \A i \in 1 .. n - 1 : q[i] = p[i]
    BY <2>1, <2>2
  <2> QED
    BY <2>1, <2>3
<1>2. PICK g \in [1 .. n -> Seq(B)] : Joins(g, q) /\ FlattenSeq(q) = g[n]
  BY <1>1, FlattenJoins
<1>3. n \in 1 .. n /\ g[n] = IF n = 1 THEN q[1] ELSE g[n - 1] \o q[n]
  <2>1. n \in 1 .. n /\ n \in 1 .. Len(q)
    BY <1>1
  <2> QED
    BY <1>2, <2>1, Zenon DEF Joins
<1>4. FlattenSeq(q) \in Seq(B)
  BY <1>2, <1>3
<1>5. CASE n = 1
  <2>1. Len(p) = 0
    BY <1>1, <1>5
  <2>2. FlattenSeq(p) = p
    BY <2>1 DEF FlattenSeq
  <2>3. p = << >> /\ << >> \in Seq(B)
    BY <2>1
  <2>4. << >> \o x = x
    BY ConcatEmptySeq
  <2>5. FlattenSeq(q) = x
    BY <1>1, <1>2, <1>3, <1>5
  <2> QED
    BY <1>1, <1>4, <2>2, <2>3, <2>4, <2>5, Zenon
<1>6. CASE n # 1
  <2>1. Len(p) # 0 /\ Len(p) \in Nat /\ Len(p) <= n /\ Len(p) \in 1 .. Len(p) /\ Len(p) = n - 1
    BY <1>1, <1>6
  <2>2. PICK f \in [1 .. Len(p) -> Seq(B)] : Joins(f, p) /\ FlattenSeq(p) = f[Len(p)]
    BY <2>1, FlattenJoins
  <2>3. \A i \in 1 .. Len(p) : p[i] = q[i]
    BY <1>1
  <2>4. Len(p) <= Len(q) /\ Len(p) <= Len(p) /\ Len(q) \in Nat
    BY <1>1, <2>1
  <2>5. Joins(f, p) /\ Joins(g, q)
    BY <1>2, <2>2
  <2>6. SameStart(p, q, Len(p))
    BY <2>1, <2>3, <2>4 DEF SameStart
  <2>7. Agree(f, g, Len(p))
    BY <2>5, <2>6, JoinUnique, Zenon
  <2>8. \A i \in 1 .. Len(p) : f[i] = g[i]
    BY <2>7 DEF Agree
  <2>9. f[Len(p)] = g[n - 1]
    BY <2>1, <2>8
  <2>10. FlattenSeq(p) \in Seq(B)
    BY <2>1, <2>2
  <2>11. FlattenSeq(q) = FlattenSeq(p) \o x
    BY <1>1, <1>2, <1>3, <1>6, <2>2, <2>9
  <2> QED
    BY <1>1, <1>4, <2>10, <2>11
<1> QED
  BY <1>5, <1>6

\* Nothing of a text is lost, repeated or moved by splitTextMessage, whatever its bytes
\* are and whatever the limit is.
THEOREM NothingIsLost == Spec => []Lossless
<1>1. Init => Lossless
  <2>1. ASSUME Init PROVE Lossless
    <3>1. original \in Seq(Bytes) /\ text = original
      BY <2>1, TextStarts DEF Init, TextInv, TextTyped
    <3>2. Len(parts) = 0 /\ parts = << >>
      BY <2>1 DEF Init
    <3>3. FlattenSeq(parts) = parts
      BY <3>2 DEF FlattenSeq
    <3>4. << >> \o original = original
      BY <3>1, ConcatEmptySeq
    <3> QED
      BY <3>1, <3>2, <3>3, <3>4, Zenon DEF Lossless
  <2> QED
    BY <2>1
<1>2. TextInv /\ Lossless /\ [Next]_vars => Lossless'
  <2>1. SUFFICES ASSUME TextInv, Lossless, [Next]_vars PROVE Lossless'
    OBVIOUS
  <2>2. /\ original \in Seq(Bytes) /\ text \in Seq(Bytes) /\ parts \in Seq(Seq(Bytes)) /\ maxBytes \in Int
        /\ FlattenSeq(parts) \o text = original
    BY <2>1 DEF TextInv, TextTyped, Lossless
  <2>3. PICK flat \in Seq(Bytes) : flat = FlattenSeq(parts)
    BY <2>2, FlattenAppend
  <2>4. CASE UNCHANGED vars
    BY <2>2, <2>4 DEF vars, Lossless
  <2>5. CASE Split
    <3>1. PICK cut : cut = bestTextSplit(text, maxBytes)
      OBVIOUS
    <3>2. /\ maxBytes \in Nat \ {0} /\ Len(text) > maxBytes /\ original' = original
          /\ parts' = Append(parts, SubSeq(text, 1, cut))
          /\ text' = SubSeq(text, cut + 1, Len(text))
      BY <2>2, <2>5, <3>1 DEF Split
    <3>3. cut \in 1 .. maxBytes /\ Len(text) \in Nat
      BY <2>2, <3>1, <3>2, CutPlace
    <3>4. cut \in 1 .. Len(text) /\ 1 \in 1 .. Len(text) + 1 /\ cut \in 1 - 1 .. Len(text)
          /\ Len(text) \in cut .. Len(text)
      BY <3>2, <3>3
    <3>5. PICK head \in Seq(Bytes), tail \in Seq(Bytes) :
              head = SubSeq(text, 1, cut) /\ tail = SubSeq(text, cut + 1, Len(text))
      BY <2>2, <3>4, CutParts
    <3>6. head \o tail = SubSeq(text, 1, Len(text))
      BY <2>2, <3>4, <3>5, ConcatAdjacentSubSeq
    <3>7. SubSeq(text, 1, Len(text)) = text
      BY <2>2
    <3>8. FlattenSeq(Append(parts, head)) = FlattenSeq(parts) \o head
      BY <2>2, FlattenAppend
    <3>9. (flat \o head) \o tail = flat \o (head \o tail)
      BY ConcatAssociative
    <3>10. FlattenSeq(parts') \o text' = original'
      BY <2>2, <2>3, <3>2, <3>5, <3>6, <3>7, <3>8, <3>9, Zenon
    <3> QED
      BY <3>10, Zenon DEF Lossless
  <2>6. CASE Return
    <3>1. original' = original /\ text' = << >>
      BY <2>6 DEF Return
    <3>2. CASE text = << >> /\ parts # << >>
      <4>1. parts' = parts
        BY <2>6, <3>2 DEF Return
      <4> QED
        BY <2>2, <3>1, <3>2, <4>1, Zenon DEF Lossless
    <3>3. CASE ~(text = << >> /\ parts # << >>)
      <4>1. parts' = Append(parts, text)
        BY <2>6, <3>3, Zenon DEF Return
      <4>2. FlattenSeq(Append(parts, text)) = FlattenSeq(parts) \o text
        BY <2>2, FlattenAppend
      <4>3. original \o << >> = original
        BY <2>2, ConcatEmptySeq
      <4> QED
        BY <2>2, <3>1, <4>1, <4>2, <4>3, Zenon DEF Lossless
    <3> QED
      BY <3>2, <3>3
  <2> QED
    BY <2>1, <2>4, <2>5, <2>6 DEF Next
<1> QED
  BY <1>1, <1>2, TextHolds, PTL DEF Spec
=============================================================================
