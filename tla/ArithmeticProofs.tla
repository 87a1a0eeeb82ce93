-------------------------- MODULE ArithmeticProofs --------------------------
(***************************************************************************)
(* Facts about numbers that the other proofs cite: the arithmetic of       *)
(* FixedPoint, for every scale, price, quantity and fee; and what a sum    *)
(* over a finite set (SumFunctionOnSet) is, does not depend on, and        *)
(* becomes when one term changes, on which every statement about the money *)
(* in the ledger stands.                                                   *)
(***************************************************************************)
EXTENDS FixedPoint, FiniteSets, Functions, FiniteSetTheorems, TLAPS

-----------------------------------------------------------------------------
(* Fixed-point arithmetic.                                                 *)

LEMMA DivBounds ==
  ASSUME NEW a \in Int, NEW d \in Nat \ {0}
  PROVE  /\ a \div d \in Int
         /\ (a \div d) * d <= a
         /\ a < (a \div d) * d + d
BY SMT

\* The quotient is the only integer between those bounds.
LEMMA ProductBelow ==
  ASSUME NEW x \in Int, NEW y \in Int, NEW d \in Nat \ {0}, x * d < y * d + d
  PROVE  x <= y
<1>1. SUFFICES ASSUME x >= y + 1 PROVE FALSE
  OBVIOUS
<1>2. x * d >= (y + 1) * d
  BY <1>1, SMT
<1>3. (y + 1) * d = y * d + d
  BY SMT
<1> QED BY <1>2, <1>3, SMT

LEMMA DivMonotone ==
  ASSUME NEW a \in Int, NEW b \in Int, NEW d \in Nat \ {0}, a <= b
  PROVE  a \div d <= b \div d
<1> DEFINE x == a \div d  y == b \div d
<1>1. x \in Int /\ y \in Int /\ x * d <= a /\ b < y * d + d
  BY DivBounds
<1> HIDE DEF x, y
<1>2. x * d \in Int /\ y * d \in Int
  BY <1>1
<1>3. x * d < y * d + d
  BY <1>1, <1>2
<1>4. x <= y
  BY <1>1, <1>3, ProductBelow
<1> QED BY <1>4 DEF x, y

\* Rounding two parts down never gives more than rounding the whole down.
LEMMA DivSuperadditive ==
  ASSUME NEW a \in Int, NEW b \in Int, NEW d \in Nat \ {0}
  PROVE  a \div d + b \div d <= (a + b) \div d
<1> DEFINE x == a \div d  y == b \div d  z == (a + b) \div d
<1>1. /\ x \in Int /\ y \in Int /\ z \in Int
      /\ x * d <= a /\ y * d <= b /\ a + b < z * d + d
  BY DivBounds
<1> HIDE DEF x, y, z
<1>2. x * d \in Int /\ y * d \in Int /\ z * d \in Int /\ (x + y) * d = x * d + y * d
  BY <1>1
<1>3. (x + y) * d < z * d + d
  BY <1>1, <1>2
<1>4. x + y <= z
  BY <1>1, <1>3, ProductBelow
<1> QED BY <1>4 DEF x, y, z

\* The fee is the least integer that is not below amount * bps / BPS.
LEMMA FeeBounds ==
  ASSUME NEW n \in Nat, NEW bps \in Nat
  PROVE  /\ FeeOn(n, bps) \in Nat
         /\ n * bps <= FeeOn(n, bps) * BPS
         /\ FeeOn(n, bps) * BPS < n * bps + BPS
<1> DEFINE a == n * bps
           x == (-a) \div BPS
<1>1. a \in Nat /\ BPS \in Nat \ {0}
  BY FixedPointAssumption
<1>2. x \in Int /\ x * BPS <= -a /\ -a < x * BPS + BPS
  BY <1>1, DivBounds
<1>3. FeeOn(n, bps) = -x
  BY DEF FeeOn, DivCeil
<1> HIDE DEF a, x
<1>4. (-x) * BPS = -(x * BPS) /\ x * BPS \in Int
  BY <1>1, <1>2
<1>5. a <= (-x) * BPS /\ (-x) * BPS < a + BPS
  BY <1>1, <1>2, <1>4
<1>6. -x >= 0
  <2>1. SUFFICES ASSUME x >= 1 PROVE FALSE
    BY <1>2
  <2>2. x * BPS >= BPS
    BY <2>1, <1>1, <1>2
  <2> QED BY <2>2, <1>1, <1>2, <1>4
<1> QED BY <1>2, <1>3, <1>5, <1>6 DEF a

LEMMA MulUnitsNat ==
  ASSUME NEW a \in Nat, NEW b \in Nat
  PROVE  MulUnits(a, b) \in Nat
<1> DEFINE n == a * b
           x == n \div SCALE
<1>1. n \in Nat /\ SCALE \in Nat \ {0}
  BY FixedPointAssumption
<1>2. x \in Int /\ 0 \div SCALE = 0 /\ 0 \div SCALE <= x
  BY <1>1, DivMonotone, DivBounds
<1>3. MulUnits(a, b) = x
  BY DEF MulUnits, DivFloor
<1> QED BY <1>2, <1>3

\* A cheaper price has a smaller notional, and the notionals of two parts of a
\* quantity do not exceed that of the whole.
LEMMA MulUnitsParts ==
  ASSUME NEW P \in Nat, NEW p \in Nat, p <= P, NEW q \in Nat, NEW rest \in Nat
  PROVE  MulUnits(P, rest) + MulUnits(p, q) <= MulUnits(P, rest + q)
<1> DEFINE a == P * rest  b == P * q  c == p * q
<1>1. /\ a \in Nat /\ b \in Nat /\ c \in Nat /\ c <= b
      /\ P * (rest + q) = a + b
      /\ SCALE \in Nat \ {0}
  <2>1. P * (rest + q) = P * rest + P * q
    BY SMT
  <2>2. p * q <= P * q
    BY SMT
  <2> QED BY <2>1, <2>2, FixedPointAssumption
<1>2. /\ MulUnits(P, rest) = a \div SCALE
      /\ MulUnits(p, q) = c \div SCALE
      /\ MulUnits(P, rest + q) = (a + b) \div SCALE
  BY <1>1 DEF MulUnits, DivFloor
<1> HIDE DEF a, b, c
<1>3. a \div SCALE + b \div SCALE <= (a + b) \div SCALE
  BY <1>1, DivSuperadditive
<1>4. c \div SCALE <= b \div SCALE
  BY <1>1, DivMonotone
<1>5. a \div SCALE \in Int /\ b \div SCALE \in Int /\ c \div SCALE \in Int
      /\ (a + b) \div SCALE \in Int
  BY <1>1, DivBounds
<1> QED BY <1>2, <1>3, <1>4, <1>5

LEMMA FeeMonotone ==
  ASSUME NEW n \in Nat, NEW m \in Nat, NEW bps \in Nat, NEW bps2 \in Nat,
         n <= m, bps <= bps2
  PROVE  FeeOn(n, bps) <= FeeOn(m, bps2)
<1> DEFINE f == FeeOn(n, bps)  g == FeeOn(m, bps2)
<1>1. /\ f \in Nat /\ g \in Nat
      /\ f * BPS < n * bps + BPS /\ m * bps2 <= g * BPS
  BY FeeBounds
<1>2. n * bps <= m * bps2
  <2>1. n * bps <= m * bps
    BY SMT
  <2>2. m * bps <= m * bps2
    BY SMT
  <2> QED BY <2>1, <2>2, SMT
<1> HIDE DEF f, g
<1>3. n * bps \in Nat /\ m * bps2 \in Nat /\ f * BPS \in Nat /\ g * BPS \in Nat
      /\ BPS \in Nat \ {0}
  BY <1>1, FixedPointAssumption
<1>4. f * BPS < g * BPS + BPS
  BY <1>1, <1>2, <1>3
<1>5. f <= g
  BY <1>1, <1>3, <1>4, ProductBelow
<1> QED BY <1>5 DEF f, g

\* No fee exceeds the amount it is taken from.
LEMMA FeeAtMostAmount ==
  ASSUME NEW n \in Nat, NEW bps \in 0..BPS
  PROVE  FeeOn(n, bps) <= n
<1> DEFINE f == FeeOn(n, bps)
<1>1. BPS \in Nat \ {0} /\ bps \in Nat /\ bps <= BPS
  BY FixedPointAssumption
<1>2. f \in Nat /\ f * BPS < n * bps + BPS
  BY <1>1, FeeBounds
<1>3. n * bps <= n * BPS
  BY <1>1, SMT
<1> HIDE DEF f
<1>4. n * bps \in Nat /\ n * BPS \in Nat /\ f * BPS \in Nat
  BY <1>1, <1>2
<1>5. f * BPS < n * BPS + BPS
  BY <1>1, <1>2, <1>3, <1>4
<1>6. f <= n
  BY <1>1, <1>2, <1>5, ProductBelow
<1> QED BY <1>6 DEF f

\* Rounding up: the fee of a whole is at most one unit short of the fees of
\* its two parts.
LEMMA FeeParts ==
  ASSUME NEW n \in Nat, NEW m \in Nat, NEW bps \in Nat
  PROVE  FeeOn(n, bps) + FeeOn(m, bps) - 1 <= FeeOn(n + m, bps)
<1> DEFINE f == FeeOn(n, bps)  g == FeeOn(m, bps)  h == FeeOn(n + m, bps)
           a == n * bps  b == m * bps
<1>1. (n + m) * bps = a + b /\ a \in Nat /\ b \in Nat /\ BPS \in Nat \ {0}
  BY FixedPointAssumption, SMT
<1>2. /\ f \in Nat /\ g \in Nat /\ h \in Nat
      /\ f * BPS < a + BPS /\ g * BPS < b + BPS /\ a + b <= h * BPS
  <2>1. f \in Nat /\ f * BPS < a + BPS
    BY FeeBounds
  <2>2. g \in Nat /\ g * BPS < b + BPS
    BY FeeBounds
  <2>3. n + m \in Nat
    OBVIOUS
  <2>4. h \in Nat /\ (n + m) * bps <= h * BPS
    BY <2>3, FeeBounds
  <2> QED BY <1>1, <2>1, <2>2, <2>4
<1> HIDE DEF f, g, h, a, b
<1>3. /\ f * BPS \in Nat /\ g * BPS \in Nat /\ h * BPS \in Nat
      /\ (f + g - 1) * BPS = f * BPS + g * BPS - BPS
  BY <1>1, <1>2, SMT
<1>4. (f + g - 1) * BPS < h * BPS + BPS
  BY <1>1, <1>2, <1>3
<1>5. f + g - 1 <= h
  BY <1>1, <1>2, <1>4, ProductBelow
<1> QED BY <1>5 DEF f, g, h

-----------------------------------------------------------------------------

\* Filling q of an order at a price p no worse than its limit P frees enough
\* of its lock to pay the notional and, but for one unit, the taker's fee on
\* it: why settleSpotFill's "spot buy lock underflow" cannot be thrown.
THEOREM LockSliceCoversFill ==
  ASSUME NEW P \in Nat, NEW p \in Nat, p <= P, NEW q \in Nat, NEW rest \in Nat,
         NEW bps \in Nat
  PROVE  SpotBuyLock(P, rest + q, bps) - SpotBuyLock(P, rest, bps)
           >= MulUnits(p, q) + FeeOn(MulUnits(p, q), bps) - 1
<1> DEFINE whole == MulUnits(P, rest + q)
           left == MulUnits(P, rest)
           n == MulUnits(p, q)
           slice == whole - left
<1>1. whole \in Nat /\ left \in Nat /\ n \in Nat /\ left + n <= whole
  <2>1. rest + q \in Nat
    OBVIOUS
  <2>2. whole \in Nat
    BY <2>1, MulUnitsNat
  <2>3. left \in Nat /\ n \in Nat
    BY MulUnitsNat
  <2>4. left + n <= whole
    BY MulUnitsParts
  <2> QED BY <2>2, <2>3, <2>4
<1>2. /\ SpotBuyLock(P, rest + q, bps) = whole + FeeOn(whole, bps)
      /\ SpotBuyLock(P, rest, bps) = left + FeeOn(left, bps)
  BY DEF SpotBuyLock
<1> HIDE DEF whole, left, n
<1>3. slice \in Nat /\ n <= slice /\ whole = left + slice
  BY <1>1
<1> HIDE DEF slice
<1>4. FeeOn(left, bps) + FeeOn(slice, bps) - 1 <= FeeOn(whole, bps)
  BY <1>1, <1>3, FeeParts
<1>5. FeeOn(n, bps) <= FeeOn(slice, bps)
  BY <1>1, <1>3, FeeMonotone
<1>6. /\ FeeOn(left, bps) \in Nat /\ FeeOn(slice, bps) \in Nat
      /\ FeeOn(whole, bps) \in Nat /\ FeeOn(n, bps) \in Nat
  BY <1>1, <1>3, FeeBounds
<1>7. whole + FeeOn(whole, bps) - (left + FeeOn(left, bps))
        >= n + FeeOn(n, bps) - 1
  BY <1>1, <1>3, <1>4, <1>5, <1>6
<1> QED BY <1>1, <1>2, <1>6, <1>7 DEF n

LEMMA SpotBuyLockNat ==
  ASSUME NEW P \in Nat, NEW q \in Nat, NEW bps \in Nat
  PROVE  SpotBuyLock(P, q, bps) \in Nat
<1> DEFINE n == MulUnits(P, q)
<1>1. n \in Nat
  BY MulUnitsNat
<1> HIDE DEF n
<1>2. FeeOn(n, bps) \in Nat
  BY <1>1, FeeBounds
<1>3. n + FeeOn(n, bps) \in Nat
  BY <1>1, <1>2
<1> QED BY <1>3 DEF SpotBuyLock, n

\* The slice alone covers the notional, so the budget never goes negative.
LEMMA LockSliceCoversNotional ==
  ASSUME NEW P \in Nat, NEW p \in Nat, p <= P, NEW q \in Nat, NEW rest \in Nat,
         NEW bps \in Nat
  PROVE  SpotBuyLock(P, rest + q, bps) - SpotBuyLock(P, rest, bps)
           >= MulUnits(p, q)
<1> DEFINE whole == MulUnits(P, rest + q)
           left == MulUnits(P, rest)
           n == MulUnits(p, q)
<1>1. whole \in Nat /\ left \in Nat /\ n \in Nat /\ left + n <= whole
  <2>1. rest + q \in Nat
    OBVIOUS
  <2>2. whole \in Nat
    BY <2>1, MulUnitsNat
  <2>3. left \in Nat /\ n \in Nat
    BY MulUnitsNat
  <2>4. left + n <= whole
    BY MulUnitsParts
  <2> QED BY <2>2, <2>3, <2>4
<1>2. /\ SpotBuyLock(P, rest + q, bps) = whole + FeeOn(whole, bps)
      /\ SpotBuyLock(P, rest, bps) = left + FeeOn(left, bps)
  BY DEF SpotBuyLock
<1> HIDE DEF whole, left, n
<1>3. FeeOn(left, bps) <= FeeOn(whole, bps)
  BY <1>1, FeeMonotone
<1>4. FeeOn(left, bps) \in Nat /\ FeeOn(whole, bps) \in Nat
  BY <1>1, FeeBounds
<1>5. whole + FeeOn(whole, bps) - (left + FeeOn(left, bps)) >= n
  BY <1>1, <1>3, <1>4
<1> QED BY <1>1, <1>2, <1>4, <1>5 DEF n

-----------------------------------------------------------------------------
(* Sums.                                                                   *)

Some(s) == CHOOSE x \in s : TRUE

\* g is the recursive function that the sum is defined by.
IsSum(g, f, S) ==
  g = [s \in SUBSET S |->
         IF s = {} THEN 0 ELSE f[Some(s)] + g[s \ {Some(s)}]]

LEMMA SumIsChosen ==
  ASSUME NEW f, NEW S
  PROVE  SumFunctionOnSet(f, S) = (CHOOSE g : IsSum(g, f, S))[S]
BY DEF SumFunctionOnSet, FoldFunctionOnSet, MapThenFoldSet, IsSum, Some

\* A set of numbers that is not empty has a least one.
LEMMA LeastNumber ==
  ASSUME NEW B \in SUBSET Nat, B # {}
  PROVE  \E n \in B : \A m \in B : n <= m
<1> DEFINE R == {p \in Nat \X Nat : p[1] < p[2]}
<1>1. IsWellFoundedOn(R, Nat)
  BY NatLessThanWellFounded DEF OpToRel
<1>2. \A m, n \in Nat : m < n => <<m, n>> \in R
  OBVIOUS
<1> HIDE DEF R
<1>3. PICK n \in B : \A m \in B : <<m, n>> \notin R
  BY <1>1, WFMin
<1>4. ASSUME NEW m \in B PROVE n <= m
  <2>1. m \in Nat /\ n \in Nat /\ ~(m < n)
    BY <1>2, <1>3
  <2> QED BY <2>1
<1> QED BY <1>4

\* The subsets of S with at most n elements, and the sum over those.
Small(S, n) == {t \in SUBSET S : Cardinality(t) <= n}

IsSumUpTo(g, f, S, n) ==
  g = [s \in Small(S, n) |->
         IF s = {} THEN 0 ELSE f[Some(s)] + g[s \ {Some(s)}]]

LEMMA SomeRemoved ==
  ASSUME NEW S, IsFiniteSet(S), NEW s \in SUBSET S, s # {}
  PROVE  /\ Some(s) \in s /\ s \ {Some(s)} \in SUBSET S
         /\ IsFiniteSet(s) /\ IsFiniteSet(s \ {Some(s)})
         /\ Cardinality(s) \in Nat
         /\ Cardinality(s \ {Some(s)}) = Cardinality(s) - 1
<1>1. Some(s) \in s
  BY DEF Some
<1>2. IsFiniteSet(s) /\ Cardinality(s) \in Nat
  BY FS_Subset, FS_CardinalityType
<1> QED BY <1>1, <1>2, FS_RemoveElement

LEMMA SumExists ==
  ASSUME NEW f, NEW S, IsFiniteSet(S)
  PROVE  \E g : IsSum(g, f, S)
<1> DEFINE B == {n \in Nat : ~ \E g : IsSumUpTo(g, f, S, n)}
<1>1. B = {}
  <2> SUFFICES ASSUME B # {} PROVE FALSE
    OBVIOUS
  <2>1. PICK n \in B : \A m \in B : n <= m
    <3> HIDE DEF B
    <3>1. B \in SUBSET Nat
      BY DEF B
    <3> QED BY <3>1, LeastNumber
  <2>2. CASE n = 0
    <3> DEFINE g == [s \in Small(S, 0) |-> 0]
    <3>1. \A s \in Small(S, 0) : s = {}
      BY FS_Subset, FS_EmptySet, FS_CardinalityType DEF Small
    <3>2. IsSumUpTo(g, f, S, 0)
      BY <3>1 DEF IsSumUpTo
    <3> QED BY <2>2, <3>2
  <2>3. CASE n # 0
    <3>1. n - 1 \in Nat /\ n - 1 \notin B
      BY <2>1, <2>3
    <3>2. PICK g : IsSumUpTo(g, f, S, n - 1)
      BY <3>1
    <3> DEFINE v(s) == IF s = {} THEN 0 ELSE f[Some(s)] + g[s \ {Some(s)}]
               h == [s \in Small(S, n) |-> v(s)]
    <3>3. ASSUME NEW s \in Small(S, n), s # {}
          PROVE  s \ {Some(s)} \in Small(S, n - 1)
      <4>1. Cardinality(s) <= n /\ s \in SUBSET S
        BY DEF Small
      <4> QED BY <3>3, <4>1, SomeRemoved, <2>1 DEF Small
    <3>4. \A s \in Small(S, n - 1) : s \in Small(S, n) /\ g[s] = v(s)
      <4>1. \A s \in SUBSET S : Cardinality(s) \in Nat
        BY FS_Subset, FS_CardinalityType
      <4>2. \A s \in Small(S, n - 1) : s \in Small(S, n)
        BY <4>1, <2>1 DEF Small
      <4> QED BY <3>2, <4>2 DEF IsSumUpTo
    <3>5. \A s \in Small(S, n) : h[s] = v(s)
      OBVIOUS
    <3> HIDE DEF h
    <3>6. \A s \in Small(S, n) : s # {} =>
            v(s) = f[Some(s)] + h[s \ {Some(s)}]
      BY <3>3, <3>4, <3>5
    <3>7. h = [s \in Small(S, n) |->
                 IF s = {} THEN 0 ELSE f[Some(s)] + h[s \ {Some(s)}]]
      BY <3>6 DEF h
    <3> QED BY <3>7 DEF IsSumUpTo
  <2> QED BY <2>2, <2>3
<1>2. Cardinality(S) \in Nat
  BY FS_CardinalityType
<1>3. PICK g : IsSumUpTo(g, f, S, Cardinality(S))
  BY <1>1, <1>2
<1>4. Small(S, Cardinality(S)) = SUBSET S
  BY FS_Subset DEF Small
<1> QED BY <1>3, <1>4 DEF IsSumUpTo, IsSum

\* A family of parts of a finite set has one that contains no other.
LEMMA SmallestPart ==
  ASSUME NEW S, IsFiniteSet(S), NEW B \in SUBSET (SUBSET S), B # {}
  PROVE  \E T \in B : \A U \in B : U \subseteq T => U = T
<1>1. IsWellFoundedOn(StrictSubsetOrdering(S), SUBSET S)
  BY FS_StrictSubsetOrderingWellFounded, FS_FiniteSubsetsOfFinite
<1>2. PICK T \in B : \A U \in B : <<U, T>> \notin StrictSubsetOrdering(S)
  BY <1>1, WFMin
<1>3. ASSUME NEW U \in B, U \subseteq T PROVE U = T
  BY <1>2, <1>3 DEF StrictSubsetOrdering
<1> QED BY <1>3

\* The sum over a set is the same whatever larger set it is computed in, and
\* depends on nothing but the terms in the set.
LEMMA SumAgrees ==
  ASSUME NEW f, NEW k, NEW S, NEW T, IsFiniteSet(S), IsFiniteSet(T),
         NEW g, NEW h, IsSum(g, f, S), IsSum(h, k, T),
         NEW A, A \subseteq S, A \subseteq T, \A x \in A : f[x] = k[x]
  PROVE  g[A] = h[A]
<1> DEFINE B == {U \in SUBSET A : g[U] # h[U]}
<1>1. IsFiniteSet(A)
  BY FS_Subset
<1>2. B = {}
  <2> SUFFICES ASSUME B # {} PROVE FALSE
    OBVIOUS
  <2>1. PICK U \in B : \A V \in B : V \subseteq U => V = U
    <3> HIDE DEF B
    <3>1. B \in SUBSET (SUBSET A)
      BY DEF B
    <3> QED BY <1>1, <3>1, SmallestPart
  <2>2. U \in SUBSET A /\ U \in SUBSET S /\ U \in SUBSET T /\ g[U] # h[U]
    OBVIOUS
  <2>3. CASE U = {}
    BY <2>2, <2>3 DEF IsSum
  <2>4. CASE U # {}
    <3>1. Some(U) \in U
      BY <2>4 DEF Some
    <3>2. g[U] = f[Some(U)] + g[U \ {Some(U)}]
      BY <2>2, <2>4 DEF IsSum
    <3>3. h[U] = k[Some(U)] + h[U \ {Some(U)}]
      BY <2>2, <2>4 DEF IsSum
    <3>4. U \ {Some(U)} \notin B
      BY <2>1, <3>1
    <3>5. g[U \ {Some(U)}] = h[U \ {Some(U)}]
      BY <2>2, <3>4
    <3>6. f[Some(U)] = k[Some(U)]
      BY <2>2, <3>1
    <3> QED BY <2>2, <3>2, <3>3, <3>5, <3>6
  <2> QED BY <2>3, <2>4
<1> QED BY <1>2

LEMMA SumIs ==
  ASSUME NEW f, NEW S, IsFiniteSet(S), NEW g, IsSum(g, f, S),
         NEW A \in SUBSET S
  PROVE  g[A] = SumFunctionOnSet(f, A)
<1> DEFINE k == f
           h == CHOOSE h : IsSum(h, k, A)
<1>1. IsFiniteSet(A) /\ A \subseteq S
  BY FS_Subset
<1>2. IsSum(h, k, A)
  BY <1>1, SumExists
<1>3. SumFunctionOnSet(f, A) = h[A]
  BY SumIsChosen
<1>4. \A x \in A : f[x] = k[x]
  OBVIOUS
<1> HIDE DEF k, h
<1>5. \A T : IsFiniteSet(T) /\ IsSum(h, k, T) /\ A \subseteq T => g[A] = h[A]
  BY <1>1, <1>4, SumAgrees
<1>6. g[A] = h[A]
  BY <1>1, <1>2, <1>5
<1> QED BY <1>3, <1>6

LEMMA SumEquation ==
  ASSUME NEW f, NEW S, IsFiniteSet(S)
  PROVE  /\ SumFunctionOnSet(f, {}) = 0
         /\ S # {} => SumFunctionOnSet(f, S) =
                        f[Some(S)] + SumFunctionOnSet(f, S \ {Some(S)})
<1>1. PICK g : IsSum(g, f, S)
  BY SumExists
<1>2. \A A \in SUBSET S : g[A] = SumFunctionOnSet(f, A)
  BY <1>1, SumIs
<1>3. {} \in SUBSET S /\ S \in SUBSET S /\ S \ {Some(S)} \in SUBSET S
  OBVIOUS
<1>4. g[{}] = 0 /\ (S # {} => g[S] = f[Some(S)] + g[S \ {Some(S)}])
  BY <1>1, <1>3 DEF IsSum
<1> QED BY <1>2, <1>3, <1>4

\* Only the terms matter.
LEMMA SumSame ==
  ASSUME NEW f, NEW k, NEW S, IsFiniteSet(S), \A x \in S : f[x] = k[x]
  PROVE  SumFunctionOnSet(f, S) = SumFunctionOnSet(k, S)
<1>1. PICK g : IsSum(g, f, S)
  BY SumExists
<1>2. PICK h : IsSum(h, k, S)
  BY SumExists
<1>3. g[S] = h[S]
  BY <1>1, <1>2, SumAgrees
<1>4. S \in SUBSET S
  OBVIOUS
<1> QED BY <1>1, <1>2, <1>3, <1>4, SumIs

LEMMA SumInt ==
  ASSUME NEW f, NEW S, IsFiniteSet(S), \A x \in S : f[x] \in Int
  PROVE  SumFunctionOnSet(f, S) \in Int
<1> DEFINE B == {U \in SUBSET S : SumFunctionOnSet(f, U) \notin Int}
<1>1. B = {}
  <2> SUFFICES ASSUME B # {} PROVE FALSE
    OBVIOUS
  <2>1. PICK U \in B : \A V \in B : V \subseteq U => V = U
    <3> HIDE DEF B
    <3>1. B \in SUBSET (SUBSET S)
      BY DEF B
    <3> QED BY <3>1, SmallestPart
  <2>2. U \in SUBSET S /\ IsFiniteSet(U) /\ SumFunctionOnSet(f, U) \notin Int
    BY FS_Subset
  <2>3. CASE U = {}
    <3>1. SumFunctionOnSet(f, {}) = 0
      BY <2>2, SumEquation
    <3> QED BY <2>2, <2>3, <3>1
  <2>4. CASE U # {}
    <3>1. Some(U) \in U /\ f[Some(U)] \in Int
      BY <2>2, <2>4 DEF Some
    <3>2. U \ {Some(U)} \notin B
      BY <2>1, <3>1
    <3>3. SumFunctionOnSet(f, U \ {Some(U)}) \in Int
      BY <2>2, <3>2
    <3> QED BY <2>2, <2>4, <3>1, <3>3, SumEquation
  <2> QED BY <2>3, <2>4
<1> QED BY <1>1

\* Any term may be taken out first.
LEMMA SumTakeOut ==
  ASSUME NEW f, NEW S, IsFiniteSet(S), \A x \in S : f[x] \in Int, NEW y \in S
  PROVE  SumFunctionOnSet(f, S) = f[y] + SumFunctionOnSet(f, S \ {y})
<1> DEFINE sum(A) == SumFunctionOnSet(f, A)
           B == {U \in SUBSET S : \E z \in U : sum(U) # f[z] + sum(U \ {z})}
<1>1. B = {}
  <2> SUFFICES ASSUME B # {} PROVE FALSE
    OBVIOUS
  <2>1. PICK U \in B : \A V \in B : V \subseteq U => V = U
    <3> HIDE DEF B
    <3>1. B \in SUBSET (SUBSET S)
      BY DEF B
    <3> QED BY <3>1, SmallestPart
  <2>2. U \in SUBSET S /\ IsFiniteSet(U)
    BY FS_Subset
  <2>3. PICK z \in U : sum(U) # f[z] + sum(U \ {z})
    OBVIOUS
  <2> DEFINE c == Some(U)
  <2>4. c \in U /\ sum(U) = f[c] + sum(U \ {c})
    BY <2>2, <2>3, SumEquation DEF Some
  <2> HIDE DEF c
  <2>5. z # c
    BY <2>3, <2>4
  <2>6. \A x \in U : U \ {x} \notin B /\ U \ {x} \in SUBSET S
    BY <2>1, <2>2
  <2>7. sum(U \ {c}) = f[z] + sum((U \ {c}) \ {z})
    BY <2>4, <2>5, <2>6
  <2>8. sum(U \ {z}) = f[c] + sum((U \ {z}) \ {c})
    BY <2>4, <2>5, <2>6
  <2>9. (U \ {c}) \ {z} = (U \ {z}) \ {c}
    OBVIOUS
  <2>10. sum((U \ {z}) \ {c}) \in Int
    <3>1. IsFiniteSet((U \ {z}) \ {c})
      BY <2>2, FS_RemoveElement
    <3> QED BY <2>2, <3>1, SumInt
  <2>11. f[c] \in Int /\ f[z] \in Int
    BY <2>2, <2>4
  <2> HIDE DEF sum
  <2>12. sum(U \ {c}) = f[z] + sum((U \ {z}) \ {c})
    BY <2>7, <2>9
  <2> QED BY <2>3, <2>4, <2>8, <2>10, <2>11, <2>12
<1> QED BY <1>1

\* One term changes: so does the sum, by as much.
LEMMA SumChange ==
  ASSUME NEW f, NEW k, NEW S, IsFiniteSet(S), NEW y \in S,
         \A x \in S : f[x] \in Int /\ k[x] \in Int,
         \A x \in S \ {y} : k[x] = f[x]
  PROVE  SumFunctionOnSet(k, S) = SumFunctionOnSet(f, S) + (k[y] - f[y])
<1>1. IsFiniteSet(S \ {y})
  BY FS_RemoveElement
<1>2. SumFunctionOnSet(k, S \ {y}) = SumFunctionOnSet(f, S \ {y})
  BY <1>1, SumSame
<1>3. SumFunctionOnSet(f, S \ {y}) \in Int
  BY <1>1, SumInt
<1>4. SumFunctionOnSet(f, S) = f[y] + SumFunctionOnSet(f, S \ {y})
  BY SumTakeOut
<1>5. SumFunctionOnSet(k, S) = k[y] + SumFunctionOnSet(k, S \ {y})
  BY SumTakeOut
<1> QED BY <1>2, <1>3, <1>4, <1>5

\* The sum over a set is the sums over a part of it and over the rest.
LEMMA SumSplit ==
  ASSUME NEW f, NEW S, IsFiniteSet(S), \A x \in S : f[x] \in Int, NEW T \in SUBSET S
  PROVE  SumFunctionOnSet(f, S) = SumFunctionOnSet(f, T) + SumFunctionOnSet(f, S \ T)
<1> DEFINE sum(A) == SumFunctionOnSet(f, A)
           B == {U \in SUBSET S : sum(S) # sum(U) + sum(S \ U)}
<1>1. \A U \in SUBSET S : IsFiniteSet(U) /\ sum(U) \in Int
  BY FS_Subset, SumInt
<1>2. B = {}
  <2> SUFFICES ASSUME B # {} PROVE FALSE
    OBVIOUS
  <2>1. PICK U \in B : \A V \in B : V \subseteq U => V = U
    <3> HIDE DEF B
    <3>1. B \in SUBSET (SUBSET S)
      BY DEF B
    <3> QED BY <3>1, SmallestPart
  <2>2. U \in SUBSET S /\ sum(S) # sum(U) + sum(S \ U)
    OBVIOUS
  <2>3. CASE U = {}
    <3>1. sum({}) = 0 /\ S \ U = S
      BY <2>3, FS_EmptySet, SumEquation
    <3>2. sum(S) \in Int
      BY <1>1
    <3>3. sum(U) = 0 /\ sum(S \ U) = sum(S)
      BY <2>3, <3>1
    <3> HIDE DEF sum
    <3> QED BY <2>2, <3>2, <3>3
  <2>4. CASE U # {}
    <3>1. PICK y \in U : TRUE
      BY <2>4
    <3> DEFINE V == U \ {y}
    <3>2. V \in SUBSET S /\ V \subseteq U /\ V # U
      BY <2>2, <3>1
    <3>3. sum(S) = sum(V) + sum(S \ V)
      <4>1. V \notin B
        BY <2>1, <3>2
      <4> QED BY <3>2, <4>1
    <3>4. sum(U) = f[y] + sum(V)
      BY <1>1, <2>2, <3>1, SumTakeOut
    <3>5. sum(S \ V) = f[y] + sum(S \ U)
      <4>1. PICK R \in SUBSET S : R = S \ V
        BY <3>2
      <4>2. y \in R /\ R \ {y} = S \ U
        BY <2>2, <3>1, <4>1
      <4>3. IsFiniteSet(R) /\ \A x \in R : f[x] \in Int
        BY <1>1, <4>1
      <4>4. sum(R) = f[y] + sum(R \ {y})
        BY <4>2, <4>3, SumTakeOut
      <4> QED BY <4>1, <4>2, <4>4
    <3>6. f[y] \in Int /\ sum(V) \in Int /\ sum(S \ U) \in Int
      BY <1>1, <2>2, <3>1, <3>2
    <3> HIDE DEF sum, V
    <3>7. sum(S) = sum(V) + (f[y] + sum(S \ U))
      BY <3>3, <3>5
    <3>8. sum(U) + sum(S \ U) = (f[y] + sum(V)) + sum(S \ U)
      BY <3>4
    <3>9. sum(S) = sum(U) + sum(S \ U)
      BY <3>6, <3>7, <3>8
    <3> QED BY <2>2, <3>9
  <2> QED BY <2>3, <2>4
<1> QED BY <1>2

\* Adding term by term adds the sums.
LEMMA SumAdd ==
  ASSUME NEW f, NEW k, NEW h, NEW S, IsFiniteSet(S),
         \A x \in S : f[x] \in Int /\ k[x] \in Int /\ h[x] = f[x] + k[x]
  PROVE  SumFunctionOnSet(h, S) = SumFunctionOnSet(f, S) + SumFunctionOnSet(k, S)
<1> DEFINE B == {U \in SUBSET S : SumFunctionOnSet(h, U) #
                   SumFunctionOnSet(f, U) + SumFunctionOnSet(k, U)}
<1>1. B = {}
  <2> SUFFICES ASSUME B # {} PROVE FALSE
    OBVIOUS
  <2>1. PICK U \in B : \A V \in B : V \subseteq U => V = U
    <3> HIDE DEF B
    <3>1. B \in SUBSET (SUBSET S)
      BY DEF B
    <3> QED BY <3>1, SmallestPart
  <2>2. /\ U \in SUBSET S /\ IsFiniteSet(U)
        /\ SumFunctionOnSet(h, U) # SumFunctionOnSet(f, U) + SumFunctionOnSet(k, U)
    BY FS_Subset
  <2>3. CASE U = {}
    <3>1. SumFunctionOnSet(f, {}) = 0 /\ SumFunctionOnSet(h, {}) = 0
          /\ SumFunctionOnSet(k, {}) = 0
      BY FS_EmptySet, SumEquation
    <3> QED BY <2>2, <2>3, <3>1
  <2>4. CASE U # {}
    <3>1. PICK y \in U : TRUE
      BY <2>4
    <3> PICK V : V = U \ {y}
      OBVIOUS
    <3>2. V \in SUBSET S /\ V \notin B /\ IsFiniteSet(V)
      BY <2>1, <2>2, <3>1, FS_Subset
    <3>3. SumFunctionOnSet(h, V) = SumFunctionOnSet(f, V) + SumFunctionOnSet(k, V)
      BY <3>2
    <3>4. \A x \in U : f[x] \in Int /\ k[x] \in Int /\ h[x] \in Int
      BY <2>2
    <3>5. SumFunctionOnSet(f, U) = f[y] + SumFunctionOnSet(f, V)
      BY <2>2, <3>1, <3>4, SumTakeOut
    <3>6. SumFunctionOnSet(k, U) = k[y] + SumFunctionOnSet(k, V)
      BY <2>2, <3>1, <3>4, SumTakeOut
    <3>7. SumFunctionOnSet(h, U) = h[y] + SumFunctionOnSet(h, V)
      BY <2>2, <3>1, <3>4, SumTakeOut
    <3>8. SumFunctionOnSet(f, V) \in Int /\ SumFunctionOnSet(k, V) \in Int
      BY <3>2, <3>4, SumInt
    <3>9. f[y] \in Int /\ k[y] \in Int /\ h[y] = f[y] + k[y]
      BY <2>2, <3>1
    <3> QED BY <2>2, <3>3, <3>5, <3>6, <3>7, <3>8, <3>9
  <2> QED BY <2>3, <2>4
<1>2. S \in SUBSET S
  OBVIOUS
<1> QED BY <1>1, <1>2

\* Terms that are zero add nothing.
LEMMA SumZero ==
  ASSUME NEW f, NEW S, IsFiniteSet(S), \A x \in S : f[x] = 0
  PROVE  SumFunctionOnSet(f, S) = 0
<1> DEFINE B == {U \in SUBSET S : SumFunctionOnSet(f, U) # 0}
<1>1. B = {}
  <2> SUFFICES ASSUME B # {} PROVE FALSE
    OBVIOUS
  <2>1. PICK U \in B : \A V \in B : V \subseteq U => V = U
    <3> HIDE DEF B
    <3>1. B \in SUBSET (SUBSET S)
      BY DEF B
    <3> QED BY <3>1, SmallestPart
  <2>2. U \in SUBSET S /\ IsFiniteSet(U) /\ SumFunctionOnSet(f, U) # 0
    BY FS_Subset
  <2>3. U # {}
    BY <2>2, SumEquation
  <2>4. Some(U) \in U /\ f[Some(U)] = 0
    BY <2>2, <2>3 DEF Some
  <2>5. SumFunctionOnSet(f, U \ {Some(U)}) = 0
    BY <2>1, <2>2, <2>4
  <2> QED BY <2>2, <2>3, <2>4, <2>5, SumEquation
<1>2. S \in SUBSET S
  OBVIOUS
<1> QED BY <1>1, <1>2

\* Terms outside a part that are zero can be left out.
LEMMA SumPart ==
  ASSUME NEW f, NEW S, IsFiniteSet(S), \A x \in S : f[x] \in Int,
         NEW T \in SUBSET S, \A x \in S \ T : f[x] = 0
  PROVE  SumFunctionOnSet(f, S) = SumFunctionOnSet(f, T)
<1> PICK R : R = S \ T
  OBVIOUS
<1>1. IsFiniteSet(R) /\ IsFiniteSet(T)
  BY FS_Subset
<1>2. SumFunctionOnSet(f, R) = 0
  BY <1>1, SumZero
<1>3. SumFunctionOnSet(f, T) \in Int
  BY <1>1, SumInt
<1>4. SumFunctionOnSet(f, S) = SumFunctionOnSet(f, T) + SumFunctionOnSet(f, R)
  BY SumSplit
<1> QED BY <1>2, <1>3, <1>4

\* Smaller terms have the smaller sum.
LEMMA SumAtMost ==
  ASSUME NEW f, NEW k, NEW S, IsFiniteSet(S),
         \A x \in S : f[x] \in Int /\ k[x] \in Int /\ f[x] <= k[x]
  PROVE  SumFunctionOnSet(f, S) <= SumFunctionOnSet(k, S)
<1> DEFINE B == {U \in SUBSET S :
                   ~(SumFunctionOnSet(f, U) <= SumFunctionOnSet(k, U))}
<1>1. B = {}
  <2> SUFFICES ASSUME B # {} PROVE FALSE
    OBVIOUS
  <2>1. PICK U \in B : \A V \in B : V \subseteq U => V = U
    <3> HIDE DEF B
    <3>1. B \in SUBSET (SUBSET S)
      BY DEF B
    <3> QED BY <3>1, SmallestPart
  <2>2. /\ U \in SUBSET S /\ IsFiniteSet(U)
        /\ ~(SumFunctionOnSet(f, U) <= SumFunctionOnSet(k, U))
    BY FS_Subset
  <2>3. CASE U = {}
    <3>1. SumFunctionOnSet(f, {}) = 0 /\ SumFunctionOnSet(k, {}) = 0
      BY FS_EmptySet, SumEquation
    <3> QED BY <2>2, <2>3, <3>1
  <2>4. CASE U # {}
    <3>1. PICK y \in U : TRUE
      BY <2>4
    <3> PICK V : V = U \ {y}
      OBVIOUS
    <3>2. V \in SUBSET S /\ V \notin B /\ IsFiniteSet(V)
      BY <2>1, <2>2, <3>1, FS_Subset
    <3>3. SumFunctionOnSet(f, V) <= SumFunctionOnSet(k, V)
      BY <3>2
    <3>4. \A x \in U : f[x] \in Int /\ k[x] \in Int
      BY <2>2
    <3>5. SumFunctionOnSet(f, U) = f[y] + SumFunctionOnSet(f, V)
      BY <2>2, <3>1, <3>4, SumTakeOut
    <3>6. SumFunctionOnSet(k, U) = k[y] + SumFunctionOnSet(k, V)
      BY <2>2, <3>1, <3>4, SumTakeOut
    <3>7. SumFunctionOnSet(f, V) \in Int /\ SumFunctionOnSet(k, V) \in Int
      BY <3>2, <3>4, SumInt
    <3>8. f[y] \in Int /\ k[y] \in Int /\ f[y] <= k[y]
      BY <2>2, <3>1
    <3> QED BY <2>2, <3>3, <3>5, <3>6, <3>7, <3>8
  <2> QED BY <2>3, <2>4
<1>2. S \in SUBSET S
  OBVIOUS
<1> QED BY <1>1, <1>2

\* Three terms change, and no other: the sum changes by what they do together.
LEMMA SumMoves ==
  ASSUME NEW f, NEW k, NEW S, IsFiniteSet(S),
         NEW a \in S, NEW b \in S, NEW c \in S, a # b, b # c, a # c,
         \A x \in S : f[x] \in Int /\ k[x] \in Int,
         \A x \in S : x # a /\ x # b /\ x # c => k[x] = f[x]
  PROVE  SumFunctionOnSet(k, S) = SumFunctionOnSet(f, S)
           + (k[a] - f[a]) + (k[b] - f[b]) + (k[c] - f[c])
<1> DEFINE g1 == [x \in S |-> IF x = a THEN k[x] ELSE f[x]]
           g2 == [x \in S |-> IF x = a \/ x = b THEN k[x] ELSE f[x]]
<1>1. /\ \A x \in S : g1[x] \in Int /\ g2[x] \in Int
      /\ \A x \in S \ {a} : g1[x] = f[x]
      /\ \A x \in S \ {b} : g2[x] = g1[x]
      /\ \A x \in S \ {c} : k[x] = g2[x]
      /\ g1[a] = k[a] /\ g1[b] = f[b] /\ g2[b] = k[b] /\ g2[c] = f[c]
  OBVIOUS
<1> HIDE DEF g1, g2
<1>2. SumFunctionOnSet(g1, S) = SumFunctionOnSet(f, S) + (g1[a] - f[a])
  BY <1>1, SumChange
<1>3. SumFunctionOnSet(g2, S) = SumFunctionOnSet(g1, S) + (g2[b] - g1[b])
  BY <1>1, SumChange
<1>4. SumFunctionOnSet(k, S) = SumFunctionOnSet(g2, S) + (k[c] - g2[c])
  BY <1>1, SumChange
<1>5. SumFunctionOnSet(f, S) \in Int
  BY SumInt
<1>6. k[a] \in Int /\ f[a] \in Int /\ k[b] \in Int /\ f[b] \in Int
      /\ k[c] \in Int /\ f[c] \in Int
  OBVIOUS
<1> QED BY <1>1, <1>2, <1>3, <1>4, <1>5, <1>6

\* A sum of numbers that are not negative is none either, and no term is more.
LEMMA SumNat ==
  ASSUME NEW f, NEW S, IsFiniteSet(S), \A x \in S : f[x] \in Nat
  PROVE  /\ SumFunctionOnSet(f, S) \in Nat
         /\ \A y \in S : f[y] <= SumFunctionOnSet(f, S)
<1>1. ASSUME NEW T \in SUBSET S PROVE SumFunctionOnSet(f, T) \in Nat
  <2> PICK z : z = [x \in T |-> 0]
    OBVIOUS
  <2>1. \A x \in T : z[x] \in Int /\ f[x] \in Int /\ z[x] <= f[x] /\ z[x] = 0
    OBVIOUS
  <2>2. IsFiniteSet(T)
    BY FS_Subset
  <2>3. SumFunctionOnSet(z, T) <= SumFunctionOnSet(f, T)
    BY <2>1, <2>2, SumAtMost
  <2>4. SumFunctionOnSet(z, T) = 0
    BY <2>1, <2>2, SumZero
  <2>5. SumFunctionOnSet(f, T) \in Int
    BY <2>1, <2>2, SumInt
  <2> QED BY <2>3, <2>4, <2>5
<1>2. ASSUME NEW y \in S PROVE f[y] <= SumFunctionOnSet(f, S)
  <2>1. \A x \in S : f[x] \in Int
    OBVIOUS
  <2>2. SumFunctionOnSet(f, S) = f[y] + SumFunctionOnSet(f, S \ {y})
    BY <2>1, SumTakeOut
  <2>3. SumFunctionOnSet(f, S \ {y}) \in Nat
    BY <1>1
  <2> QED BY <2>2, <2>3
<1>3. S \in SUBSET S
  OBVIOUS
<1> QED BY <1>1, <1>2, <1>3
=============================================================================
