---------------------------- MODULE Plans_proofs ----------------------------
(***************************************************************************)
(* What is proved of the analysis and of the arithmetic of a grid, for all *)
(* forms, candle paths and histories: the grid that is built (GridPlan),   *)
(* the backtest's books (Backtest) and the recommendation (Advice).        *)
(***************************************************************************)
EXTENDS GridPlan, Backtest, Advice, Induction, FiniteSetTheorems, TLAPS

-----------------------------------------------------------------------------
(* Ranks *)

\* Ranks in a finite set.  L is a strict order on S that has each two of its
\* members in one order; the rank of a member is the number of those before it.
Ranked(L, S) ==
  /\ IsFiniteSet(S)
  /\ \A x \in S : <<x, x>> \notin L
  /\ \A x, y \in S : x # y => <<x, y>> \in L \/ <<y, x>> \in L
  /\ \A x, y, z \in S : <<x, y>> \in L /\ <<y, z>> \in L => <<x, z>> \in L

Rank(L, S, x) == Cardinality({y \in S : <<y, x>> \in L})

LEMMA RankType ==
  \A L, S : Ranked(L, S) =>
    Cardinality(S) \in Nat /\ \A x \in S : Rank(L, S, x) \in Nat /\ Rank(L, S, x) < Cardinality(S)
<1> SUFFICES ASSUME NEW L, NEW S, Ranked(L, S), NEW x \in S
             PROVE  /\ Cardinality(S) \in Nat /\ Rank(L, S, x) \in Nat
                    /\ Rank(L, S, x) < Cardinality(S)
  BY FS_CardinalityType DEF Ranked
<1> DEFINE A == {y \in S : <<y, x>> \in L}
<1>1. A \subseteq S \ {x} /\ IsFiniteSet(S)
  BY DEF Ranked
<1>2. /\ IsFiniteSet(S \ {x}) /\ Cardinality(S \ {x}) = Cardinality(S) - 1
      /\ Cardinality(S) \in Nat
  BY <1>1, FS_RemoveElement, FS_CardinalityType
<1>3. IsFiniteSet(A) /\ Cardinality(A) <= Cardinality(S \ {x})
  <2> HIDE DEF A
  <2> QED BY <1>1, <1>2, FS_Subset
<1>4. Cardinality(A) \in Nat
  <2> HIDE DEF A
  <2> QED BY <1>3, FS_CardinalityType
<1> QED BY <1>2, <1>3, <1>4 DEF Rank

LEMMA RankGrows ==
  \A L, S : Ranked(L, S) =>
    \A x, y \in S : <<x, y>> \in L => Rank(L, S, x) < Rank(L, S, y)
<1> SUFFICES ASSUME NEW L, NEW S, Ranked(L, S), NEW x \in S, NEW y \in S, <<x, y>> \in L
             PROVE  Rank(L, S, x) < Rank(L, S, y)
  OBVIOUS
<1> DEFINE A == {z \in S : <<z, x>> \in L}
           B == {z \in S : <<z, y>> \in L}
<1>1. A \subseteq B \ {x} /\ x \in B /\ B \subseteq S /\ IsFiniteSet(S)
  BY DEF Ranked
<1> HIDE DEF A, B
<1>2. IsFiniteSet(B) /\ Cardinality(B) \in Nat
  BY <1>1, FS_Subset, FS_CardinalityType
<1>3. IsFiniteSet(B \ {x}) /\ Cardinality(B \ {x}) = Cardinality(B) - 1
  BY <1>1, <1>2, FS_RemoveElement
<1>4. IsFiniteSet(A) /\ Cardinality(A) <= Cardinality(B \ {x})
  BY <1>1, <1>3, FS_Subset
<1>5. Cardinality(A) \in Nat
  BY <1>4, FS_CardinalityType
<1>6. Cardinality(A) < Cardinality(B)
  BY <1>2, <1>3, <1>4, <1>5
<1> QED BY <1>6 DEF Rank, A, B

LEMMA RankOrders ==
  \A L, S : Ranked(L, S) =>
    \A x, y \in S : /\ Rank(L, S, x) = Rank(L, S, y) => x = y
                    /\ Rank(L, S, x) < Rank(L, S, y) => <<x, y>> \in L
<1> SUFFICES ASSUME NEW L, NEW S, Ranked(L, S), NEW x \in S, NEW y \in S
             PROVE  /\ Rank(L, S, x) = Rank(L, S, y) => x = y
                    /\ Rank(L, S, x) < Rank(L, S, y) => <<x, y>> \in L
  OBVIOUS
<1>1. Rank(L, S, x) \in Nat /\ Rank(L, S, y) \in Nat
  BY RankType
<1>2. /\ <<x, y>> \in L => Rank(L, S, x) < Rank(L, S, y)
      /\ <<y, x>> \in L => Rank(L, S, y) < Rank(L, S, x)
  BY RankGrows
<1>3. x # y => <<x, y>> \in L \/ <<y, x>> \in L
  BY DEF Ranked
<1> QED BY <1>1, <1>2, <1>3

\* Each rank is taken.
LEMMA RankTaken ==
  \A L, S : Ranked(L, S) => \A r \in Nat : r < Cardinality(S) => \E x \in S : Rank(L, S, x) = r
<1> SUFFICES ASSUME NEW L, NEW S, Ranked(L, S), NEW r \in Nat, r < Cardinality(S)
             PROVE  \E x \in S : Rank(L, S, x) = r
  OBVIOUS
<1> DEFINE c == Cardinality(S)
           f == [x \in S |-> Rank(L, S, x)]
<1>1. IsFiniteSet(S) /\ c \in Nat
  BY RankType, FS_CardinalityType DEF Ranked
<1>2. f \in [S -> 0..c - 1]
  BY <1>1, RankType
<1>3. f \in Injection(S, 0..c - 1)
  <2>1. \A x, y \in S : f[x] = f[y] => x = y
    BY RankOrders
  <2> HIDE DEF f, c
  <2> QED BY <1>2, <2>1 DEF Injection, IsInjective
<1>4. IsFiniteSet(0..c - 1) /\ Cardinality(0..c - 1) = c
  <2> HIDE DEF c
  <2>1. c - 1 \in Int /\ (IF 0 > c - 1 THEN 0 ELSE c - 1 - 0 + 1) = c
    BY <1>1
  <2> QED BY <2>1, FS_Interval
<1>5. f \in Surjection(S, 0..c - 1)
  <2> HIDE DEF f
  <2> QED BY <1>3, <1>4, FS_Injection
<1>6. r \in 0..c - 1
  BY <1>1
<1> QED BY <1>5, <1>6 DEF Surjection

\* As many have a rank below w as there are members, w at most.
LEMMA RanksBelow ==
  \A L, S : Ranked(L, S) => \A w \in Nat :
    Cardinality({x \in S : Rank(L, S, x) < w}) =
      IF w < Cardinality(S) THEN w ELSE Cardinality(S)
<1> SUFFICES ASSUME NEW L, NEW S, Ranked(L, S), NEW w \in Nat
             PROVE  Cardinality({x \in S : Rank(L, S, x) < w}) =
                      IF w < Cardinality(S) THEN w ELSE Cardinality(S)
  OBVIOUS
<1> DEFINE A == {x \in S : Rank(L, S, x) < w}
<1>1. Cardinality(S) \in Nat /\ \A x \in S : Rank(L, S, x) \in Nat /\ Rank(L, S, x) < Cardinality(S)
  BY RankType, FS_CardinalityType DEF Ranked
<1>2. CASE ~(w < Cardinality(S))
  <2>1. A = S
    BY <1>1, <1>2
  <2> QED BY <1>2, <2>1
<1>3. CASE w < Cardinality(S)
  <2> DEFINE f == [x \in A |-> Rank(L, S, x)]
  <2>1. f \in [A -> 0..w - 1]
    BY <1>1
  <2>2. f \in Injection(A, 0..w - 1)
    <3>1. \A x, y \in A : f[x] = f[y] => x = y
      BY RankOrders
    <3> HIDE DEF f, A
    <3> QED BY <2>1, <3>1 DEF Injection, IsInjective
  <2>3. \A r \in 0..w - 1 : \E x \in A : f[x] = r
    BY <1>1, <1>3, RankTaken
  <2>4. IsFiniteSet(0..w - 1) /\ Cardinality(0..w - 1) = w
    BY FS_Interval
  <2> HIDE DEF f, A
  <2>5. f \in Surjection(A, 0..w - 1)
    BY <2>1, <2>3 DEF Surjection
  <2>6. IsFiniteSet(A) /\ Cardinality(A) = Cardinality(0..w - 1)
    BY <2>2, <2>4, <2>5, FS_Injection
  <2> QED BY <1>3, <2>4, <2>6 DEF A
<1> QED BY <1>2, <1>3

LEMMA NatTimes == \A a, b \in Nat : a * b \in Nat
  OBVIOUS

LEMMA IntTimes == \A a, b \in Int : a * b \in Int
  OBVIOUS

\* A product grows with its factor.
LEMMA TimesGrows == \A a, b \in Int, y \in Nat : a <= b => a * y <= b * y
<1> SUFFICES ASSUME NEW a \in Int, NEW b \in Int, NEW y \in Nat, a <= b PROVE a * y <= b * y
  OBVIOUS
<1>1. (b - a) * y \in Nat
  BY NatTimes
<1>2. (b - a) * y = b * y - a * y
  OBVIOUS
<1>3. a * y \in Int /\ b * y \in Int
  OBVIOUS
<1> QED BY <1>1, <1>2, <1>3

\* What a quotient is.
LEMMA Quotient ==
  \A x \in Int, y \in Nat \ {0} :
    x \div y \in Int /\ (x \div y) * y <= x /\ x < (x \div y) * y + y
  OBVIOUS

LEMMA OneQuotient ==
  \A x, q \in Int, y \in Nat \ {0} : q * y <= x /\ x < q * y + y => x \div y = q
<1> SUFFICES ASSUME NEW x \in Int, NEW q \in Int, NEW y \in Nat \ {0}, q * y <= x, x < q * y + y
             PROVE  x \div y = q
  OBVIOUS
<1> DEFINE r == x \div y
<1>1. r \in Int /\ r * y <= x /\ x < r * y + y
  BY Quotient
<1> HIDE DEF r
<1>2. ~(q + 1 <= r)
  <2>1. q + 1 <= r => (q + 1) * y <= r * y
    BY <1>1, TimesGrows
  <2>2. (q + 1) * y = q * y + y /\ q * y \in Int /\ r * y \in Int
    BY <1>1
  <2> QED BY <1>1, <2>1, <2>2
<1>3. ~(r + 1 <= q)
  <2>1. r + 1 <= q => (r + 1) * y <= q * y
    BY <1>1, TimesGrows
  <2>2. (r + 1) * y = r * y + y /\ q * y \in Int /\ r * y \in Int
    BY <1>1
  <2> QED BY <1>1, <2>1, <2>2
<1>4. r = q
  BY <1>1, <1>2, <1>3
<1> QED BY <1>4 DEF r

\* Half up: what is rounded lies within half of the divisor.
LEMMA RoundedIs ==
  \A n \in Int, d \in Nat \ {0} :
    /\ Rounded(n, d) \in Int
    /\ Rounded(n, d) * (2 * d) <= 2 * n + d
    /\ 2 * n + d < Rounded(n, d) * (2 * d) + 2 * d
<1> SUFFICES ASSUME NEW n \in Int, NEW d \in Nat \ {0}
             PROVE  /\ Rounded(n, d) \in Int
                    /\ Rounded(n, d) * (2 * d) <= 2 * n + d
                    /\ 2 * n + d < Rounded(n, d) * (2 * d) + 2 * d
  OBVIOUS
<1>1. 2 * n + d \in Int /\ 2 * d \in Nat \ {0}
  OBVIOUS
<1> QED BY <1>1, Quotient DEF Rounded

LEMMA RoundedOnly ==
  \A n, q \in Int, d \in Nat \ {0} :
    q * (2 * d) <= 2 * n + d /\ 2 * n + d < q * (2 * d) + 2 * d => Rounded(n, d) = q
<1> SUFFICES ASSUME NEW n \in Int, NEW q \in Int, NEW d \in Nat \ {0},
                    q * (2 * d) <= 2 * n + d, 2 * n + d < q * (2 * d) + 2 * d
             PROVE  Rounded(n, d) = q
  OBVIOUS
<1>1. 2 * n + d \in Int /\ 2 * d \in Nat \ {0}
  OBVIOUS
<1> QED BY <1>1, OneQuotient DEF Rounded

\* Rounding keeps the order, and parts what is a unit apart.
LEMMA RoundedGrows ==
  \A m, n \in Int, d \in Nat \ {0} :
    /\ m <= n => Rounded(m, d) <= Rounded(n, d)
    /\ m + d <= n => Rounded(m, d) < Rounded(n, d)
<1> SUFFICES ASSUME NEW m \in Int, NEW n \in Int, NEW d \in Nat \ {0}
             PROVE  /\ m <= n => Rounded(m, d) <= Rounded(n, d)
                    /\ m + d <= n => Rounded(m, d) < Rounded(n, d)
  OBVIOUS
<1> DEFINE a == Rounded(m, d)
           b == Rounded(n, d)
           e == 2 * d
<1>1. /\ a \in Int /\ a * e <= 2 * m + d /\ 2 * m + d < a * e + e
      /\ b \in Int /\ b * e <= 2 * n + d /\ 2 * n + d < b * e + e
  BY RoundedIs
<1> HIDE DEF a, b
<1>2. e \in Nat /\ a * e \in Int /\ b * e \in Int
  BY <1>1
<1>3. m <= n => ~(b + 1 <= a)
  <2>1. b + 1 <= a => (b + 1) * e <= a * e
    BY <1>1, <1>2, TimesGrows
  <2>2. (b + 1) * e = b * e + e
    BY <1>1, <1>2
  <2> QED BY <1>1, <1>2, <2>1, <2>2
<1>4. m + d <= n => ~(b <= a)
  <2>1. b <= a => b * e <= a * e
    BY <1>1, <1>2, TimesGrows
  <2> QED BY <1>1, <1>2, <2>1
<1>5. (m <= n => a <= b) /\ (m + d <= n => a < b)
  BY <1>1, <1>3, <1>4
<1> QED BY <1>5 DEF a, b

-----------------------------------------------------------------------------
(* Levels *)

\* What may be asked for.
LEMMA FormIs ==
  \A f \in Forms :
    /\ f.lower \in Nat \ {0} /\ f.capital \in Nat \ {0} /\ f.minSize \in Nat \ {0}
    /\ f.period \in Nat \ {0} /\ f.least \in Nat \ {0}
    /\ f.upper \in Nat /\ f.window \in Nat /\ f.minNotional \in Nat /\ f.most \in Nat
    /\ f.grids \in Int /\ f.atr \in BOOLEAN /\ f.virtual \in BOOLEAN
    /\ Width(f) \in Int /\ TwiceMid(f) \in Nat \ {0} /\ FeeFloor(f) \in Nat
<1> SUFFICES ASSUME NEW f \in Forms
             PROVE  /\ f.lower \in Nat \ {0} /\ f.capital \in Nat \ {0} /\ f.minSize \in Nat \ {0}
                    /\ f.period \in Nat \ {0} /\ f.least \in Nat \ {0}
                    /\ f.upper \in Nat /\ f.window \in Nat /\ f.minNotional \in Nat /\ f.most \in Nat
                    /\ f.grids \in Int /\ f.atr \in BOOLEAN /\ f.virtual \in BOOLEAN
                    /\ Width(f) \in Int /\ TwiceMid(f) \in Nat \ {0} /\ FeeFloor(f) \in Nat
  OBVIOUS
<1>1. /\ f.lower \in Nat \ {0} /\ f.capital \in Nat \ {0} /\ f.minSize \in Nat \ {0}
      /\ f.period \in Nat \ {0} /\ f.least \in Nat \ {0}
      /\ f.upper \in Nat /\ f.window \in Nat /\ f.minNotional \in Nat /\ f.most \in Nat
      /\ f.grids \in Int /\ f.atr \in BOOLEAN /\ f.virtual \in BOOLEAN
  BY GridPlanAssumption
<1>2. Width(f) \in Int /\ TwiceMid(f) \in Nat \ {0}
  BY <1>1 DEF Width, TwiceMid
<1>3. FeeFloor(f) \in Nat
  <2>1. 3 * TwiceMid(f) \in Nat /\ FeeRate \in Nat
    BY <1>2, GridPlanAssumption
  <2> QED BY <2>1, NatTimes DEF FeeFloor
<1> QED BY <1>1, <1>2, <1>3

\* The sum whose rounding is the price of a level.
LEMMA LevelSum ==
  \A f \in Forms, n \in Nat \ {0}, i \in Int :
    /\ n * f.lower + i * Width(f) \in Int
    /\ PriceAt(f, n, i) \in Int
    /\ n * f.lower + (i + 1) * Width(f) = (n * f.lower + i * Width(f)) + Width(f)
<1> SUFFICES ASSUME NEW f \in Forms, NEW n \in Nat \ {0}, NEW i \in Int
             PROVE  /\ n * f.lower + i * Width(f) \in Int
                    /\ PriceAt(f, n, i) \in Int
                    /\ n * f.lower + (i + 1) * Width(f) = (n * f.lower + i * Width(f)) + Width(f)
  OBVIOUS
<1>1. f.lower \in Int /\ Width(f) \in Int
  BY FormIs
<1>2. n * f.lower \in Int /\ i * Width(f) \in Int
  BY <1>1, IntTimes
<1>3. (i + 1) * Width(f) = i * Width(f) + Width(f)
  BY <1>1
<1>4. n * f.lower + i * Width(f) \in Int
  BY <1>2
<1>5. n * f.lower + (i + 1) * Width(f) = (n * f.lower + i * Width(f)) + Width(f)
  <2> DEFINE a == n * f.lower
             b == i * Width(f)
             w == Width(f)
  <2>1. a \in Int /\ b \in Int /\ w \in Int /\ (i + 1) * w = b + w
    BY <1>1, <1>2, <1>3
  <2> HIDE DEF a, b, w
  <2>2. a + (b + w) = (a + b) + w
    BY <2>1
  <2> QED BY <2>1, <2>2 DEF a, b, w
<1>6. PriceAt(f, n, i) \in Int
  BY <1>4, RoundedIs DEF PriceAt
<1> QED BY <1>4, <1>5, <1>6

\* Prices do not fall from one level to the next, and rise when the spacing is a
\* cent at least.
LEMMA PricesRise ==
  \A f \in Forms, n \in Nat \ {0}, i \in Int : Width(f) >= 0 =>
    /\ PriceAt(f, n, i) <= PriceAt(f, n, i + 1)
    /\ Width(f) >= n => PriceAt(f, n, i) < PriceAt(f, n, i + 1)
<1> SUFFICES ASSUME NEW f \in Forms, NEW n \in Nat \ {0}, NEW i \in Int, Width(f) >= 0
             PROVE  /\ PriceAt(f, n, i) <= PriceAt(f, n, i + 1)
                    /\ Width(f) >= n => PriceAt(f, n, i) < PriceAt(f, n, i + 1)
  OBVIOUS
<1> DEFINE a == n * f.lower + i * Width(f)
           b == n * f.lower + (i + 1) * Width(f)
<1>1. a \in Int /\ b = a + Width(f) /\ Width(f) \in Int
  BY LevelSum, FormIs
<1>2. PriceAt(f, n, i) = Rounded(a, n) /\ PriceAt(f, n, i + 1) = Rounded(b, n)
  BY DEF PriceAt
<1> HIDE DEF a, b
<1>3. b \in Int /\ a <= b /\ (Width(f) >= n => a + n <= b)
  BY <1>1
<1> QED BY <1>1, <1>2, <1>3, RoundedGrows

\* The prices in between, level by level.
LEMMA PricesOrdered ==
  \A f \in Forms, n \in Nat \ {0}, i \in Nat, j \in Nat : Width(f) >= 0 /\ i < j =>
    /\ PriceAt(f, n, i) <= PriceAt(f, n, j)
    /\ Width(f) >= n => PriceAt(f, n, i) < PriceAt(f, n, j)
<1> SUFFICES ASSUME NEW f \in Forms, NEW n \in Nat \ {0}, NEW i \in Nat, Width(f) >= 0
             PROVE  \A j \in Nat : i < j =>
                      /\ PriceAt(f, n, i) <= PriceAt(f, n, j)
                      /\ Width(f) >= n => PriceAt(f, n, i) < PriceAt(f, n, j)
  OBVIOUS
<1> DEFINE Above(j) == /\ PriceAt(f, n, i) <= PriceAt(f, n, j)
                       /\ Width(f) >= n => PriceAt(f, n, i) < PriceAt(f, n, j)
           Good == {k \in Nat : Above(i + k + 1)}
<1>1. 0 \in Good
  BY PricesRise
<1>2. ASSUME NEW k \in Nat, k \in Good PROVE k + 1 \in Good
  <2> DEFINE a == PriceAt(f, n, i)
             b == PriceAt(f, n, i + k + 1)
             c == PriceAt(f, n, i + k + 1 + 1)
  <2>1. a \in Int /\ b \in Int /\ c \in Int
    <3>1. i \in Int /\ i + k + 1 \in Int /\ i + k + 1 + 1 \in Int
      OBVIOUS
    <3> QED BY <3>1, LevelSum
  <2>2. b <= c /\ (Width(f) >= n => b < c)
    BY PricesRise
  <2>3. a <= b /\ (Width(f) >= n => a < b)
    BY <1>2
  <2>4. i + (k + 1) + 1 = i + k + 1 + 1
    OBVIOUS
  <2> HIDE DEF a, b, c
  <2>5. a <= c /\ (Width(f) >= n => a < c)
    BY <2>1, <2>2, <2>3
  <2> QED BY <2>4, <2>5 DEF a, c
<1>3. Nat \subseteq Good
  <2> HIDE DEF Good
  <2> QED BY <1>1, <1>2, SetInduction
<1>4. ASSUME NEW j \in Nat, i < j PROVE Above(j)
  <2>1. j - i - 1 \in Nat /\ i + (j - i - 1) + 1 = j
    BY <1>4
  <2> QED BY <1>3, <2>1
<1> QED BY <1>4

\* The ends of the range are the prices of the first and the last level.
LEMMA PricesSpan ==
  \A f \in Forms, n \in Nat \ {0} :
    PriceAt(f, n, 0) = f.lower /\ PriceAt(f, n, n) = f.upper
<1> SUFFICES ASSUME NEW f \in Forms, NEW n \in Nat \ {0}
             PROVE  PriceAt(f, n, 0) = f.lower /\ PriceAt(f, n, n) = f.upper
  OBVIOUS
<1>1. f.lower \in Int /\ f.upper \in Int /\ Width(f) \in Int /\ Width(f) = f.upper - f.lower
  BY FormIs DEF Width
<1>2. \A q \in Int : Rounded(n * q, n) = q
  <2>1. ASSUME NEW q \in Int PROVE Rounded(n * q, n) = q
    <3>1. n * q \in Int /\ q * (2 * n) = 2 * (n * q)
      BY IntTimes
    <3>2. q * (2 * n) <= 2 * (n * q) + n /\ 2 * (n * q) + n < q * (2 * n) + 2 * n
      BY <3>1
    <3> QED BY <3>1, <3>2, RoundedOnly
  <2> QED BY <2>1
<1>3. n * f.lower + 0 * Width(f) = n * f.lower
  BY <1>1
<1>4. n * f.lower + n * Width(f) = n * f.upper
  BY <1>1
<1> QED BY <1>1, <1>2, <1>3, <1>4 DEF PriceAt

-----------------------------------------------------------------------------
(* The window *)

\* The levels by their distance to the middle.
Nearness(f, n) == {p \in (0..n) \X (0..n) : Closer(f, n, p[1], p[2])}

LEMMA DistanceType == \A f \in Forms, n \in Nat \ {0}, i \in Nat :
  /\ Distance(f, n, i) \in Nat
  /\ Distance(f, n, i) = IF 2 * PriceAt(f, n, i) >= TwiceMid(f)
                           THEN 2 * PriceAt(f, n, i) - TwiceMid(f)
                           ELSE TwiceMid(f) - 2 * PriceAt(f, n, i)
<1> SUFFICES ASSUME NEW f \in Forms, NEW n \in Nat \ {0}, NEW i \in Nat
             PROVE  /\ Distance(f, n, i) \in Nat
                    /\ Distance(f, n, i) = IF 2 * PriceAt(f, n, i) >= TwiceMid(f)
                                             THEN 2 * PriceAt(f, n, i) - TwiceMid(f)
                                             ELSE TwiceMid(f) - 2 * PriceAt(f, n, i)
  OBVIOUS
<1>1. PriceAt(f, n, i) \in Int /\ TwiceMid(f) \in Int
  BY LevelSum, FormIs
<1> QED BY <1>1 DEF Distance

LEMMA NearnessRanks ==
  \A f \in Forms, n \in Nat \ {0} : Ranked(Nearness(f, n), 0..n)
<1> SUFFICES ASSUME NEW f \in Forms, NEW n \in Nat \ {0} PROVE Ranked(Nearness(f, n), 0..n)
  OBVIOUS
<1>1. \A i \in 0..n : Distance(f, n, i) \in Nat /\ i \in Nat
  BY DistanceType
<1>2. \A i, j \in 0..n : <<i, j>> \in Nearness(f, n) <=> Closer(f, n, i, j)
  BY DEF Nearness
<1>3. IsFiniteSet(0..n)
  BY FS_Interval
<1>4. \A x \in 0..n : ~Closer(f, n, x, x)
  BY <1>1 DEF Closer
<1>5. \A x, y \in 0..n : x # y => Closer(f, n, x, y) \/ Closer(f, n, y, x)
  BY <1>1 DEF Closer
<1>6. \A x, y, z \in 0..n : Closer(f, n, x, y) /\ Closer(f, n, y, z) => Closer(f, n, x, z)
  BY <1>1 DEF Closer
<1> QED BY <1>2, <1>3, <1>4, <1>5, <1>6 DEF Ranked

LEMMA ActivatedIs ==
  \A f \in Forms, n \in Nat \ {0} : \A i \in 0..n :
    Activated(f, n, i) <=> ~f.virtual \/ Rank(Nearness(f, n), 0..n, i) < f.window
<1> SUFFICES ASSUME NEW f \in Forms, NEW n \in Nat \ {0}, NEW i \in 0..n
             PROVE  Activated(f, n, i) <=> ~f.virtual \/ Rank(Nearness(f, n), 0..n, i) < f.window
  OBVIOUS
<1>1. {j \in 0..n : Closer(f, n, j, i)} = {j \in 0..n : <<j, i>> \in Nearness(f, n)}
  BY DEF Nearness
<1> QED BY <1>1 DEF Activated, Rank

\* As many levels as the window are active, or all of them.
LEMMA ActiveAre ==
  \A f \in Forms, n \in Nat \ {0} :
    Cardinality({i \in 0..n : Activated(f, n, i)}) =
      IF f.virtual /\ f.window < n + 1 THEN f.window ELSE n + 1
<1> SUFFICES ASSUME NEW f \in Forms, NEW n \in Nat \ {0}
             PROVE  Cardinality({i \in 0..n : Activated(f, n, i)}) =
                      IF f.virtual /\ f.window < n + 1 THEN f.window ELSE n + 1
  OBVIOUS
<1>1. Cardinality(0..n) = n + 1
  BY FS_Interval
<1>2. f.window \in Nat
  BY FormIs
<1>3. CASE ~f.virtual
  <2>1. {i \in 0..n : Activated(f, n, i)} = 0..n
    BY <1>3, ActivatedIs
  <2> QED BY <1>1, <1>3, <2>1
<1>4. CASE f.virtual
  <2>1. {i \in 0..n : Activated(f, n, i)} =
          {i \in 0..n : Rank(Nearness(f, n), 0..n, i) < f.window}
    BY <1>4, ActivatedIs
  <2> QED BY <1>1, <1>2, <1>4, <2>1, NearnessRanks, RanksBelow
<1> QED BY <1>3, <1>4

\* Of three levels with prices of their own the one in between is not the farthest.
LEMMA BetweenIsCloser ==
  \A f \in Forms, n \in Nat \ {0} : \A i, j, k \in Nat :
    Width(f) >= n /\ i < k /\ k < j => ~(Closer(f, n, i, k) /\ Closer(f, n, j, k))
<1> SUFFICES ASSUME NEW f \in Forms, NEW n \in Nat \ {0}, NEW i \in Nat, NEW j \in Nat, NEW k \in Nat,
                    Width(f) >= n, i < k, k < j
             PROVE  ~(Closer(f, n, i, k) /\ Closer(f, n, j, k))
  OBVIOUS
<1> DEFINE a == PriceAt(f, n, i)
           b == PriceAt(f, n, k)
           c == PriceAt(f, n, j)
           m == TwiceMid(f)
<1>1. a < b /\ b < c
  <2>1. Width(f) >= 0
    BY FormIs
  <2> QED BY <2>1, PricesOrdered
<1>2. a \in Int /\ b \in Int /\ c \in Int /\ m \in Int
  <2>1. i \in Int /\ j \in Int /\ k \in Int
    OBVIOUS
  <2>2. \A x \in Int : PriceAt(f, n, x) \in Int
    BY LevelSum
  <2>3. m \in Int
    BY FormIs
  <2> QED BY <2>1, <2>2, <2>3
<1>3. /\ Distance(f, n, i) = IF 2 * a >= m THEN 2 * a - m ELSE m - 2 * a
      /\ Distance(f, n, k) = IF 2 * b >= m THEN 2 * b - m ELSE m - 2 * b
      /\ Distance(f, n, j) = IF 2 * c >= m THEN 2 * c - m ELSE m - 2 * c
  BY DistanceType
<1> HIDE DEF a, b, c, m
<1>4. Distance(f, n, i) > Distance(f, n, k) \/ Distance(f, n, j) > Distance(f, n, k)
  BY <1>1, <1>2, <1>3
<1>5. Distance(f, n, i) \in Nat /\ Distance(f, n, k) \in Nat /\ Distance(f, n, j) \in Nat
  BY DistanceType
<1> QED BY <1>4, <1>5 DEF Closer

LEMMA ActiveLieTogether ==
  \A f \in Forms, n \in Nat \ {0} : Width(f) >= n =>
    \A i, j \in 0..n : \A k \in i..j :
      Activated(f, n, i) /\ Activated(f, n, j) => Activated(f, n, k)
<1> SUFFICES ASSUME NEW f \in Forms, NEW n \in Nat \ {0}, Width(f) >= n,
                    NEW i \in 0..n, NEW j \in 0..n, NEW k \in i..j,
                    Activated(f, n, i), Activated(f, n, j)
             PROVE  Activated(f, n, k)
  OBVIOUS
<1>a. k = i \/ k = j => Activated(f, n, k)
  OBVIOUS
<1>b. ~f.virtual => Activated(f, n, k)
  BY DEF Activated
<1> SUFFICES ASSUME f.virtual, k # i, k # j PROVE Activated(f, n, k)
  BY <1>a, <1>b
<1> DEFINE R(x) == Rank(Nearness(f, n), 0..n, x)
<1>1. k \in 0..n /\ i \in Nat /\ j \in Nat /\ k \in Nat /\ i < k /\ k < j
  OBVIOUS
<1>2. ~Closer(f, n, i, k) \/ ~Closer(f, n, j, k)
  BY <1>1, BetweenIsCloser
<1>3. R(i) < f.window /\ R(j) < f.window
  BY ActivatedIs
<1>4. R(k) < R(i) \/ R(k) < R(j)
  <2>1. <<k, i>> \in Nearness(f, n) \/ <<k, j>> \in Nearness(f, n)
    <3>1. \A x, y \in 0..n : <<x, y>> \in Nearness(f, n) <=> Closer(f, n, x, y)
      BY DEF Nearness
    <3>2. \A x, y \in 0..n : x # y => <<x, y>> \in Nearness(f, n) \/ <<y, x>> \in Nearness(f, n)
      BY NearnessRanks DEF Ranked
    <3> QED BY <1>1, <1>2, <3>1, <3>2
  <2> QED BY <1>1, <2>1, NearnessRanks, RankGrows
<1>5. R(i) \in Nat /\ R(j) \in Nat /\ R(k) \in Nat /\ f.window \in Nat
  BY <1>1, NearnessRanks, RankType, FormIs
<1>6. R(k) < f.window
  <2> HIDE DEF R
  <2> QED BY <1>3, <1>4, <1>5
<1> QED BY <1>1, <1>6, ActivatedIs

-----------------------------------------------------------------------------
(* The average *)

\* What the ranges up to k make, for every k.
Averages(g, s, period) ==
  g = [k \in 0..Len(s) |->
        IF k = 0 THEN <<0, period>>
        ELSE IF k <= period THEN <<g[k - 1][1] + s[k], period>>
        ELSE <<g[k - 1][1] * (period - 1) + s[k] * g[k - 1][2], g[k - 1][2] * period>>]

Fractions == Nat \X (Nat \ {0})

LEMMA AveragesExist ==
  \A s \in Seq(Nat), period \in Nat \ {0} :
    \E g : g \in [0..Len(s) -> Fractions] /\ Averages(g, s, period)
<1> SUFFICES ASSUME NEW s, s \in Seq(Nat), NEW period \in Nat \ {0}
             PROVE  \E g : g \in [0..Len(s) -> Fractions] /\ Averages(g, s, period)
  OBVIOUS
<1> DEFINE n == Len(s)
           Next1(k, a) == IF k <= period THEN <<a[1] + s[k], period>>
                          ELSE <<a[1] * (period - 1) + s[k] * a[2], a[2] * period>>
           F == [k \in Nat |-> [a \in Fractions |-> IF k \in 1..n THEN Next1(k, a) ELSE a]]
<1>1. n \in Nat /\ \A k \in 1..n : s[k] \in Nat
  OBVIOUS
<1> HIDE DEF n
<1>2. ASSUME NEW k \in 1..n, NEW a \in Fractions PROVE Next1(k, a) \in Fractions
  <2>1. a[1] \in Nat /\ a[2] \in Nat \ {0} /\ s[k] \in Nat /\ period - 1 \in Nat
    BY <1>1 DEF Fractions
  <2>2. a[1] * (period - 1) \in Nat /\ s[k] * a[2] \in Nat
    BY <2>1, NatTimes
  <2>3. a[2] * period \in Nat \ {0}
    BY <2>1
  <2> DEFINE x == a[1] * (period - 1)
             y == s[k] * a[2]
             z == a[2] * period
  <2>a. x \in Nat /\ y \in Nat /\ z \in Nat \ {0}
    BY <2>2, <2>3
  <2> HIDE DEF x, y, z
  <2>4. x + y \in Nat /\ z \in Nat \ {0} /\ a[1] + s[k] \in Nat
    BY <2>1, <2>a
  <2>5. <<x + y, z>> \in Fractions /\ <<a[1] + s[k], period>> \in Fractions
    BY <2>4 DEF Fractions
  <2> QED BY <2>5 DEF x, y, z
<1>3. F \in [Nat -> [Fractions -> Fractions]]
  <2> HIDE DEF Next1
  <2> QED BY <1>2
<1>4. <<0, period>> \in Fractions
  BY DEF Fractions
<1>5. Recurs(Fractions, <<0, period>>, F, n)
  <2> HIDE DEF F
  <2> QED BY <1>1, <1>3, <1>4, RecursUpTo
<1>6. PICK g : /\ g \in [0..n -> Fractions] /\ g[0] = <<0, period>>
               /\ \A k \in 1..n : g[k] = F[k][g[k - 1]]
  <2> HIDE DEF F
  <2> QED BY <1>5 DEF Recurs
<1>7. \A k \in 1..n : g[k] = Next1(k, g[k - 1])
  <2>1. ASSUME NEW k \in 1..n PROVE g[k] = Next1(k, g[k - 1])
    <3>1. k \in Nat /\ g[k - 1] \in Fractions
      BY <1>1, <1>6
    <3> HIDE DEF Next1
    <3>2. F[k][g[k - 1]] = Next1(k, g[k - 1])
      BY <3>1
    <3> QED BY <1>6, <3>2
  <2> QED BY <2>1
<1> HIDE DEF F
<1>8. \A k \in 0..n : k = 0 \/ k \in 1..n
  BY <1>1
<1>9. g = [k \in 0..n |->
            IF k = 0 THEN <<0, period>>
            ELSE IF k <= period THEN <<g[k - 1][1] + s[k], period>>
            ELSE <<g[k - 1][1] * (period - 1) + s[k] * g[k - 1][2], g[k - 1][2] * period>>]
  BY <1>6, <1>7, <1>8
<1> QED BY <1>6, <1>9 DEF Averages, n

LEMMA WilderIs ==
  \A s \in Seq(Nat), period \in Nat \ {0} :
    \E g : g \in [0..Len(s) -> Fractions] /\ Averages(g, s, period) /\ Wilder(s, period) = g[Len(s)]
<1> SUFFICES ASSUME NEW s, s \in Seq(Nat), NEW period \in Nat \ {0}
             PROVE  \E g : /\ g \in [0..Len(s) -> Fractions] /\ Averages(g, s, period)
                           /\ Wilder(s, period) = g[Len(s)]
  OBVIOUS
<1> DEFINE h == CHOOSE g : Averages(g, s, period)
<1>1. PICK g : g \in [0..Len(s) -> Fractions] /\ Averages(g, s, period)
  BY AveragesExist
<1>2. Averages(h, s, period)
  BY <1>1
<1>3. Wilder(s, period) = h[Len(s)]
  BY DEF Wilder, Averages
<1> HIDE DEF h
<1> DEFINE n == Len(s)
           Same == {k \in Nat : k \in 0..n => h[k] = g[k]}
<1>4. n \in Nat
  OBVIOUS
<1>5. 0 \in Same
  <2>1. 0 \in 0..n
    BY <1>4
  <2>2. h[0] = <<0, period>> /\ g[0] = <<0, period>>
    BY <1>1, <1>2, <2>1 DEF Averages
  <2> QED BY <2>2
<1>6. ASSUME NEW k \in Nat, k \in Same PROVE k + 1 \in Same
  <2>1. ASSUME k + 1 \in 0..n PROVE h[k + 1] = g[k + 1]
    <3>1. k \in 0..n /\ k + 1 # 0 /\ k + 1 - 1 = k
      BY <1>4, <2>1
    <3>2. h[k] = g[k]
      BY <1>6, <3>1
    <3>3. \A m \in 0..n : m # 0 /\ h[m - 1] = g[m - 1] => h[m] = g[m]
      BY <1>1, <1>2 DEF Averages
    <3> QED BY <2>1, <3>1, <3>2, <3>3
  <2> QED BY <2>1
<1>7. Nat \subseteq Same
  <2> HIDE DEF Same
  <2> QED BY <1>5, <1>6, SetInduction
<1>8. h[n] = g[n]
  BY <1>4, <1>7
<1> QED BY <1>1, <1>3, <1>8

\* The smallest and the largest of the ranges.
LEMMA RangeEnds ==
  \A n \in Nat \ {0} : \A s : (\A k \in 1..n : s[k] \in Int) =>
    \E a, b \in 1..n : \A k \in 1..n : s[a] <= s[k] /\ s[k] <= s[b]
<1> SUFFICES ASSUME NEW n \in Nat \ {0}, NEW s, \A k \in 1..n : s[k] \in Int
             PROVE  \E a, b \in 1..n : \A k \in 1..n : s[a] <= s[k] /\ s[k] <= s[b]
  OBVIOUS
<1> DEFINE Good == {m \in Nat : m \in 1..n =>
                     \E a, b \in 1..m : \A k \in 1..m : s[a] <= s[k] /\ s[k] <= s[b]}
<1>1. n \in Nat /\ n > 0 /\ \A k \in 1..n : s[k] \in Int
  OBVIOUS
<1>2. 0 \in Good
  BY <1>1
<1>3. ASSUME NEW m \in Nat, m \in Good PROVE m + 1 \in Good
  <2> SUFFICES ASSUME m + 1 \in 1..n
               PROVE  \E a, b \in 1..m + 1 : \A k \in 1..m + 1 : s[a] <= s[k] /\ s[k] <= s[b]
    OBVIOUS
  <2>1. CASE m = 0
    <3>1. \A k \in 1..m + 1 : k = 1
      BY <2>1
    <3>2. 1 \in 1..m + 1 /\ s[1] \in Int
      BY <1>1, <2>1
    <3>3. \A k \in 1..m + 1 : s[1] <= s[k] /\ s[k] <= s[1]
      BY <3>1, <3>2
    <3> QED BY <3>2, <3>3
  <2>2. CASE m # 0
    <3>1. m \in 1..n
      BY <1>1, <2>2
    <3>2. PICK a \in 1..m, b \in 1..m : \A k \in 1..m : s[a] <= s[k] /\ s[k] <= s[b]
      BY <1>3, <3>1
    <3> DEFINE c == IF s[m + 1] < s[a] THEN m + 1 ELSE a
               d == IF s[m + 1] > s[b] THEN m + 1 ELSE b
    <3>3. \A k \in 1..m + 1 : s[k] \in Int /\ (k = m + 1 \/ k \in 1..m)
      BY <1>1, <3>1
    <3>4. a \in 1..m + 1 /\ b \in 1..m + 1 /\ m + 1 \in 1..m + 1
      OBVIOUS
    <3>5. c \in 1..m + 1 /\ d \in 1..m + 1
      BY <3>4
    <3>6. /\ s[c] <= s[a] /\ s[c] <= s[m + 1] /\ s[b] <= s[d] /\ s[m + 1] <= s[d]
      BY <3>3, <3>4
    <3> HIDE DEF c, d
    <3>7. \A k \in 1..m + 1 : s[c] <= s[k] /\ s[k] <= s[d]
      <4> SUFFICES ASSUME NEW k \in 1..m + 1 PROVE s[c] <= s[k] /\ s[k] <= s[d]
        OBVIOUS
      <4>1. CASE k = m + 1
        BY <3>6, <4>1
      <4>2. CASE k \in 1..m
        <5>1. s[a] <= s[k] /\ s[k] <= s[b]
          BY <3>2, <4>2
        <5>2. /\ s[a] \in Int /\ s[b] \in Int /\ s[c] \in Int /\ s[d] \in Int /\ s[k] \in Int
          BY <3>3, <3>4, <3>5
        <5>3. \A p, q, r \in Int : p <= q /\ q <= r => p <= r
          OBVIOUS
        <5>4. s[c] <= s[k]
          BY <3>6, <5>1, <5>2, <5>3
        <5>5. s[k] <= s[d]
          BY <3>6, <5>1, <5>2, <5>3
        <5> QED BY <5>4, <5>5
      <4> QED BY <3>3, <4>1, <4>2
    <3> QED BY <3>5, <3>7
  <2> QED BY <2>1, <2>2
<1>4. Nat \subseteq Good
  <2> HIDE DEF Good
  <2> QED BY <1>2, <1>3, SetInduction
<1>5. n \in 1..n
  BY <1>1
<1> QED BY <1>1, <1>4, <1>5

\* What lies between two bounds times the divisor does so after one more range.
LEMMA StepBetween ==
  \A lo, hi, x, a \in Nat, d \in Nat \ {0}, period \in Nat \ {0} :
    lo <= x /\ x <= hi /\ lo * d <= a /\ a <= hi * d =>
      /\ lo * (d * period) <= a * (period - 1) + x * d
      /\ a * (period - 1) + x * d <= hi * (d * period)
<1> SUFFICES ASSUME NEW lo \in Nat, NEW hi \in Nat, NEW x \in Nat, NEW a \in Nat,
                    NEW d \in Nat \ {0}, NEW period \in Nat \ {0},
                    lo <= x, x <= hi, lo * d <= a, a <= hi * d
             PROVE  /\ lo * (d * period) <= a * (period - 1) + x * d
                    /\ a * (period - 1) + x * d <= hi * (d * period)
  OBVIOUS
<1> DEFINE q == period - 1
<1>1. q \in Nat /\ period = q + 1 /\ d \in Nat
  OBVIOUS
<1>2. lo * d \in Nat /\ hi * d \in Nat /\ x * d \in Nat
  BY <1>1, NatTimes
<1>3. lo * d <= x * d /\ x * d <= hi * d
  BY <1>1, TimesGrows
<1> HIDE DEF q
<1>4. (lo * d) * q <= a * q /\ a * q <= (hi * d) * q
  BY <1>1, <1>2, TimesGrows
<1>5. \A z \in Nat : z * (d * (q + 1)) = (z * d) * q + z * d
  <2>1. ASSUME NEW z \in Nat PROVE z * (d * (q + 1)) = (z * d) * q + z * d
    BY <1>1
  <2> QED BY <2>1
<1>6. a * q \in Nat /\ (lo * d) * q \in Nat /\ (hi * d) * q \in Nat
  BY <1>1, <1>2, NatTimes
<1>7. /\ (lo * d) * q + lo * d <= a * q + x * d
      /\ a * q + x * d <= (hi * d) * q + hi * d
  BY <1>2, <1>3, <1>4, <1>6
<1>8. /\ lo * (d * (q + 1)) <= a * q + x * d
      /\ a * q + x * d <= hi * (d * (q + 1))
  BY <1>5, <1>7
<1> QED BY <1>1, <1>8 DEF q

\* Wilder's average is a fraction, and lies between the ends of the ranges when
\* there are as many as its period.
LEMMA AverageLies ==
  \A s \in Seq(Nat), period \in Nat \ {0} : period <= Len(s) =>
    /\ Wilder(s, period) \in Fractions
    /\ \E a, b \in 1..Len(s) : /\ s[a] * Wilder(s, period)[2] <= Wilder(s, period)[1]
                               /\ s[b] * Wilder(s, period)[2] >= Wilder(s, period)[1]
<1> SUFFICES ASSUME NEW s, s \in Seq(Nat), NEW period \in Nat \ {0}, period <= Len(s)
             PROVE  /\ Wilder(s, period) \in Fractions
                    /\ \E a, b \in 1..Len(s) :
                         /\ s[a] * Wilder(s, period)[2] <= Wilder(s, period)[1]
                         /\ s[b] * Wilder(s, period)[2] >= Wilder(s, period)[1]
  OBVIOUS
<1>1. PICK g : /\ g \in [0..Len(s) -> Fractions] /\ Averages(g, s, period)
               /\ Wilder(s, period) = g[Len(s)]
  BY WilderIs
<1>2. PICK i \in 1..Len(s), j \in 1..Len(s) : \A k \in 1..Len(s) : s[i] <= s[k] /\ s[k] <= s[j]
  <2>1. Len(s) \in Nat \ {0} /\ \A k \in 1..Len(s) : s[k] \in Int
    OBVIOUS
  <2>2. \E i, j \in 1..Len(s) : \A k \in 1..Len(s) : s[i] <= s[k] /\ s[k] <= s[j]
    BY <2>1, RangeEnds
  <2> QED BY <2>2
<1> DEFINE n == Len(s)
           lo == s[i]
           hi == s[j]
           Good == {k \in Nat : k \in 0..n =>
                     /\ k <= period => /\ lo * k <= g[k][1] /\ g[k][1] <= hi * k /\ g[k][2] = period
                     /\ k >= period => /\ lo * g[k][2] <= g[k][1] /\ g[k][1] <= hi * g[k][2]}
<1>3. n \in Nat /\ (\A k \in 1..n : s[k] \in Nat /\ lo <= s[k] /\ s[k] <= hi) /\ lo \in Nat /\ hi \in Nat
  BY <1>2
<1>4. /\ \A k \in 0..n : k = 0 => g[k] = <<0, period>>
      /\ \A k \in 0..n : k # 0 /\ k <= period => g[k] = <<g[k - 1][1] + s[k], period>>
      /\ \A k \in 0..n : k # 0 /\ ~(k <= period) =>
           g[k] = <<g[k - 1][1] * (period - 1) + s[k] * g[k - 1][2], g[k - 1][2] * period>>
  <2> DEFINE x(k) == g[k - 1][1] + s[k]
             y(k) == g[k - 1][1] * (period - 1) + s[k] * g[k - 1][2]
             z(k) == g[k - 1][2] * period
  <2>1. g = [k \in 0..n |-> IF k = 0 THEN <<0, period>>
                             ELSE IF k <= period THEN <<x(k), period>> ELSE <<y(k), z(k)>>]
    BY <1>1 DEF Averages
  <2> HIDE DEF x, y, z, n
  <2>2. \A k \in 0..n : g[k] = IF k = 0 THEN <<0, period>>
                             ELSE IF k <= period THEN <<x(k), period>> ELSE <<y(k), z(k)>>
    BY <2>1
  <2>3. /\ \A k \in 0..n : k = 0 => g[k] = <<0, period>>
        /\ \A k \in 0..n : k # 0 /\ k <= period => g[k] = <<x(k), period>>
        /\ \A k \in 0..n : k # 0 /\ ~(k <= period) => g[k] = <<y(k), z(k)>>
    BY <2>2, Zenon
  <2> QED BY <2>3 DEF x, y, z
<1>5. \A k \in 0..n : g[k] \in Fractions /\ g[k][1] \in Nat /\ g[k][2] \in Nat \ {0}
  BY <1>1 DEF Fractions
<1>5a. Wilder(s, period) = g[n]
  BY <1>1
<1> HIDE DEF n, lo, hi
<1>6. 0 \in Good
  <2>1. 0 \in 0..n /\ g[0] = <<0, period>>
    BY <1>3, <1>4
  <2>2. g[0][1] = 0 /\ g[0][2] = period
    BY <2>1
  <2>3. lo * 0 = 0 /\ hi * 0 = 0
    BY <1>3
  <2> QED BY <2>2, <2>3
<1>7. ASSUME NEW m \in Nat, m \in Good PROVE m + 1 \in Good
  <2> SUFFICES ASSUME m + 1 \in 0..n
               PROVE  /\ m + 1 <= period => /\ lo * (m + 1) <= g[m + 1][1] /\ g[m + 1][1] <= hi * (m + 1)
                                            /\ g[m + 1][2] = period
                      /\ m + 1 >= period => /\ lo * g[m + 1][2] <= g[m + 1][1]
                                            /\ g[m + 1][1] <= hi * g[m + 1][2]
    OBVIOUS
  <2> DEFINE k == m + 1
             x == s[k]
             a == g[m][1]
             d == g[m][2]
  <2>1. k \in 1..n /\ m \in 0..n /\ k \in 0..n /\ k # 0 /\ k - 1 = m
    BY <1>3
  <2>2. x \in Nat /\ lo <= x /\ x <= hi /\ a \in Nat /\ d \in Nat \ {0}
    BY <1>3, <1>5, <2>1
  <2>3. \A kk \in 0..n : kk # 0 /\ kk <= period => g[kk][1] = g[kk - 1][1] + s[kk] /\ g[kk][2] = period
    BY <1>4
  <2>4. \A kk \in 0..n : kk # 0 /\ ~(kk <= period) =>
          /\ g[kk][1] = g[kk - 1][1] * (period - 1) + s[kk] * g[kk - 1][2]
          /\ g[kk][2] = g[kk - 1][2] * period
    BY <1>4
  <2>5. CASE k <= period
    <3>1. g[k][1] = a + x /\ g[k][2] = period
      BY <2>1, <2>3, <2>5
    <3>2. lo * m <= a /\ a <= hi * m
      BY <1>7, <2>1, <2>5
    <3> HIDE DEF a, d, x
    <3>3. \A z \in Nat : z * (m + 1) = z * m + z /\ z * m \in Nat
      <4>1. ASSUME NEW z \in Nat PROVE z * (m + 1) = z * m + z /\ z * m \in Nat
        OBVIOUS
      <4> QED BY <4>1
    <3>4. lo * (m + 1) = lo * m + lo /\ hi * (m + 1) = hi * m + hi
          /\ lo * m \in Nat /\ hi * m \in Nat
      BY <1>3, <3>3
    <3>5. lo * (m + 1) <= a + x /\ a + x <= hi * (m + 1)
      BY <1>3, <2>2, <3>2, <3>4
    <3>6. k >= period => k = period
      BY <2>5
    <3> QED BY <3>1, <3>5, <3>6
  <2>6. CASE ~(k <= period)
    <3>1. g[k][1] = a * (period - 1) + x * d /\ g[k][2] = d * period
      BY <2>1, <2>4, <2>6
    <3>2. lo * d <= a /\ a <= hi * d
      BY <1>7, <2>1, <2>6
    <3> HIDE DEF a, d, x
    <3>3. /\ lo * (d * period) <= a * (period - 1) + x * d
          /\ a * (period - 1) + x * d <= hi * (d * period)
      BY <1>3, <2>2, <3>2, StepBetween
    <3> QED BY <2>6, <3>1, <3>3
  <2> QED BY <2>5, <2>6
<1>8. Nat \subseteq Good
  <2> HIDE DEF Good
  <2> QED BY <1>6, <1>7, SetInduction
<1>9. n \in 0..n /\ n >= period
  BY <1>3 DEF n
<1>10. lo * g[n][2] <= g[n][1] /\ g[n][1] <= hi * g[n][2]
  BY <1>3, <1>8, <1>9
<1>11. s[i] * Wilder(s, period)[2] <= Wilder(s, period)[1]
       /\ s[j] * Wilder(s, period)[2] >= Wilder(s, period)[1]
  <2>1. hi * g[n][2] \in Nat /\ g[n][1] \in Nat
    <3>1. g[n][2] \in Nat
      BY <1>5, <1>9
    <3> QED BY <1>3, <1>5, <1>9, <3>1, NatTimes
  <2> QED BY <1>5a, <1>10, <2>1 DEF lo, hi
<1>12. Wilder(s, period) \in Fractions
  BY <1>5, <1>5a, <1>9
<1> QED BY <1>11, <1>12

-----------------------------------------------------------------------------
(* The number of grids and the quantity *)

LEMMA CeilingIs ==
  \A n \in Int, d \in Nat \ {0} :
    Ceiling(n, d) \in Int /\ n <= Ceiling(n, d) * d /\ (Ceiling(n, d) - 1) * d < n
<1> SUFFICES ASSUME NEW n \in Int, NEW d \in Nat \ {0}
             PROVE  /\ Ceiling(n, d) \in Int /\ n <= Ceiling(n, d) * d
                    /\ (Ceiling(n, d) - 1) * d < n
  OBVIOUS
<1>1. n + d - 1 \in Int
  OBVIOUS
<1> DEFINE q == Ceiling(n, d)
<1>2. q \in Int /\ n + d - 1 < q * d + d /\ q * d <= n + d - 1
  BY <1>1, Quotient DEF Ceiling
<1> HIDE DEF q
<1>3. q * d \in Int
  BY <1>2
<1>4. n <= q * d
  BY <1>2, <1>3
<1>5. (q - 1) * d = q * d - d
  BY <1>2
<1>6. (q - 1) * d < n
  BY <1>2, <1>3, <1>5
<1> QED BY <1>2, <1>4, <1>6 DEF q

\* No spacing is below the fees.
LEMMA SpacingIs ==
  \A f \in Forms, s \in TrueRanges :
    Spacing(f, s) \in Nat \ {0} /\ Spacing(f, s) >= FeeFloor(f)
<1> SUFFICES ASSUME NEW f \in Forms, NEW s \in TrueRanges
             PROVE  Spacing(f, s) \in Nat \ {0} /\ Spacing(f, s) >= FeeFloor(f)
  OBVIOUS
<1>1. s \in Seq(Nat) /\ f.period \in Nat \ {0} /\ f.period <= Len(s)
  BY GridPlanAssumption, FormIs
<1>2. Wanted(f, s) \in Int
  <2>1. Wilder(s, f.period) \in Fractions
    BY <1>1, AverageLies
  <2>2. PICK a \in Nat, d \in Nat \ {0} : Wilder(s, f.period)[1] = a /\ Wilder(s, f.period)[2] = d
    BY <2>1 DEF Fractions
  <2>3. 12000 * a \in Int /\ (12000 * a) \div d \in Int
    BY <2>2, Quotient
  <2> QED BY <2>2, <2>3 DEF Wanted
<1>3. Permille(f, f.least) \in Nat \ {0} /\ Permille(f, f.most) \in Nat /\ FeeFloor(f) \in Nat
  <2>1. 10 * TwiceMid(f) \in Nat \ {0} /\ f.least \in Nat \ {0} /\ f.most \in Nat
    BY FormIs
  <2>2. \A a, b \in Nat \ {0} : a * b \in Nat \ {0}
    OBVIOUS
  <2>3. 10 * TwiceMid(f) * f.least \in Nat \ {0}
    BY <2>1, <2>2
  <2>4. 10 * TwiceMid(f) * f.most \in Nat
    BY <2>1, NatTimes
  <2> QED BY <2>3, <2>4, FormIs DEF Permille
<1> DEFINE low == Higher(Permille(f, f.least), FeeFloor(f))
           cap == Higher(Permille(f, f.most), low)
<1>4. low \in Nat \ {0} /\ low >= FeeFloor(f)
  BY <1>3 DEF Higher
<1> HIDE DEF low
<1>5. cap \in Nat /\ cap >= low
  BY <1>3, <1>4 DEF Higher
<1> HIDE DEF cap
<1>6. Spacing(f, s) = IF Wanted(f, s) < low THEN low
                      ELSE IF Wanted(f, s) > cap THEN cap ELSE Wanted(f, s)
  BY DEF Spacing, low, cap
<1> QED BY <1>2, <1>3, <1>4, <1>5, <1>6

\* Half a grid fewer than are derived would clear the fees, unless there are two.
LEMMA DerivedIs ==
  \A f \in Forms, s \in TrueRanges :
    /\ Derived(f, s) \in Nat /\ Derived(f, s) >= 2
    /\ Derived(f, s) = 2 \/ 40000 * Width(f) >= (2 * Derived(f, s) - 1) * FeeFloor(f)
<1> SUFFICES ASSUME NEW f \in Forms, NEW s \in TrueRanges
             PROVE  /\ Derived(f, s) \in Nat /\ Derived(f, s) >= 2
                    /\ Derived(f, s) = 2 \/ 40000 * Width(f) >= (2 * Derived(f, s) - 1) * FeeFloor(f)
  OBVIOUS
<1> DEFINE w == 20000 * Width(f)
           d == Spacing(f, s)
           g == Rounded(w, d)
           fee == FeeFloor(f)
<1>1. w \in Int /\ d \in Nat \ {0} /\ d >= fee /\ fee \in Nat
  BY FormIs, SpacingIs
<1>1a. 40000 * Width(f) = 2 * w
  BY FormIs
<1>1b. Derived(f, s) = Higher(2, g)
  BY DEF Derived
<1> HIDE DEF w, d, fee
<1>2. g \in Int /\ g * (2 * d) <= 2 * w + d
  BY <1>1, RoundedIs
<1> HIDE DEF g
<1>3. g * (2 * d) = (2 * g - 1) * d + d
  BY <1>1, <1>2
<1>4. (2 * g - 1) * d \in Int
  <2>1. 2 * g - 1 \in Int /\ d \in Int
    BY <1>1, <1>2
  <2> QED BY <2>1, IntTimes
<1>5. (2 * g - 1) * d <= 2 * w
  BY <1>1, <1>2, <1>3, <1>4
<1>6. g >= 2 => (2 * g - 1) * fee <= 2 * w
  <2> SUFFICES ASSUME g >= 2 PROVE (2 * g - 1) * fee <= 2 * w
    OBVIOUS
  <2> DEFINE m == 2 * g - 1
  <2>1. m \in Nat
    BY <1>2
  <2> HIDE DEF m
  <2>2. fee * m <= d * m
    BY <1>1, <2>1, TimesGrows
  <2>3. fee * m = m * fee /\ d * m = m * d
    BY <1>1, <2>1
  <2>4. m * fee \in Int /\ m * d \in Int
    BY <1>1, <2>1
  <2>5. m * d <= 2 * w
    BY <1>5 DEF m
  <2>6. m * fee <= 2 * w
    BY <1>1, <2>2, <2>3, <2>4, <2>5
  <2> QED BY <2>6 DEF m
<1>7. Derived(f, s) = IF 2 >= g THEN 2 ELSE g
  BY <1>1b DEF Higher
<1>8. CASE 2 >= g
  BY <1>7, <1>8
<1>9. CASE ~(2 >= g)
  <2>1. Derived(f, s) = g /\ g \in Nat /\ g >= 2
    BY <1>2, <1>7, <1>9
  <2>2. 2 * w >= (2 * g - 1) * fee
    <3>1. (2 * g - 1) * fee \in Int /\ 2 * w \in Int
      <4>1. 2 * g - 1 \in Int /\ fee \in Int
        BY <1>1, <1>2
      <4> QED BY <1>1, <4>1, IntTimes
    <3> QED BY <1>6, <2>1, <3>1
  <2> QED BY <1>1a, <2>1, <2>2 DEF fee
<1> QED BY <1>8, <1>9

LEMMA GridsType == \A f \in Forms, s \in TrueRanges : Grids(f, s) \in Int
  BY FormIs, DerivedIs DEF Grids

LEMMA BaseQtyIs ==
  \A f \in Forms, n \in Nat \ {0} : \E b \in Nat : BaseQty(f, n) = 10 * b
<1> SUFFICES ASSUME NEW f \in Forms, NEW n \in Nat \ {0}
             PROVE  \E b \in Nat : BaseQty(f, n) = 10 * b
  OBVIOUS
<1>1. TwiceMid(f) \in Nat \ {0} /\ 15000 * f.capital \in Int
  BY FormIs
<1>2. n * TwiceMid(f) \in Nat \ {0}
  BY <1>1
<1>3. Ceiling(15000 * f.capital, n * TwiceMid(f)) \in Int
  <2> DEFINE x == 15000 * f.capital
             y == n * TwiceMid(f)
  <2>1. x \in Int /\ y \in Nat \ {0}
    BY <1>1, <1>2
  <2> HIDE DEF x, y
  <2>2. Ceiling(x, y) \in Int
    BY <2>1, CeilingIs
  <2> QED BY <2>2 DEF x, y
<1>4. Higher(Ceiling(15000 * f.capital, n * TwiceMid(f)), 3) \in Nat
  BY <1>3 DEF Higher
<1>5. PICK h \in Nat : h = Higher(Ceiling(15000 * f.capital, n * TwiceMid(f)), 3)
  BY <1>4
<1>6. BaseQty(f, n) = 10 * h
  BY <1>5 DEF BaseQty
<1> QED BY <1>6

\* A quantity is raised by steps, as far as the least order asks and not farther.
LEMMA RaisedIs ==
  \A f \in Forms, q \in Nat, p \in Nat \ {0}, d \in Nat \ {0} : \E c \in Nat :
    /\ Raised(f, q, p, d) = q + f.minSize * c
    /\ (q + f.minSize * c) * p >= d * f.minNotional
    /\ c = 0 \/ (q + f.minSize * (c - 1)) * p < d * f.minNotional
<1> SUFFICES ASSUME NEW f \in Forms, NEW q \in Nat, NEW p \in Nat \ {0}, NEW d \in Nat \ {0}
             PROVE  \E c \in Nat :
                      /\ Raised(f, q, p, d) = q + f.minSize * c
                      /\ (q + f.minSize * c) * p >= d * f.minNotional
                      /\ c = 0 \/ (q + f.minSize * (c - 1)) * p < d * f.minNotional
  OBVIOUS
<1> DEFINE m == d * f.minNotional
           z == f.minSize
           c == Ceiling(m - q * p, z * p)
<1>1. z \in Nat \ {0} /\ m \in Int /\ q * p \in Int
  BY FormIs, IntTimes
<1>2. z * p \in Nat \ {0} /\ m - q * p \in Int
  BY <1>1
<1>3. Raised(f, q, p, d) = IF q * p >= m THEN q ELSE q + z * c
  BY DEF Raised
<1>4. c \in Int /\ m - q * p <= c * (z * p) /\ (c - 1) * (z * p) < m - q * p
  BY <1>2, CeilingIs
<1> HIDE DEF m, z, c
<1>5. CASE q * p >= m
  <2>1. q + z * 0 = q
    BY <1>1
  <2> QED BY <1>3, <1>5, <2>1 DEF m, z
<1>6. CASE ~(q * p >= m)
  <2>1. c * (z * p) \in Int /\ (c - 1) * (z * p) \in Int
    BY <1>2, <1>4, IntTimes
  <2>2. c > 0
    <3>1. c <= 0 => c * (z * p) <= 0 * (z * p)
      BY <1>2, <1>4, TimesGrows
    <3> QED BY <1>1, <1>2, <1>4, <1>6, <2>1, <3>1
  <2>3. /\ (q + z * c) * p = q * p + c * (z * p)
        /\ (q + z * (c - 1)) * p = q * p + (c - 1) * (z * p)
    BY <1>1, <1>4
  <2>4. (q + z * c) * p >= m /\ (q + z * (c - 1)) * p < m
    BY <1>1, <1>4, <2>1, <2>3
  <2>5. c \in Nat
    BY <1>4, <2>2
  <2> QED BY <1>3, <1>6, <2>4, <2>5 DEF m, z
<1> QED BY <1>5, <1>6

\* The higher the price that is asked at, the less a quantity is raised.
LEMMA RaisedFalls ==
  \A f \in Forms, q \in Nat, p, d, r, e \in Nat \ {0} :
    p * e <= r * d => Raised(f, q, r, e) <= Raised(f, q, p, d)
<1> SUFFICES ASSUME NEW f \in Forms, NEW q \in Nat, NEW p \in Nat \ {0}, NEW d \in Nat \ {0},
                    NEW r \in Nat \ {0}, NEW e \in Nat \ {0}, p * e <= r * d
             PROVE  Raised(f, q, r, e) <= Raised(f, q, p, d)
  OBVIOUS
<1> DEFINE m == f.minNotional
           z == f.minSize
<1>1. m \in Nat /\ z \in Nat \ {0}
  BY FormIs
<1>2. PICK c \in Nat : Raised(f, q, p, d) = q + z * c /\ (q + z * c) * p >= d * m
  BY RaisedIs
<1>3. PICK k \in Nat : /\ Raised(f, q, r, e) = q + z * k
                       /\ k = 0 \/ (q + z * (k - 1)) * r < e * m
  BY RaisedIs
<1> DEFINE a == q + z * c
           u == q + z * (k - 1)
<1> HIDE DEF m, z
<1>4. k <= c
  <2> SUFFICES ASSUME k > c PROVE FALSE
    OBVIOUS
  <2>1. c <= k - 1 /\ k - 1 \in Nat /\ k # 0
    OBVIOUS
  <2>2. c * z <= (k - 1) * z
    BY <1>1, <2>1, TimesGrows
  <2>3. z * c = c * z /\ z * (k - 1) = (k - 1) * z /\ c * z \in Nat /\ (k - 1) * z \in Nat
    BY <1>1, <2>1, NatTimes
  <2>4. a \in Nat /\ u \in Nat /\ a <= u
    BY <2>2, <2>3
  <2>5. a * p >= d * m /\ u * r < e * m
    BY <1>2, <1>3, <2>1
  <2> HIDE DEF a, u
  <2>6. a * r <= u * r /\ a * r \in Int /\ u * r \in Int /\ e * m \in Int /\ a * p \in Int
        /\ d * m \in Int
    BY <1>1, <2>4, TimesGrows, IntTimes
  <2>7. a * r + 1 <= e * m
    BY <2>5, <2>6
  <2>8. (a * r + 1) * d <= (e * m) * d
    BY <2>6, <2>7, TimesGrows
  <2>9. (d * m) * e <= (a * p) * e
    BY <2>5, <2>6, TimesGrows
  <2>10. (p * e) * a <= (r * d) * a
    <3>1. p * e \in Int /\ r * d \in Int
      OBVIOUS
    <3> QED BY <2>4, <3>1, TimesGrows
  <2>11. (a * r + 1) * d = (r * d) * a + d /\ (a * p) * e = (p * e) * a /\ (e * m) * d = (d * m) * e
    BY <1>1, <2>4
  <2>12. (r * d) * a \in Int /\ (p * e) * a \in Int /\ (d * m) * e \in Int
    BY <1>1, <2>4
  <2> QED BY <2>8, <2>9, <2>10, <2>11, <2>12
<1>5. k * z <= c * z /\ z * k = k * z /\ z * c = c * z /\ k * z \in Nat /\ c * z \in Nat
  BY <1>1, <1>4, TimesGrows, NatTimes
<1>6. q + z * k <= q + z * c
  BY <1>5
<1> QED BY <1>2, <1>3, <1>6

\* What the rounding to 0.01 leaves, and that it keeps the order.
LEMMA Rounds ==
  \A x \in Int :
    /\ Rounded(x, 10) \in Int /\ 10 * Rounded(x, 10) + 4 >= x
    /\ \A y \in Int : x <= y => Rounded(x, 10) <= Rounded(y, 10)
<1> SUFFICES ASSUME NEW x \in Int, NEW y \in Int
             PROVE  /\ Rounded(x, 10) \in Int /\ 10 * Rounded(x, 10) + 4 >= x
                    /\ x <= y => Rounded(x, 10) <= Rounded(y, 10)
  OBVIOUS
<1>1. /\ Rounded(x, 10) \in Int /\ Rounded(y, 10) \in Int
      /\ Rounded(x, 10) * (2 * 10) <= 2 * x + 10 /\ 2 * x + 10 < Rounded(x, 10) * (2 * 10) + 2 * 10
      /\ 2 * y + 10 < Rounded(y, 10) * (2 * 10) + 2 * 10
  BY RoundedIs
<1> QED BY <1>1

LEMMA RoundedTens == \A r \in Int : Rounded(10 * r, 10) = r
<1> SUFFICES ASSUME NEW r \in Int PROVE Rounded(10 * r, 10) = r
  OBVIOUS
<1>1. /\ 10 * r \in Int /\ r * (2 * 10) <= 2 * (10 * r) + 10
      /\ 2 * (10 * r) + 10 < r * (2 * 10) + 2 * 10
  OBVIOUS
<1> QED BY <1>1, RoundedOnly

\* The quantity of a bot before it is rounded.
Unrounded(f, n) == Raised(f, BaseQty(f, n), f.lower, 1)

LEMMA UnroundedIs ==
  \A f \in Forms, n \in Nat \ {0} :
    /\ Unrounded(f, n) \in Nat /\ Unrounded(f, n) * f.lower >= f.minNotional
    /\ \E b, c \in Nat : Unrounded(f, n) = 10 * b + f.minSize * c
<1> SUFFICES ASSUME NEW f \in Forms, NEW n \in Nat \ {0}
             PROVE  /\ Unrounded(f, n) \in Nat /\ Unrounded(f, n) * f.lower >= f.minNotional
                    /\ \E b, c \in Nat : Unrounded(f, n) = 10 * b + f.minSize * c
  OBVIOUS
<1>1. PICK b \in Nat : BaseQty(f, n) = 10 * b
  BY BaseQtyIs
<1>2. f.lower \in Nat \ {0} /\ f.minSize \in Nat /\ 10 * b \in Nat /\ f.minNotional \in Nat
  BY FormIs
<1>3. PICK c \in Nat : /\ Unrounded(f, n) = 10 * b + f.minSize * c
                       /\ (10 * b + f.minSize * c) * f.lower >= 1 * f.minNotional
  <2> DEFINE q == 10 * b
  <2>1. q \in Nat /\ 1 \in Nat \ {0} /\ Unrounded(f, n) = Raised(f, q, f.lower, 1)
    BY <1>1, <1>2 DEF Unrounded
  <2> HIDE DEF q
  <2>2. \E c \in Nat : /\ Raised(f, q, f.lower, 1) = q + f.minSize * c
                       /\ (q + f.minSize * c) * f.lower >= 1 * f.minNotional
    BY <1>2, <2>1, RaisedIs
  <2>3. \E c \in Nat : /\ Unrounded(f, n) = q + f.minSize * c
                       /\ (q + f.minSize * c) * f.lower >= 1 * f.minNotional
    BY <2>1, <2>2
  <2> QED BY <2>3 DEF q
<1>4. f.minSize * c \in Nat
  BY <1>2, NatTimes
<1> QED BY <1>2, <1>3, <1>4

\* The quantity of a bot is worth an order, but for what the rounding takes away.
LEMMA QtyIsWorth ==
  \A f \in Forms, n \in Nat \ {0} :
    (Qty(f, n) + (IF f.minSize % 10 = 0 THEN 0 ELSE 4)) * f.lower >= f.minNotional
<1> SUFFICES ASSUME NEW f \in Forms, NEW n \in Nat \ {0}
             PROVE  (Qty(f, n) + (IF f.minSize % 10 = 0 THEN 0 ELSE 4)) * f.lower >= f.minNotional
  OBVIOUS
<1>1. PICK b \in Nat, c \in Nat : Unrounded(f, n) = 10 * b + f.minSize * c
  BY UnroundedIs
<1>2. /\ Unrounded(f, n) \in Nat /\ Unrounded(f, n) * f.lower >= f.minNotional
      /\ f.lower \in Nat \ {0} /\ f.minSize \in Nat /\ f.minNotional \in Nat
  BY UnroundedIs, FormIs
<1>3. Qty(f, n) = 10 * Rounded(Unrounded(f, n), 10)
  BY DEF Qty, Unrounded
<1>4. CASE f.minSize % 10 = 0
  <2>1. PICK t \in Nat : f.minSize = 10 * t
    <3>1. \A x \in Nat : x % 10 = 0 => x = 10 * (x \div 10) /\ x \div 10 \in Nat
      OBVIOUS
    <3> QED BY <1>2, <1>4, <3>1
  <2>2. (10 * t) * c = 10 * (t * c) /\ t * c \in Int
    OBVIOUS
  <2>3. 10 * b + f.minSize * c = 10 * (b + t * c) /\ b + t * c \in Int
    BY <2>1, <2>2
  <2>4. Qty(f, n) = Unrounded(f, n)
    BY <1>1, <1>3, <2>3, RoundedTens
  <2> QED BY <1>2, <1>4, <2>4
<1>5. CASE f.minSize % 10 # 0
  <2>1. Qty(f, n) + 4 \in Int /\ Qty(f, n) + 4 >= Unrounded(f, n)
    BY <1>2, <1>3, Rounds
  <2>2. Unrounded(f, n) * f.lower <= (Qty(f, n) + 4) * f.lower
    BY <1>2, <2>1, TimesGrows
  <2>3. Unrounded(f, n) * f.lower \in Int /\ (Qty(f, n) + 4) * f.lower \in Int
    BY <1>2, <2>1, IntTimes
  <2> QED BY <1>2, <1>5, <2>2, <2>3
<1> QED BY <1>4, <1>5

\* Of what the preview shows and what the bot trades the one asked for at the lower
\* price is the larger, and they are the same when neither has to be raised.
LEMMA PreviewIsQty ==
  \A f \in Forms, n \in Nat \ {0} :
    /\ 10 * f.lower <= 4 * TwiceMid(f) => PreviewQty(f, n) <= Qty(f, n)
    /\ 10 * f.lower >= 4 * TwiceMid(f) => PreviewQty(f, n) >= Qty(f, n)
    /\ /\ BaseQty(f, n) * f.lower >= f.minNotional
       /\ 4 * BaseQty(f, n) * TwiceMid(f) >= 10 * f.minNotional
       => PreviewQty(f, n) = Qty(f, n)
<1> SUFFICES ASSUME NEW f \in Forms, NEW n \in Nat \ {0}
             PROVE  /\ 10 * f.lower <= 4 * TwiceMid(f) => PreviewQty(f, n) <= Qty(f, n)
                    /\ 10 * f.lower >= 4 * TwiceMid(f) => PreviewQty(f, n) >= Qty(f, n)
                    /\ /\ BaseQty(f, n) * f.lower >= f.minNotional
                       /\ 4 * BaseQty(f, n) * TwiceMid(f) >= 10 * f.minNotional
                       => PreviewQty(f, n) = Qty(f, n)
  OBVIOUS
<1> DEFINE q == BaseQty(f, n)
           m == 4 * TwiceMid(f)
           x == Raised(f, q, f.lower, 1)
           y == Raised(f, q, m, 10)
<1>1. q \in Nat
  BY BaseQtyIs
<1>2. m \in Nat \ {0} /\ f.lower \in Nat \ {0} /\ f.minNotional \in Nat
  BY FormIs
<1>3. PreviewQty(f, n) = 10 * Rounded(y, 10) /\ Qty(f, n) = 10 * Rounded(x, 10)
  BY DEF PreviewQty, Qty
<1>4. 4 * BaseQty(f, n) * TwiceMid(f) = q * m
  BY <1>1, FormIs
<1> HIDE DEF q, m
<1>5. x \in Nat /\ y \in Nat
  <2>a. 1 \in Nat \ {0} /\ 10 \in Nat \ {0}
    OBVIOUS
  <2>b. PICK c \in Nat : Raised(f, q, f.lower, 1) = q + f.minSize * c
    BY <1>1, <1>2, <2>a, RaisedIs
  <2>c. PICK k \in Nat : Raised(f, q, m, 10) = q + f.minSize * k
    BY <1>1, <1>2, <2>a, RaisedIs
  <2>1. x = q + f.minSize * c /\ y = q + f.minSize * k
    BY <2>b, <2>c
  <2>2. f.minSize * c \in Nat /\ f.minSize * k \in Nat
    BY FormIs, NatTimes
  <2> QED BY <1>1, <2>1, <2>2
<1>6. /\ f.lower * 10 <= m * 1 => y <= x
      /\ m * 1 <= f.lower * 10 => x <= y
  BY <1>1, <1>2, RaisedFalls
<1>7. q * f.lower >= f.minNotional /\ q * m >= 10 * f.minNotional => x = y
  BY <1>2 DEF Raised
<1> HIDE DEF x, y
<1>8. /\ Rounded(x, 10) \in Int /\ Rounded(y, 10) \in Int
      /\ x <= y => Rounded(x, 10) <= Rounded(y, 10)
      /\ y <= x => Rounded(y, 10) <= Rounded(x, 10)
  BY <1>5, Rounds
<1>9. 10 * f.lower <= m => PreviewQty(f, n) <= Qty(f, n)
  BY <1>2, <1>3, <1>6, <1>8
<1>10. 10 * f.lower >= m => PreviewQty(f, n) >= Qty(f, n)
  BY <1>2, <1>3, <1>6, <1>8
<1>11. q * f.lower >= f.minNotional /\ q * m >= 10 * f.minNotional => PreviewQty(f, n) = Qty(f, n)
  BY <1>3, <1>7
<1> QED BY <1>4, <1>9, <1>10, <1>11 DEF q, m

LEMMA QtyType == \A f \in Forms, n \in Nat \ {0} : Qty(f, n) \in Int
<1> SUFFICES ASSUME NEW f \in Forms, NEW n \in Nat \ {0} PROVE Qty(f, n) \in Int
  OBVIOUS
<1>1. Rounded(Unrounded(f, n), 10) \in Int
  BY UnroundedIs, Rounds
<1> QED BY <1>1 DEF Qty, Unrounded

-----------------------------------------------------------------------------
(* The plan *)

\* The level that a price p of the market makes.
Rung(p, f, n, i) ==
  [price |-> PriceAt(f, n, i),
   side |-> IF PriceAt(f, n, i) < p THEN "buy" ELSE "sell",
   state |-> IF Activated(f, n, i) THEN "active" ELSE "virtual"]

LEMMA LevelIsRung == \A f, n, i : Level(f, n, i) = Rung(lastPrice, f, n, i)
  BY DEF Level, Rung

Plans == [at : {"none", "valid", "refused", "outside", "built"}, grids : Int, qty : Int]

\* A bot has the grids that were asked for or derived, those of a valid form, and
\* its levels are the ones of the price it was built at; the preview told its
\* quantity.
PlanInv ==
  /\ form \in Forms /\ ranges \in TrueRanges /\ lastPrice \in LastPrices
  /\ drifts \in 0..MaxDrifts
  /\ preview.at \in {"none", "ok", "refused"} /\ built \in Plans
  /\ preview.at = "ok" => preview.qty = PreviewQty(form, preview.grids)
  /\ built.at # "none" => \E s \in TrueRanges : built.grids = Grids(form, s)
  /\ built.at \in {"valid", "built"} => ConfigOK(form, built.grids)
  /\ built.at = "built" =>
       /\ built.qty = Qty(form, built.grids)
       /\ levels = [k \in 1..built.grids + 1 |-> Rung(lastPrice, form, built.grids, k - 1)]

LEMMA ConfigIs ==
  \A f \in Forms, n \in Int : ConfigOK(f, n) => n \in Nat \ {0} /\ n >= 2 /\ Width(f) > 0
<1> SUFFICES ASSUME NEW f \in Forms, NEW n \in Int, ConfigOK(f, n)
             PROVE  n \in Nat \ {0} /\ n >= 2 /\ Width(f) > 0
  OBVIOUS
<1>1. f.lower < f.upper /\ n \in 2..MaxGrids(f)
  BY DEF ConfigOK, FormOK
<1>2. MaxGrids(f) \in Int /\ f.lower \in Int /\ f.upper \in Int
  BY FormIs DEF MaxGrids
<1>3. Width(f) > 0
  BY <1>1, <1>2 DEF Width
<1> QED BY <1>1, <1>2, <1>3

LEMMA PlanInitial == PlanInit => PlanInv
<1> SUFFICES ASSUME PlanInit PROVE PlanInv
  OBVIOUS
<1>1. NoPlan \in Plans /\ NoPlan.at = "none" /\ NoPreview.at = "none"
  BY DEF NoPlan, NoPreview, Plans
<1>2. 0 \in 0..MaxDrifts
  BY GridPlanAssumption
<1> QED BY <1>1, <1>2 DEF PlanInit, PlanInv

LEMMA PlanStep == PlanInv /\ [PlanNext]_planVars => PlanInv'
<1> SUFFICES ASSUME PlanInv, [PlanNext]_planVars PROVE PlanInv'
  OBVIOUS
<1>1. CASE UNCHANGED planVars
  BY <1>1 DEF planVars, PlanInv
<1>2. CASE Previews
  <2>1. /\ preview'.at \in {"ok", "refused"}
        /\ preview'.at = "ok" => preview'.qty = PreviewQty(form, preview'.grids)
    BY <1>2 DEF Previews, NoPreview
  <2> QED BY <1>2, <2>1 DEF Previews, PlanInv
<1>3. CASE SubmitsForm
  <2> DEFINE n == Grids(form, ranges)
  <2>1. n \in Int
    BY GridsType DEF PlanInv
  <2>2. /\ built' \in Plans /\ built'.grids = n /\ built'.at \in {"valid", "refused"}
        /\ built'.at = "valid" => ConfigOK(form, n)
    <3> HIDE DEF n
    <3>1. \/ built' = [at |-> "valid", grids |-> n, qty |-> 0] /\ ConfigOK(form, n)
          \/ built' = [at |-> "refused", grids |-> n, qty |-> 0]
      BY <1>3 DEF SubmitsForm, n
    <3> QED BY <2>1, <3>1 DEF Plans
  <2>3. UNCHANGED <<form, ranges, lastPrice, preview, levels, drifts>>
    BY <1>3 DEF SubmitsForm
  <2> QED BY <2>2, <2>3 DEF PlanInv
<1>4. CASE Builds
  <2>1. /\ built \in Plans /\ built.at = "valid" /\ ConfigOK(form, built.grids)
        /\ \E s \in TrueRanges : built.grids = Grids(form, s)
    BY <1>4 DEF Builds, PlanInv
  <2>2. UNCHANGED <<form, ranges, lastPrice, preview, drifts>>
    BY <1>4 DEF Builds
  <2>3. CASE built' = [built EXCEPT !.at = "outside"]
    <3>1. built' \in Plans /\ built'.at = "outside" /\ built'.grids = built.grids
      BY <2>1, <2>3 DEF Plans
    <3> QED BY <2>1, <2>2, <3>1 DEF PlanInv
  <2>4. CASE /\ built' = [built EXCEPT !.at = "built", !.qty = Qty(form, built.grids)]
             /\ levels' = [k \in 1..built.grids + 1 |-> Level(form, built.grids, k - 1)]
    <3>1. built.grids \in Int /\ form \in Forms
      BY <2>1 DEF Plans, PlanInv
    <3>2. PICK q \in Int : q = Qty(form, built.grids)
      BY <2>1, <3>1, ConfigIs, QtyType
    <3>3. built' = [built EXCEPT !.at = "built", !.qty = q]
      BY <2>4, <3>2
    <3>4. /\ built' \in Plans /\ built'.at = "built" /\ built'.grids = built.grids
          /\ built'.qty = q
      BY <2>1, <3>3 DEF Plans
    <3>5. levels' = [k \in 1..built.grids + 1 |-> Rung(lastPrice, form, built.grids, k - 1)]
      BY <2>4, LevelIsRung
    <3> QED BY <2>1, <2>2, <3>2, <3>4, <3>5 DEF PlanInv
  <2> QED BY <1>4, <2>3, <2>4 DEF Builds
<1>5. CASE MarketMoves
  <2>1. drifts' \in 0..MaxDrifts
    BY <1>5, GridPlanAssumption DEF MarketMoves, PlanInv
  <2>2. UNCHANGED <<form, preview, built, levels>> /\ built.at # "built"
    BY <1>5 DEF MarketMoves
  <2>3. lastPrice' \in LastPrices /\ ranges' \in TrueRanges
    BY <1>5 DEF MarketMoves
  <2> QED BY <2>1, <2>2, <2>3 DEF PlanInv
<1> QED BY <1>1, <1>2, <1>3, <1>4, <1>5 DEF PlanNext

\* What a bot that was built is.
LEMMA BuiltIs ==
  PlanInv /\ built.at = "built" =>
    /\ form \in Forms /\ built.grids \in Nat \ {0} /\ built.grids >= 2
    /\ Width(form) > 0 /\ Width(form) \in Int
    /\ Len(levels) = built.grids + 1 /\ DOMAIN levels = 1..built.grids + 1
    /\ \A k \in 1..built.grids + 1 :
         /\ levels[k].price = PriceAt(form, built.grids, k - 1)
         /\ levels[k].side = IF PriceAt(form, built.grids, k - 1) < lastPrice THEN "buy" ELSE "sell"
         /\ levels[k].state = "active" <=> Activated(form, built.grids, k - 1)
<1> SUFFICES ASSUME PlanInv, built.at = "built"
             PROVE  /\ form \in Forms /\ built.grids \in Nat \ {0} /\ built.grids >= 2
                    /\ Width(form) > 0 /\ Width(form) \in Int
                    /\ Len(levels) = built.grids + 1 /\ DOMAIN levels = 1..built.grids + 1
                    /\ \A k \in 1..built.grids + 1 :
                         /\ levels[k].price = PriceAt(form, built.grids, k - 1)
                         /\ levels[k].side = IF PriceAt(form, built.grids, k - 1) < lastPrice
                                               THEN "buy" ELSE "sell"
                         /\ levels[k].state = "active" <=> Activated(form, built.grids, k - 1)
  OBVIOUS
<1>1. built.grids \in Int /\ ConfigOK(form, built.grids) /\ form \in Forms
  BY DEF PlanInv, Plans
<1>2. built.grids \in Nat \ {0} /\ built.grids >= 2 /\ Width(form) > 0 /\ Width(form) \in Int
  BY <1>1, ConfigIs, FormIs
<1> DEFINE n == built.grids
<1>3. levels = [k \in 1..n + 1 |-> Rung(lastPrice, form, n, k - 1)]
  BY DEF PlanInv
<1> HIDE DEF n
<1>4. n \in Nat
  BY <1>2 DEF n
<1>5. Len(levels) = n + 1 /\ DOMAIN levels = 1..n + 1
  <2>1. DOMAIN levels = 1..n + 1
    BY <1>3
  <2>2. n + 1 \in Nat
    BY <1>4
  <2> QED BY <1>3, <2>1, <2>2
<1>6. \A k \in 1..n + 1 : levels[k] = Rung(lastPrice, form, n, k - 1)
  BY <1>3
<1>7. \A p, f, m, i :
        /\ Rung(p, f, m, i).price = PriceAt(f, m, i)
        /\ Rung(p, f, m, i).side = IF PriceAt(f, m, i) < p THEN "buy" ELSE "sell"
        /\ Rung(p, f, m, i).state = "active" <=> Activated(f, m, i)
  BY DEF Rung
<1>8. \A k \in 1..n + 1 :
        /\ levels[k].price = PriceAt(form, n, k - 1)
        /\ levels[k].side = IF PriceAt(form, n, k - 1) < lastPrice THEN "buy" ELSE "sell"
        /\ levels[k].state = "active" <=> Activated(form, n, k - 1)
  BY <1>6, <1>7
<1> QED BY <1>1, <1>2, <1>5, <1>8 DEF n

LEMMA PlanTypes == PlanInv => PlanTypeOK
<1> SUFFICES ASSUME PlanInv PROVE PlanTypeOK
  OBVIOUS
<1>1. built.at \in {"none", "valid", "refused", "outside", "built"}
  BY DEF PlanInv, Plans
<1>2. built.at = "built" => Len(levels) = built.grids + 1
  BY BuiltIs
<1> QED BY <1>1, <1>2 DEF PlanInv, PlanTypeOK

LEMMA LevelsSound == PlanInv => LevelsAreSound
<1> SUFFICES ASSUME PlanInv, built.at = "built" PROVE LevelsAreSound
  BY DEF LevelsAreSound
<1> DEFINE n == built.grids
           m == Len(levels)
<1>1. /\ form \in Forms /\ n \in Nat \ {0} /\ n >= 2 /\ Width(form) > 0 /\ Width(form) \in Int
      /\ m = n + 1
      /\ \A k \in 1..n + 1 :
           /\ levels[k].price = PriceAt(form, n, k - 1)
           /\ levels[k].side = IF PriceAt(form, n, k - 1) < lastPrice THEN "buy" ELSE "sell"
  BY BuiltIs
<1> HIDE DEF n, m
<1>2. levels[1].price = form.lower /\ levels[m].price = form.upper
  <2>1. 1 \in 1..n + 1 /\ m \in 1..n + 1 /\ 1 - 1 = 0 /\ m - 1 = n
    BY <1>1
  <2> QED BY <1>1, <2>1, PricesSpan
<1>3. ASSUME NEW k \in 1..m - 1
      PROVE  /\ levels[k].price <= levels[k + 1].price
             /\ Width(form) >= n => levels[k].price < levels[k + 1].price
             /\ levels[k].side = "sell" => levels[k + 1].side = "sell"
  <2>1. k \in 1..n + 1 /\ k + 1 \in 1..n + 1 /\ k - 1 \in Int /\ k + 1 - 1 = k - 1 + 1
    BY <1>1
  <2> DEFINE a == PriceAt(form, n, k - 1)
             b == PriceAt(form, n, k - 1 + 1)
  <2>2. a <= b /\ (Width(form) >= n => a < b)
    BY <1>1, <2>1, PricesRise
  <2>3. a \in Int /\ b \in Int
    <3>1. k - 1 \in Int /\ k - 1 + 1 \in Int
      BY <2>1
    <3> QED BY <1>1, <3>1, LevelSum
  <2>4. levels[k].price = a /\ levels[k + 1].price = b
    BY <1>1, <2>1
  <2>5. /\ levels[k].side = IF a < lastPrice THEN "buy" ELSE "sell"
        /\ levels[k + 1].side = IF b < lastPrice THEN "buy" ELSE "sell"
    BY <1>1, <2>1
  <2>6. lastPrice \in Int
    BY GridPlanAssumption DEF PlanInv
  <2> HIDE DEF a, b
  <2>7. levels[k].side = "sell" => levels[k + 1].side = "sell"
    BY <2>2, <2>3, <2>5, <2>6
  <2> QED BY <2>2, <2>4, <2>7
<1> QED BY <1>2, <1>3 DEF LevelsAreSound, n, m

\* Positions of a sequence of levels and their indexes are as many.
LEMMA OneByOne ==
  \A n \in Nat : \A A \in SUBSET (0..n) :
    Cardinality({k \in 1..n + 1 : k - 1 \in A}) = Cardinality(A)
<1> SUFFICES ASSUME NEW n \in Nat, NEW A \in SUBSET (0..n)
             PROVE  Cardinality({k \in 1..n + 1 : k - 1 \in A}) = Cardinality(A)
  OBVIOUS
<1> DEFINE B == {k \in 1..n + 1 : k - 1 \in A}
           f == [i \in A |-> i + 1]
<1>1. \A i \in A : i \in Int /\ i + 1 \in B /\ i + 1 - 1 = i
  OBVIOUS
<1>2. f \in [A -> B]
  <2> HIDE DEF B
  <2> QED BY <1>1
<1>3. \A x, y \in A : f[x] = f[y] => x = y
  <2> HIDE DEF B
  <2> QED BY <1>1
<1>4. \A k \in B : \E x \in A : f[x] = k
  <2>1. ASSUME NEW k \in B PROVE k - 1 \in A /\ f[k - 1] = k
    OBVIOUS
  <2> QED BY <2>1
<1> HIDE DEF B, f
<1>5. f \in Bijection(A, B)
  BY <1>2, <1>3, <1>4 DEF Bijection, Injection, Surjection, IsInjective
<1>6. IsFiniteSet(A)
  <2>1. IsFiniteSet(0..n)
    BY FS_Interval
  <2> QED BY <2>1, FS_Subset
<1>7. Cardinality(B) = Cardinality(A)
  BY <1>5, <1>6, FS_Bijection DEF ExistsBijection
<1> QED BY <1>7 DEF B

LEMMA WindowWhole == PlanInv => WindowIsWhole
<1> SUFFICES ASSUME PlanInv, built.at = "built" PROVE WindowIsWhole
  BY DEF WindowIsWhole
<1> DEFINE n == built.grids
           act == {k \in DOMAIN levels : levels[k].state = "active"}
           A == {i \in 0..n : Activated(form, n, i)}
<1>1. /\ form \in Forms /\ n \in Nat \ {0} /\ Len(levels) = n + 1 /\ DOMAIN levels = 1..n + 1
      /\ \A k \in 1..n + 1 : levels[k].state = "active" <=> Activated(form, n, k - 1)
  BY BuiltIs
<1>2. act = {k \in 1..n + 1 : k - 1 \in A}
  <2> HIDE DEF n
  <2>1. \A k \in 1..n + 1 : k - 1 \in 0..n
    BY <1>1
  <2> QED BY <1>1, <2>1
<1>3. Cardinality(act) = IF form.virtual /\ form.window < Len(levels) THEN form.window ELSE Len(levels)
  <2>1. Cardinality(A) = IF form.virtual /\ form.window < n + 1 THEN form.window ELSE n + 1
    BY <1>1, ActiveAre
  <2>2. Cardinality({k \in 1..n + 1 : k - 1 \in A}) = Cardinality(A)
    <3>1. A \in SUBSET (0..n) /\ n \in Nat
      BY <1>1
    <3> HIDE DEF A, n
    <3> QED BY <3>1, OneByOne
  <2> HIDE DEF A, n, act
  <2> QED BY <1>1, <1>2, <2>1, <2>2
<1>4. ASSUME Width(form) >= n, NEW i \in act, NEW j \in act, NEW k \in i..j PROVE k \in act
  <2> HIDE DEF n
  <2>1. i - 1 \in A /\ j - 1 \in A /\ i \in 1..n + 1 /\ j \in 1..n + 1
    BY <1>2
  <2>2. k \in 1..n + 1 /\ i - 1 \in 0..n /\ j - 1 \in 0..n /\ k - 1 \in (i - 1)..(j - 1)
    BY <1>1, <2>1
  <2>3. Activated(form, n, k - 1)
    <3>1. Activated(form, n, i - 1) /\ Activated(form, n, j - 1)
      BY <2>1
    <3> HIDE DEF A, act
    <3> QED BY <1>1, <1>4, <2>2, <3>1, ActiveLieTogether
  <2> QED BY <1>1, <2>2, <2>3
<1>5. Width(form) >= n => \A i, j \in act : \A k \in i..j : k \in act
  BY <1>4
<1> HIDE DEF A, act
<1> QED BY <1>3, <1>5 DEF WindowIsWhole, act, n

LEMMA QtySound == PlanInv => QtyIsSound
<1> SUFFICES ASSUME PlanInv, built.at = "built" PROVE QtyIsSound
  BY DEF QtyIsSound
<1>1. form \in Forms /\ built.grids \in Nat \ {0} /\ built.qty = Qty(form, built.grids)
  BY BuiltIs DEF PlanInv
<1>2. preview.at = "ok" => preview.qty = PreviewQty(form, preview.grids)
  BY DEF PlanInv
<1>3. (built.qty + (IF form.minSize % 10 = 0 THEN 0 ELSE 4)) * form.lower >= form.minNotional
  BY <1>1, QtyIsWorth
<1> QED BY <1>1, <1>2, <1>3, PreviewIsQty DEF QtyIsSound

LEMMA FeesCleared == PlanInv => DerivedClearsFees
<1> SUFFICES ASSUME PlanInv, form.atr, built.at # "none"
             PROVE  built.grids = 2 \/ 40000 * Width(form) >= (2 * built.grids - 1) * FeeFloor(form)
  BY DEF DerivedClearsFees
<1>1. PICK s \in TrueRanges : built.grids = Grids(form, s)
  BY DEF PlanInv
<1>2. built.grids = Derived(form, s)
  BY <1>1 DEF Grids
<1> QED BY <1>2, DerivedIs DEF PlanInv

LEMMA AverageSound == PlanInv => AverageIsBetween
<1> SUFFICES ASSUME PlanInv PROVE AverageIsBetween
  OBVIOUS
<1>1. ranges \in Seq(Nat) /\ form.period \in Nat \ {0} /\ form.period <= Len(ranges)
  BY GridPlanAssumption, FormIs DEF PlanInv
<1> DEFINE w == Wilder(ranges, form.period)
<1>2. PICK a \in 1..Len(ranges), b \in 1..Len(ranges) :
        ranges[a] * w[2] <= w[1] /\ ranges[b] * w[2] >= w[1]
  BY <1>1, AverageLies
<1>3. a \in DOMAIN ranges /\ b \in DOMAIN ranges
  BY <1>1
<1> HIDE DEF w
<1> QED BY <1>2, <1>3 DEF AverageIsBetween, w

\* A grid that is made is the one that was asked for, whatever the form, the candles
\* and the market in between: its levels span the range in order, its window is
\* whole, its quantity is worth an order to the rounding and differs from the one
\* previewed only as far as they are raised at two prices, and a derived spacing pays
\* its fees (grid-engine.ts:112-131, 944-1040, 2083-2268, atr.ts:46-159).
THEOREM GridsAreSound ==
  PlanSpec => [](/\ PlanTypeOK /\ LevelsAreSound /\ WindowIsWhole /\ QtyIsSound
                 /\ DerivedClearsFees /\ AverageIsBetween)
<1>1. PlanInit => PlanInv
  BY PlanInitial
<1>2. PlanInv /\ [PlanNext]_planVars => PlanInv'
  BY PlanStep
<1>3. PlanInv => /\ PlanTypeOK /\ LevelsAreSound /\ WindowIsWhole /\ QtyIsSound
                 /\ DerivedClearsFees /\ AverageIsBetween
  BY PlanTypes, LevelsSound, WindowWhole, QtySound, FeesCleared, AverageSound
<1> QED BY <1>1, <1>2, <1>3, PTL DEF PlanSpec

-----------------------------------------------------------------------------
(* Backtest *)

\* The totals of a simulation.
Sims == [filled : SUBSET Ladder, pos : Nat, cost : Nat, equity : Int, gross : Int,
         fees : Nat, slip : Nat, funding : Int, missed : Nat, trips : Nat,
         high : Int, worst : Nat]

\* Each charge has been taken from the equity, and the highest equity is what the
\* simulation began with at least.
Balanced(s) ==
  /\ s \in Sims /\ s.high >= 10000
  /\ s.equity = Cents(Stake) + s.gross - s.fees - s.funding - s.slip

BacktestInv ==
  /\ walked \in 0..MaxCandles /\ Balanced(sim)
  /\ setup \in [dir : {"long", "short"}, rate : FundingPcts, first : Nat]

LEMMA LadderPrices == \A i \in Ladder : i \in Nat /\ PriceOf(i) \in Nat
  BY BacktestAssumption DEF Ladder, PriceOf

\* A buy spends what the position costs, and no equity.
LEMMA BuyKeeps == \A i \in Ladder : \A s : Balanced(s) => Balanced(BuyFill(i, s))
<1> SUFFICES ASSUME NEW i \in Ladder, NEW s, Balanced(s) PROVE Balanced(BuyFill(i, s))
  OBVIOUS
<1>1. PICK t \in Sims : t = s
  BY DEF Balanced
<1>2. Cents(PriceOf(i)) \in Nat
  BY LadderPrices DEF Cents
<1>3. BuyFill(i, t) \in Sims
  <2> DEFINE more == t.pos + 1
             paid == t.cost + Cents(PriceOf(i))
  <2>1. more \in Nat /\ paid \in Nat
    BY <1>2 DEF Sims
  <2>2. BuyFill(i, t) = [t EXCEPT !.filled = (@ \cup {i}) \ {i + 1}, !.pos = more, !.cost = paid]
    BY DEF BuyFill
  <2> DEFINE got == (t.filled \cup {i}) \ {i + 1}
  <2>3. got \in SUBSET Ladder
    BY DEF Sims
  <2>4. BuyFill(i, t) = [t EXCEPT !.filled = got, !.pos = more, !.cost = paid]
    BY <2>2
  <2> HIDE DEF more, paid, got
  <2> QED BY <2>1, <2>3, <2>4 DEF Sims
<1>4. /\ BuyFill(i, t).equity = t.equity /\ BuyFill(i, t).gross = t.gross
      /\ BuyFill(i, t).fees = t.fees /\ BuyFill(i, t).funding = t.funding
      /\ BuyFill(i, t).slip = t.slip /\ BuyFill(i, t).high = t.high
  BY DEF BuyFill, Sims
<1> QED BY <1>1, <1>3, <1>4 DEF Balanced

\* A round trip earns what it makes less its fees.
LEMMA SellKeeps == \A i \in Ladder : \A s : Balanced(s) => Balanced(SellFill(i, s))
<1> SUFFICES ASSUME NEW i \in Ladder, NEW s, Balanced(s) PROVE Balanced(SellFill(i, s))
  OBVIOUS
<1>1. PICK t \in Sims : t = s
  BY DEF Balanced
<1> DEFINE left == IF t.pos > 1 THEN t.pos - 1 ELSE 0
           spent == IF left > 0 THEN (t.cost \div (left + 1)) * left ELSE 0
           fee == 100 * MakerPct * (PriceOf(i) + PriceOf(i - 1))
           closed == [t EXCEPT !.filled = (@ \cup {i}) \ {i - 1}, !.pos = left, !.cost = spent]
<1>2. left \in Nat /\ spent \in Nat
  <2>1. t.pos \in Nat /\ t.cost \in Nat
    BY <1>1 DEF Sims
  <2>2. left \in Nat
    BY <2>1
  <2>3. left > 0 => t.cost \div (left + 1) \in Nat
    BY <2>1, <2>2
  <2> QED BY <2>2, <2>3, NatTimes
<1>3. closed \in Sims
  <2> HIDE DEF left, spent
  <2> QED BY <1>1, <1>2 DEF Sims
<1>4. /\ closed.equity = t.equity /\ closed.gross = t.gross /\ closed.fees = t.fees
      /\ closed.funding = t.funding /\ closed.slip = t.slip /\ closed.high = t.high
  BY <1>1 DEF Sims
<1>5. CASE i = 0
  <2>1. SellFill(i, t) = closed
    BY <1>5 DEF SellFill
  <2> HIDE DEF closed
  <2>2. Balanced(closed)
    BY <1>1, <1>3, <1>4 DEF Balanced
  <2> QED BY <1>1, <2>1, <2>2
<1>6. CASE i # 0
  <2>1. fee \in Nat
    <3>1. MakerPct \in Nat /\ PriceOf(i) \in Nat /\ PriceOf(i - 1) \in Nat
      BY <1>6, LadderPrices, BacktestAssumption DEF PriceOf, Ladder
    <3>2. 100 * MakerPct \in Nat /\ PriceOf(i) + PriceOf(i - 1) \in Nat
      BY <3>1
    <3> QED BY <3>2, NatTimes
  <2>2. SellFill(i, t) = [closed EXCEPT !.gross = @ + Cents(1), !.trips = @ + 1, !.fees = @ + fee,
                                        !.equity = @ + Cents(1) - fee]
    BY <1>6 DEF SellFill
  <2>3. Cents(1) = 10000
    BY DEF Cents
  <2> HIDE DEF closed, fee
  <2> DEFINE after == [closed EXCEPT !.gross = @ + Cents(1), !.trips = @ + 1, !.fees = @ + fee,
                                     !.equity = @ + Cents(1) - fee]
  <2>4. after \in Sims
    <3> DEFINE g == closed.gross + Cents(1)
               n == closed.trips + 1
               p == closed.fees + fee
               e == closed.equity + Cents(1) - fee
    <3>1. g \in Int /\ n \in Nat /\ p \in Nat /\ e \in Int
      BY <1>3, <2>1, <2>3 DEF Sims
    <3>2. after = [closed EXCEPT !.gross = g, !.trips = n, !.fees = p, !.equity = e]
      OBVIOUS
    <3> HIDE DEF g, n, p, e, after
    <3> QED BY <1>3, <3>1, <3>2 DEF Sims
  <2>5. /\ after.equity = closed.equity + 10000 - fee /\ after.gross = closed.gross + 10000
        /\ after.fees = closed.fees + fee
        /\ after.funding = closed.funding /\ after.slip = closed.slip /\ after.high = closed.high
    BY <1>3, <2>3 DEF Sims
  <2>6. Cents(Stake) \in Int
    BY BacktestAssumption DEF Cents
  <2>7. /\ closed.equity \in Int /\ closed.gross \in Int /\ closed.fees \in Int
        /\ closed.funding \in Int /\ closed.slip \in Int
    BY <1>3 DEF Sims
  <2>8. Cents(Stake) + t.gross - t.fees - t.funding - t.slip = t.equity /\ t.high >= 10000
    BY <1>1 DEF Balanced
  <2>9. after.equity = Cents(Stake) + after.gross - after.fees - after.funding - after.slip
    <3> HIDE DEF after, fee
    <3> QED BY <1>4, <2>1, <2>5, <2>6, <2>7, <2>8
  <2>10. after.high >= 10000
    BY <1>4, <2>5, <2>8
  <2> HIDE DEF after
  <2>11. Balanced(after)
    BY <2>4, <2>9, <2>10 DEF Balanced
  <2> QED BY <1>1, <2>2, <2>11 DEF after
<1> QED BY <1>5, <1>6

LEMMA LevelKeeps ==
  \A i \in Ladder : \A c, band, s : Balanced(s) => Balanced(AtLevel(i, c, band, s))
<1> SUFFICES ASSUME NEW i \in Ladder, NEW c, NEW band, NEW s, Balanced(s)
             PROVE  Balanced(AtLevel(i, c, band, s))
  OBVIOUS
<1>1. Balanced([s EXCEPT !.missed = @ + 1])
  <2>1. PICK t \in Sims : t = s
    BY DEF Balanced
  <2> DEFINE u == [t EXCEPT !.missed = @ + 1]
  <2>2. u \in Sims
    BY DEF Sims
  <2>3. /\ u.equity = t.equity /\ u.gross = t.gross /\ u.fees = t.fees
        /\ u.funding = t.funding /\ u.slip = t.slip /\ u.high = t.high
    BY DEF Sims
  <2> HIDE DEF u
  <2>4. Balanced(u)
    BY <2>1, <2>2, <2>3 DEF Balanced
  <2> QED BY <2>1, <2>4 DEF u
<1> QED BY <1>1, BuyKeeps, SellKeeps DEF AtLevel

LEMMA TradedKeeps == \A c, s : Balanced(s) => Balanced(Traded(c, s))
<1> SUFFICES ASSUME NEW c, NEW s, Balanced(s) PROVE Balanced(Traded(c, s))
  OBVIOUS
<1> DEFINE band == Band(s)
           All == {t \in Sims : Balanced(t)}
           Sweeps(f) == f = [n \in 0..NumGrids + 1 |->
                               IF n = 0 THEN s ELSE AtLevel(n - 1, c, band, f[n - 1])]
           F == [n \in Nat |-> [t \in All |-> IF n \in 1..NumGrids + 1
                                               THEN AtLevel(n - 1, c, band, t) ELSE t]]
<1>1. \A n \in 1..NumGrids + 1 : n - 1 \in Ladder
  BY BacktestAssumption DEF Ladder
<1>2. s \in All
  BY DEF Balanced
<1>3. F \in [Nat -> [All -> All]]
  <2>1. ASSUME NEW n \in 1..NumGrids + 1, NEW t \in All
        PROVE  AtLevel(n - 1, c, band, t) \in All
    <3> HIDE DEF band
    <3> QED BY <1>1, LevelKeeps DEF Balanced
  <2> HIDE DEF All, band
  <2> QED BY <2>1
<1>4. NumGrids + 1 \in Nat
  BY BacktestAssumption
<1>5. Recurs(All, s, F, NumGrids + 1)
  <2> HIDE DEF All, F
  <2> QED BY <1>2, <1>3, <1>4, RecursUpTo
<1>6. \E k \in [0..NumGrids + 1 -> All] : Sweeps(k)
  <2> HIDE DEF band
  <2>1. PICK k : /\ k \in [0..NumGrids + 1 -> All] /\ k[0] = s
                 /\ \A i \in 1..NumGrids + 1 : k[i] = F[i][k[i - 1]]
    <3> HIDE DEF All, F
    <3> QED BY <1>5 DEF Recurs
  <2>2. \A i \in 1..NumGrids + 1 : k[i] = AtLevel(i - 1, c, band, k[i - 1])
    <3> HIDE DEF All
    <3>1. ASSUME NEW i \in 1..NumGrids + 1 PROVE k[i] = AtLevel(i - 1, c, band, k[i - 1])
      <4>1. i - 1 \in 0..NumGrids + 1 /\ i \in Nat
        BY <1>4
      <4>2. k[i - 1] \in All
        BY <2>1, <4>1
      <4>3. F[i][k[i - 1]] = AtLevel(i - 1, c, band, k[i - 1])
        BY <4>1, <4>2
      <4> QED BY <2>1, <4>3
    <3> QED BY <3>1
  <2> HIDE DEF All, F
  <2>3. \A n \in 0..NumGrids + 1 : n = 0 \/ n \in 1..NumGrids + 1
    BY <1>4
  <2>4. k = [n \in 0..NumGrids + 1 |-> IF n = 0 THEN s ELSE AtLevel(n - 1, c, band, k[n - 1])]
    BY <2>1, <2>2, <2>3
  <2> QED BY <2>1, <2>4
<1>7. Sweeps(CHOOSE f : Sweeps(f))
  <2> HIDE DEF All, band
  <2> QED BY <1>6
<1> DEFINE f == CHOOSE f : Sweeps(f)
<1>8. Traded(c, s) = f[NumGrids + 1]
  BY DEF Traded
<1>8a. f = [n \in 0..NumGrids + 1 |-> IF n = 0 THEN s ELSE AtLevel(n - 1, c, band, f[n - 1])]
  BY <1>7
<1> HIDE DEF f, band
<1> DEFINE Good == {n \in Nat : n \in 0..NumGrids + 1 => Balanced(f[n])}
<1>f. \A n \in 0..NumGrids + 1 : f[n] = IF n = 0 THEN s ELSE AtLevel(n - 1, c, band, f[n - 1])
  BY <1>8a
<1>9. 0 \in Good
  <2>1. 0 \in 0..NumGrids + 1
    BY <1>4
  <2>2. f[0] = s
    BY <1>f, <2>1
  <2> QED BY <2>2
<1>10. ASSUME NEW n \in Nat, n \in Good PROVE n + 1 \in Good
  <2>1. ASSUME n + 1 \in 0..NumGrids + 1 PROVE Balanced(f[n + 1])
    <3>0. NumGrids \in Nat
      BY BacktestAssumption
    <3>1. n \in 0..NumGrids + 1 /\ n \in Ladder /\ n + 1 # 0 /\ n + 1 - 1 = n
      BY <2>1, <3>0 DEF Ladder
    <3>2. f[n + 1] = AtLevel(n, c, band, f[n])
      BY <1>f, <2>1, <3>1
    <3>3. Balanced(f[n])
      BY <1>10, <3>1
    <3> QED BY <3>1, <3>2, <3>3, LevelKeeps
  <2> QED BY <2>1
<1>11. Nat \subseteq Good
  <2> HIDE DEF Good
  <2> QED BY <1>9, <1>10, SetInduction
<1> QED BY <1>4, <1>8, <1>11

SetupOK == setup \in [dir : {"long", "short"}, rate : FundingPcts, first : Nat]

\* What funding takes is reported.
LEMMA FundedKeeps ==
  \A c \in Candles : \A s : SetupOK /\ Balanced(s) => Balanced(Funded(c, s))
<1> SUFFICES ASSUME NEW c \in Candles, NEW s, SetupOK, Balanced(s)
             PROVE  Balanced(Funded(c, s))
  OBVIOUS
<1>1. PICK t \in Sims : t = s
  BY DEF Balanced
<1> DEFINE due == (IF setup.dir = "long" THEN 1 ELSE -1) * 100 * t.pos * c.close * setup.rate
           paid == [t EXCEPT !.funding = @ + due, !.equity = @ - due]
<1>2. due \in Int
  <2>1. t.pos \in Int /\ c.close \in Int /\ setup.rate \in Int
    <3>1. t.pos \in Nat
      BY DEF Sims
    <3>2. c.close \in Nat /\ FundingPcts \subseteq Int
      BY BacktestAssumption
    <3>3. setup.rate \in FundingPcts
      BY DEF SetupOK
    <3>4. setup.rate \in Int
      BY <3>2, <3>3
    <3>5. t.pos \in Int
      BY <3>1
    <3>6. c.close \in Int
      BY <3>2
    <3> QED BY <3>4, <3>5, <3>6
  <2> DEFINE sign == IF setup.dir = "long" THEN 1 ELSE -1
  <2>2. sign * 100 \in Int
    OBVIOUS
  <2> HIDE DEF sign
  <2>3. sign * 100 * t.pos \in Int
    BY <2>1, <2>2, IntTimes
  <2>4. sign * 100 * t.pos * c.close \in Int
    BY <2>1, <2>3, IntTimes
  <2>5. sign * 100 * t.pos * c.close * setup.rate \in Int
    BY <2>1, <2>4, IntTimes
  <2> QED BY <2>5 DEF sign
<1>3. paid \in Sims
  <2> DEFINE f == t.funding + due
             e == t.equity - due
  <2>1. f \in Int /\ e \in Int
    BY <1>2 DEF Sims
  <2>2. paid = [t EXCEPT !.funding = f, !.equity = e]
    OBVIOUS
  <2> HIDE DEF f, e, paid
  <2> QED BY <2>1, <2>2 DEF Sims
<1>4. /\ paid.funding = t.funding + due /\ paid.equity = t.equity - due
      /\ paid.gross = t.gross /\ paid.fees = t.fees /\ paid.slip = t.slip /\ paid.high = t.high
  <2> HIDE DEF due
  <2> QED BY DEF Sims
<1>5. Balanced(paid)
  <2>1. Cents(Stake) + t.gross - t.fees - t.funding - t.slip = t.equity /\ t.high >= 10000
    BY <1>1 DEF Balanced
  <2>2. Cents(Stake) \in Int
    BY BacktestAssumption DEF Cents
  <2>3. t.equity \in Int /\ t.gross \in Int /\ t.fees \in Int /\ t.funding \in Int /\ t.slip \in Int
    BY DEF Sims
  <2> HIDE DEF due, paid
  <2>4. paid.equity = Cents(Stake) + paid.gross - paid.fees - paid.funding - paid.slip
    BY <1>2, <1>4, <2>1, <2>2, <2>3
  <2> QED BY <1>3, <1>4, <2>1, <2>4 DEF Balanced
<1>6. Funded(c, t) = paid \/ Funded(c, t) = t
  BY DEF Funded
<1> HIDE DEF paid
<1> QED BY <1>1, <1>5, <1>6

\* The mark moves the highest equity up, and the worst fall with it.
LEMMA MarkedKeeps == \A c \in Candles : \A s : Balanced(s) => Balanced(Marked(c, s))
<1> SUFFICES ASSUME NEW c \in Candles, NEW s, Balanced(s) PROVE Balanced(Marked(c, s))
  OBVIOUS
<1>1. PICK t \in Sims : t = s
  BY DEF Balanced
<1> DEFINE held == Cents(t.pos * c.close)
           now == t.equity + held - (IF t.pos > 0 THEN t.cost ELSE 0)
           top == IF now > t.high THEN now ELSE t.high
           fall == IF top > 0 THEN (100 * ((top - now) \div 100)) \div (top \div 100) ELSE 0
           worst == IF fall > t.worst THEN fall ELSE t.worst
           marked == [t EXCEPT !.high = top, !.worst = worst]
<1>2. held \in Int
  <2>1. t.pos * c.close \in Int
    BY BacktestAssumption, IntTimes DEF Sims
  <2> QED BY <2>1 DEF Cents
<1>3. now \in Int
  <2> HIDE DEF held
  <2> QED BY <1>2 DEF Sims
<1>4. t.high \in Int /\ t.high >= 10000 /\ t.worst \in Nat
  BY <1>1 DEF Balanced, Sims
<1>5. top \in Int /\ top >= 10000
  <2> HIDE DEF now
  <2> QED BY <1>3, <1>4
<1>6. fall \in Int
  <2> HIDE DEF now, top
  <2>1. top \div 100 \in Nat \ {0} /\ (top - now) \div 100 \in Int
    BY <1>3, <1>5
  <2> DEFINE down == 100 * ((top - now) \div 100)
             unit == top \div 100
  <2>2. down \in Int /\ unit \in Nat \ {0}
    BY <2>1
  <2> HIDE DEF down, unit
  <2>3. down \div unit \in Int
    BY <2>2
  <2> QED BY <2>3 DEF down, unit
<1>7. worst \in Nat
  <2> HIDE DEF fall
  <2> QED BY <1>4, <1>6
<1>8. /\ marked \in Sims /\ marked.high = top /\ marked.equity = t.equity
      /\ marked.gross = t.gross /\ marked.fees = t.fees
      /\ marked.funding = t.funding /\ marked.slip = t.slip
  <2> HIDE DEF top, worst
  <2>1. PICK h \in Int, w \in Nat : h = top /\ w = worst
    BY <1>5, <1>7
  <2>2. marked = [t EXCEPT !.high = h, !.worst = w]
    BY <2>1
  <2>3. marked \in Sims
    BY <2>2 DEF Sims
  <2>4. /\ marked.high = h /\ marked.equity = t.equity
        /\ marked.gross = t.gross /\ marked.fees = t.fees
        /\ marked.funding = t.funding /\ marked.slip = t.slip
    BY <2>2 DEF Sims
  <2> QED BY <2>1, <2>3, <2>4
<1>9. Marked(c, t) = marked
  BY DEF Marked
<1> HIDE DEF top, marked
<1>10. Balanced(marked)
  BY <1>1, <1>5, <1>8 DEF Balanced
<1> QED BY <1>1, <1>9, <1>10

\* The purchase that backs the sells is charged for.
LEMMA OpenedIsSound == \A d, p : p \in Nat => Balanced(Opened(d, p))
<1> SUFFICES ASSUME NEW d, NEW p \in Nat PROVE Balanced(Opened(d, p))
  OBVIOUS
<1> DEFINE sells == {i \in Ladder : SideIn(i, d, p) = "sell"}
           n == IF d = "long" THEN Cardinality(sells) ELSE 0
           slip == 100 * p * SlipPct * n
           fee == p * (100 + SlipPct) * TakerPct * n
           cost == Cents(p * n)
<1>1. n \in Nat
  <2>1. IsFiniteSet(Ladder)
    BY FS_Interval, BacktestAssumption DEF Ladder
  <2>2. IsFiniteSet(sells)
    BY <2>1, FS_Subset
  <2> HIDE DEF sells
  <2> QED BY <2>2, FS_CardinalityType
<1>2. SlipPct \in Nat /\ TakerPct \in Nat /\ 100 + SlipPct \in Nat
  BY BacktestAssumption
<1> HIDE DEF n
<1>3. slip \in Nat
  <2>1. 100 * p * SlipPct \in Nat
    BY <1>2, NatTimes
  <2> QED BY <1>1, <2>1, NatTimes
<1>4. fee \in Nat
  <2>1. p * (100 + SlipPct) \in Nat
    BY <1>2, NatTimes
  <2>2. p * (100 + SlipPct) * TakerPct \in Nat
    BY <1>2, <2>1, NatTimes
  <2> QED BY <1>1, <2>2, NatTimes
<1>5. cost \in Nat
  BY <1>1, NatTimes DEF Cents
<1>6. Cents(Stake) \in Nat /\ Cents(Stake) >= 10000
  BY BacktestAssumption DEF Cents
<1> DEFINE o == [filled |-> {}, pos |-> n, cost |-> cost, equity |-> Cents(Stake) - slip - fee,
                 gross |-> 0, fees |-> fee, slip |-> slip, funding |-> 0, missed |-> 0, trips |-> 0,
                 high |-> Cents(Stake), worst |-> 0]
<1>7. Opened(d, p) = o
  BY DEF Opened, n
<1> HIDE DEF slip, fee, cost
<1>8. o \in Sims
  BY <1>1, <1>3, <1>4, <1>5, <1>6 DEF Sims
<1>9. /\ o.equity = Cents(Stake) - slip - fee /\ o.gross = 0 /\ o.fees = fee /\ o.slip = slip
      /\ o.funding = 0 /\ o.high = Cents(Stake)
  OBVIOUS
<1> HIDE DEF o
<1>10. o.equity = Cents(Stake) + o.gross - o.fees - o.funding - o.slip
  BY <1>3, <1>4, <1>6, <1>9
<1> QED BY <1>6, <1>7, <1>8, <1>9, <1>10 DEF Balanced

LEMMA BacktestInitial == BacktestInit => BacktestInv
<1> SUFFICES ASSUME BacktestInit PROVE BacktestInv
  OBVIOUS
<1>1. PICK c \in Candles, d \in {"long", "short"}, r \in FundingPcts :
        /\ setup = [dir |-> d, rate |-> r, first |-> c.close] /\ sim = Opened(d, c.close)
        /\ walked = 0
  BY DEF BacktestInit
<1>2. c.close \in Nat /\ MaxCandles \in Nat
  BY BacktestAssumption
<1> QED BY <1>1, <1>2, OpenedIsSound DEF BacktestInv

LEMMA BacktestStep == BacktestInv /\ [BacktestNext]_backtestVars => BacktestInv'
<1> SUFFICES ASSUME BacktestInv, [BacktestNext]_backtestVars PROVE BacktestInv'
  OBVIOUS
<1>1. CASE UNCHANGED backtestVars
  BY <1>1 DEF backtestVars, BacktestInv, Balanced
<1>2. ASSUME NEW c \in Candles, Candle(c) PROVE BacktestInv'
  <2>1. SetupOK /\ Balanced(sim)
    BY DEF BacktestInv, SetupOK
  <2>2. Balanced(Marked(c, Funded(c, Traded(c, sim))))
    BY <2>1, TradedKeeps, FundedKeeps, MarkedKeeps
  <2>3. Balanced(sim')
    BY <1>2, <2>2 DEF Candle
  <2>4. walked' \in 0..MaxCandles
    BY <1>2, BacktestAssumption DEF Candle, BacktestInv
  <2> QED BY <1>2, <2>3, <2>4 DEF Candle, BacktestInv, Balanced
<1> QED BY <1>1, <1>2 DEF BacktestNext

LEMMA SoundSimulation == BacktestInv => BacktestTypeOK /\ BooksBalance
<1> SUFFICES ASSUME BacktestInv PROVE BacktestTypeOK /\ BooksBalance
  OBVIOUS
<1>1. PICK t \in Sims : t = sim
  BY DEF BacktestInv, Balanced
<1>2. /\ t.filled \subseteq Ladder
      /\ {t.pos, t.cost, t.fees, t.slip, t.missed, t.trips, t.worst} \subseteq Nat
      /\ {t.equity, t.funding, t.high, t.gross} \subseteq Int
  BY DEF Sims
<1> QED BY <1>1, <1>2 DEF BacktestInv, Balanced, BacktestTypeOK, BooksBalance

\* A simulation's books balance whatever the candles, the rates and the size of the
\* grid: each round trip, fee and payment of funding that moved the equity is in the
\* result once (backtester.ts:210-213, 319-320).
THEOREM SimulationBalances == BacktestSpec => [](BacktestTypeOK /\ BooksBalance)
<1>1. BacktestInit => BacktestInv
  BY BacktestInitial
<1>2. BacktestInv /\ [BacktestNext]_backtestVars => BacktestInv'
  BY BacktestStep
<1>3. BacktestInv => BacktestTypeOK /\ BooksBalance
  BY SoundSimulation
<1> QED BY <1>1, <1>2, <1>3, PTL DEF BacktestSpec

-----------------------------------------------------------------------------
(* Sums and results *)

AddsUp(g, f, n) == g = [k \in 0..n |-> IF k = 0 THEN 0 ELSE g[k - 1] + f[k]]

LEMMA SumType ==
  \A n \in Nat : \A f : (\A k \in 1..n : f[k] \in Int) => Sum(f, n) \in Int
<1> SUFFICES ASSUME NEW n \in Nat, NEW f, \A k \in 1..n : f[k] \in Int PROVE Sum(f, n) \in Int
  OBVIOUS
<1> DEFINE F == [k \in Nat |-> [a \in Int |-> IF k \in 1..n THEN a + f[k] ELSE a]]
<1>1. F \in [Nat -> [Int -> Int]]
  OBVIOUS
<1>2. Recurs(Int, 0, F, n)
  <2> HIDE DEF F
  <2> QED BY <1>1, RecursUpTo
<1>3. PICK g : g \in [0..n -> Int] /\ g[0] = 0 /\ \A k \in 1..n : g[k] = F[k][g[k - 1]]
  <2> HIDE DEF F
  <2> QED BY <1>2 DEF Recurs
<1>4. \A k \in 1..n : g[k] = g[k - 1] + f[k]
  <2>1. ASSUME NEW k \in 1..n PROVE g[k] = g[k - 1] + f[k]
    <3>1. k \in Nat /\ g[k - 1] \in Int
      BY <1>3
    <3>2. F[k][g[k - 1]] = g[k - 1] + f[k]
      BY <3>1
    <3> QED BY <1>3, <3>2
  <2> QED BY <2>1
<1> HIDE DEF F
<1>5. AddsUp(g, f, n)
  <2>1. \A k \in 0..n : k = 0 \/ k \in 1..n
    OBVIOUS
  <2> QED BY <1>3, <1>4, <2>1 DEF AddsUp
<1> DEFINE h == CHOOSE u : AddsUp(u, f, n)
<1>6. AddsUp(h, f, n)
  BY <1>5
<1>7. Sum(f, n) = h[n]
  BY DEF Sum, AddsUp
<1> HIDE DEF h
<1> DEFINE Good == {k \in Nat : k \in 0..n => h[k] \in Int}
<1>8. 0 \in Good
  <2>1. 0 \in 0..n
    OBVIOUS
  <2>2. h[0] = 0
    BY <1>6, <2>1 DEF AddsUp
  <2> QED BY <2>2
<1>9. ASSUME NEW k \in Nat, k \in Good PROVE k + 1 \in Good
  <2>1. ASSUME k + 1 \in 0..n PROVE h[k + 1] \in Int
    <3>1. k \in 0..n /\ k + 1 \in 1..n /\ k + 1 - 1 = k /\ k + 1 # 0
      BY <2>1
    <3>2. \A m \in 0..n : m # 0 => h[m] = h[m - 1] + f[m]
      BY <1>6 DEF AddsUp
    <3>3. h[k + 1] = h[k] + f[k + 1]
      BY <2>1, <3>1, <3>2
    <3> QED BY <1>9, <3>1, <3>3
  <2> QED BY <2>1
<1>10. Nat \subseteq Good
  <2> HIDE DEF Good
  <2> QED BY <1>8, <1>9, SetInduction
<1>11. n \in 0..n
  OBVIOUS
<1> QED BY <1>7, <1>10, <1>11

\* The windows of a history that is long enough.
LEMMA SplitIs ==
  \A n \in Nat : n >= MinCandles =>
    \/ /\ n \div Parts >= MinCandles /\ DOMAIN Split(n) = 1..Parts
       /\ \A i \in 1..Parts :
            Split(n)[i] = [from |-> (i - 1) * (n \div Parts) + 1,
                           to |-> IF i - 1 = Parts - 1 THEN n ELSE (i - 1 + 1) * (n \div Parts)]
    \/ /\ ~(n \div Parts >= MinCandles) /\ DOMAIN Split(n) = 1..1
       /\ Split(n)[1] = [from |-> 1, to |-> n]
<1> SUFFICES ASSUME NEW n \in Nat, n >= MinCandles
             PROVE  \/ /\ n \div Parts >= MinCandles /\ DOMAIN Split(n) = 1..Parts
                       /\ \A i \in 1..Parts :
                            Split(n)[i] = [from |-> (i - 1) * (n \div Parts) + 1,
                                           to |-> IF i - 1 = Parts - 1 THEN n
                                                  ELSE (i - 1 + 1) * (n \div Parts)]
                    \/ /\ ~(n \div Parts >= MinCandles) /\ DOMAIN Split(n) = 1..1
                       /\ Split(n)[1] = [from |-> 1, to |-> n]
  OBVIOUS
<1>1. CASE n \div Parts >= MinCandles
  <2>1. Split(n) = [i \in 1..Parts |-> [from |-> (i - 1) * (n \div Parts) + 1,
                      to |-> IF i - 1 = Parts - 1 THEN n ELSE (i - 1 + 1) * (n \div Parts)]]
    BY <1>1 DEF Split
  <2> QED BY <1>1, <2>1
<1>2. CASE ~(n \div Parts >= MinCandles)
  <2>1. Split(n) = << [from |-> 1, to |-> n] >>
    BY <1>2 DEF Split
  <2>2. DOMAIN << [from |-> 1, to |-> n] >> = 1..1
    OBVIOUS
  <2> QED BY <1>2, <2>1, <2>2
<1> QED BY <1>1, <1>2

\* A candle is in one window.
LEMMA SplitParts ==
  \A n \in Nat : n >= MinCandles =>
    \A k \in 1..n : Cardinality({w \in DOMAIN Split(n) :
                      Split(n)[w].from <= k /\ k <= Split(n)[w].to}) = 1
<1> SUFFICES ASSUME NEW n \in Nat, n >= MinCandles, NEW k \in 1..n
             PROVE  Cardinality({w \in DOMAIN Split(n) :
                      Split(n)[w].from <= k /\ k <= Split(n)[w].to}) = 1
  OBVIOUS
<1> DEFINE size == n \div Parts
           In(w) == Split(n)[w].from <= k /\ k <= Split(n)[w].to
<1>1. Parts \in Nat \ {0} /\ MinCandles \in Nat \ {0} /\ size \in Int
  BY AdviceAssumption, Quotient
<1>2. CASE ~(size >= MinCandles)
  <2>1. DOMAIN Split(n) = 1..1 /\ Split(n)[1] = [from |-> 1, to |-> n]
    BY <1>2, SplitIs
  <2>2. {w \in DOMAIN Split(n) : In(w)} = {1}
    BY <2>1
  <2> QED BY <2>2, FS_Singleton
<1>3. CASE size >= MinCandles
  <2>1. /\ DOMAIN Split(n) = 1..Parts
        /\ \A i \in 1..Parts : /\ Split(n)[i].from = (i - 1) * size + 1
                               /\ Split(n)[i].to = IF i = Parts THEN n ELSE i * size
    <3>1. /\ DOMAIN Split(n) = 1..Parts
          /\ \A i \in 1..Parts :
               Split(n)[i] = [from |-> (i - 1) * (n \div Parts) + 1,
                              to |-> IF i - 1 = Parts - 1 THEN n ELSE (i - 1 + 1) * (n \div Parts)]
      BY <1>3, SplitIs
    <3>2. \A i \in 1..Parts : (i - 1 = Parts - 1 <=> i = Parts) /\ i - 1 + 1 = i
      BY <1>1
    <3> QED BY <3>1, <3>2
  <2> DEFINE q == (k - 1) \div size
             w == IF q < Parts - 1 THEN q + 1 ELSE Parts
  <2>2. size \in Nat \ {0} /\ k - 1 \in Int
    BY <1>1, <1>3
  <2>3. q \in Int /\ q * size <= k - 1 /\ k - 1 < q * size + size
    <3> HIDE DEF size
    <3> QED BY <2>2, Quotient
  <2> HIDE DEF size, q
  <2>4. q >= 0
    <3>1. ~(q + 1 <= 0)
      <4>1. q + 1 <= 0 => (q + 1) * size <= 0 * size
        BY <2>2, <2>3, TimesGrows
      <4>2. (q + 1) * size = q * size + size /\ 0 * size = 0
        BY <2>2, <2>3
      <4> QED BY <2>2, <2>3, <4>1, <4>2
    <3> QED BY <2>3, <3>1
  <2>5. w \in 1..Parts
    BY <1>1, <2>3, <2>4
  <2>6. \A i \in 1..Parts : i * size \in Int /\ (i - 1) * size \in Int
    BY <2>2
  <2>7. \A i \in 1..Parts : i - 1 <= q => (i - 1) * size <= q * size
    <3> SUFFICES ASSUME NEW i \in 1..Parts, i - 1 <= q PROVE (i - 1) * size <= q * size
      OBVIOUS
    <3>1. i - 1 \in Int /\ size \in Nat
      BY <2>2
    <3> QED BY <2>3, <3>1, TimesGrows
  <2>8. q * size \in Int /\ (q + 1) * size = q * size + size
    BY <2>2, <2>3
  <2>9. In(w)
    <3>1. w - 1 <= q /\ (w # Parts => w = q + 1)
      BY <1>1, <2>3
    <3>2. (w - 1) * size <= q * size
      BY <2>5, <2>7, <3>1
    <3>3. w # Parts => w * size = q * size + size
      BY <2>8, <3>1
    <3> HIDE DEF w
    <3>4. (w - 1) * size + 1 <= k
      BY <2>2, <2>3, <2>5, <2>6, <2>8, <3>2
    <3>5. w # Parts => k <= w * size
      BY <2>2, <2>3, <2>8, <3>3
    <3> QED BY <2>1, <2>5, <3>4, <3>5
  <2>10. ASSUME NEW i \in 1..Parts, In(i) PROVE i = w
    <3>1. (i - 1) * size + 1 <= k /\ (i # Parts => k <= i * size)
      BY <2>1, <2>10
    <3>2. (i - 1) * size \in Int /\ i * size \in Int /\ i \in Int
      BY <2>6
    <3>3. i - 1 <= q
      <4>1. q + 1 <= i - 1 => (q + 1) * size <= (i - 1) * size
        <5>1. q + 1 \in Int /\ i - 1 \in Int /\ size \in Nat
          BY <2>2, <2>3
        <5> QED BY <5>1, TimesGrows
      <4>2. ~(q + 1 <= i - 1)
        BY <2>2, <2>3, <2>8, <3>1, <3>2, <4>1
      <4> QED BY <2>3, <3>2, <4>2
    <3>4. CASE i = Parts
      BY <2>3, <3>3, <3>4
    <3>5. CASE i # Parts
      <4>1. i <= q => i * size <= q * size
        BY <2>2, <2>3, <3>2, TimesGrows
      <4>2. ~(i <= q)
        BY <2>2, <2>3, <2>8, <3>1, <3>2, <3>5, <4>1
      <4>3. i = q + 1 /\ i <= Parts - 1
        BY <1>1, <2>3, <3>3, <3>5, <4>2
      <4> QED BY <1>1, <2>3, <4>3
    <3> QED BY <3>4, <3>5
  <2>11. {i \in DOMAIN Split(n) : In(i)} = {w}
    <3> HIDE DEF In, w
    <3> QED BY <2>1, <2>5, <2>9, <2>10
  <2> HIDE DEF In, w
  <2>12. Cardinality({i \in DOMAIN Split(n) : In(i)}) = 1
    BY <2>11, FS_Singleton
  <2> QED BY <2>12 DEF In
<1> QED BY <1>2, <1>3

LEMMA MinIs ==
  \A S : (\E a \in S : \A x \in S : a <= x) => Min(S) \in S
  BY DEF Min

LEMMA MinOfTwo == \A a, b \in Nat : Min({a, b}) = IF a <= b THEN a ELSE b
<1> SUFFICES ASSUME NEW a \in Nat, NEW b \in Nat PROVE Min({a, b}) = IF a <= b THEN a ELSE b
  OBVIOUS
<1> DEFINE m == IF a <= b THEN a ELSE b
<1>1. m \in {a, b} /\ \A x \in {a, b} : m <= x
  OBVIOUS
<1> DEFINE c == CHOOSE x \in {a, b} : \A y \in {a, b} : x <= y
<1>2. c \in {a, b} /\ \A y \in {a, b} : c <= y
  BY <1>1
<1> HIDE DEF c
<1>3. c = m
  BY <1>2
<1> QED BY <1>3 DEF Min, c

\* What the windows of a history can come to.
LEMMA ResultIs ==
  \A n \in Nat : n >= MinCandles =>
    \A r \in Results(n) : /\ r.sum \in Int /\ r.worst \in Int
                          /\ r.wins \in Nat /\ r.windows \in Nat
<1> SUFFICES ASSUME NEW n \in Nat, n >= MinCandles, NEW r \in Results(n)
             PROVE  /\ r.sum \in Int /\ r.worst \in Int /\ r.wins \in Nat /\ r.windows \in Nat
  OBVIOUS
<1>1. PICK m \in Nat \ {0} : DOMAIN Split(n) = 1..m
  <2>1. Parts \in Nat \ {0} /\ 1 \in Nat \ {0}
    BY AdviceAssumption
  <2> QED BY <2>1, SplitIs
<1>2. PICK w \in [1..m -> Returns] : r = Stats(w)
  BY <1>1 DEF Results
<1>3. Len(w) = m /\ DOMAIN w = 1..m /\ \A k \in 1..m : w[k].ret \in Int
  <2>1. \A k \in 1..m : w[k] \in Returns
    BY <1>2
  <2>2. DOMAIN w = 1..m
    BY <1>2
  <2>3. Len(w) = m
    <3>1. m \in Nat
      OBVIOUS
    <3> QED BY <2>2, <3>1
  <2> QED BY <2>1, <2>2, <2>3, AdviceAssumption
<1> DEFINE f == [k \in DOMAIN w |-> w[k].ret]
<1>4. \A k \in 1..m : f[k] \in Int /\ f[k] = w[k].ret
  BY <1>3
<1>5. /\ r.sum = Sum(f, Len(w)) /\ r.worst = Min(Rets(w))
      /\ r.wins = Cardinality({k \in DOMAIN w : w[k].ret > 0}) /\ r.windows = Len(w)
  BY <1>2 DEF Stats
<1> HIDE DEF f
<1>6. r.sum \in Int
  <2>1. m \in Nat
    OBVIOUS
  <2>2. Sum(f, m) \in Int
    BY <1>4, <2>1, SumType
  <2> QED BY <1>3, <1>5, <2>2
<1>7. r.worst \in Int
  <2>1. PICK a \in 1..m : \A k \in 1..m : f[a] <= f[k]
    BY <1>4, RangeEnds
  <2>2. f[a] \in Rets(w) /\ \A x \in Rets(w) : f[a] <= x
    BY <1>3, <1>4, <2>1 DEF Rets
  <2>3. Min(Rets(w)) \in Rets(w)
    BY <2>2, MinIs
  <2>4. Rets(w) \subseteq Int
    BY <1>3 DEF Rets
  <2> QED BY <1>5, <2>3, <2>4
<1>8. r.wins \in Nat
  <2> DEFINE A == {k \in DOMAIN w : w[k].ret > 0}
  <2>1. A \subseteq 1..m
    BY <1>3
  <2>2. IsFiniteSet(1..m)
    BY FS_Interval
  <2>3. r.wins = Cardinality(A)
    BY <1>5
  <2> HIDE DEF A
  <2> QED BY <2>1, <2>2, <2>3, FS_Subset, FS_CardinalityType
<1> QED BY <1>3, <1>5, <1>6, <1>7, <1>8

-----------------------------------------------------------------------------
(* The ranking *)

\* Results of the candidates 1..m.
Scored(stats, m) ==
  /\ m \in Nat /\ DOMAIN stats = 1..m
  /\ \A i \in 1..m : stats[i].sum \in Int /\ stats[i].worst \in Int /\ stats[i].wins \in Nat

Aheads(stats, m) == {p \in (1..m) \X (1..m) : Ahead(stats, p[1], p[2])}

LEMMA AheadRanks == \A stats, m : Scored(stats, m) => Ranked(Aheads(stats, m), 1..m)
<1> SUFFICES ASSUME NEW stats, NEW m, Scored(stats, m) PROVE Ranked(Aheads(stats, m), 1..m)
  OBVIOUS
<1> DEFINE sum(i) == stats[i].sum
           worst(i) == stats[i].worst
           wins(i) == stats[i].wins
           B(i, j) == IF (sum(i) > 0) # (sum(j) > 0) THEN sum(i) > 0
                      ELSE IF worst(i) # worst(j) THEN worst(i) > worst(j)
                      ELSE IF wins(i) # wins(j) THEN wins(i) > wins(j) ELSE sum(i) > sum(j)
<1>1. m \in Nat /\ \A i \in 1..m : sum(i) \in Int /\ worst(i) \in Int /\ wins(i) \in Int
  BY DEF Scored
<1>2. \A i, j \in 1..m : Ahead(stats, i, j) <=> B(i, j) \/ (~B(j, i) /\ i < j)
  BY DEF Ahead, Better
<1> HIDE DEF sum, worst, wins
<1>3. \A i, j \in 1..m : <<i, j>> \in Aheads(stats, m) <=> B(i, j) \/ (~B(j, i) /\ i < j)
  BY <1>2 DEF Aheads
<1>4. \A i \in 1..m : i \in Int
  BY <1>1
<1>5. \A x \in 1..m : ~(B(x, x) \/ (~B(x, x) /\ x < x))
  BY <1>1, <1>4
<1>6. \A x, y \in 1..m : x # y =>
        (B(x, y) \/ (~B(y, x) /\ x < y)) \/ (B(y, x) \/ (~B(x, y) /\ y < x))
  BY <1>1, <1>4
<1>7. \A x, y \in 1..m : ~(B(x, y) /\ B(y, x))
  BY <1>1
<1>8. \A x, y, z \in 1..m : B(x, y) /\ B(y, z) => B(x, z)
  BY <1>1
<1>9. \A x, y, z \in 1..m : ~B(y, x) /\ ~B(z, y) => ~B(z, x)
  BY <1>1
<1> HIDE DEF B
<1>10. \A x, y, z \in 1..m :
         (B(x, y) \/ (~B(y, x) /\ x < y)) /\ (B(y, z) \/ (~B(z, y) /\ y < z)) =>
           B(x, z) \/ (~B(z, x) /\ x < z)
  <2> SUFFICES ASSUME NEW x \in 1..m, NEW y \in 1..m, NEW z \in 1..m,
                      B(x, y) \/ (~B(y, x) /\ x < y), B(y, z) \/ (~B(z, y) /\ y < z)
               PROVE  B(x, z) \/ (~B(z, x) /\ x < z)
    OBVIOUS
  <2>1. ~B(y, x) /\ ~B(z, y)
    BY <1>7
  <2>2. ~B(z, x)
    BY <1>9, <2>1
  <2>3. B(x, y) /\ ~B(z, y) => B(x, z) \/ (~B(x, z) /\ ~B(z, x))
    BY <2>2
  <2>4. x < y /\ y < z => x < z
    BY <1>4
  <2>5. CASE B(x, y) /\ B(y, z)
    BY <1>8, <2>5
  <2>6. CASE x < y /\ y < z
    BY <2>2, <2>4, <2>6
  <2>7. CASE B(x, y) /\ ~B(y, z)
    \* y and z are as good as each other: were x and z so too, x and y would be
    <3>1. ~B(x, z) => ~B(x, y)
      BY <1>9, <2>7
    <3> QED BY <2>7, <3>1
  <2>8. CASE ~B(x, y) /\ B(y, z)
    <3>1. ~B(x, z) => ~B(y, z)
      BY <1>9, <2>8
    <3> QED BY <2>8, <3>1
  <2> QED BY <2>5, <2>6, <2>7, <2>8
<1>11. IsFiniteSet(1..m)
  BY <1>1, FS_Interval
<1> QED BY <1>3, <1>5, <1>6, <1>10, <1>11 DEF Ranked

\* The k-th of the ranking has k - 1 ahead of it.
LEMMA RankingIs ==
  \A stats, m : Scored(stats, m) =>
    /\ DOMAIN Ranking(stats) = 1..m
    /\ \A k \in 1..m : /\ Ranking(stats)[k] \in 1..m
                       /\ Rank(Aheads(stats, m), 1..m, Ranking(stats)[k]) = k - 1
<1> SUFFICES ASSUME NEW stats, NEW m, Scored(stats, m)
             PROVE  /\ DOMAIN Ranking(stats) = 1..m
                    /\ \A k \in 1..m :
                         /\ Ranking(stats)[k] \in 1..m
                         /\ Rank(Aheads(stats, m), 1..m, Ranking(stats)[k]) = k - 1
  OBVIOUS
<1>1. DOMAIN stats = 1..m /\ m \in Nat
  BY DEF Scored
<1> DEFINE At(k, i) == Cardinality({j \in 1..m : Ahead(stats, j, i)}) = k - 1
<1>2. Ranking(stats) = [k \in 1..m |-> CHOOSE i \in 1..m : At(k, i)]
  BY <1>1 DEF Ranking
<1>3. ASSUME NEW k \in 1..m, NEW i \in 1..m
      PROVE  At(k, i) <=> Rank(Aheads(stats, m), 1..m, i) = k - 1
  <2>1. {j \in 1..m : Ahead(stats, j, i)} = {j \in 1..m : <<j, i>> \in Aheads(stats, m)}
    BY DEF Aheads
  <2> QED BY <2>1 DEF Rank
<1> HIDE DEF At
<1>4. ASSUME NEW k \in 1..m PROVE \E i \in 1..m : At(k, i)
  <2>1. k - 1 \in Nat /\ k - 1 < m
    BY <1>1
  <2>2. Cardinality(1..m) = m
    BY <1>1, FS_Interval
  <2>3. \E i \in 1..m : Rank(Aheads(stats, m), 1..m, i) = k - 1
    BY <2>1, <2>2, AheadRanks, RankTaken
  <2> QED BY <1>3, <2>3
<1>5. ASSUME NEW k \in 1..m
      PROVE  Ranking(stats)[k] \in 1..m /\ At(k, Ranking(stats)[k])
  <2>1. Ranking(stats)[k] = CHOOSE i \in 1..m : At(k, i)
    BY <1>2
  <2> QED BY <1>4, <2>1
<1> QED BY <1>2, <1>3, <1>5

\* The first of the ranking is ahead of every other candidate.
LEMMA FirstLeads ==
  \A stats, m : Scored(stats, m) /\ m > 0 =>
    /\ Ranking(stats)[1] \in 1..m
    /\ \A i \in 1..m : i # Ranking(stats)[1] => Ahead(stats, Ranking(stats)[1], i)
<1> SUFFICES ASSUME NEW stats, NEW m, Scored(stats, m), m > 0
             PROVE  /\ Ranking(stats)[1] \in 1..m
                    /\ \A i \in 1..m : i # Ranking(stats)[1] => Ahead(stats, Ranking(stats)[1], i)
  OBVIOUS
<1> DEFINE L == Aheads(stats, m)
           b == Ranking(stats)[1]
<1>1. m \in Nat /\ 1 \in 1..m
  BY DEF Scored
<1>2. b \in 1..m /\ Rank(L, 1..m, b) = 0
  BY <1>1, RankingIs
<1>3. Ranked(L, 1..m)
  BY AheadRanks
<1> HIDE DEF b, L
<1>4. ASSUME NEW i \in 1..m, i # b PROVE <<b, i>> \in L
  <2>1. Rank(L, 1..m, i) \in Nat
    BY <1>3, RankType
  <2>2. Rank(L, 1..m, i) # 0
    BY <1>2, <1>3, <1>4, RankOrders
  <2>3. Rank(L, 1..m, b) < Rank(L, 1..m, i)
    BY <1>2, <2>1, <2>2
  <2> QED BY <1>2, <1>3, <2>3, RankOrders
<1>5. \A i \in 1..m : i # b => Ahead(stats, b, i)
  BY <1>4 DEF Aheads, L
<1> QED BY <1>2, <1>5 DEF b

-----------------------------------------------------------------------------
(* The candidates *)

Offers == [range : Spans \cup {NoSpan, RecentRange}, grids : 2..MostGrids]
Lists == {l \in Seq(Offers) : \A i, j \in DOMAIN l : l[i] = l[j] => i = j}

LEMMA AddedIs ==
  \A l \in Lists, r \in Spans \cup {NoSpan, RecentRange}, g \in Nat : Added(l, r, g) \in Lists
<1> SUFFICES ASSUME NEW l \in Lists, NEW r \in Spans \cup {NoSpan, RecentRange}, NEW g \in Nat
             PROVE  Added(l, r, g) \in Lists
  OBVIOUS
<1> DEFINE grids == IF g < MostGrids THEN g ELSE MostGrids
           c == [range |-> r, grids |-> grids]
<1>1. CASE g = 0 \/ grids < 2 \/ c \in ToSet(l)
  <2>1. Added(l, r, g) = l
    BY <1>1 DEF Added
  <2> QED BY <2>1
<1>2. CASE ~(g = 0 \/ grids < 2 \/ c \in ToSet(l))
  <2>1. Added(l, r, g) = Append(l, c)
    BY <1>2 DEF Added
  <2>2. grids \in 2..MostGrids
    <3>1. grids \in Nat /\ grids <= MostGrids /\ MostGrids \in Nat
      BY AdviceAssumption
    <3> HIDE DEF grids
    <3> QED BY <1>2, <3>1
  <2>3. c \in Offers
    <3> HIDE DEF grids
    <3> QED BY <2>2 DEF Offers
  <2>4. \A i \in DOMAIN l : l[i] # c
    BY <1>2 DEF ToSet
  <2> HIDE DEF c, grids
  <2>5. l \in Seq(Offers) /\ \A i, j \in DOMAIN l : l[i] = l[j] => i = j
    BY DEF Lists
  <2> DEFINE a == Append(l, c)
  <2>6. /\ a \in Seq(Offers) /\ DOMAIN l = 1..Len(l) /\ DOMAIN a = 1..Len(l) + 1
        /\ a[Len(l) + 1] = c /\ \A i \in 1..Len(l) : a[i] = l[i]
    BY <2>3, <2>5
  <2> HIDE DEF a
  <2>7. Len(l) \in Nat
    BY <2>5
  <2>8. \A i \in DOMAIN a : i = Len(l) + 1 \/ i \in DOMAIN l
    BY <2>6, <2>7
  <2>9. \A i, j \in DOMAIN a : a[i] = a[j] => i = j
    BY <2>4, <2>5, <2>6, <2>8
  <2>10. a \in Lists
    BY <2>6, <2>9 DEF Lists
  <2> QED BY <2>1, <2>10 DEF a
<1> QED BY <1>1, <1>2

\* Generates' list.
Generated(list, props, derived) ==
  list = [n \in 0..Len(props) * Multipliers |->
            IF n = 0 THEN << >>
            ELSE LET i == ((n - 1) \div Multipliers) + 1
                     k == ((n - 1) % Multipliers) + 1
                 IN  Added(list[n - 1], props[i], derived[<<i, k>>])]

LEMMA ListIs ==
  \A props, derived :
    /\ props \in Seq(Spans \cup {NoSpan, RecentRange})
    /\ derived \in [(1..Len(props)) \X (1..Multipliers) -> GridCounts]
    => (CHOOSE l : Generated(l, props, derived))[Len(props) * Multipliers] \in Lists
<1> SUFFICES ASSUME NEW props \in Seq(Spans \cup {NoSpan, RecentRange}), NEW derived,
                    derived \in [(1..Len(props)) \X (1..Multipliers) -> GridCounts]
             PROVE  (CHOOSE l : Generated(l, props, derived))[Len(props) * Multipliers] \in Lists
  OBVIOUS
<1> DEFINE tries == Len(props) * Multipliers
           i(n) == ((n - 1) \div Multipliers) + 1
           k(n) == ((n - 1) % Multipliers) + 1
           F == [n \in Nat |-> [l \in Lists |->
                  IF n \in 1..tries THEN Added(l, props[i(n)], derived[<<i(n), k(n)>>]) ELSE l]]
<1>1. Multipliers \in Nat /\ Len(props) \in Nat /\ tries \in Nat
  BY AdviceAssumption, NatTimes
<1>2. ASSUME NEW n \in 1..tries PROVE i(n) \in 1..Len(props) /\ k(n) \in 1..Multipliers
  <2>1. Multipliers # 0
    BY <1>1
  <2> DEFINE q == (n - 1) \div Multipliers
  <2>2. n - 1 \in Nat /\ Multipliers \in Nat \ {0} /\ n - 1 < tries
    BY <1>1, <2>1
  <2>3. q \in Int /\ q * Multipliers <= n - 1 /\ n - 1 < q * Multipliers + Multipliers
    BY <2>2, Quotient
  <2>4. (n - 1) % Multipliers \in 0..Multipliers - 1
    <3> HIDE DEF tries
    <3> QED BY <2>2
  <2> HIDE DEF q
  <2>5. q >= 0
    <3>1. q + 1 <= 0 => (q + 1) * Multipliers <= 0 * Multipliers
      BY <2>2, <2>3, TimesGrows
    <3>2. (q + 1) * Multipliers = q * Multipliers + Multipliers /\ 0 * Multipliers = 0
      BY <2>2, <2>3
    <3>3. q * Multipliers \in Int
      BY <2>2, <2>3, IntTimes
    <3> QED BY <2>2, <2>3, <3>1, <3>2, <3>3
  <2>6. q < Len(props)
    <3>1. Len(props) <= q => Len(props) * Multipliers <= q * Multipliers
      <4>1. Len(props) \in Int /\ q \in Int /\ Multipliers \in Nat
        BY <1>1, <2>3
      <4> QED BY <4>1, TimesGrows
    <3>2. q * Multipliers \in Int
      BY <2>2, <2>3, IntTimes
    <3>3. Len(props) * Multipliers > q * Multipliers
      BY <1>1, <2>2, <2>3, <3>2
    <3>4. ~(Len(props) <= q)
      BY <1>1, <3>1, <3>2, <3>3
    <3> QED BY <1>1, <2>3, <3>4
  <2>7. i(n) \in 1..Len(props)
    BY <1>1, <2>3, <2>5, <2>6 DEF q
  <2>8. k(n) \in 1..Multipliers
    BY <1>1, <2>4
  <2> QED BY <2>7, <2>8
<1> HIDE DEF i, k
<1>3. ASSUME NEW n \in 1..tries, NEW l \in Lists
      PROVE  Added(l, props[i(n)], derived[<<i(n), k(n)>>]) \in Lists
  <2>1. props[i(n)] \in Spans \cup {NoSpan, RecentRange}
    BY <1>2
  <2>2. derived[<<i(n), k(n)>>] \in Nat
    BY <1>2, AdviceAssumption
  <2> QED BY <2>1, <2>2, AddedIs
<1>4. F \in [Nat -> [Lists -> Lists]]
  BY <1>3
<1>5. << >> \in Lists
  BY DEF Lists
<1>6. Recurs(Lists, << >>, F, tries)
  <2> HIDE DEF F, tries
  <2> QED BY <1>1, <1>4, <1>5, RecursUpTo
<1>7. PICK g : g \in [0..tries -> Lists] /\ g[0] = << >> /\ \A n \in 1..tries : g[n] = F[n][g[n - 1]]
  <2> HIDE DEF F
  <2> QED BY <1>6 DEF Recurs
<1>8. \A n \in 1..tries : g[n] = Added(g[n - 1], props[i(n)], derived[<<i(n), k(n)>>])
  <2>1. ASSUME NEW n \in 1..tries
        PROVE  g[n] = Added(g[n - 1], props[i(n)], derived[<<i(n), k(n)>>])
    <3>1. n \in Nat /\ g[n - 1] \in Lists
      BY <1>1, <1>7
    <3>2. F[n][g[n - 1]] = Added(g[n - 1], props[i(n)], derived[<<i(n), k(n)>>])
      BY <3>1
    <3> QED BY <1>7, <3>2
  <2> QED BY <2>1
<1> HIDE DEF F
<1>9. Generated(g, props, derived)
  <2>1. \A n \in 0..tries : n = 0 \/ n \in 1..tries
    BY <1>1
  <2>2. \A n \in 0..tries : g[n] = IF n = 0 THEN << >>
                              ELSE Added(g[n - 1], props[i(n)], derived[<<i(n), k(n)>>])
    BY <1>1, <1>7, <1>8, <2>1
  <2>3. g = [n \in 0..tries |-> IF n = 0 THEN << >>
                              ELSE Added(g[n - 1], props[i(n)], derived[<<i(n), k(n)>>])]
    BY <1>7, <2>2
  <2> QED BY <2>3 DEF Generated, i, k
<1> DEFINE h == CHOOSE u : Generated(u, props, derived)
<1>10. Generated(h, props, derived)
  BY <1>9
<1> HIDE DEF h
<1>11. \A n \in 0..tries : h[n] = IF n = 0 THEN << >>
                              ELSE Added(h[n - 1], props[i(n)], derived[<<i(n), k(n)>>])
  BY <1>10 DEF Generated, i, k
<1> DEFINE Good == {n \in Nat : n \in 0..tries => h[n] \in Lists}
<1>12. 0 \in Good
  <2>1. 0 \in 0..tries
    BY <1>1
  <2> QED BY <1>5, <1>11, <2>1
<1>13. ASSUME NEW n \in Nat, n \in Good PROVE n + 1 \in Good
  <2>1. ASSUME n + 1 \in 0..tries PROVE h[n + 1] \in Lists
    <3>1. n \in 0..tries /\ n + 1 \in 1..tries /\ n + 1 - 1 = n /\ n + 1 # 0
      BY <1>1, <2>1
    <3>2. \A m \in 0..tries : m # 0 =>
            h[m] = Added(h[m - 1], props[i(m)], derived[<<i(m), k(m)>>])
      BY <1>11
    <3>3. h[n + 1] = Added(h[n], props[i(n + 1)], derived[<<i(n + 1), k(n + 1)>>])
      BY <2>1, <3>1, <3>2
    <3>4. h[n] \in Lists
      BY <1>13, <3>1
    <3> QED BY <1>3, <3>1, <3>3, <3>4
  <2> QED BY <2>1
<1>14. Nat \subseteq Good
  <2> HIDE DEF Good
  <2> QED BY <1>12, <1>13, SetInduction
<1>15. tries \in 0..tries
  BY <1>1
<1>16. h[tries] \in Lists
  BY <1>1, <1>14, <1>15
<1> QED BY <1>16 DEF h

-----------------------------------------------------------------------------
(* The advice *)

Placed(stats) ==
  [k \in DOMAIN Ranking(stats) |-> [of |-> Ranking(stats)[k], stats |-> stats[Ranking(stats)[k]]]]

Top(stats) == SubSeq(Placed(stats), 1, Min({TopN, Len(Placed(stats))}))

\* What Scores answers.
Given(gate, stats) ==
  [kind |-> "advice", verdict |-> Verdict(gate, RobustnessVerdict(Placed(stats))),
   reason |-> Reason(gate, RobustnessVerdict(Placed(stats))),
   top |-> Top(stats)]

\* Before the advice there is no outcome; the candidates were made when the history
\* was long enough, and what is answered follows from what came of them.
AdviceInv ==
  /\ request \in [history : Histories, dir : {"long", "short"}, range : Spans \cup {NoSpan}]
  /\ candidates \in Lists
  /\ \/ outcome = << >> /\ answer \in {NoAnswer, [kind |-> "insufficient_data"]}
     \/ /\ outcome = << >> /\ Len(request.history) >= MinCandles
        /\ answer = [kind |-> "generated",
                     gate |-> GridVerdict(Regime(request.history), request.dir)]
     \/ /\ Len(request.history) >= MinCandles
        /\ outcome \in [DOMAIN candidates -> Results(Len(request.history))]
        /\ answer = Given(GridVerdict(Regime(request.history), request.dir), outcome)

LEMMA AdviceInitial == AdviceInit => AdviceInv
  BY DEF AdviceInit, AdviceInv, Lists, NoAnswer

LEMMA AdviceStep == AdviceInv /\ [AdviceNext]_adviceVars => AdviceInv'
<1> SUFFICES ASSUME AdviceInv, [AdviceNext]_adviceVars PROVE AdviceInv'
  OBVIOUS
<1>1. CASE Declines
  <2>1. outcome = << >> /\ outcome' = << >> /\ answer' = [kind |-> "insufficient_data"]
    BY <1>1 DEF Declines, AdviceInv, NoAnswer, Given
  <2> QED BY <1>1, <2>1 DEF Declines, AdviceInv
<1>2. CASE Generates
  <2> DEFINE gate == GridVerdict(Regime(request.history), request.dir)
  <2>1. /\ answer = NoAnswer /\ Len(request.history) >= MinCandles
        /\ answer' = [kind |-> "generated", gate |-> gate]
        /\ request' = request /\ outcome' = outcome
    BY <1>2 DEF Generates
  <2>2. outcome = << >>
    BY <2>1 DEF AdviceInv, NoAnswer, Given
  <2>3. PICK derived \in [(1..Len(Proposed)) \X (1..Multipliers) -> GridCounts] :
          candidates' = (CHOOSE l : Generated(l, Proposed, derived))[Len(Proposed) * Multipliers]
    BY <1>2 DEF Generates, Generated
  <2>4. Proposed \in Seq(Spans \cup {NoSpan, RecentRange})
    <3>1. request.range \in Spans \cup {NoSpan}
      BY DEF AdviceInv
    <3> DEFINE r == request.range
               S == Spans \cup {NoSpan, RecentRange}
    <3>2. r \in S /\ RecentRange \in S
      BY <3>1
    <3>3. Proposed = (IF r[1] < r[2] THEN << r >> ELSE << >>) \o << RecentRange >>
      BY DEF Proposed
    <3> HIDE DEF r, S
    <3>4. << r >> \o << RecentRange >> \in Seq(S) /\ << >> \o << RecentRange >> \in Seq(S)
      <4>1. << r >> \in Seq(S) /\ << RecentRange >> \in Seq(S) /\ << >> \in Seq(S)
        BY <3>2
      <4> QED BY <4>1
    <3>5. Proposed \in Seq(S)
      <4>1. CASE r[1] < r[2]
        BY <3>3, <3>4, <4>1
      <4>2. CASE ~(r[1] < r[2])
        BY <3>3, <3>4, <4>2
      <4> QED BY <4>1, <4>2
    <3> QED BY <3>5 DEF S
  <2>5. candidates' \in Lists
    BY <2>3, <2>4, ListIs
  <2>6. (GridVerdict(Regime(request.history), request.dir))' = gate
    BY <2>1
  <2> HIDE DEF gate
  <2> QED BY <2>1, <2>2, <2>5, <2>6 DEF AdviceInv
<1>3. CASE Scores
  <2> DEFINE gate == GridVerdict(Regime(request.history), request.dir)
  <2>1. /\ answer.kind = "generated" /\ request' = request /\ candidates' = candidates
    BY <1>3 DEF Scores
  <2>2. Len(request.history) >= MinCandles /\ answer.gate = gate
    BY <2>1 DEF AdviceInv, NoAnswer, Given
  <2>3. PICK stats \in [DOMAIN candidates -> Results(Len(request.history))] :
          outcome' = stats /\ answer' = Given(answer.gate, stats)
    BY <1>3 DEF Scores, Given, Placed, Top
  <2>4. (GridVerdict(Regime(request.history), request.dir))' = gate
    BY <2>1
  <2>5. answer' = Given(gate, outcome')
    BY <2>2, <2>3
  <2>6. Given(gate, outcome') = Given(gate, outcome)'
    BY <2>1
  <2> QED BY <2>1, <2>2, <2>3, <2>4, <2>5 DEF AdviceInv
<1>4. CASE UNCHANGED adviceVars
  BY <1>4 DEF AdviceInv, adviceVars
<1> QED BY <1>1, <1>2, <1>3, <1>4 DEF AdviceNext

\* The first place in the answer is the first of the ranking.
LEMMA TopIs ==
  \A stats, m : Scored(stats, m) =>
    /\ (Placed(stats) = << >> <=> m = 0)
    /\ (Top(stats) = << >> <=> m = 0)
    /\ m > 0 => /\ Top(stats)[1] = Placed(stats)[1]
                /\ Placed(stats)[1].stats = stats[Ranking(stats)[1]]
<1> SUFFICES ASSUME NEW stats, NEW m, Scored(stats, m)
             PROVE  /\ (Placed(stats) = << >> <=> m = 0)
                    /\ (Top(stats) = << >> <=> m = 0)
                    /\ m > 0 =>
                         /\ Top(stats)[1] = Placed(stats)[1]
                         /\ Placed(stats)[1].stats = stats[Ranking(stats)[1]]
  OBVIOUS
<1> DEFINE p == Placed(stats)
           S == {p[k] : k \in 1..m}
           n == Min({TopN, m})
<1>1. m \in Nat /\ DOMAIN Ranking(stats) = 1..m
  BY RankingIs DEF Scored
<1>2. p = [k \in 1..m |-> [of |-> Ranking(stats)[k], stats |-> stats[Ranking(stats)[k]]]]
  BY <1>1 DEF Placed
<1>3. m > 0 => p[1].stats = stats[Ranking(stats)[1]]
  <2>1. m > 0 => 1 \in 1..m
    BY <1>1
  <2> QED BY <1>2, <2>1
<1>4. DOMAIN p = 1..m /\ \E D : p = [k \in 1..m |-> D[k]]
  BY <1>2
<1> HIDE DEF p
<1>5. p \in Seq(S) /\ Len(p) = m
  <2>1. p \in [1..m -> S]
    BY <1>4
  <2> HIDE DEF S
  <2> QED BY <1>1, <2>1
<1>6. n \in 0..m /\ (n = 0 <=> m = 0)
  <2>1. TopN \in Nat \ {0}
    BY AdviceAssumption
  <2> QED BY <1>1, <2>1, MinOfTwo
<1> HIDE DEF n, S
<1>7. (p = << >> <=> m = 0)
  BY <1>1, <1>5
<1>8. Len(SubSeq(p, 1, n)) = n /\ SubSeq(p, 1, n) \in Seq(S) /\ (n > 0 => SubSeq(p, 1, n)[1] = p[1])
  <2>1. SubSeq(p, 1, n) = [i \in 1..n |-> p[i]]
    <3>1. n \in Nat
      BY <1>1, <1>6
    <3> QED BY <1>5, <1>6, <3>1
  <2>2. \A i \in 1..n : p[i] \in S
    BY <1>1, <1>5, <1>6
  <2> QED BY <1>1, <1>6, <2>1, <2>2
<1>9. (SubSeq(p, 1, n) = << >> <=> m = 0)
  <2>1. \A t \in Seq(S) : (t = << >> <=> Len(t) = 0)
    OBVIOUS
  <2> QED BY <1>6, <1>8, <2>1
<1>10. m > 0 => SubSeq(p, 1, n)[1] = p[1]
  BY <1>1, <1>6, <1>8
<1> QED BY <1>3, <1>5, <1>7, <1>9, <1>10 DEF n, p, Top

\* What came of the candidates, when there is advice.
LEMMA Outcomes ==
  AdviceInv /\ answer.kind = "advice" =>
    /\ Scored(outcome, Len(candidates))
    /\ answer = Given(GridVerdict(Regime(request.history), request.dir), outcome)
<1> SUFFICES ASSUME AdviceInv, answer.kind = "advice"
             PROVE  /\ Scored(outcome, Len(candidates))
                    /\ answer = Given(GridVerdict(Regime(request.history), request.dir), outcome)
  OBVIOUS
<1>1. /\ Len(request.history) >= MinCandles
      /\ outcome \in [DOMAIN candidates -> Results(Len(request.history))]
      /\ answer = Given(GridVerdict(Regime(request.history), request.dir), outcome)
  BY DEF AdviceInv, NoAnswer
<1>2. candidates \in Seq(Offers) /\ request.history \in Seq(Nat \ {0})
  BY AdviceAssumption DEF AdviceInv, Lists
<1>3. Len(candidates) \in Nat /\ DOMAIN candidates = 1..Len(candidates) /\ Len(request.history) \in Nat
  BY <1>2
<1>4. \A i \in 1..Len(candidates) : outcome[i] \in Results(Len(request.history))
  BY <1>1, <1>3
<1>5. \A i \in 1..Len(candidates) : /\ outcome[i].sum \in Int /\ outcome[i].worst \in Int
                                    /\ outcome[i].wins \in Nat
  BY <1>1, <1>3, <1>4, ResultIs
<1> QED BY <1>1, <1>3, <1>5 DEF Scored

LEMMA AdviceTypes == AdviceInv => AdviceTypeOK
<1> SUFFICES ASSUME AdviceInv PROVE AdviceTypeOK
  OBVIOUS
<1>1. request.history \in Histories /\ request.dir \in {"long", "short"}
  BY DEF AdviceInv
<1>2. candidates \in Seq(Offers)
  BY DEF AdviceInv, Lists
<1>3. \A k \in DOMAIN candidates : candidates[k].grids \in Nat
  <2>1. \A k \in DOMAIN candidates : candidates[k] \in Offers
    BY <1>2
  <2>2. \A c \in Offers : c.grids \in Nat
    BY AdviceAssumption DEF Offers
  <2> QED BY <2>1, <2>2
<1>4. DOMAIN outcome \subseteq DOMAIN candidates
  <2>1. CASE outcome = << >>
    BY <2>1
  <2>2. CASE outcome \in [DOMAIN candidates -> Results(Len(request.history))]
    BY <2>2
  <2> QED BY <2>1, <2>2 DEF AdviceInv
<1>5. answer.kind \in {"none", "insufficient_data", "generated", "advice"}
  BY DEF AdviceInv, NoAnswer, Given
<1> QED BY <1>1, <1>3, <1>4, <1>5 DEF AdviceTypeOK

LEMMA GreenEarned == AdviceInv => GreenIsEarned
<1> SUFFICES ASSUME AdviceInv, answer.kind = "advice" PROVE GreenIsEarned
  BY DEF GreenIsEarned
<1> DEFINE gate == GridVerdict(Regime(request.history), request.dir)
           m == Len(candidates)
           evidence == RobustnessVerdict(Placed(outcome))
           s == Placed(outcome)[1].stats
<1>1. Scored(outcome, m) /\ answer = Given(gate, outcome)
  BY Outcomes
<1>2. /\ answer.verdict = Verdict(gate, evidence) /\ answer.reason = Reason(gate, evidence)
      /\ answer.top = Top(outcome)
  BY <1>1 DEF Given
<1>3. gate \in {"recommend", "caution", "no_go"} /\ (gate = "recommend" => Regime(request.history) = "range")
  BY DEF GridVerdict
<1>4. evidence \in {"recommend", "caution", "no_go"}
  BY DEF RobustnessVerdict
<1>5. evidence = "recommend" =>
        /\ Placed(outcome) # << >> /\ ~(s.sum <= 0) /\ ~(2 * s.wins < s.windows) /\ ~(s.worst <= -20)
  BY DEF RobustnessVerdict
<1>6. m \in Nat
  BY <1>1 DEF Scored
<1>7. Placed(outcome) # << >> =>
        answer.top # << >> /\ answer.top[1].stats = s
        /\ s = outcome[Ranking(outcome)[1]] /\ Ranking(outcome)[1] \in 1..m
  <2> HIDE DEF m
  <2>1. /\ (Placed(outcome) = << >> <=> m = 0)
        /\ (answer.top = << >> <=> m = 0)
        /\ m > 0 => answer.top[1] = Placed(outcome)[1] /\ s = outcome[Ranking(outcome)[1]]
    <3> HIDE DEF gate, evidence
    <3>1. (Placed(outcome) = << >> <=> m = 0)
      BY <1>1, TopIs
    <3>2. (answer.top = << >> <=> m = 0)
      BY <1>1, <1>2, TopIs
    <3>3. m > 0 => answer.top[1] = Placed(outcome)[1]
      BY <1>1, <1>2, TopIs
    <3>4. m > 0 => s = outcome[Ranking(outcome)[1]]
      BY <1>1, TopIs
    <3> QED BY <3>1, <3>2, <3>3, <3>4
  <2>2. m > 0 => Ranking(outcome)[1] \in 1..m
    BY <1>1, FirstLeads
  <2> HIDE DEF gate, evidence
  <2>3. m # 0 => m > 0
    BY <1>6
  <2> QED BY <2>1, <2>2, <2>3
<1>8. Placed(outcome) # << >> =>
        s.sum \in Int /\ s.wins \in Nat /\ s.windows \in Nat /\ s.worst \in Int
  <2>1. /\ Len(request.history) >= MinCandles
        /\ outcome \in [DOMAIN candidates -> Results(Len(request.history))]
    BY DEF AdviceInv, NoAnswer
  <2>2. candidates \in Seq(Offers) /\ request.history \in Seq(Nat \ {0})
    BY AdviceAssumption DEF AdviceInv, Lists
  <2>3. DOMAIN candidates = 1..m /\ Len(request.history) \in Nat
    BY <2>2
  <2>4. Placed(outcome) # << >> => s \in Results(Len(request.history))
    BY <1>7, <2>1, <2>3
  <2> QED BY <2>1, <2>3, <2>4, ResultIs
<1> HIDE DEF s, m, evidence, gate
<1>9. Verdict(gate, evidence) = "recommend" => gate = "recommend" /\ evidence = "recommend"
  BY <1>3, <1>4 DEF Verdict, Severity
<1>10. Reason(gate, evidence) = "favorable" <=> Verdict(gate, evidence) = "recommend"
  BY <1>3, <1>4 DEF Verdict, Severity, Reason
<1>11. Reason(gate, evidence) = "regime_against" => Verdict(gate, evidence) = "no_go"
  BY <1>3, <1>4 DEF Verdict, Severity, Reason
<1>12. ASSUME answer.verdict = "recommend"
       PROVE  /\ answer.top # << >>
              /\ LET t == answer.top[1].stats IN t.sum > 0 /\ 2 * t.wins >= t.windows /\ t.worst > -20
              /\ Regime(request.history) = "range"
  <2>1. gate = "recommend" /\ evidence = "recommend"
    BY <1>2, <1>9, <1>12
  <2>2. s.sum > 0 /\ 2 * s.wins >= s.windows /\ s.worst > -20
    BY <1>5, <1>8, <2>1
  <2> QED BY <1>3, <1>5, <1>7, <2>1, <2>2
<1> QED BY <1>2, <1>10, <1>11, <1>12 DEF GreenIsEarned

LEMMA BestFirst == AdviceInv => BestIsFirst
<1> SUFFICES ASSUME AdviceInv, answer.kind = "advice", answer.top # << >>, NEW i \in DOMAIN outcome
             PROVE  outcome[i].sum > 0 =>
                      /\ answer.top[1].stats.sum > 0
                      /\ answer.top[1].stats.worst >= outcome[i].worst
  BY DEF BestIsFirst
<1> DEFINE m == Len(candidates)
           b == Ranking(outcome)[1]
<1>1. /\ Scored(outcome, m)
      /\ answer = Given(GridVerdict(Regime(request.history), request.dir), outcome)
  BY Outcomes
<1>2. answer.top = Top(outcome)
  BY <1>1 DEF Given
<1> HIDE DEF m
<1>3. m \in Nat /\ i \in 1..m
  BY <1>1 DEF Scored
<1>4. /\ answer.top[1].stats = outcome[b] /\ b \in 1..m
      /\ i # b => Ahead(outcome, b, i)
  <2>1. m > 0
    BY <1>3
  <2>2. answer.top[1] = Placed(outcome)[1] /\ Placed(outcome)[1].stats = outcome[b]
    BY <1>1, <1>2, <2>1, TopIs
  <2>3. b \in 1..m /\ \A j \in 1..m : j # b => Ahead(outcome, b, j)
    BY <1>1, <2>1, FirstLeads
  <2> QED BY <1>3, <2>2, <2>3
<1> HIDE DEF b
<1>5. /\ outcome[i].sum \in Int /\ outcome[i].worst \in Int /\ outcome[i].wins \in Nat
      /\ outcome[b].sum \in Int /\ outcome[b].worst \in Int /\ outcome[b].wins \in Nat
  BY <1>1, <1>3, <1>4 DEF Scored
<1>6. i # b /\ outcome[i].sum > 0 => outcome[b].sum > 0 /\ outcome[b].worst >= outcome[i].worst
  BY <1>4, <1>5 DEF Ahead, Better
<1>7. CASE i = b
  BY <1>4, <1>5, <1>7
<1>8. CASE i # b
  BY <1>4, <1>6, <1>8
<1> QED BY <1>7, <1>8

LEMMA CandidatesSound == AdviceInv => CandidatesAreSound
<1> SUFFICES ASSUME AdviceInv PROVE CandidatesAreSound
  OBVIOUS
<1>1. candidates \in Seq(Offers) /\ request.history \in Seq(Nat \ {0})
  BY AdviceAssumption DEF AdviceInv, Lists
<1>2. \A i, j \in DOMAIN candidates : candidates[i] = candidates[j] => i = j
  BY DEF AdviceInv, Lists
<1>3. \A i \in DOMAIN candidates : candidates[i].grids \in 2..MostGrids
  <2>1. \A i \in DOMAIN candidates : candidates[i] \in Offers
    BY <1>1
  <2> QED BY <2>1 DEF Offers
<1>4. Len(request.history) \in Nat
  BY <1>1
<1> QED BY <1>2, <1>3, <1>4, SplitParts DEF CandidatesAreSound

\* A request for advice, for all histories, returns and bounds: the state is well-typed;
\* green is given only where the best candidate earned it and the market has no trend,
\* with the reason that goes with it (advisor.ts:77-88, 209-221); none of the others
\* would have been the better choice (robustness.ts:57-76); each candidate can be
\* created and is tried once, in windows that cover the history (advisor.ts:92-178).
THEOREM AdviceIsSound ==
  AdviceSpec => [](AdviceTypeOK /\ GreenIsEarned /\ BestIsFirst /\ CandidatesAreSound)
<1>1. AdviceInit => AdviceInv
  BY AdviceInitial
<1>2. AdviceInv /\ [AdviceNext]_adviceVars => AdviceInv'
  BY AdviceStep
<1>3. AdviceInv => AdviceTypeOK /\ GreenIsEarned /\ BestIsFirst /\ CandidatesAreSound
  BY AdviceTypes, GreenEarned, BestFirst, CandidatesSound
<1> QED BY <1>1, <1>2, <1>3, PTL DEF AdviceSpec

=============================================================================
