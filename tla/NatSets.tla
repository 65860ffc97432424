-------------------------------- MODULE NatSets --------------------------------
(***************************************************************************)
(* Induction on the natural numbers for a set, and what it gives of sums   *)
(* defined by a recursive function and of the largest value over a bounded *)
(* set; bounds of a rounded quotient.  The library states induction for a  *)
(* predicate, an operator parameter; a set needs none.                     *)
(***************************************************************************)
EXTENDS Naturals, Rounding, WellFoundedInduction, TLAPS

\* The order of the natural numbers is well founded.
LEMMA LessThanWellFounded == IsWellFoundedOn({ss \in Nat \X Nat : ss[1] < ss[2]}, Nat)
BY NatLessThanWellFounded DEF OpToRel

\* A set that holds 0 and is closed under successor holds every number.
LEMMA SetInduction ==
  ASSUME NEW S, 0 \in S, \A n \in Nat : n \in S => n + 1 \in S
  PROVE  Nat \subseteq S
<1> DEFINE R == {ss \in Nat \X Nat : ss[1] < ss[2]}
           T == Nat \ S
<1>1. SUFFICES ASSUME T # {} PROVE FALSE
  OBVIOUS
<1>2. PICK x \in T : \A y \in T : ~(<<y, x>> \in R)
  <2>1. T \subseteq Nat /\ IsWellFoundedOn(R, Nat)
    BY LessThanWellFounded
  <2> HIDE DEF R, T
  <2> QED BY <1>1, <2>1, WFMin
<1>3. x \in Nat /\ x # 0
  OBVIOUS
<1>4. x - 1 \in T /\ <<x - 1, x>> \in R
  BY <1>3
<1> QED BY <1>2, <1>4

\* f holds the partial sums of g up to L.
PartialSums(f, g, L) == f = [n \in 0..L |-> IF n = 0 THEN 0 ELSE f[n - 1] + g[n]]

\* Partial sums of natural numbers exist: the recursion defines a function.
LEMMA PartialSumsExist ==
  ASSUME NEW g, NEW L \in Nat, \A n \in 1..L : g[n] \in Nat
  PROVE  \E f \in [0..L -> Nat] : PartialSums(f, g, L)
<1> DEFINE S == {m \in Nat : m <= L => \E f \in [0..m -> Nat] : PartialSums(f, g, m)}
<1>1. 0 \in S
  <2> DEFINE z == [n \in 0..0 |-> 0]
  <2>1. z \in [0..0 -> Nat] OBVIOUS
  <2>2. PartialSums(z, g, 0) BY DEF PartialSums
  <2> QED BY <2>1, <2>2
<1>2. ASSUME NEW m \in Nat, m \in S PROVE m + 1 \in S
  <2> SUFFICES ASSUME m + 1 <= L
               PROVE  \E f \in [0..(m + 1) -> Nat] : PartialSums(f, g, m + 1)
    OBVIOUS
  <2>1. PICK f \in [0..m -> Nat] : PartialSums(f, g, m)
    BY <1>2
  <2> DEFINE h == [n \in 0..(m + 1) |-> IF n = m + 1 THEN f[m] + g[m + 1] ELSE f[n]]
  <2>2. g[m + 1] \in Nat OBVIOUS
  <2>3. h \in [0..(m + 1) -> Nat] BY <2>2
  <2>4. \A n \in 0..m : f[n] = IF n = 0 THEN 0 ELSE f[n - 1] + g[n]
    BY <2>1 DEF PartialSums
  <2>5. \A n \in 0..(m + 1) : h[n] = IF n = 0 THEN 0 ELSE h[n - 1] + g[n]
    <3> TAKE n \in 0..(m + 1)
    <3>1. CASE n = m + 1
      <4>1. n # 0 /\ n - 1 = m /\ m \in 0..(m + 1) /\ m # m + 1 BY <3>1
      <4> QED BY <3>1, <4>1
    <3>2. CASE n # m + 1
      <4>1. n \in 0..m BY <3>2
      <4>2. h[n] = f[n] BY <3>2
      <4>3. n # 0 => n - 1 \in 0..(m + 1) /\ n - 1 # m + 1 BY <4>1
      <4>4. n # 0 => h[n - 1] = f[n - 1] BY <4>3
      <4> HIDE DEF h
      <4> QED BY <2>4, <4>1, <4>2, <4>4
    <3> QED BY <3>1, <3>2
  <2>6. PartialSums(h, g, m + 1)
    <3> DEFINE r == [n \in 0..(m + 1) |-> IF n = 0 THEN 0 ELSE h[n - 1] + g[n]]
    <3>1. \A n \in 0..(m + 1) : h[n] = r[n] BY <2>5
    <3>2. h = [n \in 0..(m + 1) |-> h[n]] OBVIOUS
    <3>3. r = [n \in 0..(m + 1) |-> r[n]] OBVIOUS
    <3>4. h = r
      <4> HIDE DEF h, r
      <4> QED BY <3>1, <3>2, <3>3
    <3> QED BY <3>4 DEF PartialSums
  <2> QED BY <2>3, <2>6
<1>3. Nat \subseteq S
  <2> HIDE DEF S
  <2> QED BY <1>1, <1>2, SetInduction
<1> QED BY <1>3

\* Partial sums of natural numbers are natural numbers, and bound each term.
LEMMA PartialSumsNat ==
  ASSUME NEW f, NEW g, NEW L \in Nat, \A n \in 1..L : g[n] \in Nat,
         PartialSums(f, g, L)
  PROVE  \A n \in 0..L : f[n] \in Nat
<1> DEFINE S == {m \in Nat : m <= L => f[m] \in Nat}
<1>0. /\ 0 \in 0..L /\ f[0] = 0
      /\ \A n \in 1..L : f[n] = f[n - 1] + g[n]
  BY DEF PartialSums
<1>1. 0 \in S
  BY <1>0
<1>2. ASSUME NEW m \in Nat, m \in S PROVE m + 1 \in S
  <2> SUFFICES ASSUME m + 1 <= L PROVE f[m + 1] \in Nat
    OBVIOUS
  <2>1. m + 1 \in 1..L /\ m + 1 - 1 = m OBVIOUS
  <2>2. f[m] \in Nat BY <1>2
  <2>3. f[m + 1] = f[m] + g[m + 1] BY <1>0, <2>1
  <2> QED BY <2>1, <2>2, <2>3
<1>3. Nat \subseteq S
  <2> HIDE DEF S
  <2> QED BY <1>1, <1>2, SetInduction
<1> QED BY <1>3

\* A bounded set with a natural number for each member has a largest one.
LEMMA ArgMaxExists ==
  ASSUME NEW L \in Nat, NEW V, V \subseteq 1..L, V # {}, NEW f, \A v \in V : f[v] \in Nat
  PROVE  \E x \in V : \A y \in V : f[y] <= f[x]
<1> DEFINE Below(m) == {v \in V : v <= m}
           S == {m \in Nat : Below(m) # {} => \E x \in Below(m) : \A y \in Below(m) : f[y] <= f[x]}
<1>0. \A v \in V : v \in Nat /\ 1 <= v /\ v <= L
  OBVIOUS
<1>1. 0 \in S
  <2>1. \A v \in V : ~(v <= 0)
    BY <1>0
  <2> QED BY <2>1
<1>2. ASSUME NEW m \in Nat, m \in S PROVE m + 1 \in S
  <2>1. \A v \in Below(m + 1) : v \in Below(m) \/ v = m + 1
    OBVIOUS
  <2>2. CASE m + 1 \notin V
    <3>1. \A v \in V : v <= m + 1 <=> v <= m
      BY <1>0, <2>1, <2>2
    <3>2. Below(m + 1) = Below(m)
      BY <3>1
    <3> QED BY <1>2, <3>2
  <2>3. CASE m + 1 \in V /\ Below(m) = {}
    BY <2>1, <2>3
  <2>4. CASE m + 1 \in V /\ Below(m) # {}
    <3>1. PICK x \in Below(m) : \A y \in Below(m) : f[y] <= f[x]
      BY <1>2, <2>4
    <3>2. x \in Below(m + 1) /\ m + 1 \in Below(m + 1) /\ f[x] \in Nat /\ f[m + 1] \in Nat
      BY <2>4
    <3>3. CASE f[m + 1] <= f[x]
      BY <2>1, <3>1, <3>2, <3>3
    <3>4. CASE f[m + 1] > f[x]
      <4>1. \A y \in Below(m + 1) : f[y] <= f[m + 1]
        BY <2>1, <3>1, <3>2, <3>4
      <4> QED BY <3>2, <4>1
    <3> QED BY <3>2, <3>3, <3>4
  <2> QED BY <2>2, <2>3, <2>4
<1>3. L \in S
  <2> HIDE DEF S
  <2> QED BY <1>1, <1>2, SetInduction
<1>4. Below(L) = V
  BY <1>0
<1> QED BY <1>3, <1>4

\* RoundDiv is a natural number within half a unit of the quotient.
LEMMA RoundDivBounds ==
  ASSUME NEW a \in Nat, NEW b \in Nat \ {0}
  PROVE  /\ RoundDiv(a, b) \in Nat
         /\ 2 * (b * RoundDiv(a, b)) <= 2 * a + b
<1> DEFINE q == a \div b
           r == a % b
<1>1. q \in Nat /\ r \in 0..(b - 1) /\ a = b * q + r
  OBVIOUS
<1>2. RoundDiv(a, b) \in {q, q + 1} /\ (RoundDiv(a, b) = q + 1 => 2 * r >= b)
  BY <1>1 DEF RoundDiv
<1>3. b * (q + 1) = b * q + b /\ b * q \in Nat
  BY <1>1
<1> HIDE DEF q, r
<1>4. CASE RoundDiv(a, b) = q
  BY <1>1, <1>3, <1>4
<1>5. CASE RoundDiv(a, b) = q + 1
  BY <1>1, <1>2, <1>3, <1>5
<1> QED BY <1>2, <1>4, <1>5

\* RoundDiv is no more than half a unit under the quotient.
LEMMA RoundDivLower ==
  ASSUME NEW a \in Nat, NEW b \in Nat \ {0}
  PROVE  2 * a <= 2 * (b * RoundDiv(a, b)) + b
<1> DEFINE q == a \div b
           r == a % b
<1>1. q \in Nat /\ r \in 0..(b - 1) /\ a = b * q + r
  OBVIOUS
<1>2. RoundDiv(a, b) = q + 1 \/ (RoundDiv(a, b) = q /\ 2 * r <= b)
  BY <1>1 DEF RoundDiv
<1>3. b * (q + 1) = b * q + b /\ b * q \in Nat
  BY <1>1
<1> HIDE DEF q, r
<1> QED BY <1>1, <1>2, <1>3

\* A larger dividend is not rounded to less.
LEMMA RoundDivMonotone ==
  ASSUME NEW a \in Nat, NEW b \in Nat, NEW n \in Nat \ {0}, a <= b
  PROVE  RoundDiv(a, n) <= RoundDiv(b, n)
<1> DEFINE p == a \div n
           q == b \div n
           r == a % n
           s == b % n
<1>1. /\ p \in Nat /\ r \in 0 .. n - 1 /\ a = n * p + r
      /\ q \in Nat /\ s \in 0 .. n - 1 /\ b = n * q + s
  OBVIOUS
<1>2. /\ RoundDiv(a, n) = IF 2 * r > n \/ (2 * r = n /\ p % 2 = 1) THEN p + 1 ELSE p
      /\ RoundDiv(b, n) = IF 2 * s > n \/ (2 * s = n /\ q % 2 = 1) THEN q + 1 ELSE q
  BY DEF RoundDiv
<1> HIDE DEF p, q, r, s
<1>3. CASE p < q
  BY <1>1, <1>2, <1>3
<1>4. CASE p = q
  <2>1. r <= s
    BY <1>1, <1>4
  <2> QED  BY <1>1, <1>2, <1>4, <2>1
<1>5. CASE p > q
  <2>1. n * p >= n * (q + 1)
    <3>1. PICK k \in Nat : p = q + 1 + k
      <4>1. p - q - 1 \in Nat /\ p = q + 1 + (p - q - 1)
        BY <1>1, <1>5
      <4> QED  BY <4>1
    <3>2. n * p = n * (q + 1) + n * k /\ n * k \in Nat
      BY <1>1, <3>1
    <3> QED  BY <1>1, <3>2
  <2>2. n * (q + 1) = n * q + n
    BY <1>1
  <2> QED  BY <1>1, <2>1, <2>2
<1> QED
  BY <1>1, <1>3, <1>4, <1>5

\* Quotient and remainder are the only ones.
LEMMA DivisionUnique ==
  ASSUME NEW a \in Nat, NEW n \in Nat \ {0}, NEW q \in Nat, NEW r \in 0..(n - 1), a = n * q + r
  PROVE  a \div n = q /\ a % n = r
<1> DEFINE p == a \div n
           s == a % n
<1>1. p \in Nat /\ s \in 0..(n - 1) /\ a = n * p + s
  OBVIOUS
<1> HIDE DEF p, s
<1>2. ASSUME NEW x \in Nat, NEW y \in Nat, x < y, NEW u \in 0..(n - 1), NEW v \in 0..(n - 1),
             n * x + u = n * y + v
      PROVE  FALSE
  <2>1. PICK k \in Nat : y = x + 1 + k
    <3>1. y - x - 1 \in Nat /\ y = x + 1 + (y - x - 1)
      BY <1>2
    <3> QED  BY <3>1
  <2>2. n * y = n * x + n + n * k /\ n * k \in Nat /\ n * x \in Nat
    BY <2>1
  <2> QED  BY <1>2, <2>2
<1>3. p = q
  BY <1>1, <1>2
<1>4. s = r
  <2>1. n * p \in Nat /\ n * p = n * q
    BY <1>1, <1>3
  <2> QED  BY <1>1, <2>1
<1> QED  BY <1>3, <1>4 DEF p, s

\* A fraction is rounded alike in every form.
LEMMA RoundDivScaled ==
  ASSUME NEW a \in Nat, NEW b \in Nat \ {0}, NEW k \in Nat \ {0}
  PROVE  RoundDiv(a * k, b * k) = RoundDiv(a, b)
<1> DEFINE q == a \div b
           r == a % b
<1>1. q \in Nat /\ r \in 0..(b - 1) /\ a = b * q + r
  OBVIOUS
<1> HIDE DEF q, r
<1>2. /\ a * k \in Nat /\ b * k \in Nat \ {0} /\ r * k \in Nat
      /\ a * k = (b * k) * q + r * k
  BY <1>1
<1>3. r * k + k <= b * k
  <2>1. PICK d \in Nat : b = r + 1 + d
    <3>1. b - r - 1 \in Nat /\ b = r + 1 + (b - r - 1)
      BY <1>1
    <3> QED  BY <3>1
  <2>2. b * k = r * k + k + d * k /\ d * k \in Nat
    BY <1>1, <2>1
  <2> QED  BY <1>1, <1>2, <2>2
<1>4. r * k \in 0..(b * k - 1)
  BY <1>2, <1>3
<1>5. (a * k) \div (b * k) = q /\ (a * k) % (b * k) = r * k
  <2> DEFINE A == a * k
             N == b * k
             R == r * k
  <2>1. A \in Nat /\ N \in Nat \ {0} /\ q \in Nat /\ R \in 0..(N - 1) /\ A = N * q + R
    BY <1>1, <1>2, <1>4
  <2> HIDE DEF A, N, R
  <2>2. A \div N = q /\ A % N = R
    BY <2>1, DivisionUnique
  <2> QED  BY <2>2 DEF A, N, R
<1>6. (2 * (r * k) > b * k <=> 2 * r > b) /\ (2 * (r * k) = b * k <=> 2 * r = b)
  <2>1. 2 * (r * k) = (2 * r) * k
    BY <1>1
  <2>2. ASSUME NEW x \in Nat, NEW y \in Nat, x < y PROVE x * k < y * k
    <3>1. PICK d \in Nat : y = x + 1 + d
      <4>1. y - x - 1 \in Nat /\ y = x + 1 + (y - x - 1)
        BY <2>2
      <4> QED  BY <4>1
    <3>2. y * k = x * k + k + d * k /\ d * k \in Nat /\ x * k \in Nat
      BY <3>1
    <3> QED  BY <3>2
  <2>3. 2 * r \in Nat /\ (2 * r) * k \in Nat
    BY <1>1
  <2>4. CASE 2 * r > b
    <3>1. b * k < (2 * r) * k
      BY <2>2, <2>3, <2>4
    <3> QED  BY <1>2, <2>1, <2>3, <2>4, <3>1
  <2>5. CASE 2 * r = b
    BY <1>2, <2>1, <2>5
  <2>6. CASE 2 * r < b
    <3>1. (2 * r) * k < b * k
      BY <2>2, <2>3, <2>6
    <3> QED  BY <1>2, <2>1, <2>3, <2>6, <3>1
  <2> QED  BY <2>3, <2>4, <2>5, <2>6
<1>7. /\ RoundDiv(a * k, b * k) = IF 2 * (r * k) > b * k \/ (2 * (r * k) = b * k /\ q % 2 = 1)
                                  THEN q + 1 ELSE q
      /\ RoundDiv(a, b) = IF 2 * r > b \/ (2 * r = b /\ q % 2 = 1) THEN q + 1 ELSE q
  BY <1>5 DEF RoundDiv, q, r
<1> QED  BY <1>6, <1>7

\* A larger fraction is not rounded to less.
LEMMA RoundDivOrder ==
  ASSUME NEW a \in Nat, NEW b \in Nat \ {0}, NEW c \in Nat, NEW d \in Nat \ {0}, a * d <= c * b
  PROVE  RoundDiv(a, b) <= RoundDiv(c, d)
<1>1. a * d \in Nat /\ c * b \in Nat /\ b * d \in Nat \ {0} /\ d * b = b * d
  OBVIOUS
<1>2. RoundDiv(a * d, b * d) = RoundDiv(a, b) /\ RoundDiv(c * b, d * b) = RoundDiv(c, d)
  BY RoundDivScaled
<1>3. RoundDiv(a * d, b * d) <= RoundDiv(c * b, b * d)
  BY <1>1, RoundDivMonotone
<1> QED  BY <1>1, <1>2, <1>3

\* The greatest element of a set of numbers.
Greatest(S) == CHOOSE m \in S : \A x \in S : m >= x

\* The greatest of 1 .. n is n; without it, 1 .. n - 1 is left.
LEMMA GreatestOfRange ==
  ASSUME NEW n \in Nat, n # 0
  PROVE  Greatest(1 .. n) = n /\ (1 .. n) \ {n} = 1 .. n - 1 /\ 1 .. n # {} /\ n - 1 \in Nat
<1>1. n \in 1 .. n /\ \A x \in 1 .. n : n >= x
  OBVIOUS
<1>2. \A m \in 1 .. n : (\A x \in 1 .. n : m >= x) => m = n
  BY <1>1
<1>3. Greatest(1 .. n) = n
  BY <1>1, <1>2 DEF Greatest
<1> QED
  BY <1>1, <1>3

\* it folds the numbers of a subset of 1 .. L, the greatest last.
FoldsRange(it, L, base, st) ==
    \A S \in SUBSET (1 .. L) :
        it[S] = IF S = {} THEN base ELSE st[Greatest(S)][it[S \ {Greatest(S)}]]

\* A fold over a range exists, in a domain that its step does not leave.
LEMMA FoldExists ==
  ASSUME NEW L \in Nat, NEW D, NEW base \in D, NEW st \in [1 .. L -> [D -> D]]
  PROVE  \E it \in [SUBSET (1 .. L) -> D] : FoldsRange(it, L, base, st)
<1> DEFINE Has(m) == \E it \in [SUBSET (1 .. m) -> D] : FoldsRange(it, m, base, st)
           T == {m \in Nat : m <= L => Has(m)}
<1>1. 0 \in T
  <2> DEFINE z == [S \in SUBSET (1 .. 0) |-> base]
  <2>1. z \in [SUBSET (1 .. 0) -> D] /\ \A S \in SUBSET (1 .. 0) : S = {}
    OBVIOUS
  <2>2. FoldsRange(z, 0, base, st)
    BY <2>1 DEF FoldsRange
  <2> QED
    BY <2>1, <2>2
<1>2. ASSUME NEW m \in Nat, m \in T PROVE m + 1 \in T
  <2> SUFFICES ASSUME m + 1 <= L PROVE Has(m + 1)
    <3> HIDE DEF Has
    <3> QED OBVIOUS
  <2>0. Has(m)
    <3> HIDE DEF Has
    <3> QED BY <1>2
  <2>1. PICK g \in [SUBSET (1 .. m) -> D] : FoldsRange(g, m, base, st)
    BY <2>0
  <2> DEFINE h == [S \in SUBSET (1 .. m + 1) |->
                      IF m + 1 \in S THEN st[m + 1][g[S \ {m + 1}]] ELSE g[S]]
  <2>2. \A S \in SUBSET (1 .. m + 1) : S \ {m + 1} \in SUBSET (1 .. m)
    OBVIOUS
  <2>3. m + 1 \in 1 .. L
    OBVIOUS
  <2>4. \A S \in SUBSET (1 .. m + 1) : h[S] \in D
    <3>1. ASSUME NEW S \in SUBSET (1 .. m + 1) PROVE h[S] \in D
      <4>1. CASE m + 1 \in S
        <5>1. g[S \ {m + 1}] \in D
          BY <2>2
        <5> QED
          BY <2>3, <4>1, <5>1
      <4>2. CASE m + 1 \notin S
        <5>1. S \in SUBSET (1 .. m)
          BY <2>2, <4>2
        <5> QED
          BY <4>2, <5>1
      <4> QED
        BY <4>1, <4>2
    <3> QED
      BY <3>1
  <2>5. ASSUME NEW S \in SUBSET (1 .. m + 1)
        PROVE  h[S] = IF S = {} THEN base ELSE st[Greatest(S)][h[S \ {Greatest(S)}]]
    <3>1. CASE m + 1 \in S
      <4>1. \A x \in S : m + 1 >= x
        OBVIOUS
      <4>2. \A x \in S : (\A y \in S : x >= y) => x = m + 1
        BY <3>1, <4>1
      <4>3. Greatest(S) = m + 1
        BY <3>1, <4>1, <4>2 DEF Greatest
      <4>4. h[S \ {m + 1}] = g[S \ {m + 1}]
        BY <2>2
      <4> QED
        BY <3>1, <4>3, <4>4
    <3>2. CASE m + 1 \notin S
      <4>1. S \in SUBSET (1 .. m)
        BY <2>2, <3>2
      <4>2. S \ {Greatest(S)} \in SUBSET (1 .. m) /\ m + 1 \notin S \ {Greatest(S)}
        BY <3>2, <4>1
      <4>3. h[S] = g[S] /\ h[S \ {Greatest(S)}] = g[S \ {Greatest(S)}]
        BY <3>2, <4>1, <4>2
      <4> HIDE DEF h
      <4> QED
        BY <2>1, <4>1, <4>3 DEF FoldsRange
    <3> QED
      BY <3>1, <3>2
  <2>6. h \in [SUBSET (1 .. m + 1) -> D]
    BY <2>4
  <2> HIDE DEF h
  <2>7. FoldsRange(h, m + 1, base, st)
    BY <2>5 DEF FoldsRange
  <2> QED
    BY <2>6, <2>7
<1>3. Nat \subseteq T
  <2> HIDE DEF T
  <2> QED BY <1>1, <1>2, SetInduction
<1>4. Has(L)
  <2> HIDE DEF Has
  <2> QED BY <1>3
<1> QED
  BY <1>4

\* A set that holds 0 and is closed under successor up to L holds 0 .. L.
LEMMA RangeInduction ==
  ASSUME NEW L \in Nat, NEW S, 0 \in S, \A n \in 1 .. L : n - 1 \in S => n \in S
  PROVE  \A n \in 0 .. L : n \in S
<1> DEFINE T == {n \in Nat : n <= L => n \in S}
<1>1. 0 \in T
  OBVIOUS
<1>2. \A n \in Nat : n \in T => n + 1 \in T
  OBVIOUS
<1>3. Nat \subseteq T
  <2> HIDE DEF T
  <2> QED BY <1>1, <1>2, SetInduction
<1> QED
  BY <1>3

\* Partial sums grow with their terms.
LEMMA PartialSumsOrder ==
  ASSUME NEW L \in Nat, NEW a, NEW b, NEW f, NEW h,
         \A n \in 1..L : a[n] \in Nat /\ b[n] \in Nat /\ a[n] <= b[n],
         PartialSums(f, a, L), PartialSums(h, b, L)
  PROVE  \A n \in 0..L : f[n] <= h[n]
<1> DEFINE S == {n \in 0..L : f[n] <= h[n]}
<1>1. /\ f[0] = 0 /\ h[0] = 0
      /\ \A n \in 1..L : f[n] = f[n - 1] + a[n] /\ h[n] = h[n - 1] + b[n]
  BY DEF PartialSums
<1>2. \A n \in 0..L : f[n] \in Nat /\ h[n] \in Nat
  <2>1. \A n \in 1..L : a[n] \in Nat
    OBVIOUS
  <2>2. \A n \in 1..L : b[n] \in Nat
    OBVIOUS
  <2>3. \A n \in 0..L : f[n] \in Nat
    BY <2>1, PartialSumsNat
  <2>4. \A n \in 0..L : h[n] \in Nat
    BY <2>2, PartialSumsNat
  <2> QED
    BY <2>3, <2>4
<1>3. 0 \in S
  BY <1>1
<1>4. \A n \in 1..L : n - 1 \in S => n \in S
  BY <1>1, <1>2
<1>5. \A n \in 0..L : n \in S
  <2> HIDE DEF S
  <2> QED BY <1>3, <1>4, RangeInduction
<1> QED
  BY <1>5

\* The greatest element is one.
LEMMA GreatestIn ==
  ASSUME NEW L \in Nat, NEW S \in SUBSET (1 .. L), S # {}
  PROVE  Greatest(S) \in S /\ \A x \in S : Greatest(S) >= x
<1> DEFINE f == [i \in S |-> i]
<1>1. \A i \in S : f[i] \in Nat
  OBVIOUS
<1>2. PICK m \in S : \A x \in S : f[x] <= f[m]
  BY <1>1, ArgMaxExists
<1>3. \A x \in S : m >= x
  BY <1>2
<1> QED
  BY <1>3 DEF Greatest

\* A fold read along the ranges 1 .. n: its values, one step after the other.
LEMMA FoldAlong ==
  ASSUME NEW L \in Nat, NEW D, NEW it, NEW base \in D, it[{}] = base,
         \A n \in 1 .. L : it[1 .. n - 1] \in D => it[1 .. n] \in D
  PROVE  \A n \in 0 .. L : it[1 .. n] \in D
<1> DEFINE S == {n \in 0 .. L : it[1 .. n] \in D}
<1>1. 0 \in S
  OBVIOUS
<1>2. \A n \in 1 .. L : n - 1 \in S => n \in S
  OBVIOUS
<1>3. \A n \in 0 .. L : n \in S
  <2> HIDE DEF S
  <2> QED BY <1>1, <1>2, RangeInduction
<1> QED
  BY <1>3

\* Smallest and largest elements of a bounded set of numbers exist.
LEMMA BoundedExtremes ==
  ASSUME NEW L \in Nat, NEW S \in SUBSET (0 .. L), S # {}
  PROVE  /\ \E d \in S : \A e \in S : e <= d
         /\ \E d \in S : \A e \in S : d <= e
<1> DEFINE V == {n + 1 : n \in S}
           up == [v \in V |-> v]
           down == [v \in V |-> L + 1 - v]
           M == L + 1
<1>0. \A n \in S : n \in Nat /\ n <= L
  OBVIOUS
<1>2. \A n \in S : n + 1 \in V /\ n \in Nat /\ n <= L
  BY <1>0
<1>3. \A v \in V : v - 1 \in S /\ v \in Nat /\ 1 <= v /\ v <= L + 1
  <2> SUFFICES ASSUME NEW v \in V PROVE v - 1 \in S /\ v \in Nat /\ 1 <= v /\ v <= L + 1
    OBVIOUS
  <2>1. PICK n \in S : v = n + 1
    OBVIOUS
  <2>2. n \in Nat /\ n <= L /\ v - 1 = n
    BY <1>0, <2>1
  <2> HIDE DEF V
  <2> QED BY <2>1, <2>2
<1>4. \A v \in V : up[v] = v /\ up[v] \in Nat /\ down[v] = L + 1 - v /\ down[v] \in Nat
  BY <1>3
<1>1. V # {} /\ V \subseteq 1 .. M /\ M \in Nat
  <2>1. PICK n \in S : TRUE
    OBVIOUS
  <2>2. n + 1 \in V
    BY <1>2
  <2> HIDE DEF V
  <2> QED BY <1>3, <2>2
<1> HIDE DEF V, up, down, M
<1>5. PICK x \in V : \A y \in V : up[y] <= up[x]
  BY <1>1, <1>4, ArgMaxExists
<1>6. PICK z \in V : \A y \in V : down[y] <= down[z]
  BY <1>1, <1>4, ArgMaxExists
<1>7. x - 1 \in S /\ \A e \in S : e <= x - 1
  BY <1>2, <1>3, <1>4, <1>5
<1>8. z - 1 \in S /\ \A e \in S : z - 1 <= e
  BY <1>2, <1>3, <1>4, <1>6
<1> QED
  BY <1>7, <1>8


\* A quotient grows with its dividend.
LEMMA DivisionMonotone ==
  ASSUME NEW a \in Nat, NEW b \in Nat, NEW n \in Nat \ {0}, a <= b
  PROVE  a \div n <= b \div n /\ a \div n \in Nat /\ b \div n \in Nat
<1> DEFINE q == a \div n
           r == a % n
           u == b \div n
           v == b % n
<1>1. /\ q \in Nat /\ r \in Nat /\ r < n /\ a = n * q + r
      /\ u \in Nat /\ v \in Nat /\ v < n /\ b = n * u + v
  OBVIOUS
<1> HIDE DEF q, r, u, v
<1>2. SUFFICES ASSUME u + 1 <= q PROVE FALSE
  BY <1>1 DEF q, u
<1>3. n * (u + 1) <= n * q
  <2>1. PICK d \in Nat : q = u + 1 + d
    <3>1. q - (u + 1) \in Nat /\ q = u + 1 + (q - (u + 1))
      BY <1>1, <1>2
    <3> QED BY <3>1
  <2>2. n * q = n * (u + 1) + n * d /\ n * d \in Nat /\ n * (u + 1) \in Nat
    BY <1>1, <2>1
  <2> QED BY <2>2
<1>4. n * (u + 1) = n * u + n
  BY <1>1
<1> DEFINE x == n * u
           y == n * q
<1>5. x \in Nat /\ y \in Nat /\ x + n <= y /\ a = y + r /\ b = x + v
  BY <1>1, <1>3, <1>4
<1> HIDE DEF x, y
<1> QED
  BY <1>1, <1>5

\* The numbers below n lie in its division into parts of p, rounded up.
LEMMA PartsCover ==
  ASSUME NEW n \in Nat, NEW k \in Nat, k < n, NEW p \in Nat \ {0}
  PROVE  k \div p < (n + p - 1) \div p /\ (n + p - 1) \div p \in Nat
<1> DEFINE a == k + p
           b == n + p - 1
<1>1. a \in Nat /\ b \in Nat /\ a <= b
  OBVIOUS
<1>2. k \div p \in Nat /\ k % p \in Nat /\ k % p < p /\ k = p * (k \div p) + (k % p)
  OBVIOUS
<1> DEFINE q == k \div p
           r == k % p
           x == p * q
<1> HIDE DEF q, r
<1>3. a = p * (q + 1) + r /\ q + 1 \in Nat
  <2>1. p * (q + 1) = x + p /\ x \in Nat
    BY <1>2 DEF q
  <2>2. k = x + r /\ r \in Nat
    BY <1>2 DEF q, r
  <2> HIDE DEF x
  <2> QED BY <1>2, <2>1, <2>2 DEF q
<1> HIDE DEF a, b, x
<1>4. a \div p = q + 1
  BY <1>1, <1>2, <1>3, DivisionUnique DEF r
<1>5. a \div p <= b \div p /\ b \div p \in Nat
  BY <1>1, DivisionMonotone
<1> QED
  BY <1>2, <1>4, <1>5 DEF b, q
==============================================================================
