----------------------------- MODULE Sizing_proofs -----------------------------
(***************************************************************************)
(* Facts about the sizes of Stage 5 for every threshold, candidate list    *)
(* and portfolio context, and about the theses of 5a to 5d for every set of*)
(* tickers, days, bands and tiers.                                         *)
(***************************************************************************)
EXTENDS MCRisk, NatSets

\* The sizes of a sequence of recommendations, as numbers.
Sizes(rs) == [i \in DOMAIN rs |-> SizeOf(rs[i])]

\* What counts of a recommendation is a number.
LEMMA SizeOfNat ==
  ASSUME NEW rs \in Seq(Recommendation)
  PROVE  \A i \in 1..Len(rs) : SizeOf(rs[i]) \in Nat
<1> TAKE i \in 1..Len(rs)
<1>1. rs[i] \in Recommendation OBVIOUS
<1>2. rs[i].size \in Nat \cup {Unsized} BY <1>1 DEF Recommendation
<1> QED BY <1>2 DEF SizeOf, IsSized

\* SumTo is the function of partial sums.
LEMMA SumToSums ==
  ASSUME NEW rs \in Seq(Recommendation)
  PROVE  /\ \A n \in 0..Len(rs) : SumTo(rs)[n] \in Nat
         /\ SumTo(rs)[0] = 0
         /\ \A n \in 1..Len(rs) : SumTo(rs)[n] = SumTo(rs)[n - 1] + SizeOf(rs[n])
<1> DEFINE g == Sizes(rs)
           L == Len(rs)
<1>1. L \in Nat /\ \A n \in 1..L : g[n] \in Nat /\ g[n] = SizeOf(rs[n])
  BY SizeOfNat DEF Sizes
<1>2. \E f : PartialSums(f, g, L)
  <2> HIDE DEF g, L
  <2> QED BY <1>1, PartialSumsExist
<1>3. SumTo(rs) = CHOOSE f : f = [n \in 0..L |-> IF n = 0 THEN 0 ELSE f[n - 1] + SizeOf(rs[n])]
  BY DEF SumTo
<1>4. \E f : f = [n \in 0..L |-> IF n = 0 THEN 0 ELSE f[n - 1] + SizeOf(rs[n])]
  <2>1. PICK f : PartialSums(f, g, L) BY <1>2
  <2>2. [n \in 0..L |-> IF n = 0 THEN 0 ELSE f[n - 1] + SizeOf(rs[n])]
        = [n \in 0..L |-> IF n = 0 THEN 0 ELSE f[n - 1] + g[n]]
    <3>1. \A n \in 0..L : (IF n = 0 THEN 0 ELSE f[n - 1] + SizeOf(rs[n]))
                         = (IF n = 0 THEN 0 ELSE f[n - 1] + g[n])
      BY <1>1
    <3> HIDE DEF g
    <3> QED BY <3>1
  <2> HIDE DEF g, L
  <2> QED BY <2>1, <2>2 DEF PartialSums
<1>5. SumTo(rs) = [n \in 0..L |-> IF n = 0 THEN 0 ELSE SumTo(rs)[n - 1] + SizeOf(rs[n])]
  <2> HIDE DEF L
  <2> QED BY <1>3, <1>4
<1>6. PartialSums(SumTo(rs), g, L)
  <2>1. \A n \in 0..L : (IF n = 0 THEN 0 ELSE SumTo(rs)[n - 1] + SizeOf(rs[n]))
                       = (IF n = 0 THEN 0 ELSE SumTo(rs)[n - 1] + g[n])
    BY <1>1
  <2> HIDE DEF g, L
  <2> QED BY <1>5, <2>1 DEF PartialSums
<1>7. \A n \in 0..L : SumTo(rs)[n] \in Nat
  <2> HIDE DEF g, L
  <2> QED BY <1>1, <1>6, PartialSumsNat
<1>8. /\ 0 \in 0..L /\ SumTo(rs)[0] = 0
      /\ \A n \in 1..L : SumTo(rs)[n] = SumTo(rs)[n - 1] + SizeOf(rs[n])
  <2> DEFINE F == SumTo(rs)
  <2>1. F = [n \in 0..L |-> IF n = 0 THEN 0 ELSE F[n - 1] + SizeOf(rs[n])] BY <1>5
  <2> HIDE DEF F
  <2>2. 0 \in 0..L /\ 1..L \subseteq 0..L BY <1>1
  <2>3. F[0] = 0 BY <2>1, <2>2
  <2>4. \A n \in 1..L : F[n] = F[n - 1] + SizeOf(rs[n])
    <3> TAKE n \in 1..L
    <3>1. n \in 0..L /\ n # 0 BY <2>2
    <3> QED BY <2>1, <3>1
  <2> QED BY <2>2, <2>3, <2>4 DEF F
<1> QED BY <1>7, <1>8

--------------------------------------------------------------------------------
(* Rounding and one candidate. *)

\* Half a size is a size, and not larger.
LEMMA HalfBounds ==
  ASSUME NEW x \in Nat
  PROVE  Half(x) \in Nat /\ Half(x) <= x
<1>1. Half(x) \in Nat /\ 2 * (2 * Half(x)) <= 2 * x + 2
  BY RoundDivBounds DEF Half
<1>2. CASE x = 0
  BY <1>2 DEF Half, RoundDiv
<1>3. CASE x # 0
  BY <1>1, <1>3
<1> QED BY <1>2, <1>3

\* The proposed size is a size within the cap per position.
LEMMA ProposedBounds ==
  ASSUME NEW ratio \in Nat
  PROVE  Proposed(ratio) \in Nat /\ Proposed(ratio) <= MaxPct
<1>1. FractionalKelly(ratio) \in Nat
  <2>1. CASE ratio < 100
    BY <2>1 DEF FractionalKelly
  <2>2. CASE ratio >= 100
    <3>1. (ratio - 100) * Fraction \in Nat /\ 2 * ratio \in Nat \ {0}
      BY <2>2, BoundsAssumption
    <3> QED BY <2>2, <3>1, RoundDivBounds DEF FractionalKelly
  <2> QED BY <2>1, <2>2
<1>2. Half(FractionalKelly(ratio)) \in Nat
  BY <1>1, HalfBounds
<1> QED BY <1>1, <1>2, BoundsAssumption DEF Proposed

\* What size_one returns: a recommendation within the cap per position, a
\* size exactly with a recommending verdict, and, with the brake and
\* without it, a size for the same candidates.
LEMMA SizeOneFacts ==
  ASSUME NEW c \in Candidate, NEW brake \in BOOLEAN, NEW other \in BOOLEAN
  PROVE  /\ SizeOne(c, brake) \in Recommendation
         /\ SizeOf(SizeOne(c, brake)) <= MaxPct
         /\ IsSized(SizeOne(c, brake)) <=> SizeOne(c, brake).verdict \in SizedVerdicts
         /\ IsSized(SizeOne(c, brake)) <=> IsSized(SizeOne(c, other))
<1> DEFINE p == Proposed(c.ratio)
           fits == Divides(c) /\ p >= MinPct
<1>1. c.verdict \in InVerdicts /\ c.ratio \in Nat \cup {NoRatio}
  BY DEF Candidate
<1>2. Divides(c) => c.verdict = "accepted" /\ c.ratio \in Nat /\ c.ratio # NoRatio
  BY <1>1 DEF Divides
<1>3. fits => /\ p \in Nat /\ p <= MaxPct /\ Half(p) \in Nat /\ Half(p) <= MaxPct
              /\ p # Unsized /\ Half(p) # Unsized
  BY <1>2, ProposedBounds, HalfBounds, NoneAssumption, BoundsAssumption
<1>4. ASSUME NEW b \in BOOLEAN, fits
      PROVE  SizeOne(c, b) = [verdict |-> IF c.ratio < MinRatio THEN "size_recommended_half_cap"
                                                                ELSE "size_recommended",
                              size |-> IF b THEN Half(p) ELSE p]
  BY <1>2, <1>3, <1>4, BoundsAssumption DEF SizeOne
<1>5. ASSUME NEW b \in BOOLEAN, ~fits
      PROVE  \E v \in OutVerdicts \ SizedVerdicts : SizeOne(c, b) = Without(v)
  <2>1. CASE c.verdict = "none"
    BY <1>2, <2>1 DEF SizeOne, OutVerdicts, SizedVerdicts
  <2>5. CASE c.verdict = "other"
    BY <1>2, <2>5 DEF SizeOne, OutVerdicts, SizedVerdicts
  <2>2. CASE c.verdict = "accepted" /\ c.ratio = NoRatio
    BY <2>2 DEF SizeOne, OutVerdicts, SizedVerdicts, Divides
  <2>3. CASE c.verdict = "accepted" /\ c.ratio # NoRatio /\ ~Divides(c)
    BY <2>3 DEF SizeOne, OutVerdicts, SizedVerdicts
  <2>4. CASE Divides(c)
    <3>1. p \in Nat BY <1>2, <2>4, ProposedBounds
    <3>2. p < MinPct BY <1>5, <2>4, <3>1, BoundsAssumption
    <3>3. SizeOne(c, b) = Without("rejected_low_asymmetry")
      BY <1>2, <2>4, <3>1, <3>2, BoundsAssumption DEF SizeOne
    <3> QED BY <3>3 DEF OutVerdicts, SizedVerdicts
  <2> QED BY <1>1, <2>1, <2>2, <2>3, <2>4, <2>5 DEF InVerdicts
<1> HIDE DEF fits
<1>6. CASE fits
  <2> HIDE DEF p
  <2>2. SizeOne(c, brake) \in Recommendation
    BY <1>3, <1>4, <1>6 DEF Recommendation, OutVerdicts, SizedVerdicts
  <2>3. IsSized(SizeOne(c, brake)) /\ SizeOne(c, brake).verdict \in SizedVerdicts
    BY <1>3, <1>4, <1>6 DEF IsSized, SizedVerdicts
  <2>4. IsSized(SizeOne(c, other))
    BY <1>3, <1>4, <1>6 DEF IsSized
  <2>5. SizeOf(SizeOne(c, brake)) <= MaxPct
    BY <1>3, <1>4, <1>6, <2>3 DEF SizeOf
  <2> QED BY <2>2, <2>3, <2>4, <2>5
<1>7. CASE ~fits
  <2>1. ASSUME NEW b \in BOOLEAN
        PROVE  /\ SizeOne(c, b) \in Recommendation /\ ~IsSized(SizeOne(c, b))
               /\ SizeOne(c, b).verdict \notin SizedVerdicts
               /\ SizeOf(SizeOne(c, b)) = 0
    <3>1. PICK v \in OutVerdicts \ SizedVerdicts : SizeOne(c, b) = Without(v)
      BY <1>5, <1>7
    <3> QED BY <3>1 DEF Without, Recommendation, IsSized, SizeOf
  <2>2. 0 <= MaxPct BY BoundsAssumption
  <2> QED BY <2>1, <2>2
<1> QED BY <1>6, <1>7

--------------------------------------------------------------------------------
(* Sums and the cap on them. *)

\* Sums of natural numbers that are smaller term by term are smaller.
LEMMA TotalMonotone ==
  ASSUME NEW new \in Seq(Recommendation), NEW old \in Seq(Recommendation),
         Len(new) = Len(old),
         \A i \in 1..Len(old) : SizeOf(new[i]) <= SizeOf(old[i])
  PROVE  Total(new) <= Total(old)
<1> DEFINE L == Len(old)
           F == SumTo(new)
           G == SumTo(old)
           S == {m \in Nat : m <= L => F[m] <= G[m]}
<1>0. /\ L \in Nat
      /\ \A n \in 0..L : F[n] \in Nat /\ G[n] \in Nat
      /\ F[0] = 0 /\ G[0] = 0
      /\ \A n \in 1..L : F[n] = F[n - 1] + SizeOf(new[n]) /\ G[n] = G[n - 1] + SizeOf(old[n])
      /\ \A n \in 1..L : SizeOf(new[n]) \in Nat /\ SizeOf(old[n]) \in Nat
  BY SumToSums, SizeOfNat
<1> HIDE DEF F, G, L
<1>1. 0 \in S
  BY <1>0
<1>2. ASSUME NEW m \in Nat, m \in S PROVE m + 1 \in S
  <2> SUFFICES ASSUME m + 1 <= L PROVE F[m + 1] <= G[m + 1]
    OBVIOUS
  <2>1. m + 1 \in 1..L /\ m + 1 - 1 = m /\ m \in 0..L BY <1>0
  <2>2. F[m] <= G[m] BY <1>2, <1>0
  <2>3. SizeOf(new[m + 1]) <= SizeOf(old[m + 1]) BY <2>1 DEF L
  <2>4. F[m] \in Nat /\ G[m] \in Nat
    BY <1>0, <2>1
  <2>5. SizeOf(new[m + 1]) \in Nat /\ SizeOf(old[m + 1]) \in Nat
    BY <1>0, <2>1
  <2>6. /\ F[m + 1] = F[m + 1 - 1] + SizeOf(new[m + 1])
        /\ G[m + 1] = G[m + 1 - 1] + SizeOf(old[m + 1])
    BY <1>0, <2>1
  <2> QED BY <2>1, <2>2, <2>3, <2>4, <2>5, <2>6
<1>3. L \in S
  <2>1. Nat \subseteq S
    <3> HIDE DEF S
    <3> QED BY <1>1, <1>2, SetInduction
  <2> QED BY <1>0, <2>1
<1>4. F[L] <= G[L]
  BY <1>3, <1>0
<1> QED BY <1>4 DEF F, G, L, Total

\* One scaled size: at most the old one, and at most half a unit over its share.
LEMMA ScaledBounds ==
  ASSUME NEW x \in Nat, NEW t \in Nat, t > Cap
  PROVE  /\ RoundDiv(x * Cap, t) \in Nat
         /\ RoundDiv(x * Cap, t) <= x
         /\ 2 * (t * RoundDiv(x * Cap, t)) <= 2 * (x * Cap) + t
<1> DEFINE q == RoundDiv(x * Cap, t)
<1>1. Cap \in Nat /\ t \in Nat \ {0} /\ x * Cap \in Nat
  BY BoundsAssumption
<1>2. q \in Nat /\ 2 * (t * q) <= 2 * (x * Cap) + t
  BY <1>1, RoundDivBounds
<1> HIDE DEF q
<1>3. q <= x
  <2> SUFFICES ASSUME q >= x + 1 PROVE FALSE
    BY <1>2
  <2>1. t * q >= t * (x + 1) BY <1>1, <1>2
  <2>2. t * (x + 1) = t * x + t /\ t * x \in Nat BY <1>1
  <2>3. x * Cap <= t * x BY <1>1
  <2>4. t * q \in Nat BY <1>1, <1>2
  <2> QED BY <1>1, <1>2, <2>1, <2>2, <2>3, <2>4
<1> QED BY <1>2, <1>3 DEF q

\* What the cap leaves as it was.
LEMMA KellyCapFacts ==
  ASSUME NEW rs \in Seq(Recommendation)
  PROVE  /\ KellyCap(rs) \in Seq(Recommendation)
         /\ Len(KellyCap(rs)) = Len(rs)
         /\ \A i \in 1..Len(rs) :
              /\ KellyCap(rs)[i].verdict = rs[i].verdict
              /\ IsSized(KellyCap(rs)[i]) <=> IsSized(rs[i])
              /\ SizeOf(KellyCap(rs)[i]) <= SizeOf(rs[i])
              /\ Total(rs) > Cap =>
                   2 * (Total(rs) * SizeOf(KellyCap(rs)[i]))
                     <= 2 * (SizeOf(rs[i]) * Cap) + Total(rs)
<1> DEFINE t == Total(rs)
<1>1. t \in Nat
  BY SumToSums DEF Total
<1>2. CASE t <= Cap
  <2>1. KellyCap(rs) = rs BY <1>2 DEF KellyCap
  <2>2. \A i \in 1..Len(rs) : SizeOf(rs[i]) \in Nat BY SizeOfNat
  <2> QED BY <1>1, <1>2, <2>1, <2>2, BoundsAssumption
<1>3. CASE t > Cap
  <2> DEFINE new == KellyCap(rs)
  <2>0. ~(t <= Cap) BY <1>1, <1>3, BoundsAssumption
  <2>1. new = [i \in 1..Len(rs) |->
                 IF IsSized(rs[i])
                 THEN [rs[i] EXCEPT !.size = RoundDiv(rs[i].size * Cap, t)]
                 ELSE rs[i]]
    BY <2>0 DEF KellyCap
  <2> HIDE DEF t, new
  <2>2. ASSUME NEW i \in 1..Len(rs)
        PROVE  /\ new[i] \in Recommendation
               /\ new[i].verdict = rs[i].verdict
               /\ IsSized(new[i]) <=> IsSized(rs[i])
               /\ SizeOf(new[i]) <= SizeOf(rs[i])
               /\ 2 * (t * SizeOf(new[i])) <= 2 * (SizeOf(rs[i]) * Cap) + t
    <3>1. rs[i] \in Recommendation /\ SizeOf(rs[i]) \in Nat BY SizeOfNat
    <3>2. CASE ~IsSized(rs[i])
      <4>1. new[i] = rs[i] BY <2>1, <3>2
      <4>2. SizeOf(rs[i]) = 0 BY <3>2 DEF SizeOf
      <4>3. 2 * (t * 0) = 0 /\ 2 * (0 * Cap) = 0 BY <1>1, BoundsAssumption
      <4> QED BY <1>1, <3>1, <4>1, <4>2, <4>3
    <3>3. CASE IsSized(rs[i])
      <4> DEFINE x == rs[i].size
                 q == RoundDiv(x * Cap, t)
      <4>1. x \in Nat /\ SizeOf(rs[i]) = x
        BY <3>1, <3>3 DEF Recommendation, IsSized, SizeOf
      <4>2. new[i] = [rs[i] EXCEPT !.size = q]
        BY <2>1, <3>3
      <4>3. q \in Nat /\ q <= x /\ 2 * (t * q) <= 2 * (x * Cap) + t
        BY <1>1, <1>3, <4>1, ScaledBounds
      <4> HIDE DEF q
      <4>4. new[i] = [verdict |-> rs[i].verdict, size |-> q]
        BY <3>1, <4>2 DEF Recommendation
      <4>5. q # Unsized BY <4>3, NoneAssumption
      <4>6. new[i] \in Recommendation BY <3>1, <4>3, <4>4 DEF Recommendation
      <4>7. IsSized(new[i]) /\ SizeOf(new[i]) = q BY <4>4, <4>5 DEF IsSized, SizeOf
      <4>8. new[i].verdict = rs[i].verdict BY <4>4
      <4> QED BY <3>3, <4>1, <4>3, <4>6, <4>7, <4>8
    <3> QED BY <3>2, <3>3
  <2>3. new \in Seq(Recommendation) /\ Len(new) = Len(rs)
    <3>1. new = [i \in 1..Len(rs) |-> new[i]]
      BY <2>1, Zenon
    <3>2. new \in [1..Len(rs) -> Recommendation]
      BY <2>2, <3>1, Zenon
    <3>3. Len(rs) \in Nat
      OBVIOUS
    <3> QED BY <3>2, <3>3
  <2> QED BY <2>2, <2>3 DEF new, t
<1> QED BY <1>1, <1>2, <1>3, BoundsAssumption

\* The sum after the cap: at most Cap and half a unit for each size.
LEMMA KellyCapSum ==
  ASSUME NEW rs \in Seq(Recommendation)
  PROVE  2 * Total(KellyCap(rs)) <= 2 * Cap + Len(rs)
<1> DEFINE t == Total(rs)
           new == KellyCap(rs)
           L == Len(rs)
           F == SumTo(new)
           G == SumTo(rs)
<1>1. t \in Nat /\ L \in Nat
  BY SumToSums DEF Total
<1>2. CASE t <= Cap
  BY <1>1, <1>2, BoundsAssumption DEF KellyCap
<1>3. CASE t > Cap
  <2>1. /\ new \in Seq(Recommendation) /\ Len(new) = L
        /\ \A i \in 1..L : 2 * (t * SizeOf(new[i])) <= 2 * (SizeOf(rs[i]) * Cap) + t
    BY <1>3, KellyCapFacts
  <2> HIDE DEF new, t
  <2>2. /\ \A n \in 0..L : F[n] \in Nat /\ G[n] \in Nat
        /\ F[0] = 0 /\ G[0] = 0
        /\ \A n \in 1..L : F[n] = F[n - 1] + SizeOf(new[n]) /\ G[n] = G[n - 1] + SizeOf(rs[n])
        /\ \A n \in 1..L : SizeOf(new[n]) \in Nat /\ SizeOf(rs[n]) \in Nat
    BY <2>1, SumToSums, SizeOfNat
  <2>3. G[L] = t BY DEF t, Total
  <2>4. Total(new) = F[L] BY <2>1 DEF Total
  <2> HIDE DEF F, G, L
  <2> DEFINE S == {m \in Nat : m <= L => 2 * (t * F[m]) <= 2 * (G[m] * Cap) + t * m}
  <2>5. 0 \in S
    <3>1. t * 0 = 0 /\ 0 * Cap = 0 BY <1>1, BoundsAssumption
    <3>2. 2 * (t * F[0]) = 0 /\ 2 * (G[0] * Cap) + t * 0 = 0 BY <2>2, <3>1
    <3> QED BY <3>2
  <2>6. ASSUME NEW m \in Nat, m \in S PROVE m + 1 \in S
    <3> SUFFICES ASSUME m + 1 <= L
                 PROVE  2 * (t * F[m + 1]) <= 2 * (G[m + 1] * Cap) + t * (m + 1)
      OBVIOUS
    <3>1. m + 1 \in 1..L /\ m \in 0..L /\ m + 1 - 1 = m BY <1>1
    <3> DEFINE a == SizeOf(new[m + 1])
               b == SizeOf(rs[m + 1])
               f == F[m]
               g == G[m]
    <3>2. F[m + 1] = f + a /\ G[m + 1] = g + b /\ f \in Nat /\ g \in Nat /\ a \in Nat /\ b \in Nat
      <4>1. F[m + 1] = F[m + 1 - 1] + a /\ G[m + 1] = G[m + 1 - 1] + b BY <2>2, <3>1
      <4>2. F[m] \in Nat /\ G[m] \in Nat BY <2>2, <3>1
      <4>3. a \in Nat /\ b \in Nat BY <2>2, <3>1
      <4> QED BY <3>1, <4>1, <4>2, <4>3
    <3>3. 2 * (t * a) <= 2 * (b * Cap) + t BY <2>1, <3>1
    <3>4. 2 * (t * f) <= 2 * (g * Cap) + t * m BY <2>6, <3>1, <1>1
    <3> HIDE DEF a, b, f, g
    <3>5. t * (f + a) = t * f + t * a BY <1>1, <3>2
    <3>6. (g + b) * Cap = g * Cap + b * Cap BY <3>2, BoundsAssumption
    <3>7. t * (m + 1) = t * m + t BY <1>1
    <3> DEFINE tf == t * f
               ta == t * a
               gc == g * Cap
               bc == b * Cap
               tm == t * m
    <3>8. tf \in Nat /\ ta \in Nat /\ gc \in Nat /\ bc \in Nat /\ tm \in Nat
      BY <1>1, <3>2, BoundsAssumption
    <3>9. 2 * ta <= 2 * bc + t /\ 2 * tf <= 2 * gc + tm BY <3>3, <3>4
    <3>10. /\ t * F[m + 1] = tf + ta /\ G[m + 1] * Cap = gc + bc
           /\ t * (m + 1) = tm + t
      BY <3>2, <3>5, <3>6, <3>7
    <3> HIDE DEF tf, ta, gc, bc, tm
    <3>11. 2 * (tf + ta) <= 2 * (gc + bc) + (tm + t)
      BY <1>1, <3>8, <3>9
    <3> QED BY <3>10, <3>11
  <2>7. L \in S
    <3>1. Nat \subseteq S
      <4> HIDE DEF S
      <4> QED BY <2>5, <2>6, SetInduction
    <3> QED BY <1>1, <3>1
  <2>8. 2 * (t * F[L]) <= 2 * (t * Cap) + t * L
    BY <1>1, <2>3, <2>7
  <2>9. 2 * F[L] <= 2 * Cap + L
    <3> DEFINE f == F[L]
    <3>1. f \in Nat /\ t \in Nat /\ t > 0 /\ Cap \in Nat /\ L \in Nat
      BY <1>1, <1>3, <2>2, BoundsAssumption
    <3>2. 2 * (t * f) <= 2 * (t * Cap) + t * L BY <2>8
    <3> HIDE DEF f
    <3> SUFFICES ASSUME 2 * f >= 2 * Cap + L + 1 PROVE FALSE
      BY <3>1 DEF f
    <3>3. t * (2 * f) >= t * (2 * Cap + L + 1) BY <3>1
    <3>4. t * (2 * f) = 2 * (t * f) /\ t * (2 * Cap + L + 1) = 2 * (t * Cap) + t * L + t
      BY <3>1
    <3>5. t * f \in Nat /\ t * Cap \in Nat /\ t * L \in Nat BY <3>1
    <3> QED BY <3>1, <3>2, <3>3, <3>4, <3>5
  <2> QED BY <2>4, <2>9 DEF new, L
<1> QED BY <1>1, <1>2, <1>3, BoundsAssumption

--------------------------------------------------------------------------------
(* The run of Stage 5 computes SizeAll for its brake, and blocks it or not. *)

\* The candidates sized one by one.
SizedAs(b) == [i \in DOMAIN cands |-> SizeOne(cands[i], b)]

\* What Write reports.
Outcome == IF BelowBand(ctx, inputs) THEN BlockCash(SizeAll(cands, Brake(ctx)))
                                     ELSE SizeAll(cands, Brake(ctx))

\* The inductive invariant: what recs and the report hold at each point of main.
Computes ==
  /\ cands \in Seq(Candidate)
  /\ inputs \in Inputs
  /\ pc \in {"start", "size", "capped", "done", "crashed"}
  /\ ctx \in Context \cup {None}
  /\ recs \in Seq(Recommendation)
  /\ pc = "start" => recs = <<>>
  /\ pc # "done" => report = None
  /\ pc \in {"size", "capped"} => ctx \in Context /\ inputs.capital = "given"
  /\ pc = "size" => /\ Len(recs) <= Len(cands)
                    /\ \A i \in 1..Len(recs) : recs[i] = SizeOne(cands[i], Brake(ctx))
  /\ pc = "capped" => recs = SizeAll(cands, Brake(ctx))
  /\ pc = "done" => \/ report = [recs |-> <<>>, brake |-> FALSE, blocked |-> TRUE]
                    \/ /\ ctx \in Context /\ inputs.capital = "given"
                       /\ report = [recs |-> Outcome, brake |-> Brake(ctx), blocked |-> FALSE]

\* What SizeAll returns for a day's candidates.
LEMMA SizeAllFacts ==
  ASSUME NEW cs \in Seq(Candidate), NEW b \in BOOLEAN, NEW other \in BOOLEAN
  PROVE  /\ SizeAll(cs, b) \in Seq(Recommendation)
         /\ Len(SizeAll(cs, b)) = Len(cs)
         /\ 2 * Total(SizeAll(cs, b)) <= 2 * Cap + Len(cs)
         /\ \A i \in 1..Len(cs) :
              /\ SizeOf(SizeAll(cs, b)[i]) <= MaxPct
              /\ IsSized(SizeAll(cs, b)[i]) <=> SizeAll(cs, b)[i].verdict \in SizedVerdicts
              /\ IsSized(SizeAll(cs, b)[i]) <=> IsSized(SizeAll(cs, other)[i])
<1> DEFINE raw(x) == [i \in DOMAIN cs |-> SizeOne(cs[i], x)]
<1>1. ASSUME NEW x \in BOOLEAN, NEW y \in BOOLEAN
      PROVE  /\ raw(x) \in Seq(Recommendation) /\ Len(raw(x)) = Len(cs)
             /\ \A i \in 1..Len(cs) :
                  /\ SizeOf(raw(x)[i]) \in Nat
                  /\ SizeOf(raw(x)[i]) <= MaxPct
                  /\ IsSized(raw(x)[i]) <=> raw(x)[i].verdict \in SizedVerdicts
                  /\ IsSized(raw(x)[i]) <=> IsSized(raw(y)[i])
  <2>1. \A i \in 1..Len(cs) :
          /\ raw(x)[i] = SizeOne(cs[i], x) /\ raw(y)[i] = SizeOne(cs[i], y)
          /\ cs[i] \in Candidate
    OBVIOUS
  <2>2. \A i \in 1..Len(cs) :
          /\ raw(x)[i] \in Recommendation
          /\ SizeOf(raw(x)[i]) <= MaxPct
          /\ IsSized(raw(x)[i]) <=> raw(x)[i].verdict \in SizedVerdicts
          /\ IsSized(raw(x)[i]) <=> IsSized(raw(y)[i])
    <3> HIDE DEF raw
    <3> QED BY <2>1, SizeOneFacts
  <2>3. raw(x) \in Seq(Recommendation) /\ Len(raw(x)) = Len(cs)
    <3>1. \A i \in 1..Len(cs) : SizeOne(cs[i], x) \in Recommendation
      BY SizeOneFacts
    <3>2. raw(x) = [i \in 1..Len(cs) |-> SizeOne(cs[i], x)]
      OBVIOUS
    <3> HIDE DEF raw
    <3> QED BY <3>1, <3>2
  <2> HIDE DEF raw
  <2> QED BY <2>2, <2>3, SizeOfNat
<1>2. \A x \in BOOLEAN : SizeAll(cs, x) = KellyCap(raw(x))
  BY DEF SizeAll
<1> HIDE DEF raw
<1>3. ASSUME NEW x \in BOOLEAN, NEW y \in BOOLEAN
      PROVE  /\ SizeAll(cs, x) \in Seq(Recommendation)
             /\ Len(SizeAll(cs, x)) = Len(cs)
             /\ 2 * Total(SizeAll(cs, x)) <= 2 * Cap + Len(cs)
             /\ \A i \in 1..Len(cs) :
                  /\ SizeAll(cs, x)[i].verdict = raw(x)[i].verdict
                  /\ IsSized(SizeAll(cs, x)[i]) <=> IsSized(raw(x)[i])
                  /\ SizeOf(SizeAll(cs, x)[i]) <= SizeOf(raw(x)[i])
  BY <1>1, <1>2, KellyCapFacts, KellyCapSum
<1>4. \A i \in 1..Len(cs) : SizeOf(SizeAll(cs, b)[i]) <= MaxPct
  <2> TAKE i \in 1..Len(cs)
  <2>1. SizeOf(SizeAll(cs, b)[i]) \in Nat BY <1>3, SizeOfNat
  <2> QED BY <1>1, <1>3, <2>1, BoundsAssumption
<1> QED BY <1>1, <1>3, <1>4

\* A blocked report holds no size.
LEMMA BlockCashFacts ==
  ASSUME NEW rs \in Seq(Recommendation),
         \A i \in 1..Len(rs) : IsSized(rs[i]) <=> rs[i].verdict \in SizedVerdicts
  PROVE  /\ BlockCash(rs) \in Seq(Recommendation)
         /\ Len(BlockCash(rs)) = Len(rs)
         /\ \A i \in 1..Len(rs) : /\ ~IsSized(BlockCash(rs)[i])
                                  /\ SizeOf(BlockCash(rs)[i]) = 0
                                  /\ BlockCash(rs)[i].verdict \notin SizedVerdicts
         /\ Total(BlockCash(rs)) <= Total(rs)
<1>1. BlockCash(rs) = [i \in 1..Len(rs) |-> IF rs[i].verdict \in SizedVerdicts
                                            THEN Without("blocked_cash_band") ELSE rs[i]]
  BY DEF BlockCash
<1>2. ASSUME NEW i \in 1..Len(rs)
      PROVE  /\ BlockCash(rs)[i] \in Recommendation
             /\ ~IsSized(BlockCash(rs)[i])
             /\ BlockCash(rs)[i].verdict \notin SizedVerdicts
  <2>1. CASE rs[i].verdict \in SizedVerdicts
    <3>1. BlockCash(rs)[i] = Without("blocked_cash_band") BY <1>1, <2>1
    <3> QED BY <3>1 DEF Without, IsSized, Recommendation, OutVerdicts, SizedVerdicts
  <2>2. CASE rs[i].verdict \notin SizedVerdicts
    <3>1. BlockCash(rs)[i] = rs[i] /\ rs[i] \in Recommendation BY <1>1, <2>2
    <3> QED BY <2>2, <3>1
  <2> QED BY <2>1, <2>2
<1>3. BlockCash(rs) \in Seq(Recommendation) /\ Len(BlockCash(rs)) = Len(rs)
  BY <1>1, <1>2
<1>4. \A i \in 1..Len(rs) : SizeOf(BlockCash(rs)[i]) = 0 /\ SizeOf(rs[i]) \in Nat
  BY <1>2, SizeOfNat DEF SizeOf
<1>5. Total(BlockCash(rs)) <= Total(rs)
  BY <1>3, <1>4, TotalMonotone
<1> QED BY <1>2, <1>3, <1>4, <1>5

\* The brake is on or off.
LEMMA BrakeBoolean == ASSUME NEW c \in Context PROVE Brake(c) \in BOOLEAN
BY DEF Brake

\* The portfolio context has its type.
LEMMA ContextTyped ==
  ASSUME NEW in \in Inputs, PortfolioContext(in) # None
  PROVE  PortfolioContext(in) \in Context /\ in.capital = "given"
<1>1. in.capital = "given" /\ in.drawdown \in Drawdowns \cup {None, Bad}
      /\ in.cash \in Cashes \cup {None, Bad}
      /\ in.derivedDrawdown \in Drawdowns \cup {None} /\ in.derivedCash \in Cashes \cup {None}
  BY DEF Inputs, PortfolioContext
<1>2. OverrideOr(in.drawdown, in.derivedDrawdown, 0) \in Nat
  <2>1. Drawdowns \subseteq Nat /\ None \notin Nat /\ Bad \notin Nat BY SizingAssumption
  <2>2. CASE in.drawdown = Bad BY <2>1, <2>2, SizingAssumption DEF OverrideOr
  <2>3. CASE in.drawdown = None BY <1>1, <2>1, <2>3, SizingAssumption DEF OverrideOr
  <2>4. CASE in.drawdown \notin {Bad, None} BY <1>1, <2>1, <2>4 DEF OverrideOr
  <2> QED BY <2>2, <2>3, <2>4
<1>3. OverrideOr(in.cash, in.derivedCash, None) \in Cashes \cup {None}
  <2>2. CASE in.cash = Bad BY <2>2, SizingAssumption DEF OverrideOr
  <2>3. CASE in.cash = None BY <1>1, <2>3, SizingAssumption DEF OverrideOr
  <2>4. CASE in.cash \notin {Bad, None} BY <1>1, <2>4 DEF OverrideOr
  <2> QED BY <2>2, <2>3, <2>4
<1> QED BY <1>1, <1>2, <1>3 DEF PortfolioContext, Context

\* The invariant holds at the start.
LEMMA InitComputes == Init => Computes
<1> SUFFICES ASSUME Init PROVE Computes
  OBVIOUS
<1>1. StageFour \subseteq Candidate
  BY SizingAssumption DEF StageFour, Candidate, InVerdicts
<1>2. PICK n \in 0..MaxCands : /\ cands \in [1..n -> StageFour]
                               /\ inputs \in IF n <= MaxVaried THEN Inputs ELSE Plain
  BY DEF Init
<1>3. cands \in Seq(Candidate)
  <2>1. n \in Nat /\ cands \in [1..n -> Candidate]
    BY <1>1, <1>2, SizingAssumption
  <2> QED BY <2>1
<1>4. Plain \subseteq Inputs
  BY DEF Plain, Inputs
<1>5. inputs \in Inputs
  BY <1>2, <1>4
<1> QED BY <1>3, <1>5 DEF Init, Computes

\* Every step keeps it.
LEMMA NextComputes == Computes /\ [Next]_vars => Computes'
<1> SUFFICES ASSUME Computes, [Next]_vars PROVE Computes'
  OBVIOUS
<1> USE DEF Computes
<1>1. CASE Withhold
  BY <1>1 DEF Withhold
<1>2. CASE Load
  <2>1. PortfolioContext(inputs) \in Context /\ inputs.capital = "given"
    BY <1>2, ContextTyped DEF Load
  <2>2. Len(cands) \in Nat /\ Len(<<>>) = 0 OBVIOUS
  <2>3. recs' = <<>> /\ ctx' \in Context /\ pc' = "size" BY <1>2, <2>1 DEF Load
  <2> QED BY <1>2, <2>1, <2>2, <2>3 DEF Load
<1>3. CASE SizeNext
  <2> DEFINE k == Len(recs) + 1
             rec == SizeOne(cands[k], Brake(ctx))
  <2>1. /\ pc = "size" /\ Len(recs) < Len(cands) /\ recs' = Append(recs, rec)
        /\ UNCHANGED <<cands, inputs, pc, ctx, report>>
    BY <1>3 DEF SizeNext
  <2>2. k \in 1..Len(cands) /\ cands[k] \in Candidate
    BY <2>1
  <2>3. rec \in Recommendation
    <3>1. Brake(ctx) \in BOOLEAN BY <2>1, BrakeBoolean
    <3> QED BY <2>2, <3>1, SizeOneFacts
  <2>4. Len(recs') = k /\ recs' \in Seq(Recommendation)
    BY <2>1, <2>3
  <2>5. ASSUME NEW i \in 1..Len(recs') PROVE recs'[i] = SizeOne(cands[i], Brake(ctx))
    <3>1. CASE i = k BY <2>1, <2>4, <3>1
    <3>2. CASE i # k
      <4>1. i \in 1..Len(recs) BY <2>4, <3>2
      <4>2. recs'[i] = recs[i] BY <2>1, <4>1
      <4> QED BY <2>1, <4>1, <4>2
    <3> QED BY <3>1, <3>2
  <2>6. Brake(ctx)' = Brake(ctx) BY <2>1 DEF Brake
  <2> HIDE DEF rec, k
  <2>7. Len(recs') <= Len(cands) BY <2>2, <2>4
  <2> QED BY <2>1, <2>4, <2>5, <2>6, <2>7
<1>4. CASE DivideByZero
  BY <1>4 DEF DivideByZero
<1>5. CASE CapSum
  <2>1. /\ pc = "size" /\ Len(recs) = Len(cands) /\ recs' = KellyCap(recs) /\ pc' = "capped"
        /\ UNCHANGED <<cands, inputs, ctx, report>>
    BY <1>5 DEF CapSum
  <2>2. recs = SizedAs(Brake(ctx))
    <3>1. recs = [i \in 1..Len(recs) |-> recs[i]] OBVIOUS
    <3>2. \A i \in 1..Len(recs) : recs[i] = SizeOne(cands[i], Brake(ctx)) BY <2>1
    <3>3. DOMAIN cands = 1..Len(recs) BY <2>1
    <3> QED BY <3>1, <3>2, <3>3 DEF SizedAs
  <2>3. recs' = SizeAll(cands, Brake(ctx))
    BY <2>1, <2>2 DEF SizeAll, SizedAs
  <2>4. recs' \in Seq(Recommendation) BY <2>1, KellyCapFacts
  <2>5. SizeAll(cands, Brake(ctx))' = SizeAll(cands, Brake(ctx))
    BY <2>1 DEF Brake, SizeAll
  <2> QED BY <2>1, <2>3, <2>4, <2>5
<1>6. CASE Write
  <2>1. /\ pc = "capped" /\ pc' = "done" /\ UNCHANGED <<cands, inputs, ctx>>
        /\ recs' = Outcome
        /\ report' = [recs |-> recs', brake |-> Brake(ctx), blocked |-> FALSE]
    BY <1>6 DEF Write, Outcome
  <2>2. ctx \in Context /\ inputs.capital = "given" BY <2>1
  <2>3. Outcome' = Outcome /\ Brake(ctx)' = Brake(ctx)
    BY <2>1 DEF Outcome, Brake, BelowBand, BlockCash, SizeAll
  <2>4. Outcome \in Seq(Recommendation)
    <3>1. Brake(ctx) \in BOOLEAN BY <2>2, BrakeBoolean
    <3>2. /\ SizeAll(cands, Brake(ctx)) \in Seq(Recommendation)
          /\ \A i \in 1..Len(SizeAll(cands, Brake(ctx))) :
               IsSized(SizeAll(cands, Brake(ctx))[i])
                 <=> SizeAll(cands, Brake(ctx))[i].verdict \in SizedVerdicts
      BY <3>1, SizeAllFacts
    <3>3. BlockCash(SizeAll(cands, Brake(ctx))) \in Seq(Recommendation)
      BY <3>2, BlockCashFacts
    <3> QED BY <3>2, <3>3 DEF Outcome
  <2> QED BY <2>1, <2>2, <2>3, <2>4
<1>7. CASE UNCHANGED vars
  BY <1>7 DEF vars, Outcome, Brake, BelowBand, BlockCash, SizeAll
<1>8. CASE CorruptInput
  BY <1>8 DEF CorruptInput
<1> QED BY <1>1, <1>2, <1>3, <1>4, <1>5, <1>6, <1>7, <1>8 DEF Next

\* A run computes SizeAll for its brake, whatever the inputs.
THEOREM ComputesAlways == Spec => []Computes
BY InitComputes, NextComputes, PTL DEF Spec

(* Types, from the invariant: no sum or scaling leaves the numbers.         *)
THEOREM TypeCorrect == Spec => []TypeOK
<1>1. Init => TypeOK
  BY InitComputes DEF Init, Computes, TypeOK
<1>2. Computes /\ Computes' /\ TypeOK /\ [Next]_vars => TypeOK'
  <2> SUFFICES ASSUME Computes, Computes', TypeOK, [Next]_vars
               PROVE  report' \in {None} \cup [recs: Seq(Recommendation), brake: BOOLEAN, blocked: BOOLEAN]
    BY DEF Computes, TypeOK
  <2>1. CASE Withhold
    <3>1. << >> \in Seq(Recommendation)
      OBVIOUS
    <3> QED BY <2>1, <3>1 DEF Withhold
  <2>2. CASE Write
    <3>1. recs' \in Seq(Recommendation) /\ Brake(ctx) \in BOOLEAN
      BY <2>2, BrakeBoolean DEF Write, Computes
    <3> QED BY <2>2, <3>1 DEF Write
  <2>3. CASE UNCHANGED report
    BY <2>3 DEF TypeOK
  <2> QED BY <2>1, <2>2, <2>3 DEF Next, CorruptInput, Load, SizeNext, DivideByZero, CapSum, vars
<1> QED BY <1>1, <1>2, InitComputes, NextComputes, PTL DEF Spec

\* What a report holds, from the invariant.
LEMMA ReportFacts ==
  ASSUME Computes, Written
  PROVE  /\ report.recs \in Seq(Recommendation)
         /\ Len(report.recs) = Len(cands)
         /\ 2 * Total(report.recs) <= 2 * Cap + Len(report.recs)
         /\ report.brake \in BOOLEAN
         /\ \A i \in 1..Len(cands) :
              /\ SizeOf(report.recs[i]) <= MaxPct
              /\ IsSized(report.recs[i]) <=> report.recs[i].verdict \in SizedVerdicts
              /\ BelowBand(ctx, inputs) => ~IsSized(report.recs[i])
              /\ ~BelowBand(ctx, inputs) =>
                   (IsSized(report.recs[i]) <=> IsSized(SizeAll(cands, ~report.brake)[i]))
<1> DEFINE b == Brake(ctx)
           all == SizeAll(cands, b)
<1>1. /\ ctx \in Context /\ cands \in Seq(Candidate)
      /\ report.recs = Outcome /\ report.brake = b
  BY DEF Computes, Written
<1>2. b \in BOOLEAN /\ (~b) \in BOOLEAN
  BY <1>1, BrakeBoolean
<1> HIDE DEF b
<1>3. /\ all \in Seq(Recommendation) /\ Len(all) = Len(cands)
      /\ 2 * Total(all) <= 2 * Cap + Len(cands)
      /\ \A i \in 1..Len(cands) :
           /\ SizeOf(all[i]) <= MaxPct
           /\ IsSized(all[i]) <=> all[i].verdict \in SizedVerdicts
           /\ IsSized(all[i]) <=> IsSized(SizeAll(cands, ~b)[i])
  BY <1>1, <1>2, SizeAllFacts
<1> HIDE DEF all
<1>4. CASE ~BelowBand(ctx, inputs)
  <2>1. report.recs = all BY <1>1, <1>4 DEF Outcome, all, b
  <2> QED BY <1>1, <1>2, <1>3, <1>4, <2>1
<1>5. CASE BelowBand(ctx, inputs)
  <2>1. report.recs = BlockCash(all) BY <1>1, <1>5 DEF Outcome, all, b
  <2>2. /\ BlockCash(all) \in Seq(Recommendation) /\ Len(BlockCash(all)) = Len(cands)
        /\ \A i \in 1..Len(cands) : /\ ~IsSized(BlockCash(all)[i])
                                    /\ SizeOf(BlockCash(all)[i]) = 0
                                    /\ BlockCash(all)[i].verdict \notin SizedVerdicts
        /\ Total(BlockCash(all)) <= Total(all)
    BY <1>3, BlockCashFacts
  <2>3. Total(BlockCash(all)) \in Nat /\ Total(all) \in Nat
    BY <1>3, <2>2, SumToSums DEF Total
  <2>4. 2 * Total(BlockCash(all)) <= 2 * Cap + Len(cands)
    BY <1>3, <2>2, <2>3, BoundsAssumption
  <2> QED BY <1>1, <1>2, <1>5, <2>1, <2>2, <2>4, BoundsAssumption
<1> QED BY <1>4, <1>5

(* G16 for every day: the cap per position, and the cap on the sum up to   *)
(* half a unit of rounding for each candidate, whatever the thresholds.    *)
THEOREM WithinCapsAlways == Spec => []WithinCaps
<1>1. Computes => WithinCaps
  <2> SUFFICES ASSUME Computes, Written
               PROVE  /\ \A i \in DOMAIN report.recs : SizeOf(report.recs[i]) <= MaxPct
                      /\ 2 * Total(report.recs) <= 2 * Cap + Len(report.recs)
    BY DEF WithinCaps
  <2> QED BY ReportFacts
<1> QED BY <1>1, ComputesAlways, PTL

(* The brake changes how much is recommended, never for whom, whatever the *)
(* thresholds and the candidates.                                          *)
THEOREM BrakeKeepsTickersAlways == Spec => []BrakeKeepsTickers
<1>1. Computes => BrakeKeepsTickers
  <2> SUFFICES ASSUME Computes, Written, ~BelowBand(ctx, inputs)
               PROVE  \A i \in DOMAIN cands :
                        IsSized(report.recs[i]) <=> IsSized(SizeAll(cands, ~report.brake)[i])
    BY DEF BrakeKeepsTickers
  <2>1. DOMAIN cands = 1..Len(cands) BY DEF Computes
  <2> QED BY <2>1, ReportFacts
<1> QED BY <1>1, ComputesAlways, PTL

(* No size without a recommending verdict, without the user's capital      *)
(* (G12) or under the cash band (G18).                                     *)
THEOREM SizesAreRecommendedAlways == Spec => []SizesAreRecommended
<1>1. Computes => SizesAreRecommended
  <2> SUFFICES ASSUME Computes, pc = "done"
               PROVE  /\ \A i \in DOMAIN report.recs :
                           IsSized(report.recs[i]) <=> report.recs[i].verdict \in SizedVerdicts
                      /\ (inputs.capital = "missing" \/ BelowBand(ctx, inputs)) =>
                           \A i \in DOMAIN report.recs : ~IsSized(report.recs[i])
    BY DEF SizesAreRecommended
  <2>1. CASE report = [recs |-> <<>>, brake |-> FALSE, blocked |-> TRUE]
    <3>1. DOMAIN report.recs = {} BY <2>1
    <3> QED BY <3>1
  <2>2. CASE ctx \in Context /\ inputs.capital = "given" /\ ~report.blocked
    <3>1. Written BY <2>2 DEF Written
    <3>2. DOMAIN report.recs = 1..Len(cands) BY <3>1, ReportFacts
    <3> QED BY <2>2, <3>1, <3>2, ReportFacts
  <2> QED BY <2>1, <2>2 DEF Computes
<1> QED BY <1>1, ComputesAlways, PTL

--------------------------------------------------------------------------------
(* The order of the sizes.                                                 *)

\* Half of more is not less.
LEMMA HalfMonotone ==
  ASSUME NEW x \in Nat, NEW y \in Nat, x <= y
  PROVE  Half(x) <= Half(y)
BY RoundDivMonotone DEF Half

\* The Kelly fraction grows with the ratio.
LEMMA KellyMonotone ==
  ASSUME NEW r \in Nat, NEW s \in Nat, r <= s
  PROVE  /\ FractionalKelly(r) \in Nat /\ FractionalKelly(s) \in Nat
         /\ FractionalKelly(r) <= FractionalKelly(s)
<1>1. ASSUME NEW x \in Nat, x >= 100
      PROVE  /\ (x - 100) * Fraction \in Nat /\ 2 * x \in Nat \ {0}
             /\ FractionalKelly(x) = RoundDiv((x - 100) * Fraction, 2 * x)
             /\ FractionalKelly(x) \in Nat
  <2>1. x - 100 \in Nat /\ (x - 100) * Fraction \in Nat /\ 2 * x \in Nat \ {0}
    BY <1>1, BoundsAssumption
  <2> QED  BY <1>1, <2>1, RoundDivBounds DEF FractionalKelly
<1>2. CASE s < 100
  BY <1>2 DEF FractionalKelly
<1>3. CASE r < 100 /\ s >= 100
  <2>1. FractionalKelly(r) = 0
    BY <1>3 DEF FractionalKelly
  <2> QED  BY <1>1, <1>3, <2>1
<1>4. CASE r >= 100
  <2> DEFINE x == r - 100
             y == s - 100
  <2>1. x \in Nat /\ y \in Nat /\ x <= y /\ r = x + 100 /\ s = y + 100 /\ Fraction \in Nat
    BY <1>4, BoundsAssumption
  <2> HIDE DEF x, y
  <2>2. (x * Fraction) * (2 * s) <= (y * Fraction) * (2 * r)
    <3>1. /\ (x * Fraction) * (2 * s) = 2 * (Fraction * (x * y)) + 200 * (Fraction * x)
          /\ (y * Fraction) * (2 * r) = 2 * (Fraction * (x * y)) + 200 * (Fraction * y)
      BY <2>1
    <3>2. Fraction * x <= Fraction * y /\ Fraction * (x * y) \in Nat
          /\ Fraction * x \in Nat /\ Fraction * y \in Nat
      <4>1. PICK d \in Nat : y = x + d
        <5>1. y - x \in Nat /\ y = x + (y - x)
          BY <2>1
        <5> QED  BY <5>1
      <4>2. Fraction * y = Fraction * x + Fraction * d /\ Fraction * d \in Nat
        BY <2>1, <4>1
      <4> QED  BY <2>1, <4>2
    <3> QED  BY <3>1, <3>2
  <2>3. /\ FractionalKelly(r) = RoundDiv(x * Fraction, 2 * r) /\ FractionalKelly(r) \in Nat
        /\ FractionalKelly(s) = RoundDiv(y * Fraction, 2 * s) /\ FractionalKelly(s) \in Nat
        /\ x * Fraction \in Nat /\ y * Fraction \in Nat
    BY <1>1, <1>4 DEF x, y
  <2>4. RoundDiv(x * Fraction, 2 * r) <= RoundDiv(y * Fraction, 2 * s)
    <3>1. 2 * r \in Nat \ {0} /\ 2 * s \in Nat \ {0}
      BY <1>4
    <3> QED  BY <2>2, <2>3, <3>1, RoundDivOrder
  <2> QED  BY <2>3, <2>4
<1> QED  BY <1>2, <1>3, <1>4

\* The proposed size grows with the ratio, through the halving and the clamp.
LEMMA ProposedMonotone ==
  ASSUME NEW r \in Nat, NEW s \in Nat, r <= s
  PROVE  Proposed(r) <= Proposed(s)
<1> DEFINE k == FractionalKelly(r)
           l == FractionalKelly(s)
           x == IF r < HalfBelow THEN Half(k) ELSE k
           y == IF s < HalfBelow THEN Half(l) ELSE l
<1>1. k \in Nat /\ l \in Nat /\ k <= l
  BY KellyMonotone
<1>2. Proposed(r) = (IF x > MaxPct THEN MaxPct ELSE x)
      /\ Proposed(s) = (IF y > MaxPct THEN MaxPct ELSE y)
  BY DEF Proposed
<1> HIDE DEF k, l
<1>3. Half(k) \in Nat /\ Half(l) \in Nat /\ Half(k) <= k /\ Half(k) <= Half(l)
  BY <1>1, HalfBounds, HalfMonotone
<1>4. HalfBelow \in Nat /\ MaxPct \in Nat
  BY BoundsAssumption
<1>5. x \in Nat /\ y \in Nat /\ x <= y
  BY <1>1, <1>3, <1>4
<1> HIDE DEF x, y
<1> QED  BY <1>2, <1>4, <1>5

\* The size of an accepted candidate with a ratio, before the sum is capped.
LEMMA AcceptedSize ==
  ASSUME NEW c \in Candidate, c.verdict = "accepted", c.ratio \in Nat, NEW b \in BOOLEAN
  PROVE  SizeOf(SizeOne(c, b)) =
           IF Divides(c) /\ Proposed(c.ratio) >= MinPct
           THEN IF b THEN Half(Proposed(c.ratio)) ELSE Proposed(c.ratio) ELSE 0
<1> DEFINE p == Proposed(c.ratio)
<1>1. p \in Nat /\ p # Unsized /\ Half(p) \in Nat /\ Half(p) # Unsized /\ c.ratio # NoRatio
      /\ MinPct \in Nat
  BY ProposedBounds, HalfBounds, NoneAssumption, BoundsAssumption
<1> HIDE DEF p
<1>2. CASE ~Divides(c)
  <2>1. SizeOne(c, b) = Without("rejected_low_asymmetry")
    BY <1>1, <1>2 DEF SizeOne
  <2> QED  BY <1>2, <2>1 DEF Without, SizeOf, IsSized
<1>3. CASE Divides(c) /\ p < MinPct
  <2>1. SizeOne(c, b) = Without("rejected_low_asymmetry")
    BY <1>1, <1>3 DEF SizeOne, p
  <2> QED  BY <1>1, <1>3, <2>1 DEF Without, SizeOf, IsSized, p
<1>4. CASE Divides(c) /\ p >= MinPct
  <2>1. SizeOne(c, b).size = IF b THEN Half(p) ELSE p
    BY <1>1, <1>4 DEF SizeOne, p
  <2> QED  BY <1>1, <1>4, <2>1 DEF SizeOf, IsSized, p
<1> QED  BY <1>1, <1>2, <1>3, <1>4

\* Of two accepted candidates the one with the better ratio is not sized less.
LEMMA SizeOneMonotone ==
  ASSUME NEW c \in Candidate, c.verdict = "accepted", c.ratio \in Nat,
         NEW d \in Candidate, d.verdict = "accepted", d.ratio \in Nat,
         c.ratio <= d.ratio, NEW b \in BOOLEAN
  PROVE  SizeOf(SizeOne(c, b)) <= SizeOf(SizeOne(d, b))
<1> DEFINE p == Proposed(c.ratio)
           q == Proposed(d.ratio)
<1>1. p \in Nat /\ q \in Nat /\ p <= q
  BY ProposedBounds, ProposedMonotone
<1>2. Divides(c) => Divides(d)
  BY NoneAssumption, BoundsAssumption DEF Divides
<1>3. /\ SizeOf(SizeOne(c, b)) = IF Divides(c) /\ p >= MinPct THEN IF b THEN Half(p) ELSE p ELSE 0
      /\ SizeOf(SizeOne(d, b)) = IF Divides(d) /\ q >= MinPct THEN IF b THEN Half(q) ELSE q ELSE 0
  BY AcceptedSize
<1> HIDE DEF p, q
<1>4. Half(p) \in Nat /\ Half(q) \in Nat /\ Half(p) <= Half(q) /\ MinPct \in Nat
  BY <1>1, HalfBounds, HalfMonotone, BoundsAssumption
<1> QED  BY <1>1, <1>2, <1>3, <1>4

\* The cap scales every size alike, and one that is not given counts nothing.
LEMMA KellyCapSizes ==
  ASSUME NEW rs \in Seq(Recommendation), NEW i \in 1..Len(rs)
  PROVE  SizeOf(KellyCap(rs)[i]) =
           IF Total(rs) <= Cap THEN SizeOf(rs[i]) ELSE RoundDiv(SizeOf(rs[i]) * Cap, Total(rs))
<1> DEFINE t == Total(rs)
<1>0. t \in Nat /\ Cap \in Nat /\ SizeOf(rs[i]) \in Nat /\ rs[i] \in Recommendation
  <2>1. Len(rs) \in 0..Len(rs) /\ rs[i] \in Recommendation
    OBVIOUS
  <2>2. t \in Nat
    BY <2>1, SumToSums DEF Total
  <2> QED  BY <2>1, <2>2, SizeOfNat, BoundsAssumption
<1>1. CASE t <= Cap
  BY <1>1 DEF KellyCap
<1>2. CASE ~(t <= Cap)
  <2>1. KellyCap(rs)[i] = IF IsSized(rs[i])
                          THEN [rs[i] EXCEPT !.size = RoundDiv(rs[i].size * Cap, t)] ELSE rs[i]
    BY <1>2 DEF KellyCap
  <2> HIDE DEF t
  <2>2. CASE IsSized(rs[i])
    <3>1. SizeOf(rs[i]) = rs[i].size
      BY <2>2 DEF SizeOf
    <3> DEFINE q == RoundDiv(rs[i].size * Cap, t)
    <3>2. q \in Nat /\ q # Unsized
      <4>1. rs[i].size * Cap \in Nat /\ t \in Nat \ {0}
        BY <1>0, <1>2, <3>1
      <4> QED  BY <4>1, RoundDivBounds, NoneAssumption
    <3> HIDE DEF q
    <3>3. KellyCap(rs)[i].size = q
      BY <1>0, <2>1, <2>2 DEF Recommendation, q
    <3> QED  BY <1>2, <3>1, <3>2, <3>3 DEF SizeOf, IsSized, q, t
  <2>3. CASE ~IsSized(rs[i])
    <3>1. SizeOf(rs[i]) = 0 /\ SizeOf(KellyCap(rs)[i]) = 0
      BY <2>1, <2>3 DEF SizeOf
    <3>2. 0 * Cap = 0 /\ t \in Nat \ {0}
      BY <1>0, <1>2
    <3>3. RoundDiv(0, t) = 0
      BY <3>2, RoundDivBounds DEF RoundDiv
    <3> QED  BY <1>2, <3>1, <3>2, <3>3 DEF t
  <2> QED  BY <2>2, <2>3
<1> QED  BY <1>1, <1>2

(* A better ratio never gets a smaller size, for any thresholds, candidates*)
(* and inputs.                                                             *)
THEOREM OrderFollowsAsymmetryAlways == Spec => []OrderFollowsAsymmetry
<1>1. Computes => OrderFollowsAsymmetry
  <2> SUFFICES ASSUME Computes, Written, NEW i \in DOMAIN cands, NEW j \in DOMAIN cands,
                      cands[i].verdict = "accepted", cands[j].verdict = "accepted",
                      cands[i].ratio \in Nat, cands[j].ratio \in Nat,
                      cands[i].ratio <= cands[j].ratio
               PROVE  SizeOf(report.recs[i]) <= SizeOf(report.recs[j])
    BY DEF OrderFollowsAsymmetry
  <2> DEFINE b == Brake(ctx)
             raw == [k \in DOMAIN cands |-> SizeOne(cands[k], b)]
             t == Total(raw)
  <2>1. cands \in Seq(Candidate) /\ i \in 1..Len(cands) /\ j \in 1..Len(cands)
        /\ ctx \in Context /\ report.recs = Outcome
    BY DEF Computes, Written
  <2>2. b \in BOOLEAN /\ cands[i] \in Candidate /\ cands[j] \in Candidate
    BY <2>1, BrakeBoolean
  <2>3. CASE BelowBand(ctx, inputs)
    <3>1. ~IsSized(report.recs[i]) /\ ~IsSized(report.recs[j])
      BY <2>1, <2>3, ReportFacts
    <3> QED  BY <3>1 DEF SizeOf
  <2>4. CASE ~BelowBand(ctx, inputs)
    <3>1. report.recs = KellyCap(raw)
      BY <2>1, <2>4 DEF Outcome, SizeAll
    <3>2. raw \in Seq(Recommendation) /\ Len(raw) = Len(cands)
      <4> HIDE DEF b
      <4>1. \A k \in 1..Len(cands) : SizeOne(cands[k], b) \in Recommendation
        BY <2>1, <2>2, SizeOneFacts
      <4> QED  BY <2>1, <4>1
    <3>3. SizeOf(raw[i]) <= SizeOf(raw[j])
      <4>1. raw[i] = SizeOne(cands[i], b) /\ raw[j] = SizeOne(cands[j], b)
        BY <2>1
      <4> HIDE DEF b, raw
      <4> QED  BY <2>2, <4>1, SizeOneMonotone
    <3> HIDE DEF b, raw
    <3>4. SizeOf(raw[i]) \in Nat /\ SizeOf(raw[j]) \in Nat /\ t \in Nat /\ Cap \in Nat
      BY <2>1, <3>2, SizeOfNat, SumToSums, BoundsAssumption DEF Total
    <3>5. /\ SizeOf(KellyCap(raw)[i]) =
               IF t <= Cap THEN SizeOf(raw[i]) ELSE RoundDiv(SizeOf(raw[i]) * Cap, t)
          /\ SizeOf(KellyCap(raw)[j]) =
               IF t <= Cap THEN SizeOf(raw[j]) ELSE RoundDiv(SizeOf(raw[j]) * Cap, t)
      BY <2>1, <3>2, KellyCapSizes
    <3>6. ~(t <= Cap) => RoundDiv(SizeOf(raw[i]) * Cap, t) <= RoundDiv(SizeOf(raw[j]) * Cap, t)
      <4> SUFFICES ASSUME ~(t <= Cap)
                   PROVE  RoundDiv(SizeOf(raw[i]) * Cap, t) <= RoundDiv(SizeOf(raw[j]) * Cap, t)
        OBVIOUS
      <4> DEFINE x == SizeOf(raw[i])
                 y == SizeOf(raw[j])
      <4>1. x \in Nat /\ y \in Nat /\ x <= y /\ t \in Nat \ {0}
        BY <3>3, <3>4
      <4> HIDE DEF x, y, t
      <4>2. x * Cap \in Nat /\ y * Cap \in Nat /\ x * Cap <= y * Cap
        <5>1. PICK d \in Nat : y = x + d
          <6>1. y - x \in Nat /\ y = x + (y - x)
            BY <4>1
          <6> QED  BY <6>1
        <5>2. y * Cap = x * Cap + d * Cap /\ d * Cap \in Nat /\ x * Cap \in Nat
          BY <3>4, <4>1, <5>1
        <5> QED  BY <5>2
      <4>3. RoundDiv(x * Cap, t) <= RoundDiv(y * Cap, t)
        BY <4>1, <4>2, RoundDivMonotone
      <4> QED  BY <4>3 DEF x, y
    <3> QED  BY <3>1, <3>3, <3>5, <3>6
  <2> QED  BY <2>3, <2>4
<1> QED BY <1>1, ComputesAlways, PTL

------------------------------------------------------------------------------
(* The thesis files, of the composition of Stage 5 with 5a to 5d.          *)
FilesInv == edits \in Nat /\ thesis = [t \in Tickers |-> thesis[t]]

(* No step but the user's touches a thesis.json that is complete: 5a opens *)
(* the name only when it is free, and fills it only while it is torn.      *)
LEMMA FilesStep ==
  ASSUME FilesInv, [Theses!Next]_thesisVars
  PROVE  /\ FilesInv'
         /\ \A t \in Tickers : Theses!Parses(t) /\ thesis'[t] # thesis[t] => edits' > edits
<1> DEFINE Kept == \A t \in Tickers : Theses!Parses(t) /\ thesis'[t] # thesis[t] => edits' > edits
<1>1. ASSUME NEW t \in Tickers, Theses!UserEdits(t) PROVE FilesInv' /\ Kept
  BY <1>1 DEF Theses!UserEdits, FilesInv
<1>2. CASE Theses!Commit
  <2>1. \/ thesis' = thesis
        \/ \E u : thesis[u] = Missing /\ thesis' = [thesis EXCEPT ![u] = Torn]
    BY <1>2 DEF Theses!Commit, Theses!Exists
  <2>2. edits' = edits
    BY <1>2 DEF Theses!Commit, Theses!bounds
  <2> QED  BY <2>1, <2>2 DEF FilesInv, Theses!Parses
<1>3. CASE Theses!Dump
  <2>1. \/ thesis' = thesis
        \/ \E u, new : thesis[u] = Torn /\ thesis' = [thesis EXCEPT ![u] = new]
    BY <1>3 DEF Theses!Dump
  <2>2. edits' = edits
    BY <1>3 DEF Theses!Dump, Theses!bounds
  <2> QED  BY <2>1, <2>2 DEF FilesInv, Theses!Parses
<1>4. CASE thesis' = thesis /\ edits' = edits
  BY <1>4 DEF FilesInv
<1>5. ASSUME Theses!NextDay \/ Theses!Stage4Arrives \/ Theses!StartRun
             \/ Theses!Skip \/ Theses!Take \/ Theses!SyncEnds
             \/ Theses!MeasureProximity \/ Theses!LinkEvents \/ Theses!MonitorExpiry
             \/ Theses!StageDies \/ UNCHANGED thesisVars
      PROVE  thesis' = thesis /\ edits' = edits
  BY <1>5 DEF Theses!NextDay, Theses!Stage4Arrives, Theses!StartRun, Theses!Skip, Theses!Take,
              Theses!SyncEnds, Theses!MeasureProximity, Theses!LinkEvents, Theses!MonitorExpiry,
              Theses!StageDies, thesisVars, Theses!bounds
<1> QED
  BY <1>1, <1>2, <1>3, <1>4, <1>5 DEF Theses!Next

(* What the user decided is the user's, for any tickers, candidates, runs, *)
(* edits beside them and deaths.                                           *)
THEOREM CompleteFilesKeptAlways == MCSpec => CompleteFilesKept
<1> DEFINE Kept == \A t \in Tickers : Theses!Parses(t) /\ thesis'[t] # thesis[t] => edits' > edits
<1>1. MCInit => FilesInv
  BY DEF MCInit, Theses!Init, FilesInv
<1>2. [MCNext]_allVars => [Theses!Next]_thesisVars
  BY DEF MCNext, allVars
<1>3. FilesInv /\ [MCNext]_allVars => FilesInv' /\ [Kept]_(Theses!vars)
  BY <1>2, FilesStep
<1> QED
  BY <1>1, <1>3, PTL DEF MCSpec, CompleteFilesKept, Theses!CompleteFilesKept

------------------------------------------------------------------------------
(* The two names of RoundDiv are one.                                      *)
LEMMA SameRounding == ASSUME NEW x, NEW y PROVE Theses!RoundDiv(x, y) = RoundDiv(x, y)
BY DEF Theses!RoundDiv, RoundDiv

(* An open thesis is a thesis, and the days are numbers.                   *)
LEMMA OpenIsThesis ==
  ASSUME Theses!TypeOK, NEW t \in Tickers, Theses!Parses(t)
  PROVE  thesis[t] \in Theses!Thesis
BY DEF Theses!TypeOK, Theses!Parses

\* Days are positive numbers.
LEMMA DaysAreNumbers == Days \subseteq Nat \ {0}
BY ThesesAssumption DEF Theses!ThesisAssumption

(* The measures have their types.                                          *)
LEMMA ProximityTyped ==
  ASSUME Theses!TypeOK, NEW t \in Tickers, Theses!Parses(t)
  PROVE  Theses!Proximity(t) \in [band: Theses!Proximities, asks: BOOLEAN]
<1>1. thesis[t].category \in Theses!Categories /\ thesis[t].horizon \in Nat
  BY OpenIsThesis DEF Theses!Thesis
<1>2. Theses!Band(t) \in {"low", "medium", "high"}
  BY DEF Theses!Band
<1>3. CASE thesis[t].category = "time_cap" /\ thesis[t].horizon > 0
  BY <1>2, <1>3 DEF Theses!Proximity, Theses!Proximities
<1>4. CASE thesis[t].category = "time_cap" /\ thesis[t].horizon = 0
  BY <1>1, <1>4 DEF Theses!Proximity, Theses!Proximities
<1>5. CASE thesis[t].category = "metric_trigger"
  BY <1>5 DEF Theses!Proximity, Theses!Proximities
<1>6. CASE thesis[t].category \in Theses!Events
  BY <1>6 DEF Theses!Proximity, Theses!Proximities, Theses!Events
<1> QED
  BY <1>1, <1>3, <1>4, <1>5, <1>6 DEF Theses!Categories, Theses!Measured

\* The tier is one comparison after the other.
LEMMA TierTyped ==
  ASSUME Theses!TypeOK, NEW t \in Tickers, Theses!Parses(t)
  PROVE  /\ Theses!Remaining(t) \in Int
         /\ Theses!Tier(t) = IF Theses!Remaining(t) < 0 THEN "overdue"
                             ELSE IF Theses!Remaining(t) = 0 THEN "expired"
                             ELSE IF Theses!Remaining(t) <= WarnDays THEN "warn"
                             ELSE IF Theses!Remaining(t) <= NoticeDays THEN "notice" ELSE "ok"
<1>1. thesis[t].horizon \in Nat /\ thesis[t].entry \in Nat /\ day \in Nat
  BY OpenIsThesis, DaysAreNumbers DEF Theses!Thesis, Theses!TypeOK
<1>2. Theses!Remaining(t) \in Int
  BY <1>1 DEF Theses!Remaining, Theses!Elapsed
<1>3. WarnDays \in Nat /\ NoticeDays \in Nat /\ WarnDays <= NoticeDays
  BY ThesesAssumption DEF Theses!ThesisAssumption
<1> DEFINE r == Theses!Remaining(t)
<1>4. Theses!Tier(t) = CASE r < 0 -> "overdue"
                          [] r = 0 -> "expired"
                          [] r \in 1..WarnDays -> "warn"
                          [] r \in (WarnDays + 1)..NoticeDays -> "notice"
                          [] r > NoticeDays -> "ok"
  BY DEF Theses!Tier
<1>5. r \in Int
  BY <1>2
<1> HIDE DEF r
<1>6. Theses!Tier(t) = IF r < 0 THEN "overdue" ELSE IF r = 0 THEN "expired"
                      ELSE IF r <= WarnDays THEN "warn"
                      ELSE IF r <= NoticeDays THEN "notice" ELSE "ok"
  BY <1>3, <1>4, <1>5
<1> QED
  BY <1>2, <1>6 DEF r

\* 5d's entry has its type.
LEMMA ExpiryTyped ==
  ASSUME Theses!TypeOK, NEW t \in Tickers, Theses!Parses(t)
  PROVE  Theses!Expiry(t) \in [tier: Theses!Tiers, asks: BOOLEAN]
<1>1. Theses!Tier(t) \in {"overdue", "expired", "warn", "notice", "ok"}
  BY TierTyped
<1> QED
  BY <1>1 DEF Theses!Expiry, Theses!Tiers

\* 5c's entry has its type.
LEMMA SignalTyped ==
  ASSUME Theses!TypeOK, NEW t \in Theses!OpenEvents
  PROVE  Theses!Signal(t) \in Theses!Signals
BY DEF Theses!Signal, Theses!Signals, Theses!OpenEvents, Theses!Events

------------------------------------------------------------------------------
(* Types, and where 5a is: at a candidate it wants and can project.        *)
AtCandidate ==
  step \in {"commit", "dump"} =>
    /\ next \in 1..Len(Theses!Candidates)
    /\ Theses!Wanted(Theses!Candidates[next]) /\ Theses!Sane(Theses!Candidates[next])

\* No thesis was entered after today.
PastEntries == \A t \in Tickers : Theses!Parses(t) => thesis[t].entry <= day

\* What the other invariants rest on.
ThesesTyped == Theses!TypeOK /\ AtCandidate /\ PastEntries

\* Stage 4 hands over candidates.
LEMMA CandidatesTyped ==
  ASSUME stage4 \in Stage4
  PROVE  Theses!Candidates \in Seq(Theses!Candidate)
BY ThesesAssumption DEF Theses!Candidates, Theses!ThesisAssumption

(* The candidate that 5a is at.                                            *)
LEMMA CurrentTyped ==
  ASSUME ThesesTyped, step \in {"commit", "dump"}
  PROVE  /\ Theses!Candidates[next] \in Theses!Candidate
         /\ Theses!Candidates[next].ticker \in Tickers
         /\ Theses!Candidates[next].category \in Theses!Categories
         /\ Theses!Candidates[next].horizon \in Nat
<1>1. /\ Theses!Candidates \in Seq(Theses!Candidate)
      /\ next \in 1..Len(Theses!Candidates)
      /\ Theses!Sane(Theses!Candidates[next])
  BY CandidatesTyped DEF ThesesTyped, Theses!TypeOK, AtCandidate
<1>2. Theses!Candidates[next] \in Theses!Candidate
  BY <1>1
<1> QED
  BY <1>1, <1>2 DEF Theses!Candidate, Theses!Sane

\* A function on some tickers is a report.
LEMMA ReportTyped ==
  ASSUME NEW T \in SUBSET Tickers, NEW S, NEW f \in [T -> S]
  PROVE  f \in Theses!Report(S)
BY DEF Theses!Report

\* The assumptions on the constants, one by one.
LEMMA ConstantsTyped ==
  /\ Days \subseteq Nat \ {0}
  /\ MaxRuns \in Nat /\ MaxEdits \in Nat /\ MaxDeaths \in Nat
  /\ WarnDays \in Nat /\ NoticeDays \in Nat /\ WarnDays <= NoticeDays
  /\ LowMax \in Nat /\ MediumMax \in Nat /\ LowMax <= MediumMax
  /\ Missing # Torn /\ Missing \notin Theses!Thesis /\ Torn \notin Theses!Thesis
  /\ Missing \notin Theses!Proximities /\ Missing \notin Theses!Tiers
BY ThesesAssumption DEF Theses!ThesisAssumption

\* Types at the start.
LEMMA InitTyped == Theses!Init => ThesesTyped
<1> SUFFICES ASSUME Theses!Init PROVE ThesesTyped
  OBVIOUS
<1>1. Missing \in Theses!Report([band: Theses!Proximities, asks: BOOLEAN])
      /\ Missing \in Theses!Report(Theses!Signals)
      /\ Missing \in Theses!Report([tier: Theses!Tiers, asks: BOOLEAN])
  BY DEF Theses!Report
<1>2. /\ alarm \in [Tickers -> [band: Theses!Proximities \cup {Missing}, tier: Theses!Tiers \cup {Missing}]]
  BY DEF Theses!Init, Theses!NoAlarm
<1>3. AtCandidate /\ PastEntries
  BY DEF Theses!Init, AtCandidate, PastEntries, Theses!Parses
<1>4. /\ day \in Days /\ stage3 \in Stage3 /\ stage4 \in Stage4
      /\ thesis \in [Tickers -> Theses!Thesis \cup {Missing, Torn}]
      /\ suffixed \subseteq Tickers /\ written \subseteq Tickers /\ touched \subseteq Tickers
      /\ step = "idle" /\ next \in Nat \ {0}
      /\ proximity = Missing /\ events = Missing /\ expiry = Missing
      /\ died \in BOOLEAN
      /\ runs \in 0..MaxRuns /\ edits \in 0..MaxEdits /\ deaths \in 0..MaxDeaths
  <2>1. /\ thesis = [t \in Tickers |-> Missing] /\ suffixed = {} /\ written = {} /\ touched = {}
        /\ next = 1 /\ runs = 0 /\ edits = 0 /\ deaths = 0
    BY DEF Theses!Init
  <2>2. /\ day \in Days /\ stage3 \in Stage3 /\ stage4 \in Stage4 /\ step = "idle"
        /\ proximity = Missing /\ events = Missing /\ expiry = Missing /\ died \in BOOLEAN
    BY DEF Theses!Init
  <2>3. runs \in 0..MaxRuns /\ edits \in 0..MaxEdits /\ deaths \in 0..MaxDeaths
    BY <2>1, ConstantsTyped
  <2> QED  BY <2>1, <2>2, <2>3
<1>5. Theses!TypeOK
  <2> DEFINE A == [Tickers -> [band: Theses!Proximities \cup {Missing}, tier: Theses!Tiers \cup {Missing}]]
             X == Theses!Report([band: Theses!Proximities, asks: BOOLEAN])
             Y == Theses!Report(Theses!Signals)
             Z == Theses!Report([tier: Theses!Tiers, asks: BOOLEAN])
  <2>1. alarm \in A /\ proximity \in X /\ events \in Y /\ expiry \in Z
    BY <1>1, <1>2, <1>4
  <2>2. Theses!TypeOK <=> /\ day \in Days /\ stage3 \in Stage3 /\ stage4 \in Stage4
      /\ thesis \in [Tickers -> Theses!Thesis \cup {Missing, Torn}]
      /\ suffixed \subseteq Tickers /\ written \subseteq Tickers /\ touched \subseteq Tickers
      /\ step \in {"idle", "sync", "commit", "dump", "proximity", "linker", "expiry"}
      /\ next \in Nat \ {0}
      /\ proximity \in X /\ events \in Y /\ expiry \in Z
      /\ died \in BOOLEAN
      /\ runs \in 0..MaxRuns /\ edits \in 0..MaxEdits /\ deaths \in 0..MaxDeaths
      /\ alarm \in A
    BY DEF Theses!TypeOK
  <2> HIDE DEF A, X, Y, Z
  <2> QED  BY <1>4, <2>1, <2>2
<1> QED
  BY <1>3, <1>5 DEF ThesesTyped

(* The steps of a run that leave theses and reports as they are.           *)
LEMMA QuietTyped ==
  ASSUME ThesesTyped,
         \/ Theses!NextDay \/ Theses!Stage4Arrives \/ Theses!StartRun
         \/ Theses!Skip \/ Theses!Take \/ Theses!SyncEnds \/ Theses!StageDies
         \/ UNCHANGED thesisVars
  PROVE  ThesesTyped'
<1> USE DEF ThesesTyped
<1>0. Missing \in Theses!Report([band: Theses!Proximities, asks: BOOLEAN])
      /\ Missing \in Theses!Report(Theses!Signals)
      /\ Missing \in Theses!Report([tier: Theses!Tiers, asks: BOOLEAN])
  BY DEF Theses!Report
<1>1. CASE Theses!NextDay
  <2>1. Theses!TypeOK'
    BY <1>1 DEF Theses!NextDay, Theses!TypeOK, Theses!reports, Theses!bounds
  <2>2. AtCandidate'
    BY <1>1 DEF Theses!NextDay, AtCandidate
  <2>3. PastEntries'
    <3> SUFFICES ASSUME NEW t \in Tickers, Theses!Parses(t)' PROVE (thesis[t].entry <= day)'
      BY DEF PastEntries
    <3>1. thesis' = thesis /\ day' \in Nat /\ day \in Nat /\ day' > day
      BY <1>1, ConstantsTyped DEF Theses!NextDay, Theses!TypeOK
    <3>2. Theses!Parses(t)
      BY <3>1 DEF Theses!Parses
    <3>3. thesis[t].entry \in Nat
      BY <3>2, OpenIsThesis, ConstantsTyped DEF Theses!Thesis
    <3>4. thesis[t].entry <= day
      BY <3>2 DEF PastEntries
    <3> QED  BY <3>1, <3>3, <3>4
  <2> QED  BY <2>1, <2>2, <2>3
<1>2. CASE Theses!Stage4Arrives
  BY <1>2 DEF Theses!Stage4Arrives, Theses!TypeOK, Theses!reports, Theses!bounds, AtCandidate,
              PastEntries, Theses!Parses
<1>3. CASE Theses!StartRun
  <2>1. runs' \in 0..MaxRuns
    BY <1>3, ConstantsTyped DEF Theses!StartRun, Theses!TypeOK
  <2>2. /\ proximity' \in Theses!Report([band: Theses!Proximities, asks: BOOLEAN])
        /\ events' \in Theses!Report(Theses!Signals)
        /\ expiry' \in Theses!Report([tier: Theses!Tiers, asks: BOOLEAN])
    BY <1>0, <1>3 DEF Theses!StartRun
  <2>3. step' = "sync" /\ next' = 1 /\ written' = {} /\ died' \in BOOLEAN /\ touched' = {}
        /\ UNCHANGED <<day, stage3, stage4, thesis, suffixed, edits, deaths, alarm>>
    BY <1>3 DEF Theses!StartRun
  <2>4. Theses!TypeOK'
    BY <2>1, <2>2, <2>3 DEF Theses!TypeOK
  <2> QED  BY <2>3, <2>4 DEF AtCandidate, PastEntries, Theses!Parses
<1>4. CASE Theses!Skip
  BY <1>4 DEF Theses!Skip, Theses!TypeOK, Theses!reports, Theses!bounds, AtCandidate,
              PastEntries, Theses!Parses
<1>5. CASE Theses!Take
  <2>1. Theses!TypeOK' /\ PastEntries'
    BY <1>5 DEF Theses!Take, Theses!TypeOK, Theses!reports, Theses!bounds, PastEntries, Theses!Parses
  <2>2. AtCandidate'
    <3>1. /\ next <= Len(Theses!Candidates) /\ next' = next /\ next \in Nat \ {0}
          /\ Theses!Candidates' = Theses!Candidates
          /\ Theses!Takes(Theses!Candidates[next])
      BY <1>5 DEF Theses!Take, Theses!TypeOK, Theses!Candidates
    <3>2. next \in 1..Len(Theses!Candidates)
      BY <3>1, CandidatesTyped DEF Theses!TypeOK
    <3> QED  BY <3>1, <3>2 DEF AtCandidate, Theses!Takes, Theses!Wanted, Theses!Sane
  <2> QED  BY <2>1, <2>2
<1>6. CASE Theses!SyncEnds
  BY <1>6 DEF Theses!SyncEnds, Theses!TypeOK, Theses!reports, Theses!bounds, AtCandidate,
              PastEntries, Theses!Parses
<1>7. CASE Theses!StageDies
  <2>1. step' \in {"idle", "proximity", "linker", "expiry"}
    BY <1>7 DEF Theses!StageDies, Theses!TypeOK
  <2>2. deaths' \in 0..MaxDeaths
    BY <1>7, ConstantsTyped DEF Theses!StageDies, Theses!TypeOK
  <2>3. Theses!TypeOK'
    BY <1>7, <2>1, <2>2 DEF Theses!StageDies, Theses!TypeOK, Theses!reports
  <2> QED  BY <1>7, <2>1, <2>3 DEF Theses!StageDies, AtCandidate, PastEntries, Theses!Parses
<1>8. CASE UNCHANGED thesisVars
  BY <1>8 DEF thesisVars, Theses!TypeOK, AtCandidate, PastEntries, Theses!Parses,
              Theses!Candidates, Theses!Wanted, Theses!Sane
<1> QED
  BY <1>1, <1>2, <1>3, <1>4, <1>5, <1>6, <1>7, <1>8

\* Types after the user's edit.
LEMMA UserEditsTyped ==
  ASSUME ThesesTyped, NEW t \in Tickers, Theses!UserEdits(t)
  PROVE  ThesesTyped'
<1> USE DEF ThesesTyped
<1>1. PICK new \in {Missing}
                \cup [status: {"open", "closed"}, category: {"time_cap", "event_absence"},
                      entry: {day}, horizon: {1}, by: {"user"}] :
         thesis' = [thesis EXCEPT ![t] = new]
  BY DEF Theses!UserEdits
<1>2. new \in Theses!Thesis \cup {Missing} /\ (new # Missing => new.entry = day)
  BY <1>1 DEF Theses!TypeOK, Theses!Thesis, Theses!Categories, Theses!Measured, Theses!Events
<1>3. edits' \in 0..MaxEdits
  BY ConstantsTyped DEF Theses!UserEdits, Theses!TypeOK
<1>4. alarm' \in [Tickers -> [band: Theses!Proximities \cup {Missing}, tier: Theses!Tiers \cup {Missing}]]
  BY DEF Theses!UserEdits, Theses!TypeOK, Theses!NoAlarm
<1>5. thesis' \in [Tickers -> Theses!Thesis \cup {Missing, Torn}] /\ touched' \subseteq Tickers
  BY <1>1, <1>2 DEF Theses!TypeOK, Theses!UserEdits
<1>6. Theses!TypeOK'
  BY <1>3, <1>4, <1>5 DEF Theses!UserEdits, Theses!TypeOK, Theses!reports
<1>7. AtCandidate'
  BY DEF Theses!UserEdits, AtCandidate, Theses!Candidates, Theses!Wanted, Theses!Sane
<1>8. PastEntries'
  <2> SUFFICES ASSUME NEW u \in Tickers, Theses!Parses(u)' PROVE (thesis[u].entry <= day)'
    BY DEF PastEntries
  <2>1. day' = day /\ day \in Nat
    BY ConstantsTyped DEF Theses!UserEdits, Theses!TypeOK
  <2>2. CASE u = t
    BY <1>1, <1>2, <2>1, <2>2 DEF Theses!TypeOK, Theses!Parses
  <2>3. CASE u # t
    <3>1. thesis'[u] = thesis[u]
      BY <1>1, <2>3 DEF Theses!TypeOK
    <3> QED  BY <2>1, <3>1 DEF PastEntries, Theses!Parses
  <2> QED  BY <2>2, <2>3
<1> QED
  BY <1>6, <1>7, <1>8

\* Types after 5a has opened or completed a file.
LEMMA SyncTyped ==
  ASSUME ThesesTyped, Theses!Commit \/ Theses!Dump
  PROVE  ThesesTyped'
<1> USE DEF ThesesTyped
<1> DEFINE c == Theses!Candidates[next]
<1>0. step \in {"commit", "dump"}
  BY DEF Theses!Commit, Theses!Dump
<1>1. c.ticker \in Tickers /\ c.category \in Theses!Categories /\ c.horizon \in Nat
  BY <1>0, CurrentTyped
<1>2. CASE Theses!Commit
  <2>1. \/ /\ thesis' = [thesis EXCEPT ![c.ticker] = Torn]
           /\ step' = "dump"
           /\ alarm' = [alarm EXCEPT ![c.ticker] = Theses!NoAlarm]
           /\ UNCHANGED <<suffixed, next, written>>
        \/ /\ suffixed' = suffixed \cup {c.ticker}
           /\ written' = written \cup {c.ticker}
           /\ step' = "sync" /\ next' = next + 1
           /\ UNCHANGED <<thesis, alarm>>
    BY <1>2 DEF Theses!Commit
  <2>2. UNCHANGED <<day, stage3, stage4, proximity, events, expiry, died, touched, runs, edits, deaths>>
    BY <1>2 DEF Theses!Commit, Theses!bounds
  <2> HIDE DEF c
  <2>3. thesis' \in [Tickers -> Theses!Thesis \cup {Missing, Torn}]
    BY <2>1 DEF Theses!TypeOK
  <2>4. alarm' \in [Tickers -> [band: Theses!Proximities \cup {Missing}, tier: Theses!Tiers \cup {Missing}]]
    BY <2>1 DEF Theses!TypeOK, Theses!NoAlarm
  <2>5. suffixed' \subseteq Tickers /\ written' \subseteq Tickers /\ next' \in Nat \ {0}
    BY <1>1, <2>1 DEF Theses!TypeOK
  <2>6. step' \in {"dump", "sync"} /\ (step' = "dump" => next' = next)
    BY <2>1
  <2>7. Theses!TypeOK'
    BY <2>2, <2>3, <2>4, <2>5, <2>6 DEF Theses!TypeOK
  <2>8. AtCandidate'
    BY <1>0, <2>2, <2>6 DEF AtCandidate, Theses!Candidates, Theses!Wanted, Theses!Sane
  <2>9. PastEntries'
    <3>1. \A u \in Tickers : Theses!Parses(u)' => Theses!Parses(u) /\ thesis'[u] = thesis[u]
      BY <2>1 DEF Theses!TypeOK, Theses!Parses
    <3> QED  BY <2>2, <3>1 DEF PastEntries
  <2> QED  BY <2>7, <2>8, <2>9
<1>3. CASE Theses!Dump
  <2> DEFINE new == [status |-> "open", category |-> c.category, entry |-> day,
                     horizon |-> c.horizon, by |-> "stage4-derive"]
  <2>1. /\ thesis' = IF thesis[c.ticker] # Torn THEN thesis ELSE [thesis EXCEPT ![c.ticker] = new]
        /\ written' = written \cup {c.ticker} /\ next' = next + 1 /\ step' = "sync"
        /\ UNCHANGED <<day, stage3, stage4, suffixed, proximity, events, expiry, died, touched,
                       runs, edits, deaths, alarm>>
    BY <1>3 DEF Theses!Dump, Theses!bounds
  <2> HIDE DEF c
  <2>2. new \in Theses!Thesis /\ new.entry = day
    BY <1>1 DEF Theses!Thesis, Theses!TypeOK
  <2> HIDE DEF new
  <2>3. thesis' \in [Tickers -> Theses!Thesis \cup {Missing, Torn}]
    BY <2>1, <2>2 DEF Theses!TypeOK
  <2>4. written' \subseteq Tickers /\ next' \in Nat \ {0}
    BY <1>1, <2>1 DEF Theses!TypeOK
  <2>5. Theses!TypeOK' /\ AtCandidate'
    BY <2>1, <2>3, <2>4 DEF Theses!TypeOK, AtCandidate
  <2>6. PastEntries'
    <3> SUFFICES ASSUME NEW u \in Tickers, Theses!Parses(u)' PROVE (thesis[u].entry <= day)'
      BY DEF PastEntries
    <3>1. day' = day /\ day \in Nat
      BY <2>1, ConstantsTyped DEF Theses!TypeOK
    <3>2. thesis'[u] = thesis[u] \/ thesis'[u] = new
      BY <2>1 DEF Theses!TypeOK
    <3>3. CASE thesis'[u] = thesis[u]
      BY <3>1, <3>3 DEF PastEntries, Theses!Parses
    <3>4. CASE thesis'[u] = new
      BY <2>2, <3>1, <3>4
    <3> QED  BY <3>2, <3>3, <3>4
  <2> QED  BY <2>5, <2>6
<1> QED
  BY <1>2, <1>3

\* Types after a report of 5b, 5c or 5d.
LEMMA MonitorsTyped ==
  ASSUME ThesesTyped, Theses!MeasureProximity \/ Theses!LinkEvents \/ Theses!MonitorExpiry
  PROVE  ThesesTyped'
<1> USE DEF ThesesTyped
<1>0. Theses!Open \subseteq Tickers /\ Theses!OpenEvents \subseteq Tickers
      /\ \A t \in Theses!Open : t \in Tickers /\ Theses!Parses(t)
  BY DEF Theses!Open, Theses!OpenEvents, Theses!IsOpen
<1>1. CASE Theses!MeasureProximity
  <2> DEFINE A(t) == IF t \in Theses!Open THEN [alarm[t] EXCEPT !.band = Theses!Proximity(t).band]
                     ELSE alarm[t]
  <2>1. /\ proximity' = [t \in Theses!Open |-> Theses!Proximity(t)]
        /\ alarm' = [t \in Tickers |-> A(t)]
        /\ step' = "linker"
        /\ UNCHANGED <<day, stage3, stage4, thesis, suffixed, next, written, events, expiry, died,
                       touched, runs, edits, deaths>>
    BY <1>1 DEF Theses!MeasureProximity, Theses!bounds
  <2>2. \A t \in Theses!Open : Theses!Proximity(t) \in [band: Theses!Proximities, asks: BOOLEAN]
    BY <1>0, ProximityTyped
  <2>3. proximity' \in Theses!Report([band: Theses!Proximities, asks: BOOLEAN])
    <3>1. proximity' \in [Theses!Open -> [band: Theses!Proximities, asks: BOOLEAN]]
      BY <2>1, <2>2
    <3> QED  BY <1>0, <3>1, ReportTyped
  <2>4. \A t \in Tickers : A(t) \in [band: Theses!Proximities \cup {Missing}, tier: Theses!Tiers \cup {Missing}]
    <3> TAKE t \in Tickers
    <3>1. alarm[t] \in [band: Theses!Proximities \cup {Missing}, tier: Theses!Tiers \cup {Missing}]
      BY DEF Theses!TypeOK
    <3>2. t \in Theses!Open => Theses!Proximity(t).band \in Theses!Proximities
      BY <2>2
    <3> QED  BY <3>1, <3>2
  <2> HIDE DEF A
  <2>5. alarm' \in [Tickers -> [band: Theses!Proximities \cup {Missing}, tier: Theses!Tiers \cup {Missing}]]
    BY <2>1, <2>4
  <2>6. Theses!TypeOK'
    BY <2>1, <2>3, <2>5 DEF Theses!TypeOK
  <2> QED  BY <2>1, <2>6 DEF AtCandidate, PastEntries, Theses!Parses
<1>2. CASE Theses!LinkEvents
  <2>1. /\ events' = [t \in Theses!OpenEvents |-> Theses!Signal(t)]
        /\ step' = "expiry"
        /\ UNCHANGED <<day, stage3, stage4, thesis, suffixed, next, written, proximity, expiry, died,
                       touched, runs, edits, deaths, alarm>>
    BY <1>2 DEF Theses!LinkEvents, Theses!bounds
  <2>2. \A t \in Theses!OpenEvents : Theses!Signal(t) \in Theses!Signals
    BY SignalTyped
  <2>3. events' \in Theses!Report(Theses!Signals)
    <3>1. events' \in [Theses!OpenEvents -> Theses!Signals]
      BY <2>1, <2>2
    <3> QED  BY <1>0, <3>1, ReportTyped
  <2>4. Theses!TypeOK'
    BY <2>1, <2>3 DEF Theses!TypeOK
  <2> QED  BY <2>1, <2>4 DEF AtCandidate, PastEntries, Theses!Parses
<1>3. CASE Theses!MonitorExpiry
  <2> DEFINE A(t) == IF t \in Theses!Open THEN [alarm[t] EXCEPT !.tier = Theses!Expiry(t).tier]
                     ELSE alarm[t]
  <2>1. /\ expiry' = [t \in Theses!Open |-> Theses!Expiry(t)]
        /\ alarm' = [t \in Tickers |-> A(t)]
        /\ step' = "idle"
        /\ UNCHANGED <<day, stage3, stage4, thesis, suffixed, next, written, proximity, events, died,
                       touched, runs, edits, deaths>>
    BY <1>3 DEF Theses!MonitorExpiry, Theses!bounds
  <2>2. \A t \in Theses!Open : Theses!Expiry(t) \in [tier: Theses!Tiers, asks: BOOLEAN]
    BY <1>0, ExpiryTyped
  <2>3. expiry' \in Theses!Report([tier: Theses!Tiers, asks: BOOLEAN])
    <3>1. expiry' \in [Theses!Open -> [tier: Theses!Tiers, asks: BOOLEAN]]
      BY <2>1, <2>2
    <3> QED  BY <1>0, <3>1, ReportTyped
  <2>4. \A t \in Tickers : A(t) \in [band: Theses!Proximities \cup {Missing}, tier: Theses!Tiers \cup {Missing}]
    <3> TAKE t \in Tickers
    <3>1. alarm[t] \in [band: Theses!Proximities \cup {Missing}, tier: Theses!Tiers \cup {Missing}]
      BY DEF Theses!TypeOK
    <3>2. t \in Theses!Open => Theses!Expiry(t).tier \in Theses!Tiers
      BY <2>2
    <3> QED  BY <3>1, <3>2
  <2> HIDE DEF A
  <2>5. alarm' \in [Tickers -> [band: Theses!Proximities \cup {Missing}, tier: Theses!Tiers \cup {Missing}]]
    BY <2>1, <2>4
  <2>6. Theses!TypeOK'
    BY <2>1, <2>3, <2>5 DEF Theses!TypeOK
  <2> QED  BY <2>1, <2>6 DEF AtCandidate, PastEntries, Theses!Parses
<1> QED
  BY <1>1, <1>2, <1>3

\* Every step keeps the types.
LEMMA StepTyped ==
  ASSUME ThesesTyped, [Theses!Next]_thesisVars
  PROVE  ThesesTyped'
BY QuietTyped, UserEditsTyped, SyncTyped, MonitorsTyped DEF Theses!Next

------------------------------------------------------------------------------
(* The alarms.                                                             *)

(* The rank of every band and tier.                                        *)
LEMMA RankIs ==
  /\ Theses!Rank("low") = 1 /\ Theses!Rank("medium") = 2 /\ Theses!Rank("high") = 3
  /\ Theses!Rank("ok") = 1 /\ Theses!Rank("notice") = 2 /\ Theses!Rank("warn") = 3
  /\ Theses!Rank("expired") = 4 /\ Theses!Rank("overdue") = 5
  /\ Theses!Rank("unmeasurable") = 0 /\ Theses!Rank(Missing) = 0
<1>1. Missing \notin {"low", "medium", "high", "ok", "notice", "warn", "expired", "overdue",
                     "unmeasurable"}
  BY ConstantsTyped DEF Theses!Proximities, Theses!Tiers
<1> QED
  BY <1>1 DEF Theses!Rank

\* Ranks are numbers.
LEMMA RankTyped ==
  ASSUME NEW x \in Theses!Proximities \cup Theses!Tiers \cup {Missing}
  PROVE  Theses!Rank(x) \in Nat
BY RankIs DEF Theses!Proximities, Theses!Tiers

(* What is used up of a horizon of h months x days after the entry.        *)
UsedAfter(x, h) ==
  LET m == RoundDiv(160000 * x, 487) IN IF m > h * 10000 THEN h * 10000 ELSE m

(* What is used up of a horizon never shrinks as days pass.                *)
LEMMA UsedGrows ==
  ASSUME NEW x \in Nat, NEW y \in Nat, NEW h \in Nat, x <= y
  PROVE  /\ UsedAfter(x, h) \in Nat /\ UsedAfter(y, h) \in Nat
         /\ UsedAfter(x, h) <= UsedAfter(y, h)
<1> DEFINE m == RoundDiv(160000 * x, 487)
           n == RoundDiv(160000 * y, 487)
<1>1. 160000 * x \in Nat /\ 160000 * y \in Nat /\ 160000 * x <= 160000 * y /\ 487 \in Nat \ {0}
  OBVIOUS
<1>2. m \in Nat /\ n \in Nat /\ m <= n
  BY <1>1, RoundDivBounds, RoundDivMonotone
<1>3. UsedAfter(x, h) = (IF m > h * 10000 THEN h * 10000 ELSE m)
      /\ UsedAfter(y, h) = (IF n > h * 10000 THEN h * 10000 ELSE n)
  BY DEF UsedAfter
<1> HIDE DEF m, n
<1> QED  BY <1>2, <1>3

(* The measures of a thesis, as numbers.                                   *)
Readings ==
  \A t \in Tickers : ThesesTyped /\ Theses!Parses(t) =>
    /\ thesis[t].horizon \in Nat /\ thesis[t].entry \in Nat /\ day \in Nat
    /\ Theses!Elapsed(t) \in Nat /\ thesis[t].category \in Theses!Categories
    /\ Theses!Used(t) = UsedAfter(Theses!Elapsed(t), thesis[t].horizon)
    /\ Theses!Remaining(t) = (487 * thesis[t].horizon - 16 * Theses!Elapsed(t)) \div 16
    /\ Theses!Rank(Theses!Proximity(t).band) =
         IF thesis[t].category = "time_cap" /\ thesis[t].horizon > 0
         THEN IF Theses!Used(t) * 100 >= MediumMax * thesis[t].horizon * 10000 THEN 3
              ELSE IF Theses!Used(t) * 100 >= LowMax * thesis[t].horizon * 10000 THEN 2 ELSE 1
         ELSE 0
    /\ Theses!Rank(Theses!Expiry(t).tier) =
         IF thesis[t].horizon = 0 THEN 0
         ELSE IF Theses!Remaining(t) < 0 THEN 5 ELSE IF Theses!Remaining(t) = 0 THEN 4
         ELSE IF Theses!Remaining(t) <= WarnDays THEN 3
         ELSE IF Theses!Remaining(t) <= NoticeDays THEN 2 ELSE 1

\* The measures are these numbers in every state.
LEMMA ReadingsNow == Readings
<1> SUFFICES ASSUME NEW t \in Tickers, ThesesTyped, Theses!Parses(t)
    PROVE
    /\ thesis[t].horizon \in Nat /\ thesis[t].entry \in Nat /\ day \in Nat
    /\ Theses!Elapsed(t) \in Nat /\ thesis[t].category \in Theses!Categories
    /\ Theses!Used(t) = UsedAfter(Theses!Elapsed(t), thesis[t].horizon)
    /\ Theses!Remaining(t) = (487 * thesis[t].horizon - 16 * Theses!Elapsed(t)) \div 16
    /\ Theses!Rank(Theses!Proximity(t).band) =
         IF thesis[t].category = "time_cap" /\ thesis[t].horizon > 0
         THEN IF Theses!Used(t) * 100 >= MediumMax * thesis[t].horizon * 10000 THEN 3
              ELSE IF Theses!Used(t) * 100 >= LowMax * thesis[t].horizon * 10000 THEN 2 ELSE 1
         ELSE 0
    /\ Theses!Rank(Theses!Expiry(t).tier) =
         IF thesis[t].horizon = 0 THEN 0
         ELSE IF Theses!Remaining(t) < 0 THEN 5 ELSE IF Theses!Remaining(t) = 0 THEN 4
         ELSE IF Theses!Remaining(t) <= WarnDays THEN 3
         ELSE IF Theses!Remaining(t) <= NoticeDays THEN 2 ELSE 1
  BY DEF Readings
<1>1. thesis[t].horizon \in Nat /\ thesis[t].entry \in Nat /\ day \in Nat
      /\ thesis[t].category \in Theses!Categories
  <2>1. thesis[t] \in Theses!Thesis /\ day \in Nat
    BY OpenIsThesis, ConstantsTyped DEF ThesesTyped, Theses!TypeOK
  <2> QED  BY <2>1, ConstantsTyped DEF Theses!Thesis
<1>2. Theses!Elapsed(t) \in Nat
  BY <1>1 DEF Theses!Elapsed, PastEntries, ThesesTyped
<1>3. Theses!Used(t) = UsedAfter(Theses!Elapsed(t), thesis[t].horizon)
  <2>1. Theses!RoundDiv(160000 * Theses!Elapsed(t), 487) = RoundDiv(160000 * Theses!Elapsed(t), 487)
    BY SameRounding
  <2> QED  BY <2>1 DEF Theses!Used, UsedAfter
<1>4. Theses!Remaining(t) = (487 * thesis[t].horizon - 16 * Theses!Elapsed(t)) \div 16
  BY DEF Theses!Remaining
<1>5. Theses!Rank(Theses!Band(t)) =
        IF Theses!Used(t) * 100 >= MediumMax * thesis[t].horizon * 10000 THEN 3
        ELSE IF Theses!Used(t) * 100 >= LowMax * thesis[t].horizon * 10000 THEN 2 ELSE 1
  BY RankIs DEF Theses!Band
<1>6. Theses!Rank(Theses!Proximity(t).band) =
        IF thesis[t].category = "time_cap" /\ thesis[t].horizon > 0
        THEN Theses!Rank(Theses!Band(t)) ELSE 0
  <2> DEFINE p == Theses!Proximity(t)
  <2>1. CASE thesis[t].category = "time_cap" /\ thesis[t].horizon > 0
    <3>1. p.band = Theses!Band(t)
      BY <1>1, <2>1 DEF Theses!Proximity, Theses!Events
    <3> HIDE DEF p
    <3> QED  BY <2>1, <3>1 DEF p
  <2>2. CASE \/ thesis[t].category = "time_cap" /\ thesis[t].horizon = 0
             \/ thesis[t].category = "metric_trigger"
             \/ thesis[t].category \in Theses!Events
    <3>1. p.band = "unmeasurable"
      BY <2>2 DEF Theses!Proximity, Theses!Events
    <3>2. ~(thesis[t].category = "time_cap" /\ thesis[t].horizon > 0)
      BY <2>2 DEF Theses!Events
    <3> HIDE DEF p
    <3>3. Theses!Rank(p.band) = 0
      BY <3>1, RankIs
    <3> QED  BY <3>2, <3>3 DEF p
  <2> QED
    BY <1>1, <2>1, <2>2 DEF Theses!Categories, Theses!Measured
<1>7. Theses!Rank(Theses!Tier(t)) =
        IF Theses!Remaining(t) < 0 THEN 5 ELSE IF Theses!Remaining(t) = 0 THEN 4
        ELSE IF Theses!Remaining(t) <= WarnDays THEN 3
        ELSE IF Theses!Remaining(t) <= NoticeDays THEN 2 ELSE 1
  BY RankIs, TierTyped DEF ThesesTyped
<1>8. Theses!Rank(Theses!Expiry(t).tier) =
        IF thesis[t].horizon = 0 THEN 0 ELSE Theses!Rank(Theses!Tier(t))
  BY RankIs DEF Theses!Expiry
<1> QED
  BY <1>1, <1>2, <1>3, <1>4, <1>5, <1>6, <1>7, <1>8

\* And in every next state.
LEMMA ReadingsLater == Readings'
BY ReadingsNow, PTL

(* As days pass no reading of a thesis that stays as it is gets milder.    *)
LEMMA ReadingsGrow ==
  ASSUME ThesesTyped, ThesesTyped', NEW t \in Tickers, Theses!Parses(t),
         thesis'[t] = thesis[t], day' >= day
  PROVE  /\ Theses!Rank(Theses!Proximity(t).band) <= Theses!Rank(Theses!Proximity(t).band)'
         /\ Theses!Rank(Theses!Expiry(t).tier) <= Theses!Rank(Theses!Expiry(t).tier)'
         /\ Theses!Rank(Theses!Proximity(t).band)' \in Nat
         /\ Theses!Rank(Theses!Expiry(t).tier)' \in Nat
<1> DEFINE h == thesis[t].horizon
           x == Theses!Elapsed(t)
           y == Theses!Elapsed(t)'
           hi == MediumMax * h * 10000
           lo == LowMax * h * 10000
           cap == thesis[t].category = "time_cap" /\ h > 0
           p == Theses!Rank(Theses!Proximity(t).band)
           q == Theses!Rank(Theses!Proximity(t).band)'
           r == Theses!Rank(Theses!Expiry(t).tier)
           s == Theses!Rank(Theses!Expiry(t).tier)'
           a == Theses!Remaining(t)
           b == Theses!Remaining(t)'
           u == Theses!Used(t)
           v == Theses!Used(t)'
<1>1. /\ h \in Nat /\ thesis[t].entry \in Nat /\ day \in Nat /\ x \in Nat
      /\ u = UsedAfter(x, h) /\ a = (487 * h - 16 * x) \div 16
      /\ p = IF cap THEN IF u * 100 >= hi THEN 3 ELSE IF u * 100 >= lo THEN 2 ELSE 1 ELSE 0
      /\ r = IF h = 0 THEN 0 ELSE IF a < 0 THEN 5 ELSE IF a = 0 THEN 4
             ELSE IF a <= WarnDays THEN 3 ELSE IF a <= NoticeDays THEN 2 ELSE 1
  BY ReadingsNow DEF Readings
<1>2. /\ day' \in Nat /\ y \in Nat
      /\ v = UsedAfter(y, h) /\ b = (487 * h - 16 * y) \div 16
      /\ q = IF cap THEN IF v * 100 >= hi THEN 3 ELSE IF v * 100 >= lo THEN 2 ELSE 1 ELSE 0
      /\ s = IF h = 0 THEN 0 ELSE IF b < 0 THEN 5 ELSE IF b = 0 THEN 4
             ELSE IF b <= WarnDays THEN 3 ELSE IF b <= NoticeDays THEN 2 ELSE 1
  <2>1. Theses!Parses(t)'
    BY DEF Theses!Parses
  <2> QED  BY <2>1, ReadingsLater DEF Readings
<1>3. x <= y
  BY <1>1, <1>2 DEF Theses!Elapsed
<1>4. WarnDays \in Nat /\ NoticeDays \in Nat /\ hi \in Nat /\ lo \in Nat
  BY <1>1, ConstantsTyped
<1> HIDE DEF h, x, y, hi, lo, cap, p, q, r, s, a, b, u, v
<1>5. u \in Nat /\ v \in Nat /\ u <= v
  BY <1>1, <1>2, <1>3, UsedGrows
<1>6. a \in Int /\ b \in Int /\ b <= a
  BY <1>1, <1>2, <1>3
<1>7. p <= q /\ q \in Nat
  BY <1>1, <1>2, <1>4, <1>5
<1>8. r <= s /\ s \in Nat
  BY <1>1, <1>2, <1>4, <1>6
<1> QED
  BY <1>7, <1>8 DEF p, q, r, s

(* What the monitors last said of a thesis is no worse than what they      *)
(* would say of it today, and nothing is said of one that is not open.     *)
AlarmBound(t) ==
  /\ alarm[t].band # Missing =>
       Theses!IsOpen(t) /\ Theses!Rank(alarm[t].band) <= Theses!Rank(Theses!Proximity(t).band)
  /\ alarm[t].tier # Missing =>
       Theses!IsOpen(t) /\ Theses!Rank(alarm[t].tier) <= Theses!Rank(Theses!Expiry(t).tier)

\* The invariant of the alarms.
AlarmsInv == \A t \in Tickers : AlarmBound(t)

(* A step does not ease the alarms of a ticker.                            *)
NoEase(t) ==
  /\ alarm'[t].band # Missing => Theses!Rank(alarm'[t].band) >= Theses!Rank(alarm[t].band)
  /\ alarm'[t].tier # Missing => Theses!Rank(alarm'[t].tier) >= Theses!Rank(alarm[t].tier)

\* An alarm is a band and a tier, or none.
LEMMA AlarmTyped ==
  ASSUME ThesesTyped, NEW t \in Tickers
  PROVE  /\ alarm[t].band \in Theses!Proximities \cup {Missing}
         /\ alarm[t].tier \in Theses!Tiers \cup {Missing}
         /\ Theses!Rank(alarm[t].band) \in Nat /\ Theses!Rank(alarm[t].tier) \in Nat
<1>1. /\ alarm[t].band \in Theses!Proximities \cup {Missing}
      /\ alarm[t].tier \in Theses!Tiers \cup {Missing}
  BY DEF ThesesTyped, Theses!TypeOK
<1> QED
  BY <1>1, RankTyped

(* A thesis and its alarms that stay as they are while the day may pass.   *)
LEMMA AlarmStays ==
  ASSUME ThesesTyped, ThesesTyped', NEW t \in Tickers, AlarmBound(t),
         thesis'[t] = thesis[t], alarm'[t] = alarm[t], day' >= day
  PROVE  AlarmBound(t)' /\ NoEase(t)
<1>1. Theses!Rank(alarm[t].band) \in Nat /\ Theses!Rank(alarm[t].tier) \in Nat
  BY AlarmTyped
<1>2. Theses!Rank(alarm'[t].band) = Theses!Rank(alarm[t].band)
      /\ Theses!Rank(alarm'[t].tier) = Theses!Rank(alarm[t].tier)
  OBVIOUS
<1>3. NoEase(t)
  BY <1>1, <1>2 DEF NoEase
<1>4. Theses!IsOpen(t)' = Theses!IsOpen(t)
  BY DEF Theses!IsOpen, Theses!Parses
<1>5. CASE ~Theses!IsOpen(t)
  BY <1>3, <1>4, <1>5 DEF AlarmBound
<1>6. CASE Theses!IsOpen(t)
  <2> DEFINE p == Theses!Rank(Theses!Proximity(t).band)
             q == Theses!Rank(Theses!Expiry(t).tier)
  <2>1. Theses!Parses(t)
    BY <1>6 DEF Theses!IsOpen
  <2>2. p <= p' /\ q <= q' /\ p' \in Nat /\ q' \in Nat
    BY <2>1, ReadingsGrow
  <2>3. p \in Nat /\ q \in Nat
    <3>1. Readings
      BY ReadingsNow
    <3> QED  BY <2>1, <3>1 DEF Readings
  <2>4. /\ alarm[t].band # Missing => Theses!Rank(alarm[t].band) <= p
        /\ alarm[t].tier # Missing => Theses!Rank(alarm[t].tier) <= q
    BY DEF AlarmBound
  <2>5. /\ alarm'[t].band # Missing => Theses!Rank(alarm'[t].band) <= p'
        /\ alarm'[t].tier # Missing => Theses!Rank(alarm'[t].tier) <= q'
    <3> HIDE DEF p, q
    <3> QED  BY <1>1, <1>2, <2>2, <2>3, <2>4
  <2> QED  BY <1>3, <1>4, <1>6, <2>5 DEF AlarmBound
<1> QED
  BY <1>5, <1>6

(* A thesis whose alarms are taken back.                                   *)
LEMMA AlarmCleared ==
  ASSUME NEW t \in Tickers, alarm'[t] = Theses!NoAlarm
  PROVE  AlarmBound(t)' /\ NoEase(t)
BY DEF AlarmBound, NoEase, Theses!NoAlarm

\* Every step keeps the invariant and eases no alarm.
LEMMA AlarmsStep ==
  ASSUME ThesesTyped, ThesesTyped', AlarmsInv, [Theses!Next]_thesisVars
  PROVE  AlarmsInv' /\ \A t \in Tickers : NoEase(t)
<1> SUFFICES ASSUME NEW t \in Tickers PROVE AlarmBound(t)' /\ NoEase(t)
  BY DEF AlarmsInv
<1>0. AlarmBound(t) /\ day \in Nat /\ day' \in Nat
  BY ConstantsTyped DEF AlarmsInv, ThesesTyped, Theses!TypeOK
<1>1. CASE thesis' = thesis /\ alarm' = alarm /\ day' >= day
  BY <1>0, <1>1, AlarmStays
<1>2. ASSUME NEW u \in Tickers, Theses!UserEdits(u) PROVE AlarmBound(t)' /\ NoEase(t)
  <2>1. PICK new : thesis' = [thesis EXCEPT ![u] = new]
    BY <1>2 DEF Theses!UserEdits
  <2>2. day' = day /\ alarm' = [alarm EXCEPT ![u] = Theses!NoAlarm]
    BY <1>2 DEF Theses!UserEdits
  <2>3. CASE t = u
    <3>1. alarm'[t] = Theses!NoAlarm
      BY <2>2, <2>3 DEF ThesesTyped, Theses!TypeOK
    <3> QED  BY <3>1, AlarmCleared
  <2>4. CASE t # u
    <3>1. alarm'[t] = alarm[t] /\ thesis'[t] = thesis[t]
      BY <2>1, <2>2, <2>4 DEF ThesesTyped, Theses!TypeOK
    <3> QED  BY <1>0, <2>2, <3>1, AlarmStays
  <2> QED  BY <2>3, <2>4
<1>3. CASE Theses!Commit
  <2> DEFINE u == Theses!Candidates[next].ticker
  <2>1. day' = day
        /\ \/ thesis' = [thesis EXCEPT ![u] = Torn] /\ alarm' = [alarm EXCEPT ![u] = Theses!NoAlarm]
           \/ thesis' = thesis /\ alarm' = alarm
    BY <1>3 DEF Theses!Commit
  <2> HIDE DEF u
  <2>2. \/ alarm'[t] = Theses!NoAlarm
        \/ alarm'[t] = alarm[t] /\ thesis'[t] = thesis[t]
    BY <2>1 DEF ThesesTyped, Theses!TypeOK
  <2> QED  BY <1>0, <2>1, <2>2, AlarmCleared, AlarmStays
<1>4. CASE Theses!Dump
  <2> DEFINE u == Theses!Candidates[next].ticker
  <2>1. PICK new : day' = day /\ alarm' = alarm
                   /\ thesis' = IF thesis[u] # Torn THEN thesis ELSE [thesis EXCEPT ![u] = new]
    BY <1>4 DEF Theses!Dump
  <2> HIDE DEF u
  <2>2. CASE thesis'[t] = thesis[t]
    BY <1>0, <2>1, <2>2, AlarmStays
  <2>3. CASE thesis[t] = Torn
    <3>1. alarm[t].band = Missing /\ alarm[t].tier = Missing
      BY <1>0, <2>3 DEF AlarmBound, Theses!IsOpen, Theses!Parses
    <3> QED  BY <2>1, <3>1 DEF AlarmBound, NoEase
  <2> QED
    BY <2>1, <2>2, <2>3 DEF ThesesTyped, Theses!TypeOK
<1>5. CASE Theses!MeasureProximity
  <2>1. /\ day' = day /\ thesis' = thesis
        /\ alarm'[t] = IF t \in Theses!Open THEN [alarm[t] EXCEPT !.band = Theses!Proximity(t).band]
                       ELSE alarm[t]
    BY <1>5 DEF Theses!MeasureProximity
  <2>2. CASE t \notin Theses!Open
    BY <1>0, <2>1, <2>2, AlarmStays
  <2>3. CASE t \in Theses!Open
    <3> DEFINE p == Theses!Proximity(t).band
    <3>1. /\ Theses!IsOpen(t) /\ Theses!IsOpen(t)' /\ Theses!Parses(t)
          /\ Theses!Proximity(t)' = Theses!Proximity(t) /\ Theses!Expiry(t)' = Theses!Expiry(t)
      BY <2>1, <2>3 DEF Theses!Open, Theses!IsOpen, Theses!Parses, Theses!Proximity, Theses!Band,
                        Theses!Used, Theses!Elapsed, Theses!Expiry, Theses!Tier, Theses!Remaining
    <3>2. p \in Theses!Proximities
      BY <3>1, ProximityTyped DEF ThesesTyped
    <3>3. Theses!Rank(p) \in Nat
      BY <3>2, RankTyped
    <3>4. alarm'[t].band = p /\ alarm'[t].tier = alarm[t].tier
      BY <2>1, <2>3 DEF ThesesTyped, Theses!TypeOK
    <3>5. Theses!Rank(alarm[t].band) <= Theses!Rank(p)
      <4>1. alarm[t].band = Missing => Theses!Rank(alarm[t].band) = 0
        BY RankIs
      <4> HIDE DEF p
      <4> QED  BY <1>0, <3>3, <4>1 DEF AlarmBound, p
    <3>6. Theses!Rank(alarm[t].tier) \in Nat
      BY AlarmTyped
    <3>7. Theses!Rank(alarm[t].band) \in Nat
      BY AlarmTyped
    <3> HIDE DEF p
    <3>8. NoEase(t)
      BY <3>3, <3>4, <3>5, <3>6, <3>7 DEF NoEase
    <3>9. AlarmBound(t)'
      BY <1>0, <3>1, <3>3, <3>4 DEF AlarmBound, p
    <3> QED  BY <3>8, <3>9
  <2> QED  BY <2>2, <2>3
<1>6. CASE Theses!MonitorExpiry
  <2>1. /\ day' = day /\ thesis' = thesis
        /\ alarm'[t] = IF t \in Theses!Open THEN [alarm[t] EXCEPT !.tier = Theses!Expiry(t).tier]
                       ELSE alarm[t]
    BY <1>6 DEF Theses!MonitorExpiry
  <2>2. CASE t \notin Theses!Open
    BY <1>0, <2>1, <2>2, AlarmStays
  <2>3. CASE t \in Theses!Open
    <3> DEFINE p == Theses!Expiry(t).tier
    <3>1. /\ Theses!IsOpen(t) /\ Theses!IsOpen(t)' /\ Theses!Parses(t)
          /\ Theses!Proximity(t)' = Theses!Proximity(t) /\ Theses!Expiry(t)' = Theses!Expiry(t)
      BY <2>1, <2>3 DEF Theses!Open, Theses!IsOpen, Theses!Parses, Theses!Proximity, Theses!Band,
                        Theses!Used, Theses!Elapsed, Theses!Expiry, Theses!Tier, Theses!Remaining
    <3>2. p \in Theses!Tiers
      BY <3>1, ExpiryTyped DEF ThesesTyped
    <3>3. Theses!Rank(p) \in Nat
      BY <3>2, RankTyped
    <3>4. alarm'[t].tier = p /\ alarm'[t].band = alarm[t].band
      BY <2>1, <2>3 DEF ThesesTyped, Theses!TypeOK
    <3>5. Theses!Rank(alarm[t].tier) <= Theses!Rank(p)
      <4>1. alarm[t].tier = Missing => Theses!Rank(alarm[t].tier) = 0
        BY RankIs
      <4> HIDE DEF p
      <4> QED  BY <1>0, <3>3, <4>1 DEF AlarmBound, p
    <3>6. Theses!Rank(alarm[t].tier) \in Nat
      BY AlarmTyped
    <3>7. Theses!Rank(alarm[t].band) \in Nat
      BY AlarmTyped
    <3> HIDE DEF p
    <3>8. NoEase(t)
      BY <3>3, <3>4, <3>5, <3>6, <3>7 DEF NoEase
    <3>9. AlarmBound(t)'
      BY <1>0, <3>1, <3>3, <3>4 DEF AlarmBound, p
    <3> QED  BY <3>8, <3>9
  <2> QED  BY <2>2, <2>3
<1>7. ASSUME \/ Theses!Stage4Arrives \/ Theses!StartRun \/ Theses!Skip \/ Theses!Take
             \/ Theses!SyncEnds \/ Theses!LinkEvents \/ Theses!StageDies \/ UNCHANGED thesisVars
      PROVE  thesis' = thesis /\ alarm' = alarm /\ day' = day
  BY <1>7 DEF Theses!Stage4Arrives, Theses!StartRun, Theses!Skip, Theses!Take, Theses!SyncEnds,
              Theses!LinkEvents, Theses!StageDies, thesisVars
<1>8. ASSUME Theses!NextDay PROVE thesis' = thesis /\ alarm' = alarm /\ day' > day
  BY <1>8 DEF Theses!NextDay
<1> QED
  BY <1>0, <1>1, <1>2, <1>3, <1>4, <1>5, <1>6, <1>7, <1>8 DEF Theses!Next

\* A step of the composition is one of the theses, or none.
LEMMA ThesesNext == [MCNext]_allVars => [Theses!Next]_thesisVars
BY DEF MCNext, allVars

\* The invariants at the start.
LEMMA ThesesInit == MCInit => ThesesTyped /\ AlarmsInv
<1> SUFFICES ASSUME MCInit PROVE ThesesTyped /\ AlarmsInv
  OBVIOUS
<1>1. Theses!Init
  BY DEF MCInit
<1>2. \A t \in Tickers : alarm[t].band = Missing /\ alarm[t].tier = Missing
  BY <1>1 DEF Theses!Init, Theses!NoAlarm
<1> QED
  BY <1>1, <1>2, InitTyped DEF AlarmsInv, AlarmBound

(* Alarms never ease by themselves, for any tickers, days, thresholds and  *)
(* candidates, however the user's edits and the deaths fall.               *)
THEOREM AlarmsNeverEaseAlways == MCSpec => AlarmsNeverEase
<1> DEFINE Kept ==
      \A t \in Tickers :
       /\ alarm'[t].band # Missing => Theses!Rank(alarm'[t].band) >= Theses!Rank(alarm[t].band)
       /\ alarm'[t].tier # Missing => Theses!Rank(alarm'[t].tier) >= Theses!Rank(alarm[t].tier)
<1>1. MCInit => ThesesTyped /\ AlarmsInv
  BY ThesesInit
<1>2. ThesesTyped /\ [MCNext]_allVars => ThesesTyped'
  BY ThesesNext, StepTyped
<1>3. ThesesTyped /\ ThesesTyped' /\ AlarmsInv /\ [MCNext]_allVars => AlarmsInv' /\ [Kept]_(Theses!vars)
  BY ThesesNext, AlarmsStep DEF NoEase
<1> QED
  BY <1>1, <1>2, <1>3, PTL DEF MCSpec, AlarmsNeverEase, Theses!AlarmsNeverEase

------------------------------------------------------------------------------
(* The course of a run.                                                    *)

\* The ticker 5a is at.
Current == Theses!Candidates[next].ticker

(* 5a took the candidate because its ticker was free, and the file that it *)
(* opened is torn until it is complete, unless the user was there.         *)
AtFree == step = "commit" => ~Theses!Exists(Current) \/ Current \in touched
AtTorn == step = "dump" => thesis[Current] = Torn \/ Current \in touched

(* What 5a reports as written is open.                                     *)
WrittenOpen == step # "idle" /\ ~died => \A t \in written \ touched : Theses!IsOpen(t)

(* The candidates that 5a is past, all of them after Stage 5a.             *)
Passed(i) == i < next \/ step \in {"proximity", "linker", "expiry"}

(* Every candidate that 5a is past and could project has a file.           *)
PassedExist ==
  step # "idle" /\ ~died =>
    \A i \in 1..Len(Theses!Candidates) :
      LET c == Theses!Candidates[i] IN
      Passed(i) /\ Theses!Wanted(c) /\ Theses!Sane(c) => Theses!Exists(c.ticker) \/ c.ticker \in touched

(* The report of 5b is about the theses that are open.                     *)
MeasuredOpen ==
  step \in {"linker", "expiry"} /\ ~died =>
    \A t \in Tickers \ touched :
      /\ t \in DOMAIN proximity <=> Theses!IsOpen(t)
      /\ Theses!IsOpen(t) => proximity[t] = Theses!Proximity(t)

(* The report of 5c is about the open theses with an event.                *)
LinkedOpen ==
  step = "expiry" /\ ~died => Theses!OpenEvents \ touched \subseteq DOMAIN events

\* The invariant of a run.
RunInv == AtFree /\ AtTorn /\ WrittenOpen /\ PassedExist /\ MeasuredOpen /\ LinkedOpen

\* Every reading depends on the thesis and the day alone.
LEMMA UnchangedThesis ==
  ASSUME NEW t, thesis'[t] = thesis[t], day' = day
  PROVE  /\ Theses!IsOpen(t)' = Theses!IsOpen(t) /\ Theses!Exists(t)' = Theses!Exists(t)
         /\ Theses!Proximity(t)' = Theses!Proximity(t) /\ Theses!Expiry(t)' = Theses!Expiry(t)
BY DEF Theses!IsOpen, Theses!Parses, Theses!Exists, Theses!Proximity, Theses!Band,
       Theses!Used, Theses!Elapsed, Theses!Expiry, Theses!Tier, Theses!Remaining

\* The open theses with an event, spelled out.
LEMMA OpenEventsIs ==
  Theses!OpenEvents = {t \in Tickers : Theses!IsOpen(t) /\ thesis[t].category \in Theses!Events}
BY DEF Theses!OpenEvents, Theses!Open

(* The steps between runs, and what ends a stage early.                    *)
LEMMA OutsideKeepsRun ==
  ASSUME ThesesTyped, RunInv, Theses!NextDay \/ Theses!Stage4Arrives \/ Theses!StartRun \/ Theses!StageDies
  PROVE  RunInv'
<1>1. CASE Theses!NextDay \/ Theses!Stage4Arrives
  BY <1>1 DEF Theses!NextDay, Theses!Stage4Arrives, RunInv, AtFree, AtTorn, WrittenOpen, PassedExist,
              MeasuredOpen, LinkedOpen
<1>2. CASE Theses!StartRun
  <2>1. step' = "sync" /\ next' = 1 /\ written' = {}
    BY <1>2 DEF Theses!StartRun
  <2>2. \A i \in 1..Len(Theses!Candidates)' : ~Passed(i)'
    BY <2>1 DEF Passed
  <2>3. PassedExist'
    BY <2>2 DEF PassedExist
  <2> QED
    BY <2>1, <2>3 DEF RunInv, AtFree, AtTorn, WrittenOpen, MeasuredOpen, LinkedOpen
<1>3. CASE Theses!StageDies
  <2>1. died' /\ step' \notin {"commit", "dump"}
    BY <1>3 DEF Theses!StageDies, ThesesTyped, Theses!TypeOK
  <2> QED
    BY <2>1 DEF RunInv, AtFree, AtTorn, WrittenOpen, PassedExist, MeasuredOpen, LinkedOpen
<1> QED
  BY <1>1, <1>2, <1>3

\* The user's edits.
LEMMA UserKeepsRun ==
  ASSUME ThesesTyped, RunInv, NEW u \in Tickers, Theses!UserEdits(u)
  PROVE  RunInv'
<1>1. PICK new : thesis' = [thesis EXCEPT ![u] = new]
  BY DEF Theses!UserEdits
<1>2. touched' = touched \cup {u}
      /\ UNCHANGED <<day, stage3, stage4, step, next, written, proximity, events, expiry, died>>
  BY DEF Theses!UserEdits, Theses!reports
<1>3. \A t : t \notin touched' => t \notin touched /\ thesis'[t] = thesis[t]
  BY <1>1, <1>2 DEF ThesesTyped, Theses!TypeOK
<1>4. \A t : t \notin touched' => /\ Theses!IsOpen(t)' = Theses!IsOpen(t)
                                  /\ Theses!Exists(t)' = Theses!Exists(t)
                                  /\ Theses!Proximity(t)' = Theses!Proximity(t)
  BY <1>2, <1>3, UnchangedThesis
<1>5. Theses!Candidates' = Theses!Candidates /\ Current' = Current
  BY <1>2 DEF Theses!Candidates, Current
<1>6. AtFree' /\ AtTorn'
  BY <1>2, <1>3, <1>4, <1>5 DEF RunInv, AtFree, AtTorn
<1>7. WrittenOpen'
  BY <1>2, <1>3, <1>4 DEF RunInv, WrittenOpen
<1>8. PassedExist'
  <2>1. \A i : Passed(i)' = Passed(i)
    BY <1>2 DEF Passed
  <2> QED
    BY <1>2, <1>3, <1>4, <1>5, <2>1 DEF RunInv, PassedExist, Theses!Wanted, Theses!Sane
<1>9. MeasuredOpen'
  BY <1>2, <1>3, <1>4 DEF RunInv, MeasuredOpen
<1>10. LinkedOpen'
  <2> SUFFICES ASSUME step' = "expiry", ~died', NEW t \in Theses!OpenEvents', t \notin touched'
               PROVE  t \in DOMAIN events'
    BY DEF LinkedOpen
  <2>1. t \in Tickers /\ Theses!IsOpen(t)' /\ thesis'[t].category \in Theses!Events
    BY DEF Theses!OpenEvents, Theses!Open
  <2>2. t \in Theses!OpenEvents
    BY <1>3, <1>4, <2>1, OpenEventsIs
  <2> QED  BY <1>2, <1>3, <2>2 DEF RunInv, LinkedOpen
<1> QED
  BY <1>6, <1>7, <1>8, <1>9, <1>10 DEF RunInv

(* 5a.                                                                     *)
LEMMA SyncKeepsRun ==
  ASSUME ThesesTyped, RunInv,
         Theses!Skip \/ Theses!Take \/ Theses!Commit \/ Theses!Dump \/ Theses!SyncEnds
  PROVE  RunInv'
<1>1. /\ step \in {"sync", "commit", "dump"}
      /\ step' \in {"sync", "commit", "dump", "proximity"}
      /\ UNCHANGED <<day, stage4, touched, died>>
  BY DEF Theses!Skip, Theses!Take, Theses!Commit, Theses!Dump, Theses!SyncEnds
<1>2. Theses!Candidates' = Theses!Candidates /\ Theses!Candidates \in Seq(Theses!Candidate)
      /\ next \in Nat \ {0}
  BY <1>1, CandidatesTyped DEF Theses!Candidates, ThesesTyped, Theses!TypeOK
<1>3. MeasuredOpen' /\ LinkedOpen'
  BY <1>1 DEF MeasuredOpen, LinkedOpen
<1>4. /\ ~died => \A t \in written \ touched : Theses!IsOpen(t)
      /\ ~died => \A i \in 1..Len(Theses!Candidates) :
           LET c == Theses!Candidates[i] IN
           i < next /\ Theses!Wanted(c) /\ Theses!Sane(c) => Theses!Exists(c.ticker) \/ c.ticker \in touched
  BY <1>1 DEF RunInv, WrittenOpen, PassedExist, Passed
<1>5. ASSUME thesis' = thesis
      PROVE  \A t : Theses!IsOpen(t)' = Theses!IsOpen(t) /\ Theses!Exists(t)' = Theses!Exists(t)
  BY <1>5 DEF Theses!IsOpen, Theses!Parses, Theses!Exists
<1>6. CASE Theses!Skip
  <2>1. /\ step' = "sync" /\ next' = next + 1 /\ thesis' = thesis /\ written' = written
        /\ ~Theses!Takes(Theses!Candidates[next])
    BY <1>6 DEF Theses!Skip, Theses!reports
  <2>2. WrittenOpen'
    BY <1>1, <1>4, <1>5, <2>1 DEF WrittenOpen
  <2>3. PassedExist'
    <3> SUFFICES ASSUME ~died, NEW i \in 1..Len(Theses!Candidates), i < next + 1,
                        Theses!Wanted(Theses!Candidates[i]), Theses!Sane(Theses!Candidates[i])
                 PROVE  Theses!Exists(Theses!Candidates[i].ticker)
                        \/ Theses!Candidates[i].ticker \in touched
      BY <1>1, <1>2, <1>5, <2>1 DEF PassedExist, Passed, Theses!Wanted, Theses!Sane
    <3>1. CASE i < next
      BY <1>4, <3>1
    <3>2. CASE i = next
      BY <2>1, <3>2 DEF Theses!Takes
    <3> QED  BY <1>2, <3>1, <3>2
  <2> QED  BY <1>3, <2>1, <2>2, <2>3 DEF RunInv, AtFree, AtTorn
<1>7. CASE Theses!Take
  <2>1. /\ step' = "commit" /\ next' = next /\ thesis' = thesis /\ written' = written
        /\ ~Theses!Exists(Current)
    BY <1>7 DEF Theses!Take, Theses!reports, Theses!Takes, Current
  <2>2. WrittenOpen'
    BY <1>1, <1>4, <1>5, <2>1 DEF WrittenOpen
  <2>3. PassedExist'
    BY <1>1, <1>2, <1>4, <1>5, <2>1 DEF PassedExist, Passed, Theses!Wanted, Theses!Sane
  <2>4. AtFree'
    BY <1>2, <1>5, <2>1 DEF AtFree, Current
  <2> QED  BY <1>3, <2>1, <2>2, <2>3, <2>4 DEF RunInv, AtTorn
<1>8. CASE Theses!Commit
  <2>1. /\ step = "commit"
        /\ \/ /\ ~Theses!Exists(Current) /\ thesis' = [thesis EXCEPT ![Current] = Torn]
              /\ step' = "dump" /\ next' = next /\ written' = written
           \/ /\ Theses!Exists(Current) /\ thesis' = thesis
              /\ step' = "sync" /\ next' = next + 1 /\ written' = written \cup {Current}
    BY <1>8 DEF Theses!Commit, Current
  <2>2. CASE step' = "dump"
    <3>1. /\ ~Theses!Exists(Current) /\ thesis' = [thesis EXCEPT ![Current] = Torn]
          /\ next' = next /\ written' = written
      BY <2>1, <2>2
    <3>2. Current \in Tickers /\ Current' = Current
      BY <1>1, <1>2, <2>1, <3>1, CurrentTyped DEF Current
    <3>3. AtTorn'
      BY <2>2, <3>1, <3>2 DEF AtTorn, ThesesTyped, Theses!TypeOK
    <3>4. \A t : /\ Theses!IsOpen(t) => Theses!IsOpen(t)'
                 /\ Theses!Exists(t) => Theses!Exists(t)'
      <4> TAKE t
      <4>1. CASE t = Current
        <5>1. ~Theses!IsOpen(t) /\ ~Theses!Exists(t)
          BY <3>1, <4>1 DEF Theses!Exists, Theses!IsOpen, Theses!Parses
        <5> QED  BY <5>1
      <4>2. CASE t # Current
        <5>1. thesis'[t] = thesis[t]
          BY <3>1, <4>2 DEF ThesesTyped, Theses!TypeOK
        <5> QED  BY <1>1, <5>1, UnchangedThesis
      <4> QED  BY <4>1, <4>2
    <3>5. WrittenOpen'
      BY <1>1, <1>4, <3>1, <3>4 DEF WrittenOpen
    <3>6. PassedExist'
      BY <1>1, <1>2, <1>4, <2>2, <3>1, <3>4 DEF PassedExist, Passed, Theses!Wanted, Theses!Sane
    <3> QED  BY <1>3, <2>2, <3>3, <3>5, <3>6 DEF RunInv, AtFree
  <2>3. CASE step' = "sync"
    <3>1. /\ Theses!Exists(Current) /\ thesis' = thesis /\ next' = next + 1
          /\ written' = written \cup {Current}
      BY <2>1, <2>3
    <3>2. Current \in touched
      BY <2>1, <3>1 DEF RunInv, AtFree
    <3>3. WrittenOpen'
      BY <1>1, <1>4, <1>5, <3>1, <3>2 DEF WrittenOpen
    <3>4. PassedExist'
      <4> SUFFICES ASSUME ~died, NEW i \in 1..Len(Theses!Candidates), i < next + 1,
                          Theses!Wanted(Theses!Candidates[i]), Theses!Sane(Theses!Candidates[i])
                   PROVE  Theses!Exists(Theses!Candidates[i].ticker)
                          \/ Theses!Candidates[i].ticker \in touched
        BY <1>1, <1>2, <1>5, <2>3, <3>1 DEF PassedExist, Passed, Theses!Wanted, Theses!Sane
      <4>1. CASE i < next
        BY <1>4, <4>1
      <4>2. CASE i = next
        BY <3>1, <4>2 DEF Current
      <4> QED  BY <1>2, <4>1, <4>2
    <3> QED  BY <1>3, <2>3, <3>3, <3>4 DEF RunInv, AtFree, AtTorn
  <2> QED  BY <2>1, <2>2, <2>3
<1>9. CASE Theses!Dump
  <2> DEFINE c == Theses!Candidates[next]
             new == [status |-> "open", category |-> c.category, entry |-> day,
                     horizon |-> c.horizon, by |-> "stage4-derive"]
  <2>1. /\ step = "dump" /\ step' = "sync" /\ next' = next + 1 /\ written' = written \cup {Current}
        /\ thesis' = IF thesis[Current] # Torn THEN thesis ELSE [thesis EXCEPT ![Current] = new]
    BY <1>9 DEF Theses!Dump, Current
  <2>2. Current \in Tickers /\ (thesis[Current] = Torn \/ Current \in touched)
    BY <2>1, CurrentTyped DEF RunInv, AtTorn, Current
  <2>3. new \in Theses!Thesis /\ new.status = "open"
    BY <2>1, CurrentTyped DEF ThesesTyped, Theses!TypeOK, Theses!Thesis
  <2> HIDE DEF new
  <2>4. \A t : /\ Theses!IsOpen(t) => Theses!IsOpen(t)'
               /\ Theses!Exists(t) => Theses!Exists(t)'
    <3> TAKE t
    <3>1. CASE thesis'[t] = thesis[t]
      BY <1>1, <3>1, UnchangedThesis
    <3>2. CASE thesis'[t] = new
      <4>1. Theses!IsOpen(t)' /\ Theses!Exists(t)'
        BY <2>3, <3>2, ConstantsTyped DEF Theses!IsOpen, Theses!Parses, Theses!Exists
      <4> QED  BY <4>1
    <3> QED  BY <2>1, <3>1, <3>2 DEF ThesesTyped, Theses!TypeOK
  <2>5. thesis[Current] = Torn => Theses!Exists(Current) /\ thesis'[Current] = new
    BY <2>1, <2>2, ConstantsTyped DEF Theses!Exists, ThesesTyped, Theses!TypeOK
  <2>6. \A t : thesis'[t] = new => Theses!IsOpen(t)'
    BY <2>3, ConstantsTyped DEF Theses!IsOpen, Theses!Parses
  <2>7. WrittenOpen'
    <3> SUFFICES ASSUME ~died, NEW t \in written \cup {Current}, t \notin touched
                 PROVE  Theses!IsOpen(t)'
      BY <1>1, <2>1 DEF WrittenOpen
    <3>1. CASE t = Current
      BY <2>2, <2>5, <2>6, <3>1
    <3>2. CASE t # Current
      BY <1>4, <2>4, <3>2
    <3> QED  BY <3>1, <3>2
  <2>8. PassedExist'
    <3> SUFFICES ASSUME ~died, NEW i \in 1..Len(Theses!Candidates), i < next + 1,
                        Theses!Wanted(Theses!Candidates[i]), Theses!Sane(Theses!Candidates[i])
                 PROVE  \A u : u = Theses!Candidates[i].ticker => Theses!Exists(u)' \/ u \in touched
      BY <1>1, <1>2, <2>1 DEF PassedExist, Passed, Theses!Wanted, Theses!Sane
    <3>1. CASE i < next
      BY <1>4, <2>4, <3>1
    <3>2. CASE i = next
      BY <2>2, <2>4, <2>5, <3>2 DEF Current
    <3> QED  BY <1>2, <3>1, <3>2
  <2> QED  BY <1>3, <2>1, <2>7, <2>8 DEF RunInv, AtFree, AtTorn
<1>10. CASE Theses!SyncEnds
  <2>1. /\ step' = "proximity" /\ next' = next /\ thesis' = thesis /\ written' = written
        /\ next > Len(Theses!Candidates)
    BY <1>10 DEF Theses!SyncEnds, Theses!reports
  <2>2. WrittenOpen'
    BY <1>1, <1>4, <1>5, <2>1 DEF WrittenOpen
  <2>3. PassedExist'
    <3>1. \A i \in 1..Len(Theses!Candidates) : i < next
      BY <1>2, <2>1
    <3> QED
      BY <1>1, <1>2, <1>4, <1>5, <2>1, <3>1 DEF PassedExist, Passed, Theses!Wanted, Theses!Sane
  <2> QED  BY <1>3, <2>1, <2>2, <2>3 DEF RunInv, AtFree, AtTorn
<1> QED
  BY <1>6, <1>7, <1>8, <1>9, <1>10

(* 5b to 5d.                                                               *)
LEMMA MonitorsKeepRun ==
  ASSUME ThesesTyped, RunInv,
         \/ Theses!MeasureProximity \/ Theses!LinkEvents \/ Theses!MonitorExpiry
         \/ UNCHANGED thesisVars
  PROVE  RunInv'
<1>1. UNCHANGED <<day, stage4, thesis, next, written, died, touched>>
  BY DEF Theses!MeasureProximity, Theses!LinkEvents, Theses!MonitorExpiry, thesisVars
<1>2. \A t : /\ Theses!IsOpen(t)' = Theses!IsOpen(t) /\ Theses!Exists(t)' = Theses!Exists(t)
             /\ Theses!Proximity(t)' = Theses!Proximity(t)
  BY <1>1, UnchangedThesis
<1>3. Theses!Candidates' = Theses!Candidates /\ Current' = Current
      /\ Theses!OpenEvents' = Theses!OpenEvents /\ Theses!Open' = Theses!Open
  BY <1>1, <1>2 DEF Theses!Candidates, Current, Theses!OpenEvents, Theses!Open
<1>4. CASE UNCHANGED thesisVars
  <2>1. step' = step /\ proximity' = proximity /\ events' = events
    BY <1>4 DEF thesisVars
  <2>2. AtFree' /\ AtTorn' /\ WrittenOpen'
    BY <1>1, <1>2, <1>3, <2>1 DEF RunInv, AtFree, AtTorn, WrittenOpen
  <2>3. PassedExist'
    BY <1>1, <1>2, <1>3, <2>1 DEF RunInv, PassedExist, Passed, Theses!Wanted, Theses!Sane
  <2>4. MeasuredOpen' /\ LinkedOpen'
    BY <1>1, <1>2, <1>3, <2>1 DEF RunInv, MeasuredOpen, LinkedOpen
  <2> QED  BY <2>2, <2>3, <2>4 DEF RunInv
<1>5. CASE Theses!MeasureProximity
  <2>1. step = "proximity" /\ step' = "linker" /\ proximity' = [t \in Theses!Open |-> Theses!Proximity(t)]
    BY <1>5 DEF Theses!MeasureProximity
  <2>2. WrittenOpen'
    BY <1>1, <1>2, <2>1 DEF RunInv, WrittenOpen
  <2>3. PassedExist'
    BY <1>1, <1>2, <1>3, <2>1 DEF RunInv, PassedExist, Passed, Theses!Wanted, Theses!Sane
  <2>4. MeasuredOpen'
    <3> SUFFICES ASSUME NEW t \in Tickers
                 PROVE  /\ t \in DOMAIN proximity' <=> Theses!IsOpen(t)
                        /\ Theses!IsOpen(t) => proximity'[t] = Theses!Proximity(t)
      BY <1>1, <1>2 DEF MeasuredOpen
    <3>1. t \in Theses!Open <=> Theses!IsOpen(t)
      BY DEF Theses!Open
    <3> QED  BY <2>1, <3>1
  <2> QED  BY <2>1, <2>2, <2>3, <2>4 DEF RunInv, AtFree, AtTorn, LinkedOpen
<1>6. CASE Theses!LinkEvents
  <2>1. step = "linker" /\ step' = "expiry" /\ proximity' = proximity
        /\ events' = [t \in Theses!OpenEvents |-> Theses!Signal(t)]
    BY <1>6 DEF Theses!LinkEvents
  <2>2. WrittenOpen'
    BY <1>1, <1>2, <2>1 DEF RunInv, WrittenOpen
  <2>3. PassedExist'
    BY <1>1, <1>2, <1>3, <2>1 DEF RunInv, PassedExist, Passed, Theses!Wanted, Theses!Sane
  <2>4. MeasuredOpen'
    BY <1>1, <1>2, <2>1 DEF RunInv, MeasuredOpen
  <2>5. LinkedOpen'
    BY <1>3, <2>1 DEF LinkedOpen
  <2> QED  BY <2>1, <2>2, <2>3, <2>4, <2>5 DEF RunInv, AtFree, AtTorn
<1>7. CASE Theses!MonitorExpiry
  <2>1. step' = "idle"
    BY <1>7 DEF Theses!MonitorExpiry
  <2> QED  BY <2>1 DEF RunInv, AtFree, AtTorn, WrittenOpen, PassedExist, MeasuredOpen, LinkedOpen
<1> QED
  BY <1>4, <1>5, <1>6, <1>7

LEMMA RunStep ==
  ASSUME ThesesTyped, RunInv, [Theses!Next]_thesisVars
  PROVE  RunInv'
BY OutsideKeepsRun, UserKeepsRun, SyncKeepsRun, MonitorsKeepRun DEF Theses!Next

LEMMA RunInit == MCInit => RunInv
<1> SUFFICES ASSUME MCInit PROVE RunInv
  OBVIOUS
<1>1. step = "idle"
  BY DEF MCInit, Theses!Init
<1> QED
  BY <1>1 DEF RunInv, AtFree, AtTorn, WrittenOpen, PassedExist, MeasuredOpen, LinkedOpen

(* The step that ends a run in which nothing died is that of 5d.           *)
LEMMA EndIsExpiry ==
  ASSUME [Theses!Next]_thesisVars, Theses!EndsRun
  PROVE  Theses!MonitorExpiry /\ ~died
<1>1. step = "expiry" /\ step' = "idle" /\ ~died'
  BY DEF Theses!EndsRun
<1>2. ~Theses!StageDies
  BY <1>1 DEF Theses!StageDies
<1>3. ~(\E t \in Tickers : Theses!UserEdits(t))
  BY <1>1 DEF Theses!UserEdits
<1>4. ~(Theses!NextDay \/ Theses!Stage4Arrives \/ Theses!StartRun \/ UNCHANGED thesisVars
        \/ Theses!MeasureProximity \/ Theses!LinkEvents)
  BY <1>1 DEF Theses!NextDay, Theses!Stage4Arrives, Theses!StartRun, thesisVars,
              Theses!MeasureProximity, Theses!LinkEvents
<1>5. ~(Theses!Skip \/ Theses!Take \/ Theses!Commit \/ Theses!Dump \/ Theses!SyncEnds)
  BY <1>1 DEF Theses!Skip, Theses!Take, Theses!Commit, Theses!Dump, Theses!SyncEnds
<1>6. Theses!MonitorExpiry
  BY <1>2, <1>3, <1>4, <1>5 DEF Theses!Next
<1> QED
  BY <1>1, <1>6 DEF Theses!MonitorExpiry

(* What a run leaves: everything 5a wrote and every candidate it could     *)
(* project is reported on.                                                 *)
WatchedNow(t) ==
  /\ t \in DOMAIN proximity' \cap DOMAIN expiry'
  /\ thesis'[t].category \in Theses!Events => t \in DOMAIN events'

AllWatched ==
  Theses!EndsRun =>
    /\ \A t \in written' \ touched' : WatchedNow(t)
    /\ \A i \in DOMAIN Theses!Candidates :
         LET c == Theses!Candidates[i] IN
         Theses!Wanted(c) /\ Theses!Sane(c) =>
           \/ c.ticker \in touched'
           \/ thesis[c.ticker] = Torn
           \/ Theses!Parses(c.ticker) /\ thesis[c.ticker].status = "closed"
           \/ WatchedNow(c.ticker)

LEMMA RunLeavesWatched ==
  ASSUME ThesesTyped, RunInv, [Theses!Next]_thesisVars
  PROVE  AllWatched
<1> SUFFICES ASSUME Theses!EndsRun
             PROVE  /\ \A t \in written' \ touched' : WatchedNow(t)
                    /\ \A i \in DOMAIN Theses!Candidates :
                         LET c == Theses!Candidates[i] IN
                         Theses!Wanted(c) /\ Theses!Sane(c) =>
                           \/ c.ticker \in touched'
                           \/ thesis[c.ticker] = Torn
                           \/ Theses!Parses(c.ticker) /\ thesis[c.ticker].status = "closed"
                           \/ WatchedNow(c.ticker)
  BY DEF AllWatched
<1>1. Theses!MonitorExpiry /\ ~died
  BY EndIsExpiry
<1>2. /\ step = "expiry"
      /\ UNCHANGED <<thesis, written, proximity, events, touched>>
      /\ expiry' = [t \in Theses!Open |-> Theses!Expiry(t)]
  BY <1>1 DEF Theses!MonitorExpiry
<1>3. ASSUME NEW t \in Tickers, t \notin touched, Theses!IsOpen(t) PROVE WatchedNow(t)
  <2>1. t \in DOMAIN proximity
    BY <1>1, <1>2, <1>3 DEF RunInv, MeasuredOpen
  <2>2. t \in DOMAIN expiry'
    BY <1>2, <1>3 DEF Theses!Open
  <2>3. thesis[t].category \in Theses!Events => t \in DOMAIN events
    BY <1>1, <1>2, <1>3, OpenEventsIs DEF RunInv, LinkedOpen
  <2> QED  BY <1>2, <2>1, <2>2, <2>3 DEF WatchedNow
<1>4. ASSUME NEW t \in written' \ touched' PROVE WatchedNow(t)
  <2>1. t \in Tickers /\ t \notin touched /\ t \in written
    BY <1>2, <1>4 DEF ThesesTyped, Theses!TypeOK
  <2>2. Theses!IsOpen(t)
    BY <1>1, <1>2, <2>1 DEF RunInv, WrittenOpen
  <2> QED  BY <1>3, <2>1, <2>2
<1>5. ASSUME NEW i \in DOMAIN Theses!Candidates,
             Theses!Wanted(Theses!Candidates[i]), Theses!Sane(Theses!Candidates[i])
      PROVE  LET t == Theses!Candidates[i].ticker IN
             \/ t \in touched'
             \/ thesis[t] = Torn
             \/ Theses!Parses(t) /\ thesis[t].status = "closed"
             \/ WatchedNow(t)
  <2> DEFINE t == Theses!Candidates[i].ticker
  <2>1. Theses!Candidates \in Seq(Theses!Candidate)
    BY CandidatesTyped DEF ThesesTyped, Theses!TypeOK
  <2>2. i \in 1..Len(Theses!Candidates) /\ Theses!Candidates[i] \in Theses!Candidate
    BY <2>1
  <2>3. t \in Tickers
    BY <2>2 DEF Theses!Candidate
  <2>4. Theses!Exists(t) \/ t \in touched
    BY <1>1, <1>2, <1>5, <2>2 DEF RunInv, PassedExist, Passed
  <2> HIDE DEF t
  <2>5. CASE t \notin touched /\ thesis[t] # Torn /\ ~(Theses!Parses(t) /\ thesis[t].status = "closed")
    <3>1. Theses!Parses(t)
      BY <2>4, <2>5 DEF Theses!Exists, Theses!Parses
    <3>2. thesis[t].status \in {"open", "closed"}
      BY <2>3, <3>1, OpenIsThesis DEF ThesesTyped, Theses!Thesis
    <3>3. Theses!IsOpen(t)
      BY <2>5, <3>1, <3>2 DEF Theses!IsOpen
    <3> QED  BY <1>3, <2>3, <2>5, <3>3 DEF t
  <2> QED  BY <1>2, <2>5 DEF t
<1> QED
  BY <1>4, <1>5

(* No candidate falls through, for any tickers, candidates, days and runs. *)
THEOREM AcceptedIsWatchedAlways == MCSpec => AcceptedIsWatched
<1>1. MCInit => ThesesTyped /\ RunInv
  BY ThesesInit, RunInit
<1>2. ThesesTyped /\ [MCNext]_allVars => ThesesTyped'
  BY ThesesNext, StepTyped
<1>3. ThesesTyped /\ RunInv /\ [MCNext]_allVars => RunInv' /\ [AllWatched]_(Theses!vars)
  BY ThesesNext, RunStep, RunLeavesWatched
<1>4. AcceptedIsWatched <=> [][AllWatched]_(Theses!vars)
  BY DEF AcceptedIsWatched, Theses!AcceptedIsWatched, AllWatched, WatchedNow
<1> QED
  BY <1>1, <1>2, <1>3, <1>4, PTL DEF MCSpec

(* A horizon that 5d reports as used up is used up for 5b to 98 percent:   *)
(* the last day that is not full may be missing, and half a ten thousandth *)
(* of a month.                                                             *)
LEMMA ExpiredIsUsed ==
  ASSUME NEW x \in Nat, NEW h \in Nat \ {0}, (487 * h - 16 * x) \div 16 <= 0
  PROVE  UsedAfter(x, h) \in Nat /\ UsedAfter(x, h) * 100 >= 98 * h * 10000
<1> DEFINE m == RoundDiv(160000 * x, 487)
<1>1. 487 * h - 16 * x <= 15
  OBVIOUS
<1>2. m \in Nat /\ 2 * (160000 * x) <= 2 * (487 * m) + 487
  <2>1. 160000 * x \in Nat /\ 487 \in Nat \ {0}
    OBVIOUS
  <2> QED  BY <2>1, RoundDivBounds, RoundDivLower
<1>3. UsedAfter(x, h) = IF m > h * 10000 THEN h * 10000 ELSE m
  BY DEF UsedAfter
<1> HIDE DEF m
<1>4. m >= 9800 * h
  <2>1. CASE h = 1
    <3>1. x >= 30
      BY <1>1, <2>1
    <3> QED  BY <1>2, <2>1, <3>1
  <2>2. CASE h >= 2
    BY <1>1, <1>2, <2>2
  <2> QED  BY <2>1, <2>2
<1> QED
  BY <1>2, <1>3, <1>4

(* What both monitors say of a thesis past its horizon.                    *)
HorizonAsks ==
  Theses!EndsRun =>
       \A t \in (DOMAIN proximity' \cap DOMAIN expiry') \ touched' :
         /\ thesis[t].horizon > 0 /\ 16 * Theses!Elapsed(t) >= 487 * thesis[t].horizon
              => expiry'[t].tier \in {"expired", "overdue"}
         /\ expiry'[t].tier \in {"expired", "overdue"}
              => /\ expiry'[t].asks
                 /\ thesis[t].category = "time_cap" => proximity'[t].asks

\* The step that ends a run leaves both monitors asking.
LEMMA RunAsks ==
  ASSUME MediumMax <= 98, ThesesTyped, RunInv, [Theses!Next]_thesisVars
  PROVE  HorizonAsks
<1> SUFFICES ASSUME Theses!EndsRun,
                    NEW t \in DOMAIN proximity' \cap DOMAIN expiry', t \notin touched'
             PROVE  /\ thesis[t].horizon > 0 /\ 16 * Theses!Elapsed(t) >= 487 * thesis[t].horizon
                         => expiry'[t].tier \in {"expired", "overdue"}
                    /\ expiry'[t].tier \in {"expired", "overdue"}
                         => /\ expiry'[t].asks
                            /\ thesis[t].category = "time_cap" => proximity'[t].asks
  BY DEF HorizonAsks
<1>1. Theses!MonitorExpiry /\ ~died
  BY EndIsExpiry
<1>2. /\ step = "expiry" /\ proximity' = proximity /\ touched' = touched
      /\ expiry' = [u \in Theses!Open |-> Theses!Expiry(u)]
  BY <1>1 DEF Theses!MonitorExpiry
<1>3. t \in Tickers /\ Theses!IsOpen(t) /\ Theses!Parses(t) /\ expiry'[t] = Theses!Expiry(t)
  BY <1>2 DEF Theses!Open, Theses!IsOpen
<1>4. proximity'[t] = Theses!Proximity(t)
  BY <1>1, <1>2, <1>3 DEF RunInv, MeasuredOpen
<1> DEFINE h == thesis[t].horizon
           x == Theses!Elapsed(t)
           r == Theses!Remaining(t)
           tier == Theses!Expiry(t).tier
<1>5. /\ h \in Nat /\ x \in Nat /\ r = (487 * h - 16 * x) \div 16
      /\ Theses!Used(t) = UsedAfter(x, h)
  BY <1>3, ReadingsNow DEF Readings
<1>6. Theses!Tier(t) = IF r < 0 THEN "overdue" ELSE IF r = 0 THEN "expired"
                       ELSE IF r <= WarnDays THEN "warn" ELSE IF r <= NoticeDays THEN "notice" ELSE "ok"
  BY <1>3, TierTyped DEF ThesesTyped
<1>7. /\ h = 0 => tier = "unmeasurable"
      /\ h # 0 => tier = Theses!Tier(t)
                  /\ Theses!Expiry(t).asks = (Theses!Tier(t) \in {"warn", "expired", "overdue"})
  BY DEF Theses!Expiry
<1>8. ASSUME h > 0, 16 * x >= 487 * h PROVE tier \in {"expired", "overdue"}
  <2> HIDE DEF h, x, r
  <2>1. r <= 0 /\ r \in Int
    BY <1>5, <1>8
  <2> HIDE DEF tier
  <2> QED  BY <1>5, <1>6, <1>7, <1>8, <2>1
<1>9. ASSUME tier \in {"expired", "overdue"}
      PROVE  Theses!Expiry(t).asks /\ (thesis[t].category = "time_cap" => Theses!Proximity(t).asks)
  <2>1. h # 0 /\ tier = Theses!Tier(t)
    BY <1>7, <1>9
  <2>2. Theses!Expiry(t).asks
    <3>1. Theses!Tier(t) \in {"warn", "expired", "overdue"}
      BY <1>9, <2>1
    <3> HIDE DEF tier
    <3> QED  BY <1>7, <2>1, <3>1
  <2>3. r <= 0
    <3>1. r \in Int
      BY <1>5
    <3> HIDE DEF r, tier
    <3> QED  BY <1>6, <1>9, <2>1, <3>1
  <2>4. UsedAfter(x, h) \in Nat /\ UsedAfter(x, h) * 100 >= 98 * h * 10000
    <3> HIDE DEF h, x, r
    <3> QED  BY <1>5, <2>1, <2>3, ExpiredIsUsed
  <2>5. MediumMax * h * 10000 <= 98 * h * 10000
    <3> HIDE DEF h
    <3> QED  BY <1>5, ConstantsTyped
  <2>6. Theses!Used(t) * 100 >= MediumMax * h * 10000
    <3>1. MediumMax * h * 10000 \in Nat
      BY <1>5, ConstantsTyped
    <3> HIDE DEF h, x
    <3> QED  BY <1>5, <2>4, <2>5, <3>1
  <2>7. Theses!Band(t) = "high"
    BY <2>6 DEF Theses!Band
  <2>8. thesis[t].category = "time_cap" => Theses!Proximity(t).asks
    <3> SUFFICES ASSUME thesis[t].category = "time_cap" PROVE Theses!Proximity(t).asks
      OBVIOUS
    <3>1. h > 0
      BY <1>5, <2>1
    <3>2. Theses!Proximity(t) = [band |-> Theses!Band(t), asks |-> Theses!Band(t) = "high"]
      BY <3>1 DEF Theses!Proximity, Theses!Events
    <3>3. (Theses!Band(t) = "high") = TRUE
      BY <2>7
    <3>4. Theses!Proximity(t) = [band |-> Theses!Band(t), asks |-> TRUE]
      BY <3>2, <3>3, Zenon
    <3> QED  BY <3>4
  <2> QED  BY <2>2, <2>8
<1> QED
  BY <1>3, <1>4, <1>8, <1>9

(* A thesis past its horizon asks for a decision in both monitors, for any *)
(* upper end of the middle band up to 98 percent.                          *)
THEOREM PastHorizonAsksAlways ==
  ASSUME MediumMax <= 98
  PROVE  MCSpec => PastHorizonAsks
<1>1. MCInit => ThesesTyped /\ RunInv
  BY ThesesInit, RunInit
<1>2. ThesesTyped /\ [MCNext]_allVars => ThesesTyped'
  BY ThesesNext, StepTyped
<1>3. ThesesTyped /\ RunInv /\ [MCNext]_allVars => RunInv' /\ [HorizonAsks]_(Theses!vars)
  BY ThesesNext, RunStep, RunAsks
<1>4. PastHorizonAsks <=> [][HorizonAsks]_(Theses!vars)
  BY DEF PastHorizonAsks, Theses!PastHorizonAsks, HorizonAsks
<1> QED
  BY <1>1, <1>2, <1>3, <1>4, PTL DEF MCSpec
================================================================================
