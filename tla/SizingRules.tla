------------------------------ MODULE SizingRules ------------------------------
(***************************************************************************)
(* The arithmetic of Stage 5: how one candidate of Stage 4 becomes a       *)
(* position size, and how the sizes of a day are scaled to the cap on      *)
(* their sum (domains/risk_engine/domain/sizing.py).                       *)
(*                                                                         *)
(* The code keeps fractions of the portfolio as floats rounded to six      *)
(* digits.  Here a fraction is a natural number of units (10^-6 in the     *)
(* code, 10^-4 in the checked instances), and a ratio (upside over         *)
(* downside) is a natural number of hundredths; round() is RoundDiv.  The  *)
(* amounts in won are the same fraction times the capital, left out.       *)
(***************************************************************************)
EXTENDS Naturals, Sequences, Rounding

CONSTANTS Fraction,        \* sizing.kelly.fraction
          Cap,             \* sizing.kelly.portfolio_kelly_cap
          MaxPct, MinPct,  \* sizing.per_position
          MinRatio,        \* thesis.asymmetry.min_ratio, in hundredths
          HalfBelow,       \* thesis.asymmetry.half_size_below_ratio
          RejectBelowMin,  \* thesis.asymmetry.reject_below_min
          NoRatio,         \* an asymmetry_score without a usable pair of percentages
          Unsized          \* size_pct_of_portfolio = None

ASSUME BoundsAssumption ==
  /\ Fraction \in Nat
  /\ MaxPct \in Nat /\ MinPct \in Nat \ {0} /\ Cap \in Nat
  /\ MinRatio \in Nat /\ HalfBelow \in Nat /\ RejectBelowMin \in BOOLEAN
ASSUME NoneAssumption == NoRatio \notin Nat /\ Unsized \notin Nat

InVerdicts == {"accepted", "other", "none"}
SizedVerdicts == {"size_recommended", "size_recommended_half_cap"}
OutVerdicts == SizedVerdicts \cup
  {"rejected_low_asymmetry", "rejected_no_user_context", "needs_user_decision",
   "blocked_cash_band"}

Candidate == [verdict: InVerdicts, ratio: Nat \cup {NoRatio}]
Recommendation == [verdict: OutVerdicts, size: Nat \cup {Unsized}]

Half(x) == RoundDiv(x, 2)

\* (p - q/b) * fraction with p = q = 1/2 and b = ratio / 100; no edge, no bet.
\* The code divides by the ratio: see Divides.
FractionalKelly(ratio) ==
  IF ratio < 100 THEN 0 ELSE RoundDiv((ratio - 100) * Fraction, 2 * ratio)

\* The candidates whose ratio the code divides by.  An upside of 0% is a
\* ratio of 0, and the division raises ZeroDivisionError.
Divides(c) == /\ c.verdict = "accepted"
              /\ c.ratio # NoRatio
              /\ ~(c.ratio < MinRatio /\ RejectBelowMin)

\* Mutant: the halving on the wrong side of HalfBelow.
ProposedHalvedAbove(ratio) ==
  LET kelly == FractionalKelly(ratio)
      thin  == IF ratio >= HalfBelow THEN Half(kelly) ELSE kelly
  IN  IF thin > MaxPct THEN MaxPct ELSE thin

\* The size before the floor and the brake: halved under HalfBelow, at most MaxPct.
Proposed(ratio) ==
  LET kelly == FractionalKelly(ratio)
      thin  == IF ratio < HalfBelow THEN Half(kelly) ELSE kelly
  IN  IF thin > MaxPct THEN MaxPct ELSE thin

Without(verdict) == [verdict |-> verdict, size |-> Unsized]

\* Mutant: the brake before the floor test.
SizeOneBrakeFirst(c, brake) ==
  LET p == IF brake /\ Divides(c) THEN Half(Proposed(c.ratio))
           ELSE IF Divides(c) THEN Proposed(c.ratio) ELSE 0
  IN  IF p < MinPct THEN Without("rejected_low_asymmetry")
      ELSE [verdict |-> IF c.ratio < MinRatio THEN "size_recommended_half_cap"
                                              ELSE "size_recommended",
            size |-> p]

\* What size_one recommends for a candidate; the brake halves after the floor test.
SizeOne(c, brake) ==
  CASE c.verdict = "none" -> Without("rejected_no_user_context")
    [] c.verdict = "other" -> Without("needs_user_decision")
    [] c.verdict = "accepted" /\ c.ratio = NoRatio -> Without("needs_user_decision")
    [] c.verdict = "accepted" /\ c.ratio # NoRatio /\ ~Divides(c)
         -> Without("rejected_low_asymmetry")
    [] Divides(c) /\ Proposed(c.ratio) < MinPct -> Without("rejected_low_asymmetry")
    [] Divides(c) /\ Proposed(c.ratio) >= MinPct
         -> [verdict |-> IF c.ratio < MinRatio THEN "size_recommended_half_cap"
                                               ELSE "size_recommended",
             size |-> IF brake THEN Half(Proposed(c.ratio)) ELSE Proposed(c.ratio)]

IsSized(rec) == rec.size # Unsized

SizeOf(rec) == IF IsSized(rec) THEN rec.size ELSE 0

\* The sum of the sizes of the first n recommendations, for every n.
SumTo(recs) ==
  LET upTo[n \in 0..Len(recs)] ==
        IF n = 0 THEN 0 ELSE upTo[n - 1] + SizeOf(recs[n])
  IN  upTo

Total(recs) == SumTo(recs)[Len(recs)]

\* Mutant: the half caps are left out of the scaling.
KellyCapFullOnly(recs) ==
  IF Total(recs) <= Cap THEN recs
  ELSE [i \in DOMAIN recs |->
          IF recs[i].verdict = "size_recommended"
          THEN [recs[i] EXCEPT !.size = RoundDiv(@ * Cap, Total(recs))]
          ELSE recs[i]]

\* Every size scaled by Cap / Total when the sum is over the cap.
KellyCap(recs) ==
  IF Total(recs) <= Cap THEN recs
  ELSE [i \in DOMAIN recs |->
          IF IsSized(recs[i])
          THEN [recs[i] EXCEPT !.size = RoundDiv(@ * Cap, Total(recs))]
          ELSE recs[i]]

\* The recommendations of a day for a sequence of candidates.
SizeAll(cands, brake) == KellyCap([i \in DOMAIN cands |-> SizeOne(cands[i], brake)])
================================================================================
