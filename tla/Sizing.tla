-------------------------------- MODULE Sizing --------------------------------
(***************************************************************************)
(* A run of Stage 5 (domains/risk_engine/application/sizing.py, main): the *)
(* inputs are read, the portfolio context decides whether sizes may be     *)
(* given at all and whether the drawdown brake is on, every candidate is   *)
(* sized, the sum is capped, the cash band may block, one report is        *)
(* written.                                                                *)
(*                                                                         *)
(* The inputs are what the run finds on disk: the candidates of Stage 4,   *)
(* the macro regime's cash band, portfolio.yaml and the derived state of   *)
(* portfolio_state_derive.  Percentages are in the units of SizingRules.   *)
(***************************************************************************)
EXTENDS SizingRules

CONSTANTS Ratios,         \* the ratios a candidate may have (NoRatio among them)
          MaxCands,       \* bound: candidates of a day
          MaxVaried,      \* bound: candidates of a day with other than plain inputs
          Drawdowns,      \* drawdowns that portfolio.yaml or the derived state may hold
          Cashes,         \* cash percentages they may hold
          Bands,          \* lower ends of the cash band in 00-macro-regime.json
          DefaultBand,    \* 0.30, when there is no such file
          Threshold,      \* sizing.drawdown_brake.threshold_pct
          None,           \* an absent value
          Bad             \* a value float() rejects

ASSUME SizingAssumption ==
  /\ Ratios \subseteq Nat \cup {NoRatio}
  /\ MaxCands \in Nat /\ MaxVaried \in Nat
  /\ Drawdowns \subseteq Nat /\ Cashes \subseteq Nat /\ Bands \subseteq Nat
  /\ DefaultBand \in Nat /\ Threshold \in Nat \ {0}
  /\ {None, Bad} \cap Nat = {} /\ None # Bad

VARIABLES cands,    \* the candidates of 04-thesis-candidates.json
          inputs,   \* portfolio.yaml, the derived state and the macro regime
          pc,
          ctx,      \* what _portfolio_context_from_yaml returned
          recs,     \* the recommendations so far
          report    \* 05-sizing-recommendation.json, or None

vars == <<cands, inputs, pc, ctx, recs, report>>

Inputs == [readable: BOOLEAN, capital: {"given", "missing"},
           drawdown: Drawdowns \cup {None, Bad}, cash: Cashes \cup {None, Bad},
           derivedDrawdown: Drawdowns \cup {None}, derivedCash: Cashes \cup {None},
           band: Bands \cup {None}]

\* Inputs that leave only the drawdown open: nothing withholds or blocks.
Plain == [readable: {TRUE}, capital: {"given"},
          drawdown: {None}, cash: {None},
          derivedDrawdown: Drawdowns \cup {None}, derivedCash: {None}, band: {None}]

\* The candidates a day may hold; only an accepted one has its ratio read.
StageFour == [verdict: {"accepted"}, ratio: Ratios]
             \cup [verdict: {"other", "none"}, ratio: {NoRatio}]

Context == [drawdown: Nat, cash: Cashes \cup {None}]

TypeOK ==
  /\ cands \in Seq(Candidate)
  /\ inputs \in Inputs
  /\ pc \in {"start", "size", "capped", "done", "crashed"}
  /\ ctx \in Context \cup {None}
  /\ recs \in Seq(Recommendation)
  /\ report \in {None} \cup [recs: Seq(Recommendation), brake: BOOLEAN, blocked: BOOLEAN]

--------------------------------------------------------------------------------
(* The portfolio context: an override first, then the derived state.  An   *)
(* override that float() rejects counts as 0 (drawdown) or as absent       *)
(* (cash), even when a derived value is at hand.                           *)

OverrideOr(given, derived, fallback) ==
  CASE given = Bad -> fallback
    [] given = None -> IF derived = None THEN fallback ELSE derived
    [] given \notin {Bad, None} -> given

PortfolioContext(in) ==
  IF in.capital = "missing" THEN None
  ELSE [drawdown |-> OverrideOr(in.drawdown, in.derivedDrawdown, 0),
        cash     |-> OverrideOr(in.cash, in.derivedCash, None)]

Brake(c) == c.drawdown >= Threshold
CashBand(in) == IF in.band = None THEN DefaultBand ELSE in.band
BelowBand(c, in) == c.cash # None /\ c.cash < CashBand(in)

BlockCash(rs) ==
  [i \in DOMAIN rs |-> IF rs[i].verdict \in SizedVerdicts
                       THEN Without("blocked_cash_band") ELSE rs[i]]

--------------------------------------------------------------------------------
Init ==
  /\ \E n \in 0..MaxCands :
       /\ cands \in [1..n -> StageFour]
       /\ inputs \in IF n <= MaxVaried THEN Inputs ELSE Plain
  /\ pc = "start" /\ ctx = None /\ recs = <<>> /\ report = None

\* 04-thesis-candidates.json or 00-macro-regime.json is no JSON: json.load
\* raises, nothing catches it, and the run ends without a report.
CorruptInput ==
  /\ pc = "start" /\ ~inputs.readable
  /\ pc' = "crashed"
  /\ UNCHANGED <<cands, inputs, ctx, recs, report>>

\* G12: without the capital in portfolio.yaml the report holds no recommendation.
Withhold ==
  /\ pc = "start" /\ inputs.readable /\ PortfolioContext(inputs) = None
  /\ report' = [recs |-> <<>>, brake |-> FALSE, blocked |-> TRUE]
  /\ pc' = "done"
  /\ UNCHANGED <<cands, inputs, ctx, recs>>

Load ==
  /\ pc = "start" /\ inputs.readable /\ PortfolioContext(inputs) # None
  /\ ctx' = PortfolioContext(inputs)
  /\ pc' = "size"
  /\ UNCHANGED <<cands, inputs, recs, report>>

\* size_one for the next candidate.
SizeNext ==
  /\ pc = "size" /\ Len(recs) < Len(cands)
  /\ LET c == cands[Len(recs) + 1] IN
       /\ ~(Divides(c) /\ c.ratio = 0)
       /\ recs' = Append(recs, SizeOne(c, Brake(ctx)))
  /\ UNCHANGED <<cands, inputs, pc, ctx, report>>

\* A ratio of 0 is divided by: nothing catches the exception and the run ends
\* without a report.
DivideByZero ==
  /\ pc = "size" /\ Len(recs) < Len(cands)
  /\ LET c == cands[Len(recs) + 1] IN Divides(c) /\ c.ratio = 0
  /\ pc' = "crashed"
  /\ UNCHANGED <<cands, inputs, ctx, recs, report>>

CapSum ==
  /\ pc = "size" /\ Len(recs) = Len(cands)
  /\ recs' = KellyCap(recs)
  /\ pc' = "capped"
  /\ UNCHANGED <<cands, inputs, ctx, report>>

\* The cash band check and the write of the report.
Write ==
  /\ pc = "capped"
  /\ recs' = IF BelowBand(ctx, inputs) THEN BlockCash(recs) ELSE recs
  /\ report' = [recs |-> recs', brake |-> Brake(ctx), blocked |-> FALSE]
  /\ pc' = "done"
  /\ UNCHANGED <<cands, inputs, ctx>>

Next == CorruptInput \/ Withhold \/ Load \/ SizeNext \/ DivideByZero \/ CapSum \/ Write

Spec == Init /\ [][Next]_vars

--------------------------------------------------------------------------------
Written == pc = "done" /\ ~report.blocked

(* Among the accepted candidates of a report, a better ratio never gets a  *)
(* smaller size, through the halving below HalfBelow, the clamp, the floor,*)
(* the brake, the scaling and the cash block together (size_one,           *)
(* apply_portfolio_kelly_cap, main).                                       *)
OrderFollowsAsymmetry ==
  Written =>
    \A i, j \in DOMAIN cands :
      /\ cands[i].verdict = "accepted" /\ cands[j].verdict = "accepted"
      /\ cands[i].ratio \in Nat /\ cands[j].ratio \in Nat
      /\ cands[i].ratio <= cands[j].ratio
      => SizeOf(report.recs[i]) <= SizeOf(report.recs[j])

(* The limits of G16: no size over the cap per position, and a sum at most *)
(* the portfolio cap up to the rounding of each size (half a unit each).   *)
WithinCaps ==
  Written =>
    /\ \A i \in DOMAIN report.recs : SizeOf(report.recs[i]) <= MaxPct
    /\ 2 * Total(report.recs) <= 2 * Cap + Len(report.recs)

(* The brake never changes which candidates get a size, only how much: the *)
(* floor is tested on the size before the brake (size_one).                *)
BrakeKeepsTickers ==
  Written =>
    LET other == SizeAll(cands, ~report.brake)
    IN  BelowBand(ctx, inputs) \/
        \A i \in DOMAIN cands : IsSized(report.recs[i]) <=> IsSized(other[i])

(* A size is only ever given with a verdict that recommends it, and a      *)
(* report under the cash band (G18) or without the user's capital (G12)    *)
(* holds none.                                                             *)
SizesAreRecommended ==
  pc = "done" =>
    /\ \A i \in DOMAIN report.recs :
         IsSized(report.recs[i]) <=> report.recs[i].verdict \in SizedVerdicts
    /\ (inputs.capital = "missing" \/ BelowBand(ctx, inputs)) =>
         \A i \in DOMAIN report.recs : ~IsSized(report.recs[i])

================================================================================
