------------------------------ MODULE MCScreening ------------------------------
(***************************************************************************)
(* An instance of Screening.  The trees cover every node type, a node that *)
(* the factory refuses and one that raises when it is evaluated; figures   *)
(* that are missing may turn out on both sides of the guards.              *)
(***************************************************************************)
EXTENDS Screening, TLC

CONSTANTS c1, c2

MCCommitters == {c1, c2}
Symmetry == Permutations(MCCommitters)

threshold(name, path, op, bound) ==
  [type |-> "threshold", name |-> name, metric_path |-> path, period_years |-> 2,
   op |-> op, threshold |-> bound]
node(type, children) == [type |-> type, name |-> type, children |-> children]
negation(inner) == [type |-> "not", name |-> "not", inner |-> inner]
weighted(children, pass) ==
  [type |-> "weighted_sum", name |-> "weighted_sum", children |-> children, pass_score |-> pass]
weight(rule, w) == [rule |-> rule, weight |-> w]

MCGuards == {threshold("solvency_floor", "interest_coverage", "ge", 150),
             threshold("leverage_ceiling", "debt_to_equity", "le", 200)}

spread == threshold("spread", "z_score", "ge", 2)
buyback == [type |-> "signal_presence", name |-> "buyback", required_any_of |-> {"buyback"}]
coverage == [type |-> "scoring", name |-> "coverage", metric_path |-> "interest_coverage",
             period_years |-> 2, method |-> "step", pass_score |-> 50]
profitable == threshold("profitable", "roic", "ge", 140)
cashYears == threshold("cash_years", "fcf_positive_years", "ge", 2)
margin == threshold("margin", "fcf_to_revenue", "ge", 5)
unknownMethod == [coverage EXCEPT !.method = "none"]
either == node("or", <<buyback, coverage, profitable>>)
both == node("and", <<either, spread, margin>>)
noSpread == negation(spread)
mixed == weighted(<<weight(spread, 1), weight(coverage, 3), weight(cashYears, 1)>>, 50)
weightless == weighted(<<weight(spread, 0)>>, 50)
\* Not monotone twice over: a pass while the spread is unknown, not when it is known.
penalty == weighted(<<weight(coverage, 4), weight(noSpread, 1), weight(spread, -1)>>, 100)
notEqual == threshold("odd", "z_score", "ne", 2)

MCTrees == MCGuards \cup {spread, buyback, coverage, profitable, cashYears, margin, unknownMethod,
                          either, both, noSpread, mixed, weightless, penalty, notEqual}

\* Coverage is a ratio of hundredths: 200 and 400 occur.
MCMethods == [m \in {"step"} |-> [v \in {100, 200, 400} |-> IF v >= 400 THEN 100 ELSE IF v >= 200 THEN 40 ELSE 0]]

\* A year's figures: complete but for what the arguments leave open.
year(debt, equity, income, fcf) ==
  [total_debt |-> debt, total_equity |-> equity, operating_income |-> income, finance_costs |-> 1,
   fcf |-> fcf, revenue |-> 10]
figures(latest, before, signals) == [annuals |-> <<latest, before>>, signals |-> signals, z_score |-> Missing]

\* Sound, but for the cash flow of the year before; income unknown; equity unknown, and
\* the debt too high for it; debt unknown, and equity the year before.
MCFetched == {figures(year(2, 1, 4, 1), year(2, 1, 4, Missing), {}),
              figures(year(2, 1, Missing, 1), year(2, 1, 4, 1), {"buyback"}),
              figures(year(3, Missing, 4, 1), year(2, 1, 4, -1), {"buyback"}),
              figures(year(Missing, 1, 2, 1), year(2, Missing, 4, 1), {})}

\* What may come to be known of a year, and of a ticker.
known(x, values) == IF x = Missing THEN {Missing} \cup values ELSE {x}
completed(y) ==
  [total_debt: known(y.total_debt, {2, 3}), total_equity: known(y.total_equity, {1}),
   operating_income: known(y.operating_income, {1, 2, 4}), finance_costs: {1},
   fcf: known(y.fcf, {-1, 1}), revenue: {10}]
completions(s) ==
  [annuals: {<<a, b>> : a \in completed(s.annuals[1]), b \in completed(s.annuals[2])},
   signals: {s.signals}, z_score: {Missing, 1, 2}]
MCSnapshots == UNION {completions(fetched) : fetched \in MCFetched}

draft(req, rule) == [req |-> req, rule |-> rule]
MCDrafts == {draft({"spread_zscore"}, both), draft({}, penalty),
             draft({}, unknownMethod), draft({}, weightless), draft({}, notEqual)}
MCDefault == mixed
================================================================================
