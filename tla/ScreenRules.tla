------------------------------ MODULE ScreenRules ------------------------------
(***************************************************************************)
(* The rule trees of the screener (domains/screener/rules): what the       *)
(* factory accepts, and what a tree makes of a snapshot in which any figure *)
(* may be missing.  A tree is a record with the keys of its YAML node; a   *)
(* ratio is a number of hundredths, a score a number of 1/One, and a       *)
(* quotient is rounded down.                                               *)
(***************************************************************************)
EXTENDS Integers, Sequences, FiniteSetsExt

CONSTANTS Snapshots,      \* what may be known of a ticker
          Trees,          \* rule trees, with their subtrees
          Guards,         \* the guards of hard_guards.yaml
          Methods,        \* SCORING_METHODS: name -> score of a value
          One,            \* a score of 1.0
          TaxRate,        \* tax_rate of the strategy, in hundredths
          Missing         \* None: no value

\* The rules a node is made of.
Subtrees(tree) ==
  CASE tree.type \in {"and", "or"}   -> {tree.children[i] : i \in DOMAIN tree.children}
    [] tree.type = "weighted_sum" -> {tree.children[i].rule : i \in DOMAIN tree.children}
    [] tree.type = "not"          -> {tree.inner}
    [] OTHER                      -> {}

\* The whitelist: z_score stands for the three enrichments.
MetricPaths == {"roic", "fcf_positive_years", "fcf_to_revenue", "debt_to_equity",
                "interest_coverage", "z_score", "signals.count"}

\* A YAML document is a tree, with the keys of its types and metric paths of the
\* manifest; the weights are whatever numbers a policy states.
NodesAssumption ==
  \A tree \in Trees :
    /\ tree.type \in {"and", "or", "not", "weighted_sum", "threshold", "scoring",
                     "signal_presence", "profile_ref"}
    /\ tree.type \in {"and", "or"} => tree.children \in Seq(Trees)
    /\ tree.type = "weighted_sum" => /\ tree.children \in Seq([rule: Trees, weight: Int])
                                    /\ tree.pass_score \in Int \cup {Missing}
    /\ tree.type = "not" => tree.inner \in Trees
    /\ tree.type \in {"threshold", "scoring"} =>
         tree.metric_path \in MetricPaths /\ tree.period_years \in Nat \ {0}
    /\ tree.type = "threshold" => tree.threshold \in Int
    /\ tree.type = "scoring" => tree.pass_score \in Int

ASSUME TreesAssumption ==
  /\ IsFiniteSet(Trees) /\ NodesAssumption
  /\ \A S \in SUBSET Trees : S # {} => \E tree \in S : Subtrees(tree) \cap S = {}

\* hard_guards.yaml holds thresholds on two ratios, with operators that there are.
Ops == {"ge", "le", "gt", "lt", "eq"}
ASSUME GuardsAssumption ==
  \A g \in Guards : /\ g \in Trees /\ g.type = "threshold" /\ g.op \in Ops
                    /\ g.metric_path \in {"debt_to_equity", "interest_coverage"}

\* A snapshot has the annual figures, the newest year first, in each of which any may be
\* missing (fcf: operating cash flow less capex), a set of signals, and the enrichment.
\* No code writes interim filings.
Figures == {"total_equity", "total_debt", "operating_income", "finance_costs", "fcf", "revenue"}
ASSUME SnapshotsAssumption ==
  /\ Missing \notin Int /\ TaxRate \in Int
  /\ \A s \in Snapshots :
       /\ s.annuals \in Seq([Figures -> Int \cup {Missing}])
       /\ IsFiniteSet(s.signals)

--------------------------------------------------------------------------------
(* Metrics of a snapshot (rules/resolver, domain/ticker). *)

OrZero(x) == IF x = Missing THEN 0 ELSE x

\* A quotient by a number that is not 0, which may be negative.
Quotient(a, b) == IF b > 0 THEN a \div b ELSE (-a) \div (-b)

\* annual_roic: missing equity and debt count as 0.
Roic(year) ==
  LET invested == OrZero(year.total_equity) + OrZero(year.total_debt)
  IN  IF invested <= 0 \/ year.operating_income = Missing THEN Missing
      ELSE Quotient(year.operating_income * (100 - TaxRate), invested)

\* The sum of a sequence of numbers.
Total(terms) ==
  LET upTo[n \in 0..Len(terms)] == IF n = 0 THEN 0 ELSE upTo[n - 1] + terms[n]
  IN  upTo[Len(terms)]

RoicAverage(annuals, years) ==
  IF Len(annuals) < years \/ \E i \in 1..years : Roic(annuals[i]) = Missing THEN Missing
  ELSE Quotient(Total([i \in 1..years |-> Roic(annuals[i])]), years)

\* A year whose cash flow is missing does not count.
FcfPositiveYears(annuals, years) ==
  Cardinality({i \in DOMAIN annuals : i <= years /\ annuals[i].fcf # Missing /\ annuals[i].fcf > 0})

FcfToRevenue(year) ==
  IF year.fcf = Missing \/ year.revenue \in {Missing, 0} THEN Missing
  ELSE Quotient(100 * year.fcf, year.revenue)

\* Mutant: missing equity counts as a ratio of 0.
DebtToEquityForgiving(year) ==
  IF year.total_equity \in {Missing, 0} THEN 0
  ELSE Quotient(100 * OrZero(year.total_debt), year.total_equity)
\* Missing debt counts as 0.
DebtToEquity(year) ==
  IF year.total_equity \in {Missing, 0} THEN Missing
  ELSE Quotient(100 * OrZero(year.total_debt), year.total_equity)

\* Costs of 0 count as missing.
InterestCoverage(year) ==
  IF year.operating_income = Missing \/ year.finance_costs \in {Missing, 0} THEN Missing
  ELSE Quotient(100 * year.operating_income, year.finance_costs)

\* resolve_metric for a leaf.  Missing stands for InsufficientHistoryError and
\* MetricResolutionError.
Metric(s, leaf) ==
  CASE leaf.metric_path = "roic"               -> RoicAverage(s.annuals, leaf.period_years)
    [] leaf.metric_path = "fcf_positive_years" -> FcfPositiveYears(s.annuals, leaf.period_years)
    [] leaf.metric_path = "z_score"            -> s.z_score
    [] leaf.metric_path = "signals.count"      -> Cardinality(s.signals)
    [] OTHER -> IF s.annuals = <<>> THEN Missing
                ELSE CASE leaf.metric_path = "fcf_to_revenue"    -> FcfToRevenue(s.annuals[1])
                       [] leaf.metric_path = "debt_to_equity"    -> DebtToEquity(s.annuals[1])
                       [] leaf.metric_path = "interest_coverage" -> InterestCoverage(s.annuals[1])

\* A scoring method has a score for every value.
ASSUME ScoresAssumption ==
  /\ One \in Nat
  /\ \A m \in DOMAIN Methods : \A x \in DOMAIN Methods[m] : Methods[m][x] \in Int
  /\ \A tree \in Trees, s \in Snapshots :
       /\ tree.type = "scoring" /\ tree.method \in DOMAIN Methods
       /\ Metric(s, tree) # Missing
       => Metric(s, tree) \in DOMAIN Methods[tree.method]

--------------------------------------------------------------------------------
(* Evaluation. *)

Compare(op, value, threshold) ==
  CASE op = "ge" -> value >= threshold
    [] op = "le" -> value <= threshold
    [] op = "gt" -> value > threshold
    [] op = "lt" -> value < threshold
    [] op = "eq" -> value = threshold

Lowest(scores) == IF scores = {} THEN 0 ELSE Min(scores)
Highest(scores) == IF scores = {} THEN 0 ELSE Max(scores)

Binary(passed) == [passed |-> passed, score |-> IF passed THEN One ELSE 0]

Scored(score, needed) == [passed |-> score >= needed, score |-> score]

TotalWeight(tree) == Total([i \in DOMAIN tree.children |-> tree.children[i].weight])

(* What a node makes of a snapshot, given the results of its subtrees:     *)
(* whether it passes, and its score.  A leaf without its value fails with  *)
(* score 0.                                                                *)
Outcome(s, tree, results) ==
  LET value == Metric(s, tree)
      scores == {results[child].score : child \in Subtrees(tree)}
  IN  CASE tree.type = "threshold" ->
             Binary(value # Missing /\ Compare(tree.op, value, tree.threshold))
        [] tree.type = "scoring" ->
             IF value = Missing THEN Binary(FALSE)
             ELSE Scored(Methods[tree.method][value], tree.pass_score)
        [] tree.type = "signal_presence" -> Binary(s.signals \cap tree.required_any_of # {})
        [] tree.type = "and" ->
             [passed |-> \A child \in Subtrees(tree) : results[child].passed, score |-> Lowest(scores)]
        [] tree.type = "or" ->
             [passed |-> \E child \in Subtrees(tree) : results[child].passed, score |-> Highest(scores)]
        [] tree.type = "not" ->
             [passed |-> ~results[tree.inner].passed, score |-> One - results[tree.inner].score]
        [] tree.type = "weighted_sum" ->
             Scored(Total([i \in DOMAIN tree.children |->
                             results[tree.children[i].rule].score * tree.children[i].weight])
                      \div TotalWeight(tree),
                    tree.pass_score)

\* What a tree makes of each snapshot.
Result[tree \in Trees] ==
  [s \in Snapshots |-> Outcome(s, tree, [child \in Subtrees(tree) |-> Result[child][s]])]

GuardsHold(s) == \A g \in Guards : Result[g][s].passed

--------------------------------------------------------------------------------
(* Building and checking. *)

Nodes[tree \in Trees] == {tree} \cup UNION {Nodes[child] : child \in Subtrees(tree)}

\* RuleFactory.build_strategy.  "invalid": a ValueError or HardGuardViolationError
\* (unknown method, reference to a profile that a ticker's rules cannot have, the
\* name of a guard); "raises": a KeyError for a key the node does not have.  A
\* tree has at most one such fault here.
Build(tree) ==
  IF \E n \in Nodes[tree] :
       \/ n.type = "scoring" /\ n.method \notin DOMAIN Methods
       \/ n.type = "profile_ref"
       \/ n.name \in {g.name : g \in Guards}
  THEN "invalid"
  ELSE IF \E n \in Nodes[tree] : n.type = "weighted_sum" /\ n.pass_score = Missing
  THEN "raises"
  ELSE "ok"

\* validate_cutoff_rules: the types and metric paths are those of Trees; the
\* operator is checked, the pass_score, the method and the weights are not.
AcceptedAtCommit(tree) ==
  \A n \in Nodes[tree] :
    /\ n.type = "threshold" => n.op \in Ops
    /\ n.type \in {"and", "or", "weighted_sum"} => n.children # <<>>

\* Weights without a positive sum, and an operator that commits refuse, raise a
\* ValueError that nobody catches.  Every node is evaluated.
Raises(s, n) ==
  \/ n.type = "weighted_sum" /\ TotalWeight(n) <= 0
  \/ n.type = "threshold" /\ n.op \notin Ops /\ Metric(s, n) # Missing

\* HardGuardWrapper.evaluate: a failed guard ends it.
Evaluate(s, tree) ==
  IF ~GuardsHold(s) THEN "fail"
  ELSE IF \E n \in Nodes[tree] : Raises(s, n) THEN "raises"
  ELSE IF Result[tree][s].passed THEN "pass" ELSE "fail"
================================================================================
