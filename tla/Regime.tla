-------------------------------- MODULE Regime --------------------------------
(***************************************************************************)
(* Stage 0: four indicators vote for a regime (macro/signals), the worst   *)
(* vote wins, and the reports of earlier days tell how long the regime has *)
(* stood (macro/application/regime_classify.py).  The report is written    *)
(* through the artifact store: a rerun of a date gets a suffix, which the  *)
(* scan does not read, and a run that dies leaves a torn one.              *)
(*                                                                         *)
(* In which directory a report is depends on who runs macro.main.  By hand *)
(* it is that of the last trading day up to the date.  The daily chain     *)
(* exports TRAIL_TODAY, which answers for every date: the scan opens the   *)
(* directory of today at each of its steps back.                           *)
(*                                                                         *)
(* Values are in hundredths; a series is its last observations, the newest *)
(* first, each a value or None.                                            *)
(***************************************************************************)
EXTENDS Integers, FiniteSets, Sequences, SequencesExt

CONSTANTS
    LastDate,   \* bound: dates 1 .. LastDate
    Closed,     \* the dates without trading: weekends and holidays
    Require,    \* regime_shift_alert.require_consecutive_days
    Markets,    \* what the series may hold: dgs10, dgs2, oas, vix, breadth
    Outages,    \* sets of signals that cannot be fetched at once
    None

VARIABLES
    date,     \* today
    report,   \* 00-macro-regime.json in the directory of each date: a regime,
              \* "torn" or None
    said,     \* what the run that just ended wrote, under whatever name
    word,     \* history: what the first run that ended said in each directory
    hurt      \* history: the directories in which a run died before one ended

vars == <<date, report, said, word, hurt>>

Regimes == {"early_cycle", "mid_cycle", "late_cycle", "crisis", "unknown"}

RegimeAssumption ==
    /\ LastDate \in Nat \ {0} /\ Require \in Nat /\ None \notin Regimes \cup {"torn"}
    /\ Closed \subseteq Nat /\ 1 \notin Closed

Dates == 1 .. LastDate

(* fred_latest: the newest observation that is not missing.                *)
Latest(obs) ==
    LET there == SelectSeq(obs, LAMBDA v : v # None)
    IN  IF there = << >> THEN None ELSE there[1]

(* What each signal measures, None when it could not be fetched.           *)
Curve(m)   == IF None \in {Latest(m.dgs10), Latest(m.dgs2)} THEN None
              ELSE Latest(m.dgs10) - Latest(m.dgs2)
Oas(m)     == Latest(m.oas)
Breadth(m) == m.breadth
(* The share of the five years' values that the newest one does not pass.  *)
Percentile(m) ==
    LET history == SelectSeq(m.vix, LAMBDA v : v # None)
        below   == {i \in DOMAIN history : history[i] <= Latest(m.vix)}
    IN  IF history = << >> THEN None ELSE (100 * Cardinality(below)) \div Len(history)

(* The votes, each with the thresholds of regimes.yaml.                    *)
CurveVote(v)   == IF v <= -100 THEN "crisis" ELSE IF v <= 0 THEN "late_cycle" ELSE "mid_cycle"
OasVote(v)     == IF v >= 800 THEN "crisis" ELSE IF v >= 500 THEN "late_cycle"
                  ELSE IF v <= 400 THEN "mid_cycle" ELSE None
VixVote(p)     == IF p >= 85 THEN "crisis" ELSE IF p <= 20 THEN "late_cycle" ELSE None
BreadthVote(v) == IF v <= 20 THEN "crisis" ELSE IF v <= 40 THEN "late_cycle"
                  ELSE IF v >= 60 THEN "mid_cycle" ELSE None

(* What is voted on the market m when the signals of `down` cannot be      *)
(* fetched.                                                                *)
Votes(m, down) ==
    LET curve == Curve(m)  oas == Oas(m)  vix == Percentile(m)  breadth == Breadth(m)
    IN  (  (IF "yield_curve" \in down \/ curve = None THEN {} ELSE {CurveVote(curve)})
        \cup (IF "credit_spread" \in down \/ oas = None THEN {} ELSE {OasVote(oas)})
        \cup (IF "vix" \in down \/ vix = None THEN {} ELSE {VixVote(vix)})
        \cup (IF "breadth" \in down \/ breadth = None THEN {} ELSE {BreadthVote(breadth)})
        ) \ {None}

Severity == [early_cycle |-> 0, mid_cycle |-> 1, late_cycle |-> 2, crisis |-> 3]

(* classify_regime: the most severe vote, "unknown" without any.           *)
Classify(votes) ==
    IF votes = {} THEN "unknown"
    ELSE CHOOSE r \in votes : \A v \in votes : Severity[v] <= Severity[r]

(* What a run may find: the markets are what they are, any signals down.   *)
Findings == {Classify(Votes(m, down)) : m \in Markets, down \in Outages}

(* normalize_to_trading_day: the last trading day up to d, 0 before all.   *)
Normal(d) == Max({0} \cup (1 .. d \ Closed))

(* trail_dir: whose directory the run for d opens k steps back; at no step *)
(* back it is the one that it writes to.                                   *)
Place(d, k, exported) == IF exported THEN d ELSE Normal(d - k)

Steps == 1 .. Require + 4

(* The steps back at which the run for d finds a report that it can read.  *)
Legible(d, exported) ==
    {k \in Steps : LET p == Place(d, k, exported) IN p # 0 /\ report[p] \notin {None, "torn"}}

(* Mutant: a report with another regime is passed over.                    *)
StreakWithGaps(d, regime, exported) ==
    1 + Cardinality({k \in Legible(d, exported) : report[Place(d, k, exported)] = regime})
(* detect_regime_shift: at how many steps in a row the report says the     *)
(* same, this one with them: the scan stops at the first that does not.    *)
Streak(d, regime, exported) ==
    LET legible == Legible(d, exported)
    IN  1 + Cardinality({k \in legible :
                \A j \in legible : j <= k => report[Place(d, j, exported)] = regime})

Previous(d, exported) ==
    IF Legible(d, exported) = {} THEN None
    ELSE report[Place(d, Min(Legible(d, exported)), exported)]

Init ==
    /\ date = 1 /\ report = [d \in Dates |-> None] /\ said = None
    /\ word = [d \in Dates |-> None] /\ hurt = {}

NextDate ==
    /\ said = None /\ date < LastDate
    /\ date' = date + 1
    /\ UNCHANGED <<report, said, word, hurt>>

(* macro.main for today, or for an earlier date when --date says so, by    *)
(* the chain (TRAIL_TODAY exported) or by hand.                            *)
Run(d, exported, regime) ==
    LET streak == Streak(d, regime, exported)
        into   == Place(d, 0, exported)
    IN  /\ said = None
        /\ said' = [on |-> d, exported |-> exported, regime |-> regime, streak |-> streak,
                    alert |-> streak >= Require /\ Previous(d, exported) # regime]
        /\ report' = [report EXCEPT ![into] = IF @ = None THEN regime ELSE @]
        /\ word' = [word EXCEPT ![into] = IF @ = None THEN regime ELSE @]
        /\ UNCHANGED <<date, hurt>>

(* The run dies inside write_output_safely.                                *)
DieWriting(d, exported) ==
    LET into == Place(d, 0, exported)
    IN  /\ said = None
        /\ report' = [report EXCEPT ![into] = IF @ = None THEN "torn" ELSE @]
        /\ hurt' = IF word[into] = None THEN hurt \cup {into} ELSE hurt
        /\ UNCHANGED <<date, said, word>>

Rest == said # None /\ said' = None /\ UNCHANGED <<date, report, word, hurt>>

Next == \/ NextDate \/ Rest
        \/ \E d \in 1 .. date, exported \in BOOLEAN :
              \/ \E regime \in Findings : Run(d, exported, regime)
              \/ DieWriting(d, exported)

Spec == Init /\ [][Next]_vars

------------------------------------------------------------------------------
(* A streak is not one across a change: in no directory that the scan came *)
(* to did the first run that ended say something else, unless a run there  *)
(* had died before; only the steps to later directories count, those where *)
(* the first run said the same.  (Dates without a report, reruns under     *)
(* suffixes, runs for earlier dates, weekends, chain and hand mixed.)      *)
StreakNotBridged ==
    said # None =>
        LET at(k) == Place(said.on, k, said.exported)
            same  == {k \in Steps : /\ at(k) # 0 /\ word[at(k)] = said.regime
                                    /\ at(k) \notin hurt}
        IN  \A j \in Steps :
                at(j) # 0 /\ word[at(j)] \notin {None, said.regime} /\ at(j) \notin hurt
                => said.streak <= 1 + Cardinality({k \in same : at(k) > at(j)})

(* classify.md says that the scan goes back from yesterday and reads the   *)
(* report of each day: a streak of n days takes n - 1 earlier days that    *)
(* said the same.                                                          *)
StreakCountsDays ==
    said # None =>
        said.streak <= 1 + Cardinality({e \in 1 .. said.on - 1 : word[e] = said.regime})

(* regimes.yaml says of the alert that it is raised when a shift of the    *)
(* regime lasts for require_consecutive_days.                              *)
LastingShiftAlerts ==
    said # None =>
        LET since == said.on - Require
        IN  /\ since >= 1
            /\ \A e \in since + 1 .. said.on - 1 : report[e] = said.regime
            /\ report[since] \notin {None, "torn", said.regime}
            => said.alert
==============================================================================
