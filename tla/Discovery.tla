------------------------------- MODULE Discovery -------------------------------
(***************************************************************************)
(* Stage 1 (domains/universe) and Stage 3 (domains/catalyst) over several  *)
(* days: the universe is collected from its sources, deduplicated and      *)
(* enriched; the net asset value of every holding company is written to    *)
(* its history (_shared/nav_history.py); the detectors read the universe,  *)
(* DART's filings, prices and that history and make candidates.            *)
(*                                                                         *)
(* The run lock keeps stages of two launches apart, so one process acts at *)
(* a time; it may die between two effects and be run again.  A day is a    *)
(* trading day or a holiday; a company's capitalisation stands for its     *)
(* price, its number of shares being fixed.  What a scan of the disclosure *)
(* list loses is Disclosures' subject: here any part of it may be lost.    *)
(***************************************************************************)
EXTENDS Integers, FiniteSets, Sequences, Rounding

CONSTANTS
    MaxDay,       \* bound: days
    MaxBuilds,    \* bound: builds
    Calendars,    \* sets of days without a session
    Companies,    \* companies with a price
    Prices,       \* capitalisations each may have
    Subsidiaries, \* subsidiaries_map: parent -> (subsidiary -> percent owned)
    Literals,     \* tickers of the user's list
    Pairs,        \* preferred_pairs.yaml: the common shares
    AutoPairs,    \* those DART's listing adds, with auto_discover
    Exclusions,   \* what exclusions.yaml may say
    Lookback,     \* nav_discount_narrowing.lookback_days
    Narrowing,    \* delta_threshold, in hundredths of a percent
    Panic,        \* one_day_drop_min, in hundredths of a percent
    Rows,         \* daily rows the price source returns
    Archive,      \* DART filings: [ticker, ty, names, day]
    Verdicts,     \* sets of tickers that Stage 2 may pass
    None          \* no value

(* A filing is made on a day; the look back and the rows are numbers.      *)
DiscoveryAssumption ==
    /\ \A f \in Archive : f.day \in Nat
    /\ Lookback \in Nat /\ Rows \in Nat

Days    == 1 .. MaxDay
Parents == DOMAIN Subsidiaries

VARIABLES
    day,       \* today
    holidays,  \* days without a session
    market,    \* the capitalisations of each day
    excluded,  \* exclusions.yaml
    date,      \* --date of the build under way, or None
    entries,   \* tickers of the build's entries
    todo,      \* holding companies it has still to enrich
    nav,       \* nav-history: the lines of each parent
    universe,  \* 01-universe.json of today: its tickers, or None
    builds,    \* builds so far
    quality,   \* 02-quality-filter.json of today: the tickers that passed, or None
    scan       \* the last 03-catalyst-events.json of today, or None

vars == <<day, holidays, market, excluded, date, entries, todo, nav, universe, builds, quality, scan>>

Quotations == {q \in [Companies -> UNION {Prices[c] : c \in Companies}] :
                  \A c \in Companies : q[c] \in Prices[c]}

Init ==
    /\ day = 1 /\ holidays \in Calendars
    /\ market \in [{1} -> Quotations]
    /\ excluded \in Exclusions
    /\ date = None /\ entries = {} /\ todo = {}
    /\ nav = [p \in Parents |-> << >>]
    /\ universe = None
    /\ builds = 0 /\ quality = None /\ scan = None

NewDay ==
    /\ date = None /\ day < MaxDay
    /\ day' = day + 1
    /\ \E caps \in Quotations :
          /\ day + 1 \in holidays => caps = market[day]
          /\ market' = [d \in 1 .. day + 1 |-> IF d <= day THEN market[d] ELSE caps]
    /\ excluded' \in Exclusions
    /\ universe' = None /\ quality' = None /\ scan' = None
    /\ UNCHANGED <<holidays, date, entries, todo, nav, builds>>

------------------------------------------------------------------------------
(* Stage 1.  What each source finds: every parent of the map, the user's   *)
(* list, the pairs of the configuration with those DART's listing adds if  *)
(* it answers, and the companies of the filings the filters' scans got.    *)
HoldingEntries     == Parents
LiteralEntries     == Literals
PairEntries(auto)  == IF auto THEN Pairs \cup AutoPairs ELSE Pairs
FilingEntries(got) ==
    {f.ticker : f \in {f \in got :
        \/ f.ty = "B" /\ f.names \cap {"cancellation", "purchase", "spin_off", "merger"} # {}
        \/ f.ty = "D" /\ "holding_5pct" \in f.names}}

(* build_universe: the entries of all the sources, less the excluded ones. *)
(* The build is of any day named by --date, with the prices of the day it  *)
(* runs.                                                                   *)
StartBuild(d) ==
    /\ date = None /\ scan = None /\ builds < MaxBuilds
    /\ builds' = builds + 1
    /\ date' = d
    /\ \E auto \in BOOLEAN, got \in SUBSET {f \in Archive : f.day <= d} :
          entries' = (HoldingEntries \cup LiteralEntries \cup PairEntries(auto)
                        \cup FilingEntries(got)) \ excluded
    /\ todo' = Parents \ excluded
    /\ UNCHANGED <<day, holidays, market, excluded, nav, universe, quality, scan>>

(* _fetch_market_cap: the current price, whatever day is being built.      *)
MarketCap(c) == market[day][c]
Owned(c, percent) == (MarketCap(c) * percent) \div 100

(* _compute_nav: the sum over the subsidiaries whose quote came.           *)
NavOf(p, came) ==
    LET Sum[S \in SUBSET came] ==
          IF S = {} THEN 0
          ELSE LET c == CHOOSE c \in S : TRUE
               IN  Owned(c, Subsidiaries[p][c]) + Sum[S \ {c}]
    IN  Sum[came]

(* The premium over the net asset value in hundredths of a percent.        *)
Premium(cap, sum) == RoundDiv(10000 * cap, sum) - 10000

Snapshot(p, came) == [date |-> date, premium |-> Premium(MarketCap(p), NavOf(p, came)),
                      of |-> came, made |-> day]
Already(p) == \E k \in DOMAIN nav[p] : nav[p][k].date = date

(* enrich: a parent's quote and its subsidiaries' quotes; the snapshot is  *)
(* appended if the parent's quote came, one subsidiary's did, and the day  *)
(* has no line yet.                                                        *)
Enrich(p) ==
    /\ date # None /\ p \in todo
    /\ todo' = todo \ {p}
    /\ \E parentCame \in BOOLEAN, came \in SUBSET DOMAIN Subsidiaries[p] :
          nav' = IF parentCame /\ came # {} /\ NavOf(p, came) > 0 /\ ~Already(p)
                 THEN [nav EXCEPT ![p] = Append(@, Snapshot(p, came))] ELSE nav
    /\ UNCHANGED <<day, holidays, market, excluded, date, entries, universe, builds, quality, scan>>

(* main: the report is written when every entry is enriched; that of an    *)
(* earlier day goes to that day's trail, which no later stage reads.       *)
WriteUniverse ==
    /\ date # None /\ todo = {}
    /\ universe' = IF date = day THEN entries ELSE universe
    /\ date' = None /\ entries' = {}
    /\ UNCHANGED <<day, holidays, market, excluded, todo, nav, builds, quality, scan>>

(* The stage is killed, or times out.                                      *)
DieBuilding ==
    /\ date # None
    /\ date' = None /\ entries' = {} /\ todo' = {}
    /\ UNCHANGED <<day, holidays, market, excluded, nav, universe, builds, quality, scan>>

(* Stage 2 writes its verdicts (Screening is its model).                   *)
Screen(passed) ==
    /\ date = None /\ quality = None /\ scan = None /\ universe # None
    /\ passed \subseteq universe
    /\ quality' = passed
    /\ UNCHANGED <<day, holidays, market, excluded, date, entries, todo, nav, universe, builds, scan>>

------------------------------------------------------------------------------
(* Stage 3.  load_universe_tickers; a missing file is an empty universe.   *)
InUniverse == IF universe = None THEN {} ELSE universe

Event(f, kind, class) ==
    [kind |-> kind, class |-> class, ticker |-> f.ticker, of |-> f,
     from |-> None, to |-> None]

TreasuryEvents(got) ==
    {Event(f, "treasury", "a") : f \in {f \in got :
        f.ty = "B" /\ "cancellation" \in f.names /\ f.ticker \in InUniverse}}

(* The first matching group names the event: spin-off before merger.       *)
SpinOffMergerEvents(got) ==
    {Event(f, IF "spin_off" \in f.names THEN "spin_off" ELSE "merger", "a") : f \in {f \in got :
        f.ty = "B" /\ f.names \cap {"spin_off", "merger"} # {} /\ f.ticker \in InUniverse}}

ActivistEvents(got) ==
    {Event(f, "activist", "d") : f \in {f \in got :
        f.ty = "D" /\ "holding_5pct" \in f.names /\ f.ticker \in InUniverse}}

IndexEvents(got) ==
    {Event(f, "index_deletion", "b") : f \in {f \in got :
        f.ty = "I" /\ {"deletion", "index_name"} \subseteq f.names /\ f.ticker \in InUniverse}}

(* The sessions whose rows the price source returns, the last ones.        *)
Sessions == LET open == (1 .. day) \ holidays
            IN  {d \in open : Cardinality({e \in open : e > d}) < Rows}
Before(d) == {s \in Sessions : s < d}
After(d)  == {s \in Sessions : s > d}
Latest(S) == CHOOSE d \in S : \A e \in S : e <= d
Soonest(S) == CHOOSE d \in S : \A e \in S : e >= d

(* _kis_around: the row of the filing's day, or the first one after it,    *)
(* and its two neighbours.                                                 *)
Anchor(d) == IF d \in Sessions THEN d
             ELSE IF After(d) = {} THEN None ELSE Soonest(After(d))
(* Mutant: rows[i - 1] without the check that i is not 0.                  *)
AroundWrapped(d) ==
    LET i == Anchor(d)
    IN  IF i = None THEN <<None, None>>
        ELSE <<Latest(IF Before(i) = {} THEN Sessions ELSE Before(i)),
               IF After(i) = {} THEN None ELSE Soonest(After(i))>>
Around(d) ==
    LET i == Anchor(d)
    IN  IF i = None THEN <<None, None>>
        ELSE <<IF Before(i) = {} THEN None ELSE Latest(Before(i)),
               IF After(i) = {} THEN None ELSE Soonest(After(i))>>

(* evaluate_announcement; quoted: the tickers whose price source answered. *)
PanicEvents(got, quoted) ==
    {[Event(f, "earnings_panic", "b") EXCEPT !.from = Around(f.day)[1], !.to = Around(f.day)[2]] :
        f \in {f \in got :
            /\ f.ty \in {"I", "E"} /\ "earnings" \in f.names /\ f.ticker \in InUniverse \cap quoted
            /\ None \notin {Around(f.day)[1], Around(f.day)[2]}
            /\ RoundDiv(10000 * market[Around(f.day)[2]][f.ticker],
                        market[Around(f.day)[1]][f.ticker]) <= 10000 - Panic}}

(* load_nav_history: the look back is counted from the latest line.        *)
Dates(p)  == {nav[p][k].date : k \in DOMAIN nav[p]}
Recent(p) == {k \in DOMAIN nav[p] : nav[p][k].date + Lookback >= Latest(Dates(p))}
(* The first and the last line in order of date, and of the file within.   *)
Earliest(p) ==
    nav[p][CHOOSE k \in Recent(p) : \A j \in Recent(p) :
              \/ nav[p][k].date < nav[p][j].date
              \/ nav[p][k].date = nav[p][j].date /\ k <= j]
Newest(p) ==
    nav[p][CHOOSE k \in Recent(p) : \A j \in Recent(p) :
              \/ nav[p][k].date > nav[p][j].date
              \/ nav[p][k].date = nav[p][j].date /\ k >= j]

(* Mutant: the sign of a discount is taken for that of a premium.          *)
Fall(p) == Earliest(p).premium - Newest(p).premium
(* detect_narrowing over every parent that has a history.                  *)
Rise(p) == Newest(p).premium - Earliest(p).premium
NarrowingEvents ==
    {[kind |-> "nav_narrowing", class |-> "a", ticker |-> p, of |-> None,
      from |-> Earliest(p), to |-> Newest(p)] :
        p \in {p \in Parents :
            /\ nav[p] # << >> /\ Cardinality(Recent(p)) >= 2
            /\ Rise(p) >= Narrowing}}

Primary(events) == {e \in events : e.class \in {"a", "b"}}
(* scan_catalysts: what Stage 2 said of a candidate's ticker.              *)
Marked(ticker) == IF quality \in {None, {}} THEN "unknown_stage2_missing"
                  ELSE IF ticker \in quality THEN "pass" ELSE "fail"

(* main and scan_catalysts: nothing is detected for an empty universe; a   *)
(* filing of class d joins the candidates of its ticker, or is an orphan.  *)
(* A filing reaches all the detectors that ask for its type, or none.      *)
ScanCatalysts ==
    /\ date = None /\ scan = None
    /\ \E got \in SUBSET {f \in Archive : f.day <= day}, quoted \in SUBSET {f.ticker : f \in Archive} :
          LET events == TreasuryEvents(got) \cup SpinOffMergerEvents(got)
                          \cup ActivistEvents(got) \cup IndexEvents(got)
                          \cup PanicEvents(got, quoted) \cup NarrowingEvents
              found  == IF InUniverse = {} THEN {} ELSE events
              joined(t) == {d.of : d \in {d \in found : d.class = "d" /\ d.ticker = t}}
          IN  scan' = [candidates |-> {[event |-> e, augments |-> joined(e.ticker),
                                        quality |-> Marked(e.ticker)] : e \in Primary(found)},
                       orphans |-> {d \in found : /\ d.class = "d"
                                                  /\ \A e \in Primary(found) : e.ticker # d.ticker}]
    /\ UNCHANGED <<day, holidays, market, excluded, date, entries, todo, nav, universe, builds, quality>>

Next == \/ NewDay
        \/ \E d \in 1 .. day : StartBuild(d)
        \/ \E p \in Parents : Enrich(p)
        \/ WriteUniverse
        \/ DieBuilding
        \/ \E passed \in Verdicts : Screen(passed)
        \/ ScanCatalysts

Spec == Init /\ [][Next]_vars

------------------------------------------------------------------------------
Candidates == IF scan = None THEN {} ELSE {c.event : c \in scan.candidates}

(* What the parent's premium over its whole net asset value was on day d.  *)
TruePremium(p, d) ==
    LET Sum[S \in SUBSET DOMAIN Subsidiaries[p]] ==
          IF S = {} THEN 0
          ELSE LET c == CHOOSE c \in S : TRUE
               IN  (market[d][c] * Subsidiaries[p][c]) \div 100 + Sum[S \ {c}]
    IN  Premium(market[d][p], Sum[DOMAIN Subsidiaries[p]])
Whole(p, line) == line.of = DOMAIN Subsidiaries[p] /\ line.made = line.date

(* A narrowing between two lines of whole sums, each made on its own day,  *)
(* happened in the market: over the look back that ends at the later day,  *)
(* the premium rose by the threshold, however many runs were repeated, cut *)
(* short or made for an earlier day in between.                            *)
NarrowingIsTrue ==
    \A e \in Candidates :
        e.kind = "nav_narrowing" /\ Whole(e.ticker, e.from) /\ Whole(e.ticker, e.to) =>
            /\ e.from.date < e.to.date /\ e.to.date <= e.from.date + Lookback
            /\ TruePremium(e.ticker, e.to.date) - TruePremium(e.ticker, e.from.date) >= Narrowing

(* An earnings panic compares the last session before the filing with one  *)
(* after it, no further on than the second: neither the day of the filing, *)
(* nor a row from the other end of the list when the filing is older than  *)
(* the rows.                                                               *)
PanicStraddlesFiling ==
    \A e \in Candidates :
        e.kind = "earnings_panic" =>
            /\ e.from < e.of.day /\ e.of.day < e.to
            /\ Cardinality({s \in 1 .. day : e.of.day <= s /\ s < e.to /\ s \notin holidays}) = 1

(* audit.md of the catalyst context says: every detector has the gate      *)
(* `ticker in ctx.universe`.                                               *)
CandidatesInUniverse == \A e \in Candidates : e.ticker \in InUniverse

(* scan_catalysts.py says: a ticker that did not pass quality is marked so *)
(* that Stage 4 can reject it.                                             *)
FailedIsMarked ==
    scan # None /\ quality # None =>
        \A c \in scan.candidates : c.event.ticker \notin quality => c.quality = "fail"
==============================================================================
