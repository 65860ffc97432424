--------------------------- MODULE ShadowPortfolio ---------------------------
(***************************************************************************)
(* The four-tier shadow portfolio: run_daily_update and the pure rules it  *)
(* rests on (domains/audit_integrity/application/run_daily_update.py,      *)
(* domain/rules.py, domain/state.py), with the inputs the trail loader     *)
(* gives it.  One action is one daily run of domains.audit_integrity.main  *)
(* that is not interrupted; ShadowAudit models the files and the crashes.  *)
(*                                                                         *)
(* Money is exact: a holding is its cost and its entry price, its value at *)
(* price p is cost * p / entry price.  Instances use prices that are       *)
(* powers of two and a capital that is a large one, so that no division    *)
(* leaves a remainder; the rounding to 4 and 8 decimals of to_dict is left *)
(* out.                                                                    *)
(***************************************************************************)
EXTENDS Integers, Sequences, FiniteSets, SequencesExt

CONSTANTS
    Tickers,
    Tiers,           \* the tiers the state file holds, a subset of TierKeys
    Tier0Tickers,    \* sequence: tier0_tickers of thresholds.yaml
    Capital,         \* initial_capital_krw
    TopK,            \* slots of tier_1 and tier_3
    MaxHoldDays,     \* max_hold_days
    Threshold,       \* <<num, den>>: rebalance_threshold_pct
    MaxDate,         \* bound: trading days are 0 .. MaxDate
    QuarterDays,     \* days of a quarter
    MaxRuns,         \* bound: daily runs, reruns of a date included
    NoPrice,         \* price_for returned None
    Trails           \* what a run may find on the trail and at the price sources

TierKeys == {"tier_0_passive_index", "tier_1_mechanical",
             "tier_2_llm_filtered", "tier_3_random"}
DayNumbers == 0 .. MaxDate

TiersAssumption == Tiers \subseteq TierKeys
BoundsAssumption ==
    /\ {Capital, TopK, QuarterDays} \subseteq Nat \ {0}
    /\ {MaxHoldDays, MaxDate, MaxRuns} \subseteq Nat
    /\ NoPrice = 0 /\ Threshold \in Nat \X Nat

(* What the loaders give: an index of distinct tickers, records of known   *)
(* tickers, a price or NoPrice for every ticker, sizes in quarters of the  *)
(* NAV.                                                                    *)
TrailsAssumption ==
    /\ IsFiniteSet(Tickers) /\ Tier0Tickers \in Seq(Tickers)
    /\ \A i, j \in DOMAIN Tier0Tickers : i # j => Tier0Tickers[i] # Tier0Tickers[j]
    /\ \A t \in Trails :
          /\ t.prices \in [Tickers -> Nat]
          /\ t.catalysts \in Seq([ticker : Tickers, primary : BOOLEAN])
          /\ t.recs \in Seq([ticker : Tickers, quarters : Nat])
          /\ t.triggered \subseteq Tickers
          /\ t.pool.universe \subseteq Tickers

VARIABLES
    tiers,    \* [Tiers -> tier record]
    snaps,    \* daily_snapshots: a function from some dates to [Tiers -> NAV]
    log,      \* the closed trades, in the order they were appended
    today,    \* date of the last run
    runs,     \* runs so far
    last      \* history: the inputs of the last run, << >> before the first

vars == <<tiers, snaps, log, today, runs, last>>

EmptyTier == [cash |-> Capital, holdings |-> << >>, closed |-> 0,
              nav |-> Capital, quarters |-> << >>]

Init ==
    /\ tiers = [k \in Tiers |-> EmptyTier]
    /\ snaps = << >>
    /\ log = << >>
    /\ today = 0
    /\ runs = 0
    /\ last = << >>

------------------------------------------------------------------------------
(* Pure rules (domain/rules.py).                                           *)

Quarter(d)     == d \div QuarterDays
Age(h, d)      == IF d > h.entry THEN d - h.entry ELSE 0
Tickrs(hs)     == {hs[i].ticker : i \in DOMAIN hs}
SumOf(hs, f(_)) == FoldLeft(LAMBDA s, h : s + f(h), 0, hs)

(* The elements of a sequence that are in S, in their order.               *)
Those(seq, S) ==
    LET chosen[n \in 0 .. Len(seq)] ==
            IF n = 0 THEN << >>
            ELSE IF seq[n] \in S THEN Append(chosen[n - 1], seq[n]) ELSE chosen[n - 1]
    IN  chosen[Len(seq)]
Primary(cats)  == Those(cats, {c \in ToSet(cats) : c.primary})

(* tier_1 candidates: the tickers of the primary catalysts, in output      *)
(* order, each once, the first k of them.                                  *)
SelectTopK(cats, k) ==
    FoldLeft(LAMBDA out, c : IF Len(out) >= k \/ Contains(out, c.ticker)
                             THEN out ELSE Append(out, c.ticker),
             << >>, Primary(cats))

(* tier_3 pool: universe \cap quality-pass, the whole universe when the    *)
(* quality file is missing.                                                *)
Pool(p) == IF p.quality = "missing" THEN p.universe ELSE p.universe \cap p.passed

(* The date-seeded sample is some k-subset of the pool, in sorted order.   *)
Samples(p) ==
    {SetToSeq(S) : S \in {T \in SUBSET Pool(p) :
        Cardinality(T) = IF Cardinality(Pool(p)) < TopK THEN Cardinality(Pool(p)) ELSE TopK}}

------------------------------------------------------------------------------
(* Shared paper-trade primitives.                                          *)

Priced(in, t) == in.prices[t] # NoPrice

(* _Ctx.value: a holding without a price today is valued at its cost.      *)
Value(in, h) == IF Priced(in, h.ticker) THEN (h.cost * in.prices[h.ticker]) \div h.price
                                        ELSE h.cost
Nav(in, tier) == tier.cash + SumOf(tier.holdings, LAMBDA h : Value(in, h))

(* Mutant: the exit is paid at cost.                                       *)
CloseAtCost(in, key, tier, exits, reason) ==
    LET out == Those(tier.holdings, exits)
    IN  [tier |-> [tier EXCEPT !.cash = @ + SumOf(out, LAMBDA h : h.cost),
                               !.holdings = Those(@, ToSet(@) \ exits),
                               !.closed = @ + Len(out)],
         rows |-> [i \in 1 .. Len(out) |-> [tier |-> key, seq |-> tier.closed + i,
                     ticker |-> out[i].ticker, entry |-> out[i].entry,
                     exit |-> in.date, reason |-> reason]]]

(* _open: at most the cash there is; nothing when that is nothing.         *)
Open(in, tier, t, alloc) ==
    LET paid == IF alloc <= tier.cash THEN alloc ELSE tier.cash
    IN  IF paid <= 0 THEN tier
        ELSE [tier EXCEPT !.cash = @ - paid,
                          !.holdings = Append(@, [ticker |-> t, cost |-> paid,
                                                  price |-> in.prices[t], entry |-> in.date])]

(* The exit loop of a tier with its _close calls: each holding that exits  *)
(* becomes cash at its value and one numbered row of the trade log.        *)
CloseWhere(in, key, tier, exits, reason) ==
    LET out == Those(tier.holdings, exits)
    IN  [tier |-> [tier EXCEPT !.cash = @ + SumOf(out, LAMBDA h : Value(in, h)),
                               !.holdings = Those(@, ToSet(@) \ exits),
                               !.closed = @ + Len(out)],
         rows |-> [i \in 1 .. Len(out) |-> [tier |-> key, seq |-> tier.closed + i,
                     ticker |-> out[i].ticker, entry |-> out[i].entry,
                     exit |-> in.date, reason |-> reason]]]

(* The entry loop of a tier: wants is the sequence of ticker and amount.   *)
(* A ticker held, tried before or without a price is passed over, and the  *)
(* loop stops when the slots are full.                                     *)
Enter(in, tier, wants, slots) ==
    LET try(acc, want) ==
            IF Len(acc.tier.holdings) >= slots \/ want.ticker \in acc.held \/ ~Priced(in, want.ticker)
            THEN acc
            ELSE [tier |-> Open(in, acc.tier, want.ticker, want.alloc),
                  held |-> acc.held \cup {want.ticker}]
    IN  FoldLeft(try, [tier |-> tier, held |-> Tickrs(tier.holdings)], wants).tier

------------------------------------------------------------------------------
(* Per-tier processors.  Each gives the tier and the rows it closed.       *)

Held(tier) == ToSet(tier.holdings)
Finalize(in, tier) == [tier EXCEPT !.nav = Nav(in, tier)]
Done(in, res) == [res EXCEPT !.tier = Finalize(in, @)]
Same(alloc, ts) == [i \in DOMAIN ts |-> [ticker |-> ts[i], alloc |-> alloc]]

(* weight drift of a held ticker above the threshold, without division:    *)
(* |value / nav - 1/2| > num / den.                                        *)
Drifted(in, tier) ==
    LET nav == Nav(in, tier)
        gap(h) == IF 2 * Value(in, h) > nav THEN 2 * Value(in, h) - nav ELSE nav - 2 * Value(in, h)
    IN  nav > 0 /\ \E h \in Held(tier) : Threshold[2] * gap(h) > 2 * Threshold[1] * nav

(* Mutated form: the drift test lost, so that every run rebalances.        *)
UpdateTier0Daily(in, tier) ==
    LET key    == "tier_0_passive_index"
        closed == CloseWhere(in, key, tier, Held(tier), "rebalance")
        half   == closed.tier.cash \div 2
    IN  IF \A t \in ToSet(Tier0Tickers) : Priced(in, t)
        THEN Done(in, [closed EXCEPT !.tier =
                  Enter(in, @, Same(half, Tier0Tickers), Len(Tier0Tickers))])
        ELSE Done(in, [tier |-> tier, rows |-> << >>])

(* tier_0: buy half and half; when a weight drifts, close all and buy      *)
(* again; when any ticker of the index has no price, do neither.           *)
UpdateTier0(in, tier) ==
    LET key    == "tier_0_passive_index"
        closed == CloseWhere(in, key, tier, Held(tier), "rebalance")
        half   == closed.tier.cash \div 2
    IN  IF \A t \in ToSet(Tier0Tickers) : Priced(in, t)
        THEN IF tier.holdings = << >> \/ Drifted(in, tier)
             THEN Done(in, [closed EXCEPT !.tier =
                        Enter(in, @, Same(half, Tier0Tickers), Len(Tier0Tickers))])
             ELSE Done(in, [tier |-> tier, rows |-> << >>])
        ELSE Done(in, [tier |-> tier, rows |-> << >>])

(* tier_1 and tier_3: close what the rule of the tier says, then fill the  *)
(* free slots, a K-th of the NAV each.                                     *)
UpdateSlots(in, key, tier, targets, exits, reason) ==
    LET closed == CloseWhere(in, key, tier, exits, reason)
        alloc  == Nav(in, closed.tier) \div TopK
    IN  Done(in, [closed EXCEPT !.tier = Enter(in, @, Same(alloc, targets), TopK)])

UpdateTier1(in, tier) ==
    LET active == Tickrs(Primary(in.catalysts))
        exits  == {h \in Held(tier) : h.ticker \notin active /\ Age(h, in.date) > MaxHoldDays}
    IN  UpdateSlots(in, "tier_1_mechanical", tier, SelectTopK(in.catalysts, TopK),
                    exits, "catalyst_inactive")

UpdateTier3(in, tier) ==
    UpdateSlots(in, "tier_3_random", tier, in.sample,
                {h \in Held(tier) : Age(h, in.date) > MaxHoldDays}, "30_day_holding_max")

(* tier_2: close on a triggered falsifier, then enter the recommendations; *)
(* sizes are quarters of the NAV.                                          *)
UpdateTier2(in, tier) ==
    LET exits  == {h \in Held(tier) : h.ticker \in in.triggered}
        closed == CloseWhere(in, "tier_2_llm_filtered", tier, exits, "falsifier_triggered")
        nav    == Nav(in, closed.tier)
        wants  == [i \in DOMAIN in.recs |->
                      [ticker |-> in.recs[i].ticker, alloc |-> (nav * in.recs[i].quarters) \div 4]]
    IN  Done(in, [closed EXCEPT !.tier =
                     Enter(in, @, wants, Len(@.holdings) + Len(wants))])

Update(in, k, tier) ==
    CASE k = "tier_0_passive_index" -> UpdateTier0(in, tier)
      [] k = "tier_1_mechanical"    -> UpdateTier1(in, tier)
      [] k = "tier_2_llm_filtered"  -> UpdateTier2(in, tier)
      [] k = "tier_3_random"        -> UpdateTier3(in, tier)

------------------------------------------------------------------------------
(* _record_snapshot_and_quarter.                                           *)

MaxOf(S) == CHOOSE x \in S : \A y \in S : y <= x
MinOf(S) == CHOOSE x \in S : \A y \in S : x <= y

Snapshots(sn, ts, date) ==
    [d \in DOMAIN sn \cup {date} |-> IF d = date THEN [k \in Tiers |-> ts[k].nav] ELSE sn[d]]

(* Mutated form: the test for a quarter already recorded dropped.          *)
RolloverAgain(sn, ts, date) ==
    LET prev == {d \in DOMAIN sn : d < date}
        all  == Snapshots(sn, ts, date)
        q    == Quarter(MaxOf(prev))
        ds   == {d \in DOMAIN all : Quarter(d) = q}
        entry(k) == [quarter |-> q, from |-> all[MinOf(ds)][k], to |-> all[MaxOf(ds)][k]]
    IN  IF prev = {} THEN ts
        ELSE IF q = Quarter(date) THEN ts
        ELSE [k \in Tiers |-> [ts[k] EXCEPT !.quarters = Append(@, entry(k))]]

(* When the run before this date was in another quarter, that quarter is   *)
(* closed: first and last snapshot, once per tier.                         *)
Rollover(sn, ts, date) ==
    LET prev == {d \in DOMAIN sn : d < date}
        all  == Snapshots(sn, ts, date)
        q    == Quarter(MaxOf(prev))
        ds   == {d \in DOMAIN all : Quarter(d) = q}
        entry(k) == [quarter |-> q, from |-> all[MinOf(ds)][k], to |-> all[MaxOf(ds)][k]]
        skip(k)  == \/ \E i \in DOMAIN ts[k].quarters : ts[k].quarters[i].quarter = q
                    \/ all[MinOf(ds)][k] = 0
    IN  IF prev = {} THEN ts
        ELSE IF q = Quarter(date) THEN ts
        ELSE [k \in Tiers |-> IF skip(k) THEN ts[k]
                              ELSE [ts[k] EXCEPT !.quarters = Append(@, entry(k))]]

(* run_daily_update: the tiers in TierKeys order, then snapshot and        *)
(* quarter.  A tier the file does not hold is passed over.                 *)
RunDailyUpdate(ts, sn, in) ==
    LET res == [k \in Tiers |-> Update(in, k, ts[k])]
        new == [k \in Tiers |-> res[k].tier]
        rowsOf(k) == IF k \in Tiers THEN res[k].rows ELSE << >>
    IN  [tiers |-> Rollover(sn, new, in.date),
         snaps |-> Snapshots(sn, new, in.date),
         rows  |-> rowsOf("tier_0_passive_index") \o rowsOf("tier_1_mechanical")
                   \o rowsOf("tier_2_llm_filtered") \o rowsOf("tier_3_random")]

------------------------------------------------------------------------------
(* domains.audit_integrity.main, state file present.                       *)

(* Some ticker the engine asks for has a price, hence a citation: the      *)
(* index, every holding, and the candidates while a slot is free.          *)
Cited(in) ==
    LET index == IF "tier_0_passive_index" \in Tiers THEN ToSet(Tier0Tickers) ELSE {}
        held  == UNION {Tickrs(tiers[k].holdings) : k \in Tiers}
        kept(k) == IF k = "tier_1_mechanical"
                   THEN {h \in Held(tiers[k]) : \/ h.ticker \in Tickrs(Primary(in.catalysts))
                                               \/ Age(h, in.date) <= MaxHoldDays}
                   ELSE {h \in Held(tiers[k]) : Age(h, in.date) <= MaxHoldDays}
        free(k) == k \in Tiers /\ Cardinality(kept(k)) < TopK
        wanted  == (IF free("tier_1_mechanical") THEN ToSet(SelectTopK(in.catalysts, TopK)) ELSE {})
                   \cup (IF "tier_2_llm_filtered" \in Tiers THEN Tickrs(in.recs) ELSE {})
                   \cup (IF free("tier_3_random") THEN ToSet(in.sample) ELSE {})
    IN  \E t \in index \cup held \cup wanted : Priced(in, t)

Inputs(d) ==
    UNION {[date : {d}, prices : {t.prices}, catalysts : {t.catalysts}, recs : {t.recs},
            triggered : {t.triggered}, sample : Samples(t.pool)] : t \in Trails}

(* A run that saves: state.json replaced, the closed trades appended.      *)
Run(in) ==
    /\ runs < MaxRuns
    /\ Cited(in)
    /\ LET r == RunDailyUpdate(tiers, snaps, in)
       IN  /\ tiers' = r.tiers
           /\ snaps' = r.snaps
           /\ log' = log \o r.rows
    /\ today' = in.date
    /\ runs' = runs + 1
    /\ last' = in

(* Mode C, no price source at all: nothing is saved.                       *)
ModeC(in) ==
    /\ runs < MaxRuns
    /\ ~Cited(in)
    /\ runs' = runs + 1
    /\ UNCHANGED <<tiers, snaps, log, today, last>>

(* Dates do not go back: launchd runs today, a rerun repeats a date.       *)
Next == \E d \in today .. MaxDate : \E in \in Inputs(d) : Run(in) \/ ModeC(in)

Spec == Init /\ [][Next]_vars

------------------------------------------------------------------------------
TypeOK ==
    /\ \A k \in Tiers :
          /\ {tiers[k].cash, tiers[k].nav} \subseteq Int
          /\ tiers[k].closed \in Nat
          /\ \A i \in DOMAIN tiers[k].holdings :
                tiers[k].holdings[i] \in [ticker : Tickers, cost : Nat \ {0}, price : Nat \ {0}, entry : DayNumbers]
    /\ DOMAIN snaps \subseteq DayNumbers
    /\ \A d \in DOMAIN snaps : DOMAIN snaps[d] = Tiers
    /\ today \in DayNumbers /\ runs \in 0 .. MaxRuns

(* Trading creates and destroys no money: the NAV of each tier at the      *)
(* prices of the run is the same before its exits and entries and after.   *)
NavConserved ==
    [][last' # last =>
        \A k \in Tiers : Nav(last', tiers'[k]) = Nav(last', tiers[k])]_vars

(* quarterly_history: each tier has, in order and once, every quarter that *)
(* had a run and is over as of the last run, with the first and the last   *)
(* NAV the snapshots hold for it; only a quarter that the tier began with  *)
(* nothing is left out.  So the i-th last entries of two tiers that keep a *)
(* value, which evaluate_self_disable_trigger compares, are of one quarter.*)
QuarterHistory ==
    LET of(q)   == {d \in DOMAIN snaps : Quarter(d) = q}
        seen    == {Quarter(d) : d \in DOMAIN snaps}
        over(k) == {q \in seen : q < Quarter(today) /\ snaps[MinOf(of(q))][k] # 0}
    IN  \A k \in Tiers :
            LET h == tiers[k].quarters
            IN  /\ Len(h) = Cardinality(over(k))
                /\ \A i \in DOMAIN h :
                      /\ h[i].quarter \in over(k)
                      /\ \A j \in DOMAIN h : i < j => h[i].quarter < h[j].quarter
                      /\ h[i].from = snaps[MinOf(of(h[i].quarter))][k]
                      /\ h[i].to = snaps[MaxOf(of(h[i].quarter))][k]

(* Rerunning the last run on what it left changes nothing and closes no    *)
(* trade, unless a ticker is both recommended and falsified that day (it   *)
(* is then closed and bought back by every rerun).                         *)
RerunIsIdempotent ==
    last # << >> /\ Tickrs(last.recs) \cap last.triggered = {} =>
        LET r == RunDailyUpdate(tiers, snaps, last)
        IN  r.tiers = tiers /\ r.snaps = snaps /\ r.rows = << >>
==============================================================================
