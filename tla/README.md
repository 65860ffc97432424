# Kimchi discount pipeline: formal models and proofs

The repository is a daily investment pipeline. A shell driver runs stages 0 to 5, each a
Python process; the stages talk only through files of one date; a person and a language
model (Stage 4) stand between stages 3 and 5. Nothing trades. What can go wrong is
therefore in the files: who writes which name and who reads which, what a killed or
repeated run leaves behind, what a failed request turns into further down, and whether the
rules that span days (the drawdown brake, the thesis horizon, the NAV history, the shadow
portfolios, the caches) survive skipped, repeated and failed runs. Those are what this
project models.

All definitions are translated from `src/`. `PROJECT.json` gives the lines for each one
("map"), and the hazards of the code at their lines with the properties that guard them.

## 1. Inventory

| Component | State it keeps | Operations | Hard behaviour | What makes it correct |
|---|---|---|---|---|
| Artifact store (`_common/utils.py`: `write_output_safely`, `write_yaml_safely`) | files `name`, `name.1`, ... | probe for a free suffix, open, dump | the probe and the open are apart; a writer dies in between; torn files | finished artifacts never change; a returned name holds what was written; suffixes have no hole |
| Telemetry registry and GC (`telemetry_registry.py`, `telemetry_gc.py`) | everything under `telemetry/` | classify, plan, unlink, rename | killed between two files; stages that write beside it; it judges names, not contents | evidence survives; the newest copy wins; one pass settles |
| Run lock (`run_daily_local.sh`) | the lock file with a PID | test, cat, kill -0, write, trap | kills without the trap, empty files, PIDs given again | one run at a time; a dead run does not block the next |
| Orchestration (`run_daily_local.sh`, `daily_pipeline.sh`) | phases, gates, logs, constituents cache | the order of stages | partial failure, `--phase`, reruns, gate exit codes | the files of a date agree with each other; a failed stage stops no other; no stage runs on what its gate refused |
| KRX holidays (`refresh_holidays.py`, `is_trading_day`) | `_holidays_krx.json` | the yearly gate, a fetch per year, merge, rename | empty answers, deaths, a gate that believes its own future rows | a day known to be closed stays closed |
| Macro regime, Stage 0 (`macro`) | `00-macro-regime.json` a day, `breadth.yaml` | four votes, the worst wins; a streak over the reports found up to `require` + 4 days back | missing series; torn, missing and repeated reports; directories that answer for several dates | a streak does not bridge a report that said otherwise |
| Disclosure scan (`dart/client.py`) | none beyond one scan | windows, pages, retries | the list grows between two pages; partial answers; three ways to treat a failure | what stood when the scan began is seen, or the scan says that it failed |
| Universe, Stage 1 (`universe`) | `01-universe.json` | sources, exclusions, enrichment | a source that fails; reruns; dates without a session | only listed, not excluded companies |
| NAV history (`_shared/nav_history.py`) | one line per parent and date | append once a date, load a window | reruns, backfills, missing quotes | a narrowing that is reported happened |
| Catalyst scan, Stage 3 (`catalyst`) | `03-catalyst-events.json` | six detectors, quality marks | stale universe, missing Stage 2, price windows over holidays | events follow from filings and prices of their days |
| Segments and vector store (`segment_registry`, `vectorstore`) | tables `vectors`, `scalars` | index build, selectors, resolver, merge | builds that die between two rows; changed texts and models; missing attributes | a whole build leaves nothing stale; unknown is never taken for no; no listing order decides |
| Company figures (`dart_adapter.py`, `financial_cache.py`, corp index) | index of codes, `KR_<code>.json` | index by age, report of a year, signals, cache by rename | filings on any day; failed requests; deaths | a figure stands under the year it was reported for |
| Policy and profile registry | `profiles/<T>/v<N>.yaml` | analyze, commit, load_latest | two commits of one version, torn latest version, readers beside writers | a later decision has a higher version; whole versions never change |
| Screener, Stage 2 (`screener`) | per run a memo of policies, verdicts | rule trees, completeness gate, report | a policy that changes or tears under a run; missing figures; a faulty tree | a verdict follows from one whole policy; a missing figure does not help to pass |
| KIS client (`kis/client.py`) and positions sync (`positions_sync.py`) | token cache and its `.tmp`; `summary-D` | token from the cache or a request, calls under a policy, summary | racing stages on one `.tmp`; expiry in flight; each call may fail | no request with a dead token; "ok" means that every call was answered |
| Portfolio state (`portfolio_state.py`) | `derived-D` | scan of the window -> peak, drawdown | skipped or zero readings; reruns; stale names | reruns of a date agree; the brake needs evidence and is lost only with it |
| Sizing, Stage 5 (`sizing.py`) | none (one report) | inputs, Kelly size, caps, brake, cash band | order of cap, floor, brake and rounding; half-readable inputs | caps hold; better asymmetry is never sized less; the brake drops nobody |
| Thesis sync and monitors, 5a to 5d; positions store | `positions/<T>/thesis.json` | project and commit; three read-only monitors | guard and commit apart; user edits; torn files; two clocks for one horizon | user files survive; every accepted candidate is watched; alarms only rise |
| Shadow portfolio engine (`audit_integrity`: `run_daily_update`, rules) | per tier: cash, holdings, trade counter, snapshots, quarters | one update a day for four tiers | reruns of a date, skipped days and quarters, missing prices, duplicates | money is conserved; each finished quarter once; a rerun changes nothing |
| Shadow audit persistence (`state_store`, `trade_log`, `init_shadow_state`) | `state.json`, its `.tmp`, one CSV a tier | load, save by rename, append | crash between the state and the CSVs; two processes with one `.tmp` | the state never tears nor loses history; a trade id is used once |
| Notify, scheduling, LLM, external signals, configuration | logs, snapshots | fan-out, drift audit, validators | one channel failing | not modelled: see section 5 |

`PROJECT.json` "components" lists every part, with its files and its status.

Interactions:

- `run_daily_local.sh` takes the lock and runs the chain `daily_pipeline.sh`; each stage
  reads the earlier stages' files of the date *by their name without a suffix* and
  writes its own through the artifact store, which adds a suffix when the name exists.
  A rerun of a date is therefore mostly invisible to the later readers.
  `DailyRun` is this chain; its stages are opaque there, and the other modules open them.
- universe -> NAV history -> catalyst, over days: `Discovery`. What it gets from DART's list
  is any part of the filings there, because `Disclosures` opens the scan itself.
- policy commits, at any time, add versions to `profiles/<T>`, which the screener reads in
  the middle of its run, once per ticker: `Screening`; the figures it judges: `Financials`;
  the policies that segments add to it: `Segments`.
- a KIS session leaves a summary (`KisSession`); positions sync -> portfolio state -> sizing
  over days is `DrawdownBrake`.
- Stage 4 -> 5a -> 5b, 5c, 5d, in this order (`daily_pipeline.sh:256`), over the thesis
  files, which the user edits too: `ThesisStore`.
- the audit reads the trail of the date and its own state: `ShadowPortfolio` is what one
  run computes, `ShadowAudit` what the processes do to its files.
- the GC is started by hand and takes no lock: `Retention` has writes beside it.

## 2. Modules

| Module | Models | Depends on |
|---|---|---|
| `VersionedLog` | abstract: per path a log that only grows, an entry being a payload or lost | |
| `ArtifactStore`, `ArtifactStore_proofs` | the two safe writers, one action per step | refines `VersionedLog` |
| `Retention` | the registry, the classifier and planner, the executor file by file | |
| `MCFiles` | the two above as one checked system | `ArtifactStore`, `Retention` |
| `RunLock`, `RunLock_proofs` | the PID lock, one action per command | |
| `Calendar` | holiday refresh and trading days | |
| `Regime` | Stage 0 votes, report, streak and alert | |
| `MCLaunch` | the three above | `RunLock`, `Calendar`, `Regime` |
| `ShadowPortfolio` | one update of the day as one action | |
| `ShadowAudit`, `ShadowAudit_proofs` | the files and the processes around that update | abstracts the update to "adds a snapshot, closes n trades" |
| `MCShadow` | the two above, with the days and prices | `ShadowAudit`, `ShadowPortfolio` |
| `Rounding` | Python's `round` on scaled integers (half to even) | |
| `NatSets` | induction over a set of numbers, and what it gives: partial sums, folds, extremes of a bounded set, division, `RoundDiv` (bounds, order, scaling) | `Rounding` |
| `SizingRules`, `Sizing`, `Sizing_proofs` | `size_one` and the sum cap as operators; Stage 5 `main` over them; its theorems | `Rounding`, `NatSets` |
| `ThesisStore`, `ThesisCases`, `MCThesisStore` | 5a to 5d over days, user edits and deaths | |
| `MCRisk` | sizing and theses | `Sizing`, `ThesisStore` |
| `DrawdownBrake` | sync, derive and the brake decision across days | `Rounding` |
| `KisSession` | policy, token, calls and the summary, call by call | |
| `MCAccount`, `Account_proofs` | the two above, and their theorems | `DrawdownBrake`, `KisSession`, `NatSets` |
| `DailyRun` | the chain of a day: launches, phases, who reads which version, the constituents cache, the gate, notify | abstracts each stage to "reads its inputs, writes one version" and `ArtifactStore` to "appends a version" |
| `ScreenRules` | rule trees: what commits and the factory accept, what a tree makes of a snapshot with missing figures | |
| `Screening`, `MCScreening`, `Screening_proofs` | racing commits of policies beside a batch of Stage 2 | `ScreenRules`; abstracts `ArtifactStore` to "opens the name, or a suffix that no reader lists" |
| `Disclosures` | a scan of DART's list, page by page, for each kind of consumer | |
| `Discovery` | days of Stage 1, the NAV history and Stage 3 | `Rounding`; abstracts a scan to "any part of the filings" |
| `Segments` | index builds, selectors, resolver and merge | |
| `Financials` | index of codes, annual figures, signals, the cache file | |
| `Research`, `MCResearch` | the four above as one checked system | `Disclosures`, `Discovery`, `Segments`, `Financials` |
| `Pipeline_proofs` | the theorems of the chain and of the research side | `DailyRun`, `Research`, `NatSets` |

A composed module (`MCFiles`, `MCLaunch`, `MCShadow`, `MCRisk`, `MCAccount`, `Research`) puts
components side by side that share no variable, or of which one sees the other only
through data that its own module already takes in every form. There a variable `focus`
picks, at the start, the component that moves; the others stand still. Nothing is lost by
it: a property of a component speaks of that component's variables only, and each of its
behaviours is a behaviour of the composition with that focus. What is saved is the product
of state spaces. Where components do act on each other's state (stages and their files, commits
beside a batch, two stages on one token file, writes beside a GC, the user beside 5a), they are
in one module and interleave freely.

How the state corresponds to the code:

- **ArtifactStore.** `disk` maps (path, suffix) to a payload, `Torn` or `Absent`; `acked`
  lists the calls that returned. `Call`, `ProbeTaken`, `ProbeFree`, `Open`, `Dump` are the call,
  the `exists()` tests, `open('w')` and the dump with the return; `Abort` is a death, or an
  exception of the serializer, at any of these steps. Payloads are numbered in
  the order of the calls, which is what "suffix follows time" needs.
- **Retention.** A file is a canonical name (kind, scope, date) with a collision number; its content is
  the number of the write that made it. `Registry` is the table of the code, with its classes and whether the glob
  is a plain name. `BeginWrite` and `EndWrite` are the artifact store in two steps; `Scan` plans,
  `Delete` and `Rename` are one file each, `Die` may come between any two.
- **RunLock.** `lock` is the file (`NoFile`, `Empty`, or the PID of a launch); a launch
  walks through `test`, `cat`, `kill0`, `truncate`, `echo`, `run`. `Kill` (no trap), `Reuse` and
  `Release` (another process gets the PID of a dead launch, and ends) are the environment.
- **Calendar.** `cache` is the file, `official` what the exchange has announced; a refresh asks
  year by year, may be answered nothing, raise or die; the write is open, rename.
- **Regime.** `report[d]` is `00-macro-regime.json` under its canonical name (a regime, torn or none) in the directory of date `d`: a rerun
  goes to a suffix that the scan does not read. `Place` is `trail_dir`: a run of the chain (`exported`: `TRAIL_TODAY` is set) opens its own
  directory at each step back, a run by hand that of the last trading day up to the step's date. The market of a day is picked from a set of series with missing values; a set
  of signals may be down.
- **ShadowPortfolio.** A run takes a date and that date's inputs and applies, in the order
  of the code, exits, entries, snapshot and rollover to each tier. Money is in won; prices
  are powers of two so that divisions are exact (rounding to 4 and 6 digits is left out).
- **ShadowAudit.** `state`, `tmp`, `csv` are the files; each process has a program counter,
  its state object `mem`, the rows it has still to append and what its descriptor points at:
  a rename under an open descriptor moves the file, not the descriptor.
- **SizingRules / Sizing.** A fraction of the portfolio is a number of units
  (10^-6 in the code, 10^-4 in the run), so that `round()` is `RoundDiv`; a ratio is a number of
  hundredths. `Inputs` collects what `main` may find: readable or not, capital given or not, the override, the
  derived state, the cash band.
- **DrawdownBrake.** `summaries[d]` and `derived[d]` are the artifacts of date d in the order
  they were written; readers see the first only, because they open the name without suffix.
- **KisSession.** `cache` and `tmp` are the token file and its temporary name, `pc` where each stage is
  (`idle`, `post`, `receive`, `dump`, `replace`, `call`, `write`), `handle` what its descriptor points at. A token is the time at which the server issued it, with
  the stamp that the client wrote; `summary` collects what each call answered ("full", "blank", "fail"). Time is in half hours.
- **ThesisStore.** `thesis[t]` is the file (missing, torn or a record); the run walks
  through `pc`; a commit is open, dump, close, with the user's writes and deaths in between.
- **DailyRun.** `trail[d][a]` are the versions of the artifact of stage `a` of date d: version 1
  has the canonical name, version n the suffix n-1. A version remembers the launch that wrote it, whether it
  is whole, and for each input the launch whose version it read (`saw`). `launch` is the launch under way
  with the outcomes of its steps (`did`); a step is `At` when those before it came to an outcome. `spx` is the
  constituents cache with its suffixed versions, `breadth` the launch that wrote `breadth.yaml`, `sent` the
  briefs that notify sent. The inputs of Stages 4 and 6 come from their skills and are external.
- **ScreenRules / Screening.** A rule tree is a record with the keys of its YAML node; `Missing` is a figure that
  is `None`. A snapshot has the figures of each year, newest first, a set of signals and an enrichment figure (`z_score`, for all three of them); `Metric` is the resolver
  with what `domain/ticker.py` makes of missing figures: debt and, in the invested capital, equity count as 0, a year without its cash flow as one without a surplus,
  anything else leaves the metric missing. Quotients are rounded down. `Outcome` is what a node makes of the results of its
  subtrees, `Result` and `Nodes` are functions over the finite set `Trees` of rules and their parts. `profiles[t][n]` is `v<n>.yaml`: a
  policy, or `Torn` from the `open` to the end of the dump, and for ever when the writer dies. `com[c]` is the commit a
  committer is at: `BeginCommit` (validator, `load_latest`, the version), `OpenVersion`, `WriteVersion`. The batch is
  `main` and `run_screen`, one action for each thing it reads: `StartBatch`, `TakeTicker` (cache, `RefetchIntoCache`, enrichment),
  `Gate` (`profile_for`), `ApplyRule` (`rule_for`, evaluation), `Report`; `memo` is `_load_cache`. `Crash` is an exception that
  nobody catches, `KillBatch` a death. `acked` and `since` are history variables of the properties.
- **Disclosures.** `filed` are the filings in their order; `Listed` is the server's list of a window, newest first, so that
  `File` shifts every later page: a filing's place is how many of the list are newer (`Above`). `events` counts the events that the consumer
  made of each filing: the readers of one company keep repeats, the others drop them; the order of the events is left out, since no
  reader uses it. `Receive`, `AskAgain`, `DegradeNow`, `GiveUp` are one request and the three ways its failure ends.
- **Discovery.** `market[d]` are the capitalisations of a day, `nav[p]` the lines of a parent's history,
  `universe`, `quality`, `scan` the artifacts of the day. A build collects (`StartBuild`), enriches one parent at a time, and
  writes; a line of the history is written by `Enrich`, so a death leaves the history ahead of the universe.
- **Segments.** A vector is the model that made it and the texts it is the mean of; `queue` are the rows that the build
  under way has still to write, each committed alone. A threshold leaf compares (`Compare`) or is unknown, a top-k leaf asks who is listed. Selectors are trees in three-valued logic: `Selectors` is a finite set with
  every selector and all that it is made of (`Parts`), over which evaluation is a recursive function; `Ancestors` follows the parents
  of a segment for as many steps as there are segments, after which only a cycle has not ended.
- **Financials.** `reports` and `signals` are what DART has on a day: for a year its reports, each correcting those before it, of which DART answers with
  the last; `index`, `file`, `tmp` are the files; the batch walks through
  `at`. An amount stands for the year and the row of the report it came from.

## 3. Runs

| Run | Question | Bounds, and why they are enough |
|---|---|---|
| `files` | Do racing suffixes, aborts and deaths ever change or misname an artifact, with one writer at a time? Does a clean-up lose evidence, leave work, or keep the wrong copy? | 2 writers, 2 paths, 4 calls: three versions of a path with a torn one in the middle, and another path. 6 kinds, one for each way the classifier can decide (scoped snapshot, permanent, ephemeral, producer gone, no glob, a plain name without a glob), 2 dates, 3 writes: a name, its copy, and one that comes while a GC runs; a ticker of a wrong name; any number of GCs and deaths |
| `launch` | Can two spaced launches run together? Does a stale lock block? Does a closed day open again? Does a streak bridge another report? | 3 launches: a killed one, a live one and a newcomer; reuse of a PID. 3 years of 7 days, 3 refreshes: one that dies, one that is answered nothing, one after it. 4 dates, the third closed, `require` 2: a streak, a break, a rerun, two steps onto one directory, chain and hand mixed; 4 markets (calm, inverted, in panic, unmeasured), 4 outages |
| `shadow` | Are money, trade counts and quarters right over any sequence of dates? What do the files hold after any deaths? | 3 runs on 5 days, quarters of 2 days: a rerun, a skipped day and a skipped quarter; 3 tickers against 2 slots; the oldest age is 1 day. 2 inits, 3 runs: one that dies, one that recovers, one after it; 2 tiers, so that one CSV is written and the other is not |
| `risk` | Are order, caps and brake right for every mix of inputs? Do theses survive, and are they watched and aged right? | ratios on both sides of each threshold, up to 4 candidates so that the sum cap scales; the varied inputs with up to 2. 2 tickers, 2 runs, days around one horizon of 30.4375 days, 1 edit, 1 death |
| `account` | Do reruns of a date agree, does the brake rest on evidence, does it go only by age? Is every token that is sent live, and a summary that says ok whole? | 4 days, window 2 (so that a peak leaves it), 4 runs, 2 faults; assets 80, 84, 100 lie on either side of 15%. 2 stages, one of them the sync, 3 sessions: two that race and one that uses what they left; a token's life of 4 units against a client's 2; 1 retry; all 27 mixes of the policy's three layers, two lists of calls |
| `research` | Is a standing filing ever missed? Is a narrowing or a panic that is reported true? Is the index current after a whole build, membership sound, the merge independent of the listing? Do figures stand under their year? | up to 3 standing filings and one that arrives, a page size of 1, windows of 3 days, 1 retry: a shift between two pages, a second window, a halved look back. 4 days with a holiday, 2 builds, a parent with two subsidiaries. 2 tickers, 2 models, 2 texts, 2 builds and 1 change: one build that dies, one that recovers. 7 days of years of 3, a report a year and one that corrects it, 1 signal (no property relates two), every form of account rows: a missed deadline, a cached file that outlives its year or is corrected |
| `daily` | Do the files of a date tell one story over partial launches, reruns and failures? | 2 dates, 3 launches: a complete one, one that is cut or of one phase only (`--phase pre`, `post-stage4`, the Stage 4 skill by hand), one after it; 1 fault; a cache that is a day old or absent |
| `screening` | Does a verdict follow from one whole policy, and a pass survive the figures that were missing? | 1 ticker (tickers share nothing but an exception that ends the batch), 2 committers and 3 commits (two that overlap and one after them), 1 batch from any cache; every node type, all the metrics, a node that is refused and two that raise when they are evaluated (one without `pass_score` ends a batch as these do, and is left to the proofs); figures of two years on both sides of the guards, each kind of them missing once |
| `brake_skipped` | Is the brake kept when the news is missing? (it is not) | 3 days, 1 fault |
| `thesis_linker` | Does a missing Stage 3 give "unspecified"? (it does not) | no edit, no death |
| `daily_gate` | Does the gate keep refused signals from Stage 4? (it does not) | 1 launch |
| `retention_state` | Does the GC leave a STATE file alone? (it does not) | 2 kinds of STATE file, 2 writes, any GC |

What each property says stands before its definition. The ones to read first:

- `NeverOverwritten`, `RefinesLog` (ArtifactStore): the store is an append-only log.
- `EvidenceSurvives`, `NewestCopyKept` (Retention): over GCs that are killed anywhere.
- `HistoryAccumulates`, `UniqueTradeIds` (ShadowAudit): the state and the CSVs tell one story.
- `NavConserved`, `QuarterHistory`, `RerunIsIdempotent` (ShadowPortfolio).
- `OrderFollowsAsymmetry`, `WithinCaps` (Sizing).
- `SameDayAgrees`, `NoFalseBrake`, `PeakFallsOnlyByAge` (DrawdownBrake).
- `SentTokenIsLive`, `SummaryIsHonest` (KisSession).
- `OneStory`, `CleanDayIsComplete`, `FailureDoesNotSpread` (DailyRun).
- `VerdictFromOnePolicy`, `PassSurvivesKnowledge`, `LaterCommitIsNewer` (Screening, ScreenRules).
- `AcceptedIsWatched`, `PastHorizonAsks`, `AlarmsNeverEase` (ThesisStore).
- `StandingFilingSeen` (Disclosures), `NarrowingIsTrue` (Discovery), `MembershipIsSound` (Segments).

The type invariants of the modules with a proof module are proved instead of run, and so are
`RunHoldsLock`, `NoHole`, `AckedDurable`, `LogNeverAhead`, `StaysReadable`, `SizesAreRecommended` and
`ComputesAlways`, which the arguments of section 4 go through. The
type invariants of `ShadowPortfolio` and `Retention` are there for the reader: the proofs carry the types they need in
their own invariants, and no run checks them beside the deeper properties. Where a definition of a module is called a mutant in its comment,
it is a plausible mistake in that code, and one of the properties fails on it.

Deadlock is not checked in these runs: every bounded model ends when its calls, runs
or days are used up, and so does every process it models.

**Assumptions that the runs name.**

- `Serialized` (ArtifactStore, ShadowAudit): one process at a time. For the daily run this
  is what the run lock gives; the code itself takes no lock around these files. Without it
  TLC finds `NeverOverwritten` violated in 8 states (two writers pick one name; the second
  `open` truncates the first one's finished file) and `HistoryAccumulates` violated (two
  processes load the same state, the later rename wins). A run started by hand beside the
  daily one is in that case.
- `Spaced` (RunLock): no launch starts while another is between its test and its write
  of the lock. Without it TLC finds `MutualExclusion` violated in 9 states. launchd starts one
  job a day; a start by hand within those milliseconds is the exception.
- `TTL + 2 <= Life` (KisSession): the client forgets a token one hour before the server does
  (`TOKEN_TTL_SECONDS`), a slow token answer takes at most half an hour and so does a session: a dozen calls with a
  timeout of 10 seconds. `Tick` is the clock, and it does not pass while a session is older than a unit.
- One GC at a time (Retention): it is started by hand. Two at once may lose permanent evidence: both
  plan, the first renames the winner to the canonical name, the second deletes that name by its older plan.
- Fairness is assumed in `RunLock` only, and only of a launch inside the lock section
  (`MCFairness`: weak fairness of its steps: a shell that is running goes on, unless it is killed). It is used for
  `StaleLockTaken`. Nothing is assumed of how long a run lasts or that it ends. The
  property excepts a PID that was given to another process, which the code cannot tell
  from a live run. Of the other components the code promises no progress: every stage may be killed, time out or fail, and nothing
  retries it before the next launch.

**Findings** (the four runs that end in a violation, each against what a text of the
repository says):

1. `brake_skipped`: a skipped sync still writes a summary without a total, which becomes
   the current one; the drawdown is unknown and sizing falls back to 0, so the brake is
   released for the day (`portfolio_state.py:122`; `context-risk/SKILL.md:32`).
2. `thesis_linker`: without the Stage 3 file every absence falsifier is "triggered", while
   the warning of the same report says "unspecified" (`event_falsifier_linker.py:161`, `:82`).
3. `daily_gate`: the gate pipes the validator into `tee` without `pipefail`, so the branch
   that would `exit` is never taken and refused signals reach Stage 4
   (`daily_pipeline.sh:206`, against `:200` and `:210`); `run_daily_local.sh:119` would go on anyway.
4. `retention_state`: the GC judges all files of a name by the first in the sorted walk;
   `thesis.1.json` is no registered name, and takes the living `thesis.json` with it
   (`telemetry_gc.py:203`, against `telemetry_registry.py:43`).

Seven more are stated as properties of a composed module, and fail under TLC in the way that `PROJECT.json`
tells beside each:

5. `CandidatesInUniverse`: the narrowing detector asks the history files and not the universe, so an
   excluded parent stays a candidate (`nav_discount_narrowing.py:64`, against `catalyst/main.py:14`).
6. `FailedIsMarked`: if nobody passed Stage 2, its empty answer is taken for a missing file
   (`scan_catalysts.py:88`, against `:86`).
7. `CacheWithinValidity`: a cached figure of any age is used; `is_fresh` and `is_within_grace` have no caller
   (`financial_cache.py:82`, against `default/v1.yaml:15`).
8. `LastingShiftAlerts`: the alert of a regime shift is never raised for `require_consecutive_days` of 2 or more
   (`regime_classify.py:122`, against `regimes.yaml:64`).
9. `StreakCountsDays`: the streak of a regime does not count days: in the chain every step back opens today's directory, so a first
   run says 1 and a rerun counts its own report at each step; by hand a weekend counts Friday's report again
   (`macro/main.py:93`, against `classify.md:16`).
10. `NewYearIsFetched`: a refresh asks for three years, and rows of a later year keep the gate shut
   in the new one (`refresh_holidays.py:285`, against `:278`).
11. `MissingEmbeddingIsUnknown`: a top-k leaf is false, not unknown, of a ticker without a vector, so `not(top_k)` takes in
   a ticker whose embedding failed (`selector.py:181`, against `:16`).

**Gaps of the code that no run turns into a verdict**, because no text promises otherwise.

Risk and account: the brake halves before the sum cap, so a braked day may size more than half of an unbraked
one; `reset_threshold_pct` (`thresholds.yaml:109`) is read by no code; a torn `thesis.json`
is never derived again, and a `state.json` torn at init is never repaired by any command;
an upside ceiling of 0% makes Stage 5 stop with a division by zero; `metric_trigger`
falsifiers are unmeasurable on every day, since no caller gives a price snapshot; the linker
reads the trail of today for another `--date`; tier_0 raises on a held ticker that left `tier0_tickers`.
Of the account only the first page of holdings is read; a token that the server drops early (a 401) stays in the cache
until its time is up; of two stages that rename the one `.tmp`, the second raises an error that nobody catches.

Screener and policies: two overlapping commits of a ticker take the same
version, and the second goes to `v2.1.yaml`, which no reader lists, though it reports success; a torn latest version
makes every later commit of the ticker raise, so no command repairs it; a torn version that is no YAML at all, a `weighted_sum` without
`pass_score` (the strict validator does not ask for one) and one whose weights have no positive sum end the whole batch, although `main.py:251`
means to isolate bad profiles per ticker; missing total debt counts as a ratio of 0 and negative equity gives a negative
one, and both pass the ceiling of `leverage_ceiling`; `not` over missing data passes, and so may a `weighted_sum` in which the missing figure has
a negative weight, or a score that `step` makes negative, although `methods.py` speaks of scores in [0, 1]: no commit looks at either; missing equity or debt counts as 0 in the invested capital, so that a return on it (`roic_3y_avg`, which
`quality_floor/v2.yaml` uses) looks higher than it is; a year without its cash flow counts as one without a surplus; interim filings are read by a metric and written by no code; a failed request for capital signals is
cached as "no signals" for as long as the file lives; a run with `--date` of another day, or over midnight, raises at its
next ticker; the drift ruling is advisory and passes over thresholds whose old value is 0.
A cached figure is not replaced when its report is corrected. An income statement row with the right id and blank amounts hides the comprehensive one that has them.

Universe, catalyst, segments: a universe built for an earlier `--date` writes the price of today under that date into the NAV history, and
a narrowing looks at all lines whatever date the scan is for; a sum over the quotes that came is stored like a
whole one (`NarrowingIsTrue` speaks of whole lines only, for this reason); the scan raises after some windows were read, and the
detectors keep the oldest of them while the warning says that there are none; a look back of 90 days reads 91; the
index asks, for each concept, for the largest k of all segments, so a segment with a smaller one has more members than it names;
an attribute that a company no longer has stays in the index; a top-k leaf under a `not` takes a missing vector for a far one (finding 11; `MembershipIsSound` excepts it by name); vectors of two models are compared; two segments of one rank leave the ticker without
any enrichment, its own included.

Files and calendar: two GCs at once (above); a killed GC, or a write beside one, can leave a copy whose number is greater and whose
content is older; of the account summaries the GC keeps the last, and with the others goes the window that
the brake's peak is taken over; nothing prunes `.tmp` files. A refresh never takes a holiday away, and three empty answers are only
a warning; a process reads the calendar once. `early_cycle` gets no vote; `late_cycle_persistence_months` is read by no code; the breadth
vote looks at no date.

Chain: every `run_stage` logs `[OK]`, for the reason of
finding 3; `screener.main` knows no `--trail-dir`, so that stage ends with a usage error under the override;
a `--dry-run` writes the canonical names of the day, which then hold empty artifacts for every reader; after
`--phase all` and `--phase post-stage4` the real sizing report is `05-sizing-recommendation.1.json`, which nobody
opens; the notify of a rerun sends the first brief again; the refreshed constituents go to
`_spx_constituents.1.json` when the old cache exists, which neither the age test nor Stage 0a opens, so a stale
cache stays stale and a torn one stops Stage 0a until a person removes it. The drift audit of the scheduler overwrites its
snapshot of the day.

## 4. Proofs

All theorems hold for every value of the constants under the `ASSUME`s of the module, all of which
TLC evaluates in the runs.

- **ArtifactStore.** `NoHole` even for racing writers, from `HoleInv` (`NoHole` is not inductive:
  it needs that every name below the one a writer is probing exists, and that names never
  disappear). With `Serialized`, `AckedDurable` and `NeverOverwritten` from `SerialInv`: at most
  one call is active, the name it chose is still free, the one it opened is torn; then an `Open`
  can hit no finished artifact.
  `RefinesLog` from `LogInv`, both invariants and that the name a writer has open is the last one: `Open` maps to `Start`, `Dump` to
  `Seal`, and every other step to a stutter. That the names of a path are the first `Count` ones needs the least free name, which
  comes from the well-foundedness of the numbers.
- **Retention** (in `ArtifactStore_proofs`, of the composition `MCSpec`). `EvidenceSurvives` for any kinds, tickers, dates and writes, and any number
  of GCs killed anywhere, from `GcInv`: while a plan is carried out, each permanent name has a copy that the plan does not
  take, and each snapshot has such a copy of a date that is not earlier. A write beside the GC
  takes a free name, which is in no plan, and the renames come after the deletes. `OnePassSettles` from `SettleInv`: from the plan on,
  what it leaves is one copy of a name, to be renamed unless it has the plain name already, well-formed, and of a snapshot one date; each
  delete takes a file of the plan and each rename keeps this. `NewestCopyKept` from `OrderInv`: as long as no GC was killed half-way and none had a
  write beside it, the copies of a name are numbered in the order of their writing without a hole, so that the greatest number is the newest copy.
  The property leaves out names that the registry lists without a glob: with a copy beside it, such a name goes altogether (finding 4).
- **RunLock.** With `Spaced`, `RunHoldsLock` and `MutualExclusion` from `Inv`: at most one launch is
  in the lock section, and what it read there (no file, or which PID) is still true.
- **Calendar** (in `RunLock_proofs`, of the composition `MCSpec`). `ClosedStaysClosed` for any years, holidays, announcements and refreshes that die. `CalInv`
  keeps the holidays at or after date 0, so that the first day of the week before it is open in any cache; then `Normalize` finds an open day, which
  a cache that only grows never makes one of the closed ones.
- **Regime** (there too). `StreakNotBridged` for any regimes, signals, outages, dates and closed days (`RegimesAssumption`), from `StreakInv`: a report is torn
  exactly in the directories where a run died, and is what the first run there said otherwise; and no step back leads to a later directory than
  the step before it (`PlaceFacts`), so that the streak ends at the first report that says something else.
- **ShadowAudit.** With `Serialized`, `UniqueTradeIds`, `LogNeverAhead`, `StaysReadable` and
  `HistoryAccumulates`. `Inv` ties each process to the files by its position: what it loaded is
  what the state file still holds, its descriptor points at the temporary file until the rename, and the rows it has
  still to append lie above every row of the CSV and below the state's counter. The interesting step is the append, where the
  ids of the new rows must lie above all old ones though earlier runs died before appending.
- **ShadowPortfolio** (in `ShadowAudit_proofs`, of the composition `MCSpec`). `NavConserved` for any prices, trails, tiers and slots
  (`EngineAssumption`): cash and holdings at the prices of the run are the same before and after each exit and each entry, and
  the entries are a fold over the wanted tickers (`FoldsRange`, `FoldAlong` of `NatSets`), which never spends more than the cash.
  `QuarterHistory` from `EngineInv`: the recorded quarters of a tier are, ascending, those that have a snapshot, are over and did not
  begin with a NAV of zero, where the rollover computes no return. `RerunIsIdempotent` from `RerunInv`: after a run the snapshot of the day is the books', and `Update` with the same inputs
  finds nothing to exit, to enter or to rebalance. Two hypotheses: `Len(Tier0Tickers) <= 2`, since the index of `tier_0`
  has two tickers at one half each; and, in a state, `IndexSplits`, which leaves out a few tiny odd NAVs where the integers of the
  model round the two halves to something else. The code computes with floats there, and TLC checks the property without that hypothesis.
- **Sizing.** The types, and `ComputesAlways` (the stage computes `SizeAll` of its candidates, and blocks all or
  none), then `WithinCaps`, `BrakeKeepsTickers`, `SizesAreRecommended`. The sum cap is the hard one: the rounded sum is at most the cap plus
  half a unit for each position. It is proved by induction over partial sums, in the set form of `NatSets`. `OrderFollowsAsymmetry` follows from `Computes` too: each of clamp, half cap, floor, brake,
  scaling and cash block keeps the order of two sizes, and so does their composition (`RoundDivMonotone`, `RoundDivScaled` of `NatSets`), for any thresholds.
- **ThesisStore** (in `Sizing_proofs`, of the composition `MCSpec`). `CompleteFilesKept` for any tickers, candidates, edits and deaths: 5a
  opens a `thesis.json` only where none is, and its dump fills the file only while it is torn. `AlarmsNeverEase` from `AlarmsInv`: what a monitor said last of a thesis is no
  worse than what it would say today, since the time used only grows. `AcceptedIsWatched` from `RunInv`, which says at each position of the run which
  candidates are behind it and what the run left of them, unless the user was at the file. `PastHorizonAsks` from the types of the theses (`ThesesTyped`) and the
  arithmetic of the two clocks (30.4375 days to a month, rounded to four digits, against whole days): it needs `MediumMax <= 98` per cent, since 5d, which
  rounds days down, calls a thesis of one month expired after 30 days, 98.56 per cent of its horizon. `thresholds.yaml:127` says 90.
- **DrawdownBrake** (in `Account_proofs`). `SameDayAgrees`, `NoFalseBrake` and `PeakFallsOnlyByAge` for any lookback, threshold, number of days, runs and faults, from
  `DaysInv`: nothing is derived for a date ahead of today; every derived artifact is borne out by the first summaries of its
  window (its peak was observed there, it is at least as high as the usable totals of the dates before, and a drawdown over
  the threshold has its evidence); what a Stage 5 run saw is still the first derived artifact. None of the three properties is inductive: each speaks of files that later runs of the
  date could have changed, were it not that a reader opens the name without suffix, whose content stays (`FirstStays`).
- **KisSession** (in `Account_proofs`, of the composition `MCSpec`). `SentTokenIsLive` for any number of stages and sessions, from `KisInv`: a whole
  token in the cache or in the temporary file carries a stamp at most one unit later than the server's
  issue of it; a stage under way is at most a unit old, the token it holds was issued no earlier than the ttl before its session began, and
  the stamp that it is about to write is again within a unit. The race on the one `.tmp` needs no argument of its own: either
  writer's content satisfies the bound. `SummaryIsHonest` from `SummaryInv`: while the calls are made, the status is "ok" exactly if none
  failed so far, and the total and the holdings are what the answers in `did` say.
- **Screening.** `LaterCommitIsNewer` from `CommitInv`: a version that returned is at most the highest listed one, a version under
  way lies above those that had returned when it began, a listed file under a writer is torn, and it has one writer. `VerdictFromOnePolicy` from
  `BatchInv`: what the memo holds of a ticker was its latest version since the batch began, gate and rules have the same,
  and a whole version stays as it is while others are appended. Both hold for any rule trees: the proofs use of the evaluation only
  that it is a function of the snapshot and the tree. `PassSurvivesKnowledge` opens the trees. `PassInv` carries a pass from the rules to the report: what
  the memo holds was read at once, the snapshot at hand is one, and each pass is what `Judge` makes of the snapshot and the policy it names. The rest is about the
  rules alone. `Result` and `Nodes` exist for any finite set of well-founded trees (`TreesGrow`: a largest set of trees, closed under
  subtrees, on which their equations have a solution, is the whole set). More knowledge makes no result worse (`ResultsBetter`: neither the verdict nor the score): a set of regular trees where one got worse
  would have one whose subtrees did not (`TreesAssumption`), but a leaf that has its value keeps it (`KnownStays`), one without has the worst, and a count of years with a surplus only grows (`YearsGrow`), all of this for figures but those that are read as 0 (`LeafBetter`), and an and, an or and a
  weighted sum grow with their parts (`AndOrBetter`, `WeightedSumBetter`, by the order of partial sums in `NatSets`). A tree that built, did not raise and is
  monotone has only regular nodes, and it does not raise on more knowledge either, since its operators were accepted (`PassStands`; that every policy on file was is
  an invariant of its own, `PolicyAccepted`). The guards are leaves, so they hold for any rules (`GuardsStand`). What is excepted (`ReadAsZero`) is total debt, which every ratio reads as 0, and the equity of
  a tree that asks for the return on invested capital. The theorem speaks of figures that are missing in a year there is a record of, not of years that are missing altogether.
- **DailyRun** (in `Pipeline_proofs`). `OneStory` for any number of dates, launches and faults, from the types and one lemma,
  `CanonicalStays`: a step leaves the log of a file alone or adds to its end, so that a reader of the plain
  name finds what every later reader finds. `FailureDoesNotSpread` from `Accounted`, an invariant of the launch under
  way: each step that came to an outcome has left a whole version, or failed itself, or has a torn input; such an
  excuse lasts because a torn canonical file stays torn (`CanonicalStays` again). `StaleBreadthOnlyByFault`: in every phase that has
  a regime the fetch stands right before it, so that the regime finds its own launch's breadth or the fetch failed. `CleanDayIsComplete` from `CleanInv`: a first daily
  launch that is undisturbed so far has left a whole version of each stage behind it, with all its inputs, and no file of a stage
  ahead; that the inputs of a stage come before it in the order of the lines is a lemma of its own (`InputsComeBefore`).
- **Disclosures** (these four in `Pipeline_proofs`, of `ResearchSpec`). `StandingFilingSeen` for any list, page size, window, consumers and retries
  (`ScanInv`): a filing that the scan answers for is in a window still to come, on a page still to be read, or settled, that is, an event or
  past the last page. A new filing in the window only moves the others on, never back over the page being read (`NewerIsAbove`,
  `DivisionMonotone`), and the pages up to the last one hold the whole list (`PartsCover`).
- **Discovery.** `NarrowingIsTrue` and `PanicStraddlesFiling` for any companies, calendars, prices that fail and reruns, from `StagesInv`: each line of
  a history is the only one of its date, and a whole line made on its day has that day's premium. The first and the last line of a window are then
  true ones of different days (`ScanIsTrue`). For the panic, the rows that `_kis_around` indexes are the last sessions in their order
  (`SessionsAreLast`), so that the two around the filing have one session between them.
- **Segments.** `IndexIsCurrent` for any tickers, concepts, texts, models, deaths and failed embeddings, from `LayerInv`: each vector that is wanted is there already or
  in the queue of the build under way, and a key has one vector (a concept has an anchor or seeds, not both). `MembershipIsSound` for any
  finite set of selectors that put no top-k leaf under a negation (`Plain`): the trees are recursive functions over `Selectors`, whose existence is no induction over data here but a
  lemma over the subsets of a finite set (`RecursionExists`), and the same lemma shows that what evaluates to true or false is so for every completion of the
  values that are missing (`SelectorSound`); a top-k leaf of a ticker without a vector is false, which is below whatever is taken for it as long as nothing negates it. `MergeIgnoresListing` for any family of segments: ranks that differ allow one order at most (`OneOrder`), equal ones are a conflict in every listing.
- **Financials.** `FiguresAreOfTheirYear` for any reports, days, rows and deaths, from `FiguresInv`: each payload between the request and the verdict, in the batch,
  in the temporary file and in the cache, is sound for its year: all its figures are of one report filed for it; and what was filed for a year stays, even when it is corrected (`FiledStays`).

The assumptions of these theorems are the named `ASSUME`s: types of the constants, sentinels that are no values, finite sets where the
code has lists and directories, `ResearchAssumption` (a concept has seeds or an anchor; a selector is a tree; a deadline lies within
its year; no old cache file has the schema of today), and those of the rules: `TreesAssumption` (a rule is a finite tree, with numbers for weights),
`GuardsAssumption` (`hard_guards.yaml` holds thresholds), `ScoresAssumption` (a method scores every value that occurs) and `RulesAssumption` (the default strategy
builds and has the operators of `leaf.py`; the drafts may hold any rule).

`NatSets` has what the proofs share: induction for a set of numbers instead of a predicate, partial sums, folds over `1 .. n`, greatest and least elements,
division and rounding.

Only model-checked: `StaleLockTaken` (liveness). `RerunIsIdempotent` without `IndexSplits` is checked on the instance of the run.

## 5. Not modelled

Statistics of the audit (bootstrap, t-tests) and text validators are data without control; so are the wording of reports,
citations, and names. Configuration and schemas are loaders. Notify, LLM dispatch, the audit log and the scheduler keep no state that is read back: each is
one call or one loop that records a failure and goes on (a chunked message that failed in the middle is marked as an error, and
a repeated notify sends its first chunks again). FRED, Yahoo and the embedding service are one request each; what their failures do is in the modules
of their callers. Agent skills are prompts; their outputs are inputs here.

In the modelled parts: amounts in won, the Markdown reports of 5b and 5d, `--dry-run`, the per-ticker balance files (read
by nobody), the creation and removal of directories, back-off times. `Retention` leaves out the dry-run report; `Regime` the exposure
budget and `--trail-dir`; `Discovery` the `spread_zscore` enricher (nothing reads its figure) and torn lines of the history, which the reader skips; `Segments` the
version files of the registry (the protocol of `Screening`) and the numbers of vectors; `Financials` the amounts, interim reports and
`PointInTimeFinancialCache`, a stub. In the chain: `--dry-run`, `--trail-dir`, weekends (the driver names the directory after the
calendar date, some stages after the trading date), and
launches that overlap, which are the subject of `RunLock` and `ArtifactStore`.

## 6. Plan

1. `SelfDisable`: `evaluate_self_disable_trigger` over the quarters of `ShadowPortfolio`.
2. The precedence global, segment, ticker with `--use-segments` inside `Screening`.
3. Notify fan-out with chunks that fail; the drift audit of the scheduler.
