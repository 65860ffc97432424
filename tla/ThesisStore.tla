------------------------------ MODULE ThesisStore ------------------------------
(***************************************************************************)
(* The thesis files of the open positions and the four stages that follow  *)
(* Stage 4 in a run: thesis_sync (5a) derives <ticker>/thesis.json from    *)
(* the accepted candidates, falsifier_proximity (5b),                      *)
(* event_falsifier_linker (5c) and thesis_expiry (5d) read every open      *)
(* thesis through PositionsStore and report on it.  The user amends and    *)
(* closes theses by hand, at any time.                                     *)
(*                                                                         *)
(* A month is 30.4375 days, so 16 days times 30.4375 are 487: durations    *)
(* are compared in sixteenths of a day.  The probe and the open of one     *)
(* write_output_safely are one step here; ArtifactStore takes them apart.  *)
(***************************************************************************)
EXTENDS Integers, Sequences, Rounding

CONSTANTS Tickers,
          Days,          \* bound: the trading days (day numbers) on which something happens
          Stage4,        \* what 04-thesis-candidates.json may hold on a day
          Stage3,        \* what 03-catalyst-events.json may hold: the tickers with the
                         \* catalyst their thesis watches
          NoticeDays, WarnDays,  \* thesis.expiry_alert.tiers
          LowMax, MediumMax,     \* falsifier.proximity_bands, in percent
          MaxRuns, MaxEdits, MaxDeaths,   \* bounds
          Missing,       \* no such file, or no report
          Torn           \* a file that is no JSON

Measured == {"time_cap", "metric_trigger"}
Events   == {"event_presence", "event_absence", "event_unspecified"}
Categories == Measured \cup Events     \* FALSIFIER_CATEGORIES, an event with its direction

Candidate == [ticker: Tickers, verdict: {"accepted", "other"}, kind: {"new_entry", "amendment"},
              category: Categories \cup {"unknown"}, horizon: Nat]

\* horizon = 0: time_horizon_months is missing.
Thesis == [status: {"open", "closed"}, category: Categories, entry: Days, horizon: Nat,
           by: {"stage4-derive", "user"}]

Proximities == {"low", "medium", "high", "unmeasurable"}
Tiers == {"ok", "notice", "warn", "expired", "overdue", "unmeasurable"}

ThesisAssumption ==
  /\ Days \subseteq Nat \ {0} /\ Days # {}
  /\ \A c \in Stage4 \ {Missing, Torn} : c \in Seq(Candidate)
  /\ \A s \in Stage3 \ {Missing} : s \subseteq Tickers
  /\ {NoticeDays, WarnDays, LowMax, MediumMax, MaxRuns, MaxEdits, MaxDeaths} \subseteq Nat
  /\ WarnDays <= NoticeDays /\ LowMax <= MediumMax
  /\ Missing # Torn /\ {Missing, Torn} \cap Thesis = {}
  /\ Missing \notin Proximities \cup Tiers

VARIABLES day, stage3, stage4,
          thesis,    \* <ticker>/thesis.json
          suffixed,  \* the tickers with a thesis.N.json, which nothing reads
          pc,        \* the stage under way
          next,      \* 5a: index of the candidate under way
          written,   \* 5a's report: the tickers it says it wrote
          proximity, events, expiry,  \* the reports of 5b, 5c and 5d of this run
          died,      \* a stage of this run died
          touched,   \* the theses the user changed since the run started
          runs, edits, deaths,
          alarm      \* history: per ticker what 5b and 5d last said of the thesis as it is

vars == <<day, stage3, stage4, thesis, suffixed, pc, next, written, proximity, events, expiry,
          died, touched, runs, edits, deaths, alarm>>

reports == <<written, proximity, events, expiry>>
bounds  == <<runs, edits, deaths>>

Signals == {"triggered", "not_triggered", "unspecified"}
Report(S) == {Missing} \cup UNION {[T -> S] : T \in SUBSET Tickers}

TypeOK ==
  /\ day \in Days /\ stage3 \in Stage3 /\ stage4 \in Stage4
  /\ thesis \in [Tickers -> Thesis \cup {Missing, Torn}]
  /\ suffixed \subseteq Tickers /\ written \subseteq Tickers /\ touched \subseteq Tickers
  /\ pc \in {"idle", "sync", "commit", "dump", "proximity", "linker", "expiry"}
  /\ next \in Nat \ {0}
  /\ proximity \in Report([band: Proximities, asks: BOOLEAN])
  /\ events \in Report(Signals)
  /\ expiry \in Report([tier: Tiers, asks: BOOLEAN])
  /\ died \in BOOLEAN
  /\ runs \in 0..MaxRuns /\ edits \in 0..MaxEdits /\ deaths \in 0..MaxDeaths
  /\ alarm \in [Tickers -> [band: Proximities \cup {Missing}, tier: Tiers \cup {Missing}]]

NoAlarm == [band |-> Missing, tier |-> Missing]

--------------------------------------------------------------------------------
(* PositionsStore. *)

Exists(t) == thesis[t] # Missing
Parses(t) == thesis[t] \notin {Missing, Torn}
IsOpen(t) == Parses(t) /\ thesis[t].status = "open"

\* load_open_raw, with or without a category: a file that is no JSON is passed over.
Open == {t \in Tickers : IsOpen(t)}
OpenEvents == {t \in Open : thesis[t].category \in Events}

(* The measures. *)

Elapsed(t) == day - thesis[t].entry

\* Mutant: the distance to the horizon on either side of it.
UsedAbs(t) ==
  LET months == RoundDiv(160000 * Elapsed(t), 487)
      left   == thesis[t].horizon * 10000 - months
  IN  thesis[t].horizon * 10000 - (IF left < 0 THEN 0 - left ELSE left)

\* How much of the horizon is used up, in ten thousandths of a month, at most
\* all of it: months_between rounds to four digits.
Used(t) ==
  LET months == RoundDiv(160000 * Elapsed(t), 487)
  IN  IF months > thesis[t].horizon * 10000 THEN thesis[t].horizon * 10000 ELSE months

\* classify: the band of the share of the horizon that is used up.
Band(t) ==
  LET reaches(percent) == Used(t) * 100 >= percent * thesis[t].horizon * 10000
  IN  IF reaches(MediumMax) THEN "high" ELSE IF reaches(LowMax) THEN "medium" ELSE "low"

\* measure_proximity as main calls it, without a market snapshot.
Proximity(t) ==
  CASE thesis[t].category = "time_cap" /\ thesis[t].horizon > 0
         -> [band |-> Band(t), asks |-> Band(t) = "high"]
    [] thesis[t].category = "time_cap" /\ thesis[t].horizon = 0
         -> [band |-> "unmeasurable", asks |-> TRUE]
    [] thesis[t].category = "metric_trigger" -> [band |-> "unmeasurable", asks |-> TRUE]
    [] thesis[t].category \in Events -> [band |-> "unmeasurable", asks |-> FALSE]

\* evaluate_position: a missing Stage 3 file is an empty list of catalysts.
Signal(t) ==
  LET seen == stage3 # Missing /\ t \in stage3
  IN  CASE thesis[t].category = "event_presence" -> IF seen THEN "triggered" ELSE "not_triggered"
        [] thesis[t].category = "event_absence"  -> IF seen THEN "not_triggered" ELSE "triggered"
        [] thesis[t].category = "event_unspecified" -> "unspecified"

\* Mutant: the days to the expiry without their sign.
RemainingAbs(t) ==
  LET left == (487 * thesis[t].horizon - 16 * Elapsed(t)) \div 16
  IN  IF left < 0 THEN 0 - left ELSE left

\* Whole days to the expiry, rounded down (timedelta.days).
Remaining(t) == (487 * thesis[t].horizon - 16 * Elapsed(t)) \div 16

\* classify_tier; overdue_days makes no difference to it.
Tier(t) ==
  CASE Remaining(t) < 0 -> "overdue"
    [] Remaining(t) = 0 -> "expired"
    [] Remaining(t) \in 1..WarnDays -> "warn"
    [] Remaining(t) \in (WarnDays + 1)..NoticeDays -> "notice"
    [] Remaining(t) > NoticeDays -> "ok"

\* compute_expiry.
Expiry(t) ==
  IF thesis[t].horizon = 0 THEN [tier |-> "unmeasurable", asks |-> TRUE]
  ELSE [tier |-> Tier(t), asks |-> Tier(t) \in {"warn", "expired", "overdue"}]

--------------------------------------------------------------------------------
Init ==
  /\ day \in Days /\ \A d \in Days : day <= d
  /\ stage3 \in Stage3 /\ stage4 \in Stage4
  /\ thesis = [t \in Tickers |-> Missing]
  /\ suffixed = {} /\ pc = "idle" /\ next = 1 /\ written = {}
  /\ proximity = Missing /\ events = Missing /\ expiry = Missing
  /\ died = FALSE /\ touched = {}
  /\ runs = 0 /\ edits = 0 /\ deaths = 0
  /\ alarm = [t \in Tickers |-> NoAlarm]

NextDay ==
  /\ pc = "idle"
  /\ \E d \in Days : d > day /\ day' = d
  /\ stage3' \in Stage3 /\ stage4' \in Stage4
  /\ UNCHANGED <<thesis, suffixed, pc, next, reports, died, touched, bounds, alarm>>

\* Stage 4 comes after a run that found no candidates (--phase all, then the skill).
Stage4Arrives ==
  /\ pc = "idle" /\ stage4 = Missing
  /\ stage4' \in Stage4 \ {Missing}
  /\ UNCHANGED <<day, stage3, thesis, suffixed, pc, next, reports, died, touched, bounds, alarm>>

\* The user writes, amends, closes or deletes a thesis.json.
UserEdits(t) ==
  /\ edits < MaxEdits
  /\ edits' = edits + 1
  /\ \E new \in {Missing}
                \cup [status: {"open", "closed"}, category: {"time_cap", "event_absence"},
                      entry: {day}, horizon: {1}, by: {"user"}] :
       thesis' = [thesis EXCEPT ![t] = new]
  /\ touched' = touched \cup {t}
  /\ alarm' = [alarm EXCEPT ![t] = NoAlarm]
  /\ UNCHANGED <<day, stage3, stage4, suffixed, pc, next, reports, died, runs, deaths>>

StartRun ==
  /\ pc = "idle" /\ runs < MaxRuns
  /\ runs' = runs + 1
  /\ pc' = "sync" /\ next' = 1
  /\ written' = {} /\ proximity' = Missing /\ events' = Missing /\ expiry' = Missing
  /\ died' = FALSE /\ touched' = {}
  /\ UNCHANGED <<day, stage3, stage4, thesis, suffixed, edits, deaths, alarm>>

--------------------------------------------------------------------------------
(* Stage 5a, thesis_sync. *)

\* load_candidates: no file, or one that is no JSON, is no candidate.
Candidates == IF stage4 \in {Missing, Torn} THEN <<>> ELSE stage4

Wanted(c) == c.verdict = "accepted" /\ c.kind = "new_entry"

Sane(c) == c.category # "unknown"

\* The candidate is projected: it is accepted, a new entry, its ticker has no
\* thesis.json at all, and PositionThesis does not raise.
Takes(c) == Wanted(c) /\ ~Exists(c.ticker) /\ Sane(c)

\* Mutant: the first candidate passed over ends the loop.
SkipRest ==
  /\ pc = "sync" /\ next <= Len(Candidates)
  /\ ~Takes(Candidates[next])
  /\ next' = Len(Candidates) + 1
  /\ UNCHANGED <<day, stage3, stage4, thesis, suffixed, pc, reports, died, touched, bounds, alarm>>

Skip ==
  /\ pc = "sync" /\ next <= Len(Candidates)
  /\ ~Takes(Candidates[next])
  /\ next' = next + 1
  /\ UNCHANGED <<day, stage3, stage4, thesis, suffixed, pc, reports, died, touched, bounds, alarm>>

Take ==
  /\ pc = "sync" /\ next <= Len(Candidates)
  /\ Takes(Candidates[next])
  /\ pc' = "commit"
  /\ UNCHANGED <<day, stage3, stage4, thesis, suffixed, next, reports, died, touched, bounds, alarm>>

\* Mutant: commit opens thesis.json without looking whether there is one by now.
CommitOver ==
  /\ pc = "commit"
  /\ LET t == Candidates[next].ticker IN
       /\ thesis' = [thesis EXCEPT ![t] = Torn]
       /\ pc' = "dump"
       /\ alarm' = [alarm EXCEPT ![t] = NoAlarm]
       /\ UNCHANGED <<suffixed, next, written>>
  /\ UNCHANGED <<day, stage3, stage4, proximity, events, expiry, died, touched, bounds>>

\* commit through write_output_safely: thesis.json, or thesis.N.json when the
\* user has written one since the guard looked.
Commit ==
  /\ pc = "commit"
  /\ LET t == Candidates[next].ticker IN
       \/ /\ ~Exists(t)
          /\ thesis' = [thesis EXCEPT ![t] = Torn]
          /\ pc' = "dump"
          /\ alarm' = [alarm EXCEPT ![t] = NoAlarm]
          /\ UNCHANGED <<suffixed, next, written>>
       \/ /\ Exists(t)
          /\ suffixed' = suffixed \cup {t}
          /\ written' = written \cup {t}
          /\ pc' = "sync" /\ next' = next + 1
          /\ UNCHANGED <<thesis, alarm>>
  /\ UNCHANGED <<day, stage3, stage4, proximity, events, expiry, died, touched, bounds>>

\* json.dump completes the file, unless the user has replaced or deleted it.
Dump ==
  /\ pc = "dump"
  /\ LET c == Candidates[next] IN
       /\ thesis' = IF thesis[c.ticker] # Torn THEN thesis
                    ELSE [thesis EXCEPT ![c.ticker] =
                            [status |-> "open", category |-> c.category, entry |-> day,
                             horizon |-> c.horizon, by |-> "stage4-derive"]]
       /\ written' = written \cup {c.ticker}
  /\ next' = next + 1
  /\ pc' = "sync"
  /\ UNCHANGED <<day, stage3, stage4, suffixed, proximity, events, expiry, died, touched, bounds,
                 alarm>>

SyncEnds ==
  /\ pc = "sync" /\ next > Len(Candidates)
  /\ pc' = "proximity"
  /\ UNCHANGED <<day, stage3, stage4, thesis, suffixed, next, reports, died, touched, bounds, alarm>>

--------------------------------------------------------------------------------
(* The monitors. *)

MeasureProximity ==
  /\ pc = "proximity"
  /\ proximity' = [t \in Open |-> Proximity(t)]
  /\ alarm' = [t \in Tickers |-> IF t \in Open THEN [alarm[t] EXCEPT !.band = Proximity(t).band]
                                 ELSE alarm[t]]
  /\ pc' = "linker"
  /\ UNCHANGED <<day, stage3, stage4, thesis, suffixed, next, written, events, expiry, died,
                 touched, bounds>>

LinkEvents ==
  /\ pc = "linker"
  /\ events' = [t \in OpenEvents |-> Signal(t)]
  /\ pc' = "expiry"
  /\ UNCHANGED <<day, stage3, stage4, thesis, suffixed, next, written, proximity, expiry, died,
                 touched, bounds, alarm>>

MonitorExpiry ==
  /\ pc = "expiry"
  /\ expiry' = [t \in Open |-> Expiry(t)]
  /\ alarm' = [t \in Tickers |-> IF t \in Open THEN [alarm[t] EXCEPT !.tier = Expiry(t).tier]
                                 ELSE alarm[t]]
  /\ pc' = "idle"
  /\ UNCHANGED <<day, stage3, stage4, thesis, suffixed, next, written, proximity, events, died,
                 touched, bounds>>

\* A stage dies (killed, disk full) and leaves no report: the pipeline goes on
\* with the next one.
StageDies ==
  /\ pc # "idle" /\ deaths < MaxDeaths
  /\ deaths' = deaths + 1
  /\ died' = TRUE
  /\ pc' = CASE pc \in {"sync", "commit", "dump"} -> "proximity"
             [] pc = "proximity" -> "linker"
             [] pc = "linker"    -> "expiry"
             [] pc = "expiry"    -> "idle"
  /\ UNCHANGED <<day, stage3, stage4, thesis, suffixed, next, reports, touched, runs, edits, alarm>>

Next ==
  \/ NextDay \/ Stage4Arrives \/ StartRun
  \/ \E t \in Tickers : UserEdits(t)
  \/ Skip \/ Take \/ Commit \/ Dump \/ SyncEnds
  \/ MeasureProximity \/ LinkEvents \/ MonitorExpiry \/ StageDies

Spec == Init /\ [][Next]_vars

--------------------------------------------------------------------------------
(* What the user decided is the user's: no step but the user's own changes *)
(* a thesis.json that is complete, closed theses and files written while   *)
(* 5a is at work included (thesis_sync's guard, write_output_safely).      *)
CompleteFilesKept ==
  [][\A t \in Tickers : Parses(t) /\ thesis'[t] # thesis[t] => edits' > edits]_vars

(* The monitors' reading of the last step of a run in which nothing died.  *)
EndsRun == pc = "expiry" /\ pc' = "idle" /\ ~died'

(* No candidate falls through: when a run in which nothing died ends,      *)
(* every ticker that 5a reports as written, and every accepted candidate   *)
(* that can be projected, is watched: 5b and 5d report on its thesis, and  *)
(* 5c if the falsifier is an event.  The exceptions are a thesis that is   *)
(* closed or torn and one that the user was at.                            *)
AcceptedIsWatched ==
  [][EndsRun =>
       LET Watched(t) ==
             /\ t \in DOMAIN proximity' \cap DOMAIN expiry'
             /\ thesis'[t].category \in Events => t \in DOMAIN events'
       IN /\ \A t \in written' \ touched' : Watched(t)
          /\ \A i \in DOMAIN Candidates :
               LET c == Candidates[i] IN
               Wanted(c) /\ Sane(c) =>
                 \/ c.ticker \in touched'
                 \/ thesis[c.ticker] = Torn
                 \/ Parses(c.ticker) /\ thesis[c.ticker].status = "closed"
                 \/ Watched(c.ticker)]_vars

(* A thesis that has used up its horizon is reported expired or overdue,   *)
(* and one that is reported so asks the user for a decision in both        *)
(* monitors that measure time, though 5b rounds months to four digits and  *)
(* 5d rounds days down (months_between, classify, classify_tier).          *)
PastHorizonAsks ==
  [][EndsRun =>
       \A t \in (DOMAIN proximity' \cap DOMAIN expiry') \ touched' :
         /\ thesis[t].horizon > 0 /\ 16 * Elapsed(t) >= 487 * thesis[t].horizon
              => expiry'[t].tier \in {"expired", "overdue"}
         /\ expiry'[t].tier \in {"expired", "overdue"}
              => /\ expiry'[t].asks
                 /\ thesis[t].category = "time_cap" => proximity'[t].asks]_vars

Rank(x) == CASE x = "low" -> 1 [] x = "medium" -> 2 [] x = "high" -> 3
             [] x = "ok" -> 1 [] x = "notice" -> 2 [] x = "warn" -> 3
             [] x = "expired" -> 4 [] x = "overdue" -> 5
             [] x = "unmeasurable" -> 0 [] x = Missing -> 0

(* Alarms never ease by themselves: while nobody changes a thesis, neither *)
(* monitor reports it further from its horizon than it did before, however *)
(* long it is overdue and however many runs are missed.                    *)
AlarmsNeverEase ==
  [][\A t \in Tickers :
       /\ alarm'[t].band # Missing => Rank(alarm'[t].band) >= Rank(alarm[t].band)
       /\ alarm'[t].tier # Missing => Rank(alarm'[t].tier) >= Rank(alarm[t].tier)]_vars

(* "No Stage 3 output ... every event_trigger ticker -> signal=unspecified"*)
(* (the warning of event_falsifier_linker): without the file of the day no *)
(* signal is given.                                                        *)
MissingStage3Unspecified ==
  pc = "expiry" /\ events # Missing /\ stage3 = Missing =>
    \A t \in DOMAIN events : events[t] = "unspecified"
================================================================================
