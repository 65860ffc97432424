----------------------------- MODULE DrawdownBrake -----------------------------
(***************************************************************************)
(* The drawdown circuit breaker across days (G17).  Each run of a day      *)
(* reads the account from KIS and writes summary-{date}.json               *)
(* (risk_engine/positions_sync), derives the drawdown from the summaries of *)
(* the last LOOKBACK days into derived-{date}.json                         *)
(* (application/portfolio_state), and decides in Stage 5 whether sizes are *)
(* halved (application/sizing).                                            *)
(*                                                                         *)
(* Artifacts are written by write_output_safely: a second one of the same  *)
(* date gets a suffix and the first stays.  The readers open the name      *)
(* without suffix, so they see the first artifact of a date only.  A       *)
(* process that dies while writing leaves a torn artifact; one that dies   *)
(* before it leaves none.  portfolio.yaml gives no drawdown override here: *)
(* Sizing models the override.                                             *)
(***************************************************************************)
EXTENDS Integers, Sequences, Rounding

CONSTANTS LastDay,      \* bound: days are 1..LastDay
          Assets,       \* what the account may be worth on a day
          Readings,     \* what KIS may answer for it besides the truth
          Lookback,     \* DEFAULT_LOOKBACK_DAYS
          Unit,         \* a drawdown is a number of 1/Unit
          Threshold,    \* sizing.drawdown_brake.threshold_pct
          MaxRuns,      \* bound: runs over all days
          MaxFaults,    \* bound: failed calls, deaths and wrong readings
          None, Torn

ASSUME DrawdownAssumption ==
  /\ LastDay \in Nat \ {0} /\ Lookback \in Nat
  /\ Assets \subseteq Nat \ {0} /\ Readings \subseteq Nat
  /\ Unit \in Nat \ {0} /\ Threshold \in Nat \ {0}
  /\ MaxRuns \in Nat /\ MaxFaults \in Nat
  /\ None # Torn /\ None \notin Nat /\ Torn \notin Nat

VARIABLES day,
          assets,     \* what the account is worth, per day so far
          summaries,  \* the summaries of each date in order of writing
          derived,    \* the derived states of each date in order of writing
          sized,      \* the Stage 5 decisions of each date
          pc,         \* the stage the run is at
          runs, faults

vars == <<day, assets, summaries, derived, sized, pc, runs, faults>>

Days == 1..LastDay

\* A summary's total_assets_krw, or None when the sync was skipped or partial.
Summary == Assets \cup Readings \cup {None, Torn}

\* peak, peak_observed_at and current_drawdown_pct of a derived state.
Derived == [peak: Assets \cup Readings \cup {None}, at: Days \cup {None}, drawdown: Nat \cup {None}]

Decision == [seen: {None} \cup Derived, brake: BOOLEAN]

TypeOK ==
  /\ day \in Days
  /\ assets \in [1..day -> Assets]
  /\ summaries \in [Days -> Seq(Summary)]
  /\ derived \in [Days -> Seq(Derived \cup {Torn})]
  /\ sized \in [Days -> Seq(Decision)]
  /\ pc \in {"idle", "sync", "derive", "size"}
  /\ runs \in 0..MaxRuns /\ faults \in 0..MaxFaults

--------------------------------------------------------------------------------
(* What the readers see. *)

\* The artifact under the name without suffix.
Canonical(artifacts) == IF artifacts = <<>> THEN None ELSE Head(artifacts)

HasSummary(d) == summaries[d] # <<>>

\* Mutant: range(0, lookback_days), one day short.
WindowShort(d) == {e \in Days : e <= d /\ e + Lookback > d}

\* The dates whose summary the derivation of day d looks at.
Window(d) == {e \in Days : e <= d /\ e + Lookback >= d}

\* Mutant: any number will do.
UsableAny(total) == total \notin {None, Torn}

\* A total that counts: isinstance(ta, (int, float)) and ta > 0.
Usable(total) == total \notin {None, Torn, 0}

\* max(0, (peak - current) / peak), or None.
Drawdown(peak, current) ==
  IF peak = None \/ current = None THEN None
  ELSE IF current >= peak THEN 0 ELSE RoundDiv((peak - current) * Unit, peak)

Latest(ds) == CHOOSE e \in ds : \A f \in ds : f <= e

\* The most recent summary is the current one, whatever it holds.
Current(scanned) == Latest(scanned)

\* derive_state: the peak over the scanned summaries (the latest date that
\* holds it), and the drawdown of the current summary from it.
DeriveState(d) ==
  LET scanned == {e \in Window(d) : HasSummary(e)}
      total(e) == Canonical(summaries[e])
      valid == {e \in scanned : Usable(total(e))}
      atPeak == {e \in valid : \A f \in valid : total(f) <= total(e)}
      peak == IF valid = {} THEN None ELSE total(Latest(atPeak))
  IN  IF scanned = {} THEN [peak |-> None, at |-> None, drawdown |-> None]
      ELSE LET now == total(Current(scanned)) IN
           [peak |-> peak,
            at |-> IF valid = {} THEN None ELSE Latest(atPeak),
            drawdown |-> IF now = Torn THEN None
                         ELSE Drawdown(peak, IF Usable(now) THEN now ELSE None)]

\* Mutant: the newest derived state of the date.
LoadDerivedNewest(d) ==
  LET a == derived[d] IN
  IF a = <<>> \/ a[Len(a)] = Torn THEN None ELSE a[Len(a)]

\* load_derived_state: the canonical file, or None.
LoadDerived(d) ==
  LET a == Canonical(derived[d]) IN IF a = Torn THEN None ELSE a

\* The fallback of _portfolio_context_from_yaml is a drawdown of 0.
BrakeFrom(seen) ==
  /\ seen # None
  /\ seen.drawdown # None
  /\ seen.drawdown >= Threshold

--------------------------------------------------------------------------------
Init ==
  /\ day = 1
  /\ assets \in [1..1 -> Assets]
  /\ summaries = [d \in Days |-> <<>>]
  /\ derived = [d \in Days |-> <<>>]
  /\ sized = [d \in Days |-> <<>>]
  /\ pc = "idle" /\ runs = 0 /\ faults = 0

\* The market moves and the date changes; no run spans midnight.
NextDay ==
  /\ pc = "idle" /\ day < LastDay
  /\ day' = day + 1
  /\ \E a \in Assets : assets' = Append(assets, a)
  /\ UNCHANGED <<summaries, derived, sized, pc, runs, faults>>

StartRun ==
  /\ pc = "idle" /\ runs < MaxRuns
  /\ runs' = runs + 1
  /\ pc' = "sync"
  /\ UNCHANGED <<day, assets, summaries, derived, sized, faults>>

\* sync_account and write_artifacts: the total of the balance call, else of the
\* assets call; None when the policy gate, a missing key or the token skips the
\* sync, or both calls fail.  Everything but the true total is a fault.
Sync ==
  /\ pc = "sync"
  /\ \E total \in {assets[day]} \cup Readings \cup {None, Torn} :
       /\ total # assets[day] => faults < MaxFaults
       /\ summaries' = [summaries EXCEPT ![day] = Append(@, total)]
       /\ faults' = IF total = assets[day] THEN faults ELSE faults + 1
  /\ pc' = "derive"
  /\ UNCHANGED <<day, assets, derived, sized, runs>>

Derive ==
  /\ pc = "derive"
  /\ \E state \in {DeriveState(day), Torn} :
       /\ state = Torn => faults < MaxFaults
       /\ derived' = [derived EXCEPT ![day] = Append(@, state)]
       /\ faults' = IF state = Torn THEN faults + 1 ELSE faults
  /\ pc' = "size"
  /\ UNCHANGED <<day, assets, summaries, sized, runs>>

Size ==
  /\ pc = "size"
  /\ sized' = [sized EXCEPT ![day] =
                 Append(@, [seen |-> LoadDerived(day), brake |-> BrakeFrom(LoadDerived(day))])]
  /\ pc' = "idle"
  /\ UNCHANGED <<day, assets, summaries, derived, runs, faults>>

\* A stage dies before it writes: the pipeline goes on with the next one.
StageDies ==
  /\ pc # "idle" /\ faults < MaxFaults
  /\ faults' = faults + 1
  /\ pc' = CASE pc = "sync" -> "derive" [] pc = "derive" -> "size" [] pc = "size" -> "idle"
  /\ UNCHANGED <<day, assets, summaries, derived, sized, runs>>

Next == NextDay \/ StartRun \/ Sync \/ Derive \/ Size \/ StageDies

Spec == Init /\ [][Next]_vars

--------------------------------------------------------------------------------
(* Two Stage 5 runs of the same date never act on different derived states:*)
(* once one has seen the canonical state, later ones see the same, whatever*)
(* syncs and derivations ran in between (load_derived_state, G20).         *)
SameDayAgrees ==
  \A d \in Days : \A i, j \in DOMAIN sized[d] :
    i < j /\ sized[d][i].seen # None => sized[d][j].seen = sized[d][i].seen

(* The brake is never put on without evidence: a braked run has behind it  *)
(* two dates of the window whose first summaries hold positive totals at   *)
(* least Threshold apart, the lower one later (derive_state).              *)
NoFalseBrake ==
  \A d \in 1..day : \A i \in DOMAIN sized[d] :
    sized[d][i].brake =>
      \E e, f \in Days :
        /\ e <= f /\ f <= d /\ e + Lookback >= d
        /\ HasSummary(e) /\ HasSummary(f)
        /\ LET high == Head(summaries[e])
               low  == Head(summaries[f])
           IN  /\ {high, low} \cap {None, Torn, 0} = {}
               /\ (high - low) * Unit + high >= Threshold * high

(* The peak never gets lost: from one date to the next the derived peak    *)
(* falls only when the date it was observed at has left the lookback       *)
(* window, whatever reruns, skipped syncs and torn files there are.        *)
PeakFallsOnlyByAge ==
  \A d \in 1..(day - 1) :
    LET a == Canonical(derived[d])
        b == Canonical(derived[d + 1])
    IN  a \notin {None, Torn} /\ b \notin {None, Torn} /\ a.peak # None =>
          \/ b.peak # None /\ b.peak >= a.peak
          \/ a.at + Lookback < d + 1

(* "Drawdown brake not applied: sizing printed as is though -15% is        *)
(* reached violates G17" (context-risk/SKILL.md): a day whose sync brought *)
(* no total does not release the brake of the day before, as long as the   *)
(* peak it was put on for is in the window.                                *)
BrakeKeptWithoutNews ==
  \A d \in 1..(day - 1) :
    sized[d] # <<>> /\ Head(sized[d]).brake /\ Head(sized[d]).seen.at + Lookback >= d + 1
    /\ Canonical(summaries[d + 1]) = None
    => \A i \in DOMAIN sized[d + 1] :
         sized[d + 1][i].seen # None => sized[d + 1][i].brake
================================================================================
